-------------------------- MODULE FatVolume_proofs --------------------------
(***************************************************************************)
(* Proofs about FatVolume for volumes of any size, any set of names and    *)
(* any lengths, with crashes that interrupt only write.                    *)
(*                                                                         *)
(* own[s] is the chain of the file in slot s as a sequence of clusters,    *)
(* own[0] the chain the running command builds or still has to free.  The  *)
(* inductive invariant says that such an assignment exists, in which no    *)
(* cluster occurs twice, and that the FAT shows these chains once the      *)
(* sectors in todo are written.                                            *)
(***************************************************************************)
EXTENDS FatVolume, LeastElements, SequenceTheorems

-----------------------------------------------------------------------------
(* Chains as sequences of clusters.                                         *)

FirstOf(q) == IF q = <<>> THEN 0 ELSE q[1]
LastOf(q) == IF q = <<>> THEN 0 ELSE q[Len(q)]
Succ(q, i) == IF i = Len(q) THEN EndOfChain ELSE q[i + 1]

(* The entry of c in copy k is v, or will be when todo is written.          *)
Will(k, c, v) == fat[k][c] = v \/ \E j \in DOMAIN todo : todo[j] = <<k, c, v>>

Owners == 0 .. NumSlots
Owns(own, x, c) == \E i \in DOMAIN own[x] : own[x][i] = c

(* Every chain has its clusters to itself and no cluster twice.             *)
Apart(own) ==
  \A x, y \in Owners : \A i \in DOMAIN own[x], j \in DOMAIN own[y] :
    own[x][i] = own[y][j] => x = y /\ i = j

Linked(q) == \A i \in DOMAIN q : \A k \in Copies : Will(k, q[i], Succ(q, i))

(* What is still to be written links the running command's chain, or frees  *)
(* a cluster nobody owns.                                                   *)
PendingWrites(own) ==
  \A j \in DOMAIN todo :
    \/ todo[j][3] = Free /\ \A x \in Owners : ~Owns(own, x, todo[j][2])
    \/ \E i \in DOMAIN own[0] : todo[j][2] = own[0][i] /\ todo[j][3] = Succ(own[0], i)

Chains(own) ==
  /\ own \in [Owners -> Seq(Clusters)]
  /\ Apart(own)
  /\ \A x \in Owners : Linked(own[x])
  /\ PendingWrites(own)

(* n clusters are as many as size bytes need.                               *)
Fits(n, size) ==
  IF n = 0 THEN size = 0
  ELSE (n - 1) * (SectorsPerCluster * SectorSize) < size
       /\ size <= n * (SectorsPerCluster * SectorSize)

(* Every file owns the chain its entry names.                               *)
FilesOwn(own) ==
  \A s \in Slots :
    IF s \in Files
    THEN dir[s].start = FirstOf(own[s]) /\ Fits(Len(own[s]), dir[s].size)
    ELSE own[s] = <<>>

(* Unless a crash lost it, a cluster that is not free has an owner or is    *)
(* about to be freed.                                                       *)
NothingLost(own) ==
  \A c \in Clusters :
    fat[1][c] # Free => \/ \E x \in Owners : Owns(own, x, c)
                        \/ \E j \in DOMAIN todo : todo[j] = <<1, c, Free>>

(* The k-th sector of a file of len bytes.                                  *)
PieceAt(name, len, k) ==
  Piece(name, k, IF len - k * SectorSize < SectorSize THEN len - k * SectorSize ELSE SectorSize)

(* The first size bytes of the file called name are in the clusters of q.   *)
StoredIn(f, q, name, size) ==
  \A i \in DOMAIN q : \A j \in 1 .. SectorsPerCluster :
    LET k == (i - 1) * SectorsPerCluster + (j - 1)
    IN  k * SectorSize < size => f[q[i]][j] = PieceAt(name, size, k)
Stored(q, name, size) == StoredIn(data, q, name, size)

FilesStored(own) == \A s \in Files : Stored(own[s], dir[s].typed, dir[s].size)

(* Sectors written by write when it is in the sec-th sector of cluster n.   *)
Position(n) == IF n = 0 THEN 0 ELSE ((n - 1) * SectorsPerCluster + op.sec) * SectorSize

Writing(own) ==
  /\ op.cmd = "write" /\ op.pc \in {"read", "data", "entry"}
  /\ op.first = FirstOf(own[0]) /\ op.prev = LastOf(own[0]) /\ op.cur = op.prev
  /\ Stored(own[0], op.name, op.done)
  /\ op.pc \in {"read", "data"} => op.done = Position(Len(own[0]))
  /\ op.pc = "read" => (own[0] # <<>> => op.sec >= 1) /\ todo = <<>>
  /\ op.pc = "data" => own[0] # <<>> /\ op.sec < SectorsPerCluster /\ op.done < op.len
  /\ op.pc = "entry" => op.done = op.len /\ Fits(Len(own[0]), op.len) /\ todo = <<>>

Freeing(own) ==
  /\ op.cmd \in {"write", "delete"} /\ op.pc = "free"
  /\ IF own[0] = <<>> THEN op.cur \in {0, EndOfChain} ELSE op.cur = own[0][1]

Erasing(own) == op.cmd = "delete" /\ op.pc = "erase" /\ own[0] = <<>> /\ todo = <<>>

Resting(own) == op = Idle /\ own[0] = <<>> /\ todo = <<>>

Running(own) == Writing(own) \/ Freeing(own) \/ Erasing(own) \/ Resting(own)

Holds(own) ==
  /\ Chains(own) /\ FilesOwn(own) /\ (~crashed => NothingLost(own))
  /\ FilesStored(own) /\ Running(own)

(* The directory: no entry follows one that was never used.                 *)
DirInv ==
  /\ DOMAIN dir = Slots
  /\ \A s \in Slots :
       /\ dir[s].start \in Clusters \cup {0} /\ dir[s].size \in Nat
       /\ dir[s].kind \in {"end", "deleted", "file"}
       /\ IsFile(s) => /\ dir[s].typed \in Names /\ dir[s].name83 = Format83(dir[s].typed)
                       /\ dir[s].size \in Lengths
                       /\ \A r \in 1 .. s - 1 : dir[r].kind # "end"

Pieces == [file : Seq(Chars), k : Nat, n : Nat]

StateInv ==
  /\ fat \in [Copies -> [Clusters -> FatValues]]
  /\ data \in [Clusters -> [1 .. SectorsPerCluster -> Pieces]]
  /\ todo \in Seq(Copies \X Clusters \X FatValues)
  /\ crashed \in BOOLEAN /\ torn = {}

Ops == [cmd : {"idle", "write", "delete"}, pc : {"idle", "read", "data", "entry", "free", "erase"},
        name : Seq(Chars), slot : Slots \cup {0}, len : Nat, done : Nat,
        first : Clusters \cup {0}, prev : Clusters \cup {0}, cur : FatValues,
        sec : 0 .. SectorsPerCluster]

OpInv ==
  /\ op \in Ops /\ op.done <= op.len
  /\ op.cmd = "write" => op.name \in Names /\ op.len \in Lengths /\ FreeSlot(op.slot)
                         /\ op.slot \in Slots
  /\ op.cmd = "delete" => op.name \in Names /\ op.slot \in Slots /\ IsFile(op.slot)
                          /\ NameMatch(dir[op.slot].name83, op.name)

IInv == StateInv /\ DirInv /\ OpInv /\ \E own \in [Owners -> Seq(Clusters)] : Holds(own)

-----------------------------------------------------------------------------
LEMMA Geometry ==
  /\ SectorSize \in Nat \ {0} /\ SectorsPerCluster \in Nat \ {0}
  /\ NumFats \in Nat \ {0} /\ NumSlots \in Nat \ {0}
  /\ FatEntries \in Nat /\ FatEntries <= 65528
  BY GeometryAssumption

LEMMA Ranges ==
  /\ Clusters \subseteq Nat \ {0, EndOfChain} /\ \A c \in Clusters : IsCluster(c) /\ c # Free
  /\ ~IsCluster(EndOfChain) /\ ~IsCluster(0) /\ EndOfChain # Free
  /\ 1 \in Copies /\ 0 \in Owners /\ Slots \subseteq Owners /\ 0 \notin Slots
  /\ Owners = Slots \cup {0}
  BY Geometry DEF Clusters, EndOfChain, IsCluster, Copies, Owners, Slots, Free

LEMMA ChainFacts ==
  ASSUME NEW q \in Seq(Clusters)
  PROVE  /\ Len(q) \in Nat /\ DOMAIN q = 1 .. Len(q)
         /\ (q = <<>> <=> Len(q) = 0)
         /\ \A i \in 1 .. Len(q) : q[i] \in Clusters
  OBVIOUS

LEMMA SuccNotFree ==
  ASSUME NEW q \in Seq(Clusters), NEW i \in DOMAIN q
  PROVE  Succ(q, i) \in Clusters \cup {EndOfChain} /\ Succ(q, i) # Free
<1>1. i \in 1 .. Len(q) /\ Len(q) \in Nat
  BY ChainFacts
<1>2. CASE i = Len(q)
  BY <1>2, Ranges DEF Succ
<1>3. CASE i # Len(q)
  <2>1. i + 1 \in 1 .. Len(q)
    BY <1>1, <1>3
  <2>2. Succ(q, i) = q[i + 1]
    BY <1>3 DEF Succ
  <2>3. q[i + 1] \in Clusters
    BY <2>1, ChainFacts
  <2>. QED
    BY <2>2, <2>3, Ranges
<1>. QED
  BY <1>2, <1>3

LEMMA OwnFacts ==
  ASSUME NEW own \in [Owners -> Seq(Clusters)], NEW x \in Owners
  PROVE  /\ own[x] \in Seq(Clusters) /\ Len(own[x]) \in Nat
         /\ DOMAIN own[x] = 1 .. Len(own[x])
         /\ (own[x] = <<>> <=> Len(own[x]) = 0)
         /\ \A i \in DOMAIN own[x] : own[x][i] \in Clusters
<1>1. own[x] \in Seq(Clusters)
  OBVIOUS
<1>. QED
  BY <1>1, ChainFacts

(* The FAT copies already show a chain that no pending write is about.      *)
LEMMA LinksShown ==
  ASSUME NEW own, Chains(own), NEW x \in Owners, x # 0 \/ todo = <<>>,
         NEW i \in DOMAIN own[x], NEW k \in Copies
  PROVE  fat[k][own[x][i]] = Succ(own[x], i)
<1>1. own \in [Owners -> Seq(Clusters)] /\ Apart(own) /\ Linked(own[x]) /\ PendingWrites(own)
  BY DEF Chains
<1>2. Will(k, own[x][i], Succ(own[x], i))
  BY <1>1 DEF Linked
<1>3. ASSUME NEW j \in DOMAIN todo, todo[j] = <<k, own[x][i], Succ(own[x], i)>>
      PROVE  FALSE
  <2>1. todo # <<>>
    BY <1>3
  <2>2. todo[j][2] = own[x][i] /\ todo[j][3] = Succ(own[x], i)
    BY <1>3
  <2>3. Succ(own[x], i) # Free
    BY <1>1, OwnFacts, SuccNotFree
  <2>4. PICK m \in DOMAIN own[0] : todo[j][2] = own[0][m]
    BY <1>1, <1>3, <2>2, <2>3 DEF PendingWrites
  <2>. QED
    BY <1>1, <2>1, <2>2, <2>4, Ranges, ZenonT(60) DEF Apart
<1>. QED
  BY <1>2, <1>3 DEF Will

LEMMA OwnedNotFree ==
  ASSUME NEW own, Chains(own), todo = <<>>, NEW x \in Owners, NEW c, Owns(own, x, c)
  PROVE  c \in Clusters /\ fat[1][c] # Free
<1>1. PICK i \in DOMAIN own[x] : own[x][i] = c
  BY DEF Owns
<1>2. own[x] \in Seq(Clusters) /\ c \in Clusters
  BY <1>1, OwnFacts DEF Chains
<1>. QED
  BY <1>1, <1>2, LinksShown, SuccNotFree, Ranges

-----------------------------------------------------------------------------
(* How the steps change the chains.                                         *)

LEMMA ChainsSame ==
  ASSUME NEW own, Chains(own), UNCHANGED <<fat, todo>>
  PROVE  Chains(own)'
  BY DEF Chains, Linked, Will, PendingWrites, Apart, Owns

(* Chains change hands, or are given up, when nothing is left to be written *)
(* for the ones that are kept.                                              *)
LEMMA Regroup ==
  ASSUME NEW own, Chains(own), NEW own2 \in [Owners -> Seq(Clusters)],
         fat' = fat, todo' = <<>>, NEW r \in [Owners -> Owners],
         \A x \in Owners : own2[x] = <<>> \/ own2[x] = own[r[x]],
         \A x, y \in Owners : own2[x] # <<>> /\ own2[y] # <<>> /\ r[x] = r[y] => x = y,
         \A x \in Owners : own2[x] # <<>> => r[x] # 0 \/ todo = <<>>
  PROVE  Chains(own2)'
<1>1. own \in [Owners -> Seq(Clusters)] /\ Apart(own)
  BY DEF Chains
<1>2. \A x \in Owners : \A i \in DOMAIN own2[x] :
        own2[x] = own[r[x]] /\ own2[x] # <<>> /\ r[x] \in Owners
  <2>. SUFFICES ASSUME NEW x \in Owners, NEW i \in DOMAIN own2[x]
                PROVE  own2[x] = own[r[x]] /\ own2[x] # <<>> /\ r[x] \in Owners
    OBVIOUS
  <2>1. own2[x] # <<>>
    OBVIOUS
  <2>. QED
    BY <2>1
<1>3. Apart(own2)
  <2>. SUFFICES ASSUME NEW x \in Owners, NEW y \in Owners,
                       NEW i \in DOMAIN own2[x], NEW j \in DOMAIN own2[y],
                       own2[x][i] = own2[y][j]
                PROVE  x = y /\ i = j
    BY DEF Apart
  <2>1. own2[x] = own[r[x]] /\ own2[y] = own[r[y]] /\ r[x] \in Owners /\ r[y] \in Owners
        /\ own2[x] # <<>> /\ own2[y] # <<>>
    BY <1>2
  <2>2. r[x] = r[y] /\ i = j
    BY <1>1, <2>1 DEF Apart
  <2>. QED
    BY <2>1, <2>2
<1>4. \A x \in Owners : Linked(own2[x])'
  <2>. SUFFICES ASSUME NEW x \in Owners, NEW i \in DOMAIN own2[x], NEW k \in Copies
                PROVE  Will(k, own2[x][i], Succ(own2[x], i))'
    BY DEF Linked
  <2>1. own2[x] = own[r[x]] /\ r[x] \in Owners /\ (r[x] # 0 \/ todo = <<>>)
    BY <1>2
  <2>2. fat[k][own2[x][i]] = Succ(own2[x], i)
    BY <2>1, LinksShown
  <2>. QED
    BY <2>2 DEF Will, Succ
<1>5. PendingWrites(own2)'
  BY DEF PendingWrites
<1>. QED
  BY <1>3, <1>4, <1>5 DEF Chains, Apart

(* A crash forgets the running command's chain.                             *)
LEMMA Forgotten ==
  ASSUME NEW own, Chains(own), NEW own2 \in [Owners -> Seq(Clusters)],
         own2[0] = <<>>, \A x \in Owners : x # 0 => own2[x] = own[x],
         fat' = fat, todo' = <<>>
  PROVE  Chains(own2)'
<1>1. PICK r \in [Owners -> Owners] : \A x \in Owners : r[x] = x
  <2>1. [x \in Owners |-> x] \in [Owners -> Owners]
    OBVIOUS
  <2>. QED
    BY <2>1
<1>2. \A x \in Owners : own2[x] = <<>> \/ own2[x] = own[r[x]]
  BY <1>1
<1>3. \A x, y \in Owners : own2[x] # <<>> /\ own2[y] # <<>> /\ r[x] = r[y] => x = y
  BY <1>1
<1>4. \A x \in Owners : own2[x] # <<>> => r[x] # 0 \/ todo = <<>>
  BY <1>1
<1>. QED
  BY <1>2, <1>3, <1>4, Regroup, ZenonT(60)

LEMMA TodoTail ==
  ASSUME NEW S, todo \in Seq(S), todo # <<>>, todo' = Tail(todo)
  PROVE  /\ 1 \in DOMAIN todo /\ Head(todo) = todo[1]
         /\ DOMAIN todo = 1 .. Len(todo) /\ Len(todo) \in Nat
         /\ todo' \in Seq(S)
         /\ \A j \in DOMAIN todo' : j + 1 \in DOMAIN todo /\ todo'[j] = todo[j + 1]
         /\ \A j \in DOMAIN todo : j # 1 => j - 1 \in DOMAIN todo' /\ todo'[j - 1] = todo[j]
  OBVIOUS

LEMMA TodoHead ==
  ASSUME StateInv, todo # <<>>
  PROVE  /\ todo[1][1] \in Copies /\ todo[1][2] \in Clusters /\ todo[1][3] \in FatValues
         /\ todo[1] = <<todo[1][1], todo[1][2], todo[1][3]>>
<1>1. todo[1] \in Copies \X Clusters \X FatValues
  BY DEF StateInv
<1>. QED
  BY <1>1

LEMMA SectorWritten ==
  ASSUME StateInv, WriteFatSector
  PROVE  /\ \A k \in Copies, c \in Clusters :
              fat'[k][c] = IF k = todo[1][1] /\ c = todo[1][2] THEN todo[1][3] ELSE fat[k][c]
         /\ fat' \in [Copies -> [Clusters -> FatValues]]
<1>1. fat' = [fat EXCEPT ![todo[1][1]][todo[1][2]] = todo[1][3]] /\ todo # <<>>
  <2>1. Head(todo) = todo[1]
    BY DEF StateInv, WriteFatSector
  <2>. QED
    BY <2>1, Zenon DEF WriteFatSector
<1>. QED
  BY <1>1, TodoHead DEF StateInv

(* One more sector of the FAT written.                                      *)
LEMMA ChainsFatSector ==
  ASSUME StateInv, NEW own, Chains(own), WriteFatSector
  PROVE  Chains(own)'
<1>1. /\ todo \in Seq(Copies \X Clusters \X FatValues) /\ todo # <<>> /\ todo' = Tail(todo)
  BY DEF StateInv, WriteFatSector
<1>2. own \in [Owners -> Seq(Clusters)] /\ Apart(own)
  BY DEF Chains
<1>3. ASSUME NEW x \in Owners, NEW i \in DOMAIN own[x], NEW k \in Copies
      PROVE  Will(k, own[x][i], Succ(own[x], i))'
  <2> DEFINE c == own[x][i]
             v == Succ(own[x], i)
  <2>1. c \in Clusters /\ v # Free /\ Owns(own, x, c)
    BY <1>2, OwnFacts, SuccNotFree DEF Owns
  <2>2. Will(k, c, v)
    BY DEF Chains, Linked
  <2>3. CASE k = todo[1][1] /\ c = todo[1][2]
    <3>1. fat'[k][c] = todo[1][3]
      BY <2>1, <2>3, SectorWritten
    <3>2. 1 \in DOMAIN todo
      BY <1>1
    <3>3. PICK m \in DOMAIN own[0] : todo[1][2] = own[0][m] /\ todo[1][3] = Succ(own[0], m)
      BY <2>1, <2>3, <3>2 DEF Chains, PendingWrites
    <3>4. x = 0 /\ i = m
      BY <1>2, <2>3, <3>3, Ranges DEF Apart
    <3>. QED
      BY <3>1, <3>3, <3>4 DEF Will, Succ
  <2>4. CASE ~(k = todo[1][1] /\ c = todo[1][2])
    <3>1. fat'[k][c] = fat[k][c]
      BY <2>1, <2>4, SectorWritten
    <3>2. ASSUME NEW j \in DOMAIN todo, todo[j] = <<k, c, v>>
          PROVE  \E m \in DOMAIN todo' : todo'[m] = <<k, c, v>>
      <4>1. j # 1
        BY <2>4, <3>2
      <4>2. j - 1 \in DOMAIN todo' /\ todo'[j - 1] = todo[j]
        BY <1>1, <4>1, TodoTail
      <4>. QED
        BY <3>2, <4>2, Zenon
    <3>. HIDE DEF c, v
    <3>3. fat'[k][c] = v \/ \E m \in DOMAIN todo' : todo'[m] = <<k, c, v>>
      BY <2>2, <3>1, <3>2 DEF Will
    <3>. QED
      BY <3>3 DEF Will, c, v, Succ
  <2>. QED
    BY <2>3, <2>4
<1>4. PendingWrites(own)'
  <2>. SUFFICES ASSUME NEW j \in DOMAIN todo'
                PROVE  \/ todo'[j][3] = Free /\ \A x \in Owners : ~Owns(own, x, todo'[j][2])
                       \/ \E i \in DOMAIN own[0] : /\ todo'[j][2] = own[0][i]
                                                   /\ todo'[j][3] = Succ(own[0], i)
    BY DEF PendingWrites, Owns, Succ
  <2>1. j + 1 \in DOMAIN todo /\ todo'[j] = todo[j + 1]
    BY <1>1, TodoTail
  <2>. QED
    BY <2>1 DEF Chains, PendingWrites
<1>. QED
  BY <1>2, <1>3, <1>4 DEF Chains, Linked, Apart

LEMMA Joined ==
  ASSUME NEW S, NEW a \in Seq(S), NEW b \in Seq(S)
  PROVE  /\ a \o b \in Seq(S)
         /\ DOMAIN (a \o b) = 1 .. Len(a) + Len(b) /\ Len(a) \in Nat /\ Len(b) \in Nat
         /\ \A j \in 1 .. Len(a) + Len(b) :
              (a \o b)[j] = IF j <= Len(a) THEN a[j] ELSE b[j - Len(a)]
  OBVIOUS

LEMMA EntryWrites ==
  ASSUME NEW c \in Clusters, NEW v \in FatValues
  PROVE  /\ SetEntry(c, v) \in Seq(Copies \X Clusters \X FatValues)
         /\ Len(SetEntry(c, v)) = NumFats /\ DOMAIN SetEntry(c, v) = Copies
         /\ \A k \in Copies : SetEntry(c, v)[k] = <<k, c, v>>
<1>1. Copies = 1 .. NumFats /\ NumFats \in Nat
  BY Geometry DEF Copies
<1> DEFINE q == [k \in Copies |-> <<k, c, v>>]
<1>2. q = SetEntry(c, v)
  BY DEF SetEntry
<1>3. q \in [1 .. NumFats -> Copies \X Clusters \X FatValues]
  BY <1>1
<1>4. q \in Seq(Copies \X Clusters \X FatValues) /\ Len(q) = NumFats
  <2>. HIDE DEF q
  <2>. QED
    BY <1>1, <1>3
<1>. QED
  BY <1>2, <1>4

(* find_free_cluster's result linked behind the chain that is being built.  *)
LEMMA ChainsAppend ==
  ASSUME StateInv, NEW own, Chains(own), todo = <<>>, fat' = fat, NEW c \in Clusters,
         fat[1][c] = Free,
         todo' = SetEntry(c, EndOfChain) \o
                   (IF own[0] = <<>> THEN <<>> ELSE SetEntry(LastOf(own[0]), c)),
         NEW own2, own2 = [own EXCEPT ![0] = Append(own[0], c)]
  PROVE  Chains(own2)' /\ todo' \in Seq(Copies \X Clusters \X FatValues)
<1> DEFINE q == own[0]
           n == Len(own[0])
<1>1. own \in [Owners -> Seq(Clusters)] /\ Apart(own) /\ 0 \in Owners
      /\ q \in Seq(Clusters) /\ n \in Nat /\ DOMAIN q = 1 .. n /\ (q = <<>> <=> n = 0)
  BY Ranges, OwnFacts DEF Chains
<1>2. \A x \in Owners : ~Owns(own, x, c)
  BY OwnedNotFree
<1>3. /\ Append(q, c) \in Seq(Clusters) /\ DOMAIN Append(q, c) = 1 .. n + 1
      /\ Len(Append(q, c)) = n + 1
      /\ Append(q, c)[n + 1] = c /\ \A i \in 1 .. n : Append(q, c)[i] = q[i]
  BY <1>1
<1>4. own2 \in [Owners -> Seq(Clusters)] /\ own2[0] = Append(q, c)
      /\ \A x \in Owners \ {0} : own2[x] = own[x]
  <2>. HIDE DEF q
  <2>. QED
    BY <1>1, <1>3 DEF q
<1>. HIDE DEF q, n
<1>5. \A x \in Owners : \A i \in DOMAIN own2[x] :
        \/ x = 0 /\ i = n + 1 /\ own2[x][i] = c
        \/ i \in DOMAIN own[x] /\ own2[x][i] = own[x][i]
  <2>. SUFFICES ASSUME NEW x \in Owners, NEW i \in DOMAIN own2[x]
                PROVE  \/ x = 0 /\ i = n + 1 /\ own2[x][i] = c
                       \/ i \in DOMAIN own[x] /\ own2[x][i] = own[x][i]
    OBVIOUS
  <2>1. CASE x = 0
    <3>1. own2[x] = Append(q, c) /\ i \in 1 .. n + 1 /\ own[x] = q
      BY <1>3, <1>4, <2>1 DEF q
    <3>2. CASE i = n + 1
      BY <1>3, <2>1, <3>1, <3>2
    <3>3. CASE i # n + 1
      <4>1. i \in 1 .. n
        BY <1>1, <3>1, <3>3
      <4>. QED
        BY <1>1, <1>3, <3>1, <4>1
    <3>. QED
      BY <3>2, <3>3
  <2>2. CASE x # 0
    BY <1>4, <2>2
  <2>. QED
    BY <2>1, <2>2
<1>6. Apart(own2)
  <2>. SUFFICES ASSUME NEW x \in Owners, NEW y \in Owners,
                       NEW i \in DOMAIN own2[x], NEW j \in DOMAIN own2[y],
                       own2[x][i] = own2[y][j]
                PROVE  x = y /\ i = j
    BY DEF Apart
  <2>1. CASE own2[x][i] = c
    <3>1. x = 0 /\ i = n + 1 /\ y = 0 /\ j = n + 1
      BY <1>2, <1>5, <2>1 DEF Owns
    <3>. QED
      BY <3>1
  <2>2. CASE own2[x][i] # c
    <3>1. /\ i \in DOMAIN own[x] /\ j \in DOMAIN own[y] /\ own[x][i] = own[y][j]
      BY <1>5, <2>2
    <3>. QED
      BY <1>1, <3>1 DEF Apart
  <2>. QED
    BY <2>1, <2>2
<1> DEFINE e == SetEntry(c, EndOfChain)
           l == IF q = <<>> THEN <<>> ELSE SetEntry(LastOf(q), c)
<1>7. /\ e \in Seq(Copies \X Clusters \X FatValues) /\ Len(e) = NumFats /\ DOMAIN e = Copies
      /\ \A k \in Copies : e[k] = <<k, c, EndOfChain>>
  <2>1. EndOfChain \in FatValues
    BY DEF FatValues
  <2>. QED
    BY <2>1, EntryWrites
<1>8. /\ l \in Seq(Copies \X Clusters \X FatValues)
      /\ q = <<>> => l = <<>>
      /\ q # <<>> => /\ Len(l) = NumFats /\ DOMAIN l = Copies
                     /\ \A k \in Copies : l[k] = <<k, q[n], c>>
  <2>1. CASE q = <<>>
    BY <2>1
  <2>2. CASE q # <<>>
    <3>1. LastOf(q) = q[n] /\ n \in 1 .. n
      BY <1>1, <2>2 DEF LastOf, n, q
    <3>2. LastOf(q) \in Clusters /\ c \in FatValues
      BY <1>1, <3>1 DEF FatValues
    <3>3. l = SetEntry(LastOf(q), c)
      BY <2>2
    <3>. HIDE DEF l
    <3>. QED
      BY <2>2, <3>1, <3>2, <3>3, EntryWrites
  <2>. QED
    BY <2>1, <2>2
<1>9. todo' = e \o l /\ NumFats \in Nat /\ Copies = 1 .. NumFats
  BY Geometry DEF Copies, q
<1>. HIDE DEF e, l
<1>10. /\ todo' \in Seq(Copies \X Clusters \X FatValues)
       /\ \A k \in Copies : k \in DOMAIN todo' /\ todo'[k] = <<k, c, EndOfChain>>
       /\ q # <<>> => \A k \in Copies : NumFats + k \in DOMAIN todo'
                                        /\ todo'[NumFats + k] = <<k, q[n], c>>
       /\ \A j \in DOMAIN todo' : \/ j \in Copies
                                  \/ q # <<>> /\ j - NumFats \in Copies
  <2>1. todo' \in Seq(Copies \X Clusters \X FatValues)
    BY <1>7, <1>8, <1>9, Joined, ZenonT(60)
  <2>2. DOMAIN todo' = 1 .. NumFats + Len(l) /\ Len(l) \in Nat
        /\ \A j \in 1 .. NumFats + Len(l) :
             todo'[j] = IF j <= NumFats THEN e[j] ELSE l[j - NumFats]
    <3> DEFINE S == Copies \X Clusters \X FatValues
    <3>0. e \in Seq(S) /\ l \in Seq(S)
      BY <1>7, <1>8
    <3>. HIDE DEF S
    <3>1. /\ DOMAIN (e \o l) = 1 .. Len(e) + Len(l) /\ Len(l) \in Nat
          /\ \A j \in 1 .. Len(e) + Len(l) :
               (e \o l)[j] = IF j <= Len(e) THEN e[j] ELSE l[j - Len(e)]
      BY <3>0, Joined
    <3>. QED
      BY <1>7, <1>9, <3>1, Zenon
  <2>3. \A k \in Copies : k \in DOMAIN todo' /\ todo'[k] = <<k, c, EndOfChain>>
    BY <1>7, <1>9, <2>2, SMTT(60)
  <2>4. ASSUME q # <<>>, NEW k \in Copies
        PROVE  NumFats + k \in DOMAIN todo' /\ todo'[NumFats + k] = <<k, q[n], c>>
    <3>1. NumFats + k \in 1 .. NumFats + Len(l) /\ ~(NumFats + k <= NumFats)
          /\ (NumFats + k) - NumFats = k
      BY <1>8, <1>9, <2>4
    <3>. QED
      BY <1>8, <2>2, <2>4, <3>1
  <2>5. ASSUME NEW j \in DOMAIN todo'
        PROVE  j \in Copies \/ (q # <<>> /\ j - NumFats \in Copies)
    <3>1. CASE q = <<>>
      <4>1. Len(l) = 0
        BY <1>8, <3>1
      <4>. QED
        BY <1>9, <2>2, <4>1
    <3>2. CASE q # <<>>
      <4>1. Len(l) = NumFats
        BY <1>8, <3>2
      <4>. QED
        BY <1>9, <2>2, <3>2, <4>1
    <3>. QED
      BY <3>1, <3>2
  <2>. QED
    BY <2>1, <2>3, <2>4, <2>5
<1>11. /\ Succ(own2[0], n + 1) = EndOfChain
       /\ \A i \in 1 .. n - 1 : Succ(own2[0], i) = Succ(own[0], i)
       /\ n > 0 => Succ(own2[0], n) = c
       /\ \A x \in Owners \ {0} : \A i : Succ(own2[x], i) = Succ(own[x], i)
  <2>1. Succ(own2[0], n + 1) = EndOfChain
    BY <1>3, <1>4 DEF Succ
  <2>2. ASSUME NEW i \in 1 .. n - 1
        PROVE  Succ(own2[0], i) = Succ(own[0], i)
    <3>1. i # n + 1 /\ i # n /\ i + 1 \in 1 .. n
      BY <1>1
    <3>. QED
      BY <1>3, <1>4, <3>1 DEF Succ, q, n
  <2>3. n > 0 => Succ(own2[0], n) = c
    <3>1. n # n + 1
      BY <1>1
    <3>. QED
      BY <1>3, <1>4, <3>1 DEF Succ
  <2>4. \A x \in Owners \ {0} : \A i : Succ(own2[x], i) = Succ(own[x], i)
    BY <1>4 DEF Succ
  <2>. QED
    BY <2>1, <2>2, <2>3, <2>4
<1>12. ASSUME NEW x \in Owners, NEW i \in DOMAIN own2[x], NEW k \in Copies
       PROVE  Will(k, own2[x][i], Succ(own2[x], i))'
  <2>1. CASE x # 0 \/ i \in 1 .. n - 1
    <3>1. i \in DOMAIN own[x] /\ own2[x][i] = own[x][i]
      BY <1>1, <1>5, <2>1
    <3>2. Succ(own2[x], i) = Succ(own[x], i)
      BY <1>11, <2>1
    <3>3. fat[k][own[x][i]] = Succ(own[x], i)
      BY <3>1, LinksShown
    <3>. QED
      BY <3>1, <3>2, <3>3 DEF Will, Succ
  <2>2. CASE x = 0 /\ i = n + 1
    <3>1. own2[x][i] = c /\ Succ(own2[x], i) = EndOfChain
      BY <1>3, <1>4, <1>11, <2>2
    <3>2. \E j \in DOMAIN todo' : todo'[j] = <<k, own2[x][i], Succ(own2[x], i)>>
      BY <1>10, <3>1
    <3>. QED
      BY <3>2 DEF Will, Succ
  <2>3. CASE x = 0 /\ i = n
    <3>1. n > 0 /\ q # <<>> /\ n \in 1 .. n
      BY <1>1, <1>3, <1>4, <2>3
    <3>2. own2[x][i] = q[n] /\ Succ(own2[x], i) = c
      BY <1>3, <1>4, <1>11, <2>3, <3>1
    <3>3. \E j \in DOMAIN todo' : todo'[j] = <<k, own2[x][i], Succ(own2[x], i)>>
      BY <1>10, <3>1, <3>2
    <3>. QED
      BY <3>3 DEF Will, Succ
  <2>4. x = 0 => i \in 1 .. n + 1
    BY <1>3, <1>4
  <2>. QED
    BY <1>1, <2>1, <2>2, <2>3, <2>4
<1>13. PendingWrites(own2)'
  <2>. SUFFICES ASSUME NEW j \in DOMAIN todo'
                PROVE  \E i \in DOMAIN own2[0] : /\ todo'[j][2] = own2[0][i]
                                                 /\ todo'[j][3] = Succ(own2[0], i)
    BY DEF PendingWrites, Owns, Succ
  <2>1. CASE j \in Copies
    <3>1. todo'[j][2] = c /\ todo'[j][3] = EndOfChain
      BY <1>10, <2>1, SMTT(60)
    <3>2. n + 1 \in DOMAIN own2[0] /\ own2[0][n + 1] = c
      BY <1>1, <1>3, <1>4
    <3>. QED
      BY <1>11, <3>1, <3>2
  <2>2. CASE q # <<>> /\ j - NumFats \in Copies
    <3>1. j = NumFats + (j - NumFats)
      BY <1>9, <2>2
    <3>2. todo'[j] = <<j - NumFats, q[n], c>>
      BY <1>10, <2>2, <3>1
    <3>3. n > 0 /\ n \in DOMAIN own2[0] /\ own2[0][n] = q[n]
      BY <1>1, <1>3, <1>4, <2>2
    <3>. QED
      BY <1>11, <3>2, <3>3, SMTT(60)
  <2>. QED
    BY <1>10, <2>1, <2>2
<1>. QED
  BY <1>4, <1>6, <1>10, <1>12, <1>13 DEF Chains, Linked, Apart

LEMMA TailFacts ==
  ASSUME NEW q \in Seq(Clusters), q # <<>>
  PROVE  /\ Tail(q) \in Seq(Clusters) /\ Len(Tail(q)) = Len(q) - 1
         /\ DOMAIN Tail(q) = 1 .. Len(q) - 1 /\ 1 \in DOMAIN q
         /\ \A i \in DOMAIN Tail(q) : i + 1 \in DOMAIN q /\ Tail(q)[i] = q[i + 1]
         /\ \A i \in DOMAIN Tail(q) : Succ(Tail(q), i) = Succ(q, i + 1)
<1>1. /\ Tail(q) \in Seq(Clusters) /\ Len(Tail(q)) = Len(q) - 1
      /\ DOMAIN Tail(q) = 1 .. Len(q) - 1 /\ 1 \in DOMAIN q /\ Len(q) \in Nat
      /\ \A i \in DOMAIN Tail(q) : i + 1 \in DOMAIN q /\ Tail(q)[i] = q[i + 1]
  OBVIOUS
<1>2. ASSUME NEW i \in DOMAIN Tail(q)
      PROVE  Succ(Tail(q), i) = Succ(q, i + 1)
  <2>1. CASE i = Len(q) - 1
    BY <1>1, <2>1 DEF Succ
  <2>2. CASE i # Len(q) - 1
    <3>1. i \in 1 .. Len(q) - 1
      BY <1>1
    <3>2. i + 1 \in DOMAIN Tail(q) /\ i # Len(Tail(q)) /\ i + 1 # Len(q)
      BY <1>1, <2>2, <3>1
    <3>3. Tail(q)[i + 1] = q[(i + 1) + 1]
      BY <1>1, <3>2
    <3>. QED
      BY <3>2, <3>3, Zenon DEF Succ
  <2>. QED
    BY <2>1, <2>2
<1>. QED
  BY <1>1, <1>2

(* free_chain takes the first cluster off the chain.                        *)
LEMMA ChainsTail ==
  ASSUME StateInv, NEW own, Chains(own), todo = <<>>, fat' = fat, own[0] # <<>>,
         todo' = SetEntry(own[0][1], Free),
         NEW own2, own2 = [own EXCEPT ![0] = Tail(own[0])]
  PROVE  /\ Chains(own2)' /\ todo' \in Seq(Copies \X Clusters \X FatValues)
         /\ 1 \in DOMAIN todo' /\ todo'[1] = <<1, own[0][1], Free>>
         /\ own[0][1] \in Clusters
<1> DEFINE q == own[0]
<1>1. own \in [Owners -> Seq(Clusters)] /\ Apart(own) /\ 0 \in Owners /\ q \in Seq(Clusters)
  BY Ranges DEF Chains
<1>2. /\ Tail(q) \in Seq(Clusters) /\ 1 \in DOMAIN q
      /\ \A i \in DOMAIN Tail(q) : i + 1 \in DOMAIN q /\ Tail(q)[i] = q[i + 1]
      /\ \A i \in DOMAIN Tail(q) : Succ(Tail(q), i) = Succ(q, i + 1)
      /\ \A i \in DOMAIN Tail(q) : i \in Nat \ {0}
  <2>1. Len(q) \in Nat
    BY <1>1
  <2>2. \A i \in 1 .. Len(q) - 1 : i \in Nat \ {0}
    BY <2>1
  <2>. HIDE DEF q
  <2>. QED
    BY <1>1, <2>2, TailFacts DEF q
<1>3. own2 \in [Owners -> Seq(Clusters)] /\ own2[0] = Tail(q)
      /\ \A x \in Owners \ {0} : own2[x] = own[x]
  <2>. HIDE DEF q
  <2>. QED
    BY <1>1, <1>2 DEF q
<1>4. q[1] \in Clusters /\ Free \in FatValues
  BY <1>1, <1>2, OwnFacts DEF FatValues
<1>. HIDE DEF q
<1>5. /\ todo' \in Seq(Copies \X Clusters \X FatValues) /\ DOMAIN todo' = Copies
      /\ \A k \in Copies : todo'[k] = <<k, q[1], Free>>
  BY <1>4, EntryWrites DEF q
(* Where a cluster of own2 stood in own.                                    *)
<1> DEFINE old(x, i) == IF x = 0 THEN i + 1 ELSE i
<1>6. \A x \in Owners : \A i \in DOMAIN own2[x] :
        /\ old(x, i) \in DOMAIN own[x] /\ own2[x][i] = own[x][old(x, i)]
        /\ Succ(own2[x], i) = Succ(own[x], old(x, i))
        /\ x = 0 => old(x, i) # 1
        /\ \A j \in DOMAIN own2[x] : old(x, i) = old(x, j) => i = j
  <2>. SUFFICES ASSUME NEW x \in Owners, NEW i \in DOMAIN own2[x]
                PROVE  /\ old(x, i) \in DOMAIN own[x] /\ own2[x][i] = own[x][old(x, i)]
                       /\ Succ(own2[x], i) = Succ(own[x], old(x, i))
                       /\ x = 0 => old(x, i) # 1
                       /\ \A j \in DOMAIN own2[x] : old(x, i) = old(x, j) => i = j
    OBVIOUS
  <2>1. CASE x = 0
    <3>1. own2[x] = Tail(q) /\ own[x] = q /\ \A j : old(x, j) = j + 1
      BY <1>3, <2>1 DEF q
    <3>2. i + 1 # 1 /\ \A j \in DOMAIN own2[x] : i + 1 = j + 1 => i = j
      BY <1>2, <3>1
    <3>. QED
      BY <1>2, <3>1, <3>2
  <2>2. CASE x # 0
    <3>1. own2[x] = own[x] /\ \A j : old(x, j) = j
      BY <1>3, <2>2
    <3>. QED
      BY <2>2, <3>1
  <2>. QED
    BY <2>1, <2>2
<1>. HIDE DEF old
<1>7. Apart(own2)
  <2>. SUFFICES ASSUME NEW x \in Owners, NEW y \in Owners,
                       NEW i \in DOMAIN own2[x], NEW j \in DOMAIN own2[y],
                       own2[x][i] = own2[y][j]
                PROVE  x = y /\ i = j
    BY DEF Apart
  <2>1. x = y /\ old(x, i) = old(y, j)
    BY <1>1, <1>6 DEF Apart
  <2>. QED
    BY <1>6, <2>1
<1>8. \A x \in Owners : ~Owns(own2, x, q[1])
  <2>. SUFFICES ASSUME NEW x \in Owners, NEW i \in DOMAIN own2[x], own2[x][i] = q[1]
                PROVE  FALSE
    BY DEF Owns
  <2>1. own[x][old(x, i)] = own[0][1] /\ old(x, i) \in DOMAIN own[x] /\ 1 \in DOMAIN own[0]
    BY <1>2, <1>6 DEF q
  <2>2. x = 0 /\ old(x, i) = 1
    BY <1>1, <2>1 DEF Apart
  <2>. QED
    BY <1>6, <2>2
<1>9. ASSUME NEW x \in Owners, NEW i \in DOMAIN own2[x], NEW k \in Copies
      PROVE  Will(k, own2[x][i], Succ(own2[x], i))'
  <2>1. fat[k][own[x][old(x, i)]] = Succ(own[x], old(x, i))
    BY <1>6, LinksShown
  <2>. QED
    BY <1>6, <2>1 DEF Will, Succ
<1>10. PendingWrites(own2)'
  BY <1>5, <1>8 DEF PendingWrites, Owns
<1>11. Chains(own2)'
  BY <1>3, <1>7, <1>9, <1>10 DEF Chains, Linked, Apart
<1>. QED
  BY <1>4, <1>5, <1>11, Ranges DEF q

-----------------------------------------------------------------------------
(* Arithmetic of positions in a file.                                       *)

(* The s-th sector of the n-th cluster, with r bytes in it.                 *)
LEMMA SectorFits ==
  ASSUME NEW n \in Nat \ {0}, NEW s \in Nat, s < SectorsPerCluster,
         NEW r \in Nat, 0 < r, r <= SectorSize,
         NEW size, size = ((n - 1) * SectorsPerCluster + s) * SectorSize + r
  PROVE  Fits(n, size)
<1> DEFINE a == (n - 1) * (SectorsPerCluster * SectorSize)
           b == n * (SectorsPerCluster * SectorSize)
           c == s * SectorSize
           d == SectorsPerCluster * SectorSize
<1>1. a \in Nat /\ b \in Nat /\ c \in Nat /\ d \in Nat
  BY Products, Geometry
<1>2. size = a + c + r /\ b = a + d
  BY Geometry
<1>3. (s + 1) * SectorSize <= d
  <2>1. s + 1 <= SectorsPerCluster /\ s + 1 \in Nat
    BY Geometry
  <2>. QED
    BY <2>1, Products, Geometry
<1>4. (s + 1) * SectorSize = c + SectorSize
  BY Geometry
<1>. HIDE DEF a, b, c, d
<1>5. a < size /\ size <= b
  BY <1>1, <1>2, <1>3, <1>4, Geometry
<1>. QED
  BY <1>5 DEF Fits, a, b

(* A sector that begins before the end of the first sec sectors of n        *)
(* clusters, and is not the next one, is one of them.                       *)
LEMMA SectorsBefore ==
  ASSUME NEW k \in Nat, NEW m \in Nat, NEW r \in Nat, r <= SectorSize, 0 < r,
         k * SectorSize < m * SectorSize + r, k # m
  PROVE  /\ k < m /\ k * SectorSize < m * SectorSize
         /\ (m * SectorSize) - k * SectorSize >= SectorSize
<1>1. SectorSize \in Nat \ {0} /\ k * SectorSize \in Nat /\ m * SectorSize \in Nat
  BY Products, Geometry
<1>2. CASE m < k
  <2>1. (m + 1) * SectorSize <= k * SectorSize
    <3>1. m + 1 \in Nat /\ m + 1 <= k
      BY <1>2
    <3>. QED
      BY <1>1, <3>1, Products
  <2>2. (m + 1) * SectorSize = m * SectorSize + SectorSize
    BY <1>1
  <2>. QED
    BY <1>1, <2>1, <2>2
<1>3. CASE k < m
  <2>1. (k + 1) * SectorSize <= m * SectorSize
    <3>1. k + 1 \in Nat /\ k + 1 <= m
      BY <1>3
    <3>. QED
      BY <1>1, <3>1, Products
  <2>2. (k + 1) * SectorSize = k * SectorSize + SectorSize
    BY <1>1
  <2>. QED
    BY <1>1, <1>3, <2>1, <2>2
<1>. QED
  BY <1>2, <1>3

(* The number of a sector determines its cluster and its place there.       *)
LEMMA SectorNumber ==
  ASSUME NEW i \in Nat \ {0}, NEW j \in 1 .. SectorsPerCluster,
         NEW n \in Nat \ {0}, NEW s \in Nat, s < SectorsPerCluster, i <= n,
         (i - 1) * SectorsPerCluster + (j - 1) = (n - 1) * SectorsPerCluster + s
  PROVE  i = n /\ j = s + 1
<1>1. SectorsPerCluster \in Nat \ {0} /\ j \in Nat \ {0} /\ j <= SectorsPerCluster
  BY Geometry
<1>2. CASE i < n
  <2>1. ((i - 1) + 1) * SectorsPerCluster <= (n - 1) * SectorsPerCluster
    <3>1. (i - 1) + 1 \in Nat /\ n - 1 \in Nat /\ (i - 1) + 1 <= n - 1
      BY <1>2
    <3>. QED
      BY <1>1, <3>1, Products
  <2>2. ((i - 1) + 1) * SectorsPerCluster = (i - 1) * SectorsPerCluster + SectorsPerCluster
    BY <1>1
  <2>3. (i - 1) * SectorsPerCluster \in Nat /\ (n - 1) * SectorsPerCluster \in Nat
    <3>1. i - 1 \in Nat /\ n - 1 \in Nat
      OBVIOUS
    <3>. QED
      BY <1>1, <3>1, Products
  <2>. QED
    BY <1>1, <2>1, <2>2, <2>3
<1>3. CASE i = n
  <2>1. (n - 1) * SectorsPerCluster \in Nat
    <3>1. n - 1 \in Nat
      OBVIOUS
    <3>. QED
      BY <1>1, <3>1, Products
  <2>. QED
    BY <1>1, <1>3, <2>1
<1>. QED
  BY <1>2, <1>3

-----------------------------------------------------------------------------
(* What stays when a step leaves the volume alone.                          *)

LEMMA VolumeSame ==
  ASSUME NEW own, Holds(own), UNCHANGED <<fat, dir, data, todo, crashed, torn>>, Files' = Files
  PROVE  /\ Chains(own)' /\ FilesOwn(own)' /\ (~crashed => NothingLost(own))'
         /\ FilesStored(own)'
<1>1. Chains(own)'
  BY ChainsSame DEF Holds
<1>2. FilesOwn(own)'
  BY DEF Holds, FilesOwn, FirstOf, Fits
<1>3. (~crashed => NothingLost(own))'
  BY DEF Holds, NothingLost, Owns
<1>4. FilesStored(own)'
  BY DEF Holds, FilesStored, Stored, StoredIn, PieceAt, Piece
<1>. QED
  BY <1>1, <1>2, <1>3, <1>4

LEMMA StateSame ==
  ASSUME StateInv, DirInv, UNCHANGED <<fat, dir, data, todo, crashed, torn>>
  PROVE  StateInv' /\ DirInv'
  BY DEF StateInv, DirInv, IsFile

LEMMA FilesSame ==
  ASSUME UNCHANGED <<dir, torn>>, op.cmd # "delete", op'.cmd # "delete"
  PROVE  Files' = Files
  BY DEF Files, IsFile

(* Giving the witness.                                                      *)
LEMMA IInvFrom ==
  ASSUME StateInv', DirInv', OpInv', NEW own, Holds(own)'
  PROVE  IInv'
<1>1. own \in [Owners -> Seq(Clusters)]
  BY DEF Holds, Chains
<1>. QED
  BY <1>1 DEF IInv

-----------------------------------------------------------------------------
(* write                                                                    *)

LEMMA SlotRange == Slots = 1 .. NumSlots /\ NumSlots \in Nat \ {0}
  BY Geometry DEF Slots

LEMMA IdleTyped == Idle \in Ops
<1>1. 0 \in FatValues /\ 0 \in 0 .. SectorsPerCluster /\ <<>> \in Seq(Chars) /\ 0 \in Nat
  BY Geometry DEF FatValues, Free
<1>. QED
  BY <1>1 DEF Idle, Ops

LEMMA OpFields ==
  ASSUME OpInv
  PROVE  /\ op.name \in Seq(Chars) /\ op.slot \in Slots \cup {0} /\ op.len \in Nat
         /\ op.done \in Nat /\ op.sec \in Nat /\ op.sec <= SectorsPerCluster
         /\ op.first \in Clusters \cup {0} /\ op.prev \in Clusters \cup {0}
         /\ op.cur \in FatValues /\ op.done <= op.len
         /\ op = [cmd |-> op.cmd, pc |-> op.pc, name |-> op.name, slot |-> op.slot,
                  len |-> op.len, done |-> op.done, first |-> op.first, prev |-> op.prev,
                  cur |-> op.cur, sec |-> op.sec]
  BY Geometry DEF OpInv, Ops

LEMMA StartWriteStep ==
  ASSUME IInv, NEW name \in Names, NEW len \in Lengths, StartWrite(name, len)
  PROVE  IInv'
<1>1. PICK own \in [Owners -> Seq(Clusters)] : Holds(own)
  BY DEF IInv
<1>2. PICK s \in Slots : /\ FreeSlot(s)
                         /\ op' = [Idle EXCEPT !.cmd = "write", !.pc = "read", !.name = name,
                                               !.len = len, !.slot = s]
  BY DEF StartWrite
<1>3. /\ op'.cmd = "write" /\ op'.pc = "read" /\ op'.name = name /\ op'.len = len
      /\ op'.slot = s /\ op'.done = 0 /\ op'.sec = 0
      /\ op'.first = 0 /\ op'.prev = 0 /\ op'.cur = 0
  BY <1>2 DEF Idle
<1>4. /\ op.cmd = "idle" /\ UNCHANGED <<fat, dir, data, todo, crashed, torn>>
      /\ StateInv /\ DirInv /\ OpInv
  BY DEF StartWrite, IInv
<1>5. StateInv' /\ DirInv'
  BY <1>4, StateSame
<1>6. OpInv'
  <2>1. name \in Seq(Chars) /\ len \in Nat
    BY NamesAssumption, LengthsAssumption
  <2>2. op' \in Ops
    BY <1>2, <2>1, IdleTyped DEF Ops
  <2>3. FreeSlot(s)'
    BY <1>2, <1>4 DEF FreeSlot, IsFile
  <2>. QED
    BY <1>3, <2>1, <2>2, <2>3 DEF OpInv
<1>7. own[0] = <<>> /\ todo = <<>>
  <2>1. Running(own)
    BY <1>1 DEF Holds
  <2>. QED
    BY <1>4, <2>1 DEF Running, Writing, Freeing, Erasing, Resting
<1>8. Running(own)'
  <2>1. Writing(own)'
    BY <1>3, <1>4, <1>7 DEF Writing, FirstOf, LastOf, Stored, StoredIn, Position
  <2>. QED
    BY <2>1 DEF Running
<1>9. Files' = Files
  BY <1>3, <1>4, FilesSame
<1>10. Holds(own)'
  BY <1>1, <1>4, <1>8, <1>9, VolumeSame DEF Holds
<1>. QED
  BY <1>5, <1>6, <1>10, IInvFrom

LEMMA InWrite ==
  ASSUME NEW own, Holds(own), op.cmd \in {"idle", "write", "delete"},
         op.pc \in {"read", "data", "entry"}
  PROVE  Writing(own)
<1>1. Running(own) /\ op.pc \notin {"free", "erase"}
  BY DEF Holds
<1>2. Idle.pc = "idle"
  BY DEF Idle
<1>. QED
  BY <1>1, <1>2 DEF Running, Freeing, Erasing, Resting

LEMMA EndOfInputStep ==
  ASSUME IInv, EndOfInput
  PROVE  IInv'
<1>1. PICK own \in [Owners -> Seq(Clusters)] : Holds(own)
  BY DEF IInv
<1>2. /\ op.pc = "read" /\ todo = <<>> /\ ReadBytes = 0 /\ op' = [op EXCEPT !.pc = "entry"]
      /\ UNCHANGED <<fat, dir, data, todo, crashed, torn>>
      /\ StateInv /\ DirInv /\ OpInv
  BY DEF EndOfInput, At, IInv
<1>3. Writing(own)
  BY <1>1, <1>2, InWrite DEF OpInv, Ops
<1>4. /\ op'.cmd = "write" /\ op'.pc = "entry" /\ op'.name = op.name /\ op'.len = op.len
      /\ op'.slot = op.slot /\ op'.done = op.done /\ op'.sec = op.sec
      /\ op'.first = op.first /\ op'.prev = op.prev /\ op'.cur = op.cur
  BY <1>2, <1>3, OpFields DEF Writing
<1>5. StateInv' /\ DirInv'
  BY <1>2, StateSame
<1>6. OpInv'
  <2>1. op' \in Ops
    BY <1>2 DEF OpInv, Ops
  <2>2. FreeSlot(op.slot)' <=> FreeSlot(op.slot)
    BY <1>2 DEF FreeSlot, IsFile
  <2>. QED
    BY <1>2, <1>3, <1>4, <2>1, <2>2 DEF OpInv, Writing
<1>7. op.done = op.len
  BY <1>2, OpFields, Geometry DEF ReadBytes
<1>8. Fits(Len(own[0]), op.len)
  <2> DEFINE n == Len(own[0])
  <2>1. n \in Nat /\ (own[0] = <<>> <=> n = 0)
    BY Ranges, OwnFacts
  <2>2. op.len = Position(n) /\ (n # 0 => op.sec >= 1)
    BY <1>2, <1>3, <1>7, <2>1 DEF Writing
  <2>. HIDE DEF n
  <2>3. CASE n = 0
    BY <2>2, <2>3 DEF Fits, Position, n
  <2>4. CASE n # 0
    <3> DEFINE s == op.sec - 1
    <3>1. /\ n \in Nat \ {0} /\ s \in Nat /\ s < SectorsPerCluster /\ op.sec = s + 1
          /\ SectorSize \in Nat /\ 0 < SectorSize
      BY <1>2, <2>1, <2>2, <2>4, OpFields, Geometry
    <3>2. op.len = ((n - 1) * SectorsPerCluster + (s + 1)) * SectorSize
      BY <2>2, <2>4, <3>1 DEF Position
    <3>. HIDE DEF s
    <3>3. ((n - 1) * SectorsPerCluster + (s + 1)) * SectorSize
            = ((n - 1) * SectorsPerCluster + s) * SectorSize + SectorSize
      BY <3>1, Geometry
    <3>4. Fits(n, op.len)
      BY <3>1, <3>2, <3>3, SectorFits
    <3>. QED
      BY <3>4 DEF n
  <2>. QED
    BY <2>1, <2>3, <2>4
<1>9. Running(own)'
  <2>1. Writing(own)'
    BY <1>2, <1>3, <1>4, <1>7, <1>8 DEF Writing, Stored, StoredIn, Fits, PieceAt, Piece
  <2>. QED
    BY <2>1 DEF Running
<1>10. Files' = Files
  BY <1>2, <1>3, <1>4, FilesSame DEF Writing
<1>11. Holds(own)'
  BY <1>1, <1>2, <1>9, <1>10, VolumeSame DEF Holds
<1>. QED
  BY <1>5, <1>6, <1>11, IInvFrom

LEMMA SameClusterStep ==
  ASSUME IInv, SameCluster
  PROVE  IInv'
<1>1. PICK own \in [Owners -> Seq(Clusters)] : Holds(own)
  BY DEF IInv
<1>2. /\ op.pc = "read" /\ todo = <<>> /\ ReadBytes > 0 /\ ~NeedsCluster
      /\ op' = [op EXCEPT !.pc = "data"]
      /\ UNCHANGED <<fat, dir, data, todo, crashed, torn>>
      /\ StateInv /\ DirInv /\ OpInv
  BY DEF SameCluster, At, IInv
<1>3. Writing(own)
  BY <1>1, <1>2, InWrite DEF OpInv, Ops
<1>4. /\ op'.cmd = "write" /\ op'.pc = "data" /\ op'.name = op.name /\ op'.len = op.len
      /\ op'.slot = op.slot /\ op'.done = op.done /\ op'.sec = op.sec
      /\ op'.first = op.first /\ op'.prev = op.prev /\ op'.cur = op.cur
  BY <1>2, <1>3, OpFields DEF Writing
<1>5. StateInv' /\ DirInv'
  BY <1>2, StateSame
<1>6. OpInv'
  <2>1. op' \in Ops
    BY <1>2 DEF OpInv, Ops
  <2>2. FreeSlot(op.slot)' <=> FreeSlot(op.slot)
    BY <1>2 DEF FreeSlot, IsFile
  <2>. QED
    BY <1>2, <1>3, <1>4, <2>1, <2>2 DEF OpInv, Writing
<1>7. own[0] # <<>> /\ op.sec < SectorsPerCluster /\ op.done < op.len
  <2>1. op.cur # 0 /\ op.sec < SectorsPerCluster
    BY <1>2, OpFields, Geometry DEF NeedsCluster
  <2>2. op.done < op.len
    BY <1>2, OpFields, Geometry DEF ReadBytes
  <2>. QED
    BY <1>3, <2>1, <2>2 DEF Writing, LastOf
<1>8. Running(own)'
  <2>1. Position(Len(own[0]))' = Position(Len(own[0]))
    BY <1>4 DEF Position
  <2>2. Writing(own)'
    BY <1>2, <1>3, <1>4, <1>7, <2>1 DEF Writing, Stored, StoredIn, PieceAt, Piece
  <2>. QED
    BY <2>2 DEF Running
<1>9. Files' = Files
  BY <1>2, <1>3, <1>4, FilesSame DEF Writing
<1>10. Holds(own)'
  BY <1>1, <1>2, <1>8, <1>9, VolumeSame DEF Holds
<1>. QED
  BY <1>5, <1>6, <1>10, IInvFrom

LEMMA DiskFullStep ==
  ASSUME IInv, DiskFull
  PROVE  IInv'
<1>1. PICK own \in [Owners -> Seq(Clusters)] : Holds(own)
  BY DEF IInv
<1>2. /\ op.pc = "read" /\ todo = <<>> /\ op' = [op EXCEPT !.pc = "free", !.cur = op.first]
      /\ UNCHANGED <<fat, dir, data, todo, crashed, torn>>
      /\ StateInv /\ DirInv /\ OpInv
  BY DEF DiskFull, At, IInv
<1>3. Writing(own)
  BY <1>1, <1>2, InWrite DEF OpInv, Ops
<1>4. /\ op'.cmd = "write" /\ op'.pc = "free" /\ op'.name = op.name /\ op'.len = op.len
      /\ op'.slot = op.slot /\ op'.done = op.done /\ op'.cur = op.first
  BY <1>2, <1>3, OpFields DEF Writing
<1>5. StateInv' /\ DirInv'
  BY <1>2, StateSame
<1>6. OpInv'
  <2>1. op.first \in FatValues
    BY <1>2, OpFields DEF FatValues, Free
  <2>2. op' \in Ops
    BY <1>2, <2>1 DEF OpInv, Ops
  <2>3. FreeSlot(op.slot)' <=> FreeSlot(op.slot)
    BY <1>2 DEF FreeSlot, IsFile
  <2>. QED
    BY <1>2, <1>3, <1>4, <2>2, <2>3 DEF OpInv, Writing
<1>7. Running(own)'
  <2>1. Freeing(own)'
    BY <1>3, <1>4 DEF Freeing, Writing, FirstOf
  <2>. QED
    BY <2>1 DEF Running
<1>8. Files' = Files
  BY <1>2, <1>3, <1>4, FilesSame DEF Writing
<1>9. Holds(own)'
  BY <1>1, <1>2, <1>7, <1>8, VolumeSame DEF Holds
<1>. QED
  BY <1>5, <1>6, <1>9, IInvFrom

(* What read stood before when a cluster is needed: all that were allocated *)
(* are full.                                                                *)
LEMMA AllFull ==
  ASSUME OpInv, NEW own \in [Owners -> Seq(Clusters)], Writing(own), op.pc = "read", NeedsCluster
  PROVE  op.done = (Len(own[0]) * SectorsPerCluster) * SectorSize
<1> DEFINE n == Len(own[0])
<1>1. n \in Nat /\ (own[0] = <<>> <=> n = 0) /\ op.done = Position(n) /\ 0 \in Owners
  BY Ranges, OwnFacts DEF Writing
<1>2. CASE n = 0
  <2>1. op.done = 0
    BY <1>1, <1>2 DEF Position
  <2>2. (0 * SectorsPerCluster) * SectorSize = 0
    BY Geometry
  <2>. HIDE DEF n
  <2>3. op.done = (n * SectorsPerCluster) * SectorSize
    BY <1>2, <2>1, <2>2
  <2>. QED
    BY <2>3 DEF n
<1>3. CASE n # 0
  <2>1. op.cur \in Clusters
    <3>1. n \in DOMAIN own[0] /\ op.cur = own[0][n]
      BY <1>1, <1>3, OwnFacts DEF Writing, LastOf
    <3>. QED
      BY <1>1, <3>1, OwnFacts
  <2>2. op.sec = SectorsPerCluster
    BY <2>1, Ranges, OpFields, Geometry DEF NeedsCluster
  <2>. HIDE DEF n
  <2>3. op.done = ((n - 1) * SectorsPerCluster + SectorsPerCluster) * SectorSize
    BY <1>1, <1>3, <2>2 DEF Position
  <2>4. (n - 1) * SectorsPerCluster + SectorsPerCluster = n * SectorsPerCluster
    BY <1>1, Geometry
  <2>5. op.done = (n * SectorsPerCluster) * SectorSize
    BY <2>3, <2>4
  <2>. QED
    BY <2>5 DEF n
<1>. QED
  BY <1>2, <1>3

LEMMA AllocateClusterStep ==
  ASSUME IInv, AllocateCluster
  PROVE  IInv'
<1>1. PICK own \in [Owners -> Seq(Clusters)] : Holds(own)
  BY DEF IInv
<1>2. /\ op.pc = "read" /\ todo = <<>> /\ ReadBytes > 0 /\ NeedsCluster
      /\ UNCHANGED <<fat, dir, data, crashed, torn>>
      /\ StateInv /\ DirInv /\ OpInv /\ Chains(own)
  BY <1>1 DEF AllocateCluster, At, IInv, Holds
<1>3. PICK c \in Clusters :
        /\ FirstFree(c)
        /\ todo' = SetEntry(c, EndOfChain) \o
                     (IF op.prev # 0 THEN SetEntry(op.prev, c) ELSE <<>>)
        /\ op' = [op EXCEPT !.pc = "data", !.first = IF op.prev # 0 THEN @ ELSE c,
                            !.prev = c, !.cur = c, !.sec = 0]
  BY DEF AllocateCluster
<1>4. Writing(own)
  BY <1>1, <1>2, InWrite DEF OpInv, Ops
<1>5. /\ op'.cmd = "write" /\ op'.pc = "data" /\ op'.name = op.name /\ op'.len = op.len
      /\ op'.slot = op.slot /\ op'.done = op.done /\ op'.sec = 0
      /\ op'.first = (IF op.prev # 0 THEN op.first ELSE c) /\ op'.prev = c /\ op'.cur = c
  BY <1>2, <1>3, <1>4, OpFields DEF Writing
<1> DEFINE q == own[0]
           n == Len(own[0])
           own2 == [own EXCEPT ![0] = Append(own[0], c)]
<1>6. /\ q \in Seq(Clusters) /\ n \in Nat /\ (q = <<>> <=> n = 0) /\ 0 \in Owners
      /\ DOMAIN q = 1 .. n /\ \A i \in 1 .. n : q[i] \in Clusters
  BY Ranges, OwnFacts
<1>7. op.prev = (IF q = <<>> THEN 0 ELSE q[n]) /\ (op.prev = 0 <=> q = <<>>)
  <2>1. op.prev = (IF q = <<>> THEN 0 ELSE q[n])
    BY <1>4 DEF Writing, LastOf
  <2>2. q # <<>> => q[n] \in Clusters
    <3>1. q # <<>> => n \in 1 .. n
      BY <1>6
    <3>. QED
      BY <1>6, <3>1
  <2>. HIDE DEF q, n
  <2>. QED
    BY <2>1, <2>2, Ranges
<1>8. Chains(own2)' /\ todo' \in Seq(Copies \X Clusters \X FatValues)
  <2>1. fat[1][c] = Free
    BY <1>3 DEF FirstFree, FreeClusters
  <2>2. todo' = SetEntry(c, EndOfChain) \o
                  (IF own[0] = <<>> THEN <<>> ELSE SetEntry(LastOf(own[0]), c))
    BY <1>3, <1>7 DEF LastOf
  <2>. HIDE DEF q, n, own2
  <2>. QED
    BY <1>2, <2>1, <2>2, ChainsAppend DEF own2
<1>9. /\ own2 \in [Owners -> Seq(Clusters)] /\ own2[0] = Append(q, c)
      /\ \A x \in Slots : own2[x] = own[x]
  <2>1. Append(q, c) \in Seq(Clusters)
    BY <1>6
  <2>. HIDE DEF q
  <2>. QED
    BY <1>6, <2>1, Ranges DEF q
<1>10. /\ own2[0] # <<>> /\ Len(own2[0]) = n + 1 /\ DOMAIN own2[0] = 1 .. n + 1
       /\ own2[0][n + 1] = c /\ \A i \in 1 .. n : own2[0][i] = q[i]
  BY <1>6, <1>9
<1>. HIDE DEF q, n, own2
<1>11. StateInv' /\ DirInv'
  BY <1>2, <1>8 DEF StateInv, DirInv, IsFile
<1>12. OpInv'
  <2>1. c \in FatValues /\ 0 \in 0 .. SectorsPerCluster
    BY Geometry DEF FatValues
  <2>2. op' \in Ops
    BY <1>2, <1>3, <2>1 DEF OpInv, Ops
  <2>3. FreeSlot(op.slot)' <=> FreeSlot(op.slot)
    BY <1>2, <1>5 DEF FreeSlot, IsFile
  <2>. QED
    BY <1>2, <1>4, <1>5, <2>2, <2>3 DEF OpInv, Writing
<1>13. Files' = Files
  BY <1>2, <1>4, <1>5, FilesSame DEF Writing
<1>14. FilesOwn(own2)'
  <2>1. FilesOwn(own)
    BY <1>1 DEF Holds
  <2>. QED
    BY <1>2, <1>9, <1>13, <2>1 DEF FilesOwn, FirstOf, Fits
<1>15. (~crashed => NothingLost(own2))'
  <2>. SUFFICES ASSUME ~crashed, NEW d \in Clusters, fat[1][d] # Free
                PROVE  \E x \in Owners : Owns(own2, x, d)
    BY <1>2 DEF NothingLost, Owns
  <2>1. PICK x \in Owners : Owns(own, x, d)
    BY <1>1, <1>2 DEF Holds, NothingLost
  <2>2. PICK i \in DOMAIN own[x] : own[x][i] = d
    BY <2>1 DEF Owns
  <2>3. CASE x = 0
    <3>1. i \in 1 .. n /\ i \in 1 .. n + 1 /\ q[i] = d
      BY <1>6, <2>2, <2>3 DEF q
    <3>. QED
      BY <1>6, <1>10, <3>1 DEF Owns
  <2>4. CASE x # 0
    <3>1. own2[x] = own[x]
      BY <1>9, <2>4, Ranges
    <3>. QED
      BY <2>2, <3>1 DEF Owns
  <2>. QED
    BY <2>3, <2>4
<1>16. FilesStored(own2)'
  <2>1. FilesStored(own) /\ Files \subseteq Slots
    BY <1>1 DEF Holds, Files
  <2>2. ASSUME NEW s \in Files
        PROVE  Stored(own2[s], dir[s].typed, dir[s].size)'
    <3>1. own2[s] = own[s] /\ Stored(own[s], dir[s].typed, dir[s].size)
      BY <1>9, <2>1 DEF FilesStored
    <3>. QED
      BY <1>2, <3>1 DEF Stored, StoredIn, PieceAt, Piece
  <2>. QED
    BY <1>13, <2>2 DEF FilesStored
<1>17. op.done = (n * SectorsPerCluster) * SectorSize
  BY <1>2, <1>4, AllFull DEF n
<1>18. Stored(own2[0], op.name, op.done)'
  <2>. SUFFICES ASSUME NEW i \in 1 .. n + 1, NEW j \in 1 .. SectorsPerCluster,
                       NEW k, k = (i - 1) * SectorsPerCluster + (j - 1),
                       k * SectorSize < op.done
                PROVE  data[own2[0][i]][j] = PieceAt(op.name, op.done, k)
    BY <1>2, <1>5, <1>10 DEF Stored, StoredIn, PieceAt, Piece
  <2>1. CASE i = n + 1
    <3> DEFINE m == n * SectorsPerCluster
    <3>1. m \in Nat /\ j - 1 \in Nat /\ SectorSize \in Nat
      BY <1>6, Products, Geometry
    <3>2. k = m + (j - 1)
      BY <1>6, <2>1, Geometry
    <3>. HIDE DEF m
    <3>3. k \in Nat /\ m <= k
      BY <3>1, <3>2
    <3>4. m * SectorSize <= k * SectorSize /\ m * SectorSize \in Nat /\ k * SectorSize \in Nat
      BY <3>1, <3>3, Products
    <3>5. op.done = m * SectorSize
      BY <1>17 DEF m
    <3>. QED
      BY <3>4, <3>5
  <2>2. CASE i # n + 1
    <3>1. i \in 1 .. n
      BY <1>6, <2>2
    <3>2. own2[0][i] = q[i]
      BY <1>10, <3>1
    <3>3. Stored(q, op.name, op.done)
      BY <1>4 DEF Writing, q
    <3>. QED
      BY <1>6, <3>1, <3>2, <3>3 DEF Stored, StoredIn
  <2>. QED
    BY <2>1, <2>2
<1>19. op.done < op.len
  BY <1>2, OpFields, Geometry DEF ReadBytes
<1>20. op'.done = Position(Len(own2[0]))'
  <2>1. Position(n + 1)' = (((n + 1) - 1) * SectorsPerCluster + 0) * SectorSize
    BY <1>5, <1>6 DEF Position
  <2>2. ((n + 1) - 1) * SectorsPerCluster + 0 = n * SectorsPerCluster
    BY <1>6, Geometry
  <2>3. Position(n + 1)' = op.done
    BY <1>17, <2>1, <2>2
  <2>. QED
    BY <1>5, <1>10, <2>3 DEF Position
<1>21. op'.first = FirstOf(own2[0]) /\ op'.prev = LastOf(own2[0])
  <2>1. LastOf(own2[0]) = c
    BY <1>10 DEF LastOf
  <2>2. FirstOf(own2[0]) = own2[0][1]
    BY <1>10 DEF FirstOf
  <2>3. CASE q = <<>>
    <3>1. n + 1 = 1
      BY <1>6, <2>3
    <3>. QED
      BY <1>5, <1>7, <1>10, <2>1, <2>2, <2>3, <3>1
  <2>4. CASE q # <<>>
    <3>1. 1 \in 1 .. n
      BY <1>6, <2>4
    <3>2. op.first = q[1]
      BY <1>4, <2>4 DEF Writing, FirstOf, q
    <3>. QED
      BY <1>5, <1>7, <1>10, <2>1, <2>2, <2>4, <3>1, <3>2
  <2>. QED
    BY <2>3, <2>4
<1>22. Running(own2)'
  <2>1. /\ FirstOf(own2[0])' = FirstOf(own2[0]) /\ LastOf(own2[0])' = LastOf(own2[0])
    BY DEF FirstOf, LastOf
  <2>2. 0 < SectorsPerCluster
    BY Geometry
  <2>3. Writing(own2)'
    BY <1>5, <1>10, <1>18, <1>19, <1>20, <1>21, <2>1, <2>2 DEF Writing
  <2>. QED
    BY <2>3 DEF Running
<1>23. Holds(own2)'
  BY <1>8, <1>14, <1>15, <1>16, <1>22 DEF Holds
<1>. QED
  BY <1>11, <1>12, <1>23, IInvFrom

LEMMA NestedUpdate ==
  ASSUME NEW A, NEW B, NEW S, NEW f \in [A -> [B -> S]], NEW a \in A, NEW b \in B, NEW v \in S,
         NEW g, g = [f EXCEPT ![a][b] = v]
  PROVE  /\ \A x \in A : \A y \in B : g[x][y] = IF x = a /\ y = b THEN v ELSE f[x][y]
         /\ g \in [A -> [B -> S]]
  OBVIOUS

(* One more sector of r bytes written, in the s-th place of the last        *)
(* cluster.                                                                 *)
LEMMA StoredMore ==
  ASSUME NEW q \in Seq(Clusters), q # <<>>,
         \A i, j \in DOMAIN q : q[i] = q[j] => i = j,
         NEW name, NEW s \in Nat, s < SectorsPerCluster, NEW r \in Nat, 0 < r, r <= SectorSize,
         NEW m, m = (Len(q) - 1) * SectorsPerCluster + s,
         NEW done, done = m * SectorSize, NEW f, NEW g, StoredIn(f, q, name, done),
         \A c \in Clusters : \A j \in 1 .. SectorsPerCluster :
           g[c][j] = IF c = q[Len(q)] /\ j = s + 1 THEN Piece(name, m, r) ELSE f[c][j]
  PROVE  StoredIn(g, q, name, done + r)
<1> DEFINE n == Len(q)
<1>1. /\ n \in Nat \ {0} /\ DOMAIN q = 1 .. n /\ \A i \in 1 .. n : q[i] \in Clusters
      /\ n \in 1 .. n
  BY ChainFacts
<1>. HIDE DEF n
<1>2. m \in Nat /\ SectorSize \in Nat \ {0} /\ SectorsPerCluster \in Nat \ {0}
  <2>1. n - 1 \in Nat
    BY <1>1
  <2>2. (n - 1) * SectorsPerCluster \in Nat
    BY <2>1, Products, Geometry
  <2>. QED
    BY <2>2, Geometry DEF n
<1>3. \A c \in Clusters : \A j \in 1 .. SectorsPerCluster :
        g[c][j] = IF c = q[n] /\ j = s + 1 THEN Piece(name, m, r) ELSE f[c][j]
  BY DEF n
<1>. SUFFICES ASSUME NEW i \in 1 .. n, NEW j \in 1 .. SectorsPerCluster,
                     NEW k, k = (i - 1) * SectorsPerCluster + (j - 1),
                     k * SectorSize < done + r
              PROVE  g[q[i]][j] = PieceAt(name, done + r, k)
  BY <1>1 DEF StoredIn
<1>4. k \in Nat
  <2>1. i - 1 \in Nat /\ j - 1 \in Nat
    BY <1>1
  <2>2. (i - 1) * SectorsPerCluster \in Nat
    BY <1>2, <2>1, Products
  <2>. QED
    BY <2>1, <2>2
<1>5. m * SectorSize \in Nat /\ k * SectorSize \in Nat /\ done \in Nat
  BY <1>2, <1>4, Products
<1>6. q[i] \in Clusters
  BY <1>1
<1>7. CASE k = m
  <2>1. i = n /\ j = s + 1
    <3>1. (i - 1) * SectorsPerCluster + (j - 1) = (n - 1) * SectorsPerCluster + s
      BY <1>7 DEF n
    <3>2. i \in Nat \ {0} /\ i <= n /\ n \in Nat \ {0}
      BY <1>1
    <3>. QED
      BY <3>1, <3>2, SectorNumber, ZenonT(30)
  <2>2. g[q[i]][j] = Piece(name, m, r)
    BY <1>3, <1>6, <2>1
  <2>3. (done + r) - k * SectorSize = r
    BY <1>5, <1>7
  <2>4. PieceAt(name, done + r, k) = Piece(name, k, IF r < SectorSize THEN r ELSE SectorSize)
    BY <2>3 DEF PieceAt
  <2>5. (IF r < SectorSize THEN r ELSE SectorSize) = r
    BY <1>2
  <2>. QED
    BY <1>7, <2>2, <2>4, <2>5
<1>8. CASE k # m
  <2>1. k * SectorSize < done /\ done - k * SectorSize >= SectorSize
    BY <1>2, <1>4, <1>8, SectorsBefore
  <2>2. f[q[i]][j] = PieceAt(name, done, k)
    BY <1>1, <2>1 DEF StoredIn
  <2>3. ~(done - k * SectorSize < SectorSize)
        /\ ~((done + r) - k * SectorSize < SectorSize)
    <3> DEFINE a == done
               b == k * SectorSize
    <3>1. a \in Nat /\ b \in Nat /\ a - b >= SectorSize /\ SectorSize \in Nat
      BY <1>2, <1>5, <2>1
    <3>. HIDE DEF a, b
    <3>2. ~(a - b < SectorSize) /\ ~((a + r) - b < SectorSize)
      BY <3>1
    <3>. QED
      BY <3>2 DEF a, b
  <2>4. PieceAt(name, done, k) = PieceAt(name, done + r, k)
    BY <2>3 DEF PieceAt
  <2>5. ~(q[i] = q[n] /\ j = s + 1)
    <3>1. SUFFICES ASSUME q[i] = q[n], j = s + 1 PROVE FALSE
      OBVIOUS
    <3>2. i = n
      BY <1>1, <3>1
    <3>3. j - 1 = s
      BY <3>1
    <3>. QED
      BY <1>8, <3>2, <3>3 DEF n
  <2>. QED
    BY <1>3, <1>6, <2>2, <2>4, <2>5
<1>. QED
  BY <1>7, <1>8

LEMMA WriteDataStep ==
  ASSUME IInv, WriteData
  PROVE  IInv'
<1>1. PICK own \in [Owners -> Seq(Clusters)] : Holds(own)
  BY DEF IInv
<1> DEFINE q == own[0]
           n == Len(own[0])
           r == ReadBytes
           s == op.sec
           m == (n - 1) * SectorsPerCluster + op.sec
           next == IF ReadBytes < SectorSize THEN "entry" ELSE "read"
<1>2. /\ op.pc = "data" /\ todo = <<>>
      /\ data' = [data EXCEPT ![op.cur][op.sec + 1] = Piece(op.name, op.done \div SectorSize, r)]
      /\ op' = [op EXCEPT !.pc = next, !.sec = @ + 1, !.done = @ + r]
      /\ UNCHANGED <<fat, dir, todo, crashed, torn>>
      /\ StateInv /\ DirInv /\ OpInv
  BY DEF WriteData, At, IInv
<1>3. Writing(own)
  BY <1>1, <1>2, InWrite DEF OpInv, Ops
<1>4. /\ r \in Nat /\ 0 < r /\ r <= SectorSize /\ op.done + r <= op.len
      /\ (r < SectorSize => op.done + r = op.len) /\ s \in Nat /\ s < SectorsPerCluster
      /\ op.done \in Nat /\ op.len \in Nat /\ SectorSize \in Nat \ {0}
      /\ SectorsPerCluster \in Nat \ {0}
  BY <1>2, <1>3, OpFields, Geometry DEF ReadBytes, Writing
<1>5. /\ op'.cmd = "write" /\ op'.pc = next /\ op'.name = op.name /\ op'.len = op.len
      /\ op'.slot = op.slot /\ op'.done = op.done + r /\ op'.sec = s + 1
      /\ op'.first = op.first /\ op'.prev = op.prev /\ op'.cur = op.cur
  BY <1>2, <1>3, OpFields DEF Writing
<1>6. /\ q \in Seq(Clusters) /\ n \in Nat \ {0} /\ q # <<>> /\ DOMAIN q = 1 .. n /\ n \in DOMAIN q
      /\ \A i \in 1 .. n : q[i] \in Clusters
  BY <1>2, <1>3, Ranges, OwnFacts DEF Writing
<1>7. op.cur = q[n] /\ q[n] \in Clusters
  BY <1>2, <1>3, <1>6 DEF Writing, LastOf
<1>8. op.done = m * SectorSize /\ m \in Nat
  <2>1. op.done = Position(n)
    BY <1>2, <1>3 DEF Writing
  <2>2. n - 1 \in Nat
    BY <1>6
  <2>3. (n - 1) * SectorsPerCluster \in Nat
    BY <1>4, <2>2, Products
  <2>. HIDE DEF n
  <2>. QED
    BY <1>4, <1>6, <2>1, <2>3 DEF Position
<1>. HIDE DEF r, m, n, q, next
<1>9. op.done \div SectorSize = m
  <2>1. m * SectorSize <= op.done /\ op.done < m * SectorSize + SectorSize
    BY <1>4, <1>8
  <2>. QED
    BY <1>4, <1>8, <2>1, QuotientIs
<1>10. data' = [data EXCEPT ![q[n]][s + 1] = Piece(op.name, m, r)]
  BY <1>2, <1>7, <1>9
<1>11. /\ \A c \in Clusters : \A j \in 1 .. SectorsPerCluster :
            data'[c][j] = IF c = q[n] /\ j = s + 1 THEN Piece(op.name, m, r) ELSE data[c][j]
       /\ StateInv' /\ DirInv'
  <2>1. Piece(op.name, m, r) \in Pieces
    BY <1>2, <1>4, <1>8, OpFields DEF Piece, Pieces
  <2>2. s + 1 \in 1 .. SectorsPerCluster
    BY <1>4
  <2> DEFINE p == Piece(op.name, m, r)
             j0 == s + 1
             e == q[n]
  <2>. HIDE DEF p, j0, e
  <2>3. /\ p \in Pieces /\ j0 \in 1 .. SectorsPerCluster /\ e \in Clusters
        /\ data' = [data EXCEPT ![e][j0] = p]
    BY <1>7, <1>10, <2>1, <2>2 DEF p, j0, e
  <2>4. data \in [Clusters -> [1 .. SectorsPerCluster -> Pieces]]
    BY <1>2 DEF StateInv
  <2>5. /\ data' \in [Clusters -> [1 .. SectorsPerCluster -> Pieces]]
        /\ \A c \in Clusters : \A j \in 1 .. SectorsPerCluster :
             data'[c][j] = IF c = e /\ j = j0 THEN p ELSE data[c][j]
    BY <2>3, <2>4, NestedUpdate, ZenonT(60)
  <2>. QED
    BY <1>2, <2>5 DEF StateInv, DirInv, IsFile, p, j0, e
<1>12. OpInv'
  <2>1. op.done + r \in Nat /\ s + 1 \in 0 .. SectorsPerCluster
        /\ next \in {"read", "entry"}
    BY <1>4 DEF next
  <2>2. op' \in Ops
    BY <1>2, <2>1 DEF OpInv, Ops
  <2>3. FreeSlot(op.slot)' <=> FreeSlot(op.slot)
    BY <1>2, <1>5 DEF FreeSlot, IsFile
  <2>. QED
    BY <1>2, <1>3, <1>4, <1>5, <2>2, <2>3 DEF OpInv, Writing
<1>13. Chains(own)' /\ Apart(own) /\ own \in [Owners -> Seq(Clusters)]
  BY <1>1, <1>2, ChainsSame DEF Holds, Chains
<1>14. Files' = Files
  BY <1>2, <1>3, <1>5, FilesSame DEF Writing
<1>15. FilesOwn(own)'
  BY <1>1, <1>2, <1>14 DEF Holds, FilesOwn, FirstOf, Fits
<1>16. (~crashed => NothingLost(own))'
  BY <1>1, <1>2 DEF Holds, NothingLost, Owns
<1>17. FilesStored(own)'
  <2>. SUFFICES ASSUME NEW t \in Files, NEW i \in DOMAIN own[t], NEW j \in 1 .. SectorsPerCluster
                PROVE  data'[own[t][i]][j] = data[own[t][i]][j]
    BY <1>1, <1>2, <1>14 DEF Holds, FilesStored, Stored, StoredIn, PieceAt, Piece
  <2>1. t \in Owners /\ t # 0 /\ 0 \in Owners
    BY Ranges DEF Files
  <2>2. own[t][i] # q[n] /\ own[t][i] \in Clusters
    BY <1>6, <1>13, <2>1, OwnFacts DEF Apart, q
  <2>. QED
    BY <1>11, <2>2
<1>18. PICK k0, r0, q0 : k0 = m /\ r0 = r /\ q0 = q
  OBVIOUS
<1>19. Stored(q0, op.name, op.done)'
  <2>1. \A i, j \in DOMAIN q : q[i] = q[j] => i = j
    BY <1>13, Ranges DEF Apart, q
  <2>2. StoredIn(data, q, op.name, op.done)
    BY <1>3 DEF Writing, Stored, q
  <2>3. m = (Len(q) - 1) * SectorsPerCluster + s /\ n = Len(q)
    BY DEF m, n, q
  <2>4. \A c \in Clusters : \A j \in 1 .. SectorsPerCluster :
           data'[c][j] = IF c = q[Len(q)] /\ j = s + 1 THEN Piece(op.name, m, r) ELSE data[c][j]
    BY <1>11, <2>3
  <2>5. StoredIn(data', q, op.name, op.done + r)
    <3>1. /\ q \in Seq(Clusters) /\ q # <<>> /\ s \in Nat /\ s < SectorsPerCluster /\ r \in Nat
          /\ 0 < r /\ r <= SectorSize /\ op.done = m * SectorSize
          /\ m = (Len(q) - 1) * SectorsPerCluster + s
      BY <1>4, <1>6, <1>8, <2>3
    <3>. HIDE DEF s
    <3>. QED
      BY <2>1, <2>2, <2>4, <3>1, StoredMore
  <2>. QED
    BY <1>5, <1>18, <2>5 DEF Stored
<1>20. /\ m = (n - 1) * SectorsPerCluster + s
       /\ n = Len(q) /\ q = own[0] /\ r = ReadBytes
  BY DEF m, n, q, r
<1>21. r = SectorSize => next = "read" /\ op'.done = Position(Len(own[0]))'
  <2>. SUFFICES ASSUME r = SectorSize
                PROVE  next = "read" /\ op'.done = Position(Len(own[0]))'
    OBVIOUS
  <2>1. next = "read"
    BY <1>4, <1>20 DEF next
  <2>2. op'.done = ((n - 1) * SectorsPerCluster + (s + 1)) * SectorSize
    <3>1. op'.done = m * SectorSize + SectorSize
      BY <1>5, <1>8
    <3>2. m * SectorSize + SectorSize = (m + 1) * SectorSize
      BY <1>4, <1>8
    <3>3. (n - 1) * SectorsPerCluster \in Nat
      <4>1. n - 1 \in Nat
        BY <1>6
      <4>. QED
        BY <1>4, <4>1, Products
    <3>4. m + 1 = (n - 1) * SectorsPerCluster + (s + 1)
      BY <1>4, <1>20, <3>3
    <3>. QED
      BY <3>1, <3>2, <3>4
  <2>3. op'.done = Position(Len(own[0]))'
    <3>1. PICK l : l = n
      OBVIOUS
    <3>2. Position(l)' = ((l - 1) * SectorsPerCluster + op'.sec) * SectorSize
      BY <1>6, <3>1 DEF Position
    <3>3. Position(l)' = op'.done
      BY <1>5, <2>2, <3>1, <3>2
    <3>. QED
      BY <1>20, <3>1, <3>3
  <2>. QED
    BY <2>1, <2>3
<1>22. r < SectorSize => next = "entry" /\ op'.done = op'.len /\ Fits(Len(own[0]), op.len)'
  <2>. SUFFICES ASSUME r < SectorSize
                PROVE  next = "entry" /\ op'.done = op'.len /\ Fits(Len(own[0]), op.len)'
    OBVIOUS
  <2>1. next = "entry" /\ op'.done = op'.len
    BY <1>4, <1>5, <1>20 DEF next
  <2>2. Fits(n, op.len)
    <3>1. op.len = ((n - 1) * SectorsPerCluster + s) * SectorSize + r
      BY <1>4, <1>8, <1>20
    <3>. HIDE DEF s
    <3>. QED
      BY <1>4, <1>6, <3>1, SectorFits
  <2>3. Fits(Len(own[0]), op.len)'
    BY <1>5, <1>20, <2>2 DEF Fits
  <2>. QED
    BY <2>1, <2>3
<1>23. Writing(own)'
  <2>1. Stored(own[0], op.name, op.done)'
    BY <1>18, <1>19, <1>20
  <2>2. s + 1 >= 1 /\ next \in {"read", "entry"} /\ todo' = <<>>
          /\ (r = SectorSize \/ r < SectorSize)
    BY <1>2, <1>4 DEF next
  <2>3. own[0] # <<>> /\ op'.first = FirstOf(own[0])' /\ op'.prev = LastOf(own[0])'
        /\ op'.cur = op'.prev
    BY <1>3, <1>5, <1>6, <1>20 DEF Writing, FirstOf, LastOf
  <2>4. \/ next = "read" /\ op'.done = Position(Len(own[0]))'
        \/ next = "entry" /\ op'.done = op'.len /\ Fits(Len(own[0]), op.len)'
    BY <1>21, <1>22, <2>2
  <2>. QED
    BY <1>5, <2>1, <2>2, <2>3, <2>4 DEF Writing
<1>24. Holds(own)'
  BY <1>13, <1>15, <1>16, <1>17, <1>23 DEF Holds, Running
<1>. QED
  BY <1>11, <1>12, <1>24, IInvFrom

LEMMA IdleOp ==
  ASSUME op' = Idle
  PROVE  OpInv' /\ op'.cmd = "idle"
<1>1. Idle \in Ops /\ Idle.cmd = "idle" /\ Idle.done = 0 /\ Idle.len = 0
  BY IdleTyped DEF Idle
<1>. QED
  BY <1>1 DEF OpInv

(* The chain written becomes the chain of the new file.                     *)
LEMMA WriteEntryStep ==
  ASSUME IInv, WriteEntry
  PROVE  IInv'
<1>1. PICK own \in [Owners -> Seq(Clusters)] : Holds(own)
  BY DEF IInv
<1>0. PICK t : t = op.slot
  OBVIOUS
<1>2. /\ op.pc = "entry" /\ dir' = [dir EXCEPT ![t] = Entry("file", op.name, op.first, op.done)]
      /\ op' = Idle
      /\ UNCHANGED <<fat, data, todo, crashed, torn>>
      /\ StateInv /\ DirInv /\ OpInv
  BY <1>0 DEF WriteEntry, At, IInv
<1>3. Writing(own) /\ todo = <<>>
  BY <1>1, <1>2, InWrite DEF OpInv, Ops, Writing
<1>4. /\ op.cmd = "write" /\ op.first = FirstOf(own[0]) /\ Stored(own[0], op.name, op.done)
      /\ op.done = op.len /\ Fits(Len(own[0]), op.done)
      /\ op.name \in Names /\ op.len \in Lengths /\ FreeSlot(t) /\ t \in Slots
      /\ op.first \in Clusters \cup {0} /\ op.done \in Nat
  BY <1>0, <1>2, <1>3, OpFields DEF Writing, OpInv
<1> DEFINE e == Entry("file", op.name, op.first, op.done)
<1>5. /\ e.kind = "file" /\ e.start = op.first /\ e.size = op.done /\ e.typed = op.name
      /\ e.name83 = Format83(op.name)
  BY DEF Entry
<1>. HIDE DEF e
<1>6. /\ DOMAIN dir = Slots /\ DOMAIN dir' = Slots /\ dir'[t] = e
      /\ \A s \in Slots : s # t => dir'[s] = dir[s]
  <2>1. DOMAIN dir = Slots /\ dir' = [dir EXCEPT ![t] = e]
    BY <1>2 DEF DirInv, e
  <2>. QED
    BY <1>4, <2>1
<1>7. ~IsFile(t) /\ \A s \in 1 .. t - 1 : IsFile(s)
  BY <1>4 DEF FreeSlot
<1>8. /\ t \in Files' /\ \A s \in Slots : s # t => (s \in Files' <=> s \in Files)
      /\ t \notin Files /\ Files \subseteq Slots /\ Files' \subseteq Slots
  <2>1. op'.cmd = "idle" /\ torn' = {} /\ torn = {}
    BY <1>2, IdleOp DEF StateInv
  <2>. QED
    BY <1>0, <1>4, <1>5, <1>6, <1>7, <2>1 DEF Files, IsFile
<1> DEFINE own2 == [x \in Owners |-> IF x = 0 THEN <<>> ELSE IF x = t THEN own[0] ELSE own[x]]
           g == [x \in Owners |-> IF x = t THEN 0 ELSE x]
<1>9. /\ own2 \in [Owners -> Seq(Clusters)] /\ g \in [Owners -> Owners]
      /\ t \in Owners /\ t # 0 /\ 0 \in Owners
      /\ own2[0] = <<>> /\ own2[t] = own[0] /\ \A s \in Slots : s # t => own2[s] = own[s]
  <2>1. t \in Owners /\ t # 0 /\ 0 \in Owners /\ Slots \subseteq Owners /\ 0 \notin Slots
    BY <1>4, Ranges
  <2>. QED
    BY <2>1
<1>10. Chains(own2)'
  <2>1. \A x \in Owners : own2[x] = <<>> \/ own2[x] = own[g[x]]
    BY <1>9
  <2>2. \A x, y \in Owners : own2[x] # <<>> /\ own2[y] # <<>> /\ g[x] = g[y] => x = y
    BY <1>9
  <2>3. Chains(own) /\ fat' = fat /\ todo' = <<>> /\ todo = <<>>
    BY <1>1, <1>2, <1>3 DEF Holds
  <2>. HIDE DEF own2, g
  <2>. QED
    BY <1>9, <2>1, <2>2, <2>3, Regroup, ZenonT(60)
<1>. HIDE DEF own2, g
<1>11. FilesOwn(own) /\ FilesStored(own) /\ (~crashed => NothingLost(own))
  BY <1>1 DEF Holds
<1>12. own[t] = <<>>
  BY <1>4, <1>8, <1>11 DEF FilesOwn
<1>13. StateInv' /\ DirInv'
  <2>1. DirInv'
    <3>. SUFFICES ASSUME NEW s \in Slots
                  PROVE  /\ dir'[s].start \in Clusters \cup {0} /\ dir'[s].size \in Nat
                         /\ dir'[s].kind \in {"end", "deleted", "file"}
                         /\ IsFile(s)' => /\ dir'[s].typed \in Names
                                          /\ dir'[s].name83 = Format83(dir'[s].typed)
                                          /\ dir'[s].size \in Lengths
                                          /\ \A r \in 1 .. s - 1 : dir'[r].kind # "end"
      BY <1>6 DEF DirInv
    <3>1. \A r \in 1 .. s - 1 : r \in Slots
      BY SlotRange
    <3>2. CASE s = t
      <4>1. \A r \in 1 .. t - 1 : r # t
        BY <1>4, SlotRange
      <4>2. \A r \in 1 .. s - 1 : dir'[r].kind # "end"
        BY <1>6, <1>7, <3>1, <3>2, <4>1 DEF IsFile
      <4>. QED
        BY <1>4, <1>5, <1>6, <3>2, <4>2
    <3>3. CASE s # t
      <4>1. dir'[s] = dir[s]
        BY <1>6, <3>3
      <4>2. ASSUME IsFile(s), NEW r \in 1 .. s - 1
            PROVE  dir'[r].kind # "end"
        <5>1. dir[r].kind # "end"
          BY <1>2, <4>2 DEF DirInv
        <5>. QED
          BY <1>5, <1>6, <3>1, <5>1
      <4>. QED
        BY <1>2, <4>1, <4>2 DEF DirInv, IsFile
    <3>. QED
      BY <3>2, <3>3
  <2>. QED
    BY <1>2, <2>1 DEF StateInv
<1>14. FilesOwn(own2)'
  <2>. SUFFICES ASSUME NEW s \in Slots
                PROVE  IF s \in Files'
                       THEN dir'[s].start = FirstOf(own2[s]) /\ Fits(Len(own2[s]), dir'[s].size)
                       ELSE own2[s] = <<>>
    BY DEF FilesOwn, FirstOf, Fits
  <2>1. CASE s = t
    BY <1>4, <1>5, <1>6, <1>8, <1>9, <2>1
  <2>2. CASE s # t
    BY <1>6, <1>8, <1>9, <1>11, <2>2 DEF FilesOwn
  <2>. QED
    BY <2>1, <2>2
<1>15. (~crashed => NothingLost(own2))'
  <2>. SUFFICES ASSUME ~crashed, NEW d \in Clusters, fat[1][d] # Free
                PROVE  \E x \in Owners : Owns(own2, x, d)
    BY <1>2 DEF NothingLost, Owns
  <2>1. PICK x \in Owners : Owns(own, x, d)
    BY <1>3, <1>11 DEF NothingLost
  <2>2. PICK y \in Owners : own2[y] = own[x]
    <3>1. x # t
      BY <1>12, <2>1 DEF Owns
    <3>. QED
      BY <1>9, <3>1, Ranges
  <2>. QED
    BY <2>1, <2>2 DEF Owns
<1>16. FilesStored(own2)'
  <2>. SUFFICES ASSUME NEW s \in Files'
                PROVE  StoredIn(data, own2[s], dir'[s].typed, dir'[s].size)
    BY <1>2 DEF FilesStored, Stored
  <2>1. CASE s = t
    BY <1>4, <1>5, <1>6, <1>9, <2>1 DEF Stored
  <2>2. CASE s # t
    <3>1. s \in Files /\ own2[s] = own[s] /\ dir'[s] = dir[s]
      BY <1>6, <1>8, <1>9, <2>2
    <3>. QED
      BY <1>11, <3>1 DEF FilesStored, Stored
  <2>. QED
    BY <2>1, <2>2
<1>17. Running(own2)'
  BY <1>2, <1>3, <1>9 DEF Running, Resting
<1>18. Holds(own2)'
  BY <1>10, <1>14, <1>15, <1>16, <1>17 DEF Holds
<1>. QED
  BY <1>2, <1>13, <1>18, IdleOp, IInvFrom

-----------------------------------------------------------------------------
(* delete                                                                   *)

(* The file's chain becomes the chain of the command.                       *)
LEMMA StartDeleteStep ==
  ASSUME IInv, NEW name \in Names, StartDelete(name)
  PROVE  IInv'
<1>1. PICK own \in [Owners -> Seq(Clusters)] : Holds(own)
  BY DEF IInv
<1>2. /\ op.cmd = "idle" /\ UNCHANGED <<fat, dir, data, todo, crashed, torn>>
      /\ StateInv /\ DirInv /\ OpInv
  BY DEF StartDelete, IInv
<1>3. PICK t \in Slots :
        /\ Finds(name, t)
        /\ op' = [Idle EXCEPT !.cmd = "delete", !.name = name, !.slot = t,
                              !.pc = IF dir[t].start >= 2 THEN "free" ELSE "erase",
                              !.cur = dir[t].start]
  BY DEF StartDelete
<1>4. /\ op'.cmd = "delete" /\ op'.name = name /\ op'.slot = t /\ op'.cur = dir[t].start
      /\ op'.pc = (IF dir[t].start >= 2 THEN "free" ELSE "erase") /\ op'.done = 0 /\ op'.len = 0
  BY <1>3 DEF Idle
<1>5. own[0] = <<>> /\ todo = <<>>
  <2>1. Running(own)
    BY <1>1 DEF Holds
  <2>. QED
    BY <1>2, <2>1 DEF Running, Writing, Freeing, Erasing, Resting
<1>6. /\ IsFile(t) /\ NameMatch(dir[t].name83, name) /\ t \in Files
      /\ dir[t].start \in Clusters \cup {0}
  <2>1. IsFile(t) /\ NameMatch(dir[t].name83, name)
    BY <1>3 DEF Finds
  <2>. QED
    BY <1>2, <2>1 DEF Files, StateInv, DirInv
<1>7. StateInv' /\ DirInv'
  BY <1>2, StateSame
<1>8. OpInv'
  <2>1. dir[t].start \in FatValues /\ name \in Seq(Chars)
    BY <1>6, NamesAssumption DEF FatValues, Free
  <2>2. op' \in Ops
    BY <1>3, <2>1, IdleTyped DEF Ops
  <2>. QED
    BY <1>2, <1>4, <1>6, <2>2 DEF OpInv, IsFile
<1> DEFINE own2 == [x \in Owners |-> IF x = 0 THEN own[t] ELSE IF x = t THEN <<>> ELSE own[x]]
           g == [x \in Owners |-> IF x = 0 THEN t ELSE x]
<1>9. /\ own2 \in [Owners -> Seq(Clusters)] /\ g \in [Owners -> Owners]
      /\ t \in Owners /\ t # 0 /\ 0 \in Owners
      /\ own2[0] = own[t] /\ own2[t] = <<>> /\ \A s \in Slots : s # t => own2[s] = own[s]
  <2>1. t \in Owners /\ t # 0 /\ 0 \in Owners /\ Slots \subseteq Owners /\ 0 \notin Slots
    BY Ranges
  <2>. QED
    BY <2>1
<1>10. Chains(own2)'
  <2>1. \A x \in Owners : own2[x] = <<>> \/ own2[x] = own[g[x]]
    BY <1>9
  <2>2. \A x, y \in Owners : own2[x] # <<>> /\ own2[y] # <<>> /\ g[x] = g[y] => x = y
    BY <1>9
  <2>3. Chains(own) /\ fat' = fat /\ todo' = <<>> /\ todo = <<>>
    BY <1>1, <1>2, <1>5 DEF Holds
  <2>. HIDE DEF own2, g
  <2>. QED
    BY <1>9, <2>1, <2>2, <2>3, Regroup, ZenonT(60)
<1>. HIDE DEF own2, g
<1>11. FilesOwn(own) /\ FilesStored(own) /\ (~crashed => NothingLost(own))
  BY <1>1 DEF Holds
<1>12. \A s \in Slots : s \in Files' <=> s \in Files /\ s # t
  BY <1>2, <1>4 DEF Files, IsFile
<1>13. dir[t].start = FirstOf(own[t])
  BY <1>6, <1>11 DEF FilesOwn
<1>14. FilesOwn(own2)'
  <2>. SUFFICES ASSUME NEW s \in Slots
                PROVE  IF s \in Files'
                       THEN dir[s].start = FirstOf(own2[s]) /\ Fits(Len(own2[s]), dir[s].size)
                       ELSE own2[s] = <<>>
    BY <1>2 DEF FilesOwn, FirstOf, Fits
  <2>. QED
    BY <1>9, <1>11, <1>12 DEF FilesOwn
<1>15. (~crashed => NothingLost(own2))'
  <2>. SUFFICES ASSUME ~crashed, NEW d \in Clusters, fat[1][d] # Free
                PROVE  \E x \in Owners : Owns(own2, x, d)
    BY <1>2 DEF NothingLost, Owns
  <2>1. PICK x \in Owners : Owns(own, x, d)
    BY <1>5, <1>11 DEF NothingLost
  <2>2. PICK y \in Owners : own2[y] = own[x]
    <3>1. x # 0
      BY <1>5, <2>1 DEF Owns
    <3>. QED
      BY <1>9, <3>1, Ranges
  <2>. QED
    BY <2>1, <2>2 DEF Owns
<1>16. FilesStored(own2)'
  <2>. SUFFICES ASSUME NEW s \in Files'
                PROVE  StoredIn(data, own2[s], dir[s].typed, dir[s].size)
    BY <1>2 DEF FilesStored, Stored
  <2>1. s \in Files /\ own2[s] = own[s]
    BY <1>9, <1>12 DEF Files
  <2>. QED
    BY <1>11, <2>1 DEF FilesStored, Stored
<1>17. Running(own2)'
  <2>1. own[t] \in Seq(Clusters) /\ (own[t] # <<>> => own[t][1] \in Clusters)
    BY <1>9, OwnFacts
  <2>2. CASE own[t] = <<>>
    <3>1. op'.pc = "erase"
      BY <1>4, <1>13, <2>2 DEF FirstOf
    <3>. QED
      BY <1>2, <1>4, <1>5, <1>9, <2>2, <3>1 DEF Running, Erasing
  <2>3. CASE own[t] # <<>>
    <3>1. dir[t].start = own[t][1] /\ own[t][1] >= 2
      BY <1>13, <2>1, <2>3, Ranges DEF FirstOf, IsCluster
    <3>. QED
      BY <1>4, <1>9, <2>3, <3>1 DEF Running, Freeing
  <2>. QED
    BY <2>2, <2>3
<1>18. Holds(own2)'
  BY <1>10, <1>14, <1>15, <1>16, <1>17 DEF Holds
<1>. QED
  BY <1>7, <1>8, <1>18, IInvFrom

LEMMA InFree ==
  ASSUME NEW own, Holds(own), op.pc = "free"
  PROVE  Freeing(own)
<1>1. Running(own)
  BY DEF Holds
<1>2. Idle.pc = "idle"
  BY DEF Idle
<1>. QED
  BY <1>1, <1>2 DEF Running, Writing, Erasing, Resting

(* free_chain frees the first cluster of what is left.                      *)
LEMMA FreeNextStep ==
  ASSUME IInv, FreeNext
  PROVE  IInv'
<1>1. PICK own \in [Owners -> Seq(Clusters)] : Holds(own)
  BY DEF IInv
<1>2. /\ op.pc = "free" /\ todo = <<>> /\ IsCluster(op.cur) /\ todo' = SetEntry(op.cur, Free)
      /\ op' = [op EXCEPT !.cur = fat[1][op.cur]]
      /\ UNCHANGED <<fat, dir, data, crashed, torn>>
      /\ StateInv /\ DirInv /\ OpInv
  BY DEF FreeNext, At, IInv
<1>3. Freeing(own) /\ Chains(own)
  BY <1>1, <1>2, InFree DEF Holds
<1>4. own[0] # <<>> /\ op.cur = own[0][1]
  BY <1>2, <1>3, Ranges DEF Freeing
<1>5. PICK q : q = own[0]
  OBVIOUS
<1>6. /\ q \in Seq(Clusters) /\ q # <<>> /\ 0 \in Owners
  BY <1>4, <1>5, Ranges
<1>7. /\ Tail(q) \in Seq(Clusters) /\ Len(Tail(q)) = Len(q) - 1 /\ Len(q) \in Nat
      /\ DOMAIN Tail(q) = 1 .. Len(q) - 1 /\ 1 \in DOMAIN q /\ DOMAIN q = 1 .. Len(q)
      /\ \A i \in DOMAIN Tail(q) : i + 1 \in DOMAIN q /\ Tail(q)[i] = q[i + 1]
  BY <1>6, TailFacts, ChainFacts
<1> DEFINE own2 == [own EXCEPT ![0] = Tail(q)]
<1>8. own2 \in [Owners -> Seq(Clusters)] /\ own2[0] = Tail(q) /\ \A s \in Slots : own2[s] = own[s]
  BY <1>6, <1>7, Ranges
<1>9. own2 = [own EXCEPT ![0] = Tail(own[0])]
  BY <1>5
<1>. HIDE DEF own2
<1>10. /\ Chains(own2)' /\ todo' \in Seq(Copies \X Clusters \X FatValues)
       /\ 1 \in DOMAIN todo' /\ todo'[1] = <<1, own[0][1], Free>> /\ own[0][1] \in Clusters
  BY <1>2, <1>3, <1>4, <1>9, ChainsTail
<1>11. /\ op'.cmd = op.cmd /\ op'.pc = "free" /\ op'.name = op.name /\ op'.slot = op.slot
       /\ op'.len = op.len /\ op'.done = op.done /\ op'.cur = fat[1][op.cur]
  BY <1>2, OpFields
<1>12. StateInv' /\ DirInv'
  BY <1>2, <1>10 DEF StateInv, DirInv, IsFile
<1>13. OpInv'
  <2>1. fat[1][op.cur] \in FatValues
    BY <1>2, <1>4, <1>10, Ranges DEF StateInv
  <2>2. op' \in Ops
    BY <1>2, <2>1 DEF OpInv, Ops
  <2>3. FreeSlot(op.slot)' <=> FreeSlot(op.slot)
    BY <1>2, <1>11 DEF FreeSlot, IsFile
  <2>. QED
    BY <1>2, <1>11, <2>2, <2>3 DEF OpInv, IsFile
<1>14. Files' = Files /\ Files \subseteq Slots
  BY <1>2, <1>11 DEF Files, IsFile
<1>15. FilesOwn(own) /\ FilesStored(own) /\ (~crashed => NothingLost(own))
  BY <1>1 DEF Holds
<1>16. FilesOwn(own2)'
  BY <1>2, <1>8, <1>14, <1>15 DEF FilesOwn, FirstOf, Fits
<1>17. FilesStored(own2)'
  <2>. SUFFICES ASSUME NEW s \in Files
                PROVE  StoredIn(data, own2[s], dir[s].typed, dir[s].size)
    BY <1>2, <1>14 DEF FilesStored, Stored
  <2>. QED
    BY <1>8, <1>14, <1>15 DEF FilesStored, Stored
<1>18. (~crashed => NothingLost(own2))'
  <2>. SUFFICES ASSUME ~crashed, NEW d \in Clusters, fat[1][d] # Free
                PROVE  \/ \E x \in Owners : Owns(own2, x, d)
                       \/ \E j \in DOMAIN todo' : todo'[j] = <<1, d, Free>>
    BY <1>2 DEF NothingLost, Owns
  <2>1. PICK x \in Owners : Owns(own, x, d)
    BY <1>2, <1>15 DEF NothingLost
  <2>2. PICK i \in DOMAIN own[x] : own[x][i] = d
    BY <2>1 DEF Owns
  <2>3. CASE x # 0
    <3>1. own2[x] = own[x]
      BY <1>8, <2>3, Ranges
    <3>. QED
      BY <2>2, <3>1 DEF Owns
  <2>4. CASE x = 0 /\ i = 1
    BY <1>10, <2>2, <2>4
  <2>5. CASE x = 0 /\ i # 1
    <3>1. i - 1 \in DOMAIN Tail(q) /\ Tail(q)[i - 1] = d
      <4>1. i \in 1 .. Len(q) /\ q[i] = d
        BY <1>5, <1>7, <2>2, <2>5
      <4>2. i - 1 \in DOMAIN Tail(q) /\ (i - 1) + 1 = i
        BY <1>7, <2>5, <4>1
      <4>. QED
        BY <1>7, <4>1, <4>2
    <3>. QED
      BY <1>6, <1>8, <3>1 DEF Owns
  <2>. QED
    BY <2>3, <2>4, <2>5
<1>19. Running(own2)'
  <2>1. fat[1][op.cur] = Succ(q, 1)
    BY <1>2, <1>3, <1>4, <1>5, <1>6, <1>7, Ranges, LinksShown
  <2>2. op'.cur = (IF own2[0] = <<>> THEN EndOfChain ELSE own2[0][1])
    <3>1. CASE Len(q) = 1
      <4>1. Tail(q) = <<>>
        BY <1>7, <3>1
      <4>. QED
        BY <1>8, <1>11, <2>1, <3>1, <4>1 DEF Succ
    <3>2. CASE Len(q) # 1
      <4>1. 1 \in DOMAIN Tail(q)
        BY <1>7, <3>2
      <4>2. Tail(q)[1] = q[1 + 1] /\ Tail(q) # <<>>
        <5>1. Tail(q)[1] = q[1 + 1]
          BY <1>7, <4>1, Zenon
        <5>2. Tail(q) # <<>>
          <6>1. Len(Tail(q)) # 0
            BY <1>7, <3>2
          <6>. QED
            BY <1>7, <6>1, ChainFacts
        <5>. QED
          BY <5>1, <5>2
      <4>. QED
        BY <1>8, <1>11, <2>1, <3>2, <4>2 DEF Succ
    <3>. QED
      BY <3>1, <3>2
  <2>3. Freeing(own2)'
    BY <1>3, <1>11, <2>2 DEF Freeing
  <2>. QED
    BY <2>3 DEF Running
<1>20. Holds(own2)'
  BY <1>10, <1>16, <1>17, <1>18, <1>19 DEF Holds
<1>. QED
  BY <1>12, <1>13, <1>20, IInvFrom

LEMMA FreeEndsStep ==
  ASSUME IInv, FreeEnds
  PROVE  IInv'
<1>1. PICK own \in [Owners -> Seq(Clusters)] : Holds(own)
  BY DEF IInv
<1>2. /\ op.pc = "free" /\ todo = <<>> /\ ~IsCluster(op.cur)
      /\ op' = IF op.cmd = "write" THEN Idle ELSE [op EXCEPT !.pc = "erase"]
      /\ UNCHANGED <<fat, dir, data, todo, crashed, torn>>
      /\ StateInv /\ DirInv /\ OpInv
  BY DEF FreeEnds, At, IInv
<1>3. Freeing(own)
  BY <1>1, <1>2, InFree
<1>4. own[0] = <<>>
  <2>1. own[0] # <<>> => own[0][1] \in Clusters
    BY Ranges, OwnFacts
  <2>. QED
    BY <1>2, <1>3, <2>1, Ranges DEF Freeing
<1>5. StateInv' /\ DirInv'
  BY <1>2, StateSame
<1>6. CASE op.cmd = "write"
  <2>1. op' = Idle
    BY <1>2, <1>6
  <2>2. Files' = Files
    BY <1>2, <1>6, <2>1, IdleOp, FilesSame
  <2>3. Running(own)'
    BY <1>2, <1>4, <2>1 DEF Running, Resting
  <2>4. Holds(own)'
    BY <1>1, <1>2, <2>2, <2>3, VolumeSame DEF Holds
  <2>. QED
    BY <1>5, <2>1, <2>4, IdleOp, IInvFrom
<1>7. CASE op.cmd # "write"
  <2>1. /\ op.cmd = "delete" /\ op' = [op EXCEPT !.pc = "erase"]
        /\ op'.cmd = "delete" /\ op'.pc = "erase" /\ op'.slot = op.slot /\ op'.name = op.name
        /\ op'.done = op.done /\ op'.len = op.len
    BY <1>2, <1>3, <1>7, OpFields DEF Freeing
  <2>2. Files' = Files
    BY <1>2, <2>1 DEF Files, IsFile
  <2>3. op' \in Ops
    BY <1>2, <2>1 DEF OpInv, Ops
  <2>4. OpInv'
    BY <1>2, <2>1, <2>3 DEF OpInv, IsFile
  <2>5. Running(own)'
    BY <1>2, <1>4, <2>1 DEF Running, Erasing
  <2>6. Holds(own)'
    BY <1>1, <1>2, <2>2, <2>5, VolumeSame DEF Holds
  <2>. QED
    BY <1>5, <2>4, <2>6, IInvFrom
<1>. QED
  BY <1>6, <1>7

LEMMA EraseEntryStep ==
  ASSUME IInv, EraseEntry
  PROVE  IInv'
<1>1. PICK own \in [Owners -> Seq(Clusters)] : Holds(own)
  BY DEF IInv
<1>2. PICK t : t = op.slot
  OBVIOUS
<1>3. /\ op.pc = "erase" /\ todo = <<>> /\ dir' = [dir EXCEPT ![t] = Unused("deleted")]
      /\ op' = Idle /\ torn' = torn \ {t}
      /\ UNCHANGED <<fat, data, todo, crashed>>
      /\ StateInv /\ DirInv /\ OpInv
  BY <1>2 DEF EraseEntry, At, IInv
<1>4. Erasing(own)
  <2>1. Running(own) /\ Idle.pc = "idle"
    BY <1>1 DEF Holds, Idle
  <2>. QED
    BY <1>3, <2>1 DEF Running, Writing, Freeing, Resting
<1>5. t \in Slots /\ op.cmd = "delete" /\ own[0] = <<>> /\ t \notin Files
  BY <1>2, <1>3, <1>4 DEF Erasing, OpInv, Files
<1> DEFINE e == Unused("deleted")
<1>6. e.kind = "deleted" /\ e.start = 0 /\ e.size = 0
  BY DEF Unused, Entry
<1>. HIDE DEF e
<1>7. /\ DOMAIN dir = Slots /\ DOMAIN dir' = Slots /\ dir'[t] = e
      /\ \A s \in Slots : s # t => dir'[s] = dir[s]
  <2>1. DOMAIN dir = Slots /\ dir' = [dir EXCEPT ![t] = e]
    BY <1>3 DEF DirInv, e
  <2>. QED
    BY <1>5, <2>1
<1>8. Files' = Files /\ Files \subseteq Slots
  <2>1. op'.cmd = "idle" /\ torn' = {} /\ torn = {}
    BY <1>3, IdleOp DEF StateInv
  <2>. QED
    BY <1>2, <1>5, <1>6, <1>7, <2>1 DEF Files, IsFile
<1>9. DirInv'
  <2>. SUFFICES ASSUME NEW s \in Slots
                PROVE  /\ dir'[s].start \in Clusters \cup {0} /\ dir'[s].size \in Nat
                       /\ dir'[s].kind \in {"end", "deleted", "file"}
                       /\ IsFile(s)' => /\ dir'[s].typed \in Names
                                        /\ dir'[s].name83 = Format83(dir'[s].typed)
                                        /\ dir'[s].size \in Lengths
                                        /\ \A r \in 1 .. s - 1 : dir'[r].kind # "end"
    BY <1>7 DEF DirInv
  <2>1. \A r \in 1 .. s - 1 : r \in Slots
    BY SlotRange
  <2>2. CASE s = t
    BY <1>6, <1>7, <2>2 DEF IsFile
  <2>3. CASE s # t
    <3>1. dir'[s] = dir[s]
      BY <1>7, <2>3
    <3>2. ASSUME IsFile(s), NEW r \in 1 .. s - 1
          PROVE  dir'[r].kind # "end"
      <4>1. dir[r].kind # "end"
        BY <1>3, <3>2 DEF DirInv
      <4>. QED
        BY <1>6, <1>7, <2>1, <4>1
    <3>. QED
      BY <1>3, <3>1, <3>2 DEF DirInv, IsFile
  <2>. QED
    BY <2>2, <2>3
<1>10. StateInv'
  BY <1>3 DEF StateInv
<1>11. FilesOwn(own) /\ FilesStored(own) /\ Chains(own)
  BY <1>1 DEF Holds
<1>12. FilesOwn(own)'
  <2>. SUFFICES ASSUME NEW s \in Slots
                PROVE  IF s \in Files
                       THEN dir'[s].start = FirstOf(own[s]) /\ Fits(Len(own[s]), dir'[s].size)
                       ELSE own[s] = <<>>
    BY <1>8 DEF FilesOwn, FirstOf, Fits
  <2>. QED
    BY <1>5, <1>7, <1>11 DEF FilesOwn
<1>13. (~crashed => NothingLost(own))'
  BY <1>1, <1>3 DEF Holds, NothingLost, Owns
<1>14. FilesStored(own)'
  <2>. SUFFICES ASSUME NEW s \in Files
                PROVE  StoredIn(data, own[s], dir'[s].typed, dir'[s].size)
    BY <1>3, <1>8 DEF FilesStored, Stored
  <2>. QED
    BY <1>5, <1>7, <1>8, <1>11 DEF FilesStored, Stored
<1>15. Chains(own)' /\ Running(own)'
  BY <1>3, <1>5, <1>11, ChainsSame DEF Running, Resting
<1>16. Holds(own)'
  BY <1>12, <1>13, <1>14, <1>15 DEF Holds
<1>. QED
  BY <1>3, <1>9, <1>10, <1>16, IdleOp, IInvFrom

-----------------------------------------------------------------------------
(* The sectors of the FAT, and the crash.                                   *)

LEMMA WriteFatSectorStep ==
  ASSUME IInv, WriteFatSector
  PROVE  IInv'
<1>1. PICK own \in [Owners -> Seq(Clusters)] : Holds(own)
  BY DEF IInv
<1>2. /\ todo # <<>> /\ todo' = Tail(todo) /\ UNCHANGED <<dir, data, op, crashed, torn>>
      /\ StateInv /\ DirInv /\ OpInv
  BY DEF WriteFatSector, IInv
<1>3. Chains(own) /\ FilesOwn(own) /\ FilesStored(own) /\ (~crashed => NothingLost(own))
      /\ Running(own)
  BY <1>1 DEF Holds
<1>4. /\ todo \in Seq(Copies \X Clusters \X FatValues)
      /\ 1 \in DOMAIN todo
      /\ todo' \in Seq(Copies \X Clusters \X FatValues)
      /\ \A j \in DOMAIN todo : j # 1 => j - 1 \in DOMAIN todo' /\ todo'[j - 1] = todo[j]
  <2>1. todo \in Seq(Copies \X Clusters \X FatValues)
    BY <1>2 DEF StateInv
  <2> DEFINE S == Copies \X Clusters \X FatValues
  <2>. HIDE DEF S
  <2>2. todo \in Seq(S)
    BY <2>1 DEF S
  <2>3. /\ 1 \in DOMAIN todo /\ todo' \in Seq(S)
        /\ \A j \in DOMAIN todo : j # 1 => j - 1 \in DOMAIN todo' /\ todo'[j - 1] = todo[j]
    BY <1>2, <2>2, TodoTail
  <2>. QED
    BY <2>1, <2>3 DEF S
<1>5. /\ \A k \in Copies, c \in Clusters :
            fat'[k][c] = IF k = todo[1][1] /\ c = todo[1][2] THEN todo[1][3] ELSE fat[k][c]
      /\ fat' \in [Copies -> [Clusters -> FatValues]]
  BY <1>2, SectorWritten
<1>6. StateInv' /\ DirInv' /\ OpInv'
  BY <1>2, <1>4, <1>5 DEF StateInv, DirInv, OpInv, IsFile, FreeSlot
<1>7. Files' = Files
  BY <1>2 DEF Files, IsFile
<1>8. Chains(own)'
  BY <1>2, <1>3, ChainsFatSector
<1>9. FilesOwn(own)' /\ FilesStored(own)'
  BY <1>2, <1>3, <1>7 DEF FilesOwn, FirstOf, Fits, FilesStored, Stored, StoredIn, PieceAt, Piece
<1>10. (~crashed => NothingLost(own))'
  <2>. SUFFICES ASSUME ~crashed, NEW d \in Clusters, fat'[1][d] # Free
                PROVE  \/ \E x \in Owners : Owns(own, x, d)
                       \/ \E j \in DOMAIN todo' : todo'[j] = <<1, d, Free>>
    BY <1>2 DEF NothingLost, Owns
  <2>1. CASE fat[1][d] # Free
    <3>1. CASE \E x \in Owners : Owns(own, x, d)
      BY <3>1
    <3>2. CASE \E j \in DOMAIN todo : todo[j] = <<1, d, Free>>
      <4>1. PICK j \in DOMAIN todo : todo[j] = <<1, d, Free>>
        BY <3>2
      <4>2. j # 1
        <5>1. SUFFICES ASSUME j = 1 PROVE FALSE
          OBVIOUS
        <5>2. todo[1][1] = 1 /\ todo[1][2] = d /\ todo[1][3] = Free
          BY <4>1, <5>1
        <5>. QED
          BY <1>5, <5>2, Ranges
      <4>. QED
        BY <1>4, <4>1, <4>2
    <3>. QED
      BY <1>3, <2>1, <3>1, <3>2 DEF NothingLost
  <2>2. CASE fat[1][d] = Free
    <3>1. todo[1][2] = d /\ todo[1][3] # Free
      BY <1>5, <2>2, Ranges
    <3>2. PICK i \in DOMAIN own[0] : todo[1][2] = own[0][i]
      BY <1>3, <1>4, <3>1 DEF Chains, PendingWrites
    <3>. QED
      BY <3>1, <3>2, Ranges DEF Owns
  <2>. QED
    BY <2>1, <2>2
<1>11. Running(own)'
  <2>1. CASE Writing(own)
    <3>1. op.pc = "data"
      BY <1>2, <2>1 DEF Writing
    <3>2. Position(Len(own[0]))' = Position(Len(own[0]))
      BY <1>2 DEF Position
    <3>3. Stored(own[0], op.name, op.done)'
      BY <1>2, <2>1 DEF Writing, Stored, StoredIn, PieceAt, Piece
    <3>4. FirstOf(own[0])' = FirstOf(own[0]) /\ LastOf(own[0])' = LastOf(own[0])
      BY DEF FirstOf, LastOf
    <3>. QED
      BY <1>2, <2>1, <3>1, <3>2, <3>3, <3>4 DEF Running, Writing
  <2>2. CASE Freeing(own)
    BY <1>2, <2>2 DEF Running, Freeing
  <2>. QED
    BY <1>2, <1>3, <2>1, <2>2 DEF Running, Erasing, Resting
<1>12. Holds(own)'
  BY <1>8, <1>9, <1>10, <1>11 DEF Holds
<1>. QED
  BY <1>6, <1>12, IInvFrom

(* A crash in write loses what was allocated, and no file.                  *)
LEMMA CrashStep ==
  ASSUME IInv, Crash, "delete" \notin CrashOps
  PROVE  IInv'
<1>1. PICK own \in [Owners -> Seq(Clusters)] : Holds(own)
  BY DEF IInv
<1>2. /\ op.cmd = "write" /\ op' = Idle /\ todo' = <<>> /\ crashed' = TRUE /\ torn' = torn
      /\ UNCHANGED <<fat, dir, data>>
      /\ StateInv /\ DirInv /\ OpInv
  BY CrashOpsAssumption DEF Crash, IInv
<1>3. Chains(own) /\ FilesOwn(own) /\ FilesStored(own)
  BY <1>1 DEF Holds
<1> DEFINE own2 == [own EXCEPT ![0] = <<>>]
<1>4. /\ own2 \in [Owners -> Seq(Clusters)] /\ own2[0] = <<>>
      /\ \A x \in Owners : x # 0 => own2[x] = own[x]
      /\ \A s \in Slots : own2[s] = own[s]
  BY Ranges
<1>. HIDE DEF own2
<1>5. Chains(own2)'
  BY <1>2, <1>3, <1>4, Forgotten, ZenonT(60)
<1>6. Files' = Files /\ Files \subseteq Slots
  BY <1>2, IdleOp, FilesSame DEF Files
<1>7. FilesOwn(own2)'
  BY <1>2, <1>3, <1>4, <1>6 DEF FilesOwn, FirstOf, Fits
<1>8. FilesStored(own2)'
  <2>. SUFFICES ASSUME NEW s \in Files
                PROVE  StoredIn(data, own2[s], dir[s].typed, dir[s].size)
    BY <1>2, <1>6 DEF FilesStored, Stored
  <2>. QED
    BY <1>3, <1>4, <1>6 DEF FilesStored, Stored
<1>9. Running(own2)'
  BY <1>2, <1>4 DEF Running, Resting
<1>10. Holds(own2)'
  BY <1>2, <1>5, <1>7, <1>8, <1>9 DEF Holds
<1>11. StateInv' /\ DirInv'
  <2>1. <<>> \in Seq(Copies \X Clusters \X FatValues)
    OBVIOUS
  <2>. QED
    BY <1>2, <2>1 DEF StateInv, DirInv, IsFile
<1>. QED
  BY <1>2, <1>10, <1>11, IdleOp, IInvFrom

LEMMA Stutter ==
  ASSUME IInv, UNCHANGED vars
  PROVE  IInv'
<1>1. PICK own \in [Owners -> Seq(Clusters)] : Holds(own)
  BY DEF IInv
<1>2. UNCHANGED <<fat, dir, data, todo, crashed, torn>> /\ op' = op
      /\ StateInv /\ DirInv /\ OpInv
  BY DEF vars, IInv
<1>3. StateInv' /\ DirInv' /\ OpInv'
  BY <1>2, StateSame DEF OpInv, FreeSlot, IsFile
<1>4. Files' = Files
  BY <1>2 DEF Files, IsFile
<1>5. Running(own)'
  <2>1. Position(Len(own[0]))' = Position(Len(own[0]))
    BY <1>2 DEF Position
  <2>2. Stored(own[0], op.name, op.done)' <=> Stored(own[0], op.name, op.done)
    BY <1>2 DEF Stored, StoredIn, PieceAt, Piece
  <2>3. FirstOf(own[0])' = FirstOf(own[0]) /\ LastOf(own[0])' = LastOf(own[0])
        /\ (Fits(Len(own[0]), op.len)' <=> Fits(Len(own[0]), op.len))
    BY <1>2 DEF FirstOf, LastOf, Fits
  <2>4. Running(own)
    BY <1>1 DEF Holds
  <2>. QED
    BY <1>2, <2>1, <2>2, <2>3, <2>4 DEF Running, Writing, Freeing, Erasing, Resting
<1>6. Holds(own)'
  BY <1>1, <1>2, <1>4, <1>5, VolumeSame DEF Holds
<1>. QED
  BY <1>3, <1>6, IInvFrom

LEMMA Initially == Init => IInv
<1>. SUFFICES ASSUME Init PROVE IInv
  OBVIOUS
<1> DEFINE own == [x \in Owners |-> <<>>]
<1>1. own \in [Owners -> Seq(Clusters)] /\ \A x \in Owners : own[x] = <<>>
  OBVIOUS
<1>. HIDE DEF own
<1>2. 0 \in Owners /\ Slots \subseteq Owners
  BY Ranges
<1>3. /\ \A s \in Slots : dir[s].kind = "end" /\ dir[s].start = 0 /\ dir[s].size = 0
      /\ DOMAIN dir = Slots /\ todo = <<>> /\ torn = {} /\ op = Idle
      /\ \A c \in Clusters : fat[1][c] = Free
  BY Ranges DEF Init, Unused, Entry
<1>4. StateInv
  <2>1. Free \in FatValues /\ <<>> \in Seq(Copies \X Clusters \X FatValues)
    BY DEF FatValues
  <2>2. Blank \in Pieces
    BY DEF Blank, Piece, Pieces
  <2>. QED
    BY <2>1, <2>2 DEF Init, StateInv
<1>5. DirInv
  BY <1>3 DEF DirInv, IsFile
<1>6. OpInv
  <2>1. Idle \in Ops /\ Idle.cmd = "idle" /\ Idle.done = 0 /\ Idle.len = 0
    BY IdleTyped DEF Idle
  <2>. QED
    BY <1>3, <2>1 DEF OpInv
<1>7. Files = {}
  BY <1>3 DEF Files, IsFile
<1>8. Chains(own)
  BY <1>1, <1>3 DEF Chains, Apart, Linked, PendingWrites
<1>9. FilesOwn(own) /\ NothingLost(own) /\ FilesStored(own)
  BY <1>1, <1>2, <1>3, <1>7 DEF FilesOwn, NothingLost, FilesStored
<1>10. Running(own)
  BY <1>1, <1>2, <1>3 DEF Running, Resting
<1>11. Holds(own)
  BY <1>8, <1>9, <1>10 DEF Holds
<1>. QED
  BY <1>1, <1>4, <1>5, <1>6, <1>11 DEF IInv

LEMMA Invariance ==
  ASSUME "delete" \notin CrashOps
  PROVE  Spec => []IInv
<1>1. IInv /\ [Next]_vars => IInv'
  <2>. SUFFICES ASSUME IInv, [Next]_vars PROVE IInv'
    OBVIOUS
  <2>1. CASE UNCHANGED vars
    BY <2>1, Stutter
  <2>2. CASE Command
    <3>1. PICK name \in Names : \/ \E len \in Lengths : StartWrite(name, len)
                                \/ WriteRefused(name)
                                \/ StartDelete(name)
                                \/ DeleteRefused(name)
      BY <2>2 DEF Command
    <3>2. WriteRefused(name) \/ DeleteRefused(name) => UNCHANGED vars
      BY DEF WriteRefused, DeleteRefused
    <3>. QED
      BY <3>1, <3>2, StartWriteStep, StartDeleteStep, Stutter
  <2>3. CASE Step
    BY <2>3, EndOfInputStep, SameClusterStep, AllocateClusterStep, DiskFullStep, WriteDataStep,
       WriteEntryStep, FreeNextStep, FreeEndsStep, EraseEntryStep, WriteFatSectorStep DEF Step
  <2>4. CASE Crash
    BY <2>4, CrashStep
  <2>. QED
    BY <2>1, <2>2, <2>3, <2>4 DEF Next
<1>. QED
  BY <1>1, Initially, PTL DEF Spec

-----------------------------------------------------------------------------
(* What read_file finds.                                                    *)

(* The quotients of the lengths: SectorCount counts the sectors a file of   *)
(* this size has, and ClusterCount the clusters of a chain that fits.       *)
LEMMA Counted ==
  ASSUME NEW n \in Nat, NEW size \in Nat, Fits(n, size)
  PROVE  /\ SectorCount(size) \in Nat /\ ClusterCount(size) = n
         /\ SectorCount(size) <= n * SectorsPerCluster
         /\ \A k \in Nat : k < SectorCount(size) => k * SectorSize < size
<1> DEFINE m == SectorCount(size)
           w == SectorSize
           p == SectorsPerCluster
<1>1. w \in Nat \ {0} /\ p \in Nat \ {0} /\ size + w - 1 \in Nat
  BY Geometry
<1>2. m \in Nat /\ w * m <= size + w - 1 /\ size + w - 1 < w * m + w
  BY <1>1, QuotientOf DEF SectorCount
<1>3. w * m = m * w
  BY <1>1, <1>2
<1>. HIDE DEF m, w, p
<1>4. \A k \in Nat : k < m => k * w < size
  <2>. SUFFICES ASSUME NEW k \in Nat, k < m PROVE k * w < size
    OBVIOUS
  <2>1. (k + 1) * w <= m * w
    <3>1. k + 1 \in Nat /\ k + 1 <= m
      BY <1>2
    <3>. QED
      BY <1>1, <1>2, <3>1, Products
  <2>2. (k + 1) * w = k * w + w
    BY <1>1
  <2>3. k * w \in Nat /\ m * w \in Nat
    BY <1>1, <1>2, Products
  <2>. QED
    BY <1>1, <1>2, <1>3, <2>1, <2>2, <2>3
<1>5. m * w \in Nat /\ size <= m * w
  <2>1. m * w \in Nat
    BY <1>1, <1>2, Products
  <2>. QED
    BY <1>1, <1>2, <1>3, <2>1
<1>6. /\ n * p \in Nat /\ size <= (n * p) * w
      /\ n # 0 => (n - 1) * p \in Nat /\ ((n - 1) * p) * w < size
      /\ n = 0 => size = 0
  <2>1. CASE n = 0
    <3>1. 0 * p = 0 /\ 0 * w = 0
      BY <1>1
    <3>. QED
      BY <2>1, <3>1 DEF Fits
  <2>2. CASE n # 0
    <3>1. n - 1 \in Nat
      BY <2>2
    <3>2. n * p \in Nat /\ (n - 1) * p \in Nat
      BY <1>1, <3>1, Products
    <3>3. (n - 1) * (p * w) < size /\ size <= n * (p * w)
      BY <2>2 DEF Fits, p, w
    <3>4. (n - 1) * (p * w) = ((n - 1) * p) * w /\ n * (p * w) = (n * p) * w
      BY <1>1, <3>1
    <3>. QED
      BY <2>2, <3>2, <3>3, <3>4
  <2>. QED
    BY <2>1, <2>2
<1>7. m <= n * p
  <2>1. SUFFICES ASSUME n * p < m PROVE FALSE
    BY <1>2, <1>6
  <2>2. (n * p) * w < size
    BY <1>4, <1>6, <2>1
  <2>. QED
    BY <1>1, <1>6, <2>2, Products
<1>8. (m + p - 1) \div p = n
  <2>1. CASE n = 0
    <3>1. m = 0
      <4>1. 0 * p = 0
        BY <1>1
      <4>. QED
        BY <1>2, <1>7, <2>1, <4>1
    <3>2. p - 1 \in Nat /\ n * p = 0
      BY <1>1, <2>1
    <3>3. (p - 1) \div p = n
      BY <1>1, <2>1, <3>2, QuotientIs
    <3>. QED
      BY <1>1, <3>1, <3>3
  <2>2. CASE n # 0
    <3>1. (n - 1) * p < m
      <4>1. SUFFICES ASSUME m <= (n - 1) * p PROVE FALSE
        BY <1>2, <1>6, <2>2
      <4>2. m * w <= ((n - 1) * p) * w
        BY <1>1, <1>2, <1>6, <2>2, <4>1, Products
      <4>3. ((n - 1) * p) * w \in Nat
        BY <1>1, <1>6, <2>2, Products
      <4>. QED
        BY <1>5, <1>6, <2>2, <4>2, <4>3
    <3>2. n * p = (n - 1) * p + p
      BY <1>1
    <3>3. n * p <= m + p - 1 /\ m + p - 1 < n * p + p /\ m + p - 1 \in Nat
      BY <1>1, <1>2, <1>6, <1>7, <2>2, <3>1, <3>2
    <3>. QED
      BY <1>1, <3>3, QuotientIs
  <2>. QED
    BY <2>1, <2>2
<1>9. ClusterCount(size) = (m + p - 1) \div p
  BY DEF ClusterCount, m, p
<1>. QED
  BY <1>2, <1>4, <1>7, <1>8, <1>9 DEF m, w, p

LEMMA PlaceOf ==
  ASSUME NEW k \in Nat, NEW p \in Nat \ {0}, NEW n \in Nat, k < n * p
  PROVE  /\ k \div p \in 0 .. n - 1 /\ k % p \in 0 .. p - 1
         /\ (k \div p) * p + (k % p) = k
<1> DEFINE d == k \div p
           r == k % p
<1>1. r \in 0 .. p - 1 /\ d \in Nat
  OBVIOUS
<1>2. p * d + r = k
  BY SMTT(30)
<1>3. p * d = d * p
  BY <1>1
<1>. HIDE DEF d, r
<1>4. d * p <= k
  <2>1. d * p \in Nat
    BY <1>1, Products
  <2>. QED
    BY <1>1, <1>2, <1>3, <2>1
<1>5. d < n
  <2>1. SUFFICES ASSUME n <= d PROVE FALSE
    BY <1>1
  <2>2. n * p <= d * p
    BY <1>1, <2>1, Products
  <2>3. n * p \in Nat /\ d * p \in Nat
    BY <1>1, Products
  <2>. QED
    BY <1>4, <2>2, <2>3
<1>. QED
  BY <1>1, <1>2, <1>3, <1>5 DEF d, r

(* The i-th cluster of a chain.                                             *)
LEMMA FollowsChain ==
  ASSUME NEW e, NEW q \in Seq(Clusters), e.start = FirstOf(q),
         \A i \in DOMAIN q : fat[1][q[i]] = Succ(q, i),
         NEW i \in 0 .. Len(q) - 1
  PROVE  ClusterAt(e, i) = q[i + 1]
<1> DEFINE Body(f) == [k \in 0 .. i |->
                         IF k = 0 THEN e.start
                         ELSE IF IsCluster(f[k - 1]) /\ f[k - 1] \in Clusters
                              THEN fat[1][f[k - 1]] ELSE Free]
           follow == CHOOSE f : f = Body(f)
           g == [k \in 0 .. i |-> q[k + 1]]
<1>1. ClusterAt(e, i) = follow[i]
  BY DEF ClusterAt
<1>2. /\ Len(q) \in Nat \ {0} /\ DOMAIN q = 1 .. Len(q) /\ q # <<>>
      /\ \A k \in 1 .. Len(q) : q[k] \in Clusters
  BY ChainFacts
<1>3. ASSUME NEW f, NEW k \in 0 .. i, k # 0, f[k - 1] = q[k]
      PROVE  Body(f)[k] = q[k + 1]
  <2>1. k \in 1 .. Len(q) /\ k # Len(q)
    <3> DEFINE n == Len(q)
    <3>1. n \in Nat /\ i \in 0 .. n - 1
      BY <1>2
    <3>. HIDE DEF n
    <3>2. k \in 1 .. n /\ k # n
      BY <1>3, <3>1
    <3>. QED
      BY <3>2 DEF n
  <2>2. q[k] \in Clusters /\ IsCluster(q[k])
    BY <1>2, <2>1, Ranges
  <2>3. fat[1][q[k]] = q[k + 1]
    BY <1>2, <2>1 DEF Succ
  <2>. QED
    BY <1>3, <2>2, <2>3
<1>4. \A f : Body(f)[0] = q[0 + 1] /\ DOMAIN Body(f) = 0 .. i
  <2>1. e.start = q[1]
    BY <1>2 DEF FirstOf
  <2>. QED
    BY <2>1
<1>5. g = Body(g)
  <2>1. ASSUME NEW k \in 0 .. i
        PROVE  Body(g)[k] = q[k + 1]
    <3>1. CASE k = 0
      BY <1>4, <3>1
    <3>2. CASE k # 0
      <4>1. k - 1 \in 0 .. i /\ (k - 1) + 1 = k
        BY <3>2
      <4>2. g[k - 1] = q[k]
        BY <4>1
      <4>. HIDE DEF g, Body
      <4>. QED
        BY <1>3, <3>2, <4>2
    <3>. QED
      BY <3>1, <3>2
  <2>. QED
    BY <2>1
<1>6. follow = Body(follow)
  <2>. HIDE DEF g, Body
  <2>. QED
    BY <1>5, Zenon
<1>. HIDE DEF follow, g, Body
<1> DEFINE T == {k \in 0 .. i : follow[k] # q[k + 1]}
<1>7. T = {}
  <2>. SUFFICES ASSUME T # {} PROVE FALSE
    OBVIOUS
  <2>1. PICK k \in T : \A j \in T : k <= j
    <3>1. T \subseteq Nat
      OBVIOUS
    <3>. HIDE DEF T
    <3>. QED
      BY <3>1, LeastNumber
  <2>2. k \in 0 .. i /\ follow[k] # q[k + 1]
    OBVIOUS
  <2>3. k # 0
    BY <1>4, <1>6, <2>2
  <2>4. follow[k - 1] = q[k]
    <3>1. k - 1 \in 0 .. i /\ (k - 1) + 1 = k /\ ~(k <= k - 1)
      BY <2>2, <2>3
    <3>2. k - 1 \notin T
      BY <2>1, <3>1
    <3>3. follow[k - 1] = q[(k - 1) + 1]
      BY <3>1, <3>2
    <3>. QED
      BY <3>1, <3>3
  <2>. QED
    BY <1>3, <1>6, <2>2, <2>3, <2>4
<1>8. i \in 0 .. i
  BY <1>2
<1>. QED
  BY <1>1, <1>7, <1>8

(* The chain of a file, as read_file and the properties see it.             *)
LEMMA FileChain ==
  ASSUME IInv, NEW own \in [Owners -> Seq(Clusters)], Holds(own), NEW s \in Files
  PROVE  /\ s \in Slots /\ s \in Owners /\ s # 0
         /\ own[s] \in Seq(Clusters) /\ Len(own[s]) \in Nat
         /\ DOMAIN own[s] = 1 .. Len(own[s])
         /\ dir[s].start = FirstOf(own[s])
         /\ ClusterCount(dir[s].size) = Len(own[s])
         /\ dir[s].size \in Nat /\ Fits(Len(own[s]), dir[s].size)
         /\ \A i \in DOMAIN own[s] : \A k \in Copies : fat[k][own[s][i]] = Succ(own[s], i)
         /\ \A i \in 0 .. Len(own[s]) - 1 : ClusterAt(dir[s], i) = own[s][i + 1]
         /\ ChainOf(dir[s]) = {own[s][i] : i \in DOMAIN own[s]}
         /\ ChainOf(dir[s]) \subseteq Clusters
<1> DEFINE n == Len(own[s])
           q == own[s]
<1>1. s \in Slots /\ s \in Owners /\ s # 0 /\ 1 \in Copies
  BY Ranges DEF Files
<1>2. /\ q \in Seq(Clusters) /\ n \in Nat /\ DOMAIN q = 1 .. n
      /\ \A i \in DOMAIN q : q[i] \in Clusters
  BY <1>1, OwnFacts
<1>3. /\ dir[s].start = FirstOf(q) /\ Fits(n, dir[s].size) /\ dir[s].size \in Nat
      /\ Chains(own)
  BY <1>1 DEF Holds, FilesOwn, IInv, DirInv
<1>4. \A i \in DOMAIN q : \A k \in Copies : fat[k][q[i]] = Succ(q, i)
  BY <1>1, <1>3, LinksShown
<1>. HIDE DEF n
<1>5. ClusterCount(dir[s].size) = n
  BY <1>2, <1>3, Counted
<1>6. \A i \in 0 .. n - 1 : ClusterAt(dir[s], i) = q[i + 1]
  <2>. HIDE DEF q
  <2>1. \A i \in DOMAIN q : fat[1][q[i]] = Succ(q, i)
    BY <1>1, <1>4
  <2>2. n = Len(q)
    BY DEF n, q
  <2>. QED
    BY <1>2, <1>3, <2>1, <2>2, FollowsChain
<1>7. ChainOf(dir[s]) = {q[i] : i \in DOMAIN q}
  <2>1. ChainOf(dir[s]) = {ClusterAt(dir[s], i) : i \in 0 .. n - 1}
    BY <1>5 DEF ChainOf
  <2>2. \A i \in 0 .. n - 1 : i + 1 \in 1 .. n
    BY <1>2
  <2>3. \A i \in 1 .. n : i - 1 \in 0 .. n - 1 /\ (i - 1) + 1 = i
    BY <1>2
  <2>. HIDE DEF q
  <2>4. {ClusterAt(dir[s], i) : i \in 0 .. n - 1} = {q[i] : i \in 1 .. n}
    BY <1>6, <2>2, <2>3
  <2>. QED
    BY <1>2, <2>1, <2>4
<1>8. {q[i] : i \in DOMAIN q} \subseteq Clusters
  BY <1>2
<1>. QED
  BY <1>1, <1>2, <1>3, <1>4, <1>5, <1>6, <1>7, <1>8 DEF n

LEMMA Typed == IInv => TypeOK
<1>. SUFFICES ASSUME IInv PROVE TypeOK
  OBVIOUS
<1>1. StateInv /\ DirInv /\ OpInv
  BY DEF IInv
<1>2. ASSUME NEW c \in Clusters
      PROVE  Len(data[c]) = SectorsPerCluster
  <2>1. data[c] \in [1 .. SectorsPerCluster -> Pieces]
    BY <1>1 DEF StateInv
  <2>2. data[c] \in Seq(Pieces)
    BY <2>1, Geometry, SeqDef
  <2>. QED
    BY <2>1, <2>2, Geometry
<1>3. /\ op.cmd \in {"idle", "write", "delete"}
      /\ op.pc \in {"idle", "read", "data", "entry", "free", "erase"}
      /\ op.done \in 0 .. op.len /\ op.sec \in 0 .. SectorsPerCluster
      /\ op.first \in Clusters \cup {0} /\ op.prev \in Clusters \cup {0}
  BY <1>1 DEF OpInv, Ops
<1>. QED
  BY <1>1, <1>2, <1>3 DEF StateInv, DirInv, TypeOK

(* The types of the volume and of the command's local variables.            *)
THEOREM TypeCorrect ==
  ASSUME "delete" \notin CrashOps
  PROVE  Spec => []TypeOK
BY Invariance, Typed, PTL

-----------------------------------------------------------------------------
(* The properties.                                                          *)

LEMMA ChainSize ==
  ASSUME NEW q \in Seq(Clusters), \A i, j \in DOMAIN q : q[i] = q[j] => i = j
  PROVE  Cardinality({q[i] : i \in DOMAIN q}) = Len(q)
<1> DEFINE n == Len(q)
           T == {q[i] : i \in DOMAIN q}
           f == [i \in 1 .. n |-> q[i]]
<1>1. n \in Nat /\ DOMAIN q = 1 .. n
  BY ChainFacts
<1>. HIDE DEF n
<1>2. f \in Surjection(1 .. n, T)
  BY <1>1 DEF Surjection
<1>3. f \in Injection(1 .. n, T)
  BY <1>1, <1>2 DEF Injection, IsInjective, Surjection
<1>4. IsFiniteSet(1 .. n) /\ Cardinality(1 .. n) = n
  <2>1. 1 \in Int /\ n \in Int /\ (1 > n => n = 0)
    BY <1>1
  <2>2. n - 1 + 1 = n
    BY <1>1
  <2>. QED
    BY <1>1, <2>1, <2>2, FS_Interval
<1>. HIDE DEF T, f
<1>5. Cardinality(T) = n
  BY <1>2, <1>3, <1>4, FS_Surjection
<1>. QED
  BY <1>5 DEF T, n

LEMMA ChainsAreSound == IInv => ChainsSound
<1>. SUFFICES ASSUME IInv, NEW s \in Files
              PROVE  LET n == ClusterCount(dir[s].size) IN
                /\ dir[s].start = 0 <=> n = 0
                /\ n > 0 => /\ Cardinality(ChainOf(dir[s])) = n
                            /\ ChainOf(dir[s]) \subseteq Clusters \ FreeClusters
                            /\ fat[1][ClusterAt(dir[s], n - 1)] = EndOfChain
                /\ \A r \in Files \ {s} : ChainOf(dir[r]) \cap ChainOf(dir[s]) \subseteq {0}
                /\ op.cmd = "write" => op.cur \notin ChainOf(dir[s]) \ {0}
  BY DEF ChainsSound
<1>1. PICK own \in [Owners -> Seq(Clusters)] : Holds(own)
  BY DEF IInv
<1> DEFINE q == own[s]
           n == Len(own[s])
<1>2. /\ s \in Slots /\ s \in Owners /\ s # 0
      /\ q \in Seq(Clusters) /\ n \in Nat /\ DOMAIN q = 1 .. n
      /\ dir[s].start = FirstOf(q) /\ ClusterCount(dir[s].size) = n
      /\ \A i \in DOMAIN q : fat[1][q[i]] = Succ(q, i)
      /\ \A i \in 0 .. n - 1 : ClusterAt(dir[s], i) = q[i + 1]
      /\ ChainOf(dir[s]) = {q[i] : i \in DOMAIN q} /\ ChainOf(dir[s]) \subseteq Clusters
  <2>. HIDE DEF q, n
  <2>1. 1 \in Copies
    BY Ranges
  <2>. QED
    BY <1>1, <2>1, FileChain, Zenon DEF q, n
<1>3. Apart(own) /\ 0 \in Owners
  BY <1>1, Ranges DEF Holds, Chains
<1>4. (q = <<>> <=> n = 0) /\ \A i \in DOMAIN q : q[i] \in Clusters
  BY <1>2, OwnFacts
<1>5. dir[s].start = 0 <=> n = 0
  <2>1. n # 0 => 1 \in DOMAIN q
    BY <1>2
  <2>2. n # 0 => q[1] # 0 /\ q # <<>>
    BY <1>4, <2>1, Ranges
  <2>. QED
    BY <1>2, <1>4, <2>2 DEF FirstOf
<1>6. Cardinality(ChainOf(dir[s])) = n
  <2>1. \A i, j \in DOMAIN q : q[i] = q[j] => i = j
    BY <1>2, <1>3 DEF Apart
  <2>. HIDE DEF q
  <2>. QED
    BY <1>2, <2>1, ChainSize DEF q
<1>7. ChainOf(dir[s]) \subseteq Clusters \ FreeClusters
  <2>. SUFFICES ASSUME NEW i \in DOMAIN q PROVE q[i] \notin FreeClusters
    BY <1>2
  <2>. QED
    BY <1>2, SuccNotFree DEF FreeClusters
<1>8. n > 0 => fat[1][ClusterAt(dir[s], n - 1)] = EndOfChain
  <2>. SUFFICES ASSUME n > 0 PROVE fat[1][ClusterAt(dir[s], n - 1)] = EndOfChain
    OBVIOUS
  <2>. HIDE DEF n, q
  <2>1. n - 1 \in 0 .. n - 1 /\ (n - 1) + 1 = n /\ n \in 1 .. n
    BY <1>2
  <2>2. ClusterAt(dir[s], n - 1) = q[(n - 1) + 1]
    BY <1>2, <2>1
  <2>3. Succ(q, n) = EndOfChain
    BY DEF Succ, n, q
  <2>. QED
    BY <1>2, <2>1, <2>2, <2>3
<1>9. ASSUME NEW r \in Files, r # s
      PROVE  ChainOf(dir[r]) \cap ChainOf(dir[s]) = {}
  <2>1. r \in Owners /\ ChainOf(dir[r]) = {own[r][i] : i \in DOMAIN own[r]}
    BY <1>1, FileChain
  <2>. QED
    BY <1>2, <1>3, <1>9, <2>1 DEF Apart
<1>10. op.cmd = "write" => op.cur \notin ChainOf(dir[s])
  <2>. SUFFICES ASSUME op.cmd = "write", op.cur \in ChainOf(dir[s]) PROVE FALSE
    OBVIOUS
  <2>1. op.cur \in Clusters /\ op.cur # 0 /\ op.cur # EndOfChain
    BY <1>2, Ranges
  <2>2. \E i \in DOMAIN own[0] : op.cur = own[0][i]
    <3>1. Running(own)
      BY <1>1 DEF Holds
    <3>2. own[0] # <<>> => 1 \in DOMAIN own[0] /\ Len(own[0]) \in DOMAIN own[0]
      BY <1>3, OwnFacts
    <3>3. Idle.cmd = "idle"
      BY DEF Idle
    <3>. QED
      BY <2>1, <3>1, <3>2, <3>3 DEF Running, Writing, Freeing, Erasing, Resting, LastOf
  <2>. QED
    BY <1>2, <1>3, <2>2 DEF Apart
<1>. QED
  BY <1>2, <1>5, <1>6, <1>7, <1>8, <1>9, <1>10

(* Every file has the clusters its size needs, linked and ended in the FAT, *)
(* that no other file and no command uses.                                  *)
THEOREM ChainsAlwaysSound ==
  ASSUME "delete" \notin CrashOps
  PROVE  Spec => []ChainsSound
BY Invariance, ChainsAreSound, PTL

LEMMA MirrorsAreAlike == IInv => MirrorsAgree
<1>. SUFFICES ASSUME IInv, NEW s \in Files, NEW c \in ChainOf(dir[s]), NEW k \in Copies
              PROVE  fat[k][c] = fat[1][c]
  BY DEF MirrorsAgree
<1>1. PICK own \in [Owners -> Seq(Clusters)] : Holds(own)
  BY DEF IInv
<1>2. /\ ChainOf(dir[s]) = {own[s][i] : i \in DOMAIN own[s]}
      /\ \A i \in DOMAIN own[s] : \A j \in Copies : fat[j][own[s][i]] = Succ(own[s], i)
  BY <1>1, FileChain, Zenon
<1>3. PICK i \in DOMAIN own[s] : c = own[s][i]
  BY <1>2
<1>. QED
  BY <1>2, <1>3, Ranges

(* The copies of the FAT show the same chains for all files, even after a   *)
(* crash between two of them.                                               *)
THEOREM MirrorsAlwaysAgree ==
  ASSUME "delete" \notin CrashOps
  PROVE  Spec => []MirrorsAgree
BY Invariance, MirrorsAreAlike, PTL

LEMMA SpaceAccounted == IInv => NoSpaceLost
<1>. SUFFICES ASSUME IInv, op.cmd = "idle", ~crashed
              PROVE  Clusters \ FreeClusters = (UNION {ChainOf(dir[s]) : s \in Files}) \ {0}
  BY DEF NoSpaceLost
<1>1. PICK own \in [Owners -> Seq(Clusters)] : Holds(own)
  BY DEF IInv
<1>2. own[0] = <<>> /\ todo = <<>> /\ NothingLost(own) /\ FilesOwn(own)
  BY <1>1 DEF Holds, Running, Writing, Freeing, Erasing, Resting
<1>3. ASSUME NEW c \in Clusters \ FreeClusters
      PROVE  \E s \in Files : c \in ChainOf(dir[s])
  <2>1. c \in Clusters /\ fat[1][c] # Free
    BY DEF FreeClusters
  <2>2. PICK x \in Owners : Owns(own, x, c)
    BY <1>2, <2>1 DEF NothingLost
  <2>3. PICK i \in DOMAIN own[x] : own[x][i] = c
    BY <2>2 DEF Owns
  <2>4. x \in Files
    BY <1>2, <2>3, Ranges DEF FilesOwn
  <2>5. ChainOf(dir[x]) = {own[x][j] : j \in DOMAIN own[x]}
    BY <1>1, <2>4, FileChain, Zenon
  <2>. QED
    BY <2>3, <2>4, <2>5
<1>4. ASSUME NEW s \in Files, NEW c \in ChainOf(dir[s])
      PROVE  c \in Clusters \ FreeClusters /\ c # 0
  <2>1. /\ own[s] \in Seq(Clusters) /\ ChainOf(dir[s]) = {own[s][i] : i \in DOMAIN own[s]}
        /\ \A i \in DOMAIN own[s] : fat[1][own[s][i]] = Succ(own[s], i)
        /\ ChainOf(dir[s]) \subseteq Clusters
    <3>1. 1 \in Copies
      BY Ranges
    <3>. QED
      BY <1>1, <3>1, FileChain, Zenon
  <2>2. PICK i \in DOMAIN own[s] : c = own[s][i]
    BY <2>1
  <2>. QED
    BY <2>1, <2>2, SuccNotFree, Ranges DEF FreeClusters
<1>. QED
  BY <1>3, <1>4

(* Without a crash, a cluster that is not free belongs to a file once no    *)
(* command runs.                                                            *)
THEOREM NoSpaceIsLost ==
  ASSUME "delete" \notin CrashOps
  PROVE  Spec => []NoSpaceLost
BY Invariance, SpaceAccounted, PTL

LEMMA ReadsBack ==
  ASSUME IInv, NEW s \in Files
  PROVE  ReadFile(dir[s]) = Content(dir[s].typed, dir[s].size)
<1>1. PICK own \in [Owners -> Seq(Clusters)] : Holds(own)
  BY DEF IInv
<1> DEFINE q == own[s]
           n == Len(own[s])
           size == dir[s].size
           name == dir[s].typed
           p == SectorsPerCluster
<1>2. /\ q \in Seq(Clusters) /\ n \in Nat /\ DOMAIN q = 1 .. n /\ size \in Nat
      /\ Fits(n, size)
      /\ \A i \in 0 .. n - 1 : ClusterAt(dir[s], i) = q[i + 1]
      /\ \A i \in DOMAIN q : q[i] \in Clusters
  BY <1>1, FileChain, OwnFacts
<1>3. StoredIn(data, q, name, size)
  BY <1>1 DEF Holds, FilesStored, Stored
<1>. HIDE DEF n, q
<1>4. /\ SectorCount(size) \in Nat /\ SectorCount(size) <= n * p
      /\ \A k \in Nat : k < SectorCount(size) => k * SectorSize < size
  BY <1>2, Counted
<1>5. p \in Nat \ {0}
  BY Geometry
<1>6. ASSUME NEW i \in 1 .. SectorCount(size)
      PROVE  ReadFile(dir[s])[i] = PieceAt(name, size, i - 1)
  <2> DEFINE k == i - 1
             d == (i - 1) \div p
             j == ((i - 1) % p) + 1
  <2>1. k \in Nat /\ k < SectorCount(size) /\ k < n * p
    <3>1. n * p \in Nat
      BY <1>2, <1>5, Products
    <3>. QED
      BY <1>4, <3>1
  <2>2. d \in 0 .. n - 1 /\ j \in 1 .. p /\ d * p + (j - 1) = k
    <3>1. /\ k \div p \in 0 .. n - 1 /\ k % p \in 0 .. p - 1
          /\ (k \div p) * p + (k % p) = k
      <4>. HIDE DEF k, p
      <4>. QED
        BY <1>2, <1>5, <2>1, PlaceOf
    <3>2. (k % p) + 1 \in 1 .. p /\ ((k % p) + 1) - 1 = k % p
      BY <1>5, <3>1
    <3>. QED
      BY <3>1, <3>2
  <2>3. ReadFile(dir[s])[i] = LET c == ClusterAt(dir[s], d)
                              IN  IF c \in Clusters THEN data[c][j] ELSE Blank
    BY DEF ReadFile
  <2>. HIDE DEF d, j
  <2>4. d + 1 \in DOMAIN q /\ (d + 1) - 1 = d
    BY <1>2, <2>2
  <2>5. ClusterAt(dir[s], d) = q[d + 1] /\ q[d + 1] \in Clusters
    BY <1>2, <2>2, <2>4
  <2>6. data[q[d + 1]][j] = PieceAt(name, size, k)
    <3>1. ((d + 1) - 1) * p + (j - 1) = k
      BY <2>2, <2>4
    <3>2. k * SectorSize < size
      BY <1>4, <2>1
    <3>. HIDE DEF k
    <3>. QED
      BY <1>3, <2>2, <2>4, <3>1, <3>2 DEF StoredIn
  <2>. QED
    BY <2>3, <2>5, <2>6
<1>7. \A i \in 1 .. SectorCount(size) : Content(name, size)[i] = PieceAt(name, size, i - 1)
  BY DEF Content, PieceAt
<1>8. /\ ReadFile(dir[s]) = [i \in 1 .. SectorCount(size) |-> ReadFile(dir[s])[i]]
      /\ Content(name, size) = [i \in 1 .. SectorCount(size) |-> Content(name, size)[i]]
  BY DEF ReadFile, Content
<1>. QED
  BY <1>6, <1>7, <1>8

(* Every file reads back as it was written, whatever other commands did and *)
(* wherever a write was interrupted.                                        *)
THEOREM FilesStayIntact ==
  ASSUME "delete" \notin CrashOps
  PROVE  Spec => []FilesIntact
<1>1. IInv => FilesIntact
  BY ReadsBack DEF FilesIntact
<1>. QED
  BY <1>1, Invariance, PTL

-----------------------------------------------------------------------------
(* Names that are stored apart: no two of them share an entry, and each is  *)
(* found by its own.  One may be a prefix of another, and so find its entry *)
(* too.                                                                     *)
NamesApart ==
  \A n, m \in Names : NameMatch(Format83(n), n) /\ (Format83(n) = Format83(m) => n = m)

(* No name has two entries, and the name being written has none.            *)
NamesOnce ==
  /\ \A s, r \in Slots : IsFile(s) /\ IsFile(r) /\ dir[s].typed = dir[r].typed => s = r
  /\ op.cmd = "write" => \A s \in Slots : IsFile(s) => dir[s].typed # op.name

LEMMA NameFacts ==
  ASSUME NamesApart, IInv, NEW s \in Slots, IsFile(s)
  PROVE  /\ dir[s].typed \in Names /\ NameMatch(dir[s].name83, dir[s].typed)
         /\ \A n \in Names : dir[s].name83 = Format83(n) <=> dir[s].typed = n
<1>1. dir[s].typed \in Names /\ dir[s].name83 = Format83(dir[s].typed)
  BY DEF IInv, DirInv
<1>. QED
  BY <1>1 DEF NamesApart

(* A search that finds nothing means that there is nothing: the first entry *)
(* that matches is found.                                                   *)
LEMMA NothingFound ==
  ASSUME NamesApart, IInv, NEW name \in Names, ~\E s \in Slots : Finds(name, s)
  PROVE  \A s \in Slots : IsFile(s) => dir[s].typed # name
<1> DEFINE T == {s \in Slots : IsFile(s) /\ NameMatch(dir[s].name83, name)}
<1>1. SUFFICES ASSUME T # {} PROVE FALSE
  BY NameFacts
<1>2. PICK s \in T : \A r \in T : s <= r
  <2>1. T \subseteq Nat
    BY SlotRange
  <2>. HIDE DEF T
  <2>. QED
    BY <1>1, <2>1, LeastNumber
<1>3. s \in Slots /\ IsFile(s) /\ NameMatch(dir[s].name83, name)
  OBVIOUS
<1>4. ASSUME NEW r \in 1 .. s - 1
      PROVE  dir[r].kind # "end" /\ ~(IsFile(r) /\ NameMatch(dir[r].name83, name))
  <2>1. dir[r].kind # "end"
    BY <1>3 DEF IInv, DirInv
  <2>2. r \in Slots /\ ~(s <= r)
    BY <1>3, SlotRange
  <2>3. r \notin T
    BY <1>2, <2>2
  <2>. QED
    BY <2>1, <2>2, <2>3
<1>. QED
  BY <1>3, <1>4 DEF Finds

LEMMA NamesKept ==
  ASSUME NamesOnce, dir' = dir, op'.cmd = "write" => op.cmd = "write" /\ op'.name = op.name
  PROVE  NamesOnce'
BY DEF NamesOnce, IsFile

LEMMA NamesStep ==
  ASSUME NamesApart, IInv, NamesOnce, Next
  PROVE  NamesOnce'
<1>1. /\ StateInv /\ DirInv /\ OpInv /\ DOMAIN dir = Slots
      /\ op = [cmd |-> op.cmd, pc |-> op.pc, name |-> op.name, slot |-> op.slot,
               len |-> op.len, done |-> op.done, first |-> op.first, prev |-> op.prev,
               cur |-> op.cur, sec |-> op.sec]
  BY OpFields DEF IInv, DirInv
<1>2. Idle.cmd = "idle"
  BY DEF Idle
<1>3. ASSUME NEW name \in Names, NEW len \in Lengths, StartWrite(name, len)
      PROVE  NamesOnce'
  <2>1. op'.cmd = "write" /\ op'.name = name /\ dir' = dir
    BY <1>3 DEF StartWrite, Idle
  <2>2. \A s \in Slots : IsFile(s) => dir[s].typed # name
    BY <1>3, NothingFound DEF StartWrite
  <2>. QED
    BY <2>1, <2>2 DEF NamesOnce, IsFile
<1>4. ASSUME NEW name \in Names, WriteRefused(name) \/ DeleteRefused(name)
      PROVE  NamesOnce'
  BY <1>4, NamesKept DEF WriteRefused, DeleteRefused, vars
<1>5. ASSUME NEW name \in Names, StartDelete(name)
      PROVE  NamesOnce'
  <2>1. op'.cmd = "delete" /\ dir' = dir
    BY <1>5 DEF StartDelete, Idle
  <2>. QED
    BY <2>1, NamesKept
<1>6. ASSUME EndOfInput \/ SameCluster \/ DiskFull \/ WriteData \/ FreeNext \/ WriteFatSector
      PROVE  NamesOnce'
  <2>1. dir' = dir /\ op'.cmd = op.cmd /\ op'.name = op.name
    BY <1>1, <1>6 DEF EndOfInput, SameCluster, DiskFull, WriteData, FreeNext, WriteFatSector
  <2>. QED
    BY <2>1, NamesKept
<1>7. ASSUME AllocateCluster
      PROVE  NamesOnce'
  <2>1. dir' = dir /\ op'.cmd = op.cmd /\ op'.name = op.name
    BY <1>1, <1>7 DEF AllocateCluster
  <2>. QED
    BY <2>1, NamesKept
<1>8. ASSUME FreeEnds \/ Crash
      PROVE  NamesOnce'
  <2>1. dir' = dir /\ (op' = Idle \/ (op.cmd # "write" /\ op'.cmd = op.cmd))
    BY <1>1, <1>8 DEF FreeEnds, Crash
  <2>. QED
    BY <1>2, <2>1, NamesKept
<1>9. ASSUME WriteEntry
      PROVE  NamesOnce'
  <2>1. PICK own \in [Owners -> Seq(Clusters)] : Holds(own)
    BY DEF IInv
  <2>2. op.cmd = "write"
    BY <1>1, <1>9, <2>1, InWrite DEF WriteEntry, At, OpInv, Ops, Writing
  <2>3. PICK t : t = op.slot
    OBVIOUS
  <2>4. t \in Slots /\ op'.cmd = "idle"
    BY <1>1, <1>2, <1>9, <2>2, <2>3 DEF OpInv, WriteEntry
  <2> DEFINE e == Entry("file", op.name, op.first, op.done)
  <2>5. e.typed = op.name
    BY DEF Entry
  <2>. HIDE DEF e
  <2>6. dir' = [dir EXCEPT ![t] = e]
    BY <1>9, <2>3 DEF WriteEntry, e
  <2>7. dir'[t].typed = op.name /\ \A s \in Slots : s # t => dir'[s] = dir[s]
    BY <1>1, <2>4, <2>5, <2>6
  <2>. QED
    BY <2>2, <2>4, <2>7 DEF NamesOnce, IsFile
<1>10. ASSUME EraseEntry
       PROVE  NamesOnce'
  <2>1. PICK t : t = op.slot
    OBVIOUS
  <2> DEFINE e == Unused("deleted")
  <2>2. e.kind = "deleted"
    BY DEF Unused, Entry
  <2>. HIDE DEF e
  <2>3. dir' = [dir EXCEPT ![t] = e] /\ op'.cmd = "idle"
    BY <1>2, <1>10, <2>1 DEF EraseEntry, e
  <2>4. \A s \in Slots : dir'[s] = dir[s] \/ dir'[s].kind = "deleted"
    BY <1>1, <2>2, <2>3
  <2>. QED
    BY <2>3, <2>4 DEF NamesOnce, IsFile
<1>. QED
  BY <1>3, <1>4, <1>5, <1>6, <1>7, <1>8, <1>9, <1>10 DEF Next, Command, Step

LEMMA WritesFile ==
  ASSUME IInv, WriteEntry
  PROVE  /\ op.slot \in Slots /\ op.cmd = "write" /\ op.name \in Names /\ op.done \in Lengths
         /\ ~IsFile(op.slot) /\ todo = <<>>
         /\ dir'[op.slot] = Entry("file", op.name, op.first, op.done)
         /\ \A s \in Slots : s # op.slot => dir'[s] = dir[s]
<1>1. PICK own \in [Owners -> Seq(Clusters)] : Holds(own)
  BY DEF IInv
<1>2. OpInv /\ DOMAIN dir = Slots /\ op.pc = "entry"
  BY DEF IInv, DirInv, WriteEntry, At
<1>3. Writing(own)
  BY <1>1, <1>2, InWrite DEF OpInv, Ops
<1>4. /\ op.cmd = "write" /\ op.done = op.len /\ op.name \in Names /\ op.len \in Lengths
      /\ FreeSlot(op.slot) /\ op.slot \in Slots /\ todo = <<>>
  BY <1>2, <1>3 DEF OpInv, Writing
<1> DEFINE e == Entry("file", op.name, op.first, op.done)
<1>. HIDE DEF e
<1>5. dir' = [dir EXCEPT ![op.slot] = e]
  BY DEF WriteEntry, e
<1>6. dir'[op.slot] = e /\ \A s \in Slots : s # op.slot => dir'[s] = dir[s]
  BY <1>2, <1>4, <1>5
<1>. QED
  BY <1>4, <1>6 DEF FreeSlot, e

LEMMA ErasesFile ==
  ASSUME IInv, EraseEntry
  PROVE  /\ op.slot \in Slots /\ op.cmd = "delete" /\ op.name \in Names
         /\ IsFile(op.slot) /\ NameMatch(dir[op.slot].name83, op.name)
         /\ dir'[op.slot].kind = "deleted"
         /\ \A s \in Slots : s # op.slot => dir'[s] = dir[s]
<1>1. PICK own \in [Owners -> Seq(Clusters)] : Holds(own)
  BY DEF IInv
<1>2. OpInv /\ DOMAIN dir = Slots /\ op.pc = "erase" /\ Idle.pc = "idle"
  BY DEF IInv, DirInv, EraseEntry, At, Idle
<1>3. op.cmd = "delete"
  BY <1>1, <1>2 DEF Holds, Running, Writing, Freeing, Erasing, Resting
<1>4. /\ op.slot \in Slots /\ op.name \in Names /\ IsFile(op.slot)
      /\ NameMatch(dir[op.slot].name83, op.name)
  BY <1>2, <1>3 DEF OpInv
<1> DEFINE e == Unused("deleted")
<1>5. e.kind = "deleted"
  BY DEF Unused, Entry
<1>. HIDE DEF e
<1>6. dir' = [dir EXCEPT ![op.slot] = e]
  BY DEF EraseEntry, e
<1>7. dir'[op.slot] = e /\ \A s \in Slots : s # op.slot => dir'[s] = dir[s]
  BY <1>2, <1>4, <1>6
<1>. QED
  BY <1>3, <1>4, <1>5, <1>7

-----------------------------------------------------------------------------
(* The volume as a store of files.                                          *)

(* What the store shows: the content written for each file.                 *)
Shows ==
  \A name \in Names :
    /\ \A s \in Files : dir[s].typed = name => StoredFiles[name] = Content(name, dir[s].size)
    /\ (\A s \in Files : dir[s].typed # name) => StoredFiles[name] = NoFile

LEMMA ShowsFiles ==
  ASSUME NamesApart, IInv, NamesOnce
  PROVE  Shows
<1>. SUFFICES ASSUME NEW name \in Names
              PROVE  /\ \A s \in Files : dir[s].typed = name
                                           => StoredFiles[name] = Content(name, dir[s].size)
                     /\ (\A s \in Files : dir[s].typed # name) => StoredFiles[name] = NoFile
  BY DEF Shows
<1>1. StoredFiles[name] = IF StoredAs(name) = {} THEN NoFile
                          ELSE ReadFile(dir[CHOOSE s \in StoredAs(name) : TRUE])
  BY DEF StoredFiles
<1>2. StoredAs(name) = {s \in Files : dir[s].typed = name}
  BY NameFacts DEF StoredAs, Name83, Files
<1>3. ASSUME NEW s \in Files, dir[s].typed = name
      PROVE  StoredFiles[name] = Content(name, dir[s].size)
  <2>1. s \in StoredAs(name)
    BY <1>2, <1>3
  <2>2. \A r \in StoredAs(name) : r = s
    BY <1>2, <1>3 DEF NamesOnce, Files
  <2>3. (CHOOSE r \in StoredAs(name) : TRUE) = s
    BY <2>1, <2>2
  <2>4. ReadFile(dir[s]) = Content(name, dir[s].size)
    BY <1>3, ReadsBack
  <2>5. StoredAs(name) # {}
    BY <2>1
  <2>. QED
    BY <1>1, <2>3, <2>4, <2>5
<1>4. (\A s \in Files : dir[s].typed # name) => StoredFiles[name] = NoFile
  BY <1>1, <1>2
<1>. QED
  BY <1>3, <1>4

LEMMA ContentIsAFile ==
  ASSUME NEW name \in Names, NEW len \in Lengths
  PROVE  Content(name, len) \in Contents /\ Content(name, len) # NoFile
<1>1. Content(name, len) \in Contents
  BY DEF Contents
<1>2. SUFFICES ASSUME Content(name, len) = NoFile PROVE FALSE
  BY <1>1
<1>3. len \in Nat /\ SectorSize \in Nat \ {0}
  BY LengthsAssumption, Geometry
<1>4. SectorCount(len) \in Nat /\ DOMAIN Content(name, len) = 1 .. SectorCount(len)
  <2>1. SectorCount(len) \in Nat
    BY <1>3, QuotientOf DEF SectorCount
  <2>. QED
    BY <2>1 DEF Content
<1>5. DOMAIN NoFile = 1 .. 1 /\ NoFile[1] = Blank
  BY DEF NoFile
<1>6. 1 \in 1 .. SectorCount(len)
  BY <1>2, <1>4, <1>5
<1>7. len # 0
  <2>1. SUFFICES ASSUME len = 0 PROVE FALSE
    OBVIOUS
  <2>2. (SectorSize - 1) \div SectorSize = 0
    <3>1. SectorSize - 1 \in Nat /\ 0 * SectorSize = 0
      BY <1>3
    <3>. QED
      BY <1>3, <3>1, QuotientIs
  <2>3. SectorCount(len) = (0 + SectorSize - 1) \div SectorSize
    BY <2>1 DEF SectorCount
  <2>4. 0 + SectorSize - 1 = SectorSize - 1
    BY <1>3
  <2>. QED
    BY <1>6, <2>2, <2>3, <2>4
<1>8. Content(name, len)[1] = PieceAt(name, len, 0)
  <2>1. Content(name, len)[1] = PieceAt(name, len, 1 - 1)
    BY <1>6 DEF Content, PieceAt
  <2>. QED
    BY <2>1
<1>9. PieceAt(name, len, 0).n = IF len < SectorSize THEN len ELSE SectorSize
  <2>1. len - 0 * SectorSize = len
    BY <1>3
  <2>. QED
    BY <2>1 DEF PieceAt, Piece
<1>10. Blank.n = 0
  BY DEF Blank, Piece
<1>. QED
  BY <1>2, <1>3, <1>5, <1>7, <1>8, <1>9, <1>10

(* How the set of files changes, and with it what the store shows.          *)
LEMMA FilesKept ==
  ASSUME IInv, Shows, Shows', Files' = Files, \A s \in Files : dir'[s] = dir[s]
  PROVE  StoredFiles' = StoredFiles
<1>1. ASSUME NEW name \in Names
      PROVE  StoredFiles'[name] = StoredFiles[name]
  <2>1. CASE \E s \in Files : dir[s].typed = name
    <3>1. PICK s \in Files : dir[s].typed = name
      BY <2>1
    <3>2. StoredFiles[name] = Content(name, dir[s].size)
      BY <3>1 DEF Shows
    <3>3. StoredFiles'[name] = Content(name, dir'[s].size)
      BY <3>1 DEF Shows, Content, SectorCount, Piece
    <3>. QED
      BY <3>2, <3>3
  <2>2. CASE \A s \in Files : dir[s].typed # name
    BY <2>2 DEF Shows, NoFile, Blank, Piece
  <2>. QED
    BY <2>1, <2>2
<1>. QED
  BY <1>1 DEF StoredFiles

LEMMA FileAdded ==
  ASSUME IInv, Shows, Shows', NEW t, t \in Files', Files' = Files \cup {t}, t \notin Files,
         \A s \in Files : dir'[s] = dir[s] /\ dir[s].typed # dir'[t].typed,
         dir'[t].typed \in Names, dir'[t].size \in Lengths
  PROVE  \E name \in Names : \E content \in Contents :
           StoredFiles[name] = NoFile /\ StoredFiles' = [StoredFiles EXCEPT ![name] = content]
<1>1. PICK new, content : new = dir'[t].typed /\ content = Content(new, dir'[t].size)
  OBVIOUS
<1>2. new \in Names /\ content \in Contents
  BY <1>1, ContentIsAFile
<1>3. StoredFiles[new] = NoFile
  BY <1>1, <1>2 DEF Shows
<1>4. ASSUME NEW name \in Names
      PROVE  StoredFiles'[name] = IF name = new THEN content ELSE StoredFiles[name]
  <2>1. CASE name = new
    BY <1>1, <2>1 DEF Shows, Content, SectorCount, Piece
  <2>2. CASE name # new /\ \E s \in Files : dir[s].typed = name
    <3>1. PICK s \in Files : dir[s].typed = name
      BY <2>2
    <3>2. StoredFiles[name] = Content(name, dir[s].size)
      BY <3>1 DEF Shows
    <3>3. StoredFiles'[name] = Content(name, dir'[s].size)
      BY <3>1 DEF Shows, Content, SectorCount, Piece
    <3>. QED
      BY <2>2, <3>1, <3>2, <3>3
  <2>3. CASE name # new /\ \A s \in Files : dir[s].typed # name
    BY <1>1, <2>3 DEF Shows, NoFile, Blank, Piece
  <2>. QED
    BY <2>1, <2>2, <2>3
<1>5. StoredFiles' = [StoredFiles EXCEPT ![new] = content]
  BY <1>2, <1>4, ZenonT(60) DEF StoredFiles
<1>. QED
  BY <1>2, <1>3, <1>5

LEMMA FileGone ==
  ASSUME IInv, NamesOnce, Shows, Shows', NEW t \in Files, Files' = Files \ {t}, dir' = dir
  PROVE  \E name \in Names :
           StoredFiles[name] # NoFile /\ StoredFiles' = [StoredFiles EXCEPT ![name] = NoFile]
<1>1. PICK old : old = dir[t].typed
  OBVIOUS
<1>2. old \in Names /\ dir[t].size \in Lengths
  BY <1>1 DEF IInv, DirInv, Files
<1>3. StoredFiles[old] # NoFile
  BY <1>1, <1>2, ContentIsAFile DEF Shows
<1>4. \A s \in Files' : dir[s].typed # old
  BY <1>1 DEF NamesOnce, Files
<1>5. ASSUME NEW name \in Names
      PROVE  StoredFiles'[name] = IF name = old THEN NoFile ELSE StoredFiles[name]
  <2>1. CASE name = old
    BY <1>4, <2>1 DEF Shows, NoFile, Blank, Piece
  <2>2. CASE name # old /\ \E s \in Files : dir[s].typed = name
    <3>1. PICK s \in Files : dir[s].typed = name
      BY <2>2
    <3>2. StoredFiles[name] = Content(name, dir[s].size) /\ s \in Files'
      BY <1>1, <2>2, <3>1 DEF Shows
    <3>3. StoredFiles'[name] = Content(name, dir[s].size)
      BY <3>1, <3>2 DEF Shows, Content, SectorCount, Piece
    <3>. QED
      BY <2>2, <3>2, <3>3
  <2>3. CASE name # old /\ \A s \in Files : dir[s].typed # name
    BY <2>3 DEF Shows, NoFile, Blank, Piece
  <2>. QED
    BY <2>1, <2>2, <2>3
<1>6. StoredFiles' = [StoredFiles EXCEPT ![old] = NoFile]
  BY <1>2, <1>5 DEF StoredFiles
<1>. QED
  BY <1>2, <1>3, <1>6

LEMMA StoreStep ==
  ASSUME "delete" \notin CrashOps, IInv, NamesOnce, NamesOnce', Shows, Shows', [Next]_vars
  PROVE  [Store!Next]_StoredFiles
<1>1. /\ StateInv /\ DirInv /\ OpInv /\ torn = {} /\ Files \subseteq Slots
      /\ op = [cmd |-> op.cmd, pc |-> op.pc, name |-> op.name, slot |-> op.slot,
               len |-> op.len, done |-> op.done, first |-> op.first, prev |-> op.prev,
               cur |-> op.cur, sec |-> op.sec]
  BY OpFields DEF IInv, StateInv, Files
<1>2. Idle.cmd = "idle"
  BY DEF Idle
<1>3. ASSUME dir' = dir, torn' = torn, op.cmd = "delete" <=> op'.cmd = "delete",
             op.cmd = "delete" => op'.slot = op.slot
      PROVE  StoredFiles' = StoredFiles
  <2>1. Files' = Files
    BY <1>3 DEF Files, IsFile
  <2>. QED
    BY <1>3, <2>1, FilesKept
<1>4. CASE UNCHANGED vars
  <2>1. StoredFiles' = StoredFiles
    BY <1>3, <1>4 DEF vars
  <2>. QED
    BY <2>1
<1>5. ASSUME NEW name \in Names, NEW len \in Lengths, StartWrite(name, len)
      PROVE  StoredFiles' = StoredFiles
  <2>1. op'.cmd = "write" /\ op.cmd = "idle" /\ dir' = dir /\ torn' = torn
    BY <1>5 DEF StartWrite, Idle
  <2>. QED
    BY <1>3, <2>1
<1>6. ASSUME NEW name \in Names, StartDelete(name)
      PROVE  Store!Next
  <2>1. PICK t \in Slots :
          /\ Finds(name, t)
          /\ op' = [Idle EXCEPT !.cmd = "delete", !.name = name, !.slot = t,
                                !.pc = IF dir[t].start >= 2 THEN "free" ELSE "erase",
                                !.cur = dir[t].start]
    BY <1>6 DEF StartDelete
  <2>2. op'.cmd = "delete" /\ op'.slot = t /\ op.cmd = "idle" /\ dir' = dir /\ torn' = torn
    BY <1>6, <2>1 DEF StartDelete, Idle
  <2>3. t \in Files /\ Files' = Files \ {t}
    BY <1>1, <2>1, <2>2 DEF Finds, Files, IsFile
  <2>4. \E n \in Names :
          StoredFiles[n] # NoFile /\ StoredFiles' = [StoredFiles EXCEPT ![n] = NoFile]
    BY <2>2, <2>3, FileGone
  <2>. QED
    BY <2>4 DEF Store!Next, Store!Delete
<1>7. CASE EndOfInput \/ SameCluster \/ DiskFull \/ WriteData \/ FreeNext \/ WriteFatSector
  <2>1. dir' = dir /\ torn' = torn /\ op'.cmd = op.cmd /\ op'.slot = op.slot
    BY <1>1, <1>7 DEF EndOfInput, SameCluster, DiskFull, WriteData, FreeNext, WriteFatSector
  <2>2. StoredFiles' = StoredFiles
    BY <1>3, <2>1
  <2>. QED
    BY <2>2
<1>8. CASE AllocateCluster
  <2>1. dir' = dir /\ torn' = torn /\ op'.cmd = op.cmd /\ op'.slot = op.slot
    BY <1>1, <1>8 DEF AllocateCluster
  <2>2. StoredFiles' = StoredFiles
    BY <1>3, <2>1
  <2>. QED
    BY <2>2
<1>9. CASE FreeEnds \/ Crash
  <2>1. /\ dir' = dir /\ torn' = torn
        /\ \/ op' = Idle /\ op.cmd = "write"
           \/ op'.cmd = op.cmd /\ op'.slot = op.slot
    BY <1>1, <1>9, CrashOpsAssumption DEF FreeEnds, Crash
  <2>2. StoredFiles' = StoredFiles
    BY <1>2, <1>3, <2>1
  <2>. QED
    BY <2>2
<1>10. CASE WriteEntry
  <2>1. PICK t : t = op.slot
    OBVIOUS
  <2>2. /\ t \in Slots /\ op.cmd = "write" /\ op.name \in Names /\ op.done \in Lengths
        /\ ~IsFile(t) /\ dir'[t] = Entry("file", op.name, op.first, op.done)
        /\ \A s \in Slots : s # t => dir'[s] = dir[s]
    BY <1>10, <2>1, WritesFile
  <2>3. /\ dir'[t].kind = "file" /\ dir'[t].typed = op.name /\ dir'[t].size = op.done
    BY <2>2 DEF Entry
  <2>4. op'.cmd = "idle" /\ torn' = torn
    BY <1>2, <1>10 DEF WriteEntry
  <2>5. Files' = Files \cup {t} /\ t \notin Files
    BY <1>1, <2>2, <2>3, <2>4 DEF Files, IsFile
  <2>6. \A s \in Files : dir'[s] = dir[s] /\ dir[s].typed # dir'[t].typed
    BY <2>2, <2>3, <2>5 DEF NamesOnce, Files
  <2>7. \E n \in Names : \E content \in Contents :
          StoredFiles[n] = NoFile /\ StoredFiles' = [StoredFiles EXCEPT ![n] = content]
    BY <2>2, <2>3, <2>5, <2>6, FileAdded
  <2>8. Store!Next
    BY <2>7 DEF Store!Next, Store!Write
  <2>. QED
    BY <2>8
<1>11. CASE EraseEntry
  <2>1. PICK t : t = op.slot
    OBVIOUS
  <2>2. /\ t \in Slots /\ op.cmd = "delete" /\ dir'[t].kind = "deleted"
        /\ \A s \in Slots : s # t => dir'[s] = dir[s]
    BY <1>11, <2>1, ErasesFile
  <2>3. op'.cmd = "idle" /\ torn' = {}
    BY <1>1, <1>2, <1>11 DEF EraseEntry
  <2>4. Files' = Files /\ \A s \in Files : dir'[s] = dir[s]
    BY <1>1, <2>1, <2>2, <2>3 DEF Files, IsFile
  <2>5. StoredFiles' = StoredFiles
    BY <2>4, FilesKept
  <2>. QED
    BY <2>5
<1>12. ASSUME NEW name \in Names, WriteRefused(name) \/ DeleteRefused(name)
       PROVE  UNCHANGED vars
  BY <1>12 DEF WriteRefused, DeleteRefused
<1>. QED
  BY <1>4, <1>5, <1>6, <1>7, <1>8, <1>9, <1>10, <1>11, <1>12 DEF Next, Command, Step

LEMMA StoreInit ==
  ASSUME Init, Shows
  PROVE  Store!Init
<1>1. Files = {}
  BY Ranges DEF Init, Unused, Entry, Files, IsFile
<1>2. \A name \in Names : StoredFiles[name] = NoFile
  BY <1>1 DEF Shows
<1>3. StoredFiles \in [Names -> Contents \cup {NoFile}]
  BY <1>2 DEF StoredFiles
<1>. QED
  BY <1>3 DEF Store!Init

LEMMA NamesAtFirst == Init => NamesOnce
  BY DEF Init, NamesOnce, IsFile, Unused, Entry, Idle

(* With names that are stored apart, also when one is a prefix of another,  *)
(* the volume implements a store of whole files: whatever the sectors and   *)
(* clusters of the steps and wherever a write is interrupted, a file        *)
(* appears at once and complete, and is gone at once.                       *)
THEOREM ImplementsFileStore ==
  ASSUME "delete" \notin CrashOps, NamesApart
  PROVE  Spec => RefinesFileStore
<1>1. Spec => []IInv
  BY Invariance
<1>2. IInv /\ NamesOnce /\ [Next]_vars => NamesOnce'
  <2>1. NamesOnce /\ UNCHANGED vars => NamesOnce'
    BY NamesKept DEF vars
  <2>. QED
    BY <2>1, NamesStep
<1>3. IInv /\ NamesOnce => Shows
  BY ShowsFiles
<1>4. Init /\ Shows => Store!Init
  BY StoreInit
<1>5. IInv /\ NamesOnce /\ NamesOnce' /\ Shows /\ Shows' /\ [Next]_vars => [Store!Next]_StoredFiles
  BY StoreStep
<1>. QED
  BY <1>1, <1>2, <1>3, <1>4, <1>5, NamesAtFirst, PTL DEF Spec, RefinesFileStore, Store!Spec
=============================================================================
