-------------------------- MODULE FatReader_proofs --------------------------
(***************************************************************************)
(* Proofs about FatReader for volumes, paths and names of any size, served *)
(* by one thread.                                                          *)
(*                                                                         *)
(* The inductive invariant (IndInv) says of the call, for each place of    *)
(* the code it can be at (Good), what it has done so far: how much of its  *)
(* path it took and where that leads (OnPath, Looked), which sectors of a  *)
(* directory it has treated and what it found or listed there (Scanning,   *)
(* Spot, Past), which directories tree is in and how much of each it has   *)
(* printed (TreeSo, Descent, Visiting), which byte of which file comes     *)
(* next (CopyData, CopyChain); and that the shared buffer holds the sector *)
(* the call takes it for (Buffered).  Before it stand the facts it needs:  *)
(* the layout of the volume, chains, sequences, directories as sequences   *)
(* of sectors, paths, and the lines of tree.                               *)
(***************************************************************************)
EXTENDS FatReader, LeastElements, SequenceTheorems

-----------------------------------------------------------------------------
(* The volume.                                                              *)

LEMMA SizesPositive ==
  /\ SectorSize \in Nat \ {0} /\ SectorsPerCluster \in Nat \ {0}
  /\ FatPerSector \in Nat \ {0} /\ RootSectors \in Nat \ {0}
  BY LayoutAssumption

LEMMA ClusterNumbers ==
  ASSUME NEW c \in Clusters
  PROVE  /\ c \in Nat /\ 2 <= c /\ c < EndMark
         /\ c <= Cardinality(Clusters) + 1
         /\ Fat[c] \in Clusters \cup {0, 65535}
  BY VolumeAssumption DEF EndMark

LEMMA Layout ==
  /\ RootStart \in Nat /\ DataStart \in Nat /\ LastLba \in Nat
  /\ FatStart < RootStart /\ RootStart < DataStart /\ DataStart <= LastLba + 1
<1>1. (Cardinality(Clusters) + 1) \div FatPerSector \in Nat
  BY SizesPositive, VolumeAssumption, QuotientOf
<1>2. Cardinality(Clusters) * SectorsPerCluster \in Nat
  BY SizesPositive, VolumeAssumption, Products
<1>. HIDE DEF Clusters
<1>. QED
  BY <1>1, <1>2, SizesPositive DEF FatStart, RootStart, DataStart, LastLba

(* The FAT sector of a cluster lies in the FAT and holds its entry.         *)
LEMMA FatEntryRead ==
  ASSUME NEW c \in Clusters
  PROVE  /\ FatSector(c) \in FatStart .. RootStart - 1
         /\ FatValue(FatSector(c), c) = Fat[c]
<1> DEFINE q == c \div FatPerSector
           n == Cardinality(Clusters) + 1
           top == n \div FatPerSector
<1>1. c \in Nat /\ n \in Nat /\ c <= n
  BY ClusterNumbers, VolumeAssumption
<1>2. /\ q \in Nat /\ FatPerSector * q <= c /\ c < FatPerSector * q + FatPerSector
      /\ top \in Nat /\ n < FatPerSector * top + FatPerSector
  BY <1>1, SizesPositive, QuotientOf
<1>3. c = FatPerSector * q + (c % FatPerSector)
  BY <1>1, SizesPositive
<1>. HIDE DEF q, n, top
<1>4. q <= top
  <2>1. SUFFICES ASSUME top + 1 <= q PROVE FALSE
    BY <1>2
  <2>2. (top + 1) * FatPerSector <= q * FatPerSector
    BY <1>2, <2>1, SizesPositive, Products
  <2>3. /\ (top + 1) * FatPerSector = FatPerSector * top + FatPerSector
        /\ q * FatPerSector = FatPerSector * q
        /\ FatPerSector * top \in Nat /\ FatPerSector * q \in Nat
    BY <1>2, SizesPositive
  <2>. QED
    BY <1>1, <1>2, <2>2, <2>3, SizesPositive
<1>5. RootStart = top + 2 /\ FatSector(c) = 1 + q
  BY <1>2 DEF RootStart, FatStart, FatSector, top, n, q
<1>6. FatSector(c) \in FatStart .. RootStart - 1
  BY <1>2, <1>4, <1>5 DEF FatStart
<1>7. (FatSector(c) - FatStart) * FatPerSector + (c % FatPerSector) = c
  <2>1. FatSector(c) - FatStart = q
    BY <1>2, <1>5 DEF FatStart
  <2>2. q * FatPerSector = FatPerSector * q
    BY <1>2, SizesPositive
  <2>. QED
    BY <1>3, <2>1, <2>2
<1>. QED
  BY <1>6, <1>7 DEF FatValue

LEMMA RootIsDirectory ==
  ASSUME NEW s \in 0 .. RootSectors - 1
  PROVE  SectorLba(0, s) \in DOMAIN Dir
<1>1. RootStart + s \in RootStart .. DataStart - 1
  BY Layout, SizesPositive DEF DataStart
<1>. QED
  BY <1>1, VolumeAssumption DEF SectorLba

LEMMA DirectoryOnVolume ==
  ASSUME NEW l \in DOMAIN Dir
  PROVE  /\ l \in Nat /\ 1 <= l /\ l <= LastLba
         /\ Dir[l] \in Seq(AllEntries) /\ Entries(l) = Dir[l]
<1>1. l \in RootStart .. LastLba
  BY VolumeAssumption DEF EndMark
<1>. QED
  BY <1>1, Layout, VolumeAssumption DEF Entries, FatStart

LEMMA ClusterSectors ==
  ASSUME NEW c \in Clusters, NEW s \in 0 .. SectorsPerCluster - 1
  PROVE  /\ SectorLba(c, s) \in DataStart .. LastLba
         /\ SectorLba(c, s) = DataStart + (c - 2) * SectorsPerCluster + s
<1>1. c - 2 \in Nat /\ c - 2 + 1 <= Cardinality(Clusters) /\ c # 0 /\ Cardinality(Clusters) \in Nat
  BY ClusterNumbers, VolumeAssumption
<1>2. (c - 2 + 1) * SectorsPerCluster <= Cardinality(Clusters) * SectorsPerCluster
  BY <1>1, SizesPositive, Products
<1>3. (c - 2 + 1) * SectorsPerCluster = (c - 2) * SectorsPerCluster + SectorsPerCluster
  BY <1>1, SizesPositive
<1>4. (c - 2) * SectorsPerCluster \in Nat /\ Cardinality(Clusters) * SectorsPerCluster \in Nat
  BY <1>1, SizesPositive, Products
<1>5. SectorLba(c, s) = DataStart + (c - 2) * SectorsPerCluster + s
  BY <1>1 DEF SectorLba
<1>6. LastLba = DataStart + Cardinality(Clusters) * SectorsPerCluster - 1
  BY DEF LastLba
<1>. HIDE DEF Clusters
<1>. QED
  BY <1>1, <1>2, <1>3, <1>4, <1>5, <1>6, Layout, SizesPositive
-----------------------------------------------------------------------------
(* Chains.  ClusterAt is a recursive function; that it exists, and what it  *)
(* is at a number, is found at the least number where it is not so.         *)

WalkBody(c, n, f) == [k \in 0 .. n |-> IF k = 0 THEN c ELSE Fat[f[k - 1]]]
Walk(c, n) == CHOOSE f : f = WalkBody(c, n, f)

LEMMA WalkExists ==
  ASSUME NEW c, NEW n \in Nat
  PROVE  \E f : f = [k \in 0 .. n |-> IF k = 0 THEN c ELSE Fat[f[k - 1]]]
<1> DEFINE Good(m) == \E f : f = [k \in 0 .. m |-> IF k = 0 THEN c ELSE Fat[f[k - 1]]]
           T == {m \in Nat : ~Good(m)}
<1>1. SUFFICES ASSUME T # {} PROVE FALSE
  OBVIOUS
<1>2. PICK m \in T : \A j \in T : m <= j
  <2>. HIDE DEF Good
  <2>. QED
    BY <1>1, LeastNumber
<1>3. m # 0
  <2>1. [k \in 0 .. 0 |-> c] = [k \in 0 .. 0 |-> IF k = 0 THEN c ELSE Fat[[j \in 0 .. 0 |-> c][k - 1]]]
    OBVIOUS
  <2>2. Good(0)
    BY <2>1
  <2>. QED
    BY <2>2
<1>4. m - 1 \in Nat /\ Good(m - 1)
  <2>. HIDE DEF Good
  <2>. QED
    BY <1>2, <1>3
<1>5. PICK f : f = [k \in 0 .. m - 1 |-> IF k = 0 THEN c ELSE Fat[f[k - 1]]]
  BY <1>4
<1> DEFINE g == [k \in 0 .. m |-> IF k = m THEN Fat[f[m - 1]] ELSE f[k]]
<1>6. g = [k \in 0 .. m |-> IF k = 0 THEN c ELSE Fat[g[k - 1]]]
  <2>1. \A k \in 0 .. m : g[k] = IF k = 0 THEN c ELSE Fat[g[k - 1]]
    <3>. SUFFICES ASSUME NEW k \in 0 .. m PROVE g[k] = IF k = 0 THEN c ELSE Fat[g[k - 1]]
      OBVIOUS
    <3>1. m \in Nat
      BY <1>2
    <3>2. CASE k = m
      BY <1>3, <3>1, <3>2
    <3>3. CASE k < m
      <4>1. g[k] = f[k]
        BY <3>1, <3>3
      <4>2. k # 0 => g[k - 1] = f[k - 1]
        BY <3>1, <3>3
      <4>3. f[k] = IF k = 0 THEN c ELSE Fat[f[k - 1]]
        BY <1>5, <3>1, <3>3
      <4>. HIDE DEF g
      <4>. QED
        BY <4>1, <4>2, <4>3
    <3>. QED
      BY <3>1, <3>2, <3>3
  <2>. QED
    BY <2>1
<1>7. Good(m)
  <2>. HIDE DEF g
  <2>. QED
    BY <1>6
<1>. QED
  BY <1>2, <1>7

LEMMA WalkIs ==
  ASSUME NEW c, NEW n \in Nat
  PROVE  /\ Walk(c, n) = [k \in 0 .. n |-> IF k = 0 THEN c ELSE Fat[Walk(c, n)[k - 1]]]
         /\ ClusterAt(c, n) = Walk(c, n)[n]
<1>1. \E f : f = WalkBody(c, n, f)
  BY WalkExists DEF WalkBody
<1>2. Walk(c, n) = WalkBody(c, n, Walk(c, n))
  BY <1>1, Zenon DEF Walk
<1>3. ClusterAt(c, n) = Walk(c, n)[n]
  BY DEF ClusterAt, Walk, WalkBody
<1>. QED
  BY <1>2, <1>3 DEF WalkBody

LEMMA ClusterAtZero == \A c : ClusterAt(c, 0) = c
<1>. SUFFICES ASSUME NEW c PROVE ClusterAt(c, 0) = c
  OBVIOUS
<1>. QED
  BY WalkIs

LEMMA ClusterAtNext ==
  ASSUME NEW c, NEW i \in Nat
  PROVE  ClusterAt(c, i + 1) = Fat[ClusterAt(c, i)]
<1>1. PICK f : f = [k \in 0 .. i |-> IF k = 0 THEN c ELSE Fat[f[k - 1]]] /\ ClusterAt(c, i) = f[i]
  BY WalkIs
<1>2. PICK g : g = [k \in 0 .. i + 1 |-> IF k = 0 THEN c ELSE Fat[g[k - 1]]] /\ ClusterAt(c, i + 1) = g[i + 1]
  BY i + 1 \in Nat, WalkIs
<1> DEFINE T == {k \in 0 .. i : f[k] # g[k]}
<1>3. T = {}
  <2>. SUFFICES ASSUME T # {} PROVE FALSE
    OBVIOUS
  <2>1. PICK k \in T : \A j \in T : k <= j
    <3>1. T \subseteq Nat
      OBVIOUS
    <3>. HIDE DEF T
    <3>. QED
      BY <3>1, LeastNumber
  <2>2. k # 0
    BY <1>1, <1>2
  <2>3. k - 1 \in 0 .. i /\ k - 1 \notin T
    BY <2>1, <2>2
  <2>4. f[k] = Fat[f[k - 1]] /\ g[k] = Fat[g[k - 1]]
    BY <1>1, <1>2, <2>2
  <2>. QED
    BY <2>1, <2>3, <2>4
<1>4. f[i] = g[i]
  BY <1>3
<1>5. g[i + 1] = Fat[g[i]]
  BY <1>2
<1>. QED
  BY <1>1, <1>2, <1>4, <1>5

LEMMA ChainFacts ==
  ASSUME NEW c, HeadsChain(c)
  PROVE  /\ ChainLength(c) \in Nat /\ 1 <= ChainLength(c) /\ c \in Clusters /\ c >= 2
         /\ \A i \in 0 .. ChainLength(c) - 1 : ClusterAt(c, i) \in Clusters
         /\ \A i \in 0 .. ChainLength(c) - 1 :
              IF i + 1 < ChainLength(c)
                THEN /\ Fat[ClusterAt(c, i)] = ClusterAt(c, i + 1)
                     /\ ClusterAt(c, i + 1) < EndMark /\ ClusterAt(c, i + 1) >= 2
                ELSE Fat[ClusterAt(c, i)] = 65535
<1> DEFINE n == ChainLength(c)
<1>1. n \in 1 .. Cardinality(Clusters) /\ IsChain(c, n)
  BY DEF HeadsChain, ChainLength
<1>. HIDE DEF n
<1>2. n \in Nat /\ 1 <= n
  BY <1>1, VolumeAssumption
<1>3. \A i \in 0 .. n - 1 : ClusterAt(c, i) \in Clusters
  BY <1>1 DEF IsChain
<1>4. c \in Clusters /\ c >= 2
  BY <1>2, <1>3, ClusterAtZero, ClusterNumbers
<1>5. ASSUME NEW i \in 0 .. n - 1
      PROVE  IF i + 1 < n
                THEN /\ Fat[ClusterAt(c, i)] = ClusterAt(c, i + 1)
                     /\ ClusterAt(c, i + 1) < EndMark /\ ClusterAt(c, i + 1) >= 2
                ELSE Fat[ClusterAt(c, i)] = 65535
  <2>1. CASE i + 1 < n
    <3>1. ClusterAt(c, i + 1) \in Clusters
      BY <1>2, <1>3, <2>1
    <3>. QED
      BY <1>2, <2>1, <3>1, ClusterAtNext, ClusterNumbers
  <2>2. CASE ~(i + 1 < n)
    <3>1. i = n - 1
      BY <1>2, <2>2
    <3>2. Fat[ClusterAt(c, i)] >= EndMark /\ ClusterAt(c, i) \in Clusters
      BY <1>1, <1>3, <3>1 DEF IsChain
    <3>3. Fat[ClusterAt(c, i)] \in Clusters \cup {0, 65535}
      BY <3>2, ClusterNumbers
    <3>4. Fat[ClusterAt(c, i)] # 0 /\ Fat[ClusterAt(c, i)] \notin Clusters
      <4>. HIDE DEF Clusters
      <4>1. ~(0 >= EndMark)
        BY DEF EndMark
      <4>2. \A d \in Clusters : d \in Nat /\ ~(d >= EndMark)
        BY ClusterNumbers DEF EndMark
      <4>. QED
        BY <3>2, <4>1, <4>2
    <3>5. Fat[ClusterAt(c, i)] = 65535
      BY <3>3, <3>4
    <3>. QED
      BY <2>2, <3>5
  <2>. QED
    BY <2>1, <2>2
<1>. QED
  BY <1>2, <1>3, <1>4, <1>5 DEF n

(* The number of sectors of a chain, and which they are.                    *)
LEMMA ChainSectors ==
  ASSUME NEW c, HeadsChain(c)
  PROVE  LET m == ChainLength(c) * SectorsPerCluster
         IN  /\ m \in Nat /\ 1 <= m
             /\ Len(SectorsOf(c)) = m /\ DOMAIN SectorsOf(c) = 1 .. m
             /\ \A i \in 0 .. ChainLength(c) - 1 : \A s \in 0 .. SectorsPerCluster - 1 :
                  /\ i * SectorsPerCluster + s \in 0 .. m - 1
                  /\ SectorsOf(c)[i * SectorsPerCluster + s + 1] = SectorLba(ClusterAt(c, i), s)
<1> DEFINE m == ChainLength(c) * SectorsPerCluster
           L == ChainLength(c)
<1>1. L \in Nat /\ 1 <= L /\ c # 0
  BY ChainFacts, ClusterNumbers
<1>. HIDE DEF L
<1>2. m \in Nat /\ 1 <= m
  <2>1. 1 * SectorsPerCluster <= L * SectorsPerCluster
    BY <1>1, SizesPositive, Products
  <2>. QED
    BY <1>1, <2>1, SizesPositive, Products DEF L
<1>. HIDE DEF m
<1>3. SectorsOf(c) = [i \in 1 .. m |->
          SectorLba(ClusterAt(c, (i - 1) \div SectorsPerCluster), (i - 1) % SectorsPerCluster)]
  BY <1>1 DEF SectorsOf, m
<1>4. Len(SectorsOf(c)) = m /\ DOMAIN SectorsOf(c) = 1 .. m
  BY <1>2, <1>3
<1>5. ASSUME NEW i \in 0 .. L - 1, NEW s \in 0 .. SectorsPerCluster - 1
      PROVE  /\ i * SectorsPerCluster + s \in 0 .. m - 1
             /\ SectorsOf(c)[i * SectorsPerCluster + s + 1] = SectorLba(ClusterAt(c, i), s)
  <2> DEFINE k == i * SectorsPerCluster
  <2>1. k \in Nat /\ i \in Nat /\ s \in Nat /\ s < SectorsPerCluster
    BY <1>1, SizesPositive, Products
  <2>2. (i + 1) * SectorsPerCluster <= L * SectorsPerCluster
    BY <1>1, SizesPositive, Products
  <2>3. (i + 1) * SectorsPerCluster = k + SectorsPerCluster
    BY <2>1, SizesPositive
  <2>4. k + s \in 0 .. m - 1
    BY <2>1, <2>2, <2>3, SizesPositive, <1>2 DEF m, L
  <2>5. (k + s) \div SectorsPerCluster = i
    <3>. HIDE DEF k
    <3>1. k = i * SectorsPerCluster /\ k + s \in Nat
      BY <2>1 DEF k
    <3>. QED
      BY <2>1, <3>1, SizesPositive, QuotientIs
  <2>6. (k + s) % SectorsPerCluster = s
    <3>1. k + s = SectorsPerCluster * ((k + s) \div SectorsPerCluster) + ((k + s) % SectorsPerCluster)
      BY <2>1, SizesPositive
    <3>2. SectorsPerCluster * i = k
      BY <2>1, SizesPositive
    <3>3. ((k + s) % SectorsPerCluster) \in Nat
      BY <2>1, SizesPositive
    <3>. QED
      BY <2>1, <2>5, <3>1, <3>2, <3>3
  <2>7. k + s + 1 \in 1 .. m /\ k + s + 1 - 1 = k + s
    BY <1>2, <2>1, <2>4
  <2>. HIDE DEF k
  <2> DEFINE q == k + s
  <2>8. q + 1 \in 1 .. m /\ (q + 1) - 1 = q /\ q \div SectorsPerCluster = i /\ q % SectorsPerCluster = s
    BY <1>2, <2>4, <2>5, <2>6, <2>7
  <2>9. SectorsOf(c)[q + 1] = SectorLba(ClusterAt(c, i), s)
    <3>. HIDE DEF q
    <3>. QED
      BY <1>3, <2>8
  <2>. QED
    BY <2>4, <2>9 DEF k
<1>. QED
  BY <1>2, <1>4, <1>5 DEF m, L
-----------------------------------------------------------------------------
(* Induction, over numbers and over sequences.                              *)

LEMMA NumberInduction ==
  ASSUME NEW n \in Nat, NEW T, 0 \in T, \A k \in 0 .. n - 1 : k \in T => k + 1 \in T
  PROVE  \A k \in 0 .. n : k \in T
<1> DEFINE U == {k \in 0 .. n : k \notin T}
<1>1. SUFFICES ASSUME U # {} PROVE FALSE
  OBVIOUS
<1>2. PICK k \in U : \A j \in U : k <= j
  <2>1. U \subseteq Nat
    OBVIOUS
  <2>. HIDE DEF U
  <2>. QED
    BY <1>1, <2>1, LeastNumber
<1>3. k # 0 /\ k - 1 \in 0 .. n - 1 /\ k - 1 \notin U
  BY <1>2
<1>4. k - 1 \in T /\ (k - 1) + 1 = k
  BY <1>3
<1>. QED
  BY <1>2, <1>3, <1>4

LEMMA SequenceInduction ==
  ASSUME NEW S, NEW T, <<>> \in T, \A s \in Seq(S) : \A e \in S : s \in T => Append(s, e) \in T
  PROVE  \A s \in Seq(S) : s \in T
<1> DEFINE U == {Len(s) : s \in {q \in Seq(S) : q \notin T}}
<1>1. SUFFICES ASSUME U # {} PROVE FALSE
  OBVIOUS
<1>2. PICK n \in U : \A j \in U : n <= j
  <2>1. U \subseteq Nat
    BY LenProperties
  <2>. HIDE DEF U
  <2>. QED
    BY <1>1, <2>1, LeastNumber
<1>3. PICK q \in Seq(S) : q \notin T /\ n = Len(q)
  BY <1>2
<1>4. q # <<>>
  BY <1>3
<1>5. PICK s \in Seq(S), e \in S : q = Append(s, e)
  BY <1>4, SequenceEmptyOrAppend
<1>6. Len(q) = Len(s) + 1 /\ Len(s) \in Nat
  BY <1>5, AppendProperties, LenProperties
<1>7. s \notin T
  BY <1>3, <1>5
<1>8. Len(s) \in U
  BY <1>7
<1>. HIDE DEF U
<1>. QED
  BY <1>2, <1>3, <1>6, <1>8

-----------------------------------------------------------------------------
(* Kept, which filters a sequence.                                          *)

KeptBody(es, K, f) ==
  [i \in 0 .. Len(es) |->
     IF i = 0 THEN <<>>
     ELSE IF es[i] \in K THEN Append(f[i - 1], es[i]) ELSE f[i - 1]]
KeptRun(es, K) == CHOOSE f : f = KeptBody(es, K, f)

LEMMA KeptIs ==
  ASSUME NEW es, Len(es) \in Nat, NEW K
  PROVE  /\ KeptRun(es, K) = KeptBody(es, K, KeptRun(es, K))
         /\ Kept(es, K) = KeptRun(es, K)[Len(es)]
<1> DEFINE n == Len(es)
           Next0(i, v) == IF es[i] \in K THEN Append(v, es[i]) ELSE v
           Good(m) == \E f : f = [i \in 0 .. m |-> IF i = 0 THEN <<>> ELSE Next0(i, f[i - 1])]
           T == {m \in Nat : Good(m)}
<1>1. 0 \in T
  <2>1. [k \in 0 .. 0 |-> <<>>] = [k \in 0 .. 0 |-> IF k = 0 THEN <<>> ELSE Next0(k, [j \in 0 .. 0 |-> <<>>][k - 1])]
    OBVIOUS
  <2>2. Good(0)
    BY <2>1
  <2>. QED
    BY <2>2
<1>2. ASSUME NEW m \in 0 .. n - 1, m \in T PROVE m + 1 \in T
  <2>. HIDE DEF Next0
  <2>1. PICK f : f = [i \in 0 .. m |-> IF i = 0 THEN <<>> ELSE Next0(i, f[i - 1])]
    BY <1>2
  <2> DEFINE g == [i \in 0 .. m + 1 |-> IF i = m + 1 THEN Next0(m + 1, f[m]) ELSE f[i]]
  <2>2. ASSUME NEW i \in 0 .. m + 1
        PROVE  g[i] = IF i = 0 THEN <<>> ELSE Next0(i, g[i - 1])
    <3>1. m \in Nat
      BY <1>2
    <3>2. CASE i = m + 1
      BY <3>1, <3>2
    <3>3. CASE i \in 0 .. m
      <4>1. g[i] = f[i] /\ (i # 0 => g[i - 1] = f[i - 1])
        BY <3>1, <3>3
      <4>2. f[i] = IF i = 0 THEN <<>> ELSE Next0(i, f[i - 1])
        BY <2>1, <3>3
      <4>. HIDE DEF g
      <4>. QED
        BY <4>1, <4>2
    <3>. QED
      BY <3>1, <3>2, <3>3
  <2>3. g = [i \in 0 .. m + 1 |-> IF i = 0 THEN <<>> ELSE Next0(i, g[i - 1])]
    BY <2>2
  <2>4. Good(m + 1) /\ m + 1 \in Nat
    <3>. HIDE DEF g
    <3>. QED
      BY <2>3, <1>2
  <2>. QED
    BY <2>4
<1>3. n \in 0 .. n /\ n \in Nat
  OBVIOUS
<1>4. n \in T
  <2>. HIDE DEF T
  <2>1. \A m \in 0 .. n - 1 : m \in T => m + 1 \in T
    BY <1>2
  <2>. HIDE DEF n
  <2>. QED
    BY <1>1, <1>3, <2>1, NumberInduction
<1>5. \E f : f = KeptBody(es, K, f)
  BY <1>4 DEF KeptBody
<1>6. KeptRun(es, K) = KeptBody(es, K, KeptRun(es, K))
  BY <1>5, Zenon DEF KeptRun
<1>7. Kept(es, K) = KeptRun(es, K)[Len(es)]
  BY DEF Kept, KeptRun, KeptBody
<1>. QED
  BY <1>6, <1>7

LEMMA KeptEmpty == \A K : Kept(<<>>, K) = <<>>
<1>. SUFFICES ASSUME NEW K PROVE Kept(<<>>, K) = <<>>
  OBVIOUS
<1>1. Len(<<>>) = 0
  OBVIOUS
<1>. QED
  BY <1>1, KeptIs DEF KeptBody

LEMMA KeptAppend ==
  ASSUME NEW S, NEW es \in Seq(S), NEW x \in S, NEW K
  PROVE  Kept(Append(es, x), K) = IF x \in K THEN Append(Kept(es, K), x) ELSE Kept(es, K)
<1> DEFINE n == Len(es)
           more == Append(es, x)
           f == KeptRun(es, K)
           g == KeptRun(more, K)
           T == {i \in 0 .. n : f[i] = g[i]}
<1>1. /\ n \in Nat /\ Len(more) = n + 1 /\ more[n + 1] = x
      /\ \A i \in 1 .. n : more[i] = es[i]
  BY LenProperties, AppendProperties
<1>. HIDE DEF n, more
<1>2. /\ Kept(es, K) = f[n]
      /\ f = [i \in 0 .. n |->
                IF i = 0 THEN <<>> ELSE IF es[i] \in K THEN Append(f[i - 1], es[i]) ELSE f[i - 1]]
  BY <1>1, KeptIs DEF KeptBody, n
<1>3. /\ Kept(more, K) = g[n + 1]
      /\ g = [i \in 0 .. n + 1 |->
                IF i = 0 THEN <<>> ELSE IF more[i] \in K THEN Append(g[i - 1], more[i]) ELSE g[i - 1]]
  BY <1>1, KeptIs DEF KeptBody
<1>. HIDE DEF f, g
<1>4. 0 \in T
  BY <1>1, <1>2, <1>3
<1>5. ASSUME NEW i \in 0 .. n - 1, i \in T PROVE i + 1 \in T
  <2>1. /\ i + 1 \in 0 .. n /\ i + 1 \in 0 .. n + 1 /\ i + 1 # 0 /\ (i + 1) - 1 = i
        /\ more[i + 1] = es[i + 1] /\ f[i] = g[i]
    BY <1>1, <1>5
  <2>2. /\ f[i + 1] = IF es[i + 1] \in K THEN Append(f[i], es[i + 1]) ELSE f[i]
        /\ g[i + 1] = IF more[i + 1] \in K THEN Append(g[i], more[i + 1]) ELSE g[i]
    BY <1>2, <1>3, <2>1
  <2>3. f[i + 1] = g[i + 1]
    BY <2>1, <2>2
  <2>. QED
    BY <2>1, <2>3
<1>6. n \in T
  <2>. HIDE DEF T
  <2>1. \A i \in 0 .. n - 1 : i \in T => i + 1 \in T
    BY <1>5
  <2>2. n \in 0 .. n
    BY <1>1
  <2>. QED
    BY <1>1, <1>4, <2>1, <2>2, NumberInduction
<1>7. g[n + 1] = IF x \in K THEN Append(g[n], x) ELSE g[n]
  <2>1. n + 1 \in 0 .. n + 1 /\ n + 1 # 0 /\ (n + 1) - 1 = n
    BY <1>1
  <2>. QED
    BY <1>1, <1>3, <2>1
<1>. QED
  BY <1>2, <1>3, <1>6, <1>7 DEF more

LEMMA RangeAppend ==
  ASSUME NEW S, NEW es \in Seq(S), NEW x \in S
  PROVE  Range(Append(es, x)) = Range(es) \cup {x}
<1> DEFINE n == Len(es)
           more == Append(es, x)
<1>1. /\ n \in Nat /\ DOMAIN es = 1 .. n /\ DOMAIN more = 1 .. n + 1
      /\ more[n + 1] = x /\ \A i \in 1 .. n : more[i] = es[i]
  BY LenProperties, AppendProperties
<1>. HIDE DEF n, more
<1>2. Range(more) = Range(es) \cup {x}
  BY <1>1 DEF Range
<1>. QED
  BY <1>2 DEF more

LEMMA RangeEmpty == Range(<<>>) = {}
  BY DEF Range

LEMMA KeptType ==
  ASSUME NEW S, NEW K
  PROVE  \A es \in Seq(S) : /\ Kept(es, K) \in Seq(S)
                            /\ Range(Kept(es, K)) = Range(es) \cap K
<1> DEFINE Good(es) == Kept(es, K) \in Seq(S) /\ Range(Kept(es, K)) = Range(es) \cap K
           T == {es \in Seq(S) : Good(es)}
<1>1. <<>> \in T
  <2>1. <<>> \in Seq(S) /\ Kept(<<>>, K) = <<>> /\ Range(<<>>) = {}
    BY KeptEmpty, RangeEmpty
  <2>. QED
    BY <2>1
<1>2. ASSUME NEW es \in Seq(S), NEW x \in S, es \in T
      PROVE  Append(es, x) \in T
  <2>1. Append(es, x) \in Seq(S)
    BY AppendProperties
  <2>3. Range(Append(es, x)) = Range(es) \cup {x}
    BY RangeAppend
  <2>4. CASE x \in K
    <3>1. Kept(Append(es, x), K) = Append(Kept(es, K), x)
      BY <2>4, KeptAppend
    <3>2. /\ Append(Kept(es, K), x) \in Seq(S)
          /\ Range(Append(Kept(es, K), x)) = Range(Kept(es, K)) \cup {x}
      BY <1>2, AppendProperties, RangeAppend
    <3>. QED
      BY <1>2, <2>1, <2>3, <2>4, <3>1, <3>2
  <2>5. CASE x \notin K
    <3>1. Kept(Append(es, x), K) = Kept(es, K)
      BY <2>5, KeptAppend
    <3>. QED
      BY <1>2, <2>1, <2>3, <2>5, <3>1
  <2>. QED
    BY <2>4, <2>5
<1>3. \A es \in Seq(S) : es \in T
  <2>. HIDE DEF T
  <2>. QED
    BY <1>1, <1>2, SequenceInduction
<1>. QED
  BY <1>3

LEMMA ConcatAppend ==
  ASSUME NEW S, NEW a \in Seq(S), NEW b \in Seq(S), NEW x \in S
  PROVE  a \o Append(b, x) = Append(a \o b, x)
  OBVIOUS

LEMMA KeptConcat ==
  ASSUME NEW S, NEW K, NEW a \in Seq(S)
  PROVE  \A b \in Seq(S) : Kept(a \o b, K) = Kept(a, K) \o Kept(b, K)
<1> DEFINE T == {b \in Seq(S) : Kept(a \o b, K) = Kept(a, K) \o Kept(b, K)}
<1>1. <<>> \in T
  <2>1. Kept(a, K) \in Seq(S) /\ <<>> \in Seq(S) /\ Kept(<<>>, K) = <<>>
    BY KeptType, KeptEmpty
  <2>2. a \o <<>> = a /\ Kept(a, K) \o <<>> = Kept(a, K)
    BY <2>1, ConcatEmptySeq
  <2>. QED
    BY <2>1, <2>2
<1>2. ASSUME NEW b \in Seq(S), NEW x \in S, b \in T
      PROVE  Append(b, x) \in T
  <2>1. Append(b, x) \in Seq(S) /\ a \o b \in Seq(S)
    BY AppendProperties, ConcatProperties
  <2>2. a \o Append(b, x) = Append(a \o b, x)
    BY ConcatAppend
  <2>3. Kept(a, K) \in Seq(S) /\ Kept(b, K) \in Seq(S)
    BY KeptType
  <2>4. Kept(a \o b, K) = Kept(a, K) \o Kept(b, K)
    BY <1>2
  <2>5. Append(Kept(a, K) \o Kept(b, K), x) = Kept(a, K) \o Append(Kept(b, K), x)
    <3> DEFINE p == Kept(a, K)
               q == Kept(b, K)
    <3>1. p \in Seq(S) /\ q \in Seq(S)
      BY <2>3
    <3>. HIDE DEF p, q
    <3>2. p \o Append(q, x) = Append(p \o q, x)
      BY <3>1, ConcatAppend
    <3>3. Append(p \o q, x) = p \o Append(q, x)
      BY <3>2
    <3>. QED
      BY <3>3 DEF p, q
  <2>6. Kept(Append(a \o b, x), K) = IF x \in K THEN Append(Kept(a \o b, K), x) ELSE Kept(a \o b, K)
    BY <2>1, KeptAppend
  <2>7. Kept(Append(b, x), K) = IF x \in K THEN Append(Kept(b, K), x) ELSE Kept(b, K)
    BY KeptAppend
  <2>8. Kept(a \o Append(b, x), K) = Kept(a, K) \o Kept(Append(b, x), K)
    <3>1. CASE x \in K
      BY <2>2, <2>4, <2>5, <2>6, <2>7, <3>1, Zenon
    <3>2. CASE x \notin K
      BY <2>2, <2>4, <2>6, <2>7, <3>2, Zenon
    <3>. QED
      BY <3>1, <3>2
  <2>. QED
    BY <2>1, <2>8
<1>3. \A b \in Seq(S) : b \in T
  <2>. HIDE DEF T
  <2>. QED
    BY <1>1, <1>2, SequenceInduction
<1>. QED
  BY <1>3
-----------------------------------------------------------------------------
(* FlattenSeq, through the concatenations of the first k sequences.         *)

FlatBody(ss, f) == [k \in 0 .. Len(ss) |-> IF k = 0 THEN <<>> ELSE f[k - 1] \o ss[k]]
Flat(ss) == CHOOSE f : f = FlatBody(ss, f)

LEMMA FlatIs ==
  ASSUME NEW ss, Len(ss) \in Nat
  PROVE  Flat(ss) = FlatBody(ss, Flat(ss))
<1> DEFINE n == Len(ss)
           Next0(i, v) == v \o ss[i]
           Good(m) == \E f : f = [i \in 0 .. m |-> IF i = 0 THEN <<>> ELSE Next0(i, f[i - 1])]
           T == {m \in Nat : Good(m)}
<1>1. 0 \in T
  <2>1. [k \in 0 .. 0 |-> <<>>] = [k \in 0 .. 0 |-> IF k = 0 THEN <<>> ELSE Next0(k, [j \in 0 .. 0 |-> <<>>][k - 1])]
    OBVIOUS
  <2>2. Good(0)
    BY <2>1
  <2>. QED
    BY <2>2
<1>2. ASSUME NEW m \in 0 .. n - 1, m \in T PROVE m + 1 \in T
  <2>. HIDE DEF Next0
  <2>1. PICK f : f = [i \in 0 .. m |-> IF i = 0 THEN <<>> ELSE Next0(i, f[i - 1])]
    BY <1>2
  <2> DEFINE g == [i \in 0 .. m + 1 |-> IF i = m + 1 THEN Next0(m + 1, f[m]) ELSE f[i]]
  <2>2. ASSUME NEW i \in 0 .. m + 1
        PROVE  g[i] = IF i = 0 THEN <<>> ELSE Next0(i, g[i - 1])
    <3>1. m \in Nat
      BY <1>2
    <3>2. CASE i = m + 1
      <4>1. g[i] = Next0(m + 1, f[m]) /\ g[i - 1] = f[m] /\ i # 0
        BY <3>1, <3>2
      <4>. HIDE DEF g
      <4>. QED
        BY <3>2, <4>1
    <3>3. CASE i \in 0 .. m
      <4>1. g[i] = f[i] /\ (i # 0 => g[i - 1] = f[i - 1])
        BY <3>1, <3>3
      <4>2. f[i] = IF i = 0 THEN <<>> ELSE Next0(i, f[i - 1])
        BY <2>1, <3>3
      <4>. HIDE DEF g
      <4>. QED
        BY <4>1, <4>2
    <3>. QED
      BY <3>1, <3>2, <3>3
  <2>3. g = [i \in 0 .. m + 1 |-> IF i = 0 THEN <<>> ELSE Next0(i, g[i - 1])]
    BY <2>2
  <2>4. Good(m + 1) /\ m + 1 \in Nat
    <3>. HIDE DEF g
    <3>. QED
      BY <2>3, <1>2
  <2>. QED
    BY <2>4
<1>3. n \in 0 .. n /\ n \in Nat
  OBVIOUS
<1>4. n \in T
  <2>. HIDE DEF T
  <2>1. \A m \in 0 .. n - 1 : m \in T => m + 1 \in T
    BY <1>2
  <2>. HIDE DEF n
  <2>. QED
    BY <1>1, <1>3, <2>1, NumberInduction
<1>5. \E f : f = FlatBody(ss, f)
  BY <1>4 DEF FlatBody
<1>. QED
  BY <1>5, Zenon DEF Flat

LEMMA FlatFacts ==
  ASSUME NEW S, NEW ss, NEW n \in Nat, Len(ss) = n, \A k \in 1 .. n : ss[k] \in Seq(S)
  PROVE  /\ Flat(ss)[0] = <<>>
         /\ \A k \in 0 .. n - 1 : Flat(ss)[k + 1] = Flat(ss)[k] \o ss[k + 1]
         /\ \A k \in 0 .. n : Flat(ss)[k] \in Seq(S)
<1> DEFINE f == Flat(ss)
           T == {k \in 0 .. n : f[k] \in Seq(S)}
<1>1. f = [k \in 0 .. n |-> IF k = 0 THEN <<>> ELSE f[k - 1] \o ss[k]]
  BY FlatIs DEF FlatBody
<1>. HIDE DEF f
<1>2. f[0] = <<>>
  BY <1>1
<1>3. ASSUME NEW k \in 0 .. n - 1 PROVE f[k + 1] = f[k] \o ss[k + 1]
  <2>1. k + 1 \in 0 .. n /\ k + 1 # 0 /\ (k + 1) - 1 = k
    OBVIOUS
  <2>. QED
    BY <1>1, <2>1
<1>4. 0 \in T
  <2>1. <<>> \in Seq(S) /\ 0 \in 0 .. n
    OBVIOUS
  <2>. QED
    BY <1>2, <2>1
<1>5. ASSUME NEW k \in 0 .. n - 1, k \in T PROVE k + 1 \in T
  <2>1. k + 1 \in 0 .. n /\ k + 1 \in 1 .. n
    OBVIOUS
  <2>2. f[k] \in Seq(S) /\ ss[k + 1] \in Seq(S)
    BY <1>5, <2>1
  <2>3. f[k] \o ss[k + 1] \in Seq(S)
    BY <2>2, ConcatProperties
  <2>. QED
    BY <1>3, <2>1, <2>3
<1>6. \A k \in 0 .. n : k \in T
  <2>. HIDE DEF T
  <2>1. \A k \in 0 .. n - 1 : k \in T => k + 1 \in T
    BY <1>5
  <2>. QED
    BY <1>4, <2>1, NumberInduction
<1>. QED
  BY <1>2, <1>3, <1>6 DEF f

LEMMA FlattenIs ==
  ASSUME NEW S, NEW ss, NEW n \in Nat, ss \in Seq(Seq(S)), Len(ss) = n
  PROVE  FlattenSeq(ss) = Flat(ss)[n]
<1>0. \A k \in 1 .. n : ss[k] \in Seq(S)
  BY ElementOfSeq
<1>a. /\ Flat(ss)[0] = <<>>
      /\ \A k \in 0 .. n - 1 : Flat(ss)[k + 1] = Flat(ss)[k] \o ss[k + 1]
  <2>1. n \in Nat /\ Len(ss) = n
    OBVIOUS
  <2>2. /\ Flat(ss)[0] = <<>>
        /\ \A k \in 0 .. n - 1 : Flat(ss)[k + 1] = Flat(ss)[k] \o ss[k + 1]
        /\ \A k \in 0 .. n : Flat(ss)[k] \in Seq(S)
    BY ONLY <1>0, <2>1, FlatFacts, Zenon
  <2>. QED
    BY <2>2
<1>1. CASE n = 0
  <2>1. ss = <<>>
    BY <1>1, EmptySeq
  <2>2. FlattenSeq(ss) = ss
    BY <1>1 DEF FlattenSeq
  <2>. QED
    BY <1>a, <1>1, <2>1, <2>2
<1>2. CASE n # 0
  <2> DEFINE Body(f) == [i \in 1 .. n |-> IF i = 1 THEN ss[i] ELSE f[i - 1] \o ss[i]]
             flatten == CHOOSE f : f = Body(f)
             h == [i \in 1 .. n |-> Flat(ss)[i]]
  <2>1. FlattenSeq(ss) = flatten[n]
    BY <1>2 DEF FlattenSeq
  <2>2. ASSUME NEW i \in 1 .. n
        PROVE  h[i] = IF i = 1 THEN ss[i] ELSE h[i - 1] \o ss[i]
    <3>1. i - 1 \in 0 .. n - 1 /\ (i - 1) + 1 = i
      OBVIOUS
    <3>2. Flat(ss)[i] = Flat(ss)[i - 1] \o ss[i]
      BY <1>a, <3>1
    <3>3. i = 1 => Flat(ss)[i - 1] = <<>>
      BY <1>a
    <3>4. <<>> \o ss[i] = ss[i]
      BY <1>0, ConcatEmptySeq
    <3>5. i # 1 => i - 1 \in 1 .. n
      OBVIOUS
    <3>. QED
      BY <3>2, <3>3, <3>4, <3>5
  <2>3. h = Body(h)
    BY <2>2
  <2>. HIDE DEF h, Body
  <2>4. flatten = Body(flatten)
    BY <2>3, Zenon
  <2> DEFINE T == {i \in 0 .. n - 1 : flatten[i + 1] = h[i + 1]}
  <2>. HIDE DEF flatten
  <2>5. 0 \in T
    <3>1. 1 \in 1 .. n
      BY <1>2
    <3>2. Body(flatten)[1] = ss[1] /\ Body(h)[1] = ss[1]
      BY <3>1 DEF Body
    <3>. QED
      BY <1>2, <2>3, <2>4, <3>2
  <2>6. ASSUME NEW i \in 0 .. (n - 1) - 1, i \in T PROVE i + 1 \in T
    <3>1. i + 2 \in 1 .. n /\ i + 2 # 1 /\ (i + 2) - 1 = i + 1 /\ (i + 1) + 1 = i + 2 /\ i + 1 \in 0 .. n - 1
      OBVIOUS
    <3>2. Body(flatten)[i + 2] = flatten[i + 1] \o ss[i + 2] /\ Body(h)[i + 2] = h[i + 1] \o ss[i + 2]
      BY <3>1 DEF Body
    <3>3. flatten[i + 1] = h[i + 1]
      BY <2>6
    <3>4. flatten[i + 2] = h[i + 2]
      BY <2>3, <2>4, <3>2, <3>3
    <3>. QED
      BY <3>1, <3>4
  <2>7. n - 1 \in T
    <3>. HIDE DEF T
    <3>1. n - 1 \in Nat /\ n - 1 \in 0 .. n - 1
      BY <1>2
    <3>2. \A i \in 0 .. (n - 1) - 1 : i \in T => i + 1 \in T
      BY <2>6
    <3> DEFINE m == n - 1
    <3>. HIDE DEF m
    <3>3. m \in Nat /\ m \in 0 .. m /\ \A i \in 0 .. m - 1 : i \in T => i + 1 \in T
      BY <3>1, <3>2 DEF m
    <3>4. m \in T
      BY <2>5, <3>3, NumberInduction
    <3>. QED
      BY <3>4 DEF m
  <2>8. flatten[n] = h[n]
    BY <2>7
  <2>9. h[n] = Flat(ss)[n]
    BY <1>2 DEF h
  <2>. QED
    BY <2>1, <2>8, <2>9 DEF flatten
<1>. QED
  BY <1>1, <1>2
-----------------------------------------------------------------------------
(* BeforeEnd: what stands before the first end mark.                        *)

LEMMA MinNat ==
  ASSUME NEW T, T \subseteq Nat, T # {}
  PROVE  Min(T) \in T /\ \A y \in T : Min(T) <= y
<1>1. \E x \in T : \A y \in T : x <= y
  BY LeastNumber
<1>. QED
  BY <1>1 DEF Min

LEMMA MinPair ==
  ASSUME NEW a \in Int, NEW b \in Int
  PROVE  Min({a, b}) = IF a <= b THEN a ELSE b
<1> DEFINE v == IF a <= b THEN a ELSE b
<1>1. v \in {a, b} /\ \A y \in {a, b} : v <= y
  OBVIOUS
<1>2. \A x \in {a, b} : (\A y \in {a, b} : x <= y) => x = v
  OBVIOUS
<1>. HIDE DEF v
<1>3. Min({a, b}) = v
  BY <1>1, <1>2 DEF Min
<1>. QED
  BY <1>3 DEF v

NoneEnd(es) == \A i \in DOMAIN es : es[i].kind # "end"
EndsOf(es) == {i \in DOMAIN es : es[i].kind = "end"}

\* The length of what stands before the first end mark.
Cut(es) == (IF EndsOf(es) = {} THEN Len(es) + 1 ELSE Min(EndsOf(es))) - 1

LEMMA CutIs ==
  ASSUME NEW S, NEW es \in Seq(S)
  PROVE  /\ Cut(es) \in 0 .. Len(es)
         /\ \A i \in 1 .. Cut(es) : es[i].kind # "end"
         /\ Cut(es) < Len(es) => es[Cut(es) + 1].kind = "end"
         /\ Cut(es) = Len(es) => NoneEnd(es)
         /\ BeforeEnd(es) = SubSeq(es, 1, Cut(es))
<1> DEFINE n == Len(es)
           T == EndsOf(es)
<1>1. n \in Nat /\ DOMAIN es = 1 .. n
  BY LenProperties
<1>2. BeforeEnd(es) = SubSeq(es, 1, Cut(es))
  BY DEF BeforeEnd, Cut, EndsOf
<1>3. T \subseteq 1 .. n /\ \A i \in 1 .. n : i \in T <=> es[i].kind = "end"
  BY <1>1 DEF EndsOf
<1>. HIDE DEF n, T
<1>4. CASE T = {}
  BY <1>1, <1>2, <1>3, <1>4 DEF Cut, T, n, NoneEnd
<1>5. CASE T # {}
  <2>1. Min(T) \in T /\ \A y \in T : Min(T) <= y
    <3>1. T \subseteq Nat
      BY <1>1, <1>3
    <3>. QED
      BY <3>1, <1>5, MinNat
  <2>2. Cut(es) = Min(T) - 1
    BY <1>5 DEF Cut, T
  <2> DEFINE m == Min(T)
  <2>3. m \in 1 .. n /\ es[m].kind = "end" /\ \A i \in 1 .. m - 1 : es[i].kind # "end"
    <3>1. m \in T /\ \A y \in T : m <= y
      BY <2>1
    <3>. HIDE DEF m
    <3>2. m \in 1 .. n /\ es[m].kind = "end"
      BY <1>3, <3>1
    <3>3. \A i \in 1 .. m - 1 : i \in 1 .. n /\ ~(m <= i)
      BY <1>1, <3>2
    <3>4. \A i \in 1 .. m - 1 : i \notin T
      BY <3>1, <3>3
    <3>. QED
      BY <1>3, <3>2, <3>3, <3>4
  <2>. HIDE DEF m
  <2>4. Cut(es) = m - 1
    BY <2>2 DEF m
  <2>. QED
    BY <1>1, <1>2, <2>3, <2>4 DEF n
<1>. QED
  BY <1>4, <1>5

(* Nothing else has these properties.                                       *)
LEMMA CutUnique ==
  ASSUME NEW S, NEW es \in Seq(S), NEW m \in 0 .. Len(es),
         \A i \in 1 .. m : es[i].kind # "end", m < Len(es) => es[m + 1].kind = "end"
  PROVE  Cut(es) = m
<1> DEFINE k == Cut(es)
           n == Len(es)
<1>1. n \in Nat
  BY LenProperties
<1>2. /\ k \in 0 .. n /\ \A i \in 1 .. k : es[i].kind # "end"
      /\ k < n => es[k + 1].kind = "end"
  BY CutIs
<1>3. m \in 0 .. n /\ (m < n => es[m + 1].kind = "end")
  OBVIOUS
<1>. HIDE DEF k, n
<1>4. ~(k < m)
  <2>. SUFFICES ASSUME k < m PROVE FALSE
    OBVIOUS
  <2>1. k + 1 \in 1 .. m /\ k < n
    BY <1>1, <1>2, <1>3
  <2>. QED
    BY <1>2, <2>1
<1>5. ~(m < k)
  <2>. SUFFICES ASSUME m < k PROVE FALSE
    OBVIOUS
  <2>1. m + 1 \in 1 .. k /\ m < n
    BY <1>1, <1>2, <1>3
  <2>. QED
    BY <1>2, <1>3, <2>1
<1>6. k = m
  BY <1>1, <1>2, <1>3, <1>4, <1>5
<1>. QED
  BY <1>6 DEF k

LEMMA BeforeEndIs ==
  ASSUME NEW S, NEW es \in Seq(S)
  PROVE  /\ BeforeEnd(es) \in Seq(S) /\ Len(BeforeEnd(es)) = Cut(es)
         /\ \A i \in 1 .. Cut(es) : BeforeEnd(es)[i] = es[i]
<1> DEFINE m == Cut(es)
<1>1. m \in Int /\ m \in 0 .. Len(es) /\ Len(es) \in Nat /\ BeforeEnd(es) = SubSeq(es, 1, m)
  BY CutIs, LenProperties
<1>2. \A i \in 1 .. m : es[i] \in S
  BY <1>1, ElementOfSeq
<1>. HIDE DEF m
<1>3. /\ SubSeq(es, 1, m) \in Seq(S)
      /\ Len(SubSeq(es, 1, m)) = IF 1 <= m THEN m - 1 + 1 ELSE 0
      /\ \A i \in 1 .. m - 1 + 1 : SubSeq(es, 1, m)[i] = es[1 + i - 1]
  BY <1>1, <1>2, SubSeqProperties
<1>4. Len(SubSeq(es, 1, m)) = m /\ \A i \in 1 .. m : SubSeq(es, 1, m)[i] = es[i]
  BY <1>1, <1>3
<1>. QED
  BY <1>1, <1>3, <1>4 DEF m

LEMMA BeforeNoEnd ==
  ASSUME NEW S, NEW es \in Seq(S), NoneEnd(es)
  PROVE  BeforeEnd(es) = es
<1>1. Len(es) \in Nat /\ DOMAIN es = 1 .. Len(es)
  BY LenProperties
<1>2. Len(es) \in 0 .. Len(es) /\ \A i \in 1 .. Len(es) : es[i].kind # "end"
  BY <1>1 DEF NoneEnd
<1>3. Cut(es) = Len(es)
  BY <1>1, <1>2, CutUnique
<1>. QED
  BY <1>1, <1>3, BeforeEndIs, SeqEqual

LEMMA BeforeEndAfter ==
  ASSUME NEW S, NEW a \in Seq(S), NEW b \in Seq(S), NoneEnd(a)
  PROVE  BeforeEnd(a \o b) = a \o BeforeEnd(b)
<1> DEFINE n == Len(a)
           m == Len(b)
           ab == a \o b
           k == Cut(b)
<1>1. n \in Nat /\ DOMAIN a = 1 .. n /\ m \in Nat
  BY LenProperties
<1>2. /\ ab \in Seq(S) /\ Len(ab) = n + m
      /\ \A i \in 1 .. n + m : ab[i] = IF i <= n THEN a[i] ELSE b[i - n]
  BY ConcatProperties
<1>3. /\ k \in 0 .. m /\ \A i \in 1 .. k : b[i].kind # "end"
      /\ k < m => b[k + 1].kind = "end"
  BY CutIs
<1>4. \A i \in 1 .. n : a[i].kind # "end"
  BY <1>1 DEF NoneEnd
<1>5. /\ BeforeEnd(b) \in Seq(S) /\ Len(BeforeEnd(b)) = k
      /\ \A i \in 1 .. k : BeforeEnd(b)[i] = b[i]
  BY BeforeEndIs
<1>. HIDE DEF n, m, ab, k
<1>6. Cut(ab) = n + k
  <2>1. n + k \in 0 .. Len(ab)
    BY <1>1, <1>2, <1>3
  <2>2. \A i \in 1 .. n + k : ab[i].kind # "end"
    <3>. SUFFICES ASSUME NEW i \in 1 .. n + k PROVE ab[i].kind # "end"
      OBVIOUS
    <3>1. CASE i <= n
      BY <1>1, <1>2, <1>3, <1>4, <3>1
    <3>2. CASE ~(i <= n)
      <4>1. i - n \in 1 .. k /\ i \in 1 .. n + m
        BY <1>1, <1>3, <3>2
      <4>. QED
        BY <1>2, <1>3, <3>2, <4>1
    <3>. QED
      BY <3>1, <3>2
  <2>3. n + k < Len(ab) => ab[n + k + 1].kind = "end"
    <3>. SUFFICES ASSUME n + k < n + m PROVE ab[n + k + 1].kind = "end"
      BY <1>2
    <3>1. k < m /\ n + k + 1 \in 1 .. n + m /\ ~(n + k + 1 <= n) /\ n + k + 1 - n = k + 1
      BY <1>1, <1>3
    <3> DEFINE j == n + k + 1
    <3>2. j \in 1 .. n + m /\ ~(j <= n) /\ j - n = k + 1
      BY <1>1, <1>3, <3>1
    <3>. HIDE DEF j
    <3>3. ab[j] = b[j - n]
      BY <1>2, <3>2
    <3>4. ab[j].kind = "end"
      BY <1>3, <3>1, <3>2, <3>3
    <3>. QED
      BY <3>4 DEF j
  <2>. QED
    BY <1>2, <2>1, <2>2, <2>3, CutUnique
<1> DEFINE x == BeforeEnd(ab)
           y == BeforeEnd(b)
<1>7. x \in Seq(S) /\ Len(x) = n + k /\ \A i \in 1 .. n + k : x[i] = ab[i]
  BY <1>2, <1>6, BeforeEndIs
<1>. HIDE DEF x, y
<1>8. /\ a \o y \in Seq(S) /\ Len(a \o y) = n + k
      /\ \A i \in 1 .. n + k : (a \o y)[i] = IF i <= n THEN a[i] ELSE y[i - n]
  BY <1>5, ConcatProperties DEF y, n
<1>9. \A i \in 1 .. n + k : x[i] = (a \o y)[i]
  <2>. SUFFICES ASSUME NEW i \in 1 .. n + k PROVE x[i] = (a \o y)[i]
    OBVIOUS
  <2>1. i \in 1 .. n + m
    BY <1>1, <1>3
  <2>2. ~(i <= n) => i - n \in 1 .. k
    BY <1>1, <1>3
  <2>3. \A j \in 1 .. k : y[j] = b[j]
    BY <1>5 DEF y
  <2>. QED
    BY <1>2, <1>7, <1>8, <2>1, <2>2, <2>3
<1>10. x = a \o y
  BY <1>7, <1>8, <1>9, SeqEqual
<1>. QED
  BY <1>10 DEF x, y, ab

LEMMA BeforeEndOfFirst ==
  ASSUME NEW S, NEW a \in Seq(S), NEW b \in Seq(S), ~NoneEnd(a)
  PROVE  BeforeEnd(a \o b) = BeforeEnd(a)
<1> DEFINE n == Len(a)
           m == Len(b)
           ab == a \o b
           k == Cut(a)
<1>1. n \in Nat /\ m \in Nat
  BY LenProperties
<1>2. /\ ab \in Seq(S) /\ Len(ab) = n + m
      /\ \A i \in 1 .. n + m : ab[i] = IF i <= n THEN a[i] ELSE b[i - n]
  BY ConcatProperties
<1>3. /\ k \in 0 .. n /\ k # n /\ \A i \in 1 .. k : a[i].kind # "end"
      /\ a[k + 1].kind = "end"
  <2>1. /\ k \in 0 .. n /\ k # n /\ \A i \in 1 .. k : a[i].kind # "end"
        /\ k < n => a[k + 1].kind = "end"
    BY CutIs
  <2>. QED
    BY <1>1, <2>1
<1>. HIDE DEF n, m, ab, k
<1>4. Cut(ab) = k
  <2>1. /\ k \in 0 .. Len(ab) /\ \A i \in 1 .. k : ab[i].kind # "end"
        /\ ab[k + 1].kind = "end"
    <3>1. k \in 0 .. n + m /\ k + 1 \in 1 .. n + m /\ k + 1 <= n
      BY <1>1, <1>3
    <3>2. \A i \in 1 .. k : i \in 1 .. n + m /\ i <= n
      BY <1>1, <1>3
    <3>3. \A i \in 1 .. k : ab[i] = a[i]
      BY <1>2, <3>2
    <3>. QED
      BY <1>2, <1>3, <3>1, <3>3
  <2>. QED
    BY <1>2, <2>1, CutUnique
<1> DEFINE x == BeforeEnd(ab)
           y == BeforeEnd(a)
<1>5. x \in Seq(S) /\ Len(x) = k /\ \A i \in 1 .. k : x[i] = ab[i]
  BY <1>2, <1>4, BeforeEndIs
<1>6. y \in Seq(S) /\ Len(y) = k /\ \A i \in 1 .. k : y[i] = a[i]
  BY BeforeEndIs DEF k
<1>. HIDE DEF x, y
<1>7. \A i \in 1 .. k : x[i] = y[i]
  <2>. SUFFICES ASSUME NEW i \in 1 .. k PROVE x[i] = y[i]
    OBVIOUS
  <2>1. i \in 1 .. n + m /\ i <= n
    BY <1>1, <1>3
  <2>. QED
    BY <1>2, <1>5, <1>6, <2>1
<1>8. x = y
  BY <1>5, <1>6, <1>7, SeqEqual
<1>. QED
  BY <1>8 DEF x, y, ab
-----------------------------------------------------------------------------
(* Directories: what a scan has seen when it reaches a sector.              *)

LEMMA ConcatThree ==
  ASSUME NEW S, NEW a \in Seq(S), NEW b \in Seq(S), NEW c \in Seq(S)
  PROVE  /\ (a \o b) \o c = a \o (b \o c)
         /\ a \o b \in Seq(S) /\ b \o c \in Seq(S)
  OBVIOUS

Extended(S, a, b) == \E c \in Seq(S) : b = a \o c

LEMMA FlatPrefix ==
  ASSUME NEW S, NEW ss, NEW n \in Nat, Len(ss) = n, \A k \in 1 .. n : ss[k] \in Seq(S),
         NEW k \in 0 .. n
  PROVE  \A m \in k .. n : Extended(S, Flat(ss)[k], Flat(ss)[m])
<1> DEFINE f == Flat(ss)
           Good(i) == \E c \in Seq(S) : f[k + i] = f[k] \o c
           T == {i \in Nat : Good(i)}
<1>1. /\ \A i \in 0 .. n - 1 : f[i + 1] = f[i] \o ss[i + 1]
      /\ \A i \in 0 .. n : f[i] \in Seq(S)
  <2>1. n \in Nat /\ Len(ss) = n /\ \A i \in 1 .. n : ss[i] \in Seq(S)
    OBVIOUS
  <2>. QED
    BY ONLY <2>1, FlatFacts, Zenon
<1>. HIDE DEF f
<1>2. 0 \in T
  <2>1. f[k] \in Seq(S) /\ k + 0 = k
    BY <1>1
  <2>2. f[k] \o <<>> = f[k] /\ <<>> \in Seq(S)
    BY <2>1, ConcatEmptySeq
  <2>. QED
    BY <2>1, <2>2
<1>3. ASSUME NEW i \in 0 .. (n - k) - 1, i \in T PROVE i + 1 \in T
  <2>1. PICK c \in Seq(S) : f[k + i] = f[k] \o c
    BY <1>3
  <2> DEFINE j == k + i
  <2>2. j \in 0 .. n - 1 /\ j + 1 \in 1 .. n /\ k + (i + 1) = j + 1 /\ k \in 0 .. n
    OBVIOUS
  <2>3. f[j] = f[k] \o c
    BY <2>1
  <2>. HIDE DEF j
  <2>4. f[j + 1] = f[j] \o ss[j + 1] /\ f[k] \in Seq(S) /\ ss[j + 1] \in Seq(S)
    BY <1>1, <2>2
  <2>5. (f[k] \o c) \o ss[j + 1] = f[k] \o (c \o ss[j + 1]) /\ c \o ss[j + 1] \in Seq(S)
    <3> DEFINE x == f[k]
               y == ss[j + 1]
    <3>1. x \in Seq(S) /\ y \in Seq(S) /\ c \in Seq(S)
      BY <2>1, <2>4
    <3>. HIDE DEF x, y
    <3>2. (x \o c) \o y = x \o (c \o y) /\ c \o y \in Seq(S)
      BY <3>1
    <3>. QED
      BY <3>2 DEF x, y
  <2>6. f[j + 1] = f[k] \o (c \o ss[j + 1])
    BY <2>3, <2>4, <2>5
  <2>7. Good(i + 1) /\ i + 1 \in Nat
    <3>1. f[k + (i + 1)] = f[k] \o (c \o ss[j + 1])
      BY <2>2, <2>6
    <3>2. \E z \in Seq(S) : f[k + (i + 1)] = f[k] \o z
      BY <2>5, <3>1
    <3>3. i + 1 \in Nat
      OBVIOUS
    <3>. QED
      BY <3>2, <3>3
  <2>. QED
    BY <2>7
<1>4. \A i \in 0 .. n - k : i \in T
  <2>1. n - k \in Nat
    OBVIOUS
  <2>2. \A i \in 0 .. (n - k) - 1 : i \in T => i + 1 \in T
    BY <1>3
  <2> DEFINE m == n - k
  <2>. HIDE DEF m, T
  <2>3. \A i \in 0 .. m : i \in T
    <3>1. m \in Nat /\ \A i \in 0 .. m - 1 : i \in T => i + 1 \in T
      BY <2>1, <2>2 DEF m
    <3>. QED
      BY <1>2, <3>1, NumberInduction
  <2>. QED
    BY <2>3 DEF m
<1>5. ASSUME NEW m \in k .. n PROVE Extended(S, f[k], f[m])
  <2>1. m - k \in 0 .. n - k /\ k + (m - k) = m
    OBVIOUS
  <2>2. Good(m - k)
    BY <1>4, <2>1
  <2>. QED
    BY <2>1, <2>2 DEF Extended
<1>. QED
  BY <1>5 DEF f

DirectorySectors(d) == [i \in DOMAIN SectorsOf(d) |-> Dir[SectorsOf(d)[i]]]
Contents(d) == Flat(DirectorySectors(d))
Listed(d, k) == Kept(Contents(d)[k], AllLive)
NoEnd(d, k) == \A i \in 1 .. k : ~Ended(SectorsOf(d)[i])

(* The sectors of a directory.                                              *)
LEMMA DirSectors ==
  ASSUME NEW d \in DirStarts
  PROVE  /\ Len(SectorsOf(d)) \in Nat /\ 1 <= Len(SectorsOf(d))
         /\ DOMAIN SectorsOf(d) = 1 .. Len(SectorsOf(d))
         /\ \A k \in 1 .. Len(SectorsOf(d)) : SectorsOf(d)[k] \in DOMAIN Dir
         /\ d = 0 => /\ Len(SectorsOf(d)) = RootSectors
                     /\ \A k \in 1 .. RootSectors : SectorsOf(d)[k] = SectorLba(0, k - 1)
         /\ d # 0 => HeadsChain(d)
<1>1. CASE d = 0
  <2> DEFINE ss == SectorsOf(d)
  <2>1. ss = [i \in 1 .. RootSectors |-> SectorLba(0, i - 1)]
    BY <1>1 DEF SectorsOf
  <2>2. RootSectors \in Nat /\ 1 <= RootSectors
    BY SizesPositive
  <2>. HIDE DEF ss
  <2>3. Len(ss) = RootSectors /\ DOMAIN ss = 1 .. RootSectors
    BY <2>1, <2>2
  <2>4. \A k \in 1 .. RootSectors : ss[k] = SectorLba(0, k - 1) /\ k - 1 \in 0 .. RootSectors - 1
    BY <2>1, <2>2
  <2>5. \A k \in 1 .. RootSectors : ss[k] \in DOMAIN Dir
    BY <2>4, RootIsDirectory
  <2>. QED
    BY <1>1, <2>2, <2>3, <2>4, <2>5 DEF ss
<1>2. CASE d # 0
  <2>1. PICK e \in AllEntries : SubDirectory(e) /\ d = e.start
    BY <1>2 DEF DirStarts
  <2>2. HeadsChain(d) /\ Range(SectorsOf(d)) \subseteq DOMAIN Dir
    BY <1>2, <2>1, EntriesAssumption DEF SubDirectory
  <2>3. /\ Len(SectorsOf(d)) \in Nat /\ 1 <= Len(SectorsOf(d))
        /\ DOMAIN SectorsOf(d) = 1 .. Len(SectorsOf(d))
    BY <2>2, ChainSectors
  <2>4. \A k \in 1 .. Len(SectorsOf(d)) : SectorsOf(d)[k] \in DOMAIN Dir
    BY <2>2, <2>3 DEF Range
  <2>. QED
    BY <1>2, <2>2, <2>3, <2>4
<1>. QED
  BY <1>1, <1>2

(* The sequence of the sectors' entries, sector by sector.                  *)
LEMMA ContentsFacts ==
  ASSUME NEW d \in DirStarts, NEW n, n = Len(SectorsOf(d))
  PROVE  /\ n \in Nat /\ 1 <= n
         /\ Contents(d)[0] = <<>>
         /\ \A k \in 0 .. n : Contents(d)[k] \in Seq(AllEntries)
         /\ \A k \in 1 .. n : Dir[SectorsOf(d)[k]] \in Seq(AllEntries)
         /\ \A k \in 0 .. n - 1 : Contents(d)[k + 1] = Contents(d)[k] \o Dir[SectorsOf(d)[k + 1]]
         /\ \A k \in 0 .. n : \A m \in k .. n : Extended(AllEntries, Contents(d)[k], Contents(d)[m])
         /\ FlattenSeq(DirectorySectors(d)) = Contents(d)[n]
<1> DEFINE ss == DirectorySectors(d)
<1>1. /\ n \in Nat /\ 1 <= n /\ DOMAIN SectorsOf(d) = 1 .. n
      /\ \A k \in 1 .. n : SectorsOf(d)[k] \in DOMAIN Dir
  BY DirSectors
<1>2. ss = [i \in 1 .. n |-> Dir[SectorsOf(d)[i]]]
  BY <1>1 DEF DirectorySectors
<1>3. \A k \in 1 .. n : Dir[SectorsOf(d)[k]] \in Seq(AllEntries)
  BY <1>1, DirectoryOnVolume
<1>. HIDE DEF ss
<1>4. /\ Len(ss) = n /\ ss \in Seq(Seq(AllEntries))
      /\ \A k \in 1 .. n : ss[k] = Dir[SectorsOf(d)[k]] /\ ss[k] \in Seq(AllEntries)
  BY <1>1, <1>2, <1>3
<1>5. /\ Flat(ss)[0] = <<>>
      /\ \A k \in 0 .. n - 1 : Flat(ss)[k + 1] = Flat(ss)[k] \o ss[k + 1]
      /\ \A k \in 0 .. n : Flat(ss)[k] \in Seq(AllEntries)
  <2>1. n \in Nat /\ Len(ss) = n /\ \A k \in 1 .. n : ss[k] \in Seq(AllEntries)
    BY <1>1, <1>4
  <2>. QED
    BY ONLY <2>1, FlatFacts, Zenon
<1>6. \A k \in 0 .. n : \A m \in k .. n : Extended(AllEntries, Flat(ss)[k], Flat(ss)[m])
  <2>1. n \in Nat /\ Len(ss) = n /\ \A k \in 1 .. n : ss[k] \in Seq(AllEntries)
    BY <1>1, <1>4
  <2>. SUFFICES ASSUME NEW k \in 0 .. n
                PROVE  \A m \in k .. n : Extended(AllEntries, Flat(ss)[k], Flat(ss)[m])
    OBVIOUS
  <2>2. k \in 0 .. n
    OBVIOUS
  <2>. QED
    BY ONLY <2>1, <2>2, FlatPrefix, Zenon
<1>7. FlattenSeq(ss) = Flat(ss)[n]
  BY ONLY <1>1, <1>4, FlattenIs, Zenon
<1>8. \A k \in 0 .. n - 1 : k + 1 \in 1 .. n
  BY <1>1
<1>9. \A k \in 0 .. n - 1 : Flat(ss)[k + 1] = Flat(ss)[k] \o Dir[SectorsOf(d)[k + 1]]
  BY <1>4, <1>5, <1>8
<1>. QED
  BY <1>1, <1>3, <1>5, <1>6, <1>7, <1>9 DEF ss, Contents

LEMMA SectorLive ==
  ASSUME NEW l \in DOMAIN Dir
  PROVE  /\ LiveEntries(l) = Kept(BeforeEnd(Dir[l]), AllLive)
         /\ LiveEntries(l) \in Seq(AllEntries)
         /\ Ended(l) <=> ~NoneEnd(Dir[l])
         /\ ~Ended(l) => LiveEntries(l) = Kept(Dir[l], AllLive)
<1>1. Dir[l] \in Seq(AllEntries) /\ Entries(l) = Dir[l]
  BY DirectoryOnVolume
<1>2. LiveEntries(l) = Kept(BeforeEnd(Dir[l]), AllLive)
  BY DEF LiveEntries, LiveIn
<1>3. BeforeEnd(Dir[l]) \in Seq(AllEntries)
  BY <1>1, BeforeEndIs
<1>4. LiveEntries(l) \in Seq(AllEntries)
  BY <1>2, <1>3, KeptType
<1>5. Ended(l) <=> ~NoneEnd(Dir[l])
  BY <1>1 DEF Ended, NoneEnd
<1>6. NoneEnd(Dir[l]) => BeforeEnd(Dir[l]) = Dir[l]
  BY <1>1, BeforeNoEnd
<1>. QED
  BY <1>2, <1>4, <1>5, <1>6

LEMMA NoEndNext == 
  ASSUME NEW d, NEW k \in Nat
  PROVE  /\ NoEnd(d, 0)
         /\ NoEnd(d, k + 1) <=> NoEnd(d, k) /\ ~Ended(SectorsOf(d)[k + 1])
<1>1. 1 .. k + 1 = (1 .. k) \cup {k + 1}
  OBVIOUS
<1>. QED
  BY <1>1 DEF NoEnd

LEMMA ContentsNoEnd ==
  ASSUME NEW d \in DirStarts, NEW k \in 0 .. Len(SectorsOf(d)), NoEnd(d, k)
  PROVE  NoneEnd(Contents(d)[k])
<1> DEFINE n == Len(SectorsOf(d))
           C == Contents(d)
           T == {i \in 0 .. n : NoEnd(d, i) => NoneEnd(C[i])}
<1>1. /\ n \in Nat /\ C[0] = <<>>
      /\ \A i \in 0 .. n : C[i] \in Seq(AllEntries)
      /\ \A i \in 1 .. n : Dir[SectorsOf(d)[i]] \in Seq(AllEntries)
      /\ \A i \in 0 .. n - 1 : C[i + 1] = C[i] \o Dir[SectorsOf(d)[i + 1]]
  BY ContentsFacts
<1>2. \A i \in 1 .. n : SectorsOf(d)[i] \in DOMAIN Dir
  BY DirSectors
<1>. HIDE DEF n, C
<1>3. 0 \in T
  <2>1. 0 \in 0 .. n /\ NoneEnd(C[0])
    BY <1>1 DEF NoneEnd
  <2>. QED
    BY <2>1
<1>4. ASSUME NEW i \in 0 .. n - 1, i \in T PROVE i + 1 \in T
  <2>0. i + 1 \in 0 .. n /\ i + 1 \in 1 .. n /\ i \in 0 .. n /\ i \in Nat
    BY <1>1
  <2>1. SUFFICES ASSUME NoEnd(d, i + 1) PROVE NoneEnd(C[i + 1])
    BY <2>0
  <2>2. NoEnd(d, i) /\ ~Ended(SectorsOf(d)[i + 1])
    BY <2>0, <2>1, NoEndNext
  <2>3. NoneEnd(C[i])
    BY <1>4, <2>2
  <2>4. NoneEnd(Dir[SectorsOf(d)[i + 1]])
    BY <1>2, <2>0, <2>2, SectorLive
  <2> DEFINE a == C[i]
             b == Dir[SectorsOf(d)[i + 1]]
  <2>5. a \in Seq(AllEntries) /\ b \in Seq(AllEntries) /\ C[i + 1] = a \o b /\ NoneEnd(a) /\ NoneEnd(b)
    BY <1>1, <2>0, <2>3, <2>4
  <2>. HIDE DEF a, b
  <2>6. NoneEnd(a \o b)
    <3>1. /\ DOMAIN a = 1 .. Len(a) /\ DOMAIN b = 1 .. Len(b) /\ Len(a) \in Nat /\ Len(b) \in Nat
          /\ a \o b \in Seq(AllEntries)
      BY <2>5, LenProperties, ConcatProperties
    <3>2. /\ DOMAIN (a \o b) = 1 .. Len(a) + Len(b)
          /\ \A j \in 1 .. Len(a) + Len(b) : (a \o b)[j] = IF j <= Len(a) THEN a[j] ELSE b[j - Len(a)]
      BY <2>5, <3>1, LenProperties, ConcatProperties
    <3> DEFINE p == Len(a)
               q == Len(b)
    <3>3. /\ p \in Nat /\ q \in Nat /\ \A j \in 1 .. p : a[j].kind # "end"
          /\ \A j \in 1 .. q : b[j].kind # "end"
      BY <2>5, <3>1 DEF NoneEnd
    <3>4. ASSUME NEW j \in 1 .. p + q PROVE (a \o b)[j].kind # "end"
      <4>1. (a \o b)[j] = IF j <= p THEN a[j] ELSE b[j - p]
        BY <3>2
      <4>. HIDE DEF p, q
      <4>2. IF j <= p THEN j \in 1 .. p ELSE j - p \in 1 .. q
        BY <3>3
      <4>. QED
        BY <3>3, <4>1, <4>2
    <3>. QED
      BY <3>2, <3>4 DEF NoneEnd
  <2>. QED
    BY <2>5, <2>6
<1>5. \A i \in 0 .. n : i \in T
  <2>. HIDE DEF T
  <2>1. \A i \in 0 .. n - 1 : i \in T => i + 1 \in T
    BY <1>4
  <2>. QED
    BY <1>1, <1>3, <2>1, NumberInduction
<1>6. k \in T
  BY <1>5 DEF n
<1>. QED
  BY <1>6 DEF C

(* What a scan has listed when it reaches sector k + 1, and what it lists   *)
(* when it stops there.                                                     *)
LEMMA ListedFacts ==
  ASSUME NEW d \in DirStarts, NEW n, n = Len(SectorsOf(d))
  PROVE  /\ Listed(d, 0) = <<>>
         /\ \A k \in 0 .. n : Listed(d, k) \in Seq(AllEntries)
         /\ \A k \in 0 .. n - 1 : LiveEntries(SectorsOf(d)[k + 1]) \in Seq(AllEntries)
         /\ \A k \in 0 .. n - 1 : ~Ended(SectorsOf(d)[k + 1]) =>
              Listed(d, k + 1) = Listed(d, k) \o LiveEntries(SectorsOf(d)[k + 1])
<1>1. /\ n \in Nat /\ Contents(d)[0] = <<>>
      /\ \A i \in 0 .. n : Contents(d)[i] \in Seq(AllEntries)
      /\ \A i \in 1 .. n : Dir[SectorsOf(d)[i]] \in Seq(AllEntries)
      /\ \A i \in 0 .. n - 1 : Contents(d)[i + 1] = Contents(d)[i] \o Dir[SectorsOf(d)[i + 1]]
  BY ContentsFacts
<1>2. Listed(d, 0) = <<>>
  BY <1>1, KeptEmpty DEF Listed
<1>3. \A k \in 0 .. n : Listed(d, k) \in Seq(AllEntries)
  BY <1>1, KeptType DEF Listed
<1>4. ASSUME NEW k \in 0 .. n - 1
      PROVE  /\ LiveEntries(SectorsOf(d)[k + 1]) \in Seq(AllEntries)
             /\ ~Ended(SectorsOf(d)[k + 1]) =>
                  Listed(d, k + 1) = Listed(d, k) \o LiveEntries(SectorsOf(d)[k + 1])
  <2>1. k + 1 \in 1 .. n /\ k \in 0 .. n
    BY <1>1
  <2> DEFINE l == SectorsOf(d)[k + 1]
  <2>2. l \in DOMAIN Dir
    BY <2>1, DirSectors
  <2>3. LiveEntries(l) \in Seq(AllEntries) /\ (~Ended(l) => LiveEntries(l) = Kept(Dir[l], AllLive))
    BY <2>2, SectorLive
  <2> DEFINE a == Contents(d)[k]
             b == Dir[l]
  <2>4. a \in Seq(AllEntries) /\ b \in Seq(AllEntries) /\ Contents(d)[k + 1] = a \o b
    BY <1>1, <2>1
  <2>5. Listed(d, k) = Kept(a, AllLive) /\ Listed(d, k + 1) = Kept(Contents(d)[k + 1], AllLive)
    BY DEF Listed
  <2>. HIDE DEF a, b
  <2>6. Kept(a \o b, AllLive) = Kept(a, AllLive) \o Kept(b, AllLive)
    BY <2>4, KeptConcat
  <2>7. Listed(d, k + 1) = Listed(d, k) \o Kept(b, AllLive)
    BY <2>4, <2>5, <2>6
  <2>. QED
    BY <2>3, <2>7 DEF b
<1>. QED
  BY <1>2, <1>3, <1>4

LEMMA DirectoryIs ==
  ASSUME NEW d \in DirStarts
  PROVE  /\ d # NoDirectory
         /\ Directory[d] = Kept(BeforeEnd(Contents(d)[Len(SectorsOf(d))]), AllLive)
<1>1. d # NoDirectory
  <2>1. d \in Nat
    <3>1. d # 0 => d \in Clusters
      BY DirSectors, ChainFacts
    <3>2. d \in Clusters => d \in Nat
      BY ClusterNumbers
    <3>. QED
      BY <3>1, <3>2
  <2>. QED
    BY <2>1 DEF NoDirectory
<1>2. Directory[d] = Kept(BeforeEnd(FlattenSeq(DirectorySectors(d))), AllLive)
  BY <1>1 DEF Directory, DirectorySectors
<1>3. FlattenSeq(DirectorySectors(d)) = Contents(d)[Len(SectorsOf(d))]
  BY ContentsFacts
<1>. QED
  BY <1>1, <1>2, <1>3

LEMMA DirectoryEnds ==
  ASSUME NEW d \in DirStarts, NEW n, n = Len(SectorsOf(d)), NoEnd(d, n)
  PROVE  Directory[d] = Listed(d, n)
<1>1. n \in 0 .. n /\ Contents(d)[n] \in Seq(AllEntries)
  <2>1. n \in Nat /\ \A k \in 0 .. n : Contents(d)[k] \in Seq(AllEntries)
    BY ContentsFacts
  <2>. QED
    BY <2>1
<1>2. NoneEnd(Contents(d)[n])
  BY <1>1, ContentsNoEnd
<1>3. BeforeEnd(Contents(d)[n]) = Contents(d)[n]
  BY <1>1, <1>2, BeforeNoEnd
<1>. QED
  BY <1>3, DirectoryIs DEF Listed

LEMMA DirectoryFrom ==
  ASSUME NEW d \in DirStarts, NEW n, n = Len(SectorsOf(d)), NEW k \in 0 .. n, NoEnd(d, k)
  PROVE  /\ \E c \in Seq(AllEntries) : Directory[d] = Listed(d, k) \o c
         /\ k < n /\ Ended(SectorsOf(d)[k + 1]) =>
              Directory[d] = Listed(d, k) \o LiveEntries(SectorsOf(d)[k + 1])
<1> DEFINE C == Contents(d)
<1>1. /\ n \in Nat /\ n \in k .. n
      /\ \A i \in 0 .. n : C[i] \in Seq(AllEntries)
      /\ \A i \in 1 .. n : Dir[SectorsOf(d)[i]] \in Seq(AllEntries)
      /\ \A i \in 0 .. n - 1 : C[i + 1] = C[i] \o Dir[SectorsOf(d)[i + 1]]
      /\ \A i \in 0 .. n : \A m \in i .. n : Extended(AllEntries, C[i], C[m])
  <2>1. n \in Nat
    BY ContentsFacts
  <2>2. n \in k .. n
    BY <2>1
  <2>3. \A i \in 0 .. n : \A m \in i .. n : Extended(AllEntries, C[i], C[m])
    BY ContentsFacts
  <2>4. /\ \A i \in 0 .. n : C[i] \in Seq(AllEntries)
        /\ \A i \in 1 .. n : Dir[SectorsOf(d)[i]] \in Seq(AllEntries)
        /\ \A i \in 0 .. n - 1 : C[i + 1] = C[i] \o Dir[SectorsOf(d)[i + 1]]
    BY ContentsFacts
  <2>. QED
    BY <2>1, <2>2, <2>3, <2>4, Zenon
<1>2. NoneEnd(C[k])
  BY ContentsNoEnd
<1>3. Directory[d] = Kept(BeforeEnd(C[n]), AllLive) /\ Listed(d, k) = Kept(C[k], AllLive)
  BY DirectoryIs DEF Listed
<1>. HIDE DEF C
<1>4. PICK b \in Seq(AllEntries) : C[n] = C[k] \o b
  <2>1. Extended(AllEntries, C[k], C[n])
    BY <1>1
  <2>. QED
    BY <2>1 DEF Extended
<1> DEFINE a == C[k]
<1>5. a \in Seq(AllEntries) /\ NoneEnd(a) /\ C[n] = a \o b /\ Listed(d, k) = Kept(a, AllLive)
  BY <1>1, <1>2, <1>3, <1>4
<1>. HIDE DEF a
<1>6. BeforeEnd(b) \in Seq(AllEntries) /\ Kept(BeforeEnd(b), AllLive) \in Seq(AllEntries)
  BY BeforeEndIs, KeptType
<1>7. Directory[d] = Listed(d, k) \o Kept(BeforeEnd(b), AllLive)
  <2>1. BeforeEnd(a \o b) = a \o BeforeEnd(b)
    BY <1>5, BeforeEndAfter
  <2>2. Kept(a \o BeforeEnd(b), AllLive) = Kept(a, AllLive) \o Kept(BeforeEnd(b), AllLive)
    BY <1>5, <1>6, KeptConcat
  <2>. QED
    BY <1>3, <1>5, <2>1, <2>2
<1>8. ASSUME k < n, Ended(SectorsOf(d)[k + 1])
      PROVE  Kept(BeforeEnd(b), AllLive) = LiveEntries(SectorsOf(d)[k + 1])
  <2> DEFINE l == SectorsOf(d)[k + 1]
             s == Dir[l]
  <2>1. k + 1 \in 0 .. n /\ k + 1 \in 1 .. n /\ k \in 0 .. n - 1 /\ n \in k + 1 .. n
    BY <1>1, <1>8
  <2>2. l \in DOMAIN Dir
    BY <2>1, DirSectors
  <2>3. ~NoneEnd(s) /\ LiveEntries(l) = Kept(BeforeEnd(s), AllLive)
    BY <1>8, <2>2, SectorLive
  <2>4. s \in Seq(AllEntries) /\ C[k + 1] = a \o s
    BY <1>1, <2>1 DEF a
  <2>5. PICK c \in Seq(AllEntries) : C[n] = C[k + 1] \o c
    <3>1. Extended(AllEntries, C[k + 1], C[n])
      BY <1>1, <2>1
    <3>. QED
      BY <3>1 DEF Extended
  <2>. HIDE DEF s
  <2>6. a \o b = a \o (s \o c) /\ s \o c \in Seq(AllEntries)
    <3>1. a \in Seq(AllEntries) /\ s \in Seq(AllEntries) /\ c \in Seq(AllEntries)
      BY <1>5, <2>4, <2>5
    <3>2. (a \o s) \o c = a \o (s \o c) /\ s \o c \in Seq(AllEntries)
      BY ONLY <3>1
    <3>3. a \o b = (a \o s) \o c
      BY <1>5, <2>4, <2>5
    <3>. QED
      BY <3>2, <3>3
  <2>7. b = s \o c
    BY <1>5, <2>6, ConcatSimplifications
  <2>8. BeforeEnd(b) = BeforeEnd(s)
    BY <2>3, <2>4, <2>5, <2>7, BeforeEndOfFirst
  <2>. QED
    BY <2>3, <2>8
<1>. QED
  BY <1>6, <1>7, <1>8
-----------------------------------------------------------------------------
(* The record of a call, and how the operators change it.                   *)

Fields ==
  {"op", "path", "base", "offset", "size", "pc", "next", "task", "todo", "dir", "name", "kind", "up",
   "c", "s", "j", "stack", "skip", "at", "left", "local", "result", "entry", "out"}

IsCall(r) == DOMAIN r = Fields

\* q is a call that differs from r in the fields fs only.
But(fs, r, q) == IsCall(q) /\ \A f \in Fields \ fs : q[f] = r[f]

LEMMA DoneIs ==
  ASSUME NEW r, IsCall(r), NEW result, NEW q, q = Done(r, result)
  PROVE  q.pc = "done" /\ q.result = result /\ But({"pc", "result"}, r, q)
  BY DEF Done, IsCall, But, Fields

LEMMA ScanIs ==
  ASSUME NEW r, IsCall(r), NEW task, NEW c, NEW s, NEW q, q = Scan(r, task, c, s)
  PROVE  /\ q.task = task /\ q.c = c /\ q.s = s /\ q.j = 1 /\ q.pc = "seek" /\ q.next = "scan"
         /\ But({"task", "c", "s", "j", "pc", "next"}, r, q)
  BY DEF Scan, IsCall, But, Fields

LEMMA FatNextClusterIs ==
  ASSUME NEW r, IsCall(r), NEW q, q = FatNextCluster(r)
  PROVE  q.pc = "seek" /\ q.next = "chain" /\ But({"pc", "next"}, r, q)
  BY DEF FatNextCluster, IsCall, But, Fields

LEMMA FindIs ==
  ASSUME NEW r, IsCall(r), NEW c, NEW name, NEW kind, NEW up, NEW q, q = Find(r, c, name, kind, up)
  PROVE  /\ q.name = name /\ q.kind = kind /\ q.up = up /\ q.task = "find" /\ q.c = c /\ q.s = 0
         /\ q.j = 1 /\ q.pc = "seek" /\ q.next = "scan"
         /\ But({"name", "kind", "up", "task", "c", "s", "j", "pc", "next"}, r, q)
<1> DEFINE m == [r EXCEPT !.name = name, !.kind = kind, !.up = up]
<1>1. /\ IsCall(m) /\ m.name = name /\ m.kind = kind /\ m.up = up
      /\ But({"name", "kind", "up"}, r, m)
  BY DEF IsCall, But, Fields
<1>2. q = Scan(m, "find", c, 0)
  BY DEF Find
<1>. HIDE DEF m
<1>3. /\ q.task = "find" /\ q.c = c /\ q.s = 0 /\ q.j = 1 /\ q.pc = "seek" /\ q.next = "scan"
      /\ But({"task", "c", "s", "j", "pc", "next"}, m, q)
  BY <1>1, <1>2, ScanIs
<1>. QED
  BY <1>1, <1>3 DEF But, Fields

LEMMA EnterIs ==
  ASSUME NEW r, IsCall(r), NEW dir, NEW q, q = Enter(r, dir)
  PROVE  q.dir = dir /\ q.pc = "path" /\ But({"dir", "pc"}, r, q)
  BY DEF Enter, IsCall, But, Fields
-----------------------------------------------------------------------------
(* Where a scan is: about to treat sector k + 1 of the directory d, which   *)
(* is sector s of cluster c, and no end mark was seen before it; or past    *)
(* the last sector of c, after k sectors.                                   *)

Cluster(d, c, i) == d # 0 /\ i \in 0 .. ChainLength(d) - 1 /\ c = ClusterAt(d, i)

Spot(d, c, s, k) ==
  /\ d \in DirStarts /\ NoEnd(d, k) /\ s \in Nat
  /\ k \in 0 .. Len(SectorsOf(d)) - 1
  /\ SectorsOf(d)[k + 1] = SectorLba(c, s)
  /\ IF d = 0 THEN c = 0 /\ k = s
     ELSE \E i : Cluster(d, c, i) /\ s \in 0 .. SectorsPerCluster - 1 /\ k = i * SectorsPerCluster + s

Past(d, c, k) ==
  /\ d \in DirStarts /\ NoEnd(d, k) /\ k \in 1 .. Len(SectorsOf(d))
  /\ \E i : Cluster(d, c, i) /\ k = (i + 1) * SectorsPerCluster

LEMMA ChainIn ==
  ASSUME NEW d, HeadsChain(d), NEW c, NEW i, Cluster(d, c, i)
  PROVE  /\ c \in Clusters /\ i \in Nat /\ c # 0
         /\ IF i + 1 < ChainLength(d)
              THEN /\ Fat[c] = ClusterAt(d, i + 1) /\ Fat[c] < EndMark /\ Fat[c] >= 2
                   /\ Cluster(d, Fat[c], i + 1)
              ELSE Fat[c] = 65535 /\ i + 1 = ChainLength(d)
<1> DEFINE n == ChainLength(d)
<1>2. /\ n \in Nat /\ i \in 0 .. n - 1 /\ c = ClusterAt(d, i)
      /\ \A j \in 0 .. n - 1 : ClusterAt(d, j) \in Clusters
      /\ \A j \in 0 .. n - 1 :
              IF j + 1 < n
                THEN /\ Fat[ClusterAt(d, j)] = ClusterAt(d, j + 1)
                     /\ ClusterAt(d, j + 1) < EndMark /\ ClusterAt(d, j + 1) >= 2
                ELSE Fat[ClusterAt(d, j)] = 65535
  BY ChainFacts DEF Cluster
<1>3. c \in Clusters
  BY <1>2
<1>4. c # 0
  BY <1>3, ClusterNumbers
<1>5. d # 0
  BY DEF Cluster
<1>. HIDE DEF n
<1>6. i \in Nat /\ (i + 1 < n => i + 1 \in 0 .. n - 1) /\ (~(i + 1 < n) => i + 1 = n)
  BY <1>2
<1>7. i + 1 < n => Fat[c] = ClusterAt(d, i + 1) /\ Fat[c] < EndMark /\ Fat[c] >= 2
  BY <1>2
<1>8. ~(i + 1 < n) => Fat[c] = 65535
  BY <1>2
<1>. QED
  BY <1>3, <1>4, <1>5, <1>6, <1>7, <1>8 DEF Cluster, n

LEMMA ClusterIn ==
  ASSUME NEW d \in DirStarts, NEW c, NEW i, Cluster(d, c, i)
  PROVE  /\ c \in Clusters /\ i \in Nat /\ c # 0
         /\ IF i + 1 < ChainLength(d)
              THEN /\ Fat[c] = ClusterAt(d, i + 1) /\ Fat[c] < EndMark /\ Fat[c] >= 2
                   /\ Cluster(d, Fat[c], i + 1)
              ELSE Fat[c] = 65535 /\ i + 1 = ChainLength(d)
<1>1. HeadsChain(d)
  BY DirSectors DEF Cluster
<1>. QED
  BY <1>1, ChainIn

LEMMA SpotStart ==
  ASSUME NEW d \in DirStarts
  PROVE  Spot(d, d, 0, 0)
<1>1. NoEnd(d, 0)
  BY NoEndNext
<1>2. /\ Len(SectorsOf(d)) \in Nat /\ 1 <= Len(SectorsOf(d))
      /\ d = 0 => SectorsOf(d)[1] = SectorLba(0, 0)
  <2>1. 1 - 1 = 0 /\ 1 \in 1 .. RootSectors
    BY SizesPositive
  <2>. QED
    BY <2>1, DirSectors
<1>3. 0 \in 0 .. Len(SectorsOf(d)) - 1 /\ 0 + 1 = 1
  BY <1>2
<1>4. CASE d = 0
  BY <1>1, <1>2, <1>3, <1>4 DEF Spot
<1>5. CASE d # 0
  <2>1. HeadsChain(d)
    BY <1>5, DirSectors
  <2>2. ChainLength(d) \in Nat /\ 1 <= ChainLength(d)
    BY <2>1, ChainFacts
  <2>3. 0 \in 0 .. ChainLength(d) - 1 /\ 0 \in 0 .. SectorsPerCluster - 1
        /\ 0 * SectorsPerCluster + 0 = 0 /\ 0 * SectorsPerCluster + 0 + 1 = 1
    BY <2>2, SizesPositive
  <2>4. SectorsOf(d)[0 * SectorsPerCluster + 0 + 1] = SectorLba(ClusterAt(d, 0), 0)
    BY <2>1, <2>3, ChainSectors
  <2>5. ClusterAt(d, 0) = d
    BY ClusterAtZero
  <2>6. SectorsOf(d)[1] = SectorLba(d, 0) /\ Cluster(d, d, 0)
    BY <1>5, <2>3, <2>4, <2>5 DEF Cluster
  <2>. QED
    BY <1>1, <1>3, <1>5, <2>3, <2>6 DEF Spot
<1>. QED
  BY <1>4, <1>5

LEMMA SpotSector ==
  ASSUME NEW d, NEW c, NEW s, NEW k, Spot(d, c, s, k)
  PROVE  /\ SectorLba(c, s) \in DOMAIN Dir /\ SectorsOf(d)[k + 1] = SectorLba(c, s)
         /\ d \in DirStarts /\ k \in Nat /\ k < Len(SectorsOf(d)) /\ s \in Nat /\ NoEnd(d, k)
         /\ c = 0 <=> d = 0
         /\ k + 1 \in 1 .. Len(SectorsOf(d)) /\ k \in 0 .. Len(SectorsOf(d)) - 1
         /\ k \in 0 .. Len(SectorsOf(d))
<1>1. /\ d \in DirStarts /\ NoEnd(d, k) /\ s \in Nat /\ k \in 0 .. Len(SectorsOf(d)) - 1
      /\ SectorsOf(d)[k + 1] = SectorLba(c, s)
  BY DEF Spot
<1>2. /\ Len(SectorsOf(d)) \in Nat
      /\ \A j \in 1 .. Len(SectorsOf(d)) : SectorsOf(d)[j] \in DOMAIN Dir
  BY <1>1, DirSectors
<1>3. /\ k + 1 \in 1 .. Len(SectorsOf(d)) /\ k \in Nat /\ k < Len(SectorsOf(d))
      /\ k \in 0 .. Len(SectorsOf(d))
  BY <1>1, <1>2
<1>4. SectorLba(c, s) \in DOMAIN Dir
  BY <1>1, <1>2, <1>3
<1>5. c = 0 <=> d = 0
  BY <1>1, ClusterIn DEF Spot
<1>. QED
  BY <1>1, <1>3, <1>4, <1>5

LEMMA SpotNext ==
  ASSUME NEW d, NEW c, NEW s, NEW k, Spot(d, c, s, k), ~Ended(SectorLba(c, s)),
         s + 1 < IF c # 0 THEN SectorsPerCluster ELSE RootSectors
  PROVE  Spot(d, c, s + 1, k + 1)
<1>1. /\ d \in DirStarts /\ k \in Nat /\ s \in Nat /\ NoEnd(d, k + 1) /\ (c = 0 <=> d = 0)
      /\ k < Len(SectorsOf(d))
  BY SpotSector, NoEndNext
<1>2. CASE d = 0
  <2>1. c = 0 /\ k = s /\ s + 1 < RootSectors
    BY <1>1, <1>2 DEF Spot
  <2>2. /\ Len(SectorsOf(d)) = RootSectors
        /\ \A j \in 1 .. RootSectors : SectorsOf(d)[j] = SectorLba(0, j - 1)
    BY <1>1, <1>2, DirSectors
  <2>3. k + 1 \in 0 .. RootSectors - 1 /\ k + 1 + 1 \in 1 .. RootSectors /\ (k + 1 + 1) - 1 = s + 1 /\ s + 1 \in Nat
    BY <1>1, <2>1, SizesPositive
  <2>4. SectorsOf(d)[k + 1 + 1] = SectorLba(0, s + 1)
    BY <2>2, <2>3
  <2>. QED
    BY <1>1, <1>2, <2>1, <2>2, <2>3, <2>4 DEF Spot
<1>3. CASE d # 0
  <2>1. PICK i : Cluster(d, c, i) /\ s \in 0 .. SectorsPerCluster - 1 /\ k = i * SectorsPerCluster + s
    BY <1>3 DEF Spot
  <2>2. i \in Nat /\ c # 0 /\ i \in 0 .. ChainLength(d) - 1 /\ c = ClusterAt(d, i)
    BY <1>1, <2>1, ClusterIn DEF Cluster
  <2>3. s + 1 \in 0 .. SectorsPerCluster - 1 /\ s + 1 \in Nat
    BY <1>1, <2>2, SizesPositive
  <2>4. HeadsChain(d)
    BY <1>1, <1>3, DirSectors
  <2>5. /\ i * SectorsPerCluster + (s + 1) \in 0 .. Len(SectorsOf(d)) - 1
        /\ SectorsOf(d)[i * SectorsPerCluster + (s + 1) + 1] = SectorLba(c, s + 1)
    BY <2>2, <2>3, <2>4, ChainSectors
  <2> DEFINE p == i * SectorsPerCluster
  <2>6. p \in Nat
    BY <2>2, SizesPositive, Products
  <2>7. k + 1 = p + (s + 1)
    BY <1>1, <2>1, <2>6
  <2>8. k + 1 \in 0 .. Len(SectorsOf(d)) - 1 /\ SectorsOf(d)[k + 1 + 1] = SectorLba(c, s + 1)
    BY <2>5, <2>7
  <2>. QED
    BY <1>1, <1>3, <2>1, <2>3, <2>7, <2>8 DEF Spot
<1>. QED
  BY <1>2, <1>3

\* The last sector of the root directory, or of a cluster.
LEMMA SpotLast ==
  ASSUME NEW d, NEW c, NEW s, NEW k, Spot(d, c, s, k), ~Ended(SectorLba(c, s)),
         ~(s + 1 < IF c # 0 THEN SectorsPerCluster ELSE RootSectors)
  PROVE  IF c = 0 THEN NoEnd(d, Len(SectorsOf(d))) /\ k + 1 = Len(SectorsOf(d)) ELSE Past(d, c, k + 1)
<1>1. /\ d \in DirStarts /\ k \in Nat /\ s \in Nat /\ NoEnd(d, k + 1) /\ (c = 0 <=> d = 0)
      /\ k < Len(SectorsOf(d)) /\ k + 1 \in 1 .. Len(SectorsOf(d))
  <2>1. /\ d \in DirStarts /\ k \in Nat /\ s \in Nat /\ NoEnd(d, k) /\ (c = 0 <=> d = 0)
        /\ k < Len(SectorsOf(d)) /\ k + 1 \in 1 .. Len(SectorsOf(d))
        /\ ~Ended(SectorsOf(d)[k + 1])
    BY SpotSector
  <2>2. NoEnd(d, k + 1)
    BY <2>1, NoEndNext
  <2>. QED
    BY <2>1, <2>2
<1>2. CASE d = 0
  <2>1. c = 0 /\ k = s /\ ~(s + 1 < RootSectors)
    BY <1>1, <1>2 DEF Spot
  <2>2. Len(SectorsOf(d)) = RootSectors
    BY <1>1, <1>2, DirSectors
  <2>3. k + 1 = RootSectors
    BY <1>1, <2>1, <2>2, SizesPositive
  <2>. QED
    BY <1>1, <2>1, <2>2, <2>3
<1>3. CASE d # 0
  <2>1. PICK i : Cluster(d, c, i) /\ s \in 0 .. SectorsPerCluster - 1 /\ k = i * SectorsPerCluster + s
    BY <1>3 DEF Spot
  <2>2. i \in Nat /\ s + 1 = SectorsPerCluster /\ c # 0
    BY <1>1, <1>3, <2>1, ClusterIn, SizesPositive
  <2> DEFINE p == i * SectorsPerCluster
  <2>3. p \in Nat /\ (i + 1) * SectorsPerCluster = p + SectorsPerCluster
    BY <2>2, SizesPositive, Products
  <2>4. k + 1 = (i + 1) * SectorsPerCluster
    BY <1>1, <2>1, <2>2, <2>3
  <2>. QED
    BY <1>1, <2>1, <2>2, <2>4 DEF Past
<1>. QED
  BY <1>2, <1>3

LEMMA PastNext ==
  ASSUME NEW d, NEW c, NEW k, Past(d, c, k)
  PROVE  /\ c \in Clusters /\ d \in DirStarts /\ NoEnd(d, k) /\ d # 0
         /\ k \in 0 .. Len(SectorsOf(d))
         /\ IF Fat[c] < EndMark THEN Fat[c] >= 2 /\ Spot(d, Fat[c], 0, k)
            ELSE k = Len(SectorsOf(d)) /\ NoEnd(d, Len(SectorsOf(d)))
<1>1. /\ d \in DirStarts /\ NoEnd(d, k) /\ k \in 1 .. Len(SectorsOf(d))
  BY DEF Past
<1>2. PICK i : Cluster(d, c, i) /\ k = (i + 1) * SectorsPerCluster
  BY DEF Past
<1>3. /\ c \in Clusters /\ i \in Nat /\ c # 0 /\ d # 0
      /\ IF i + 1 < ChainLength(d)
              THEN /\ Fat[c] = ClusterAt(d, i + 1) /\ Fat[c] < EndMark /\ Fat[c] >= 2
                   /\ Cluster(d, Fat[c], i + 1)
              ELSE Fat[c] = 65535 /\ i + 1 = ChainLength(d)
  BY <1>1, <1>2, ClusterIn DEF Cluster
<1>4. HeadsChain(d)
  BY <1>1, <1>3, DirSectors
<1>5. k \in 0 .. Len(SectorsOf(d)) /\ k \in Nat /\ Len(SectorsOf(d)) \in Nat
  BY <1>1, DirSectors
<1>6. CASE i + 1 < ChainLength(d)
  <2>1. i + 1 \in 0 .. ChainLength(d) - 1 /\ 0 \in 0 .. SectorsPerCluster - 1
    BY <1>3, <1>4, <1>6, ChainFacts, SizesPositive
  <2>2. /\ (i + 1) * SectorsPerCluster + 0 \in 0 .. Len(SectorsOf(d)) - 1
        /\ SectorsOf(d)[(i + 1) * SectorsPerCluster + 0 + 1] = SectorLba(ClusterAt(d, i + 1), 0)
    BY <1>4, <2>1, ChainSectors
  <2>3. k = (i + 1) * SectorsPerCluster + 0
    BY <1>2, <1>5
  <2>4. Fat[c] = ClusterAt(d, i + 1) /\ Fat[c] < EndMark /\ Fat[c] >= 2 /\ Cluster(d, Fat[c], i + 1)
    BY <1>3, <1>6
  <2>5. k \in 0 .. Len(SectorsOf(d)) - 1 /\ SectorsOf(d)[k + 1] = SectorLba(Fat[c], 0)
    BY <2>2, <2>3, <2>4
  <2>. QED
    BY <1>1, <1>3, <1>5, <2>1, <2>3, <2>4, <2>5 DEF Spot
<1>7. CASE ~(i + 1 < ChainLength(d))
  <2>1. Fat[c] = 65535 /\ i + 1 = ChainLength(d)
    BY <1>3, <1>7
  <2>2. Len(SectorsOf(d)) = ChainLength(d) * SectorsPerCluster
    BY <1>4, ChainSectors
  <2>3. k = Len(SectorsOf(d))
    BY <1>2, <2>1, <2>2
  <2>. QED
    BY <1>1, <1>3, <1>5, <2>1, <2>3 DEF EndMark
<1>. QED
  BY <1>6, <1>7

(* A directory's entries, and the directories they start.                   *)
LEMMA EntriesAreLive ==
  ASSUME NEW d \in DirStarts, NEW e \in EntriesOf(d)
  PROVE  e \in AllEntries /\ e.kind \in {"dir", "file"}
<1> DEFINE es == BeforeEnd(Contents(d)[Len(SectorsOf(d))])
<1>1. Contents(d)[Len(SectorsOf(d))] \in Seq(AllEntries)
  <2>1. Len(SectorsOf(d)) \in Nat /\ \A k \in 0 .. Len(SectorsOf(d)) : Contents(d)[k] \in Seq(AllEntries)
    BY ContentsFacts
  <2>2. Len(SectorsOf(d)) \in 0 .. Len(SectorsOf(d))
    BY <2>1
  <2>. QED
    BY <2>1, <2>2
<1>2. es \in Seq(AllEntries)
  BY <1>1, BeforeEndIs
<1>. HIDE DEF es
<1>3. Range(Kept(es, AllLive)) = Range(es) \cap AllLive
  BY <1>2, KeptType
<1>4. e \in AllLive
  BY <1>3, DirectoryIs DEF EntriesOf, es
<1>. QED
  BY <1>4 DEF AllLive, Live

LEMMA EntryStarts ==
  ASSUME NEW e \in AllEntries, e.kind = "dir"
  PROVE  /\ e.start \in DirStarts /\ ClusterOf(e) = e.start
         /\ e.start # 0 => SubDirectory(e)
<1>1. e.start = 0 \/ HeadsChain(e.start)
  BY EntriesAssumption
<1>2. e.start # 0 => e.start >= 2
  BY <1>1, ChainFacts
<1>3. e.start # 0 => SubDirectory(e)
  BY <1>2 DEF SubDirectory
<1>4. e.start \in Nat
  BY VolumeAssumption
<1>5. ClusterOf(e) = e.start
  BY <1>2, <1>4 DEF ClusterOf
<1>. QED
  BY <1>3, <1>5 DEF DirStarts
-----------------------------------------------------------------------------
(* Follow, one component at a time.                                         *)

FollowStep(d, f) ==
  IF f = <<".">> \/ (d = 0 /\ f = DotDot) THEN d
  ELSE LET found == Named(d, f, "dir")
       IN  IF found = {} THEN NoDirectory ELSE (CHOOSE e \in found : TRUE).start

FollowBody(start, path, g) ==
  [i \in 0 .. Len(path) |-> IF i = 0 THEN start ELSE FollowStep(g[i - 1], path[i])]
FollowRun(start, path) == CHOOSE g : g = FollowBody(start, path, g)

LEMMA FollowIs ==
  ASSUME NEW start, NEW path, Len(path) \in Nat
  PROVE  /\ FollowRun(start, path) = FollowBody(start, path, FollowRun(start, path))
         /\ Follow(start, path) = FollowRun(start, path)[Len(path)]
<1> DEFINE n == Len(path)
           Next0(i, v) == FollowStep(v, path[i])
           Good(m) == \E g : g = [i \in 0 .. m |-> IF i = 0 THEN start ELSE Next0(i, g[i - 1])]
           T == {m \in Nat : Good(m)}
<1>1. 0 \in T
  <2>. HIDE DEF Next0
  <2>1. [k \in 0 .. 0 |-> start] = [k \in 0 .. 0 |-> IF k = 0 THEN start ELSE Next0(k, [j \in 0 .. 0 |-> start][k - 1])]
    OBVIOUS
  <2>2. Good(0)
    BY <2>1
  <2>. QED
    BY <2>2
<1>2. ASSUME NEW m \in 0 .. n - 1, m \in T PROVE m + 1 \in T
  <2>. HIDE DEF Next0
  <2>1. PICK f : f = [i \in 0 .. m |-> IF i = 0 THEN start ELSE Next0(i, f[i - 1])]
    BY <1>2
  <2> DEFINE g == [i \in 0 .. m + 1 |-> IF i = m + 1 THEN Next0(m + 1, f[m]) ELSE f[i]]
  <2>2. ASSUME NEW i \in 0 .. m + 1
        PROVE  g[i] = IF i = 0 THEN start ELSE Next0(i, g[i - 1])
    <3>1. m \in Nat
      BY <1>2
    <3>2. CASE i = m + 1
      <4>1. g[i] = Next0(m + 1, f[m]) /\ g[i - 1] = f[m] /\ i # 0
        BY <3>1, <3>2
      <4>. HIDE DEF g
      <4>. QED
        BY <3>2, <4>1
    <3>3. CASE i \in 0 .. m
      <4>1. g[i] = f[i] /\ (i # 0 => g[i - 1] = f[i - 1])
        BY <3>1, <3>3
      <4>2. f[i] = IF i = 0 THEN start ELSE Next0(i, f[i - 1])
        BY <2>1, <3>3
      <4>. HIDE DEF g
      <4>. QED
        BY <4>1, <4>2
    <3>. QED
      BY <3>1, <3>2, <3>3
  <2>3. g = [i \in 0 .. m + 1 |-> IF i = 0 THEN start ELSE Next0(i, g[i - 1])]
    BY <2>2
  <2>4. Good(m + 1) /\ m + 1 \in Nat
    <3>. HIDE DEF g
    <3>. QED
      BY <2>3, <1>2
  <2>. QED
    BY <2>4
<1>3. n \in 0 .. n /\ n \in Nat
  OBVIOUS
<1>4. n \in T
  <2>. HIDE DEF T
  <2>1. \A m \in 0 .. n - 1 : m \in T => m + 1 \in T
    BY <1>2
  <2>. HIDE DEF n
  <2>. QED
    BY <1>1, <1>3, <2>1, NumberInduction
<1>5. \E g : g = FollowBody(start, path, g)
  BY <1>4 DEF FollowBody
<1>6. FollowRun(start, path) = FollowBody(start, path, FollowRun(start, path))
  BY <1>5, Zenon DEF FollowRun
<1>7. Follow(start, path) = FollowRun(start, path)[Len(path)]
  BY DEF Follow, FollowRun, FollowBody, FollowStep
<1>. QED
  BY <1>6, <1>7

LEMMA FollowPrefix ==
  ASSUME NEW start, NEW S, NEW path \in Seq(S), NEW k \in 0 .. Len(path)
  PROVE  Follow(start, SubSeq(path, 1, k)) = FollowRun(start, path)[k]
<1> DEFINE n == Len(path)
           part == SubSeq(path, 1, k)
           f == FollowRun(start, part)
           g == FollowRun(start, path)
           T == {i \in 0 .. k : f[i] = g[i]}
<1>1. n \in Nat /\ k \in Nat /\ k <= n /\ k \in Int
  BY LenProperties
<1>2. Len(part) = k /\ \A i \in 1 .. k : part[i] = path[i]
  <2>1. \A i \in 1 .. k : path[i] \in S
    BY <1>1, ElementOfSeq
  <2>2. /\ Len(part) = IF 1 <= k THEN k - 1 + 1 ELSE 0
        /\ \A i \in 1 .. k - 1 + 1 : part[i] = path[1 + i - 1]
    BY <1>1, <2>1, SubSeqProperties
  <2>. HIDE DEF part, n
  <2>. QED
    BY <1>1, <2>2
<1>. HIDE DEF part, n
<1>3. /\ f = [i \in 0 .. k |-> IF i = 0 THEN start ELSE FollowStep(f[i - 1], part[i])]
      /\ Follow(start, part) = f[k]
  BY <1>1, <1>2, FollowIs DEF FollowBody
<1>4. g = [i \in 0 .. n |-> IF i = 0 THEN start ELSE FollowStep(g[i - 1], path[i])]
  BY <1>1, FollowIs DEF FollowBody, n
<1>. HIDE DEF f, g
<1>5. 0 \in T
  BY <1>1, <1>3, <1>4
<1>6. ASSUME NEW i \in 0 .. k - 1, i \in T PROVE i + 1 \in T
  <2>1. i + 1 \in 0 .. k /\ i + 1 \in 0 .. n /\ i + 1 # 0 /\ (i + 1) - 1 = i /\ f[i] = g[i] /\ i + 1 \in 1 .. k
    BY <1>1, <1>6
  <2>2. f[i + 1] = FollowStep(f[i], part[i + 1]) /\ g[i + 1] = FollowStep(g[i], path[i + 1])
    BY <1>3, <1>4, <2>1
  <2>3. part[i + 1] = path[i + 1]
    BY <1>2, <2>1
  <2>. QED
    BY <2>1, <2>2, <2>3
<1>7. k \in T
  <2>. HIDE DEF T
  <2>1. \A i \in 0 .. k - 1 : i \in T => i + 1 \in T
    BY <1>6
  <2>2. k \in 0 .. k
    BY <1>1
  <2>. QED
    BY <1>1, <1>5, <2>1, <2>2, NumberInduction
<1>. QED
  BY <1>3, <1>7 DEF part, g

\* Where the first k components of a path lead.
Along(start, path, k) == Follow(start, SubSeq(path, 1, k))

LEMMA FollowFacts ==
  ASSUME NEW start, NEW S, NEW path \in Seq(S)
  PROVE  /\ Len(path) \in Nat /\ Along(start, path, 0) = start
         /\ Follow(start, path) = Along(start, path, Len(path))
         /\ Follow(start, Front(path)) = Along(start, path, Len(path) - 1)
<1> DEFINE g == FollowRun(start, path)
           n == Len(path)
<1>1. n \in Nat /\ 0 \in 0 .. n
  BY LenProperties
<1>2. g = [i \in 0 .. n |-> IF i = 0 THEN start ELSE FollowStep(g[i - 1], path[i])]
  BY <1>1, FollowIs DEF FollowBody
<1>. HIDE DEF g
<1>3. Along(start, path, 0) = g[0]
  BY <1>1, FollowPrefix DEF g, Along
<1>4. Follow(start, path) = Along(start, path, n)
  BY SubSeqFull DEF Along
<1>5. Follow(start, Front(path)) = Along(start, path, n - 1)
  BY DEF Front, Along
<1>. QED
  BY <1>1, <1>2, <1>3, <1>4, <1>5

LEMMA FollowNext ==
  ASSUME NEW start, NEW S, NEW path \in Seq(S), NEW k \in 1 .. Len(path)
  PROVE  Along(start, path, k) = FollowStep(Along(start, path, k - 1), path[k])
<1> DEFINE g == FollowRun(start, path)
           n == Len(path)
<1>1. n \in Nat /\ k \in 0 .. n /\ k - 1 \in 0 .. n /\ k # 0
  BY LenProperties
<1>2. g = [i \in 0 .. n |-> IF i = 0 THEN start ELSE FollowStep(g[i - 1], path[i])]
  BY <1>1, FollowIs DEF FollowBody
<1>. HIDE DEF g
<1>3. Along(start, path, k) = g[k] /\ Along(start, path, k - 1) = g[k - 1]
  BY <1>1, FollowPrefix DEF g, Along
<1>4. g[k] = FollowStep(g[k - 1], path[k])
  BY <1>1, <1>2
<1>. QED
  BY <1>3, <1>4

LEMMA NowhereIsEmpty == EntriesOf(NoDirectory) = {} /\ NoDirectory \notin DirStarts
<1>1. Directory[NoDirectory] = <<>>
  BY DEF Directory
<1>2. NoDirectory \notin DirStarts
  BY DirectoryIs
<1>. QED
  BY <1>1, <1>2, RangeEmpty DEF EntriesOf

LEMMA FollowNowhere ==
  ASSUME NEW start, NEW S, NEW path \in Seq(S), NEW n, n = Len(path), NEW k \in 0 .. n,
         Along(start, path, k) = NoDirectory
  PROVE  /\ Follow(start, path) = NoDirectory
         /\ k < n => Follow(start, Front(path)) = NoDirectory
<1> DEFINE at(i) == Along(start, path, i)
           T == {i \in Nat : at(k + i) = NoDirectory}
<1>1. n \in Nat /\ k \in Nat
  BY LenProperties
<1>2. /\ \A i \in 1 .. n : at(i) = FollowStep(at(i - 1), path[i])
      /\ Follow(start, path) = at(n)
      /\ Follow(start, Front(path)) = at(n - 1)
  <2>1. \A i \in 1 .. n : Along(start, path, i) = FollowStep(Along(start, path, i - 1), path[i])
    <3>. SUFFICES ASSUME NEW i \in 1 .. n
                  PROVE  Along(start, path, i) = FollowStep(Along(start, path, i - 1), path[i])
      OBVIOUS
    <3>1. i \in 1 .. Len(path)
      OBVIOUS
    <3>. QED
      BY <3>1, FollowNext
  <2>. QED
    BY <2>1, FollowFacts
<1>3. \A f : FollowStep(NoDirectory, f) = NoDirectory
  <2>1. \A f : Named(NoDirectory, f, "dir") = {}
    BY NowhereIsEmpty DEF Named
  <2>. QED
    BY <2>1 DEF FollowStep
<1>4. 0 \in T
  <2>1. k + 0 = k
    BY <1>1
  <2>2. at(k) = NoDirectory
    OBVIOUS
  <2>. HIDE DEF at
  <2>. QED
    BY <2>1, <2>2
<1>. HIDE DEF at
<1>5. ASSUME NEW i \in 0 .. (n - k) - 1, i \in T PROVE i + 1 \in T
  <2>1. k + i + 1 \in 1 .. n /\ (k + i + 1) - 1 = k + i /\ k + (i + 1) = k + i + 1 /\ i + 1 \in Nat
    BY <1>1
  <2>2. at(k + i) = NoDirectory
    BY <1>5
  <2>3. at(k + i + 1) = NoDirectory
    BY <1>2, <1>3, <2>1, <2>2
  <2>. QED
    BY <2>1, <2>3
<1>6. \A i \in 0 .. n - k : i \in T
  <2> DEFINE m == n - k
  <2>1. m \in Nat /\ \A i \in 0 .. m - 1 : i \in T => i + 1 \in T
    BY <1>1, <1>5
  <2>. HIDE DEF m, T
  <2>2. \A i \in 0 .. m : i \in T
    BY <1>4, <2>1, NumberInduction
  <2>. QED
    BY <2>2 DEF m
<1>7. at(n) = NoDirectory
  <2>1. n - k \in 0 .. n - k /\ k + (n - k) = n
    BY <1>1
  <2>. QED
    BY <1>6, <2>1
<1>8. ASSUME k < n PROVE Follow(start, Front(path)) = NoDirectory
  <2>1. n - 1 - k \in 0 .. n - k /\ k + (n - 1 - k) = n - 1
    BY <1>1, <1>8
  <2>. QED
    BY <1>2, <1>6, <2>1
<1>. QED
  BY <1>2, <1>7, <1>8

(* "." and ".." are taken as they are.                                      *)
LEMMA DotComponents ==
  ASSUME NEW prog
  PROVE  Component(prog, <<".">>) = <<".">> /\ Component(prog, DotDot) = DotDot
<1>1. NameLen + ExtLen + 1 \in Nat /\ NameLen + ExtLen + 1 >= 2
  BY WidthsAssumption
<1> DEFINE m == NameLen + ExtLen + 1
           one == <<".">>
           two == <<".", ".">>
<1>2. m \in Int /\ 2 <= m
  BY <1>1
<1>3. /\ one \in Seq({"."}) /\ Len(one) = 1 /\ two \in Seq({"."}) /\ Len(two) = 2
      /\ DOMAIN one = 1 .. 1 /\ one[1] = "." /\ one # two
  OBVIOUS
<1>4. [i \in DOMAIN one |-> Upper(one[i])] = one
  <2>1. Upper(".") = "."
    BY DEF Upper
  <2>2. [i \in 1 .. 1 |-> Upper(one[i])] \in Seq({"."})
    BY <1>3, <2>1
  <2>. QED
    BY <1>3, <2>1, <2>2
<1>. HIDE DEF m, one, two
<1>5. Min({1, m}) = 1 /\ Min({2, m}) = 2
  <2>1. 1 <= m /\ 2 <= m /\ 1 \in Int /\ 2 \in Int
    BY <1>2
  <2>. QED
    BY <1>2, <2>1, MinPair
<1>6. SubSeq(one, 1, 1) = one /\ SubSeq(two, 1, 2) = two
  BY <1>3, SubSeqFull
<1>7. Component(prog, one) = one
  BY <1>3, <1>4, <1>5, <1>6 DEF Component, m
<1>8. Component(prog, two) = two
  BY <1>3, <1>5, <1>6 DEF Component, m, DotDot, two
<1>. QED
  BY <1>7, <1>8 DEF one, two, DotDot
-----------------------------------------------------------------------------
(* The invariant: what is so of a call at each place of the code.           *)

\* Every look-up the paths and names lead to finds the entry it should, if there is one.
Exact == ExactCd(CdPaths) /\ ExactFuse(FusePaths) /\ ExactFiles(FileNames)

CliOps == {"cd", "ls", "tree", "cat"}
FuseCalls == {"getattr", "readdir", "open", "open_rw", "read"}
Results == {"none", "ok", "ENOENT", "ENOTDIR", "EISDIR", "EACCES"}

\* What was asked.
Asked(prog, op, path, base) ==
  /\ base \in DirStarts
  /\ (prog = "cli" /\ op \in CliOps) \/ (prog = "fuse" /\ op \in FuseCalls)
  /\ op = "cd" => \E p \in CdPaths : path = p.names /\ (p.absolute => base = 0)
  /\ op = "cat" => \E f \in FileNames : path = <<f>>
  /\ op \in FuseCalls => path \in FusePaths /\ base = 0

\* k components of the path were taken.
Taken(op, path, todo, k) ==
  /\ op \in {"cd"} \cup FuseCalls
  /\ k \in 0 .. Len(path) /\ todo = SubSeq(path, k + 1, Len(path))

OnPath(op, path, base, todo, dir) ==
  /\ dir \in DirStarts
  /\ \E k : /\ Taken(op, path, todo, k)
            /\ Exact => dir = Along(base, path, k) /\ (op # "cd" => k < Len(path))

\* The component looked for in dir is the last one taken.
Sought(prog, op, path, base, todo, dir, name, kind, k) ==
  /\ Taken(op, path, todo, k) /\ k >= 1
  /\ Exact => dir = Along(base, path, k - 1)
  /\ name = Component(prog, path[k]) /\ name \notin {<<".">>, DotDot}
  /\ \/ kind = "dir"
     \/ kind = "file" /\ op # "cd" /\ k = Len(path) /\ Finds(dir, name, "dir") = {}

SoughtUp(prog, op, path, base, todo, dir, name, kind, k) ==
  /\ Taken(op, path, todo, k) /\ k >= 1
  /\ Exact => dir = Along(base, path, k - 1)
  /\ dir # 0 /\ name = DotDot /\ kind = "dir" /\ Component(prog, path[k]) = DotDot

NotSeen(d, k, name, kind) ==
  \A e \in Range(Listed(d, k)) : ~(e.kind = kind /\ NameMatch(e.name83, name))

ListedSo(op, path, base, out, d, k) ==
  /\ op \in {"ls", "readdir"} /\ out = Shown(op, Listed(d, k))
  /\ op = "ls" => d = base
  /\ op = "readdir" => (Exact => d = Follow(0, path))

-----------------------------------------------------------------------------
(* What exactness says of one look-up.                                      *)

LEMMA PathIsSeq ==
  ASSUME NEW prog, NEW op, NEW path, NEW base,
         Asked(prog, op, path, base), op \in {"cd"} \cup FuseCalls
  PROVE  path \in Seq(Range(path)) /\ Len(path) \in Nat
<1>1. path \in FusePaths \cup {q.names : q \in CdPaths}
  BY DEF Asked
<1>2. path \in Seq(Range(path))
  BY <1>1, PathsAssumption
<1>. QED
  BY <1>2, LenProperties

LEMMA ExactCdAt ==
  ASSUME NEW prog, NEW path, NEW base, NEW k,
         Asked(prog, "cd", path, base), Exact, k \in 1 .. Len(path),
         Along(base, path, k - 1) \in DirStarts
  PROVE  LET d == Along(base, path, k - 1)
             f == path[k]
         IN  IF f = DotDot THEN d = 0 \/ ExactParent(d) ELSE f = <<".">> \/ ExactDir("cli", d, f)
<1>1. PICK p \in CdPaths : path = p.names /\ (p.absolute => base = 0)
  BY DEF Asked
<1>2. base \in IF p.absolute THEN {0} ELSE DirStarts
  BY <1>1 DEF Asked
<1> DEFINE d == Follow(base, SubSeq(p.names, 1, k - 1))
           f == p.names[k]
<1>3. k \in 1 .. Len(p.names)
  BY <1>1
<1>4. d = NoDirectory \/ (IF f = DotDot THEN d = 0 \/ ExactParent(d)
                            ELSE f = <<".">> \/ ExactDir("cli", d, f))
  BY <1>2, <1>3 DEF Exact, ExactCd
<1>5. d = Along(base, path, k - 1) /\ f = path[k]
  BY <1>1 DEF Along
<1>6. d # NoDirectory
  BY <1>5, NowhereIsEmpty
<1>. QED
  BY <1>4, <1>5, <1>6

LEMMA ExactFuseAt ==
  ASSUME NEW prog, NEW op \in FuseCalls, NEW path, NEW base, NEW k,
         Asked(prog, op, path, base), Exact, k \in 1 .. Len(path),
         Along(base, path, k - 1) \in DirStarts
  PROVE  LET d == Along(base, path, k - 1)
             f == path[k]
         IN  /\ prog = "fuse" /\ ExactDir("fuse", d, f)
             /\ k < Len(path) \/ Named(d, f, "dir") # {} \/ ExactFile(d, f, Component("fuse", f))
             /\ Named(d, f, "dir") = {} \/ Named(d, f, "file") = {}
<1>1. path \in FusePaths /\ base = 0 /\ prog = "fuse"
  BY DEF Asked, FuseCalls, CliOps
<1> DEFINE d == Follow(0, SubSeq(path, 1, k - 1))
           f == path[k]
<1>2. d = NoDirectory \/
          /\ ExactDir("fuse", d, f)
          /\ k < Len(path) \/ Named(d, f, "dir") # {} \/ ExactFile(d, f, Component("fuse", f))
          /\ Named(d, f, "dir") = {} \/ Named(d, f, "file") = {}
  BY <1>1 DEF Exact, ExactFuse
<1>3. d = Along(base, path, k - 1)
  BY <1>1 DEF Along
<1>4. d # NoDirectory
  BY <1>3, NowhereIsEmpty
<1>. QED
  BY <1>1, <1>2, <1>3, <1>4

Single(es) == \A e1, e2 \in es : e1 = e2

FoundIn(d, name) ==
  IF Finds(d, name, "dir") = {} THEN NoDirectory ELSE (CHOOSE e \in Finds(d, name, "dir") : TRUE).start

(* A component that is no "." or ".." leads to the directory found.         *)
LEMMA LeadsTo ==
  ASSUME NEW prog, NEW op, NEW path, NEW base, NEW todo, NEW dir, NEW name,
         NEW kind, NEW k, Asked(prog, op, path, base), dir \in DirStarts,
         Sought(prog, op, path, base, todo, dir, name, kind, k), Exact
  PROVE  /\ k \in 1 .. Len(path) /\ dir = Along(base, path, k - 1)
         /\ Finds(dir, name, "dir") = Named(dir, path[k], "dir")
         /\ Single(Named(dir, path[k], "dir"))
         /\ Along(base, path, k) = FoundIn(dir, name)
<1>1. /\ op \in {"cd"} \cup FuseCalls /\ k \in 1 .. Len(path) /\ dir = Along(base, path, k - 1)
      /\ name = Component(prog, path[k]) /\ name \notin {<<".">>, DotDot}
  BY DEF Sought, Taken
<1>2. /\ path[k] # DotDot /\ path[k] # <<".">> /\ ExactDir(prog, dir, path[k])
  <2>1. CASE op = "cd"
    <3>1. prog = "cli"
      BY <2>1 DEF Asked, FuseCalls
    <3>2. path[k] # DotDot /\ path[k] # <<".">>
      BY <1>1, <3>1, DotComponents
    <3>. QED
      BY <1>1, <2>1, <3>1, <3>2, ExactCdAt
  <2>2. CASE op \in FuseCalls
    <3>1. prog = "fuse" /\ ExactDir("fuse", dir, path[k])
      BY <1>1, <2>2, ExactFuseAt
    <3>2. path[k] # DotDot /\ path[k] # <<".">>
      BY <3>1, DotComponents DEF ExactDir
    <3>. QED
      BY <3>1, <3>2
  <2>. QED
    BY <1>1, <2>1, <2>2
<1>3. path \in Seq(Range(path))
  BY <1>1, PathIsSeq
<1>4. Along(base, path, k) = FollowStep(dir, path[k])
  BY <1>1, <1>3, FollowNext
<1>5. /\ Finds(dir, name, "dir") = Named(dir, path[k], "dir")
      /\ Single(Named(dir, path[k], "dir"))
  BY <1>1, <1>2 DEF ExactDir, Single
<1>. QED
  BY <1>1, <1>2, <1>4, <1>5 DEF FollowStep, FoundIn

(* Going up, where exactness says that the root is above.                   *)
LEMMA LeadsUp ==
  ASSUME NEW prog, NEW op, NEW path, NEW base, NEW todo, NEW dir, NEW name,
         NEW kind, NEW k, Asked(prog, op, path, base), dir \in DirStarts,
         SoughtUp(prog, op, path, base, todo, dir, name, kind, k), Exact
  PROVE  /\ op = "cd" /\ Finds(dir, name, "dir") = {} /\ Along(base, path, k) = 0
<1>1. /\ op \in {"cd"} \cup FuseCalls /\ k \in 1 .. Len(path) /\ dir = Along(base, path, k - 1)
      /\ dir # 0 /\ name = DotDot /\ Component(prog, path[k]) = DotDot
  BY DEF SoughtUp, Taken
<1>2. op \notin FuseCalls
  <2>. SUFFICES ASSUME op \in FuseCalls PROVE FALSE
    OBVIOUS
  <2>1. prog = "fuse" /\ ExactDir("fuse", dir, path[k])
    BY <1>1, ExactFuseAt
  <2>. QED
    BY <1>1, <2>1 DEF ExactDir
<1>3. op = "cd" /\ prog = "cli"
  BY <1>1, <1>2 DEF Asked
<1>4. IF path[k] = DotDot THEN ExactParent(dir) ELSE path[k] = <<".">> \/ ExactDir("cli", dir, path[k])
  BY <1>1, <1>3, ExactCdAt
<1>5. path[k] = DotDot
  <2>1. Component("cli", path[k]) = DotDot
    BY <1>1, <1>3
  <2>2. path[k] # <<".">>
    <3>1. <<".">> # DotDot
      BY DEF DotDot
    <3>. QED
      BY <2>1, <3>1, DotComponents
  <2>3. ~ExactDir("cli", dir, path[k])
    BY <2>1 DEF ExactDir
  <2>. QED
    BY <1>4, <2>2, <2>3
<1>6. /\ Finds(dir, DotDot, "dir") = {} /\ Named(dir, DotDot, "dir") # {}
      /\ \A e \in Named(dir, DotDot, "dir") : e.start = 0
  BY <1>4, <1>5 DEF ExactParent
<1>7. path \in Seq(Range(path))
  BY <1>1, PathIsSeq
<1>8. Along(base, path, k) = FollowStep(dir, DotDot)
  BY <1>1, <1>5, <1>7, FollowNext
<1>9. DotDot # <<".">>
  BY DEF DotDot
<1>10. FollowStep(dir, DotDot) = 0
  BY <1>1, <1>6, <1>9 DEF FollowStep
<1>. QED
  BY <1>1, <1>3, <1>6, <1>8, <1>10

(* What the whole path of a FUSE call names, once its last component was    *)
(* looked for.                                                              *)
LEMMA LeadsToEntry ==
  ASSUME NEW prog, NEW op \in FuseCalls, NEW path, NEW base, NEW todo, NEW dir,
         NEW name, NEW kind, NEW k, Asked(prog, op, path, base), dir \in DirStarts,
         Sought(prog, op, path, base, todo, dir, name, kind, k), Exact
  PROVE  /\ k = Len(path) => Resolution(path) = Named(dir, path[k], "dir") \cup Named(dir, path[k], "file")
         /\ Named(dir, path[k], "dir") = {} \/ Named(dir, path[k], "file") = {}
         /\ k = Len(path) /\ Named(dir, path[k], "dir") = {} =>
              /\ Finds(dir, name, "file") = Named(dir, path[k], "file")
              /\ Single(Named(dir, path[k], "file"))
<1>1. /\ k \in 1 .. Len(path) /\ dir = Along(base, path, k - 1)
      /\ Along(base, path, k) = FoundIn(dir, name)
  <2>1. /\ Asked(prog, op, path, base) /\ dir \in DirStarts
        /\ Sought(prog, op, path, base, todo, dir, name, kind, k) /\ Exact
    OBVIOUS
  <2>2. /\ k \in 1 .. Len(path) /\ dir = Along(base, path, k - 1)
        /\ Finds(dir, name, "dir") = Named(dir, path[k], "dir")
        /\ Single(Named(dir, path[k], "dir"))
        /\ Along(base, path, k) = FoundIn(dir, name)
    BY ONLY <2>1, LeadsTo
  <2>. QED
    BY <2>2
<1>2. /\ name = Component(prog, path[k])
  BY DEF Sought
<1>3. /\ prog = "fuse"
      /\ k < Len(path) \/ Named(dir, path[k], "dir") # {} \/ ExactFile(dir, path[k], Component("fuse", path[k]))
      /\ Named(dir, path[k], "dir") = {} \/ Named(dir, path[k], "file") = {}
  BY <1>1, ExactFuseAt
<1>4. base = 0 /\ path \in Seq(Range(path)) /\ Len(path) \in Nat
  BY PathIsSeq DEF Asked
<1>5. path # <<>>
  BY <1>1
<1>6. Resolution(path) = {e \in EntriesOf(Follow(0, Front(path))) : Denotes(Last(path), e)}
  BY <1>5 DEF Resolution
<1>7. ASSUME k = Len(path)
      PROVE  Resolution(path) = Named(dir, path[k], "dir") \cup Named(dir, path[k], "file")
  <2>1. Follow(0, Front(path)) = dir
    BY <1>1, <1>4, <1>7, FollowFacts
  <2>2. Last(path) = path[k]
    BY <1>7 DEF Last
  <2>3. \A e \in EntriesOf(dir) : e.kind \in {"dir", "file"}
    BY EntriesAreLive
  <2>. QED
    BY <1>6, <2>1, <2>2, <2>3 DEF Named
<1>8. k = Len(path) /\ Named(dir, path[k], "dir") = {} =>
              /\ Finds(dir, name, "file") = Named(dir, path[k], "file")
              /\ Single(Named(dir, path[k], "file"))
  BY <1>2, <1>3, <1>4 DEF ExactFile, Single
<1>. QED
  BY <1>3, <1>7, <1>8

LEMMA LeadsNowhere ==
  ASSUME NEW prog, NEW op \in FuseCalls, NEW path, NEW base, NEW todo, NEW dir,
         NEW name, NEW kind, NEW k, Asked(prog, op, path, base), dir \in DirStarts,
         Sought(prog, op, path, base, todo, dir, name, kind, k), Exact,
         k < Len(path), Finds(dir, name, "dir") = {}
  PROVE  Resolution(path) = {}
<1>1. /\ k \in 1 .. Len(path) /\ Along(base, path, k) = FoundIn(dir, name)
  <2>1. /\ Asked(prog, op, path, base) /\ dir \in DirStarts
        /\ Sought(prog, op, path, base, todo, dir, name, kind, k) /\ Exact
    OBVIOUS
  <2>2. /\ k \in 1 .. Len(path) /\ dir = Along(base, path, k - 1)
        /\ Finds(dir, name, "dir") = Named(dir, path[k], "dir")
        /\ Single(Named(dir, path[k], "dir"))
        /\ Along(base, path, k) = FoundIn(dir, name)
    BY ONLY <2>1, LeadsTo
  <2>. QED
    BY <2>2
<1>2. base = 0 /\ path \in Seq(Range(path)) /\ Len(path) \in Nat
  BY PathIsSeq DEF Asked
<1>3. path # <<>>
  BY <1>1
<1>4. Resolution(path) = {e \in EntriesOf(Follow(0, Front(path))) : Denotes(Last(path), e)}
  BY <1>3 DEF Resolution
<1>5. Along(base, path, k) = NoDirectory /\ k \in 0 .. Len(path)
  BY <1>1 DEF FoundIn
<1>6. Follow(0, Front(path)) = NoDirectory
  BY <1>2, <1>5, FollowNowhere
<1>. QED
  BY <1>4, <1>6, NowhereIsEmpty
-----------------------------------------------------------------------------
(* The copying of a file: off is the first byte wanted, tot how many.       *)

Bytes(e, off, n) == [i \in 1 .. n |-> FileByte(e, off + i - 1)]

IsFile(e) == e \in AllEntries /\ e.kind = "file" /\ e.start # 0

\* The next byte is byte at of cluster c.
CopyData(e, off, tot, c, s, at, left, out) ==
  /\ left \in Nat /\ left > 0 /\ left <= tot /\ out = Bytes(e, off, tot - left)
  /\ at \in 0 .. ClusterSize - 1 /\ s = at \div SectorSize
  /\ \E i : Cluster(e.start, c, i) /\ i * ClusterSize + at = off + (tot - left)

\* The next byte, if any, is behind cluster c, skip clusters of it or at once.
CopyChain(e, off, tot, c, skip, at, left, out) ==
  /\ left \in Nat /\ left <= tot /\ out = Bytes(e, off, tot - left) /\ skip \in Nat
  /\ \E i : /\ Cluster(e.start, c, i)
            /\ IF skip > 0
                 THEN /\ i + skip = off \div ClusterSize /\ at = off % ClusterSize
                      /\ left = tot /\ left > 0
                 ELSE left = 0 \/ (i + 1) * ClusterSize = off + (tot - left)

LEMMA Ring ==
  /\ \A x, y \in Nat : x * y \in Nat /\ x * y = y * x
  /\ \A x, y, z \in Nat : (x * y) * z = x * (y * z)
  /\ \A x, y, z \in Nat : (x + y) * z = x * z + y * z
<1>1. \A x, y \in Nat : x * y \in Nat /\ x * y = y * x
  BY Products
<1>2. \A x, y, z \in Nat : (x * y) * z = x * (y * z)
  OBVIOUS
<1>3. \A x, y, z \in Nat : (x + y) * z = x * z + y * z
  OBVIOUS
<1>. QED
  BY <1>1, <1>2, <1>3

LEMMA ClusterSizeIs ==
  /\ ClusterSize \in Nat \ {0} /\ ClusterSize = SectorSize * SectorsPerCluster
  /\ SectorSize \in Nat \ {0} /\ SectorsPerCluster \in Nat \ {0} /\ SectorSize <= ClusterSize
<1>1. ClusterSize = SectorSize * SectorsPerCluster
  BY DEF ClusterSize
<1>2. 1 * SectorSize <= SectorsPerCluster * SectorSize
  BY SizesPositive, Products
<1>. QED
  BY <1>1, <1>2, SizesPositive, Ring

LEMMA FileChain ==
  ASSUME NEW e, IsFile(e)
  PROVE  /\ HeadsChain(e.start) /\ e.size \in Nat
         /\ Range(SectorsOf(e.start)) \cap DOMAIN Dir = {}
         /\ ChainLength(e.start) \in Nat /\ 1 <= ChainLength(e.start)
         /\ e.size <= ChainLength(e.start) * ClusterSize
         /\ e.start \in Clusters /\ e.start >= 2
<1>1. /\ HeadsChain(e.start) /\ Range(SectorsOf(e.start)) \cap DOMAIN Dir = {}
      /\ e.size <= Len(SectorsOf(e.start)) * SectorSize /\ e.size \in Nat
  BY EntriesAssumption, VolumeAssumption DEF IsFile
<1> DEFINE n == ChainLength(e.start)
<1>2. n \in Nat /\ 1 <= n /\ e.start \in Clusters /\ e.start >= 2
  BY <1>1, ChainFacts
<1>3. Len(SectorsOf(e.start)) = n * SectorsPerCluster
  BY <1>1, ChainSectors
<1>. HIDE DEF n
<1>4. (n * SectorsPerCluster) * SectorSize = n * ClusterSize
  <2>1. (n * SectorsPerCluster) * SectorSize = n * (SectorsPerCluster * SectorSize)
    BY <1>2, ClusterSizeIs, Ring
  <2>2. SectorsPerCluster * SectorSize = ClusterSize
    BY ClusterSizeIs, Ring
  <2>. QED
    BY <2>1, <2>2
<1>. QED
  BY <1>1, <1>2, <1>3, <1>4 DEF n

(* Where byte number i * ClusterSize + a + j of a file is.                  *)
LEMMA ByteAt ==
  ASSUME NEW e, NEW i \in Nat, NEW a \in 0 .. ClusterSize - 1,
         NEW j \in 0 .. SectorSize - 1 - (a % SectorSize)
  PROVE  /\ FileByte(e, i * ClusterSize + a + j)
              = <<SectorLba(ClusterAt(e.start, i), a \div SectorSize), (a % SectorSize) + j>>
         /\ a \div SectorSize \in 0 .. SectorsPerCluster - 1
<1> DEFINE s == a \div SectorSize
           from == a % SectorSize
           p == i * SectorsPerCluster
           q == p + s
           b == i * ClusterSize + a + j
           x == i * ClusterSize
           y == SectorSize * s
<1>1. /\ s \in Nat /\ y <= a /\ a < y + SectorSize /\ a \in Nat /\ y \in Nat
  <2>1. a \in Nat
    BY ClusterSizeIs
  <2>. QED
    BY <2>1, ClusterSizeIs, QuotientOf, Ring
<1>2. a = y + from /\ from \in Nat /\ from < SectorSize
  BY <1>1, ClusterSizeIs
<1>3. p \in Nat /\ x \in Nat /\ j \in Nat /\ from + j < SectorSize
  BY <1>2, ClusterSizeIs, Ring
<1>4. q * SectorSize = x + y
  <2>1. q * SectorSize = p * SectorSize + s * SectorSize
    <3>1. s \in Nat /\ p \in Nat /\ q = p + s
      BY <1>1, <1>3
    <3>. HIDE DEF s, p, q, x, y
    <3>. QED
      BY <3>1, ClusterSizeIs, Ring
  <2>2. s * SectorSize = y
    BY <1>1, ClusterSizeIs, Ring
  <2>3. p * SectorSize = i * (SectorsPerCluster * SectorSize)
    BY ClusterSizeIs, Ring
  <2>4. SectorsPerCluster * SectorSize = ClusterSize
    BY ClusterSizeIs, Ring
  <2>. QED
    BY <2>1, <2>2, <2>3, <2>4
<1>5. s < SectorsPerCluster
  <2>. SUFFICES ASSUME SectorsPerCluster <= s PROVE FALSE
    BY <1>1, ClusterSizeIs
  <2>1. SectorsPerCluster * SectorSize <= s * SectorSize
    BY <1>1, ClusterSizeIs, Products
  <2>2. SectorsPerCluster * SectorSize = ClusterSize /\ s * SectorSize = y
    BY <1>1, ClusterSizeIs, Ring
  <2>3. a < ClusterSize
    BY ClusterSizeIs
  <2>. HIDE DEF y, s
  <2>. QED
    BY <1>1, <2>1, <2>2, <2>3, ClusterSizeIs
<1>6. q \in Nat /\ b \in Nat /\ b = x + y + (from + j)
  BY <1>1, <1>2, <1>3
<1>. HIDE DEF s, from, p, x, y
<1>7. b \div SectorSize = q
  <2>1. q * SectorSize <= b /\ b < q * SectorSize + SectorSize
    BY <1>1, <1>2, <1>3, <1>4, <1>6, ClusterSizeIs
  <2>. HIDE DEF q, b
  <2>. QED
    BY <1>6, <2>1, ClusterSizeIs, QuotientIs
<1>8. b % SectorSize = from + j
  <2>1. b = SectorSize * (b \div SectorSize) + (b % SectorSize)
    BY <1>6, ClusterSizeIs
  <2>2. SectorSize * q = q * SectorSize
    BY <1>6, ClusterSizeIs, Ring
  <2>3. (b % SectorSize) \in Nat
    BY <1>6, ClusterSizeIs
  <2> DEFINE m == b % SectorSize
  <2>4. b = SectorSize * q + m
    BY <1>7, <2>1
  <2>. HIDE DEF q, m, b
  <2>5. b = x + y + m
    BY <1>4, <2>2, <2>4
  <2>6. m = from + j
    BY <1>1, <1>2, <1>3, <1>6, <2>3, <2>5 DEF m
  <2>. QED
    BY <2>6 DEF m
<1>9. q \div SectorsPerCluster = i /\ q % SectorsPerCluster = s
  <2>1. i * SectorsPerCluster <= q /\ q < i * SectorsPerCluster + SectorsPerCluster
    BY <1>1, <1>3, <1>5, ClusterSizeIs DEF p
  <2>2. q \div SectorsPerCluster = i
    BY <1>6, <2>1, ClusterSizeIs, QuotientIs
  <2>3. q = SectorsPerCluster * (q \div SectorsPerCluster) + (q % SectorsPerCluster)
    <3>. HIDE DEF q
    <3>. QED
      BY <1>6, ClusterSizeIs
  <2>4. SectorsPerCluster * i = p
    BY ClusterSizeIs, Ring DEF p
  <2>5. (q % SectorsPerCluster) \in Nat
    BY <1>6, ClusterSizeIs
  <2> DEFINE m == q % SectorsPerCluster
  <2>6. q = p + m /\ m \in Nat
    BY <2>2, <2>3, <2>4, <2>5
  <2>. HIDE DEF m
  <2>7. m = s
    BY <1>1, <1>3, <2>6
  <2>. QED
    BY <2>2, <2>7 DEF m
<1>. HIDE DEF q
<1>10. FileByte(e, b) = <<SectorLba(ClusterAt(e.start, i), s), from + j>>
  <2>. HIDE DEF b
  <2>. QED
    BY <1>7, <1>8, <1>9 DEF FileByte
<1>. QED
  BY <1>1, <1>5, <1>10, ClusterSizeIs DEF s, from, b

LEMMA BytesFacts ==
  ASSUME NEW e, NEW off \in Nat, NEW n \in Nat
  PROVE  /\ Bytes(e, off, 0) = <<>>
         /\ Len(Bytes(e, off, n)) = n /\ DOMAIN Bytes(e, off, n) = 1 .. n
<1>1. Bytes(e, off, 0) = <<>>
  BY DEF Bytes
<1>2. Len(Bytes(e, off, n)) = n /\ DOMAIN Bytes(e, off, n) = 1 .. n
  BY DEF Bytes
<1>. QED
  BY <1>1, <1>2

LEMMA BytesMore ==
  ASSUME NEW e, NEW off \in Nat, NEW n \in Nat, NEW m \in Nat
  PROVE  Bytes(e, off, n) \o [i \in 1 .. m |-> FileByte(e, off + n + i - 1)] = Bytes(e, off, n + m)
<1> DEFINE S == {FileByte(e, k) : k \in Nat}
           a == Bytes(e, off, n)
           b == [i \in 1 .. m |-> FileByte(e, off + n + i - 1)]
           x == Bytes(e, off, n + m)
<1>1. \A i \in 1 .. n : off + i - 1 \in Nat
  OBVIOUS
<1>2. \A i \in 1 .. m : off + n + i - 1 \in Nat
  OBVIOUS
<1>3. \A i \in 1 .. n + m : off + i - 1 \in Nat
  OBVIOUS
<1>4. a \in Seq(S) /\ Len(a) = n /\ \A i \in 1 .. n : a[i] = FileByte(e, off + i - 1)
  BY <1>1 DEF Bytes
<1>5. b \in Seq(S) /\ Len(b) = m /\ \A i \in 1 .. m : b[i] = FileByte(e, off + n + i - 1)
  BY <1>2
<1>6. /\ x \in Seq(S) /\ Len(x) = n + m
      /\ \A i \in 1 .. n + m : x[i] = FileByte(e, off + i - 1)
  BY <1>3 DEF Bytes
<1>. HIDE DEF S, a, b, x
<1>7. /\ a \o b \in Seq(S) /\ Len(a \o b) = n + m
      /\ \A i \in 1 .. n + m : (a \o b)[i] = IF i <= n THEN a[i] ELSE b[i - n]
  BY <1>4, <1>5, ConcatProperties
<1>8. ASSUME NEW i \in 1 .. n + m PROVE (a \o b)[i] = x[i]
  <2>1. CASE i <= n
    <3>1. i \in 1 .. n
      BY <2>1
    <3>. QED
      BY <1>4, <1>6, <1>7, <2>1, <3>1
  <2>2. CASE ~(i <= n)
    <3> DEFINE k == i - n
    <3>1. k \in 1 .. m /\ off + n + k - 1 = off + i - 1
      BY <2>2
    <3>2. (a \o b)[i] = b[k]
      BY <1>7, <2>2
    <3>. HIDE DEF k
    <3>3. b[k] = FileByte(e, off + n + k - 1)
      BY <1>5, <3>1
    <3>. QED
      BY <1>6, <3>1, <3>2, <3>3
  <2>. QED
    BY <2>1, <2>2
<1>9. a \o b = x
  BY <1>6, <1>7, <1>8, SeqEqual
<1>. QED
  BY <1>9 DEF a, b, x

(* What fat_read should return, and what cat should print.                  *)
LEMMA RangeIs ==
  ASSUME NEW e, NEW off \in Nat, NEW size \in Nat, e.size \in Nat
  PROVE  FileRange(e, off, size) =
           IF off >= e.size THEN <<>> ELSE Bytes(e, off, Min({size, e.size - off}))
<1> DEFINE n == e.size
           last == Min({off + size, n})
<1>1. n \in Nat
  OBVIOUS
<1>2. FileRange(e, off, size) = IF last <= off THEN <<>> ELSE Bytes(e, off, last - off)
  BY DEF FileRange, Bytes
<1>. HIDE DEF n
<1>3. last = IF off + size <= n THEN off + size ELSE n
  BY <1>1, MinPair
<1>4. Min({size, n - off}) = IF size <= n - off THEN size ELSE n - off
  BY <1>1, MinPair
<1>. HIDE DEF last
<1>5. CASE off >= n
  BY <1>1, <1>2, <1>3, <1>5 DEF n
<1>6. CASE off < n /\ size = 0
  <2>1. Min({size, n - off}) = 0 /\ last <= off
    BY <1>1, <1>3, <1>4, <1>6
  <2>2. Bytes(e, off, 0) = <<>>
    BY BytesFacts
  <2>. QED
    BY <1>1, <1>2, <1>6, <2>1, <2>2 DEF n
<1>7. CASE off < n /\ size # 0
  <2>1. ~(last <= off) /\ last - off = Min({size, n - off})
    BY <1>1, <1>3, <1>4, <1>7
  <2>2. ~(off >= n)
    BY <1>1, <1>7
  <2>. QED
    BY <1>2, <2>1, <2>2 DEF n
<1>. QED
  BY <1>1, <1>5, <1>6, <1>7
-----------------------------------------------------------------------------
(* The steps of the copying.                                                *)

LEMMA FirstByte ==
  ASSUME NEW at \in Nat
  PROVE  0 \in 0 .. SectorSize - 1 - (at % SectorSize)
<1>1. at % SectorSize \in 0 .. SectorSize - 1
  BY ClusterSizeIs
<1> DEFINE from == at % SectorSize
<1>2. from \in 0 .. SectorSize - 1
  BY <1>1
<1>. HIDE DEF from
<1>3. 0 \in 0 .. SectorSize - 1 - from
  BY <1>2, ClusterSizeIs
<1>. QED
  BY <1>3 DEF from

LEMMA CopySectors ==
  ASSUME NEW e, IsFile(e), NEW off, NEW tot, NEW c, NEW s, NEW at, NEW left, NEW out,
         CopyData(e, off, tot, c, s, at, left, out)
  PROVE  SectorLba(c, s) \in (DataStart .. LastLba) \ DOMAIN Dir
<1>1. PICK i : Cluster(e.start, c, i)
  BY DEF CopyData
<1>2. at \in 0 .. ClusterSize - 1 /\ s = at \div SectorSize
  BY DEF CopyData
<1>3. HeadsChain(e.start) /\ Range(SectorsOf(e.start)) \cap DOMAIN Dir = {}
  BY FileChain
<1>4. i \in Nat /\ c \in Clusters /\ i \in 0 .. ChainLength(e.start) - 1 /\ c = ClusterAt(e.start, i)
  BY <1>1, <1>3, ChainIn DEF Cluster
<1>5. s \in 0 .. SectorsPerCluster - 1
  <2>1. 0 \in 0 .. SectorSize - 1 - (at % SectorSize)
    <3>1. at \in Nat
      BY <1>2, ClusterSizeIs
    <3>. QED
      BY <3>1, FirstByte
  <2>. QED
    BY <1>2, <1>4, <2>1, ByteAt
<1>6. SectorLba(c, s) \in DataStart .. LastLba
  BY <1>4, <1>5, ClusterSectors
<1>7. SectorLba(c, s) \in Range(SectorsOf(e.start))
  <2> DEFINE k == i * SectorsPerCluster + s
             m == ChainLength(e.start) * SectorsPerCluster
  <2>1. /\ m \in Nat /\ k \in 0 .. m - 1 /\ SectorsOf(e.start)[k + 1] = SectorLba(c, s)
        /\ DOMAIN SectorsOf(e.start) = 1 .. m
    BY <1>3, <1>4, <1>5, ChainSectors
  <2>. HIDE DEF k, m
  <2>2. k + 1 \in DOMAIN SectorsOf(e.start)
    BY <2>1
  <2>. QED
    BY <2>1, <2>2 DEF Range
<1>. QED
  BY <1>3, <1>6, <1>7

LEMMA ChainCluster ==
  ASSUME NEW e, IsFile(e), NEW off, NEW tot, NEW c, NEW skip, NEW at, NEW left, NEW out,
         CopyChain(e, off, tot, c, skip, at, left, out)
  PROVE  c \in Clusters
  BY FileChain, ChainIn DEF CopyChain

LEMMA CopyStart ==
  ASSUME NEW e, IsFile(e), NEW off \in Nat, NEW tot \in Nat, off + tot <= e.size, tot > 0 \/ off = 0,
         NEW skip, skip = off \div ClusterSize, NEW at, at = off % ClusterSize
  PROVE  /\ skip \in Nat /\ at \in 0 .. ClusterSize - 1
         /\ skip > 0 => CopyChain(e, off, tot, e.start, skip, at, tot, <<>>)
         /\ skip = 0 /\ tot > 0 => CopyData(e, off, tot, e.start, at \div SectorSize, at, tot, <<>>)
         /\ skip = 0 /\ tot = 0 => CopyChain(e, off, tot, e.start, 0, at, tot, <<>>)
<1>1. /\ skip \in Nat /\ at \in 0 .. ClusterSize - 1
      /\ off = ClusterSize * skip + at
  BY ClusterSizeIs
<1>2. Cluster(e.start, e.start, 0)
  <2>1. ChainLength(e.start) \in Nat /\ 1 <= ChainLength(e.start) /\ e.start # 0
    BY FileChain DEF IsFile
  <2>2. 0 \in 0 .. ChainLength(e.start) - 1
    BY <2>1
  <2>. QED
    BY <2>1, <2>2, ClusterAtZero DEF Cluster
<1>3. tot - tot = 0 /\ <<>> = Bytes(e, off, 0) /\ tot <= tot
  BY BytesFacts
<1>4. skip > 0 => tot > 0
  <2>. SUFFICES ASSUME off = 0 PROVE skip = 0
    BY <1>1
  <2>1. 0 * ClusterSize <= 0 /\ 0 < 0 * ClusterSize + ClusterSize
    BY ClusterSizeIs
  <2>. QED
    BY <2>1, ClusterSizeIs, QuotientIs
<1>5. ASSUME skip > 0 PROVE CopyChain(e, off, tot, e.start, skip, at, tot, <<>>)
  <2>1. 0 + skip = off \div ClusterSize
    BY <1>1
  <2>2. <<>> = Bytes(e, off, tot - tot)
    BY <1>3
  <2>. QED
    BY <1>1, <1>2, <1>3, <1>4, <1>5, <2>1, <2>2 DEF CopyChain
<1>6. ASSUME skip = 0, tot > 0
      PROVE  CopyData(e, off, tot, e.start, at \div SectorSize, at, tot, <<>>)
  <2>1. ClusterSize * 0 = 0 /\ 0 * ClusterSize = 0
    BY ClusterSizeIs
  <2>2. at = off
    BY <1>1, <1>6, <2>1
  <2>3. 0 * ClusterSize + at = off + (tot - tot)
    BY <2>1, <2>2
  <2>4. <<>> = Bytes(e, off, tot - tot)
    BY <1>3
  <2>. QED
    BY <1>1, <1>2, <1>3, <1>6, <2>3, <2>4 DEF CopyData
<1>7. ASSUME skip = 0, tot = 0 PROVE CopyChain(e, off, tot, e.start, 0, at, tot, <<>>)
  <2>1. <<>> = Bytes(e, off, tot - tot) /\ ~(0 > 0) /\ 0 \in Nat
    BY <1>3
  <2>. QED
    BY <1>2, <1>3, <1>7, <2>1 DEF CopyChain
<1>. QED
  BY <1>1, <1>5, <1>6, <1>7

\* The n bytes of sector lba from byte from on, behind out.
Longer(out, lba, from, n) == out \o [i \in 1 .. n |-> <<lba, from + i - 1>>]

LEMMA CopyNextSector ==
  ASSUME NEW e, IsFile(e), NEW off \in Nat, NEW tot \in Nat, NEW c, NEW s, NEW at, NEW left, NEW out,
         CopyData(e, off, tot, c, s, at, left, out),
         NEW chunk, chunk = Min({SectorSize - (at % SectorSize), left}),
         NEW more, more = Longer(out, SectorLba(c, s), at % SectorSize, chunk),
         NEW next, next = (at \div SectorSize + 1) * SectorSize
  PROVE  /\ left - chunk \in Nat /\ next \in Nat
         /\ ~(next < ClusterSize /\ left - chunk > 0) => CopyChain(e, off, tot, c, 0, next, left - chunk, more)
         /\ next < ClusterSize /\ left - chunk > 0 =>
              CopyData(e, off, tot, c, next \div SectorSize, next, left - chunk, more)
         /\ left - chunk = 0 => more = Bytes(e, off, tot)
<1> DEFINE from == at % SectorSize
           q == at \div SectorSize
           n == tot - left
<1>1. /\ left \in Nat /\ left > 0 /\ left <= tot /\ out = Bytes(e, off, n)
      /\ at \in 0 .. ClusterSize - 1 /\ s = q
  BY DEF CopyData
<1>2. PICK i : Cluster(e.start, c, i) /\ i * ClusterSize + at = off + n
  BY DEF CopyData
<1>3. i \in Nat /\ c = ClusterAt(e.start, i) /\ HeadsChain(e.start)
  BY <1>2, FileChain, ChainIn DEF Cluster
<1>4. /\ q \in Nat /\ from \in 0 .. SectorSize - 1 /\ at = SectorSize * q + from /\ at \in Nat
  <2>1. at \in Nat
    BY <1>1, ClusterSizeIs
  <2>. QED
    BY <2>1, ClusterSizeIs
<1>5. n \in Nat
  BY <1>1
<1>. HIDE DEF n
<1>6. chunk = IF SectorSize - from <= left THEN SectorSize - from ELSE left
  <2>1. SectorSize - from \in Int /\ left \in Int
    BY <1>1, <1>4, ClusterSizeIs
  <2>. HIDE DEF from
  <2>. QED
    BY <2>1, MinPair DEF from
<1>7. chunk \in Nat /\ chunk >= 1 /\ chunk <= left /\ chunk <= SectorSize - from
  <2>1. from \in 0 .. SectorSize - 1 /\ left \in Nat /\ left > 0
    BY <1>1, <1>4
  <2>. HIDE DEF from
  <2>. QED
    BY ONLY <1>6, <2>1, ClusterSizeIs
<1>8. ASSUME NEW k \in 1 .. chunk
      PROVE  <<SectorLba(c, s), from + k - 1>> = FileByte(e, off + n + k - 1)
  <2> DEFINE j == k - 1
  <2>1. j \in 0 .. SectorSize - 1 - from /\ from + k - 1 = from + j
    <3>1. k \in 1 .. chunk
      OBVIOUS
    <3>2. from \in Nat
      BY <1>4, ClusterSizeIs
    <3>. HIDE DEF from
    <3>. QED
      BY ONLY <1>7, <3>1, <3>2, ClusterSizeIs DEF j
  <2>. HIDE DEF j
  <2>2. FileByte(e, i * ClusterSize + at + j) = <<SectorLba(ClusterAt(e.start, i), q), from + j>>
    BY <1>1, <1>3, <2>1, ByteAt
  <2> DEFINE x == i * ClusterSize
  <2>3. x \in Nat
    BY <1>3, ClusterSizeIs, Ring
  <2>. HIDE DEF x
  <2>4. x + at + j = off + n + k - 1
    <3>1. x + at = off + n
      BY <1>2 DEF x
    <3>2. k \in Int /\ off \in Nat /\ at \in Nat
      BY <1>4, <1>7
    <3>. QED
      BY ONLY <1>5, <2>3, <3>1, <3>2 DEF j
  <2>. QED
    BY <1>1, <1>3, <2>1, <2>2, <2>4 DEF x
<1>9. more = Bytes(e, off, n + chunk)
  <2>1. [k \in 1 .. chunk |-> <<SectorLba(c, s), from + k - 1>>]
           = [k \in 1 .. chunk |-> FileByte(e, off + n + k - 1)]
    BY <1>8
  <2>2. Bytes(e, off, n) \o [k \in 1 .. chunk |-> FileByte(e, off + n + k - 1)] = Bytes(e, off, n + chunk)
    <3>1. n \in Nat /\ chunk \in Nat
      BY <1>5, <1>7
    <3>2. off \in Nat
      OBVIOUS
    <3>. QED
      BY ONLY <3>1, <3>2, BytesMore
  <2>3. more = out \o [k \in 1 .. chunk |-> <<SectorLba(c, s), from + k - 1>>]
    BY DEF Longer
  <2>. HIDE DEF from
  <2>. QED
    BY ONLY <1>1, <2>1, <2>2, <2>3
<1> DEFINE left2 == left - chunk
<1>10. left2 \in Nat /\ left2 <= tot /\ tot - left2 = n + chunk
  <2>1. left \in Nat /\ left <= tot /\ tot \in Nat /\ n = tot - left
    BY <1>1 DEF n
  <2>. QED
    BY ONLY <1>7, <2>1
<1>11. next \in Nat /\ next = SectorSize * q + SectorSize /\ next <= ClusterSize
  <2>1. q < SectorsPerCluster
    <3>1. 0 \in 0 .. SectorSize - 1 - (at % SectorSize)
      BY <1>4, FirstByte
    <3>2. at \div SectorSize \in 0 .. SectorsPerCluster - 1
      BY <1>1, <1>3, <3>1, ByteAt
    <3>. QED
      BY <3>2, ClusterSizeIs
  <2>. HIDE DEF q
  <2>2. (q + 1) * SectorSize = q * SectorSize + 1 * SectorSize /\ q * SectorSize = SectorSize * q
        /\ SectorSize * q \in Nat
    BY <1>4, ClusterSizeIs, Ring
  <2>3. (q + 1) * SectorSize <= SectorsPerCluster * SectorSize
    BY <1>4, <2>1, ClusterSizeIs, Products
  <2>4. SectorsPerCluster * SectorSize = ClusterSize
    BY ClusterSizeIs, Ring
  <2>5. next = (q + 1) * SectorSize
    BY DEF q
  <2>. QED
    BY ONLY <2>2, <2>3, <2>4, <2>5, ClusterSizeIs
<1>12. left2 > 0 => next = at + chunk
  <2> DEFINE y == SectorSize * q
  <2>1. y \in Nat /\ at = y + from /\ next = y + SectorSize
    BY <1>4, <1>11, ClusterSizeIs, Ring
  <2>2. from \in Nat /\ left \in Nat
    BY <1>1, <1>4, ClusterSizeIs
  <2>. HIDE DEF y, from
  <2>. QED
    BY ONLY <1>6, <2>1, <2>2, ClusterSizeIs
<1> DEFINE x == i * ClusterSize
<1>13. x \in Nat /\ x + at = off + n /\ (i + 1) * ClusterSize = x + ClusterSize
  BY <1>2, <1>3, ClusterSizeIs, Ring
<1>. HIDE DEF x
<1>14. left2 > 0 => x + next = off + (tot - left2)
  <2>1. at \in Nat /\ off \in Nat
    BY <1>4
  <2>2. left2 > 0 => next = at + chunk
    BY <1>12
  <2>3. tot - left2 = n + chunk
    BY <1>10
  <2>. HIDE DEF left2
  <2>. QED
    BY ONLY <1>5, <1>7, <1>13, <2>1, <2>2, <2>3
<1>15. more = Bytes(e, off, tot - left2)
  BY <1>9, <1>10
<1>16. ASSUME ~(next < ClusterSize /\ left2 > 0)
       PROVE  CopyChain(e, off, tot, c, 0, next, left2, more)
  <2>1. left2 = 0 \/ (i + 1) * ClusterSize = off + (tot - left2)
    <3> DEFINE y == (i + 1) * ClusterSize
    <3>1. y = x + ClusterSize
      BY <1>13
    <3>2. left2 \in Nat
      BY <1>10
    <3>. HIDE DEF y, left2
    <3>3. left2 > 0 => next = ClusterSize
      BY ONLY <1>11, <1>16, <3>2, ClusterSizeIs
    <3>. QED
      BY <1>14, <3>1, <3>2, <3>3 DEF y
  <2>2. ~(0 > 0) /\ 0 \in Nat
    OBVIOUS
  <2>. HIDE DEF left2
  <2>. QED
    BY <1>2, <1>10, <1>15, <2>1, <2>2 DEF CopyChain
<1>17. ASSUME next < ClusterSize, left2 > 0
       PROVE  CopyData(e, off, tot, c, next \div SectorSize, next, left2, more)
  <2>1. next \in 0 .. ClusterSize - 1
    BY <1>11, <1>17, ClusterSizeIs
  <2>2. i * ClusterSize + next = off + (tot - left2)
    BY <1>14, <1>17 DEF x
  <2>. HIDE DEF left2
  <2>. QED
    BY <1>2, <1>10, <1>15, <1>17, <2>1, <2>2 DEF CopyData
<1>18. left2 = 0 => more = Bytes(e, off, tot)
  <2>1. left2 = 0 => tot - left2 = tot
    <3>1. tot \in Nat
      OBVIOUS
    <3>. HIDE DEF left2
    <3>. QED
      BY ONLY <3>1
  <2>. QED
    BY <1>15, <2>1
<1>. QED
  BY <1>10, <1>11, <1>16, <1>17, <1>18

LEMMA CopyNextCluster ==
  ASSUME NEW e, IsFile(e), NEW off \in Nat, NEW tot \in Nat, off + tot <= e.size,
         NEW c, NEW skip, NEW at, NEW left, NEW out,
         CopyChain(e, off, tot, c, skip, at, left, out)
  PROVE  /\ skip \in Nat
         /\ IF Fat[c] < EndMark
              THEN /\ Fat[c] >= 2
                   /\ skip > 1 => CopyChain(e, off, tot, Fat[c], skip - 1, at, left, out)
                   /\ skip = 1 => /\ at < ClusterSize /\ left > 0
                                  /\ CopyData(e, off, tot, Fat[c], at \div SectorSize, at, left, out)
                   /\ skip = 0 /\ left = 0 => \A a : CopyChain(e, off, tot, Fat[c], 0, a, left, out)
                   /\ skip = 0 /\ left # 0 => left > 0 /\ CopyData(e, off, tot, Fat[c], 0 \div SectorSize, 0, left, out)
              ELSE left = 0
         /\ left = 0 => out = Bytes(e, off, tot)
<1>1. /\ left \in Nat /\ left <= tot /\ out = Bytes(e, off, tot - left) /\ skip \in Nat
  BY DEF CopyChain
<1>2. PICK i : /\ Cluster(e.start, c, i)
               /\ IF skip > 0
                    THEN /\ i + skip = off \div ClusterSize /\ at = off % ClusterSize
                         /\ left = tot /\ left > 0
                    ELSE left = 0 \/ (i + 1) * ClusterSize = off + (tot - left)
  BY DEF CopyChain
<1> DEFINE L == ChainLength(e.start)
           n == Fat[c]
<1>3. /\ HeadsChain(e.start) /\ L \in Nat /\ 1 <= L /\ e.size <= L * ClusterSize /\ e.size \in Nat
  BY FileChain
<1>4. /\ c \in Clusters /\ i \in Nat
      /\ IF i + 1 < L THEN n < EndMark /\ n >= 2 /\ Cluster(e.start, n, i + 1)
         ELSE n = 65535 /\ i + 1 = L
  BY <1>2, <1>3, ChainIn
<1>. HIDE DEF L, n
<1>5. left = 0 => out = Bytes(e, off, tot)
  BY <1>1
<1>6. CASE ~(i + 1 < L)
  <2>1. n = 65535 /\ ~(n < EndMark) /\ i + 1 = L
    BY <1>4, <1>6 DEF EndMark
  <2>2. left = 0
    <3>1. CASE skip > 0
      <4> DEFINE w == off \div ClusterSize
      <4>1. w \in Nat /\ w * ClusterSize <= off
        <5>1. w \in Nat /\ ClusterSize * w <= off
          BY ClusterSizeIs, QuotientOf
        <5>2. ClusterSize * w = w * ClusterSize
          BY <5>1, ClusterSizeIs, Ring
        <5>. QED
          BY <5>1, <5>2
      <4>. HIDE DEF w
      <4>2. i + skip = w /\ left = tot /\ left > 0
        BY <1>2, <3>1 DEF w
      <4>3. L <= w
        BY <1>1, <1>3, <1>4, <2>1, <3>1, <4>1, <4>2
      <4>4. L * ClusterSize <= w * ClusterSize
        BY <1>3, <4>1, <4>3, ClusterSizeIs, Products
      <4> DEFINE x == L * ClusterSize
                 y == w * ClusterSize
      <4>5. x \in Nat /\ y \in Nat /\ x <= y /\ e.size <= x /\ y <= off
        BY <1>3, <4>1, <4>4, ClusterSizeIs, Ring
      <4>. HIDE DEF x, y
      <4>. QED
        BY <1>1, <1>3, <4>2, <4>5
    <3>2. CASE ~(skip > 0) /\ left # 0
      <4>1. L * ClusterSize = off + (tot - left)
        BY <1>2, <2>1, <3>2
      <4> DEFINE x == L * ClusterSize
      <4>2. x = off + (tot - left) /\ e.size <= x
        BY <1>3, <4>1
      <4>. HIDE DEF x
      <4>. QED
        BY <1>1, <1>3, <3>2, <4>2
    <3>. QED
      BY <3>1, <3>2
  <2>. QED
    BY <1>1, <1>5, <2>1, <2>2 DEF n
<1>7. CASE i + 1 < L
  <2>1. n < EndMark /\ n >= 2 /\ Cluster(e.start, n, i + 1)
    BY <1>4, <1>7
  <2>2. ASSUME skip > 1 PROVE CopyChain(e, off, tot, n, skip - 1, at, left, out)
    <3>1. /\ i + skip = off \div ClusterSize /\ at = off % ClusterSize /\ left = tot /\ left > 0
      BY <1>1, <1>2, <2>2
    <3>2. (i + 1) + (skip - 1) = i + skip /\ skip - 1 \in Nat /\ skip - 1 > 0
      BY <1>1, <1>4, <2>2
    <3>3. (i + 1) + (skip - 1) = off \div ClusterSize
      BY <3>1, <3>2
    <3>. QED
      BY <1>1, <2>1, <3>1, <3>2, <3>3 DEF CopyChain
  <2>3. ASSUME skip = 1
        PROVE  at < ClusterSize /\ left > 0 /\ CopyData(e, off, tot, n, at \div SectorSize, at, left, out)
    <3> DEFINE w == off \div ClusterSize
               v == off % ClusterSize
    <3>1. i + 1 = w /\ at = v /\ left = tot /\ left > 0
      BY <1>2, <2>3
    <3>2. at \in 0 .. ClusterSize - 1 /\ off = ClusterSize * w + at /\ w \in Nat
      <4>1. v \in 0 .. ClusterSize - 1 /\ off = ClusterSize * w + v /\ w \in Nat
        BY ONLY off \in Nat, ClusterSizeIs
      <4>. HIDE DEF v, w
      <4>. QED
        BY ONLY <3>1, <4>1
    <3>3. ClusterSize * w = w * ClusterSize
      BY <3>2, ClusterSizeIs, Ring
    <3>. HIDE DEF w
    <3>4. (i + 1) * ClusterSize + at = off + (tot - left)
      <4> DEFINE x == w * ClusterSize
      <4>1. x \in Nat /\ off = x + at /\ (i + 1) * ClusterSize = x
        BY <3>1, <3>2, <3>3, ClusterSizeIs, Ring
      <4>. HIDE DEF x
      <4>. QED
        BY <1>1, <3>1, <4>1
    <3>5. at < ClusterSize
      BY <3>2, ClusterSizeIs
    <3>. QED
      BY <1>1, <2>1, <3>1, <3>2, <3>4, <3>5 DEF CopyData
  <2>4. ASSUME skip = 0, left = 0, NEW a PROVE CopyChain(e, off, tot, n, 0, a, left, out)
    <3>1. ~(0 > 0) /\ 0 \in Nat
      OBVIOUS
    <3>. QED
      BY <1>1, <2>1, <2>4, <3>1 DEF CopyChain
  <2>5. ASSUME skip = 0, left # 0
        PROVE  left > 0 /\ CopyData(e, off, tot, n, 0 \div SectorSize, 0, left, out)
    <3>1. left > 0 /\ 0 \in 0 .. ClusterSize - 1
      BY <1>1, <2>5, ClusterSizeIs
    <3>2. (i + 1) * ClusterSize = off + (tot - left)
      BY <1>2, <2>5
    <3>3. (i + 1) * ClusterSize + 0 = off + (tot - left)
      BY <1>1, <3>2
    <3>. QED
      BY <1>1, <2>1, <3>1, <3>3 DEF CopyData
  <2>. QED
    BY <1>1, <1>5, <2>1, <2>2, <2>3, <2>4, <2>5 DEF n
<1>. QED
  BY <1>6, <1>7
-----------------------------------------------------------------------------
(* The lines of tree: TreeLines is a recursive function of the number of    *)
(* levels, and each directory has one level less than the one above it.     *)

Levels == Cardinality(DirStarts)

Level(n, below) ==
  [d \in DirStarts |->
     LET es == Undotted(Directory[d])
     IN  FlattenSeq([i \in DOMAIN es |->
           <<[entry |-> es[i], depth |-> Levels - n + 1]>> \o
           (IF SubDirectory(es[i]) THEN below[es[i].start] ELSE <<>>)])]
LinesBody(k, f) == [n \in 0 .. k |-> IF n = 0 THEN [d \in DirStarts |-> <<>>] ELSE Level(n, f[n - 1])]
LinesRun == CHOOSE f : f = LinesBody(Levels, f)

LEMMA DirStartsFinite ==
  /\ IsFiniteSet(DirStarts) /\ Levels \in Nat
<1>1. DirStarts \subseteq 0 .. Cardinality(Clusters) + 1
  <2>. SUFFICES ASSUME NEW d \in DirStarts PROVE d \in 0 .. Cardinality(Clusters) + 1
    OBVIOUS
  <2>1. Cardinality(Clusters) \in Nat
    BY VolumeAssumption
  <2>2. CASE d = 0
    BY <2>1, <2>2
  <2>3. CASE d # 0
    <3>1. HeadsChain(d)
      BY <2>3, DirSectors
    <3>2. d \in Clusters
      BY <3>1, ChainFacts
    <3>. QED
      BY <2>1, <3>2, ClusterNumbers
  <2>. QED
    BY <2>2, <2>3
<1>2. IsFiniteSet(0 .. Cardinality(Clusters) + 1)
  <2>1. 0 \in Int /\ Cardinality(Clusters) + 1 \in Int
    BY VolumeAssumption
  <2>. QED
    BY <2>1, FS_Interval
<1>. QED
  BY <1>1, <1>2, FS_Subset, FS_CardinalityType DEF Levels

LEMMA LinesExist ==
  ASSUME NEW n \in Nat
  PROVE  \E f : f = LinesBody(n, f)
<1> DEFINE Has(m) == \E f : f = LinesBody(m, f)
           T == {m \in 0 .. n : Has(m)}
<1>1. 0 \in T
  <2> DEFINE f == [m \in 0 .. 0 |-> [d \in DirStarts |-> <<>>]]
  <2>1. \A m \in 0 .. 0 : m = 0
    OBVIOUS
  <2>2. f = LinesBody(0, f)
    BY <2>1 DEF LinesBody
  <2>. QED
    BY <2>2
<1>2. ASSUME NEW m \in 0 .. n - 1, m \in T PROVE m + 1 \in T
  <2>1. PICK f : f = LinesBody(m, f)
    BY <1>2
  <2> DEFINE g == [k \in 0 .. m + 1 |-> IF k = m + 1 THEN Level(m + 1, f[m]) ELSE f[k]]
  <2>2. ASSUME NEW k \in 0 .. m + 1
        PROVE  g[k] = IF k = 0 THEN [d \in DirStarts |-> <<>>] ELSE Level(k, g[k - 1])
    <3>1. m \in Nat
      OBVIOUS
    <3>2. CASE k = m + 1
      <4>1. k # 0 /\ k - 1 = m /\ m \in 0 .. m + 1 /\ m # m + 1
        BY <3>1, <3>2
      <4>2. g[k - 1] = f[m] /\ g[k] = Level(m + 1, f[m])
        BY <3>2, <4>1
      <4>. HIDE DEF g
      <4>. QED
        BY <3>2, <4>1, <4>2
    <3>3. CASE k # m + 1
      <4>1. k \in 0 .. m /\ (k # 0 => k - 1 \in 0 .. m + 1 /\ k - 1 # m + 1)
        BY <3>1, <3>3
      <4>2. g[k] = f[k] /\ (k # 0 => g[k - 1] = f[k - 1])
        BY <3>3, <4>1
      <4>3. LinesBody(m, f)[k] = IF k = 0 THEN [d \in DirStarts |-> <<>>] ELSE Level(k, f[k - 1])
        BY <4>1 DEF LinesBody
      <4>4. f[k] = IF k = 0 THEN [d \in DirStarts |-> <<>>] ELSE Level(k, f[k - 1])
        BY <2>1, <4>3
      <4>. HIDE DEF g
      <4>. QED
        BY <4>2, <4>4
    <3>. QED
      BY <3>2, <3>3
  <2>3. g = LinesBody(m + 1, g)
    BY <2>2 DEF LinesBody
  <2>4. Has(m + 1)
    <3>. HIDE DEF g
    <3>. QED
      BY <2>3
  <2>. QED
    BY <2>4
<1>3. \A m \in 0 .. n : m \in T
  <2>. HIDE DEF T
  <2>. QED
    BY <1>1, <1>2, NumberInduction
<1>. QED
  BY <1>3

LEMMA LinesAre ==
  /\ LinesRun[0] = [d \in DirStarts |-> <<>>]
  /\ \A n \in 0 .. Levels : n # 0 => LinesRun[n] = Level(n, LinesRun[n - 1])
  /\ TreeLines = LinesRun[Levels][0]
<1>1. \E f : f = LinesBody(Levels, f)
  BY DirStartsFinite, LinesExist
<1>2. LinesRun = LinesBody(Levels, LinesRun)
  BY <1>1, Zenon DEF LinesRun
<1>3. TreeLines = LinesRun[Levels][0]
  BY DEF TreeLines, LinesRun, LinesBody, Level, Levels
<1>4. Levels \in Nat
  BY DirStartsFinite
<1>5. \A n \in 0 .. Levels :
        LinesBody(Levels, LinesRun)[n] = IF n = 0 THEN [d \in DirStarts |-> <<>>] ELSE Level(n, LinesRun[n - 1])
  BY DEF LinesBody
<1>6. 0 \in 0 .. Levels
  BY <1>4
<1>. QED
  BY <1>2, <1>3, <1>5, <1>6

\* One more sequence to concatenate.
LongerBy(more, ss, b) == more = Append(ss, b)

LEMMA FlattenAppend ==
  ASSUME NEW S, NEW ss, ss \in Seq(Seq(S)), NEW b, b \in Seq(S), NEW more, LongerBy(more, ss, b)
  PROVE  /\ FlattenSeq(more) = FlattenSeq(ss) \o b
         /\ FlattenSeq(ss) \in Seq(S)
<1>a. PICK n : n = Len(ss)
  OBVIOUS
<1>b. PICK m : m = n + 1
  OBVIOUS
<1>1. /\ n \in Nat /\ more \in Seq(Seq(S)) /\ Len(more) = n + 1 /\ more[n + 1] = b
      /\ \A i \in 1 .. n : more[i] = ss[i]
  <2>1. b \in Seq(S) /\ ss \in Seq(Seq(S))
    OBVIOUS
  <2>2. more = Append(ss, b)
    BY DEF LongerBy
  <2>. QED
    BY <1>a, <2>1, <2>2, LenProperties, AppendProperties
<1>2. n \in Nat /\ Len(ss) = n /\ \A k \in 1 .. n : ss[k] \in Seq(S)
  BY <1>a, <1>1, ElementOfSeq
<1>3. m \in Nat /\ Len(more) = m /\ \A k \in 1 .. m : more[k] \in Seq(S)
  BY <1>b, <1>1, ElementOfSeq
<1>4. /\ Flat(ss)[0] = <<>>
      /\ \A k \in 0 .. n - 1 : Flat(ss)[k + 1] = Flat(ss)[k] \o ss[k + 1]
      /\ \A k \in 0 .. n : Flat(ss)[k] \in Seq(S)
  BY ONLY <1>2, FlatFacts
<1>6. /\ Flat(more)[0] = <<>>
      /\ \A k \in 0 .. m - 1 : Flat(more)[k + 1] = Flat(more)[k] \o more[k + 1]
      /\ \A k \in 0 .. m : Flat(more)[k] \in Seq(S)
  BY ONLY <1>3, FlatFacts
<1>7. m - 1 = n
  BY <1>b, <1>1
<1> DEFINE T == {k \in 0 .. n : Flat(more)[k] = Flat(ss)[k]}
<1>8. 0 \in T
  BY <1>1, <1>4, <1>6
<1>9. ASSUME NEW k \in 0 .. n - 1, k \in T PROVE k + 1 \in T
  <2>1. k + 1 \in 1 .. n /\ k + 1 \in 0 .. n /\ k \in 0 .. m - 1
    BY <1>1, <1>7
  <2>2. more[k + 1] = ss[k + 1] /\ Flat(more)[k] = Flat(ss)[k]
    BY <1>1, <1>9, <2>1
  <2>3. /\ Flat(more)[k + 1] = Flat(more)[k] \o more[k + 1]
        /\ Flat(ss)[k + 1] = Flat(ss)[k] \o ss[k + 1]
    BY <1>4, <1>6, <2>1
  <2>4. Flat(more)[k + 1] = Flat(ss)[k + 1]
    BY <2>2, <2>3
  <2>. QED
    BY <2>1, <2>4
<1>10. \A k \in 0 .. n : k \in T
  <2>. HIDE DEF T
  <2>. QED
    BY <1>1, <1>8, <1>9, NumberInduction
<1>11. Flat(more)[n] = Flat(ss)[n] /\ n \in 0 .. m - 1 /\ n \in 0 .. n
  BY <1>1, <1>7, <1>10
<1>12. Flat(more)[n + 1] = Flat(ss)[n] \o b
  BY <1>1, <1>6, <1>11
<1>13. FlattenSeq(ss) = Flat(ss)[n]
  <2>1. n \in Nat /\ ss \in Seq(Seq(S)) /\ Len(ss) = n
    BY <1>2
  <2>. QED
    BY ONLY <2>1, FlattenIs
<1>14. FlattenSeq(more) = Flat(more)[m]
  <2>1. m \in Nat /\ more \in Seq(Seq(S)) /\ Len(more) = m
    BY <1>1, <1>3
  <2>. QED
    BY ONLY <2>1, FlattenIs
<1>. QED
  BY <1>4, <1>11, <1>12, <1>13, <1>14, <1>b

LEMMA FlattenEmpty == FlattenSeq(<<>>) = <<>>
  BY DEF FlattenSeq

LEMMA FlattenType ==
  ASSUME NEW S, NEW ss \in Seq(Seq(S))
  PROVE  FlattenSeq(ss) \in Seq(S)
<1>1. PICK b : b = <<>>
  OBVIOUS
<1>2. PICK more : more = Append(ss, b)
  OBVIOUS
<1>3. b \in Seq(S)
  BY <1>1
<1>. QED
  BY <1>2, <1>3, FlattenAppend DEF LongerBy

LEMMA DirectoryType ==
  ASSUME NEW d \in DirStarts
  PROVE  Directory[d] \in Seq(AllEntries)
<1> DEFINE n == Len(SectorsOf(d))
           es == Contents(d)[n]
<1>1. n \in 0 .. n
  BY DirSectors
<1>2. es \in Seq(AllEntries)
  BY <1>1, ContentsFacts
<1>3. BeforeEnd(es) \in Seq(AllEntries)
  BY <1>2, BeforeEndIs
<1>. QED
  BY <1>3, DirectoryIs, KeptType

-----------------------------------------------------------------------------
(* How deep a directory lies, and the lines of tree for it.                 *)

IsDepth(depth) ==
  /\ depth \in [DirStarts -> 0 .. Levels - 1]
  /\ depth[0] = 0
  /\ \A d \in DirStarts : \A e \in EntriesOf(d) :
       SubDirectory(e) /\ ~IsDot(e) => depth[e.start] = depth[d] + 1
Depth == CHOOSE depth : IsDepth(depth)

LEMMA DepthIs ==
  /\ Levels \in Nat /\ Depth[0] = 0 /\ 0 \in DirStarts
  /\ \A d \in DirStarts : Depth[d] \in 0 .. Levels - 1
  /\ \A d \in DirStarts : \A e \in EntriesOf(d) :
       SubDirectory(e) /\ ~IsDot(e) => e.start \in DirStarts /\ Depth[e.start] = Depth[d] + 1
<1>1. \E depth : IsDepth(depth)
  BY TreeAssumption DEF IsDepth, Levels
<1>2. IsDepth(Depth)
  BY <1>1, Zenon DEF Depth
<1>3. ASSUME NEW d \in DirStarts, NEW e \in EntriesOf(d), SubDirectory(e)
      PROVE  e.start \in DirStarts
  BY <1>3, EntriesAreLive DEF DirStarts
<1>4. 0 \in DirStarts
  BY DEF DirStarts
<1>. QED
  BY <1>2, <1>3, <1>4, DirStartsFinite DEF IsDepth

Line(e, m) == [entry |-> e, depth |-> m]
Lines == {Line(e, m) : e \in AllEntries, m \in Int}

TreeOf(d) == LinesRun[Levels - Depth[d]][d]

\* What tree prints for the entry e of d.
Block(d, e) == <<Line(e, Depth[d] + 1)>> \o (IF SubDirectory(e) THEN TreeOf(e.start) ELSE <<>>)

Blocks(d, es) == [i \in DOMAIN es |-> Block(d, es[i])]

\* What tree prints for the live entries es of d.
LinesOf(d, es) == FlattenSeq(Blocks(d, Undotted(es)))

LEMMA DeeperStarts ==
  ASSUME NEW e \in AllEntries, SubDirectory(e)
  PROVE  e.start \in DirStarts
  BY DEF DirStarts

\* Whatever the sub-directories give, the lines of an entry are lines.
LEMMA BlockType ==
  ASSUME NEW e \in AllEntries, NEW m \in Int, NEW below, SubDirectory(e) => below \in Seq(Lines),
         NEW lines, lines = <<Line(e, m)>> \o (IF SubDirectory(e) THEN below ELSE <<>>)
  PROVE  lines \in Seq(Lines)
<1>1. PICK x : x = Line(e, m)
  OBVIOUS
<1>2. PICK rest : rest = IF SubDirectory(e) THEN below ELSE <<>>
  OBVIOUS
<1>3. x \in Lines /\ rest \in Seq(Lines)
  BY <1>1, <1>2 DEF Lines
<1>4. lines = <<x>> \o rest
  BY <1>1, <1>2
<1>. QED
  BY ONLY <1>3, <1>4

LEMMA LinesType ==
  \A n \in 0 .. Levels : \A d \in DirStarts : LinesRun[n][d] \in Seq(Lines)
<1> DEFINE T == {n \in 0 .. Levels : \A d \in DirStarts : LinesRun[n][d] \in Seq(Lines)}
<1>1. Levels \in Nat
  BY DirStartsFinite
<1>2. 0 \in T
  <2>1. \A d \in DirStarts : LinesRun[0][d] = <<>>
    BY LinesAre
  <2>2. PICK b : b = <<>>
    OBVIOUS
  <2>3. b \in Seq(Lines)
    BY <2>2
  <2>4. \A d \in DirStarts : LinesRun[0][d] \in Seq(Lines)
    BY <2>1, <2>2, <2>3
  <2>. QED
    BY <1>1, <2>4
<1>3. ASSUME NEW n \in 0 .. Levels - 1, n \in T PROVE n + 1 \in T
  <2>. SUFFICES ASSUME NEW d \in DirStarts PROVE LinesRun[n + 1][d] \in Seq(Lines)
    BY <1>1
  <2> DEFINE es == Undotted(Directory[d])
             m == Levels - (n + 1) + 1
             block(i) == <<Line(es[i], m)>> \o
                           (IF SubDirectory(es[i]) THEN LinesRun[n][es[i].start] ELSE <<>>)
             blocks == [i \in DOMAIN es |-> block(i)]
  <2>1. n + 1 \in 0 .. Levels /\ n + 1 # 0 /\ n + 1 - 1 = n /\ m \in Int
    BY <1>1
  <2>2. LinesRun[n + 1] = Level(n + 1, LinesRun[n])
    BY <2>1, LinesAre
  <2>3. LinesRun[n + 1][d] = FlattenSeq(blocks)
    BY <2>2 DEF Level, Line
  <2>4. es \in Seq(AllEntries)
    <3>1. Directory[d] \in Seq(AllEntries)
      BY DirectoryType
    <3>. QED
      BY <3>1, KeptType DEF Undotted
  <2>. HIDE DEF es, m
  <2>5. ASSUME NEW i \in DOMAIN es PROVE block(i) \in Seq(Lines)
    <3>1. PICK e \in AllEntries : e = es[i]
      BY <2>4, LenProperties, ElementOfSeq
    <3>2. PICK below : below = LinesRun[n][e.start]
      OBVIOUS
    <3>3. SubDirectory(e) => below \in Seq(Lines)
      BY <1>3, <3>2, DeeperStarts
    <3>4. PICK lines : lines = <<Line(e, m)>> \o (IF SubDirectory(e) THEN below ELSE <<>>)
      OBVIOUS
    <3>5. lines \in Seq(Lines)
      BY <2>1, <3>3, <3>4, BlockType
    <3>6. block(i) = lines
      BY <3>1, <3>2, <3>4
    <3>. QED
      BY <3>5, <3>6
  <2>6. blocks \in Seq(Seq(Lines))
    <3>1. Len(es) \in Nat /\ DOMAIN es = 1 .. Len(es)
      BY <2>4, LenProperties
    <3>2. \A i \in 1 .. Len(es) : blocks[i] \in Seq(Lines)
      BY <2>5, <3>1
    <3>3. blocks = [i \in 1 .. Len(es) |-> blocks[i]]
      BY <3>1
    <3>. HIDE DEF blocks
    <3>. QED
      BY <3>1, <3>2, <3>3, IsASeq
  <2>. HIDE DEF blocks
  <2>. QED
    BY <2>3, <2>6, FlattenType
<1>4. \A n \in 0 .. Levels : n \in T
  <2>. HIDE DEF T
  <2>. QED
    BY <1>1, <1>2, <1>3, NumberInduction
<1>. QED
  BY <1>4

LEMMA TreeType ==
  ASSUME NEW d \in DirStarts
  PROVE  TreeOf(d) \in Seq(Lines)
<1>1. PICK n : n = Levels - Depth[d]
  OBVIOUS
<1>2. n \in 0 .. Levels
  BY <1>1, DepthIs
<1>. QED
  BY <1>1, <1>2, LinesType DEF TreeOf

LEMMA BlockIs ==
  ASSUME NEW d \in DirStarts, NEW e \in AllEntries
  PROVE  Block(d, e) \in Seq(Lines)
<1>1. PICK m : m = Depth[d] + 1
  OBVIOUS
<1>2. PICK below : below = TreeOf(e.start)
  OBVIOUS
<1>3. m \in Int /\ (SubDirectory(e) => below \in Seq(Lines))
  BY <1>1, <1>2, DepthIs, DeeperStarts, TreeType
<1>4. PICK lines : lines = <<Line(e, m)>> \o (IF SubDirectory(e) THEN below ELSE <<>>)
  OBVIOUS
<1>5. lines \in Seq(Lines)
  BY <1>3, <1>4, BlockType
<1>6. Block(d, e) = lines
  BY <1>1, <1>2, <1>4 DEF Block
<1>. QED
  BY <1>5, <1>6

LEMMA BlocksType ==
  ASSUME NEW d \in DirStarts, NEW es, es \in Seq(AllEntries)
  PROVE  /\ Blocks(d, es) \in Seq(Seq(Lines))
         /\ Len(Blocks(d, es)) = Len(es) /\ Len(es) \in Nat
         /\ \A i \in 1 .. Len(es) : Blocks(d, es)[i] = Block(d, es[i])
<1> DEFINE n == Len(es)
           bs == Blocks(d, es)
<1>1. n \in Nat /\ DOMAIN es = 1 .. n
  BY LenProperties
<1>2. \A i \in 1 .. n : es[i] \in AllEntries
  BY <1>1, ElementOfSeq
<1>3. bs = [i \in 1 .. n |-> Block(d, es[i])]
  BY <1>1 DEF Blocks
<1>. HIDE DEF bs, n
<1>4. \A i \in 1 .. n : bs[i] = Block(d, es[i]) /\ bs[i] \in Seq(Lines)
  BY <1>2, <1>3, BlockIs
<1>5. bs = [i \in 1 .. n |-> bs[i]]
  BY <1>3, <1>4
<1>6. bs \in Seq(Seq(Lines))
  BY <1>1, <1>4, <1>5, IsASeq
<1>7. DOMAIN bs = 1 .. n
  BY <1>3
<1>8. Len(bs) = n
  BY <1>1, <1>6, <1>7, LenProperties
<1>. QED
  BY <1>1, <1>4, <1>6, <1>8 DEF bs, n

LEMMA LinesOfType ==
  ASSUME NEW d \in DirStarts, NEW es, es \in Seq(AllEntries)
  PROVE  LinesOf(d, es) \in Seq(Lines)
<1>1. PICK us : us = Undotted(es)
  OBVIOUS
<1>2. us \in Seq(AllEntries)
  BY <1>1, KeptType DEF Undotted
<1>3. PICK bs : bs = Blocks(d, us)
  OBVIOUS
<1>4. bs \in Seq(Seq(Lines))
  BY <1>2, <1>3, BlocksType
<1>5. FlattenSeq(bs) \in Seq(Lines)
  BY <1>4, FlattenType
<1>. QED
  BY <1>1, <1>3, <1>5 DEF LinesOf

\* The lines of no entries, and of one more.
LEMMA LinesOfNone ==
  ASSUME NEW d, NEW es, es = <<>>
  PROVE  LinesOf(d, es) = <<>>
<1>1. Undotted(es) = <<>>
  BY KeptEmpty DEF Undotted
<1>2. Blocks(d, Undotted(es)) = <<>>
  BY <1>1 DEF Blocks
<1>. QED
  BY <1>2, FlattenEmpty DEF LinesOf

LEMMA LinesOfMore ==
  ASSUME NEW d \in DirStarts, NEW es, es \in Seq(AllEntries), NEW x \in AllEntries,
         NEW more, more = Append(es, x)
  PROVE  /\ IsDot(x) => LinesOf(d, more) = LinesOf(d, es)
         /\ ~IsDot(x) => LinesOf(d, more) = LinesOf(d, es) \o Block(d, x)
<1>1. PICK us : us = Undotted(es)
  OBVIOUS
<1>2. PICK vs : vs = Undotted(more)
  OBVIOUS
<1>3. us \in Seq(AllEntries)
  BY <1>1, KeptType DEF Undotted
<1>4. vs = IF x \in AllUndotted THEN Append(us, x) ELSE us
  BY <1>1, <1>2, KeptAppend DEF Undotted
<1>5. x \in AllUndotted <=> ~IsDot(x)
  BY DEF AllUndotted
<1>6. CASE IsDot(x)
  BY <1>1, <1>2, <1>4, <1>5, <1>6 DEF LinesOf
<1>7. CASE ~IsDot(x)
  <2>1. vs = Append(us, x)
    BY <1>4, <1>5, <1>7
  <2>2. vs \in Seq(AllEntries) /\ Len(us) \in Nat /\ Len(vs) = Len(us) + 1 /\ vs[Len(us) + 1] = x
        /\ \A i \in 1 .. Len(us) : vs[i] = us[i]
    BY <1>3, <2>1, LenProperties, AppendProperties
  <2>3. PICK n : n = Len(us)
    OBVIOUS
  <2>4. PICK bs : bs = Blocks(d, us)
    OBVIOUS
  <2>5. PICK cs : cs = Blocks(d, vs)
    OBVIOUS
  <2>6. PICK b : b = Block(d, x)
    OBVIOUS
  <2>7. /\ bs \in Seq(Seq(Lines)) /\ Len(bs) = n /\ n \in Nat
        /\ \A i \in 1 .. n : bs[i] = Block(d, us[i])
    BY <1>3, <2>3, <2>4, BlocksType
  <2>8. /\ cs \in Seq(Seq(Lines)) /\ Len(cs) = n + 1
        /\ \A i \in 1 .. n + 1 : cs[i] = Block(d, vs[i])
    BY <2>2, <2>3, <2>5, BlocksType
  <2>9. b \in Seq(Lines)
    BY <2>6, BlockIs
  <2>10. PICK ds : ds = Append(bs, b)
    OBVIOUS
  <2>11. /\ ds \in Seq(Seq(Lines)) /\ Len(ds) = n + 1 /\ ds[n + 1] = b
         /\ \A i \in 1 .. n : ds[i] = bs[i]
    BY <2>7, <2>9, <2>10, AppendProperties
  <2>12. \A i \in 1 .. n + 1 : cs[i] = ds[i]
    <3>. SUFFICES ASSUME NEW i \in 1 .. n + 1 PROVE cs[i] = ds[i]
      OBVIOUS
    <3>1. CASE i = n + 1
      BY <2>2, <2>3, <2>6, <2>8, <2>11, <3>1
    <3>2. CASE i # n + 1
      <4>1. i \in 1 .. n
        BY <2>7, <3>2
      <4>. QED
        BY <2>2, <2>3, <2>7, <2>8, <2>11, <4>1
    <3>. QED
      BY <3>1, <3>2
  <2>13. cs = ds
    BY <2>8, <2>11, <2>12, SeqEqual
  <2>14. FlattenSeq(ds) = FlattenSeq(bs) \o b
    <3>1. bs \in Seq(Seq(Lines)) /\ b \in Seq(Lines) /\ LongerBy(ds, bs, b)
      BY <2>7, <2>9, <2>10 DEF LongerBy
    <3>. QED
      BY ONLY <3>1, FlattenAppend
  <2>. QED
    BY <1>1, <1>2, <1>7, <2>4, <2>5, <2>6, <2>13, <2>14 DEF LinesOf
<1>. QED
  BY <1>6, <1>7

\* A directory's lines are those of its entries, all of them.
LEMMA TreeIs ==
  ASSUME NEW d \in DirStarts
  PROVE  TreeOf(d) = LinesOf(d, Directory[d])
<1> DEFINE n == Levels - Depth[d]
           es == Undotted(Directory[d])
<1>1. /\ n \in 0 .. Levels /\ n # 0 /\ n - 1 \in 0 .. Levels /\ Levels - n + 1 = Depth[d] + 1
  BY DepthIs
<1>2. LinesRun[n] = Level(n, LinesRun[n - 1])
  BY <1>1, LinesAre
<1>3. LinesRun[n][d] =
        FlattenSeq([i \in DOMAIN es |->
          <<Line(es[i], Levels - n + 1)>> \o
          (IF SubDirectory(es[i]) THEN LinesRun[n - 1][es[i].start] ELSE <<>>)])
  BY <1>2 DEF Level, Line
<1>4. es \in Seq(AllEntries) /\ Range(es) \subseteq EntriesOf(d) \cap AllUndotted
  <2>1. Directory[d] \in Seq(AllEntries)
    BY DirectoryType
  <2>. QED
    BY <2>1, KeptType DEF Undotted, EntriesOf
<1>5. DOMAIN es = 1 .. Len(es)
  BY <1>4, LenProperties
<1>. HIDE DEF es
<1>6. ASSUME NEW i \in DOMAIN es
      PROVE  <<Line(es[i], Levels - n + 1)>> \o
               (IF SubDirectory(es[i]) THEN LinesRun[n - 1][es[i].start] ELSE <<>>) = Block(d, es[i])
  <2>1. PICK e : e = es[i]
    OBVIOUS
  <2>2. e \in EntriesOf(d) /\ ~IsDot(e)
    BY <1>4, <2>1 DEF Range, AllUndotted
  <2>3. SubDirectory(e) => Levels - Depth[e.start] = n - 1
    BY <2>2, DepthIs
  <2>4. SubDirectory(e) => TreeOf(e.start) = LinesRun[n - 1][e.start]
    BY <2>3 DEF TreeOf
  <2>5. PICK m : m = Depth[d] + 1
    OBVIOUS
  <2>6. PICK below : below = IF SubDirectory(e) THEN LinesRun[n - 1][e.start] ELSE <<>>
    OBVIOUS
  <2>7. Block(d, e) = <<Line(e, m)>> \o below
    BY <2>4, <2>5, <2>6 DEF Block
  <2>8. Levels - n + 1 = m
    BY <1>1, <2>5
  <2>. QED
    BY <2>1, <2>6, <2>7, <2>8
<1>7. [i \in DOMAIN es |->
          <<Line(es[i], Levels - n + 1)>> \o
          (IF SubDirectory(es[i]) THEN LinesRun[n - 1][es[i].start] ELSE <<>>)] = Blocks(d, es)
  BY <1>6 DEF Blocks
<1>. QED
  BY <1>3, <1>7 DEF TreeOf, LinesOf, es

LEMMA TreeLinesAre == TreeLines = TreeOf(0)
<1>1. Levels - Depth[0] = Levels
  BY DepthIs
<1>. QED
  BY <1>1, LinesAre DEF TreeOf
-----------------------------------------------------------------------------
(* tree treats a sector entry by entry.                                     *)

Joined(x, a, b) == x = a \o b

\* The live ones of the entries before entry j.
Before(es, j) == Kept(SubSeq(es, 1, j - 1), AllLive)

\* Entry j is the next one, or there are no more, and the end mark was not seen.
Upto(es, j) == j \in 1 .. Len(es) + 1 /\ \A i \in 1 .. j - 1 : es[i].kind # "end"

Treated(d, k, es, j) == Listed(d, k) \o Before(es, j)

LEMMA BeforeFirst ==
  ASSUME NEW es
  PROVE  Before(es, 1) = <<>>
<1>1. 1 - 1 = 0 /\ 1 \in Int /\ 0 \in Int /\ 0 < 1
  OBVIOUS
<1>2. SubSeq(es, 1, 0) = <<>>
  BY <1>1, SubSeqEmpty
<1>. QED
  BY <1>1, <1>2, KeptEmpty DEF Before

LEMMA BeforeNext ==
  ASSUME NEW es, es \in Seq(AllEntries), NEW j, j \in 1 .. Len(es)
  PROVE  /\ Before(es, j) \in Seq(AllEntries)
         /\ Before(es, j + 1) = IF Live(es[j]) THEN Append(Before(es, j), es[j]) ELSE Before(es, j)
<1> DEFINE n == Len(es)
<1>1. n \in Nat /\ j \in Int /\ j - 1 \in Int /\ j + 1 - 1 = j /\ 1 \in Int /\ es[j] \in AllEntries
  BY ElementOfSeq, LenProperties
<1>2. PICK a : a = SubSeq(es, 1, j - 1)
  OBVIOUS
<1>3. PICK b : b = SubSeq(es, 1, j)
  OBVIOUS
<1>4. PICK x : x = es[j]
  OBVIOUS
<1>5. PICK m : m = j - 1
  OBVIOUS
<1>6. m \in Int /\ a = SubSeq(es, 1, m) /\ \A i \in 1 .. m : es[i] \in AllEntries
  BY <1>1, <1>2, <1>5, ElementOfSeq
<1>7. a \in Seq(AllEntries)
  BY <1>6, SubSeqProperties
<1>8. b = Append(a, x)
  <2>1. 1 \in 1 .. n /\ j \in 1 .. n
    BY <1>1
  <2>2. b = a \o <<x>>
    BY <1>2, <1>3, <1>4, <2>1, SubSeqRecursiveSecond
  <2>3. x \in AllEntries
    BY <1>1, <1>4
  <2>4. a \o <<x>> = Append(a, x)
    BY ONLY <1>7, <2>3
  <2>. QED
    BY <2>2, <2>4
<1>9. Kept(b, AllLive) = IF x \in AllLive THEN Append(Kept(a, AllLive), x) ELSE Kept(a, AllLive)
  <2>1. a \in Seq(AllEntries) /\ x \in AllEntries
    BY <1>1, <1>4, <1>7
  <2>. QED
    BY <1>8, <2>1, KeptAppend
<1>10. x \in AllLive <=> Live(es[j])
  BY <1>1, <1>4 DEF AllLive
<1>11. Before(es, j) = Kept(a, AllLive) /\ Before(es, j + 1) = Kept(b, AllLive)
  BY <1>1, <1>2, <1>3 DEF Before
<1>12. Kept(a, AllLive) \in Seq(AllEntries)
  BY <1>7, KeptType
<1>. QED
  BY <1>4, <1>9, <1>10, <1>11, <1>12

LEMMA BeforeAll ==
  ASSUME NEW es, es \in Seq(AllEntries)
  PROVE  Before(es, Len(es) + 1) = Kept(es, AllLive)
<1>1. PICK n : n = Len(es)
  OBVIOUS
<1>2. PICK m : m = n + 1
  OBVIOUS
<1>3. m - 1 = n
  BY <1>1, <1>2, LenProperties
<1>4. SubSeq(es, 1, m - 1) = es
  BY <1>1, <1>3, SubSeqFull
<1>. QED
  BY <1>1, <1>2, <1>4 DEF Before

LEMMA BeforeEndMark ==
  ASSUME NEW es, es \in Seq(AllEntries), NEW j, j \in 1 .. Len(es), Upto(es, j), es[j].kind = "end"
  PROVE  Before(es, j) = Kept(BeforeEnd(es), AllLive)
<1>1. PICK m : m = j - 1
  OBVIOUS
<1>2. /\ m \in 0 .. Len(es) /\ m + 1 = j
      /\ \A i \in 1 .. m : es[i].kind # "end"
      /\ m < Len(es) => es[m + 1].kind = "end"
  BY <1>1, LenProperties DEF Upto
<1>3. Cut(es) = m
  BY <1>2, CutUnique
<1>4. BeforeEnd(es) = SubSeq(es, 1, m)
  BY <1>3, CutIs
<1>. QED
  BY <1>1, <1>4 DEF Before

LEMMA SectorEntries ==
  ASSUME NEW d, NEW c, NEW s, NEW k, Spot(d, c, s, k), NEW es, es = Entries(SectorLba(c, s))
  PROVE  /\ es \in Seq(AllEntries) /\ Len(es) \in Nat /\ DOMAIN es = 1 .. Len(es)
         /\ Ended(SectorLba(c, s)) <=> \E i \in 1 .. Len(es) : es[i].kind = "end"
<1>1. SectorLba(c, s) \in DOMAIN Dir
  BY SpotSector
<1>2. es = Dir[SectorLba(c, s)]
  BY <1>1 DEF Entries
<1>3. es \in Seq(AllEntries)
  BY <1>1, <1>2, VolumeAssumption
<1>4. Len(es) \in Nat /\ DOMAIN es = 1 .. Len(es)
  BY <1>3, LenProperties
<1>. QED
  BY <1>3, <1>4 DEF Ended

(* What was treated when a sector begins, goes on and ends.                 *)
LEMMA TreatedFirst ==
  ASSUME NEW d, NEW c, NEW s, NEW k, Spot(d, c, s, k), NEW es
  PROVE  Treated(d, k, es, 1) = Listed(d, k) /\ Listed(d, k) \in Seq(AllEntries)
<1>1. PICK a : a = Listed(d, k)
  OBVIOUS
<1>2. a \in Seq(AllEntries)
  BY <1>1, SpotSector, ListedFacts
<1>3. a \o <<>> = a
  BY <1>2, ConcatEmptySeq
<1>. QED
  BY <1>1, <1>2, <1>3, BeforeFirst DEF Treated

LEMMA TreatedNext ==
  ASSUME NEW d, NEW c, NEW s, NEW k, Spot(d, c, s, k), NEW es, es = Entries(SectorLba(c, s)),
         NEW j, j \in 1 .. Len(es)
  PROVE  /\ Treated(d, k, es, j) \in Seq(AllEntries)
         /\ Live(es[j]) => Treated(d, k, es, j + 1) = Append(Treated(d, k, es, j), es[j])
         /\ ~Live(es[j]) => Treated(d, k, es, j + 1) = Treated(d, k, es, j)
<1>1. es \in Seq(AllEntries)
  BY SectorEntries
<1>2. PICK a : a = Listed(d, k)
  OBVIOUS
<1>3. PICK b : b = Before(es, j)
  OBVIOUS
<1>4. PICK x : x = es[j]
  OBVIOUS
<1>5. /\ a \in Seq(AllEntries) /\ b \in Seq(AllEntries) /\ x \in AllEntries
  BY <1>1, <1>2, <1>3, <1>4, TreatedFirst, BeforeNext, ElementOfSeq
<1>6. Before(es, j + 1) = IF Live(x) THEN Append(b, x) ELSE b
  BY <1>1, <1>3, <1>4, BeforeNext
<1>7. a \o Append(b, x) = Append(a \o b, x) /\ a \o b \in Seq(AllEntries)
  BY <1>5, ConcatAppend, ConcatProperties
<1>. QED
  BY <1>2, <1>3, <1>4, <1>6, <1>7 DEF Treated

LEMMA TreatedSector ==
  ASSUME NEW d, NEW c, NEW s, NEW k, Spot(d, c, s, k), NEW es, es = Entries(SectorLba(c, s)),
         NEW j, Upto(es, j)
  PROVE  /\ j > Len(es) => /\ ~Ended(SectorLba(c, s))
                           /\ Treated(d, k, es, j) = Listed(d, k + 1)
         /\ j \in 1 .. Len(es) /\ es[j].kind = "end" =>
              Treated(d, k, es, j) = Directory[d]
<1> DEFINE lba == SectorLba(c, s)
           n == Len(SectorsOf(d))
<1>1. /\ SectorsOf(d)[k + 1] = lba /\ lba \in DOMAIN Dir /\ d \in DirStarts /\ k < n /\ NoEnd(d, k)
      /\ k \in 0 .. n - 1 /\ k \in 0 .. n
  BY SpotSector
<1>2. /\ es \in Seq(AllEntries) /\ Len(es) \in Nat /\ DOMAIN es = 1 .. Len(es) /\ es = Dir[lba]
      /\ (Ended(lba) <=> \E i \in 1 .. Len(es) : es[i].kind = "end")
  BY <1>1, SectorEntries, DirectoryOnVolume
<1>3. j \in 1 .. Len(es) + 1 /\ \A i \in 1 .. j - 1 : es[i].kind # "end"
  BY DEF Upto
<1>4. CASE j > Len(es)
  <2>1. j = Len(es) + 1
    BY <1>2, <1>3, <1>4
  <2>2. ~Ended(lba)
    BY <1>2, <1>3, <2>1
  <2>3. Before(es, j) = LiveEntries(lba)
    BY <1>1, <1>2, <2>1, <2>2, BeforeAll, SectorLive
  <2>4. Listed(d, k + 1) = Listed(d, k) \o LiveEntries(lba)
    BY <1>1, <2>2, ListedFacts
  <2>. QED
    BY <1>2, <1>4, <2>2, <2>3, <2>4 DEF Treated
<1>5. CASE j \in 1 .. Len(es) /\ es[j].kind = "end"
  <2>1. Ended(lba)
    BY <1>2, <1>5
  <2>2. Before(es, j) = LiveEntries(lba)
    BY <1>1, <1>2, <1>5, BeforeEndMark, SectorLive
  <2>3. Directory[d] = Listed(d, k) \o LiveEntries(lba)
    BY <1>1, <2>1, DirectoryFrom
  <2>. QED
    BY <1>2, <1>5, <2>2, <2>3 DEF Treated
<1>. QED
  BY <1>4, <1>5
-----------------------------------------------------------------------------
(* The recursion of tree.  Directory at[i] is the one at depth i on the way *)
(* from the root to the directory that is being scanned, and pre[i] what    *)
(* was printed before its scan began.  When the frame f is left again, what *)
(* was printed is what the caller's directory d has to show up to there.    *)

Held(f, d, pre, below, printed) ==
  /\ DOMAIN f = {"c", "s", "j", "saved_sector"}
  /\ f.saved_sector = SectorLba(f.c, f.s)
  /\ \E k : /\ Spot(d, f.c, f.s, k)
            /\ Upto(Entries(f.saved_sector), f.j)
            /\ printed \o TreeOf(below) = pre \o LinesOf(d, Treated(d, k, Entries(f.saved_sector), f.j))

Descent(stack, at, pre) ==
  /\ \E S : stack \in Seq(S)
  /\ at \in [Nat -> DirStarts] /\ pre \in [Nat -> Seq(Lines)]
  /\ at[0] = 0 /\ pre[0] = <<>>
  /\ \A i \in 0 .. Len(stack) : Depth[at[i]] = i
  /\ \A i \in 1 .. Len(stack) : Held(stack[i], at[i - 1], pre[i - 1], at[i], pre[i])

\* The entries lives of d have been treated, with everything below them.
TreeSo(stack, out, d, lives) ==
  \E at, pre : /\ Descent(stack, at, pre)
               /\ d = at[Len(stack)]
               /\ out = pre[Len(stack)] \o LinesOf(d, lives)

LEMMA DescentNow ==
  ASSUME NEW stack, NEW at, NEW pre, Descent(stack, at, pre), NEW n, n = Len(stack)
  PROVE  /\ n \in Nat /\ at[n] \in DirStarts /\ pre[n] \in Seq(Lines) /\ Depth[at[n]] = n
<1>1. PICK S : stack \in Seq(S)
  BY DEF Descent
<1>2. n \in Nat /\ n \in 0 .. n
  BY <1>1, LenProperties
<1>. QED
  BY <1>2 DEF Descent

LEMMA TreeSoType ==
  ASSUME NEW stack, NEW out, NEW d, NEW lives, TreeSo(stack, out, d, lives), lives \in Seq(AllEntries)
  PROVE  d \in DirStarts /\ out \in Seq(Lines) /\ Len(stack) \in Nat /\ Depth[d] = Len(stack)
<1>1. PICK at, pre : /\ Descent(stack, at, pre)
                     /\ d = at[Len(stack)]
                     /\ out = pre[Len(stack)] \o LinesOf(d, lives)
  BY DEF TreeSo
<1>2. PICK n : n = Len(stack)
  OBVIOUS
<1>3. PICK a : a = pre[n]
  OBVIOUS
<1>4. PICK b : b = LinesOf(d, lives)
  OBVIOUS
<1>5. n \in Nat /\ d \in DirStarts /\ a \in Seq(Lines) /\ Depth[d] = n
  BY <1>1, <1>2, <1>3, DescentNow
<1>6. b \in Seq(Lines)
  BY <1>4, <1>5, LinesOfType
<1>7. a \o b \in Seq(Lines)
  BY <1>5, <1>6, ConcatProperties
<1>. QED
  BY <1>1, <1>2, <1>3, <1>4, <1>5, <1>7

LEMMA TreeBegins ==
  ASSUME NEW stack, stack = <<>>, NEW out, out = <<>>
  PROVE  TreeSo(stack, out, 0, Listed(0, 0))
<1> DEFINE at == [i \in Nat |-> 0]
           pre == [i \in Nat |-> out]
<1>1. 0 \in DirStarts /\ Depth[0] = 0
  BY DepthIs
<1>2. out \in Seq(Lines) /\ stack \in Seq(Lines) /\ Len(stack) = 0
  OBVIOUS
<1>3. at \in [Nat -> DirStarts] /\ pre \in [Nat -> Seq(Lines)] /\ at[0] = 0 /\ pre[0] = out
  BY <1>1, <1>2
<1>. HIDE DEF at, pre
<1>4. Descent(stack, at, pre)
  <2>1. \A i \in 0 .. Len(stack) : Depth[at[i]] = i
    BY <1>1, <1>2, <1>3
  <2>2. \A i \in 1 .. Len(stack) : FALSE
    BY <1>2
  <2>. QED
    BY <1>2, <1>3, <2>1, <2>2 DEF Descent
<1>5. LinesOf(0, Listed(0, 0)) = <<>>
  <2>1. Listed(0, 0) = <<>>
    BY <1>1, ListedFacts
  <2>. QED
    BY <2>1, LinesOfNone
<1>6. out \o <<>> = out
  BY <1>2, ConcatEmptySeq
<1>. QED
  BY <1>2, <1>3, <1>4, <1>5, <1>6 DEF TreeSo

LEMMA TreeSkips ==
  ASSUME NEW stack, NEW out, NEW d, NEW lives, TreeSo(stack, out, d, lives), lives \in Seq(AllEntries),
         NEW x \in AllEntries, IsDot(x), NEW more, more = Append(lives, x)
  PROVE  TreeSo(stack, out, d, more)
<1>1. d \in DirStarts
  BY TreeSoType
<1>2. LinesOf(d, more) = LinesOf(d, lives)
  BY <1>1, LinesOfMore
<1>. QED
  BY <1>2 DEF TreeSo

\* An entry x printed after b, with what is below it (t) if it is a directory.
IsBlock(block, x, t) == block = <<x>> \o t

\* What was printed, with t still to come, is a, b and the block.
Prints(longer, t, a, b, block) == longer \o t = a \o (b \o block)

LEMMA OneMore ==
  ASSUME NEW S, NEW a, a \in Seq(S), NEW b, b \in Seq(S), NEW x, x \in S, NEW t, t \in Seq(S),
         NEW out, Joined(out, a, b), NEW longer, LongerBy(longer, out, x),
         NEW block, IsBlock(block, x, t)
  PROVE  longer \in Seq(S) /\ Prints(longer, t, a, b, block)
<1>1. PICK u : u = <<x>>
  OBVIOUS
<1>2. out = a \o b /\ longer = Append(out, x) /\ block = u \o t
  BY <1>1 DEF Joined, LongerBy, IsBlock
<1>3. u \in Seq(S) /\ out \in Seq(S)
  BY <1>1, <1>2, ConcatProperties
<1>4. longer = out \o u /\ longer \in Seq(S)
  BY ONLY <1>1, <1>2, <1>3
<1>5. block \in Seq(S)
  BY <1>2, <1>3, ConcatProperties
<1>6. longer \o t = out \o block
  <2>1. out \in Seq(S) /\ u \in Seq(S) /\ t \in Seq(S)
    BY <1>3
  <2>2. (out \o u) \o t = out \o (u \o t)
    BY ONLY <2>1, ConcatThree
  <2>. QED
    BY <1>2, <1>4, <2>2
<1>7. (a \o b) \o block = a \o (b \o block)
  <2>1. a \in Seq(S) /\ b \in Seq(S) /\ block \in Seq(S)
    BY <1>5
  <2>. QED
    BY ONLY <2>1, ConcatThree
<1>. QED
  BY <1>2, <1>4, <1>6, <1>7 DEF Prints

LEMMA BlockOf ==
  ASSUME NEW d \in DirStarts, NEW x \in AllEntries, NEW line, line = Line(x, Depth[d] + 1),
         NEW t, t = IF SubDirectory(x) THEN TreeOf(x.start) ELSE <<>>
  PROVE  line \in Lines /\ IsBlock(Block(d, x), line, t)
<1>1. Depth[d] + 1 \in Int
  BY DepthIs
<1>2. line \in Lines
  BY <1>1 DEF Lines
<1>3. Block(d, x) = <<line>> \o t
  BY DEF Block
<1>. QED
  BY <1>2, <1>3 DEF IsBlock

LEMMA TreePrints ==
  ASSUME NEW stack, NEW out, NEW d, NEW lives, TreeSo(stack, out, d, lives), lives \in Seq(AllEntries),
         NEW x \in AllEntries, ~IsDot(x), ~SubDirectory(x), NEW more, more = Append(lives, x),
         NEW longer, longer = Append(out, Line(x, Len(stack) + 1))
  PROVE  TreeSo(stack, longer, d, more)
<1>1. PICK at, pre : /\ Descent(stack, at, pre)
                     /\ d = at[Len(stack)]
                     /\ out = pre[Len(stack)] \o LinesOf(d, lives)
  BY DEF TreeSo
<1>2. PICK n : n = Len(stack)
  OBVIOUS
<1>3. PICK a : a = pre[n]
  OBVIOUS
<1>4. PICK b : b = LinesOf(d, lives)
  OBVIOUS
<1>5. n \in Nat /\ d \in DirStarts /\ a \in Seq(Lines) /\ Depth[d] = n
  BY <1>1, <1>2, <1>3, DescentNow
<1>6. PICK line : line = Line(x, n + 1)
  OBVIOUS
<1>7. PICK t : t = <<>>
  OBVIOUS
<1>8. PICK block : block = Block(d, x)
  OBVIOUS
<1>9. LinesOf(d, more) = b \o block
  BY <1>4, <1>5, <1>8, LinesOfMore
<1>10. /\ a \in Seq(Lines) /\ b \in Seq(Lines) /\ line \in Lines /\ t \in Seq(Lines)
       /\ Joined(out, a, b) /\ LongerBy(longer, out, line) /\ IsBlock(block, line, t)
  <2>1. b \in Seq(Lines)
    BY <1>4, <1>5, LinesOfType
  <2>2. line \in Lines /\ IsBlock(block, line, t)
    BY <1>5, <1>6, <1>7, <1>8, BlockOf
  <2>3. Joined(out, a, b) /\ LongerBy(longer, out, line)
    BY <1>1, <1>2, <1>3, <1>4, <1>6 DEF Joined, LongerBy
  <2>4. t \in Seq(Lines)
    BY <1>7
  <2>. QED
    BY <1>5, <2>1, <2>2, <2>3, <2>4
<1>11. longer \in Seq(Lines) /\ Prints(longer, t, a, b, block)
  BY ONLY <1>10, OneMore
<1>12. longer \o t = longer
  BY <1>7, <1>11, ConcatEmptySeq
<1>13. longer = pre[Len(stack)] \o LinesOf(d, more)
  BY <1>2, <1>3, <1>9, <1>11, <1>12 DEF Prints
<1>. QED
  BY <1>1, <1>13 DEF TreeSo

LEMMA TreeEnds ==
  ASSUME NEW stack, stack = <<>>, NEW out, NEW d, TreeSo(stack, out, d, Directory[d])
  PROVE  out = TreeLines
<1>1. PICK at, pre : /\ Descent(stack, at, pre)
                     /\ d = at[Len(stack)]
                     /\ out = pre[Len(stack)] \o LinesOf(d, Directory[d])
  BY DEF TreeSo
<1>2. Len(stack) = 0 /\ at[0] = 0 /\ pre[0] = <<>>
  BY <1>1 DEF Descent
<1>3. d = 0 /\ d \in DirStarts
  BY <1>1, <1>2, DepthIs
<1>4. PICK t : t = TreeOf(d)
  OBVIOUS
<1>5. t \in Seq(Lines) /\ t = LinesOf(d, Directory[d])
  BY <1>3, <1>4, TreeType, TreeIs
<1>6. <<>> \o t = t
  BY <1>5, ConcatEmptySeq
<1>. QED
  BY <1>1, <1>2, <1>3, <1>4, <1>5, <1>6, TreeLinesAre

LEMMA DescentGrows ==
  ASSUME NEW stack, NEW at, NEW pre, Descent(stack, at, pre), NEW n, n = Len(stack),
         NEW f, NEW d, d \in DirStarts, Depth[d] = n + 1, NEW out, out \in Seq(Lines),
         Held(f, at[n], pre[n], d, out), NEW more, LongerBy(more, stack, f)
  PROVE  \E to, had : /\ Descent(more, to, had) /\ to[Len(more)] = d /\ had[Len(more)] = out
                      /\ Len(more) = n + 1
<1>1. PICK S : stack \in Seq(S)
  BY DEF Descent
<1>2. n \in Nat
  BY <1>1, LenProperties
<1>3. PICK T : stack \in Seq(T) /\ f \in T
  <2> DEFINE T == S \cup {f}
  <2>1. S \subseteq T /\ f \in T
    OBVIOUS
  <2>. HIDE DEF T
  <2>2. stack \in Seq(T)
    BY <1>1, <2>1, SeqMonotonic
  <2>. QED
    BY <2>1, <2>2
<1>4. more \in Seq(T) /\ Len(more) = n + 1 /\ more[n + 1] = f /\ \A i \in 1 .. n : more[i] = stack[i]
  BY <1>3, AppendProperties DEF LongerBy
<1> DEFINE to == [i \in Nat |-> IF i = n + 1 THEN d ELSE at[i]]
           had == [i \in Nat |-> IF i = n + 1 THEN out ELSE pre[i]]
<1>5. /\ at \in [Nat -> DirStarts] /\ pre \in [Nat -> Seq(Lines)] /\ at[0] = 0 /\ pre[0] = <<>>
      /\ \A i \in 0 .. n : Depth[at[i]] = i
      /\ \A i \in 1 .. n : Held(stack[i], at[i - 1], pre[i - 1], at[i], pre[i])
  BY DEF Descent
<1>6. to \in [Nat -> DirStarts] /\ had \in [Nat -> Seq(Lines)]
  BY <1>5
<1>7. n + 1 \in Nat /\ to[n + 1] = d /\ had[n + 1] = out
  BY <1>2
<1>8. \A i \in 0 .. n : to[i] = at[i] /\ had[i] = pre[i]
  BY <1>2
<1>. HIDE DEF to, had
<1>9. ASSUME NEW i \in 0 .. n + 1 PROVE Depth[to[i]] = i
  <2>1. CASE i = n + 1
    BY <1>7, <2>1
  <2>2. CASE i # n + 1
    <3>1. i \in 0 .. n
      BY <1>2, <2>2
    <3>. QED
      BY <1>5, <1>8, <3>1
  <2>. QED
    BY <2>1, <2>2
<1>10. ASSUME NEW i \in 1 .. n + 1
       PROVE  Held(more[i], to[i - 1], had[i - 1], to[i], had[i])
  <2>1. CASE i = n + 1
    <3>1. i - 1 = n /\ n \in 0 .. n
      BY <1>2, <2>1
    <3>2. to[i - 1] = at[n] /\ had[i - 1] = pre[n] /\ to[i] = d /\ had[i] = out /\ more[i] = f
      BY <1>4, <1>7, <1>8, <2>1, <3>1
    <3>. QED
      BY <3>2
  <2>2. CASE i # n + 1
    <3>1. i \in 1 .. n /\ i \in 0 .. n /\ i - 1 \in 0 .. n
      BY <1>2, <2>2
    <3>2. to[i - 1] = at[i - 1] /\ had[i - 1] = pre[i - 1] /\ to[i] = at[i] /\ had[i] = pre[i] /\ more[i] = stack[i]
      BY <1>4, <1>8, <3>1
    <3>. QED
      BY <1>5, <3>1, <3>2
  <2>. QED
    BY <2>1, <2>2
<1>11. to[0] = 0 /\ had[0] = <<>>
  <2>1. 0 \in 0 .. n
    BY <1>2
  <2>2. to[0] = at[0] /\ had[0] = pre[0]
    BY <1>8, <2>1
  <2>. QED
    BY <1>5, <2>2
<1>12. Descent(more, to, had)
  BY <1>4, <1>6, <1>9, <1>10, <1>11 DEF Descent
<1>. QED
  BY <1>4, <1>7, <1>12

LEMMA DescentShrinks ==
  ASSUME NEW stack, NEW at, NEW pre, Descent(stack, at, pre), stack # <<>>,
         NEW fewer, fewer = Front(stack), NEW f, f = Last(stack)
  PROVE  \E m \in Nat : /\ Descent(fewer, at, pre) /\ Len(fewer) = m /\ Len(stack) = m + 1
                        /\ Held(f, at[m], pre[m], at[m + 1], pre[m + 1])
<1>1. PICK S : stack \in Seq(S)
  BY DEF Descent
<1> DEFINE n == Len(stack)
           m == n - 1
<1>2. n \in Nat /\ n >= 1 /\ m \in Nat /\ n \in 1 .. n /\ m + 1 = n
  BY <1>1, EmptySeq
<1>3. fewer = SubSeq(stack, 1, m) /\ f = stack[n]
  BY DEF Front, Last
<1>4. m <= n /\ m \in Int /\ m - 1 + 1 = m /\ \A i \in 1 .. m : i \in 1 .. n /\ 1 + i - 1 = i
  BY <1>2
<1>5. /\ \A i \in 0 .. n : Depth[at[i]] = i
      /\ \A i \in 1 .. n : Held(stack[i], at[i - 1], pre[i - 1], at[i], pre[i])
      /\ at \in [Nat -> DirStarts] /\ pre \in [Nat -> Seq(Lines)] /\ at[0] = 0 /\ pre[0] = <<>>
  BY DEF Descent
<1>. HIDE DEF m
<1>6. \A i \in 1 .. m : stack[i] \in S
  BY <1>1, <1>4, ElementOfSeq
<1>7. fewer \in Seq(S) /\ Len(fewer) = (IF 1 <= m THEN m - 1 + 1 ELSE 0)
      /\ \A i \in 1 .. m - 1 + 1 : fewer[i] = stack[1 + i - 1]
  BY <1>3, <1>4, <1>6, SubSeqProperties
<1>. HIDE DEF n
<1>8. Len(fewer) = m
  BY <1>2, <1>7
<1>9. \A i \in 1 .. m : fewer[i] = stack[i]
  BY <1>4, <1>7
<1>10. \A i \in 0 .. m : i \in 0 .. n
  BY <1>2
<1>11. Descent(fewer, at, pre)
  <2>1. \A i \in 1 .. m : Held(fewer[i], at[i - 1], pre[i - 1], at[i], pre[i])
    BY <1>4, <1>5, <1>9
  <2>2. \A i \in 0 .. m : Depth[at[i]] = i
    BY <1>5, <1>10
  <2>. QED
    BY <1>5, <1>7, <1>8, <2>1, <2>2 DEF Descent
<1>12. Held(f, at[m], pre[m], at[m + 1], pre[m + 1])
  <2>1. n - 1 = m
    BY <1>2
  <2>. QED
    BY <1>2, <1>3, <1>5, <2>1
<1>. QED
  BY <1>2, <1>8, <1>11, <1>12 DEF n

\* Into the sub-directory x, at the entry before j of the sector f remembers.
LEMMA TreeDown ==
  ASSUME NEW stack, NEW out, NEW d, NEW lives, TreeSo(stack, out, d, lives), lives \in Seq(AllEntries),
         NEW x \in EntriesOf(d), ~IsDot(x), SubDirectory(x), NEW more, more = Append(lives, x),
         NEW f, DOMAIN f = {"c", "s", "j", "saved_sector"}, f.saved_sector = SectorLba(f.c, f.s),
         NEW k, Spot(d, f.c, f.s, k), Upto(Entries(f.saved_sector), f.j),
         more = Treated(d, k, Entries(f.saved_sector), f.j),
         NEW deeper, deeper = Append(stack, f),
         NEW longer, longer = Append(out, Line(x, Len(stack) + 1)), NEW e, e = x.start
  PROVE  TreeSo(deeper, longer, e, Listed(e, 0)) /\ e \in DirStarts
<1>1. PICK at, pre : /\ Descent(stack, at, pre)
                     /\ d = at[Len(stack)]
                     /\ out = pre[Len(stack)] \o LinesOf(d, lives)
  BY DEF TreeSo
<1>2. PICK n : n = Len(stack)
  OBVIOUS
<1>3. PICK a : a = pre[n]
  OBVIOUS
<1>4. PICK b : b = LinesOf(d, lives)
  OBVIOUS
<1>5. n \in Nat /\ d \in DirStarts /\ a \in Seq(Lines) /\ Depth[d] = n
  BY <1>1, <1>2, <1>3, DescentNow
<1>6. PICK line : line = Line(x, n + 1)
  OBVIOUS
<1>7. e \in DirStarts /\ Depth[e] = n + 1 /\ x \in AllEntries
  BY <1>5, DepthIs, EntriesAreLive
<1>8. PICK t : t = TreeOf(e)
  OBVIOUS
<1>9. t \in Seq(Lines)
  BY <1>7, <1>8, TreeType
<1>10. PICK block : block = Block(d, x)
  OBVIOUS
<1>11. LinesOf(d, more) = b \o block
  <2>1. d \in DirStarts /\ lives \in Seq(AllEntries) /\ x \in AllEntries /\ more = Append(lives, x) /\ ~IsDot(x)
    BY <1>5, <1>7
  <2>2. LinesOf(d, more) = LinesOf(d, lives) \o Block(d, x)
    BY ONLY <2>1, LinesOfMore
  <2>. QED
    BY <1>4, <1>10, <2>2
<1>12. /\ a \in Seq(Lines) /\ b \in Seq(Lines) /\ line \in Lines /\ t \in Seq(Lines)
       /\ Joined(out, a, b) /\ LongerBy(longer, out, line) /\ IsBlock(block, line, t)
  <2>1. b \in Seq(Lines)
    BY <1>4, <1>5, LinesOfType
  <2>2. line = Line(x, Depth[d] + 1) /\ t = IF SubDirectory(x) THEN TreeOf(x.start) ELSE <<>>
    BY <1>5, <1>6, <1>8
  <2>3. line \in Lines /\ IsBlock(block, line, t)
    BY <1>5, <1>7, <1>10, <2>2, BlockOf
  <2>4. Joined(out, a, b) /\ LongerBy(longer, out, line)
    BY <1>1, <1>2, <1>3, <1>4, <1>6 DEF Joined, LongerBy
  <2>. QED
    BY <1>5, <1>9, <2>1, <2>3, <2>4
<1>13. longer \in Seq(Lines) /\ Prints(longer, t, a, b, block)
  BY ONLY <1>12, OneMore
<1>14. longer \o TreeOf(e) = a \o LinesOf(d, more)
  BY <1>8, <1>11, <1>13 DEF Prints
<1>15. Held(f, at[n], pre[n], e, longer)
  BY <1>1, <1>2, <1>3, <1>14 DEF Held
<1>16. PICK to, had : /\ Descent(deeper, to, had) /\ to[Len(deeper)] = e /\ had[Len(deeper)] = longer
  <2>1. /\ Descent(stack, at, pre) /\ n = Len(stack) /\ e \in DirStarts /\ Depth[e] = n + 1
        /\ longer \in Seq(Lines) /\ Held(f, at[n], pre[n], e, longer) /\ LongerBy(deeper, stack, f)
    BY <1>1, <1>2, <1>7, <1>13, <1>15 DEF LongerBy
  <2>. QED
    BY ONLY <2>1, DescentGrows
<1>17. longer = longer \o LinesOf(e, Listed(e, 0))
  <2>1. Listed(e, 0) = <<>>
    BY <1>7, ListedFacts
  <2>2. LinesOf(e, Listed(e, 0)) = <<>>
    BY <2>1, LinesOfNone
  <2>. QED
    BY <1>13, <2>2, ConcatEmptySeq
<1>. QED
  BY <1>7, <1>16, <1>17 DEF TreeSo

\* Back in the directory above, at the entry the frame remembers.
LEMMA TreeUp ==
  ASSUME NEW stack, NEW out, NEW e, TreeSo(stack, out, e, Directory[e]), stack # <<>>,
         NEW f, f = Last(stack), NEW fewer, fewer = Front(stack)
  PROVE  /\ DOMAIN f = {"c", "s", "j", "saved_sector"} /\ f.saved_sector = SectorLba(f.c, f.s)
         /\ \E d, k : /\ Spot(d, f.c, f.s, k) /\ Upto(Entries(f.saved_sector), f.j)
                      /\ TreeSo(fewer, out, d, Treated(d, k, Entries(f.saved_sector), f.j))
<1>1. PICK at, pre : /\ Descent(stack, at, pre)
                     /\ e = at[Len(stack)]
                     /\ out = pre[Len(stack)] \o LinesOf(e, Directory[e])
  BY DEF TreeSo
<1>2. PICK m \in Nat : /\ Descent(fewer, at, pre) /\ Len(fewer) = m /\ Len(stack) = m + 1
                       /\ Held(f, at[m], pre[m], at[m + 1], pre[m + 1])
  BY <1>1, DescentShrinks
<1>3. PICK d : d = at[m]
  OBVIOUS
<1>4. e \in DirStarts
  BY <1>1, DescentNow
<1>5. TreeOf(e) = LinesOf(e, Directory[e])
  BY <1>4, TreeIs
<1>6. at[m + 1] = e /\ out = pre[m + 1] \o TreeOf(e)
  BY <1>1, <1>2, <1>5
<1>7. PICK k : /\ Spot(d, f.c, f.s, k)
               /\ Upto(Entries(f.saved_sector), f.j)
               /\ out = pre[m] \o LinesOf(d, Treated(d, k, Entries(f.saved_sector), f.j))
  BY <1>2, <1>3, <1>6 DEF Held
<1>8. TreeSo(fewer, out, d, Treated(d, k, Entries(f.saved_sector), f.j))
  BY <1>2, <1>3, <1>7 DEF TreeSo
<1>. QED
  BY <1>2, <1>7, <1>8 DEF Held
-----------------------------------------------------------------------------
(* The invariant of one call, by the place it is at: pc, or what the        *)
(* sector it is about to read is for.                                       *)

Phase(r) == IF r.pc \in {"seek", "read"} THEN r.next ELSE r.pc

Ask(prog, r) ==
  /\ Asked(prog, r.op, r.path, r.base) /\ r.offset \in Nat /\ r.size \in Nat
  /\ r.op = "cat" => r.offset = 0

Shape(r) ==
  /\ IsCall(r) /\ r.pc \in Pcs /\ r.next \in {"scan", "chain", "data"}
  /\ r.left \in Nat /\ r.result \in Results

Fresh(r) == r.out = <<>> /\ r.skip = 0 /\ r.at = 0

\* What find_in_directory is looking for.
Looked(prog, r) ==
  IF r.op = "cat" THEN r.name = r.path[1] /\ r.kind = "file"
  ELSE /\ r.dir \in DirStarts
       /\ \E k : IF r.up THEN SoughtUp(prog, r.op, r.path, r.base, r.todo, r.dir, r.name, r.kind, k)
                 ELSE Sought(prog, r.op, r.path, r.base, r.todo, r.dir, r.name, r.kind, k)

Searched(r) == IF r.op = "cat" THEN r.base ELSE r.dir

\* The k sectors before this one have been treated.
Scanning(prog, r, d, k) ==
  \/ r.task = "find" /\ Fresh(r) /\ d = Searched(r) /\ Looked(prog, r) /\ NotSeen(d, k, r.name, r.kind)
  \/ r.task = "list" /\ ListedSo(r.op, r.path, r.base, r.out, d, k)
  \/ r.task = "tree" /\ r.op = "tree" /\ TreeSo(r.stack, r.out, d, Listed(d, k))

\* In tree, the entries before entry j of this sector have been treated too.
Visiting(r, d, k) ==
  LET es == Entries(SectorLba(r.c, r.s))
  IN  r.op = "tree" /\ Upto(es, r.j) /\ TreeSo(r.stack, r.out, d, Treated(d, k, es, r.j))

\* What the path, or the name, of the call names.
MeantBy(r) == IF r.op = "cat" THEN Named(r.base, r.path[1], "file") ELSE Resolution(r.path)

Reads(r, e) ==
  /\ r.op \in {"cat", "read"} /\ IsFile(e)
  /\ r.op = "read" => r.offset < e.size
  /\ Exact => MeantBy(r) = {e}

Total(r, e) == IF r.op = "cat" THEN e.size ELSE Min({r.size, e.size - r.offset})

Answered(cw, r) ==
  /\ r.op = "tree" => r.out = TreeLines
  /\ Exact =>
       /\ r.op = "cd" => LET d == Follow(r.base, r.path)
                         IN  IF d = NoDirectory THEN r.result = "ENOENT" ELSE r.result = "ok" /\ cw = d
       /\ r.op = "getattr" /\ r.path # <<>> =>
            IF Resolution(r.path) = {} THEN r.result = "ENOENT"
            ELSE r.result = "ok" /\ {r.entry} = Resolution(r.path)
       /\ r.op \in {"read", "cat"} =>
            LET e == CHOOSE e \in MeantBy(r) : TRUE
            IN  r.out = IF MeantBy(r) = {} \/ e.kind = "dir" THEN <<>>
                        ELSE FileRange(e, r.offset, IF r.op = "cat" THEN e.size ELSE r.size)
       /\ r.op = "ls" /\ r.base # 0 => r.out = Directory[r.base]
       /\ r.op = "readdir" /\ r.result = "ok" => r.out = Undotted(Directory[Follow(0, r.path)])

ScanOK(prog, r) ==
  \E d, k : /\ Spot(d, r.c, r.s, k)
            /\ IF r.task = "tree" THEN Visiting(r, d, k) ELSE Scanning(prog, r, d, k)

\* Every entry of a directory has been treated.
Leaving(r) == r.op = "tree" /\ r.task = "tree" /\ \E d : TreeSo(r.stack, r.out, d, Directory[d])

ChainOK(prog, r) ==
  IF r.task = "copy"
    THEN \E e : Reads(r, e) /\ CopyChain(e, r.offset, Total(r, e), r.c, r.skip, r.at, r.left, r.out)
    ELSE \E d, k : Past(d, r.c, k) /\ Scanning(prog, r, d, k)

DataOK(r) ==
  /\ r.skip = 0
  /\ \E e : Reads(r, e) /\ CopyData(e, r.offset, Total(r, e), r.c, r.s, r.at, r.left, r.out)

Good(prog, cw, r) ==
  /\ Shape(r)
  /\ r.pc = "idle" => r = NoCall
  /\ r.pc # "idle" => Ask(prog, r)
  /\ r.pc = "path" => Fresh(r) /\ OnPath(r.op, r.path, r.base, r.todo, r.dir)
  /\ Phase(r) = "scan" => ScanOK(prog, r)
  /\ Phase(r) = "chain" => ChainOK(prog, r)
  /\ Phase(r) = "data" => DataOK(r)
  /\ r.pc = "leave" => Leaving(r)
  /\ r.pc = "done" => Answered(cw, r)

-----------------------------------------------------------------------------
\* What was asked does not change, and neither does what it means.
SameCall(r, q) ==
  /\ q.op = r.op /\ q.path = r.path /\ q.base = r.base /\ q.offset = r.offset /\ q.size = r.size

LEMMA ButSame ==
  ASSUME NEW fs, NEW r, NEW q, But(fs, r, q), fs \cap {"op", "path", "base", "offset", "size"} = {}
  PROVE  SameCall(r, q)
  BY DEF But, SameCall, Fields

LEMMA SameAsk ==
  ASSUME NEW prog, NEW r, NEW q, SameCall(r, q)
  PROVE  /\ Ask(prog, q) <=> Ask(prog, r)
         /\ MeantBy(q) = MeantBy(r)
         /\ \A e : (Reads(q, e) <=> Reads(r, e)) /\ Total(q, e) = Total(r, e)
<1>1. Ask(prog, q) <=> Ask(prog, r)
  BY DEF SameCall, Ask
<1>2. MeantBy(q) = MeantBy(r)
  BY DEF SameCall, MeantBy
<1>3. ASSUME NEW e PROVE (Reads(q, e) <=> Reads(r, e)) /\ Total(q, e) = Total(r, e)
  BY <1>2 DEF SameCall, Reads, Total
<1>. QED
  BY <1>1, <1>2, <1>3

(* Seek and Read change only where the call is.                             *)
LEMMA PcGood ==
  ASSUME NEW prog, NEW cw, NEW r, Good(prog, cw, r), NEW q, But({"pc", "local"}, r, q),
         r.pc \in {"seek", "read"}, q.pc \in {"read", r.next}
  PROVE  Good(prog, cw, q)
<1>1. /\ IsCall(q) /\ \A f \in Fields \ {"pc", "local"} : q[f] = r[f]
  BY DEF But
<1>2. SameCall(r, q)
  BY ButSame
<1>3. /\ q.next = r.next /\ q.task = r.task /\ q.todo = r.todo /\ q.dir = r.dir /\ q.name = r.name
      /\ q.kind = r.kind /\ q.up = r.up /\ q.c = r.c /\ q.s = r.s /\ q.j = r.j /\ q.stack = r.stack
      /\ q.skip = r.skip /\ q.at = r.at /\ q.left = r.left /\ q.result = r.result /\ q.out = r.out
  BY <1>1 DEF Fields
<1>4. /\ q.op = r.op /\ q.path = r.path /\ q.base = r.base /\ q.offset = r.offset /\ q.size = r.size
  BY <1>2 DEF SameCall
<1>5. Looked(prog, q) <=> Looked(prog, r)
  BY <1>3, <1>4 DEF Looked
<1>6. \A d, k : Scanning(prog, q, d, k) <=> Scanning(prog, r, d, k)
  BY <1>3, <1>4, <1>5 DEF Scanning, Fresh, Searched
<1>7. \A d, k : Visiting(q, d, k) <=> Visiting(r, d, k)
  BY <1>3, <1>4 DEF Visiting
<1>8. ScanOK(prog, q) <=> ScanOK(prog, r)
  BY <1>3, <1>6, <1>7 DEF ScanOK
<1>9. ChainOK(prog, q) <=> ChainOK(prog, r)
  <2>1. \A e : (Reads(q, e) <=> Reads(r, e)) /\ Total(q, e) = Total(r, e)
    BY <1>2, SameAsk
  <2>. QED
    BY <1>3, <1>4, <1>6, <2>1 DEF ChainOK
<1>10. DataOK(q) <=> DataOK(r)
  <2>1. \A e : (Reads(q, e) <=> Reads(r, e)) /\ Total(q, e) = Total(r, e)
    BY <1>2, SameAsk
  <2>. QED
    BY <1>3, <1>4, <2>1 DEF DataOK
<1>11. Phase(q) = Phase(r) /\ Phase(r) = r.next /\ q.pc \in {"read", "scan", "chain", "data"}
  BY <1>3 DEF Phase, Good, Shape
<1>12. Ask(prog, q)
  BY <1>2, SameAsk DEF Good
<1>13. Shape(q)
  BY <1>1, <1>3, <1>11 DEF Shape, Good, Pcs
<1>. QED
  BY <1>8, <1>9, <1>10, <1>11, <1>12, <1>13 DEF Good
-----------------------------------------------------------------------------
(* How a call goes on keeps the invariant.                                  *)

LEMMA DoneGood ==
  ASSUME NEW prog, NEW cw, NEW r, Shape(r), Ask(prog, r), NEW result \in Results,
         NEW q, q = Done(r, result), Answered(cw, q)
  PROVE  Good(prog, cw, q)
<1>1. q.pc = "done" /\ q.result = result /\ But({"pc", "result"}, r, q)
  BY DoneIs DEF Shape
<1>2. Ask(prog, q)
  BY <1>1, ButSame, SameAsk
<1>3. IsCall(q) /\ q.next = r.next /\ q.left = r.left
  BY <1>1 DEF But, Fields
<1>4. Shape(q)
  BY <1>1, <1>3 DEF Shape, Pcs
<1>. QED
  BY <1>1, <1>2, <1>4 DEF Good, Phase

LEMMA EnterGood ==
  ASSUME NEW prog, NEW cw, NEW r, Shape(r), Ask(prog, r), Fresh(r), NEW dir,
         OnPath(r.op, r.path, r.base, r.todo, dir), NEW q, q = Enter(r, dir)
  PROVE  Good(prog, cw, q)
<1>1. q.dir = dir /\ q.pc = "path" /\ But({"dir", "pc"}, r, q)
  BY EnterIs DEF Shape
<1>2. SameCall(r, q)
  BY <1>1, ButSame
<1>3. Ask(prog, q)
  BY <1>2, SameAsk
<1>4. /\ IsCall(q) /\ q.next = r.next /\ q.left = r.left /\ q.result = r.result /\ q.out = r.out
      /\ q.skip = r.skip /\ q.at = r.at /\ q.todo = r.todo
  BY <1>1 DEF But, Fields
<1>5. Shape(q) /\ Fresh(q)
  BY <1>1, <1>4 DEF Shape, Fresh, Pcs
<1>6. OnPath(q.op, q.path, q.base, q.todo, q.dir)
  BY <1>1, <1>2, <1>4 DEF SameCall
<1>. QED
  BY <1>1, <1>3, <1>5, <1>6 DEF Good, Phase

LEMMA ScanGood ==
  ASSUME NEW prog, NEW cw, NEW r, Shape(r), Ask(prog, r), NEW task, NEW c, NEW s,
         NEW q, q = Scan(r, task, c, s), NEW d, NEW k, Spot(d, c, s, k), Scanning(prog, q, d, k)
  PROVE  Good(prog, cw, q)
<1>1. /\ q.task = task /\ q.c = c /\ q.s = s /\ q.j = 1 /\ q.pc = "seek" /\ q.next = "scan"
      /\ But({"task", "c", "s", "j", "pc", "next"}, r, q)
  BY ScanIs DEF Shape
<1>2. Ask(prog, q)
  BY <1>1, ButSame, SameAsk
<1>3. IsCall(q) /\ q.left = r.left /\ q.result = r.result
  BY <1>1 DEF But, Fields
<1>4. Shape(q)
  BY <1>1, <1>3 DEF Shape, Pcs
<1>5. ASSUME q.task = "tree" PROVE Visiting(q, d, k)
  <2>1. PICK es : es = Entries(SectorLba(c, s))
    OBVIOUS
  <2>2. Treated(d, k, es, 1) = Listed(d, k)
    BY TreatedFirst
  <2>3. Upto(es, 1)
    BY <2>1, SectorEntries DEF Upto
  <2>4. q.op = "tree" /\ TreeSo(q.stack, q.out, d, Listed(d, k))
    BY <1>5 DEF Scanning
  <2>. QED
    BY <1>1, <2>1, <2>2, <2>3, <2>4 DEF Visiting
<1>6. ScanOK(prog, q)
  BY <1>1, <1>5 DEF ScanOK
<1>. QED
  BY <1>1, <1>2, <1>4, <1>6 DEF Good, Phase

LEMMA ChainGood ==
  ASSUME NEW prog, NEW cw, NEW r, Shape(r), Ask(prog, r), ChainOK(prog, r),
         NEW q, q = FatNextCluster(r)
  PROVE  Good(prog, cw, q)
<1>1. q.pc = "seek" /\ q.next = "chain" /\ But({"pc", "next"}, r, q)
  BY FatNextClusterIs DEF Shape
<1>2. SameCall(r, q)
  BY <1>1, ButSame
<1>3. /\ IsCall(q) /\ q.task = r.task /\ q.todo = r.todo /\ q.dir = r.dir /\ q.name = r.name
      /\ q.kind = r.kind /\ q.up = r.up /\ q.c = r.c /\ q.stack = r.stack
      /\ q.skip = r.skip /\ q.at = r.at /\ q.left = r.left /\ q.result = r.result /\ q.out = r.out
  BY <1>1 DEF But, Fields
<1>4. /\ q.op = r.op /\ q.path = r.path /\ q.base = r.base /\ q.offset = r.offset /\ q.size = r.size
  BY <1>2 DEF SameCall
<1>5. Looked(prog, q) <=> Looked(prog, r)
  BY <1>3, <1>4 DEF Looked
<1>6. \A d, k : Scanning(prog, q, d, k) <=> Scanning(prog, r, d, k)
  BY <1>3, <1>4, <1>5 DEF Scanning, Fresh, Searched
<1>7. ChainOK(prog, q)
  <2>1. \A e : (Reads(q, e) <=> Reads(r, e)) /\ Total(q, e) = Total(r, e)
    BY <1>2, SameAsk
  <2>. QED
    BY <1>3, <1>4, <1>6, <2>1 DEF ChainOK
<1>8. Ask(prog, q)
  BY <1>2, SameAsk
<1>9. Shape(q)
  BY <1>1, <1>3 DEF Shape, Pcs
<1>. QED
  BY <1>1, <1>7, <1>8, <1>9 DEF Good, Phase

(* The next piece of a file.                                                *)
CopyOK(r, e) ==
  IF r.at < ClusterSize /\ r.left > 0
    THEN r.skip = 0 /\ CopyData(e, r.offset, Total(r, e), r.c, r.at \div SectorSize, r.at, r.left, r.out)
    ELSE CopyChain(e, r.offset, Total(r, e), r.c, r.skip, r.at, r.left, r.out)

LEMMA CopyGood ==
  ASSUME NEW prog, NEW cw, NEW r, Shape(r), Ask(prog, r), NEW e, Reads(r, e),
         CopyChain(e, r.offset, Total(r, e), r.c, r.skip, r.at, r.left, r.out),
         NEW q, q = FatNextCluster([r EXCEPT !.task = "copy"])
  PROVE  Good(prog, cw, q)
<1> DEFINE m == [r EXCEPT !.task = "copy"]
<1>1. m.task = "copy" /\ But({"task"}, r, m)
  BY DEF But, Shape, IsCall, Fields
<1>2. q = FatNextCluster(m)
  OBVIOUS
<1>. HIDE DEF m
<1>3. SameCall(r, m)
  BY <1>1, ButSame
<1>4. /\ IsCall(m) /\ m.pc = r.pc /\ m.next = r.next /\ m.c = r.c /\ m.skip = r.skip /\ m.at = r.at
      /\ m.left = r.left /\ m.result = r.result /\ m.out = r.out
  BY <1>1 DEF But, Fields
<1>5. Shape(m) /\ Ask(prog, m)
  BY <1>3, <1>4, SameAsk DEF Shape
<1>6. ChainOK(prog, m)
  <2>1. Reads(m, e) /\ Total(m, e) = Total(r, e) /\ m.offset = r.offset
    BY <1>3, SameAsk DEF SameCall
  <2>2. CopyChain(e, m.offset, Total(m, e), m.c, m.skip, m.at, m.left, m.out)
    BY <1>4, <2>1
  <2>. QED
    BY <1>1, <2>1, <2>2 DEF ChainOK
<1>. QED
  BY <1>2, <1>5, <1>6, ChainGood

LEMMA NextPieceGood ==
  ASSUME NEW prog, NEW cw, NEW r, Shape(r), Ask(prog, r), NEW e, Reads(r, e), CopyOK(r, e),
         NEW q, q = NextPiece(r)
  PROVE  Good(prog, cw, q)
<1>1. CASE ~(r.at < ClusterSize /\ r.left > 0)
  <2>1. q = FatNextCluster([r EXCEPT !.task = "copy"])
    BY <1>1 DEF NextPiece
  <2>2. CopyChain(e, r.offset, Total(r, e), r.c, r.skip, r.at, r.left, r.out)
    BY <1>1 DEF CopyOK
  <2>. QED
    BY <2>1, <2>2, CopyGood
<1>2. CASE r.at < ClusterSize /\ r.left > 0
  <2>1. q = [r EXCEPT !.task = "copy", !.s = r.at \div SectorSize, !.pc = "seek", !.next = "data"]
    BY <1>2 DEF NextPiece
  <2>2. /\ q.s = r.at \div SectorSize /\ q.pc = "seek" /\ q.next = "data"
        /\ But({"task", "s", "pc", "next"}, r, q)
    BY <2>1 DEF But, Shape, IsCall, Fields
  <2>3. SameCall(r, q)
    BY <2>2, ButSame
  <2>4. /\ IsCall(q) /\ q.c = r.c /\ q.skip = r.skip /\ q.at = r.at
        /\ q.left = r.left /\ q.result = r.result /\ q.out = r.out
    BY <2>2 DEF But, Fields
  <2>5. Ask(prog, q) /\ Reads(q, e) /\ Total(q, e) = Total(r, e) /\ q.offset = r.offset
    BY <2>3, SameAsk DEF SameCall
  <2>6. Shape(q)
    BY <2>2, <2>4 DEF Shape, Pcs
  <2>7. r.skip = 0 /\ CopyData(e, r.offset, Total(r, e), r.c, r.at \div SectorSize, r.at, r.left, r.out)
    BY <1>2 DEF CopyOK
  <2>8. CopyData(e, q.offset, Total(q, e), q.c, q.s, q.at, q.left, q.out)
    BY <2>2, <2>4, <2>5, <2>7
  <2>9. DataOK(q)
    BY <2>4, <2>5, <2>7, <2>8 DEF DataOK
  <2>. QED
    BY <2>2, <2>5, <2>6, <2>9 DEF Good, Phase
<1>. QED
  BY <1>1, <1>2
-----------------------------------------------------------------------------
(* What a call does with the file its path or its argument names.           *)

NamesFile(r, e) == e \in AllEntries /\ e.kind = "file" /\ (Exact => MeantBy(r) = {e})

Wanted(r, e) == FileRange(e, r.offset, IF r.op = "cat" THEN e.size ELSE r.size)

LEMMA BytesAnswered ==
  ASSUME NEW cw, NEW r, r.op \in {"read", "cat"}, NEW e, NamesFile(r, e), r.out = Wanted(r, e)
  PROVE  Answered(cw, r)
<1>1. /\ ~(r.op = "cd") /\ ~(r.op = "getattr") /\ ~(r.op = "ls") /\ ~(r.op = "readdir")
  OBVIOUS
<1>2. ASSUME Exact
      PROVE  LET x == CHOOSE x \in MeantBy(r) : TRUE
             IN  r.out = IF MeantBy(r) = {} \/ x.kind = "dir" THEN <<>>
                         ELSE FileRange(x, r.offset, IF r.op = "cat" THEN x.size ELSE r.size)
  <2> DEFINE x == CHOOSE x \in MeantBy(r) : TRUE
  <2>1. MeantBy(r) = {e} /\ e.kind = "file"
    BY <1>2 DEF NamesFile
  <2>2. x = e
    BY <2>1
  <2>. HIDE DEF x
  <2>3. r.out = IF MeantBy(r) = {} \/ x.kind = "dir" THEN <<>>
                         ELSE FileRange(x, r.offset, IF r.op = "cat" THEN x.size ELSE r.size)
    BY <2>1, <2>2 DEF Wanted
  <2>. QED
    BY <2>3 DEF x
<1>. QED
  BY <1>1, <1>2 DEF Answered

LEMMA NothingAnswered ==
  ASSUME NEW cw, NEW r, r.op \in {"read", "cat"}, Exact => MeantBy(r) = {}, r.out = <<>>
  PROVE  Answered(cw, r)
<1>1. /\ ~(r.op = "cd") /\ ~(r.op = "getattr") /\ ~(r.op = "ls") /\ ~(r.op = "readdir")
  OBVIOUS
<1>. QED
  BY <1>1 DEF Answered

(* The two ways to start.                                                   *)
LEMMA FileStarts ==
  ASSUME NEW prog, NEW r, Ask(prog, r), r.op \in {"read", "cat"}, NEW e, NamesFile(r, e),
         NEW tot, tot = Total(r, e), r.op = "read" => r.offset < e.size
  PROVE  /\ e.size \in Nat /\ e.start \in Nat
         /\ tot \in Nat /\ r.offset + tot <= e.size
         /\ Wanted(r, e) = Bytes(e, r.offset, tot)
         /\ e.start < 2 => e.start = 0 /\ e.size = 0
         /\ e.start >= 2 => IsFile(e)
<1>1. e \in AllEntries /\ e.kind = "file" /\ e.size \in Nat /\ e.start \in Nat
  BY VolumeAssumption DEF NamesFile
<1>2. r.offset \in Nat /\ r.size \in Nat /\ (r.op = "cat" => r.offset = 0)
  BY DEF Ask
<1>3. e.start < 2 => e.start = 0 /\ e.size = 0
  <2>1. IF e.start = 0 THEN e.size = 0 ELSE HeadsChain(e.start)
    BY <1>1, EntriesAssumption
  <2>2. e.start # 0 => e.start >= 2
    BY <2>1, ChainFacts
  <2>. QED
    BY <1>1, <2>1, <2>2
<1>4. e.start >= 2 => IsFile(e)
  BY <1>1 DEF IsFile
<1>5. CASE r.op = "cat"
  <2>1. tot = e.size /\ r.offset = 0
    BY <1>2, <1>5 DEF Total
  <2>2. Wanted(r, e) = FileRange(e, 0, e.size)
    BY <1>5, <2>1 DEF Wanted
  <2>3. FileRange(e, 0, e.size) = IF 0 >= e.size THEN <<>> ELSE Bytes(e, 0, Min({e.size, e.size - 0}))
    BY <1>1, RangeIs
  <2>4. Min({e.size, e.size - 0}) = e.size
    BY <1>1, MinPair
  <2>5. Wanted(r, e) = IF 0 >= e.size THEN <<>> ELSE Bytes(e, 0, e.size)
    BY <2>2, <2>3, <2>4
  <2>6. Bytes(e, 0, 0) = <<>>
    BY BytesFacts
  <2>. QED
    BY <1>1, <1>3, <1>4, <2>1, <2>5, <2>6
<1>6. CASE r.op # "cat"
  <2>1. tot = Min({r.size, e.size - r.offset}) /\ r.offset < e.size
    BY <1>6 DEF Total
  <2>2. Wanted(r, e) = FileRange(e, r.offset, r.size)
    BY <1>6 DEF Wanted
  <2>3. FileRange(e, r.offset, r.size) =
          IF r.offset >= e.size THEN <<>> ELSE Bytes(e, r.offset, Min({r.size, e.size - r.offset}))
    BY <1>1, <1>2, RangeIs
  <2>4. Wanted(r, e) = Bytes(e, r.offset, tot)
    BY <1>1, <1>2, <2>1, <2>2, <2>3
  <2>5. tot = IF r.size <= e.size - r.offset THEN r.size ELSE e.size - r.offset
    BY <1>1, <1>2, <2>1, MinPair
  <2>6. tot \in Nat /\ r.offset + tot <= e.size
    <3> DEFINE a == r.offset
               b == r.size
               n == e.size
    <3>1. a \in Nat /\ b \in Nat /\ n \in Nat /\ a < n /\ tot = IF b <= n - a THEN b ELSE n - a
      BY <1>1, <1>2, <2>1, <2>5
    <3>. HIDE DEF a, b, n
    <3>2. tot \in Nat /\ a + tot <= n
      BY ONLY <3>1
    <3>. QED
      BY <3>2 DEF a, n
  <2>. QED
    BY <1>1, <1>3, <1>4, <2>4, <2>6
<1>. QED
  BY <1>5, <1>6

LEMMA ReadRangeGood ==
  ASSUME NEW prog, NEW cw, NEW r, Shape(r), Ask(prog, r), Fresh(r), r.op = "read",
         NEW e, NamesFile(r, e), NEW q, q = ReadRange(r, e)
  PROVE  Good(prog, cw, q)
<1> DEFINE tot == Total(r, e)
           first == [r EXCEPT !.c = e.start, !.left = Min({r.size, e.size - r.offset}),
                              !.skip = r.offset \div ClusterSize, !.at = r.offset % ClusterSize]
<1>1. r.offset \in Nat /\ r.size \in Nat /\ e.size \in Nat /\ r.out = <<>>
  <2>1. r.offset \in Nat /\ r.size \in Nat /\ r.out = <<>>
    BY DEF Ask, Fresh
  <2>2. e.size \in Nat
    BY VolumeAssumption DEF NamesFile
  <2>. QED
    BY <2>1, <2>2
<1>2. /\ first.c = e.start /\ first.left = Min({r.size, e.size - r.offset})
      /\ first.skip = r.offset \div ClusterSize /\ first.at = r.offset % ClusterSize
      /\ But({"c", "left", "skip", "at"}, r, first)
  BY DEF But, Shape, IsCall, Fields
<1>3. q = IF r.offset >= e.size \/ first.left = 0 \/ e.start < 2 THEN Done(r, "ok")
          ELSE IF first.skip > 0 THEN FatNextCluster([first EXCEPT !.task = "copy"])
          ELSE NextPiece(first)
  BY DEF ReadRange
<1>4. first.left = tot
  BY <1>2 DEF Total
<1>. HIDE DEF first, tot
<1>5. ASSUME q = Done(r, "ok"), Wanted(r, e) = <<>> PROVE Good(prog, cw, q)
  <2>1. q.pc = "done" /\ q.result = "ok" /\ But({"pc", "result"}, r, q)
    BY <1>5, DoneIs DEF Shape
  <2>2. SameCall(r, q) /\ q.out = <<>>
    <3>1. SameCall(r, q)
      BY <2>1, ButSame
    <3>. QED
      BY <1>1, <2>1, <3>1 DEF But, Fields
  <2>3. q.op \in {"read", "cat"} /\ NamesFile(q, e) /\ q.out = Wanted(q, e)
    BY <1>5, <2>2, SameAsk DEF SameCall, NamesFile, Wanted
  <2>4. Answered(cw, q)
    BY <2>3, BytesAnswered
  <2>. QED
    BY <1>5, <2>4, DoneGood DEF Results
<1>6. CASE r.offset >= e.size
  <2>1. Wanted(r, e) = FileRange(e, r.offset, r.size)
    BY DEF Wanted
  <2>2. Wanted(r, e) = <<>>
    BY <1>1, <1>6, <2>1, RangeIs
  <2>. QED
    BY <1>3, <1>5, <1>6, <2>2
<1>7. CASE ~(r.offset >= e.size)
  <2>1. r.offset < e.size
    BY <1>1, <1>7
  <2>2. /\ e.start \in Nat /\ tot \in Nat /\ r.offset + tot <= e.size
        /\ Wanted(r, e) = Bytes(e, r.offset, tot)
        /\ e.start < 2 => e.start = 0 /\ e.size = 0
        /\ e.start >= 2 => IsFile(e)
    BY <2>1, FileStarts DEF tot
  <2>3. CASE tot = 0
    <3>1. Wanted(r, e) = <<>>
      BY <1>1, <2>2, <2>3, BytesFacts
    <3>. QED
      BY <1>3, <1>4, <1>5, <2>3, <3>1
  <2>4. CASE tot # 0
    <3>1. ~(e.start < 2) /\ IsFile(e) /\ tot > 0
      BY <1>1, <2>1, <2>2, <2>4
    <3>2. q = IF first.skip > 0 THEN FatNextCluster([first EXCEPT !.task = "copy"])
              ELSE NextPiece(first)
      BY <1>3, <1>4, <1>7, <2>4, <3>1
    <3>3. /\ first.skip \in Nat /\ first.at \in 0 .. ClusterSize - 1
          /\ first.skip > 0 => CopyChain(e, r.offset, tot, e.start, first.skip, first.at, tot, <<>>)
          /\ first.skip = 0 =>
               CopyData(e, r.offset, tot, e.start, first.at \div SectorSize, first.at, tot, <<>>)
      <4>1. tot > 0 \/ r.offset = 0
        BY <3>1
      <4>. QED
        BY <1>1, <1>2, <2>2, <3>1, <4>1, CopyStart
    <3>4. SameCall(r, first)
      BY <1>2, ButSame
    <3>5. /\ IsCall(first) /\ first.pc = r.pc /\ first.next = r.next /\ first.result = r.result
          /\ first.out = <<>>
      BY <1>1, <1>2 DEF But, Fields
    <3>6. Shape(first) /\ Ask(prog, first)
      BY <1>4, <2>2, <3>4, <3>5, SameAsk DEF Shape
    <3>7. Reads(first, e) /\ Total(first, e) = tot /\ first.offset = r.offset
      <4>1. Reads(r, e)
        BY <2>1, <3>1 DEF Reads, NamesFile
      <4>. QED
        BY <3>4, <4>1, SameAsk DEF SameCall, tot
    <3>8. CASE first.skip > 0
      <4>1. CopyChain(e, first.offset, Total(first, e), first.c, first.skip, first.at, first.left, first.out)
        BY <1>2, <1>4, <3>3, <3>5, <3>7, <3>8
      <4>. QED
        BY <3>2, <3>6, <3>7, <3>8, <4>1, CopyGood
    <3>9. CASE ~(first.skip > 0)
      <4>1. first.skip = 0 /\ first.at < ClusterSize /\ first.left > 0
        BY <1>4, <3>1, <3>3, <3>9, ClusterSizeIs
      <4>2. CopyData(e, first.offset, Total(first, e), first.c, first.at \div SectorSize,
                     first.at, first.left, first.out)
        BY <1>2, <1>4, <3>3, <3>5, <3>7, <4>1
      <4>3. CopyOK(first, e)
        BY <4>1, <4>2 DEF CopyOK
      <4>. QED
        BY <3>2, <3>6, <3>7, <3>9, <4>3, NextPieceGood
    <3>. QED
      BY <3>8, <3>9
  <2>. QED
    BY <2>3, <2>4
<1>. QED
  BY <1>6, <1>7

LEMMA CatGood ==
  ASSUME NEW prog, NEW cw, NEW r, Shape(r), Ask(prog, r), Fresh(r), r.op = "cat",
         NEW e, NamesFile(r, e), NEW q, q = Cat(r, e)
  PROVE  Good(prog, cw, q)
<1> DEFINE first == [r EXCEPT !.c = e.start, !.left = e.size]
<1>1. r.offset = 0 /\ r.out = <<>> /\ r.skip = 0 /\ r.at = 0
  BY DEF Ask, Fresh
<1>2. /\ e.size \in Nat /\ e.start \in Nat
      /\ Wanted(r, e) = Bytes(e, 0, e.size)
      /\ e.start < 2 => e.start = 0 /\ e.size = 0
      /\ e.start >= 2 => IsFile(e)
  <2>1. Total(r, e) = e.size
    BY DEF Total
  <2>. QED
    BY <1>1, <2>1, FileStarts
<1>3. /\ first.c = e.start /\ first.left = e.size /\ But({"c", "left"}, r, first)
  BY DEF But, Shape, IsCall, Fields
<1>4. q = IF e.start = 0 THEN Done(r, "ok") ELSE NextPiece(first)
  BY DEF Cat
<1>. HIDE DEF first
<1>5. CASE e.start = 0
  <2>1. q = Done(r, "ok")
    BY <1>4, <1>5
  <2>2. q.pc = "done" /\ q.result = "ok" /\ But({"pc", "result"}, r, q)
    BY <2>1, DoneIs DEF Shape
  <2>3. SameCall(r, q) /\ q.out = <<>>
    <3>1. SameCall(r, q)
      BY <2>2, ButSame
    <3>. QED
      BY <1>1, <2>2, <3>1 DEF But, Fields
  <2>4. Wanted(r, e) = <<>>
    <3>1. e.size = 0
      BY <1>2, <1>5
    <3>. QED
      BY <1>2, <3>1, BytesFacts
  <2>5. q.op \in {"read", "cat"} /\ NamesFile(q, e) /\ q.out = Wanted(q, e)
    BY <2>3, <2>4, SameAsk DEF SameCall, NamesFile, Wanted
  <2>6. Answered(cw, q)
    BY <2>5, BytesAnswered
  <2>. QED
    BY <2>1, <2>6, DoneGood DEF Results
<1>6. CASE e.start # 0
  <2>1. q = NextPiece(first) /\ IsFile(e)
    BY <1>2, <1>4, <1>6
  <2>2. SameCall(r, first)
    BY <1>3, ButSame
  <2>3. /\ IsCall(first) /\ first.pc = r.pc /\ first.next = r.next /\ first.result = r.result
        /\ first.out = <<>> /\ first.skip = 0 /\ first.at = 0
    BY <1>1, <1>3 DEF But, Fields
  <2>4. Shape(first) /\ Ask(prog, first)
    BY <1>2, <1>3, <2>2, <2>3, SameAsk DEF Shape
  <2>5. Reads(first, e) /\ Total(first, e) = e.size /\ first.offset = 0
    <3>1. Reads(r, e) /\ Total(r, e) = e.size
      BY <2>1 DEF Reads, NamesFile, Total
    <3>. QED
      BY <1>1, <2>2, <3>1, SameAsk DEF SameCall
  <2>6. 0 = 0 \div ClusterSize /\ 0 = 0 % ClusterSize
    <3>1. 0 * ClusterSize <= 0 /\ 0 < 0 * ClusterSize + ClusterSize
      BY ClusterSizeIs
    <3>2. 0 \div ClusterSize = 0
      BY <3>1, ClusterSizeIs, QuotientIs
    <3>. QED
      BY <3>2, ClusterSizeIs
  <2>7. /\ e.size > 0 => CopyData(e, 0, e.size, e.start, 0 \div SectorSize, 0, e.size, <<>>)
        /\ e.size = 0 => CopyChain(e, 0, e.size, e.start, 0, 0, e.size, <<>>)
    <3>1. 0 + e.size <= e.size /\ 0 \in Nat
      BY <1>2
    <3>. QED
      BY <1>2, <2>1, <2>6, <3>1, CopyStart
  <2>8. CopyOK(first, e)
    <3>1. 0 < ClusterSize
      BY ClusterSizeIs
    <3>. QED
      BY <1>2, <1>3, <2>3, <2>5, <2>7, <3>1 DEF CopyOK
  <2>. QED
    BY <2>1, <2>4, <2>5, <2>8, NextPieceGood
<1>. QED
  BY <1>5, <1>6
-----------------------------------------------------------------------------
(* What a FUSE call does with the entry its path names.                     *)

Root == [NoEntry EXCEPT !.kind = "dir"]

Means(r, e) ==
  \/ r.path = <<>> /\ e = Root
  \/ /\ e \in AllEntries /\ e.kind \in {"dir", "file"}
     /\ Exact => /\ Resolution(r.path) = {e}
                 /\ e.kind = "dir" => Follow(0, r.path) = e.start

LEMMA RootIs ==
  /\ Root.kind = "dir" /\ Root.start = 0 /\ ClusterOf(Root) = 0 /\ 0 \in DirStarts
  /\ Resolution(<<>>) = {} /\ Follow(0, <<>>) = 0
<1>1. Root.kind = "dir" /\ Root.start = 0
  BY DEF Root, NoEntry
<1>2. ClusterOf(Root) = 0
  BY <1>1 DEF ClusterOf
<1>3. 0 \in DirStarts
  BY DEF DirStarts
<1>4. Resolution(<<>>) = {}
  BY DEF Resolution
<1>5. ASSUME NEW p, p = <<>> PROVE Follow(0, p) = 0
  <2>1. p \in Seq({}) /\ Len(p) = 0
    BY <1>5
  <2>2. Follow(0, p) = Along(0, p, Len(p)) /\ Along(0, p, 0) = 0
    BY ONLY <2>1, FollowFacts
  <2>. QED
    BY <2>1, <2>2
<1>6. Follow(0, <<>>) = 0
  BY <1>5
<1>. QED
  BY <1>1, <1>2, <1>3, <1>4, <1>6

LEMMA SilentAnswered ==
  ASSUME NEW cw, NEW r, r.op \in {"open", "open_rw"}
  PROVE  Answered(cw, r)
<1>1. /\ ~(r.op = "cd") /\ ~(r.op = "getattr") /\ ~(r.op = "ls") /\ ~(r.op = "readdir")
      /\ ~(r.op \in {"read", "cat"})
  OBVIOUS
<1>. QED
  BY <1>1 DEF Answered

\* The answers that are error codes.
LEMMA ErrorAnswered ==
  ASSUME NEW cw, NEW r, r.op \in FuseCalls, r.result # "ok", r.result # "none",
         r.op = "getattr" => r.result = "ENOENT" /\ (Exact => Resolution(r.path) = {}),
         r.op = "read" => r.out = <<>> /\
           (Exact => Resolution(r.path) = {} \/ \E e : Resolution(r.path) = {e} /\ e.kind = "dir")
  PROVE  Answered(cw, r)
<1>1. /\ ~(r.op = "cd") /\ ~(r.op = "ls") /\ ~(r.op = "readdir" /\ r.result = "ok") /\ r.op # "cat"
      /\ ~(r.op = "tree")
  BY DEF FuseCalls
<1>2. CASE r.op = "read"
  <2>1. MeantBy(r) = Resolution(r.path)
    BY <1>2 DEF MeantBy
  <2>2. ASSUME Exact
        PROVE  LET x == CHOOSE x \in MeantBy(r) : TRUE IN MeantBy(r) = {} \/ x.kind = "dir"
    BY <1>2, <2>1, <2>2
  <2>. QED
    BY <1>1, <1>2, <2>2 DEF Answered
<1>3. CASE r.op # "read"
  BY <1>1, <1>3 DEF Answered
<1>. QED
  BY <1>2, <1>3

LEMMA ListGood ==
  ASSUME NEW prog, NEW cw, NEW r, Shape(r), Ask(prog, r), Fresh(r), NEW d \in DirStarts,
         r.op \in {"ls", "readdir"}, r.op = "ls" => d = r.base,
         r.op = "readdir" => (Exact => d = Follow(0, r.path)), NEW q, q = Scan(r, "list", d, 0)
  PROVE  Good(prog, cw, q)
<1>1. q.task = "list" /\ But({"task", "c", "s", "j", "pc", "next"}, r, q)
  BY ScanIs DEF Shape
<1>2. SameCall(r, q)
  BY <1>1, ButSame
<1>3. q.out = <<>>
  BY <1>1 DEF But, Fields, Fresh
<1>4. Listed(d, 0) = <<>> /\ Undotted(<<>>) = <<>>
  BY ListedFacts, KeptEmpty DEF Undotted
<1>5. q.out = Shown(q.op, Listed(d, 0))
  BY <1>3, <1>4 DEF Shown
<1>6. ListedSo(q.op, q.path, q.base, q.out, d, 0)
  BY <1>2, <1>5 DEF ListedSo, SameCall
<1>7. Scanning(prog, q, d, 0)
  BY <1>1, <1>6 DEF Scanning
<1>8. Spot(d, d, 0, 0)
  BY SpotStart
<1>. QED
  BY <1>7, <1>8, ScanGood

LEMMA ResolvedGood ==
  ASSUME NEW prog, NEW cw, NEW r, Shape(r), Ask(prog, r), Fresh(r), r.op \in FuseCalls,
         NEW e, Means(r, e), NEW q, q = Resolved(r, e)
  PROVE  Good(prog, cw, q)
<1>0. e.kind \in {"dir", "file"}
  BY RootIs DEF Means
<1>1. CASE r.op = "getattr"
  <2> DEFINE m == [r EXCEPT !.entry = e]
  <2>1. m.entry = e /\ But({"entry"}, r, m)
    BY DEF But, Shape, IsCall, Fields
  <2>2. q = Done(m, "ok")
    BY <1>1 DEF Resolved
  <2>. HIDE DEF m
  <2>3. SameCall(r, m)
    BY <2>1, ButSame
  <2>4. IsCall(m) /\ m.pc = r.pc /\ m.next = r.next /\ m.left = r.left /\ m.result = r.result
    BY <2>1 DEF But, Fields
  <2>5. Shape(m) /\ Ask(prog, m)
    BY <2>3, <2>4, SameAsk DEF Shape
  <2>6. q.result = "ok" /\ But({"pc", "result"}, m, q)
    BY <2>2, <2>5, DoneIs DEF Shape
  <2>7. q.op = "getattr" /\ q.path = r.path /\ q.entry = e
    <3>1. SameCall(m, q)
      BY <2>6, ButSame
    <3>. QED
      BY <1>1, <2>1, <2>3, <2>6, <3>1 DEF But, Fields, SameCall
  <2>8. Answered(cw, q)
    <3>1. q.path # <<>> /\ Exact => Resolution(q.path) = {e}
      BY <2>7 DEF Means
    <3>. QED
      BY <2>6, <2>7, <3>1 DEF Answered
  <2>. QED
    BY <2>2, <2>5, <2>8, DoneGood DEF Results
<1>2. CASE r.op = "readdir" /\ e.kind = "dir"
  <2> DEFINE d == ClusterOf(e)
  <2>1. q = Scan(r, "list", d, 0)
    BY <1>2 DEF Resolved
  <2>2. d \in DirStarts /\ (Exact => d = Follow(0, r.path))
    <3>1. CASE r.path = <<>> /\ e = Root
      BY <3>1, RootIs
    <3>2. CASE e \in AllEntries /\ (Exact => Follow(0, r.path) = e.start)
      <4>1. e.start \in DirStarts /\ ClusterOf(e) = e.start
        BY <1>2, <3>2, EntryStarts
      <4>. QED
        BY <3>2, <4>1
    <3>. QED
      BY <1>2, <3>1, <3>2 DEF Means
  <2>. HIDE DEF d
  <2>3. r.op \in {"ls", "readdir"} /\ (r.op = "ls" => d = r.base)
    BY <1>2
  <2>. QED
    BY <2>1, <2>2, <2>3, ListGood
<1>3. ASSUME NEW result \in Results, q = Done(r, result),
             \/ r.op \in {"open", "open_rw"}
             \/ result \in {"ENOTDIR", "EISDIR"} /\ r.op \in {"readdir", "read"}
                /\ (r.op = "read" => e.kind = "dir")
      PROVE  Good(prog, cw, q)
  <2>1. q.result = result /\ But({"pc", "result"}, r, q)
    BY <1>3, DoneIs DEF Shape
  <2>2. q.op = r.op /\ q.path = r.path /\ q.out = <<>>
    BY <2>1 DEF But, Fields, Fresh
  <2>3. CASE r.op \in {"open", "open_rw"}
    <3>1. Answered(cw, q)
      BY <2>2, <2>3, SilentAnswered
    <3>. QED
      BY <1>3, <3>1, DoneGood
  <2>4. CASE result \in {"ENOTDIR", "EISDIR"} /\ r.op \in {"readdir", "read"}
                /\ (r.op = "read" => e.kind = "dir")
    <3>1. q.result # "ok" /\ q.result # "none" /\ q.op # "getattr" /\ q.op \in FuseCalls
      BY <2>1, <2>2, <2>4
    <3>2. q.op = "read" =>
            (Exact => Resolution(q.path) = {} \/ \E x : Resolution(q.path) = {x} /\ x.kind = "dir")
      BY <2>2, <2>4, RootIs DEF Means
    <3>3. Answered(cw, q)
      BY <2>2, <3>1, <3>2, ErrorAnswered
    <3>. QED
      BY <1>3, <3>3, DoneGood
  <2>. QED
    BY <1>3, <2>3, <2>4
<1>4. CASE r.op = "readdir" /\ e.kind # "dir"
  <2>1. q = Done(r, "ENOTDIR") /\ "ENOTDIR" \in Results
    BY <1>4 DEF Resolved, Results
  <2>. QED
    BY <1>3, <1>4, <2>1
<1>5. CASE r.op = "open"
  <2>1. \E result \in Results : q = Done(r, result)
    BY <1>5 DEF Resolved, Results
  <2>. QED
    BY <1>3, <1>5, <2>1
<1>6. CASE r.op = "open_rw"
  <2>1. \E result \in Results : q = Done(r, result)
    BY <1>6 DEF Resolved, Results
  <2>. QED
    BY <1>3, <1>6, <2>1
<1>7. CASE r.op = "read" /\ e.kind = "dir"
  <2>1. q = Done(r, "EISDIR") /\ "EISDIR" \in Results
    BY <1>7 DEF Resolved, Results
  <2>. QED
    BY <1>3, <1>7, <2>1
<1>8. CASE r.op = "read" /\ e.kind # "dir"
  <2>1. q = ReadRange(r, e)
    BY <1>8 DEF Resolved
  <2>2. e # Root
    BY <1>8, RootIs
  <2>3. NamesFile(r, e)
    BY <1>0, <1>8, <2>2 DEF Means, NamesFile, MeantBy
  <2>. QED
    BY <1>8, <2>1, <2>3, ReadRangeGood
<1>. QED
  BY <1>1, <1>2, <1>4, <1>5, <1>6, <1>7, <1>8 DEF FuseCalls
-----------------------------------------------------------------------------
(* What the caller of find_in_directory does.                               *)

LEMMA RestOfPath ==
  ASSUME NEW S, NEW path \in Seq(S), NEW n, n = Len(path), NEW k \in 0 .. n,
         NEW todo, todo = SubSeq(path, k + 1, n)
  PROVE  /\ todo # <<>> <=> k < n
         /\ k < n => /\ k + 1 \in 1 .. n /\ Head(todo) = path[k + 1]
                     /\ Tail(todo) = SubSeq(path, (k + 1) + 1, n)
<1> DEFINE m == k + 1
<1>1. n \in Nat /\ m \in Int /\ k \in Nat
  BY LenProperties
<1>2. CASE k = n
  <2>1. n < m
    BY <1>1, <1>2
  <2>. HIDE DEF m
  <2>2. todo = <<>>
    BY <1>1, <2>1, SubSeqEmpty DEF m
  <2>. QED
    BY <1>1, <1>2, <2>2
<1>3. CASE k < n
  <2>1. m \in 1 .. n /\ n \in m .. n
    BY <1>1, <1>3
  <2>. HIDE DEF m
  <2>2. Head(SubSeq(path, m, n)) = path[m] /\ Tail(SubSeq(path, m, n)) = SubSeq(path, m + 1, n)
    BY <2>1, HeadTailOfSubSeq
  <2>3. Len(SubSeq(path, m, n)) = n - m + 1
    <3>1. \A i \in m .. n : path[i] \in S
      BY <1>1, <2>1, ElementOfSeq
    <3>2. Len(SubSeq(path, m, n)) = IF m <= n THEN n - m + 1 ELSE 0
      BY ONLY <1>1, <3>1, SubSeqProperties
    <3>. QED
      BY <1>1, <2>1, <3>2
  <2>4. SubSeq(path, m, n) # <<>>
    <3>1. n - m + 1 # 0 /\ Len(<<>>) = 0
      BY <1>1, <2>1
    <3>. QED
      BY <2>3, <3>1
  <2>. QED
    BY <1>3, <2>1, <2>2, <2>4 DEF m
<1>. QED
  BY <1>1, <1>2, <1>3

LEMMA SoughtSo ==
  ASSUME NEW prog, NEW r, Ask(prog, r), Looked(prog, r), r.op # "cat"
  PROVE  /\ r.dir \in DirStarts /\ r.op \in {"cd"} \cup FuseCalls /\ Searched(r) = r.dir
         /\ r.path \in Seq(Range(r.path)) /\ Len(r.path) \in Nat
<1>1. r.dir \in DirStarts /\ Searched(r) = r.dir
  BY DEF Looked, Searched
<1>2. r.op \in {"cd"} \cup FuseCalls
  BY DEF Looked, SoughtUp, Sought, Taken
<1>. QED
  BY <1>1, <1>2, PathIsSeq DEF Ask

LEMMA CatFinds ==
  ASSUME NEW prog, NEW r, Ask(prog, r), Looked(prog, r), r.op = "cat", Exact
  PROVE  /\ Finds(Searched(r), r.name, r.kind) = MeantBy(r) /\ Single(MeantBy(r))
<1>1. PICK f \in FileNames : r.path = <<f>>
  BY DEF Ask, Asked
<1>2. r.base \in DirStarts
  BY DEF Ask, Asked
<1>3. ExactFile(r.base, f, f)
  BY <1>1, <1>2 DEF Exact, ExactFiles
<1>4. r.path[1] = f
  BY <1>1
<1>5. MeantBy(r) = Named(r.base, f, "file")
  BY <1>4 DEF MeantBy
<1>6. Searched(r) = r.base /\ r.name = f /\ r.kind = "file"
  BY <1>4 DEF Searched, Looked
<1>. QED
  BY <1>3, <1>5, <1>6 DEF ExactFile, Single

(* One walks down from r.dir.                                               *)
LEMMA DownGood ==
  ASSUME NEW prog, NEW cw, NEW r, Shape(r), Ask(prog, r), Fresh(r), r.dir \in DirStarts,
         NEW k, Sought(prog, r.op, r.path, r.base, r.todo, r.dir, r.name, r.kind, k),
         NEW e \in Finds(r.dir, r.name, r.kind), NEW q,
         q = IF r.op = "cd" \/ r.todo # <<>> THEN Enter(r, ClusterOf(e)) ELSE Resolved(r, e)
  PROVE  Good(prog, cw, q)
<1> DEFINE n == Len(r.path)
<1>1. /\ r.op \in {"cd"} \cup FuseCalls /\ k \in 1 .. n /\ r.todo = SubSeq(r.path, k + 1, n)
      /\ \/ r.kind = "dir"
         \/ r.kind = "file" /\ r.op # "cd" /\ k = n /\ Finds(r.dir, r.name, "dir") = {}
      /\ Taken(r.op, r.path, r.todo, k)
  BY DEF Sought, Taken
<1>2. r.path \in Seq(Range(r.path)) /\ n \in Nat
  BY <1>1, PathIsSeq DEF Ask
<1>3. r.todo # <<>> <=> k < n
  <2> DEFINE todo == r.todo
             path == r.path
             T == Range(r.path)
  <2>1. path \in Seq(T) /\ n = Len(path) /\ k \in 0 .. n /\ todo = SubSeq(path, k + 1, n)
    BY <1>1, <1>2
  <2>. HIDE DEF todo, path, T, n
  <2>2. todo # <<>> <=> k < n
    BY ONLY <2>1, RestOfPath
  <2>. QED
    BY <2>2 DEF todo, n
<1>4. e \in EntriesOf(r.dir) /\ e.kind = r.kind /\ NameMatch(e.name83, r.name)
  BY DEF Finds
<1>5. e \in AllEntries /\ e.kind \in {"dir", "file"}
  BY <1>4, EntriesAreLive
<1>6. /\ Asked(prog, r.op, r.path, r.base) /\ r.dir \in DirStarts
      /\ Sought(prog, r.op, r.path, r.base, r.todo, r.dir, r.name, r.kind, k)
  BY DEF Ask
<1>7. Exact => /\ r.dir = Along(r.base, r.path, k - 1)
               /\ Finds(r.dir, r.name, "dir") = Named(r.dir, r.path[k], "dir")
               /\ Single(Named(r.dir, r.path[k], "dir"))
               /\ Along(r.base, r.path, k) = FoundIn(r.dir, r.name)
  <2>1. ASSUME Exact
        PROVE  /\ k \in 1 .. Len(r.path) /\ r.dir = Along(r.base, r.path, k - 1)
               /\ Finds(r.dir, r.name, "dir") = Named(r.dir, r.path[k], "dir")
               /\ Single(Named(r.dir, r.path[k], "dir"))
               /\ Along(r.base, r.path, k) = FoundIn(r.dir, r.name)
    BY ONLY <1>6, <2>1, LeadsTo
  <2>. QED
    BY <2>1
<1>8. r.kind = "dir" => /\ e.start \in DirStarts /\ ClusterOf(e) = e.start
                        /\ Exact => Along(r.base, r.path, k) = e.start /\ Named(r.dir, r.path[k], "dir") = {e}
  <2>. SUFFICES ASSUME r.kind = "dir"
                PROVE  /\ e.start \in DirStarts /\ ClusterOf(e) = e.start
                       /\ Exact => Along(r.base, r.path, k) = e.start /\ Named(r.dir, r.path[k], "dir") = {e}
    OBVIOUS
  <2>1. e.start \in DirStarts /\ ClusterOf(e) = e.start
    BY <1>4, <1>5, EntryStarts
  <2>2. e \in Finds(r.dir, r.name, "dir")
    OBVIOUS
  <2>3. Exact => Finds(r.dir, r.name, "dir") = {e}
    BY <1>7, <2>2 DEF Single
  <2>4. Exact => FoundIn(r.dir, r.name) = e.start
    BY <2>3 DEF FoundIn
  <2>. QED
    BY <1>7, <2>1, <2>3, <2>4
<1>. HIDE DEF n
<1>9. CASE r.op = "cd" \/ r.todo # <<>>
  <2>1. q = Enter(r, ClusterOf(e)) /\ r.kind = "dir"
    BY <1>1, <1>2, <1>3, <1>9
  <2>2. OnPath(r.op, r.path, r.base, r.todo, ClusterOf(e))
    <3>1. Exact => ClusterOf(e) = Along(r.base, r.path, k) /\ (r.op # "cd" => k < n)
      BY <1>3, <1>8, <1>9, <2>1
    <3>2. ClusterOf(e) \in DirStarts
      BY <1>8, <2>1
    <3>. QED
      BY <1>1, <3>1, <3>2 DEF OnPath, n
  <2>. QED
    BY <2>1, <2>2, EnterGood
<1>10. CASE ~(r.op = "cd" \/ r.todo # <<>>)
  <2>1. q = Resolved(r, e) /\ r.op \in FuseCalls /\ k = n
    BY <1>1, <1>2, <1>3, <1>10
  <2>2. ASSUME Exact
        PROVE  Resolution(r.path) = {e} /\ (e.kind = "dir" => Follow(0, r.path) = e.start)
    <3>0. r.op \in FuseCalls /\ Exact
      BY <2>1, <2>2
    <3>1. /\ k = Len(r.path) => Resolution(r.path) =
                 Named(r.dir, r.path[k], "dir") \cup Named(r.dir, r.path[k], "file")
          /\ Named(r.dir, r.path[k], "dir") = {} \/ Named(r.dir, r.path[k], "file") = {}
          /\ k = Len(r.path) /\ Named(r.dir, r.path[k], "dir") = {} =>
               /\ Finds(r.dir, r.name, "file") = Named(r.dir, r.path[k], "file")
               /\ Single(Named(r.dir, r.path[k], "file"))
      BY ONLY <1>6, <3>0, LeadsToEntry
    <3>2. CASE r.kind = "dir"
      <4>1. Named(r.dir, r.path[k], "dir") = {e} /\ Along(r.base, r.path, k) = e.start
        BY <1>8, <2>2, <3>2
      <4>2. Follow(0, r.path) = e.start
        <5>1. r.base = 0
          BY <2>1 DEF Ask, Asked
        <5>2. Follow(0, r.path) = Along(0, r.path, Len(r.path))
          BY <1>2, FollowFacts
        <5>. QED
          BY <2>1, <4>1, <5>1, <5>2 DEF n
      <4>3. Named(r.dir, r.path[k], "file") = {}
        BY <3>1, <4>1
      <4>4. Resolution(r.path) = {e}
        BY <2>1, <3>1, <4>1, <4>3 DEF n
      <4>. QED
        BY <4>2, <4>4
    <3>3. CASE r.kind = "file"
      <4>1. Named(r.dir, r.path[k], "dir") = {}
        BY <1>1, <1>7, <2>2, <3>3
      <4>2. Finds(r.dir, r.name, "file") = {e} /\ Resolution(r.path) = Finds(r.dir, r.name, "file")
        <5>1. e \in Finds(r.dir, r.name, "file")
          BY <3>3
        <5>. QED
          BY <2>1, <3>1, <4>1, <5>1 DEF Single, n
      <4>. QED
        BY <1>4, <3>3, <4>2
    <3>. QED
      BY <1>1, <3>2, <3>3
  <2>3. Means(r, e)
    BY <1>5, <2>2 DEF Means
  <2>. QED
    BY <2>1, <2>3, ResolvedGood
<1>. QED
  BY <1>9, <1>10

LEMMA FoundGood ==
  ASSUME NEW prog, NEW cw, NEW r, Shape(r), Ask(prog, r), Fresh(r), Looked(prog, r),
         NEW e \in Finds(Searched(r), r.name, r.kind), NEW q, q = Found(r, e)
  PROVE  Good(prog, cw, q)
<1>1. CASE r.op = "cat"
  <2>1. q = Cat(r, e)
    BY <1>1 DEF Found
  <2>2. r.kind = "file" /\ r.base \in DirStarts /\ Searched(r) = r.base
    BY <1>1 DEF Looked, Ask, Asked, Searched
  <2>3. e \in AllEntries /\ e.kind = "file"
    <3>1. e \in EntriesOf(r.base) /\ e.kind = "file"
      BY <2>2 DEF Finds
    <3>. QED
      BY <2>2, <3>1, EntriesAreLive
  <2>4. Exact => MeantBy(r) = {e}
    <3>1. Exact => Finds(Searched(r), r.name, r.kind) = MeantBy(r) /\ Single(MeantBy(r))
      BY <1>1, CatFinds
    <3>. QED
      BY <3>1 DEF Single
  <2>5. NamesFile(r, e)
    BY <2>3, <2>4 DEF NamesFile
  <2>. QED
    BY <1>1, <2>1, <2>5, CatGood
<1>2. CASE r.op # "cat"
  <2>1. r.dir \in DirStarts /\ Searched(r) = r.dir /\ e \in Finds(r.dir, r.name, r.kind)
    BY <1>2, SoughtSo
  <2>2. CASE r.up
    <3>1. PICK k : SoughtUp(prog, r.op, r.path, r.base, r.todo, r.dir, r.name, r.kind, k)
      BY <1>2, <2>2 DEF Looked
    <3>2. q = Enter(r, e.start)
      BY <1>2, <2>2 DEF Found
    <3>3. e.start \in DirStarts
      <4>1. e \in EntriesOf(r.dir) /\ e.kind = "dir"
        BY <2>1, <3>1 DEF Finds, SoughtUp
      <4>. QED
        BY <2>1, <4>1, EntriesAreLive, EntryStarts
    <3>4. ~Exact
      <4>1. /\ Asked(prog, r.op, r.path, r.base) /\ r.dir \in DirStarts
            /\ SoughtUp(prog, r.op, r.path, r.base, r.todo, r.dir, r.name, r.kind, k)
        BY <2>1, <3>1 DEF Ask
      <4>2. ASSUME Exact PROVE Finds(r.dir, r.name, "dir") = {}
        BY ONLY <4>1, <4>2, LeadsUp
      <4>3. r.kind = "dir"
        BY <3>1 DEF SoughtUp
      <4>. QED
        BY <2>1, <4>2, <4>3
    <3>5. OnPath(r.op, r.path, r.base, r.todo, e.start)
      BY <3>1, <3>3, <3>4 DEF OnPath, SoughtUp
    <3>. QED
      BY <3>2, <3>5, EnterGood
  <2>3. CASE ~r.up
    <3>1. PICK k : Sought(prog, r.op, r.path, r.base, r.todo, r.dir, r.name, r.kind, k)
      BY <1>2, <2>3 DEF Looked
    <3>2. q = IF r.op = "cd" \/ r.todo # <<>> THEN Enter(r, ClusterOf(e)) ELSE Resolved(r, e)
      BY <1>2, <2>3 DEF Found
    <3>. QED
      BY <2>1, <3>1, <3>2, DownGood
  <2>. QED
    BY <2>2, <2>3
<1>. QED
  BY <1>1, <1>2
-----------------------------------------------------------------------------
(* Looking for a name in a directory starts, and fails.                     *)

LEMMA FindGood ==
  ASSUME NEW prog, NEW cw, NEW r, Shape(r), Ask(prog, r), Fresh(r), NEW d \in DirStarts,
         NEW name, NEW kind, NEW up, NEW q, q = Find(r, d, name, kind, up),
         Looked(prog, q), d = Searched(r)
  PROVE  Good(prog, cw, q)
<1> DEFINE m == [r EXCEPT !.name = name, !.kind = kind, !.up = up]
<1>1. But({"name", "kind", "up"}, r, m)
  BY DEF But, Shape, IsCall, Fields
<1>2. q = Scan(m, "find", d, 0)
  BY DEF Find
<1>. HIDE DEF m
<1>3. SameCall(r, m)
  BY <1>1, ButSame
<1>4. /\ IsCall(m) /\ m.pc = r.pc /\ m.next = r.next /\ m.left = r.left /\ m.result = r.result
      /\ m.out = <<>> /\ m.skip = 0 /\ m.at = 0 /\ m.dir = r.dir
  BY <1>1 DEF But, Fields, Fresh
<1>5. Shape(m) /\ Ask(prog, m)
  BY <1>3, <1>4, SameAsk DEF Shape
<1>6. q.task = "find" /\ But({"task", "c", "s", "j", "pc", "next"}, m, q)
  BY <1>2, <1>4, ScanIs
<1>7. Fresh(q) /\ q.dir = r.dir
  BY <1>4, <1>6 DEF But, Fields, Fresh
<1>8. d = Searched(q)
  <2>1. SameCall(m, q)
    BY <1>6, ButSame
  <2>. QED
    BY <1>3, <1>7, <2>1 DEF SameCall, Searched
<1>9. NotSeen(d, 0, q.name, q.kind)
  BY ListedFacts, RangeEmpty DEF NotSeen
<1>10. Scanning(prog, q, d, 0)
  BY <1>6, <1>7, <1>8, <1>9 DEF Scanning
<1>11. Spot(d, d, 0, 0)
  BY SpotStart
<1>. QED
  BY <1>2, <1>5, <1>10, <1>11, ScanGood

LEMMA FindSets ==
  ASSUME NEW r, Shape(r), NEW c, NEW name, NEW kind, NEW up, NEW q, q = Find(r, c, name, kind, up)
  PROVE  /\ q.name = name /\ q.kind = kind /\ q.up = up
         /\ But({"name", "kind", "up", "task", "c", "s", "j", "pc", "next"}, r, q)
  BY FindIs DEF Shape

(* fat_fuse.c looks for a directory first and then for a file.              *)
LEMMA AgainGood ==
  ASSUME NEW prog, NEW cw, NEW r, Shape(r), Ask(prog, r), Fresh(r), Looked(prog, r), r.op # "cat",
         ~r.up, r.op # "cd", r.todo = <<>>, r.kind = "dir", Finds(Searched(r), r.name, r.kind) = {},
         NEW q, q = Find(r, r.dir, r.name, "file", FALSE)
  PROVE  Good(prog, cw, q)
<1>1. /\ r.dir \in DirStarts /\ r.op \in FuseCalls /\ Searched(r) = r.dir
      /\ r.path \in Seq(Range(r.path)) /\ Len(r.path) \in Nat
  BY SoughtSo
<1>2. PICK k : Sought(prog, r.op, r.path, r.base, r.todo, r.dir, r.name, r.kind, k)
  BY DEF Looked
<1>3. k = Len(r.path)
  <2>1. k \in 0 .. Len(r.path) /\ r.todo = SubSeq(r.path, k + 1, Len(r.path))
    BY <1>2 DEF Sought, Taken
  <2> DEFINE todo == r.todo
             path == r.path
             n == Len(path)
             T == Range(r.path)
  <2>2. path \in Seq(T) /\ k \in 0 .. n /\ todo = SubSeq(path, k + 1, n) /\ n \in Nat
    BY <1>1, <2>1
  <2>3. n = Len(path) /\ todo = <<>>
    OBVIOUS
  <2>. HIDE DEF todo, path, T, n
  <2>4. todo # <<>> <=> k < n
    BY ONLY <2>2, <2>3, RestOfPath
  <2>5. k = n
    BY <2>2, <2>3, <2>4
  <2>. QED
    BY <2>5 DEF n, path
<1>4. /\ q.name = r.name /\ q.kind = "file" /\ ~q.up
      /\ But({"name", "kind", "up", "task", "c", "s", "j", "pc", "next"}, r, q)
  BY DEF Find, Scan, Shape, IsCall, But, Fields
<1>5. SameCall(r, q) /\ q.dir = r.dir /\ q.todo = r.todo
  <2>1. SameCall(r, q)
    BY ONLY <1>4 DEF But, Fields, SameCall
  <2>. QED
    BY <1>4, <2>1 DEF But, Fields
<1>6. Finds(r.dir, r.name, "dir") = {}
  BY <1>1
<1>7. Sought(prog, r.op, r.path, r.base, r.todo, r.dir, r.name, "file", k)
  BY <1>2, <1>3, <1>6 DEF Sought
<1>8. Looked(prog, q)
  BY <1>1, <1>4, <1>5, <1>7 DEF Looked, SameCall
<1> DEFINE d == r.dir
           name == r.name
<1>9. d \in DirStarts /\ d = Searched(r) /\ \E up : q = Find(r, d, name, "file", up)
  BY <1>1
<1>10. PICK up : q = Find(r, d, name, "file", up)
  BY <1>9
<1>. HIDE DEF d, name
<1>. QED
  BY <1>8, <1>9, <1>10, FindGood

LEMMA FailGood ==
  ASSUME NEW prog, NEW cw, NEW r, Shape(r), Ask(prog, r), Fresh(r), Looked(prog, r), r.op # "cat",
         ~r.up, ~(r.op # "cd" /\ r.todo = <<>> /\ r.kind = "dir"), Finds(Searched(r), r.name, r.kind) = {},
         NEW q, q = Done(r, "ENOENT")
  PROVE  Good(prog, cw, q)
<1> DEFINE n == Len(r.path)
<1>1. /\ r.dir \in DirStarts /\ r.op \in {"cd"} \cup FuseCalls /\ Searched(r) = r.dir
      /\ r.path \in Seq(Range(r.path)) /\ n \in Nat
  BY SoughtSo
<1>2. PICK k : Sought(prog, r.op, r.path, r.base, r.todo, r.dir, r.name, r.kind, k)
  BY DEF Looked
<1>3. /\ q.result = "ENOENT" /\ q.op = r.op /\ q.path = r.path /\ q.base = r.base /\ q.out = <<>>
  <2>1. q.result = "ENOENT" /\ But({"pc", "result"}, r, q)
    BY DoneIs DEF Shape
  <2>. QED
    BY <2>1 DEF But, Fields, Fresh
<1>4. /\ Asked(prog, r.op, r.path, r.base) /\ r.dir \in DirStarts
      /\ Sought(prog, r.op, r.path, r.base, r.todo, r.dir, r.name, r.kind, k)
  BY <1>1, <1>2 DEF Ask
<1>5. /\ k \in 1 .. n /\ k \in 0 .. n
      /\ \/ r.kind = "dir"
         \/ r.kind = "file" /\ r.op # "cd" /\ k = n /\ Finds(r.dir, r.name, "dir") = {}
  BY <1>1, <1>2 DEF Sought, Taken
<1>6. Finds(r.dir, r.name, "dir") = {}
  BY <1>1, <1>5
<1>7. ASSUME Exact
      PROVE  /\ k \in 1 .. Len(r.path) /\ r.dir = Along(r.base, r.path, k - 1)
             /\ Finds(r.dir, r.name, "dir") = Named(r.dir, r.path[k], "dir")
             /\ Single(Named(r.dir, r.path[k], "dir"))
             /\ Along(r.base, r.path, k) = FoundIn(r.dir, r.name)
  BY ONLY <1>4, <1>7, LeadsTo
<1>8. CASE r.op = "cd"
  <2>1. ASSUME Exact PROVE Follow(r.base, r.path) = NoDirectory
    <3>1. Along(r.base, r.path, k) = NoDirectory
      BY <1>6, <1>7, <2>1 DEF FoundIn
    <3>. QED
      BY <1>1, <1>5, <3>1, FollowNowhere
  <2>2. Answered(cw, q)
    BY <1>3, <1>8, <2>1 DEF Answered
  <2>. QED
    BY <2>2, DoneGood DEF Results
<1>9. CASE r.op # "cd"
  <2>0. r.op \in FuseCalls
    BY <1>1, <1>9
  <2>1. ASSUME Exact PROVE Resolution(r.path) = {}
    <3>0. r.op \in FuseCalls /\ Exact
      BY <2>0, <2>1
    <3>1. /\ k = Len(r.path) => Resolution(r.path) =
                 Named(r.dir, r.path[k], "dir") \cup Named(r.dir, r.path[k], "file")
          /\ Named(r.dir, r.path[k], "dir") = {} \/ Named(r.dir, r.path[k], "file") = {}
          /\ k = Len(r.path) /\ Named(r.dir, r.path[k], "dir") = {} =>
               /\ Finds(r.dir, r.name, "file") = Named(r.dir, r.path[k], "file")
               /\ Single(Named(r.dir, r.path[k], "file"))
      BY ONLY <1>4, <3>0, LeadsToEntry
    <3>4. k < Len(r.path) /\ Finds(r.dir, r.name, "dir") = {} => Resolution(r.path) = {}
      <4>. SUFFICES ASSUME k < Len(r.path), Finds(r.dir, r.name, "dir") = {} PROVE Resolution(r.path) = {}
        OBVIOUS
      <4>1. k < Len(r.path) /\ Finds(r.dir, r.name, "dir") = {}
        OBVIOUS
      <4>. QED
        BY ONLY <1>4, <3>0, <4>1, LeadsNowhere
    <3>2. CASE k < n
      BY <1>6, <3>2, <3>4
    <3>3. CASE k = n
      <4>1. Named(r.dir, r.path[k], "dir") = {}
        BY <1>6, <1>7, <2>1
      <4>2. r.kind = "file"
        <5>1. r.todo = <<>>
          <6> DEFINE todo == r.todo
                     path == r.path
                     T == Range(r.path)
          <6>1. path \in Seq(T) /\ k \in 0 .. n /\ todo = SubSeq(path, k + 1, n) /\ n \in Nat
            BY <1>1, <1>2, <1>5 DEF Sought, Taken
          <6>2. n = Len(path)
            OBVIOUS
          <6>. HIDE DEF todo, path, T, n
          <6>3. todo # <<>> <=> k < n
            BY ONLY <6>1, <6>2, RestOfPath
          <6>4. todo = <<>>
            BY <3>3, <6>1, <6>3
          <6>. QED
            BY <6>4 DEF todo
        <5>. QED
          BY <1>5, <1>9, <5>1
      <4>. QED
        BY <1>1, <3>1, <3>3, <4>1, <4>2
    <3>. QED
      BY <1>1, <1>5, <3>2, <3>3
  <2>2. Answered(cw, q)
    <3>1. q.op \in FuseCalls /\ q.result # "ok" /\ q.result # "none"
      BY <1>3, <2>0
    <3>2. Exact => Resolution(q.path) = {}
      BY <1>3, <2>1
    <3>. QED
      BY <1>3, <3>1, <3>2, ErrorAnswered
  <2>. QED
    BY <2>2, DoneGood DEF Results
<1>. QED
  BY <1>8, <1>9

LEMMA NotFoundGood ==
  ASSUME NEW prog, NEW cw, NEW r, Shape(r), Ask(prog, r), Fresh(r), Looked(prog, r),
         Finds(Searched(r), r.name, r.kind) = {}, NEW q, q = NotFound(r)
  PROVE  Good(prog, cw, q)
<1>1. CASE r.op = "cat"
  <2>1. q = Done(r, "ok")
    BY <1>1 DEF NotFound
  <2>2. But({"pc", "result"}, r, q)
    BY <2>1, DoneIs DEF Shape
  <2>3. SameCall(r, q) /\ q.out = <<>>
    <3>1. SameCall(r, q)
      BY <2>2, ButSame
    <3>. QED
      BY <2>2, <3>1 DEF But, Fields, Fresh
  <2>4. Exact => MeantBy(r) = {}
    BY <1>1, CatFinds
  <2>5. Answered(cw, q)
    <3>1. q.op = "cat" /\ (Exact => MeantBy(q) = {})
      BY <1>1, <2>3, <2>4, SameAsk DEF SameCall
    <3>. QED
      BY <2>3, <3>1, NothingAnswered
  <2>. QED
    BY <2>1, <2>5, DoneGood DEF Results
<1>2. CASE r.op # "cat" /\ r.up
  <2>1. q = Enter(r, 0)
    BY <1>2 DEF NotFound
  <2>2. PICK k : SoughtUp(prog, r.op, r.path, r.base, r.todo, r.dir, r.name, r.kind, k)
    BY <1>2 DEF Looked
  <2>3. /\ Asked(prog, r.op, r.path, r.base) /\ r.dir \in DirStarts
        /\ SoughtUp(prog, r.op, r.path, r.base, r.todo, r.dir, r.name, r.kind, k)
    BY <1>2, <2>2, SoughtSo DEF Ask
  <2>4. ASSUME Exact PROVE r.op = "cd" /\ Along(r.base, r.path, k) = 0
    BY ONLY <2>3, <2>4, LeadsUp
  <2>5. OnPath(r.op, r.path, r.base, r.todo, 0)
    BY <2>2, <2>4, RootIs DEF OnPath, SoughtUp
  <2>. QED
    BY <2>1, <2>5, EnterGood
<1>3. CASE r.op # "cat" /\ ~r.up /\ r.op # "cd" /\ r.todo = <<>> /\ r.kind = "dir"
  <2>1. q = Find(r, r.dir, r.name, "file", FALSE)
    BY <1>3 DEF NotFound
  <2>. QED
    BY <1>3, <2>1, AgainGood
<1>4. CASE r.op # "cat" /\ ~r.up /\ ~(r.op # "cd" /\ r.todo = <<>> /\ r.kind = "dir")
  <2>1. q = Done(r, "ENOENT")
    BY <1>4 DEF NotFound
  <2>. QED
    BY <1>4, <2>1, FailGood
<1>. QED
  BY <1>1, <1>2, <1>3, <1>4
-----------------------------------------------------------------------------
(* The end of a directory, and of a sector of one.                          *)

LEMMA RangeConcat ==
  ASSUME NEW S, NEW a \in Seq(S), NEW b \in Seq(S)
  PROVE  Range(a \o b) = Range(a) \cup Range(b)
<1> DEFINE ab == a \o b
           n == Len(a)
           m == Len(b)
<1>1. /\ n \in Nat /\ m \in Nat /\ DOMAIN a = 1 .. n /\ DOMAIN b = 1 .. m /\ DOMAIN ab = 1 .. n + m
      /\ \A i \in 1 .. n + m : ab[i] = IF i <= n THEN a[i] ELSE b[i - n]
  BY LenProperties, ConcatProperties
<1>. HIDE DEF ab, n, m
<1>2. Range(ab) \subseteq Range(a) \cup Range(b)
  <2>. SUFFICES ASSUME NEW i \in 1 .. n + m PROVE ab[i] \in Range(a) \cup Range(b)
    BY <1>1 DEF Range
  <2>1. CASE i <= n
    <3>1. i \in 1 .. n /\ ab[i] = a[i]
      BY <1>1, <2>1
    <3>. QED
      BY <1>1, <3>1 DEF Range
  <2>2. CASE ~(i <= n)
    <3> DEFINE j == i - n
    <3>1. j \in 1 .. m /\ ab[i] = b[j]
      BY <1>1, <2>2
    <3>. HIDE DEF j
    <3>. QED
      BY <1>1, <3>1 DEF Range
  <2>. QED
    BY <2>1, <2>2
<1>3. Range(a) \subseteq Range(ab)
  <2>. SUFFICES ASSUME NEW i \in 1 .. n PROVE a[i] \in Range(ab)
    BY <1>1 DEF Range
  <2>1. i \in 1 .. n + m /\ ab[i] = a[i]
    BY <1>1
  <2>. QED
    BY <1>1, <2>1 DEF Range
<1>4. Range(b) \subseteq Range(ab)
  <2>. SUFFICES ASSUME NEW j \in 1 .. m PROVE b[j] \in Range(ab)
    BY <1>1 DEF Range
  <2> DEFINE i == n + j
  <2>1. i \in 1 .. n + m /\ ab[i] = b[j]
    BY <1>1
  <2>. HIDE DEF i
  <2>. QED
    BY <1>1, <2>1 DEF Range
<1>. QED
  BY <1>2, <1>3, <1>4 DEF ab

LEMMA RangeJoined ==
  ASSUME NEW S, NEW a \in Seq(S), NEW b \in Seq(S), NEW x, Joined(x, a, b)
  PROVE  Range(x) = Range(a) \cup Range(b)
<1>1. x = a \o b
  BY DEF Joined
<1>2. Range(a \o b) = Range(a) \cup Range(b)
  BY RangeConcat
<1>. QED
  BY ONLY <1>1, <1>2

LEMMA ShownConcat ==
  ASSUME NEW op, NEW a \in Seq(AllEntries), NEW b \in Seq(AllEntries)
  PROVE  /\ Shown(op, a \o b) = Shown(op, a) \o Shown(op, b)
         /\ Shown(op, a) \in Seq(AllEntries)
<1>1. Kept(a \o b, AllUndotted) = Kept(a, AllUndotted) \o Kept(b, AllUndotted)
  BY KeptConcat
<1>2. Kept(a, AllUndotted) \in Seq(AllEntries)
  BY KeptType
<1>. QED
  BY <1>1, <1>2 DEF Shown, Undotted

\* The directory d was scanned, and r carries the outcome.
Finished(prog, r, d) ==
  \/ /\ r.task = "find" /\ Fresh(r) /\ d = Searched(r) /\ Looked(prog, r)
     /\ Finds(d, r.name, r.kind) = {}
  \/ /\ r.task = "list" /\ r.op \in {"ls", "readdir"}
     /\ r.op = "ls" /\ r.base # 0 => r.out = Directory[r.base]
     /\ r.op = "readdir" => r.out = Undotted(Directory[d]) /\ (Exact => d = Follow(0, r.path))
  \/ r.task = "tree" /\ r.op = "tree" /\ TreeSo(r.stack, r.out, d, Directory[d])

LEMMA EndGood ==
  ASSUME NEW prog, NEW cw, NEW r, Shape(r), Ask(prog, r), NEW d, Finished(prog, r, d),
         NEW q, q = EndOfDirectory(r)
  PROVE  Good(prog, cw, q)
<1>1. CASE r.task = "find"
  <2>1. q = NotFound(r)
    BY <1>1 DEF EndOfDirectory
  <2>2. Fresh(r) /\ Looked(prog, r) /\ Finds(Searched(r), r.name, r.kind) = {}
    BY <1>1 DEF Finished
  <2>. QED
    BY <2>1, <2>2, NotFoundGood
<1>2. CASE r.task = "list"
  <2>1. q = Done(r, "ok")
    BY <1>2 DEF EndOfDirectory
  <2>2. But({"pc", "result"}, r, q)
    BY <2>1, DoneIs DEF Shape
  <2>3. q.op = r.op /\ q.path = r.path /\ q.base = r.base /\ q.out = r.out
    BY <2>2 DEF But, Fields
  <2>4. /\ r.op \in {"ls", "readdir"}
        /\ r.op = "ls" /\ r.base # 0 => r.out = Directory[r.base]
        /\ r.op = "readdir" => r.out = Undotted(Directory[d]) /\ (Exact => d = Follow(0, r.path))
    BY <1>2 DEF Finished
  <2>5. Answered(cw, q)
    <3>1. /\ ~(q.op = "cd") /\ ~(q.op = "getattr") /\ ~(q.op \in {"read", "cat"}) /\ ~(q.op = "tree")
      BY <2>3, <2>4
    <3>. QED
      BY <2>3, <2>4, <3>1 DEF Answered
  <2>. QED
    BY <2>1, <2>5, DoneGood DEF Results
<1>3. CASE r.task = "tree"
  <2>1. q = [r EXCEPT !.pc = "leave"]
    BY <1>3 DEF EndOfDirectory
  <2>2. q.pc = "leave" /\ But({"pc"}, r, q)
    BY <2>1 DEF But, Shape, IsCall, Fields
  <2>3. /\ IsCall(q) /\ q.op = r.op /\ q.stack = r.stack /\ q.next = r.next /\ q.left = r.left
        /\ q.result = r.result /\ q.task = r.task /\ q.out = r.out
    BY <2>2 DEF But, Fields
  <2>4. Ask(prog, q)
    BY <2>2, ButSame, SameAsk
  <2>5. Shape(q)
    BY <2>2, <2>3 DEF Shape, Pcs
  <2>6. Leaving(q)
    BY <1>3, <2>3 DEF Finished, Leaving
  <2>. QED
    BY <2>2, <2>4, <2>5, <2>6 DEF Good, Phase
<1>. QED
  BY <1>1, <1>2, <1>3 DEF Finished

LEMMA ScannedAll ==
  ASSUME NEW prog, NEW r, NEW d \in DirStarts, NEW k, Scanning(prog, r, d, k),
         Directory[d] = Listed(d, k)
  PROVE  Finished(prog, r, d)
<1>1. CASE r.task = "find"
  <2>1. Fresh(r) /\ d = Searched(r) /\ Looked(prog, r) /\ NotSeen(d, k, r.name, r.kind)
    BY <1>1 DEF Scanning
  <2>2. Finds(d, r.name, r.kind) = {}
    BY <2>1 DEF NotSeen, Finds, EntriesOf
  <2>. QED
    BY <1>1, <2>1, <2>2 DEF Finished
<1>2. CASE r.task = "list"
  <2>1. ListedSo(r.op, r.path, r.base, r.out, d, k)
    BY <1>2 DEF Scanning
  <2>. QED
    BY <1>2, <2>1 DEF ListedSo, Finished, Shown
<1>3. CASE r.task = "tree"
  BY <1>3 DEF Scanning, Finished
<1>. QED
  BY <1>1, <1>2, <1>3 DEF Scanning

LEMMA ScanningBut ==
  ASSUME NEW prog, NEW r, NEW q, But({"task", "c", "s", "j", "pc", "next", "skip", "at", "left", "local"}, r, q),
         q.task = r.task, q.skip = r.skip, q.at = r.at, NEW d, NEW k, Scanning(prog, r, d, k)
  PROVE  Scanning(prog, q, d, k)
<1>1. /\ q.todo = r.todo /\ q.dir = r.dir /\ q.name = r.name /\ q.kind = r.kind /\ q.up = r.up
      /\ q.stack = r.stack /\ q.out = r.out
      /\ q.op = r.op /\ q.path = r.path /\ q.base = r.base
  BY DEF But, Fields
<1>2. Looked(prog, q) <=> Looked(prog, r)
  BY <1>1 DEF Looked
<1>. QED
  BY <1>1, <1>2 DEF Scanning, Fresh, Searched

LEMMA NextSectorGood ==
  ASSUME NEW prog, NEW cw, NEW r, Shape(r), Ask(prog, r), NEW d, NEW k, Spot(d, r.c, r.s, k),
         ~Ended(SectorLba(r.c, r.s)), Scanning(prog, r, d, k + 1), NEW q, q = NextSector(r)
  PROVE  Good(prog, cw, q)
<1> DEFINE here == SectorLba(r.c, r.s)
           room == IF r.c # 0 THEN SectorsPerCluster ELSE RootSectors
<1>1. /\ d \in DirStarts /\ k \in Nat /\ k < Len(SectorsOf(d)) /\ r.s \in Nat /\ NoEnd(d, k)
      /\ (r.c = 0 <=> d = 0) /\ SectorsOf(d)[k + 1] = here
  BY SpotSector
<1>2. CASE r.s + 1 < SectorsToScan(r)
  <2>1. r.s + 1 < room
    BY <1>1, <1>2, SizesPositive DEF SectorsToScan
  <2>2. Spot(d, r.c, r.s + 1, k + 1)
    BY <2>1, SpotNext
  <2>3. q = Scan(r, r.task, r.c, r.s + 1)
    BY <1>2 DEF NextSector
  <2>4. q.task = r.task /\ But({"task", "c", "s", "j", "pc", "next"}, r, q)
    BY <2>3, ScanIs DEF Shape
  <2>5. Scanning(prog, q, d, k + 1)
    <3>1. But({"task", "c", "s", "j", "pc", "next", "skip", "at", "left", "local"}, r, q)
          /\ q.skip = r.skip /\ q.at = r.at
      BY <2>4 DEF But, Fields
    <3>2. Scanning(prog, r, d, k + 1) /\ q.task = r.task
      BY <2>4
    <3>. QED
      BY ONLY <3>1, <3>2, ScanningBut
  <2> DEFINE s == r.s + 1
             j == k + 1
             task == r.task
             c == r.c
  <2>6. Spot(d, c, s, j) /\ q = Scan(r, task, c, s) /\ Scanning(prog, q, d, j) /\ Shape(r) /\ Ask(prog, r)
    BY <2>2, <2>3, <2>5
  <2>. HIDE DEF s, j, task, c
  <2>. QED
    BY ONLY <2>6, ScanGood
<1>3. CASE ~(r.s + 1 < SectorsToScan(r)) /\ r.c = 0
  <2>1. q = EndOfDirectory(r)
    BY <1>3 DEF NextSector
  <2>2. Finished(prog, r, d)
    <3>1. CASE r.op = "ls" /\ r.task = "list"
      <4>1. ListedSo(r.op, r.path, r.base, r.out, d, k + 1)
        BY <3>1 DEF Scanning
      <4>2. r.base = 0
        BY <1>1, <1>3, <3>1, <4>1 DEF ListedSo
      <4>. QED
        BY <3>1, <4>2 DEF Finished
    <3>2. CASE r.op # "ls"
      <4>1. ~(r.s + 1 < room)
        BY <1>3, <3>2 DEF SectorsToScan
      <4>2. NoEnd(d, Len(SectorsOf(d))) /\ k + 1 = Len(SectorsOf(d))
        BY <1>3, <4>1, SpotLast
      <4>3. Directory[d] = Listed(d, k + 1)
        BY <1>1, <4>2, DirectoryEnds
      <4> DEFINE j == k + 1
      <4>4. Directory[d] = Listed(d, j) /\ Scanning(prog, r, d, j) /\ d \in DirStarts
        BY <1>1, <4>3
      <4>. HIDE DEF j
      <4>. QED
        BY ONLY <4>4, ScannedAll
    <3>3. CASE r.op = "ls" /\ r.task # "list"
      <4>1. r.task = "find" /\ Looked(prog, r) /\ r.op # "cat"
        BY <3>3 DEF Scanning
      <4>2. r.op \in {"cd"} \cup FuseCalls
        BY <4>1, SoughtSo
      <4>. QED
        BY <3>3, <4>2 DEF FuseCalls
    <3>. QED
      BY <3>1, <3>2, <3>3
  <2>. QED
    BY <2>1, <2>2, EndGood
<1>4. CASE ~(r.s + 1 < SectorsToScan(r)) /\ r.c # 0
  <2>1. q = FatNextCluster(r)
    BY <1>4 DEF NextSector
  <2>2. ~(r.s + 1 < room)
    BY <1>4 DEF SectorsToScan
  <2>3. Past(d, r.c, k + 1)
    BY <1>4, <2>2, SpotLast
  <2>4. r.task # "copy"
    BY DEF Scanning
  <2>5. ChainOK(prog, r)
    BY <2>3, <2>4 DEF ChainOK
  <2>. QED
    BY <2>1, <2>5, ChainGood
<1>. QED
  BY <1>2, <1>3, <1>4
-----------------------------------------------------------------------------
(* The steps that treat one sector of a directory.                          *)

LEMMA SectorOf ==
  ASSUME NEW d, NEW c, NEW s, NEW k, Spot(d, c, s, k), NEW lba, lba = SectorLba(c, s),
         NEW es, es = LiveEntries(lba)
  PROVE  /\ d \in DirStarts /\ k \in Nat
         /\ es \in Seq(AllEntries) /\ Listed(d, k) \in Seq(AllEntries)
         /\ Ended(lba) => Joined(Directory[d], Listed(d, k), es)
         /\ ~Ended(lba) => Joined(Listed(d, k + 1), Listed(d, k), es)
         /\ Range(es) \subseteq EntriesOf(d)
<1> DEFINE n == Len(SectorsOf(d))
<1>1. /\ SectorsOf(d)[k + 1] = lba /\ lba \in DOMAIN Dir
      /\ d \in DirStarts /\ k \in Nat /\ k < n /\ NoEnd(d, k)
      /\ k \in 0 .. n - 1 /\ k \in 0 .. n
  BY SpotSector
<1>2. n \in Nat /\ k + 1 \in 0 .. n
  BY <1>1, DirSectors
<1>3. /\ es \in Seq(AllEntries) /\ Listed(d, k) \in Seq(AllEntries)
      /\ Listed(d, k + 1) \in Seq(AllEntries)
      /\ ~Ended(lba) => Joined(Listed(d, k + 1), Listed(d, k), es)
  BY <1>1, <1>2, ListedFacts DEF Joined
<1>4. Ended(lba) => Joined(Directory[d], Listed(d, k), es)
  BY <1>1, DirectoryFrom DEF Joined
<1>5. Range(es) \subseteq EntriesOf(d)
  <2>1. CASE Ended(lba)
    <3>1. EntriesOf(d) = Range(Listed(d, k)) \cup Range(es)
      BY <1>3, <1>4, <2>1, RangeJoined DEF EntriesOf
    <3>. QED
      BY <3>1
  <2>2. CASE ~Ended(lba)
    <3>1. NoEnd(d, k + 1)
      BY <1>1, <2>2, NoEndNext
    <3> DEFINE j == k + 1
    <3>2. j \in 0 .. n /\ NoEnd(d, j) /\ Joined(Listed(d, j), Listed(d, k), es) /\ Listed(d, j) \in Seq(AllEntries)
      BY <1>2, <1>3, <2>2, <3>1
    <3>. HIDE DEF j
    <3>3. PICK x \in Seq(AllEntries) : Joined(Directory[d], Listed(d, j), x)
      BY <1>1, <3>2, DirectoryFrom DEF Joined
    <3>4. EntriesOf(d) = Range(Listed(d, j)) \cup Range(x)
      BY <3>2, <3>3, RangeJoined DEF EntriesOf
    <3>5. Range(Listed(d, j)) = Range(Listed(d, k)) \cup Range(es)
      BY <1>3, <3>2, RangeJoined
    <3>. QED
      BY <3>4, <3>5
  <2>. QED
    BY <2>1, <2>2
<1>. QED
  BY <1>1, <1>3, <1>4, <1>5

LEMMA FindStep ==
  ASSUME NEW prog, NEW cw, NEW r, Good(prog, cw, r), r.pc = "scan", r.task = "find",
         NEW lba, lba = SectorLba(r.c, r.s), NEW es, es = LiveEntries(lba),
         NEW hits, hits = {i \in DOMAIN es : es[i].kind = r.kind /\ NameMatch(es[i].name83, r.name)},
         NEW q, q = IF hits # {} THEN Found(r, es[Min(hits)])
                    ELSE IF Ended(lba) THEN NotFound(r) ELSE NextSector(r)
  PROVE  Good(prog, cw, q)
<1>1. Shape(r) /\ Ask(prog, r) /\ ScanOK(prog, r)
  BY DEF Good, Phase
<1>2. PICK d, k : Spot(d, r.c, r.s, k) /\ Scanning(prog, r, d, k)
  BY <1>1 DEF ScanOK
<1>3. Fresh(r) /\ d = Searched(r) /\ Looked(prog, r) /\ NotSeen(d, k, r.name, r.kind)
  BY <1>2 DEF Scanning
<1>4. /\ d \in DirStarts /\ k \in Nat
      /\ es \in Seq(AllEntries) /\ Listed(d, k) \in Seq(AllEntries)
      /\ Ended(lba) => Joined(Directory[d], Listed(d, k), es)
      /\ ~Ended(lba) => Joined(Listed(d, k + 1), Listed(d, k), es)
      /\ Range(es) \subseteq EntriesOf(d)
  BY <1>2, SectorOf
<1>5. DOMAIN es = 1 .. Len(es) /\ Len(es) \in Nat
  BY <1>4, LenProperties
<1>6. CASE hits # {}
  <2> DEFINE i == Min(hits)
             e == es[i]
  <2>1. hits \subseteq Nat
    BY <1>5
  <2>2. i \in hits
    BY <1>6, <2>1, MinNat
  <2>3. e \in Range(es) /\ e.kind = r.kind /\ NameMatch(e.name83, r.name)
    BY <2>2 DEF Range
  <2>. HIDE DEF i
  <2>4. e \in Finds(Searched(r), r.name, r.kind)
    BY <1>3, <1>4, <2>3 DEF Finds
  <2>5. q = Found(r, e)
    BY <1>6 DEF i
  <2>6. Shape(r) /\ Ask(prog, r) /\ Fresh(r) /\ Looked(prog, r)
    BY <1>1, <1>3
  <2>. HIDE DEF e
  <2>. QED
    BY ONLY <2>4, <2>5, <2>6, FoundGood
<1>7. CASE hits = {}
  <2>1. \A e \in Range(es) : ~(e.kind = r.kind /\ NameMatch(e.name83, r.name))
    BY <1>7 DEF Range
  <2>2. CASE Ended(lba)
    <3>1. Range(Directory[d]) = Range(Listed(d, k)) \cup Range(es)
      BY <1>4, <2>2, RangeJoined
    <3>2. Finds(Searched(r), r.name, r.kind) = {}
      BY <1>3, <2>1, <3>1 DEF Finds, EntriesOf, NotSeen
    <3>3. q = NotFound(r)
      BY <1>7, <2>2
    <3>. QED
      BY <1>1, <1>3, <3>2, <3>3, NotFoundGood
  <2>3. CASE ~Ended(lba)
    <3>1. Range(Listed(d, k + 1)) = Range(Listed(d, k)) \cup Range(es)
      BY <1>4, <2>3, RangeJoined
    <3>2. NotSeen(d, k + 1, r.name, r.kind)
      BY <1>3, <2>1, <3>1 DEF NotSeen
    <3>3. Scanning(prog, r, d, k + 1)
      BY <1>3, <3>2 DEF Scanning
    <3>4. q = NextSector(r)
      BY <1>7, <2>3
    <3>. QED
      BY <1>1, <1>2, <2>3, <3>3, <3>4, NextSectorGood
  <2>. QED
    BY <2>2, <2>3
<1>. QED
  BY <1>6, <1>7

LEMMA ListStep ==
  ASSUME NEW prog, NEW cw, NEW r, Good(prog, cw, r), r.pc = "scan", r.task = "list",
         NEW lba, lba = SectorLba(r.c, r.s),
         NEW m, m = [r EXCEPT !.out = @ \o Shown(r.op, LiveEntries(lba))],
         NEW q, q = IF Ended(lba) THEN EndOfDirectory(m) ELSE NextSector(m)
  PROVE  Good(prog, cw, q)
<1> DEFINE es == LiveEntries(lba)
<1>1. Shape(r) /\ Ask(prog, r) /\ ScanOK(prog, r)
  BY DEF Good, Phase
<1>2. PICK d, k : Spot(d, r.c, r.s, k) /\ Scanning(prog, r, d, k)
  BY <1>1 DEF ScanOK
<1>3. ListedSo(r.op, r.path, r.base, r.out, d, k)
  BY <1>2 DEF Scanning
<1>4. /\ d \in DirStarts /\ k \in Nat
      /\ es \in Seq(AllEntries) /\ Listed(d, k) \in Seq(AllEntries)
      /\ Ended(lba) => Joined(Directory[d], Listed(d, k), es)
      /\ ~Ended(lba) => Joined(Listed(d, k + 1), Listed(d, k), es)
  BY <1>2, SectorOf
<1>5. m.out = r.out \o Shown(r.op, es) /\ But({"out"}, r, m)
  BY <1>1 DEF But, Shape, IsCall, Fields
<1>6. SameCall(r, m)
  BY <1>5, ButSame
<1>7. /\ IsCall(m) /\ m.pc = r.pc /\ m.next = r.next /\ m.left = r.left /\ m.result = r.result
      /\ m.task = "list" /\ m.c = r.c /\ m.s = r.s
  BY <1>5 DEF But, Fields
<1>8. Shape(m) /\ Ask(prog, m)
  BY <1>1, <1>6, <1>7, SameAsk DEF Shape
<1>. HIDE DEF es
<1>9. m.out = Shown(r.op, Listed(d, k) \o es)
  <2>1. Shown(r.op, Listed(d, k) \o es) = Shown(r.op, Listed(d, k)) \o Shown(r.op, es)
    BY <1>4, ShownConcat
  <2>2. r.out = Shown(r.op, Listed(d, k))
    BY <1>3 DEF ListedSo
  <2>. QED
    BY ONLY <1>5, <2>1, <2>2
<1>10. m.op = r.op /\ m.path = r.path /\ m.base = r.base
  BY <1>6 DEF SameCall
<1>11. CASE Ended(lba)
  <2>1. m.out = Shown(m.op, Directory[d])
    BY <1>4, <1>9, <1>10, <1>11 DEF Joined
  <2>2. Finished(prog, m, d)
    BY <1>3, <1>7, <1>10, <2>1 DEF Finished, ListedSo, Shown
  <2>3. q = EndOfDirectory(m)
    BY <1>11
  <2>. QED
    BY <1>8, <2>2, <2>3, EndGood
<1>12. CASE ~Ended(lba)
  <2>1. m.out = Shown(m.op, Listed(d, k + 1))
    BY <1>4, <1>9, <1>10, <1>12 DEF Joined
  <2>2. Scanning(prog, m, d, k + 1)
    BY <1>3, <1>7, <1>10, <2>1 DEF Scanning, ListedSo
  <2>3. q = NextSector(m)
    BY <1>12
  <2>4. Spot(d, m.c, m.s, k) /\ ~Ended(SectorLba(m.c, m.s))
    BY <1>2, <1>7, <1>12
  <2>. QED
    BY <1>8, <2>2, <2>3, <2>4, NextSectorGood
<1>. QED
  BY <1>11, <1>12
-----------------------------------------------------------------------------
(* The steps along a chain and through the sectors of a file.               *)

LEMMA ChainOf ==
  ASSUME NEW prog, NEW r, ChainOK(prog, r)
  PROVE  r.c \in Clusters /\ FatValue(FatSector(r.c), r.c) = Fat[r.c] /\ Fat[r.c] \in Nat
<1>1. r.c \in Clusters
  <2>1. CASE r.task = "copy"
    BY <2>1, ChainCluster DEF ChainOK, Reads
  <2>2. CASE r.task # "copy"
    BY <2>2, PastNext DEF ChainOK
  <2>. QED
    BY <2>1, <2>2
<1>2. Fat[r.c] \in Clusters \cup {0, 65535}
  BY <1>1, ClusterNumbers
<1>3. Fat[r.c] \in Nat
  BY <1>2, ClusterNumbers
<1>. QED
  BY <1>1, <1>3, FatEntryRead

LEMMA ScanChainStep ==
  ASSUME NEW prog, NEW cw, NEW r, Good(prog, cw, r), r.pc = "chain", r.task # "copy",
         NEW c, c = Fat[r.c],
         NEW q, q = IF InChain(r, c) THEN Scan(r, r.task, c, 0) ELSE EndOfDirectory(r)
  PROVE  Good(prog, cw, q)
<1>1. Shape(r) /\ Ask(prog, r) /\ ChainOK(prog, r)
  BY DEF Good, Phase
<1>2. PICK d, k : Past(d, r.c, k) /\ Scanning(prog, r, d, k)
  BY <1>1 DEF ChainOK
<1>3. /\ d \in DirStarts
      /\ IF c < EndMark THEN c >= 2 /\ Spot(d, c, 0, k)
         ELSE k = Len(SectorsOf(d)) /\ NoEnd(d, Len(SectorsOf(d)))
  BY <1>2, PastNext
<1>4. CASE c < EndMark
  <2>1. q = Scan(r, r.task, c, 0)
    BY <1>3, <1>4 DEF InChain
  <2>2. q.task = r.task /\ But({"task", "c", "s", "j", "pc", "next"}, r, q)
    BY <1>1, <2>1, ScanIs DEF Shape
  <2>3. Scanning(prog, q, d, k)
    <3>1. But({"task", "c", "s", "j", "pc", "next", "skip", "at", "left", "local"}, r, q)
          /\ q.skip = r.skip /\ q.at = r.at
      BY <2>2 DEF But, Fields
    <3>2. Scanning(prog, r, d, k) /\ q.task = r.task
      BY <1>2, <2>2
    <3>. QED
      BY ONLY <3>1, <3>2, ScanningBut
  <2> DEFINE task == r.task
  <2>4. q = Scan(r, task, c, 0) /\ Shape(r) /\ Ask(prog, r) /\ Spot(d, c, 0, k)
    BY <1>1, <1>3, <1>4, <2>1
  <2>. HIDE DEF task
  <2>. QED
    BY ONLY <2>3, <2>4, ScanGood
<1>5. CASE ~(c < EndMark)
  <2>1. q = EndOfDirectory(r)
    BY <1>5 DEF InChain
  <2>2. Directory[d] = Listed(d, k)
    BY <1>3, <1>5, DirectoryEnds
  <2>3. Finished(prog, r, d)
    BY <1>2, <1>3, <2>2, ScannedAll
  <2>. QED
    BY <1>1, <2>1, <2>3, EndGood
<1>. QED
  BY <1>4, <1>5

\* The copying is over.
LEMMA CopiedGood ==
  ASSUME NEW prog, NEW cw, NEW r, Shape(r), Ask(prog, r), NEW e, Reads(r, e),
         r.out = Bytes(e, r.offset, Total(r, e)), NEW q, q = Done(r, "ok")
  PROVE  Good(prog, cw, q)
<1>1. r.op \in {"read", "cat"} /\ NamesFile(r, e) /\ (r.op = "read" => r.offset < e.size)
  BY DEF Reads, NamesFile, IsFile
<1>2. Wanted(r, e) = Bytes(e, r.offset, Total(r, e))
  BY <1>1, FileStarts
<1>3. But({"pc", "result"}, r, q)
  BY DoneIs DEF Shape
<1>4. SameCall(r, q) /\ q.out = r.out
  <2>1. SameCall(r, q)
    BY <1>3, ButSame
  <2>. QED
    BY <1>3, <2>1 DEF But, Fields
<1>5. q.op \in {"read", "cat"} /\ NamesFile(q, e) /\ q.out = Wanted(q, e)
  BY <1>1, <1>2, <1>4, SameAsk DEF SameCall, NamesFile, Wanted
<1>6. Answered(cw, q)
  BY <1>5, BytesAnswered
<1>. QED
  BY <1>6, DoneGood DEF Results

LEMMA ReadsTotal ==
  ASSUME NEW prog, NEW r, Ask(prog, r), NEW e, Reads(r, e)
  PROVE  /\ IsFile(e) /\ r.offset \in Nat /\ Total(r, e) \in Nat /\ r.offset + Total(r, e) <= e.size
<1>1. r.op \in {"read", "cat"} /\ NamesFile(r, e) /\ (r.op = "read" => r.offset < e.size)
  BY DEF Reads, NamesFile, IsFile
<1>2. IsFile(e) /\ r.offset \in Nat
  BY DEF Reads, Ask
<1>. QED
  BY <1>1, <1>2, FileStarts

\* A call that differs from r in the fields of the copying only.
Copying(r, m) == But({"c", "skip", "at", "left", "out"}, r, m)

LEMMA CopyingSame ==
  ASSUME NEW prog, NEW r, NEW m, Shape(r), Ask(prog, r), Copying(r, m), m.left \in Nat
  PROVE  /\ Shape(m) /\ Ask(prog, m) /\ m.task = r.task /\ m.offset = r.offset /\ m.op = r.op
         /\ \A e : Reads(r, e) => Reads(m, e) /\ Total(m, e) = Total(r, e)
<1>1. SameCall(r, m)
  BY ButSame DEF Copying
<1>2. IsCall(m) /\ m.pc = r.pc /\ m.next = r.next /\ m.result = r.result /\ m.task = r.task
  BY DEF Copying, But, Fields
<1>3. Shape(m) /\ Ask(prog, m)
  BY <1>1, <1>2, SameAsk DEF Shape
<1>. QED
  BY <1>1, <1>2, <1>3, SameAsk DEF SameCall

\* The call at the next cluster c of its chain.
Forward(r, c) == [r EXCEPT !.c = c]

CopyOn(r, c, moved) ==
  IF ~InChain(r, c) THEN Done(r, "ok")
  ELSE IF r.skip > 1 THEN FatNextCluster([moved EXCEPT !.skip = @ - 1])
  ELSE IF r.skip = 1 THEN NextPiece([moved EXCEPT !.skip = 0])
  ELSE IF r.op = "read" /\ r.left = 0 THEN Done(r, "ok")
  ELSE NextPiece([moved EXCEPT !.at = 0])

LEMMA CopyChainStep ==
  ASSUME NEW prog, NEW cw, NEW r, Good(prog, cw, r), r.pc = "chain", r.task = "copy",
         NEW c, c = Fat[r.c], NEW moved, moved = Forward(r, c), NEW q, q = CopyOn(r, c, moved)
  PROVE  Good(prog, cw, q)
<1>. moved = [r EXCEPT !.c = c]
  BY DEF Forward
<1>. q = IF ~InChain(r, c) THEN Done(r, "ok")
         ELSE IF r.skip > 1 THEN FatNextCluster([moved EXCEPT !.skip = @ - 1])
         ELSE IF r.skip = 1 THEN NextPiece([moved EXCEPT !.skip = 0])
         ELSE IF r.op = "read" /\ r.left = 0 THEN Done(r, "ok")
         ELSE NextPiece([moved EXCEPT !.at = 0])
  BY DEF CopyOn
<1>1. Shape(r) /\ Ask(prog, r) /\ ChainOK(prog, r)
  BY DEF Good, Phase
<1>2. PICK e : Reads(r, e) /\ CopyChain(e, r.offset, Total(r, e), r.c, r.skip, r.at, r.left, r.out)
  BY <1>1 DEF ChainOK
<1> DEFINE off == r.offset
           tot == Total(r, e)
           at == r.at
           left == r.left
           out == r.out
           skip == r.skip
<1>3. IsFile(e) /\ off \in Nat /\ tot \in Nat /\ off + tot <= e.size /\ left \in Nat
  BY <1>1, <1>2, ReadsTotal DEF Shape
<1> DEFINE old == r.c
<1>4. IsFile(e) /\ off \in Nat /\ tot \in Nat /\ off + tot <= e.size
      /\ CopyChain(e, off, tot, old, skip, at, left, out) /\ c = Fat[old]
  BY <1>2, <1>3
<1>. HIDE DEF off, tot, at, left, out, skip, old
<1>5. /\ skip \in Nat
      /\ IF Fat[old] < EndMark
              THEN /\ Fat[old] >= 2
                   /\ skip > 1 => CopyChain(e, off, tot, Fat[old], skip - 1, at, left, out)
                   /\ skip = 1 => /\ at < ClusterSize /\ left > 0
                                  /\ CopyData(e, off, tot, Fat[old], at \div SectorSize, at, left, out)
                   /\ skip = 0 /\ left = 0 => \A a : CopyChain(e, off, tot, Fat[old], 0, a, left, out)
                   /\ skip = 0 /\ left # 0 => left > 0 /\ CopyData(e, off, tot, Fat[old], 0 \div SectorSize, 0, left, out)
              ELSE left = 0
      /\ left = 0 => out = Bytes(e, off, tot)
  BY ONLY <1>4, CopyNextCluster
<1>6. r.out = out /\ r.left = left /\ r.at = at /\ r.skip = skip /\ r.offset = off /\ Total(r, e) = tot
      /\ r.left \in Nat
  BY <1>1 DEF off, tot, at, left, out, skip, Shape
<1>7. ASSUME q = Done(r, "ok"), left = 0 PROVE Good(prog, cw, q)
  <2>1. r.out = Bytes(e, r.offset, Total(r, e))
    BY <1>5, <1>6, <1>7
  <2>. QED
    BY <1>1, <1>2, <1>7, <2>1, CopiedGood
<1>8. CASE ~(c < EndMark)
  <2>1. q = Done(r, "ok") /\ left = 0
    BY <1>4, <1>5, <1>8 DEF InChain
  <2>. QED
    BY <1>7, <2>1
<1>9. CASE c < EndMark
  <2>1. InChain(r, c)
    BY <1>4, <1>5, <1>9 DEF InChain
  <2>2. CASE r.skip > 1
    <3> DEFINE m == [moved EXCEPT !.skip = @ - 1]
    <3>1. m.c = c /\ m.skip = skip - 1 /\ Copying(r, m) /\ m.at = at /\ m.left = left /\ m.out = out
      BY <1>1, <1>6 DEF Copying, But, Shape, IsCall, Fields
    <3>2. q = FatNextCluster(m)
      BY <2>1, <2>2
    <3>. HIDE DEF m
    <3>3. /\ Shape(m) /\ Ask(prog, m) /\ m.task = "copy" /\ m.offset = off
          /\ Reads(m, e) /\ Total(m, e) = tot
      BY <1>1, <1>2, <1>6, <3>1, CopyingSame
    <3>4. CopyChain(e, m.offset, Total(m, e), m.c, m.skip, m.at, m.left, m.out)
      BY <1>4, <1>5, <1>6, <1>9, <2>2, <3>1, <3>3
    <3>5. ChainOK(prog, m)
      BY <3>3, <3>4 DEF ChainOK
    <3>. QED
      BY <3>2, <3>3, <3>5, ChainGood
  <2>3. CASE r.skip = 1
    <3> DEFINE m == [moved EXCEPT !.skip = 0]
    <3>1. m.c = c /\ m.skip = 0 /\ Copying(r, m) /\ m.at = at /\ m.left = left /\ m.out = out
      BY <1>1, <1>6 DEF Copying, But, Shape, IsCall, Fields
    <3>2. q = NextPiece(m)
      BY <2>1, <2>3
    <3>. HIDE DEF m
    <3>3. /\ Shape(m) /\ Ask(prog, m) /\ m.task = "copy" /\ m.offset = off
          /\ Reads(m, e) /\ Total(m, e) = tot
      BY <1>1, <1>2, <1>6, <3>1, CopyingSame
    <3>4. /\ m.at < ClusterSize /\ m.left > 0
          /\ CopyData(e, m.offset, Total(m, e), m.c, m.at \div SectorSize, m.at, m.left, m.out)
      BY <1>4, <1>5, <1>6, <1>9, <2>3, <3>1, <3>3
    <3>5. CopyOK(m, e)
      BY <3>1, <3>4 DEF CopyOK
    <3>. QED
      BY <3>2, <3>3, <3>5, NextPieceGood
  <2>4. CASE ~(r.skip > 1) /\ ~(r.skip = 1) /\ r.op = "read" /\ r.left = 0
    <3>1. q = Done(r, "ok") /\ left = 0
      BY <1>6, <2>1, <2>4
    <3>. QED
      BY <1>7, <3>1
  <2>5. CASE ~(r.skip > 1) /\ ~(r.skip = 1) /\ ~(r.op = "read" /\ r.left = 0)
    <3> DEFINE m == [moved EXCEPT !.at = 0]
    <3>0. skip = 0
      BY <1>5, <1>6, <2>5
    <3>1. m.c = c /\ m.skip = 0 /\ Copying(r, m) /\ m.at = 0 /\ m.left = left /\ m.out = out
      BY <1>1, <1>6, <3>0 DEF Copying, But, Shape, IsCall, Fields
    <3>2. q = NextPiece(m)
      BY <2>1, <2>5
    <3>. HIDE DEF m
    <3>3. /\ Shape(m) /\ Ask(prog, m) /\ m.task = "copy" /\ m.offset = off
          /\ Reads(m, e) /\ Total(m, e) = tot
      BY <1>1, <1>2, <1>6, <3>1, CopyingSame
    <3>4. CASE left = 0
      <4>1. CopyChain(e, off, tot, c, 0, 0, left, out)
        BY <1>4, <1>5, <1>9, <3>0, <3>4
      <4>2. CopyChain(e, m.offset, Total(m, e), m.c, m.skip, m.at, m.left, m.out)
        BY <3>1, <3>3, <4>1
      <4>3. ~(m.left > 0)
        BY <3>1, <3>4
      <4>4. CopyOK(m, e)
        BY <4>2, <4>3 DEF CopyOK
      <4>. QED
        BY <3>2, <3>3, <4>4, NextPieceGood
    <3>5. CASE left # 0
      <4>1. left > 0 /\ CopyData(e, off, tot, c, 0 \div SectorSize, 0, left, out)
        BY <1>4, <1>5, <1>9, <3>0, <3>5
      <4>2. CopyData(e, m.offset, Total(m, e), m.c, m.at \div SectorSize, m.at, m.left, m.out)
        BY <3>1, <3>3, <4>1
      <4>3. m.left > 0 /\ m.at < ClusterSize /\ m.skip = 0
        BY <3>1, <4>1, ClusterSizeIs
      <4>4. CopyOK(m, e)
        BY <4>2, <4>3 DEF CopyOK
      <4>. QED
        BY <3>2, <3>3, <4>4, NextPieceGood
    <3>. QED
      BY <3>4, <3>5
  <2>. QED
    BY <2>2, <2>3, <2>4, <2>5
<1>. QED
  BY <1>8, <1>9

\* The call with chunk more bytes of the sector source, taken from the place from on.
Copied(r, source, from, chunk) ==
  [r EXCEPT !.out = @ \o [i \in 1 .. chunk |-> <<source, from + i - 1>>],
            !.left = @ - chunk,
            !.at = (@ \div SectorSize + 1) * SectorSize]

AfterCopy(r, m) == IF r.op = "cat" /\ m.left = 0 THEN Done(m, "ok") ELSE NextPiece(m)

LEMMA CopyStep ==
  ASSUME NEW prog, NEW cw, NEW r, Good(prog, cw, r), r.pc = "data",
         NEW source, source = SectorLba(r.c, r.s), NEW from, from = r.at % SectorSize,
         NEW chunk, chunk = Min({SectorSize - from, r.left}),
         NEW m, m = Copied(r, source, from, chunk), NEW q, q = AfterCopy(r, m)
  PROVE  Good(prog, cw, q)
<1>a. m = [r EXCEPT !.out = @ \o [i \in 1 .. chunk |-> <<source, from + i - 1>>],
                    !.left = @ - chunk,
                    !.at = (@ \div SectorSize + 1) * SectorSize]
  BY DEF Copied
<1>b. q = IF r.op = "cat" /\ m.left = 0 THEN Done(m, "ok") ELSE NextPiece(m)
  BY DEF AfterCopy
<1>1. Shape(r) /\ Ask(prog, r) /\ DataOK(r)
  BY DEF Good, Phase
<1>2. PICK e : Reads(r, e) /\ CopyData(e, r.offset, Total(r, e), r.c, r.s, r.at, r.left, r.out)
  BY <1>1 DEF DataOK
<1> DEFINE off == r.offset
           tot == Total(r, e)
           c == r.c
           s == r.s
           at == r.at
           left == r.left
           out == r.out
           more == Longer(out, SectorLba(c, s), at % SectorSize, chunk)
           next == (at \div SectorSize + 1) * SectorSize
<1>3. IsFile(e) /\ off \in Nat /\ tot \in Nat /\ off + tot <= e.size /\ left \in Nat
  BY <1>1, <1>2, ReadsTotal DEF Shape
<1>4. /\ m.out = more /\ m.left = left - chunk /\ m.at = next
      /\ But({"out", "left", "at"}, r, m)
  <2>1. DOMAIN r = Fields
    BY <1>1 DEF Shape, IsCall
  <2>2. /\ m.left = r.left - chunk /\ m.at = (r.at \div SectorSize + 1) * SectorSize
        /\ But({"out", "left", "at"}, r, m)
    BY ONLY <1>a, <2>1 DEF But, IsCall, Fields
  <2>3. m.out = Longer(r.out, source, from, chunk)
    BY ONLY <1>a, <2>1 DEF Fields, Longer
  <2>. QED
    BY <2>2, <2>3
<1>5. /\ IsFile(e) /\ off \in Nat /\ tot \in Nat /\ CopyData(e, off, tot, c, s, at, left, out)
      /\ chunk = Min({SectorSize - (at % SectorSize), left})
  BY <1>2, <1>3
<1>6. m.skip = 0 /\ m.c = c /\ Copying(r, m)
  BY <1>1, <1>4 DEF DataOK, But, Fields, Copying
<1>7. r.offset = off /\ Total(r, e) = tot
  OBVIOUS
<1>8. more = Longer(out, SectorLba(c, s), at % SectorSize, chunk)
      /\ next = (at \div SectorSize + 1) * SectorSize
  OBVIOUS
<1>. HIDE DEF off, tot, c, s, at, left, out, more, next
<1>9. /\ left - chunk \in Nat /\ next \in Nat
      /\ ~(next < ClusterSize /\ left - chunk > 0) => CopyChain(e, off, tot, c, 0, next, left - chunk, more)
      /\ next < ClusterSize /\ left - chunk > 0 =>
              CopyData(e, off, tot, c, next \div SectorSize, next, left - chunk, more)
      /\ left - chunk = 0 => more = Bytes(e, off, tot)
  BY ONLY <1>5, <1>8, CopyNextSector
<1>10. m.left \in Nat
  BY <1>4, <1>9
<1>11. Shape(m) /\ Ask(prog, m) /\ m.offset = off /\ Reads(m, e) /\ Total(m, e) = tot
  <2>1. Shape(r) /\ Ask(prog, r) /\ Reads(r, e) /\ Copying(r, m)
    BY <1>1, <1>2, <1>6
  <2>2. /\ Shape(m) /\ Ask(prog, m) /\ m.task = r.task /\ m.offset = r.offset /\ m.op = r.op
        /\ \A x : Reads(r, x) => Reads(m, x) /\ Total(m, x) = Total(r, x)
    BY ONLY <1>10, <2>1, CopyingSame
  <2>. QED
    BY <1>7, <2>1, <2>2
<1>12. CASE r.op = "cat" /\ m.left = 0
  <2>1. q = Done(m, "ok")
    BY <1>b, <1>12
  <2>2. m.out = Bytes(e, m.offset, Total(m, e))
    BY <1>4, <1>9, <1>11, <1>12
  <2>. QED
    BY <1>11, <2>1, <2>2, CopiedGood
<1>13. CASE ~(r.op = "cat" /\ m.left = 0)
  <2>1. q = NextPiece(m)
    BY <1>b, <1>13
  <2>2. CopyOK(m, e)
    BY <1>4, <1>6, <1>9, <1>11 DEF CopyOK
  <2>. QED
    BY <1>11, <2>1, <2>2, NextPieceGood
<1>. QED
  BY <1>12, <1>13
-----------------------------------------------------------------------------
(* The steps along the path.                                                *)

LEMMA DotStep ==
  ASSUME NEW prog, NEW op, NEW path, NEW base, Asked(prog, op, path, base), op \in {"cd"} \cup FuseCalls,
         NEW k \in 1 .. Len(path), Along(base, path, k - 1) \in DirStarts, Exact
  PROVE  /\ Component(prog, path[k]) = <<".">> =>
              op = "cd" /\ Along(base, path, k) = Along(base, path, k - 1)
         /\ Component(prog, path[k]) = DotDot /\ Along(base, path, k - 1) = 0 =>
              op = "cd" /\ Along(base, path, k) = 0
<1> DEFINE d == Along(base, path, k - 1)
           f == path[k]
<1>1. path \in Seq(Range(path)) /\ Len(path) \in Nat
  BY PathIsSeq
<1>2. Along(base, path, k) = FollowStep(d, f)
  BY <1>1, FollowNext
<1>3. <<".">> # DotDot
  BY DEF DotDot
<1>4. CASE op = "cd"
  <2>1. prog = "cli"
    BY <1>4 DEF Asked, FuseCalls
  <2>2. IF f = DotDot THEN d = 0 \/ ExactParent(d) ELSE f = <<".">> \/ ExactDir("cli", d, f)
    BY <1>4, ExactCdAt
  <2>3. Component(prog, f) = <<".">> => f = <<".">>
    BY <1>3, <2>1, <2>2, DotComponents DEF ExactDir
  <2>4. Component(prog, f) = DotDot => f = DotDot
    BY <1>3, <2>1, <2>2, DotComponents DEF ExactDir
  <2>. QED
    BY <1>2, <1>4, <2>3, <2>4 DEF FollowStep
<1>5. CASE op \in FuseCalls
  <2>1. prog = "fuse" /\ ExactDir("fuse", d, f)
    BY <1>5, ExactFuseAt
  <2>. QED
    BY <2>1 DEF ExactDir
<1>. QED
  BY <1>4, <1>5

\* The call after the name, the first of its path; rest is the call with that name taken off.
WalkOn(r, rest, name) ==
  IF name = <<".">> THEN Enter(rest, r.dir)
  ELSE IF name # DotDot THEN Find(rest, r.dir, name, "dir", FALSE)
  ELSE IF r.dir = 0 THEN Enter(rest, 0)
  ELSE Find(rest, r.dir, DotDot, "dir", TRUE)

LEMMA WalkStep ==
  ASSUME NEW prog, NEW cw, NEW r, Good(prog, cw, r), r.pc = "path", r.todo # <<>>,
         NEW rest, rest = Rest(r), NEW name, name = Component(prog, Head(r.todo)),
         NEW q, q = WalkOn(r, rest, name)
  PROVE  Good(prog, cw, q)
<1>. q = IF name = <<".">> THEN Enter(rest, r.dir)
         ELSE IF name # DotDot THEN Find(rest, r.dir, name, "dir", FALSE)
         ELSE IF r.dir = 0 THEN Enter(rest, 0)
         ELSE Find(rest, r.dir, DotDot, "dir", TRUE)
  BY DEF WalkOn
<1>1. Shape(r) /\ Ask(prog, r) /\ Fresh(r) /\ OnPath(r.op, r.path, r.base, r.todo, r.dir)
  BY DEF Good, Phase
<1>2. PICK k : /\ Taken(r.op, r.path, r.todo, k)
               /\ Exact => r.dir = Along(r.base, r.path, k) /\ (r.op # "cd" => k < Len(r.path))
  BY <1>1 DEF OnPath
<1> DEFINE n == Len(r.path)
           j == k + 1
<1>3. /\ r.dir \in DirStarts /\ r.op \in {"cd"} \cup FuseCalls /\ k \in 0 .. n
      /\ r.todo = SubSeq(r.path, k + 1, n)
  BY <1>1, <1>2 DEF OnPath, Taken
<1>4. r.path \in Seq(Range(r.path)) /\ n \in Nat
  BY <1>1, <1>3, PathIsSeq DEF Ask
<1>5. j \in 1 .. n /\ Head(r.todo) = r.path[j] /\ Tail(r.todo) = SubSeq(r.path, j + 1, n)
  <2> DEFINE todo == r.todo
             path == r.path
             T == Range(r.path)
  <2>1. path \in Seq(T) /\ k \in 0 .. n /\ todo = SubSeq(path, k + 1, n) /\ todo # <<>> /\ n = Len(path)
    BY <1>3, <1>4
  <2>. HIDE DEF todo, path, T, n
  <2>2. /\ todo # <<>> <=> k < n
        /\ k < n => /\ k + 1 \in 1 .. n /\ Head(todo) = path[k + 1]
                    /\ Tail(todo) = SubSeq(path, (k + 1) + 1, n)
    BY ONLY <2>1, RestOfPath
  <2>3. /\ k + 1 \in 1 .. n /\ Head(todo) = path[k + 1]
        /\ Tail(todo) = SubSeq(path, (k + 1) + 1, n)
    BY <2>1, <2>2
  <2>. QED
    BY <2>3 DEF todo, path, n
<1>6. name = Component(prog, r.path[j]) /\ j - 1 = k
  BY <1>3, <1>5
<1>7. rest.todo = Tail(r.todo) /\ But({"todo"}, r, rest)
  BY <1>1 DEF Rest, But, Shape, IsCall, Fields
<1>8. SameCall(r, rest)
  BY <1>7, ButSame
<1>9. /\ IsCall(rest) /\ rest.pc = r.pc /\ rest.next = r.next /\ rest.left = r.left
      /\ rest.result = r.result /\ rest.out = r.out /\ rest.skip = r.skip /\ rest.at = r.at
      /\ rest.dir = r.dir
  BY <1>7 DEF But, Fields
<1>10. Shape(rest) /\ Ask(prog, rest) /\ Fresh(rest)
  BY <1>1, <1>8, <1>9, SameAsk DEF Shape, Fresh
<1>11. rest.op = r.op /\ rest.path = r.path /\ rest.base = r.base
  BY <1>8 DEF SameCall
<1>12. Taken(r.op, r.path, rest.todo, j) /\ j >= 1
  <2>1. j \in 0 .. n /\ j >= 1
    BY <1>3, <1>4, <1>5
  <2>2. rest.todo = SubSeq(r.path, j + 1, n) /\ r.op \in {"cd"} \cup FuseCalls
    BY <1>3, <1>5, <1>7
  <2>. HIDE DEF j
  <2>. QED
    BY <2>1, <2>2 DEF Taken
<1>. HIDE DEF j, n
<1>13. Exact => r.dir = Along(r.base, r.path, j - 1)
  BY <1>2, <1>6
<1>14. ASSUME Exact
       PROVE  /\ name = <<".">> => r.op = "cd" /\ Along(r.base, r.path, j) = r.dir
              /\ name = DotDot /\ r.dir = 0 => r.op = "cd" /\ Along(r.base, r.path, j) = 0
  <2> DEFINE op == r.op
             path == r.path
             base == r.base
  <2>1. /\ Asked(prog, op, path, base) /\ op \in {"cd"} \cup FuseCalls /\ j \in 1 .. Len(path)
        /\ Along(base, path, j - 1) \in DirStarts /\ Exact
    BY <1>1, <1>3, <1>5, <1>13, <1>14 DEF Ask, n
  <2>. HIDE DEF op, path, base
  <2>2. /\ Component(prog, path[j]) = <<".">> =>
              op = "cd" /\ Along(base, path, j) = Along(base, path, j - 1)
        /\ Component(prog, path[j]) = DotDot /\ Along(base, path, j - 1) = 0 =>
              op = "cd" /\ Along(base, path, j) = 0
    BY ONLY <2>1, DotStep
  <2>. QED
    BY <1>6, <1>13, <1>14, <2>2 DEF op, path, base
<1>15. CASE name = <<".">>
  <2>1. q = Enter(rest, r.dir)
    BY <1>15
  <2>2. OnPath(rest.op, rest.path, rest.base, rest.todo, r.dir)
    BY <1>3, <1>11, <1>12, <1>14, <1>15 DEF OnPath
  <2>. QED
    BY <1>10, <2>1, <2>2, EnterGood
<1>16. CASE name # <<".">> /\ name # DotDot
  <2>1. q = Find(rest, r.dir, name, "dir", FALSE)
    BY <1>16
  <2>2. /\ q.name = name /\ q.kind = "dir" /\ ~q.up
        /\ But({"name", "kind", "up", "task", "c", "s", "j", "pc", "next"}, rest, q)
    BY ONLY <1>9, <2>1 DEF Find, Scan, IsCall, But, Fields
  <2>3. /\ q.op = r.op /\ q.path = r.path /\ q.base = r.base /\ q.todo = rest.todo /\ q.dir = r.dir
    BY ONLY <1>9, <1>11, <2>2 DEF But, Fields
  <2>4. Sought(prog, r.op, r.path, r.base, rest.todo, r.dir, name, "dir", j)
    BY <1>6, <1>12, <1>13, <1>16 DEF Sought
  <2>5. r.op # "cat"
    BY <1>3 DEF FuseCalls
  <2>6. Looked(prog, q)
    BY <1>3, <2>2, <2>3, <2>4, <2>5 DEF Looked
  <2> DEFINE d == r.dir
  <2>7. /\ d \in DirStarts /\ d = Searched(rest) /\ \E up : q = Find(rest, d, name, "dir", up)
    BY <1>3, <1>9, <1>11, <2>1, <2>5 DEF Searched
  <2>8. PICK up : q = Find(rest, d, name, "dir", up)
    BY <2>7
  <2>. HIDE DEF d
  <2>. QED
    BY <1>10, <2>6, <2>7, <2>8, FindGood
<1>17. CASE name = DotDot /\ r.dir = 0
  <2>0. name # <<".">>
    <3>1. <<".">> # DotDot
      BY DEF DotDot
    <3>. QED
      BY <1>17, <3>1
  <2>1. q = Enter(rest, 0)
    BY <1>17, <2>0
  <2>2. OnPath(rest.op, rest.path, rest.base, rest.todo, 0)
    BY <1>3, <1>11, <1>12, <1>14, <1>17 DEF OnPath
  <2>. QED
    BY <1>10, <2>1, <2>2, EnterGood
<1>18. CASE name = DotDot /\ r.dir # 0
  <2>0. name # <<".">>
    BY <1>18 DEF DotDot
  <2>1. q = Find(rest, r.dir, DotDot, "dir", TRUE)
    BY <1>18, <2>0
  <2>2. /\ q.name = DotDot /\ q.kind = "dir" /\ q.up
        /\ But({"name", "kind", "up", "task", "c", "s", "j", "pc", "next"}, rest, q)
    BY ONLY <1>9, <2>1 DEF Find, Scan, IsCall, But, Fields
  <2>3. /\ q.op = r.op /\ q.path = r.path /\ q.base = r.base /\ q.todo = rest.todo /\ q.dir = r.dir
    BY ONLY <1>9, <1>11, <2>2 DEF But, Fields
  <2>4. SoughtUp(prog, r.op, r.path, r.base, rest.todo, r.dir, DotDot, "dir", j)
    BY <1>6, <1>12, <1>13, <1>18 DEF SoughtUp
  <2>5. r.op # "cat"
    BY <1>3 DEF FuseCalls
  <2>6. Looked(prog, q)
    BY <1>3, <2>2, <2>3, <2>4, <2>5 DEF Looked
  <2> DEFINE d == r.dir
  <2>7. /\ d \in DirStarts /\ d = Searched(rest) /\ \E up : q = Find(rest, d, DotDot, "dir", up)
    BY <1>3, <1>9, <1>11, <2>1, <2>5 DEF Searched
  <2>8. PICK up : q = Find(rest, d, DotDot, "dir", up)
    BY <2>7
  <2>. HIDE DEF d
  <2>. QED
    BY <1>10, <2>6, <2>7, <2>8, FindGood
<1>. QED
  BY <1>15, <1>16, <1>17, <1>18
-----------------------------------------------------------------------------
(* The end of the path, and the steps of tree.                              *)

LEMMA EndOfPathStep ==
  ASSUME NEW prog, NEW cw \in DirStarts, NEW r, Good(prog, cw, r), r.pc = "path", r.todo = <<>>,
         NEW q, q = Done(r, IF r.op = "cd" THEN "ok" ELSE "ENOENT"),
         NEW to, to = IF r.op = "cd" THEN r.dir ELSE cw
  PROVE  Good(prog, to, q) /\ to \in DirStarts
<1>1. Shape(r) /\ Ask(prog, r) /\ Fresh(r) /\ OnPath(r.op, r.path, r.base, r.todo, r.dir)
  BY DEF Good, Phase
<1>2. PICK k : /\ Taken(r.op, r.path, r.todo, k)
               /\ Exact => r.dir = Along(r.base, r.path, k) /\ (r.op # "cd" => k < Len(r.path))
  BY <1>1 DEF OnPath
<1> DEFINE n == Len(r.path)
<1>3. /\ r.dir \in DirStarts /\ r.op \in {"cd"} \cup FuseCalls /\ k \in 0 .. n
      /\ r.todo = SubSeq(r.path, k + 1, n)
  BY <1>1, <1>2 DEF OnPath, Taken
<1>4. r.path \in Seq(Range(r.path)) /\ n \in Nat
  BY <1>1, <1>3, PathIsSeq DEF Ask
<1>5. ~(k < n)
  <2> DEFINE todo == r.todo
             path == r.path
             T == Range(r.path)
  <2>1. path \in Seq(T) /\ k \in 0 .. n /\ todo = SubSeq(path, k + 1, n) /\ todo = <<>> /\ n = Len(path)
    BY <1>3, <1>4
  <2>. HIDE DEF todo, path, T, n
  <2>2. todo # <<>> <=> k < n
    BY ONLY <2>1, RestOfPath
  <2>. QED
    BY <2>1, <2>2
<1>6. k = n
  BY <1>3, <1>4, <1>5
<1>7. q.pc = "done" /\ q.result = (IF r.op = "cd" THEN "ok" ELSE "ENOENT") /\ But({"pc", "result"}, r, q)
  BY <1>1, DoneIs DEF Shape
<1>8. q.op = r.op /\ q.path = r.path /\ q.base = r.base
  BY <1>7, ButSame DEF SameCall
<1>9. CASE r.op = "cd"
  <2>1. q.result = "ok" /\ to = r.dir
    BY <1>7, <1>9
  <2>2. Exact => Follow(r.base, r.path) = r.dir
    BY <1>2, <1>4, <1>6, FollowFacts
  <2>3. r.dir # NoDirectory
    BY <1>3, NowhereIsEmpty
  <2>4. /\ ~(q.op = "tree") /\ ~(q.op = "getattr") /\ ~(q.op = "ls") /\ ~(q.op = "readdir") /\ ~(q.op \in {"read", "cat"})
    BY <1>8, <1>9
  <2>5. Answered(to, q)
    BY <1>8, <2>1, <2>2, <2>3, <2>4 DEF Answered
  <2>6. q = Done(r, "ok") /\ "ok" \in Results
    BY <1>9 DEF Results
  <2>. QED
    BY <1>1, <1>3, <2>1, <2>5, <2>6, DoneGood
<1>10. CASE r.op # "cd"
  <2>1. ~Exact
    BY <1>2, <1>5, <1>10
  <2>2. Answered(to, q)
    <3>1. ~(q.op = "tree")
      BY <1>3, <1>8, <1>10 DEF FuseCalls
    <3>. QED
      BY <2>1, <3>1 DEF Answered
  <2>3. q = Done(r, "ENOENT") /\ "ENOENT" \in Results /\ to = cw
    BY <1>10 DEF Results
  <2>. QED
    BY <1>1, <2>2, <2>3, DoneGood
<1>. QED
  BY <1>9, <1>10

(* The live entries of a sector, up to the end mark, are the directory's.   *)
LEMMA LiveOfSector ==
  ASSUME NEW d, NEW c, NEW s, NEW k, Spot(d, c, s, k), NEW es, es = Entries(SectorLba(c, s)),
         NEW j, Upto(es, j), j \in 1 .. Len(es), NEW x, x = es[j], Live(x)
  PROVE  x \in EntriesOf(d) /\ x \in AllEntries /\ Upto(es, j + 1)
<1>1. PICK lba : lba = SectorLba(c, s)
  OBVIOUS
<1>2. /\ es \in Seq(AllEntries) /\ Len(es) \in Nat
  BY SectorEntries
<1>3. lba \in DOMAIN Dir
  BY <1>1, SpotSector
<1>4. es = Dir[lba]
  BY <1>1, <1>3, DirectoryOnVolume
<1>5. x \in AllEntries
  BY <1>2, ElementOfSeq
<1>6. \A i \in 1 .. j : es[i].kind # "end"
  <2>1. \A i \in 1 .. j - 1 : es[i].kind # "end"
    BY DEF Upto
  <2>2. x.kind # "end"
    BY DEF Live
  <2>3. \A i \in 1 .. j : i = j \/ i \in 1 .. j - 1
    OBVIOUS
  <2>. QED
    BY <2>1, <2>2, <2>3
<1>7. Upto(es, j + 1)
  <2>1. j + 1 \in 1 .. Len(es) + 1 /\ j + 1 - 1 = j
    BY <1>2
  <2>. QED
    BY <1>6, <2>1 DEF Upto
<1>8. PICK m : m = Cut(es)
  OBVIOUS
<1>9. m \in 0 .. Len(es) /\ (m < Len(es) => es[m + 1].kind = "end")
  BY <1>2, <1>8, CutIs
<1>10. j \in 1 .. m
  <2>1. ~(m < j)
    <3>. SUFFICES ASSUME m < j PROVE FALSE
      OBVIOUS
    <3>1. m + 1 \in 1 .. j /\ m < Len(es)
      BY <1>2, <1>9
    <3>. QED
      BY <1>6, <1>9, <3>1
  <2>. QED
    BY <1>2, <1>9, <2>1
<1>11. PICK b : b = BeforeEnd(es)
  OBVIOUS
<1>12. b \in Seq(AllEntries) /\ Len(b) = m /\ b[j] = x
  BY <1>2, <1>8, <1>10, <1>11, BeforeEndIs
<1>13. x \in Range(b)
  <2>1. DOMAIN b = 1 .. m
    BY <1>12, LenProperties
  <2>. QED
    BY <1>10, <1>12, <2>1 DEF Range
<1>14. x \in Range(LiveEntries(lba))
  <2>1. LiveEntries(lba) = Kept(b, AllLive)
    BY <1>3, <1>4, <1>11, SectorLive
  <2>2. x \in AllLive
    BY <1>5 DEF AllLive
  <2>. QED
    BY <1>12, <1>13, <2>1, <2>2, KeptType
<1>15. Range(LiveEntries(lba)) \subseteq EntriesOf(d)
  BY <1>1, SectorOf
<1>. QED
  BY <1>5, <1>7, <1>14, <1>15

(* An entry of the sector was treated without going down.                   *)
LEMMA VisitOn ==
  ASSUME NEW prog, NEW cw, NEW r, Good(prog, cw, r), r.pc = "scan", r.task = "tree",
         NEW d, NEW k, Spot(d, r.c, r.s, k),
         NEW es, es = Entries(SectorLba(r.c, r.s)),
         NEW q, But({"j", "out"}, r, q), Upto(es, q.j), TreeSo(r.stack, q.out, d, Treated(d, k, es, q.j))
  PROVE  Good(prog, cw, q)
<1>1. Shape(r) /\ Ask(prog, r) /\ ScanOK(prog, r)
  BY DEF Good, Phase
<1>2. r.op = "tree"
  BY <1>1 DEF ScanOK, Visiting
<1>3. /\ IsCall(q) /\ q.pc = r.pc /\ q.next = r.next /\ q.left = r.left /\ q.result = r.result
      /\ q.task = r.task /\ q.c = r.c /\ q.s = r.s /\ q.stack = r.stack
  BY DEF But, Fields
<1>4. SameCall(r, q)
  BY ButSame
<1>5. Shape(q) /\ Ask(prog, q)
  BY <1>1, <1>3, <1>4, SameAsk DEF Shape
<1>6. Visiting(q, d, k)
  BY <1>2, <1>3, <1>4 DEF Visiting, SameCall
<1>7. ScanOK(prog, q)
  BY <1>3, <1>6 DEF ScanOK
<1>. QED
  BY <1>3, <1>5, <1>7 DEF Good, Phase

\* A line of the tree printed, the place it is left at, and the call after the entry e of es.
LinePrinted(past, e, depth) == [past EXCEPT !.out = Append(@, [entry |-> e, depth |-> depth])]

Beyond(r) == [r EXCEPT !.j = @ + 1]

FrameAt(r, lba) == [c |-> r.c, s |-> r.s, j |-> r.j + 1, saved_sector |-> lba]

Visit(r, es, e, past, printed, frame) ==
  IF r.j > Len(es) THEN NextSector(r)
  ELSE IF e.kind = "end" THEN EndOfDirectory(r)
  ELSE IF ~Live(e) \/ IsDot(e) THEN past
  ELSE IF SubDirectory(e)
    THEN Scan([printed EXCEPT !.stack = Append(@, frame)], "tree", e.start, 0)
  ELSE printed

LEMMA VisitStep ==
  ASSUME NEW prog, NEW cw, NEW r, Good(prog, cw, r), r.pc = "scan", r.task = "tree",
         NEW lba, lba = SectorLba(r.c, r.s), NEW es, es = Entries(lba), NEW e, e = es[r.j],
         NEW past, past = Beyond(r), NEW printed, printed = LinePrinted(past, e, Len(r.stack) + 1),
         NEW frame, frame = FrameAt(r, lba), NEW q, q = Visit(r, es, e, past, printed, frame)
  PROVE  Good(prog, cw, q)
<1>a. /\ past = [r EXCEPT !.j = @ + 1]
      /\ printed = [past EXCEPT !.out = Append(@, [entry |-> e, depth |-> Len(r.stack) + 1])]
      /\ frame = [c |-> r.c, s |-> r.s, j |-> r.j + 1, saved_sector |-> lba]
  BY DEF Beyond, LinePrinted, FrameAt
<1>b. q = IF r.j > Len(es) THEN NextSector(r)
          ELSE IF e.kind = "end" THEN EndOfDirectory(r)
          ELSE IF ~Live(e) \/ IsDot(e) THEN past
          ELSE IF SubDirectory(e)
            THEN Scan([printed EXCEPT !.stack = Append(@, frame)], "tree", e.start, 0)
          ELSE printed
  BY DEF Visit
<1>1. Shape(r) /\ Ask(prog, r) /\ ScanOK(prog, r)
  BY DEF Good, Phase
<1>2. PICK d, k : Spot(d, r.c, r.s, k) /\ Visiting(r, d, k)
  BY <1>1 DEF ScanOK
<1> DEFINE j == r.j
           lives == Treated(d, k, es, j)
           more == Treated(d, k, es, j + 1)
           stack == r.stack
           out == r.out
           c == r.c
           s == r.s
<1>3. es = Entries(SectorLba(c, s)) /\ Spot(d, c, s, k) /\ es \in Seq(AllEntries) /\ Len(es) \in Nat
  BY <1>2, SectorEntries
<1>4. r.op = "tree" /\ Upto(es, j) /\ TreeSo(stack, out, d, lives)
  BY <1>2 DEF Visiting
<1>5. j \in 1 .. Len(es) + 1
  BY <1>4 DEF Upto
<1>6. CASE j > Len(es)
  <2>1. q = NextSector(r)
    BY <1>b, <1>6
  <2>2. ~Ended(lba) /\ lives = Listed(d, k + 1)
    BY <1>3, <1>4, <1>6, TreatedSector
  <2>3. Scanning(prog, r, d, k + 1)
    BY <1>4, <2>2 DEF Scanning
  <2>. QED
    BY <1>1, <1>2, <2>1, <2>2, <2>3, NextSectorGood
<1>7. ASSUME ~(j > Len(es)) PROVE j \in 1 .. Len(es)
  BY <1>3, <1>5, <1>7
<1>8. CASE ~(j > Len(es)) /\ e.kind = "end"
  <2>1. q = EndOfDirectory(r)
    BY <1>b, <1>8
  <2>2. lives = Directory[d]
    BY <1>3, <1>4, <1>7, <1>8, TreatedSector
  <2>3. Finished(prog, r, d)
    BY <1>4, <2>2 DEF Finished
  <2>. QED
    BY <1>1, <2>1, <2>3, EndGood
<1>9. /\ But({"j", "out"}, r, past) /\ past.j = j + 1 /\ past.out = out
      /\ But({"j", "out"}, r, printed) /\ printed.j = j + 1
      /\ printed.out = Append(out, Line(e, Len(stack) + 1))
  BY <1>a, <1>1 DEF But, Shape, IsCall, Fields, Line
<1>10. ASSUME ~(j > Len(es)), e.kind # "end"
       PROVE  /\ j \in 1 .. Len(es) /\ lives \in Seq(AllEntries) /\ e \in AllEntries /\ Upto(es, j + 1)
              /\ Live(e) => more = Append(lives, e) /\ e \in EntriesOf(d)
              /\ ~Live(e) => more = lives
  <2>1. j \in 1 .. Len(es)
    BY <1>7, <1>10
  <2>2. e \in AllEntries
    BY <1>3, <2>1, ElementOfSeq
  <2>3. Upto(es, j + 1)
    <3>1. j + 1 \in 1 .. Len(es) + 1 /\ \A i \in 1 .. j + 1 - 1 : i = j \/ i \in 1 .. j - 1
      BY <1>3, <2>1
    <3>. QED
      BY <1>4, <1>10, <3>1 DEF Upto
  <2>4. /\ lives \in Seq(AllEntries)
        /\ Live(e) => more = Append(lives, e)
        /\ ~Live(e) => more = lives
    BY <1>3, <2>1, TreatedNext
  <2>5. Live(e) => e \in EntriesOf(d)
    BY <1>3, <1>4, <2>1, LiveOfSector
  <2>. QED
    BY <2>1, <2>2, <2>3, <2>4, <2>5
<1>. HIDE DEF lives, more
<1>11. CASE ~(j > Len(es)) /\ e.kind # "end" /\ (~Live(e) \/ IsDot(e))
  <2>1. q = past
    BY <1>b, <1>11
  <2>2. TreeSo(stack, out, d, more)
    <3>1. CASE ~Live(e)
      BY <1>4, <1>10, <1>11, <3>1
    <3>2. CASE Live(e)
      BY <1>4, <1>10, <1>11, <3>2, TreeSkips
    <3>. QED
      BY <3>1, <3>2
  <2>3. Upto(es, j + 1)
    BY <1>10, <1>11
  <2>. QED
    BY <1>2, <1>9, <2>1, <2>2, <2>3, VisitOn DEF more
<1>12. CASE ~(j > Len(es)) /\ e.kind # "end" /\ ~(~Live(e) \/ IsDot(e)) /\ ~SubDirectory(e)
  <2>1. q = printed
    BY <1>b, <1>12
  <2>2. TreeSo(stack, q.out, d, more)
    BY <1>4, <1>9, <1>10, <1>12, <2>1, TreePrints
  <2>3. Upto(es, j + 1)
    BY <1>10, <1>12
  <2>. QED
    BY <1>2, <1>9, <2>1, <2>2, <2>3, VisitOn DEF more
<1>13. CASE ~(j > Len(es)) /\ e.kind # "end" /\ ~(~Live(e) \/ IsDot(e)) /\ SubDirectory(e)
  <2> DEFINE m == [printed EXCEPT !.stack = Append(@, frame)]
             start == e.start
  <2>1. q = Scan(m, "tree", start, 0)
    BY <1>b, <1>13
  <2>2. /\ But({"j", "out", "stack"}, r, m) /\ m.stack = Append(stack, frame) /\ m.out = printed.out
    BY <1>a, <1>1 DEF But, Shape, IsCall, Fields
  <2>. HIDE DEF m
  <2>3. /\ IsCall(m) /\ m.pc = r.pc /\ m.next = r.next /\ m.left = r.left /\ m.result = r.result
        /\ m.op = r.op
    BY <2>2 DEF But, Fields
  <2>4. Shape(m) /\ Ask(prog, m)
    BY <1>1, <2>2, <2>3, ButSame, SameAsk DEF Shape
  <2>5. /\ DOMAIN frame = {"c", "s", "j", "saved_sector"} /\ frame.j = j + 1
        /\ frame.c = c /\ frame.s = s /\ frame.saved_sector = lba
    BY <1>a
  <2> DEFINE deeper == m.stack
             longer == m.out
  <2>6. /\ TreeSo(stack, out, d, lives) /\ lives \in Seq(AllEntries)
        /\ e \in EntriesOf(d) /\ ~IsDot(e) /\ SubDirectory(e) /\ more = Append(lives, e)
        /\ DOMAIN frame = {"c", "s", "j", "saved_sector"} /\ frame.saved_sector = SectorLba(frame.c, frame.s)
        /\ Spot(d, frame.c, frame.s, k) /\ Upto(Entries(frame.saved_sector), frame.j)
        /\ more = Treated(d, k, Entries(frame.saved_sector), frame.j)
        /\ deeper = Append(stack, frame) /\ longer = Append(out, Line(e, Len(stack) + 1))
        /\ start = e.start
    BY <1>2, <1>4, <1>9, <1>10, <1>13, <2>2, <2>5 DEF more
  <2>. HIDE DEF stack, out, deeper, longer, start
  <2>7. TreeSo(deeper, longer, start, Listed(start, 0)) /\ start \in DirStarts
    BY ONLY <2>6, TreeDown
  <2>8. q.task = "tree" /\ But({"task", "c", "s", "j", "pc", "next"}, m, q)
    BY <2>1, <2>4, ScanIs DEF Shape
  <2>9. q.op = "tree" /\ q.stack = deeper /\ q.out = longer
    BY <1>4, <2>3, <2>8 DEF But, Fields, deeper, longer
  <2>10. Scanning(prog, q, start, 0)
    BY <2>7, <2>8, <2>9 DEF Scanning
  <2>11. Spot(start, start, 0, 0)
    BY <2>7, SpotStart
  <2>. QED
    BY <2>1, <2>4, <2>10, <2>11, ScanGood
<1>. QED
  BY <1>6, <1>8, <1>11, <1>12, <1>13

\* The call back in the directory it left at the frame.
Back(r, frame) ==
  [r EXCEPT !.pc = "scan", !.c = frame.c, !.s = frame.s, !.j = frame.j, !.stack = Front(@)]

LEMMA LeaveStep ==
  ASSUME NEW prog, NEW cw, NEW r, Good(prog, cw, r), r.pc = "leave", r.stack # <<>>,
         NEW frame, frame = Last(r.stack),
         NEW q, q = Back(r, frame)
  PROVE  /\ Good(prog, cw, q) /\ q.pc = "scan" /\ q.c = frame.c /\ q.s = frame.s
         /\ frame.saved_sector = SectorLba(frame.c, frame.s) /\ \E d, k : Spot(d, frame.c, frame.s, k)
<1>1. Shape(r) /\ Ask(prog, r) /\ Leaving(r)
  BY DEF Good, Phase
<1>2. PICK e : TreeSo(r.stack, r.out, e, Directory[e])
  BY <1>1 DEF Leaving
<1> DEFINE stack == r.stack
           out == r.out
           fewer == Front(stack)
<1>3. /\ TreeSo(stack, out, e, Directory[e]) /\ stack # <<>> /\ frame = Last(stack) /\ fewer = Front(stack)
  BY <1>2
<1>. HIDE DEF stack, out, fewer
<1>4. /\ frame.saved_sector = SectorLba(frame.c, frame.s)
      /\ \E d, k : /\ Spot(d, frame.c, frame.s, k) /\ Upto(Entries(frame.saved_sector), frame.j)
                   /\ TreeSo(fewer, out, d, Treated(d, k, Entries(frame.saved_sector), frame.j))
  BY ONLY <1>3, TreeUp
<1>5. PICK d, k : /\ Spot(d, frame.c, frame.s, k) /\ Upto(Entries(frame.saved_sector), frame.j)
                  /\ TreeSo(fewer, out, d, Treated(d, k, Entries(frame.saved_sector), frame.j))
  BY <1>4
<1>6. /\ q.pc = "scan" /\ q.c = frame.c /\ q.s = frame.s /\ q.j = frame.j
      /\ q.stack = fewer /\ But({"pc", "c", "s", "j", "stack"}, r, q)
  BY <1>1 DEF But, Shape, IsCall, Fields, Back, fewer, stack
<1>7. /\ IsCall(q) /\ q.next = r.next /\ q.left = r.left /\ q.result = r.result
      /\ q.task = r.task /\ q.op = r.op /\ q.out = out
  BY <1>6 DEF But, Fields, out
<1>8. Shape(q) /\ Ask(prog, q)
  BY <1>1, <1>6, <1>7, ButSame, SameAsk DEF Shape, Pcs
<1>9. Visiting(q, d, k)
  BY <1>1, <1>4, <1>5, <1>6, <1>7 DEF Visiting, Leaving
<1>10. ScanOK(prog, q)
  BY <1>5, <1>6, <1>9, <1>1, <1>7 DEF ScanOK, Leaving
<1>. QED
  BY <1>4, <1>5, <1>6, <1>8, <1>10 DEF Good, Phase
-----------------------------------------------------------------------------
(* How a call goes on brings it to a place where no sector is in use.       *)

Paused(r) == r.pc \in {"idle", "path", "seek", "leave", "done"}

LEMMA PausedSimply ==
  ASSUME NEW r, IsCall(r), NEW q,
         \/ \E result : q = Done(r, result)
         \/ \E task, c, s : q = Scan(r, task, c, s)
         \/ \E c, name, kind, up : q = Find(r, c, name, kind, up)
         \/ \E dir : q = Enter(r, dir)
         \/ q = FatNextCluster(r)
  PROVE  Paused(q)
<1>1. CASE \E result : q = Done(r, result)
  BY <1>1, DoneIs DEF Paused
<1>2. CASE \E task, c, s : q = Scan(r, task, c, s)
  BY <1>2, ScanIs DEF Paused
<1>3. CASE \E c, name, kind, up : q = Find(r, c, name, kind, up)
  BY <1>3, FindIs DEF Paused
<1>4. CASE \E dir : q = Enter(r, dir)
  BY <1>4, EnterIs DEF Paused
<1>5. CASE q = FatNextCluster(r)
  BY <1>5, FatNextClusterIs DEF Paused
<1>. QED
  BY <1>1, <1>2, <1>3, <1>4, <1>5

LEMMA PausedPiece ==
  ASSUME NEW r, IsCall(r), NEW q, q = NextPiece(r)
  PROVE  Paused(q)
<1>1. CASE r.at < ClusterSize /\ r.left > 0
  BY <1>1 DEF NextPiece, Paused, IsCall, Fields
<1>2. CASE ~(r.at < ClusterSize /\ r.left > 0)
  <2> DEFINE m == [r EXCEPT !.task = "copy"]
  <2>1. IsCall(m) /\ q = FatNextCluster(m)
    BY <1>2 DEF NextPiece, IsCall
  <2>. HIDE DEF m
  <2>. QED
    BY <2>1, PausedSimply
<1>. QED
  BY <1>1, <1>2

LEMMA PausedRange ==
  ASSUME NEW r, IsCall(r), NEW e, NEW q, q = ReadRange(r, e) \/ q = Cat(r, e)
  PROVE  Paused(q)
<1>1. CASE q = ReadRange(r, e)
  <2> DEFINE first == [r EXCEPT !.c = e.start, !.left = Min({r.size, e.size - r.offset}),
                                !.skip = r.offset \div ClusterSize, !.at = r.offset % ClusterSize]
             copy == [first EXCEPT !.task = "copy"]
  <2>1. IsCall(first) /\ IsCall(copy)
    BY DEF IsCall
  <2>2. q = Done(r, "ok") \/ q = FatNextCluster(copy) \/ q = NextPiece(first)
    BY <1>1 DEF ReadRange
  <2>. HIDE DEF first, copy
  <2>. QED
    BY <2>1, <2>2, PausedSimply, PausedPiece
<1>2. CASE q = Cat(r, e)
  <2> DEFINE first == [r EXCEPT !.c = e.start, !.left = e.size]
  <2>1. IsCall(first)
    BY DEF IsCall
  <2>2. q = Done(r, "ok") \/ q = NextPiece(first)
    BY <1>2 DEF Cat
  <2>. HIDE DEF first
  <2>. QED
    BY <2>1, <2>2, PausedSimply, PausedPiece
<1>. QED
  BY <1>1, <1>2

LEMMA PausedResolved ==
  ASSUME NEW r, IsCall(r), r.op \in FuseCalls, NEW e, NEW q, q = Resolved(r, e)
  PROVE  Paused(q)
<1> DEFINE m == [r EXCEPT !.entry = e]
<1>1. IsCall(m)
  BY DEF IsCall
<1>2. \/ q = Done(m, "ok") \/ q = Scan(r, "list", ClusterOf(e), 0)
      \/ \E result : q = Done(r, result)
      \/ q = ReadRange(r, e)
  BY DEF Resolved, FuseCalls
<1>. HIDE DEF m
<1>. QED
  BY <1>1, <1>2, PausedSimply, PausedRange

LEMMA PausedFound ==
  ASSUME NEW prog, NEW r, Shape(r), Ask(prog, r), Looked(prog, r), NEW e, NEW q, q = Found(r, e) \/ q = NotFound(r)
  PROVE  Paused(q)
<1>1. IsCall(r)
  BY DEF Shape
<1>2. CASE q = Found(r, e)
  <2>1. \/ q = Cat(r, e)
        \/ \E dir : q = Enter(r, dir)
        \/ r.op # "cat" /\ r.op # "cd" /\ q = Resolved(r, e)
    BY <1>2 DEF Found
  <2>2. r.op # "cat" /\ r.op # "cd" => r.op \in FuseCalls
    BY SoughtSo
  <2>. QED
    BY <1>1, <2>1, <2>2, PausedSimply, PausedRange, PausedResolved
<1>3. CASE q = NotFound(r)
  <2>1. \/ \E result : q = Done(r, result)
        \/ \E dir : q = Enter(r, dir)
        \/ \E c, name, kind, up : q = Find(r, c, name, kind, up)
    BY <1>3 DEF NotFound
  <2>. QED
    BY <1>1, <2>1, PausedSimply
<1>. QED
  BY <1>2, <1>3

LEMMA PausedEnd ==
  ASSUME NEW prog, NEW r, Shape(r), Ask(prog, r), r.task = "tree" \/ \E d, k : Scanning(prog, r, d, k),
         NEW q, q = EndOfDirectory(r) \/ q = NextSector(r)
  PROVE  Paused(q)
<1>1. IsCall(r)
  BY DEF Shape
<1>2. ASSUME q = EndOfDirectory(r) PROVE Paused(q)
  <2>1. CASE r.task = "find"
    <3>1. q = NotFound(r)
      BY <1>2, <2>1 DEF EndOfDirectory
    <3>2. Looked(prog, r)
      BY <2>1 DEF Scanning
    <3>. QED
      BY <3>1, <3>2, PausedFound
  <2>2. CASE r.task = "list"
    <3>1. q = Done(r, "ok")
      BY <1>2, <2>2 DEF EndOfDirectory
    <3>. QED
      BY <1>1, <3>1, PausedSimply
  <2>3. CASE r.task = "tree"
    BY <1>1, <1>2, <2>3 DEF EndOfDirectory, Paused, IsCall, Fields
  <2>. QED
    BY <2>1, <2>2, <2>3 DEF Scanning
<1>3. CASE q = NextSector(r)
  <2>1. \/ \E task, c, s : q = Scan(r, task, c, s)
        \/ q = EndOfDirectory(r)
        \/ q = FatNextCluster(r)
    BY <1>3 DEF NextSector
  <2>. QED
    BY <1>1, <1>2, <2>1, PausedSimply
<1>. QED
  BY <1>2, <1>3
-----------------------------------------------------------------------------
(* The sectors that are read.                                               *)

Region(next) ==
  CASE next = "chain" -> FatStart .. RootStart - 1
    [] next = "scan" -> DOMAIN Dir
    [] next = "data" -> (DataStart .. LastLba) \ DOMAIN Dir

LEMMA LbaGood ==
  ASSUME NEW prog, NEW cw, NEW r, Good(prog, cw, r), r.pc \in {"seek", "read"}
  PROVE  Lba(r) \in Region(r.next) /\ Lba(r) \in 1 .. LastLba
<1>1. /\ r.next \in {"scan", "chain", "data"} /\ Phase(r) = r.next
  BY DEF Good, Shape, Phase
<1>2. CASE r.next = "scan"
  <2>1. PICK d, k : Spot(d, r.c, r.s, k)
    BY <1>1, <1>2 DEF Good, ScanOK
  <2>2. SectorLba(r.c, r.s) \in DOMAIN Dir
    BY <2>1, SpotSector
  <2>. QED
    BY <1>2, <2>2, DirectoryOnVolume DEF Lba, Region
<1>3. CASE r.next = "chain"
  <2>1. FatSector(r.c) \in FatStart .. RootStart - 1
    BY <1>1, <1>3, ChainOf, FatEntryRead DEF Good
  <2>2. FatStart .. RootStart - 1 \subseteq 1 .. LastLba
    BY Layout DEF FatStart
  <2>. QED
    BY <1>3, <2>1, <2>2 DEF Lba, Region
<1>4. CASE r.next = "data"
  <2>1. SectorLba(r.c, r.s) \in (DataStart .. LastLba) \ DOMAIN Dir
    BY <1>1, <1>4, CopySectors DEF Good, DataOK, Reads
  <2>2. DataStart .. LastLba \subseteq 1 .. LastLba
    BY Layout DEF FatStart
  <2>. QED
    BY <1>4, <2>1, <2>2 DEF Lba, Region
<1>. QED
  BY <1>1, <1>2, <1>3, <1>4

-----------------------------------------------------------------------------
(* The inductive invariant, where one thread serves the calls: the buffer   *)
(* and the position are what its call takes them for.                       *)

OneThread == \E t : Threads = {t}

Buffered(r, buffer, at) ==
  /\ r.pc = "read" => at = Lba(r)
  /\ r.pc = "scan" => buffer = SectorLba(r.c, r.s)
  /\ r.pc = "chain" => buffer = FatSector(r.c)
  /\ r.pc = "data" => (IF r.op = "read" THEN r.local ELSE buffer) = SectorLba(r.c, r.s)

IndInv ==
  /\ program \in Programs
  /\ cwd \in DirStarts
  /\ sector_buffer \in 0 .. LastLba
  /\ position \in 1 .. LastLba + 1
  /\ DOMAIN call = Threads
  /\ \A t \in Threads : Good(program, cwd, call[t]) /\ Buffered(call[t], sector_buffer, position)

LEMMA StepKeeps ==
  ASSUME OneThread, IndInv, NEW t \in Threads, NEW q, call' = [call EXCEPT ![t] = q],
         program' = program, cwd' \in DirStarts, sector_buffer' \in 0 .. LastLba,
         position' \in 1 .. LastLba + 1,
         Good(program, cwd', q), Buffered(q, sector_buffer', position')
  PROVE  IndInv'
<1>1. Threads = {t}
  BY DEF OneThread
<1>2. DOMAIN call' = Threads /\ call'[t] = q
  BY DEF IndInv
<1>3. Good(program', cwd', call'[t]) /\ Buffered(call'[t], sector_buffer', position')
  BY <1>2
<1>. QED
  BY <1>1, <1>2, <1>3 DEF IndInv

LEMMA GoOnKeeps ==
  ASSUME OneThread, IndInv, NEW t \in Threads, NEW q, GoOn(t, q), Good(program, cwd, q),
         Paused(q) \/ Buffered(q, sector_buffer, position)
  PROVE  IndInv'
<1>1. /\ call' = [call EXCEPT ![t] = q] /\ program' = program /\ cwd' = cwd
      /\ sector_buffer' = sector_buffer /\ position' = position
  BY DEF GoOn
<1>2. Buffered(q, sector_buffer, position)
  BY DEF Paused, Buffered
<1>3. /\ cwd' \in DirStarts /\ sector_buffer' \in 0 .. LastLba /\ position' \in 1 .. LastLba + 1
  BY <1>1 DEF IndInv
<1>4. Good(program, cwd', q) /\ Buffered(q, sector_buffer', position')
  BY <1>1, <1>2
<1>. QED
  BY <1>1, <1>3, <1>4, StepKeeps
-----------------------------------------------------------------------------
(* The steps.                                                               *)

LEMMA NoCallIs ==
  ASSUME NEW r, r = NoCall
  PROVE  /\ Shape(r) /\ r.pc = "idle" /\ Fresh(r) /\ r.op = "none" /\ r.stack = <<>>
         /\ r.offset = 0 /\ r.size = 0 /\ r.base = 0 /\ r.path = <<>> /\ r.todo = <<>>
         /\ r.dir = 0 /\ r.next = "scan"
  BY DEF NoCall, Shape, IsCall, Fields, Pcs, Results, Fresh

LEMMA InitKeeps == Init => IndInv
<1>. SUFFICES ASSUME Init PROVE IndInv
  OBVIOUS
<1>1. 0 \in DirStarts
  BY RootIs
<1>2. ASSUME NEW t \in Threads
      PROVE  Good(program, cwd, call[t]) /\ Buffered(call[t], sector_buffer, position)
  <2> DEFINE r == call[t]
  <2>1. r = NoCall
    BY DEF Init
  <2>. HIDE DEF r
  <2>2. Shape(r) /\ r.pc = "idle"
    BY <2>1, NoCallIs
  <2>. QED
    BY <2>1, <2>2 DEF Good, Phase, Buffered, r
<1>3. 0 \in 0 .. LastLba /\ 1 \in 1 .. LastLba + 1
  BY Layout
<1>. QED
  BY <1>1, <1>2, <1>3 DEF Init, IndInv

\* A call begins with what was asked.
Asking == {"op", "path", "todo", "base", "offset", "size"}

LEMMA AskedFirst ==
  ASSUME NEW prog, NEW none, none = NoCall, NEW r, But(Asking, none, r),
         Asked(prog, r.op, r.path, r.base), r.offset \in Nat, r.size \in Nat, r.op = "cat" => r.offset = 0
  PROVE  Shape(r) /\ Ask(prog, r) /\ Fresh(r) /\ r.stack = <<>>
<1>1. /\ Shape(none) /\ none.pc = "idle" /\ none.next = "scan" /\ Fresh(none) /\ none.stack = <<>>
  BY NoCallIs
<1>2. /\ IsCall(r) /\ r.pc = none.pc /\ r.next = none.next /\ r.left = none.left
      /\ r.result = none.result /\ r.out = none.out /\ r.skip = none.skip /\ r.at = none.at
      /\ r.stack = none.stack
  BY DEF But, Asking, Fields
<1>3. Shape(r) /\ Fresh(r)
  BY <1>1, <1>2 DEF Shape, Fresh
<1>4. Ask(prog, r)
  BY DEF Ask
<1>. QED
  BY <1>1, <1>2, <1>3, <1>4

LEMMA AskedCli ==
  ASSUME NEW prog, prog = "cli", NEW op \in CliOps, NEW path, NEW base \in DirStarts,
         op = "cd" => \E p \in CdPaths : path = p.names /\ (p.absolute => base = 0),
         op = "cat" => \E f \in FileNames : path = <<f>>
  PROVE  Asked(prog, op, path, base)
<1>1. op \notin FuseCalls
  BY DEF CliOps, FuseCalls
<1>2. /\ base \in DirStarts /\ prog = "cli" /\ op \in CliOps
  OBVIOUS
<1>3. op = "cd" => \E p \in CdPaths : path = p.names /\ (p.absolute => base = 0)
  OBVIOUS
<1>4. op = "cat" => \E f \in FileNames : path = <<f>>
  OBVIOUS
<1>5. op \in FuseCalls => path \in FusePaths /\ base = 0
  BY <1>1
<1>. QED
  BY ONLY <1>2, <1>3, <1>4, <1>5 DEF Asked

\* Nothing of the path was taken yet.
LEMMA PathStart ==
  ASSUME NEW prog, NEW op, NEW path, NEW base, Asked(prog, op, path, base),
         op \in {"cd"} \cup FuseCalls, op # "cd" => path # <<>>
  PROVE  OnPath(op, path, base, path, base)
<1>1. base \in DirStarts
  BY DEF Asked
<1>2. path \in Seq(Range(path)) /\ Len(path) \in Nat
  BY PathIsSeq
<1>3. Along(base, path, 0) = base
  BY <1>2, FollowFacts
<1>4. SubSeq(path, 0 + 1, Len(path)) = path
  BY <1>2, SubSeqFull
<1>5. path # <<>> => 0 < Len(path)
  BY <1>2, EmptySeq
<1>6. Taken(op, path, path, 0)
  BY <1>2, <1>4 DEF Taken
<1>. QED
  BY <1>1, <1>3, <1>5, <1>6 DEF OnPath

LEMMA ChangeDirKeeps ==
  ASSUME OneThread, IndInv, NEW t \in Threads, ChangeDir(t)
  PROVE  IndInv'
<1>1. PICK p \in CdPaths :
        LET base == IF p.absolute THEN 0 ELSE cwd
        IN  GoOn(t, Enter([NoCall EXCEPT !.op = "cd", !.path = p.names, !.todo = p.names,
                                         !.base = base], base))
  BY DEF ChangeDir, Start
<1>2. PICK none : none = NoCall
  OBVIOUS
<1>3. PICK base : base = IF p.absolute THEN 0 ELSE cwd
  OBVIOUS
<1>4. PICK path : path = p.names
  OBVIOUS
<1>5. PICK r : r = [none EXCEPT !.op = "cd", !.path = path, !.todo = path, !.base = base]
  OBVIOUS
<1>6. base \in DirStarts /\ (p.absolute => base = 0)
  BY <1>3, RootIs DEF IndInv
<1>7. Asked(program, "cd", path, base)
  <2>1. program = "cli"
    BY DEF ChangeDir
  <2>2. \E x \in CdPaths : path = x.names /\ (x.absolute => base = 0)
    BY <1>4, <1>6
  <2>. QED
    BY <1>6, <2>1, <2>2, AskedCli DEF CliOps
<1>8. /\ Shape(r) /\ Ask(program, r) /\ Fresh(r)
      /\ r.op = "cd" /\ r.path = path /\ r.todo = path /\ r.base = base
  <2>1. Shape(none) /\ none.offset = 0 /\ none.size = 0
    BY <1>2, NoCallIs
  <2>2. /\ But(Asking, none, r) /\ r.op = "cd" /\ r.path = path /\ r.todo = path /\ r.base = base
        /\ r.offset = 0 /\ r.size = 0
    BY <1>5, <2>1 DEF But, Asking, Shape, IsCall, Fields
  <2>3. /\ none = NoCall /\ But(Asking, none, r) /\ Asked(program, r.op, r.path, r.base)
        /\ r.offset \in Nat /\ r.size \in Nat /\ (r.op = "cat" => r.offset = 0)
    BY <1>2, <1>7, <2>2
  <2>4. Shape(r) /\ Ask(program, r) /\ Fresh(r)
    BY ONLY <2>3, AskedFirst
  <2>. QED
    BY <2>2, <2>4
<1>9. OnPath("cd", path, base, path, base)
  BY <1>7, PathStart
<1>10. PICK q : q = Enter(r, base)
  OBVIOUS
<1>11. GoOn(t, q)
  BY <1>1, <1>2, <1>3, <1>4, <1>5, <1>10
<1>12. OnPath(r.op, r.path, r.base, r.todo, base)
  BY <1>8, <1>9
<1>13. Good(program, cwd, q)
  BY <1>8, <1>10, <1>12, EnterGood
<1>14. Paused(q)
  BY <1>8, <1>10, PausedSimply DEF Shape
<1>. QED
  BY <1>11, <1>13, <1>14, GoOnKeeps

LEMMA DirListingKeeps ==
  ASSUME OneThread, IndInv, NEW t \in Threads, DirListing(t)
  PROVE  IndInv'
<1>1. PICK d : d = cwd
  OBVIOUS
<1>2. PICK none : none = NoCall
  OBVIOUS
<1>3. PICK r : r = [none EXCEPT !.op = "ls", !.base = d]
  OBVIOUS
<1>4. PICK q : q = Scan(r, "list", d, 0)
  OBVIOUS
<1>5. GoOn(t, q)
  BY <1>1, <1>2, <1>3, <1>4 DEF DirListing, Start
<1>6. Shape(none) /\ none.offset = 0 /\ none.size = 0
  BY <1>2, NoCallIs
<1>7. /\ But(Asking, none, r) /\ r.op = "ls" /\ r.base = d /\ r.offset = 0 /\ r.size = 0
  BY <1>3, <1>6 DEF But, Asking, Shape, IsCall, Fields
<1>8. d \in DirStarts /\ Shape(r) /\ Ask(program, r) /\ Fresh(r)
  <2>1. program = "cli" /\ d \in DirStarts
    BY <1>1 DEF IndInv, DirListing
  <2>2. Asked(program, r.op, r.path, r.base)
    BY <1>7, <2>1, AskedCli DEF CliOps
  <2>3. /\ none = NoCall /\ But(Asking, none, r) /\ Asked(program, r.op, r.path, r.base)
        /\ r.offset \in Nat /\ r.size \in Nat /\ (r.op = "cat" => r.offset = 0)
    BY <1>2, <1>7, <2>2
  <2>4. Shape(r) /\ Ask(program, r) /\ Fresh(r)
    BY ONLY <2>3, AskedFirst
  <2>. QED
    BY <2>1, <2>4
<1>9. Good(program, cwd, q)
  BY <1>4, <1>7, <1>8, ListGood
<1>10. Paused(q)
  BY <1>4, <1>8, PausedSimply DEF Shape
<1>. QED
  BY <1>5, <1>9, <1>10, GoOnKeeps

LEMMA PrintTreeKeeps ==
  ASSUME OneThread, IndInv, NEW t \in Threads, PrintTree(t)
  PROVE  IndInv'
<1>1. PICK none : none = NoCall
  OBVIOUS
<1>2. PICK r : r = [none EXCEPT !.op = "tree"]
  OBVIOUS
<1>3. PICK q : q = Scan(r, "tree", 0, 0)
  OBVIOUS
<1>4. Shape(none) /\ none.offset = 0 /\ none.size = 0 /\ none.base = 0
  BY <1>1, NoCallIs
<1>5. GoOn(t, q)
  BY <1>1, <1>2, <1>3 DEF PrintTree, Start
<1>6. /\ But(Asking, none, r) /\ r.op = "tree" /\ r.base = 0 /\ r.offset = 0 /\ r.size = 0
  BY <1>2, <1>4 DEF But, Asking, Shape, IsCall, Fields
<1>7. Asked(program, r.op, r.path, r.base)
  <2>1. program = "cli"
    BY DEF PrintTree
  <2>. QED
    BY <1>6, <2>1, RootIs, AskedCli DEF CliOps
<1>8. Shape(r) /\ Ask(program, r) /\ r.op = "tree" /\ r.stack = <<>> /\ r.out = <<>>
  <2>1. /\ none = NoCall /\ But(Asking, none, r) /\ Asked(program, r.op, r.path, r.base)
        /\ r.offset \in Nat /\ r.size \in Nat /\ (r.op = "cat" => r.offset = 0)
    BY <1>1, <1>6, <1>7
  <2>2. Shape(r) /\ Ask(program, r) /\ Fresh(r) /\ r.stack = <<>>
    BY ONLY <2>1, AskedFirst
  <2>. QED
    BY <1>6, <2>2 DEF Fresh
<1>9. q.task = "tree" /\ q.op = "tree" /\ q.stack = <<>> /\ q.out = <<>>
  BY <1>3, <1>8, ScanIs DEF Shape, But, Fields
<1>10. TreeSo(q.stack, q.out, 0, Listed(0, 0))
  BY <1>9, TreeBegins
<1>11. Scanning(program, q, 0, 0)
  BY <1>9, <1>10 DEF Scanning
<1>12. Spot(0, 0, 0, 0)
  BY SpotStart, RootIs
<1>13. Good(program, cwd, q)
  BY <1>3, <1>8, <1>11, <1>12, ScanGood
<1>14. Paused(q)
  BY <1>3, <1>8, PausedSimply DEF Shape
<1>. QED
  BY <1>5, <1>13, <1>14, GoOnKeeps

LEMMA ReadFileKeeps ==
  ASSUME OneThread, IndInv, NEW t \in Threads, ReadFile(t)
  PROVE  IndInv'
<1>1. PICK f \in FileNames :
        GoOn(t, Find([NoCall EXCEPT !.op = "cat", !.path = <<f>>, !.base = cwd], cwd, f, "file", FALSE))
  BY DEF ReadFile, Start
<1>2. PICK d : d = cwd
  OBVIOUS
<1>3. PICK path : path = <<f>>
  OBVIOUS
<1>4. PICK none : none = NoCall
  OBVIOUS
<1>5. PICK r : r = [none EXCEPT !.op = "cat", !.path = path, !.base = d]
  OBVIOUS
<1>6. PICK q, kind, up : q = Find(r, d, f, kind, up) /\ kind = "file" /\ up = FALSE
  OBVIOUS
<1>7. GoOn(t, q)
  BY <1>1, <1>2, <1>3, <1>4, <1>5, <1>6
<1>8. Shape(none) /\ none.offset = 0 /\ none.size = 0
  BY <1>4, NoCallIs
<1>9. /\ But(Asking, none, r) /\ r.op = "cat" /\ r.path = path /\ r.base = d
      /\ r.offset = 0 /\ r.size = 0
  BY <1>5, <1>8 DEF But, Asking, Shape, IsCall, Fields
<1>10. d \in DirStarts /\ Shape(r) /\ Ask(program, r) /\ Fresh(r)
  <2>1. program = "cli" /\ d \in DirStarts
    BY <1>2 DEF IndInv, ReadFile
  <2>2. \E g \in FileNames : path = <<g>>
    BY <1>3
  <2>3. Asked(program, r.op, r.path, r.base)
    BY <1>9, <2>1, <2>2, AskedCli DEF CliOps
  <2>4. /\ none = NoCall /\ But(Asking, none, r) /\ Asked(program, r.op, r.path, r.base)
        /\ r.offset \in Nat /\ r.size \in Nat /\ (r.op = "cat" => r.offset = 0)
    BY <1>4, <1>9, <2>3
  <2>5. Shape(r) /\ Ask(program, r) /\ Fresh(r)
    BY ONLY <2>4, AskedFirst
  <2>. QED
    BY <2>1, <2>5
<1>11. /\ q.name = f /\ q.kind = "file"
       /\ But({"name", "kind", "up", "task", "c", "s", "j", "pc", "next"}, r, q)
  BY <1>6, <1>10, FindSets
<1>12. q.op = "cat" /\ q.path = path
  BY <1>9, <1>11 DEF But, Fields
<1>13. Looked(program, q)
  BY <1>3, <1>11, <1>12 DEF Looked
<1>14. d = Searched(r)
  BY <1>9 DEF Searched
<1>15. Good(program, cwd, q)
  BY <1>6, <1>10, <1>13, <1>14, FindGood
<1>16. Paused(q)
  BY <1>6, <1>10, PausedSimply DEF Shape
<1>. QED
  BY <1>7, <1>15, <1>16, GoOnKeeps

LEMMA FuseCallKeeps ==
  ASSUME OneThread, IndInv, NEW t \in Threads, FuseCall(t)
  PROVE  IndInv'
<1>1. PICK op \in FuseOps, p \in FusePaths, offset \in Offsets, size \in Sizes :
       LET r == [NoCall EXCEPT !.op = op, !.path = p, !.todo = p, !.offset = offset, !.size = size]
           root == [NoEntry EXCEPT !.kind = "dir"]
       IN  GoOn(t, IF p = <<>> THEN Resolved(r, root) ELSE Enter(r, 0))
  BY DEF FuseCall, Start
<1>2. PICK none : none = NoCall
  OBVIOUS
<1>3. PICK r : r = [none EXCEPT !.op = op, !.path = p, !.todo = p, !.offset = offset, !.size = size]
  OBVIOUS
<1>4. GoOn(t, IF p = <<>> THEN Resolved(r, Root) ELSE Enter(r, 0))
  BY <1>1, <1>2, <1>3 DEF Root
<1>5. op \in FuseCalls /\ offset \in Nat /\ size \in Nat /\ op # "cat"
  BY ProgramsAssumption, RangesAssumption DEF FuseCalls
<1>6. Asked(program, op, p, 0)
  <2>1. program = "fuse"
    BY DEF FuseCall
  <2>. QED
    BY <1>5, <2>1, RootIs DEF Asked, FuseCalls
<1>7. Shape(r) /\ Ask(program, r) /\ Fresh(r) /\ r.op = op /\ r.path = p /\ r.todo = p /\ r.base = 0
  <2>1. Shape(none) /\ none.base = 0
    BY <1>2, NoCallIs
  <2>2. /\ But(Asking, none, r) /\ r.op = op /\ r.path = p /\ r.todo = p /\ r.base = 0
        /\ r.offset = offset /\ r.size = size
    BY <1>3, <2>1 DEF But, Asking, Shape, IsCall, Fields
  <2>. QED
    BY <1>2, <1>5, <1>6, <2>2, AskedFirst
<1>8. PICK q : q = IF p = <<>> THEN Resolved(r, Root) ELSE Enter(r, 0)
  OBVIOUS
<1>9. GoOn(t, q)
  BY <1>4, <1>8
<1>10. Good(program, cwd, q) /\ Paused(q)
  <2>1. CASE p = <<>>
    <3>1. q = Resolved(r, Root) /\ Means(r, Root) /\ r.op \in FuseCalls
      BY <1>5, <1>7, <1>8, <2>1 DEF Means
    <3>2. PICK e : e = Root
      OBVIOUS
    <3>3. q = Resolved(r, e) /\ Means(r, e)
      BY <3>1, <3>2
    <3>. QED
      BY <1>7, <3>1, <3>3, ResolvedGood, PausedResolved DEF Shape
  <2>2. CASE p # <<>>
    <3>1. q = Enter(r, 0)
      BY <1>8, <2>2
    <3>2. OnPath(op, p, 0, p, 0)
      BY <1>5, <1>6, <2>2, PathStart
    <3>3. OnPath(r.op, r.path, r.base, r.todo, 0)
      BY <1>7, <3>2
    <3>. QED
      BY <1>7, <3>1, <3>3, EnterGood, PausedSimply DEF Shape
  <2>. QED
    BY <2>1, <2>2
<1>. QED
  BY <1>9, <1>10, GoOnKeeps

LEMMA ReturnKeeps ==
  ASSUME OneThread, IndInv, NEW t \in Threads, Return(t)
  PROVE  IndInv'
<1>1. PICK q : q = NoCall
  OBVIOUS
<1>2. Shape(q) /\ q.pc = "idle"
  BY <1>1, NoCallIs
<1>3. Good(program, cwd, q)
  BY <1>1, <1>2 DEF Good, Phase
<1>4. Paused(q) /\ GoOn(t, q)
  BY <1>1, <1>2 DEF Paused, Return
<1>. QED
  BY <1>3, <1>4, GoOnKeeps

\* The call that takes the step.
LEMMA TheCall ==
  ASSUME IndInv, NEW t \in Threads, NEW r, r = call[t]
  PROVE  /\ Good(program, cwd, r) /\ Buffered(r, sector_buffer, position) /\ Shape(r) /\ IsCall(r)
         /\ r.pc # "idle" => Ask(program, r)
         /\ cwd \in DirStarts /\ sector_buffer \in 0 .. LastLba /\ position \in 1 .. LastLba + 1
  BY DEF IndInv, Good, Shape

LEMMA WalkPathKeeps ==
  ASSUME OneThread, IndInv, NEW t \in Threads, WalkPath(t)
  PROVE  IndInv'
<1>1. PICK r : r = call[t]
  OBVIOUS
<1>2. PICK rest : rest = Rest(r)
  OBVIOUS
<1>3. PICK name : name = Component(program, Head(r.todo))
  OBVIOUS
<1>4. PICK q : q = WalkOn(r, rest, name)
  OBVIOUS
<1>5. r.pc = "path" /\ r.todo # <<>> /\ GoOn(t, q)
  BY <1>1, <1>2, <1>3, <1>4 DEF WalkPath, WalkOn
<1>6. Good(program, cwd, r) /\ IsCall(r)
  BY <1>1, TheCall
<1>7. Good(program, cwd, q)
  BY ONLY <1>2, <1>3, <1>4, <1>5, <1>6, WalkStep
<1>8. Paused(q)
  <2>1. IsCall(rest)
    BY <1>2, <1>6 DEF Rest, IsCall
  <2>2. (\E dir : q = Enter(rest, dir)) \/ (\E c, x, kind, up : q = Find(rest, c, x, kind, up))
    BY <1>4 DEF WalkOn
  <2>. QED
    BY <2>1, <2>2, PausedSimply
<1>. QED
  BY <1>5, <1>7, <1>8, GoOnKeeps

LEMMA EndOfPathKeeps ==
  ASSUME OneThread, IndInv, NEW t \in Threads, EndOfPath(t)
  PROVE  IndInv'
<1>1. PICK r : r = call[t]
  OBVIOUS
<1>2. PICK q : q = Done(r, IF r.op = "cd" THEN "ok" ELSE "ENOENT")
  OBVIOUS
<1>3. PICK to : to = IF r.op = "cd" THEN r.dir ELSE cwd
  OBVIOUS
<1>4. /\ r.pc = "path" /\ r.todo = <<>> /\ call' = [call EXCEPT ![t] = q] /\ cwd' = to
      /\ program' = program /\ sector_buffer' = sector_buffer /\ position' = position
  BY <1>1, <1>2, <1>3 DEF EndOfPath
<1>5. /\ Good(program, cwd, r) /\ IsCall(r) /\ cwd \in DirStarts
      /\ sector_buffer \in 0 .. LastLba /\ position \in 1 .. LastLba + 1
  BY <1>1, TheCall
<1>6. Good(program, to, q) /\ to \in DirStarts
  BY <1>2, <1>3, <1>4, <1>5, EndOfPathStep
<1>7. Paused(q)
  BY <1>2, <1>5, PausedSimply
<1>8. Buffered(q, sector_buffer', position')
  BY <1>7 DEF Paused, Buffered
<1>9. /\ Good(program, cwd', q) /\ cwd' \in DirStarts
      /\ sector_buffer' \in 0 .. LastLba /\ position' \in 1 .. LastLba + 1
  BY <1>4, <1>5, <1>6
<1>. QED
  BY <1>4, <1>8, <1>9, StepKeeps

LEMMA SeekKeeps ==
  ASSUME OneThread, IndInv, NEW t \in Threads, Seek(t)
  PROVE  IndInv'
<1>1. PICK r : r = call[t]
  OBVIOUS
<1>2. PICK q : q = [r EXCEPT !.pc = "read"]
  OBVIOUS
<1>3. /\ r.pc = "seek" /\ call' = [call EXCEPT ![t] = q] /\ cwd' = cwd /\ position' = Lba(r)
      /\ program' = program /\ sector_buffer' = sector_buffer
  BY <1>1, <1>2 DEF Seek
<1>4. /\ Good(program, cwd, r) /\ IsCall(r) /\ cwd \in DirStarts
      /\ sector_buffer \in 0 .. LastLba /\ position \in 1 .. LastLba + 1
  BY <1>1, TheCall
<1>5. q.pc = "read" /\ But({"pc"}, r, q)
  BY <1>2, <1>4 DEF But, IsCall, Fields
<1>6. But({"pc", "local"}, r, q)
  BY <1>5 DEF But
<1>7. q.next = r.next /\ q.c = r.c /\ q.s = r.s
  BY <1>5 DEF But, Fields
<1>8. Good(program, cwd, q)
  BY <1>3, <1>4, <1>5, <1>6, PcGood
<1>9. Lba(r) \in 1 .. LastLba
  BY <1>3, <1>4, LbaGood
<1>10. Lba(r) \in 1 .. LastLba + 1
  BY <1>9, Layout
<1>11. Lba(q) = Lba(r)
  BY <1>7 DEF Lba
<1>12. Buffered(q, sector_buffer', position')
  BY <1>3, <1>5, <1>11 DEF Buffered
<1>13. /\ Good(program, cwd', q) /\ cwd' \in DirStarts
       /\ sector_buffer' \in 0 .. LastLba /\ position' \in 1 .. LastLba + 1
  BY <1>3, <1>4, <1>8, <1>10
<1>. QED
  BY <1>3, <1>12, <1>13, StepKeeps

LEMMA ReadKeeps ==
  ASSUME OneThread, IndInv, NEW t \in Threads, Read(t)
  PROVE  IndInv'
<1>1. PICK r : r = call[t]
  OBVIOUS
<1>2. PICK local : local = (r.op = "read" /\ r.next = "data")
  OBVIOUS
<1>3. PICK q : q = [r EXCEPT !.pc = r.next, !.local = IF local THEN position ELSE @]
  OBVIOUS
<1>4. /\ r.pc = "read" /\ call' = [call EXCEPT ![t] = q] /\ cwd' = cwd /\ position' = position + 1
      /\ program' = program /\ sector_buffer' = IF local THEN sector_buffer ELSE position
  BY <1>1, <1>2, <1>3 DEF Read
<1>5. /\ Good(program, cwd, r) /\ IsCall(r) /\ cwd \in DirStarts /\ Shape(r)
      /\ sector_buffer \in 0 .. LastLba /\ position \in 1 .. LastLba + 1
      /\ Buffered(r, sector_buffer, position)
  BY <1>1, TheCall
<1>6. /\ q.pc = r.next /\ But({"pc", "local"}, r, q)
      /\ q.local = IF local THEN position ELSE r.local
  BY <1>3, <1>5 DEF But, IsCall, Fields
<1>7. q.next = r.next /\ q.c = r.c /\ q.s = r.s /\ q.op = r.op
  BY <1>6 DEF But, Fields
<1>8. Good(program, cwd, q)
  BY <1>4, <1>5, <1>6, PcGood
<1>9. position = Lba(r) /\ Lba(r) \in 1 .. LastLba
  BY <1>4, <1>5, LbaGood DEF Buffered
<1>10. position \in 0 .. LastLba /\ position + 1 \in 1 .. LastLba + 1
  BY <1>9, Layout
<1>11. Buffered(q, sector_buffer', position')
  BY <1>2, <1>4, <1>5, <1>6, <1>7, <1>9 DEF Buffered, Lba, Shape
<1>12. /\ Good(program, cwd', q) /\ cwd' \in DirStarts
       /\ sector_buffer' \in 0 .. LastLba /\ position' \in 1 .. LastLba + 1
  BY <1>4, <1>5, <1>8, <1>10
<1>. QED
  BY <1>4, <1>11, <1>12, StepKeeps

LEMMA FindInSectorKeeps ==
  ASSUME OneThread, IndInv, NEW t \in Threads, FindInSector(t)
  PROVE  IndInv'
<1>1. PICK r : r = call[t]
  OBVIOUS
<1>2. PICK lba : lba = SectorLba(r.c, r.s)
  OBVIOUS
<1>3. PICK es : es = LiveEntries(lba)
  OBVIOUS
<1>4. PICK hits : hits = {i \in DOMAIN es : es[i].kind = r.kind /\ NameMatch(es[i].name83, r.name)}
  OBVIOUS
<1>5. PICK q : q = IF hits # {} THEN Found(r, es[Min(hits)])
                   ELSE IF Ended(lba) THEN NotFound(r) ELSE NextSector(r)
  OBVIOUS
<1>6. r.pc = "scan" /\ r.task = "find"
  BY <1>1 DEF FindInSector, At
<1>7. /\ Good(program, cwd, r) /\ Shape(r) /\ Ask(program, r) /\ sector_buffer = lba
  BY <1>1, <1>2, <1>6, TheCall DEF Buffered
<1>8. GoOn(t, q)
  BY <1>1, <1>3, <1>4, <1>5, <1>7 DEF FindInSector
<1>9. Good(program, cwd, q)
  BY <1>2, <1>3, <1>4, <1>5, <1>6, <1>7, FindStep
<1>10. Paused(q)
  <2>1. PICK d, k : Scanning(program, r, d, k)
    BY <1>6, <1>7 DEF Good, Phase, ScanOK
  <2>2. Looked(program, r)
    BY <1>6, <2>1 DEF Scanning
  <2>3. (\E e : q = Found(r, e)) \/ q = NotFound(r) \/ q = NextSector(r)
    BY <1>5
  <2>. QED
    BY <1>7, <2>1, <2>2, <2>3, PausedFound, PausedEnd
<1>. QED
  BY <1>8, <1>9, <1>10, GoOnKeeps

LEMMA ListSectorKeeps ==
  ASSUME OneThread, IndInv, NEW t \in Threads, ListSector(t)
  PROVE  IndInv'
<1>1. PICK r : r = call[t]
  OBVIOUS
<1>2. PICK lba : lba = SectorLba(r.c, r.s)
  OBVIOUS
<1>3. PICK m : m = [r EXCEPT !.out = @ \o Shown(r.op, LiveEntries(lba))]
  OBVIOUS
<1>4. PICK q : q = IF Ended(lba) THEN EndOfDirectory(m) ELSE NextSector(m)
  OBVIOUS
<1>5. r.pc = "scan" /\ r.task = "list"
  BY <1>1 DEF ListSector, At
<1>6. /\ Good(program, cwd, r) /\ Shape(r) /\ Ask(program, r) /\ sector_buffer = lba
  BY <1>1, <1>2, <1>5, TheCall DEF Buffered
<1>7. GoOn(t, q)
  BY <1>1, <1>3, <1>4, <1>6 DEF ListSector
<1>8. Good(program, cwd, q)
  BY <1>2, <1>3, <1>4, <1>5, <1>6, ListStep
<1>9. Paused(q)
  <2>1. IsCall(m) /\ m.task = "list"
    BY <1>3, <1>5, <1>6 DEF Shape, IsCall, Fields
  <2>2. \/ \E task, c, s : q = Scan(m, task, c, s)
        \/ q = Done(m, "ok")
        \/ q = FatNextCluster(m)
    BY <1>4, <2>1 DEF NextSector, EndOfDirectory
  <2>. QED
    BY <2>1, <2>2, PausedSimply
<1>. QED
  BY <1>7, <1>8, <1>9, GoOnKeeps

LEMMA VisitEntryKeeps ==
  ASSUME OneThread, IndInv, NEW t \in Threads, VisitEntry(t)
  PROVE  IndInv'
<1>1. PICK r : r = call[t]
  OBVIOUS
<1>2. PICK lba : lba = SectorLba(r.c, r.s)
  OBVIOUS
<1>3. PICK es : es = Entries(lba)
  OBVIOUS
<1>4. PICK e : e = es[r.j]
  OBVIOUS
<1>5. PICK past : past = Beyond(r)
  OBVIOUS
<1>6. PICK printed : printed = LinePrinted(past, e, Len(r.stack) + 1)
  OBVIOUS
<1>7. PICK frame : frame = FrameAt(r, lba)
  OBVIOUS
<1>8. PICK q : q = Visit(r, es, e, past, printed, frame)
  OBVIOUS
<1>9. r.pc = "scan" /\ r.task = "tree"
  BY <1>1 DEF VisitEntry, At
<1>10. /\ Good(program, cwd, r) /\ Shape(r) /\ Ask(program, r) /\ sector_buffer = lba /\ IsCall(r)
       /\ Buffered(r, sector_buffer, position)
  BY <1>1, <1>2, <1>9, TheCall DEF Buffered
<1>11. GoOn(t, q)
  BY <1>1, <1>3, <1>4, <1>5, <1>6, <1>7, <1>8, <1>10 DEF VisitEntry, Beyond, LinePrinted, FrameAt, Visit
<1>12. Good(program, cwd, q)
  BY ONLY <1>2, <1>3, <1>4, <1>5, <1>6, <1>7, <1>8, <1>9, <1>10, VisitStep
<1>13. Paused(q) \/ Buffered(q, sector_buffer, position)
  <2>1. /\ But({"j", "out"}, r, past) /\ But({"j", "out"}, r, printed)
    BY <1>5, <1>6, <1>10 DEF But, IsCall, Fields, Beyond, LinePrinted
  <2>2. CASE q = past \/ q = printed
    <3>1. q.pc = r.pc /\ q.c = r.c /\ q.s = r.s
      BY <2>1, <2>2 DEF But, Fields
    <3>. QED
      BY <1>9, <1>10, <3>1 DEF Buffered
  <2>3. CASE q = EndOfDirectory(r) \/ q = NextSector(r)
    BY <1>9, <1>10, <2>3, PausedEnd
  <2> DEFINE deeper == [printed EXCEPT !.stack = Append(@, frame)]
  <2>4. CASE q = Scan(deeper, "tree", e.start, 0)
    <3>1. IsCall(deeper)
      BY <2>1 DEF But, IsCall
    <3>. HIDE DEF deeper
    <3>. QED
      BY <2>4, <3>1, PausedSimply
  <2>. QED
    BY <1>8, <2>2, <2>3, <2>4 DEF Visit
<1>. QED
  BY <1>11, <1>12, <1>13, GoOnKeeps

LEMMA LeaveDirectoryKeeps ==
  ASSUME OneThread, IndInv, NEW t \in Threads, LeaveDirectory(t)
  PROVE  IndInv'
<1>1. PICK r : r = call[t]
  OBVIOUS
<1>2. r.pc = "leave"
  BY <1>1 DEF LeaveDirectory
<1>3. /\ Good(program, cwd, r) /\ Shape(r) /\ Ask(program, r) /\ IsCall(r) /\ cwd \in DirStarts
      /\ sector_buffer \in 0 .. LastLba /\ position \in 1 .. LastLba + 1
  BY <1>1, <1>2, TheCall
<1>4. CASE r.stack = <<>>
  <2>1. PICK q : q = Done(r, "ok")
    OBVIOUS
  <2>2. GoOn(t, q)
    BY <1>1, <1>4, <2>1 DEF LeaveDirectory
  <2>3. r.op = "tree"
    BY <1>2, <1>3 DEF Good, Leaving
  <2>4. But({"pc", "result"}, r, q)
    BY <1>3, <2>1, DoneIs
  <2>5. q.op = "tree" /\ q.out = TreeLines
    <3>1. PICK d : TreeSo(r.stack, r.out, d, Directory[d])
      BY <1>2, <1>3 DEF Good, Leaving
    <3>2. r.out = TreeLines
      BY <1>4, <3>1, TreeEnds
    <3>. QED
      BY <2>3, <2>4, <3>2 DEF But, Fields
  <2>6. Answered(cwd, q)
    BY <2>5 DEF Answered
  <2>7. Good(program, cwd, q)
    BY <1>3, <2>1, <2>6, DoneGood DEF Results
  <2>8. Paused(q)
    BY <1>3, <2>1, PausedSimply
  <2>. QED
    BY <2>2, <2>7, <2>8, GoOnKeeps
<1>5. CASE r.stack # <<>>
  <2>1. PICK frame : frame = Last(r.stack)
    OBVIOUS
  <2>2. PICK q : q = Back(r, frame)
    OBVIOUS
  <2>3. /\ sector_buffer' = frame.saved_sector /\ call' = [call EXCEPT ![t] = q]
        /\ program' = program /\ cwd' = cwd /\ position' = position
    BY <1>1, <1>5, <2>1, <2>2 DEF LeaveDirectory, BackIn, Back
  <2>4. /\ Good(program, cwd, q) /\ q.pc = "scan" /\ q.c = frame.c /\ q.s = frame.s
        /\ frame.saved_sector = SectorLba(frame.c, frame.s) /\ \E d, k : Spot(d, frame.c, frame.s, k)
    BY ONLY <1>2, <1>3, <1>5, <2>1, <2>2, LeaveStep
  <2>5. frame.saved_sector = SectorLba(frame.c, frame.s) /\ \E d, k : Spot(d, frame.c, frame.s, k)
    BY <2>4
  <2>6. frame.saved_sector \in 0 .. LastLba
    <3>1. frame.saved_sector \in DOMAIN Dir
      BY <2>5, SpotSector
    <3>. QED
      BY <3>1, DirectoryOnVolume, Layout
  <2>7. Buffered(q, sector_buffer', position')
    BY <2>3, <2>4, <2>5 DEF Buffered
  <2>8. /\ Good(program, cwd', q) /\ cwd' \in DirStarts
        /\ sector_buffer' \in 0 .. LastLba /\ position' \in 1 .. LastLba + 1
    BY <1>3, <2>3, <2>4, <2>6
  <2>. QED
    BY <2>3, <2>7, <2>8, StepKeeps
<1>. QED
  BY <1>4, <1>5

LEMMA FollowChainKeeps ==
  ASSUME OneThread, IndInv, NEW t \in Threads, FollowChain(t)
  PROVE  IndInv'
<1>1. PICK r : r = call[t]
  OBVIOUS
<1>2. PICK c : c = Fat[r.c]
  OBVIOUS
<1>3. PICK moved : moved = Forward(r, c)
  OBVIOUS
<1>4. PICK q : q = IF r.task # "copy"
                     THEN IF InChain(r, c) THEN Scan(r, r.task, c, 0) ELSE EndOfDirectory(r)
                   ELSE CopyOn(r, c, moved)
  OBVIOUS
<1>5. r.pc = "chain"
  BY <1>1 DEF FollowChain
<1>6. /\ Good(program, cwd, r) /\ Shape(r) /\ Ask(program, r) /\ IsCall(r)
      /\ sector_buffer = FatSector(r.c)
  BY <1>1, <1>5, TheCall DEF Buffered
<1>7. ChainOK(program, r)
  BY <1>5, <1>6 DEF Good, Phase
<1>8. FatValue(sector_buffer, r.c) = c
  BY <1>2, <1>6, <1>7, ChainOf
<1>9. GoOn(t, q)
  BY <1>1, <1>3, <1>4, <1>8 DEF FollowChain, Forward, CopyOn
<1>10. CASE r.task # "copy"
  <2>1. q = IF InChain(r, c) THEN Scan(r, r.task, c, 0) ELSE EndOfDirectory(r)
    BY <1>4, <1>10
  <2>2. Good(program, cwd, q)
    BY <1>2, <1>5, <1>6, <1>10, <2>1, ScanChainStep
  <2>3. Paused(q)
    <3>1. PICK d, k : Scanning(program, r, d, k)
      BY <1>7, <1>10 DEF ChainOK
    <3>2. (\E task, x, s : q = Scan(r, task, x, s)) \/ q = EndOfDirectory(r)
      BY <2>1
    <3>. QED
      BY <1>6, <3>1, <3>2, PausedSimply, PausedEnd
  <2>. QED
    BY <1>9, <2>2, <2>3, GoOnKeeps
<1>11. CASE r.task = "copy"
  <2>1. q = CopyOn(r, c, moved)
    BY <1>4, <1>11
  <2>2. Good(program, cwd, q)
    BY ONLY <1>2, <1>3, <1>5, <1>6, <1>11, <2>1, CopyChainStep
  <2>3. Paused(q)
    <3> DEFINE m1 == [moved EXCEPT !.skip = @ - 1]
               m2 == [moved EXCEPT !.skip = 0]
               m3 == [moved EXCEPT !.at = 0]
    <3>1. IsCall(m1) /\ IsCall(m2) /\ IsCall(m3)
      BY <1>3, <1>6 DEF IsCall, Forward
    <3>2. q = Done(r, "ok") \/ q = FatNextCluster(m1) \/ q = NextPiece(m2) \/ q = NextPiece(m3)
      BY <2>1 DEF CopyOn
    <3>. HIDE DEF m1, m2, m3
    <3>. QED
      BY <1>6, <3>1, <3>2, PausedSimply, PausedPiece
  <2>. QED
    BY <1>9, <2>2, <2>3, GoOnKeeps
<1>. QED
  BY <1>10, <1>11

LEMMA CopySectorKeeps ==
  ASSUME OneThread, IndInv, NEW t \in Threads, CopySector(t)
  PROVE  IndInv'
<1>1. PICK r : r = call[t]
  OBVIOUS
<1>2. PICK source : source = SectorLba(r.c, r.s)
  OBVIOUS
<1>3. PICK from : from = r.at % SectorSize
  OBVIOUS
<1>4. PICK chunk : chunk = Min({SectorSize - from, r.left})
  OBVIOUS
<1>5. PICK m : m = Copied(r, source, from, chunk)
  OBVIOUS
<1>6. PICK q : q = AfterCopy(r, m)
  OBVIOUS
<1>7. r.pc = "data"
  BY <1>1 DEF CopySector
<1>8. /\ Good(program, cwd, r) /\ IsCall(r)
      /\ (IF r.op = "read" THEN r.local ELSE sector_buffer) = source
  BY <1>1, <1>2, <1>7, TheCall DEF Buffered
<1>9. GoOn(t, q)
  BY <1>1, <1>3, <1>4, <1>5, <1>6, <1>8 DEF CopySector, Copied, AfterCopy
<1>10. Good(program, cwd, q)
  BY ONLY <1>2, <1>3, <1>4, <1>5, <1>6, <1>7, <1>8, CopyStep
<1>11. Paused(q)
  <2>1. IsCall(m)
    BY <1>5, <1>8 DEF IsCall, Copied
  <2>2. q = Done(m, "ok") \/ q = NextPiece(m)
    BY <1>6 DEF AfterCopy
  <2>. QED
    BY <2>1, <2>2, PausedSimply, PausedPiece
<1>. QED
  BY <1>9, <1>10, <1>11, GoOnKeeps

\* Every step keeps the invariant.
LEMMA NextKeeps == OneThread /\ IndInv /\ [Next]_vars => IndInv'
<1>. SUFFICES ASSUME OneThread, IndInv, [Next]_vars PROVE IndInv'
  OBVIOUS
<1>1. CASE UNCHANGED vars
  <2>1. /\ program' = program /\ cwd' = cwd /\ sector_buffer' = sector_buffer
        /\ position' = position /\ call' = call
    BY <1>1 DEF vars
  <2>. QED
    BY <2>1 DEF IndInv
<1>2. ASSUME NEW t \in Threads, Step(t)
      PROVE  IndInv'
  <2>1. CASE WalkPath(t)
    BY <2>1, WalkPathKeeps
  <2>2. CASE EndOfPath(t)
    BY <2>2, EndOfPathKeeps
  <2>3. CASE Seek(t)
    BY <2>3, SeekKeeps
  <2>4. CASE Read(t)
    BY <2>4, ReadKeeps
  <2>5. CASE FindInSector(t)
    BY <2>5, FindInSectorKeeps
  <2>6. CASE ListSector(t)
    BY <2>6, ListSectorKeeps
  <2>7. CASE VisitEntry(t)
    BY <2>7, VisitEntryKeeps
  <2>8. CASE LeaveDirectory(t)
    BY <2>8, LeaveDirectoryKeeps
  <2>9. CASE FollowChain(t)
    BY <2>9, FollowChainKeeps
  <2>10. CASE CopySector(t)
    BY <2>10, CopySectorKeeps
  <2>11. CASE Return(t)
    BY <2>11, ReturnKeeps
  <2>. QED
    BY <1>2, <2>1, <2>2, <2>3, <2>4, <2>5, <2>6, <2>7, <2>8, <2>9, <2>10, <2>11 DEF Step
<1>3. ASSUME NEW t \in Threads,
             ChangeDir(t) \/ DirListing(t) \/ PrintTree(t) \/ ReadFile(t) \/ FuseCall(t)
      PROVE  IndInv'
  BY <1>3, ChangeDirKeeps, DirListingKeeps, PrintTreeKeeps, ReadFileKeeps, FuseCallKeeps
<1>. QED
  BY <1>1, <1>2, <1>3 DEF Next

LEMMA InvTypeOK == IndInv => TypeOK
<1>. SUFFICES ASSUME IndInv PROVE TypeOK
  OBVIOUS
<1>1. ASSUME NEW t \in Threads, NEW r, r = call[t]
      PROVE  /\ r.pc \in Pcs /\ r.left \in Nat /\ r.result \in Results
             /\ r.pc = "seek" => Lba(r) \in Region(r.next)
  <2>1. Good(program, cwd, r)
    BY <1>1 DEF IndInv
  <2>2. Shape(r)
    BY <2>1 DEF Good
  <2>3. r.pc = "seek" => Lba(r) \in Region(r.next)
    BY <2>1, LbaGood
  <2>. QED
    BY <2>2, <2>3 DEF Shape
<1>2. \A t \in Threads :
        /\ call[t].pc \in Pcs /\ call[t].left \in Nat /\ call[t].result \in Results
        /\ call[t].pc = "seek" => Lba(call[t]) \in Region(call[t].next)
  BY <1>1
<1>3. /\ cwd \in DirStarts /\ sector_buffer \in 0 .. LastLba /\ position \in 1 .. LastLba + 1
  BY DEF IndInv
<1>. QED
  BY <1>2, <1>3 DEF TypeOK, Region, Results

\* A call that is done was asked, and answered.
LEMMA DoneAnswered ==
  ASSUME IndInv, NEW t \in Threads, NEW r, r = call[t], r.pc = "done"
  PROVE  Ask(program, r) /\ Answered(cwd, r)
<1>1. Good(program, cwd, r)
  BY DEF IndInv
<1>. QED
  BY <1>1 DEF Good

LEMMA InvPathsFollowed == Exact /\ IndInv => PathsFollowed
<1>. SUFFICES ASSUME Exact, IndInv, NEW t \in Threads, NEW r, r = call[t], r.pc = "done"
              PROVE  /\ r.op = "cd" =>
                          IF Destination[r.base][r.path] = NoDirectory THEN r.result = "ENOENT"
                          ELSE r.result = "ok" /\ cwd = Destination[r.base][r.path]
                     /\ r.op = "getattr" /\ r.path # <<>> =>
                          IF Meant[r.path] = {} THEN r.result = "ENOENT"
                          ELSE r.result = "ok" /\ {r.entry} = Meant[r.path]
  BY DEF PathsFollowed, Ends
<1>1. Asked(program, r.op, r.path, r.base) /\ Answered(cwd, r)
  BY DoneAnswered DEF Ask
<1>2. CASE r.op = "cd"
  <2>1. r.base \in DirStarts /\ r.path \in {q.names : q \in CdPaths} \cup FusePaths
    BY <1>1, <1>2 DEF Asked
  <2>2. Destination[r.base][r.path] = Follow(r.base, r.path)
    BY <2>1 DEF Destination
  <2>. QED
    BY <1>1, <1>2, <2>2 DEF Answered
<1>3. CASE r.op = "getattr"
  <2>1. r.path \in FusePaths
    BY <1>1, <1>3 DEF Asked, FuseCalls
  <2>2. Meant[r.path] = Resolution(r.path)
    BY <2>1 DEF Meant
  <2>. QED
    BY <1>1, <1>3, <2>2 DEF Answered
<1>. QED
  BY <1>2, <1>3

LEMMA InvReadReturnsRange == Exact /\ IndInv => ReadReturnsRange
<1>. SUFFICES ASSUME Exact, IndInv PROVE ReadReturnsRange
  OBVIOUS
<1>1. ASSUME NEW t \in Threads, call[t].pc = "done", call[t].op \in {"read", "cat"}
      PROVE  LET r == call[t]
                 meant == IF r.op = "cat" THEN FilesNamed[r.base][r.path[1]] ELSE Meant[r.path]
                 e == CHOOSE e \in meant : TRUE
             IN  r.out = IF meant = {} \/ e.kind = "dir" THEN <<>>
                         ELSE FileRange(e, r.offset, IF r.op = "cat" THEN e.size ELSE r.size)
  <2>1. PICK r : r = call[t]
    OBVIOUS
  <2>2. Asked(program, r.op, r.path, r.base) /\ Answered(cwd, r)
    BY <1>1, <2>1, DoneAnswered DEF Ask
  <2>3. MeantBy(r) = IF r.op = "cat" THEN FilesNamed[r.base][r.path[1]] ELSE Meant[r.path]
    <3>1. CASE r.op = "cat"
      <4>1. PICK f \in FileNames : r.path = <<f>>
        BY <2>2, <3>1 DEF Asked
      <4>2. r.base \in DirStarts /\ r.path[1] \in FileNames
        BY <2>2, <4>1 DEF Asked
      <4>. QED
        BY <3>1, <4>2 DEF FilesNamed, MeantBy
    <3>2. CASE r.op = "read"
      <4>1. r.path \in FusePaths
        BY <2>2, <3>2 DEF Asked, FuseCalls
      <4>. QED
        BY <3>2, <4>1 DEF Meant, MeantBy
    <3>. QED
      BY <1>1, <2>1, <3>1, <3>2
  <2>4. LET e == CHOOSE e \in MeantBy(r) : TRUE
        IN  r.out = IF MeantBy(r) = {} \/ e.kind = "dir" THEN <<>>
                    ELSE FileRange(e, r.offset, IF r.op = "cat" THEN e.size ELSE r.size)
    BY <1>1, <2>1, <2>2 DEF Answered
  <2>. QED
    BY <2>1, <2>3, <2>4
<1>. QED
  BY <1>1 DEF ReadReturnsRange, Ends

LEMMA InvListsWhole == Exact /\ IndInv => ListsWhole
<1>. SUFFICES ASSUME Exact, IndInv, NEW t \in Threads, NEW r, r = call[t], r.pc = "done"
              PROVE  /\ r.op = "ls" /\ r.base # 0 => r.out = Directory[r.base]
                     /\ r.op = "readdir" /\ r.result = "ok" =>
                          r.out = Undotted(Directory[Destination[0][r.path]])
  BY DEF ListsWhole, Ends
<1>1. Asked(program, r.op, r.path, r.base) /\ Answered(cwd, r)
  BY DoneAnswered DEF Ask
<1>2. CASE r.op = "readdir"
  <2>1. 0 \in DirStarts /\ r.path \in {q.names : q \in CdPaths} \cup FusePaths
    BY <1>1, <1>2, RootIs DEF Asked, FuseCalls
  <2>2. Destination[0][r.path] = Follow(0, r.path)
    BY <2>1 DEF Destination
  <2>. QED
    BY <1>1, <1>2, <2>2 DEF Answered
<1>3. CASE r.op = "ls"
  BY <1>1, <1>3 DEF Answered
<1>. QED
  BY <1>2, <1>3

LEMMA InvTreeListsAll == IndInv => TreeListsAll
<1>. SUFFICES ASSUME IndInv, NEW t \in Threads, NEW r, r = call[t], r.pc = "done", r.op = "tree"
              PROVE  r.out = TreeLines
  BY DEF TreeListsAll, Ends
<1>. QED
  BY DoneAnswered DEF Answered

-----------------------------------------------------------------------------
(* What holds of every call, on every volume TreeAssumption admits, with    *)
(* one thread: the clusters and sectors may have any size, the chains any   *)
(* length and order, the paths any depth.                                   *)
LEMMA InvHolds == OneThread => (Spec => []IndInv)
<1>. SUFFICES ASSUME OneThread PROVE Spec => []IndInv
  OBVIOUS
<1>1. IndInv /\ [Next]_vars => IndInv'
  BY NextKeeps
<1>. QED
  BY <1>1, InitKeeps, PTL DEF Spec

(* Every sector that is read is on the volume, and the look at the FAT, at  *)
(* a directory, or at a file's data reads the FAT, that kind of sector, or  *)
(* a data sector no directory owns.  Exact names are not needed.            *)
THEOREM TypeCorrect ==
  ASSUME OneThread
  PROVE  Spec => []TypeOK
  BY InvHolds, InvTypeOK, PTL

(* cd ends where its path leads and nowhere else, and a FUSE path names     *)
(* the entry stored under it, if every look-up on the way is exact.         *)
THEOREM PathsAreFollowed ==
  ASSUME OneThread, Exact
  PROVE  Spec => []PathsFollowed
<1>1. IndInv => PathsFollowed
  BY InvPathsFollowed
<1>. QED
  BY <1>1, InvHolds, PTL

(* read returns the bytes asked for that the file has, and cat the file,    *)
(* byte by byte from the sectors they are stored in.                        *)
THEOREM ReadsReturnRange ==
  ASSUME OneThread, Exact
  PROVE  Spec => []ReadReturnsRange
<1>1. IndInv => ReadReturnsRange
  BY InvReadReturnsRange
<1>. QED
  BY <1>1, InvHolds, PTL

(* ls below the root and readdir name every entry of the directory once     *)
(* and in order, whatever sectors and clusters hold it.                     *)
THEOREM ListingsAreWhole ==
  ASSUME OneThread, Exact
  PROVE  Spec => []ListsWhole
<1>1. IndInv => ListsWhole
  BY InvListsWhole
<1>. QED
  BY <1>1, InvHolds, PTL

(* tree prints every directory and file of the volume once, below its       *)
(* directory and after what precedes it there, although each level of the   *)
(* recursion overwrites the one sector_buffer: coming back, it goes on at   *)
(* the entry and in the sector it left.                                     *)
THEOREM TreesAreWhole ==
  ASSUME OneThread
  PROVE  Spec => []TreeListsAll
<1>1. IndInv => TreeListsAll
  BY InvTreeListsAll
<1>. QED
  BY <1>1, InvHolds, PTL
=============================================================================
