------------------------------ MODULE FatVolume ------------------------------
(***************************************************************************)
(* One directory of a FAT16 volume as src/fat handles it: the commands     *)
(* write, delete and read_file on the FAT copies, the directory entries    *)
(* and the data clusters.  A step writes at most one sector, so a crash    *)
(* (power loss, the process killed) may fall between any two of them; the  *)
(* commands themselves run one at a time.                                  *)
(*                                                                         *)
(* Sector reads and writes succeed (the library ignores their result).     *)
(* Names are upper case and at most 8.3, and one may be a prefix of        *)
(* another; sub-directories are left out.                                  *)
(* An operator named Faulty... is a plausible bug in the definition that   *)
(* follows it, kept to show that a property would notice it.               *)
(***************************************************************************)
EXTENDS FatNames, SequencesExt

CONSTANTS
  Names,               \* the file names the user types
  Lengths,             \* lengths, in bytes, of the input of write
  SectorSize,          \* bytes of a sector (512)
  SectorsPerCluster,   \* bs.sectors_per_cluster
  NumFats,             \* bs.number_of_fats
  FatEntries,          \* entries of one FAT: fat_size_sectors * sector_size / 2
  LastCluster,         \* the last cluster that lies inside the data area
  NumSlots,            \* entries the directory has room for
  CrashOps             \* the commands a crash may interrupt

ASSUME NamesAssumption == Names \subseteq Seq(Chars)
ASSUME LengthsAssumption == Lengths \subseteq Nat
ASSUME GeometryAssumption ==
  /\ {SectorSize, SectorsPerCluster, NumFats, NumSlots} \subseteq Nat \ {0}
  /\ LastCluster \in Nat /\ FatEntries \in Nat
  /\ 2 <= LastCluster /\ LastCluster < FatEntries
  /\ FatEntries <= 65528   \* cluster numbers end below 0xFFF8
ASSUME CrashOpsAssumption == CrashOps \subseteq {"write", "delete"}

Clusters == 2 .. FatEntries - 1
Slots == 1 .. NumSlots
Copies == 1 .. NumFats
Free == 0
FaultyEndOfChain == 0
EndOfChain == 65535     \* 0xFFFF; a cluster number is below 0xFFF8
IsCluster(c) == c >= 2 /\ c < 65528

VARIABLES
  fat,     \* fat[copy][cluster]
  dir,     \* dir[slot]: "end" (0x00), "deleted" (0xE5) or a "file"'s entry
  data,    \* data[cluster][sector]: the piece of a file written there
  op,      \* the running command and its local variables
  todo,    \* the FAT sectors fat_set_entry has still to write
  crashed, \* history: some command was interrupted
  torn     \* history: slots of files whose delete was interrupted

vars == <<fat, dir, data, op, todo, crashed, torn>>

(* A piece of a file's content: the k-th sector of its input, n bytes.      *)
Piece(name, k, n) == [file |-> name, k |-> k, n |-> n]
Blank == Piece(<<>>, 0, 0)

Idle == [cmd |-> "idle", pc |-> "idle", name |-> <<>>, slot |-> 0, len |-> 0, done |-> 0,
         first |-> 0, prev |-> 0, cur |-> 0, sec |-> 0]

(* typed is history: the name and so the content the entry was written for. *)
Entry(kind, f, start, size) ==
  [kind |-> kind, name83 |-> Format83(f), start |-> start, size |-> size, typed |-> f]
Unused(kind) == Entry(kind, <<>>, 0, 0)

FatValues == {Free, EndOfChain} \cup Clusters

TypeOK ==
  /\ fat \in [Copies -> [Clusters -> FatValues]]
  /\ \A s \in Slots :
       /\ dir[s].kind \in {"end", "deleted", "file"}
       /\ dir[s].start \in Clusters \cup {0}
       /\ dir[s].size \in Nat
  /\ \A c \in Clusters : Len(data[c]) = SectorsPerCluster
  /\ op.cmd \in {"idle", "write", "delete"}
  /\ op.pc \in {"idle", "read", "data", "entry", "free", "erase"}
  /\ op.done \in 0 .. op.len
  /\ op.sec \in 0 .. SectorsPerCluster
  /\ op.first \in Clusters \cup {0} /\ op.prev \in Clusters \cup {0}
  /\ todo \in Seq(Copies \X Clusters \X FatValues)
  /\ crashed \in BOOLEAN
  /\ torn \subseteq Slots

Init ==
  /\ fat = [k \in Copies |-> [c \in Clusters |-> Free]]
  /\ dir = [s \in Slots |-> Unused("end")]
  /\ data = [c \in Clusters |-> [s \in 1 .. SectorsPerCluster |-> Blank]]
  /\ op = Idle
  /\ todo = <<>>
  /\ crashed = FALSE
  /\ torn = {}

-----------------------------------------------------------------------------
(* find_dir_slot.                                                           *)

IsFile(s) == dir[s].kind = "file"

(* A search for a name stops at the first entry that was never used.        *)
Finds(name, s) ==
  /\ IsFile(s)
  /\ NameMatch(dir[s].name83, name)
  /\ \A r \in 1 .. s - 1 :
       /\ dir[r].kind # "end"
       /\ ~(IsFile(r) /\ NameMatch(dir[r].name83, name))

FreeSlot(s) == ~IsFile(s) /\ \A r \in 1 .. s - 1 : IsFile(r)

(* find_free_cluster scans the first FAT copy, as fat_get_entry does.       *)
FreeClusters == {c \in Clusters : fat[1][c] = Free}
FirstFree(c) == c \in FreeClusters /\ \A d \in FreeClusters : c <= d

FaultySetEntry(c, v) == <<<<1, c, v>>>>

(* fat_set_entry writes one sector in each copy of the FAT.                 *)
SetEntry(c, v) == [k \in Copies |-> <<k, c, v>>]

-----------------------------------------------------------------------------
(* write                                                                    *)

StartWrite(name, len) ==
  /\ op.cmd = "idle"
  /\ ~\E s \in Slots : Finds(name, s)
  /\ \E s \in Slots :
       /\ FreeSlot(s)
       /\ op' = [Idle EXCEPT !.cmd = "write", !.pc = "read", !.name = name, !.len = len,
                             !.slot = s]
  /\ UNCHANGED <<fat, dir, data, todo, crashed, torn>>

(* The name exists already or the directory is full.                        *)
WriteRefused(name) ==
  /\ op.cmd = "idle"
  /\ (\E s \in Slots : Finds(name, s)) \/ (\A s \in Slots : IsFile(s))
  /\ UNCHANGED vars

At(pc) == op.pc = pc /\ todo = <<>>

ReadBytes == IF op.len - op.done < SectorSize THEN op.len - op.done ELSE SectorSize
FaultyNeedsCluster == op.cur = 0
NeedsCluster == op.cur = 0 \/ op.sec >= SectorsPerCluster

EndOfInput ==
  /\ At("read")
  /\ ReadBytes = 0
  /\ op' = [op EXCEPT !.pc = "entry"]
  /\ UNCHANGED <<fat, dir, data, todo, crashed, torn>>

SameCluster ==
  /\ At("read")
  /\ ReadBytes > 0
  /\ ~NeedsCluster
  /\ op' = [op EXCEPT !.pc = "data"]
  /\ UNCHANGED <<fat, dir, data, todo, crashed, torn>>

(* The new cluster is marked as the end of the chain first, then linked.    *)
AllocateCluster ==
  /\ At("read")
  /\ ReadBytes > 0
  /\ NeedsCluster
  /\ \E c \in Clusters :
       /\ FirstFree(c)
       /\ todo' = SetEntry(c, EndOfChain) \o
                    (IF op.prev # 0 THEN SetEntry(op.prev, c) ELSE <<>>)
       /\ op' = [op EXCEPT !.pc = "data", !.first = IF op.prev # 0 THEN @ ELSE c,
                           !.prev = c, !.cur = c, !.sec = 0]
  /\ UNCHANGED <<fat, dir, data, crashed, torn>>

FaultyDiskFull ==
  /\ At("read")
  /\ ReadBytes > 0
  /\ NeedsCluster
  /\ FreeClusters = {}
  /\ op' = Idle
  /\ UNCHANGED <<fat, dir, data, todo, crashed, torn>>

(* No free cluster: give back the chain allocated so far.                   *)
DiskFull ==
  /\ At("read")
  /\ ReadBytes > 0
  /\ NeedsCluster
  /\ FreeClusters = {}
  /\ op' = [op EXCEPT !.pc = "free", !.cur = op.first]
  /\ UNCHANGED <<fat, dir, data, todo, crashed, torn>>

FaultyWriteData ==
  /\ At("data")
  /\ data' = [data EXCEPT ![op.first][op.sec + 1] =
                Piece(op.name, op.done \div SectorSize, ReadBytes)]
  /\ op' = [op EXCEPT !.pc = IF ReadBytes < SectorSize THEN "entry" ELSE "read",
                      !.sec = @ + 1, !.done = @ + ReadBytes]
  /\ UNCHANGED <<fat, dir, todo, crashed, torn>>

(* A short read ends the input.                                             *)
WriteData ==
  /\ At("data")
  /\ data' = [data EXCEPT ![op.cur][op.sec + 1] =
                Piece(op.name, op.done \div SectorSize, ReadBytes)]
  /\ op' = [op EXCEPT !.pc = IF ReadBytes < SectorSize THEN "entry" ELSE "read",
                      !.sec = @ + 1, !.done = @ + ReadBytes]
  /\ UNCHANGED <<fat, dir, todo, crashed, torn>>

(* The directory entry is written last: only now does the file exist.       *)
WriteEntry ==
  /\ At("entry")
  /\ dir' = [dir EXCEPT ![op.slot] = Entry("file", op.name, op.first, op.done)]
  /\ op' = Idle
  /\ UNCHANGED <<fat, data, todo, crashed, torn>>

-----------------------------------------------------------------------------
(* delete                                                                   *)

StartDelete(name) ==
  /\ op.cmd = "idle"
  /\ \E s \in Slots :
       /\ Finds(name, s)
       /\ op' = [Idle EXCEPT !.cmd = "delete", !.name = name, !.slot = s,
                             !.pc = IF dir[s].start >= 2 THEN "free" ELSE "erase",
                             !.cur = dir[s].start]
  /\ UNCHANGED <<fat, dir, data, todo, crashed, torn>>

DeleteRefused(name) ==
  /\ op.cmd = "idle"
  /\ ~\E s \in Slots : Finds(name, s)
  /\ UNCHANGED vars

FaultyFreeNext ==
  /\ At("free")
  /\ IsCluster(op.cur)
  /\ todo' = SetEntry(op.cur, Free)
  /\ UNCHANGED <<fat, dir, data, op, crashed, torn>>

(* free_chain reads the next cluster before it frees this one.              *)
FreeNext ==
  /\ At("free")
  /\ IsCluster(op.cur)
  /\ todo' = SetEntry(op.cur, Free)
  /\ op' = [op EXCEPT !.cur = fat[1][op.cur]]
  /\ UNCHANGED <<fat, dir, data, crashed, torn>>

FreeEnds ==
  /\ At("free")
  /\ ~IsCluster(op.cur)
  /\ op' = IF op.cmd = "write" THEN Idle ELSE [op EXCEPT !.pc = "erase"]
  /\ UNCHANGED <<fat, dir, data, todo, crashed, torn>>

EraseEntry ==
  /\ At("erase")
  /\ dir' = [dir EXCEPT ![op.slot] = Unused("deleted")]
  /\ op' = Idle
  /\ torn' = torn \ {op.slot}
  /\ UNCHANGED <<fat, data, todo, crashed>>

-----------------------------------------------------------------------------
(* One sector of one FAT copy.                                              *)
WriteFatSector ==
  /\ todo # <<>>
  /\ LET w == Head(todo) IN fat' = [fat EXCEPT ![w[1]][w[2]] = w[3]]
  /\ todo' = Tail(todo)
  /\ UNCHANGED <<dir, data, op, crashed, torn>>

(* Everything not yet written to the disk is lost.  Bound: one crash in a   *)
(* behaviour.                                                               *)
Crash ==
  /\ ~crashed
  /\ op.cmd \in CrashOps
  /\ op' = Idle
  /\ todo' = <<>>
  /\ crashed' = TRUE
  /\ torn' = IF op.cmd = "delete" THEN torn \cup {op.slot} ELSE torn
  /\ UNCHANGED <<fat, dir, data>>

Command ==
  \/ \E name \in Names :
       \/ \E len \in Lengths : StartWrite(name, len)
       \/ WriteRefused(name)
       \/ StartDelete(name)
       \/ DeleteRefused(name)

Step ==
  \/ EndOfInput \/ SameCluster \/ AllocateCluster \/ DiskFull \/ WriteData \/ WriteEntry
  \/ FreeNext \/ FreeEnds \/ EraseEntry
  \/ WriteFatSector

Next == Command \/ Step \/ Crash

Spec == Init /\ [][Next]_vars

(* A command that was started runs on: the program is sequential.           *)
FairSpec == Spec /\ WF_vars(Step)

-----------------------------------------------------------------------------
(* read_file: follow the chain from the entry, one piece per sector, until  *)
(* the size in the entry is used up.                                        *)
ClusterAt(e, i) ==
  LET follow[k \in 0 .. i] == IF k = 0 THEN e.start
                              ELSE IF IsCluster(follow[k - 1]) /\ follow[k - 1] \in Clusters
                                THEN fat[1][follow[k - 1]] ELSE Free
  IN  follow[i]

SectorCount(size) == (size + SectorSize - 1) \div SectorSize
ClusterCount(size) == (SectorCount(size) + SectorsPerCluster - 1) \div SectorsPerCluster

ReadFile(e) ==
  [i \in 1 .. SectorCount(e.size) |->
     LET c == ClusterAt(e, (i - 1) \div SectorsPerCluster)
     IN  IF c \in Clusters THEN data[c][((i - 1) % SectorsPerCluster) + 1] ELSE Blank]

ChainOf(e) == {ClusterAt(e, i) : i \in 0 .. ClusterCount(e.size) - 1}

(* The files that nobody has begun to delete.                               *)
Files == {s \in Slots : IsFile(s) /\ s \notin torn /\ ~(op.cmd = "delete" /\ op.slot = s)}

(* Every file owns a chain of its own: as many distinct allocated clusters  *)
(* as its size needs, ended by the end mark, none shared with another file  *)
(* or with the chain being built; the loops over it end where they should.  *)
ChainsSound ==
  \A s \in Files :
    LET n == ClusterCount(dir[s].size) IN
    /\ dir[s].start = 0 <=> n = 0
    /\ n > 0 => /\ Cardinality(ChainOf(dir[s])) = n
                /\ ChainOf(dir[s]) \subseteq Clusters \ FreeClusters
                /\ fat[1][ClusterAt(dir[s], n - 1)] = EndOfChain
    /\ \A r \in Files \ {s} : ChainOf(dir[r]) \cap ChainOf(dir[s]) \subseteq {0}
    /\ op.cmd = "write" => op.cur \notin ChainOf(dir[s]) \ {0}

(* All FAT copies describe the same chains: for the clusters of a file they *)
(* agree, even after a crash during a write.                                *)
MirrorsAgree ==
  \A s \in Files : \A c \in ChainOf(dir[s]) \ {0} :
    \A k \in Copies : fat[k][c] = fat[1][c]

(* Without a crash no space is lost: when no command runs, a cluster that   *)
(* is not free belongs to a file.  A write that fails on a full disk gives  *)
(* back everything it took.                                                 *)
NoSpaceLost ==
  op.cmd = "idle" /\ ~crashed =>
    Clusters \ FreeClusters = (UNION {ChainOf(dir[s]) : s \in Files}) \ {0}

(* find_free_cluster returns a cluster of the data area.                    *)
AllocatesDataClusters ==
  [][\A c \in Clusters : fat[1][c] = Free /\ fat'[1][c] # Free => c <= LastCluster]_vars

(* Every file reads back as it was written.                                 *)
Content(name, len) ==
  [i \in 1 .. SectorCount(len) |->
     Piece(name, i - 1, IF len - (i - 1) * SectorSize < SectorSize
                          THEN len - (i - 1) * SectorSize ELSE SectorSize)]

FilesIntact == \A s \in Files : ReadFile(dir[s]) = Content(dir[s].typed, dir[s].size)

(* Every command ends.                                                      *)
CommandsEnd == op.cmd # "idle" ~> op.cmd = "idle"

(* The volume is a store of whole files.  A file being deleted is gone from *)
(* the first sector on.                                                     *)
Name83 == [name \in Names |-> Format83(name)]
Contents == {Content(name, len) : name \in Names, len \in Lengths}
NoFile == <<Blank>>

StoredAs(name) == {s \in Files : dir[s].name83 = Name83[name]}

StoredFiles ==
  [name \in Names |->
     IF StoredAs(name) = {} THEN NoFile
     ELSE ReadFile(dir[CHOOSE s \in StoredAs(name) : TRUE])]

Store == INSTANCE FileStore WITH files <- StoredFiles

RefinesFileStore == Store!Spec
=============================================================================
