----------------------------- MODULE FatLayout -----------------------------
(***************************************************************************)
(* A FAT16 volume as the readers of src/fat see it: where fat16_init finds *)
(* the FAT, the root directory and the data clusters, and what directories *)
(* and files the sectors hold.  The second half says, without scanning any *)
(* sector, what the commands should find there; only properties use it.    *)
(*                                                                         *)
(* Nothing writes the volume here, so a buffer is represented by the       *)
(* number of the sector it was read from.  A byte of a file is <<lba, i>>. *)
(***************************************************************************)
EXTENDS FatNames, SequencesExt

CONSTANTS
  SectorSize,         \* bytes of a sector (512)
  SectorsPerCluster,  \* bs.sectors_per_cluster
  FatPerSector,       \* FAT entries of a sector (256)
  RootSectors,        \* root_dir_sectors
  Fat,                \* Fat[c]: the FAT entry of cluster c
  Dir                 \* Dir[lba]: the entries of a directory's sector

ASSUME LayoutAssumption ==
  {SectorSize, SectorsPerCluster, FatPerSector, RootSectors} \subseteq Nat \ {0}

EndMark == 65528        \* 0xFFF8
Clusters == DOMAIN Fat

(* The sectors: the boot sector, one FAT, the root directory, the clusters. *)
FatStart == 1
RootStart == FatStart + (Cardinality(Clusters) + 1) \div FatPerSector + 1
DataStart == RootStart + RootSectors
LastLba == DataStart + Cardinality(Clusters) * SectorsPerCluster - 1

AllEntries == UNION {Range(Dir[l]) : l \in DOMAIN Dir}

ASSUME VolumeAssumption ==
  /\ Cardinality(Clusters) \in Nat /\ Cardinality(Clusters) + 1 < EndMark
  /\ Clusters = 2 .. Cardinality(Clusters) + 1
  /\ \A c \in Clusters : Fat[c] \in Clusters \cup {0, 65535}
  /\ DOMAIN Dir \subseteq RootStart .. LastLba
  /\ RootStart .. DataStart - 1 \subseteq DOMAIN Dir
  /\ \A l \in DOMAIN Dir : Dir[l] \in Seq(AllEntries)
  /\ \A e \in AllEntries : e.start \in Nat /\ e.size \in Nat

FaultyFatSector(c) == FatStart

FatSector(c) == FatStart + c \div FatPerSector

\* Sector s of the root directory (c = 0) or of cluster c.
SectorLba(c, s) ==
  IF c = 0 THEN RootStart + s ELSE DataStart + (c - 2) * SectorsPerCluster + s

(* What a buffer says when it is taken for a sector of the FAT, or of a     *)
(* directory.  A sector of another kind reads as free clusters, and as no   *)
(* entries: only FUSE's racing threads ever mistake one.                    *)
FatValue(lba, c) ==
  LET n == (lba - FatStart) * FatPerSector + (c % FatPerSector)
  IN  IF lba \in FatStart .. RootStart - 1 /\ n \in Clusters THEN Fat[n] ELSE 0

Entries(lba) == IF lba \in DOMAIN Dir THEN Dir[lba] ELSE <<>>

(* The elements of es that are in kept, in their order.                     *)
Kept(es, kept) ==
  LET some[i \in 0 .. Len(es)] ==
        IF i = 0 THEN <<>>
        ELSE IF es[i] \in kept THEN Append(some[i - 1], es[i]) ELSE some[i - 1]
  IN  some[Len(es)]

Live(e) == e.kind \in {"dir", "file"}
BeforeEnd(es) ==
  LET ends == {i \in DOMAIN es : es[i].kind = "end"}
  IN  SubSeq(es, 1, (IF ends = {} THEN Len(es) + 1 ELSE Min(ends)) - 1)
Ended(lba) == \E i \in DOMAIN Entries(lba) : Entries(lba)[i].kind = "end"

(* Neither deleted (0xE5) nor a volume label (attribute 0x08).              *)
AllLive == {e \in AllEntries : Live(e)}
LiveIn == [lba \in DOMAIN Dir |-> Kept(BeforeEnd(Dir[lba]), AllLive)]
LiveEntries(lba) == IF lba \in DOMAIN Dir THEN LiveIn[lba] ELSE <<>>

IsDot(e) == e.kind = "dir" /\ e.name83.name[1] = "."
AllUndotted == {e \in AllEntries : ~IsDot(e)}
Undotted(es) == Kept(es, AllUndotted)

-----------------------------------------------------------------------------
(* What is on the volume.                                                   *)

\* The i-th cluster of the chain that starts at c, counting from 0.
ClusterAt(c, i) ==
  LET walk[k \in 0 .. i] == IF k = 0 THEN c ELSE Fat[walk[k - 1]] IN walk[i]

IsChain(c, n) ==
  /\ \A i \in 0 .. n - 1 : ClusterAt(c, i) \in Clusters
  /\ Fat[ClusterAt(c, n - 1)] >= EndMark

HeadsChain(c) == \E n \in 1 .. Cardinality(Clusters) : IsChain(c, n)

ChainLength(c) == CHOOSE n \in 1 .. Cardinality(Clusters) : IsChain(c, n)

SectorsOf(c) ==
  IF c = 0 THEN [i \in 1 .. RootSectors |-> SectorLba(0, i - 1)]
  ELSE [i \in 1 .. ChainLength(c) * SectorsPerCluster |->
          SectorLba(ClusterAt(c, (i - 1) \div SectorsPerCluster),
                    (i - 1) % SectorsPerCluster)]

SubDirectory(e) == e.kind = "dir" /\ e.start >= 2

(* Every directory ends, and so does every file, which fills its chain and  *)
(* shares no sector with a directory.                                       *)
ASSUME EntriesAssumption ==
  \A e \in AllEntries :
    /\ e.kind = "dir" =>
         \/ e.start = 0
         \/ HeadsChain(e.start) /\ Range(SectorsOf(e.start)) \subseteq DOMAIN Dir
    /\ e.kind = "file" =>
         IF e.start = 0 THEN e.size = 0
         ELSE /\ HeadsChain(e.start) /\ Range(SectorsOf(e.start)) \cap DOMAIN Dir = {}
              /\ e.size <= Len(SectorsOf(e.start)) * SectorSize

DirStarts == {0} \cup {e.start : e \in {x \in AllEntries : SubDirectory(x)}}

NoDirectory == -1

(* The entries of each directory, in order; their names differ.             *)
Directory ==
  [d \in DirStarts \cup {NoDirectory} |->
     IF d = NoDirectory THEN <<>> ELSE
     LET sectors == SectorsOf(d)
     IN  Kept(BeforeEnd(FlattenSeq([i \in DOMAIN sectors |-> Dir[sectors[i]]])), AllLive)]

EntriesOf(d) == Range(Directory[d])

(* The directories form a tree: each lies at one depth below the root.      *)
ASSUME TreeAssumption ==
  \E depth \in [DirStarts -> 0 .. Cardinality(DirStarts) - 1] :
    /\ depth[0] = 0
    /\ \A d \in DirStarts : \A e \in EntriesOf(d) :
         SubDirectory(e) /\ ~IsDot(e) => depth[e.start] = depth[d] + 1

FileByte(e, i) ==
  LET sector == i \div SectorSize
      cluster == ClusterAt(e.start, sector \div SectorsPerCluster)
  IN  <<SectorLba(cluster, sector % SectorsPerCluster), i % SectorSize>>

\* The bytes of a file from offset on, at most size of them.
FileRange(e, offset, size) ==
  LET last == Min({offset + size, e.size})
  IN  IF last <= offset THEN <<>>
      ELSE [i \in 1 .. last - offset |-> FileByte(e, offset + i - 1)]

DotDot == <<".", ".">>

(* A name means the entry stored under what format_83_name makes of it,     *)
(* and ".." the entry of that name.                                         *)
Denotes(f, e) ==
  IF f = DotDot THEN IsDot(e) /\ e.name83.name[2] = "." ELSE e.name83 = Format83(f)

Named(d, f, kind) == {e \in EntriesOf(d) : e.kind = kind /\ Denotes(f, e)}

\* Where a path leads from the directory start; above the root is the root.
Follow(start, path) ==
  LET at[i \in 0 .. Len(path)] ==
        IF i = 0 THEN start
        ELSE IF path[i] = <<".">> \/ (at[i - 1] = 0 /\ path[i] = DotDot) THEN at[i - 1]
        ELSE LET found == Named(at[i - 1], path[i], "dir")
             IN  IF found = {} THEN NoDirectory ELSE (CHOOSE e \in found : TRUE).start
  IN  at[Len(path)]

\* The entry an absolute path names, if any; the root has none.
Resolution(path) ==
  IF path = <<>> THEN {}
  ELSE {e \in EntriesOf(Follow(0, Front(path))) : Denotes(Last(path), e)}

\* The volume's directories and files, each with its depth below the root; lines[n] has
\* those of n levels of directories.
TreeLines ==
  LET depth == Cardinality(DirStarts)
      lines[n \in 0 .. depth] ==
        IF n = 0 THEN [d \in DirStarts |-> <<>>]
        ELSE [d \in DirStarts |->
                LET es == Undotted(Directory[d])
                IN  FlattenSeq([i \in DOMAIN es |->
                      <<[entry |-> es[i], depth |-> depth - n + 1]>> \o
                      (IF SubDirectory(es[i]) THEN lines[n - 1][es[i].start] ELSE <<>>)])]
  IN  lines[depth][0]
=============================================================================
