----------------------------- MODULE FatReader -----------------------------
(***************************************************************************)
(* The commands of src/fat that read a volume: cd, ls, tree and read_file  *)
(* of the command line, and getattr, readdir, open and read of the FUSE    *)
(* file system.  They share the directory scans, the path walk and two     *)
(* global things: sector_buffer and the position of the image file, which  *)
(* ata_read_sector first sets (fseek) and then reads from (fread).         *)
(*                                                                         *)
(* A step seeks, reads, or treats one sector; call[t] is the call thread t *)
(* is in, with its local variables and, while it has one, the position of  *)
(* its scan.  The command line has one thread.  fuse_main starts several,  *)
(* unless it is told not to, and fat_fuse.c has no lock.                   *)
(***************************************************************************)
EXTENDS FatLayout

CONSTANTS
  Threads,      \* the threads that serve calls
  Programs,     \* "cli": fat_linux_main.c or the kernel's; "fuse": fat_fuse.c
  CdPaths,      \* arguments of cd: [absolute, names]
  FusePaths,    \* paths the FUSE library passes, always absolute
  FileNames,    \* arguments of read_file
  FuseOps,      \* the FUSE calls that are made
  Offsets,      \* offset arguments of read
  Sizes         \* size arguments of read

ASSUME ProgramsAssumption ==
  /\ Programs \subseteq {"cli", "fuse"}
  /\ "cli" \in Programs => Cardinality(Threads) = 1
  /\ FuseOps \subseteq {"getattr", "readdir", "open", "open_rw", "read"}
ASSUME RangesAssumption == Offsets \subseteq Nat /\ Sizes \subseteq Nat
ASSUME PathsAssumption ==
  \A p \in FusePaths \cup {q.names : q \in CdPaths} :
    p \in Seq(Range(p)) /\ \A f \in Range(p) : f \in Seq(Range(f))

VARIABLES
  program,        \* which of the two programs this is
  cwd,            \* cwd_cluster
  sector_buffer,  \* the sector whose content the shared buffer holds
  position,       \* the position of the image file, in sectors
  call            \* call[t]: the call thread t is in

vars == <<program, cwd, sector_buffer, position, call>>

NoEntry == [kind |-> "none", name83 |-> Format83(<<>>), start |-> 0, size |-> 0]

(* One call: what was asked (op, path, base, offset, size), where it is     *)
(* (pc; next, what the sector being read is for; task, the loop it is in),  *)
(* the walk along the path (todo, dir) with the entry it looks for (name,   *)
(* kind; up in get_parent_cluster), the scan (cluster c, sector s, entry j, *)
(* and the callers' frames in tree), the copying of a file (skip clusters,  *)
(* start at a byte, copy left bytes, local_sector), and the answer.         *)
NoCall ==
  [op |-> "none", path |-> <<>>, base |-> 0, offset |-> 0, size |-> 0,
   pc |-> "idle", next |-> "scan", task |-> "none",
   todo |-> <<>>, dir |-> 0, name |-> <<>>, kind |-> "dir", up |-> FALSE,
   c |-> 0, s |-> 0, j |-> 1, stack |-> <<>>,
   skip |-> 0, at |-> 0, left |-> 0, local |-> 0,
   result |-> "none", entry |-> NoEntry, out |-> <<>>]

Init ==
  /\ program \in Programs
  /\ cwd = 0
  /\ sector_buffer = 0
  /\ position = 1
  /\ call = [t \in Threads |-> NoCall]

-----------------------------------------------------------------------------
(* How a call r goes on, up to the next sector it needs.                    *)

Done(r, result) == [r EXCEPT !.pc = "done", !.result = result]

Scan(r, task, c, s) ==
  [r EXCEPT !.task = task, !.c = c, !.s = s, !.j = 1, !.pc = "seek", !.next = "scan"]

FatNextCluster(r) == [r EXCEPT !.pc = "seek", !.next = "chain"]

(* find_in_directory(c, name, kind).                                        *)
Find(r, c, name, kind, up) ==
  Scan([r EXCEPT !.name = name, !.kind = kind, !.up = up], "find", c, 0)

Enter(r, dir) == [r EXCEPT !.dir = dir, !.pc = "path"]

ClusterSize == SectorSize * SectorsPerCluster

(* The next piece of cluster r.c, from byte r.at of it, or its successor.   *)
NextPiece(r) ==
  IF r.at < ClusterSize /\ r.left > 0
    THEN [r EXCEPT !.task = "copy", !.s = r.at \div SectorSize, !.pc = "seek", !.next = "data"]
    ELSE FatNextCluster([r EXCEPT !.task = "copy"])

(* fat_read, once the path names a file.                                    *)
FaultyReadRange(r, e) ==
  LET first == [r EXCEPT !.c = e.start, !.left = Min({r.size, e.size - r.offset}),
                         !.skip = r.offset \div ClusterSize, !.at = r.offset % ClusterSize]
  IN  IF first.left = 0 \/ e.start < 2 THEN Done(r, "ok")
      ELSE IF first.skip > 0 THEN FatNextCluster([first EXCEPT !.task = "copy"])
      ELSE NextPiece(first)

ReadRange(r, e) ==
  LET first == [r EXCEPT !.c = e.start, !.left = Min({r.size, e.size - r.offset}),
                         !.skip = r.offset \div ClusterSize, !.at = r.offset % ClusterSize]
  IN  IF r.offset >= e.size \/ first.left = 0 \/ e.start < 2 THEN Done(r, "ok")
      ELSE IF first.skip > 0 THEN FatNextCluster([first EXCEPT !.task = "copy"])
      ELSE NextPiece(first)

(* read_file, once the name was found.                                      *)
Cat(r, e) ==
  IF e.start = 0 THEN Done(r, "ok")
  ELSE NextPiece([r EXCEPT !.c = e.start, !.left = e.size])

ClusterOf(e) == IF e.start < 2 THEN 0 ELSE e.start

(* What the FUSE call does with the entry its path names.                   *)
Resolved(r, e) ==
  CASE r.op = "getattr" -> Done([r EXCEPT !.entry = e], "ok")
    [] r.op = "readdir" -> IF e.kind = "dir" THEN Scan(r, "list", ClusterOf(e), 0)
                           ELSE Done(r, "ENOTDIR")
    [] r.op = "open"    -> Done(r, IF e.kind = "dir" THEN "EISDIR" ELSE "ok")
    [] r.op = "open_rw" -> Done(r, IF e.kind = "dir" THEN "EISDIR" ELSE "EACCES")
    [] r.op = "read"    -> IF e.kind = "dir" THEN Done(r, "EISDIR") ELSE ReadRange(r, e)

(* The caller of find_in_directory: it found e, or nothing.                 *)
Found(r, e) ==
  IF r.op = "cat" THEN Cat(r, e)
  ELSE IF r.up THEN Enter(r, e.start)
  ELSE IF r.op = "cd" \/ r.todo # <<>> THEN Enter(r, ClusterOf(e))
  ELSE Resolved(r, e)

FaultyNotFound(r) ==
  IF r.op = "cat" THEN Done(r, "ok")
  ELSE IF r.up THEN Enter(r, 0)
  ELSE IF r.op # "cd" /\ r.kind = "dir" THEN Find(r, r.dir, r.name, "file", FALSE)
  ELSE Done(r, "ENOENT")

NotFound(r) ==
  IF r.op = "cat" THEN Done(r, "ok")
  ELSE IF r.up THEN Enter(r, 0)
  ELSE IF r.op # "cd" /\ r.todo = <<>> /\ r.kind = "dir" THEN Find(r, r.dir, r.name, "file", FALSE)
  ELSE Done(r, "ENOENT")

EndOfDirectory(r) ==
  CASE r.task = "find" -> NotFound(r)
    [] r.task = "list" -> Done(r, "ok")
    [] r.task = "tree" -> [r EXCEPT !.pc = "leave"]

FaultySectorsToScan(r) ==
  IF r.op = "ls" THEN 1 ELSE IF r.c # 0 THEN SectorsPerCluster ELSE RootSectors

(* dir_listing sets done before it reads the root directory, and so leaves  *)
(* after the first sector of it.                                            *)
SectorsToScan(r) ==
  IF r.c # 0 THEN SectorsPerCluster ELSE IF r.op = "ls" THEN 1 ELSE RootSectors

NextSector(r) ==
  IF r.s + 1 < SectorsToScan(r) THEN Scan(r, r.task, r.c, r.s + 1)
  ELSE IF r.c = 0 THEN EndOfDirectory(r)
  ELSE FatNextCluster(r)

-----------------------------------------------------------------------------
(* The calls.                                                               *)

GoOn(t, r) ==
  /\ call' = [call EXCEPT ![t] = r]
  /\ UNCHANGED <<program, cwd, sector_buffer, position>>

Start(t, r) == call[t].pc = "idle" /\ GoOn(t, r)

ChangeDir(t) ==
  /\ program = "cli"
  /\ \E p \in CdPaths :
       LET base == IF p.absolute THEN 0 ELSE cwd
       IN  Start(t, Enter([NoCall EXCEPT !.op = "cd", !.path = p.names, !.todo = p.names,
                                         !.base = base], base))

DirListing(t) ==
  /\ program = "cli"
  /\ Start(t, Scan([NoCall EXCEPT !.op = "ls", !.base = cwd], "list", cwd, 0))

PrintTree(t) ==
  /\ program = "cli"
  /\ Start(t, Scan([NoCall EXCEPT !.op = "tree"], "tree", 0, 0))

ReadFile(t) ==
  /\ program = "cli"
  /\ \E f \in FileNames :
       Start(t, Find([NoCall EXCEPT !.op = "cat", !.path = <<f>>, !.base = cwd], cwd, f, "file", FALSE))

(* The root itself is recognised before any look-up.                        *)
FuseCall(t) ==
  /\ program = "fuse"
  /\ \E op \in FuseOps, p \in FusePaths, offset \in Offsets, size \in Sizes :
       LET r == [NoCall EXCEPT !.op = op, !.path = p, !.todo = p, !.offset = offset, !.size = size]
           root == [NoEntry EXCEPT !.kind = "dir"]
       IN  /\ op # "read" => offset = 0 /\ size = 0
           /\ Start(t, IF p = <<>> THEN Resolved(r, root) ELSE Enter(r, 0))

Return(t) == call[t].pc = "done" /\ GoOn(t, NoCall)

-----------------------------------------------------------------------------
(* The steps of a call.                                                     *)

At(t, pc, task) == call[t].pc = pc /\ call[t].task = task

(* parse_path_component keeps as much as fits its buffer of 13.             *)
Component(prog, f) ==
  LET kept == SubSeq(f, 1, Min({Len(f), NameLen + ExtLen + 1}))
  IN  IF prog = "fuse" /\ kept # DotDot THEN [i \in DOMAIN kept |-> Upper(kept[i])] ELSE kept

FaultyRest(r) == IF Head(r.todo) = <<".">> THEN r ELSE [r EXCEPT !.todo = Tail(@)]

Rest(r) == [r EXCEPT !.todo = Tail(@)]

(* The next component of the path.                                          *)
WalkPath(t) ==
  LET r == call[t]
      rest == Rest(r)
      name == Component(program, Head(r.todo))
  IN  /\ r.pc = "path"
      /\ r.todo # <<>>
      /\ GoOn(t, IF name = <<".">> THEN Enter(rest, r.dir)
                 ELSE IF name # DotDot THEN Find(rest, r.dir, name, "dir", FALSE)
                 ELSE IF r.dir = 0 THEN Enter(rest, 0)
                 ELSE Find(rest, r.dir, DotDot, "dir", TRUE))

(* changeDir moves only when it has walked the whole path; a FUSE path that *)
(* ends in "." or ".." names nothing.                                       *)
EndOfPath(t) ==
  LET r == call[t]
  IN  /\ r.pc = "path"
      /\ r.todo = <<>>
      /\ call' = [call EXCEPT ![t] = Done(r, IF r.op = "cd" THEN "ok" ELSE "ENOENT")]
      /\ cwd' = IF r.op = "cd" THEN r.dir ELSE cwd
      /\ UNCHANGED <<program, sector_buffer, position>>

Lba(r) == IF r.next = "chain" THEN FatSector(r.c) ELSE SectorLba(r.c, r.s)

(* ata_read_sector: fseek, then fread.  Only fat_read has a buffer of its   *)
(* own.                                                                     *)
Seek(t) ==
  /\ call[t].pc = "seek"
  /\ position' = Lba(call[t])
  /\ call' = [call EXCEPT ![t].pc = "read"]
  /\ UNCHANGED <<program, cwd, sector_buffer>>

Read(t) ==
  LET r == call[t]
      local == r.op = "read" /\ r.next = "data"
  IN  /\ r.pc = "read"
      /\ call' = [call EXCEPT ![t] = [r EXCEPT !.pc = r.next,
                                               !.local = IF local THEN position ELSE @]]
      /\ sector_buffer' = IF local THEN sector_buffer ELSE position
      /\ position' = position + 1
      /\ UNCHANGED <<program, cwd>>

FindInSector(t) ==
  LET r == call[t]
      es == LiveEntries(sector_buffer)
      hits == {i \in DOMAIN es : es[i].kind = r.kind /\ NameMatch(es[i].name83, r.name)}
  IN  /\ At(t, "scan", "find")
      /\ GoOn(t, IF hits # {} THEN Found(r, es[Min(hits)])
                 ELSE IF Ended(sector_buffer) THEN NotFound(r)
                 ELSE NextSector(r))

(* dir_listing prints every entry, fat_fill_dir leaves out "." and "..".    *)
Shown(op, es) == IF op = "ls" THEN es ELSE Undotted(es)

ListSector(t) ==
  LET r == [call[t] EXCEPT !.out = @ \o Shown(call[t].op, LiveEntries(sector_buffer))]
  IN  /\ At(t, "scan", "list")
      /\ GoOn(t, IF Ended(sector_buffer) THEN EndOfDirectory(r) ELSE NextSector(r))

(* print_tree_dir takes one entry; a sub-directory is a recursive call,     *)
(* which keeps a copy of sector_buffer to come back to.                     *)
VisitEntry(t) ==
  LET r == call[t]
      es == Entries(sector_buffer)
      e == es[r.j]
      past == [r EXCEPT !.j = @ + 1]
      printed == [past EXCEPT !.out = Append(@, [entry |-> e, depth |-> Len(r.stack) + 1])]
      frame == [c |-> r.c, s |-> r.s, j |-> r.j + 1, saved_sector |-> sector_buffer]
  IN  /\ At(t, "scan", "tree")
      /\ GoOn(t, IF r.j > Len(es) THEN NextSector(r)
                 ELSE IF e.kind = "end" THEN EndOfDirectory(r)
                 ELSE IF ~Live(e) \/ IsDot(e) THEN past
                 ELSE IF SubDirectory(e)
                   THEN Scan([printed EXCEPT !.stack = Append(@, frame)], "tree", e.start, 0)
                 ELSE printed)

FaultyBackIn(r, frame) == UNCHANGED sector_buffer

BackIn(r, frame) == sector_buffer' = frame.saved_sector

LeaveDirectory(t) ==
  LET r == call[t]
      frame == Last(r.stack)
  IN  /\ r.pc = "leave"
      /\ IF r.stack = <<>>
           THEN GoOn(t, Done(r, "ok"))
           ELSE /\ BackIn(r, frame)
                /\ call' = [call EXCEPT ![t] =
                     [r EXCEPT !.pc = "scan", !.c = frame.c, !.s = frame.s, !.j = frame.j,
                               !.stack = Front(@)]]
                /\ UNCHANGED <<program, cwd, position>>

(* dir_listing and read_file look only for the end mark.                    *)
InChain(r, c) == c < EndMark /\ (r.op \in {"ls", "cat"} \/ c >= 2)

(* fat_next_cluster has brought the FAT sector into the buffer.             *)
FollowChain(t) ==
  LET r == call[t]
      c == FatValue(sector_buffer, r.c)
      moved == [r EXCEPT !.c = c]
  IN  /\ r.pc = "chain"
      /\ GoOn(t, IF r.task # "copy"
                   THEN IF InChain(r, c) THEN Scan(r, r.task, c, 0) ELSE EndOfDirectory(r)
                 ELSE IF ~InChain(r, c) THEN Done(r, "ok")
                 ELSE IF r.skip > 1 THEN FatNextCluster([moved EXCEPT !.skip = @ - 1])
                 ELSE IF r.skip = 1 THEN NextPiece([moved EXCEPT !.skip = 0])
                 ELSE IF r.op = "read" /\ r.left = 0 THEN Done(r, "ok")
                 ELSE NextPiece([moved EXCEPT !.at = 0]))

(* One sector of a file is copied to the caller, or printed.                *)
CopySector(t) ==
  LET r == call[t]
      source == IF r.op = "read" THEN r.local ELSE sector_buffer
      from == r.at % SectorSize
      chunk == Min({SectorSize - from, r.left})
      copied == [r EXCEPT !.out = @ \o [i \in 1 .. chunk |-> <<source, from + i - 1>>],
                          !.left = @ - chunk,
                          !.at = (@ \div SectorSize + 1) * SectorSize]
  IN  /\ r.pc = "data"
      /\ GoOn(t, IF r.op = "cat" /\ copied.left = 0 THEN Done(copied, "ok") ELSE NextPiece(copied))

Step(t) ==
  \/ WalkPath(t) \/ EndOfPath(t)
  \/ Seek(t) \/ Read(t)
  \/ FindInSector(t) \/ ListSector(t)
  \/ VisitEntry(t) \/ LeaveDirectory(t)
  \/ FollowChain(t) \/ CopySector(t)
  \/ Return(t)

Next ==
  \E t \in Threads :
    ChangeDir(t) \/ DirListing(t) \/ PrintTree(t) \/ ReadFile(t) \/ FuseCall(t) \/ Step(t)

(* A call that was begun is carried on; nobody has to make one.             *)
Spec == Init /\ [][Next]_vars /\ \A t \in Threads : WF_vars(Step(t))

-----------------------------------------------------------------------------
Pcs == {"idle", "path", "seek", "read", "scan", "chain", "data", "leave", "done"}

(* Every sector that is read lies on the volume, and in the part of it the  *)
(* reader means: the FAT, a directory, or the data area.                    *)
TypeOK ==
  /\ cwd \in DirStarts
  /\ sector_buffer \in 0 .. LastLba
  /\ position \in 1 .. LastLba + 1
  /\ \A t \in Threads :
       LET r == call[t]
       IN  /\ r.pc \in Pcs
           /\ r.left \in Nat
           /\ r.result \in {"none", "ok", "ENOENT", "ENOTDIR", "EISDIR", "EACCES"}
           /\ r.pc = "seek" =>
                Lba(r) \in (CASE r.next = "chain" -> FatStart .. RootStart - 1
                              [] r.next = "scan" -> DOMAIN Dir
                              [] r.next = "data" -> (DataStart .. LastLba) \ DOMAIN Dir)

\* What the paths should lead to, from each directory.
Destination == [d \in DirStarts |-> [p \in {q.names : q \in CdPaths} \cup FusePaths |-> Follow(d, p)]]
FilesNamed == [d \in DirStarts |-> [f \in FileNames |-> Named(d, f, "file")]]
Meant == [p \in FusePaths |-> Resolution(p)]

Ends(t, ops) == call[t].pc = "done" /\ call[t].op \in ops

(* cd ends in the directory its path leads to and fails if there is none; a *)
(* FUSE path names the entry stored under it.  A name means what            *)
(* format_83_name makes of it when a file is written, and ".." what the     *)
(* entry ".." says (fat_dir.c:4, fat_fuse.c:24, fat_search.c:119).          *)
PathsFollowed ==
  \A t \in Threads :
    LET r == call[t]
        dir == Destination[r.base][r.path]
    IN  /\ Ends(t, {"cd"}) =>
             IF dir = NoDirectory THEN r.result = "ENOENT" ELSE r.result = "ok" /\ cwd = dir
        /\ Ends(t, {"getattr"}) /\ r.path # <<>> =>
             IF Meant[r.path] = {} THEN r.result = "ENOENT"
             ELSE r.result = "ok" /\ {r.entry} = Meant[r.path]

(* read returns exactly the bytes asked for that the file has, wherever the *)
(* range starts and ends in a sector, a cluster or the chain, and read_file *)
(* prints the whole file (fat_fuse.c:297, fat_file.c:4).                    *)
ReadReturnsRange ==
  \A t \in Threads :
    LET r == call[t]
        meant == IF r.op = "cat" THEN FilesNamed[r.base][r.path[1]] ELSE Meant[r.path]
        e == CHOOSE e \in meant : TRUE
    IN  Ends(t, {"read", "cat"}) =>
          r.out = IF meant = {} \/ e.kind = "dir" THEN <<>>
                  ELSE FileRange(e, r.offset, IF r.op = "cat" THEN e.size ELSE r.size)

(* ls in a sub-directory, and readdir anywhere, name every entry once, in   *)
(* the order of the directory, across its sectors and clusters and no       *)
(* further than its end mark (fat_dir.c:44, fat_fuse.c:114).                *)
ListsWhole ==
  \A t \in Threads :
    LET r == call[t]
        dir == Destination[0][r.path]
    IN  /\ Ends(t, {"ls"}) /\ r.base # 0 => r.out = Directory[r.base]
        /\ Ends(t, {"readdir"}) /\ r.result = "ok" => r.out = Undotted(Directory[dir])

(* tree prints every directory and file of the volume once, under its       *)
(* directory and after what precedes it there, although every level of the  *)
(* recursion scans the same sector_buffer (fat_tree.c:43).                  *)
TreeListsAll ==
  \A t \in Threads : Ends(t, {"tree"}) => call[t].out = TreeLines

(* A look-up is exact where name_match takes a name for no entry but the    *)
(* one it denotes; fat_lookup shows what happens where it is not.  These    *)
(* say so of every look-up some paths or names lead to.  ".." is never      *)
(* found, which is right only in the root and below it.                     *)
Finds(d, name, kind) == {e \in EntriesOf(d) : e.kind = kind /\ NameMatch(e.name83, name)}

ExactFile(d, f, name) ==
  /\ Finds(d, name, "file") = Named(d, f, "file")
  /\ \A e1, e2 \in Named(d, f, "file") : e1 = e2

ExactDir(prog, d, f) ==
  /\ Component(prog, f) \notin {<<".">>, DotDot}
  /\ Finds(d, Component(prog, f), "dir") = Named(d, f, "dir")
  /\ \A e1, e2 \in Named(d, f, "dir") : e1 = e2

ExactParent(d) ==
  /\ Finds(d, DotDot, "dir") = {}
  /\ Named(d, DotDot, "dir") # {}
  /\ \A e \in Named(d, DotDot, "dir") : e.start = 0

ExactFiles(names) == \A d \in DirStarts, f \in names : ExactFile(d, f, f)

ExactCd(paths) ==
  \A p \in paths : \A base \in IF p.absolute THEN {0} ELSE DirStarts, i \in 1 .. Len(p.names) :
    LET d == Follow(base, SubSeq(p.names, 1, i - 1))
        f == p.names[i]
    IN  d = NoDirectory \/ (IF f = DotDot THEN d = 0 \/ ExactParent(d)
                            ELSE f = <<".">> \/ ExactDir("cli", d, f))

ExactFuse(paths) ==
  \A p \in paths : \A i \in 1 .. Len(p) :
    LET d == Follow(0, SubSeq(p, 1, i - 1))
    IN  d = NoDirectory \/
          /\ ExactDir("fuse", d, p[i])
          /\ i < Len(p) \/ Named(d, p[i], "dir") # {} \/ ExactFile(d, p[i], Component("fuse", p[i]))
          /\ Named(d, p[i], "dir") = {} \/ Named(d, p[i], "file") = {}

(* Every call ends: the scans, the chains and the recursion are finite.     *)
CallsEnd == \A t \in Threads : call[t].pc # "idle" ~> call[t].pc = "idle"
=============================================================================
