---------------------------- MODULE MCFatReader ----------------------------
(***************************************************************************)
(* A small volume for TLC: names of at most two characters and one more,   *)
(* sectors of two bytes, three entries or four FAT entries, two sectors to *)
(* a cluster.                                                              *)
(*   /         label, B/, A (7 bytes, clusters 4 and 9), then a deleted    *)
(*             entry, BC.A (no bytes, cluster 8), CB/: full, no end mark   *)
(*   /B        clusters 2 and 3: C (3 bytes, cluster 6), A/, a deleted     *)
(*             entry, BB (no cluster), BA (10 bytes, 10 to 12), end mark   *)
(*   /B/A      cluster 7: C (1 byte, cluster 13), end mark                 *)
(*   /CB       cluster 5: an end mark at the start of the second sector    *)
(***************************************************************************)
EXTENDS FatReader

MCFat == (2 :> 3) @@ (3 :> 65535) @@ (4 :> 9) @@ (5 :> 65535) @@ (6 :> 65535) @@ (7 :> 65535) @@
         (8 :> 65535) @@ (9 :> 65535) @@ (10 :> 11) @@ (11 :> 12) @@ (12 :> 65535) @@ (13 :> 65535)

Entry(kind, c1, c2, x, start, size) ==
  [kind |-> kind, name83 |-> [name |-> <<c1, c2>>, ext |-> <<x>>], start |-> start, size |-> size]
DirEntry(c1, c2, start) == Entry("dir", c1, c2, " ", start, 0)
Deleted(c1) == Entry("deleted", c1, " ", " ", 6, 0)
EndEntry == Entry("end", " ", " ", " ", 0, 0)
Empty == <<EndEntry, EndEntry, EndEntry>>

\* The root is sectors 5 and 6; cluster c is sectors 2c + 3 and 2c + 4.
MCDir ==
  (5 :> <<Entry("label", "A", " ", " ", 0, 0), DirEntry("B", " ", 2), Entry("file", "A", " ", " ", 4, 7)>>)
  @@ (6 :> <<Deleted("B"), Entry("file", "B", "C", "A", 8, 0), DirEntry("C", "B", 5)>>)
  @@ (7 :> <<DirEntry(".", " ", 2), DirEntry(".", ".", 0), Entry("file", "C", " ", " ", 6, 3)>>)
  @@ (8 :> <<DirEntry("A", " ", 7), Deleted("C"), Entry("file", "B", "B", " ", 0, 0)>>)
  @@ (9 :> <<Entry("file", "B", "A", " ", 10, 10), EndEntry, EndEntry>>)
  @@ (13 :> <<DirEntry(".", " ", 5), DirEntry(".", ".", 0), Deleted("A")>>)
  @@ (17 :> <<DirEntry(".", " ", 7), DirEntry(".", ".", 2), Entry("file", "C", " ", " ", 13, 1)>>)
  @@ [lba \in {10, 14, 18} |-> Empty]

A == <<"A">>
B == <<"B">>
CB == <<"C", "B">>
BA == <<"B", "A">>
Parent == DotDot
Path(names) == [absolute |-> TRUE, names |-> names]
From(names) == [absolute |-> FALSE, names |-> names]

\* ".." only where the parent is the root.
MCCdPaths ==
  {Path(<<>>), Path(<<B, A>>), From(<<A>>), From(<<B>>), Path(<<CB, Parent, B>>),
   From(<<<<".">>, CB>>), Path(<<Parent, B, Parent>>), Path(<<A>>), Path(<<B, <<"A", "C">>, A>>)}
MCFileNames == {A, <<"C">>, BA, <<"B", "B">>, <<"B", "C", ".", "A">>, <<"A", ".", "B">>}
MCFusePaths ==
  {<<>>, <<A>>, <<B>>, <<CB>>, <<B, A>>, <<B, BA>>, <<B, A, <<"C">>>>, <<<<"a">>>>,
   <<<<"B", "C", ".", "A">>>>, <<A, A>>, <<B, A, A>>, <<B, <<"B", "B">>>>,
   <<B, <<"B", "B">>, B>>}

ASSUME NamesAreExact == ExactCd(MCCdPaths) /\ ExactFuse(MCFusePaths) /\ ExactFiles(MCFileNames)

MCTwoPaths == {<<A>>, <<B, BA>>}

\* Names that are prefixes or in lower case, and ".." below a sub-directory.
MCAnyCdPaths ==
  MCCdPaths \cup {From(<<Parent>>), Path(<<<<"C">>>>), Path(<<B, <<"a">>>>)}
=============================================================================
