----------------------------- MODULE MCFatVolume -----------------------------
(***************************************************************************)
(* Instances of FatVolume for TLC.  With two-byte sectors and two sectors  *)
(* to a cluster the lengths are: nothing, exactly one cluster, and one     *)
(* byte more; three data clusters make two of the longest files more than  *)
(* the volume holds.  In the last set one name is a prefix of the other.   *)
(***************************************************************************)
EXTENDS FatVolume

MCLengths == {0, 4, 5}
MCTwoNames == {<<"A">>, <<"B">>}
MCPrefixNames == {<<"A">>, <<"A", "B">>}
=============================================================================
