--------------------------- MODULE MCGthrPreempt ---------------------------
(***************************************************************************)
(* Instances of GthrPreempt for TLC.  Three slots: the thread interrupted, *)
(* the one it was switching to, and the one the tick switches to.          *)
(***************************************************************************)
EXTENDS GthrPreempt

MCDuringSwitch == SafePoints \cup {"switch"}
=============================================================================
