------------------------------- MODULE MCGthr -------------------------------
(***************************************************************************)
(* Instances of Gthr for TLC.  Four slots are the fewest in which a thread *)
(* can be passed over by two others while the main thread exists; the      *)
(* arguments of gt_create go one past each end of the priority range.      *)
(***************************************************************************)
EXTENDS Gthr

MCPriorities == {-1, 3}
MCPolicies == {"RR", "PRI", "LS"}
MCRuntimePolicies == {"RR", "PRI", "LS", "other"}
MCFairPolicies == {"RR", "PRI"}
MCNoPolicies == {}
=============================================================================
