------------------------------ MODULE Cascade -------------------------------
(***************************************************************************)
(* The set of nodes one expire_node call expires: the overdue target and,   *)
(* among the node accounts the caller lists, every pending node that        *)
(* depends, directly or through other expired nodes, on the target.         *)
(*                                                                          *)
(* mask[j] is node j's dependency_mask as a set of node indexes; eligible   *)
(* is the set of nodes that are listed and Pending.                         *)
(***************************************************************************)

\* S takes in every eligible node that depends on one of its members.
CascadeClosed(mask, eligible, S) ==
  \A j \in eligible : mask[j] \cap S # {} => j \in S

\* The least such set that holds the target, which expire_node's fixpoint
\* loop computes (CascadeLoop has the loop).
CascadeSet(target, mask, eligible) ==
  LET nodes == eligible \cup {target} IN
  {j \in nodes : \A S \in SUBSET nodes :
                    (target \in S /\ CascadeClosed(mask, eligible, S)) => j \in S}
=============================================================================
