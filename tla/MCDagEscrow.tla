---------------------------- MODULE MCDagEscrow -----------------------------
(***************************************************************************)
(* Small instances of DagEscrow for TLC.                                    *)
(***************************************************************************)
EXTENDS DagEscrow

CONSTANTS p1, p2, c1, usdc

MCConsumerOf == [p \in Pipelines |-> c1]
MCMintOf == [p \in Pipelines |-> usdc]

Job(allocation, deadline, needs, tier) ==
  [allocation_usdc |-> allocation, deadline_slots_from_now |-> deadline,
   dependency_mask |-> needs, required_tier |-> tier]

\* Argument lists create_pipeline must reject.
Rejected ==
  { <<>>,
    <<Job(0, 1, {}, 0)>>,                                  \* nothing to lock
    <<Job(1, 1, {0}, 0)>>,                                 \* depends on itself
    <<Job(1, 1, {1}, 0), Job(1, 1, {}, 0)>>,               \* depends on a later node
    <<Job(7, 1, {}, 0), Job(7, 1, {}, 0)>>,                \* total overflows
    [k \in 1..(MAX_NODES + 1) |-> Job(1, 1, {}, 0)] }      \* too many nodes

\* Three-node DAGs: a chain, a fork, a join, with fees that round down, an
\* allocation of 0, and deadlines in any order, one of them saturating.
Chain == <<Job(4, 2, {}, 0), Job(3, 1, {0}, 0), Job(2, 2, {1}, 0)>>
Fork  == <<Job(4, 1, {}, 1), Job(3, 2, {0}, 0), Job(0, U64_MAX, {0}, 0)>>
Join  == <<Job(2, 1, {}, 0), Job(4, 2, {}, 0), Job(5, 1, {0, 1}, 0)>>

OneDag == {Chain, Fork, Join} \cup Rejected

\* For two pipelines at once, and for the liveness run.
Single == {<<Job(5, 1, {}, 1)>>}
TwoJobs == {<<Job(4, 2, {}, 0), Job(1, 1, {0}, 0)>>, <<Job(2, 1, {}, 0), Job(4, 2, {}, 1)>>}
=============================================================================
