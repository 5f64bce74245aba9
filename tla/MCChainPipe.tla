---------------------------- MODULE MCChainPipe -----------------------------
(***************************************************************************)
(* Small instances of ChainPipe for TLC.                                    *)
(***************************************************************************)
EXTENDS ChainPipe

CONSTANTS p1, p2, c1, usdc, other_mint

MCConsumerOf == [p \in Pipelines |-> c1]
MCMintOf == [p \in Pipelines |-> usdc]

Job(allocation, deadline, needs, tier) ==
  [allocation_usdc |-> allocation, deadline_slots_from_now |-> deadline,
   dependency_mask |-> needs, required_tier |-> tier]

\* Two nodes that can be worked on at once; the second asks for tier 1.
Parallel == {<<Job(4, 1, {}, 0), Job(3, 2, {}, 1)>>}
\* One node; one behind the other.
Single == {<<Job(4, 1, {}, 0)>>}
Line == {<<Job(4, 1, {}, 0), Job(3, 2, {0}, 0)>>}
=============================================================================
