----------------------------- MODULE MCIndexer ------------------------------
(***************************************************************************)
(* Small instances of Indexer and Dashboard for TLC.                        *)
(***************************************************************************)
EXTENDS Dashboard

CONSTANTS p1, c1, q1, usdc

MCConsumerOf == [p \in Pipelines |-> c1]
MCMintOf == [p \in Pipelines |-> usdc]

Job(allocation, needs) ==
  [allocation_usdc |-> allocation, deadline_slots_from_now |-> 1,
   dependency_mask |-> needs, required_tier |-> 0]

OneJob == {<<Job(1, {})>>}
\* One node, two and a third that waits for the first, or two of which one waits.
Jobs ==
  OneJob \cup {<<Job(1, {}), Job(1, {0})>>, <<Job(1, {}), Job(1, {}), Job(1, {0})>>}

\* The operator changed nothing; nobody posted a spec and the file is whole.
Calm == ~pipeline_config.paused /\ pipeline_config.dispute_slots = DISPUTE_SLOTS
NothingPosted == file.parses /\ \A p \in Pipelines : data.specs[p] = NoSpec

\* A second poll, or specs, only with pipelines of one node, and an operator who tunes
\* only beside one poll; three nodes only while the first slot lasts.
OneComplication ==
  \A p \in Pipelines :
    LET total == pipeline[p].total_nodes
        alone == \A q \in Polls \ {q1} : poll[q].at = "idle"
    IN
    \/ total <= 1 /\ (alone \/ Calm)
    \/ total = 2 /\ alone /\ NothingPosted
    \/ total = 3 /\ alone /\ NothingPosted /\ Calm /\ slot = 1

\* The bound is part of what fairness asks of a poll, so that no behaviour is left out.
BoundedFairIndexer ==
  /\ IndexerInit
  /\ [][IndexerNext /\ OneComplication']_ivars
  /\ \A q \in Polls : WF_ivars(PollStep(q) /\ OneComplication')
  /\ <>[][Undisturbed]_ivars
=============================================================================
