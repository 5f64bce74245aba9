--------------------------- MODULE MCFacilitator ----------------------------
(***************************************************************************)
(* Small instances of Facilitator for TLC.                                  *)
(***************************************************************************)
EXTENDS Facilitator, TLC

CONSTANTS p1, c1, k1, usdc

MCConsumerOf == [p \in Pipelines |-> c1]
MCMintOf == [p \in Pipelines |-> usdc]

Job(allocation, deadline) ==
  [allocation_usdc |-> allocation, deadline_slots_from_now |-> deadline,
   dependency_mask |-> {}, required_tier |-> 0]

OneJob == {<<Job(2, 1)>>}
Jobs == OneJob \cup {<<Job(2, 1), Job(1, 1)>>}

RequestSymmetry == Permutations(Requests)

Idle(r) == request[r].at = "idle" /\ request[r].tx # "sent"

\* At most one of five at a time: both requests in progress; a pipeline of two nodes;
\* the program paused; the operator handing over or the facilitator key rotated; a
\* hash misread.
OneAtATime == \E r \in Requests : Idle(r)
OneNode == \A p \in Pipelines : pipeline[p].total_nodes <= 1
SameKeys ==
  /\ pipeline_config.operator = k1 /\ pipeline_config.facilitator_authority = k1
  /\ pipeline_config.pending_operator = Nobody
  /\ env = [facilitator |-> k1, operator |-> k1]
Calm == SameKeys /\ ~pipeline_config.paused
HashRead == \A r \in Requests : request[r].delivery # Misread

\* With one request at a time the pipeline is created, and claimed, in the first slot.
Early ==
  \A p \in Pipelines : \A i \in Indexes :
    /\ node[p][i].deadline_slot <= 2
    /\ node[p][i].job_id # NoJob => node[p][i].job_id[4] = 1

\* What an agent signs is for a node it works on, with the job of that node.
SignedAtWork ==
  \A s \in signed' \ signed :
    LET n == node[s.p][s.i] IN
    n.status = "Claimed" /\ s.agent = n.agent /\ s.job = n.job_id

OneComplication ==
  \/ OneNode /\ Calm /\ HashRead
  \/ OneAtATime /\ Early /\
       \/ OneNode /\ HashRead /\ (SameKeys \/ ~pipeline_config.paused)
       \/ OneNode /\ Calm
       \/ Calm /\ HashRead
=============================================================================
