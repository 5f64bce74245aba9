------------------------- MODULE FacilitatorProofs --------------------------
(***************************************************************************)
(* Theorems of Facilitator, for every number of requests in flight, every   *)
(* delivery, and whatever lists cancel_pipeline is given: what the server   *)
(* remembers and answers is true, and only work that its agent signed for   *)
(* is reviewed or paid.                                                     *)
(***************************************************************************)
EXTENDS Facilitator, DagEscrowProofs

(***************************************************************************)
(* Steps of the chain                                                       *)
(***************************************************************************)
\* Everybody but the service.
ChainStep ==
  \/ Tick
  \/ OperatorStep
  \/ \E p \in Pipelines :
       \/ ConsumerStep(p)
       \/ \E i \in Indexes :
            \/ \E agent \in Agents, tier \in Tiers : ClaimNode(p, i, agent, tier)
            \/ \E mint \in Mints :
                 \/ FinalizeNode(p, i, mint)
                 \/ \E listed \in SUBSET Indexes : ExpireNode(p, i, listed, mint)

LEMMA OthersAreChainSteps ==
  ASSUME OthersStep
  PROVE  ChainStep /\ UNCHANGED service
<1>1. \A p \in Pipelines, i \in Indexes :
        {j \in Indexes \ {i} : NodeExists(p, j)} \in SUBSET Indexes
  OBVIOUS
<1> QED
  BY <1>1 DEF OthersStep, ChainStep

LEMMA ChainStepForward ==
  ASSUME ChainInv, ChainStep
  PROVE  NodesForward /\ NothingNew /\ Next
<1>1. CASE Tick \/ OperatorStep
  BY <1>1, QuietForward DEF Next
<1>2. ASSUME NEW p \in Pipelines, ConsumerStep(p)
      PROVE  NodesForward /\ NothingNew /\ Next
  BY <1>2, ConsumerForward DEF Next
<1>3. ASSUME NEW p \in Pipelines, NEW i \in Indexes, NEW agent \in Agents, NEW tier \in Tiers,
             ClaimNode(p, i, agent, tier)
      PROVE  NodesForward /\ NothingNew /\ Next
  BY <1>3, ClaimForward DEF Next
<1>4. ASSUME NEW p \in Pipelines, NEW i \in Indexes, NEW mint \in Mints,
             FinalizeNode(p, i, mint)
      PROVE  NodesForward /\ NothingNew /\ Next
  BY <1>4, ReviewedForward DEF Next
<1>5. ASSUME NEW p \in Pipelines, NEW i \in Indexes, NEW listed \in SUBSET Indexes,
             NEW mint \in Mints, ExpireNode(p, i, listed, mint)
      PROVE  NodesForward /\ NothingNew /\ Next
  BY <1>5, ExpireForward DEF Next
<1> QED
  BY <1>1, <1>2, <1>3, <1>4, <1>5 DEF ChainStep

\* What a landed transaction of the service does, endpoint by endpoint.
Asked(q) == q.p \in Pipelines /\ q.i \in Indexes

FiveEndpoints == {"complete", "submit", "expire", "finalize", "resolve"}

Landed(q) ==
  /\ q.endpoint \in FiveEndpoints
  /\ CASE q.endpoint = "complete" ->
            /\ OthersNothingNew(q.p, q.i)
            /\ node'[q.p][q.i].status = "Settled"
            /\ node'[q.p][q.i].job_id = node[q.p][q.i].job_id
       [] q.endpoint = "submit" ->
            /\ OthersNothingNew(q.p, q.i)
            /\ node[q.p][q.i].status = "Claimed" /\ node'[q.p][q.i].status = "Submitted"
            /\ node'[q.p][q.i].job_id = node[q.p][q.i].job_id
       [] q.endpoint = "expire" -> NothingNew /\ node'[q.p][q.i].status = "Expired"
       [] q.endpoint = "finalize" -> NothingNew /\ node'[q.p][q.i].status = "Settled"
       [] q.endpoint = "resolve" ->
            /\ NothingNew
            /\ node'[q.p][q.i].status = IF q.upheld THEN "Expired" ELSE "Settled"

LEMMA ExecuteForward ==
  ASSUME ChainInv, env.facilitator \in Keys, NEW q, Asked(q), Execute(q)
  PROVE  Next /\ NodesForward /\ Landed(q)
<1> DEFINE p == q.p
           i == q.i
<1>0. p \in Pipelines /\ i \in Indexes /\ UsdcMint \in Mints
  BY ServiceAssumption DEF Asked
<1> HIDE DEF p, i
<1>1. CASE q.endpoint = "complete" /\ SettleNow(q)
  <2>1. CompleteNode(p, i, env.facilitator, UsdcMint)
    BY <1>1 DEF SettleNow, p, i
  <2>2. node[p][i].status \in ActiveStatus /\ Settle(p, i, UsdcMint)
    BY <2>1 DEF CompleteNode, ActiveStatus
  <2>3. /\ NodesForward /\ OthersNothingNew(p, i)
        /\ node'[p][i].status = "Settled" /\ node'[p][i].job_id = node[p][i].job_id
    BY <1>0, <2>2, SettleForward
  <2>4. Next
    BY <1>0, <2>1 DEF Next, FacilitatorStep
  <2> QED
    BY <1>1, <2>3, <2>4 DEF Landed, FiveEndpoints, p, i
<1>2. CASE q.endpoint = "submit" /\ SubmitNode(q)
  <2>1. PICK delta \in ScoreDeltas : SubmitCompletion(p, i, env.facilitator, delta)
    BY <1>2 DEF SubmitNode, p, i
  <2>2. node[p][i].status = "Claimed"
    BY <2>1 DEF SubmitCompletion
  <2>3. /\ NodesForward /\ OthersNothingNew(p, i)
        /\ node'[p][i].status = "Submitted" /\ node'[p][i].job_id = node[p][i].job_id
    BY <1>0, <2>1, SubmitForward
  <2>4. Next
    BY <1>0, <2>1 DEF Next, FacilitatorStep
  <2> QED
    BY <1>2, <2>2, <2>3, <2>4 DEF Landed, FiveEndpoints, p, i
<1>3. CASE q.endpoint = "expire" /\ ExpireOverdue(q)
  <2>1. PICK listed \in SUBSET Indexes : ExpireNode(p, i, listed, UsdcMint)
    BY <1>3 DEF ExpireOverdue, p, i
  <2>2. NodesForward /\ NothingNew /\ node'[p][i].status = "Expired"
    BY <1>0, <2>1, ExpireForward
  <2>3. Next
    BY <1>0, <2>1 DEF Next
  <2> QED
    BY <1>3, <2>2, <2>3 DEF Landed, FiveEndpoints, p, i
<1>4. CASE q.endpoint = "finalize" /\ FinalizeOverdue(q)
  <2>1. FinalizeNode(p, i, UsdcMint)
    BY <1>4 DEF FinalizeOverdue, p, i
  <2>2. NodesForward /\ NothingNew /\ node'[p][i].status = "Settled"
    BY <1>0, <2>1, ReviewedForward
  <2>3. Next
    BY <1>0, <2>1 DEF Next
  <2> QED
    BY <1>4, <2>2, <2>3 DEF Landed, FiveEndpoints, p, i
<1>5. CASE q.endpoint = "resolve" /\ ResolveNode(q)
  <2>1. CASE q.upheld
    <3>1. UpholdDispute(p, i, env.facilitator, UsdcMint)
      BY <1>5, <2>1 DEF ResolveNode, p, i
    <3>2. NodesForward /\ NothingNew /\ node'[p][i].status = "Expired"
      BY <1>0, <3>1, UpholdForward
    <3>3. Next
      BY <1>0, <3>1 DEF Next, FacilitatorStep
    <3> QED
      BY <1>5, <2>1, <3>2, <3>3 DEF Landed, FiveEndpoints, p, i
  <2>2. CASE ~q.upheld
    <3>1. RejectDispute(p, i, env.facilitator, UsdcMint)
      BY <1>5, <2>2 DEF ResolveNode, p, i
    <3>2. NodesForward /\ NothingNew /\ node'[p][i].status = "Settled"
      BY <1>0, <3>1, ReviewedForward
    <3>3. Next
      BY <1>0, <3>1 DEF Next, FacilitatorStep
    <3> QED
      BY <1>5, <2>2, <3>2, <3>3 DEF Landed, FiveEndpoints, p, i
  <2> QED
    BY <2>1, <2>2
<1> QED
  BY <1>1, <1>2, <1>3, <1>4, <1>5 DEF Execute

(***************************************************************************)
(* The invariant.  A delivery that was verified once is the right one       *)
(* whenever its transaction lands, since a node that has an agent keeps its *)
(* job; what happened to a node on chain stays so.  A pipeline in which a   *)
(* signature was misaddressed is left out of all of it.                     *)
(***************************************************************************)
SomeDelivery == Deliveries \cup {NoRequest.delivery, Misread}

Signatures ==
  [agent: Agents, p: Pipelines, i: Indexes, job: JobIds, delivery: Deliveries]

SignedInv ==
  /\ signed \subseteq Signatures
  /\ delivered \in [Pipelines -> [Indexes -> SomeDelivery]]

SignedFor(p, i, delivery) ==
  \E s \in signed :
    /\ s.p = p /\ s.i = i /\ s.delivery = delivery
    /\ s.agent = node[p][i].agent /\ s.job = node[p][i].job_id

WorkSound(p, i) ==
  /\ node[p][i].status \in UnderReview => SignedFor(p, i, delivered[p][i])
  /\ node[p][i].status = "Settled" => \E delivery : SignedFor(p, i, delivery)

WorkInv == \A p \in Pipelines, i \in Indexes : Misaddressed(p) \/ WorkSound(p, i)

\* A job that may be refused as a replay.
Replay(job) == job \in JobIds /\ Known(job)

CacheInv ==
  /\ env \in [facilitator: Keys, operator: Keys]
  /\ \A job \in seen : Replay(job)

SomeEndpoint == Endpoints \cup {"none"}
SomePipeline == Pipelines \cup {NoRequest.p}
SomeIndex == Indexes \cup {0}
SomeSignature == signed \cup {Unsigned}
SomeJob == JobIds \cup {NoJob}
TxStates == {"none", "sent", "landed", "failed"}
Codes == {0, 200, 400, 404, 409, 500}

RequestRecord ==
  [at: Places, endpoint: SomeEndpoint, p: SomePipeline, i: SomeIndex,
   signature: SomeSignature, delivery: SomeDelivery, upheld: BOOLEAN, job: SomeJob,
   deadline: Nat, claimed: BOOLEAN, tx: TxStates, answer: Codes]

Busy(q) == q.at \notin {"idle", "answered"} \/ q.tx # "none"
Checked(q) == q.at \in {"deadline", "guard", "send", "sent"} \/ q.tx # "none"
Verified(q) ==
  /\ q.job \in JobIds /\ q.job[1] = q.p
  /\ \/ Misaddressed(q.p)
     \/ SignedFor(q.p, q.i, q.delivery) /\ q.job = node[q.p][q.i].job_id

RequestSound(q) ==
  /\ q \in RequestRecord
  /\ Busy(q) => Asked(q)
  /\ q.at \notin {"idle", "sent", "answered"} => q.tx = "none"
  /\ q.endpoint \in {"complete", "submit"} /\ Checked(q) => Verified(q)
  /\ q.tx = "landed" => q.endpoint \in FiveEndpoints /\ Done(q)
  /\ q.at = "answered" /\ q.answer = 200 => q.tx = "landed"
  /\ q.at = "answered" /\ q.answer = 409 => Replay(q.job)

ServiceInv ==
  /\ ChainInv /\ PositionInv
  /\ SignedInv /\ WorkInv /\ CacheInv
  /\ request = [r \in Requests |-> request[r]]
  /\ \A r \in Requests : RequestSound(request[r])

LEMMA RecordedJob ==
  ASSUME ChainInv, NEW job, Recorded(job)
  PROVE  job \in JobIds
<1>1. PICK n \in NodeIds : node[n[1]][n[2]].job_id = job /\ job # NoJob
  BY DEF Recorded
<1>2. n[1] \in Pipelines /\ n[2] \in Indexes
  BY DEF NodeIds
<1> QED
  BY <1>1, <1>2 DEF ChainInv, TypeOK, NodeAccount

(***************************************************************************)
(* What was true of a node on chain stays true                              *)
(***************************************************************************)
LEMMA RecordedStable ==
  ASSUME ChainInv, NodesForward, NEW job, Recorded(job)
  PROVE  Recorded(job)'
<1>1. PICK n \in NodeIds : /\ node[n[1]][n[2]].job_id = job /\ job # NoJob
                           /\ node[n[1]][n[2]].status \in {"Settled", "Expired"}
  BY DEF Recorded
<1>2. n[1] \in Pipelines /\ n[2] \in Indexes
  BY DEF NodeIds
<1>3. node[n[1]][n[2]].agent # Nobody
  BY <1>1, <1>2 DEF ChainInv, JobInv, JobSound
<1>4. Forward(node'[n[1]][n[2]], node[n[1]][n[2]])
  BY <1>2 DEF NodesForward
<1>5. /\ node'[n[1]][n[2]].job_id = job
      /\ node'[n[1]][n[2]].status \in {"Settled", "Expired"}
  BY <1>1, <1>3, <1>4 DEF Forward, Ends
<1> QED
  BY <1>1, <1>5 DEF Recorded

LEMMA MisaddressedStable ==
  ASSUME NodesForward, signed \subseteq signed', NEW p \in Pipelines, Misaddressed(p)
  PROVE  Misaddressed(p)'
<1>1. PICK i \in Indexes : node[p][i].status = "Closed"
  BY DEF Misaddressed, NodesWith
<1>2. Forward(node'[p][i], node[p][i])
  BY DEF NodesForward
<1>3. node'[p][i].status = "Closed"
  BY <1>1, <1>2 DEF Forward
<1>4. i \in NodesWith(p, {"Closed"})'
  BY <1>3 DEF NodesWith
<1> QED
  BY <1>4 DEF Misaddressed

LEMMA ReplayStable ==
  ASSUME ChainInv, NodesForward, signed \subseteq signed', NEW job, Replay(job)
  PROVE  Replay(job)'
<1>0. job \in JobIds /\ job[1] \in Pipelines
  BY DEF Replay, JobIds
<1>1. CASE Recorded(job)
  BY <1>0, <1>1, RecordedStable DEF Known, Replay
<1>2. CASE Misaddressed(job[1])
  <2>1. PICK p \in Pipelines : p = job[1]
    BY <1>0
  <2>2. Misaddressed(p)'
    BY <1>2, <2>1, MisaddressedStable
  <2>3. Misaddressed(job[1])'
    BY <2>1, <2>2 DEF Misaddressed, NodesWith
  <2> QED
    BY <1>0, <2>3 DEF Known, Replay
<1> QED
  BY <1>1, <1>2 DEF Known, Replay

LEMMA SignedForStable ==
  ASSUME SignedInv, NodesForward, signed \subseteq signed',
         NEW p \in Pipelines, NEW i \in Indexes, NEW delivery, SignedFor(p, i, delivery)
  PROVE  SignedFor(p, i, delivery)' /\ node'[p][i].job_id = node[p][i].job_id
<1>1. PICK s \in signed : /\ s.p = p /\ s.i = i /\ s.delivery = delivery
                          /\ s.agent = node[p][i].agent /\ s.job = node[p][i].job_id
  BY DEF SignedFor
<1>2. node[p][i].agent # Nobody
  BY <1>1, JobsNamed DEF SignedInv, Signatures
<1>3. Forward(node'[p][i], node[p][i])
  BY DEF NodesForward
<1>4. node'[p][i].agent = node[p][i].agent /\ node'[p][i].job_id = node[p][i].job_id
  BY <1>2, <1>3 DEF Forward
<1> QED
  BY <1>1, <1>4 DEF SignedFor

\* Only a node that is claimed gets another delivery.
DeliveriesKept ==
  \A p \in Pipelines, i \in Indexes :
    node[p][i].status # "Claimed" => delivered'[p][i] = delivered[p][i]

LEMMA VerifiedStable ==
  ASSUME SignedInv, NodesForward, signed \subseteq signed', NEW q, Asked(q), Verified(q)
  PROVE  Verified(q)'
<1>1. CASE Misaddressed(q.p)
  BY <1>1, MisaddressedStable DEF Asked, Verified
<1>2. CASE SignedFor(q.p, q.i, q.delivery) /\ q.job = node[q.p][q.i].job_id
  BY <1>2, SignedForStable DEF Asked, Verified
<1> QED
  BY <1>1, <1>2 DEF Verified

LEMMA HappenedStable ==
  ASSUME ChainInv, ChainInv', NodesForward, DeliveriesKept, NEW q, Asked(q),
         q.endpoint = "submit" => q.job \in JobIds, q.endpoint \in FiveEndpoints, Happened(q)
  PROVE  Happened(q)'
<1> DEFINE p == q.p
           i == q.i
<1>0. p \in Pipelines /\ i \in Indexes
  BY DEF Asked
<1> HIDE DEF p, i
<1>1. Forward(node'[p][i], node[p][i])
  BY <1>0 DEF NodesForward
<1>2. CASE q.endpoint = "complete"
  <2>1. node[p][i].status = "Settled" /\ node[p][i].job_id = q.job
    BY <1>2 DEF Happened, p, i
  <2>2. node[p][i].agent # Nobody
    BY <1>0, <2>1, JobsNamed DEF ChainInv, JobInv, JobSound
  <2>3. node'[p][i].status = "Settled" /\ node'[p][i].job_id = q.job
    BY <1>1, <2>1, <2>2 DEF Forward, Ends
  <2> QED
    BY <1>2, <2>3 DEF Happened, p, i
<1>3. CASE q.endpoint = "submit"
  <2>1. /\ node[p][i].job_id = q.job /\ node[p][i].status \in UnderReview \cup Ends
        /\ settlement[p][i].open => delivered[p][i] = q.delivery
    BY <1>3 DEF Happened, p, i, UnderReview, Ends
  <2>2. node'[p][i].job_id = q.job
    <3>0. PICK a \in Pipelines, b \in Indexes, c \in Agents, d \in Slots : q.job = <<a, b, c, d>>
      BY <1>3 DEF JobIds
    <3>1. q.job # NoJob
      BY <3>0 DEF NoJob
    <3>2. node[p][i].agent # Nobody
      BY <1>0, <2>1, <3>1 DEF ChainInv, JobInv, JobSound
    <3> QED
      BY <1>1, <2>1, <3>2 DEF Forward
  <2>3. node'[p][i].status \in UnderReview \cup Ends
    BY <1>1, <2>1 DEF Forward
  <2>4. ASSUME settlement'[p][i].open
        PROVE  delivered'[p][i] = q.delivery
    <3>1. node'[p][i].status \in UnderReview
      BY <1>0, <2>4 DEF ChainInv, ReviewInv, ReviewsMatch, Matches, UnderReview
    <3>2. node[p][i].status \in UnderReview
      BY <1>1, <2>1, <3>1 DEF Forward, UnderReview, Ends
    <3>3. settlement[p][i].open
      BY <1>0, <3>2 DEF ChainInv, ReviewInv, ReviewsMatch, Matches, UnderReview
    <3>4. node[p][i].status # "Claimed"
      BY <3>2 DEF UnderReview
    <3> QED
      BY <1>0, <2>1, <3>3, <3>4 DEF DeliveriesKept
  <2> QED
    BY <1>3, <2>2, <2>3, <2>4 DEF Happened, p, i, UnderReview, Ends
<1>4. CASE q.endpoint \in {"expire", "finalize", "resolve"}
  <2>1. node[p][i].status \in Ends
    BY <1>4 DEF Happened, p, i, Ends
  <2>2. node'[p][i].status = node[p][i].status
    BY <1>1, <2>1 DEF Forward
  <2> QED
    BY <1>4, <2>2 DEF Happened, p, i
<1> QED
  BY <1>2, <1>3, <1>4 DEF FiveEndpoints

LEMMA DoneStable ==
  ASSUME ChainInv, ChainInv', NodesForward, DeliveriesKept, signed \subseteq signed',
         NEW q, Asked(q), q.endpoint = "submit" => q.job \in JobIds,
         q.endpoint \in FiveEndpoints, Done(q)
  PROVE  Done(q)'
<1>1. CASE Happened(q)
  BY <1>1, HappenedStable DEF Done
<1>2. CASE q.endpoint \in {"complete", "submit"} /\ Misaddressed(q.p)
  BY <1>2, MisaddressedStable DEF Asked, Done
<1> QED
  BY <1>1, <1>2 DEF Done

LEMMA RequestStable ==
  ASSUME ChainInv, ChainInv', SignedInv, NodesForward, DeliveriesKept, signed \subseteq signed',
         NEW q, RequestSound(q)
  PROVE  RequestSound(q)'
<1>1. q \in RequestRecord'
  BY DEF RequestSound, RequestRecord, SomeSignature
<1>2. q.endpoint \in {"complete", "submit"} /\ Checked(q) => Verified(q) /\ Verified(q)'
  BY VerifiedStable DEF RequestSound, Busy, Checked
<1>3. q.tx = "landed" => q.endpoint \in FiveEndpoints /\ Done(q)'
  BY <1>2, DoneStable DEF RequestSound, Busy, Checked, Verified
<1>4. q.at = "answered" /\ q.answer = 409 => Replay(q.job)'
  BY ReplayStable DEF RequestSound
<1> QED
  BY <1>1, <1>2, <1>3, <1>4 DEF RequestSound, Busy, Asked, Checked

(***************************************************************************)
(* Frames: what keeps each part of the invariant                            *)
(***************************************************************************)
LEMMA RequestNext ==
  ASSUME NEW r, NEW q, request'[r] = q, RequestSound(q)'
  PROVE  RequestSound(request[r])'
<1>1. Done(q)' => Done(request[r])'
  BY DEF Done, Happened, Misaddressed, NodesWith
<1>2. Replay(q.job)' => Replay(request[r].job)'
  BY DEF Replay, Known, Recorded, Misaddressed, NodesWith
<1>3. Verified(q)' => Verified(request[r])'
  BY DEF Verified, SignedFor, Misaddressed, NodesWith
<1>4. q \in RequestRecord' => request'[r] \in RequestRecord'
  OBVIOUS
<1> QED
  BY <1>1, <1>2, <1>3, <1>4 DEF RequestSound, Busy, Asked, Checked

LEMMA RequestsStable ==
  ASSUME ServiceInv, ChainInv', NodesForward, DeliveriesKept, signed \subseteq signed',
         NEW R \in SUBSET Requests,
         request' = [r \in Requests |-> request'[r]],
         \A r \in Requests \ R : request'[r] = request[r],
         \A r \in R : \E q : request'[r] = q /\ RequestSound(q)'
  PROVE  \A r \in Requests : RequestSound(request[r])'
<1> TAKE r \in Requests
<1>1. CASE r \in R
  BY <1>1, RequestNext
<1>2. CASE r \notin R
  <2>1. PICK q : q = request[r]
    OBVIOUS
  <2>2. RequestSound(q)
    BY <2>1 DEF ServiceInv
  <2>3. RequestSound(q)'
    BY <2>2, RequestStable DEF ServiceInv
  <2>4. request'[r] = q
    BY <1>2, <2>1
  <2> QED
    BY <2>3, <2>4, RequestNext
<1> QED
  BY <1>1, <1>2

LEMMA WorkStable ==
  ASSUME ServiceInv, ChainInv', NodesForward, DeliveriesKept, signed \subseteq signed',
         NEW p \in Pipelines, NEW i \in Indexes, NoNewWork(node'[p][i], node[p][i])
  PROVE  Misaddressed(p)' \/ WorkSound(p, i)'
<1>0. CASE Misaddressed(p)
  BY <1>0, MisaddressedStable
<1>1. CASE WorkSound(p, i)
  <2>1. Forward(node'[p][i], node[p][i])
    BY DEF NodesForward
  <2>2. \A delivery : SignedFor(p, i, delivery) => SignedFor(p, i, delivery)'
    BY SignedForStable DEF ServiceInv
  <2>3. ASSUME node'[p][i].status \in UnderReview
        PROVE  SignedFor(p, i, delivered[p][i])'
    <3>1. node[p][i].status \in UnderReview
      BY <2>1, <2>3 DEF NoNewWork, Forward, UnderReview, Ends
    <3>2. SignedFor(p, i, delivered[p][i]) /\ delivered'[p][i] = delivered[p][i]
      BY <1>1, <3>1 DEF WorkSound, DeliveriesKept, UnderReview
    <3>3. PICK delivery : delivery = delivered[p][i]
      OBVIOUS
    <3>4. SignedFor(p, i, delivery)'
      BY <2>2, <3>2, <3>3
    <3> QED
      BY <3>2, <3>3, <3>4 DEF SignedFor
  <2>4. ASSUME node'[p][i].status = "Settled"
        PROVE  \E delivery : SignedFor(p, i, delivery)'
    <3>1. node[p][i].status \in UnderReview \cup {"Settled"}
      BY <2>4 DEF NoNewWork
    <3>2. PICK delivery : SignedFor(p, i, delivery)
      BY <1>1, <3>1 DEF WorkSound
    <3> QED
      BY <2>2, <3>2
  <2> QED
    BY <2>3, <2>4 DEF WorkSound
<1> QED
  BY <1>0, <1>1 DEF ServiceInv, WorkInv

LEMMA CacheStable ==
  ASSUME ServiceInv, NodesForward, UNCHANGED <<env, seen>>, signed \subseteq signed'
  PROVE  CacheInv'
<1>1. \A job \in seen : Replay(job)'
  BY ReplayStable DEF ServiceInv, CacheInv
<1> QED
  BY <1>1 DEF ServiceInv, CacheInv

LEMMA SignedStable ==
  ASSUME ServiceInv, UNCHANGED signed,
         delivered' \in [Pipelines -> [Indexes -> SomeDelivery]]
  PROVE  SignedInv'
BY DEF SignedInv, ServiceInv

\* Steps that neither deliver nor start any work, and touch some of the requests.
LEMMA IdleStep ==
  ASSUME ServiceInv, ChainInv', PositionInv', NodesForward, NothingNew,
         UNCHANGED <<signed, delivered>>, CacheInv',
         NEW R \in SUBSET Requests,
         request' = [r \in Requests |-> request'[r]],
         \A r \in Requests \ R : request'[r] = request[r],
         \A r \in R : \E q : request'[r] = q /\ RequestSound(q)'
  PROVE  ServiceInv'
<1>1. DeliveriesKept /\ delivered' \in [Pipelines -> [Indexes -> SomeDelivery]]
  BY DEF DeliveriesKept, ServiceInv, SignedInv
<1>2. SignedInv'
  BY <1>1, SignedStable
<1>3. WorkInv'
  BY <1>1, WorkStable DEF NothingNew, WorkInv
<1>4. \A r \in Requests : RequestSound(request[r])'
  BY <1>1, RequestsStable
<1> QED
  BY <1>2, <1>3, <1>4 DEF ServiceInv

\* Steps of one request alone.
LEMMA RequestStep ==
  ASSUME ServiceInv, NEW r \in Requests, NEW q, With(r, q), RequestSound(q),
         UNCHANGED <<vars, env, signed, delivered>>, \A job \in seen' : Replay(job)
  PROVE  ServiceInv'
<1>1. ChainInv' /\ PositionInv' /\ NodesForward /\ NothingNew
  BY ChainPreserved, PositionsPreserved, QuietForward DEF ServiceInv
<1>2. \A job \in seen' : Replay(job)'
  BY <1>1, ReplayStable DEF ServiceInv
<1>3. CacheInv'
  BY <1>2 DEF ServiceInv, CacheInv
<1>4. /\ request' = [x \in Requests |-> request'[x]] /\ request'[r] = q
      /\ \A x \in Requests \ {r} : request'[x] = request[x]
  BY DEF With, ServiceInv
<1>5. RequestSound(q)'
  <2>1. DeliveriesKept /\ SignedInv
    BY DEF DeliveriesKept, ServiceInv
  <2> QED
    BY <1>1, <2>1, RequestStable DEF ServiceInv
<1> DEFINE R == {r}
<1>6. R \in SUBSET Requests /\ (\A x \in Requests \ R : request'[x] = request[x])
  BY <1>4
<1>7. \A x \in R : \E y : request'[x] = y /\ RequestSound(y)'
  BY <1>4, <1>5
<1> HIDE DEF R
<1> QED
  BY <1>1, <1>3, <1>4, <1>6, <1>7, IdleStep

LEMMA OthersKeep ==
  ASSUME ServiceInv, OthersStep \/ UNCHANGED fvars
  PROVE  ServiceInv'
<1>1. (ChainStep \/ UNCHANGED vars) /\ UNCHANGED service
  BY OthersAreChainSteps DEF fvars
<1>2. NodesForward /\ NothingNew /\ [Next]_vars
  BY <1>1, ChainStepForward, QuietForward DEF ServiceInv
<1>3. ChainInv' /\ PositionInv'
  BY <1>2, ChainPreserved, PositionsPreserved DEF ServiceInv
<1>4. UNCHANGED <<env, seen, request, signed, delivered>>
  BY <1>1 DEF service, server
<1>5. CacheInv'
  BY <1>2, <1>4, CacheStable
<1> DEFINE R == {}
<1>6. /\ R \in SUBSET Requests /\ (\A x \in Requests \ R : request'[x] = request[x])
      /\ \A x \in R : \E y : request'[x] = y /\ RequestSound(y)'
  BY <1>4
<1>7. request' = [x \in Requests |-> request'[x]]
  BY <1>4 DEF ServiceInv
<1> HIDE DEF R
<1> QED
  BY <1>2, <1>3, <1>4, <1>5, <1>6, <1>7, IdleStep

(***************************************************************************)
(* What a request holds after each of its steps                             *)
(***************************************************************************)
LEMMA NoRequestTyped ==
  /\ NoRequest \in RequestRecord
  /\ NoRequest.at = "idle" /\ NoRequest.tx = "none" /\ NoRequest.answer = 0
BY DEF NoRequest, RequestRecord, Places, SomeEndpoint, SomePipeline, SomeIndex,
       SomeSignature, SomeDelivery, SomeJob, TxStates, Codes

LEMMA NoRequestSound == RequestSound(NoRequest)
BY NoRequestTyped DEF RequestSound, Busy, Checked

LEMMA AnsweredSound ==
  ASSUME NEW q, RequestSound(q), NEW code \in {200, 400, 404, 409, 500},
         code = 200 => q.tx = "landed", code = 409 => Replay(q.job)
  PROVE  RequestSound(Answered(q, code))
<1>0. PICK a : a = Answered(q, code)
  OBVIOUS
<1>1. ASSUME code \in {400, 404} PROVE RequestSound(a)
  <2> PICK none : none = NoRequest
    OBVIOUS
  <2>1. a = [none EXCEPT !.at = "answered", !.answer = code]
    BY <1>0, <1>1 DEF Answered
  <2>0. "answered" \in Places /\ code \in Codes /\ none \in RequestRecord /\ none.tx = "none"
    BY NoRequestTyped DEF Places, Codes
  <2>2. a \in RequestRecord
    BY <2>0, <2>1 DEF RequestRecord
  <2>3. a.at = "answered" /\ a.tx = "none" /\ a.answer = code
    BY <2>0, <2>1 DEF RequestRecord
  <2> QED
    BY <1>1, <2>2, <2>3 DEF RequestSound, Busy, Checked
<1>2. ASSUME code \notin {400, 404} PROVE RequestSound(a)
  <2>1. a = [q EXCEPT !.at = "answered", !.answer = code, !.signature = Unsigned, !.deadline = 0]
    BY <1>0, <1>2 DEF Answered
  <2>2. q \in RequestRecord
    BY DEF RequestSound
  <2>0. "answered" \in Places /\ code \in Codes /\ Unsigned \in SomeSignature /\ 0 \in Nat
    BY DEF Places, Codes, SomeSignature
  <2>3. a \in RequestRecord
    BY <2>0, <2>1, <2>2 DEF RequestRecord
  <2>4. /\ a.at = "answered" /\ a.answer = code /\ a.tx = q.tx /\ a.job = q.job
        /\ a.p = q.p /\ a.i = q.i /\ a.delivery = q.delivery
        /\ a.endpoint = q.endpoint /\ a.upheld = q.upheld
    BY <2>1, <2>2 DEF RequestRecord
  <2>5. Verified(a) <=> Verified(q)
    BY <2>4 DEF Verified
  <2>6. Done(a) <=> Done(q)
    BY <2>4 DEF Done, Happened
  <2> QED
    BY <2>3, <2>4, <2>5, <2>6 DEF RequestSound, Busy, Checked, Asked
<1>3. RequestSound(a)
  BY <1>1, <1>2
<1> QED
  BY <1>0, <1>3

\* A step that answers.
LEMMA AnswerStep ==
  ASSUME ServiceInv, NEW r \in Requests, NEW code \in {200, 400, 404, 409, 500}, Answer(r, code),
         code = 200 => request[r].tx = "landed", code = 409 => Replay(request[r].job),
         UNCHANGED <<vars, env, signed, delivered>>, \A job \in seen' : Replay(job)
  PROVE  ServiceInv'
<1>1. PICK q : q = request[r]
  OBVIOUS
<1>2. PICK a : a = Answered(q, code)
  OBVIOUS
<1>3. RequestSound(q)
  BY <1>1 DEF ServiceInv
<1>4. RequestSound(a)
  BY <1>1, <1>2, <1>3, AnsweredSound
<1>5. With(r, a)
  BY <1>1, <1>2 DEF Answer
<1> QED
  BY <1>4, <1>5, RequestStep

LEMMA ReceiveSound ==
  ASSUME NEW endpoint \in Endpoints, NEW p \in Pipelines, NEW i \in Indexes,
         NEW delivery \in SomeDelivery, NEW signature \in signed \cup {Unsigned},
         NEW upheld \in BOOLEAN, NEW q,
         q = [NoRequest EXCEPT !.at = "received", !.endpoint = endpoint, !.p = p, !.i = i,
                !.delivery = delivery, !.signature = signature, !.upheld = upheld]
  PROVE  RequestSound(q)
<1>0. /\ "received" \in Places /\ endpoint \in SomeEndpoint /\ p \in SomePipeline
      /\ i \in SomeIndex /\ signature \in SomeSignature
  BY DEF Places, SomeEndpoint, SomePipeline, SomeIndex, SomeSignature
<1>1. q \in RequestRecord
  BY <1>0, NoRequestTyped DEF RequestRecord
<1>2. q.at = "received" /\ q.tx = "none" /\ q.p = p /\ q.i = i
  BY NoRequestTyped DEF RequestRecord
<1> QED
  BY <1>1, <1>2 DEF RequestSound, Busy, Asked, Checked

\* The same request, further on.
SameRequest(a, q) ==
  /\ a \in RequestRecord
  /\ a.endpoint = q.endpoint /\ a.p = q.p /\ a.i = q.i /\ a.delivery = q.delivery
  /\ a.tx = q.tx

\* A request that goes on to its next await before it is verified.
LEMMA EarlySound ==
  ASSUME NEW q, RequestSound(q), q.at \in {"received", "lookup"},
         NEW a, SameRequest(a, q), a.at \in {"received", "verify", "lookup"}
  PROVE  RequestSound(a)
<1>1. q.tx = "none" /\ Asked(q)
  BY DEF RequestSound, Busy
<1>2. a.tx = "none" /\ Asked(a) /\ a \in RequestRecord
  BY <1>1 DEF SameRequest, Asked
<1> QED
  BY <1>2 DEF RequestSound, Checked

\* One that was verified, or needs no verification.
LEMMA CheckedSound ==
  ASSUME NEW q, RequestSound(q), q.at \in {"received", "verify", "deadline", "guard"},
         NEW a, SameRequest(a, q), a.at \in {"deadline", "guard", "send"},
         a.endpoint \in {"complete", "submit"} => Verified(a)
  PROVE  RequestSound(a)
<1>1. q.tx = "none" /\ Asked(q)
  BY DEF RequestSound, Busy
<1>2. a.tx = "none" /\ Asked(a) /\ a \in RequestRecord
  BY <1>1 DEF SameRequest, Asked
<1> QED
  BY <1>2 DEF RequestSound

(***************************************************************************)
(* The steps of a request                                                   *)
(***************************************************************************)
LEMMA SameSeen ==
  ASSUME ServiceInv
  PROVE  \A job \in seen : Replay(job)
BY DEF ServiceInv, CacheInv

LEMMA NodesTyped ==
  ASSUME ServiceInv, NEW p \in Pipelines, NEW j \in Indexes
  PROVE  /\ node[p][j].job_id \in SomeJob
         /\ node[p][j].deadline_slot \in Nat
         /\ node[p][j].status \in ActiveStatus \cup {"Settled"} =>
              \E t \in Slots : node[p][j].job_id = <<p, j, node[p][j].agent, t>>
<1>1. node[p][j] \in NodeAccount /\ JobSound(node[p][j], p, j)
  BY DEF ServiceInv, ChainInv, TypeOK, JobInv
<1>2. node[p][j].deadline_slot \in Nat
  BY <1>1 DEF NodeAccount, Amounts
<1>3. node[p][j].job_id \in SomeJob
  BY <1>1 DEF NodeAccount, SomeJob
<1> QED
  BY <1>1, <1>2, <1>3, JobsNamed DEF JobSound

LEMMA CallKeeps ==
  ASSUME ServiceInv, NEW r \in Requests, Call(r)
  PROVE  ServiceInv'
<1>0. PICK endpoint \in Endpoints, p \in Pipelines, i \in Indexes, sent \in SomeDelivery,
           encoding \in Encodings, signature \in signed \cup {Unsigned}, upheld \in BOOLEAN :
        Receive(r, endpoint, p, i, sent, encoding, signature, upheld)
  BY DEF Call, SomeDelivery, Encodings
<1>1. PICK delivery \in SomeDelivery : delivery = Decoded(sent, encoding)
  BY DEF Decoded, SomeDelivery
<1>2. PICK q : q = [NoRequest EXCEPT !.at = "received", !.endpoint = endpoint, !.p = p, !.i = i,
                      !.delivery = delivery, !.signature = signature, !.upheld = upheld]
  OBVIOUS
<1>3. RequestSound(q)
  BY <1>2, ReceiveSound
<1>4. With(r, q) /\ UNCHANGED <<vars, env, seen, signed, delivered>>
  BY <1>0, <1>1, <1>2 DEF Receive, OnlyRequests
<1> QED
  BY <1>3, <1>4, RequestStep, SameSeen

LEMMA CheckSeenKeeps ==
  ASSUME ServiceInv, NEW r \in Requests, CheckSeen(r)
  PROVE  ServiceInv'
<1>1. PICK q : q = request[r]
  OBVIOUS
<1>2. /\ RequestSound(q) /\ q.at = "received" /\ q.endpoint = "complete"
      /\ UNCHANGED <<vars, env, seen, signed, delivered>>
  BY <1>1 DEF ServiceInv, CheckSeen, At, OnlyRequests
<1>3. /\ q \in RequestRecord /\ q.job \in SomeJob /\ q.p \in Pipelines
  BY <1>2 DEF RequestSound, RequestRecord, Busy, Asked
<1>4. ASSUME With(r, [q EXCEPT !.at = "verify"])
      PROVE  ServiceInv'
  <2>1. PICK a : a = [q EXCEPT !.at = "verify"]
    OBVIOUS
  <2>2. SameRequest(a, q) /\ a.at = "verify"
    BY <1>3, <2>1 DEF SameRequest, RequestRecord, Places
  <2>3. RequestSound(a)
    BY <1>2, <2>2, EarlySound
  <2> QED
    BY <1>2, <1>4, <2>1, <2>3, RequestStep, SameSeen
<1>5. ASSUME NEW j \in AtPosition(q.p, q.i), NEW known,
             known = [q EXCEPT !.job = node[q.p][j].job_id],
             With(r, IF known.job \in seen THEN Answered(known, 409)
                                           ELSE [known EXCEPT !.at = "lookup"])
      PROVE  ServiceInv'
  <2>1. node[q.p][j].job_id \in SomeJob
    BY <1>3, <1>5, NodesTyped DEF AtPosition
  <2>2. PICK job \in SomeJob : job = node[q.p][j].job_id
    BY <2>1
  <2>3. known = [q EXCEPT !.job = job] /\ known.job = job
    BY <1>3, <1>5, <2>2 DEF RequestRecord
  <2>4. CASE job \in seen
    <3>1. PICK a : a = Answered(known, 409)
      OBVIOUS
    <3>2. Replay(known.job)
      BY <2>3, <2>4, SameSeen
    <3>3. RequestSound(known)
      <4>1. SameRequest(known, q) /\ known.at = "received"
        BY <1>2, <1>3, <2>3 DEF SameRequest, RequestRecord
      <4> QED
        BY <1>2, <4>1, EarlySound
    <3>4. RequestSound(a)
      BY <3>1, <3>2, <3>3, AnsweredSound
    <3>5. With(r, a)
      BY <1>5, <2>3, <2>4, <3>1
    <3> QED
      BY <1>2, <3>4, <3>5, RequestStep, SameSeen
  <2>5. CASE job \notin seen
    <3>1. PICK a : a = [known EXCEPT !.at = "lookup"]
      OBVIOUS
    <3>2. "lookup" \in Places
      BY DEF Places
    <3>6. SameRequest(known, q)
      BY <1>3, <2>3 DEF SameRequest, RequestRecord
    <3>7. SameRequest(a, q) /\ a.at = "lookup"
      BY <3>1, <3>2, <3>6 DEF SameRequest, RequestRecord
    <3>3. RequestSound(a)
      BY <1>2, <3>7, EarlySound
    <3>4. With(r, a)
      BY <1>5, <2>3, <2>5, <3>1
    <3> QED
      BY <1>2, <3>3, <3>4, RequestStep, SameSeen
  <2> QED
    BY <2>4, <2>5
<1> QED
  BY <1>1, <1>4, <1>5 DEF CheckSeen

\* The two looks at the chain for a record.
LEMMA IsReplayKeeps ==
  ASSUME ServiceInv, NEW r \in Requests, NEW next \in {"verify", "send"},
         request[r].at = IF next = "verify" THEN "lookup" ELSE "guard",
         IsReplay(r, next)
  PROVE  ServiceInv'
<1>1. PICK q : q = request[r]
  OBVIOUS
<1>2. RequestSound(q) /\ q \in RequestRecord /\ q.job \in SomeJob /\ q.deadline \in Nat
  BY <1>1 DEF ServiceInv, RequestSound, RequestRecord
<1>3. CASE /\ q.job \in seen \/ Recorded(q.job)
           /\ seen' = seen \cup {q.job}
           /\ Answer(r, 409)
           /\ UNCHANGED <<vars, env, signed, delivered>>
  <2>1. Replay(q.job)
    BY <1>3, RecordedJob, SameSeen DEF Replay, Known, ServiceInv
  <2>2. \A job \in seen' : Replay(job)
    BY <1>3, <2>1, SameSeen
  <2>3. PICK code \in {200, 400, 404, 409, 500} : code = 409
    OBVIOUS
  <2> QED
    BY <1>1, <1>3, <2>1, <2>2, <2>3, AnswerStep
<1>4. CASE With(r, [q EXCEPT !.at = next]) /\ OnlyRequests
  <2>1. PICK a : a = [q EXCEPT !.at = next]
    OBVIOUS
  <2>2. next \in Places
    BY DEF Places
  <2>3. SameRequest(a, q) /\ a.at = next /\ a.job = q.job
    BY <1>2, <2>1, <2>2 DEF SameRequest, RequestRecord
  <2>4. ASSUME next = "verify" PROVE RequestSound(a)
    BY <1>1, <1>2, <2>3, <2>4, EarlySound
  <2>5. ASSUME next = "send" PROVE RequestSound(a)
    <3>1. q.at = "guard"
      BY <1>1, <2>5
    <3>2. a.endpoint \in {"complete", "submit"} => Verified(a)
      BY <1>2, <2>3, <3>1 DEF RequestSound, Checked, Verified, SameRequest
    <3> QED
      BY <1>2, <2>3, <2>5, <3>1, <3>2, CheckedSound
  <2>6. RequestSound(a) => ServiceInv'
    BY <1>4, <2>1, RequestStep, SameSeen DEF OnlyRequests
  <2> QED
    BY <2>4, <2>5, <2>6
<1> QED
  BY <1>1, <1>3, <1>4 DEF IsReplay

\* The list of a pipeline without closed nodes: each stands where its index says.
LEMMA FullList ==
  ASSUME ServiceInv, NEW p \in Pipelines, NEW idx \in Indexes, NEW j \in AtPosition(p, idx),
         NodesWith(p, {"Closed"}) = {}
  PROVE  j = idx
<1>1. j \in Indexes /\ NodeExists(p, j)
  BY DEF AtPosition
<1>2. \A k \in Indexes : NodeExists(p, k) <=> k < pipeline[p].total_nodes
  <2> SUFFICES ASSUME NEW k \in Indexes
               PROVE  NodeExists(p, k) <=> k < pipeline[p].total_nodes
    OBVIOUS
  <2>1. node[p][k].status # "Closed"
    BY DEF NodesWith
  <2>2. k >= pipeline[p].total_nodes <=> node[p][k].status = "Absent"
    BY DEF ServiceInv, PositionInv
  <2>3. k \in Nat /\ pipeline[p].total_nodes \in Nat
    BY DEF Indexes, ServiceInv, ChainInv, TypeOK, PipelineAccount
  <2> QED
    BY <2>1, <2>2, <2>3 DEF NodeExists
<1>3. \A k \in Indexes : k < j => NodeExists(p, k)
  <2> SUFFICES ASSUME NEW k \in Indexes, k < j PROVE NodeExists(p, k)
    OBVIOUS
  <2>1. /\ k \in Nat /\ j \in Nat /\ pipeline[p].total_nodes \in Nat
    BY <1>1 DEF Indexes, ServiceInv, ChainInv, TypeOK, PipelineAccount
  <2> QED
    BY <1>1, <1>2, <2>1
<1> DEFINE nodes == {k \in Indexes : NodeExists(p, k)}
<1>4. Cardinality({k \in Indexes : k < j /\ k \in nodes}) = j
  <2>1. \A k \in Indexes : k < j => k \in nodes
    BY <1>3
  <2> HIDE DEF nodes
  <2> QED
    BY <1>1, <2>1, PrefixPosition
<1>5. {k \in Indexes : k < j /\ k \in nodes} = {k \in nodes : k < j}
  OBVIOUS
<1>6. Cardinality({k \in nodes : k < j}) = idx
  BY DEF AtPosition
<1> QED
  BY <1>4, <1>5, <1>6

\* verifyCompletion: the node at that position is the one its job names, so the
\* signature, the node and the transaction speak of the same work.
LEMMA VerifiedNode ==
  ASSUME ServiceInv, NEW q, Asked(q), NEW j \in AtPosition(q.p, q.i),
         node[q.p][j].status = "Claimed", SignatureValid(q, j)
  PROVE  /\ node[q.p][j].job_id \in JobIds /\ node[q.p][j].job_id[1] = q.p
         /\ Misaddressed(q.p) \/ (j = q.i /\ SignedFor(q.p, q.i, q.delivery))
<1>1. q.p \in Pipelines /\ q.i \in Indexes /\ j \in Indexes
  BY DEF Asked, AtPosition
<1>2. PICK t \in Slots : node[q.p][j].job_id = <<q.p, j, node[q.p][j].agent, t>>
  BY <1>1, NodesTyped DEF ActiveStatus
<1>3. node[q.p][j].agent \in Agents
  BY <1>1 DEF ServiceInv, ChainInv, JobInv, JobSound, ActiveStatus
<1>4. /\ node[q.p][j].job_id \in JobIds /\ node[q.p][j].job_id[1] = q.p
      /\ node[q.p][j].job_id[2] = j
  BY <1>1, <1>2, <1>3 DEF JobIds
<1>5. PICK s \in signed : s = q.signature
  BY DEF SignatureValid
<1>6. /\ s.p = q.p /\ s.i = q.i /\ s.job = node[q.p][j].job_id /\ s.delivery = q.delivery
      /\ s.agent = node[q.p][j].agent
  BY <1>5 DEF SignatureValid, DeliveryMessage
<1>7. CASE j = q.i
  BY <1>4, <1>6, <1>7 DEF SignedFor
<1>8. CASE j # q.i
  <2>1. NodesWith(q.p, {"Closed"}) # {}
    BY <1>1, <1>8, FullList
  <2>2. s.job[2] # s.i
    BY <1>4, <1>6, <1>8
  <2> QED
    BY <1>4, <1>6, <2>1, <2>2 DEF Misaddressed
<1> QED
  BY <1>7, <1>8

LEMMA VerifyKeeps ==
  ASSUME ServiceInv, NEW r \in Requests, NEW endpoint, NEW place \in {"received", "verify"},
         Verify(r, endpoint, place)
  PROVE  ServiceInv'
<1>1. PICK q : q = request[r]
  OBVIOUS
<1>2. RequestSound(q) /\ q.at = place /\ UNCHANGED <<vars, env, seen, signed, delivered>>
  BY <1>1 DEF ServiceInv, Verify, At, OnlyRequests
<1>3. q \in RequestRecord /\ Asked(q)
  BY <1>2 DEF RequestSound, Busy
<1>4. CASE Answer(r, 400)
  <2>1. PICK code \in {200, 400, 404, 409, 500} : code = 400
    OBVIOUS
  <2> QED
    BY <1>2, <1>4, <2>1, AnswerStep, SameSeen
<1>5. ASSUME NEW j \in AtPosition(q.p, q.i),
             node[q.p][j].status = "Claimed", SignatureValid(q, j),
             With(r, [q EXCEPT !.at = "deadline", !.job = node[q.p][j].job_id,
                               !.deadline = node[q.p][j].deadline_slot])
      PROVE  ServiceInv'
  <2>1. /\ node[q.p][j].job_id \in JobIds /\ node[q.p][j].job_id[1] = q.p
        /\ Misaddressed(q.p) \/ (j = q.i /\ SignedFor(q.p, q.i, q.delivery))
    BY <1>3, <1>5, VerifiedNode
  <2>2. PICK job \in SomeJob, deadline \in Nat :
          job = node[q.p][j].job_id /\ deadline = node[q.p][j].deadline_slot
    BY <1>3, <1>5, NodesTyped DEF AtPosition, Asked
  <2>3. PICK a : a = [q EXCEPT !.at = "deadline", !.job = job, !.deadline = deadline]
    OBVIOUS
  <2>4. "deadline" \in Places
    BY DEF Places
  <2>5. SameRequest(a, q) /\ a.at = "deadline" /\ a.job = job
    BY <1>3, <2>3, <2>4 DEF SameRequest, RequestRecord
  <2>6. Verified(a)
    BY <2>1, <2>2, <2>5 DEF Verified, SameRequest
  <2>7. RequestSound(a)
    BY <1>2, <2>5, <2>6, CheckedSound
  <2>8. With(r, a)
    BY <1>5, <2>2, <2>3
  <2> QED
    BY <1>2, <2>7, <2>8, RequestStep, SameSeen
<1> QED
  BY <1>1, <1>4, <1>5 DEF Verify

\* A request that is verified, or needs no verification, goes on.
LEMMA GoOn ==
  ASSUME ServiceInv, NEW r \in Requests, NEW q, q = request[r],
         q.at \in {"received", "deadline"},
         q.at = "received" => q.endpoint \notin {"complete", "submit"},
         NEW a, SameRequest(a, q), a.at \in {"deadline", "guard", "send"}, a.job = q.job,
         With(r, a), OnlyRequests
  PROVE  ServiceInv'
<1>1. RequestSound(q)
  BY DEF ServiceInv
<1>2. a.endpoint \in {"complete", "submit"} => Verified(a)
  BY <1>1 DEF RequestSound, Checked, Verified, SameRequest
<1>3. RequestSound(a)
  BY <1>1, <1>2, CheckedSound
<1> QED
  BY <1>3, RequestStep, SameSeen DEF OnlyRequests

LEMMA RefuseStep ==
  ASSUME ServiceInv, NEW r \in Requests, NEW code \in {400, 404, 500}, Answer(r, code),
         OnlyRequests
  PROVE  ServiceInv'
<1>1. code \in {200, 400, 404, 409, 500} /\ code # 200 /\ code # 409
  OBVIOUS
<1> QED
  BY <1>1, AnswerStep, SameSeen DEF OnlyRequests

LEMMA MoveOn ==
  ASSUME ServiceInv, NEW r \in Requests, NEW q, q = request[r],
         q.at \in {"received", "deadline"},
         q.at = "received" => q.endpoint \notin {"complete", "submit"},
         NEW place \in {"guard", "send"}, With(r, [q EXCEPT !.at = place]), OnlyRequests
  PROVE  ServiceInv'
<1>1. q \in RequestRecord /\ place \in Places
  BY DEF ServiceInv, RequestSound, Places
<1>2. PICK a : a = [q EXCEPT !.at = place]
  OBVIOUS
<1>3. SameRequest(a, q) /\ a.at = place /\ a.job = q.job
  BY <1>1, <1>2 DEF SameRequest, RequestRecord
<1> QED
  BY <1>2, <1>3, GoOn

LEMMA DeadlineKeeps ==
  ASSUME ServiceInv, NEW r \in Requests,
         \/ \E endpoint : CheckDeadline(r, endpoint)
         \/ CheckOverdue(r)
  PROVE  ServiceInv'
<1>1. PICK q : q = request[r]
  OBVIOUS
<1>2. q.at = "deadline" /\ OnlyRequests
  BY <1>1 DEF CheckDeadline, CheckOverdue, At
<1>3. CASE Answer(r, 400)
  BY <1>2, <1>3, RefuseStep
<1>4. ASSUME NEW place \in {"guard", "send"}, With(r, [q EXCEPT !.at = place])
      PROVE  ServiceInv'
  BY <1>1, <1>2, <1>4, MoveOn
<1> QED
  BY <1>1, <1>3, <1>4 DEF CheckDeadline, CheckOverdue

LEMMA ExpirableKeeps ==
  ASSUME ServiceInv, NEW r \in Requests, VerifyExpirable(r)
  PROVE  ServiceInv'
<1>1. PICK q : q = request[r]
  OBVIOUS
<1>2. q.at = "received" /\ q.endpoint = "expire" /\ OnlyRequests
  BY <1>1 DEF VerifyExpirable, At
<1>3. CASE Answer(r, 400)
  BY <1>2, <1>3, RefuseStep
<1>4. ASSUME NEW j \in AtPosition(q.p, q.i),
             With(r, [q EXCEPT !.at = "deadline", !.deadline = node[q.p][j].deadline_slot])
      PROVE  ServiceInv'
  <2>1. Asked(q)
    BY <1>1, <1>2 DEF ServiceInv, RequestSound, Busy
  <2>2. PICK deadline \in Nat : deadline = node[q.p][j].deadline_slot
    BY <1>4, <2>1, NodesTyped DEF AtPosition, Asked
  <2>3. PICK a : a = [q EXCEPT !.at = "deadline", !.deadline = deadline]
    OBVIOUS
  <2>4. q \in RequestRecord /\ "deadline" \in Places
    BY <1>1 DEF ServiceInv, RequestSound, Places
  <2>5. SameRequest(a, q) /\ a.at = "deadline" /\ a.job = q.job
    BY <2>3, <2>4 DEF SameRequest, RequestRecord
  <2>6. With(r, a)
    BY <1>4, <2>2, <2>3
  <2> QED
    BY <1>1, <1>2, <2>5, <2>6, GoOn
<1> QED
  BY <1>1, <1>3, <1>4 DEF VerifyExpirable

LEMMA StatusKeeps ==
  ASSUME ServiceInv, NEW r \in Requests, NEW endpoint \in {"finalize", "resolve"}, NEW wanted,
         CheckStatus(r, endpoint, wanted)
  PROVE  ServiceInv'
<1>1. PICK q : q = request[r]
  OBVIOUS
<1>2. q.at = "received" /\ q.endpoint = endpoint /\ OnlyRequests
  BY <1>1 DEF CheckStatus, At
<1>3. CASE Answer(r, 400)
  BY <1>2, <1>3, RefuseStep
<1>4. CASE Answer(r, 404)
  BY <1>2, <1>4, RefuseStep
<1>5. CASE With(r, [q EXCEPT !.at = "send"])
  <2>1. PICK place \in {"guard", "send"} : place = "send"
    OBVIOUS
  <2> QED
    BY <1>1, <1>2, <1>5, <2>1, MoveOn
<1> QED
  BY <1>1, <1>3, <1>4, <1>5 DEF CheckStatus

LEMMA SendKeeps ==
  ASSUME ServiceInv, NEW r \in Requests, Send(r)
  PROVE  ServiceInv'
<1>1. PICK q : q = request[r]
  OBVIOUS
<1>2. q.at = "send" /\ OnlyRequests /\ RequestSound(q)
  BY <1>1 DEF Send, ServiceInv
<1>3. CASE Answer(r, 500)
  BY <1>2, <1>3, RefuseStep
<1>4. ASSUME NEW claimed \in BOOLEAN,
             With(r, [q EXCEPT !.at = "sent", !.tx = "sent", !.claimed = claimed])
      PROVE  ServiceInv'
  <2>1. PICK a : a = [q EXCEPT !.at = "sent", !.tx = "sent", !.claimed = claimed]
    OBVIOUS
  <2>2. q \in RequestRecord /\ Asked(q)
    BY <1>2 DEF RequestSound, Busy
  <2>3. "sent" \in Places /\ "sent" \in TxStates
    BY DEF Places, TxStates
  <2>4. a \in RequestRecord
    BY <2>1, <2>2, <2>3 DEF RequestRecord
  <2>5. /\ a.at = "sent" /\ a.tx = "sent" /\ a.p = q.p /\ a.i = q.i /\ a.job = q.job
        /\ a.endpoint = q.endpoint /\ a.delivery = q.delivery
    BY <2>1, <2>2 DEF RequestRecord
  <2>6. a.endpoint \in {"complete", "submit"} => Verified(a)
    BY <1>2, <2>5 DEF RequestSound, Checked, Verified
  <2>7. RequestSound(a)
    BY <2>2, <2>4, <2>5, <2>6 DEF RequestSound, Asked
  <2> QED
    BY <1>2, <1>4, <2>1, <2>7, RequestStep, SameSeen DEF OnlyRequests
<1>5. (node[q.p][q.i].status = "Claimed") \in BOOLEAN
  OBVIOUS
<1> QED
  BY <1>1, <1>3, <1>4, <1>5 DEF Send

LEMMA DropKeeps ==
  ASSUME ServiceInv, NEW r \in Requests, Drop(r)
  PROVE  ServiceInv'
<1>1. PICK q : q = request[r]
  OBVIOUS
<1>2. q.tx = "sent" /\ OnlyRequests /\ RequestSound(q) /\ With(r, [q EXCEPT !.tx = "failed"])
  BY <1>1 DEF Drop, ServiceInv
<1>3. PICK a : a = [q EXCEPT !.tx = "failed"]
  OBVIOUS
<1>4. q \in RequestRecord /\ "failed" \in TxStates
  BY <1>2 DEF RequestSound, TxStates
<1>5. a \in RequestRecord
  BY <1>3, <1>4 DEF RequestRecord
<1>6. /\ a.at = q.at /\ a.tx = "failed" /\ a.p = q.p /\ a.i = q.i /\ a.job = q.job
      /\ a.endpoint = q.endpoint /\ a.delivery = q.delivery /\ a.answer = q.answer
  BY <1>3, <1>4 DEF RequestRecord
<1>7. Verified(a) <=> Verified(q)
  BY <1>6 DEF Verified
<1>8. RequestSound(a)
  BY <1>2, <1>5, <1>6, <1>7 DEF RequestSound, Busy, Checked, Asked
<1> QED
  BY <1>2, <1>3, <1>8, RequestStep, SameSeen DEF OnlyRequests

LEMMA ConfirmKeeps ==
  ASSUME ServiceInv, NEW r \in Requests, Confirm(r)
  PROVE  ServiceInv'
<1>1. PICK q : q = request[r]
  OBVIOUS
<1>2. /\ q.at = "sent" /\ q.tx = "landed" /\ RequestSound(q)
      /\ seen' = IF q.endpoint = "complete" THEN seen \cup {q.job} ELSE seen
      /\ Answer(r, 200) \/ Answer(r, 500)
      /\ UNCHANGED <<vars, env, signed, delivered>>
  BY <1>1 DEF Confirm, ServiceInv
<1>3. Asked(q)
  BY <1>2 DEF RequestSound, Busy
<1>4. ASSUME q.endpoint = "complete"
      PROVE  Replay(q.job)
  <2>0. Verified(q) /\ Done(q)
    BY <1>2, <1>4 DEF RequestSound, Checked
  <2>1. CASE Happened(q)
    <3>1. node[q.p][q.i].status = "Settled" /\ node[q.p][q.i].job_id = q.job
      BY <1>4, <2>1 DEF Happened
    <3>2. q.job # NoJob
      BY <1>3, <3>1, NodesTyped DEF Asked, NoJob
    <3>3. <<q.p, q.i>> \in NodeIds
      BY <1>3 DEF Asked, NodeIds
    <3>4. Recorded(q.job)
      BY <3>1, <3>2, <3>3 DEF Recorded
    <3> QED
      BY <2>0, <3>4 DEF Verified, Replay, Known
  <2>2. CASE Misaddressed(q.p)
    BY <2>0, <2>2 DEF Verified, Replay, Known
  <2> QED
    BY <2>0, <2>1, <2>2 DEF Done
<1>5. \A job \in seen' : Replay(job)
  BY <1>2, <1>4, SameSeen
<1>6. PICK code \in {200, 400, 404, 409, 500} : Answer(r, code) /\ code # 409
  BY <1>2
<1> QED
  BY <1>1, <1>2, <1>5, <1>6, AnswerStep

LEMMA GiveUpKeeps ==
  ASSUME ServiceInv, NEW r \in Requests, GiveUp(r)
  PROVE  ServiceInv'
BY RefuseStep DEF GiveUp

LEMMA HandleKeeps ==
  ASSUME ServiceInv, NEW r \in Requests, Handle(r)
  PROVE  ServiceInv'
<1>1. CASE LookUp(r)
  <2>1. PICK next \in {"verify", "send"} : next = "verify"
    OBVIOUS
  <2> QED
    BY <1>1, <2>1, IsReplayKeeps DEF LookUp, At
<1>2. ASSUME NEW endpoint, CheckReplay(r, endpoint)
      PROVE  ServiceInv'
  <2>1. PICK next \in {"verify", "send"} : next = "send"
    OBVIOUS
  <2> QED
    BY <1>2, <2>1, IsReplayKeeps DEF CheckReplay, At
<1>3. CASE Complete(r)
  BY <1>1, <1>2, <1>3, CheckSeenKeeps, VerifyKeeps, DeadlineKeeps DEF Complete
<1>4. CASE Submit(r)
  BY <1>2, <1>4, VerifyKeeps, DeadlineKeeps DEF Submit
<1>5. CASE Expire(r)
  BY <1>5, ExpirableKeeps, DeadlineKeeps DEF Expire
<1>6. CASE Finalize(r) \/ Resolve(r)
  BY <1>6, StatusKeeps DEF Finalize, Resolve
<1> QED
  BY <1>3, <1>4, <1>5, <1>6, SendKeeps, ConfirmKeeps, GiveUpKeeps DEF Handle

(***************************************************************************)
(* A transaction lands                                                      *)
(***************************************************************************)
LEMMA LandedWork ==
  ASSUME ServiceInv, ChainInv', NodesForward, UNCHANGED signed, NEW q, Asked(q), Landed(q),
         DeliveriesKept,
         q.endpoint = "submit" => delivered'[q.p][q.i] = q.delivery,
         q.endpoint \in {"complete", "submit"} => Verified(q)
  PROVE  WorkInv'
<1> SUFFICES ASSUME NEW p \in Pipelines, NEW i \in Indexes
             PROVE  Misaddressed(p)' \/ WorkSound(p, i)'
  BY DEF WorkInv
<1>1. CASE NoNewWork(node'[p][i], node[p][i])
  BY <1>1, WorkStable
<1>2. CASE ~NoNewWork(node'[p][i], node[p][i])
  <2>1. q.endpoint \in {"complete", "submit"} /\ q.p = p /\ q.i = i
    BY <1>2 DEF Landed, FiveEndpoints, NothingNew, OthersNothingNew
  <2>2. CASE Misaddressed(p)
    BY <2>2, MisaddressedStable
  <2>3. CASE SignedFor(p, i, q.delivery)
    <3>1. PICK delivery : delivery = q.delivery
      OBVIOUS
    <3>2. SignedFor(p, i, delivery)'
      BY <2>3, <3>1, SignedForStable DEF ServiceInv
    <3>3. CASE q.endpoint = "complete"
      <4>1. node'[p][i].status = "Settled"
        BY <2>1, <3>3 DEF Landed
      <4> QED
        BY <3>2, <4>1 DEF UnderReview, WorkSound
    <3>4. CASE q.endpoint = "submit"
      <4>1. node'[p][i].status = "Submitted" /\ delivered'[p][i] = delivery
        BY <2>1, <3>1, <3>4 DEF Landed
      <4>2. SignedFor(p, i, delivered[p][i])'
        BY <3>2, <4>1 DEF SignedFor
      <4> QED
        BY <4>1, <4>2 DEF WorkSound
    <3> QED
      BY <2>1, <3>3, <3>4
  <2> QED
    BY <2>1, <2>2, <2>3 DEF Verified
<1> QED
  BY <1>1, <1>2

LEMMA LandedHappened ==
  ASSUME ServiceInv, NodesForward, UNCHANGED signed, NEW q, Asked(q), Landed(q),
         Verified(q) \/ q.endpoint \notin {"complete", "submit"},
         q.endpoint = "submit" => delivered'[q.p][q.i] = q.delivery
  PROVE  Done(q)'
<1>1. CASE q.endpoint \in {"complete", "submit"} /\ Misaddressed(q.p)
  <2>1. Misaddressed(q.p)'
    BY <1>1, MisaddressedStable DEF Asked
  <2> QED
    BY <1>1, <2>1 DEF Done
<1>2. CASE q.endpoint \in {"complete", "submit"} /\ q.job = node[q.p][q.i].job_id
  <2>1. Happened(q)'
    BY <1>2 DEF Landed, Happened
  <2> QED
    BY <2>1 DEF Done
<1>3. CASE q.endpoint \in {"expire", "finalize", "resolve"}
  <2>1. Happened(q)'
    BY <1>3 DEF Landed, Happened
  <2> QED
    BY <2>1 DEF Done
<1> QED
  BY <1>1, <1>2, <1>3 DEF Landed, FiveEndpoints, Verified

LEMMA LandKeeps ==
  ASSUME ServiceInv, NEW r \in Requests, Land(r)
  PROVE  ServiceInv' /\ Next
<1>1. PICK q : q = request[r]
  OBVIOUS
<1>2. /\ q.tx = "sent" /\ Execute(q) /\ With(r, [q EXCEPT !.tx = "landed"])
      /\ delivered' = IF q.endpoint = "submit" THEN [delivered EXCEPT ![q.p][q.i] = q.delivery]
                                               ELSE delivered
      /\ UNCHANGED <<env, seen, signed>>
  BY <1>1 DEF Land
<1>3. RequestSound(q) /\ q \in RequestRecord /\ Asked(q) /\ q.delivery \in SomeDelivery
  BY <1>1, <1>2 DEF ServiceInv, RequestSound, RequestRecord, Busy
<1>4. q.endpoint \in {"complete", "submit"} => Verified(q)
  BY <1>2, <1>3 DEF RequestSound, Checked
<1>5. env.facilitator \in Keys
  BY DEF ServiceInv, CacheInv
<1>6. Next /\ NodesForward /\ Landed(q)
  BY <1>2, <1>3, <1>5, ExecuteForward DEF ServiceInv
<1>7. ChainInv' /\ PositionInv'
  BY <1>6, ChainPreserved, PositionsPreserved DEF ServiceInv
<1>8. delivered' \in [Pipelines -> [Indexes -> SomeDelivery]]
  BY <1>2, <1>3 DEF ServiceInv, SignedInv
<1>9. q.endpoint = "submit" => delivered'[q.p][q.i] = q.delivery
  BY <1>2, <1>3 DEF ServiceInv, SignedInv, Asked
<1>10. DeliveriesKept
  <2>1. q.endpoint = "submit" => node[q.p][q.i].status = "Claimed"
    BY <1>6 DEF Landed
  <2> QED
    BY <1>2, <2>1 DEF DeliveriesKept, ServiceInv, SignedInv
<1>11. SignedInv' /\ CacheInv'
  BY <1>2, <1>6, <1>8, SignedStable, CacheStable
<1>12. WorkInv'
  BY <1>2, <1>3, <1>4, <1>6, <1>7, <1>9, <1>10, LandedWork
<1>13. PICK a : a = [q EXCEPT !.tx = "landed"]
  OBVIOUS
<1>14. RequestSound(a)'
  <2>1. "landed" \in TxStates
    BY DEF TxStates
  <2>2. a \in RequestRecord
    BY <1>3, <1>13, <2>1 DEF RequestRecord
  <2>3. /\ a.at = q.at /\ a.tx = "landed" /\ a.p = q.p /\ a.i = q.i /\ a.job = q.job
        /\ a.endpoint = q.endpoint /\ a.delivery = q.delivery /\ a.answer = q.answer
        /\ a.upheld = q.upheld
    BY <1>3, <1>13 DEF RequestRecord
  <2>4. a \in RequestRecord'
    BY <1>2, <2>2 DEF RequestRecord, SomeSignature
  <2>5. a.endpoint \in {"complete", "submit"} => Verified(a)
    BY <1>4, <2>3 DEF Verified
  <2>6. a.endpoint \in {"complete", "submit"} => Verified(a)'
    BY <1>2, <1>3, <1>6, <2>3, <2>5, VerifiedStable DEF ServiceInv, Asked
  <2>7. Landed(a) /\ Asked(a)
    BY <1>3, <1>6, <2>3 DEF Landed, Asked
  <2>8. Done(a)' /\ a.endpoint \in FiveEndpoints
    BY <1>2, <1>6, <1>9, <2>3, <2>5, <2>7, LandedHappened DEF Landed
  <2>9. a.at = "answered" /\ a.answer = 409 => Replay(a.job)'
    BY <1>2, <1>3, <1>6, <2>3, ReplayStable DEF RequestSound, ServiceInv
  <2>10. q.at \in {"idle", "sent", "answered"}
    BY <1>2, <1>3 DEF RequestSound
  <2> QED
    BY <1>3, <2>3, <2>4, <2>6, <2>8, <2>9, <2>10 DEF RequestSound, Asked
<1>15. /\ request' = [x \in Requests |-> request'[x]] /\ request'[r] = a
       /\ \A x \in Requests \ {r} : request'[x] = request[x]
  BY <1>2, <1>13 DEF With, ServiceInv
<1> DEFINE R == {r}
<1>16. /\ R \in SUBSET Requests /\ (\A x \in Requests \ R : request'[x] = request[x])
       /\ \A x \in R : \E y : request'[x] = y /\ RequestSound(y)'
  BY <1>14, <1>15
<1> HIDE DEF R
<1>17. \A x \in Requests : RequestSound(request[x])'
  BY <1>2, <1>6, <1>7, <1>10, <1>15, <1>16, RequestsStable
<1> QED
  BY <1>6, <1>7, <1>11, <1>12, <1>15, <1>17 DEF ServiceInv

(***************************************************************************)
(* The process restarts; an agent signs                                     *)
(***************************************************************************)
LEMMA RestartKeeps ==
  ASSUME ServiceInv, Restart
  PROVE  ServiceInv'
<1>1. UNCHANGED vars /\ UNCHANGED <<signed, delivered>> /\ seen' = {}
  BY DEF Restart
<1>2. ChainInv' /\ PositionInv' /\ NodesForward /\ NothingNew
  BY <1>1, ChainPreserved, PositionsPreserved, QuietForward DEF ServiceInv
<1>3. CacheInv'
  <2>1. pipeline_config.facilitator_authority \in Keys /\ pipeline_config.operator \in Keys
    BY DEF ServiceInv, ChainInv, TypeOK, ConfigAccount
  <2>2. env' \in {env, [facilitator |-> pipeline_config.facilitator_authority,
                         operator |-> pipeline_config.operator]}
    BY DEF Restart
  <2>3. env' \in [facilitator: Keys, operator: Keys]
    BY <2>1, <2>2 DEF ServiceInv, CacheInv
  <2> QED
    BY <1>1, <2>3 DEF CacheInv
<1>4. ASSUME NEW r \in Requests
      PROVE  \E y : request'[r] = y /\ RequestSound(y)'
  <2>1. PICK q : q = request[r]
    OBVIOUS
  <2>2. RequestSound(q) /\ q \in RequestRecord
    BY <2>1 DEF ServiceInv, RequestSound
  <2>3. PICK y : y = request'[r]
    OBVIOUS
  <2>4. RequestSound(y)
    <3>1. CASE q.tx = "sent"
      <4>1. y = [q EXCEPT !.at = "idle", !.answer = 0, !.signature = Unsigned, !.deadline = 0]
        BY <2>1, <2>3, <3>1 DEF Restart
      <4>2. /\ "idle" \in Places /\ 0 \in Codes /\ Unsigned \in SomeSignature /\ 0 \in Nat
        BY DEF Places, Codes, SomeSignature
      <4>3. y \in RequestRecord
        BY <2>2, <4>1, <4>2 DEF RequestRecord
      <4>4. /\ y.at = "idle" /\ y.tx = q.tx /\ y.p = q.p /\ y.i = q.i /\ y.job = q.job
            /\ y.endpoint = q.endpoint /\ y.delivery = q.delivery
        BY <2>2, <4>1 DEF RequestRecord
      <4>5. Verified(y) <=> Verified(q)
        BY <4>4 DEF Verified
      <4> QED
        BY <2>2, <3>1, <4>3, <4>4, <4>5 DEF RequestSound, Busy, Checked, Asked
    <3>2. CASE q.tx # "sent"
      <4>1. y = NoRequest
        BY <2>1, <2>3, <3>2 DEF Restart
      <4> QED
        BY <4>1, NoRequestSound
    <3> QED
      BY <3>1, <3>2
  <2>5. DeliveriesKept /\ SignedInv
    BY <1>1 DEF DeliveriesKept, ServiceInv
  <2>6. RequestSound(y)'
    BY <1>1, <1>2, <2>4, <2>5, RequestStable DEF ServiceInv
  <2> QED
    BY <2>3, <2>6
<1>5. request' = [x \in Requests |-> request'[x]]
  BY DEF Restart
<1>6. \A x \in Requests \ Requests : request'[x] = request[x]
  OBVIOUS
<1> QED
  BY <1>1, <1>2, <1>3, <1>4, <1>5, <1>6, IdleStep

LEMMA SignKeeps ==
  ASSUME ServiceInv, NEW agent \in Agents, NEW p \in Pipelines, NEW i \in Indexes,
         NEW job \in JobIds, NEW delivery \in Deliveries, Sign(agent, p, i, job, delivery)
  PROVE  ServiceInv'
<1>1. PICK s \in Signatures :
        s = [agent |-> agent, p |-> p, i |-> i, job |-> job, delivery |-> delivery]
  BY DEF Signatures
<1>2. /\ signed' = signed \cup {s}
      /\ UNCHANGED vars /\ UNCHANGED <<env, seen, request, delivered>>
  BY <1>1 DEF Sign, server
<1>3. ChainInv' /\ PositionInv' /\ NodesForward /\ NothingNew
  BY <1>2, ChainPreserved, PositionsPreserved, QuietForward DEF ServiceInv
<1>8. SignedInv'
  BY <1>2 DEF SignedInv, ServiceInv
<1>9. DeliveriesKept /\ signed \subseteq signed'
  BY <1>2 DEF DeliveriesKept
<1>10. WorkInv'
  BY <1>3, <1>9, WorkStable DEF NothingNew, WorkInv
<1>11. CacheInv'
  BY <1>2, <1>3, <1>9, CacheStable
<1> DEFINE R == {}
<1>12. /\ R \in SUBSET Requests /\ (\A x \in Requests \ R : request'[x] = request[x])
       /\ \A x \in R : \E y : request'[x] = y /\ RequestSound(y)'
  BY <1>2
<1>13. request' = [x \in Requests |-> request'[x]]
  BY <1>2 DEF ServiceInv
<1> HIDE DEF R
<1>14. \A x \in Requests : RequestSound(request[x])'
  BY <1>3, <1>9, <1>12, <1>13, RequestsStable
<1> QED
  BY <1>3, <1>8, <1>10, <1>11, <1>13, <1>14 DEF ServiceInv

(***************************************************************************)
(* The theorems                                                             *)
(***************************************************************************)
LEMMA InitService == FacilitatorInit => ServiceInv
<1> SUFFICES ASSUME FacilitatorInit PROVE ServiceInv
  OBVIOUS
<1>1. ChainInv /\ PositionInv
  BY InitTyped, InitReview, InitJobs, InitPositions DEF FacilitatorInit, ChainInv
<1>2. CacheInv
  BY <1>1 DEF FacilitatorInit, CacheInv, ChainInv, TypeOK, ConfigAccount
<1>3. SignedInv
  BY DEF FacilitatorInit, SignedInv, SomeDelivery
<1>4. WorkInv
  <2>1. \A p \in Pipelines, i \in Indexes : node[p][i].status = "Absent"
    BY DEF FacilitatorInit, Init, NoNode
  <2> QED
    BY <2>1 DEF WorkInv, WorkSound, UnderReview
<1>5. request = [r \in Requests |-> NoRequest]
  BY DEF FacilitatorInit
<1>6. \A r \in Requests : RequestSound(request[r])
  BY <1>5, NoRequestSound
<1> QED
  BY <1>1, <1>2, <1>3, <1>4, <1>5, <1>6 DEF ServiceInv

LEMMA ServicePreserved ==
  ASSUME ServiceInv, [FacilitatorNext]_fvars
  PROVE  ServiceInv'
<1>1. ASSUME NEW r \in Requests, Call(r) \/ Handle(r) \/ Land(r) \/ Drop(r)
      PROVE  ServiceInv'
  BY <1>1, CallKeeps, HandleKeeps, LandKeeps, DropKeeps
<1>2. CASE OthersStep \/ UNCHANGED fvars
  BY <1>2, OthersKeep
<1>3. CASE Restart
  BY <1>3, RestartKeeps
<1>4. ASSUME NEW agent \in Agents, NEW p \in Pipelines, NEW i \in Indexes,
             NEW job \in JobIds, NEW delivery \in Deliveries, Sign(agent, p, i, job, delivery)
      PROVE  ServiceInv'
  BY <1>4, SignKeeps
<1> QED
  BY <1>1, <1>2, <1>3, <1>4 DEF FacilitatorNext

LEMMA ServiceAnswers ==
  ASSUME ServiceInv
  PROVE  SeenIsRecorded /\ AnswersTrue /\ OnlySignedWorkCounts
<1>1. ASSUME NEW r \in Requests
      PROVE  /\ request[r].at \in Places
             /\ request[r].tx \in {"none", "sent", "landed", "failed"}
             /\ request[r].answer \in {0, 200, 400, 404, 409, 500}
             /\ request[r].job \in JobIds \cup {NoJob}
  BY DEF ServiceInv, RequestSound, RequestRecord, TxStates, Codes, SomeJob
<1>2. SeenIsRecorded
  BY <1>1 DEF SeenIsRecorded, ServerTypeOK, ServiceInv, CacheInv, Replay
<1>3. AnswersTrue
  BY DEF AnswersTrue, ServiceInv, RequestSound, Replay
<1>4. OnlySignedWorkCounts
  <2> SUFFICES ASSUME NEW p \in Pipelines, NEW i \in Indexes, ~Misaddressed(p)
               PROVE  LET signedFor(delivery) ==
                            \E s \in signed :
                              /\ s.agent = node[p][i].agent /\ s.job = node[p][i].job_id
                              /\ s.p = p /\ s.i = i /\ s.delivery = delivery
                      IN
                      /\ node[p][i].status \in {"Submitted", "Disputed", "Settled"} =>
                           \E delivery \in Deliveries : signedFor(delivery)
                      /\ settlement[p][i].open => signedFor(delivered[p][i])
    BY DEF OnlySignedWorkCounts
  <2> DEFINE signedFor(delivery) ==
               \E s \in signed :
                 /\ s.agent = node[p][i].agent /\ s.job = node[p][i].job_id
                 /\ s.p = p /\ s.i = i /\ s.delivery = delivery
  <2>1. \A delivery : SignedFor(p, i, delivery) => delivery \in Deliveries /\ signedFor(delivery)
    BY DEF SignedFor, ServiceInv, SignedInv, Signatures
  <2>2. node[p][i].status \in UnderReview => SignedFor(p, i, delivered[p][i])
    BY DEF ServiceInv, WorkInv, WorkSound
  <2>3. node[p][i].status = "Settled" => \E delivery : SignedFor(p, i, delivery)
    BY DEF ServiceInv, WorkInv, WorkSound
  <2>4. settlement[p][i].open => node[p][i].status \in UnderReview
    BY DEF ServiceInv, ChainInv, ReviewInv, ReviewsMatch, Matches, UnderReview
  <2> HIDE DEF signedFor
  <2>5. node[p][i].status \in {"Submitted", "Disputed", "Settled"} =>
          \E delivery \in Deliveries : signedFor(delivery)
    BY <2>1, <2>2, <2>3 DEF UnderReview
  <2>6. settlement[p][i].open => signedFor(delivered[p][i])
    BY <2>1, <2>2, <2>4
  <2> QED
    BY <2>5, <2>6 DEF signedFor
<1> QED
  BY <1>2, <1>3, <1>4

LEMMA ServiceCorrect == FacilitatorSpec => []ServiceInv
<1>1. FacilitatorInit => ServiceInv
  BY InitService
<1>2. ServiceInv /\ [FacilitatorNext]_fvars => ServiceInv'
  BY ServicePreserved
<1> QED
  BY <1>1, <1>2, PTL DEF FacilitatorSpec

\* The replay cache never runs ahead of the chain, whatever requests are in flight,
\* confirmations are lost or the server restarts.
THEOREM CacheCorrect == FacilitatorSpec => []SeenIsRecorded
<1>1. ServiceInv => SeenIsRecorded
  BY ServiceAnswers
<1> QED
  BY <1>1, ServiceCorrect, PTL

\* A 200 names what happened to that node on chain, a 409 a job with a record.
THEOREM AnswersCorrect == FacilitatorSpec => []AnswersTrue
<1>1. ServiceInv => AnswersTrue
  BY ServiceAnswers
<1> QED
  BY <1>1, ServiceCorrect, PTL

\* Only work that its agent signed for is reviewed or paid.
THEOREM SignedWorkCorrect == FacilitatorSpec => []OnlySignedWorkCounts
<1>1. ServiceInv => OnlySignedWorkCounts
  BY ServiceAnswers
<1> QED
  BY <1>1, ServiceCorrect, PTL

\* The service with the chain takes only steps of the chain's own module: what is
\* proved of DagEscrow holds beside the service as well.
THEOREM ServiceOnChain == FacilitatorSpec => Spec
<1>1. FacilitatorInit => Init
  BY DEF FacilitatorInit
<1>2. ServiceInv /\ [FacilitatorNext]_fvars => [Next]_vars
  <2> SUFFICES ASSUME ServiceInv, [FacilitatorNext]_fvars PROVE [Next]_vars
    OBVIOUS
  <2>1. CASE OthersStep
    BY <2>1, OthersAreChainSteps, ChainStepForward DEF ServiceInv
  <2>2. ASSUME NEW r \in Requests, Land(r) PROVE [Next]_vars
    BY <2>2, LandKeeps
  <2>3. ASSUME NEW r \in Requests, Call(r) \/ Handle(r) \/ Drop(r) PROVE UNCHANGED vars
    BY <2>3 DEF Call, Receive, Handle, Complete, Submit, Expire, Finalize, Resolve,
         CheckSeen, LookUp, Verify, CheckDeadline, CheckReplay, IsReplay, VerifyExpirable,
         CheckOverdue, CheckStatus, Send, Confirm, GiveUp, Drop, OnlyRequests
  <2>4. ASSUME \/ Restart \/ UNCHANGED fvars
               \/ \E agent, p, i, job, delivery : Sign(agent, p, i, job, delivery)
        PROVE  UNCHANGED vars
    BY <2>4 DEF Restart, Sign, fvars
  <2> QED
    BY <2>1, <2>2, <2>3, <2>4 DEF FacilitatorNext
<1> QED
  BY <1>1, <1>2, ServiceCorrect, PTL DEF FacilitatorSpec, Spec
=============================================================================
