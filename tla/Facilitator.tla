---------------------------- MODULE Facilitator -----------------------------
(***************************************************************************)
(* The facilitator service (src/facilitator/src): the HTTP server that      *)
(* holds the facilitator key.  A request reads the chain at each of its     *)
(* awaits, so the chain moves between two steps of a request; its           *)
(* transaction lands later, is dropped, or lands after the server gave up   *)
(* waiting for it.  A restart loses the requests and the replay cache.      *)
(*                                                                          *)
(* The chain is module DagEscrow.  getPipeline's reads of one pipeline are  *)
(* taken as one read.                                                       *)
(***************************************************************************)
EXTENDS DagEscrow

CONSTANTS
  Requests,    \* the requests the server handles at the same time
  Endpoints,   \* the endpoints clients call
  Deliveries,  \* (result hash, uri) pairs
  Misread,     \* a pair whose hash came out as other bytes than were sent
  Unsigned,    \* a signature no agent made
  UsdcMint     \* addresses.usdcMint: the mint every transaction of the server names

ASSUME ServiceAssumption == UsdcMint \in Mints /\ Misread \notin Deliveries

VARIABLES
  env,        \* loadConfig: the facilitator key, the operator it pays fees to
  seen,       \* ReplayGuard.seen
  request,    \* what each request holds between two awaits
  signed,     \* what agents have signed for: [agent, p, i, job, delivery]
  delivered   \* result_hash and uri of each NodeSettlement

server == <<env, seen, request>>
service == <<server, signed, delivered>>
fvars == <<vars, service>>

NoRequest ==
  [at |-> "idle", endpoint |-> "none", p |-> CHOOSE p \in Pipelines : TRUE, i |-> 0,
   signature |-> Unsigned, delivery |-> CHOOSE d \in Deliveries : TRUE, upheld |-> FALSE,
   job |-> NoJob, deadline |-> 0, claimed |-> FALSE, tx |-> "none", answer |-> 0]

\* A seeded fault: a message that names neither the node nor its job.
ProofOnly(p, i, job, delivery) == <<p, delivery>>

\* deliveryMessage: pipeline, node index, job id, result hash, sha256(uri).
DeliveryMessage(p, i, job, delivery) == <<p, i, job, delivery>>

\* getPipeline(...).nodes[idx]: the node accounts that exist, in order, so that
\* position idx of the list need not be node idx.
AtPosition(p, idx) ==
  LET nodes == {j \in Indexes : NodeExists(p, j)}
  IN  {j \in nodes : Cardinality({k \in nodes : k < j}) = idx}

\* A JobRecord exists for the jobs that ended: ChainPipe, ReceiptPerEndedJob.
Recorded(job) ==
  \E n \in NodeIds :
    /\ node[n[1]][n[2]].job_id = job /\ job # NoJob
    /\ node[n[1]][n[2]].status \in {"Settled", "Expired"}

(***************************************************************************)
(* Requests                                                                 *)
(***************************************************************************)
\* decodeSignature, by which the server also reads the result hash: base64.  The
\* work page sends hex, which is base64 of 48 other bytes; the first 32 are taken.
Encodings == {"base64", "hex"}
Decoded(delivery, encoding) == IF encoding = "base64" THEN delivery ELSE Misread

\* Of an answered request, what the answer is about is kept.
Answered(q, code) ==
  IF code \in {400, 404}
  THEN [NoRequest EXCEPT !.at = "answered", !.answer = code]
  ELSE [q EXCEPT !.at = "answered", !.answer = code, !.signature = Unsigned, !.deadline = 0]

With(r, q) == request' = [request EXCEPT ![r] = q]
Answer(r, code) == With(r, Answered(request[r], code))
At(r, endpoint, place) == request[r].endpoint = endpoint /\ request[r].at = place

\* The chain and everything but the requests stay as they are.
OnlyRequests == UNCHANGED <<vars, env, seen, signed, delivered>>

Receive(r, endpoint, p, i, delivery, encoding, signature, upheld) ==
  /\ request[r].at \in {"idle", "answered"}
  /\ request[r].tx # "sent"
  /\ With(r, [NoRequest EXCEPT !.at = "received", !.endpoint = endpoint, !.p = p, !.i = i,
                !.delivery = Decoded(delivery, encoding), !.signature = signature,
                !.upheld = upheld])
  /\ OnlyRequests

\* /complete's first replay check: the node's job in the cache ...
CheckSeen(r) ==
  LET q == request[r]
      found == AtPosition(q.p, q.i)
  IN
  /\ At(r, "complete", "received")
  /\ \/ found = {} /\ With(r, [q EXCEPT !.at = "verify"])
     \/ \E j \in found :
          LET known == [q EXCEPT !.job = node[q.p][j].job_id] IN
          With(r, IF known.job \in seen THEN Answered(known, 409)
                                        ELSE [known EXCEPT !.at = "lookup"])
  /\ OnlyRequests

\* ... or, an await later, on chain.  isReplay runs again before sending.
IsReplay(r, next) ==
  LET job == request[r].job IN
  \/ /\ job \in seen \/ Recorded(job)
     /\ seen' = seen \cup {job}
     /\ Answer(r, 409)
     /\ UNCHANGED <<vars, env, signed, delivered>>
  \/ /\ job \notin seen /\ ~Recorded(job)
     /\ With(r, [request[r] EXCEPT !.at = next])
     /\ OnlyRequests

LookUp(r) == At(r, "complete", "lookup") /\ IsReplay(r, "verify")
CheckReplay(r, endpoint) == At(r, endpoint, "guard") /\ IsReplay(r, "send")

\* verifyCompletion up to its signature check.
SignatureValid(q, j) ==
  LET s == q.signature IN
  /\ s \in signed
  /\ s.agent = node[q.p][j].agent
  /\ DeliveryMessage(s.p, s.i, s.job, s.delivery)
       = DeliveryMessage(q.p, q.i, node[q.p][j].job_id, q.delivery)

Verify(r, endpoint, place) ==
  LET q == request[r]
      valid == {j \in AtPosition(q.p, q.i) :
                  node[q.p][j].status = "Claimed" /\ SignatureValid(q, j)}
  IN
  /\ At(r, endpoint, place)
  /\ \/ valid = {} /\ Answer(r, 400)
     \/ \E j \in valid :
          With(r, [q EXCEPT !.at = "deadline", !.job = node[q.p][j].job_id,
                            !.deadline = node[q.p][j].deadline_slot])
  /\ OnlyRequests

\* The slot is read after the node, and the uri fetched after that: a delivery
\* that is reachable and hashes to something else is refused.
CheckDeadline(r, endpoint) ==
  /\ At(r, endpoint, "deadline")
  /\ \/ Answer(r, 400)
     \/ slot <= request[r].deadline /\ With(r, [request[r] EXCEPT !.at = "guard"])
  /\ OnlyRequests

\* verifyExpirable; node and slot are read apart.
VerifyExpirable(r) ==
  LET q == request[r]
      found == {j \in AtPosition(q.p, q.i) : node[q.p][j].status \notin {"Settled", "Expired"}}
  IN
  /\ At(r, "expire", "received")
  /\ \/ found = {} /\ Answer(r, 400)
     \/ \E j \in found :
          With(r, [q EXCEPT !.at = "deadline", !.deadline = node[q.p][j].deadline_slot])
  /\ OnlyRequests

CheckOverdue(r) ==
  /\ At(r, "expire", "deadline")
  /\ \/ slot <= request[r].deadline /\ Answer(r, 400)
     \/ slot > request[r].deadline /\ With(r, [request[r] EXCEPT !.at = "send"])
  /\ OnlyRequests

\* /finalize and /resolve look at the status of the node at that position.
CheckStatus(r, endpoint, wanted) ==
  LET q == request[r]
      found == AtPosition(q.p, q.i)
  IN
  /\ At(r, endpoint, "received")
  /\ \/ found = {} /\ Answer(r, 404)
     \/ \E j \in found :
          IF node[q.p][j].status = wanted THEN With(r, [q EXCEPT !.at = "send"])
                                          ELSE Answer(r, 400)
  /\ OnlyRequests

\* The SDK fetches the node itself (its job id; for expire_node whether it is
\* claimed, which decides the accounts given) and sends the transaction.
Send(r) ==
  LET q == request[r] IN
  /\ q.at = "send"
  /\ IF NodeExists(q.p, q.i)
     THEN With(r, [q EXCEPT !.at = "sent", !.tx = "sent",
                            !.claimed = (node[q.p][q.i].status = "Claimed")])
     ELSE Answer(r, 500)
  /\ OnlyRequests

(***************************************************************************)
(* The transaction lands, whatever became of the request, or is dropped.    *)
(***************************************************************************)
\* operator_treasury.owner == pipeline_config.operator
TreasuryAccepted == env.operator = pipeline_config.operator

SettleNow(q) == TreasuryAccepted /\ CompleteNode(q.p, q.i, env.facilitator, UsdcMint)
SubmitNode(q) == \E delta \in ScoreDeltas : SubmitCompletion(q.p, q.i, env.facilitator, delta)
\* expire_node needs the slash accounts if and only if the node is claimed, and is
\* given all other nodes of the pipeline.
ExpireOverdue(q) ==
  /\ q.claimed <=> node[q.p][q.i].status = "Claimed"
  /\ ExpireNode(q.p, q.i, {j \in Indexes \ {q.i} : NodeExists(q.p, j)}, UsdcMint)
FinalizeOverdue(q) == TreasuryAccepted /\ FinalizeNode(q.p, q.i, UsdcMint)
ResolveNode(q) ==
  /\ TreasuryAccepted
  /\ IF q.upheld THEN UpholdDispute(q.p, q.i, env.facilitator, UsdcMint)
                 ELSE RejectDispute(q.p, q.i, env.facilitator, UsdcMint)

Execute(q) ==
  \/ q.endpoint = "complete" /\ SettleNow(q)
  \/ q.endpoint = "submit" /\ SubmitNode(q)
  \/ q.endpoint = "expire" /\ ExpireOverdue(q)
  \/ q.endpoint = "finalize" /\ FinalizeOverdue(q)
  \/ q.endpoint = "resolve" /\ ResolveNode(q)

Land(r) ==
  LET q == request[r] IN
  /\ q.tx = "sent"
  /\ Execute(q)
  /\ With(r, [q EXCEPT !.tx = "landed"])
  /\ delivered' = IF q.endpoint = "submit" THEN [delivered EXCEPT ![q.p][q.i] = q.delivery]
                                           ELSE delivered
  /\ UNCHANGED <<env, seen, signed>>

Drop(r) ==
  /\ request[r].tx = "sent"
  /\ With(r, [request[r] EXCEPT !.tx = "failed"])
  /\ OnlyRequests

\* The confirmation arrives; /complete marks the job, and then still reads the
\* agent's reputation, which may fail.
Confirm(r) ==
  LET q == request[r] IN
  /\ q.at = "sent" /\ q.tx = "landed"
  /\ seen' = IF q.endpoint = "complete" THEN seen \cup {q.job} ELSE seen
  /\ \/ Answer(r, 200)
     \/ q.endpoint = "complete" /\ Answer(r, 500)
  /\ UNCHANGED <<vars, env, signed, delivered>>

\* A seeded fault: a transaction that was sent is taken for done.
MarkAndGiveUp(r) ==
  /\ request[r].at = "sent"
  /\ seen' = IF request[r].endpoint = "complete" THEN seen \cup {request[r].job} ELSE seen
  /\ Answer(r, 500)
  /\ UNCHANGED <<vars, env, signed, delivered>>

\* A seeded fault: a lost confirmation is answered like one that came.
AnswerUnconfirmed(r) == request[r].at = "sent" /\ Answer(r, 200) /\ OnlyRequests

\* No confirmation: the transaction failed, or has landed, or may land yet.
GiveUp(r) == request[r].at = "sent" /\ Answer(r, 500) /\ OnlyRequests

\* The process restarts, with the environment as it was or brought up to date.
Restart ==
  /\ env' \in {env, [facilitator |-> pipeline_config.facilitator_authority,
                     operator |-> pipeline_config.operator]}
  /\ seen' = {}
  /\ request' = [r \in Requests |->
       IF request[r].tx = "sent"
       THEN [request[r] EXCEPT !.at = "idle", !.answer = 0, !.signature = Unsigned, !.deadline = 0]
       ELSE NoRequest]
  /\ UNCHANGED <<vars, signed, delivered>>

-----------------------------------------------------------------------------
FacilitatorInit ==
  /\ Init
  /\ env = [facilitator |-> pipeline_config.facilitator_authority,
            operator |-> pipeline_config.operator]
  /\ seen = {}
  /\ request = [r \in Requests |-> NoRequest]
  /\ signed = {}
  /\ delivered = [p \in Pipelines |-> [i \in Indexes |-> NoRequest.delivery]]

\* Nothing keeps an agent from signing for any node, job and delivery.
Sign(agent, p, i, job, delivery) ==
  /\ signed' = signed \cup {[agent |-> agent, p |-> p, i |-> i, job |-> job,
                              delivery |-> delivery]}
  /\ UNCHANGED <<vars, server, delivered>>

\* Everybody but the service; nobody else holds the facilitator's key.
OthersStep ==
  /\ \/ Tick
     \/ OperatorStep
     \/ \E p \in Pipelines :
          \/ ConsumerStep(p)
          \/ \E i \in Indexes :
               \/ \E agent \in Agents, tier \in Tiers : ClaimNode(p, i, agent, tier)
               \/ \E mint \in Mints :
                    \/ FinalizeNode(p, i, mint)
                    \/ ExpireNode(p, i, {j \in Indexes \ {i} : NodeExists(p, j)}, mint)
  /\ UNCHANGED service

Call(r) ==
  \E endpoint \in Endpoints, p \in Pipelines, i \in Indexes :
    \/ /\ endpoint \in {"complete", "submit"}
       /\ \E delivery \in Deliveries, encoding \in Encodings,
             signature \in signed \cup {Unsigned} :
            Receive(r, endpoint, p, i, delivery, encoding, signature, FALSE)
    \/ /\ endpoint \in {"expire", "finalize"}
       /\ Receive(r, endpoint, p, i, NoRequest.delivery, "base64", Unsigned, FALSE)
    \/ /\ endpoint = "resolve"
       /\ \E upheld \in BOOLEAN :
            Receive(r, endpoint, p, i, NoRequest.delivery, "base64", Unsigned, upheld)

\* The five endpoints.
Complete(r) ==
  CheckSeen(r) \/ LookUp(r) \/ Verify(r, "complete", "verify")
    \/ CheckDeadline(r, "complete") \/ CheckReplay(r, "complete")
Submit(r) ==
  Verify(r, "submit", "received") \/ CheckDeadline(r, "submit") \/ CheckReplay(r, "submit")
Expire(r) == VerifyExpirable(r) \/ CheckOverdue(r)
Finalize(r) == CheckStatus(r, "finalize", "Submitted")
Resolve(r) == CheckStatus(r, "resolve", "Disputed")

Handle(r) ==
  \/ Complete(r) \/ Submit(r) \/ Expire(r) \/ Finalize(r) \/ Resolve(r)
  \/ Send(r) \/ Confirm(r) \/ GiveUp(r)

FacilitatorNext ==
  \/ OthersStep
  \/ Restart
  \/ \E agent \in Agents, p \in Pipelines, i \in Indexes, job \in JobIds,
       delivery \in Deliveries : Sign(agent, p, i, job, delivery)
  \/ \E r \in Requests : Call(r) \/ Handle(r) \/ Land(r) \/ Drop(r)

FacilitatorSpec == FacilitatorInit /\ [][FacilitatorNext]_fvars

(***************************************************************************)
(*                               Properties                                *)
(***************************************************************************)
Places ==
  {"idle", "received", "lookup", "verify", "deadline", "guard", "send", "sent", "answered"}

\* The server's own state has its type.
ServerTypeOK ==
  /\ env \in [facilitator: Keys, operator: Keys]
  /\ seen \subseteq JobIds
  /\ \A r \in Requests :
       /\ request[r].at \in Places
       /\ request[r].tx \in {"none", "sent", "landed", "failed"}
       /\ request[r].answer \in {0, 200, 400, 404, 409, 500}
       /\ request[r].job \in JobIds \cup {NoJob}

\* Where the server itself is led astray: an agent signed for one node in the name of
\* another one's job, and a node of the pipeline is closed, so that a position is no
\* index.  verifyCompletion then finds the other node's job at the position of the
\* first, and the transaction settles the first.
Misaddressed(p) ==
  NodesWith(p, {"Closed"}) # {} /\ \E s \in signed : s.p = p /\ s.job[2] # s.i

Known(job) == Recorded(job) \/ Misaddressed(job[1])

\* replay.ts: "in-memory set + on-chain JobRecord existence".  The cache never runs
\* ahead of the chain: whatever a request in flight, a lost confirmation or a
\* restart does, a job in it has its record, so a job still to be paid is never
\* refused as a replay, but where a signature was misaddressed.
SeenIsRecorded == ServerTypeOK /\ \A job \in seen : Known(job)

Happened(q) ==
  LET n == node[q.p][q.i] IN
  CASE q.endpoint = "complete" -> n.status = "Settled" /\ n.job_id = q.job
    [] q.endpoint = "submit" ->
         /\ n.job_id = q.job
         /\ n.status \in {"Submitted", "Disputed", "Settled", "Expired"}
         /\ settlement[q.p][q.i].open => delivered[q.p][q.i] = q.delivery
    [] q.endpoint = "expire" -> n.status = "Expired"
    [] q.endpoint = "finalize" -> n.status = "Settled"
    [] q.endpoint = "resolve" -> n.status = IF q.upheld THEN "Expired" ELSE "Settled"

Done(q) == Happened(q) \/ (q.endpoint \in {"complete", "submit"} /\ Misaddressed(q.p))

\* What the server answered is true and stays true: 200 names what happened to
\* that node on chain, 409 a job that has its record, misaddressed signatures aside.
AnswersTrue ==
  \A r \in Requests :
    LET q == request[r] IN
    /\ q.at = "answered" /\ q.answer = 200 => Done(q)
    /\ q.at = "answered" /\ q.answer = 409 => Known(q.job)

\* A node is under review or paid only if its agent signed a delivery for that
\* node and that job, and the delivery in its NodeSettlement is one the agent
\* signed, whatever the chain did between verifying and landing and however
\* the positions of getPipeline's list shift, misaddressed signatures aside.
OnlySignedWorkCounts ==
  \A p \in Pipelines : ~Misaddressed(p) => \A i \in Indexes :
    LET signedFor(delivery) ==
          \E s \in signed :
            /\ s.agent = node[p][i].agent /\ s.job = node[p][i].job_id
            /\ s.p = p /\ s.i = i /\ s.delivery = delivery
    IN
    /\ node[p][i].status \in {"Submitted", "Disputed", "Settled"} =>
         \E delivery \in Deliveries : signedFor(delivery)
    /\ settlement[p][i].open => signedFor(delivered[p][i])

\* docs/PRODUCT.md:394: "a missed deadline always refunds the buyer"; verifier.ts:26
\* "the deadline has not passed": a claimed node whose deadline is over is not
\* settled any more.
MissedDeadlineRefunds ==
  [][\A p \in Pipelines : \A i \in Indexes :
       node[p][i].status = "Claimed" /\ node'[p][i].status = "Settled" =>
         slot <= node[p][i].deadline_slot]_fvars
=============================================================================
