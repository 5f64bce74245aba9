-------------------------- MODULE ReputationBridge --------------------------
(***************************************************************************)
(* The reputation_bridge program (src/programs/reputation_bridge/src/       *)
(* lib.rs): one JobRecord per job, written once, and per agent a score that *)
(* moves with every record.  dag_escrow's dag_authority PDA signs the       *)
(* calls.  An instruction is one step, enabled exactly when it returns Ok.  *)
(***************************************************************************)
EXTENDS Integers, FiniteSets

CONSTANTS
  Agents, Keys, Nobody, Authorities,
  Successors,       \* new_operator arguments of propose_operator
  Jobs,             \* job ids
  NoJob,            \* the zeroed last_job_id of a new account
  ScoreDeltas,      \* score_delta arguments of record_completion (an i16)
  Alphas,           \* ema_alpha_bps arguments of initialize
  MaxSlot           \* bound: the clock stops here

\* Neutral first score, penalty of a failed job and top of the scale.
INITIAL_EMA == 5000
FAILURE_DELTA == -5000
EMA_MAX == 10000

I16 == (-32768)..32767

ReputationBridgeAssumption ==
  /\ Nobody \notin Keys
  /\ Successors \subseteq Keys \cup {Nobody}
  /\ NoJob \notin Jobs
  /\ ScoreDeltas \subseteq I16
  /\ Alphas \subseteq 0..10000     \* initialize rejects a larger rate
  /\ MaxSlot \in Nat \ {0}

VARIABLES
  slot,
  bridge_config,
  agent_reputation,   \* AgentReputation accounts
  job_record          \* JobRecord accounts that exist, by job id

rbvars == <<bridge_config, agent_reputation, job_record>>
vars == <<slot, rbvars>>

NoReputation ==
  [exists |-> FALSE, ema_score |-> 0, total_settled |-> 0, total_failed |-> 0,
   last_job_id |-> NoJob, last_updated_slot |-> 0]

\* The state initialize leaves.
Init ==
  /\ slot = 1
  /\ bridge_config \in
       [operator: Keys, dag_escrow_authority: Authorities, ema_alpha_bps: Alphas,
        pending_operator: {Nobody}]
  /\ agent_reputation = [a \in Agents |-> NoReputation]
  /\ job_record = <<>>

Tick == slot < MaxSlot /\ slot' = slot + 1 /\ UNCHANGED rbvars

(***************************************************************************)
(* Operator instructions                                                    *)
(***************************************************************************)
IsOperator(key) == key = bridge_config.operator

SetDagEscrowAuthority(operator, authority) ==
  /\ IsOperator(operator)
  /\ bridge_config' = [bridge_config EXCEPT !.dag_escrow_authority = authority]
  /\ UNCHANGED <<slot, agent_reputation, job_record>>

ProposeOperator(operator, new_operator) ==
  /\ IsOperator(operator)
  /\ bridge_config' = [bridge_config EXCEPT !.pending_operator = new_operator]
  /\ UNCHANGED <<slot, agent_reputation, job_record>>

AcceptOperator(new_operator) ==
  /\ bridge_config.pending_operator # Nobody
  /\ new_operator = bridge_config.pending_operator
  /\ bridge_config' =
       [bridge_config EXCEPT !.operator = new_operator, !.pending_operator = Nobody]
  /\ UNCHANGED <<slot, agent_reputation, job_record>>

(***************************************************************************)
(* Recording outcomes                                                       *)
(***************************************************************************)
\* i64 division by 10_000: Rust rounds toward zero.
FloorDivBps(x) == x \div 10000    \* a seeded fault: rounds down
DivBps(x) == IF x >= 0 THEN x \div 10000 ELSE -((-x) \div 10000)

ClampAbove(x) == IF x > EMA_MAX THEN EMA_MAX ELSE x    \* a seeded fault

Clamp(x) == IF x < 0 THEN 0 ELSE IF x > EMA_MAX THEN EMA_MAX ELSE x

ApplyEma(old, delta) == Clamp(old + DivBps(delta * bridge_config.ema_alpha_bps))

\* A seeded fault: the account is initialised on every call.
ReputationAfresh(a) == [NoReputation EXCEPT !.exists = TRUE, !.ema_score = INITIAL_EMA]

\* init_if_needed followed by init_rep_if_new.
Reputation(a) ==
  IF agent_reputation[a].exists THEN agent_reputation[a]
  ELSE [NoReputation EXCEPT !.exists = TRUE, !.ema_score = INITIAL_EMA]

\* A seeded fault: a failure may still be overwritten.
NotSettledYet(job) ==
  job \in DOMAIN job_record => job_record[job].outcome # "Settled"

NoReceiptYet(job) == job \notin DOMAIN job_record    \* the account is created with init

\* gate, and the init of the JobRecord account.
MayRecord(authority, job) ==
  /\ authority = bridge_config.dag_escrow_authority
  /\ NoReceiptYet(job)

\* What both outcomes check and write.
RecordOutcome(authority, a, job, outcome, delta) ==
  LET settled == outcome = "Settled" IN
  /\ MayRecord(authority, job)
  /\ agent_reputation' = [agent_reputation EXCEPT ![a] =
       [Reputation(a) EXCEPT
          !.ema_score = ApplyEma(@, delta),
          !.total_settled = IF settled THEN @ + 1 ELSE @,
          !.total_failed = IF settled THEN @ ELSE @ + 1,
          !.last_job_id = job,
          !.last_updated_slot = slot]]
  /\ job_record' = [j \in DOMAIN job_record \cup {job} |->
       IF j = job
       THEN [agent |-> a, outcome |-> outcome, score_delta |-> delta,
             recorded_at_slot |-> slot]
       ELSE job_record[j]]
  /\ UNCHANGED <<slot, bridge_config>>

RecordCompletion(authority, a, job, score_delta) ==
  RecordOutcome(authority, a, job, "Settled", score_delta)

RecordFailure(authority, a, job) ==
  RecordOutcome(authority, a, job, "Failed", FAILURE_DELTA)

-----------------------------------------------------------------------------
OperatorStep ==
  \E operator \in Keys :
    \/ \E authority \in Authorities : SetDagEscrowAuthority(operator, authority)
    \/ \E key \in Successors : ProposeOperator(operator, key)
    \/ AcceptOperator(operator)

EscrowCall(authority, a, job) ==
  \/ \E score_delta \in ScoreDeltas : RecordCompletion(authority, a, job, score_delta)
  \/ RecordFailure(authority, a, job)

Next ==
  \/ Tick
  \/ OperatorStep
  \/ \E authority \in Authorities, a \in Agents, job \in Jobs : EscrowCall(authority, a, job)

Spec == Init /\ [][Next]_vars

(***************************************************************************)
(*                               Properties                                *)
(***************************************************************************)

BridgeConfig ==
  [operator: Keys, dag_escrow_authority: Authorities, ema_alpha_bps: Alphas,
   pending_operator: Keys \cup {Nobody}]
AgentReputation ==
  [exists: BOOLEAN, ema_score: 0..EMA_MAX, total_settled: Nat, total_failed: Nat,
   last_job_id: Jobs \cup {NoJob}, last_updated_slot: 0..MaxSlot]
JobRecord ==
  [agent: Agents, outcome: {"Settled", "Failed"}, score_delta: I16,
   recorded_at_slot: 1..MaxSlot]

\* Every account holds values of its type; the score stays on its scale.
TypeOK ==
  /\ slot \in 1..MaxSlot
  /\ bridge_config \in BridgeConfig
  /\ agent_reputation \in [Agents -> AgentReputation]
  /\ DOMAIN job_record \subseteq Jobs
  /\ \A j \in DOMAIN job_record : job_record[j] \in JobRecord

RecordsOf(a, outcome) ==
  {j \in DOMAIN job_record : job_record[j].agent = a /\ job_record[j].outcome = outcome}

\* An agent's totals count exactly the receipts that name it, and its last job is
\* the newest of them: the score account and the receipts, two accounts written
\* by one call, never drift apart.
ReputationMatchesReceipts ==
  \A a \in Agents :
    LET rep == agent_reputation[a]
        receipts == RecordsOf(a, "Settled") \cup RecordsOf(a, "Failed")
    IN
    /\ rep.total_settled = Cardinality(RecordsOf(a, "Settled"))
    /\ rep.total_failed = Cardinality(RecordsOf(a, "Failed"))
    /\ rep.exists <=> receipts # {}
    /\ rep.exists =>
         /\ rep.last_job_id \in receipts
         /\ \A j \in receipts : job_record[j].recorded_at_slot <= rep.last_updated_slot

\* A receipt is permanent: no later call for the same job replaces it (the init
\* of the JobRecord account is the replay guard).
ReceiptsPermanent ==
  [][\A j \in DOMAIN job_record : j \in DOMAIN job_record' /\ job_record'[j] = job_record[j]]_vars

\* A known agent's score moves only with a new receipt naming it, in the direction
\* of that receipt's delta and by at most the weighted
\* delta: rounding and clamping never turn a penalty into a reward.
ScoreFollowsReceipts ==
  [][\A a \in Agents :
       LET old == agent_reputation[a].ema_score
           new == agent_reputation'[a].ema_score
       IN
       agent_reputation[a].exists /\ new # old =>
         \E j \in DOMAIN job_record' \ DOMAIN job_record :
           LET delta == job_record'[j].score_delta IN
           /\ job_record'[j].agent = a
           /\ IF delta > 0 THEN new > old /\ (new - old) * 10000 <= delta * bridge_config.ema_alpha_bps
              ELSE new < old /\ (old - new) * 10000 <= (-delta) * bridge_config.ema_alpha_bps]_vars
=============================================================================
