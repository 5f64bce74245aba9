---------------------------- MODULE BridgeProofs ----------------------------
(***************************************************************************)
(* Theorems of ReputationBridge, for any agents, any number of jobs, any    *)
(* deltas an i16 can hold and any weight initialize accepts.                *)
(***************************************************************************)
EXTENDS ReputationBridge, FiniteSetTheorems, TLAPS

(***************************************************************************)
(* The score                                                                *)
(***************************************************************************)
\* Division rounds toward zero: the quotient has the sign of the dividend or is
\* zero, and is no larger than the dividend allows.
LEMMA DivBpsBound ==
  ASSUME NEW x \in Int
  PROVE  /\ DivBps(x) \in Int
         /\ x >= 0 => DivBps(x) >= 0 /\ DivBps(x) * 10000 <= x
         /\ x <= 0 => DivBps(x) <= 0 /\ x <= DivBps(x) * 10000
<1>1. CASE x >= 0
  <2>1. /\ x \div 10000 \in Int /\ x \div 10000 >= 0
        /\ (x \div 10000) * 10000 <= x
    BY <1>1
  <2>2. x <= 0 => x \div 10000 = 0
    BY <1>1
  <2> QED
    BY <1>1, <2>1, <2>2 DEF DivBps
<1>2. CASE x < 0
  <2> DEFINE y == -x
  <2>1. y \in Nat /\ y > 0
    BY <1>2
  <2>2. y \div 10000 \in Nat /\ (y \div 10000) * 10000 <= y
    BY <2>1
  <2>3. DivBps(x) = -(y \div 10000)
    BY <1>2 DEF DivBps
  <2> DEFINE q == y \div 10000
  <2> HIDE DEF q
  <2>4. q \in Nat /\ q * 10000 <= y /\ DivBps(x) = -q
    BY <2>2, <2>3 DEF q
  <2> QED
    BY <1>2, <2>1, <2>4
<1> QED
  BY <1>1, <1>2

LEMMA ClampTyped == \A x \in Int : Clamp(x) \in 0..EMA_MAX
BY DEF Clamp, EMA_MAX

\* A score that moves follows its delta, by no more than the weighted delta.
LEMMA ApplyEmaFollows ==
  ASSUME NEW old \in 0..EMA_MAX, NEW delta \in Int, NEW alpha \in Nat,
         bridge_config.ema_alpha_bps = alpha
  PROVE  LET new == ApplyEma(old, delta) IN
         /\ new \in 0..EMA_MAX
         /\ new # old =>
              IF delta > 0 THEN new > old /\ (new - old) * 10000 <= delta * alpha
              ELSE new < old /\ (old - new) * 10000 <= (-delta) * alpha
<1> DEFINE x == delta * alpha
           q == DivBps(x)
           new == ApplyEma(old, delta)
<1>1. x \in Int /\ (delta > 0 => x >= 0) /\ (delta <= 0 => x <= 0)
  OBVIOUS
<1>2. (-delta) * alpha = -x
  OBVIOUS
<1>3. new = Clamp(old + q)
  BY DEF ApplyEma
<1> HIDE DEF x
<1>4. /\ q \in Int
      /\ x >= 0 => q >= 0 /\ q * 10000 <= x
      /\ x <= 0 => q <= 0 /\ x <= q * 10000
  BY <1>1, DivBpsBound
<1> HIDE DEF q, new
<1>5. new \in 0..EMA_MAX
  <2>1. old + q \in Int
    BY <1>4 DEF EMA_MAX
  <2> QED
    BY <1>3, <2>1, ClampTyped
<1>6. CASE delta > 0
  <2>1. old <= new /\ new - old <= q
    BY <1>1, <1>3, <1>4, <1>6 DEF Clamp, EMA_MAX
  <2>2. new # old => new > old /\ (new - old) * 10000 <= x
    BY <1>1, <1>4, <1>5, <1>6, <2>1 DEF EMA_MAX
  <2> QED
    BY <1>5, <1>6, <2>2 DEF x, new
<1>7. CASE ~(delta > 0)
  <2>1. new <= old /\ old - new <= -q
    BY <1>1, <1>3, <1>4, <1>7 DEF Clamp, EMA_MAX
  <2>2. new # old => new < old /\ (old - new) * 10000 <= -x
    BY <1>1, <1>4, <1>5, <1>7, <2>1 DEF EMA_MAX
  <2> QED
    BY <1>2, <1>5, <1>7, <2>2 DEF new
<1> QED
  BY <1>6, <1>7

LEMMA Constants ==
  ASSUME ReputationBridgeAssumption
  PROVE  /\ Alphas \subseteq Nat /\ MaxSlot \in Nat /\ 1 <= MaxSlot
         /\ ScoreDeltas \subseteq I16 /\ Successors \subseteq Keys \cup {Nobody}
<1>1. /\ Alphas \subseteq 0..10000 /\ MaxSlot \in Nat \ {0}
      /\ ScoreDeltas \subseteq I16 /\ Successors \subseteq Keys \cup {Nobody}
  BY DEF ReputationBridgeAssumption
<1>2. Alphas \subseteq Nat
  <2> SUFFICES ASSUME NEW alpha \in Alphas PROVE alpha \in Nat
    OBVIOUS
  <2>1. alpha \in 0..10000
    BY <1>1
  <2> QED
    BY <2>1
<1> QED
  BY <1>1, <1>2

LEMMA DeltasAreIntegers == \A delta \in I16 : delta \in Int
BY DEF I16

LEMMA SlotTyped ==
  ASSUME ReputationBridgeAssumption, slot \in 1..MaxSlot
  PROVE  slot \in Nat /\ slot \in 0..MaxSlot
<1>1. MaxSlot \in Nat
  BY Constants
<1> QED
  BY <1>1

LEMMA ConfigTyped ==
  ASSUME ReputationBridgeAssumption, bridge_config \in BridgeConfig
  PROVE  bridge_config.ema_alpha_bps \in Nat
<1>1. bridge_config.ema_alpha_bps \in Alphas
  BY DEF BridgeConfig
<1> QED
  BY <1>1, Constants

(***************************************************************************)
(* The invariant.  ReputationMatchesReceipts alone is not inductive: a new  *)
(* receipt is the newest only if no receipt is dated in the future, and     *)
(* counting it needs the receipts to be finitely many.                      *)
(***************************************************************************)
CountsReceipts(rep, settled, failed) ==
  /\ rep.total_settled = Cardinality(settled)
  /\ rep.total_failed = Cardinality(failed)
  /\ rep.exists <=> settled \cup failed # {}
  /\ rep.exists =>
       /\ rep.last_job_id \in settled \cup failed
       /\ \A j \in settled \cup failed : job_record[j].recorded_at_slot <= rep.last_updated_slot

ReceiptsDated ==
  /\ IsFiniteSet(DOMAIN job_record)
  /\ \A j \in DOMAIN job_record : job_record[j].recorded_at_slot <= slot

ReceiptsCounted ==
  \A a \in Agents :
    CountsReceipts(agent_reputation[a], RecordsOf(a, "Settled"), RecordsOf(a, "Failed"))

ReceiptInv == TypeOK /\ ReceiptsDated /\ ReceiptsCounted

LEMMA ReceiptInvImplies == ReceiptInv => ReputationMatchesReceipts
BY DEF ReceiptInv, ReceiptsCounted, CountsReceipts, ReputationMatchesReceipts

LEMMA InitReceipts ==
  ASSUME ReputationBridgeAssumption
  PROVE  Init => ReceiptInv
<1> SUFFICES ASSUME Init PROVE ReceiptInv
  OBVIOUS
<1>1. DOMAIN job_record = {}
  BY DEF Init
<1>2. bridge_config \in BridgeConfig
  BY DEF Init, BridgeConfig
<1>3. NoReputation \in AgentReputation
  BY DEF ReputationBridgeAssumption, NoReputation, AgentReputation, EMA_MAX
<1>4. TypeOK
  <2>1. 1 \in 1..MaxSlot
    BY Constants
  <2> QED
    BY <1>1, <1>2, <1>3, <2>1 DEF Init, TypeOK
<1>5. ReceiptsDated
  BY <1>1, FS_EmptySet DEF ReceiptsDated
<1>6. \A a \in Agents : \A outcome : RecordsOf(a, outcome) = {}
  BY <1>1 DEF RecordsOf
<1>7. Cardinality({}) = 0
  BY FS_EmptySet
<1>8. ReceiptsCounted
  BY <1>6, <1>7 DEF ReceiptsCounted, CountsReceipts, Init, NoReputation
<1> QED
  BY <1>4, <1>5, <1>8 DEF ReceiptInv

\* Steps that write no receipt.
LEMMA NoNewReceipt ==
  ASSUME ReputationBridgeAssumption, ReceiptInv, Tick \/ OperatorStep \/ UNCHANGED vars
  PROVE  ReceiptInv' /\ UNCHANGED <<agent_reputation, job_record>>
<1>1. TypeOK /\ bridge_config \in BridgeConfig
  BY DEF ReceiptInv, TypeOK
<1>2. UNCHANGED <<agent_reputation, job_record>>
  BY DEF Tick, OperatorStep, SetDagEscrowAuthority, ProposeOperator, AcceptOperator, vars, rbvars
<1>3. slot' \in 1..MaxSlot /\ slot' \in Int /\ slot <= slot' /\ slot \in Int
  <2>1. CASE Tick
    BY <1>1, <2>1 DEF Tick, TypeOK, ReputationBridgeAssumption
  <2>2. CASE slot' = slot
    BY <1>1, <2>2 DEF TypeOK, ReputationBridgeAssumption
  <2> QED
    BY <2>1, <2>2 DEF OperatorStep, SetDagEscrowAuthority, ProposeOperator, AcceptOperator, vars
<1>4. bridge_config' \in BridgeConfig
  <2>1. CASE OperatorStep
    <3>1. Successors \subseteq Keys \cup {Nobody}
      BY Constants
    <3> QED
      BY <1>1, <2>1, <3>1 DEF OperatorStep, SetDagEscrowAuthority, ProposeOperator,
                              AcceptOperator, BridgeConfig
  <2>2. CASE UNCHANGED bridge_config
    BY <1>1, <2>2
  <2> QED
    BY <2>1, <2>2 DEF Tick, rbvars, vars
<1>5. TypeOK'
  BY <1>1, <1>2, <1>3, <1>4 DEF TypeOK
<1>6. ReceiptsDated'
  <2> SUFFICES ASSUME NEW j \in DOMAIN job_record
               PROVE  job_record[j].recorded_at_slot <= slot'
    BY <1>2 DEF ReceiptInv, ReceiptsDated
  <2>1. job_record[j].recorded_at_slot \in Int /\ job_record[j].recorded_at_slot <= slot
    BY <1>1 DEF ReceiptInv, ReceiptsDated, TypeOK, JobRecord
  <2> QED
    BY <1>3, <2>1
<1>7. ReceiptsCounted'
  <2> SUFFICES ASSUME NEW a \in Agents
               PROVE  CountsReceipts(agent_reputation[a], RecordsOf(a, "Settled"),
                                     RecordsOf(a, "Failed"))'
    BY DEF ReceiptsCounted
  <2>1. /\ RecordsOf(a, "Settled")' = RecordsOf(a, "Settled")
        /\ RecordsOf(a, "Failed")' = RecordsOf(a, "Failed")
    BY <1>2 DEF RecordsOf
  <2>2. CountsReceipts(agent_reputation[a], RecordsOf(a, "Settled"), RecordsOf(a, "Failed"))
    BY DEF ReceiptInv, ReceiptsCounted
  <2> QED
    BY <1>2, <2>1, <2>2 DEF CountsReceipts
<1> QED
  BY <1>2, <1>5, <1>6, <1>7 DEF ReceiptInv

(***************************************************************************)
(* A receipt is written                                                     *)
(***************************************************************************)
\* The account before the outcome counts.
LEMMA ReputationFields ==
  ASSUME ReputationBridgeAssumption, ReceiptInv, NEW a \in Agents
  PROVE  /\ Reputation(a) \in AgentReputation /\ Reputation(a).exists
         /\ Reputation(a).total_settled = Cardinality(RecordsOf(a, "Settled"))
         /\ Reputation(a).total_failed = Cardinality(RecordsOf(a, "Failed"))
         /\ agent_reputation[a].exists =>
              Reputation(a).ema_score = agent_reputation[a].ema_score
<1>1. /\ agent_reputation[a] \in AgentReputation
      /\ CountsReceipts(agent_reputation[a], RecordsOf(a, "Settled"), RecordsOf(a, "Failed"))
  BY DEF ReceiptInv, TypeOK, ReceiptsCounted
<1>2. CASE agent_reputation[a].exists
  BY <1>1, <1>2 DEF Reputation, CountsReceipts
<1>3. CASE ~agent_reputation[a].exists
  <2> DEFINE fresh == [NoReputation EXCEPT !.exists = TRUE, !.ema_score = INITIAL_EMA]
  <2>1. Reputation(a) = fresh
    BY <1>3 DEF Reputation
  <2>2. RecordsOf(a, "Settled") = {} /\ RecordsOf(a, "Failed") = {} /\ Cardinality({}) = 0
    BY <1>1, <1>3, FS_EmptySet DEF CountsReceipts
  <2>3. /\ fresh \in AgentReputation /\ fresh.exists
        /\ fresh.total_settled = 0 /\ fresh.total_failed = 0
    <3>1. 0 \in 0..MaxSlot
      BY Constants
    <3>2. /\ NoReputation \in AgentReputation
          /\ NoReputation.total_settled = 0 /\ NoReputation.total_failed = 0
      BY <3>1 DEF NoReputation, AgentReputation, EMA_MAX
    <3>3. INITIAL_EMA \in 0..EMA_MAX
      BY DEF INITIAL_EMA, EMA_MAX
    <3> QED
      BY <3>2, <3>3 DEF AgentReputation
  <2> QED
    BY <1>3, <2>1, <2>2, <2>3
<1> QED
  BY <1>2, <1>3

\* What record_completion and record_failure write.
Recorded(a, job, outcome, delta) ==
  /\ job \notin DOMAIN job_record
  /\ DOMAIN job_record' = DOMAIN job_record \cup {job}
  /\ \A j \in DOMAIN job_record : job_record'[j] = job_record[j]
  /\ job_record'[job] \in JobRecord
  /\ job_record'[job].agent = a /\ job_record'[job].outcome = outcome
  /\ job_record'[job].score_delta = delta /\ job_record'[job].recorded_at_slot = slot

LEMMA OutcomeRecorded ==
  ASSUME ReputationBridgeAssumption, TypeOK, NEW authority, NEW a \in Agents, NEW job \in Jobs,
         NEW outcome \in {"Settled", "Failed"}, NEW delta \in I16,
         RecordOutcome(authority, a, job, outcome, delta)
  PROVE  Recorded(a, job, outcome, delta)
<1> DEFINE receipt == [agent |-> a, outcome |-> outcome, score_delta |-> delta,
                       recorded_at_slot |-> slot]
<1>1. /\ job \notin DOMAIN job_record
      /\ job_record' = [j \in DOMAIN job_record \cup {job} |->
                          IF j = job THEN receipt ELSE job_record[j]]
  BY DEF RecordOutcome, MayRecord, NoReceiptYet
<1>2. receipt \in JobRecord
  BY DEF JobRecord, TypeOK
<1>3. /\ receipt.agent = a /\ receipt.outcome = outcome
      /\ receipt.score_delta = delta /\ receipt.recorded_at_slot = slot
  OBVIOUS
<1> HIDE DEF receipt
<1> QED
  BY <1>1, <1>2, <1>3 DEF Recorded

\* What becomes of the agent's score account.
Updated(a, job, outcome, delta) ==
  LET old == Reputation(a)
      settled == outcome = "Settled"
  IN
  \E rep \in AgentReputation :
    /\ agent_reputation' = [agent_reputation EXCEPT ![a] = rep]
    /\ rep.exists /\ rep.ema_score = ApplyEma(old.ema_score, delta)
    /\ rep.total_settled = IF settled THEN old.total_settled + 1 ELSE old.total_settled
    /\ rep.total_failed = IF settled THEN old.total_failed ELSE old.total_failed + 1
    /\ rep.last_job_id = job /\ rep.last_updated_slot = slot

LEMMA OutcomeUpdated ==
  ASSUME ReputationBridgeAssumption, ReceiptInv, NEW authority, NEW a \in Agents,
         NEW job \in Jobs, NEW outcome \in {"Settled", "Failed"}, NEW delta \in Int,
         RecordOutcome(authority, a, job, outcome, delta)
  PROVE  Updated(a, job, outcome, delta)
<1> DEFINE old == Reputation(a)
           settled == outcome = "Settled"
           score == ApplyEma(old.ema_score, delta)
           done == IF settled THEN old.total_settled + 1 ELSE old.total_settled
           failed == IF settled THEN old.total_failed ELSE old.total_failed + 1
           rep == [old EXCEPT !.ema_score = score, !.total_settled = done,
                     !.total_failed = failed, !.last_job_id = job, !.last_updated_slot = slot]
<1>1. old \in AgentReputation /\ old.exists
  BY ReputationFields
<1>2. agent_reputation' = [agent_reputation EXCEPT ![a] = rep]
  BY <1>1 DEF RecordOutcome, AgentReputation
<1>3. score \in 0..EMA_MAX
  <2>1. old.ema_score \in 0..EMA_MAX
    BY <1>1 DEF AgentReputation
  <2>2. PICK alpha \in Nat : bridge_config.ema_alpha_bps = alpha
    BY ConfigTyped DEF ReceiptInv, TypeOK
  <2> HIDE DEF old
  <2> QED
    BY <2>1, <2>2, ApplyEmaFollows
<1>4. done \in Nat /\ failed \in Nat
  BY <1>1 DEF AgentReputation
<1>5. slot \in 0..MaxSlot
  BY SlotTyped DEF ReceiptInv, TypeOK
<1> HIDE DEF old, settled, score, done, failed
<1>6. /\ rep \in AgentReputation
      /\ rep.exists /\ rep.ema_score = score
      /\ rep.total_settled = done /\ rep.total_failed = failed
      /\ rep.last_job_id = job /\ rep.last_updated_slot = slot
  BY <1>1, <1>3, <1>4, <1>5 DEF AgentReputation
<1> HIDE DEF rep
<1> QED
  BY <1>2, <1>6 DEF Updated, old, settled, score, done, failed

\* Exactly one of the agent's two sets of receipts grows, by the new receipt.
LEMMA RecordsGrow ==
  ASSUME NEW a \in Agents, NEW job, NEW outcome \in {"Settled", "Failed"}, NEW delta,
         Recorded(a, job, outcome, delta), NEW b \in Agents, NEW o \in {"Settled", "Failed"}
  PROVE  RecordsOf(b, o)' =
           IF b = a /\ o = outcome THEN RecordsOf(b, o) \cup {job} ELSE RecordsOf(b, o)
<1>1. \A j : j \in RecordsOf(b, o)' <=>
               \/ j \in RecordsOf(b, o)
               \/ j = job /\ b = a /\ o = outcome
  BY DEF RecordsOf, Recorded
<1>2. CASE b = a /\ o = outcome
  BY <1>1, <1>2
<1>3. CASE ~(b = a /\ o = outcome)
  BY <1>1, <1>3
<1> QED
  BY <1>2, <1>3

\* A receipt of the new job is counted once, for it had none.
LEMMA OneMore ==
  ASSUME IsFiniteSet(DOMAIN job_record), NEW a, NEW o, NEW job, job \notin DOMAIN job_record
  PROVE  Cardinality(RecordsOf(a, o) \cup {job}) = Cardinality(RecordsOf(a, o)) + 1
<1>1. RecordsOf(a, o) \subseteq DOMAIN job_record
  BY DEF RecordsOf
<1>2. IsFiniteSet(RecordsOf(a, o)) /\ job \notin RecordsOf(a, o)
  BY <1>1, FS_Subset
<1> QED
  BY <1>2, FS_AddElement

LEMMA OutcomeCounted ==
  ASSUME ReputationBridgeAssumption, ReceiptInv, UNCHANGED <<slot, bridge_config>>,
         NEW a \in Agents, NEW job \in Jobs, NEW outcome \in {"Settled", "Failed"}, NEW delta,
         Recorded(a, job, outcome, delta), Updated(a, job, outcome, delta)
  PROVE  ReceiptInv'
<1> DEFINE old == Reputation(a)
<1>1. /\ old \in AgentReputation
      /\ old.total_settled = Cardinality(RecordsOf(a, "Settled"))
      /\ old.total_failed = Cardinality(RecordsOf(a, "Failed"))
  BY ReputationFields
<1>2. PICK rep \in AgentReputation :
        /\ agent_reputation' = [agent_reputation EXCEPT ![a] = rep]
        /\ rep.exists
        /\ rep.total_settled =
             IF outcome = "Settled" THEN old.total_settled + 1 ELSE old.total_settled
        /\ rep.total_failed =
             IF outcome = "Settled" THEN old.total_failed ELSE old.total_failed + 1
        /\ rep.last_job_id = job /\ rep.last_updated_slot = slot
  BY DEF Updated
<1> HIDE DEF old
<1>3. TypeOK /\ ReceiptsDated /\ ReceiptsCounted
  BY DEF ReceiptInv
<1>4. slot' = slot /\ bridge_config' = bridge_config
  OBVIOUS
<1>5. /\ job \notin DOMAIN job_record
      /\ DOMAIN job_record' = DOMAIN job_record \cup {job}
      /\ \A j \in DOMAIN job_record : job_record'[j] = job_record[j]
      /\ job_record'[job] \in JobRecord /\ job_record'[job].recorded_at_slot = slot
  BY DEF Recorded
<1>6. TypeOK'
  BY <1>2, <1>3, <1>4, <1>5 DEF TypeOK
<1>7. ReceiptsDated'
  <2>1. IsFiniteSet(DOMAIN job_record')
    BY <1>3, <1>5, FS_AddElement DEF ReceiptsDated
  <2>2. slot \in Int
    BY <1>3, SlotTyped DEF TypeOK
  <2>3. \A j \in DOMAIN job_record' : job_record'[j].recorded_at_slot <= slot
    BY <1>3, <1>5, <2>2 DEF ReceiptsDated
  <2> QED
    BY <1>4, <2>1, <2>3 DEF ReceiptsDated
<1>8. ReceiptsCounted'
  <2> SUFFICES ASSUME NEW b \in Agents
               PROVE  CountsReceipts(agent_reputation[b], RecordsOf(b, "Settled"),
                                     RecordsOf(b, "Failed"))'
    BY DEF ReceiptsCounted
  <2>1. CountsReceipts(agent_reputation[b], RecordsOf(b, "Settled"), RecordsOf(b, "Failed"))
    BY <1>3 DEF ReceiptsCounted
  <2>2. /\ RecordsOf(b, "Settled")' =
             IF b = a /\ "Settled" = outcome THEN RecordsOf(b, "Settled") \cup {job}
             ELSE RecordsOf(b, "Settled")
        /\ RecordsOf(b, "Failed")' =
             IF b = a /\ "Failed" = outcome THEN RecordsOf(b, "Failed") \cup {job}
             ELSE RecordsOf(b, "Failed")
    BY RecordsGrow
  <2>3. \A o : RecordsOf(b, o) \subseteq DOMAIN job_record
    BY DEF RecordsOf
  <2>4. CASE b # a
    <3>1. agent_reputation'[b] = agent_reputation[b]
      BY <1>2, <1>3, <2>4 DEF TypeOK
    <3>2. /\ RecordsOf(b, "Settled")' = RecordsOf(b, "Settled")
          /\ RecordsOf(b, "Failed")' = RecordsOf(b, "Failed")
      BY <2>2, <2>4
    <3>3. \A j \in RecordsOf(b, "Settled") \cup RecordsOf(b, "Failed") :
            job_record'[j] = job_record[j]
      BY <1>5, <2>3
    <3> QED
      BY <2>1, <3>1, <3>2, <3>3 DEF CountsReceipts
  <2>5. CASE b = a
    <3>1. agent_reputation'[b] = rep
      BY <1>2, <1>3, <2>5 DEF TypeOK
    <3>2. /\ rep.total_settled = Cardinality(RecordsOf(b, "Settled")')
          /\ rep.total_failed = Cardinality(RecordsOf(b, "Failed")')
      <4>1. /\ Cardinality(RecordsOf(a, "Settled") \cup {job}) =
                 Cardinality(RecordsOf(a, "Settled")) + 1
            /\ Cardinality(RecordsOf(a, "Failed") \cup {job}) =
                 Cardinality(RecordsOf(a, "Failed")) + 1
        BY <1>3, <1>5, OneMore DEF ReceiptsDated
      <4>2. CASE outcome = "Settled"
        BY <1>1, <1>2, <2>2, <2>5, <4>1, <4>2
      <4>3. CASE outcome = "Failed"
        BY <1>1, <1>2, <2>2, <2>5, <4>1, <4>3
      <4> QED
        BY <4>2, <4>3
    <3>3. job \in RecordsOf(b, "Settled")' \cup RecordsOf(b, "Failed")'
      BY <2>2, <2>5
    <3>4. \A j \in RecordsOf(b, "Settled")' \cup RecordsOf(b, "Failed")' :
            job_record'[j].recorded_at_slot <= slot
      <4>1. RecordsOf(b, "Settled")' \cup RecordsOf(b, "Failed")' \subseteq DOMAIN job_record'
        BY <1>5, <2>2, <2>3
      <4> QED
        BY <1>4, <1>7, <4>1 DEF ReceiptsDated
    <3> QED
      BY <1>2, <3>1, <3>2, <3>3, <3>4 DEF CountsReceipts
  <2> QED
    BY <2>4, <2>5
<1> QED
  BY <1>6, <1>7, <1>8 DEF ReceiptInv

\* Every step of the program: no receipt, or exactly one, with its score.
LEMMA EscrowCallWrites ==
  ASSUME ReputationBridgeAssumption, ReceiptInv, NEW authority, NEW a \in Agents,
         NEW job \in Jobs, EscrowCall(authority, a, job)
  PROVE  /\ UNCHANGED <<slot, bridge_config>>
         /\ \E outcome \in {"Settled", "Failed"}, delta \in I16 :
              Recorded(a, job, outcome, delta) /\ Updated(a, job, outcome, delta)
<1>1. PICK outcome \in {"Settled", "Failed"}, delta \in I16 :
        RecordOutcome(authority, a, job, outcome, delta)
  <2>1. FAILURE_DELTA \in I16
    BY DEF FAILURE_DELTA, I16
  <2>2. ScoreDeltas \subseteq I16
    BY Constants
  <2> QED
    BY <2>1, <2>2 DEF EscrowCall, RecordCompletion, RecordFailure
<1>2. UNCHANGED <<slot, bridge_config>>
  BY <1>1 DEF RecordOutcome
<1>3. Recorded(a, job, outcome, delta)
  BY <1>1, OutcomeRecorded DEF ReceiptInv
<1>4. delta \in Int
  BY DeltasAreIntegers
<1>5. Updated(a, job, outcome, delta)
  BY <1>1, <1>4, OutcomeUpdated
<1> QED
  BY <1>2, <1>3, <1>5

LEMMA NextReceipts ==
  ASSUME ReputationBridgeAssumption, ReceiptInv, [Next]_vars
  PROVE  ReceiptInv'
<1>1. CASE Tick \/ OperatorStep \/ UNCHANGED vars
  BY <1>1, NoNewReceipt
<1>2. CASE \E authority \in Authorities, a \in Agents, job \in Jobs :
             EscrowCall(authority, a, job)
  <2>1. PICK authority \in Authorities, a \in Agents, job \in Jobs :
          EscrowCall(authority, a, job)
    BY <1>2
  <2>2. UNCHANGED <<slot, bridge_config>>
    BY <2>1, EscrowCallWrites
  <2>3. PICK outcome \in {"Settled", "Failed"}, delta \in I16 :
          Recorded(a, job, outcome, delta) /\ Updated(a, job, outcome, delta)
    BY <2>1, EscrowCallWrites
  <2> QED
    BY <2>2, <2>3, OutcomeCounted
<1> QED
  BY <1>1, <1>2 DEF Next

LEMMA ReceiptsInvariant ==
  ASSUME ReputationBridgeAssumption
  PROVE  Spec => []ReceiptInv
<1>1. Init => ReceiptInv
  BY InitReceipts
<1>2. ReceiptInv /\ [Next]_vars => ReceiptInv'
  BY NextReceipts
<1> QED
  BY <1>1, <1>2, PTL DEF Spec

(***************************************************************************)
(* What holds of every behaviour                                            *)
(***************************************************************************)
\* Every account of the program holds values of its type, whatever the deltas and
\* the weight: the score stays on its scale.
THEOREM BridgeTyped ==
  ASSUME ReputationBridgeAssumption
  PROVE  Spec => []TypeOK
<1>1. ReceiptInv => TypeOK
  BY DEF ReceiptInv
<1> QED
  BY <1>1, ReceiptsInvariant, PTL

\* An agent's totals count exactly the receipts that name it and its last job is
\* the newest: record_completion and record_failure keep the two accounts they
\* write in step.
THEOREM ReputationCorrect ==
  ASSUME ReputationBridgeAssumption
  PROVE  Spec => []ReputationMatchesReceipts
BY ReceiptsInvariant, ReceiptInvImplies, PTL

\* A receipt is permanent: no instruction rewrites or closes a JobRecord.
THEOREM ReceiptsKept ==
  ASSUME ReputationBridgeAssumption
  PROVE  Spec => ReceiptsPermanent
<1> DEFINE Kept == \A j \in DOMAIN job_record :
                     j \in DOMAIN job_record' /\ job_record'[j] = job_record[j]
<1>1. ReceiptInv /\ [Next]_vars => [Kept]_vars
  <2> SUFFICES ASSUME ReceiptInv, Next PROVE Kept
    OBVIOUS
  <2>1. CASE Tick \/ OperatorStep
    <3>1. job_record' = job_record
      BY <2>1, NoNewReceipt
    <3> QED
      BY <3>1
  <2>2. CASE \E authority \in Authorities, a \in Agents, job \in Jobs :
               EscrowCall(authority, a, job)
    BY <2>2, EscrowCallWrites DEF Recorded
  <2> QED
    BY <2>1, <2>2 DEF Next
<1> QED
  BY <1>1, ReceiptsInvariant, PTL DEF Spec, ReceiptsPermanent

\* The outcome an agent's score follows is the one its new receipt records.
LEMMA ScoreStep ==
  ASSUME ReputationBridgeAssumption, ReceiptInv, NEW a \in Agents,
         NEW job \in Jobs, NEW outcome, NEW delta \in I16,
         Recorded(a, job, outcome, delta), Updated(a, job, outcome, delta),
         NEW b \in Agents, agent_reputation[b].exists,
         agent_reputation'[b].ema_score # agent_reputation[b].ema_score
  PROVE  LET old == agent_reputation[b].ema_score
             new == agent_reputation'[b].ema_score
         IN
         /\ b = a
         /\ IF delta > 0
            THEN new > old /\ (new - old) * 10000 <= delta * bridge_config.ema_alpha_bps
            ELSE new < old /\ (old - new) * 10000 <= (-delta) * bridge_config.ema_alpha_bps
<1> DEFINE old == agent_reputation[b].ema_score
<1>1. PICK rep \in AgentReputation :
        /\ agent_reputation' = [agent_reputation EXCEPT ![a] = rep]
        /\ rep.ema_score = ApplyEma(Reputation(a).ema_score, delta)
  BY DEF Updated
<1>2. agent_reputation \in [Agents -> AgentReputation]
  BY DEF ReceiptInv, TypeOK
<1>3. b = a
  BY <1>1, <1>2
<1>4. agent_reputation'[b].ema_score = ApplyEma(old, delta)
  BY <1>1, <1>2, <1>3, ReputationFields
<1>5. old \in 0..EMA_MAX
  BY <1>2 DEF AgentReputation
<1>6. PICK alpha \in Nat : bridge_config.ema_alpha_bps = alpha
  BY ConfigTyped DEF ReceiptInv, TypeOK
<1>7. delta \in Int
  BY DeltasAreIntegers
<1> DEFINE new == ApplyEma(old, delta)
<1> HIDE DEF old
<1>8. new # old =>
        IF delta > 0 THEN new > old /\ (new - old) * 10000 <= delta * alpha
        ELSE new < old /\ (old - new) * 10000 <= (-delta) * alpha
  BY <1>5, <1>6, <1>7, ApplyEmaFollows
<1> HIDE DEF new
<1>9. agent_reputation'[b].ema_score = new /\ new # old
  BY <1>4 DEF old, new
<1> QED
  BY <1>3, <1>6, <1>8, <1>9 DEF old

\* A known agent's score moves only with a new receipt naming it, in the receipt's
\* direction and by at most its weighted delta: neither the rounding of the i64
\* division nor the clamp turns a penalty into a reward, for any delta an i16
\* holds and any weight initialize accepts.
THEOREM ScoreCorrect ==
  ASSUME ReputationBridgeAssumption
  PROVE  Spec => ScoreFollowsReceipts
<1> DEFINE
      Follows(a) ==
        LET old == agent_reputation[a].ema_score
            new == agent_reputation'[a].ema_score
        IN
        agent_reputation[a].exists /\ new # old =>
          \E j \in DOMAIN job_record' \ DOMAIN job_record :
            LET delta == job_record'[j].score_delta IN
            /\ job_record'[j].agent = a
            /\ IF delta > 0
               THEN new > old /\ (new - old) * 10000 <= delta * bridge_config.ema_alpha_bps
               ELSE new < old /\ (old - new) * 10000 <= (-delta) * bridge_config.ema_alpha_bps
<1>1. ReceiptInv /\ [Next]_vars => [\A a \in Agents : Follows(a)]_vars
  <2> SUFFICES ASSUME ReceiptInv, Next, NEW b \in Agents, agent_reputation[b].exists,
                      agent_reputation'[b].ema_score # agent_reputation[b].ema_score
               PROVE  Follows(b)
    OBVIOUS
  <2>1. ~(Tick \/ OperatorStep)
    BY NoNewReceipt
  <2>2. PICK authority \in Authorities, a \in Agents, job \in Jobs :
          EscrowCall(authority, a, job)
    BY <2>1 DEF Next
  <2>3. PICK outcome \in {"Settled", "Failed"}, delta \in I16 :
          Recorded(a, job, outcome, delta) /\ Updated(a, job, outcome, delta)
    BY <2>2, EscrowCallWrites
  <2>4. /\ job \in DOMAIN job_record' \ DOMAIN job_record
        /\ job_record'[job].score_delta = delta /\ job_record'[job].agent = a
    BY <2>3 DEF Recorded
  <2> QED
    BY <2>3, <2>4, ScoreStep
<1> QED
  BY <1>1, ReceiptsInvariant, PTL DEF Spec, ScoreFollowsReceipts

=============================================================================
