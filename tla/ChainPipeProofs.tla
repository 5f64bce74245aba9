-------------------------- MODULE ChainPipeProofs ---------------------------
(***************************************************************************)
(* Theorems of ChainPipe: the composition keeps every promise of the three  *)
(* programs, and their ledgers agree.                                       *)
(***************************************************************************)
EXTENDS ChainPipe, FiniteSetTheorems, TLAPS

Esc == INSTANCE DagEscrowProofs WITH Tiers <- 0..3, CancelListsEveryNode <- TRUE
Reg == INSTANCE RegistryProofs WITH MaxJobs <- Cardinality(DE!NodeIds)
Bri == INSTANCE BridgeProofs WITH Jobs <- DE!JobIds, NoJob <- DE!NoJob

(***************************************************************************)
(* ChainPipe's instances and those with proofs are the same programs.       *)
(***************************************************************************)
LEMMA SameCounting ==
  /\ \A S : DE!IsFiniteSet(S) <=> Esc!IsFiniteSet(S)
  /\ \A S : DE!IsFiniteSet(S) <=> IsFiniteSet(S)
  /\ \A S : BR!IsFiniteSet(S) <=> Reg!IsFiniteSet(S)
  /\ \A S : DE!Cardinality(S) = Esc!Cardinality(S)
  /\ \A S : BR!Cardinality(S) = Reg!Cardinality(S)
<1>1. /\ \A S : DE!IsFiniteSet(S) <=> Esc!IsFiniteSet(S)
      /\ \A S : DE!IsFiniteSet(S) <=> IsFiniteSet(S)
      /\ \A S : BR!IsFiniteSet(S) <=> Reg!IsFiniteSet(S)
  BY DEF DE!IsFiniteSet, Esc!IsFiniteSet, IsFiniteSet, BR!IsFiniteSet, Reg!IsFiniteSet
<1>2. \A S : DE!Cardinality(S) = Esc!Cardinality(S)
  BY DEF DE!Cardinality, Esc!Cardinality, DE!IsFiniteSet, Esc!IsFiniteSet
<1>3. \A S : BR!Cardinality(S) = Reg!Cardinality(S)
  BY DEF BR!Cardinality, Reg!Cardinality, BR!IsFiniteSet, Reg!IsFiniteSet
<1> QED
  BY <1>1, <1>2, <1>3

LEMMA EscrowAssumptions ==
  /\ Esc!U64Assumption /\ Esc!PartiesAssumption /\ Esc!ProgramConstants /\ Esc!FeeAssumption
  /\ Esc!ArgumentsAssumption /\ Esc!BoundsAssumption /\ Esc!SupplyAssumption
<1>1. Esc!U64Assumption
  BY ChainPipeAssumption
<1>2. Esc!PartiesAssumption
  BY ChainPipeAssumption
<1>3. Esc!ProgramConstants
  BY ChainPipeAssumption DEF DE!Amounts, Esc!Amounts
<1>4. Esc!FeeAssumption
  BY ChainPipeAssumption DEF DE!BPS, Esc!BPS
<1>5. Esc!ArgumentsAssumption
  BY ChainPipeAssumption DEF DE!Amounts, Esc!Amounts
<1>6. Esc!BoundsAssumption
  BY ChainPipeAssumption DEF DE!Amounts, Esc!Amounts
<1>7. Esc!SupplyAssumption
  BY ChainPipeAssumption, SameCounting
<1> QED
  BY <1>1, <1>2, <1>3, <1>4, <1>5, <1>6, <1>7

LEMMA RegistryAssumptions ==
  Reg!U64Assumption /\ Reg!BondedRegistryAssumption /\ Reg!StakeSupplyAssumption
<1>1. Reg!U64Assumption
  BY ChainPipeAssumption
<1>2. Reg!BondedRegistryAssumption
  <2>1. BR!BPS = Reg!BPS /\ BR!Amounts = Reg!Amounts
    BY DEF BR!BPS, Reg!BPS, BR!Amounts, Reg!Amounts
  <2>2. BR!BondedRegistryAssumption
    BY ChainPipeAssumption
  <2> QED
    BY <2>1, <2>2
<1>3. Reg!StakeSupplyAssumption
  BY ChainPipeAssumption, SameCounting
<1> QED
  BY <1>1, <1>2, <1>3

LEMMA BridgeAssumptions == Bri!ReputationBridgeAssumption
<1>1. RB!ReputationBridgeAssumption
  BY ChainPipeAssumption
<1>2. RB!I16 = Bri!I16
  BY DEF RB!I16, Bri!I16
<1> QED
  BY <1>1, <1>2 DEF RB!ReputationBridgeAssumption, Bri!ReputationBridgeAssumption

LEMMA SameEscrowNames ==
  /\ DE!Indexes = Esc!Indexes /\ DE!NodeIds = Esc!NodeIds /\ DE!ActiveStatus = Esc!ActiveStatus
  /\ DE!JobIds = Esc!JobIds /\ DE!NoJob = Esc!NoJob /\ DE!vars = Esc!vars
BY DEF DE!Indexes, Esc!Indexes, DE!NodeIds, Esc!NodeIds, DE!ActiveStatus, Esc!ActiveStatus,
       DE!JobIds, Esc!JobIds, DE!NoJob, Esc!NoJob, DE!Slots, Esc!Slots,
       DE!vars, Esc!vars, DE!accounts, Esc!accounts, DE!wallets, Esc!wallets

LEMMA SameInit == DE!Init <=> Esc!Init
BY SameEscrowNames DEF DE!Init, Esc!Init, DE!NoPipeline, Esc!NoPipeline, DE!NoNode, Esc!NoNode,
       DE!NoSettlement, Esc!NoSettlement

LEMMA SameQuiet ==
  /\ DE!Tick <=> Esc!Tick
  /\ DE!OperatorStep <=> Esc!OperatorStep
<1>1. DE!accounts = Esc!accounts /\ DE!wallets = Esc!wallets
  BY DEF DE!accounts, Esc!accounts, DE!wallets, Esc!wallets
<1>2. DE!Tick <=> Esc!Tick
  BY DEF DE!Tick, Esc!Tick, DE!accounts, Esc!accounts, DE!wallets, Esc!wallets
<1>3. DE!OperatorStep <=> Esc!OperatorStep
  BY DEF DE!OperatorStep, Esc!OperatorStep, DE!IsOperator, Esc!IsOperator,
     DE!SetFacilitatorAuthority, Esc!SetFacilitatorAuthority, DE!SetPaused, Esc!SetPaused,
     DE!SetDisputeWindow, Esc!SetDisputeWindow, DE!ProposeOperator, Esc!ProposeOperator,
     DE!AcceptOperator, Esc!AcceptOperator, DE!accounts, Esc!accounts, DE!wallets, Esc!wallets
<1> QED
  BY <1>2, <1>3

LEMMA SameCreate ==
  \A p, node_configs : DE!CreatePipeline(p, node_configs) <=> Esc!CreatePipeline(p, node_configs)
BY DEF DE!CreatePipeline, Esc!CreatePipeline, DE!TotalLocked, Esc!TotalLocked,
       DE!Total, Esc!Total, DE!Units, Esc!Units, DE!ValidDag, Esc!ValidDag,
       DE!WithinHorizon, Esc!WithinHorizon, DE!SaturatingAdd, Esc!SaturatingAdd,
       DE!PendingNode, Esc!PendingNode, DE!NoNode, Esc!NoNode, DE!NoJob, Esc!NoJob,
       DE!Indexes, Esc!Indexes, DE!Cardinality, Esc!Cardinality,
       DE!IsFiniteSet, Esc!IsFiniteSet

LEMMA SameRefund ==
  /\ \A p, R, mint : DE!LeftBehind(p, R, mint) = Esc!LeftBehind(p, R, mint)
  /\ \A p, R, total, mint : DE!Refund(p, R, total, mint) <=> Esc!Refund(p, R, total, mint)
<1>1. \A p, R, mint : DE!LeftBehind(p, R, mint) = Esc!LeftBehind(p, R, mint)
  BY DEF DE!LeftBehind, Esc!LeftBehind, DE!OwnMint, Esc!OwnMint, DE!Allocation, Esc!Allocation,
         DE!Indexes, Esc!Indexes
<1>2. \A p, R, total, mint : DE!Refund(p, R, total, mint) <=> Esc!Refund(p, R, total, mint)
  BY <1>1 DEF DE!Refund, Esc!Refund, DE!OwnMint, Esc!OwnMint
<1> QED
  BY <1>1, <1>2

LEMMA SameConsumerStep ==
  \A p : DE!ConsumerStep(p) <=> Esc!ConsumerStep(p)
<1>1. \A p, consumer, listed, mint :
        DE!CancelPipeline(p, consumer, listed, mint) <=> Esc!CancelPipeline(p, consumer, listed, mint)
  BY SameRefund DEF DE!CancelPipeline, Esc!CancelPipeline, DE!Indexes, Esc!Indexes,
         DE!NoNode, Esc!NoNode, DE!NoJob, Esc!NoJob
<1>2. \A p, i, consumer : DE!DisputeNode(p, i, consumer) <=> Esc!DisputeNode(p, i, consumer)
  BY DEF DE!DisputeNode, Esc!DisputeNode, DE!DisputeOpen, Esc!DisputeOpen,
         DE!DisputeUntil, Esc!DisputeUntil, DE!SaturatingAdd, Esc!SaturatingAdd, DE!wallets, Esc!wallets
<1>3. \A p : DE!CancelLists(p) = Esc!CancelLists(p)
  BY DEF DE!CancelLists, Esc!CancelLists, DE!NodeExists, Esc!NodeExists, DE!Indexes, Esc!Indexes
<1> QED
  BY <1>1, <1>2, <1>3, SameCreate, SameEscrowNames DEF DE!ConsumerStep, Esc!ConsumerStep

LEMMA SameSettling ==
  /\ \A p, i, mint : DE!Settle(p, i, mint) <=> Esc!Settle(p, i, mint)
  /\ \A p, i : DE!CloseSettlement(p, i) <=> Esc!CloseSettlement(p, i)
<1>1. \A p, mint, amount : DE!OwnMint(p, mint, amount) = Esc!OwnMint(p, mint, amount)
  BY DEF DE!OwnMint, Esc!OwnMint
<1>2. \A amount : DE!ToAgent(amount) = Esc!ToAgent(amount) /\ DE!Fee(amount) = Esc!Fee(amount)
  BY DEF DE!ToAgent, Esc!ToAgent, DE!Fee, Esc!Fee, DE!ShareOf, Esc!ShareOf, DE!BPS, Esc!BPS
<1>3. \A pl, i : DE!CountSettled(pl, i) = Esc!CountSettled(pl, i)
  BY DEF DE!CountSettled, Esc!CountSettled, DE!StatusAfterSettle, Esc!StatusAfterSettle
<1>4. \A p, i, mint : DE!Settle(p, i, mint) <=> Esc!Settle(p, i, mint)
  BY <1>1, <1>2, <1>3, SameRefund DEF DE!Settle, Esc!Settle
<1>5. \A p, i : DE!CloseSettlement(p, i) <=> Esc!CloseSettlement(p, i)
  BY DEF DE!CloseSettlement, Esc!CloseSettlement, DE!NoSettlement, Esc!NoSettlement
<1> QED
  BY <1>4, <1>5

LEMMA SameNodeSteps ==
  \A p, i :
    /\ \A agent, tier : DE!ClaimNode(p, i, agent, tier) <=> Esc!ClaimNode(p, i, agent, tier)
    /\ \A facilitator :
         /\ \A delta : DE!SubmitCompletion(p, i, facilitator, delta)
                         <=> Esc!SubmitCompletion(p, i, facilitator, delta)
         /\ \A mint :
              /\ DE!CompleteNode(p, i, facilitator, mint)
                   <=> Esc!CompleteNode(p, i, facilitator, mint)
              /\ DE!UpholdDispute(p, i, facilitator, mint)
                   <=> Esc!UpholdDispute(p, i, facilitator, mint)
              /\ DE!RejectDispute(p, i, facilitator, mint)
                   <=> Esc!RejectDispute(p, i, facilitator, mint)
    /\ \A mint : DE!FinalizeNode(p, i, mint) <=> Esc!FinalizeNode(p, i, mint)
<1> SUFFICES ASSUME NEW p, NEW i
    PROVE
    /\ \A agent, tier : DE!ClaimNode(p, i, agent, tier) <=> Esc!ClaimNode(p, i, agent, tier)
    /\ \A facilitator :
         /\ \A delta : DE!SubmitCompletion(p, i, facilitator, delta)
                         <=> Esc!SubmitCompletion(p, i, facilitator, delta)
         /\ \A mint :
              /\ DE!CompleteNode(p, i, facilitator, mint)
                   <=> Esc!CompleteNode(p, i, facilitator, mint)
              /\ DE!UpholdDispute(p, i, facilitator, mint)
                   <=> Esc!UpholdDispute(p, i, facilitator, mint)
              /\ DE!RejectDispute(p, i, facilitator, mint)
                   <=> Esc!RejectDispute(p, i, facilitator, mint)
    /\ \A mint : DE!FinalizeNode(p, i, mint) <=> Esc!FinalizeNode(p, i, mint)
  OBVIOUS
<1>1. \A agent, tier : DE!ClaimNode(p, i, agent, tier) <=> Esc!ClaimNode(p, i, agent, tier)
  BY DEF DE!ClaimNode, Esc!ClaimNode, DE!MayClaim, Esc!MayClaim,
         DE!DependenciesSettled, Esc!DependenciesSettled, DE!wallets, Esc!wallets
<1>2. \A facilitator, mint : DE!CompleteNode(p, i, facilitator, mint)
                              <=> Esc!CompleteNode(p, i, facilitator, mint)
  BY SameSettling DEF DE!CompleteNode, Esc!CompleteNode, DE!IsFacilitator, Esc!IsFacilitator
<1>3. \A facilitator, delta : DE!SubmitCompletion(p, i, facilitator, delta)
                                <=> Esc!SubmitCompletion(p, i, facilitator, delta)
  BY DEF DE!SubmitCompletion, Esc!SubmitCompletion, DE!IsFacilitator, Esc!IsFacilitator,
         DE!WithinHorizon, Esc!WithinHorizon, DE!SaturatingAdd, Esc!SaturatingAdd,
         DE!wallets, Esc!wallets
<1>4. \A facilitator, mint : DE!UpholdDispute(p, i, facilitator, mint)
                              <=> Esc!UpholdDispute(p, i, facilitator, mint)
  BY SameSettling, SameRefund
     DEF DE!UpholdDispute, Esc!UpholdDispute, DE!IsFacilitator, Esc!IsFacilitator,
         DE!CountExpired, Esc!CountExpired
<1>5. \A facilitator, mint : DE!RejectDispute(p, i, facilitator, mint)
                              <=> Esc!RejectDispute(p, i, facilitator, mint)
  BY SameSettling DEF DE!RejectDispute, Esc!RejectDispute, DE!IsFacilitator, Esc!IsFacilitator
<1>6. \A mint : DE!FinalizeNode(p, i, mint) <=> Esc!FinalizeNode(p, i, mint)
  BY SameSettling DEF DE!FinalizeNode, Esc!FinalizeNode, DE!MayFinalize, Esc!MayFinalize,
         DE!OwnMint, Esc!OwnMint, DE!WindowOver, Esc!WindowOver,
         DE!DisputeUntil, Esc!DisputeUntil, DE!SaturatingAdd, Esc!SaturatingAdd
<1> QED
  BY <1>1, <1>2, <1>3, <1>4, <1>5, <1>6

LEMMA SameExpiry ==
  /\ \A p, i, listed : DE!ExpiredBy(p, i, listed) = Esc!ExpiredBy(p, i, listed)
  /\ \A f, S : DE!Total(f, S) = Esc!Total(f, S)
  /\ \A p : DE!Allocation(p) = Esc!Allocation(p)
<1>1. \A p, i, listed : DE!ExpiredBy(p, i, listed) = Esc!ExpiredBy(p, i, listed)
  BY DEF DE!ExpiredBy, Esc!ExpiredBy, DE!CascadeSet, Esc!CascadeSet,
         DE!CascadeClosed, Esc!CascadeClosed, DE!Indexes, Esc!Indexes
<1>2. \A f, S : DE!Total(f, S) = Esc!Total(f, S)
  BY DEF DE!Total, Esc!Total, DE!Units, Esc!Units, DE!Cardinality, Esc!Cardinality,
         DE!IsFiniteSet, Esc!IsFiniteSet
<1>3. \A p : DE!Allocation(p) = Esc!Allocation(p)
  BY DEF DE!Allocation, Esc!Allocation, DE!Indexes, Esc!Indexes
<1> QED
  BY <1>1, <1>2, <1>3

LEMMA SameMayExpire ==
  \A p, i, listed, mint : DE!MayExpire(p, i, listed, mint) <=> Esc!MayExpire(p, i, listed, mint)
BY SameExpiry DEF DE!MayExpire, Esc!MayExpire, DE!OwnMint, Esc!OwnMint,
       DE!NodeExists, Esc!NodeExists, DE!Overdue, Esc!Overdue

LEMMA SameExpire ==
  \A p, i, listed, mint : DE!ExpireNode(p, i, listed, mint) <=> Esc!ExpireNode(p, i, listed, mint)
<1>1. \A pl, count : DE!CountExpired(pl, count) = Esc!CountExpired(pl, count)
  BY DEF DE!CountExpired, Esc!CountExpired
<1> QED
  BY <1>1, SameRefund, SameExpiry, SameMayExpire, SameCounting, SameEscrowNames
     DEF DE!ExpireNode, Esc!ExpireNode

LEMMA SameEscrow == (DE!Init <=> Esc!Init) /\ (DE!Next <=> Esc!Next)
<1>1. \A p, i : DE!FacilitatorStep(p, i) <=> Esc!FacilitatorStep(p, i)
  BY SameNodeSteps DEF DE!FacilitatorStep, Esc!FacilitatorStep
<1> QED
  BY <1>1, SameInit, SameQuiet, SameConsumerStep, SameNodeSteps, SameExpire, SameEscrowNames
     DEF DE!Next, Esc!Next

LEMMA SameTier == \A amount : BR!TierForLenient(amount) = Reg!TierForLenient(amount)
BY DEF BR!TierForLenient, Reg!TierForLenient

LEMMA SameAgentStep == \A a : BR!AgentStep(a) <=> Reg!AgentStep(a)
<1>1. \A a, amount : BR!Deposit(a, amount) <=> Reg!Deposit(a, amount)
  BY DEF BR!Deposit, Reg!Deposit
<1>2. \A amount : BR!HasTier(amount) <=> Reg!HasTier(amount)
  BY SameTier DEF BR!HasTier, Reg!HasTier
<1>3. \A a, mint, amount : BR!StakeAndRegister(a, mint, amount) <=> Reg!StakeAndRegister(a, mint, amount)
  BY <1>1, <1>2, SameTier DEF BR!StakeAndRegister, Reg!StakeAndRegister, BR!NoStake, Reg!NoStake
<1>4. \A a, mint, amount : BR!AddStake(a, mint, amount) <=> Reg!AddStake(a, mint, amount)
  BY <1>1, <1>2, SameTier DEF BR!AddStake, Reg!AddStake, BR!DepositForeign, Reg!DepositForeign
<1>5. \A a : /\ BR!RequestUnstake(a) <=> Reg!RequestUnstake(a)
             /\ BR!ExecuteUnstake(a) <=> Reg!ExecuteUnstake(a)
  BY DEF BR!RequestUnstake, Reg!RequestUnstake, BR!ExecuteUnstake, Reg!ExecuteUnstake,
         BR!MayLeave, Reg!MayLeave
<1> QED
  BY <1>3, <1>4, <1>5 DEF BR!AgentStep, Reg!AgentStep

LEMMA SameRegistryQuiet ==
  (BR!Init <=> Reg!Init) /\ (BR!Tick <=> Reg!Tick) /\ (BR!OperatorStep <=> Reg!OperatorStep)
<1>1. BR!Init <=> Reg!Init
  BY DEF BR!Init, Reg!Init, BR!NoStake, Reg!NoStake, BR!BPS, Reg!BPS
<1>2. BR!Tick <=> Reg!Tick
  BY DEF BR!Tick, Reg!Tick, BR!brvars, Reg!brvars
<1>3. BR!OperatorStep <=> Reg!OperatorStep
  BY DEF BR!OperatorStep, Reg!OperatorStep, BR!SetDagEscrowAuthority, Reg!SetDagEscrowAuthority,
         BR!SetMaxSlashBps, Reg!SetMaxSlashBps, BR!ProposeOperator, Reg!ProposeOperator,
         BR!AcceptOperator, Reg!AcceptOperator, BR!IsOperator, Reg!IsOperator,
         BR!ConfigUnchangedElse, Reg!ConfigUnchangedElse, BR!BPS, Reg!BPS
<1> QED
  BY <1>1, <1>2, <1>3

LEMMA SameRegistryCalls ==
  \A authority, a :
    /\ BR!IncrementOpenJobs(authority, a) <=> Reg!IncrementOpenJobs(authority, a)
    /\ BR!SettleJob(authority, a) <=> Reg!SettleJob(authority, a)
    /\ \A mint, consumer :
         BR!FailJob(authority, a, mint, consumer) <=> Reg!FailJob(authority, a, mint, consumer)
<1>1. \A authority, a : BR!IncrementOpenJobs(authority, a) <=> Reg!IncrementOpenJobs(authority, a)
  BY DEF BR!IncrementOpenJobs, Reg!IncrementOpenJobs, BR!Authorized, Reg!Authorized
<1>2. \A authority, a : BR!SettleJob(authority, a) <=> Reg!SettleJob(authority, a)
  BY DEF BR!SettleJob, Reg!SettleJob, BR!Authorized, Reg!Authorized,
         BR!Decremented, Reg!Decremented
<1>3. \A authority, a, mint, consumer :
         BR!FailJob(authority, a, mint, consumer) <=> Reg!FailJob(authority, a, mint, consumer)
  <2>1. \A s, rate : BR!SlashAmount(s, rate) = Reg!SlashAmount(s, rate)
    BY DEF BR!SlashAmount, Reg!SlashAmount, BR!SlashRate, Reg!SlashRate,
           BR!ShareOf, Reg!ShareOf, BR!BPS, Reg!BPS
  <2>2. \A s, amount : BR!Slashed(s, amount) = Reg!Slashed(s, amount)
    BY SameTier DEF BR!Slashed, Reg!Slashed
  <2>3. \A s, settled : BR!Decremented(s, settled) = Reg!Decremented(s, settled)
    BY DEF BR!Decremented, Reg!Decremented
  <2> QED
    BY <2>1, <2>2, <2>3 DEF BR!FailJob, Reg!FailJob, BR!MayFail, Reg!MayFail,
                               BR!Authorized, Reg!Authorized
<1> QED
  BY <1>1, <1>2, <1>3

LEMMA SameRegistry ==
  (BR!Init <=> Reg!Init) /\ (BR!Next <=> Reg!Next) /\ BR!vars = Reg!vars
<1>1. BR!vars = Reg!vars
  BY DEF BR!vars, Reg!vars, BR!brvars, Reg!brvars
<1>2. \A authority, a : BR!EscrowCall(authority, a) <=> Reg!EscrowCall(authority, a)
  BY SameRegistryCalls DEF BR!EscrowCall, Reg!EscrowCall
<1> QED
  BY <1>1, <1>2, SameRegistryQuiet, SameAgentStep DEF BR!Next, Reg!Next

LEMMA SameOutcome ==
  ASSUME NEW authority, NEW a, NEW job, NEW outcome, NEW delta,
         RB!Reputation(a) = Bri!Reputation(a),
         \A old : RB!ApplyEma(old, delta) = Bri!ApplyEma(old, delta)
  PROVE  RB!RecordOutcome(authority, a, job, outcome, delta)
           <=> Bri!RecordOutcome(authority, a, job, outcome, delta)
<1> DEFINE
      old == RB!Reputation(a)
      settled == outcome = "Settled"
      score == RB!ApplyEma(old.ema_score, delta)
      done == IF settled THEN old.total_settled + 1 ELSE old.total_settled
      failed == IF settled THEN old.total_failed ELSE old.total_failed + 1
      rep == [old EXCEPT !.ema_score = score, !.total_settled = done, !.total_failed = failed,
                         !.last_job_id = job, !.last_updated_slot = slot]
      Form == /\ authority = bridge_config.dag_escrow_authority
              /\ job \notin DOMAIN job_record
              /\ agent_reputation' = [agent_reputation EXCEPT ![a] = rep]
              /\ job_record' = [j \in DOMAIN job_record \cup {job} |->
                   IF j = job
                   THEN [agent |-> a, outcome |-> outcome, score_delta |-> delta,
                         recorded_at_slot |-> slot]
                   ELSE job_record[j]]
              /\ UNCHANGED <<slot, bridge_config>>
<1>1. RB!RecordOutcome(authority, a, job, outcome, delta) <=> Form
  BY DEF RB!RecordOutcome, RB!MayRecord, RB!NoReceiptYet
<1>2. Bri!RecordOutcome(authority, a, job, outcome, delta) <=> Form
  BY DEF Bri!RecordOutcome, Bri!MayRecord, Bri!NoReceiptYet
<1> QED
  BY <1>1, <1>2

LEMMA SameBridgeCalls ==
  \A authority, a, job :
    /\ \A delta : RB!RecordCompletion(authority, a, job, delta)
                    <=> Bri!RecordCompletion(authority, a, job, delta)
    /\ RB!RecordFailure(authority, a, job) <=> Bri!RecordFailure(authority, a, job)
<1>1. \A a : RB!Reputation(a) = Bri!Reputation(a)
  BY DEF RB!Reputation, Bri!Reputation, RB!NoReputation, Bri!NoReputation,
         RB!INITIAL_EMA, Bri!INITIAL_EMA
<1>2. \A old, delta : RB!ApplyEma(old, delta) = Bri!ApplyEma(old, delta)
  <2>1. \A x : RB!DivBps(x) = Bri!DivBps(x)
    BY DEF RB!DivBps, Bri!DivBps
  <2>2. \A x : RB!Clamp(x) = Bri!Clamp(x)
    BY DEF RB!Clamp, Bri!Clamp, RB!EMA_MAX, Bri!EMA_MAX
  <2> QED
    BY <2>1, <2>2 DEF RB!ApplyEma, Bri!ApplyEma
<1>3. \A authority, a, job, outcome, delta :
        RB!RecordOutcome(authority, a, job, outcome, delta)
          <=> Bri!RecordOutcome(authority, a, job, outcome, delta)
  BY <1>1, <1>2, SameOutcome
<1>4. RB!FAILURE_DELTA = Bri!FAILURE_DELTA
  BY DEF RB!FAILURE_DELTA, Bri!FAILURE_DELTA
<1> QED
  BY <1>3, <1>4 DEF RB!RecordCompletion, Bri!RecordCompletion, RB!RecordFailure, Bri!RecordFailure

LEMMA SameBridge ==
  /\ RB!Init <=> Bri!Init
  /\ RB!OperatorStep <=> Bri!OperatorStep
  /\ RB!Tick <=> Bri!Tick
  /\ RB!Next <=> Bri!Next
  /\ RB!vars = Bri!vars
<1>1. RB!Init <=> Bri!Init
  BY DEF RB!Init, Bri!Init, RB!NoReputation, Bri!NoReputation
<1>2. RB!OperatorStep <=> Bri!OperatorStep
  BY DEF RB!OperatorStep, Bri!OperatorStep, RB!SetDagEscrowAuthority, Bri!SetDagEscrowAuthority,
         RB!ProposeOperator, Bri!ProposeOperator, RB!AcceptOperator, Bri!AcceptOperator,
         RB!IsOperator, Bri!IsOperator
<1>3. (RB!Tick <=> Bri!Tick) /\ RB!vars = Bri!vars
  BY DEF RB!Tick, Bri!Tick, RB!vars, Bri!vars, RB!rbvars, Bri!rbvars
<1>4. \A authority, a, job : RB!EscrowCall(authority, a, job) <=> Bri!EscrowCall(authority, a, job)
  BY SameBridgeCalls DEF RB!EscrowCall, Bri!EscrowCall
<1> QED
  BY <1>1, <1>2, <1>3, <1>4 DEF RB!Next, Bri!Next

(***************************************************************************)
(* What is known of each program on its own                                 *)
(***************************************************************************)
ProgramsInv ==
  /\ Esc!LedgerInv /\ Esc!JobInv /\ Esc!DeltasGiven
  /\ Reg!TallyInv
  /\ Bri!ReceiptInv

\* A step of the composition is a step of each program, or none of its business.
ProgramsStep ==
  [Esc!Next]_(Esc!vars) /\ [Reg!Next]_(Reg!vars) /\ [Bri!Next]_(Bri!vars)

LEMMA InitPrograms == Init => ProgramsInv
<1> SUFFICES ASSUME Init PROVE ProgramsInv
  OBVIOUS
<1>1. Esc!Init /\ Reg!Init /\ Bri!Init
  BY SameEscrow, SameRegistry, SameBridge DEF Init
<1>2. Esc!LedgerInv /\ Esc!JobInv /\ Esc!DeltasGiven
  BY <1>1, EscrowAssumptions, Esc!InitLedger, Esc!InitJobs, Esc!InitDeltas
<1>3. Reg!TallyInv
  BY <1>1, RegistryAssumptions, Reg!InitTallies
<1>4. Bri!ReceiptInv
  BY <1>1, BridgeAssumptions, Bri!InitReceipts
<1> QED
  BY <1>2, <1>3, <1>4 DEF ProgramsInv

LEMMA ProgramsPreserved == ProgramsInv /\ ProgramsStep => ProgramsInv'
<1> SUFFICES ASSUME ProgramsInv, ProgramsStep PROVE ProgramsInv'
  OBVIOUS
<1>1. [Esc!Next]_(Esc!vars) /\ [Reg!Next]_(Reg!vars) /\ [Bri!Next]_(Bri!vars)
  BY DEF ProgramsStep
<1>2. Esc!LedgerInv'
  BY <1>1, EscrowAssumptions, Esc!LedgerPreserved DEF ProgramsInv
<1>3. Esc!TypeOK /\ Esc!SummaryInv /\ Esc!TypeOK'
  BY <1>2 DEF ProgramsInv, Esc!LedgerInv
<1>4. Esc!JobInv'
  BY <1>1, <1>3, EscrowAssumptions, Esc!JobsPreserved DEF ProgramsInv
<1>5. Esc!DeltasGiven'
  BY <1>1, <1>3, EscrowAssumptions, Esc!DeltasPreserved DEF ProgramsInv
<1>6. Reg!TallyInv'
  BY <1>1, RegistryAssumptions, Reg!TalliesPreserved DEF ProgramsInv
<1>7. Bri!ReceiptInv'
  BY <1>1, BridgeAssumptions, Bri!NextReceipts DEF ProgramsInv
<1> QED
  BY <1>2, <1>4, <1>5, <1>6, <1>7 DEF ProgramsInv

\* A node that is worked on is a job of an agent.
LEMMA ActiveJob ==
  ASSUME ProgramsInv, NEW p \in Pipelines, NEW i \in Esc!Indexes,
         node[p][i].status \in Esc!ActiveStatus
  PROVE  node[p][i].agent \in Agents /\ node[p][i].job_id \in DE!JobIds
<1>1. Esc!JobSound(node[p][i], p, i)
  BY DEF ProgramsInv, Esc!JobInv
<1>2. node[p][i].agent \in Agents
  BY <1>1 DEF Esc!JobSound
<1>3. node[p][i].agent # Nobody
  BY <1>2, EscrowAssumptions
<1>4. PICK s \in Esc!Slots : node[p][i].job_id = <<p, i, node[p][i].agent, s>>
  BY <1>1, <1>3 DEF Esc!JobSound
<1> QED
  BY <1>2, <1>4, SameEscrowNames DEF Esc!JobIds

(***************************************************************************)
(* The kinds of steps of the composition                                    *)
(***************************************************************************)
Quiet ==
  Esc!JobsKept /\ Reg!TalliesKept /\ Reg!OwnDoing /\ job_record' = job_record

\* An agent takes a job.
Opens(p, i, agent) ==
  /\ Esc!Opened(p, i, agent)
  /\ Reg!OtherTalliesKept(agent) /\ stake_vault' = stake_vault
  /\ agent_stake'[agent].open_jobs = agent_stake[agent].open_jobs + 1
  /\ agent_stake'[agent].total_settled = agent_stake[agent].total_settled
  /\ agent_stake'[agent].total_slashed = agent_stake[agent].total_slashed
  /\ job_record' = job_record

\* A job ends, for all three programs.
Ends(p, i, settled) ==
  LET n == node[p][i]
      old == agent_stake[n.agent]
      new == agent_stake'[n.agent]
  IN
  /\ Esc!Ended(p, i, IF settled THEN "Settled" ELSE "Expired")
  /\ n.agent \in Agents /\ Reg!OtherTalliesKept(n.agent)
  /\ old.open_jobs > 0 => new.open_jobs = old.open_jobs - 1
  /\ new.total_settled = IF settled THEN old.total_settled + 1 ELSE old.total_settled
  /\ new.total_slashed = IF settled THEN old.total_slashed ELSE old.total_slashed + 1
  /\ \A b \in Agents : b # n.agent \/ settled => stake_vault'[b] = stake_vault[b]
  /\ \E delta : Bri!Recorded(n.agent, n.job_id, IF settled THEN "Settled" ELSE "Failed", delta)

LEMMA ClaimKind ==
  ASSUME ProgramsInv, NEW p \in Pipelines, NEW i \in Esc!Indexes, NEW agent \in Agents,
         ClaimNode(p, i, agent)
  PROVE  Opens(p, i, agent) /\ ProgramsStep
<1> DEFINE tier == agent_stake[agent].tier
<1>1. Esc!ClaimNode(p, i, agent, tier) /\ Reg!IncrementOpenJobs(DagAuthority, agent)
      /\ UNCHANGED bridge
  BY SameNodeSteps, SameRegistryCalls DEF ClaimNode
<1>2. tier \in 0..3
  <2>1. agent_stake \in [Agents -> Reg!AgentStake]
    BY DEF ProgramsInv, Reg!TallyInv, Reg!StakeInv, Reg!TypeOK
  <2> QED
    BY <2>1 DEF Reg!AgentStake
<1> HIDE DEF tier
<1>3. Esc!TypeOK /\ Esc!JobInv /\ Reg!TallyInv
  BY DEF ProgramsInv, Esc!LedgerInv
<1>4. Esc!Opened(p, i, agent)
  BY <1>1, <1>3, EscrowAssumptions, Esc!ClaimOpens
<1>5. /\ Reg!OtherTalliesKept(agent) /\ stake_vault' = stake_vault
      /\ agent_stake'[agent].open_jobs = agent_stake[agent].open_jobs + 1
      /\ agent_stake'[agent].total_settled = agent_stake[agent].total_settled
      /\ agent_stake'[agent].total_slashed = agent_stake[agent].total_slashed
  BY <1>1, <1>3, RegistryAssumptions, Reg!IncrementTally
<1>6. Esc!Next
  BY <1>1, <1>2 DEF Esc!Next
<1>7. Reg!Next
  BY <1>1, ChainPipeAssumption DEF Reg!Next, Reg!EscrowCall
<1>8. UNCHANGED Bri!vars
  BY <1>1 DEF Esc!ClaimNode, bridge, Bri!vars, Bri!rbvars
<1> QED
  BY <1>1, <1>4, <1>5, <1>6, <1>7, <1>8 DEF Opens, ProgramsStep, bridge

\* decrement_open_jobs(true) and record_completion.
LEMMA ReportedSettled ==
  ASSUME ProgramsInv, NEW p \in Pipelines, NEW i \in Esc!Indexes, NEW delta \in ScoreDeltas,
         Esc!Ended(p, i, "Settled"), ReportSettled(p, i, delta)
  PROVE  Ends(p, i, TRUE) /\ Reg!Next /\ Bri!Next
<1> DEFINE agent == node[p][i].agent
           job == node[p][i].job_id
<1>1. agent \in Agents /\ job \in DE!JobIds
  BY ActiveJob DEF Esc!Ended
<1>2. Reg!SettleJob(DagAuthority, agent) /\ Bri!RecordCompletion(DagAuthority, agent, job, delta)
  BY SameRegistryCalls, SameBridgeCalls DEF ReportSettled
<1> HIDE DEF agent, job
<1>3. Reg!TallyInv /\ Bri!TypeOK
  BY DEF ProgramsInv, Bri!ReceiptInv
<1>4. /\ Reg!OtherTalliesKept(agent) /\ stake_vault' = stake_vault
      /\ agent_stake[agent].open_jobs > 0 =>
           agent_stake'[agent].open_jobs = agent_stake[agent].open_jobs - 1
      /\ agent_stake'[agent].total_settled = agent_stake[agent].total_settled + 1
      /\ agent_stake'[agent].total_slashed = agent_stake[agent].total_slashed
  BY <1>1, <1>2, <1>3, RegistryAssumptions, Reg!SettleTally
<1>5. Bri!Recorded(agent, job, "Settled", delta)
  <2>1. delta \in Bri!I16
    BY BridgeAssumptions DEF Bri!ReputationBridgeAssumption
  <2> QED
    BY <1>1, <1>2, <1>3, <2>1, BridgeAssumptions, Bri!OutcomeRecorded DEF Bri!RecordCompletion
<1>6. Reg!Next /\ Bri!Next
  BY <1>1, <1>2, ChainPipeAssumption DEF Reg!Next, Reg!EscrowCall, Bri!Next, Bri!EscrowCall
<1> QED
  BY <1>1, <1>4, <1>5, <1>6 DEF Ends, agent, job

\* decrement_open_jobs(false), slash_stake and record_failure.
LEMMA ReportedFailed ==
  ASSUME ProgramsInv, NEW p \in Pipelines, NEW i \in Esc!Indexes, NEW mint \in Mints,
         Esc!Ended(p, i, "Expired"), ReportFailed(p, i, mint)
  PROVE  Ends(p, i, FALSE) /\ Reg!Next /\ Bri!Next
<1> DEFINE agent == node[p][i].agent
           job == node[p][i].job_id
<1>1. agent \in Agents /\ job \in DE!JobIds
  BY ActiveJob DEF Esc!Ended
<1>2. /\ Reg!FailJob(DagAuthority, agent, mint, ConsumerOf[p])
      /\ Bri!RecordFailure(DagAuthority, agent, job)
  BY SameRegistryCalls, SameBridgeCalls DEF ReportFailed
<1> HIDE DEF agent, job
<1>3. Reg!TallyInv /\ Bri!TypeOK
  BY DEF ProgramsInv, Bri!ReceiptInv
<1>4. /\ Reg!OtherTalliesKept(agent)
      /\ \A b \in Agents \ {agent} : stake_vault'[b] = stake_vault[b]
      /\ agent_stake[agent].open_jobs > 0 =>
           agent_stake'[agent].open_jobs = agent_stake[agent].open_jobs - 1
      /\ agent_stake'[agent].total_settled = agent_stake[agent].total_settled
      /\ agent_stake'[agent].total_slashed = agent_stake[agent].total_slashed + 1
  BY <1>1, <1>2, <1>3, RegistryAssumptions, Reg!FailTally
<1>5. Bri!Recorded(agent, job, "Failed", Bri!FAILURE_DELTA)
  <2>1. Bri!FAILURE_DELTA \in Bri!I16
    BY DEF Bri!FAILURE_DELTA, Bri!I16
  <2> QED
    BY <1>1, <1>2, <1>3, <2>1, BridgeAssumptions, Bri!OutcomeRecorded DEF Bri!RecordFailure
<1>6. ConsumerOf[p] \in Consumers
  BY EscrowAssumptions
<1>7. Reg!Next
  BY <1>1, <1>2, <1>6, ChainPipeAssumption DEF Reg!Next, Reg!EscrowCall
<1>8. Bri!Next
  BY <1>1, <1>2, ChainPipeAssumption DEF Bri!Next, Bri!EscrowCall
<1> QED
  BY <1>1, <1>4, <1>5, <1>7, <1>8 DEF Ends, agent, job

LEMMA SettlingKind ==
  ASSUME ProgramsInv, NEW p \in Pipelines, NEW i \in Esc!Indexes, NEW mint \in Mints,
         \/ \E facilitator \in Keys, delta \in ScoreDeltas : CompleteNode(p, i, facilitator, delta, mint)
         \/ \E facilitator \in Keys : RejectDispute(p, i, facilitator, mint)
         \/ FinalizeNode(p, i, mint)
  PROVE  Ends(p, i, TRUE) /\ ProgramsStep
<1>1. /\ \/ \E facilitator \in Keys :
              Esc!CompleteNode(p, i, facilitator, mint) \/ Esc!RejectDispute(p, i, facilitator, mint)
         \/ Esc!FinalizeNode(p, i, mint)
      /\ \E delta \in ScoreDeltas : ReportSettled(p, i, delta)
  <2>1. CASE \E facilitator \in Keys, delta \in ScoreDeltas :
               CompleteNode(p, i, facilitator, delta, mint)
    BY <2>1, SameNodeSteps DEF CompleteNode
  <2>2. CASE \E facilitator \in Keys : RejectDispute(p, i, facilitator, mint)
    <3>1. PICK facilitator \in Keys : /\ Esc!RejectDispute(p, i, facilitator, mint)
                                      /\ ReportSettled(p, i, settlement[p][i].score_delta)
      BY <2>2, SameNodeSteps DEF RejectDispute
    <3>2. settlement[p][i].score_delta \in ScoreDeltas
      BY <3>1 DEF Esc!RejectDispute, ProgramsInv, Esc!DeltasGiven
    <3> QED
      BY <3>1, <3>2
  <2>3. CASE FinalizeNode(p, i, mint)
    <3>1. /\ Esc!FinalizeNode(p, i, mint)
          /\ ReportSettled(p, i, settlement[p][i].score_delta)
      BY <2>3, SameNodeSteps DEF FinalizeNode
    <3>2. settlement[p][i].score_delta \in ScoreDeltas
      BY <3>1 DEF Esc!FinalizeNode, Esc!MayFinalize, ProgramsInv, Esc!DeltasGiven
    <3> QED
      BY <3>1, <3>2
  <2> QED
    BY <2>1, <2>2, <2>3
<1>2. Esc!TypeOK /\ Esc!JobInv
  BY DEF ProgramsInv, Esc!LedgerInv
<1>3. Esc!Ended(p, i, "Settled")
  BY <1>1, <1>2, EscrowAssumptions, Esc!PaymentEnds
<1>4. Ends(p, i, TRUE) /\ Reg!Next /\ Bri!Next
  BY <1>1, <1>3, ReportedSettled
<1>5. Esc!Next
  BY <1>1 DEF Esc!Next, Esc!FacilitatorStep
<1> QED
  BY <1>4, <1>5 DEF ProgramsStep

LEMMA UpholdKind ==
  ASSUME ProgramsInv, NEW p \in Pipelines, NEW i \in Esc!Indexes, NEW mint \in Mints,
         NEW facilitator \in Keys,
         UpholdDispute(p, i, facilitator, mint)
  PROVE  Ends(p, i, FALSE) /\ ProgramsStep
<1>1. Esc!UpholdDispute(p, i, facilitator, mint) /\ ReportFailed(p, i, mint)
  BY SameNodeSteps DEF UpholdDispute
<1>2. Esc!TypeOK /\ Esc!JobInv
  BY DEF ProgramsInv, Esc!LedgerInv
<1>3. Esc!Ended(p, i, "Expired")
  BY <1>1, <1>2, EscrowAssumptions, Esc!UpholdEnds
<1>4. Ends(p, i, FALSE) /\ Reg!Next /\ Bri!Next
  BY <1>1, <1>3, ReportedFailed
<1>5. Esc!Next
  BY <1>1 DEF Esc!Next, Esc!FacilitatorStep
<1> QED
  BY <1>4, <1>5 DEF ProgramsStep

\* Steps of dag_escrow alone.
LEMMA OthersIdle ==
  ASSUME ProgramsInv, slot' = slot, UNCHANGED <<registry, bridge>>
  PROVE  /\ UNCHANGED Reg!vars /\ UNCHANGED Bri!vars
         /\ Reg!TalliesKept /\ Reg!OwnDoing /\ job_record' = job_record
<1>1. UNCHANGED Reg!vars /\ UNCHANGED Bri!vars /\ job_record' = job_record
  BY DEF registry, bridge, Reg!vars, Reg!brvars, Bri!vars, Bri!rbvars
<1>2. Reg!TallyInv
  BY DEF ProgramsInv
<1> QED
  BY <1>1, <1>2, RegistryAssumptions, Reg!QuietTallies

LEMMA ExpireKind ==
  ASSUME ProgramsInv, NEW p \in Pipelines, NEW i \in Esc!Indexes, NEW mint \in Mints,
         NEW listed \in SUBSET Esc!Indexes, ExpireNode(p, i, listed, mint)
  PROVE  (Quiet \/ Ends(p, i, FALSE)) /\ ProgramsStep
<1>1. /\ Esc!ExpireNode(p, i, listed, mint)
      /\ \/ node[p][i].status = "Pending" /\ UNCHANGED <<registry, bridge>>
         \/ node[p][i].status = "Claimed" /\ ReportFailed(p, i, mint)
  BY SameExpire DEF ExpireNode
<1>2. Esc!TypeOK /\ Esc!JobInv
  BY DEF ProgramsInv, Esc!LedgerInv
<1>3. /\ node[p][i].status = "Pending" => Esc!JobsKept
      /\ node[p][i].status = "Claimed" => Esc!Ended(p, i, "Expired")
  BY <1>1, <1>2, EscrowAssumptions, Esc!ExpiryOfJobs
<1>4. Esc!Next
  BY <1>1 DEF Esc!Next
<1>5. CASE node[p][i].status = "Pending" /\ UNCHANGED <<registry, bridge>>
  <2>1. slot' = slot
    BY <1>1 DEF Esc!ExpireNode
  <2> QED
    BY <1>3, <1>4, <1>5, <2>1, OthersIdle DEF Quiet, ProgramsStep
<1>6. CASE node[p][i].status = "Claimed" /\ ReportFailed(p, i, mint)
  BY <1>3, <1>4, <1>6, ReportedFailed DEF ProgramsStep
<1> QED
  BY <1>1, <1>5, <1>6

LEMMA EscrowAloneKind ==
  ASSUME ProgramsInv, UNCHANGED <<registry, bridge>>,
         \/ DE!OperatorStep
         \/ \E p \in Pipelines : ConsumerStep(p)
         \/ \E p \in Pipelines, i \in Esc!Indexes : SubmitCompletion(p, i)
  PROVE  Quiet /\ ProgramsStep
<1>1. Esc!TypeOK /\ Esc!SummaryInv /\ Esc!JobInv
  BY DEF ProgramsInv, Esc!LedgerInv
<1>2. CASE DE!OperatorStep
  <2>1. Esc!OperatorStep
    BY <1>2, SameQuiet
  <2>2. Esc!JobsKept
    BY <1>1, <2>1, EscrowAssumptions, Esc!QuietJobs
  <2>3. Esc!Next /\ slot' = slot
    BY <2>1 DEF Esc!Next, Esc!OperatorStep, Esc!SetFacilitatorAuthority, Esc!SetPaused,
                Esc!SetDisputeWindow, Esc!ProposeOperator, Esc!AcceptOperator
  <2> QED
    BY <2>2, <2>3, OthersIdle DEF Quiet, ProgramsStep
<1>3. ASSUME NEW p \in Pipelines, ConsumerStep(p)
      PROVE  Quiet /\ ProgramsStep
  <2>1. Esc!ConsumerStep(p)
    BY <1>3, SameConsumerStep DEF ConsumerStep
  <2>2. Esc!JobsKept
    BY <1>1, <2>1, EscrowAssumptions, Esc!CreateKeepsJobs, Esc!CancelKeepsJobs, Esc!ReviewKeepsJob
       DEF Esc!ConsumerStep
  <2>3. Esc!Next /\ slot' = slot
    BY <2>1 DEF Esc!Next, Esc!ConsumerStep, Esc!CreatePipeline, Esc!CancelPipeline, Esc!DisputeNode
  <2> QED
    BY <2>2, <2>3, OthersIdle DEF Quiet, ProgramsStep
<1>4. ASSUME NEW p \in Pipelines, NEW i \in Esc!Indexes, SubmitCompletion(p, i)
      PROVE  Quiet /\ ProgramsStep
  <2>1. PICK facilitator \in Keys, delta \in ScoreDeltas :
          Esc!SubmitCompletion(p, i, facilitator, delta)
    BY <1>4, SameNodeSteps DEF SubmitCompletion
  <2>2. Esc!JobsKept
    BY <1>1, <2>1, EscrowAssumptions, Esc!ReviewKeepsJob
  <2>3. Esc!Next /\ slot' = slot
    BY <2>1 DEF Esc!Next, Esc!FacilitatorStep, Esc!SubmitCompletion
  <2> QED
    BY <2>2, <2>3, OthersIdle DEF Quiet, ProgramsStep
<1> QED
  BY <1>2, <1>3, <1>4

LEMMA JobsIdle ==
  ASSUME ProgramsInv, UNCHANGED escrow
  PROVE  Esc!JobsKept
<1>1. node' = node
  BY DEF escrow
<1>2. Esc!JobInv
  BY DEF ProgramsInv
<1>3. \A p \in Pipelines, i \in Esc!Indexes : Esc!SameJob(node[p][i], node[p][i])
  BY <1>2, EscrowAssumptions, Esc!SoundIsSame DEF Esc!JobInv
<1> QED
  BY <1>1, <1>3 DEF Esc!JobsKept

\* Steps of the clock, of the registry alone and of the bridge alone.
LEMMA ElsewhereKind ==
  ASSUME ProgramsInv,
         \/ Tick
         \/ UNCHANGED vars
         \/ \E a \in Agents : StakingStep(a)
         \/ BR!OperatorStep /\ UNCHANGED <<escrow, bridge>>
         \/ RB!OperatorStep /\ UNCHANGED <<escrow, registry>>
  PROVE  Quiet /\ ProgramsStep
<1>1. Esc!TypeOK /\ Esc!JobInv /\ Reg!TallyInv /\ Bri!ReceiptInv
  BY DEF ProgramsInv, Esc!LedgerInv
<1>2. CASE Tick
  <2>1. Esc!Tick /\ UNCHANGED <<registry, bridge>>
    BY <1>2, SameQuiet DEF Tick
  <2>2. Esc!JobsKept
    BY <1>1, <2>1, EscrowAssumptions, Esc!QuietJobs
  <2>3. Reg!Tick /\ Bri!Tick
    BY <2>1 DEF Esc!Tick, Reg!Tick, Bri!Tick, registry, bridge, Reg!brvars, Bri!rbvars
  <2>4. Reg!TalliesKept /\ Reg!OwnDoing
    BY <1>1, <2>3, RegistryAssumptions, Reg!QuietTallies
  <2> QED
    BY <2>1, <2>2, <2>3, <2>4 DEF Quiet, ProgramsStep, Esc!Next, Reg!Next, Bri!Next, bridge
<1>3. CASE UNCHANGED vars
  <2>1. UNCHANGED escrow /\ UNCHANGED <<registry, bridge>> /\ slot' = slot
    BY <1>3 DEF vars
  <2>2. UNCHANGED Esc!vars
    BY <2>1 DEF escrow, Esc!vars, Esc!accounts, Esc!wallets
  <2> QED
    BY <2>1, <2>2, JobsIdle, OthersIdle DEF Quiet, ProgramsStep
<1>4. ASSUME UNCHANGED <<escrow, bridge>>,
             \/ \E a \in Agents : BR!AgentStep(a)
             \/ BR!OperatorStep
      PROVE  Quiet /\ ProgramsStep
  <2>1. \/ \E a \in Agents : Reg!AgentStep(a)
        \/ Reg!OperatorStep
    BY <1>4, SameAgentStep, SameRegistryQuiet
  <2>2. slot' = slot
    BY <2>1 DEF Reg!AgentStep, Reg!StakeAndRegister, Reg!AddStake, Reg!Deposit, Reg!DepositForeign, Reg!RequestUnstake,
                Reg!ExecuteUnstake, Reg!OperatorStep, Reg!SetDagEscrowAuthority,
                Reg!SetMaxSlashBps, Reg!ProposeOperator, Reg!AcceptOperator,
                Reg!ConfigUnchangedElse
  <2>3. UNCHANGED Esc!vars /\ UNCHANGED Bri!vars /\ job_record' = job_record
    BY <1>4, <2>2 DEF escrow, bridge, Esc!vars, Esc!accounts, Esc!wallets, Bri!vars, Bri!rbvars
  <2>4. Reg!TalliesKept /\ Reg!OwnDoing
    BY <1>1, <2>1, RegistryAssumptions, Reg!QuietTallies, Reg!AgentStepTallies
  <2>5. Reg!Next
    BY <2>1 DEF Reg!Next
  <2> QED
    BY <1>4, <2>3, <2>4, <2>5, JobsIdle DEF Quiet, ProgramsStep
<1>5. CASE RB!OperatorStep /\ UNCHANGED <<escrow, registry>>
  <2>1. Bri!OperatorStep
    BY <1>5, SameBridge
  <2>2. slot' = slot
    BY <2>1 DEF Bri!OperatorStep, Bri!SetDagEscrowAuthority, Bri!ProposeOperator, Bri!AcceptOperator
  <2>3. UNCHANGED Esc!vars /\ UNCHANGED Reg!vars
    BY <1>5, <2>2 DEF escrow, registry, Esc!vars, Esc!accounts, Esc!wallets, Reg!vars, Reg!brvars
  <2>4. Reg!TalliesKept /\ Reg!OwnDoing
    BY <1>1, <2>3, RegistryAssumptions, Reg!QuietTallies
  <2>5. job_record' = job_record
    BY <1>1, <2>1, BridgeAssumptions, Bri!NoNewReceipt
  <2>6. Bri!Next
    BY <2>1 DEF Bri!Next
  <2> QED
    BY <1>5, <2>3, <2>4, <2>5, <2>6, JobsIdle DEF Quiet, ProgramsStep
<1> QED
  BY <1>2, <1>3, <1>4, <1>5 DEF StakingStep

LEMMA StepKinds ==
  ASSUME ProgramsInv, [Next]_vars
  PROVE  /\ ProgramsStep
         /\ \/ Quiet
            \/ \E p \in Pipelines, i \in Esc!Indexes :
                 \/ \E agent \in Agents : Opens(p, i, agent)
                 \/ \E settled \in BOOLEAN : Ends(p, i, settled)
<1>1. CASE Tick \/ UNCHANGED vars \/ \E a \in Agents : StakingStep(a)
  BY <1>1, ElsewhereKind
<1>2. CASE OperatorStep
  BY <1>2, ElsewhereKind, EscrowAloneKind DEF OperatorStep
<1>3. ASSUME NEW p \in Pipelines, ConsumerStep(p)
      PROVE  Quiet /\ ProgramsStep
  BY <1>3, EscrowAloneKind DEF ConsumerStep
<1>4. ASSUME NEW p \in Pipelines, NEW i \in Esc!Indexes, SubmitCompletion(p, i)
      PROVE  Quiet /\ ProgramsStep
  BY <1>4, EscrowAloneKind DEF SubmitCompletion
<1> QED
  BY <1>1, <1>2, <1>3, <1>4, ClaimKind, SettlingKind, UpholdKind, ExpireKind, SameEscrowNames
     DEF Next

(***************************************************************************)
(* The ledgers agree.  By itself neither OpenJobsExact nor LedgersAgree is  *)
(* inductive: a job that ends lowers the open jobs the registry counts only *)
(* if they are not zero, and writes a receipt only if none has its name.    *)
(***************************************************************************)
Matched(a) ==
  /\ agent_stake[a].open_jobs = Esc!Count(a, Esc!ActiveStatus)
  /\ agent_stake[a].total_settled = Esc!Count(a, {"Settled"})
  /\ agent_stake[a].total_slashed = Esc!Count(a, {"Expired"})
  /\ Bri!Cardinality(Bri!RecordsOf(a, "Settled")) = Esc!Count(a, {"Settled"})
  /\ Bri!Cardinality(Bri!RecordsOf(a, "Failed")) = Esc!Count(a, {"Expired"})

JobEnded(n) == n.agent # Nobody /\ n.status \in {"Settled", "Expired"}
OutcomeOf(n) == IF n.status = "Settled" THEN "Settled" ELSE "Failed"

ReceiptsMatch ==
  /\ \A p \in Pipelines, i \in Esc!Indexes :
       node[p][i].job_id \in DOMAIN job_record <=> JobEnded(node[p][i])
  /\ \A j \in DOMAIN job_record :
       \E p \in Pipelines, i \in Esc!Indexes :
         /\ node[p][i].job_id = j /\ job_record[j].agent = node[p][i].agent
         /\ job_record[j].outcome = OutcomeOf(node[p][i])

ChainInv == ProgramsInv /\ (\A a \in Agents : Matched(a)) /\ ReceiptsMatch

LEMMA InitMatched == Init => (\A a \in Agents : Matched(a)) /\ ReceiptsMatch
<1> SUFFICES ASSUME Init PROVE (\A a \in Agents : Matched(a)) /\ ReceiptsMatch
  OBVIOUS
<1>1. Esc!Init /\ Reg!Init /\ Bri!Init
  BY SameEscrow, SameRegistry, SameBridge DEF Init
<1>2. \A p \in Pipelines, i \in Esc!Indexes :
        node[p][i].status = "Absent" /\ node[p][i].agent = Nobody /\ node[p][i].job_id = <<>>
  BY <1>1 DEF Esc!Init, Esc!NoNode, Esc!NoJob
<1>3. DOMAIN job_record = {}
  BY <1>1 DEF Bri!Init
<1>4. ASSUME NEW a \in Agents PROVE Matched(a)
  <2>1. a # Nobody
    BY EscrowAssumptions
  <2>2. \A statuses : Esc!JobsOf(a, statuses) = {}
    BY <1>2, <2>1 DEF Esc!JobsOf, Esc!NodeIds
  <2>3. \A statuses : Esc!Count(a, statuses) = 0
    BY <2>2, EscrowAssumptions, Esc!FS_EmptySet DEF Esc!Count
  <2>4. \A outcome : Bri!Cardinality(Bri!RecordsOf(a, outcome)) = 0
    <3>1. \A outcome : Bri!RecordsOf(a, outcome) = {}
      BY <1>3 DEF Bri!RecordsOf
    <3> QED
      BY <3>1, Bri!FS_EmptySet
  <2>5. /\ agent_stake[a].open_jobs = 0 /\ agent_stake[a].total_settled = 0
        /\ agent_stake[a].total_slashed = 0
    BY <1>1 DEF Reg!Init, Reg!NoStake
  <2> QED
    BY <2>3, <2>4, <2>5 DEF Matched
<1>5. ReceiptsMatch
  BY <1>2, <1>3 DEF ReceiptsMatch, JobEnded
<1> QED
  BY <1>4, <1>5

(***************************************************************************)
(* Counters                                                                 *)
(***************************************************************************)
LEMMA SameRecords ==
  ASSUME job_record' = job_record, NEW a, NEW outcome
  PROVE  Bri!RecordsOf(a, outcome)' = Bri!RecordsOf(a, outcome)
BY DEF Bri!RecordsOf

LEMMA QuietMatched ==
  ASSUME Quiet, NEW a \in Agents, Matched(a)
  PROVE  Matched(a)'
<1>1. /\ Esc!ActiveStatus \in Esc!JobStates /\ {"Settled"} \in Esc!JobStates
      /\ {"Expired"} \in Esc!JobStates
  BY DEF Esc!JobStates
<1>2. /\ Esc!JobsOf(a, Esc!ActiveStatus)' = Esc!JobsOf(a, Esc!ActiveStatus)
      /\ Esc!JobsOf(a, {"Settled"})' = Esc!JobsOf(a, {"Settled"})
      /\ Esc!JobsOf(a, {"Expired"})' = Esc!JobsOf(a, {"Expired"})
  BY <1>1, EscrowAssumptions, Esc!JobsKeptByAgent DEF Quiet
<1>3. Reg!SameTally(agent_stake'[a], agent_stake[a])
  BY DEF Quiet, Reg!TalliesKept
<1>4. /\ Bri!RecordsOf(a, "Settled")' = Bri!RecordsOf(a, "Settled")
      /\ Bri!RecordsOf(a, "Failed")' = Bri!RecordsOf(a, "Failed")
  BY SameRecords DEF Quiet
<1> QED
  BY <1>2, <1>3, <1>4 DEF Matched, Esc!Count, Reg!SameTally

LEMMA OpensMatched ==
  ASSUME NEW p \in Pipelines, NEW i \in Esc!Indexes, NEW agent \in Agents, Opens(p, i, agent),
         NEW a \in Agents, Matched(a)
  PROVE  Matched(a)'
<1>1. /\ Esc!Count(a, Esc!ActiveStatus)' =
           IF a = agent THEN Esc!Count(a, Esc!ActiveStatus) + 1
                        ELSE Esc!Count(a, Esc!ActiveStatus)
      /\ Esc!Count(a, {"Settled"})' = Esc!Count(a, {"Settled"})
      /\ Esc!Count(a, {"Expired"})' = Esc!Count(a, {"Expired"})
  BY EscrowAssumptions, Esc!OpenedCounts DEF Opens
<1>2. /\ Bri!RecordsOf(a, "Settled")' = Bri!RecordsOf(a, "Settled")
      /\ Bri!RecordsOf(a, "Failed")' = Bri!RecordsOf(a, "Failed")
  BY SameRecords DEF Opens
<1>3. CASE a = agent
  BY <1>1, <1>2, <1>3 DEF Opens, Matched
<1>4. CASE a # agent
  <2>1. Reg!SameTally(agent_stake'[a], agent_stake[a])
    BY <1>4 DEF Opens, Reg!OtherTalliesKept
  <2> QED
    BY <1>1, <1>2, <1>4, <2>1 DEF Matched, Reg!SameTally
<1> QED
  BY <1>3, <1>4

\* One receipt more, in the set of its agent and its outcome.
LEMMA ReceiptCounts ==
  ASSUME ProgramsInv, NEW agent \in Agents, NEW job, NEW outcome \in {"Settled", "Failed"},
         NEW delta, Bri!Recorded(agent, job, outcome, delta),
         NEW a \in Agents, NEW o \in {"Settled", "Failed"}
  PROVE  Bri!Cardinality(Bri!RecordsOf(a, o)') =
           IF a = agent /\ o = outcome THEN Bri!Cardinality(Bri!RecordsOf(a, o)) + 1
                                       ELSE Bri!Cardinality(Bri!RecordsOf(a, o))
<1>1. Bri!RecordsOf(a, o)' =
        IF a = agent /\ o = outcome THEN Bri!RecordsOf(a, o) \cup {job} ELSE Bri!RecordsOf(a, o)
  BY Bri!RecordsGrow
<1>2. Bri!IsFiniteSet(DOMAIN job_record)
  BY DEF ProgramsInv, Bri!ReceiptInv, Bri!ReceiptsDated
<1>3. job \notin DOMAIN job_record
  BY DEF Bri!Recorded
<1>4. Bri!Cardinality(Bri!RecordsOf(a, o) \cup {job}) = Bri!Cardinality(Bri!RecordsOf(a, o)) + 1
  BY <1>2, <1>3, Bri!OneMore
<1> QED
  BY <1>1, <1>4

LEMMA EndsMatched ==
  ASSUME ProgramsInv, NEW p \in Pipelines, NEW i \in Esc!Indexes, NEW settled \in BOOLEAN,
         Ends(p, i, settled), NEW a \in Agents, Matched(a)
  PROVE  Matched(a)'
<1>1. PICK agent \in Agents, outcome \in {"Settled", "Expired"}, receipt \in {"Settled", "Failed"} :
        /\ agent = node[p][i].agent
        /\ outcome = IF settled THEN "Settled" ELSE "Expired"
        /\ receipt = IF settled THEN "Settled" ELSE "Failed"
  BY DEF Ends
<1>2. Esc!EndedFor(p, i, agent, outcome)
  BY <1>1 DEF Esc!EndedFor, Ends
<1>3. /\ Esc!Count(a, Esc!ActiveStatus)' =
           IF a = agent THEN Esc!Count(a, Esc!ActiveStatus) - 1
                        ELSE Esc!Count(a, Esc!ActiveStatus)
      /\ Esc!Count(a, {"Settled"})' =
           IF a = agent /\ outcome = "Settled" THEN Esc!Count(a, {"Settled"}) + 1
                                               ELSE Esc!Count(a, {"Settled"})
      /\ Esc!Count(a, {"Expired"})' =
           IF a = agent /\ outcome = "Expired" THEN Esc!Count(a, {"Expired"}) + 1
                                               ELSE Esc!Count(a, {"Expired"})
  <2>1. Esc!CountsEnded(a, agent, outcome)
    BY <1>2, EscrowAssumptions, Esc!EndedCounts
  <2> QED
    BY <2>1 DEF Esc!CountsEnded
<1>4. /\ Bri!Cardinality(Bri!RecordsOf(a, "Settled")') =
           IF a = agent /\ "Settled" = receipt
           THEN Bri!Cardinality(Bri!RecordsOf(a, "Settled")) + 1
           ELSE Bri!Cardinality(Bri!RecordsOf(a, "Settled"))
      /\ Bri!Cardinality(Bri!RecordsOf(a, "Failed")') =
           IF a = agent /\ "Failed" = receipt
           THEN Bri!Cardinality(Bri!RecordsOf(a, "Failed")) + 1
           ELSE Bri!Cardinality(Bri!RecordsOf(a, "Failed"))
  <2>1. PICK delta : Bri!Recorded(agent, node[p][i].job_id, receipt, delta)
    BY <1>1 DEF Ends
  <2> QED
    BY <1>1, <2>1, ReceiptCounts
<1>5. CASE a # agent
  <2>1. Reg!SameTally(agent_stake'[a], agent_stake[a])
    BY <1>1, <1>5 DEF Ends, Reg!OtherTalliesKept
  <2> QED
    BY <1>3, <1>4, <1>5, <2>1 DEF Matched, Reg!SameTally
<1>6. CASE a = agent
  <2>1. agent_stake[a].open_jobs > 0
    <3>1. <<p, i>> \in Esc!JobsOf(a, Esc!ActiveStatus)
      BY <1>1, <1>2, <1>6 DEF Esc!EndedFor, Esc!Ended, Esc!JobsOf, Esc!NodeIds
    <3>2. Esc!IsFiniteSet(Esc!JobsOf(a, Esc!ActiveStatus))
      BY EscrowAssumptions, Esc!JobsFinite
    <3>3. Esc!Count(a, Esc!ActiveStatus) # 0 /\ Esc!Count(a, Esc!ActiveStatus) \in Nat
      BY <3>1, <3>2, EscrowAssumptions, Esc!FS_EmptySet, Esc!CountsTyped DEF Esc!Count
    <3> QED
      BY <3>3 DEF Matched
  <2>2. /\ agent_stake'[a].open_jobs = agent_stake[a].open_jobs - 1
        /\ agent_stake'[a].total_settled =
             IF settled THEN agent_stake[a].total_settled + 1 ELSE agent_stake[a].total_settled
        /\ agent_stake'[a].total_slashed =
             IF settled THEN agent_stake[a].total_slashed ELSE agent_stake[a].total_slashed + 1
    BY <1>1, <1>6, <2>1 DEF Ends
  <2>3. /\ outcome = "Settled" <=> settled
        /\ outcome = "Expired" <=> ~settled
        /\ "Settled" = receipt <=> settled
        /\ "Failed" = receipt <=> ~settled
    BY <1>1
  <2>4. CASE settled
    BY <1>3, <1>4, <1>6, <2>2, <2>3, <2>4 DEF Matched
  <2>5. CASE ~settled
    BY <1>3, <1>4, <1>6, <2>2, <2>3, <2>5 DEF Matched
  <2> QED
    BY <2>4, <2>5
<1> QED
  BY <1>5, <1>6

(***************************************************************************)
(* Receipts: a job names its node, so no two nodes share a receipt.         *)
(***************************************************************************)
LEMMA JobNamesNode ==
  ASSUME Esc!JobInv, NEW p \in Pipelines, NEW i \in Esc!Indexes,
         NEW q \in Pipelines, NEW j \in Esc!Indexes,
         node[p][i].agent # Nobody, node[q][j].job_id = node[p][i].job_id
  PROVE  q = p /\ j = i
<1>1. Esc!JobSound(node[p][i], p, i) /\ Esc!JobSound(node[q][j], q, j)
  BY DEF Esc!JobInv
<1>2. PICK s : node[p][i].job_id = <<p, i, node[p][i].agent, s>>
  BY <1>1 DEF Esc!JobSound
<1>3. node[q][j].agent # Nobody
  BY <1>1, <1>2 DEF Esc!JobSound, Esc!NoJob
<1>4. PICK t : node[q][j].job_id = <<q, j, node[q][j].agent, t>>
  BY <1>1, <1>3 DEF Esc!JobSound
<1> QED
  BY <1>2, <1>4

LEMMA SameEnd ==
  ASSUME NEW m, NEW n, Esc!SameJob(m, n)
  PROVE  /\ m.job_id = n.job_id /\ m.agent = n.agent
         /\ JobEnded(m) <=> JobEnded(n)
         /\ JobEnded(n) => OutcomeOf(m) = OutcomeOf(n)
BY DEF Esc!SameJob, JobEnded, OutcomeOf

LEMMA QuietReceipts ==
  ASSUME Quiet, ReceiptsMatch
  PROVE  ReceiptsMatch'
<1>1. \A p \in Pipelines, i \in Esc!Indexes : Esc!SameJob(node'[p][i], node[p][i])
  BY DEF Quiet, Esc!JobsKept
<1>2. job_record' = job_record
  BY DEF Quiet
<1>3. \A p \in Pipelines, i \in Esc!Indexes :
        node'[p][i].job_id \in DOMAIN job_record' <=> JobEnded(node'[p][i])
  BY <1>1, <1>2, SameEnd DEF ReceiptsMatch
<1>4. ASSUME NEW j \in DOMAIN job_record'
      PROVE  \E p \in Pipelines, i \in Esc!Indexes :
               /\ node'[p][i].job_id = j /\ job_record'[j].agent = node'[p][i].agent
               /\ job_record'[j].outcome = OutcomeOf(node'[p][i])
  <2>1. PICK p \in Pipelines, i \in Esc!Indexes :
          /\ node[p][i].job_id = j /\ job_record[j].agent = node[p][i].agent
          /\ job_record[j].outcome = OutcomeOf(node[p][i])
    BY <1>2 DEF ReceiptsMatch
  <2>2. JobEnded(node[p][i])
    BY <1>2, <2>1 DEF ReceiptsMatch
  <2> QED
    BY <1>1, <1>2, <2>1, <2>2, SameEnd
<1> QED
  BY <1>3, <1>4 DEF ReceiptsMatch, JobEnded, OutcomeOf

LEMMA OpensReceipts ==
  ASSUME ProgramsInv, NEW p \in Pipelines, NEW i \in Esc!Indexes, NEW agent \in Agents,
         Opens(p, i, agent), ReceiptsMatch
  PROVE  ReceiptsMatch'
<1>1. /\ job_record' = job_record
      /\ node[p][i].agent = Nobody /\ node[p][i].status = "Pending"
      /\ node'[p][i].status = "Claimed" /\ node'[p][i].job_id = <<p, i, agent, slot>>
  BY DEF Opens, Esc!Opened
<1>2. \A q \in Pipelines, j \in Esc!Indexes :
        ~(q = p /\ j = i) => Esc!SameJob(node'[q][j], node[q][j])
  BY DEF Opens, Esc!Opened, Esc!OtherJobsKept
<1>3. <<p, i, agent, slot>> \notin DOMAIN job_record
  <2> SUFFICES ASSUME <<p, i, agent, slot>> \in DOMAIN job_record PROVE FALSE
    OBVIOUS
  <2>1. PICK q \in Pipelines, j \in Esc!Indexes :
          node[q][j].job_id = <<p, i, agent, slot>>
    BY DEF ReceiptsMatch
  <2>2. node[q][j].agent # Nobody
    BY <2>1 DEF ReceiptsMatch, JobEnded
  <2>3. PICK t : node[q][j].job_id = <<q, j, node[q][j].agent, t>>
    BY <2>2 DEF ProgramsInv, Esc!JobInv, Esc!JobSound
  <2> QED
    BY <1>1, <2>1, <2>2, <2>3
<1>4. ASSUME NEW q \in Pipelines, NEW j \in Esc!Indexes
      PROVE  node'[q][j].job_id \in DOMAIN job_record' <=> JobEnded(node'[q][j])
  <2>1. CASE q = p /\ j = i
    BY <1>1, <1>3, <2>1 DEF JobEnded
  <2>2. CASE ~(q = p /\ j = i)
    BY <1>1, <1>2, <2>2, SameEnd DEF ReceiptsMatch
  <2> QED
    BY <2>1, <2>2
<1>5. ASSUME NEW job \in DOMAIN job_record'
      PROVE  \E q \in Pipelines, j \in Esc!Indexes :
               /\ node'[q][j].job_id = job /\ job_record'[job].agent = node'[q][j].agent
               /\ job_record'[job].outcome = OutcomeOf(node'[q][j])
  <2>1. PICK q \in Pipelines, j \in Esc!Indexes :
          /\ node[q][j].job_id = job /\ job_record[job].agent = node[q][j].agent
          /\ job_record[job].outcome = OutcomeOf(node[q][j])
    BY <1>1 DEF ReceiptsMatch
  <2>2. JobEnded(node[q][j])
    BY <1>1, <2>1 DEF ReceiptsMatch
  <2>3. ~(q = p /\ j = i)
    BY <1>1, <2>2 DEF JobEnded
  <2> QED
    BY <1>1, <1>2, <2>1, <2>2, <2>3, SameEnd
<1> QED
  BY <1>4, <1>5 DEF ReceiptsMatch, JobEnded, OutcomeOf

LEMMA EndsReceipts ==
  ASSUME ProgramsInv, NEW p \in Pipelines, NEW i \in Esc!Indexes, NEW settled \in BOOLEAN,
         Ends(p, i, settled), ReceiptsMatch
  PROVE  ReceiptsMatch'
<1> DEFINE job == node[p][i].job_id
           outcome == IF settled THEN "Settled" ELSE "Failed"
<1>1. PICK delta : Bri!Recorded(node[p][i].agent, job, outcome, delta)
  BY DEF Ends
<1>2. /\ job \notin DOMAIN job_record
      /\ DOMAIN job_record' = DOMAIN job_record \cup {job}
      /\ \A k \in DOMAIN job_record : job_record'[k] = job_record[k]
      /\ job_record'[job].agent = node[p][i].agent /\ job_record'[job].outcome = outcome
  BY <1>1 DEF Bri!Recorded
<1>3. /\ node[p][i].agent \in Agents /\ node[p][i].agent # Nobody
      /\ node'[p][i].agent = node[p][i].agent /\ node'[p][i].job_id = job
      /\ node'[p][i].status = IF settled THEN "Settled" ELSE "Expired"
  BY EscrowAssumptions DEF Ends, Esc!Ended
<1>4. \A q \in Pipelines, j \in Esc!Indexes :
        ~(q = p /\ j = i) => Esc!SameJob(node'[q][j], node[q][j])
  BY DEF Ends, Esc!Ended, Esc!OtherJobsKept
<1>5. JobEnded(node'[p][i]) /\ OutcomeOf(node'[p][i]) = outcome
  BY <1>3 DEF JobEnded, OutcomeOf
<1>6. \A q \in Pipelines, j \in Esc!Indexes : ~(q = p /\ j = i) => node[q][j].job_id # job
  BY <1>3, JobNamesNode DEF ProgramsInv
<1> HIDE DEF job, outcome
<1>7. ASSUME NEW q \in Pipelines, NEW j \in Esc!Indexes
      PROVE  node'[q][j].job_id \in DOMAIN job_record' <=> JobEnded(node'[q][j])
  <2>1. CASE q = p /\ j = i
    BY <1>2, <1>3, <1>5, <2>1
  <2>2. CASE ~(q = p /\ j = i)
    <3>1. /\ node'[q][j].job_id = node[q][j].job_id
          /\ JobEnded(node'[q][j]) <=> JobEnded(node[q][j])
      BY <1>4, <2>2, SameEnd
    <3>2. node[q][j].job_id \in DOMAIN job_record <=> JobEnded(node[q][j])
      BY DEF ReceiptsMatch
    <3> QED
      BY <1>2, <1>6, <2>2, <3>1, <3>2
  <2> QED
    BY <2>1, <2>2
<1>8. ASSUME NEW k \in DOMAIN job_record'
      PROVE  \E q \in Pipelines, j \in Esc!Indexes :
               /\ node'[q][j].job_id = k /\ job_record'[k].agent = node'[q][j].agent
               /\ job_record'[k].outcome = OutcomeOf(node'[q][j])
  <2>1. CASE k = job
    BY <1>2, <1>3, <1>5, <2>1
  <2>2. CASE k # job
    <3>1. k \in DOMAIN job_record
      BY <1>2, <2>2
    <3>2. PICK q \in Pipelines, j \in Esc!Indexes :
            /\ node[q][j].job_id = k /\ job_record[k].agent = node[q][j].agent
            /\ job_record[k].outcome = OutcomeOf(node[q][j])
      BY <3>1 DEF ReceiptsMatch
    <3>3. JobEnded(node[q][j])
      BY <3>1, <3>2 DEF ReceiptsMatch
    <3>4. ~(q = p /\ j = i)
      BY <2>2, <3>2 DEF job
    <3> QED
      BY <1>2, <1>4, <3>1, <3>2, <3>3, <3>4, SameEnd
  <2> QED
    BY <2>1, <2>2
<1> QED
  BY <1>7, <1>8 DEF ReceiptsMatch, JobEnded, OutcomeOf

LEMMA InitChain == Init => ChainInv
BY InitPrograms, InitMatched DEF ChainInv

LEMMA ChainPreserved == ChainInv /\ [Next]_vars => ChainInv'
<1> SUFFICES ASSUME ChainInv, [Next]_vars PROVE ChainInv'
  OBVIOUS
<1>1. ProgramsInv /\ ReceiptsMatch /\ \A a \in Agents : Matched(a)
  BY DEF ChainInv
<1>2. /\ ProgramsStep
      /\ \/ Quiet
         \/ \E p \in Pipelines, i \in Esc!Indexes :
              \/ \E agent \in Agents : Opens(p, i, agent)
              \/ \E settled \in BOOLEAN : Ends(p, i, settled)
  BY <1>1, StepKinds
<1>3. ProgramsInv'
  BY <1>1, <1>2, ProgramsPreserved
<1>4. ASSUME NEW a \in Agents PROVE Matched(a)'
  BY <1>1, <1>2, QuietMatched, OpensMatched, EndsMatched
<1>5. ReceiptsMatch'
  BY <1>1, <1>2, QuietReceipts, OpensReceipts, EndsReceipts
<1> QED
  BY <1>3, <1>4, <1>5 DEF ChainInv

(***************************************************************************)
(* Theorems                                                                 *)
(***************************************************************************)
LEMMA ChainInvariant == Spec => []ChainInv
BY InitChain, ChainPreserved, PTL DEF Spec

\* Each program, called by the others and by its users in one transaction or
\* several, does nothing but what it does when anybody may call it at any time:
\* what is proved of one program alone holds of the deployment of the three.
THEOREM ProgramsImplemented == Spec => DE!Spec /\ BR!Spec /\ RB!Spec
<1>1. Init => DE!Init /\ BR!Init /\ RB!Init
  BY DEF Init
<1>2. ChainInv /\ [Next]_vars =>
        [DE!Next]_(DE!vars) /\ [BR!Next]_(BR!vars) /\ [RB!Next]_(RB!vars)
  <2> SUFFICES ASSUME ChainInv, [Next]_vars
               PROVE  [DE!Next]_(DE!vars) /\ [BR!Next]_(BR!vars) /\ [RB!Next]_(RB!vars)
    OBVIOUS
  <2>1. [Esc!Next]_(Esc!vars) /\ [Reg!Next]_(Reg!vars) /\ [Bri!Next]_(Bri!vars)
    BY StepKinds DEF ChainInv, ProgramsStep
  <2>2. /\ UNCHANGED Esc!vars <=> UNCHANGED DE!vars
        /\ UNCHANGED Reg!vars <=> UNCHANGED BR!vars
        /\ UNCHANGED Bri!vars <=> UNCHANGED RB!vars
    BY DEF Esc!vars, DE!vars, Esc!accounts, DE!accounts, Esc!wallets, DE!wallets,
           Reg!vars, BR!vars, Reg!brvars, BR!brvars, Bri!vars, RB!vars, Bri!rbvars, RB!rbvars
  <2> QED
    BY <2>1, <2>2, SameEscrow, SameRegistry, SameBridge
<1> QED
  BY <1>1, <1>2, ChainInvariant, PTL DEF Spec, DE!Spec, BR!Spec, RB!Spec

\* Nor does it matter to those who put money in: with the registry and the bridge
\* able to refuse an instruction, the escrow still pays each lot once to who did
\* the work, in order, or returns it whole.
THEOREM ChainKeepsPromise == Spec => Esc!KeepsPromise
<1>1. Init => Esc!Init
  BY SameEscrow DEF Init
<1>2. ChainInv /\ [Next]_vars => [Esc!Next]_(Esc!vars)
  BY StepKinds DEF ChainInv, ProgramsStep
<1>3. Spec => Esc!Spec
  BY <1>1, <1>2, ChainInvariant, PTL DEF Spec, Esc!Spec
<1>4. Esc!Spec => Esc!KeepsPromise
  BY EscrowAssumptions, Esc!PromiseKept
<1> QED
  BY <1>3, <1>4, PTL

\* The nodes counted are the jobs counted.
LEMMA CountsNodes ==
  \A a, statuses : /\ NodesOf(a, statuses) = Esc!JobsOf(a, statuses)
                   /\ Cardinality(NodesOf(a, statuses)) = Esc!Count(a, statuses)
<1>1. \A a, statuses : NodesOf(a, statuses) = Esc!JobsOf(a, statuses)
  BY SameEscrowNames DEF NodesOf, NodeOf, Esc!JobsOf
<1>2. \A S : Cardinality(S) = Esc!Cardinality(S)
  BY DEF Cardinality, Esc!Cardinality, IsFiniteSet, Esc!IsFiniteSet
<1> QED
  BY <1>1, <1>2 DEF Esc!Count

\* The registry's open_jobs is the number of nodes the agent works on, whichever
\* of the five instructions ended the others: ClaimNode, FinalizeNode,
\* RejectDispute, UpholdDispute and ExpireNode call the registry exactly once.
THEOREM OpenJobsCorrect == Spec => []OpenJobsExact
<1>1. ChainInv => OpenJobsExact
  <2> SUFFICES ASSUME ChainInv, NEW a \in Agents
               PROVE  agent_stake[a].open_jobs = Cardinality(NodesOf(a, DE!ActiveStatus))
    BY DEF OpenJobsExact
  <2>1. Matched(a)
    BY DEF ChainInv
  <2> QED
    BY <2>1, CountsNodes, SameEscrowNames DEF Matched
<1> QED
  BY <1>1, ChainInvariant, PTL

\* Settled and failed jobs are counted alike by the escrow's nodes, by the
\* registry's AgentStake and by the bridge's AgentReputation.
THEOREM LedgersCorrect == Spec => []LedgersAgree
<1>1. ChainInv => LedgersAgree
  <2> SUFFICES ASSUME ChainInv, NEW a \in Agents
               PROVE  /\ agent_stake[a].total_settled = Cardinality(NodesOf(a, {"Settled"}))
                      /\ agent_reputation[a].total_settled = Cardinality(NodesOf(a, {"Settled"}))
                      /\ agent_stake[a].total_slashed = Cardinality(NodesOf(a, {"Expired"}))
                      /\ agent_reputation[a].total_failed = Cardinality(NodesOf(a, {"Expired"}))
    BY DEF LedgersAgree
  <2>1. Matched(a)
    BY DEF ChainInv
  <2>2. /\ agent_reputation[a].total_settled = Bri!Cardinality(Bri!RecordsOf(a, "Settled"))
        /\ agent_reputation[a].total_failed = Bri!Cardinality(Bri!RecordsOf(a, "Failed"))
    BY DEF ChainInv, ProgramsInv, Bri!ReceiptInv, Bri!ReceiptsCounted, Bri!CountsReceipts
  <2> QED
    BY <2>1, <2>2, CountsNodes DEF Matched
<1> QED
  BY <1>1, ChainInvariant, PTL

\* A job that ended has its JobRecord, with the agent that did it and the outcome
\* of its node; an open job has none, and no record is of anything else.
THEOREM ReceiptsCorrect == Spec => []ReceiptPerEndedJob
<1>1. ChainInv => ReceiptPerEndedJob
  <2> SUFFICES ASSUME ChainInv PROVE ReceiptPerEndedJob
    OBVIOUS
  <2>1. ReceiptsMatch /\ Esc!JobInv
    BY DEF ChainInv, ProgramsInv
  <2>2. \A p \in Pipelines, i \in Esc!Indexes :
          node[p][i].agent = Nobody <=> node[p][i].job_id = <<>>
    <3> SUFFICES ASSUME NEW p \in Pipelines, NEW i \in Esc!Indexes
                 PROVE  node[p][i].agent = Nobody <=> node[p][i].job_id = <<>>
      OBVIOUS
    <3>1. Esc!JobSound(node[p][i], p, i)
      BY <2>1 DEF Esc!JobInv
    <3> QED
      BY <3>1 DEF Esc!JobSound, Esc!NoJob
  <2>3. ASSUME NEW n \in DE!NodeIds
        PROVE  NodeOf(n).job_id \in DOMAIN job_record <=>
                 NodeOf(n).job_id # DE!NoJob /\ NodeOf(n).status \in {"Settled", "Expired"}
    <3>1. n[1] \in Pipelines /\ n[2] \in Esc!Indexes
      BY SameEscrowNames DEF DE!NodeIds
    <3> QED
      BY <2>1, <2>2, <3>1 DEF NodeOf, ReceiptsMatch, JobEnded, DE!NoJob
  <2>4. ASSUME NEW j \in DOMAIN job_record
        PROVE  \E n \in DE!NodeIds :
                 /\ NodeOf(n).job_id = j
                 /\ job_record[j].agent = NodeOf(n).agent
                 /\ job_record[j].outcome =
                      IF NodeOf(n).status = "Settled" THEN "Settled" ELSE "Failed"
    <3>1. PICK p \in Pipelines, i \in Esc!Indexes :
            /\ node[p][i].job_id = j /\ job_record[j].agent = node[p][i].agent
            /\ job_record[j].outcome = OutcomeOf(node[p][i])
      BY <2>1 DEF ReceiptsMatch
    <3>2. <<p, i>> \in DE!NodeIds /\ NodeOf(<<p, i>>) = node[p][i]
      BY SameEscrowNames DEF DE!NodeIds, NodeOf
    <3> QED
      BY <3>1, <3>2 DEF OutcomeOf
  <2> QED
    BY <2>3, <2>4 DEF ReceiptPerEndedJob
<1> QED
  BY <1>1, ChainInvariant, PTL

\* execute_unstake and a slash are the only ways out of an agent's stake vault:
\* while the agent works, the first is closed and the second is the failure of a
\* node of its own.
THEOREM StakeAnswersCorrect == Spec => StakeAnswersForOpenWork
<1> DEFINE
      Answers(a) ==
        NodesOf(a, DE!ActiveStatus) # {} /\ stake_vault'[a] < stake_vault[a] =>
          \E n \in NodesOf(a, DE!ActiveStatus) : node'[n[1]][n[2]].status = "Expired"
<1>1. ChainInv /\ [Next]_vars => [\A a \in Agents : Answers(a)]_vars
  <2> SUFFICES ASSUME ChainInv, Next, NEW a \in Agents,
                      NodesOf(a, DE!ActiveStatus) # {}, stake_vault'[a] < stake_vault[a]
               PROVE  \E n \in NodesOf(a, DE!ActiveStatus) : node'[n[1]][n[2]].status = "Expired"
    OBVIOUS
  <2>1. ProgramsInv /\ Matched(a)
    BY DEF ChainInv
  <2>2. stake_vault[a] \in Nat /\ stake_vault'[a] \in Nat
    <3>1. Reg!TypeOK /\ Reg!TypeOK'
      BY ChainPreserved DEF ChainInv, ProgramsInv, Reg!TallyInv, Reg!StakeInv
    <3> QED
      BY <3>1 DEF Reg!TypeOK
  <2>3. agent_stake[a].open_jobs # 0
    <3>1. Esc!JobsOf(a, Esc!ActiveStatus) # {}
      BY CountsNodes, SameEscrowNames
    <3>2. Esc!IsFiniteSet(Esc!JobsOf(a, Esc!ActiveStatus))
      BY EscrowAssumptions, Esc!JobsFinite
    <3> QED
      BY <2>1, <3>1, <3>2, EscrowAssumptions, Esc!FS_EmptySet DEF Matched, Esc!Count
  <2>4. ~Quiet
    BY <2>2, <2>3 DEF Quiet, Reg!OwnDoing
  <2>5. ASSUME NEW p \in Pipelines, NEW i \in Esc!Indexes, NEW agent \in Agents,
               Opens(p, i, agent)
        PROVE  FALSE
    BY <2>2, <2>5 DEF Opens
  <2>6. PICK p \in Pipelines, i \in Esc!Indexes, settled \in BOOLEAN : Ends(p, i, settled)
    BY <2>1, <2>4, <2>5, StepKinds
  <2>7. node[p][i].agent = a /\ ~settled
    BY <2>2, <2>6 DEF Ends
  <2>8. node[p][i].status \in Esc!ActiveStatus /\ node'[p][i].status = "Expired"
    BY <2>6, <2>7 DEF Ends, Esc!Ended
  <2>9. <<p, i>> \in NodesOf(a, DE!ActiveStatus)
    BY <2>7, <2>8, SameEscrowNames DEF NodesOf, NodeOf, DE!NodeIds
  <2> QED
    BY <2>8, <2>9
<1> QED
  BY <1>1, ChainInvariant, PTL DEF Spec, StakeAnswersForOpenWork

(***************************************************************************)
(* A missed deadline can be acted on.                                       *)
(***************************************************************************)
LEMMA SameMayFail ==
  \A authority, a, mint : BR!MayFail(authority, a, mint) <=> Reg!MayFail(authority, a, mint)
<1>1. \A s, rate : BR!SlashAmount(s, rate) = Reg!SlashAmount(s, rate)
  BY DEF BR!SlashAmount, Reg!SlashAmount, BR!SlashRate, Reg!SlashRate,
         BR!ShareOf, Reg!ShareOf, BR!BPS, Reg!BPS
<1> QED
  BY <1>1 DEF BR!MayFail, Reg!MayFail, BR!Authorized, Reg!Authorized

LEMMA SameOverdue ==
  \A p, i : /\ Esc!Overdue(p, i) <=> slot > node[p][i].deadline_slot
            /\ {} \in SUBSET Esc!ExistingNodes(p)
BY DEF Esc!Overdue

LEMMA EscrowExits == Spec => []Esc!ExitInv
<1>1. Spec => Esc!Spec
  <2>1. Init => Esc!Init
    BY SameEscrow DEF Init
  <2>2. ChainInv /\ [Next]_vars => [Esc!Next]_(Esc!vars)
    BY StepKinds DEF ChainInv, ProgramsStep
  <2> QED
    BY <2>1, <2>2, ChainInvariant, PTL DEF Spec, Esc!Spec
<1>2. Esc!Spec => []Esc!ExitInv
  BY EscrowAssumptions, Esc!ExitInvariant
<1> QED
  BY <1>1, <1>2, PTL

LEMMA RegistryAccounts == Spec => []Reg!AccountsInv
<1>1. Spec => Reg!Spec
  <2>1. Init => Reg!Init
    BY SameRegistry DEF Init
  <2>2. ChainInv /\ [Next]_vars => [Reg!Next]_(Reg!vars)
    BY StepKinds DEF ChainInv, ProgramsStep
  <2> QED
    BY <2>1, <2>2, ChainInvariant, PTL DEF Spec, Reg!Spec
<1>2. Reg!Spec => []Reg!AccountsInv
  BY RegistryAssumptions, Reg!AccountsInvariant
<1> QED
  BY <1>1, <1>2, PTL

\* An agent at work is registered, and its counters have room for one more end.
LEMMA WorkerRegistered ==
  ASSUME ChainInv, Reg!AccountsInv, NEW p \in Pipelines, NEW i \in Esc!Indexes,
         node[p][i].status \in Esc!ActiveStatus
  PROVE  LET s == agent_stake[node[p][i].agent] IN
         /\ node[p][i].agent \in Agents /\ s.registered /\ s.stake_mint \in Mints
         /\ s.total_settled + s.total_slashed < Cardinality(DE!NodeIds)
<1>1. PICK a \in Agents : a = node[p][i].agent
  BY ActiveJob DEF ChainInv
<1> DEFINE s == agent_stake[a]
<1>2. s.open_jobs # 0
  <2>1. <<p, i>> \in Esc!JobsOf(a, Esc!ActiveStatus)
    BY <1>1 DEF Esc!JobsOf, Esc!NodeIds
  <2>2. Esc!IsFiniteSet(Esc!JobsOf(a, Esc!ActiveStatus))
    BY EscrowAssumptions, Esc!JobsFinite
  <2>3. Esc!Count(a, Esc!ActiveStatus) # 0
    BY <2>1, <2>2, EscrowAssumptions, Esc!FS_EmptySet DEF Esc!Count
  <2> QED
    BY <2>3 DEF ChainInv, Matched
<1>3. Reg!TallyInv /\ Reg!TypeOK /\ Reg!RoomFor(s) /\ Reg!MintSet(s)
  BY DEF Reg!AccountsInv, Reg!ReportInv, Reg!MintInv
<1>4. s.registered
  <2>1. ~s.registered => Reg!SameTally(s, Reg!NoStake)
    BY <1>3 DEF Reg!TallyInv, Reg!NewcomersFresh
  <2> QED
    BY <1>2, <2>1 DEF Reg!SameTally, Reg!NoStake
<1>5. s.open_jobs \in Nat /\ s.total_settled \in Nat /\ s.total_slashed \in Nat
  BY <1>3 DEF Reg!TypeOK, Reg!AgentStake
<1>6. Cardinality(DE!NodeIds) \in Nat
  BY ChainPipeAssumption DEF BR!BondedRegistryAssumption
<1>7. s.stake_mint \in Mints
  BY <1>3, <1>4 DEF Reg!MintSet
<1> HIDE DEF s
<1>8. s.total_settled + s.total_slashed < Cardinality(DE!NodeIds)
  <2> DEFINE max == Cardinality(DE!NodeIds)
  <2>1. s.open_jobs + s.total_settled + s.total_slashed <= max
    BY <1>3 DEF Reg!RoomFor
  <2> HIDE DEF max
  <2>2. max \in Nat
    BY <1>6 DEF max
  <2>3. s.total_settled + s.total_slashed < max
    BY <1>2, <1>5, <2>1, <2>2
  <2> QED
    BY <2>3 DEF max
<1> QED
  BY <1>1, <1>4, <1>7, <1>8 DEF s

LEMMA Expirable == ChainInv /\ Esc!ExitInv /\ Reg!AccountsInv => OverdueNeedsOnlyTheStake
<1> SUFFICES ASSUME ChainInv, Esc!ExitInv, Reg!AccountsInv, Wired,
                    NEW p \in Pipelines, NEW i \in Esc!Indexes,
                    slot > node[p][i].deadline_slot,
                    \/ node[p][i].status = "Pending"
                    \/ node[p][i].status = "Claimed" /\ StakeOf(node[p][i].agent, p)
             PROVE  MayExpire(p, i, {}, MintOf[p])
  BY SameEscrowNames DEF OverdueNeedsOnlyTheStake
<1>1. DE!MayExpire(p, i, {}, MintOf[p])
  <2>1. Esc!LedgerInv /\ Esc!ConsumerInv
    BY DEF Esc!ExitInv
  <2>2. Esc!Overdue(p, i) /\ {} \in SUBSET Esc!ExistingNodes(p)
    BY SameOverdue
  <2>3. Esc!MayExpire(p, i, {}, MintOf[p])
    BY <2>1, <2>2, EscrowAssumptions, Esc!OverdueExpirable
  <2> QED
    BY <2>3, SameMayExpire
<1>2. ASSUME node[p][i].status = "Claimed"
      PROVE  /\ BR!MayFail(DagAuthority, node[p][i].agent, MintOf[p])
             /\ RB!MayRecord(DagAuthority, node[p][i].job_id)
  <2>1. node[p][i].status \in Esc!ActiveStatus
    BY <1>2 DEF Esc!ActiveStatus
  <2>2. PICK a \in Agents : a = node[p][i].agent
    BY <2>1, WorkerRegistered
  <2>3. /\ agent_stake[a].registered /\ StakeOf(a, p)
        /\ agent_stake[a].total_settled + agent_stake[a].total_slashed < Cardinality(DE!NodeIds)
    BY <1>2, <2>1, <2>2, WorkerRegistered
  <2>4. Reg!StakeInv
    BY DEF Reg!AccountsInv, Reg!ReportInv, Reg!TallyInv
  <2>5. Reg!MayFail(registry_config.dag_escrow_authority, a, agent_stake[a].stake_mint)
    BY <2>3, <2>4, RegistryAssumptions, Reg!CoveredFailure DEF StakeOf
  <2>6. BR!MayFail(DagAuthority, a, MintOf[p])
    BY <2>3, <2>5, SameMayFail DEF Wired, StakeOf
  <2>7. node[p][i].job_id \notin DOMAIN job_record
    BY <1>2 DEF ChainInv, ReceiptsMatch, JobEnded
  <2> QED
    BY <2>2, <2>6, <2>7 DEF Wired, RB!MayRecord, RB!NoReceiptYet
<1> QED
  BY <1>1, <1>2 DEF MayExpire

\* expire_node is MayExpire and what it and its calls write: nothing else keeps it
\* from happening.
ExpiredEscrow(p, R, mint) ==
  LET refund == DE!OwnMint(p, mint, DE!Total(DE!Allocation(p), R)) IN
  <<pipeline_config,
    [pipeline EXCEPT ![p] = DE!CountExpired(@, DE!Cardinality(R))],
    [node EXCEPT ![p] =
       [j \in DE!Indexes |-> IF j \in R THEN [node[p][j] EXCEPT !.status = "Expired"]
                                        ELSE node[p][j]]],
    settlement,
    [vault EXCEPT ![p] = @ - refund],
    [consumer_token_account EXCEPT ![ConsumerOf[p]] = @ + refund],
    agent_token_account, operator_treasury, DE!LeftBehind(p, R, mint)>>

FailedRegistry(a, consumer) ==
  LET amount == BR!SlashAmount(agent_stake[a], registry_config.slash_bps) IN
  <<registry_config,
    [agent_stake EXCEPT ![a] = BR!Slashed(BR!Decremented(@, FALSE), amount)],
    [stake_vault EXCEPT ![a] = @ - amount],
    foreign_vault,
    agent_wallet,
    [slash_proceeds EXCEPT ![consumer] = @ + amount]>>

FailedBridge(a, job) ==
  <<bridge_config,
    [agent_reputation EXCEPT ![a] =
       [RB!Reputation(a) EXCEPT
          !.ema_score = RB!ApplyEma(@, RB!FAILURE_DELTA),
          !.total_settled = @,
          !.total_failed = @ + 1,
          !.last_job_id = job,
          !.last_updated_slot = slot]],
    [j \in DOMAIN job_record \cup {job} |->
       IF j = job
       THEN [agent |-> a, outcome |-> "Failed", score_delta |-> RB!FAILURE_DELTA,
             recorded_at_slot |-> slot]
       ELSE job_record[j]]>>

LEMMA ExpireGuard ==
  \A p, i, listed, mint :
    LET n == node[p][i]
        claimed == n.status = "Claimed"
    IN
    ExpireNode(p, i, listed, mint) <=>
      /\ MayExpire(p, i, listed, mint)
      /\ vars' = <<slot,
                   ExpiredEscrow(p, DE!ExpiredBy(p, i, listed), mint),
                   IF claimed THEN FailedRegistry(n.agent, ConsumerOf[p]) ELSE registry,
                   IF claimed THEN FailedBridge(n.agent, n.job_id) ELSE bridge>>
<1> SUFFICES ASSUME NEW p, NEW i, NEW listed, NEW mint
             PROVE  LET n == node[p][i]
                        claimed == n.status = "Claimed"
                    IN
                    ExpireNode(p, i, listed, mint) <=>
                      /\ MayExpire(p, i, listed, mint)
                      /\ vars' = <<slot,
                                   ExpiredEscrow(p, DE!ExpiredBy(p, i, listed), mint),
                                   IF claimed THEN FailedRegistry(n.agent, ConsumerOf[p]) ELSE registry,
                                   IF claimed THEN FailedBridge(n.agent, n.job_id) ELSE bridge>>
  OBVIOUS
<1> DEFINE n == node[p][i]
           R == DE!ExpiredBy(p, i, listed)
<1>1. DE!ExpireNode(p, i, listed, mint) <=>
        DE!MayExpire(p, i, listed, mint) /\ slot' = slot /\ escrow' = ExpiredEscrow(p, R, mint)
  BY DEF DE!ExpireNode, DE!MayExpire, DE!Refund, ExpiredEscrow, escrow
<1>2. BR!FailJob(DagAuthority, n.agent, mint, ConsumerOf[p]) <=>
        /\ BR!MayFail(DagAuthority, n.agent, mint)
        /\ slot' = slot /\ registry' = FailedRegistry(n.agent, ConsumerOf[p])
  BY DEF BR!FailJob, FailedRegistry, registry
<1>3. RB!RecordFailure(DagAuthority, n.agent, n.job_id) <=>
        /\ RB!MayRecord(DagAuthority, n.job_id)
        /\ slot' = slot /\ bridge' = FailedBridge(n.agent, n.job_id)
  BY DEF RB!RecordFailure, RB!RecordOutcome, FailedBridge, bridge
<1>4. DE!MayExpire(p, i, listed, mint) => n.status \in {"Pending", "Claimed"}
  BY DEF DE!MayExpire
<1>5. UNCHANGED <<registry, bridge>> <=> registry' = registry /\ bridge' = bridge
  OBVIOUS
<1>6. \A e, r, b : vars' = <<slot, e, r, b>> <=>
                     slot' = slot /\ escrow' = e /\ registry' = r /\ bridge' = b
  BY DEF vars
<1>7. CASE n.status = "Claimed"
  BY <1>1, <1>2, <1>3, <1>4, <1>6, <1>7 DEF ExpireNode, ReportFailed, MayExpire
<1>8. CASE n.status # "Claimed"
  BY <1>1, <1>4, <1>5, <1>6, <1>8 DEF ExpireNode, MayExpire
<1> QED
  BY <1>7, <1>8

\* While the programs are wired to each other, expire_node, whose calls all have to
\* succeed, can refund every overdue node that nobody claimed, and every claimed one
\* whose agent staked in the pipeline's mint alone: no earlier slash, ceiling, tier,
\* unstake, counter or receipt stands in the way.
THEOREM OverdueNeedsOnlyTheStakeCorrect == Spec => []OverdueNeedsOnlyTheStake
BY ChainInvariant, EscrowExits, RegistryAccounts, Expirable, PTL
=============================================================================
