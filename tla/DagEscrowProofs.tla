-------------------------- MODULE DagEscrowProofs ---------------------------
(***************************************************************************)
(* Theorems of DagEscrow, for every set of pipelines, agents and keys,      *)
(* every fee, window and horizon, and every list of node configurations:    *)
(* first what holds of each pipeline, its nodes and its vault; then what    *)
(* DagEscrow comes to over all of them: who has paid and who has been paid, *)
(* that it implements EscrowPromise, and what each instruction does to a    *)
(* node and its job, on which ChainPipeProofs, FacilitatorProofs and        *)
(* IndexerProofs build.                                                     *)
(***************************************************************************)
EXTENDS DagEscrow, TokenTheorems

(***************************************************************************)
(* Arithmetic and finiteness                                                *)
(***************************************************************************)
LEMMA IndexesFinite == IsFiniteSet(Indexes)
<1>1. 0 \in Int /\ MAX_NODES - 1 \in Int
  BY ProgramConstants
<1> QED
  BY <1>1, FS_Interval DEF Indexes

LEMMA FeeBound ==
  ASSUME TypeOK, NEW a \in Nat
  PROVE  Fee(a) \in Nat /\ ToAgent(a) \in Nat
<1>1. pipeline_config.fee_bps \in 0..BPS
  BY FeeAssumption DEF TypeOK, ConfigAccount
<1>2. Fee(a) \in 0..a
  BY <1>1, ShareBound DEF Fee
<1> QED
  BY <1>2 DEF ToAgent

LEMMA SlotIsAmount ==
  ASSUME TypeOK
  PROVE  slot \in Nat /\ slot \in Amounts
BY BoundsAssumption, U64Assumption DEF TypeOK, Slots, Amounts

(***************************************************************************)
(* Type correctness                                                         *)
(***************************************************************************)
LEMMA NoAccountsTyped ==
  /\ NoPipeline \in PipelineAccount
  /\ \A status \in NodeStatus : NoNode(status) \in NodeAccount
  /\ NoSettlement \in SettlementAccount
<1>1. 0 \in Amounts
  BY U64Assumption DEF Amounts
<1>2. NoPipeline \in PipelineAccount
  BY <1>1 DEF NoPipeline, PipelineAccount, PipelineStatus
<1>3. \A status \in NodeStatus : NoNode(status) \in NodeAccount
  BY <1>1 DEF NoNode, NodeAccount
<1>4. NoSettlement \in SettlementAccount
  BY <1>1 DEF NoSettlement, SettlementAccount
<1> QED
  BY <1>2, <1>3, <1>4

LEMMA InitTyped == Init => TypeOK
<1> SUFFICES ASSUME Init PROVE TypeOK
  OBVIOUS
<1>1. slot \in Slots
  BY BoundsAssumption DEF Init, Slots
<1>2. pipeline_config \in ConfigAccount
  BY ProgramConstants DEF Init, ConfigAccount
<1>3. pipeline \in [Pipelines -> PipelineAccount]
  BY NoAccountsTyped DEF Init
<1>4. node \in [Pipelines -> [Indexes -> NodeAccount]]
  BY NoAccountsTyped DEF Init, NodeStatus
<1>5. settlement \in [Pipelines -> [Indexes -> SettlementAccount]]
  BY NoAccountsTyped DEF Init
<1>6. /\ vault \in [Pipelines -> Nat]
      /\ consumer_token_account \in [Consumers -> Nat]
      /\ agent_token_account \in [Agents -> Nat]
      /\ operator_treasury \in [Keys -> Nat]
      /\ left_behind \in [Pipelines -> [Indexes -> Amounts]]
  BY BoundsAssumption, U64Assumption DEF Init, Amounts
<1> QED
  BY <1>1, <1>2, <1>3, <1>4, <1>5, <1>6 DEF TypeOK

\* The clock and the operator's instructions write no account but their own.
LEMMA TickTyped == TypeOK /\ Tick => TypeOK'
BY BoundsAssumption DEF TypeOK, Tick, Slots, accounts, wallets

LEMMA OperatorStepTyped == TypeOK /\ OperatorStep => TypeOK'
<1> SUFFICES ASSUME TypeOK, NEW operator \in Keys,
                    \/ \E key \in Keys : SetFacilitatorAuthority(operator, key)
                    \/ \E paused \in BOOLEAN : SetPaused(operator, paused)
                    \/ \E window \in DisputeWindows : SetDisputeWindow(operator, window)
                    \/ \E key \in Successors : ProposeOperator(operator, key)
                    \/ AcceptOperator(operator)
             PROVE  TypeOK'
  BY DEF OperatorStep
<1>1. pipeline_config \in ConfigAccount
  BY DEF TypeOK
<1>2. CASE \E key \in Keys : SetFacilitatorAuthority(operator, key)
  <2>1. pipeline_config' \in ConfigAccount
    BY <1>1, <1>2 DEF SetFacilitatorAuthority, ConfigAccount
  <2> QED
    BY <1>2, <2>1 DEF SetFacilitatorAuthority, TypeOK, accounts, wallets
<1>3. CASE \E paused \in BOOLEAN : SetPaused(operator, paused)
  <2>1. pipeline_config' \in ConfigAccount
    BY <1>1, <1>3 DEF SetPaused, ConfigAccount
  <2> QED
    BY <1>3, <2>1 DEF SetPaused, TypeOK, accounts, wallets
<1>4. CASE \E window \in DisputeWindows : SetDisputeWindow(operator, window)
  <2>1. pipeline_config' \in ConfigAccount
    BY <1>1, <1>4, ArgumentsAssumption DEF SetDisputeWindow, ConfigAccount
  <2> QED
    BY <1>4, <2>1 DEF SetDisputeWindow, TypeOK, accounts, wallets
<1>5. CASE \E key \in Successors : ProposeOperator(operator, key)
  <2>1. pipeline_config' \in ConfigAccount
    BY <1>1, <1>5, PartiesAssumption DEF ProposeOperator, ConfigAccount
  <2> QED
    BY <1>5, <2>1 DEF ProposeOperator, TypeOK, accounts, wallets
<1>6. CASE AcceptOperator(operator)
  <2>1. pipeline_config' \in ConfigAccount
    BY <1>1, <1>6 DEF AcceptOperator, ConfigAccount
  <2> QED
    BY <1>6, <2>1 DEF AcceptOperator, TypeOK, accounts, wallets
<1> QED
  BY <1>2, <1>3, <1>4, <1>5, <1>6

\* Writing one account, crediting one and debiting one keep an account map's
\* type.
LEMMA UpdateTyped ==
  ASSUME NEW S, NEW T, NEW f \in [S -> T], NEW x, NEW y \in T
  PROVE  [f EXCEPT ![x] = y] \in [S -> T]
OBVIOUS

LEMMA UpdateTyped2 ==
  ASSUME NEW S, NEW R, NEW T, NEW f \in [S -> [R -> T]], NEW x \in S, NEW z, NEW y \in T
  PROVE  [f EXCEPT ![x][z] = y] \in [S -> [R -> T]]
<1>1. [f[x] EXCEPT ![z] = y] \in [R -> T]
  OBVIOUS
<1> QED
  BY <1>1

LEMMA CreditTyped ==
  ASSUME NEW S, NEW f \in [S -> Nat], NEW x, NEW d \in Nat
  PROVE  [f EXCEPT ![x] = @ + d] \in [S -> Nat]
<1>1. x \in S => f[x] + d \in Nat
  <2>1. x \in S => f[x] \in Nat
    OBVIOUS
  <2> QED
    BY <2>1
<1> DEFINE g == f[x] + d
<1>2. x \in S => g \in Nat
  BY <1>1
<1> HIDE DEF g
<1>3. [f EXCEPT ![x] = g] \in [S -> Nat]
  BY <1>2
<1> QED
  BY <1>3 DEF g

LEMMA DebitTyped ==
  ASSUME NEW S, NEW f \in [S -> Nat], NEW x, NEW d \in Nat, x \in S => f[x] >= d
  PROVE  [f EXCEPT ![x] = @ - d] \in [S -> Nat]
<1>1. x \in S => f[x] - d \in Nat
  <2>1. x \in S => f[x] \in Nat
    OBVIOUS
  <2> QED
    BY <2>1
<1> DEFINE g == f[x] - d
<1>2. x \in S => g \in Nat
  BY <1>1
<1> HIDE DEF g
<1>3. [f EXCEPT ![x] = g] \in [S -> Nat]
  BY <1>2
<1> QED
  BY <1>3 DEF g

\* The counters of a pipeline account keep its type.
LEMMA CountSettledTyped ==
  ASSUME NEW pl \in PipelineAccount, NEW i \in Indexes
  PROVE  CountSettled(pl, i) \in PipelineAccount
<1> DEFINE status == StatusAfterSettle(pl)
<1>1. status \in PipelineStatus
  BY DEF StatusAfterSettle, PipelineAccount, PipelineStatus
<1>2. pl.nodes_settled + 1 \in Nat /\ pl.settled_mask \cup {i} \in SUBSET Indexes
  BY DEF PipelineAccount
<1> HIDE DEF status
<1>3. [pl EXCEPT !.nodes_settled = @ + 1, !.settled_mask = @ \cup {i}, !.status = status]
        \in PipelineAccount
  BY <1>1, <1>2 DEF PipelineAccount
<1> QED
  BY <1>3 DEF CountSettled, status

LEMMA CountExpiredTyped ==
  ASSUME NEW pl \in PipelineAccount, NEW count \in Nat
  PROVE  CountExpired(pl, count) \in PipelineAccount
<1>1. pl.nodes_expired + count \in Nat
  BY DEF PipelineAccount
<1> DEFINE expired == pl.nodes_expired + count
<1>2. expired \in Nat
  BY <1>1
<1> HIDE DEF expired
<1>3. [pl EXCEPT !.nodes_expired = expired, !.status = "PartiallyRefunded"] \in PipelineAccount
  BY <1>2 DEF PipelineAccount, PipelineStatus
<1> QED
  BY <1>3 DEF CountExpired, expired

\* A transfer moves its amount or, in another mint, nothing; what it leaves behind
\* is the rest of an allocation.
LEMMA OwnMintBound ==
  ASSUME NEW p, NEW mint, NEW amount \in Nat
  PROVE  OwnMint(p, mint, amount) \in Nat /\ OwnMint(p, mint, amount) <= amount
BY DEF OwnMint

LEMMA LeftBehindTyped ==
  ASSUME TypeOK, NEW p \in Pipelines, NEW mint, NEW R
  PROVE  LeftBehind(p, R, mint) \in [Pipelines -> [Indexes -> Amounts]]
<1> DEFINE left == [j \in Indexes |->
             IF j \in R THEN Allocation(p)[j] - OwnMint(p, mint, Allocation(p)[j])
                        ELSE left_behind[p][j]]
<1>1. left \in [Indexes -> Amounts]
  <2> SUFFICES ASSUME NEW j \in Indexes PROVE left[j] \in Amounts
    OBVIOUS
  <2>1. Allocation(p)[j] \in Amounts /\ left_behind[p][j] \in Amounts
    BY DEF Allocation, TypeOK, NodeAccount
  <2> DEFINE a == Allocation(p)[j]
  <2>2. a - OwnMint(p, mint, a) \in Amounts
    <3>1. a \in Nat /\ a <= U64_MAX
      BY <2>1, U64Assumption DEF Amounts
    <3> HIDE DEF a
    <3> QED
      BY <3>1, U64Assumption DEF OwnMint, Amounts
  <2> QED
    BY <2>1, <2>2
<1>2. LeftBehind(p, R, mint) = [left_behind EXCEPT ![p] = left]
  BY DEF LeftBehind, TypeOK
<1> HIDE DEF left
<1> QED
  BY <1>1, <1>2 DEF TypeOK

\* What the settling instructions and the refunds share.
LEMMA SettleTyped ==
  ASSUME TypeOK, NEW p \in Pipelines, NEW mint, NEW i \in Indexes, Settle(p, i, mint)
  PROVE  /\ pipeline' \in [Pipelines -> PipelineAccount]
         /\ node' \in [Pipelines -> [Indexes -> NodeAccount]]
         /\ vault' \in [Pipelines -> Nat]
         /\ consumer_token_account' \in [Consumers -> Nat]
         /\ agent_token_account' \in [Agents -> Nat]
         /\ operator_treasury' \in [Keys -> Nat]
         /\ left_behind' \in [Pipelines -> [Indexes -> Amounts]]
<1> DEFINE amount == OwnMint(p, mint, node[p][i].allocation_usdc)
<1>1. node[p][i] \in NodeAccount /\ pipeline[p] \in PipelineAccount
  BY DEF TypeOK
<1>2. amount \in Nat
  <2>1. node[p][i].allocation_usdc \in Nat
    BY <1>1, U64Assumption DEF NodeAccount, Amounts
  <2> QED
    BY <2>1, OwnMintBound
<1>3. Fee(amount) \in Nat /\ ToAgent(amount) \in Nat
  BY <1>2, FeeBound
<1>6. pipeline' \in [Pipelines -> PipelineAccount]
  <2>1. CountSettled(pipeline[p], i) \in PipelineAccount
    BY <1>1, CountSettledTyped
  <2> QED
    BY <2>1 DEF Settle, TypeOK
<1>7. node' \in [Pipelines -> [Indexes -> NodeAccount]]
  BY <1>1 DEF Settle, TypeOK, NodeAccount, NodeStatus
<1>8. vault' \in [Pipelines -> Nat]
  <2>1. vault' = [vault EXCEPT ![p] = @ - amount] /\ vault[p] >= amount
        /\ vault \in [Pipelines -> Nat]
    BY DEF Settle, TypeOK
  <2> HIDE DEF amount
  <2> QED
    BY <1>2, <2>1, DebitTyped
<1>9. consumer_token_account' \in [Consumers -> Nat]
  BY DEF Settle, TypeOK
<1>10. agent_token_account' \in [Agents -> Nat]
  <2> DEFINE share == ToAgent(amount)
  <2>1. agent_token_account' = [agent_token_account EXCEPT ![node[p][i].agent] = @ + share]
        /\ agent_token_account \in [Agents -> Nat]
    BY DEF Settle, TypeOK
  <2>2. share \in Nat
    BY <1>3
  <2> HIDE DEF share
  <2> QED
    BY <2>1, <2>2, CreditTyped
<1>11. operator_treasury' \in [Keys -> Nat]
  <2> DEFINE fee == Fee(amount)
  <2>1. operator_treasury' = [operator_treasury EXCEPT ![pipeline_config.operator] = @ + fee]
        /\ operator_treasury \in [Keys -> Nat]
    BY DEF Settle, TypeOK
  <2>2. fee \in Nat
    BY <1>3
  <2> HIDE DEF fee
  <2> QED
    BY <2>1, <2>2, CreditTyped
<1>12. left_behind' \in [Pipelines -> [Indexes -> Amounts]]
  BY LeftBehindTyped DEF Settle
<1> QED
  BY <1>6, <1>7, <1>8, <1>9, <1>10, <1>11, <1>12

LEMMA RefundTyped ==
  ASSUME TypeOK, NEW p \in Pipelines, NEW R, NEW total \in Nat, NEW mint,
         Refund(p, R, total, mint)
  PROVE  /\ vault' \in [Pipelines -> Nat]
         /\ consumer_token_account' \in [Consumers -> Nat]
         /\ agent_token_account' \in [Agents -> Nat]
         /\ operator_treasury' \in [Keys -> Nat]
         /\ left_behind' \in [Pipelines -> [Indexes -> Amounts]]
<1> DEFINE amount == OwnMint(p, mint, total)
<1>0. amount \in Nat
  BY OwnMintBound
<1>1. vault' = [vault EXCEPT ![p] = @ - amount] /\ vault[p] >= amount
      /\ vault \in [Pipelines -> Nat]
  BY DEF Refund, TypeOK
<1>2. consumer_token_account' = [consumer_token_account EXCEPT ![ConsumerOf[p]] = @ + amount]
      /\ consumer_token_account \in [Consumers -> Nat]
  BY DEF Refund, TypeOK
<1>3. left_behind' \in [Pipelines -> [Indexes -> Amounts]]
  BY LeftBehindTyped DEF Refund
<1> HIDE DEF amount
<1>4. vault' \in [Pipelines -> Nat]
  BY <1>0, <1>1, DebitTyped
<1>5. consumer_token_account' \in [Consumers -> Nat]
  BY <1>0, <1>2, CreditTyped
<1> QED
  BY <1>3, <1>4, <1>5 DEF Refund, TypeOK

LEMMA CloseSettlementTyped ==
  ASSUME TypeOK, NEW p \in Pipelines, NEW i \in Indexes, CloseSettlement(p, i)
  PROVE  settlement' \in [Pipelines -> [Indexes -> SettlementAccount]]
BY NoAccountsTyped DEF CloseSettlement, TypeOK

LEMMA CreatePipelineTyped ==
  ASSUME TypeOK, NEW p \in Pipelines, NEW node_configs \in NodeConfigLists,
         CreatePipeline(p, node_configs)
  PROVE  TypeOK'
<1> DEFINE n == Len(node_configs)
           total == TotalLocked(node_configs)
<1>1. node_configs \in
        Seq([allocation_usdc: Amounts, deadline_slots_from_now: Amounts,
             dependency_mask: SUBSET Nat, required_tier: Nat])
  BY ArgumentsAssumption
<1>2. n \in Nat /\ DOMAIN node_configs = 1..n
  BY <1>1
<1>3. total \in Nat
  BY <1>2, SegmentCardinality, TotalType DEF TotalLocked
<1>4. \A k \in 1..n : PendingNode(node_configs[k]) \in NodeAccount
  <2> SUFFICES ASSUME NEW k \in 1..n PROVE PendingNode(node_configs[k]) \in NodeAccount
    OBVIOUS
  <2>1. node_configs[k] \in
          [allocation_usdc: Amounts, deadline_slots_from_now: Amounts,
           dependency_mask: SUBSET Nat, required_tier: Nat]
    <3> DEFINE Config == [allocation_usdc: Amounts, deadline_slots_from_now: Amounts,
                          dependency_mask: SUBSET Nat, required_tier: Nat]
    <3>1. node_configs \in Seq(Config) /\ k \in 1..Len(node_configs)
      BY <1>1
    <3> HIDE DEF Config
    <3>2. node_configs[k] \in Config
      BY <3>1
    <3> QED
      BY <3>2 DEF Config
  <2>2. slot \in Nat /\ node_configs[k].deadline_slots_from_now \in Nat
    BY <2>1, SlotIsAmount, U64Assumption DEF Amounts
  <2> DEFINE deadline == SaturatingAdd(slot, node_configs[k].deadline_slots_from_now)
  <2>3. deadline \in Amounts
    BY <2>2, SaturatingAddType
  <2>4. NoNode("Pending") \in NodeAccount
    BY NoAccountsTyped DEF NodeStatus, OpenStatus
  <2> HIDE DEF deadline
  <2>5. [NoNode("Pending") EXCEPT
           !.allocation_usdc = node_configs[k].allocation_usdc,
           !.deadline_slot = deadline,
           !.dependency_mask = node_configs[k].dependency_mask,
           !.required_tier = node_configs[k].required_tier] \in NodeAccount
    BY <2>1, <2>3, <2>4 DEF NodeAccount
  <2> QED
    BY <2>5 DEF PendingNode, deadline
<1> HIDE DEF n, total
<1>5. total \in Amounts
  BY <1>3, U64Assumption DEF CreatePipeline, Amounts, total
<1>6. pipeline' \in [Pipelines -> PipelineAccount]
  BY <1>2, <1>5 DEF CreatePipeline, TypeOK, PipelineAccount, PipelineStatus, n, total
<1>7. node' \in [Pipelines -> [Indexes -> NodeAccount]]
  <2>1. NoNode("Absent") \in NodeAccount
    BY NoAccountsTyped DEF NodeStatus
  <2>2. \A i \in Indexes : i < n => i + 1 \in 1..n
    BY <1>2, ProgramConstants DEF Indexes
  <2>3. [i \in Indexes |-> IF i < n THEN PendingNode(node_configs[i + 1]) ELSE NoNode("Absent")]
          \in [Indexes -> NodeAccount]
    BY <1>4, <2>1, <2>2
  <2> QED
    BY <2>3 DEF CreatePipeline, TypeOK, n
<1>8. vault' \in [Pipelines -> Nat]
  BY <1>3 DEF CreatePipeline, TypeOK, total
<1>9. consumer_token_account' \in [Consumers -> Nat]
  <2>1. ConsumerOf[p] \in Consumers
    BY PartiesAssumption
  <2> QED
    BY <1>3, <2>1 DEF CreatePipeline, TypeOK, total
<1> QED
  BY <1>6, <1>7, <1>8, <1>9 DEF CreatePipeline, TypeOK

LEMMA ClaimNodeTyped ==
  ASSUME TypeOK, NEW p \in Pipelines, NEW i \in Indexes, NEW agent \in Agents,
         NEW tier \in Tiers, ClaimNode(p, i, agent, tier)
  PROVE  TypeOK'
<1>1. node[p][i] \in NodeAccount /\ node \in [Pipelines -> [Indexes -> NodeAccount]]
  BY DEF TypeOK
<1>2. <<p, i, agent, slot>> \in JobIds
  BY DEF TypeOK, JobIds
<1> DEFINE claimed == [node[p][i] EXCEPT !.agent = agent, !.status = "Claimed",
                                         !.job_id = <<p, i, agent, slot>>]
<1>3. claimed \in NodeAccount
  BY <1>1, <1>2 DEF NodeAccount, NodeStatus, OpenStatus, ActiveStatus
<1>4. node' = [node EXCEPT ![p][i] = claimed]
  BY DEF ClaimNode
<1> HIDE DEF claimed
<1>5. node' \in [Pipelines -> [Indexes -> NodeAccount]]
  BY <1>1, <1>3, <1>4, UpdateTyped2
<1> QED
  BY <1>5 DEF ClaimNode, TypeOK, wallets

\* Moving a node to another status keeps the type of the node accounts.
LEMMA StatusTyped ==
  ASSUME TypeOK, NEW p \in Pipelines, NEW i \in Indexes, NEW status \in NodeStatus
  PROVE  [node EXCEPT ![p][i].status = status] \in [Pipelines -> [Indexes -> NodeAccount]]
<1>1. node[p][i] \in NodeAccount /\ node \in [Pipelines -> [Indexes -> NodeAccount]]
  BY DEF TypeOK
<1> DEFINE moved == [node[p][i] EXCEPT !.status = status]
<1>2. moved \in NodeAccount
  BY <1>1 DEF NodeAccount
<1>3. [node EXCEPT ![p][i].status = status] = [node EXCEPT ![p][i] = moved]
  BY <1>1
<1> HIDE DEF moved
<1>4. [node EXCEPT ![p][i] = moved] \in [Pipelines -> [Indexes -> NodeAccount]]
  BY <1>1, <1>2, UpdateTyped2
<1> QED
  BY <1>3, <1>4

LEMMA CompleteNodeTyped ==
  ASSUME TypeOK, NEW p \in Pipelines, NEW mint, NEW i \in Indexes, NEW facilitator \in Keys,
         CompleteNode(p, i, facilitator, mint)
  PROVE  TypeOK'
<1>1. Settle(p, i, mint)
  BY DEF CompleteNode
<1> QED
  BY <1>1, SettleTyped DEF CompleteNode, TypeOK

LEMMA SubmitCompletionTyped ==
  ASSUME TypeOK, NEW p \in Pipelines, NEW i \in Indexes, NEW facilitator \in Keys,
         NEW delta \in ScoreDeltas, SubmitCompletion(p, i, facilitator, delta)
  PROVE  TypeOK'
<1>1. node' \in [Pipelines -> [Indexes -> NodeAccount]]
  BY StatusTyped DEF SubmitCompletion, NodeStatus, OpenStatus, ActiveStatus
<1> DEFINE opened == [open |-> TRUE, submitted_at_slot |-> slot,
                      dispute_slots |-> pipeline_config.dispute_slots,
                      score_delta |-> delta, disputed |-> FALSE]
<1>2. opened \in SettlementAccount
  BY SlotIsAmount DEF TypeOK, ConfigAccount, SettlementAccount
<1>3. /\ settlement' = [settlement EXCEPT ![p][i] = opened]
      /\ settlement \in [Pipelines -> [Indexes -> SettlementAccount]]
  BY DEF SubmitCompletion, TypeOK
<1> HIDE DEF opened
<1>4. settlement' \in [Pipelines -> [Indexes -> SettlementAccount]]
  BY <1>2, <1>3, UpdateTyped2
<1> QED
  BY <1>1, <1>4 DEF SubmitCompletion, TypeOK, wallets

LEMMA DisputeNodeTyped ==
  ASSUME TypeOK, NEW p \in Pipelines, NEW i \in Indexes, NEW consumer \in Consumers,
         DisputeNode(p, i, consumer)
  PROVE  TypeOK'
<1>1. node' \in [Pipelines -> [Indexes -> NodeAccount]]
  BY StatusTyped DEF DisputeNode, NodeStatus, OpenStatus, ActiveStatus
<1>2. settlement' \in [Pipelines -> [Indexes -> SettlementAccount]]
  <2> DEFINE flagged == [settlement[p][i] EXCEPT !.disputed = TRUE]
  <2>1. flagged \in SettlementAccount
    <3>1. settlement[p][i] \in SettlementAccount
      BY DEF TypeOK
    <3> QED
      BY <3>1 DEF SettlementAccount
  <2>2. /\ settlement' = [settlement EXCEPT ![p][i] = flagged]
        /\ settlement \in [Pipelines -> [Indexes -> SettlementAccount]]
    BY DEF DisputeNode, TypeOK
  <2> HIDE DEF flagged
  <2> QED
    BY <2>1, <2>2, UpdateTyped2
<1> QED
  BY <1>1, <1>2 DEF DisputeNode, TypeOK, wallets

LEMMA FinalizeNodeTyped ==
  ASSUME TypeOK, NEW p \in Pipelines, NEW mint, NEW i \in Indexes, FinalizeNode(p, i, mint)
  PROVE  TypeOK'
<1>1. Settle(p, i, mint) /\ CloseSettlement(p, i)
  BY DEF FinalizeNode
<1> QED
  BY <1>1, SettleTyped, CloseSettlementTyped DEF FinalizeNode, TypeOK

LEMMA RejectDisputeTyped ==
  ASSUME TypeOK, NEW p \in Pipelines, NEW mint, NEW i \in Indexes, NEW facilitator \in Keys,
         RejectDispute(p, i, facilitator, mint)
  PROVE  TypeOK'
<1>1. Settle(p, i, mint) /\ CloseSettlement(p, i)
  BY DEF RejectDispute
<1> QED
  BY <1>1, SettleTyped, CloseSettlementTyped DEF RejectDispute, TypeOK

LEMMA UpholdDisputeTyped ==
  ASSUME TypeOK, NEW p \in Pipelines, NEW mint, NEW i \in Indexes, NEW facilitator \in Keys,
         UpholdDispute(p, i, facilitator, mint)
  PROVE  TypeOK'
<1> DEFINE amount == node[p][i].allocation_usdc
<1>1. Refund(p, {i}, amount, mint) /\ CloseSettlement(p, i)
  BY DEF UpholdDispute
<1>2. amount \in Nat
  BY U64Assumption DEF TypeOK, NodeAccount, Amounts
<1>3. node' \in [Pipelines -> [Indexes -> NodeAccount]]
  BY StatusTyped DEF UpholdDispute, NodeStatus
<1>4. pipeline' \in [Pipelines -> PipelineAccount]
  <2>1. CountExpired(pipeline[p], 1) \in PipelineAccount
    BY CountExpiredTyped DEF TypeOK
  <2> QED
    BY <2>1 DEF UpholdDispute, TypeOK
<1> HIDE DEF amount
<1> QED
  BY <1>1, <1>2, <1>3, <1>4, RefundTyped, CloseSettlementTyped DEF UpholdDispute, TypeOK

\* A cascade stays among the node indexes, so it is finite.
LEMMA ExpiredByFinite ==
  ASSUME NEW p \in Pipelines, NEW i \in Indexes, NEW listed \in SUBSET Indexes
  PROVE  ExpiredBy(p, i, listed) \subseteq Indexes /\ IsFiniteSet(ExpiredBy(p, i, listed))
<1>1. ExpiredBy(p, i, listed) \subseteq Indexes
  BY DEF ExpiredBy, CascadeSet
<1> QED
  BY <1>1, IndexesFinite, FS_Subset

LEMMA ExpireNodeTyped ==
  ASSUME TypeOK, NEW p \in Pipelines, NEW mint, NEW i \in Indexes, NEW listed \in SUBSET Indexes,
         ExpireNode(p, i, listed, mint)
  PROVE  TypeOK'
<1> DEFINE expired == ExpiredBy(p, i, listed)
           refund_total == Total(Allocation(p), expired)
<1>1. Cardinality(expired) \in Nat /\ refund_total \in Nat
  BY ExpiredByFinite, FS_CardinalityType, TotalType
<1>2. Refund(p, expired, refund_total, mint)
  BY DEF ExpireNode
<1>3. node' \in [Pipelines -> [Indexes -> NodeAccount]]
  <2>1. \A j \in Indexes : [node[p][j] EXCEPT !.status = "Expired"] \in NodeAccount
    <3> SUFFICES ASSUME NEW j \in Indexes
                 PROVE  [node[p][j] EXCEPT !.status = "Expired"] \in NodeAccount
      OBVIOUS
    <3>1. node[p][j] \in NodeAccount
      BY DEF TypeOK
    <3> QED
      BY <3>1 DEF NodeAccount, NodeStatus
  <2>2. node' = [node EXCEPT ![p] =
          [j \in Indexes |-> IF j \in expired THEN [node[p][j] EXCEPT !.status = "Expired"]
                                              ELSE node[p][j]]]
    BY DEF ExpireNode
  <2> HIDE DEF expired
  <2>3. [j \in Indexes |-> IF j \in expired THEN [node[p][j] EXCEPT !.status = "Expired"]
                                            ELSE node[p][j]] \in [Indexes -> NodeAccount]
    BY <2>1 DEF TypeOK
  <2> QED
    BY <2>2, <2>3, UpdateTyped DEF TypeOK
<1>4. pipeline' \in [Pipelines -> PipelineAccount]
  <2>1. CountExpired(pipeline[p], Cardinality(expired)) \in PipelineAccount
    BY <1>1, CountExpiredTyped DEF TypeOK
  <2> QED
    BY <2>1 DEF ExpireNode, TypeOK
<1> HIDE DEF refund_total
<1> QED
  BY <1>1, <1>2, <1>3, <1>4, RefundTyped DEF ExpireNode, TypeOK

LEMMA CancelPipelineTyped ==
  ASSUME TypeOK, NEW p \in Pipelines, NEW mint, NEW consumer \in Consumers, NEW listed,
         CancelPipeline(p, consumer, listed, mint)
  PROVE  TypeOK'
<1>1. Refund(p, listed, vault[p], mint) /\ vault[p] \in Nat
  BY DEF CancelPipeline, TypeOK
<1>2. node' \in [Pipelines -> [Indexes -> NodeAccount]]
  <2>1. NoNode("Closed") \in NodeAccount
    BY NoAccountsTyped DEF NodeStatus
  <2>2. [j \in Indexes |-> IF j \in listed THEN NoNode("Closed") ELSE node[p][j]]
          \in [Indexes -> NodeAccount]
    BY <2>1 DEF TypeOK
  <2> QED
    BY <2>2, UpdateTyped DEF CancelPipeline, TypeOK
<1>3. pipeline' \in [Pipelines -> PipelineAccount]
  BY DEF CancelPipeline, TypeOK, PipelineAccount, PipelineStatus
<1> QED
  BY <1>1, <1>2, <1>3, RefundTyped DEF CancelPipeline, TypeOK

\* TypeOK is inductive.
LEMMA TypePreserved == TypeOK /\ [Next]_vars => TypeOK'
<1>1. TypeOK /\ Tick => TypeOK'
  BY TickTyped
<1>2. TypeOK /\ OperatorStep => TypeOK'
  BY OperatorStepTyped
<1>3. ASSUME TypeOK, NEW p \in Pipelines, ConsumerStep(p) PROVE TypeOK'
  <2>1. CASE \E node_configs \in NodeConfigLists : CreatePipeline(p, node_configs)
    BY <1>3, <2>1, CreatePipelineTyped
  <2>2. CASE \E consumer \in Consumers, listed \in CancelLists(p), mint \in Mints :
               CancelPipeline(p, consumer, listed, mint)
    BY <1>3, <2>2, CancelPipelineTyped
  <2>3. CASE \E consumer \in Consumers, i \in Indexes : DisputeNode(p, i, consumer)
    BY <1>3, <2>3, DisputeNodeTyped
  <2> QED
    BY <1>3, <2>1, <2>2, <2>3 DEF ConsumerStep
<1>4. ASSUME TypeOK, NEW p \in Pipelines, NEW i \in Indexes, FacilitatorStep(p, i)
      PROVE  TypeOK'
  <2>1. PICK facilitator \in Keys :
          \/ \E delta \in ScoreDeltas : SubmitCompletion(p, i, facilitator, delta)
          \/ \E mint \in Mints : \/ CompleteNode(p, i, facilitator, mint)
                                 \/ UpholdDispute(p, i, facilitator, mint)
                                 \/ RejectDispute(p, i, facilitator, mint)
    BY <1>4 DEF FacilitatorStep
  <2> QED
    BY <1>4, <2>1, CompleteNodeTyped, SubmitCompletionTyped, UpholdDisputeTyped,
       RejectDisputeTyped
<1>5. TypeOK /\ UNCHANGED vars => TypeOK'
  BY DEF vars, accounts, wallets, TypeOK
<1> QED
  BY <1>1, <1>2, <1>3, <1>4, <1>5, ClaimNodeTyped, FinalizeNodeTyped, ExpireNodeTyped DEF Next

\* Every account holds values of its type, whatever instructions run.
THEOREM TypeCorrect == Spec => []TypeOK
<1>1. Init => TypeOK
  BY InitTyped
<1>2. TypeOK /\ [Next]_vars => TypeOK'
  BY TypePreserved
<1> QED
  BY <1>1, <1>2, PTL DEF Spec

(***************************************************************************)
(* Dependency order.  DependencyOrder alone is not inductive: claim_node    *)
(* looks at the pipeline's settled_mask and not at the node accounts, so    *)
(* the mask may name settled nodes only, and work that has been claimed     *)
(* must keep its dependencies in the mask while other nodes expire, are     *)
(* refunded or are closed.                                                  *)
(***************************************************************************)
MaskNamesSettled(p) ==
  \A i \in Indexes : i \in pipeline[p].settled_mask => node[p][i].status = "Settled"

WorkFollowsMask(p) ==
  \A i \in Indexes :
    node[p][i].status \in ActiveStatus \cup {"Settled"}
      => node[p][i].dependency_mask \subseteq pipeline[p].settled_mask

OrderInv == \A p \in Pipelines : MaskNamesSettled(p) /\ WorkFollowsMask(p)

LEMMA OrderInvImplies == TypeOK /\ OrderInv => DependencyOrder
BY DEF OrderInv, MaskNamesSettled, WorkFollowsMask, DependencyOrder

LEMMA InitOrdered == Init => OrderInv
BY DEF Init, OrderInv, MaskNamesSettled, WorkFollowsMask, NoPipeline, NoNode, ActiveStatus

\* An instruction writes the accounts of one pipeline; the others stay as they
\* are, so the invariant is at stake there only.
LEMMA OnePipelineAtStake ==
  ASSUME OrderInv, NEW p \in Pipelines,
         \A q \in Pipelines : q # p => pipeline'[q] = pipeline[q] /\ node'[q] = node[q],
         MaskNamesSettled(p)', WorkFollowsMask(p)'
  PROVE  OrderInv'
BY DEF OrderInv, MaskNamesSettled, WorkFollowsMask

LEMMA UnchangedOrdered ==
  ASSUME OrderInv, UNCHANGED <<pipeline, node>>
  PROVE  OrderInv'
BY DEF OrderInv, MaskNamesSettled, WorkFollowsMask

\* claim_node, submit_completion and dispute_node move one unsettled node on,
\* to a status that requires its dependencies to be in the mask.
LEMMA NodeMoveOrdered ==
  ASSUME TypeOK, OrderInv, NEW p \in Pipelines, NEW i \in Indexes, NEW moved,
         node' = [node EXCEPT ![p][i] = moved], UNCHANGED pipeline,
         node[p][i].status # "Settled",
         moved.dependency_mask \subseteq pipeline[p].settled_mask
  PROVE  OrderInv'
<1>1. node'[p][i] = moved /\ \A j \in Indexes : j # i => node'[p][j] = node[p][j]
  BY DEF TypeOK
<1>2. \A q \in Pipelines : q # p => pipeline'[q] = pipeline[q] /\ node'[q] = node[q]
  BY DEF TypeOK
<1>3. MaskNamesSettled(p) /\ WorkFollowsMask(p)
  BY DEF OrderInv
<1>4. MaskNamesSettled(p)'
  BY <1>1, <1>3 DEF MaskNamesSettled
<1>5. WorkFollowsMask(p)'
  BY <1>1, <1>3 DEF WorkFollowsMask
<1> QED
  BY <1>2, <1>4, <1>5, OnePipelineAtStake

LEMMA ClaimNodeOrdered ==
  ASSUME TypeOK, OrderInv, NEW p \in Pipelines, NEW i \in Indexes, NEW agent, NEW tier,
         ClaimNode(p, i, agent, tier)
  PROVE  OrderInv'
<1> DEFINE claimed == [node[p][i] EXCEPT !.agent = agent, !.status = "Claimed",
                                         !.job_id = <<p, i, agent, slot>>]
<1>1. claimed.dependency_mask = node[p][i].dependency_mask
  BY DEF TypeOK, NodeAccount
<1>2. /\ node' = [node EXCEPT ![p][i] = claimed] /\ UNCHANGED pipeline
      /\ node[p][i].status # "Settled"
      /\ node[p][i].dependency_mask \subseteq pipeline[p].settled_mask
  BY DEF ClaimNode, MayClaim, DependenciesSettled
<1> HIDE DEF claimed
<1> QED
  BY <1>1, <1>2, NodeMoveOrdered

\* What the two instructions that only change a claimed node's status share.
LEMMA StatusMoveOrdered ==
  ASSUME TypeOK, OrderInv, NEW p \in Pipelines, NEW i \in Indexes, NEW status,
         node[p][i].status \in ActiveStatus,
         node' = [node EXCEPT ![p][i].status = status], UNCHANGED pipeline
  PROVE  OrderInv'
<1> DEFINE moved == [node[p][i] EXCEPT !.status = status]
<1>1. moved.dependency_mask = node[p][i].dependency_mask
  BY DEF TypeOK, NodeAccount
<1>2. node[p][i].dependency_mask \subseteq pipeline[p].settled_mask
  BY DEF OrderInv, WorkFollowsMask
<1>3. node' = [node EXCEPT ![p][i] = moved]
  BY DEF TypeOK
<1>4. node[p][i].status # "Settled"
  BY DEF ActiveStatus
<1> HIDE DEF moved
<1> QED
  BY <1>1, <1>2, <1>3, <1>4, NodeMoveOrdered

LEMMA SettleOrdered ==
  ASSUME TypeOK, OrderInv, NEW p \in Pipelines, NEW mint, NEW i \in Indexes,
         node[p][i].status \in ActiveStatus, Settle(p, i, mint)
  PROVE  OrderInv'
<1>1. /\ node'[p][i].status = "Settled"
      /\ node'[p][i].dependency_mask = node[p][i].dependency_mask
      /\ \A j \in Indexes : j # i => node'[p][j] = node[p][j]
  <2>1. node[p][i] \in NodeAccount
    BY DEF TypeOK
  <2> QED
    BY <2>1 DEF Settle, TypeOK, NodeAccount
<1>2. pipeline'[p].settled_mask = pipeline[p].settled_mask \cup {i}
  <2>1. pipeline[p] \in PipelineAccount
    BY DEF TypeOK
  <2> QED
    BY <2>1 DEF Settle, CountSettled, TypeOK, PipelineAccount
<1>3. \A q \in Pipelines : q # p => pipeline'[q] = pipeline[q] /\ node'[q] = node[q]
  BY DEF Settle, TypeOK
<1>4. MaskNamesSettled(p) /\ WorkFollowsMask(p)
  BY DEF OrderInv
<1>5. MaskNamesSettled(p)'
  BY <1>1, <1>2, <1>4 DEF MaskNamesSettled
<1>6. WorkFollowsMask(p)'
  BY <1>1, <1>2, <1>4 DEF WorkFollowsMask
<1> QED
  BY <1>3, <1>5, <1>6, OnePipelineAtStake

\* Unsettled nodes that end in a status that is no work leave the order intact:
\* a dependency of claimed work is settled, so it is none of them.
LEMMA RetireOrdered ==
  ASSUME OrderInv, NEW p \in Pipelines, NEW R \in SUBSET Indexes,
         \A q \in Pipelines : q # p => pipeline'[q] = pipeline[q] /\ node'[q] = node[q],
         pipeline'[p].settled_mask = pipeline[p].settled_mask,
         \A j \in Indexes \ R : node'[p][j] = node[p][j],
         \A j \in R : /\ node[p][j].status # "Settled"
                      /\ node'[p][j].status \in {"Expired", "Closed"}
  PROVE  OrderInv'
<1>1. MaskNamesSettled(p) /\ WorkFollowsMask(p)
  BY DEF OrderInv
<1>2. MaskNamesSettled(p)'
  BY <1>1 DEF MaskNamesSettled
<1>3. WorkFollowsMask(p)'
  BY <1>1 DEF WorkFollowsMask, ActiveStatus
<1> QED
  BY <1>2, <1>3, OnePipelineAtStake

LEMMA UpholdDisputeOrdered ==
  ASSUME TypeOK, OrderInv, NEW p \in Pipelines, NEW mint, NEW i \in Indexes, NEW facilitator,
         UpholdDispute(p, i, facilitator, mint)
  PROVE  OrderInv'
<1>1. \A q \in Pipelines : q # p => pipeline'[q] = pipeline[q] /\ node'[q] = node[q]
  BY DEF UpholdDispute, TypeOK
<1>2. pipeline'[p].settled_mask = pipeline[p].settled_mask
  <2>1. pipeline[p] \in PipelineAccount
    BY DEF TypeOK
  <2> QED
    BY <2>1 DEF UpholdDispute, CountExpired, TypeOK, PipelineAccount
<1>3. \A j \in Indexes \ {i} : node'[p][j] = node[p][j]
  BY DEF UpholdDispute, TypeOK
<1>4. node[p][i].status # "Settled" /\ node'[p][i].status = "Expired"
  <2>1. node[p][i] \in NodeAccount
    BY DEF TypeOK
  <2> QED
    BY <2>1 DEF UpholdDispute, TypeOK, NodeAccount
<1> DEFINE R == {i}
<1>5. R \in SUBSET Indexes
  OBVIOUS
<1>6. \A j \in R : /\ node[p][j].status # "Settled"
                   /\ node'[p][j].status \in {"Expired", "Closed"}
  BY <1>4
<1>7. \A j \in Indexes \ R : node'[p][j] = node[p][j]
  BY <1>3
<1> HIDE DEF R
<1> QED
  BY <1>1, <1>2, <1>5, <1>6, <1>7, RetireOrdered

\* A cascade takes the overdue node and pending ones.
LEMMA ExpiredByPending ==
  ASSUME NEW p \in Pipelines, NEW i \in Indexes, NEW listed
  PROVE  \A j \in ExpiredBy(p, i, listed) : j = i \/ node[p][j].status = "Pending"
BY DEF ExpiredBy, CascadeSet

LEMMA ExpireNodeOrdered ==
  ASSUME TypeOK, OrderInv, NEW p \in Pipelines, NEW mint, NEW i \in Indexes,
         NEW listed \in SUBSET Indexes, ExpireNode(p, i, listed, mint)
  PROVE  OrderInv'
<1> DEFINE expired == ExpiredBy(p, i, listed)
<1>1. \A q \in Pipelines : q # p => pipeline'[q] = pipeline[q] /\ node'[q] = node[q]
  BY DEF ExpireNode, TypeOK
<1>2. pipeline'[p].settled_mask = pipeline[p].settled_mask
  <2>1. pipeline[p] \in PipelineAccount
    BY DEF TypeOK
  <2> QED
    BY <2>1 DEF ExpireNode, CountExpired, TypeOK, PipelineAccount
<1>3. expired \in SUBSET Indexes
  BY ExpiredByFinite
<1>4. \A j \in expired : node[p][j].status # "Settled"
  BY ExpiredByPending DEF ExpireNode, MayExpire
<1>5. \A j \in Indexes :
        node'[p][j] = IF j \in expired THEN [node[p][j] EXCEPT !.status = "Expired"]
                                       ELSE node[p][j]
  BY DEF ExpireNode, TypeOK
<1> HIDE DEF expired
<1>6. \A j \in expired : node'[p][j].status = "Expired"
  <2> SUFFICES ASSUME NEW j \in expired PROVE node'[p][j].status = "Expired"
    OBVIOUS
  <2>1. node[p][j] \in NodeAccount
    BY <1>3 DEF TypeOK
  <2> QED
    BY <1>3, <1>5, <2>1 DEF NodeAccount
<1>7. \A j \in Indexes \ expired : node'[p][j] = node[p][j]
  BY <1>5
<1> QED
  BY <1>1, <1>2, <1>3, <1>4, <1>6, <1>7, RetireOrdered

LEMMA CancelPipelineOrdered ==
  ASSUME TypeOK, OrderInv, NEW p \in Pipelines, NEW mint, NEW consumer, NEW listed,
         CancelPipeline(p, consumer, listed, mint)
  PROVE  OrderInv'
<1> DEFINE closed == listed \cap Indexes
<1>1. \A q \in Pipelines : q # p => pipeline'[q] = pipeline[q] /\ node'[q] = node[q]
  BY DEF CancelPipeline, TypeOK
<1>2. pipeline'[p].settled_mask = pipeline[p].settled_mask
  <2>1. pipeline[p] \in PipelineAccount
    BY DEF TypeOK
  <2> QED
    BY <2>1 DEF CancelPipeline, TypeOK, PipelineAccount
<1>3. \A j \in Indexes :
        node'[p][j] = IF j \in listed THEN NoNode("Closed") ELSE node[p][j]
  BY DEF CancelPipeline, TypeOK
<1>4. \A j \in closed : /\ node[p][j].status # "Settled"
                        /\ node'[p][j].status \in {"Expired", "Closed"}
  BY <1>3 DEF CancelPipeline, NoNode
<1>5. \A j \in Indexes \ closed : node'[p][j] = node[p][j]
  BY <1>3
<1> QED
  BY <1>1, <1>2, <1>4, <1>5, RetireOrdered

LEMMA CreatePipelineOrdered ==
  ASSUME TypeOK, OrderInv, NEW p \in Pipelines, NEW node_configs,
         CreatePipeline(p, node_configs)
  PROVE  OrderInv'
<1>1. \A q \in Pipelines : q # p => pipeline'[q] = pipeline[q] /\ node'[q] = node[q]
  BY DEF CreatePipeline, TypeOK
<1>2. pipeline'[p].settled_mask = {}
  BY DEF CreatePipeline, TypeOK
<1>3. \A i \in Indexes : node'[p][i].status \in {"Pending", "Absent"}
  BY DEF CreatePipeline, TypeOK, PendingNode, NoNode
<1>4. MaskNamesSettled(p)' /\ WorkFollowsMask(p)'
  BY <1>2, <1>3 DEF MaskNamesSettled, WorkFollowsMask, ActiveStatus
<1> QED
  BY <1>1, <1>4, OnePipelineAtStake

\* OrderInv is inductive in well-typed states.
LEMMA OrderPreserved == TypeOK /\ OrderInv /\ [Next]_vars => OrderInv'
<1> SUFFICES ASSUME TypeOK, OrderInv, [Next]_vars PROVE OrderInv'
  OBVIOUS
<1>1. ASSUME Tick \/ OperatorStep \/ UNCHANGED vars PROVE OrderInv'
  <2>1. UNCHANGED <<pipeline, node>>
    BY <1>1 DEF Tick, OperatorStep, SetFacilitatorAuthority, SetPaused, SetDisputeWindow,
                ProposeOperator, AcceptOperator, accounts, vars
  <2> QED
    BY <2>1, UnchangedOrdered
<1>2. ASSUME NEW p \in Pipelines, NEW i \in Indexes, NEW consumer, DisputeNode(p, i, consumer)
      PROVE  OrderInv'
  BY <1>2, StatusMoveOrdered DEF DisputeNode, DisputeOpen, ActiveStatus
<1>3. ASSUME NEW p \in Pipelines, ConsumerStep(p) PROVE OrderInv'
  BY <1>2, <1>3, CreatePipelineOrdered, CancelPipelineOrdered DEF ConsumerStep
<1>4. ASSUME NEW p \in Pipelines, NEW mint, NEW i \in Indexes, FinalizeNode(p, i, mint)
      PROVE  OrderInv'
  BY <1>4, SettleOrdered DEF FinalizeNode, MayFinalize, ActiveStatus
<1>5. ASSUME NEW p \in Pipelines, NEW i \in Indexes, FacilitatorStep(p, i) PROVE OrderInv'
  <2>1. PICK facilitator \in Keys :
          \/ \E mint \in Mints : CompleteNode(p, i, facilitator, mint)
          \/ \E delta \in ScoreDeltas : SubmitCompletion(p, i, facilitator, delta)
          \/ \E mint \in Mints : UpholdDispute(p, i, facilitator, mint)
          \/ \E mint \in Mints : RejectDispute(p, i, facilitator, mint)
    BY <1>5 DEF FacilitatorStep
  <2>2. CASE \E mint \in Mints : CompleteNode(p, i, facilitator, mint)
    BY <2>2, SettleOrdered DEF CompleteNode, ActiveStatus
  <2>3. CASE \E delta \in ScoreDeltas : SubmitCompletion(p, i, facilitator, delta)
    BY <2>3, StatusMoveOrdered DEF SubmitCompletion, ActiveStatus
  <2>4. CASE \E mint \in Mints : UpholdDispute(p, i, facilitator, mint)
    BY <2>4, UpholdDisputeOrdered
  <2>5. CASE \E mint \in Mints : RejectDispute(p, i, facilitator, mint)
    BY <2>5, SettleOrdered DEF RejectDispute, ActiveStatus
  <2> QED
    BY <2>1, <2>2, <2>3, <2>4, <2>5
<1> QED
  BY <1>1, <1>3, <1>4, <1>5, ClaimNodeOrdered, ExpireNodeOrdered DEF Next

\* No node is claimed, under review or paid before everything it depends on is
\* paid for, whatever lists expire_node and cancel_pipeline are given.
THEOREM OrderCorrect == Spec => []DependencyOrder
<1>1. Init => TypeOK /\ OrderInv
  BY InitTyped, InitOrdered
<1>2. TypeOK /\ OrderInv /\ [Next]_vars => TypeOK' /\ OrderInv'
  BY TypePreserved, OrderPreserved
<1>3. TypeOK /\ OrderInv => DependencyOrder
  BY OrderInvImplies
<1> QED
  BY <1>1, <1>2, <1>3, PTL DEF Spec

(***************************************************************************)
(* Optimistic settlement: a NodeSettlement account lives exactly as long as *)
(* its node is under review, and the consumer's right to dispute ends only  *)
(* with time or with the dispute.                                           *)
(*                                                                          *)
(* SettlementMatchesNode alone is not inductive: create_pipeline writes all *)
(* node accounts and no settlement account, so there may be nothing under   *)
(* review in a pipeline that does not exist yet.                            *)
(***************************************************************************)
Matches(s, status) ==
  /\ s.open <=> status \in {"Submitted", "Disputed"}
  /\ s.disputed <=> status = "Disputed"

ReviewsMatch(p) == \A i \in Indexes : Matches(settlement[p][i], node[p][i].status)

AbsentIsEmpty(p) ==
  pipeline[p].status = "Absent" => \A i \in Indexes : node[p][i].status = "Absent"

ReviewInv == \A p \in Pipelines : ReviewsMatch(p) /\ AbsentIsEmpty(p)

\* The accounts of no other pipeline are written; of no other node.
OtherPipelinesKept(p) ==
  \A q \in Pipelines \ {p} :
    pipeline'[q] = pipeline[q] /\ node'[q] = node[q] /\ settlement'[q] = settlement[q]
OtherSummariesKept(p) == \A q \in Pipelines \ {p} : pipeline'[q] = pipeline[q]
OtherNodesKept(p, i) ==
  \A j \in Indexes \ {i} : node'[p][j] = node[p][j] /\ settlement'[p][j] = settlement[p][j]

LEMMA ReviewInvImplies == ReviewInv => SettlementMatchesNode
BY DEF ReviewInv, ReviewsMatch, Matches, SettlementMatchesNode

LEMMA InitReview == Init => ReviewInv
BY DEF Init, ReviewInv, ReviewsMatch, AbsentIsEmpty, Matches, NoNode, NoSettlement

LEMMA UnchangedReview ==
  ASSUME ReviewInv, UNCHANGED <<pipeline, node, settlement>>
  PROVE  ReviewInv'
BY DEF ReviewInv, ReviewsMatch, AbsentIsEmpty

LEMMA PipelineReview ==
  ASSUME ReviewInv, NEW p \in Pipelines, OtherPipelinesKept(p),
         pipeline'[p].status # "Absent", ReviewsMatch(p)'
  PROVE  ReviewInv'
BY DEF ReviewInv, ReviewsMatch, AbsentIsEmpty, OtherPipelinesKept

LEMMA NodeReview ==
  ASSUME ReviewInv, NEW p \in Pipelines, NEW i \in Indexes,
         OtherPipelinesKept(p), OtherNodesKept(p, i),
         pipeline'[p].status # "Absent", Matches(settlement'[p][i], node'[p][i].status)
  PROVE  ReviewInv'
<1>1. ReviewsMatch(p)'
  BY DEF ReviewInv, ReviewsMatch, OtherNodesKept
<1> QED
  BY <1>1, PipelineReview

(***************************************************************************)
(* What each instruction on one node writes                                 *)
(***************************************************************************)
\* A pipeline with a node has been created, and counting leaves it so.
LEMMA CountedStatus ==
  ASSUME TypeOK, ReviewInv, NEW p \in Pipelines, NEW i \in Indexes,
         node[p][i].status # "Absent", NEW count
  PROVE  /\ pipeline[p].status # "Absent"
         /\ CountSettled(pipeline[p], i).status # "Absent"
         /\ CountExpired(pipeline[p], count).status # "Absent"
<1>1. pipeline[p].status # "Absent"
  BY DEF ReviewInv, AbsentIsEmpty
<1>2. pipeline[p] \in PipelineAccount
  BY DEF TypeOK
<1>3. CountSettled(pipeline[p], i).status # "Absent"
  BY <1>1, <1>2 DEF CountSettled, StatusAfterSettle, PipelineAccount
<1>4. CountExpired(pipeline[p], count).status # "Absent"
  BY <1>2 DEF CountExpired, PipelineAccount
<1> QED
  BY <1>1, <1>3, <1>4

\* One node moves on, with a new settlement account or the old one.
LEMMA NodeMoveEffect ==
  ASSUME TypeOK, NEW p \in Pipelines, NEW i \in Indexes, NEW moved, NEW s,
         node' = [node EXCEPT ![p][i] = moved],
         settlement' = [settlement EXCEPT ![p][i] = s],
         OtherSummariesKept(p)
  PROVE  /\ OtherPipelinesKept(p) /\ OtherNodesKept(p, i)
         /\ node'[p][i] = moved /\ settlement'[p][i] = s
<1>1. node'[p][i] = moved /\ settlement'[p][i] = s
  BY DEF TypeOK
<1>2. OtherNodesKept(p, i)
  BY DEF TypeOK, OtherNodesKept
<1>3. OtherPipelinesKept(p)
  BY DEF TypeOK, OtherPipelinesKept, OtherSummariesKept
<1> QED
  BY <1>1, <1>2, <1>3

LEMMA SameSettlement ==
  ASSUME TypeOK, NEW p \in Pipelines, NEW i \in Indexes, UNCHANGED settlement
  PROVE  settlement' = [settlement EXCEPT ![p][i] = settlement[p][i]]
BY DEF TypeOK

LEMMA ClaimNodeReview ==
  ASSUME TypeOK, ReviewInv, NEW p \in Pipelines, NEW i \in Indexes, NEW agent, NEW tier,
         ClaimNode(p, i, agent, tier)
  PROVE  ReviewInv' /\ OtherPipelinesKept(p) /\ OtherNodesKept(p, i)
<1>1. node[p][i] \in NodeAccount
  BY DEF TypeOK
<1>2. node'[p][i].status = "Claimed"
  BY <1>1 DEF ClaimNode, TypeOK, NodeAccount
<1>3. OtherPipelinesKept(p) /\ OtherNodesKept(p, i)
  BY DEF ClaimNode, TypeOK, OtherPipelinesKept, OtherNodesKept
<1>4. pipeline'[p].status # "Absent" /\ settlement'[p][i] = settlement[p][i]
  BY DEF ClaimNode, MayClaim
<1>5. Matches(settlement[p][i], "Pending")
  BY DEF ReviewInv, ReviewsMatch, ClaimNode, MayClaim
<1>6. Matches(settlement'[p][i], node'[p][i].status)
  BY <1>2, <1>4, <1>5 DEF Matches
<1> QED
  BY <1>3, <1>4, <1>6, NodeReview

LEMMA SettleEffect ==
  ASSUME TypeOK, ReviewInv, NEW p \in Pipelines, NEW mint, NEW i \in Indexes, NEW s,
         node[p][i].status \in ActiveStatus, Settle(p, i, mint),
         settlement' = [settlement EXCEPT ![p][i] = s]
  PROVE  /\ OtherPipelinesKept(p) /\ OtherNodesKept(p, i)
         /\ node'[p][i].status = "Settled" /\ settlement'[p][i] = s
         /\ pipeline'[p].status # "Absent"
<1>1. pipeline'[p].status # "Absent"
  <2>1. pipeline'[p] = CountSettled(pipeline[p], i)
    BY DEF Settle, TypeOK
  <2>2. node[p][i].status # "Absent"
    BY DEF ActiveStatus
  <2> QED
    BY <2>1, <2>2, CountedStatus
<1> DEFINE moved == [node[p][i] EXCEPT !.status = "Settled"]
<1>2. moved.status = "Settled"
  BY DEF TypeOK, NodeAccount
<1>3. /\ node' = [node EXCEPT ![p][i] = moved]
      /\ OtherSummariesKept(p)
  BY DEF Settle, TypeOK, OtherSummariesKept
<1> HIDE DEF moved
<1>4. /\ OtherPipelinesKept(p) /\ OtherNodesKept(p, i)
      /\ node'[p][i] = moved /\ settlement'[p][i] = s
  BY <1>3, NodeMoveEffect
<1> QED
  BY <1>1, <1>2, <1>4

LEMMA CompleteNodeReview ==
  ASSUME TypeOK, ReviewInv, NEW p \in Pipelines, NEW mint, NEW i \in Indexes, NEW facilitator,
         CompleteNode(p, i, facilitator, mint)
  PROVE  ReviewInv' /\ OtherPipelinesKept(p) /\ OtherNodesKept(p, i)
<1>1. settlement' = [settlement EXCEPT ![p][i] = settlement[p][i]]
  BY SameSettlement DEF CompleteNode
<1>2. node[p][i].status \in ActiveStatus /\ Settle(p, i, mint)
  BY DEF CompleteNode, ActiveStatus
<1>3. /\ OtherPipelinesKept(p) /\ OtherNodesKept(p, i)
      /\ node'[p][i].status = "Settled" /\ settlement'[p][i] = settlement[p][i]
      /\ pipeline'[p].status # "Absent"
  BY <1>1, <1>2, SettleEffect
<1>4. Matches(settlement[p][i], "Claimed")
  BY DEF ReviewInv, ReviewsMatch, CompleteNode
<1>5. Matches(settlement'[p][i], node'[p][i].status)
  BY <1>3, <1>4 DEF Matches
<1> QED
  BY <1>3, <1>5, NodeReview

LEMMA ClosedMatches == \A status \in NodeStatus \ {"Submitted", "Disputed"} :
                         Matches(NoSettlement, status)
BY DEF Matches, NoSettlement

\* finalize_node and a rejected dispute.
LEMMA SettleAndCloseReview ==
  ASSUME TypeOK, ReviewInv, NEW p \in Pipelines, NEW mint, NEW i \in Indexes,
         node[p][i].status \in ActiveStatus, Settle(p, i, mint), CloseSettlement(p, i)
  PROVE  ReviewInv' /\ OtherPipelinesKept(p) /\ OtherNodesKept(p, i)
<1>1. /\ OtherPipelinesKept(p) /\ OtherNodesKept(p, i)
      /\ node'[p][i].status = "Settled" /\ settlement'[p][i] = NoSettlement
      /\ pipeline'[p].status # "Absent"
  BY SettleEffect DEF CloseSettlement
<1>2. Matches(settlement'[p][i], node'[p][i].status)
  BY <1>1, ClosedMatches DEF NodeStatus
<1> QED
  BY <1>1, <1>2, NodeReview

LEMMA SubmitCompletionReview ==
  ASSUME TypeOK, ReviewInv, NEW p \in Pipelines, NEW i \in Indexes, NEW facilitator, NEW delta,
         SubmitCompletion(p, i, facilitator, delta)
  PROVE  ReviewInv' /\ OtherPipelinesKept(p) /\ OtherNodesKept(p, i)
<1> DEFINE s == [open |-> TRUE, submitted_at_slot |-> slot,
                 dispute_slots |-> pipeline_config.dispute_slots,
                 score_delta |-> delta, disputed |-> FALSE]
<1>1. s.open /\ ~s.disputed
  OBVIOUS
<1> DEFINE moved == [node[p][i] EXCEPT !.status = "Submitted"]
<1>moved. moved.status = "Submitted"
  BY DEF TypeOK, NodeAccount
<1>2. /\ node' = [node EXCEPT ![p][i] = moved]
      /\ settlement' = [settlement EXCEPT ![p][i] = s]
      /\ UNCHANGED pipeline /\ OtherSummariesKept(p)
  BY DEF TypeOK, SubmitCompletion, OtherSummariesKept
<1> HIDE DEF s, moved
<1>3. /\ OtherPipelinesKept(p) /\ OtherNodesKept(p, i)
      /\ node'[p][i] = moved /\ settlement'[p][i] = s
  BY <1>2, NodeMoveEffect
<1>4. pipeline'[p].status # "Absent"
  <2>1. node[p][i].status # "Absent"
    BY DEF SubmitCompletion
  <2> QED
    BY <1>2, <2>1 DEF ReviewInv, AbsentIsEmpty
<1>5. Matches(settlement'[p][i], node'[p][i].status)
  BY <1>1, <1>moved, <1>3 DEF Matches
<1> QED
  BY <1>moved, <1>3, <1>4, <1>5, NodeReview

LEMMA DisputeNodeReview ==
  ASSUME TypeOK, ReviewInv, NEW p \in Pipelines, NEW i \in Indexes, NEW consumer,
         DisputeNode(p, i, consumer)
  PROVE  /\ ReviewInv' /\ OtherPipelinesKept(p) /\ OtherNodesKept(p, i)
         /\ node'[p][i].status = "Disputed"
<1> DEFINE s == [settlement[p][i] EXCEPT !.disputed = TRUE]
<1>1. s.open /\ s.disputed
  <2>1. settlement[p][i] \in SettlementAccount /\ settlement[p][i].open
    BY DEF TypeOK, DisputeNode, DisputeOpen
  <2> QED
    BY <2>1 DEF SettlementAccount
<1> DEFINE moved == [node[p][i] EXCEPT !.status = "Disputed"]
<1>moved. moved.status = "Disputed"
  BY DEF TypeOK, NodeAccount
<1>2. /\ node' = [node EXCEPT ![p][i] = moved]
      /\ settlement' = [settlement EXCEPT ![p][i] = s]
      /\ UNCHANGED pipeline /\ OtherSummariesKept(p)
  BY DEF TypeOK, DisputeNode, OtherSummariesKept
<1> HIDE DEF s, moved
<1>3. /\ OtherPipelinesKept(p) /\ OtherNodesKept(p, i)
      /\ node'[p][i] = moved /\ settlement'[p][i] = s
  BY <1>2, NodeMoveEffect
<1>4. pipeline'[p].status # "Absent"
  <2>1. node[p][i].status # "Absent"
    BY DEF DisputeNode, DisputeOpen
  <2> QED
    BY <1>2, <2>1 DEF ReviewInv, AbsentIsEmpty
<1>5. Matches(settlement'[p][i], node'[p][i].status)
  BY <1>1, <1>moved, <1>3 DEF Matches
<1> QED
  BY <1>moved, <1>3, <1>4, <1>5, NodeReview

LEMMA UpholdDisputeReview ==
  ASSUME TypeOK, ReviewInv, NEW p \in Pipelines, NEW mint, NEW i \in Indexes, NEW facilitator,
         UpholdDispute(p, i, facilitator, mint)
  PROVE  ReviewInv' /\ OtherPipelinesKept(p) /\ OtherNodesKept(p, i)
<1>1. pipeline'[p].status # "Absent"
  <2>1. pipeline'[p] = CountExpired(pipeline[p], 1)
    BY DEF UpholdDispute, TypeOK
  <2>2. node[p][i].status # "Absent"
    BY DEF UpholdDispute
  <2> QED
    BY <2>1, <2>2, CountedStatus
<1> DEFINE moved == [node[p][i] EXCEPT !.status = "Expired"]
<1>moved. moved.status = "Expired"
  BY DEF TypeOK, NodeAccount
<1>2. /\ node' = [node EXCEPT ![p][i] = moved]
      /\ settlement' = [settlement EXCEPT ![p][i] = NoSettlement]
      /\ OtherSummariesKept(p)
  BY DEF UpholdDispute, CloseSettlement, TypeOK, OtherSummariesKept
<1> HIDE DEF moved
<1>3. /\ OtherPipelinesKept(p) /\ OtherNodesKept(p, i)
      /\ node'[p][i] = moved /\ settlement'[p][i] = NoSettlement
  BY <1>2, NodeMoveEffect
<1>4. Matches(settlement'[p][i], node'[p][i].status)
  BY <1>moved, <1>3, ClosedMatches DEF NodeStatus, OpenStatus
<1> QED
  BY <1>1, <1>3, <1>4, NodeReview

(***************************************************************************)
(* Instructions on a whole pipeline move no node into or out of review.     *)
(***************************************************************************)
UnderReview == {"Submitted", "Disputed"}

ReviewsUntouched(p) ==
  /\ UNCHANGED settlement
  /\ OtherPipelinesKept(p)
  /\ pipeline'[p].status # "Absent"
  /\ \A j \in Indexes :
       \/ node'[p][j].status = node[p][j].status
       \/ node[p][j].status \notin UnderReview /\ node'[p][j].status \notin UnderReview

LEMMA UntouchedReview ==
  ASSUME ReviewInv, NEW p \in Pipelines, ReviewsUntouched(p)
  PROVE  ReviewInv'
<1>1. ReviewsMatch(p)'
  <2> SUFFICES ASSUME NEW j \in Indexes PROVE Matches(settlement'[p][j], node'[p][j].status)
    BY DEF ReviewsMatch
  <2>1. Matches(settlement[p][j], node[p][j].status)
    BY DEF ReviewInv, ReviewsMatch
  <2> QED
    BY <2>1 DEF ReviewsUntouched, Matches, UnderReview
<1> QED
  BY <1>1, PipelineReview DEF ReviewsUntouched

LEMMA CreatePipelineEffect ==
  ASSUME TypeOK, ReviewInv, NEW p \in Pipelines, NEW node_configs,
         CreatePipeline(p, node_configs)
  PROVE  ReviewsUntouched(p)
<1>1. \A j \in Indexes : node[p][j].status = "Absent"
  BY DEF CreatePipeline, ReviewInv, AbsentIsEmpty
<1>2. \A j \in Indexes : node'[p][j].status \in {"Pending", "Absent"}
  BY DEF CreatePipeline, TypeOK, PendingNode, NoNode
<1>3. UNCHANGED settlement /\ pipeline'[p].status # "Absent"
  BY DEF CreatePipeline, TypeOK
<1>4. OtherPipelinesKept(p)
  BY DEF CreatePipeline, TypeOK, OtherPipelinesKept
<1> QED
  BY <1>1, <1>2, <1>3, <1>4 DEF ReviewsUntouched, UnderReview

LEMMA CancelPipelineEffect ==
  ASSUME TypeOK, NEW p \in Pipelines, NEW mint, NEW consumer, NEW listed,
         CancelPipeline(p, consumer, listed, mint)
  PROVE  ReviewsUntouched(p)
<1>1. \A j \in Indexes :
        node'[p][j] = IF j \in listed THEN NoNode("Closed") ELSE node[p][j]
  BY DEF CancelPipeline, TypeOK
<1>2. \A j \in listed : node[p][j].status = "Pending"
  BY DEF CancelPipeline
<1>3. UNCHANGED settlement /\ pipeline'[p].status # "Absent"
  <2>1. pipeline[p] \in PipelineAccount
    BY DEF TypeOK
  <2> QED
    BY <2>1 DEF CancelPipeline, TypeOK, PipelineAccount
<1>4. OtherPipelinesKept(p)
  BY DEF CancelPipeline, TypeOK, OtherPipelinesKept
<1>5. NoNode("Closed").status = "Closed"
  BY DEF NoNode
<1> QED
  BY <1>1, <1>2, <1>3, <1>4, <1>5 DEF ReviewsUntouched, UnderReview

LEMMA ExpireNodeEffect ==
  ASSUME TypeOK, ReviewInv, NEW p \in Pipelines, NEW mint, NEW i \in Indexes,
         NEW listed \in SUBSET Indexes, ExpireNode(p, i, listed, mint)
  PROVE  ReviewsUntouched(p)
<1> DEFINE expired == ExpiredBy(p, i, listed)
<1>1. \A j \in expired : node[p][j].status \in {"Pending", "Claimed"}
  BY ExpiredByPending DEF ExpireNode, MayExpire
<1>2. \A j \in Indexes :
        node'[p][j] = IF j \in expired THEN [node[p][j] EXCEPT !.status = "Expired"]
                                       ELSE node[p][j]
  BY DEF ExpireNode, TypeOK
<1>3. UNCHANGED settlement /\ OtherPipelinesKept(p)
  BY DEF ExpireNode, TypeOK, OtherPipelinesKept
<1>4. pipeline'[p].status # "Absent"
  <2>1. pipeline'[p] = CountExpired(pipeline[p], Cardinality(expired))
    BY DEF ExpireNode, TypeOK
  <2>2. node[p][i].status # "Absent"
    BY DEF ExpireNode, MayExpire
  <2> HIDE DEF expired
  <2> QED
    BY <2>1, <2>2, CountedStatus
<1> HIDE DEF expired
<1>5. \A j \in Indexes :
        \/ node'[p][j].status = node[p][j].status
        \/ node[p][j].status \notin UnderReview /\ node'[p][j].status \notin UnderReview
  <2> SUFFICES ASSUME NEW j \in Indexes
               PROVE  \/ node'[p][j].status = node[p][j].status
                      \/ /\ node[p][j].status \notin UnderReview
                         /\ node'[p][j].status \notin UnderReview
    OBVIOUS
  <2>1. node[p][j] \in NodeAccount
    BY DEF TypeOK
  <2> QED
    BY <1>1, <1>2, <2>1 DEF NodeAccount, UnderReview
<1> QED
  BY <1>3, <1>4, <1>5 DEF ReviewsUntouched

(***************************************************************************)
(* The right to dispute                                                     *)
(***************************************************************************)
RightKept(p, i) ==
  DisputeOpen(p, i) =>
    \/ DisputeOpen(p, i)'
    \/ slot' # slot
    \/ node'[p][i].status = "Disputed"

LEMMA SameReviewKeepsRight ==
  ASSUME NEW p \in Pipelines, NEW i \in Indexes,
         settlement'[p][i] = settlement[p][i], node'[p][i].status = node[p][i].status
  PROVE  RightKept(p, i)
BY DEF RightKept, DisputeOpen, DisputeUntil

\* What is left to show of an instruction on one node; on a whole pipeline.
LEMMA NodeStepKeepsRights ==
  ASSUME NEW p \in Pipelines, NEW i \in Indexes,
         OtherPipelinesKept(p), OtherNodesKept(p, i), RightKept(p, i)
  PROVE  \A q \in Pipelines, j \in Indexes : RightKept(q, j)
BY SameReviewKeepsRight DEF OtherPipelinesKept, OtherNodesKept

LEMMA UntouchedKeepsRights ==
  ASSUME NEW p \in Pipelines, ReviewsUntouched(p)
  PROVE  \A q \in Pipelines, j \in Indexes : RightKept(q, j)
<1>1. \A q \in Pipelines \ {p}, j \in Indexes : RightKept(q, j)
  BY SameReviewKeepsRight DEF ReviewsUntouched, OtherPipelinesKept
<1>2. ASSUME NEW j \in Indexes PROVE RightKept(p, j)
  <2>1. CASE node'[p][j].status = node[p][j].status
    BY <2>1, SameReviewKeepsRight DEF ReviewsUntouched
  <2>2. CASE node[p][j].status \notin UnderReview
    BY <2>2 DEF RightKept, DisputeOpen, UnderReview
  <2> QED
    BY <2>1, <2>2 DEF ReviewsUntouched
<1> QED
  BY <1>1, <1>2

\* finalize_node comes after the window, dispute_node before its end.
LEMMA WindowOverNoDispute ==
  ASSUME TypeOK, NEW p \in Pipelines, NEW i \in Indexes, WindowOver(p, i)
  PROVE  ~DisputeOpen(p, i)
<1>1. settlement[p][i] \in SettlementAccount
  BY DEF TypeOK
<1>2. DisputeUntil(p, i) \in Amounts
  <2>1. /\ settlement[p][i].submitted_at_slot \in Nat
        /\ settlement[p][i].dispute_slots \in Nat
    BY <1>1 DEF SettlementAccount, Amounts
  <2> QED
    BY <2>1, SaturatingAddType DEF DisputeUntil
<1>3. slot \in Nat /\ DisputeUntil(p, i) \in Nat
  BY <1>2, SlotIsAmount DEF Amounts
<1> QED
  BY <1>3 DEF WindowOver, DisputeOpen

(***************************************************************************)
(* One step                                                                 *)
(***************************************************************************)
ReviewStep == ReviewInv' /\ \A p \in Pipelines, i \in Indexes : RightKept(p, i)

LEMMA ReviewPreserved == TypeOK /\ ReviewInv /\ [Next]_vars => ReviewStep
<1> SUFFICES ASSUME TypeOK, ReviewInv, [Next]_vars PROVE ReviewStep
  OBVIOUS
<1>1. ASSUME Tick \/ OperatorStep \/ UNCHANGED vars PROVE ReviewStep
  <2>1. UNCHANGED <<pipeline, node, settlement>>
    BY <1>1 DEF Tick, OperatorStep, SetFacilitatorAuthority, SetPaused, SetDisputeWindow,
                ProposeOperator, AcceptOperator, accounts, vars
  <2> QED
    BY <2>1, UnchangedReview, SameReviewKeepsRight DEF ReviewStep
<1>2. ASSUME NEW p \in Pipelines, ReviewsUntouched(p) PROVE ReviewStep
  BY <1>2, UntouchedReview, UntouchedKeepsRights DEF ReviewStep
<1>3. ASSUME NEW p \in Pipelines, NEW i \in Indexes, ReviewInv',
             OtherPipelinesKept(p), OtherNodesKept(p, i),
             ~DisputeOpen(p, i) \/ node'[p][i].status = "Disputed"
      PROVE  ReviewStep
  BY <1>3, NodeStepKeepsRights DEF ReviewStep, RightKept
<1>4. ASSUME NEW p \in Pipelines, ConsumerStep(p) PROVE ReviewStep
  <2>1. CASE \E node_configs \in NodeConfigLists : CreatePipeline(p, node_configs)
    BY <1>2, <2>1, CreatePipelineEffect
  <2>2. CASE \E consumer \in Consumers, listed \in CancelLists(p), mint \in Mints :
               CancelPipeline(p, consumer, listed, mint)
    BY <1>2, <2>2, CancelPipelineEffect
  <2>3. CASE \E consumer \in Consumers, i \in Indexes : DisputeNode(p, i, consumer)
    BY <1>3, <2>3, DisputeNodeReview
  <2> QED
    BY <1>4, <2>1, <2>2, <2>3 DEF ConsumerStep
<1>5. ASSUME NEW p \in Pipelines, NEW i \in Indexes,
             \E agent \in Agents, tier \in Tiers : ClaimNode(p, i, agent, tier)
      PROVE  ReviewStep
  <2>1. ~DisputeOpen(p, i)
    BY <1>5 DEF ClaimNode, MayClaim, DisputeOpen
  <2> QED
    BY <1>3, <1>5, <2>1, ClaimNodeReview
<1>6. ASSUME NEW p \in Pipelines, NEW mint, NEW i \in Indexes, FinalizeNode(p, i, mint)
      PROVE  ReviewStep
  <2>1. ~DisputeOpen(p, i)
    BY <1>6, WindowOverNoDispute DEF FinalizeNode, MayFinalize
  <2>2. node[p][i].status \in ActiveStatus /\ Settle(p, i, mint) /\ CloseSettlement(p, i)
    BY <1>6 DEF FinalizeNode, MayFinalize, ActiveStatus
  <2> QED
    BY <1>3, <2>1, <2>2, SettleAndCloseReview
<1>7. ASSUME NEW p \in Pipelines, NEW mint, NEW i \in Indexes, NEW facilitator \in Keys,
             RejectDispute(p, i, facilitator, mint)
      PROVE  ReviewStep
  <2>1. ~DisputeOpen(p, i)
    BY <1>7 DEF RejectDispute, DisputeOpen
  <2>2. node[p][i].status \in ActiveStatus /\ Settle(p, i, mint) /\ CloseSettlement(p, i)
    BY <1>7 DEF RejectDispute, ActiveStatus
  <2> QED
    BY <1>3, <2>1, <2>2, SettleAndCloseReview
<1>8. ASSUME NEW p \in Pipelines, NEW i \in Indexes, FacilitatorStep(p, i) PROVE ReviewStep
  <2>1. PICK facilitator \in Keys :
          \/ \E mint \in Mints : CompleteNode(p, i, facilitator, mint)
          \/ \E delta \in ScoreDeltas : SubmitCompletion(p, i, facilitator, delta)
          \/ \E mint \in Mints : UpholdDispute(p, i, facilitator, mint)
          \/ \E mint \in Mints : RejectDispute(p, i, facilitator, mint)
    BY <1>8 DEF FacilitatorStep
  <2>2. CASE \E mint \in Mints : CompleteNode(p, i, facilitator, mint)
    <3>1. ~DisputeOpen(p, i)
      BY <2>2 DEF CompleteNode, DisputeOpen
    <3> QED
      BY <1>3, <2>2, <3>1, CompleteNodeReview
  <2>3. CASE \E delta \in ScoreDeltas : SubmitCompletion(p, i, facilitator, delta)
    <3>1. ~DisputeOpen(p, i)
      BY <2>3 DEF SubmitCompletion, DisputeOpen
    <3> QED
      BY <1>3, <2>3, <3>1, SubmitCompletionReview
  <2>4. CASE \E mint \in Mints : UpholdDispute(p, i, facilitator, mint)
    <3>1. ~DisputeOpen(p, i)
      BY <2>4 DEF UpholdDispute, DisputeOpen
    <3> QED
      BY <1>3, <2>4, <3>1, UpholdDisputeReview
  <2> QED
    BY <1>7, <2>1, <2>2, <2>3, <2>4
<1>9. ASSUME NEW p \in Pipelines, NEW mint, NEW i \in Indexes,
             \E listed \in SUBSET Indexes : ExpireNode(p, i, listed, mint)
      PROVE  ReviewStep
  BY <1>2, <1>9, ExpireNodeEffect
<1> QED
  BY <1>1, <1>4, <1>5, <1>6, <1>8, <1>9 DEF Next

\* A NodeSettlement account is open exactly while its node is under review, and
\* marked disputed exactly while its node is.
THEOREM SettlementCorrect == Spec => []SettlementMatchesNode
<1>1. Init => TypeOK /\ ReviewInv
  BY InitTyped, InitReview
<1>2. TypeOK /\ ReviewInv /\ [Next]_vars => TypeOK' /\ ReviewInv'
  BY TypePreserved, ReviewPreserved DEF ReviewStep
<1>3. ReviewInv => SettlementMatchesNode
  BY ReviewInvImplies
<1> QED
  BY <1>1, <1>2, <1>3, PTL DEF Spec

\* The consumer's right to dispute a submitted node ends with a slot or with the
\* dispute, whatever the operator, the facilitator and others do.
THEOREM DisputeRightCorrect == Spec => DisputeRightKept
<1>1. Init => TypeOK /\ ReviewInv
  BY InitTyped, InitReview
<1>2. TypeOK /\ ReviewInv /\ [Next]_vars => TypeOK' /\ ReviewInv'
  BY TypePreserved, ReviewPreserved DEF ReviewStep
<1>3. TypeOK /\ ReviewInv /\ [Next]_vars =>
        [\A p \in Pipelines, i \in Indexes :
           DisputeOpen(p, i) =>
             \/ DisputeOpen(p, i)'
             \/ slot' # slot
             \/ node'[p][i].status = "Disputed"]_vars
  BY ReviewPreserved DEF ReviewStep, RightKept
<1> QED
  BY <1>1, <1>2, <1>3, PTL DEF Spec, DisputeRightKept

-----------------------------------------------------------------------------
(***************************************************************************)
(* The books, when cancel_pipeline is given all node accounts (the list the *)
(* SDK builds): what each pipeline account says of its nodes, what each     *)
(* vault holds, and what each party has paid.                               *)
(***************************************************************************)

(***************************************************************************)
(* Five kinds of step.  Work moves no money.  A payment settles one node; a *)
(* refund expires nodes that are open.  create_pipeline and cancel_pipeline *)
(* are the other two.                                                       *)
(***************************************************************************)
Worked ==
  /\ UNCHANGED <<pipeline, vault, wallets, left_behind>>
  /\ pipeline_config'.fee_bps = pipeline_config.fee_bps
  /\ \A p \in Pipelines, i \in Indexes :
       /\ node'[p][i].allocation_usdc = node[p][i].allocation_usdc
       /\ node'[p][i].dependency_mask = node[p][i].dependency_mask
       /\ \/ /\ node'[p][i].status = node[p][i].status
             /\ node'[p][i].agent = node[p][i].agent
          \/ /\ node[p][i].status \in OpenStatus
             /\ node'[p][i].status \in ActiveStatus
             /\ \/ node'[p][i].agent \in Agents
                \/ /\ node[p][i].status \in ActiveStatus
                   /\ node'[p][i].agent = node[p][i].agent

Paid(p, i, mint) ==
  /\ node[p][i].status \in ActiveStatus
  /\ Settle(p, i, mint)
  /\ UNCHANGED pipeline_config

Returned(p, R, mint) ==
  /\ R # {} /\ R \subseteq NodesWith(p, OpenStatus)
  /\ Refund(p, R, Total(Allocation(p), R), mint)
  /\ node' = [node EXCEPT ![p] =
       [j \in Indexes |-> IF j \in R THEN [node[p][j] EXCEPT !.status = "Expired"]
                                     ELSE node[p][j]]]
  /\ pipeline' = [pipeline EXCEPT ![p] = CountExpired(@, Cardinality(R))]
  /\ UNCHANGED pipeline_config

LEMMA AllocationTyped ==
  ASSUME TypeOK, NEW p \in Pipelines
  PROVE  /\ \A i \in Indexes : /\ Allocation(p)[i] = node[p][i].allocation_usdc
                               /\ Allocation(p)[i] \in Amounts
                               /\ Allocation(p)[i] \in Nat
         /\ \A R \in SUBSET Indexes : IsFiniteSet(R) /\ Total(Allocation(p), R) \in Nat
<1>1. \A i \in Indexes : /\ Allocation(p)[i] = node[p][i].allocation_usdc
                         /\ Allocation(p)[i] \in Amounts
  BY DEF Allocation, TypeOK, NodeAccount
<1>2. \A R \in SUBSET Indexes : IsFiniteSet(R) /\ Total(Allocation(p), R) \in Nat
  BY IndexesFinite, FS_Subset, TotalType
<1> QED
  BY <1>1, <1>2, U64Assumption DEF Amounts

\* The steps that move no money.
LEMMA StillWorked ==
  ASSUME Tick \/ OperatorStep \/ UNCHANGED vars, TypeOK
  PROVE  Worked
<1>1. UNCHANGED <<node, pipeline, vault, wallets, left_behind>>
  BY DEF Tick, OperatorStep, SetFacilitatorAuthority, SetPaused, SetDisputeWindow,
         ProposeOperator, AcceptOperator, accounts, vars
<1>2. pipeline_config'.fee_bps = pipeline_config.fee_bps
  <2>1. pipeline_config \in ConfigAccount
    BY DEF TypeOK
  <2> QED
    BY <2>1 DEF Tick, OperatorStep, SetFacilitatorAuthority, SetPaused, SetDisputeWindow,
           ProposeOperator, AcceptOperator, vars, ConfigAccount
<1> QED
  BY <1>1, <1>2 DEF Worked

\* One open node moves on, to an agent's work.
LEMMA MoveWorked ==
  ASSUME TypeOK, NEW p \in Pipelines, NEW i \in Indexes, NEW moved,
         node' = [node EXCEPT ![p][i] = moved],
         UNCHANGED <<pipeline_config, pipeline, vault, wallets, left_behind>>,
         moved.allocation_usdc = node[p][i].allocation_usdc,
         moved.dependency_mask = node[p][i].dependency_mask,
         node[p][i].status \in OpenStatus, moved.status \in ActiveStatus,
         \/ moved.agent \in Agents
         \/ node[p][i].status \in ActiveStatus /\ moved.agent = node[p][i].agent
  PROVE  Worked
<1>1. \A q \in Pipelines, j \in Indexes :
        node'[q][j] = IF q = p /\ j = i THEN moved ELSE node[q][j]
  BY DEF TypeOK
<1> QED
  BY <1>1 DEF Worked

LEMMA ClaimWorked ==
  ASSUME TypeOK, NEW p \in Pipelines, NEW i \in Indexes, NEW agent \in Agents, NEW tier,
         ClaimNode(p, i, agent, tier)
  PROVE  Worked
<1> DEFINE moved == [node[p][i] EXCEPT !.agent = agent, !.status = "Claimed",
                                       !.job_id = <<p, i, agent, slot>>]
<1>1. node[p][i] \in NodeAccount
  BY DEF TypeOK
<1>2. /\ moved.allocation_usdc = node[p][i].allocation_usdc
      /\ moved.dependency_mask = node[p][i].dependency_mask
      /\ moved.status \in ActiveStatus /\ moved.agent \in Agents
  BY <1>1 DEF NodeAccount, ActiveStatus
<1>3. /\ node' = [node EXCEPT ![p][i] = moved]
      /\ UNCHANGED <<pipeline_config, pipeline, vault, wallets, left_behind>>
      /\ node[p][i].status \in OpenStatus
  BY DEF ClaimNode, MayClaim, OpenStatus
<1> HIDE DEF moved
<1> QED
  BY <1>2, <1>3, MoveWorked

\* submit_completion and dispute_node.
LEMMA ReviewWorked ==
  ASSUME TypeOK, NEW p \in Pipelines, NEW i \in Indexes, NEW status \in ActiveStatus,
         node[p][i].status \in ActiveStatus,
         node' = [node EXCEPT ![p][i].status = status],
         UNCHANGED <<pipeline_config, pipeline, vault, wallets, left_behind>>
  PROVE  Worked
<1> DEFINE moved == [node[p][i] EXCEPT !.status = status]
<1>1. node[p][i] \in NodeAccount
  BY DEF TypeOK
<1>2. /\ moved.allocation_usdc = node[p][i].allocation_usdc
      /\ moved.dependency_mask = node[p][i].dependency_mask
      /\ moved.status \in ActiveStatus /\ moved.agent = node[p][i].agent
  BY <1>1 DEF NodeAccount
<1>3. node' = [node EXCEPT ![p][i] = moved] /\ node[p][i].status \in OpenStatus
  BY DEF TypeOK, OpenStatus
<1> HIDE DEF moved
<1> QED
  BY <1>2, <1>3, MoveWorked

LEMMA UpholdReturned ==
  ASSUME TypeOK, NEW p \in Pipelines, NEW mint, NEW i \in Indexes, NEW facilitator,
         UpholdDispute(p, i, facilitator, mint)
  PROVE  Returned(p, {i}, mint)
<1>1. {i} # {} /\ {i} \subseteq NodesWith(p, OpenStatus)
  BY DEF UpholdDispute, NodesWith, OpenStatus, ActiveStatus
<1>2. Total(Allocation(p), {i}) = node[p][i].allocation_usdc
  BY AllocationTyped, TotalSingleton
<1>3. Cardinality({i}) = 1
  BY FS_Singleton
<1>4. [node EXCEPT ![p][i].status = "Expired"] =
        [node EXCEPT ![p] =
           [j \in Indexes |-> IF j \in {i} THEN [node[p][j] EXCEPT !.status = "Expired"]
                                           ELSE node[p][j]]]
  <2>1. [node[p] EXCEPT ![i].status = "Expired"] =
           [j \in Indexes |-> IF j \in {i} THEN [node[p][j] EXCEPT !.status = "Expired"]
                                           ELSE node[p][j]]
    BY DEF TypeOK
  <2> QED
    BY <2>1
<1> QED
  BY <1>1, <1>2, <1>3, <1>4 DEF UpholdDispute, Returned

LEMMA TargetExpires ==
  ASSUME NEW p, NEW i, NEW listed
  PROVE  i \in ExpiredBy(p, i, listed)
BY DEF ExpiredBy, CascadeSet

LEMMA ExpireReturned ==
  ASSUME TypeOK, NEW p \in Pipelines, NEW mint, NEW i \in Indexes, NEW listed \in SUBSET Indexes,
         ExpireNode(p, i, listed, mint)
  PROVE  Returned(p, ExpiredBy(p, i, listed), mint)
<1> DEFINE R == ExpiredBy(p, i, listed)
<1>1. R # {} /\ R \subseteq NodesWith(p, OpenStatus)
  BY TargetExpires, ExpiredByFinite, ExpiredByPending
     DEF ExpireNode, MayExpire, NodesWith, OpenStatus, ActiveStatus
<1> QED
  BY <1>1 DEF ExpireNode, Returned

\* Every step is of one of the five kinds.
LEMMA StepKinds ==
  ASSUME TypeOK, [Next]_vars
  PROVE  \/ Worked
         \/ \E p \in Pipelines :
              \/ \E i \in Indexes, mint \in Mints : Paid(p, i, mint)
              \/ \E R \in SUBSET Indexes, mint \in Mints : Returned(p, R, mint)
              \/ \E node_configs \in NodeConfigLists : CreatePipeline(p, node_configs)
              \/ \E consumer \in Consumers, listed \in CancelLists(p), mint \in Mints :
                   CancelPipeline(p, consumer, listed, mint)
<1>1. CASE Tick \/ OperatorStep \/ UNCHANGED vars
  BY <1>1, StillWorked
<1>2. CASE \E p \in Pipelines : ConsumerStep(p)
  <2>1. ASSUME NEW p \in Pipelines, NEW i \in Indexes, NEW consumer, DisputeNode(p, i, consumer)
        PROVE  Worked
    BY <2>1, ReviewWorked DEF DisputeNode, DisputeOpen, ActiveStatus
  <2> QED
    BY <1>2, <2>1 DEF ConsumerStep
<1>3. CASE \E p \in Pipelines, i \in Indexes : FacilitatorStep(p, i)
  <2>1. PICK p \in Pipelines, i \in Indexes, facilitator \in Keys :
          \/ \E mint \in Mints : CompleteNode(p, i, facilitator, mint)
          \/ \E delta \in ScoreDeltas : SubmitCompletion(p, i, facilitator, delta)
          \/ \E mint \in Mints : UpholdDispute(p, i, facilitator, mint)
          \/ \E mint \in Mints : RejectDispute(p, i, facilitator, mint)
    BY <1>3 DEF FacilitatorStep
  <2>2. CASE \E mint \in Mints : CompleteNode(p, i, facilitator, mint)
    BY <2>2 DEF CompleteNode, ActiveStatus, Paid
  <2>3. CASE \E delta \in ScoreDeltas : SubmitCompletion(p, i, facilitator, delta)
    BY <2>3, ReviewWorked DEF SubmitCompletion, ActiveStatus
  <2>4. CASE \E mint \in Mints : UpholdDispute(p, i, facilitator, mint)
    <3>1. {i} \in SUBSET Indexes
      OBVIOUS
    <3> QED
      BY <2>4, <3>1, UpholdReturned
  <2>5. CASE \E mint \in Mints : RejectDispute(p, i, facilitator, mint)
    BY <2>5 DEF RejectDispute, ActiveStatus, Paid
  <2> QED
    BY <2>1, <2>2, <2>3, <2>4, <2>5
<1>4. CASE \E p \in Pipelines, i \in Indexes, agent \in Agents, tier \in Tiers :
             ClaimNode(p, i, agent, tier)
  BY <1>4, ClaimWorked
<1>5. CASE \E p \in Pipelines, i \in Indexes, mint \in Mints : FinalizeNode(p, i, mint)
  BY <1>5 DEF FinalizeNode, MayFinalize, ActiveStatus, Paid
<1>6. CASE \E p \in Pipelines, i \in Indexes, listed \in SUBSET Indexes, mint \in Mints :
             ExpireNode(p, i, listed, mint)
  BY <1>6, ExpireReturned, ExpiredByFinite
<1> QED
  BY <1>1, <1>2, <1>3, <1>4, <1>5, <1>6 DEF Next

(***************************************************************************)
(* What a payment and a refund do to the nodes                              *)
(***************************************************************************)
Retired(p, R, fate) ==
  /\ R \subseteq NodesWith(p, OpenStatus)
  /\ \A q \in Pipelines, j \in Indexes :
       /\ node'[q][j].allocation_usdc = node[q][j].allocation_usdc
       /\ node'[q][j].dependency_mask = node[q][j].dependency_mask
       /\ node'[q][j].agent = node[q][j].agent
       /\ node'[q][j].status = IF q = p /\ j \in R THEN fate ELSE node[q][j].status

LEMMA PaidRetired ==
  ASSUME TypeOK, NEW p \in Pipelines, NEW mint, NEW i \in Indexes, Paid(p, i, mint)
  PROVE  Retired(p, {i}, "Settled")
<1>1. {i} \subseteq NodesWith(p, OpenStatus)
  BY DEF Paid, NodesWith, OpenStatus
<1>2. node[p][i] \in NodeAccount
  BY DEF TypeOK
<1> DEFINE moved == [node[p][i] EXCEPT !.status = "Settled"]
<1>3. \A q \in Pipelines, j \in Indexes :
        node'[q][j] = IF q = p /\ j = i THEN moved ELSE node[q][j]
  BY DEF Paid, Settle, TypeOK
<1>4. /\ moved.allocation_usdc = node[p][i].allocation_usdc
      /\ moved.dependency_mask = node[p][i].dependency_mask
      /\ moved.agent = node[p][i].agent /\ moved.status = "Settled"
  BY <1>2 DEF NodeAccount
<1> HIDE DEF moved
<1> QED
  BY <1>1, <1>3, <1>4 DEF Retired

LEMMA ReturnedRetired ==
  ASSUME TypeOK, NEW p \in Pipelines, NEW mint, NEW R \in SUBSET Indexes, Returned(p, R, mint)
  PROVE  Retired(p, R, "Expired")
<1>1. R \subseteq NodesWith(p, OpenStatus)
  BY DEF Returned
<1>2. \A q \in Pipelines, j \in Indexes :
        node'[q][j] = IF q = p /\ j \in R THEN [node[q][j] EXCEPT !.status = "Expired"]
                                          ELSE node[q][j]
  BY DEF Returned, TypeOK
<1>3. \A q \in Pipelines, j \in Indexes :
        /\ [node[q][j] EXCEPT !.status = "Expired"].allocation_usdc = node[q][j].allocation_usdc
        /\ [node[q][j] EXCEPT !.status = "Expired"].dependency_mask = node[q][j].dependency_mask
        /\ [node[q][j] EXCEPT !.status = "Expired"].agent = node[q][j].agent
        /\ [node[q][j] EXCEPT !.status = "Expired"].status = "Expired"
  <2> TAKE q \in Pipelines, j \in Indexes
  <2>1. node[q][j] \in NodeAccount
    BY DEF TypeOK
  <2> QED
    BY <2>1 DEF NodeAccount
<1>4. ASSUME NEW q \in Pipelines, NEW j \in Indexes
      PROVE  /\ node'[q][j].allocation_usdc = node[q][j].allocation_usdc
             /\ node'[q][j].dependency_mask = node[q][j].dependency_mask
             /\ node'[q][j].agent = node[q][j].agent
             /\ node'[q][j].status =
                  IF q = p /\ j \in R THEN "Expired" ELSE node[q][j].status
  <2>1. CASE q = p /\ j \in R
    <3>1. node'[q][j] = [node[q][j] EXCEPT !.status = "Expired"]
      BY <1>2, <2>1
    <3> QED
      BY <1>3, <2>1, <3>1
  <2>2. CASE ~(q = p /\ j \in R)
    BY <1>2, <2>2
  <2> QED
    BY <2>1, <2>2
<1> QED
  BY <1>1, <1>4 DEF Retired

Settled(p) == NodesWith(p, {"Settled"})
Expired(p) == NodesWith(p, {"Expired"})
Closed(p) == NodesWith(p, {"Closed"})

\* A retired node leaves the open ones and joins those of its fate.
LEMMA RetiredNodes ==
  ASSUME NEW p \in Pipelines, NEW R, NEW fate \in {"Settled", "Expired"}, Retired(p, R, fate)
  PROVE  /\ NodesWith(p, OpenStatus)' = NodesWith(p, OpenStatus) \ R
         /\ Settled(p)' = IF fate = "Settled" THEN Settled(p) \cup R ELSE Settled(p)
         /\ Expired(p)' = IF fate = "Expired" THEN Expired(p) \cup R ELSE Expired(p)
         /\ Closed(p)' = Closed(p)
         /\ ExistingNodes(p)' = ExistingNodes(p)
         /\ R \subseteq ExistingNodes(p) \ (Settled(p) \cup Expired(p))
<1>1. R \subseteq Indexes /\ \A j \in R : node[p][j].status \in OpenStatus
  BY DEF Retired, NodesWith
<1>2. \A j \in Indexes : node'[p][j].status = IF j \in R THEN fate ELSE node[p][j].status
  BY DEF Retired
<1>3. NodesWith(p, OpenStatus)' = NodesWith(p, OpenStatus) \ R
  BY <1>1, <1>2 DEF NodesWith, OpenStatus, ActiveStatus
<1>4. /\ Settled(p)' = IF fate = "Settled" THEN Settled(p) \cup R ELSE Settled(p)
      /\ Expired(p)' = IF fate = "Expired" THEN Expired(p) \cup R ELSE Expired(p)
      /\ Closed(p)' = Closed(p)
  BY <1>1, <1>2 DEF NodesWith, OpenStatus, ActiveStatus, Settled, Expired, Closed
<1>5. ExistingNodes(p)' = ExistingNodes(p)
  BY <1>1, <1>2 DEF ExistingNodes, NodeExists, OpenStatus, ActiveStatus
<1>6. R \subseteq ExistingNodes(p) \ (Settled(p) \cup Expired(p))
  BY <1>1 DEF ExistingNodes, NodeExists, NodesWith, OpenStatus, ActiveStatus, Settled, Expired
<1> QED
  BY <1>3, <1>4, <1>5, <1>6

(***************************************************************************)
(* The summary a pipeline account keeps.  PipelineSummarisesNodes alone is  *)
(* not inductive: a pipeline that is absent or cancelled must have no node  *)
(* left, or creating and settling would count the ones it has, and any      *)
(* other must have one, or an empty cancel would close none.                *)
(***************************************************************************)
Summarises(pl, settled, expired, closed, existing) ==
  /\ pl.settled_mask = settled
  /\ pl.nodes_settled = Cardinality(settled)
  /\ pl.nodes_expired = Cardinality(expired)
  /\ pl.status # "Cancelled" => pl.total_nodes = Cardinality(existing)
  /\ pl.status = "Completed" <=> settled # {} /\ settled = existing
  /\ pl.status = "PartiallyRefunded" <=> expired # {}
  /\ pl.status = "Cancelled" <=> closed # {}
  /\ pl.status \in {"Absent", "Cancelled"} <=> existing = {}

Summary(p) == Summarises(pipeline[p], Settled(p), Expired(p), Closed(p), ExistingNodes(p))

SummaryInv == \A p \in Pipelines : Summary(p)

LEMMA SummaryInvImplies == SummaryInv => PipelineSummarisesNodes
BY DEF SummaryInv, Summary, Summarises, PipelineSummarisesNodes, Settled, Expired, Closed

\* A node is of one kind, and there are finitely many.
LEMMA NodeKinds ==
  ASSUME NEW p
  PROVE  /\ Settled(p) \subseteq ExistingNodes(p) /\ Expired(p) \subseteq ExistingNodes(p)
         /\ Settled(p) \cap Expired(p) = {}
         /\ IsFiniteSet(ExistingNodes(p))
         /\ NodesWith(p, OpenStatus) \subseteq ExistingNodes(p) \ (Settled(p) \cup Expired(p))
<1>1. Settled(p) \subseteq ExistingNodes(p) /\ Expired(p) \subseteq ExistingNodes(p)
  BY DEF Settled, Expired, NodesWith, ExistingNodes, NodeExists
<1>2. Settled(p) \cap Expired(p) = {}
  BY DEF Settled, Expired, NodesWith
<1>3. IsFiniteSet(ExistingNodes(p))
  BY IndexesFinite, FS_Subset DEF ExistingNodes
<1>4. NodesWith(p, OpenStatus) \subseteq ExistingNodes(p) \ (Settled(p) \cup Expired(p))
  BY DEF Settled, Expired, NodesWith, ExistingNodes, NodeExists, OpenStatus, ActiveStatus
<1> QED
  BY <1>1, <1>2, <1>3, <1>4

\* Counting keeps the summary true: the tests on the counters find out exactly
\* when the last node is settled, or the last of those that will be.
LEMMA CountSettledSummarises ==
  ASSUME NEW pl \in PipelineAccount, NEW S, NEW X, NEW C, NEW E,
         IsFiniteSet(E), S \subseteq E, X \subseteq E, S \cap X = {},
         NEW i \in E \ (S \cup X), Summarises(pl, S, X, C, E)
  PROVE  Summarises(CountSettled(pl, i), S \cup {i}, X, C, E)
<1> DEFINE T == S \cup {i}
           status == StatusAfterSettle(pl)
           after == CountSettled(pl, i)
<1>1. /\ IsFiniteSet(S) /\ IsFiniteSet(X) /\ IsFiniteSet(T) /\ IsFiniteSet(T \cup X)
      /\ T \subseteq E /\ T \cup X \subseteq E /\ T \cap X = {}
  BY FS_Subset
<1>2. /\ Cardinality(S) \in Nat /\ Cardinality(X) \in Nat /\ Cardinality(E) \in Nat
      /\ Cardinality(T) \in Nat
  BY <1>1, FS_CardinalityType
<1>3. Cardinality(T) = Cardinality(S) + 1
  BY <1>1, FS_AddElement
<1>4. Cardinality(T \cup X) = Cardinality(T) + Cardinality(X)
  <2>1. Cardinality(T \cap X) = 0
    BY <1>1, FS_EmptySet
  <2> HIDE DEF T
  <2>2. Cardinality(T \cup X) = Cardinality(T) + Cardinality(X) - Cardinality(T \cap X)
    BY <1>1, FS_Union
  <2> QED
    BY <1>2, <2>1, <2>2
<1>5. T = E <=> Cardinality(T) = Cardinality(E)
  BY <1>1, FS_Subset
<1>6. X = {} <=> Cardinality(X) = 0
  BY <1>1, FS_EmptySet
<1>7. /\ after.status = status /\ after.total_nodes = pl.total_nodes
      /\ after.nodes_settled = pl.nodes_settled + 1
      /\ after.nodes_expired = pl.nodes_expired
      /\ after.settled_mask = pl.settled_mask \cup {i}
  BY DEF CountSettled, PipelineAccount
<1>8. /\ pl.status \notin {"Absent", "Cancelled", "Completed"} /\ E # {}
      /\ pl.total_nodes = Cardinality(E)
  BY DEF Summarises
<1>9. T = E => X = {}
  BY <1>1
<1> DEFINE nT == Cardinality(T)
           nX == Cardinality(X)
           nE == Cardinality(E)
<1>10. nT \in Nat /\ nX \in Nat /\ nE \in Nat
  BY <1>2
<1>11. status = IF nT = nE THEN "Completed"
                ELSE IF nT + nX = nE THEN "PartiallyRefunded" ELSE pl.status
  BY <1>3, <1>8 DEF StatusAfterSettle, Summarises
<1>12. status = "Completed" <=> T = E
  BY <1>5, <1>8, <1>11
<1>13. status = "PartiallyRefunded" <=> X # {}
  <2>1. CASE nT = nE
    BY <1>5, <1>9, <1>11, <2>1
  <2>2. CASE nT # nE /\ nT + nX = nE
    <3>1. nX # 0
      BY <1>10, <2>2
    <3> QED
      BY <1>6, <1>11, <2>2, <3>1
  <2>3. CASE nT # nE /\ nT + nX # nE
    BY <1>11, <2>3 DEF Summarises
  <2> QED
    BY <2>1, <2>2, <2>3
<1>14. status # "Cancelled" /\ status # "Absent" /\ C = {}
  BY <1>8, <1>11 DEF Summarises
<1>15. T # {}
  OBVIOUS
<1>16. /\ after.settled_mask = T /\ after.nodes_settled = Cardinality(T)
       /\ after.nodes_expired = Cardinality(X) /\ after.total_nodes = Cardinality(E)
  BY <1>3, <1>7, <1>8 DEF Summarises
<1> HIDE DEF T, status, after
<1>17. Summarises(after, T, X, C, E)
  BY <1>7, <1>8, <1>12, <1>13, <1>14, <1>15, <1>16 DEF Summarises
<1> QED
  BY <1>17 DEF T, after

LEMMA CountExpiredSummarises ==
  ASSUME NEW pl \in PipelineAccount, NEW S, NEW X, NEW C, NEW E,
         IsFiniteSet(E), S \subseteq E, X \subseteq E, S \cap X = {},
         NEW R \in SUBSET (E \ (S \cup X)), R # {}, Summarises(pl, S, X, C, E)
  PROVE  Summarises(CountExpired(pl, Cardinality(R)), S, X \cup R, C, E)
<1> DEFINE Y == X \cup R
           after == CountExpired(pl, Cardinality(R))
<1>1. IsFiniteSet(X) /\ IsFiniteSet(R) /\ X \cap R = {} /\ S # E /\ Y # {}
  BY FS_Subset
<1>2. Cardinality(X) \in Nat /\ Cardinality(R) \in Nat
  BY <1>1, FS_CardinalityType
<1>3. Cardinality(Y) = Cardinality(X) + Cardinality(R)
  <2>1. Cardinality(X \cap R) = 0
    BY <1>1, FS_EmptySet
  <2>2. Cardinality(X \cup R) = Cardinality(X) + Cardinality(R) - Cardinality(X \cap R)
    BY <1>1, FS_Union
  <2> QED
    BY <1>2, <2>1, <2>2
<1> DEFINE count == Cardinality(R)
<1> HIDE DEF count
<1>4. LET counted == CountExpired(pl, count) IN
      /\ counted.status = "PartiallyRefunded" /\ counted.total_nodes = pl.total_nodes
      /\ counted.nodes_settled = pl.nodes_settled
      /\ counted.nodes_expired = pl.nodes_expired + count
      /\ counted.settled_mask = pl.settled_mask
  BY DEF CountExpired, PipelineAccount
<1>5. /\ after.status = "PartiallyRefunded" /\ after.total_nodes = pl.total_nodes
      /\ after.nodes_settled = pl.nodes_settled
      /\ after.nodes_expired = pl.nodes_expired + Cardinality(R)
      /\ after.settled_mask = pl.settled_mask
  BY <1>4 DEF count
<1>6. pl.status \notin {"Absent", "Cancelled", "Completed"} /\ E # {} /\ C = {}
  BY <1>1 DEF Summarises
<1> HIDE DEF Y, after
<1>7. Summarises(after, S, Y, C, E)
  BY <1>1, <1>3, <1>5, <1>6 DEF Summarises
<1> QED
  BY <1>7 DEF Y, after

(***************************************************************************)
(* Other pipelines, and the nodes of a pipeline, step by step               *)
(***************************************************************************)
Elsewhere(p) ==
  \A q \in Pipelines \ {p} :
    /\ pipeline'[q] = pipeline[q] /\ node'[q] = node[q]
    /\ vault'[q] = vault[q] /\ left_behind'[q] = left_behind[q]

LEMMA StepsElsewhere ==
  ASSUME TypeOK, NEW p \in Pipelines
  PROVE  /\ \A i, mint : i \in Indexes /\ Paid(p, i, mint) => Elsewhere(p)
         /\ \A R, mint : Returned(p, R, mint) => Elsewhere(p)
         /\ \A node_configs : CreatePipeline(p, node_configs) => Elsewhere(p)
         /\ \A consumer, listed, mint : CancelPipeline(p, consumer, listed, mint) => Elsewhere(p)
<1>1. \A i, mint : i \in Indexes /\ Paid(p, i, mint) => Elsewhere(p)
  BY DEF Paid, Settle, LeftBehind, Elsewhere, TypeOK
<1>2. \A R, mint : Returned(p, R, mint) => Elsewhere(p)
  BY DEF Returned, Refund, LeftBehind, Elsewhere, TypeOK
<1>3. \A node_configs : CreatePipeline(p, node_configs) => Elsewhere(p)
  BY DEF CreatePipeline, Elsewhere, TypeOK
<1>4. \A consumer, listed, mint : CancelPipeline(p, consumer, listed, mint) => Elsewhere(p)
  BY DEF CancelPipeline, Refund, LeftBehind, Elsewhere, TypeOK
<1> QED
  BY <1>1, <1>2, <1>3, <1>4

LEMMA WorkedNodes ==
  ASSUME Worked, NEW p \in Pipelines
  PROVE  /\ Settled(p)' = Settled(p) /\ Expired(p)' = Expired(p) /\ Closed(p)' = Closed(p)
         /\ ExistingNodes(p)' = ExistingNodes(p)
         /\ NodesWith(p, OpenStatus)' = NodesWith(p, OpenStatus)
<1>1. \A i \in Indexes :
        \/ node'[p][i].status = node[p][i].status
        \/ node[p][i].status \in OpenStatus /\ node'[p][i].status \in OpenStatus
  BY DEF Worked, OpenStatus
<1> QED
  BY <1>1 DEF Settled, Expired, Closed, NodesWith, ExistingNodes, NodeExists, OpenStatus,
              ActiveStatus

LEMMA ElsewhereNodes ==
  ASSUME NEW p \in Pipelines, Elsewhere(p), NEW q \in Pipelines \ {p}
  PROVE  /\ Settled(q)' = Settled(q) /\ Expired(q)' = Expired(q) /\ Closed(q)' = Closed(q)
         /\ ExistingNodes(q)' = ExistingNodes(q)
         /\ NodesWith(q, OpenStatus)' = NodesWith(q, OpenStatus)
         /\ Allocation(q)' = Allocation(q)
         /\ pipeline'[q] = pipeline[q] /\ vault'[q] = vault[q]
         /\ left_behind'[q] = left_behind[q]
BY DEF Elsewhere, Settled, Expired, Closed, NodesWith, ExistingNodes, NodeExists, Allocation

LEMMA PendingNodeFields ==
  /\ \A config : /\ PendingNode(config).status = "Pending"
                 /\ PendingNode(config).allocation_usdc = config.allocation_usdc
                 /\ PendingNode(config).dependency_mask = config.dependency_mask
                 /\ PendingNode(config).agent = Nobody
  /\ \A status : /\ NoNode(status).status = status
                 /\ NoNode(status).allocation_usdc = 0
                 /\ NoNode(status).agent = Nobody
BY DEF PendingNode, NoNode

\* create_pipeline makes nodes 0 to n - 1, all pending.
LEMMA CreatedNodes ==
  ASSUME TypeOK, NEW p \in Pipelines, NEW node_configs \in NodeConfigLists,
         CreatePipeline(p, node_configs)
  PROVE  LET n == Len(node_configs) IN
         /\ n \in Nat /\ n >= 1 /\ n <= MAX_NODES
         /\ Settled(p)' = {} /\ Expired(p)' = {} /\ Closed(p)' = {}
         /\ ExistingNodes(p)' = 0..(n - 1)
         /\ NodesWith(p, OpenStatus)' = 0..(n - 1)
         /\ 0..(n - 1) \subseteq Indexes
         /\ \A i \in Indexes : node'[p][i] = IF i < n THEN PendingNode(node_configs[i + 1])
                                                      ELSE NoNode("Absent")
<1> DEFINE n == Len(node_configs)
<1>1. n \in Nat
  BY ArgumentsAssumption
<1>2. n >= 1 /\ n <= MAX_NODES
  BY DEF CreatePipeline
<1>3. \A i \in Indexes : node'[p][i] = IF i < n THEN PendingNode(node_configs[i + 1])
                                                ELSE NoNode("Absent")
  BY DEF CreatePipeline, TypeOK
<1> HIDE DEF n
<1>4. \A i \in Indexes : node'[p][i].status = IF i < n THEN "Pending" ELSE "Absent"
  BY <1>3, PendingNodeFields
<1>5. /\ 0..(n - 1) \subseteq Indexes
      /\ \A i \in Indexes : i < n <=> i \in 0..(n - 1)
  BY <1>1, <1>2, ProgramConstants DEF Indexes
<1>6. Settled(p)' = {} /\ Expired(p)' = {} /\ Closed(p)' = {}
  BY <1>4 DEF Settled, Expired, Closed, NodesWith
<1>7. ExistingNodes(p)' = 0..(n - 1)
  BY <1>4, <1>5 DEF ExistingNodes, NodeExists
<1>8. NodesWith(p, OpenStatus)' = 0..(n - 1)
  BY <1>4, <1>5 DEF NodesWith, OpenStatus, ActiveStatus
<1> QED
  BY <1>1, <1>2, <1>3, <1>5, <1>6, <1>7, <1>8 DEF n

\* cancel_pipeline closes all nodes there are, and all of them are pending.
LEMMA CancelledNodes ==
  ASSUME TypeOK, SummaryInv, CancelListsEveryNode, NEW p \in Pipelines, NEW mint, NEW consumer,
         NEW listed \in CancelLists(p), CancelPipeline(p, consumer, listed, mint)
  PROVE  /\ NodesWith(p, OpenStatus) = ExistingNodes(p)
         /\ Settled(p) = {} /\ Expired(p) = {} /\ ExistingNodes(p) # {}
         /\ Settled(p)' = {} /\ Expired(p)' = {}
         /\ Closed(p)' # {} /\ ExistingNodes(p)' = {}
         /\ NodesWith(p, OpenStatus)' = {}
         /\ \A i \in Indexes : node'[p][i] = IF i \in ExistingNodes(p) THEN NoNode("Closed")
                                                                       ELSE node[p][i]
<1>1. listed = ExistingNodes(p)
  BY DEF CancelLists, ExistingNodes
<1>2. \A i \in ExistingNodes(p) : node[p][i].status = "Pending"
  BY <1>1 DEF CancelPipeline
<1>3. \A i \in Indexes : node'[p][i] = IF i \in ExistingNodes(p) THEN NoNode("Closed")
                                                                 ELSE node[p][i]
  BY <1>1 DEF CancelPipeline, TypeOK
<1>4. ExistingNodes(p) # {}
  BY DEF CancelPipeline, SummaryInv, Summary, Summarises
<1>5. \A i \in Indexes : i \in ExistingNodes(p) <=> node[p][i].status \notin {"Absent", "Closed"}
  BY DEF ExistingNodes, NodeExists
<1>6. \A i \in Indexes : node'[p][i].status = IF i \in ExistingNodes(p) THEN "Closed"
                                                                       ELSE node[p][i].status
  BY <1>3 DEF NoNode
<1>7. ExistingNodes(p) \subseteq Indexes
  BY DEF ExistingNodes
<1>8. NodesWith(p, OpenStatus) = ExistingNodes(p) /\ Settled(p) = {} /\ Expired(p) = {}
  BY <1>2, <1>5, <1>7 DEF NodesWith, Settled, Expired, OpenStatus, ActiveStatus
<1>9. Settled(p)' = {} /\ Expired(p)' = {} /\ NodesWith(p, OpenStatus)' = {}
  BY <1>5, <1>6 DEF NodesWith, Settled, Expired, OpenStatus, ActiveStatus
<1>10. Closed(p)' # {}
  BY <1>4, <1>6, <1>7 DEF NodesWith, Closed
<1>11. ExistingNodes(p)' = {}
  <2>1. \A i \in Indexes : node'[p][i].status \in {"Absent", "Closed"}
    BY <1>5, <1>6
  <2> QED
    BY <2>1 DEF ExistingNodes, NodeExists
<1> QED
  BY <1>3, <1>4, <1>8, <1>9, <1>10, <1>11

(***************************************************************************)
(* The summaries stay true                                                  *)
(***************************************************************************)
LEMMA ElsewhereSummary ==
  ASSUME SummaryInv, NEW p \in Pipelines, Elsewhere(p), Summary(p)'
  PROVE  SummaryInv'
<1> SUFFICES ASSUME NEW q \in Pipelines \ {p} PROVE Summary(q)'
  BY DEF SummaryInv
<1>1. Summary(q)
  BY DEF SummaryInv
<1> QED
  BY <1>1, ElsewhereNodes DEF Summary

LEMMA InitSummary == Init => SummaryInv
<1> SUFFICES ASSUME Init, NEW p \in Pipelines PROVE Summary(p)
  BY DEF SummaryInv
<1>1. pipeline[p] = NoPipeline
  BY DEF Init
<1>2. \A i \in Indexes : node[p][i].status = "Absent"
  BY DEF Init, NoNode
<1>3. Settled(p) = {} /\ Expired(p) = {} /\ Closed(p) = {} /\ ExistingNodes(p) = {}
  BY <1>2 DEF Settled, Expired, Closed, NodesWith, ExistingNodes, NodeExists
<1> QED
  BY <1>1, <1>3, FS_EmptySet DEF Summary, Summarises, NoPipeline

LEMMA WorkedSummary ==
  ASSUME SummaryInv, Worked
  PROVE  SummaryInv'
<1> SUFFICES ASSUME NEW p \in Pipelines PROVE Summary(p)'
  BY DEF SummaryInv
<1>1. Summary(p) /\ pipeline' = pipeline
  BY DEF SummaryInv, Worked
<1> QED
  BY <1>1, WorkedNodes DEF Summary

LEMMA PaidSummary ==
  ASSUME TypeOK, SummaryInv, NEW p \in Pipelines, NEW mint, NEW i \in Indexes, Paid(p, i, mint)
  PROVE  SummaryInv'
<1>1. /\ Settled(p)' = Settled(p) \cup {i} /\ Expired(p)' = Expired(p)
      /\ Closed(p)' = Closed(p) /\ ExistingNodes(p)' = ExistingNodes(p)
      /\ i \in ExistingNodes(p) \ (Settled(p) \cup Expired(p))
  BY PaidRetired, RetiredNodes
<1>2. pipeline[p] \in PipelineAccount /\ pipeline'[p] = CountSettled(pipeline[p], i)
  BY DEF Paid, Settle, TypeOK
<1>3. Summary(p)
  BY DEF SummaryInv
<1>4. Summary(p)'
  BY <1>1, <1>2, <1>3, NodeKinds, CountSettledSummarises DEF Summary
<1> QED
  BY <1>4, StepsElsewhere, ElsewhereSummary

LEMMA ReturnedSummary ==
  ASSUME TypeOK, SummaryInv, NEW p \in Pipelines, NEW mint, NEW R \in SUBSET Indexes, Returned(p, R, mint)
  PROVE  SummaryInv'
<1>1. /\ Settled(p)' = Settled(p) /\ Expired(p)' = Expired(p) \cup R
      /\ Closed(p)' = Closed(p) /\ ExistingNodes(p)' = ExistingNodes(p)
      /\ R \subseteq ExistingNodes(p) \ (Settled(p) \cup Expired(p))
  BY ReturnedRetired, RetiredNodes
<1>2. /\ pipeline[p] \in PipelineAccount /\ R # {}
      /\ pipeline'[p] = CountExpired(pipeline[p], Cardinality(R))
  BY DEF Returned, TypeOK
<1>3. Summary(p)
  BY DEF SummaryInv
<1>4. Summary(p)'
  BY <1>1, <1>2, <1>3, NodeKinds, CountExpiredSummarises DEF Summary
<1> QED
  BY <1>4, StepsElsewhere, ElsewhereSummary

LEMMA CreatedSummary ==
  ASSUME TypeOK, SummaryInv, NEW p \in Pipelines, NEW node_configs \in NodeConfigLists,
         CreatePipeline(p, node_configs)
  PROVE  SummaryInv'
<1> DEFINE n == Len(node_configs)
<1>1. /\ n \in Nat /\ n >= 1
      /\ Settled(p)' = {} /\ Expired(p)' = {} /\ Closed(p)' = {}
      /\ ExistingNodes(p)' = 0..(n - 1)
  BY CreatedNodes
<1>2. /\ pipeline'[p].status = "Active" /\ pipeline'[p].total_nodes = n
      /\ pipeline'[p].nodes_settled = 0 /\ pipeline'[p].nodes_expired = 0
      /\ pipeline'[p].settled_mask = {}
  BY DEF CreatePipeline, TypeOK
<1> HIDE DEF n
<1>3. Cardinality(0..(n - 1)) = n /\ 0..(n - 1) # {}
  <2>1. 0 \in Int /\ n - 1 \in Int /\ ~(0 > n - 1)
    BY <1>1
  <2>2. Cardinality(0..(n - 1)) = (n - 1) - 0 + 1
    BY <2>1, FS_Interval
  <2>3. (n - 1) - 0 + 1 = n /\ 0 \in 0..(n - 1)
    BY <1>1
  <2> QED
    BY <2>2, <2>3
<1>4. Summary(p)'
  BY <1>1, <1>2, <1>3, FS_EmptySet DEF Summary, Summarises
<1> QED
  BY <1>4, StepsElsewhere, ElsewhereSummary

LEMMA CancelledSummary ==
  ASSUME TypeOK, SummaryInv, CancelListsEveryNode, NEW p \in Pipelines, NEW mint, NEW consumer,
         NEW listed \in CancelLists(p), CancelPipeline(p, consumer, listed, mint)
  PROVE  SummaryInv'
<1>1. /\ Settled(p) = {} /\ Expired(p) = {}
      /\ Settled(p)' = {} /\ Expired(p)' = {} /\ Closed(p)' # {} /\ ExistingNodes(p)' = {}
  BY CancelledNodes
<1>2. /\ pipeline'[p].status = "Cancelled"
      /\ pipeline'[p].nodes_settled = pipeline[p].nodes_settled
      /\ pipeline'[p].nodes_expired = pipeline[p].nodes_expired
      /\ pipeline'[p].settled_mask = pipeline[p].settled_mask
  <2>1. pipeline[p] \in PipelineAccount
    BY DEF TypeOK
  <2> QED
    BY <2>1 DEF CancelPipeline, TypeOK, PipelineAccount
<1>3. Summary(p)
  BY DEF SummaryInv
<1>4. Summary(p)'
  BY <1>1, <1>2, <1>3 DEF Summary, Summarises
<1> QED
  BY <1>4, StepsElsewhere, ElsewhereSummary

LEMMA SummaryPreserved ==
  ASSUME CancelListsEveryNode
  PROVE  TypeOK /\ SummaryInv /\ [Next]_vars => SummaryInv'
BY StepKinds, WorkedSummary, PaidSummary, ReturnedSummary, CreatedSummary, CancelledSummary

\* The counters, the mask and the status of every pipeline account agree with its
\* node accounts, after any sequence of settlements, refunds and cancels.
THEOREM SummaryCorrect ==
  ASSUME CancelListsEveryNode
  PROVE  Spec => []PipelineSummarisesNodes
<1>1. Init => TypeOK /\ SummaryInv
  BY InitTyped, InitSummary
<1>2. TypeOK /\ SummaryInv /\ [Next]_vars => TypeOK' /\ SummaryInv'
  BY TypePreserved, SummaryPreserved
<1>3. SummaryInv => PipelineSummarisesNodes
  BY SummaryInvImplies
<1> QED
  BY <1>1, <1>2, <1>3, PTL DEF Spec

(***************************************************************************)
(* The vaults.  VaultBacksOpenNodes alone is not inductive: a pipeline that *)
(* is created has nodes only at the first indexes, so nothing may have been *)
(* left behind at an index that has no node.                                *)
(***************************************************************************)
OpenNodes(p) == NodesWith(p, OpenStatus)
Backed(p) == vault[p] = Total(Locked(p), Indexes)
AbsentHoldNothing ==
  \A p \in Pipelines, i \in Indexes : node[p][i].status = "Absent" => left_behind[p][i] = 0

\* Open nodes of a pipeline end with a transfer in a mint.
Leaving(p, R, mint) ==
  /\ R \subseteq OpenNodes(p)
  /\ \A j \in R : node'[p][j].status \in NodeStatus \ (OpenStatus \cup {"Absent"})
  /\ \A j \in Indexes \ R : /\ node'[p][j].status = node[p][j].status
                            /\ node'[p][j].allocation_usdc = node[p][j].allocation_usdc
  /\ left_behind' = LeftBehind(p, R, mint)

LEMMA BackedPipelines == VaultBacksOpenNodes <=> \A p \in Pipelines : Backed(p)
BY DEF VaultBacksOpenNodes, Backed

LEMMA ElsewhereBacked ==
  ASSUME VaultBacksOpenNodes, NEW p \in Pipelines, Elsewhere(p), Backed(p)'
  PROVE  VaultBacksOpenNodes'
<1> SUFFICES ASSUME NEW q \in Pipelines \ {p} PROVE Backed(q)'
  BY DEF VaultBacksOpenNodes, Backed
<1>1. Backed(q)
  BY DEF VaultBacksOpenNodes, Backed
<1>2. Locked(q)' = Locked(q) /\ vault'[q] = vault[q]
  BY DEF Elsewhere, Locked, Allocation
<1> QED
  BY <1>1, <1>2 DEF Backed

LEMMA InitBacked == Init => VaultBacksOpenNodes /\ AbsentHoldNothing
<1> SUFFICES ASSUME Init PROVE VaultBacksOpenNodes /\ AbsentHoldNothing
  OBVIOUS
<1>1. AbsentHoldNothing
  BY DEF Init, AbsentHoldNothing
<1>2. ASSUME NEW p \in Pipelines PROVE Backed(p)
  <2>1. \A i \in Indexes : Locked(p)[i] = 0
    BY DEF Init, Locked, NoNode, OpenStatus, ActiveStatus
  <2>2. Total(Locked(p), Indexes) = 0
    BY <2>1, IndexesFinite, TotalZero
  <2> QED
    BY <2>2 DEF Init, Backed
<1> QED
  BY <1>1, <1>2, BackedPipelines

LEMMA WorkedBacked ==
  ASSUME VaultBacksOpenNodes, AbsentHoldNothing, Worked
  PROVE  VaultBacksOpenNodes' /\ AbsentHoldNothing'
<1>1. \A p \in Pipelines, i \in Indexes :
        /\ node'[p][i].allocation_usdc = node[p][i].allocation_usdc
        /\ node'[p][i].status \in OpenStatus <=> node[p][i].status \in OpenStatus
        /\ node'[p][i].status = "Absent" => node[p][i].status = "Absent"
  BY DEF Worked, OpenStatus, ActiveStatus
<1>2. vault' = vault /\ left_behind' = left_behind
  BY DEF Worked
<1>3. \A p \in Pipelines : Locked(p)' = Locked(p)
  BY <1>1, <1>2 DEF Locked, Allocation
<1> QED
  BY <1>1, <1>2, <1>3 DEF VaultBacksOpenNodes, AbsentHoldNothing

\* A row of amounts some of which leave with a transfer in a mint.
LEMMA LeavingRow ==
  ASSUME NEW p, NEW mint, NEW R \in SUBSET Indexes, NEW f, NEW g, NEW h,
         \A j \in R : h[j] \in Nat /\ f[j] = h[j],
         \A j \in Indexes : g[j] = IF j \in R THEN h[j] - OwnMint(p, mint, h[j]) ELSE f[j]
  PROVE  /\ Total(g, Indexes) = Total(f, Indexes) - OwnMint(p, mint, Total(h, R))
         /\ Total(h, R) \in Nat /\ Total(f, Indexes) \in Nat
         /\ Total(h, R) <= Total(f, Indexes)
<1>1. /\ IsFiniteSet(Indexes) /\ IsFiniteSet(R) /\ IsFiniteSet(Indexes \ R)
      /\ R \cap (Indexes \ R) = {} /\ Indexes = R \cup (Indexes \ R)
  BY IndexesFinite, FS_Subset
<1>2. Total(f, R) = Total(h, R)
  BY TotalSame
<1>3. /\ Total(f, Indexes \ R) = Total(f, Indexes) - Total(f, R)
      /\ Total(f, R) <= Total(f, Indexes)
  BY <1>1, TotalDifference
<1>4. /\ Total(f, Indexes) \in Nat /\ Total(f, R) \in Nat
      /\ Total(g, R) \in Nat /\ Total(g, Indexes \ R) \in Nat
  BY <1>1, TotalType
<1>5. CASE mint = MintOf[p]
  <2>1. \A j \in R : g[j] = 0
    BY <1>5 DEF OwnMint
  <2>2. Total(g, R) = 0
    BY <1>1, <2>1, TotalZero
  <2>3. Total(g, Indexes \ R) = Total(f, Indexes \ R)
    BY TotalSame
  <2>4. Total(g, R \cup (Indexes \ R)) = Total(g, R) + Total(g, Indexes \ R)
    BY <1>1, TotalDisjointUnion
  <2>5. Total(g, Indexes) = Total(g, R) + Total(g, Indexes \ R)
    BY <1>1, <2>4, Zenon
  <2>6. OwnMint(p, mint, Total(h, R)) = Total(h, R)
    BY <1>5 DEF OwnMint
  <2> QED
    BY <1>2, <1>3, <1>4, <2>2, <2>3, <2>5, <2>6
<1>6. CASE mint # MintOf[p]
  <2>1. \A j \in Indexes : g[j] = f[j]
    BY <1>6 DEF OwnMint
  <2>2. Total(g, Indexes) = Total(f, Indexes)
    BY <2>1, TotalSame
  <2> QED
    BY <1>2, <1>3, <1>4, <1>6, <2>2 DEF OwnMint
<1> QED
  BY <1>5, <1>6

\* What is left behind where nodes leave.
LEMMA LeavingLeft ==
  ASSUME TypeOK, NEW p \in Pipelines, NEW mint, NEW R, left_behind' = LeftBehind(p, R, mint)
  PROVE  /\ \A j \in Indexes :
              left_behind'[p][j] = IF j \in R THEN Allocation(p)[j] - OwnMint(p, mint, Allocation(p)[j])
                                              ELSE left_behind[p][j]
         /\ \A q \in Pipelines \ {p} : left_behind'[q] = left_behind[q]
<1> DEFINE left == [j \in Indexes |->
             IF j \in R THEN Allocation(p)[j] - OwnMint(p, mint, Allocation(p)[j])
                        ELSE left_behind[p][j]]
<1>1. left_behind' = [left_behind EXCEPT ![p] = left]
  BY DEF LeftBehind, TypeOK
<1>2. \A j \in Indexes :
        left[j] = IF j \in R THEN Allocation(p)[j] - OwnMint(p, mint, Allocation(p)[j])
                             ELSE left_behind[p][j]
  OBVIOUS
<1> HIDE DEF left
<1>3. left_behind'[p] = left /\ \A q \in Pipelines \ {p} : left_behind'[q] = left_behind[q]
  BY <1>1 DEF TypeOK
<1> QED
  BY <1>2, <1>3

LEMMA LeavingLocked ==
  ASSUME TypeOK, NEW p \in Pipelines, NEW mint, NEW R, Leaving(p, R, mint)
  PROVE  /\ R \in SUBSET Indexes
         /\ \A j \in R : Locked(p)[j] = Allocation(p)[j]
         /\ \A j \in Indexes :
              Locked(p)'[j] = IF j \in R THEN Allocation(p)[j] - OwnMint(p, mint, Allocation(p)[j])
                                         ELSE Locked(p)[j]
<1>1. R \in SUBSET Indexes /\ \A j \in R : node[p][j].status \in OpenStatus
  BY DEF Leaving, OpenNodes, NodesWith
<1>2. \A j \in R : Locked(p)[j] = Allocation(p)[j]
  BY <1>1 DEF Locked
<1>3. \A j \in Indexes :
        left_behind'[p][j] = IF j \in R THEN Allocation(p)[j] - OwnMint(p, mint, Allocation(p)[j])
                                        ELSE left_behind[p][j]
  BY LeavingLeft DEF Leaving
<1>4. \A j \in R : Locked(p)'[j] = left_behind'[p][j]
  BY <1>1 DEF Locked, Leaving
<1>5. \A j \in Indexes \ R : Locked(p)'[j] = Locked(p)[j]
  <2> SUFFICES ASSUME NEW j \in Indexes \ R PROVE Locked(p)'[j] = Locked(p)[j]
    OBVIOUS
  <2>1. /\ node'[p][j].status = node[p][j].status
        /\ node'[p][j].allocation_usdc = node[p][j].allocation_usdc
    BY DEF Leaving
  <2>2. left_behind'[p][j] = left_behind[p][j]
    BY <1>3
  <2> QED
    BY <2>1, <2>2 DEF Locked, Allocation
<1> QED
  BY <1>1, <1>2, <1>3, <1>4, <1>5

\* Open nodes that leave against their total.
LEMMA LeavingBacked ==
  ASSUME TypeOK, NEW p \in Pipelines, NEW mint, NEW R, Leaving(p, R, mint), Backed(p),
         vault'[p] = vault[p] - OwnMint(p, mint, Total(Allocation(p), R))
  PROVE  Backed(p)'
<1> DEFINE f == Locked(p)
           g == Locked(p)'
           h == Allocation(p)
<1>1. /\ R \in SUBSET Indexes
      /\ \A j \in R : h[j] \in Nat /\ f[j] = h[j]
      /\ \A j \in Indexes : g[j] = IF j \in R THEN h[j] - OwnMint(p, mint, h[j]) ELSE f[j]
  BY LeavingLocked, AllocationTyped
<1> HIDE DEF f, g, h
<1>2. Total(g, Indexes) = Total(f, Indexes) - OwnMint(p, mint, Total(h, R))
  BY <1>1, LeavingRow
<1> QED
  BY <1>2 DEF Backed, f, g, h

\* Nothing left behind appears where there is no node.
LEMMA LeavingAbsent ==
  ASSUME TypeOK, AbsentHoldNothing, NEW p \in Pipelines, NEW mint, NEW R, Leaving(p, R, mint),
         Elsewhere(p)
  PROVE  AbsentHoldNothing'
<1>1. \A j \in Indexes : node'[p][j].status = "Absent" => left_behind'[p][j] = 0
  <2> SUFFICES ASSUME NEW j \in Indexes, node'[p][j].status = "Absent"
               PROVE  left_behind'[p][j] = 0
    OBVIOUS
  <2>1. j \notin R
    BY DEF Leaving
  <2>2. node[p][j].status = "Absent"
    BY <2>1 DEF Leaving
  <2>3. left_behind'[p][j] = left_behind[p][j]
    BY <2>1, LeavingLeft DEF Leaving
  <2> QED
    BY <2>2, <2>3 DEF AbsentHoldNothing
<1> QED
  BY <1>1 DEF AbsentHoldNothing, Elsewhere

LEMMA RetiredLeaving ==
  ASSUME NEW p \in Pipelines, NEW mint, NEW R, NEW fate \in {"Settled", "Expired"},
         Retired(p, R, fate), left_behind' = LeftBehind(p, R, mint)
  PROVE  Leaving(p, R, mint)
<1>1. R \subseteq Indexes
  BY DEF Retired, NodesWith
<1>2. fate \in NodeStatus \ (OpenStatus \cup {"Absent"})
  BY DEF NodeStatus, OpenStatus, ActiveStatus
<1> QED
  BY <1>1, <1>2 DEF Retired, Leaving, OpenNodes

LEMMA PaidLeaving ==
  ASSUME TypeOK, NEW p \in Pipelines, NEW mint, NEW i \in Indexes, Paid(p, i, mint)
  PROVE  Leaving(p, {i}, mint)
<1>1. left_behind' = LeftBehind(p, {i}, mint)
  BY DEF Paid, Settle
<1> QED
  BY <1>1, PaidRetired, RetiredLeaving

LEMMA ReturnedLeaving ==
  ASSUME TypeOK, NEW p \in Pipelines, NEW mint, NEW R \in SUBSET Indexes, Returned(p, R, mint)
  PROVE  Leaving(p, R, mint)
<1>1. left_behind' = LeftBehind(p, R, mint)
  BY DEF Returned, Refund
<1> QED
  BY <1>1, ReturnedRetired, RetiredLeaving

LEMMA PaidBacked ==
  ASSUME TypeOK, VaultBacksOpenNodes, AbsentHoldNothing, NEW p \in Pipelines, NEW mint,
         NEW i \in Indexes, Paid(p, i, mint)
  PROVE  VaultBacksOpenNodes' /\ AbsentHoldNothing'
<1>1. Total(Allocation(p), {i}) = node[p][i].allocation_usdc
  BY AllocationTyped, TotalSingleton
<1>2. vault'[p] = vault[p] - OwnMint(p, mint, Total(Allocation(p), {i}))
  BY <1>1 DEF Paid, Settle, TypeOK
<1>3. Backed(p)'
  BY <1>2, BackedPipelines, PaidLeaving, LeavingBacked
<1> QED
  BY <1>3, StepsElsewhere, ElsewhereBacked, PaidLeaving, LeavingAbsent

LEMMA ReturnedBacked ==
  ASSUME TypeOK, VaultBacksOpenNodes, AbsentHoldNothing, NEW p \in Pipelines, NEW mint,
         NEW R \in SUBSET Indexes, Returned(p, R, mint)
  PROVE  VaultBacksOpenNodes' /\ AbsentHoldNothing'
<1>1. vault'[p] = vault[p] - OwnMint(p, mint, Total(Allocation(p), R))
  BY DEF Returned, Refund, TypeOK
<1>2. Backed(p)'
  BY <1>1, BackedPipelines, ReturnedLeaving, LeavingBacked
<1> QED
  BY <1>2, StepsElsewhere, ElsewhereBacked, ReturnedLeaving, LeavingAbsent

\* What create_pipeline locks is what its nodes are allocated: node i is node
\* configuration i + 1 of the argument.
LEMMA LockedIsAllocated ==
  ASSUME TypeOK, NEW p \in Pipelines, NEW node_configs \in NodeConfigLists,
         CreatePipeline(p, node_configs)
  PROVE  /\ Total(Allocation(p)', 0..(Len(node_configs) - 1)) = TotalLocked(node_configs)
         /\ TotalLocked(node_configs) \in Nat
<1> DEFINE n == Len(node_configs)
           asked == [k \in DOMAIN node_configs |-> node_configs[k].allocation_usdc]
           index == [k \in 1..n |-> k - 1]
<1>1. /\ n \in Nat /\ DOMAIN node_configs = 1..n
      /\ \A k \in 1..n : node_configs[k].allocation_usdc = asked[k]
  BY ArgumentsAssumption
<1>2. /\ 0..(n - 1) \subseteq Indexes
      /\ \A i \in Indexes : node'[p][i] = IF i < n THEN PendingNode(node_configs[i + 1])
                                                    ELSE NoNode("Absent")
  BY CreatedNodes
<1>3. TotalLocked(node_configs) = Total(asked, 1..n)
  BY <1>1 DEF TotalLocked
<1> HIDE DEF n, asked
<1>4. index \in [1..n -> 0..(n - 1)] /\ \A k \in 1..n : index[k] = k - 1
  BY <1>1
<1>5. \A k \in 1..n : k - 1 \in 0..(n - 1) /\ k - 1 < n /\ (k - 1) + 1 = k
  BY <1>1
<1>6. \A i \in 0..(n - 1) : i + 1 \in 1..n /\ index[i + 1] = i
  BY <1>1
<1> HIDE DEF index
<1>7. \A j, k \in 1..n : index[j] = index[k] => j = k
  BY <1>4, <1>5
<1>8. \A i \in 0..(n - 1) : \E k \in 1..n : index[k] = i
  BY <1>6
<1>9. \A k \in 1..n : Allocation(p)'[index[k]] = asked[k]
  <2> SUFFICES ASSUME NEW k \in 1..n PROVE Allocation(p)'[index[k]] = asked[k]
    OBVIOUS
  <2>1. index[k] = k - 1 /\ k - 1 \in Indexes /\ k - 1 < n /\ (k - 1) + 1 = k
    BY <1>2, <1>4, <1>5
  <2>2. node'[p][k - 1] = PendingNode(node_configs[k])
    BY <1>2, <2>1
  <2>3. Allocation(p)'[k - 1] = node'[p][k - 1].allocation_usdc
    BY <2>1 DEF Allocation
  <2> QED
    BY <1>1, <2>1, <2>2, <2>3, PendingNodeFields
<1>10. IsFiniteSet(1..n)
  BY <1>1, SegmentCardinality
<1>11. Total(Allocation(p)', 0..(n - 1)) = Total(asked, 1..n)
  <2> DEFINE allocated == Allocation(p)'
  <2>1. \A k \in 1..n : allocated[index[k]] = asked[k]
    BY <1>9
  <2> DEFINE S == 1..n
             T == 0..(n - 1)
  <2>2. /\ IsFiniteSet(S) /\ index \in [S -> T]
        /\ \A x, y \in S : index[x] = index[y] => x = y
        /\ \A z \in T : \E x \in S : index[x] = z
        /\ \A x \in S : allocated[index[x]] = asked[x]
    BY <1>4, <1>7, <1>8, <1>10, <2>1
  <2> HIDE DEF allocated, S, T
  <2>3. Total(allocated, T) = Total(asked, S)
    BY <2>2, TotalRenamed
  <2> QED
    BY <2>3 DEF allocated, S, T
<1>12. Total(asked, 1..n) \in Nat
  BY <1>10, TotalType
<1> QED
  BY <1>3, <1>11, <1>12 DEF n

\* Where a pipeline is created there is nothing yet.
LEMMA NothingBefore ==
  ASSUME SummaryInv, AbsentHoldNothing, NEW p \in Pipelines, pipeline[p].status = "Absent"
  PROVE  \A i \in Indexes : node[p][i].status = "Absent" /\ left_behind[p][i] = 0
<1>1. ExistingNodes(p) = {} /\ Closed(p) = {}
  BY DEF SummaryInv, Summary, Summarises
<1>2. \A i \in Indexes : node[p][i].status = "Absent"
  BY <1>1 DEF ExistingNodes, NodeExists, Closed, NodesWith
<1> QED
  BY <1>2 DEF AbsentHoldNothing

\* A row with the new allocations at the first indexes and nothing at the others.
LEMMA CreatedRow ==
  ASSUME TypeOK, NEW p \in Pipelines, NEW node_configs \in NodeConfigLists,
         CreatePipeline(p, node_configs), NEW f,
         \A i \in Indexes : f[i] = IF i \in 0..(Len(node_configs) - 1) THEN Allocation(p)'[i] ELSE 0
  PROVE  Total(f, Indexes) = TotalLocked(node_configs) /\ TotalLocked(node_configs) \in Nat
<1> DEFINE N == 0..(Len(node_configs) - 1)
           h == Allocation(p)'
<1>1. N \in SUBSET Indexes /\ Total(h, N) = TotalLocked(node_configs)
      /\ TotalLocked(node_configs) \in Nat
  BY CreatedNodes, LockedIsAllocated
<1>2. \A i \in Indexes : f[i] = IF i \in N THEN h[i] ELSE 0
  OBVIOUS
<1> HIDE DEF N, h
<1>3. Total(f, N) = Total(h, N)
  BY <1>1, <1>2, TotalSame
<1>4. /\ IsFiniteSet(N) /\ IsFiniteSet(Indexes \ N) /\ N \cap (Indexes \ N) = {}
      /\ N \cup (Indexes \ N) = Indexes
  BY <1>1, IndexesFinite, FS_Subset
<1>5. Total(f, Indexes \ N) = 0
  BY <1>2, <1>4, TotalZero
<1>6. Total(f, N \cup (Indexes \ N)) = Total(f, N) + Total(f, Indexes \ N)
  BY <1>4, TotalDisjointUnion
<1>7. Total(f, Indexes) = Total(f, N) + Total(f, Indexes \ N)
  BY <1>4, <1>6, Zenon
<1> QED
  BY <1>1, <1>3, <1>5, <1>7

\* What there is at each index after create_pipeline.
LEMMA CreatedState ==
  ASSUME TypeOK, SummaryInv, AbsentHoldNothing, NEW p \in Pipelines,
         NEW node_configs \in NodeConfigLists, CreatePipeline(p, node_configs)
  PROVE  /\ left_behind' = left_behind
         /\ \A i \in Indexes :
              /\ node[p][i].status = "Absent" /\ left_behind[p][i] = 0
              /\ i \in 0..(Len(node_configs) - 1) => node'[p][i].status = "Pending"
              /\ i \notin 0..(Len(node_configs) - 1) => node'[p][i].status = "Absent"
<1>1. \A i \in Indexes : node[p][i].status = "Absent" /\ left_behind[p][i] = 0
  BY NothingBefore DEF CreatePipeline
<1>2. NodesWith(p, OpenStatus)' = 0..(Len(node_configs) - 1)
  BY CreatedNodes
<1>3. \A i \in Indexes : node'[p][i].status \in {"Pending", "Absent"}
  BY CreatedNodes, PendingNodeFields
<1> QED
  BY <1>1, <1>2, <1>3 DEF NodesWith, OpenStatus, ActiveStatus, CreatePipeline

LEMMA CreatedBacked ==
  ASSUME TypeOK, SummaryInv, VaultBacksOpenNodes, AbsentHoldNothing, NEW p \in Pipelines,
         NEW node_configs \in NodeConfigLists, CreatePipeline(p, node_configs)
  PROVE  VaultBacksOpenNodes' /\ AbsentHoldNothing'
<1>1. vault'[p] = TotalLocked(node_configs)
  BY DEF CreatePipeline, TypeOK
<1> DEFINE f == Locked(p)'
           N == 0..(Len(node_configs) - 1)
<1>2. \A i \in Indexes : f[i] = IF i \in N THEN Allocation(p)'[i] ELSE 0
  <2> SUFFICES ASSUME NEW i \in Indexes PROVE f[i] = IF i \in N THEN Allocation(p)'[i] ELSE 0
    OBVIOUS
  <2>1. /\ left_behind'[p][i] = 0
        /\ i \in N => node'[p][i].status = "Pending"
        /\ i \notin N => node'[p][i].status = "Absent"
    BY CreatedState
  <2>2. f[i] = IF node'[p][i].status \in OpenStatus THEN Allocation(p)'[i] ELSE left_behind'[p][i]
    BY DEF Locked
  <2> HIDE DEF N, f
  <2> QED
    BY <2>1, <2>2 DEF OpenStatus, ActiveStatus
<1> HIDE DEF f
<1>3. Total(f, Indexes) = TotalLocked(node_configs)
  BY <1>2, CreatedRow
<1>4. Backed(p)'
  BY <1>1, <1>3 DEF Backed, f
<1>5. Elsewhere(p)
  BY StepsElsewhere
<1>6. AbsentHoldNothing'
  BY <1>5, CreatedState DEF AbsentHoldNothing, Elsewhere
<1> QED
  BY <1>4, <1>5, <1>6, ElsewhereBacked

\* cancel_pipeline closes the open nodes, and they are all the vault holds.
LEMMA CancelledLeaving ==
  ASSUME TypeOK, SummaryInv, AbsentHoldNothing, CancelListsEveryNode, NEW p \in Pipelines,
         NEW mint, NEW consumer, NEW listed \in CancelLists(p),
         CancelPipeline(p, consumer, listed, mint)
  PROVE  /\ listed = ExistingNodes(p) /\ Leaving(p, listed, mint)
         /\ Total(Locked(p), Indexes) = Total(Allocation(p), listed)
<1>1. listed = ExistingNodes(p)
  BY DEF CancelLists, ExistingNodes
<1>2. /\ OpenNodes(p) = listed
      /\ \A i \in Indexes : node'[p][i] = IF i \in listed THEN NoNode("Closed") ELSE node[p][i]
  BY <1>1, CancelledNodes DEF OpenNodes
<1>3. listed \in SUBSET Indexes
  BY <1>1 DEF ExistingNodes
<1>4. "Closed" \in NodeStatus \ (OpenStatus \cup {"Absent"})
  BY DEF NodeStatus, OpenStatus, ActiveStatus
<1>5. left_behind' = LeftBehind(p, listed, mint)
  BY DEF CancelPipeline, Refund
<1>6. Leaving(p, listed, mint)
  BY <1>2, <1>3, <1>4, <1>5, PendingNodeFields DEF Leaving
<1>7. \A i \in Indexes \ listed : Locked(p)[i] = 0
  <2> SUFFICES ASSUME NEW i \in Indexes, i \notin listed PROVE Locked(p)[i] = 0
    OBVIOUS
  <2>1. pipeline[p].status = "Active"
    BY DEF CancelPipeline
  <2>2. Closed(p) = {}
    BY <2>1 DEF SummaryInv, Summary, Summarises
  <2>3. node[p][i].status = "Absent"
    BY <1>1, <2>2 DEF ExistingNodes, NodeExists, Closed, NodesWith
  <2> QED
    BY <2>3 DEF Locked, AbsentHoldNothing, OpenStatus, ActiveStatus
<1>8. Total(Locked(p), listed) = Total(Allocation(p), listed)
  <2>1. \A i \in listed : Locked(p)[i] = Allocation(p)[i]
    BY <1>6, LeavingLocked
  <2> QED
    BY <2>1, TotalSame
<1>9. Total(Locked(p), Indexes) = Total(Locked(p), listed)
  <2> DEFINE f == Locked(p)
  <2>1. /\ IsFiniteSet(Indexes) /\ IsFiniteSet(listed) /\ IsFiniteSet(Indexes \ listed)
    BY <1>3, IndexesFinite, FS_Subset
  <2>2. \A i \in Indexes \ listed : f[i] = 0
    BY <1>7
  <2> HIDE DEF f
  <2>3. Total(f, Indexes \ listed) = 0
    BY <2>1, <2>2, TotalZero
  <2>4. Total(f, Indexes \ listed) = Total(f, Indexes) - Total(f, listed)
    BY <1>3, <2>1, TotalDifference
  <2>5. Total(f, Indexes) \in Nat /\ Total(f, listed) \in Nat
    BY <2>1, TotalType
  <2>6. Total(f, Indexes) = Total(f, listed)
    BY <2>3, <2>4, <2>5
  <2> QED
    BY <2>6 DEF f
<1> QED
  BY <1>1, <1>6, <1>8, <1>9

LEMMA CancelledBacked ==
  ASSUME TypeOK, SummaryInv, VaultBacksOpenNodes, AbsentHoldNothing, CancelListsEveryNode,
         NEW p \in Pipelines, NEW mint, NEW consumer, NEW listed \in CancelLists(p),
         CancelPipeline(p, consumer, listed, mint)
  PROVE  VaultBacksOpenNodes' /\ AbsentHoldNothing'
<1>1. Leaving(p, listed, mint) /\ Total(Locked(p), Indexes) = Total(Allocation(p), listed)
  BY CancelledLeaving
<1>2. Backed(p)
  BY BackedPipelines
<1>3. vault[p] = Total(Allocation(p), listed)
  BY <1>1, <1>2 DEF Backed
<1>4. vault'[p] = vault[p] - OwnMint(p, mint, vault[p])
  BY DEF CancelPipeline, Refund, TypeOK
<1>5. Backed(p)'
  BY <1>1, <1>2, <1>3, <1>4, LeavingBacked
<1>6. Elsewhere(p)
  BY StepsElsewhere
<1> QED
  BY <1>1, <1>5, <1>6, ElsewhereBacked, LeavingAbsent

LedgerInv == TypeOK /\ SummaryInv /\ VaultBacksOpenNodes /\ AbsentHoldNothing

LEMMA VaultPreserved ==
  ASSUME CancelListsEveryNode
  PROVE  LedgerInv /\ [Next]_vars => VaultBacksOpenNodes' /\ AbsentHoldNothing'
<1> SUFFICES ASSUME LedgerInv, [Next]_vars PROVE VaultBacksOpenNodes' /\ AbsentHoldNothing'
  OBVIOUS
<1> USE DEF LedgerInv
<1> QED
  BY StepKinds, WorkedBacked, PaidBacked, ReturnedBacked, CreatedBacked, CancelledBacked

LEMMA InitLedger == Init => LedgerInv
BY InitTyped, InitSummary, InitBacked DEF LedgerInv

LEMMA LedgerPreserved ==
  ASSUME CancelListsEveryNode
  PROVE  LedgerInv /\ [Next]_vars => LedgerInv'
BY TypePreserved, SummaryPreserved, VaultPreserved DEF LedgerInv

\* Every vault holds the allocations of the nodes that are still open and what the
\* others left behind, no more and no less, in whatever mints the calls were made.
THEOREM VaultCorrect ==
  ASSUME CancelListsEveryNode
  PROVE  Spec => []VaultBacksOpenNodes
<1>1. Init => LedgerInv
  BY InitLedger
<1>2. LedgerInv /\ [Next]_vars => LedgerInv'
  BY LedgerPreserved
<1>3. LedgerInv => VaultBacksOpenNodes
  BY DEF LedgerInv
<1> QED
  BY <1>1, <1>2, <1>3, PTL DEF Spec

-----------------------------------------------------------------------------
(***************************************************************************)
(* A consumer is charged what its nodes cost, the agents and the operators  *)
(* are paid for the settled ones.                                           *)
(***************************************************************************)
\* The nodes of some of the pipelines, what they cost, and the row of one.
IdsIn(K) == {n \in NodeIds : n[1] \in K}
Charge(K) == Total(Cost, IdsIn(K))
RowCost(p) == [i \in Indexes |-> Cost[<<p, i>>]]

LEMMA NodeIdsFinite == IsFiniteSet(NodeIds) /\ \A S \in SUBSET NodeIds : IsFiniteSet(S)
<1>1. IsFiniteSet(NodeIds)
  BY SupplyAssumption, IndexesFinite, FS_Product DEF NodeIds
<1> QED
  BY <1>1, FS_Subset

\* What a node costs, by pipeline and index.
LEMMA CostAt ==
  ASSUME NEW p \in Pipelines, NEW i \in Indexes
  PROVE  /\ Cost[<<p, i>>] = IF node[p][i].status \in OpenStatus \cup {"Settled"}
                             THEN node[p][i].allocation_usdc ELSE left_behind[p][i]
         /\ Cost'[<<p, i>>] = IF node'[p][i].status \in OpenStatus \cup {"Settled"}
                              THEN node'[p][i].allocation_usdc ELSE left_behind'[p][i]
         /\ RowCost(p)[i] = Cost[<<p, i>>] /\ RowCost(p)'[i] = Cost'[<<p, i>>]
BY DEF Cost, RowCost, NodeIds

\* The nodes of one pipeline, among all.
LEMMA PairRenamed ==
  ASSUME NEW f, NEW g, NEW p \in Pipelines, NEW R \in SUBSET Indexes,
         \A i \in R : g[<<p, i>>] = f[i]
  PROVE  Total(g, {p} \X R) = Total(f, R)
<1> DEFINE pair == [i \in R |-> <<p, i>>]
           T == {p} \X R
<1>1. /\ pair \in [R -> T] /\ \A x, y \in R : pair[x] = pair[y] => x = y
      /\ \A z \in T : \E x \in R : pair[x] = z
      /\ \A x \in R : g[pair[x]] = f[x]
  OBVIOUS
<1>2. IsFiniteSet(R)
  BY IndexesFinite, FS_Subset
<1> HIDE DEF pair, T
<1>3. Total(g, T) = Total(f, R)
  BY <1>1, <1>2, TotalRenamed
<1> QED
  BY <1>3 DEF T

(***************************************************************************)
(* The charge, step by step: what a step changes in it is what it changes   *)
(* in the row of one pipeline.                                              *)
(***************************************************************************)
LEMMA IdPairs == \A n \in NodeIds : n[1] \in Pipelines /\ n[2] \in Indexes /\ n = <<n[1], n[2]>>
BY DEF NodeIds

LEMMA SameCharge ==
  ASSUME \A q \in Pipelines, j \in Indexes : Cost'[<<q, j>>] = Cost[<<q, j>>], NEW K
  PROVE  Charge(K)' = Charge(K)
<1> DEFINE after == Cost'
<1>1. \A n \in IdsIn(K) : after[n] = Cost[n]
  BY IdPairs DEF IdsIn
<1> HIDE DEF after
<1>2. Total(after, IdsIn(K)) = Total(Cost, IdsIn(K))
  BY <1>1, TotalSame
<1> QED
  BY <1>2 DEF Charge, after, IdsIn

LEMMA RowCharge ==
  ASSUME NEW p \in Pipelines, NEW K,
         \A q \in Pipelines \ {p}, j \in Indexes : Cost'[<<q, j>>] = Cost[<<q, j>>]
  PROVE  /\ p \in K => Charge(K)' = Charge(K) - Total(RowCost(p), Indexes)
                                      + Total(RowCost(p)', Indexes)
         /\ p \notin K => Charge(K)' = Charge(K)
<1> DEFINE after == Cost'
           row == RowCost(p)
           newrow == RowCost(p)'
           mine == {p} \X Indexes
           rest == IdsIn(K) \ mine
<1>1. \A n \in rest : after[n] = Cost[n]
  BY IdPairs DEF IdsIn
<1>2. Charge(K) = Total(Cost, IdsIn(K)) /\ Charge(K)' = Total(after, IdsIn(K))
  BY DEF Charge, IdsIn
<1>3. /\ IsFiniteSet(mine) /\ IsFiniteSet(rest) /\ IsFiniteSet(IdsIn(K)) /\ mine \cap rest = {}
  BY NodeIdsFinite DEF NodeIds, IdsIn
<1>4. /\ p \in K => IdsIn(K) = mine \cup rest
      /\ p \notin K => IdsIn(K) = rest
  BY DEF IdsIn, NodeIds
<1>5. \A i \in Indexes : Cost[<<p, i>>] = row[i] /\ after[<<p, i>>] = newrow[i]
  BY CostAt
<1> HIDE DEF after, row, newrow
<1>6. Total(Cost, mine) = Total(row, Indexes) /\ Total(after, mine) = Total(newrow, Indexes)
  BY <1>5, PairRenamed
<1> HIDE DEF mine, rest
<1>7. Total(after, rest) = Total(Cost, rest)
  BY <1>1, TotalSame
<1>8. /\ Total(Cost, mine \cup rest) = Total(Cost, mine) + Total(Cost, rest)
      /\ Total(after, mine \cup rest) = Total(after, mine) + Total(after, rest)
  BY <1>3, TotalDisjointUnion
<1>9. /\ Total(Cost, mine) \in Nat /\ Total(Cost, rest) \in Nat
      /\ Total(after, mine) \in Nat
  BY <1>3, TotalType
<1>10. ASSUME p \in K
       PROVE  Charge(K)' = Charge(K) - Total(row, Indexes) + Total(newrow, Indexes)
  <2>1. /\ Charge(K) = Total(Cost, mine) + Total(Cost, rest)
        /\ Charge(K)' = Total(after, mine) + Total(after, rest)
    BY <1>2, <1>4, <1>8, <1>10, Zenon
  <2> QED
    BY <1>6, <1>7, <1>9, <2>1
<1>11. ASSUME p \notin K PROVE Charge(K)' = Charge(K)
  BY <1>2, <1>4, <1>7, <1>11
<1> QED
  BY <1>10, <1>11 DEF row, newrow

LEMMA ElsewhereCost ==
  ASSUME NEW p \in Pipelines, Elsewhere(p)
  PROVE  \A q \in Pipelines \ {p}, j \in Indexes : Cost'[<<q, j>>] = Cost[<<q, j>>]
<1> SUFFICES ASSUME NEW q \in Pipelines \ {p}, NEW j \in Indexes
             PROVE  Cost'[<<q, j>>] = Cost[<<q, j>>]
  OBVIOUS
<1>1. node'[q] = node[q] /\ left_behind'[q] = left_behind[q]
  BY DEF Elsewhere
<1> QED
  BY <1>1, CostAt

LEMMA ChargeTyped == \A K : Charge(K) \in Nat /\ Charge(K)' \in Nat
<1> SUFFICES ASSUME NEW K PROVE Charge(K) \in Nat /\ Charge(K)' \in Nat
  OBVIOUS
<1> DEFINE after == Cost'
<1>1. IsFiniteSet(IdsIn(K))
  BY NodeIdsFinite DEF IdsIn
<1> HIDE DEF after
<1>2. Total(Cost, IdsIn(K)) \in Nat /\ Total(after, IdsIn(K)) \in Nat
  BY <1>1, TotalType
<1> QED
  BY <1>2 DEF Charge, after, IdsIn

LEMMA WorkedCharge ==
  ASSUME Worked, NEW K
  PROVE  Charge(K)' = Charge(K)
<1>1. ASSUME NEW q \in Pipelines, NEW j \in Indexes PROVE Cost'[<<q, j>>] = Cost[<<q, j>>]
  <2>1. /\ node'[q][j].allocation_usdc = node[q][j].allocation_usdc
        /\ node'[q][j].status \in OpenStatus \cup {"Settled"}
             <=> node[q][j].status \in OpenStatus \cup {"Settled"}
        /\ left_behind' = left_behind
    BY DEF Worked, OpenStatus
  <2> QED
    BY <2>1, CostAt
<1> QED
  BY <1>1, SameCharge

LEMMA PaidCharge ==
  ASSUME TypeOK, NEW p \in Pipelines, NEW mint, NEW i \in Indexes, Paid(p, i, mint), NEW K
  PROVE  Charge(K)' = Charge(K)
<1>1. Retired(p, {i}, "Settled") /\ Leaving(p, {i}, mint)
  BY PaidRetired, PaidLeaving
<1>2. \A j \in Indexes \ {i} : left_behind'[p][j] = left_behind[p][j]
  BY <1>1, LeavingLeft DEF Leaving
<1>3. \A q \in Pipelines \ {p} : left_behind'[q] = left_behind[q]
  BY <1>1, LeavingLeft DEF Leaving
<1>4. ASSUME NEW q \in Pipelines, NEW j \in Indexes PROVE Cost'[<<q, j>>] = Cost[<<q, j>>]
  <2>1. /\ node'[q][j].allocation_usdc = node[q][j].allocation_usdc
        /\ node'[q][j].status = IF q = p /\ j \in {i} THEN "Settled" ELSE node[q][j].status
    BY <1>1 DEF Retired
  <2>2. node[p][i].status \in OpenStatus
    BY <1>1 DEF Leaving, OpenNodes, NodesWith
  <2>3. CASE q = p /\ j = i
    BY <2>1, <2>2, <2>3, CostAt
  <2>4. CASE ~(q = p /\ j = i)
    <3>1. left_behind'[q][j] = left_behind[q][j]
      BY <1>2, <1>3, <2>4
    <3> QED
      BY <2>1, <2>4, <3>1, CostAt
  <2> QED
    BY <2>3, <2>4
<1> QED
  BY <1>4, SameCharge

\* Nodes that leave the vault for the consumer take what comes back from the charge.
LEMMA LeftCharge ==
  ASSUME TypeOK, NEW p \in Pipelines, NEW mint, NEW R, Leaving(p, R, mint), Elsewhere(p),
         \A j \in R : node'[p][j].status # "Settled", NEW K
  PROVE  Charge(K)' = IF p \in K THEN Charge(K) - OwnMint(p, mint, Total(Allocation(p), R))
                                 ELSE Charge(K)
<1> DEFINE f == RowCost(p)
           g == RowCost(p)'
           h == Allocation(p)
<1>1. R \in SUBSET Indexes /\ \A j \in R : node[p][j].status \in OpenStatus
  BY DEF Leaving, OpenNodes, NodesWith
<1>2. \A j \in R : h[j] \in Nat /\ f[j] = h[j]
  <2> SUFFICES ASSUME NEW j \in R PROVE h[j] \in Nat /\ f[j] = h[j]
    OBVIOUS
  <2>1. j \in Indexes /\ node[p][j].status \in OpenStatus
    BY <1>1
  <2>2. f[j] = node[p][j].allocation_usdc
    BY <2>1, CostAt
  <2> QED
    BY <2>1, <2>2, AllocationTyped
<1>3. \A j \in Indexes :
        left_behind'[p][j] = IF j \in R THEN h[j] - OwnMint(p, mint, h[j]) ELSE left_behind[p][j]
  BY LeavingLeft DEF Leaving
<1>4. \A j \in Indexes : g[j] = IF j \in R THEN h[j] - OwnMint(p, mint, h[j]) ELSE f[j]
  <2> SUFFICES ASSUME NEW j \in Indexes
               PROVE  g[j] = IF j \in R THEN h[j] - OwnMint(p, mint, h[j]) ELSE f[j]
    OBVIOUS
  <2>1. CASE j \in R
    <3>1. node'[p][j].status \notin OpenStatus \cup {"Settled"}
      BY <2>1 DEF Leaving
    <3>2. g[j] = left_behind'[p][j]
      BY <3>1, CostAt
    <3> QED
      BY <1>3, <2>1, <3>2
  <2>2. CASE j \notin R
    <3>1. /\ node'[p][j].status = node[p][j].status
          /\ node'[p][j].allocation_usdc = node[p][j].allocation_usdc
      BY <2>2 DEF Leaving
    <3>2. left_behind'[p][j] = left_behind[p][j]
      BY <1>3, <2>2
    <3>3. g[j] = f[j]
      BY <3>1, <3>2, CostAt
    <3> QED
      BY <2>2, <3>3
  <2> QED
    BY <2>1, <2>2
<1>5. /\ p \in K => Charge(K)' = Charge(K) - Total(f, Indexes) + Total(g, Indexes)
      /\ p \notin K => Charge(K)' = Charge(K)
  BY ElsewhereCost, RowCharge
<1> HIDE DEF f, g, h
<1>6. /\ Total(g, Indexes) = Total(f, Indexes) - OwnMint(p, mint, Total(h, R))
      /\ Total(h, R) \in Nat /\ Total(f, Indexes) \in Nat
  BY <1>1, <1>2, <1>4, LeavingRow
<1>7. OwnMint(p, mint, Total(h, R)) \in Nat
  BY <1>6, OwnMintBound
<1>8. Charge(K) \in Nat
  BY ChargeTyped
<1>9. Charge(K)' = IF p \in K THEN Charge(K) - OwnMint(p, mint, Total(h, R)) ELSE Charge(K)
  BY <1>5, <1>6, <1>7, <1>8
<1> QED
  BY <1>9 DEF h

LEMMA ReturnedCharge ==
  ASSUME TypeOK, NEW p \in Pipelines, NEW mint, NEW R \in SUBSET Indexes,
         Returned(p, R, mint), NEW K
  PROVE  Charge(K)' = IF p \in K THEN Charge(K) - OwnMint(p, mint, Total(Allocation(p), R))
                                 ELSE Charge(K)
<1>1. Retired(p, R, "Expired") /\ Leaving(p, R, mint) /\ Elsewhere(p)
  BY ReturnedRetired, ReturnedLeaving, StepsElsewhere
<1>2. \A j \in R : node'[p][j].status # "Settled"
  BY <1>1 DEF Retired
<1> QED
  BY <1>1, <1>2, LeftCharge

LEMMA CancelledCharge ==
  ASSUME LedgerInv, CancelListsEveryNode, NEW p \in Pipelines, NEW mint, NEW consumer,
         NEW listed \in CancelLists(p), CancelPipeline(p, consumer, listed, mint), NEW K
  PROVE  Charge(K)' = IF p \in K THEN Charge(K) - OwnMint(p, mint, vault[p]) ELSE Charge(K)
<1> USE DEF LedgerInv
<1>1. /\ Leaving(p, listed, mint) /\ Total(Locked(p), Indexes) = Total(Allocation(p), listed)
      /\ listed = ExistingNodes(p)
  BY CancelledLeaving
<1>2. Elsewhere(p)
  BY StepsElsewhere
<1>3. \A j \in listed : node'[p][j].status # "Settled"
  <2>1. listed \in SUBSET Indexes
    BY <1>1 DEF ExistingNodes
  <2>2. \A j \in listed : node'[p][j] = NoNode("Closed")
    BY <1>1, <2>1, CancelledNodes
  <2> QED
    BY <2>2, PendingNodeFields
<1>4. vault[p] = Total(Allocation(p), listed)
  BY <1>1 DEF VaultBacksOpenNodes
<1> QED
  BY <1>1, <1>2, <1>3, <1>4, LeftCharge

LEMMA CreatedCharge ==
  ASSUME LedgerInv, NEW p \in Pipelines, NEW node_configs \in NodeConfigLists,
         CreatePipeline(p, node_configs), NEW K
  PROVE  Charge(K)' = IF p \in K THEN Charge(K) + TotalLocked(node_configs) ELSE Charge(K)
<1> USE DEF LedgerInv
<1> DEFINE N == 0..(Len(node_configs) - 1)
           f == RowCost(p)
           g == RowCost(p)'
<1>1. \A i \in Indexes :
        /\ node[p][i].status = "Absent" /\ left_behind[p][i] = 0 /\ left_behind'[p][i] = 0
        /\ i \in N => node'[p][i].status = "Pending"
        /\ i \notin N => node'[p][i].status = "Absent"
  BY CreatedState
<1>2. Elsewhere(p)
  BY StepsElsewhere
<1>3. \A i \in Indexes : f[i] = 0
  <2> SUFFICES ASSUME NEW i \in Indexes PROVE f[i] = 0
    OBVIOUS
  <2>1. node[p][i].status \notin OpenStatus \cup {"Settled"} /\ left_behind[p][i] = 0
    BY <1>1 DEF OpenStatus, ActiveStatus
  <2> QED
    BY <2>1, CostAt
<1>4. \A i \in Indexes : g[i] = IF i \in N THEN Allocation(p)'[i] ELSE 0
  <2> SUFFICES ASSUME NEW i \in Indexes PROVE g[i] = IF i \in N THEN Allocation(p)'[i] ELSE 0
    OBVIOUS
  <2>1. Allocation(p)'[i] = node'[p][i].allocation_usdc
    BY DEF Allocation
  <2>2. CASE i \in N
    <3>1. node'[p][i].status \in OpenStatus \cup {"Settled"}
      BY <1>1, <2>2 DEF OpenStatus
    <3>2. g[i] = node'[p][i].allocation_usdc
      BY <3>1, CostAt
    <3> QED
      BY <2>1, <2>2, <3>2
  <2>3. CASE i \notin N
    <3>1. node'[p][i].status \notin OpenStatus \cup {"Settled"} /\ left_behind'[p][i] = 0
      BY <1>1, <2>3 DEF OpenStatus, ActiveStatus
    <3>2. g[i] = 0
      BY <3>1, CostAt
    <3> QED
      BY <2>3, <3>2
  <2> QED
    BY <2>2, <2>3
<1>5. /\ p \in K => Charge(K)' = Charge(K) - Total(f, Indexes) + Total(g, Indexes)
      /\ p \notin K => Charge(K)' = Charge(K)
  BY <1>2, ElsewhereCost, RowCharge
<1> HIDE DEF f, g
<1>6. Total(f, Indexes) = 0
  BY <1>3, IndexesFinite, TotalZero
<1>7. Total(g, Indexes) = TotalLocked(node_configs) /\ TotalLocked(node_configs) \in Nat
  BY <1>4, CreatedRow
<1>8. Charge(K) \in Nat
  BY ChargeTyped
<1> QED
  BY <1>5, <1>6, <1>7, <1>8

(***************************************************************************)
(* What leaves a consumer's account is charged to the consumer's pipelines, *)
(* what comes back is not charged any more.                                 *)
(***************************************************************************)
Flow(p, d) ==
  /\ consumer_token_account' =
       [consumer_token_account EXCEPT ![ConsumerOf[p]] = consumer_token_account[ConsumerOf[p]] + d]
  /\ \A K \in SUBSET Pipelines :
       Charge(K)' = IF p \in K THEN Charge(K) - d ELSE Charge(K)

NoFlow ==
  /\ UNCHANGED consumer_token_account
  /\ \A K \in SUBSET Pipelines : Charge(K)' = Charge(K)

LEMMA StepFlows ==
  ASSUME LedgerInv, CancelListsEveryNode, [Next]_vars
  PROVE  NoFlow \/ \E p \in Pipelines, d \in Int : Flow(p, d)
<1>0. TypeOK
  BY DEF LedgerInv
<1>1. CASE Worked
  BY <1>1, WorkedCharge DEF NoFlow, Worked, wallets
<1>2. ASSUME NEW p \in Pipelines, NEW mint, NEW i \in Indexes, Paid(p, i, mint) PROVE NoFlow
  BY <1>0, <1>2, PaidCharge DEF NoFlow, Paid, Settle
<1>3. ASSUME NEW p \in Pipelines, NEW mint, NEW R \in SUBSET Indexes, Returned(p, R, mint)
      PROVE  \E d \in Int : Flow(p, d)
  <2>1. OwnMint(p, mint, Total(Allocation(p), R)) \in Int
    <3>1. Total(Allocation(p), R) \in Nat
      BY <1>0, AllocationTyped
    <3> QED
      BY <3>1, OwnMintBound
  <2>2. Flow(p, OwnMint(p, mint, Total(Allocation(p), R)))
    BY <1>0, <1>3, ReturnedCharge DEF Flow, Returned, Refund
  <2> QED
    BY <2>1, <2>2
<1>4. ASSUME NEW p \in Pipelines, NEW node_configs \in NodeConfigLists,
             CreatePipeline(p, node_configs)
      PROVE  \E d \in Int : Flow(p, d)
  <2> DEFINE total == TotalLocked(node_configs)
  <2>1. total \in Nat
    BY <1>0, <1>4, LockedIsAllocated
  <2>2. \A K \in SUBSET Pipelines :
          Charge(K)' = IF p \in K THEN Charge(K) + total ELSE Charge(K)
    BY <1>4, CreatedCharge
  <2>3. consumer_token_account' =
          [consumer_token_account EXCEPT ![ConsumerOf[p]] = consumer_token_account[ConsumerOf[p]] - total]
    BY <1>4 DEF CreatePipeline
  <2> HIDE DEF total
  <2>4. \A K \in SUBSET Pipelines : Charge(K) \in Nat
    BY ChargeTyped
  <2>5. consumer_token_account[ConsumerOf[p]] \in Nat
    BY <1>0, PartiesAssumption DEF TypeOK
  <2>6. /\ 0 - total \in Int
        /\ \A K \in SUBSET Pipelines : Charge(K) - (0 - total) = Charge(K) + total
        /\ consumer_token_account[ConsumerOf[p]] + (0 - total)
             = consumer_token_account[ConsumerOf[p]] - total
    BY <2>1, <2>4, <2>5
  <2>7. Flow(p, 0 - total)
    BY <2>2, <2>3, <2>6 DEF Flow
  <2> QED
    BY <2>6, <2>7
<1>5. ASSUME NEW p \in Pipelines, NEW mint, NEW consumer \in Consumers,
             NEW listed \in CancelLists(p), CancelPipeline(p, consumer, listed, mint)
      PROVE  \E d \in Int : Flow(p, d)
  <2>1. OwnMint(p, mint, vault[p]) \in Int
    <3>1. vault[p] \in Nat
      BY <1>0 DEF TypeOK
    <3> QED
      BY <3>1, OwnMintBound
  <2>2. Flow(p, OwnMint(p, mint, vault[p]))
    BY <1>5, CancelledCharge DEF Flow, CancelPipeline, Refund
  <2> QED
    BY <2>1, <2>2
<1> QED
  BY <1>0, <1>1, <1>2, <1>3, <1>4, <1>5, StepKinds

\* Each consumer's account, and all of them together.
PipelinesOf(c) == {p \in Pipelines : ConsumerOf[p] = c}
Books(c) == consumer_token_account[c] = Budget - Charge(PipelinesOf(c))
Supply ==
  Total(consumer_token_account, Consumers) + Charge(Pipelines) = Cardinality(Consumers) * Budget

ConsumerInv == (\A c \in Consumers : Books(c)) /\ Supply

LEMMA ConsumerInvImplies == ConsumerInv => ConsumerPaysOnlyForWork
<1> SUFFICES ASSUME ConsumerInv, NEW c \in Consumers
             PROVE  consumer_token_account[c] =
                      Budget - Total(Cost, {n \in NodeIds : ConsumerOf[n[1]] = c})
  BY DEF ConsumerPaysOnlyForWork
<1>1. IdsIn(PipelinesOf(c)) = {n \in NodeIds : ConsumerOf[n[1]] = c}
  BY DEF IdsIn, PipelinesOf, NodeIds
<1> QED
  BY <1>1 DEF ConsumerInv, Books, Charge

LEMMA InitConsumer == Init => ConsumerInv
<1> SUFFICES ASSUME Init PROVE ConsumerInv
  OBVIOUS
<1>1. \A n \in NodeIds : Cost[n] = 0
  BY DEF Init, Cost, NodeIds, NoNode, OpenStatus, ActiveStatus
<1>2. \A K : Charge(K) = 0
  <2> SUFFICES ASSUME NEW K PROVE Charge(K) = 0
    OBVIOUS
  <2>1. IsFiniteSet(IdsIn(K)) /\ \A n \in IdsIn(K) : Cost[n] = 0
    BY <1>1, NodeIdsFinite DEF IdsIn
  <2> QED
    BY <2>1, TotalZero DEF Charge
<1>3. Budget \in Nat /\ \A c \in Consumers : consumer_token_account[c] = Budget
  BY BoundsAssumption, U64Assumption DEF Init, Amounts
<1>4. Total(consumer_token_account, Consumers) = Cardinality(Consumers) * Budget
  BY <1>3, BoundsAssumption, SupplyAssumption, TotalConstant
<1>5. Total(consumer_token_account, Consumers) \in Nat
  BY SupplyAssumption, TotalType
<1> QED
  BY <1>2, <1>3, <1>4, <1>5 DEF ConsumerInv, Books, Supply

LEMMA ConsumerPreserved ==
  ASSUME CancelListsEveryNode
  PROVE  LedgerInv /\ ConsumerInv /\ [Next]_vars => ConsumerInv'
<1> SUFFICES ASSUME LedgerInv, ConsumerInv, [Next]_vars PROVE ConsumerInv'
  OBVIOUS
<1> DEFINE tokens == consumer_token_account
           after == consumer_token_account'
<1>1. TypeOK /\ LedgerInv'
  BY LedgerPreserved DEF LedgerInv
<1>2. tokens \in [Consumers -> Nat] /\ after \in [Consumers -> Nat]
  BY <1>1 DEF LedgerInv, TypeOK
<1>3. \A K \in SUBSET Pipelines : Charge(K) \in Nat /\ Charge(K)' \in Nat
  BY ChargeTyped
<1>4. Budget \in Nat /\ Budget <= U64_MAX /\ Cardinality(Consumers) * Budget \in Nat
  <2>1. Cardinality(Consumers) \in Nat /\ Budget \in Nat /\ Budget <= U64_MAX
    BY BoundsAssumption, SupplyAssumption, U64Assumption, FS_CardinalityType DEF Amounts
  <2> QED
    BY <2>1
<1>5. CASE NoFlow
  <2>1. \A c \in Consumers : Charge(PipelinesOf(c))' = Charge(PipelinesOf(c))
    BY <1>5 DEF NoFlow, PipelinesOf
  <2>2. Charge(Pipelines)' = Charge(Pipelines)
    BY <1>5 DEF NoFlow
  <2> QED
    BY <1>5, <2>1, <2>2 DEF NoFlow, ConsumerInv, Books, Supply, PipelinesOf
<1>6. ASSUME NEW p \in Pipelines, NEW d \in Int, Flow(p, d) PROVE ConsumerInv'
  <2> DEFINE payer == ConsumerOf[p]
  <2>1. payer \in Consumers
    BY PartiesAssumption
  <2>2. after = [tokens EXCEPT ![payer] = tokens[payer] + d]
    BY <1>6 DEF Flow
  <2>3. \A c \in Consumers : PipelinesOf(c) \in SUBSET Pipelines /\ (p \in PipelinesOf(c) <=> c = payer)
    BY DEF PipelinesOf
  <2>4. \A c \in Consumers :
          Charge(PipelinesOf(c))' = IF c = payer THEN Charge(PipelinesOf(c)) - d
                                                 ELSE Charge(PipelinesOf(c))
    BY <1>6, <2>3 DEF Flow
  <2>5. Charge(Pipelines)' = Charge(Pipelines) - d
    BY <1>6 DEF Flow
  <2>6. \A c \in Consumers : tokens[c] = Budget - Charge(PipelinesOf(c))
    BY DEF ConsumerInv, Books
  <2> HIDE DEF payer, tokens, after
  <2>7. after[payer] = tokens[payer] + d /\ \A c \in Consumers \ {payer} : after[c] = tokens[c]
    BY <1>2, <2>1, <2>2
  <2>8. \A c \in Consumers : after[c] = Budget - Charge(PipelinesOf(c))'
    BY <1>2, <1>3, <1>4, <2>1, <2>3, <2>4, <2>6, <2>7
  <2>9. tokens[payer] \in Amounts /\ after[payer] \in Amounts
    <3>1. tokens[payer] <= Budget /\ after[payer] <= Budget
      BY <1>3, <1>4, <2>1, <2>3, <2>6, <2>8
    <3>2. tokens[payer] \in Nat /\ after[payer] \in Nat
      BY <1>2, <2>1
    <3> QED
      BY <1>4, <3>1, <3>2, U64Assumption DEF Amounts
  <2>10. Total(after, Consumers) = Total(tokens, Consumers) - tokens[payer] + after[payer]
    BY <2>1, <2>7, <2>9, SupplyAssumption, TotalChangeOne
  <2>11. Total(after, Consumers) \in Nat /\ Total(tokens, Consumers) \in Nat
    BY SupplyAssumption, TotalType
  <2>12. Total(after, Consumers) + Charge(Pipelines)' =
           Total(tokens, Consumers) + Charge(Pipelines)
    BY <1>2, <1>3, <2>1, <2>5, <2>7, <2>10, <2>11
  <2>13. Total(tokens, Consumers) + Charge(Pipelines) = Cardinality(Consumers) * Budget
    BY DEF ConsumerInv, Supply, tokens
  <2>14. Supply'
    BY <2>12, <2>13 DEF Supply, after
  <2>15. \A c \in Consumers : Books(c)'
    BY <2>8 DEF Books, PipelinesOf, after
  <2> QED
    BY <2>14, <2>15 DEF ConsumerInv
<1> QED
  BY <1>5, <1>6, StepFlows

\* A consumer is out of pocket for exactly the nodes that are open or settled and
\* for what refunds in another mint left behind, over all of its pipelines.
THEOREM ConsumerCorrect ==
  ASSUME CancelListsEveryNode
  PROVE  Spec => []ConsumerPaysOnlyForWork
<1>1. Init => LedgerInv /\ ConsumerInv
  BY InitLedger, InitConsumer
<1>2. LedgerInv /\ ConsumerInv /\ [Next]_vars => LedgerInv' /\ ConsumerInv'
  BY LedgerPreserved, ConsumerPreserved
<1>3. ConsumerInv => ConsumerPaysOnlyForWork
  BY ConsumerInvImplies
<1> QED
  BY <1>1, <1>2, <1>3, PTL DEF Spec

(***************************************************************************)
(* The payouts.  Their invariant adds that no more was left behind of a     *)
(* settled node than its allocation, and that no operator account           *)
(* overflows, which follows from the supply: the fees of settled nodes are  *)
(* at most their allocations, and those are charged to the consumers.       *)
(***************************************************************************)
PaidOut == [n \in NodeIds |-> PaidOutFor(n)]
FeeOf == [n \in NodeIds |-> ShareOf(PaidOut[n], pipeline_config.fee_bps)]
NetOf == [n \in NodeIds |-> PaidOut[n] - FeeOf[n]]
SettledIds == IdsWith({"Settled"})
SettledBy(a) == {n \in SettledIds : node[n[1]][n[2]].agent = a}

PayoutInv ==
  /\ \A n \in SettledIds : PaidOut[n] \in Amounts
  /\ \A a \in Agents : agent_token_account[a] = Total(NetOf, SettledBy(a))
  /\ Total(operator_treasury, Keys) = Total(FeeOf, SettledIds)
  /\ \A k \in Keys : operator_treasury[k] \in Amounts

LEMMA PayoutInvImplies == PayoutInv => PayoutsMatchSettledWork
BY DEF PayoutInv, PayoutsMatchSettledWork, PaidOut, FeeOf, NetOf, SettledIds, SettledBy

LEMMA InitPayout == Init => PayoutInv
<1> SUFFICES ASSUME Init PROVE PayoutInv
  OBVIOUS
<1>1. SettledIds = {} /\ \A a : SettledBy(a) = {}
  BY DEF Init, SettledIds, SettledBy, IdsWith, NodeIds, NoNode
<1>2. \A k \in Keys : operator_treasury[k] = 0
  BY DEF Init
<1>3. Total(operator_treasury, Keys) = 0
  BY <1>2, SupplyAssumption, TotalZero
<1>4. \A a \in Agents : agent_token_account[a] = 0
  BY DEF Init
<1> QED
  BY <1>1, <1>2, <1>3, <1>4, TotalEmpty, U64Assumption DEF PayoutInv, Amounts

\* The share of the operator and of the agent in what was paid out for a node.
LEMMA SharesTyped ==
  ASSUME TypeOK, NEW n \in NodeIds, PaidOut[n] \in Amounts
  PROVE  /\ FeeOf[n] \in Nat /\ NetOf[n] \in Nat
         /\ FeeOf[n] \in Amounts /\ NetOf[n] \in Amounts
         /\ FeeOf[n] <= PaidOut[n]
<1> DEFINE amount == PaidOut[n]
           fee == ShareOf(amount, pipeline_config.fee_bps)
<1>1. amount \in Nat /\ amount <= U64_MAX
  BY U64Assumption DEF Amounts
<1>2. fee \in 0..amount
  <2>1. pipeline_config.fee_bps \in 0..BPS
    BY FeeAssumption DEF TypeOK, ConfigAccount
  <2> HIDE DEF amount
  <2> QED
    BY <1>1, <2>1, ShareBound
<1>3. FeeOf[n] = fee /\ NetOf[n] = amount - fee
  BY DEF FeeOf, NetOf
<1> HIDE DEF amount, fee
<1>4. PaidOut[n] = amount
  BY DEF amount
<1> QED
  BY <1>1, <1>2, <1>3, <1>4, U64Assumption DEF Amounts

LEMMA SettledIdsSubset ==
  /\ SettledIds \in SUBSET NodeIds /\ IsFiniteSet(SettledIds)
  /\ \A a : SettledBy(a) \in SUBSET SettledIds /\ IsFiniteSet(SettledBy(a))
BY NodeIdsFinite DEF SettledIds, SettledBy, IdsWith

\* Steps that settle nothing: the settled nodes keep agent and allocation, and what
\* they left behind.
SettledKept ==
  /\ UNCHANGED <<agent_token_account, operator_treasury>>
  /\ pipeline_config'.fee_bps = pipeline_config.fee_bps
  /\ \A q \in Pipelines, j \in Indexes :
       /\ node'[q][j].status = "Settled" <=> node[q][j].status = "Settled"
       /\ node[q][j].status = "Settled" =>
            /\ node'[q][j].allocation_usdc = node[q][j].allocation_usdc
            /\ left_behind'[q][j] = left_behind[q][j]
            /\ node'[q][j].agent = node[q][j].agent

\* The shares of nodes that keep their allocation, and what they left behind, stay
\* the same.
LEMMA SameShares ==
  ASSUME pipeline_config'.fee_bps = pipeline_config.fee_bps, NEW n \in NodeIds,
         node'[n[1]][n[2]].allocation_usdc = node[n[1]][n[2]].allocation_usdc,
         left_behind'[n[1]][n[2]] = left_behind[n[1]][n[2]]
  PROVE  PaidOut'[n] = PaidOut[n] /\ FeeOf'[n] = FeeOf[n] /\ NetOf'[n] = NetOf[n]
<1>1. PaidOut'[n] = PaidOut[n]
  BY DEF PaidOut, PaidOutFor
<1>2. FeeOf'[n] = FeeOf[n]
  BY <1>1 DEF FeeOf
<1> QED
  BY <1>1, <1>2 DEF NetOf

LEMMA KeptPayout ==
  ASSUME PayoutInv, SettledKept
  PROVE  PayoutInv'
<1> DEFINE fee == FeeOf'
           net == NetOf'
<1>1. \A n \in NodeIds :
        LET before == node[n[1]][n[2]]
            after == node'[n[1]][n[2]]
        IN
        /\ after.status = "Settled" <=> before.status = "Settled"
        /\ before.status = "Settled" =>
             /\ after.allocation_usdc = before.allocation_usdc /\ after.agent = before.agent
             /\ left_behind'[n[1]][n[2]] = left_behind[n[1]][n[2]]
  BY DEF SettledKept, NodeIds
<1>2. SettledIds' = SettledIds
  BY <1>1 DEF SettledIds, IdsWith
<1>3. \A a : SettledBy(a)' = SettledBy(a)
  BY <1>1, <1>2 DEF SettledBy, SettledIds, IdsWith
<1>4. \A n \in SettledIds : PaidOut'[n] = PaidOut[n] /\ fee[n] = FeeOf[n] /\ net[n] = NetOf[n]
  BY <1>1, SameShares DEF SettledIds, IdsWith, SettledKept
<1> HIDE DEF fee, net
<1>5. Total(fee, SettledIds) = Total(FeeOf, SettledIds)
  BY <1>4, TotalSame
<1>6. \A a : Total(net, SettledBy(a)) = Total(NetOf, SettledBy(a))
  <2> TAKE a
  <2>1. \A n \in SettledBy(a) : net[n] = NetOf[n]
    BY <1>4, SettledIdsSubset
  <2> QED
    BY <2>1, TotalSame
<1> QED
  BY <1>2, <1>3, <1>4, <1>5, <1>6 DEF PayoutInv, SettledKept, fee, net

\* What settled nodes left behind stays as it is while open nodes leave.
LEMMA LeavingKeepsSettled ==
  ASSUME TypeOK, NEW p \in Pipelines, NEW mint, NEW R, Leaving(p, R, mint)
  PROVE  \A q \in Pipelines, j \in Indexes :
           node[q][j].status = "Settled" => left_behind'[q][j] = left_behind[q][j]
<1>1. \A j \in R : node[p][j].status # "Settled"
  BY DEF Leaving, OpenNodes, NodesWith, OpenStatus, ActiveStatus
<1> QED
  BY <1>1, LeavingLeft DEF Leaving

\* All steps but a payment.
LEMMA OthersKeepSettled ==
  ASSUME LedgerInv, CancelListsEveryNode
  PROVE  /\ Worked => SettledKept
         /\ \A p \in Pipelines, R \in SUBSET Indexes, mint \in Mints :
              Returned(p, R, mint) => SettledKept
         /\ \A p \in Pipelines, node_configs \in NodeConfigLists :
              CreatePipeline(p, node_configs) => SettledKept
         /\ \A p \in Pipelines : \A consumer, mint : \A listed \in CancelLists(p) :
              CancelPipeline(p, consumer, listed, mint) => SettledKept
<1>0. TypeOK /\ SummaryInv /\ AbsentHoldNothing
  BY DEF LedgerInv
<1>1. Worked => SettledKept
  BY DEF Worked, SettledKept, OpenStatus, ActiveStatus, wallets
<1>2. ASSUME NEW p \in Pipelines, NEW mint, NEW R \in SUBSET Indexes, Returned(p, R, mint)
      PROVE  SettledKept
  <2>1. Retired(p, R, "Expired") /\ Leaving(p, R, mint)
    BY <1>0, <1>2, ReturnedRetired, ReturnedLeaving
  <2>2. \A j \in R : node[p][j].status # "Settled"
    BY <2>1 DEF Retired, NodesWith, OpenStatus, ActiveStatus
  <2>3. \A q \in Pipelines, j \in Indexes :
          /\ node'[q][j].status = "Settled" <=> node[q][j].status = "Settled"
          /\ node'[q][j].allocation_usdc = node[q][j].allocation_usdc
          /\ node'[q][j].agent = node[q][j].agent
    BY <2>1, <2>2 DEF Retired
  <2>4. \A q \in Pipelines, j \in Indexes :
          node[q][j].status = "Settled" => left_behind'[q][j] = left_behind[q][j]
    BY <1>0, <2>1, LeavingKeepsSettled
  <2> QED
    BY <1>2, <2>3, <2>4 DEF SettledKept, Returned, Refund
<1>3. ASSUME NEW p \in Pipelines, Settled(p) = {}, Settled(p)' = {}, Elsewhere(p),
             UNCHANGED <<pipeline_config, agent_token_account, operator_treasury>>
      PROVE  SettledKept
  <2>1. \A j \in Indexes : node[p][j].status # "Settled" /\ node'[p][j].status # "Settled"
    BY <1>3 DEF Settled, NodesWith
  <2> QED
    BY <1>3, <2>1 DEF SettledKept, Elsewhere
<1>4. ASSUME NEW p \in Pipelines, NEW node_configs \in NodeConfigLists,
             CreatePipeline(p, node_configs)
      PROVE  SettledKept
  <2>1. Settled(p) = {}
    BY <1>0, <1>4, NodeKinds DEF CreatePipeline, SummaryInv, Summary, Summarises
  <2>2. Settled(p)' = {}
    BY <1>0, <1>4, CreatedNodes
  <2> QED
    BY <1>0, <1>3, <1>4, <2>1, <2>2, StepsElsewhere DEF CreatePipeline
<1>5. ASSUME NEW p \in Pipelines, NEW mint, NEW consumer, NEW listed \in CancelLists(p),
             CancelPipeline(p, consumer, listed, mint)
      PROVE  SettledKept
  <2>1. Settled(p) = {} /\ Settled(p)' = {}
    BY <1>0, <1>5, CancelledNodes
  <2> QED
    BY <1>0, <1>3, <1>5, <2>1, StepsElsewhere DEF CancelPipeline, Refund
<1> QED
  BY <1>1, <1>2, <1>4, <1>5

LEMMA PaidPayout ==
  ASSUME LedgerInv, ConsumerInv, PayoutInv, NEW p \in Pipelines, NEW mint, NEW i \in Indexes,
         Paid(p, i, mint)
  PROVE  PayoutInv'
<1> DEFINE n == <<p, i>>
           operator == pipeline_config.operator
           agent == node[p][i].agent
           allocation == node[p][i].allocation_usdc
           amount == OwnMint(p, mint, allocation)
           fee == FeeOf'
           net == NetOf'
           paid == PaidOut'
<1>0. TypeOK
  BY DEF LedgerInv
<1>1. n \in NodeIds
  BY DEF NodeIds
<1>2. n \notin SettledIds
  BY DEF Paid, ActiveStatus, SettledIds, IdsWith
<1>3. Retired(p, {i}, "Settled") /\ Leaving(p, {i}, mint)
  BY <1>0, PaidRetired, PaidLeaving
<1>4. \A m \in NodeIds :
        /\ node'[m[1]][m[2]].status = IF m = n THEN "Settled" ELSE node[m[1]][m[2]].status
        /\ node'[m[1]][m[2]].allocation_usdc = node[m[1]][m[2]].allocation_usdc
        /\ node'[m[1]][m[2]].agent = node[m[1]][m[2]].agent
        /\ m \in SettledIds => left_behind'[m[1]][m[2]] = left_behind[m[1]][m[2]]
  <2>1. \A m \in NodeIds : /\ m[1] \in Pipelines /\ m[2] \in Indexes
                           /\ m = n <=> m[1] = p /\ m[2] \in {i}
    BY DEF NodeIds
  <2>2. \A m \in NodeIds :
          m \in SettledIds => left_behind'[m[1]][m[2]] = left_behind[m[1]][m[2]]
    BY <1>0, <1>3, <2>1, LeavingKeepsSettled DEF SettledIds, IdsWith
  <2> QED
    BY <1>3, <2>1, <2>2 DEF Retired
<1>5. SettledIds' = SettledIds \cup {n}
  BY <1>1, <1>4 DEF SettledIds, IdsWith
<1>6. \A a : SettledBy(a)' = IF a = agent THEN SettledBy(a) \cup {n} ELSE SettledBy(a)
  <2>1. node[n[1]][n[2]].agent = agent
    OBVIOUS
  <2> HIDE DEF n, agent
  <2> QED
    BY <1>1, <1>4, <1>5, <2>1, SettledIdsSubset DEF SettledBy
<1>7. /\ pipeline_config' = pipeline_config
      /\ agent_token_account' =
           [agent_token_account EXCEPT ![agent] = agent_token_account[agent] + ToAgent(amount)]
      /\ operator_treasury' =
           [operator_treasury EXCEPT ![operator] = operator_treasury[operator] + Fee(amount)]
  BY DEF Paid, Settle
<1>8. operator \in Keys
  BY <1>0 DEF TypeOK, ConfigAccount
<1>9. allocation \in Nat /\ allocation <= U64_MAX
  BY <1>0, U64Assumption DEF TypeOK, NodeAccount, Amounts
<1>10. amount \in Nat /\ amount <= allocation /\ amount \in Amounts
  <2> HIDE DEF allocation
  <2> QED
    BY <1>9, OwnMintBound, U64Assumption DEF Amounts
<1>11. paid[n] = amount
  <2>1. left_behind'[p][i] = allocation - amount
    <3>1. left_behind' = LeftBehind(p, {i}, mint)
      BY <1>3 DEF Leaving
    <3>2. \A j \in Indexes :
            left_behind'[p][j] = IF j \in {i}
                                 THEN Allocation(p)[j] - OwnMint(p, mint, Allocation(p)[j])
                                 ELSE left_behind[p][j]
      BY <1>0, <3>1, LeavingLeft
    <3>3. Allocation(p)[i] = allocation
      BY <1>0, AllocationTyped
    <3> QED
      BY <3>2, <3>3
  <2>2. node'[p][i].allocation_usdc = allocation
    BY <1>3 DEF Retired
  <2>3. paid[n] = node'[p][i].allocation_usdc - left_behind'[p][i]
    BY <1>1 DEF PaidOut, PaidOutFor
  <2> HIDE DEF n, paid, allocation, amount
  <2> QED
    BY <1>9, <1>10, <2>1, <2>2, <2>3
<1>12. fee[n] = Fee(amount) /\ net[n] = ToAgent(amount)
  BY <1>1, <1>7, <1>11 DEF FeeOf, NetOf, Fee, ToAgent
<1>13. /\ Fee(amount) \in Nat /\ ToAgent(amount) \in Nat
       /\ Fee(amount) <= amount /\ Fee(amount) \in Amounts /\ ToAgent(amount) \in Amounts
  <2>1. pipeline_config.fee_bps \in 0..BPS
    BY <1>0, FeeAssumption DEF TypeOK, ConfigAccount
  <2> HIDE DEF amount
  <2>2. Fee(amount) \in 0..amount
    BY <1>10, <2>1, ShareBound DEF Fee
  <2> QED
    BY <1>10, <2>2, U64Assumption DEF ToAgent, Amounts
<1>14. \A m \in SettledIds : paid[m] = PaidOut[m] /\ fee[m] = FeeOf[m] /\ net[m] = NetOf[m]
  BY <1>4, <1>7, SameShares, SettledIdsSubset
<1>15. \A m \in SettledIds' : PaidOut'[m] \in Amounts
  BY <1>5, <1>10, <1>11, <1>14 DEF PayoutInv
<1> DEFINE cost == Cost[n]
<1>16. \A m \in SettledIds \cup {n} : /\ fee[m] \in Nat /\ Cost[m] \in Nat
                                     /\ fee[m] <= Cost[m]
  <2>1. cost = allocation
    BY CostAt DEF Paid, OpenStatus
  <2>2. fee[n] \in Nat /\ cost \in Nat /\ fee[n] <= cost
    <3> HIDE DEF n, fee, cost, amount, allocation
    <3> QED
      BY <1>9, <1>10, <1>12, <1>13, <2>1
  <2>3. ASSUME NEW m \in SettledIds PROVE fee[m] \in Nat /\ Cost[m] \in Nat /\ fee[m] <= Cost[m]
    <3>1. m \in NodeIds /\ m = <<m[1], m[2]>> /\ m[1] \in Pipelines /\ m[2] \in Indexes
      BY <2>3, SettledIdsSubset, IdPairs
    <3>2. node[m[1]][m[2]].status = "Settled"
      BY <2>3 DEF SettledIds, IdsWith
    <3>3. Cost[m] = node[m[1]][m[2]].allocation_usdc
      BY <3>1, <3>2, CostAt
    <3>4. node[m[1]][m[2]].allocation_usdc \in Nat /\ left_behind[m[1]][m[2]] \in Nat
      BY <1>0, <3>1, U64Assumption DEF TypeOK, NodeAccount, Amounts
    <3>5. PaidOut[m] = node[m[1]][m[2]].allocation_usdc - left_behind[m[1]][m[2]]
      BY <3>1 DEF PaidOut, PaidOutFor
    <3>6. FeeOf[m] \in Nat /\ FeeOf[m] <= PaidOut[m]
      BY <1>0, <2>3, <3>1, SharesTyped DEF PayoutInv
    <3>7. fee[m] = FeeOf[m]
      BY <1>14, <2>3
    <3> HIDE DEF fee
    <3> QED
      BY <3>3, <3>4, <3>5, <3>6, <3>7
  <2> HIDE DEF n, fee
  <2> QED
    BY <2>2, <2>3 DEF cost
<1> HIDE DEF n, operator, agent, allocation, amount, fee, net, paid, cost
<1>20. \A a \in Agents : agent_token_account'[a] = Total(net, SettledBy(a)')
  <2> SUFFICES ASSUME NEW a \in Agents
               PROVE  agent_token_account'[a] = Total(net, SettledBy(a)')
    OBVIOUS
  <2>1. Total(net, SettledBy(a)) = Total(NetOf, SettledBy(a))
    <3>1. \A m \in SettledBy(a) : net[m] = NetOf[m]
      BY <1>14, SettledIdsSubset
    <3> QED
      BY <3>1, TotalSame
  <2>2. agent_token_account[a] = Total(NetOf, SettledBy(a))
    BY DEF PayoutInv
  <2>3. CASE a = agent
    <3>1. Total(net, SettledBy(a) \cup {n}) = Total(net, SettledBy(a)) + net[n]
      <4>1. n \notin SettledBy(a) /\ IsFiniteSet(SettledBy(a)) /\ net[n] \in Amounts
        BY <1>2, <1>12, <1>13, SettledIdsSubset
      <4> QED
        BY <4>1, TotalAddOne
    <3>2. agent_token_account'[a] = agent_token_account[a] + ToAgent(amount)
      BY <1>0, <1>7, <2>3 DEF TypeOK
    <3> QED
      BY <1>6, <1>12, <2>1, <2>2, <2>3, <3>1, <3>2
  <2>4. CASE a # agent
    <3>1. agent_token_account'[a] = agent_token_account[a]
      BY <1>0, <1>7, <2>4 DEF TypeOK
    <3> QED
      BY <1>6, <2>1, <2>2, <2>4, <3>1
  <2> QED
    BY <2>3, <2>4
<1>21. Total(fee, SettledIds \cup {n}) = Total(FeeOf, SettledIds) + Fee(amount)
  <2>1. Total(fee, SettledIds \cup {n}) = Total(fee, SettledIds) + fee[n]
    BY <1>2, <1>12, <1>13, SettledIdsSubset, TotalAddOne
  <2>2. Total(fee, SettledIds) = Total(FeeOf, SettledIds)
    BY <1>14, TotalSame
  <2> QED
    BY <1>12, <2>1, <2>2
\* What the operator holds stays within the supply.
<1>22. Total(FeeOf, SettledIds) + Fee(amount) <= U64_MAX
  <2> DEFINE S == SettledIds \cup {n}
             held == Total(consumer_token_account, Consumers)
             charged == Total(Cost, NodeIds)
             supply == Cardinality(Consumers) * Budget
  <2>1. IsFiniteSet(S) /\ S \subseteq NodeIds /\ IsFiniteSet(NodeIds)
    BY <1>1, SettledIdsSubset, NodeIdsFinite
  <2>2. Total(fee, S) <= Total(Cost, S)
    BY <1>16, <2>1, TotalMonotone
  <2>3. Total(Cost, S) <= charged
    BY <2>1, TotalDifference
  <2>4. held + charged = supply /\ supply <= U64_MAX /\ held \in Nat
    <3>1. IdsIn(Pipelines) = NodeIds
      BY DEF IdsIn, NodeIds
    <3> QED
      BY <3>1, SupplyAssumption, TotalType DEF ConsumerInv, Supply, Charge
  <2>5. Total(fee, S) \in Nat /\ Total(Cost, S) \in Nat /\ charged \in Nat
    BY <2>1, TotalType
  <2>6. Total(fee, S) = Total(FeeOf, SettledIds) + Fee(amount)
    BY <1>21
  <2> HIDE DEF S, held, charged, supply
  <2>7. Total(fee, S) <= U64_MAX
    BY <2>2, <2>3, <2>4, <2>5, U64Assumption
  <2> QED
    BY <2>6, <2>7
<1> DEFINE treasury == operator_treasury
           after == operator_treasury'
<1>23. /\ treasury \in [Keys -> Nat] /\ \A k \in Keys : treasury[k] \in Amounts
       /\ Total(treasury, Keys) = Total(FeeOf, SettledIds)
  BY <1>0 DEF TypeOK, PayoutInv
<1>24. after = [treasury EXCEPT ![operator] = treasury[operator] + Fee(amount)]
  BY <1>7
<1> HIDE DEF treasury, after
<1>25. /\ after[operator] = treasury[operator] + Fee(amount)
       /\ \A k \in Keys \ {operator} : after[k] = treasury[k]
  BY <1>8, <1>23, <1>24
<1>26. after[operator] \in Amounts
  <2>1. treasury[operator] <= Total(treasury, Keys) /\ treasury[operator] \in Nat
    BY <1>8, <1>23, SupplyAssumption, TotalRemoveOne
  <2>2. Total(FeeOf, SettledIds) \in Nat
    BY SettledIdsSubset, TotalType
  <2> QED
    BY <1>13, <1>22, <1>23, <1>25, <2>1, <2>2, U64Assumption DEF Amounts
<1>27. \A k \in Keys : after[k] \in Amounts
  BY <1>23, <1>25, <1>26
<1>28. Total(after, Keys) = Total(treasury, Keys) + Fee(amount)
  <2>1. Total(after, Keys) = Total(treasury, Keys) - treasury[operator] + after[operator]
    BY <1>8, <1>23, <1>25, <1>26, SupplyAssumption, TotalChangeOne
  <2>2. Total(treasury, Keys) \in Nat /\ treasury[operator] \in Nat
    BY <1>8, <1>23, SupplyAssumption, TotalType
  <2> QED
    BY <1>13, <1>25, <2>1, <2>2
<1> QED
  BY <1>5, <1>15, <1>20, <1>21, <1>23, <1>27, <1>28 DEF PayoutInv, after, fee, net

LEMMA PayoutPreserved ==
  ASSUME CancelListsEveryNode
  PROVE  LedgerInv /\ ConsumerInv /\ PayoutInv /\ [Next]_vars => PayoutInv'
<1> SUFFICES ASSUME LedgerInv, ConsumerInv, PayoutInv, [Next]_vars PROVE PayoutInv'
  OBVIOUS
<1>1. TypeOK
  BY DEF LedgerInv
<1> QED
  BY <1>1, StepKinds, OthersKeepSettled, KeptPayout, PaidPayout

\* Every agent has received what left the vaults, minus fees, for exactly the nodes it
\* settled, the operators together the fees of exactly the settled nodes.
THEOREM PayoutsCorrect ==
  ASSUME CancelListsEveryNode
  PROVE  Spec => []PayoutsMatchSettledWork
<1>1. Init => LedgerInv /\ ConsumerInv /\ PayoutInv
  BY InitLedger, InitConsumer, InitPayout
<1>2. LedgerInv /\ ConsumerInv /\ PayoutInv /\ [Next]_vars
        => LedgerInv' /\ ConsumerInv' /\ PayoutInv'
  BY LedgerPreserved, ConsumerPreserved, PayoutPreserved
<1>3. PayoutInv => PayoutsMatchSettledWork
  BY PayoutInvImplies
<1> QED
  BY <1>1, <1>2, <1>3, PTL DEF Spec

-----------------------------------------------------------------------------
(***************************************************************************)
(* Every instruction is a step of the abstract escrow or none of its        *)
(* business.                                                                *)
(***************************************************************************)

(***************************************************************************)
(* The abstract state.  Lot is what a node account, and what the vault      *)
(* holds for it, mean to the promise.                                       *)
(***************************************************************************)
Ending(fate, amount) == [fate |-> fate, amount |-> amount, needs |-> {}]

Lot(n, amount) ==
  IF n.status \in OpenStatus
  THEN [fate |-> "held", amount |-> amount, needs |-> n.dependency_mask]
  ELSE Ending(Fate(n.status), amount)

LotAt(p, i) == Lot(node[p][i], Locked(p)[i])

LEMMA LotsOfNodes ==
  /\ Lots = [p \in Pipelines |-> [i \in Indexes |-> LotAt(p, i)]]
  /\ Lots' = [p \in Pipelines |-> [i \in Indexes |-> LotAt(p, i)']]
<1>1. \A p, i : LotAt(p, i) =
        [fate |-> Fate(node[p][i].status), amount |-> Locked(p)[i],
         needs |-> IF node[p][i].status \in OpenStatus THEN node[p][i].dependency_mask ELSE {}]
  BY DEF LotAt, Lot, Ending, Fate, OpenStatus, ActiveStatus
<1>2. \A p, i : LotAt(p, i)' =
        [fate |-> Fate(node'[p][i].status), amount |-> Locked(p)'[i],
         needs |-> IF node'[p][i].status \in OpenStatus THEN node'[p][i].dependency_mask
                                                        ELSE {}]
  BY DEF LotAt, Lot, Ending, Fate, OpenStatus, ActiveStatus
<1>3. Lots = [p \in Pipelines |-> [i \in Indexes |-> LotAt(p, i)]]
  BY <1>1 DEF Lots
<1>4. Lots' = [p \in Pipelines |-> [i \in Indexes |-> LotAt(p, i)']]
  BY <1>2 DEF Lots
<1> QED
  BY <1>3, <1>4

LEMMA Fates ==
  /\ Fate("Absent") = "none" /\ Fate("Settled") = "paid"
  /\ Fate("Expired") = "refunded" /\ Fate("Closed") = "refunded"
<1>1. /\ "Absent" \notin OpenStatus /\ "Settled" \notin OpenStatus
      /\ "Expired" \notin OpenStatus /\ "Closed" \notin OpenStatus
  BY DEF OpenStatus, ActiveStatus
<1> QED
  BY <1>1 DEF Fate

LEMMA LotCases ==
  ASSUME NEW n, NEW amount
  PROVE  /\ n.status \in OpenStatus =>
              Lot(n, amount) =
                [fate |-> "held", amount |-> amount, needs |-> n.dependency_mask]
         /\ n.status = "Absent" => Lot(n, amount) = Ending("none", amount)
         /\ n.status = "Settled" => Lot(n, amount) = Ending("paid", amount)
         /\ n.status \in {"Expired", "Closed"} => Lot(n, amount) = Ending("refunded", amount)
<1>1. /\ "Absent" \notin OpenStatus /\ "Settled" \notin OpenStatus
      /\ "Expired" \notin OpenStatus /\ "Closed" \notin OpenStatus
  BY DEF OpenStatus, ActiveStatus
<1> QED
  BY <1>1, Fates DEF Lot

LEMMA NothingLeftOver == \A fate : Ending(fate, 0) = Promise!Emptied(fate)
BY DEF Ending, Promise!Emptied

\* The promise sums and rounds as the code does.
LEMMA PromiseTotal == \A f, S : Promise!Total(f, S) = Total(f, S)
BY DEF Promise!Total, Promise!Units, Total, Units, Promise!Cardinality, Cardinality,
       Promise!IsFiniteSet, IsFiniteSet

LEMMA PromiseShare == \A a : Promise!Share(a) = Fee(a)
BY DEF Promise!Share, Promise!ShareOf, Promise!BPS, Fee, ShareOf, BPS

LEMMA LotOf ==
  ASSUME NEW p \in Pipelines, NEW i \in Indexes
  PROVE  Lots[p][i] = Lot(node[p][i], Locked(p)[i])
BY LotsOfNodes DEF LotAt

(***************************************************************************)
(* Work is none of the promise's business.                                  *)
(***************************************************************************)
LEMMA WorkedStutters ==
  ASSUME Worked
  PROVE  UNCHANGED Promise!pvars
<1>1. \A p \in Pipelines, i \in Indexes :
        /\ node'[p][i].allocation_usdc = node[p][i].allocation_usdc
        /\ node'[p][i].dependency_mask = node[p][i].dependency_mask
        /\ \/ node'[p][i].status = node[p][i].status
           \/ node[p][i].status \in OpenStatus /\ node'[p][i].status \in OpenStatus
  BY DEF Worked, OpenStatus
<1>2. left_behind' = left_behind /\ UNCHANGED wallets
      /\ pipeline_config'.fee_bps = pipeline_config.fee_bps
  BY DEF Worked
<1>3. \A p \in Pipelines : Locked(p)' = Locked(p)
  BY <1>1, <1>2 DEF Locked, Allocation
<1>4. \A p \in Pipelines, i \in Indexes : LotAt(p, i)' = LotAt(p, i)
  BY <1>1, <1>3 DEF LotAt, Lot
<1>5. Lots' = Lots
  BY <1>4, LotsOfNodes
<1> QED
  BY <1>2, <1>5 DEF Promise!pvars, wallets

(***************************************************************************)
(* Payments and refunds.  LotsEnd is what happens to the lots of nodes that *)
(* leave.                                                                   *)
(***************************************************************************)
LotsEnd(p, R, mint, fate) ==
  Lots' = [Lots EXCEPT ![p] = [j \in Indexes |->
    IF j \in R THEN Ending(fate, Allocation(p)[j] - OwnMint(p, mint, Allocation(p)[j]))
               ELSE Lots[p][j]]]

LEMMA LeavingHeld ==
  ASSUME TypeOK, NEW p \in Pipelines, NEW mint, NEW R, Leaving(p, R, mint)
  PROVE  \A j \in R : /\ j \in Indexes /\ Allocation(p)[j] \in Nat
                      /\ Lots[p][j].fate = "held" /\ Lots[p][j].amount = Allocation(p)[j]
<1> SUFFICES ASSUME NEW j \in R
             PROVE  /\ j \in Indexes /\ Allocation(p)[j] \in Nat
                    /\ Lots[p][j].fate = "held" /\ Lots[p][j].amount = Allocation(p)[j]
  OBVIOUS
<1>1. j \in Indexes /\ Locked(p)[j] = Allocation(p)[j] /\ Allocation(p)[j] \in Nat
  BY LeavingLocked, AllocationTyped
<1>2. node[p][j].status \in OpenStatus
  BY DEF Leaving, OpenNodes, NodesWith
<1> QED
  BY <1>1, <1>2, LotOf, LotCases

LEMMA LotsLeave ==
  ASSUME TypeOK, NEW p \in Pipelines, NEW mint, NEW R, Leaving(p, R, mint), Elsewhere(p),
         NEW status \in {"Settled", "Expired", "Closed"},
         \A j \in R : node'[p][j].status = status,
         \A j \in Indexes \ R : node'[p][j].dependency_mask = node[p][j].dependency_mask
  PROVE  LotsEnd(p, R, mint, Fate(status))
<1> DEFINE left == [j \in Indexes |-> Allocation(p)[j] - OwnMint(p, mint, Allocation(p)[j])]
           fate == Fate(status)
<1>1. ASSUME NEW q \in Pipelines \ {p}, NEW j \in Indexes
      PROVE  LotAt(q, j)' = LotAt(q, j)
  BY DEF Elsewhere, LotAt, Lot, Locked, Allocation
<1>2. ASSUME NEW j \in Indexes
      PROVE  LotAt(p, j)' = IF j \in R THEN Ending(fate, left[j]) ELSE LotAt(p, j)
  <2>1. Locked(p)'[j] = IF j \in R THEN left[j] ELSE Locked(p)[j]
    BY LeavingLocked
  <2> HIDE DEF left
  <2>2. CASE j \in R
    <3>1. node'[p][j].status = status
      BY <2>2
    <3> QED
      BY <2>1, <2>2, <3>1, LotCases, Fates DEF LotAt
  <2>3. CASE j \notin R
    <3>1. node'[p][j].status = node[p][j].status
      BY <2>3 DEF Leaving
    <3> QED
      BY <2>1, <2>3, <3>1 DEF LotAt, Lot
  <2> QED
    BY <2>2, <2>3
<1> HIDE DEF left, fate
<1>3. Lots = [q \in Pipelines |-> [j \in Indexes |-> LotAt(q, j)]]
      /\ Lots' = [q \in Pipelines |-> [j \in Indexes |-> LotAt(q, j)']]
  BY LotsOfNodes
<1>4. Lots'[p] = [j \in Indexes |-> IF j \in R THEN Ending(fate, left[j]) ELSE Lots[p][j]]
  BY <1>2, <1>3
<1>5. \A q \in Pipelines \ {p} : Lots'[q] = Lots[q]
  BY <1>1, <1>3
<1>6. Lots' = [Lots EXCEPT ![p] =
        [j \in Indexes |-> IF j \in R THEN Ending(fate, left[j]) ELSE Lots[p][j]]]
  BY <1>3, <1>4, <1>5
<1> QED
  BY <1>6 DEF LotsEnd, left, fate

\* Lots that end in their own mint are empty.
LEMMA LotsEmptied ==
  ASSUME TypeOK, NEW p \in Pipelines, NEW R, NEW fate, Leaving(p, R, MintOf[p]),
         LotsEnd(p, R, MintOf[p], fate)
  PROVE  Lots' = [Lots EXCEPT ![p] =
           [j \in Indexes |-> IF j \in R THEN Promise!Emptied(fate) ELSE Lots[p][j]]]
<1> DEFINE own == MintOf[p]
           left == [j \in Indexes |-> Allocation(p)[j] - OwnMint(p, own, Allocation(p)[j])]
<1>1. \A j \in R : j \in Indexes /\ Allocation(p)[j] \in Nat
  <2> HIDE DEF own
  <2> QED
    BY LeavingHeld DEF own
<1>2. \A j \in R : OwnMint(p, own, Allocation(p)[j]) = Allocation(p)[j]
  BY DEF OwnMint
<1>3. \A j \in R : left[j] = 0
  BY <1>1, <1>2
<1>4. Lots' = [Lots EXCEPT ![p] =
        [j \in Indexes |-> IF j \in R THEN Ending(fate, left[j]) ELSE Lots[p][j]]]
  BY DEF LotsEnd
<1> HIDE DEF left
<1>5. \A j \in Indexes : (IF j \in R THEN Ending(fate, left[j]) ELSE Lots[p][j])
                        = IF j \in R THEN Promise!Emptied(fate) ELSE Lots[p][j]
  BY <1>3, NothingLeftOver
<1> QED
  BY <1>4, <1>5

\* Lots that end in another mint keep what they hold.
LEMMA LotsKept ==
  ASSUME TypeOK, NEW p \in Pipelines, NEW mint, mint # MintOf[p], NEW R, NEW fate,
         Leaving(p, R, mint), LotsEnd(p, R, mint, fate), UNCHANGED pipeline_config,
         UNCHANGED wallets
  PROVE  Promise!Keep(p, R, fate)
<1> DEFINE left == [j \in Indexes |-> Allocation(p)[j] - OwnMint(p, mint, Allocation(p)[j])]
<1>1. \A j \in R : left[j] = Lots[p][j].amount
  <2> SUFFICES ASSUME NEW j \in R PROVE left[j] = Lots[p][j].amount
    OBVIOUS
  <2>1. j \in Indexes /\ Allocation(p)[j] \in Nat /\ Lots[p][j].amount = Allocation(p)[j]
    BY LeavingHeld
  <2> QED
    BY <2>1 DEF OwnMint
<1>2. Lots' = [Lots EXCEPT ![p] =
        [j \in Indexes |-> IF j \in R THEN Ending(fate, left[j]) ELSE Lots[p][j]]]
  BY DEF LotsEnd
<1> HIDE DEF left
<1>3. \A j \in Indexes : (IF j \in R THEN Ending(fate, left[j]) ELSE Lots[p][j])
        = IF j \in R THEN [fate |-> fate, amount |-> Lots[p][j].amount, needs |-> {}]
                     ELSE Lots[p][j]
  BY <1>1 DEF Ending
<1>4. Lots' = [Lots EXCEPT ![p] = [j \in Indexes |->
        IF j \in R THEN [fate |-> fate, amount |-> Lots[p][j].amount, needs |-> {}]
                   ELSE Lots[p][j]]]
  BY <1>2, <1>3
<1> QED
  BY <1>4 DEF Promise!Keep, wallets

\* No wallet moves where nothing is paid.
LEMMA NothingMoves ==
  ASSUME NEW S, NEW f \in [S -> Nat], NEW x
  PROVE  [f EXCEPT ![x] = @ + 0] = f
OBVIOUS

LEMMA PaidDue ==
  ASSUME TypeOK, OrderInv, NEW p \in Pipelines, NEW mint, NEW i \in Indexes, Paid(p, i, mint)
  PROVE  Promise!Due(p, i)
<1>1. /\ Lots[p][i].fate = "held"
      /\ Lots[p][i].needs = node[p][i].dependency_mask
  BY LotOf, LotCases DEF Paid, OpenStatus
<1>2. \A j \in node[p][i].dependency_mask : Lots[p][j].fate = "paid"
  <2> SUFFICES ASSUME NEW j \in node[p][i].dependency_mask PROVE Lots[p][j].fate = "paid"
    OBVIOUS
  <2>1. j \in pipeline[p].settled_mask
    BY DEF OrderInv, WorkFollowsMask, Paid
  <2>2. j \in Indexes
    BY <2>1 DEF TypeOK, PipelineAccount
  <2>3. node[p][j].status = "Settled"
    BY <2>1, <2>2 DEF OrderInv, MaskNamesSettled
  <2> QED
    BY <2>2, <2>3, LotOf, LotCases DEF Ending
<1> QED
  BY <1>1, <1>2 DEF Promise!Due, Promise!Held

LEMMA PaidLots ==
  ASSUME TypeOK, NEW p \in Pipelines, NEW mint, NEW i \in Indexes, Paid(p, i, mint)
  PROVE  LotsEnd(p, {i}, mint, "paid")
<1>1. Retired(p, {i}, "Settled") /\ Leaving(p, {i}, mint) /\ Elsewhere(p)
  BY PaidRetired, PaidLeaving, StepsElsewhere
<1>2. /\ \A j \in {i} : node'[p][j].status = "Settled"
      /\ \A j \in Indexes \ {i} : node'[p][j].dependency_mask = node[p][j].dependency_mask
  BY <1>1 DEF Retired
<1> QED
  BY <1>1, <1>2, LotsLeave, Fates

LEMMA PaidPays ==
  ASSUME TypeOK, OrderInv, NEW p \in Pipelines, NEW i \in Indexes, Paid(p, i, MintOf[p]),
         node[p][i].agent \in Agents
  PROVE  Promise!Pay(p, i, node[p][i].agent, pipeline_config.operator)
<1> DEFINE agent == node[p][i].agent
           amount == node[p][i].allocation_usdc
<1>1. Promise!Due(p, i) /\ Leaving(p, {i}, MintOf[p]) /\ LotsEnd(p, {i}, MintOf[p], "paid")
  BY PaidDue, PaidLeaving, PaidLots
<1>2. Lots[p][i].amount = amount
  <2>1. Lots[p][i].amount = Allocation(p)[i]
    BY <1>1, LeavingHeld
  <2> QED
    BY <2>1, AllocationTyped
<1>3. Lots' = [Lots EXCEPT ![p][i] = Promise!Emptied("paid")]
  <2> DEFINE empty == Promise!Emptied("paid")
             lots == Lots
  <2>1. Lots' = [lots EXCEPT ![p] =
          [j \in Indexes |-> IF j \in {i} THEN empty ELSE lots[p][j]]]
    BY <1>1, LotsEmptied
  <2>2. /\ lots = [q \in Pipelines |-> lots[q]]
        /\ \A q \in Pipelines : lots[q] = [j \in Indexes |-> lots[q][j]]
    BY DEF Lots
  <2> HIDE DEF empty, lots
  <2>3. [lots EXCEPT ![p][i] = empty] =
          [lots EXCEPT ![p] = [j \in Indexes |-> IF j \in {i} THEN empty ELSE lots[p][j]]]
    BY <2>2
  <2> QED
    BY <2>1, <2>3 DEF empty, lots
<1>4. amount \in Nat /\ Fee(amount) \in Nat /\ agent_token_account[agent] \in Nat
  <2>1. amount \in Amounts
    BY DEF TypeOK, NodeAccount
  <2> QED
    BY <2>1, FeeBound, U64Assumption DEF TypeOK, Amounts
<1>5. OwnMint(p, MintOf[p], amount) = amount
  BY DEF OwnMint
<1>6. agent_token_account' = [agent_token_account EXCEPT ![agent] = @ + amount - Fee(amount)]
  <2>1. agent_token_account' = [agent_token_account EXCEPT ![agent] = @ + ToAgent(amount)]
    BY <1>5 DEF Paid, Settle
  <2>2. agent_token_account[agent] + ToAgent(amount) =
          agent_token_account[agent] + amount - Fee(amount)
    BY <1>4 DEF ToAgent
  <2> QED
    BY <2>1, <2>2
<1>7. /\ operator_treasury' =
           [operator_treasury EXCEPT ![pipeline_config.operator] = @ + Fee(amount)]
      /\ UNCHANGED <<pipeline_config, consumer_token_account>>
  BY <1>5 DEF Paid, Settle
<1> HIDE DEF agent, amount
<1>8. Promise!Pay(p, i, agent, pipeline_config.operator)
  BY <1>1, <1>2, <1>3, <1>6, <1>7, PromiseShare DEF Promise!Pay
<1> QED
  BY <1>8 DEF agent

\* A payment in another mint pays nobody.
LEMMA PaidElsewhere ==
  ASSUME TypeOK, OrderInv, NEW p \in Pipelines, NEW mint, mint # MintOf[p],
         NEW i \in Indexes, Paid(p, i, mint), node[p][i].agent \in Agents
  PROVE  Promise!PayElsewhere(p, i)
<1>1. Promise!Due(p, i) /\ Leaving(p, {i}, mint) /\ LotsEnd(p, {i}, mint, "paid")
  BY PaidDue, PaidLeaving, PaidLots
<1>2. OwnMint(p, mint, node[p][i].allocation_usdc) = 0 /\ 0 \in Amounts
  BY U64Assumption DEF OwnMint, Amounts
<1>3. Fee(0) = 0
  BY FeeBound DEF ToAgent
<1>4. ToAgent(0) = 0
  BY <1>3 DEF ToAgent
<1>5. /\ agent_token_account \in [Agents -> Nat] /\ operator_treasury \in [Keys -> Nat]
      /\ pipeline_config.operator \in Keys
  BY DEF TypeOK, ConfigAccount
<1>6. agent_token_account' = agent_token_account /\ operator_treasury' = operator_treasury
  BY <1>2, <1>3, <1>4, <1>5, NothingMoves DEF Paid, Settle
<1>7. UNCHANGED pipeline_config /\ UNCHANGED wallets
  BY <1>6 DEF Paid, Settle, wallets
<1> QED
  BY <1>1, <1>7, LotsKept DEF Promise!PayElsewhere

LEMMA LotsReturned ==
  ASSUME TypeOK, NEW p \in Pipelines, NEW mint, NEW R, R # {}, Leaving(p, R, mint),
         LotsEnd(p, R, mint, "refunded"), Refund(p, R, Total(Allocation(p), R), mint),
         UNCHANGED pipeline_config
  PROVE  \/ Promise!ReturnLots(p, R)
         \/ Promise!ReturnElsewhere(p, R)
<1>1. R \in SUBSET Indexes
  BY LeavingLocked
<1>2. R \subseteq Promise!Held(p)
  BY <1>1, LeavingHeld DEF Promise!Held
<1>3. ASSUME mint = MintOf[p]
      PROVE  Promise!ReturnLots(p, R)
  <2> DEFINE amount == [i \in Indexes |-> Lots[p][i].amount]
             allocated == Allocation(p)
  <2>1. \A i \in R : amount[i] = allocated[i]
    BY <1>1, LeavingHeld
  <2> HIDE DEF amount, allocated
  <2>2. Promise!Total(amount, R) = Total(allocated, R)
    BY <2>1, TotalSame, PromiseTotal
  <2>3. Lots' = [Lots EXCEPT ![p] =
          [i \in Indexes |-> IF i \in R THEN Promise!Emptied("refunded") ELSE Lots[p][i]]]
    BY <1>3, LotsEmptied
  <2>4. /\ consumer_token_account' = [consumer_token_account EXCEPT
             ![ConsumerOf[p]] = @ + Total(allocated, R)]
        /\ UNCHANGED <<agent_token_account, operator_treasury>>
    BY <1>3 DEF Refund, OwnMint, allocated
  <2> QED
    BY <1>2, <2>2, <2>3, <2>4 DEF Promise!ReturnLots, amount
<1>4. ASSUME mint # MintOf[p]
      PROVE  Promise!ReturnElsewhere(p, R)
  <2>1. /\ consumer_token_account \in [Consumers -> Nat] /\ ConsumerOf[p] \in Consumers
    BY PartiesAssumption DEF TypeOK
  <2>2. consumer_token_account' = consumer_token_account
    BY <1>4, <2>1, NothingMoves DEF Refund, OwnMint
  <2>3. UNCHANGED wallets
    BY <2>2 DEF Refund, wallets
  <2> QED
    BY <1>2, <1>4, <2>3, LotsKept DEF Promise!ReturnElsewhere
<1> QED
  BY <1>3, <1>4

LEMMA ReturnedReturns ==
  ASSUME TypeOK, NEW p \in Pipelines, NEW mint, NEW R \in SUBSET Indexes, Returned(p, R, mint)
  PROVE  \/ Promise!ReturnLots(p, R)
         \/ Promise!ReturnElsewhere(p, R)
<1>1. Retired(p, R, "Expired") /\ Leaving(p, R, mint) /\ Elsewhere(p)
  BY ReturnedRetired, ReturnedLeaving, StepsElsewhere
<1>2. /\ \A j \in R : node'[p][j].status = "Expired"
      /\ \A j \in Indexes \ R : node'[p][j].dependency_mask = node[p][j].dependency_mask
  BY <1>1 DEF Retired
<1>3. LotsEnd(p, R, mint, "refunded")
  BY <1>1, <1>2, LotsLeave, Fates
<1>4. R # {} /\ Refund(p, R, Total(Allocation(p), R), mint) /\ UNCHANGED pipeline_config
  BY DEF Returned
<1> QED
  BY <1>1, <1>3, <1>4, LotsReturned

\* A cancel returns every lot, as much as the vault holds.
LEMMA CancelledReturns ==
  ASSUME LedgerInv, CancelListsEveryNode, NEW p \in Pipelines, NEW mint, NEW consumer,
         NEW listed \in CancelLists(p), CancelPipeline(p, consumer, listed, mint)
  PROVE  \/ Promise!ReturnLots(p, listed)
         \/ Promise!ReturnElsewhere(p, listed)
<1>1. TypeOK /\ SummaryInv /\ AbsentHoldNothing /\ Backed(p)
  BY BackedPipelines DEF LedgerInv
<1>2. /\ listed = ExistingNodes(p) /\ Leaving(p, listed, mint)
      /\ Total(Locked(p), Indexes) = Total(Allocation(p), listed)
  BY <1>1, CancelledLeaving
<1>3. /\ listed # {}
      /\ \A i \in Indexes : node'[p][i] = IF i \in listed THEN NoNode("Closed") ELSE node[p][i]
  BY <1>1, <1>2, CancelledNodes
<1>4. Elsewhere(p)
  BY <1>1, StepsElsewhere
<1>5. \A j \in listed : node'[p][j].status = "Closed"
  BY <1>2, <1>3, PendingNodeFields DEF ExistingNodes
<1>6. LotsEnd(p, listed, mint, "refunded")
  <2>1. \A j \in Indexes \ listed : node'[p][j].dependency_mask = node[p][j].dependency_mask
    BY <1>3
  <2> QED
    BY <1>1, <1>2, <1>4, <1>5, <2>1, LotsLeave, Fates
<1>7. Refund(p, listed, Total(Allocation(p), listed), mint) /\ UNCHANGED pipeline_config
  BY <1>1, <1>2 DEF CancelPipeline, Backed
<1> QED
  BY <1>1, <1>2, <1>3, <1>6, <1>7, LotsReturned

(***************************************************************************)
(* A pipeline is locked once                                                *)
(***************************************************************************)
LEMMA AbsentPipelineHasNoLots ==
  ASSUME SummaryInv, AbsentHoldNothing, NEW p \in Pipelines, pipeline[p].status = "Absent"
  PROVE  \A i \in Indexes : Lots[p][i] = Promise!Emptied("none")
<1> SUFFICES ASSUME NEW i \in Indexes PROVE Lots[p][i] = Promise!Emptied("none")
  OBVIOUS
<1>1. node[p][i].status = "Absent" /\ left_behind[p][i] = 0
  BY NothingBefore
<1>2. Locked(p)[i] = 0
  BY <1>1 DEF Locked, OpenStatus, ActiveStatus
<1> QED
  BY <1>1, <1>2, LotOf, LotCases, NothingLeftOver

\* The lots of a new pipeline: one for each node configuration.
LEMMA CreatedLots ==
  ASSUME LedgerInv, NEW p \in Pipelines, NEW node_configs \in NodeConfigLists,
         CreatePipeline(p, node_configs), NEW i \in Indexes
  PROVE  IF i \in 0..(Len(node_configs) - 1)
         THEN /\ Lots'[p][i].fate = "held"
              /\ Lots'[p][i].amount = Allocation(p)'[i]
              /\ Lots'[p][i].needs = node_configs[i + 1].dependency_mask
         ELSE Lots'[p][i] = Promise!Emptied("none")
<1> DEFINE N == 0..(Len(node_configs) - 1)
           locked == Locked(p)'[i]
<1>1. TypeOK /\ SummaryInv /\ AbsentHoldNothing
  BY DEF LedgerInv
<1>2. Lots'[p][i] = Lot(node'[p][i], locked)
  BY LotsOfNodes DEF LotAt
<1>3. /\ left_behind'[p][i] = 0
      /\ i \in N => node'[p][i].status = "Pending"
      /\ i \notin N => node'[p][i].status = "Absent"
  BY <1>1, CreatedState
<1>4. locked = IF node'[p][i].status \in OpenStatus THEN Allocation(p)'[i]
                                                    ELSE left_behind'[p][i]
  BY DEF Locked
<1>5. i \in N => node'[p][i] = PendingNode(node_configs[i + 1])
  BY <1>1, CreatedNodes DEF Indexes
<1> HIDE DEF N, locked
<1>6. CASE i \in N
  <2>1. node'[p][i].status \in OpenStatus
    BY <1>3, <1>6 DEF OpenStatus
  <2>2. node'[p][i].dependency_mask = node_configs[i + 1].dependency_mask
    BY <1>5, <1>6, PendingNodeFields
  <2> QED
    BY <1>2, <1>4, <1>6, <2>1, <2>2, LotCases DEF N
<1>7. CASE i \notin N
  <2>1. locked = 0
    BY <1>3, <1>4, <1>7 DEF OpenStatus, ActiveStatus
  <2> QED
    BY <1>2, <1>3, <1>7, <2>1, LotCases, NothingLeftOver DEF N
<1> QED
  BY <1>6, <1>7

\* Nothing is locked outside of the nodes.
LEMMA LockedTotal ==
  ASSUME LedgerInv, NEW p \in Pipelines, NEW node_configs \in NodeConfigLists,
         CreatePipeline(p, node_configs)
  PROVE  Promise!Total([i \in Indexes |-> Lots'[p][i].amount], Indexes) =
           TotalLocked(node_configs)
<1> DEFINE amount == [i \in Indexes |-> Lots'[p][i].amount]
<1>1. \A i \in Indexes :
        amount[i] = IF i \in 0..(Len(node_configs) - 1) THEN Allocation(p)'[i] ELSE 0
  BY CreatedLots DEF Promise!Emptied
<1>2. TypeOK
  BY DEF LedgerInv
<1> HIDE DEF amount
<1>3. Total(amount, Indexes) = TotalLocked(node_configs)
  BY <1>1, <1>2, CreatedRow
<1> QED
  BY <1>3, PromiseTotal DEF amount

LEMMA CreatedLocks ==
  ASSUME LedgerInv, NEW p \in Pipelines, NEW node_configs \in NodeConfigLists,
         CreatePipeline(p, node_configs)
  PROVE  Promise!Lock(p)
<1> DEFINE n == Len(node_configs)
           N == 0..(n - 1)
<1>1. TypeOK /\ SummaryInv /\ AbsentHoldNothing
  BY DEF LedgerInv
<1>2. \A i \in Indexes : Lots[p][i].fate = "none"
  BY <1>1, AbsentPipelineHasNoLots DEF CreatePipeline, Promise!Emptied
<1>3. Lots' = [Lots EXCEPT ![p] = [i \in Indexes |-> Lots'[p][i]]]
  <2>1. Elsewhere(p)
    BY <1>1, StepsElsewhere
  <2>2. \A q \in Pipelines \ {p}, j \in Indexes : LotAt(q, j)' = LotAt(q, j)
    BY <2>1 DEF Elsewhere, LotAt, Lot, Locked, Allocation
  <2> QED
    BY <2>2, LotsOfNodes
<1>4. ASSUME NEW i \in Indexes
      PROVE  \/ Lots'[p][i] = Promise!Emptied("none")
             \/ /\ Lots'[p][i].fate = "held"
                /\ Lots'[p][i].needs \subseteq {j \in 0..(i - 1) : Lots'[p][j].fate = "held"}
  <2>1. CASE i \notin N
    BY <2>1, CreatedLots
  <2>2. CASE i \in N
    <3>1. n \in Nat /\ DOMAIN node_configs = 1..n /\ N \subseteq Indexes
      BY <1>1, ArgumentsAssumption, CreatedNodes
    <3> HIDE DEF n
    <3>2. i + 1 \in 1..n /\ (i + 1) - 2 = i - 1
      BY <2>2, <3>1
    <3>3. node_configs[i + 1].dependency_mask \subseteq 0..(i - 1)
      BY <3>1, <3>2 DEF CreatePipeline, ValidDag
    <3>4. \A j \in 0..(i - 1) : j \in Indexes /\ j \in N
      BY <2>2, <3>1
    <3>5. \A j \in 0..(i - 1) : Lots'[p][j].fate = "held"
      BY <3>4, CreatedLots DEF n
    <3>6. /\ Lots'[p][i].fate = "held"
          /\ Lots'[p][i].needs = node_configs[i + 1].dependency_mask
      BY <2>2, CreatedLots DEF n
    <3> QED
      BY <3>3, <3>5, <3>6
  <2> QED
    BY <2>1, <2>2
<1> DEFINE locked == TotalLocked(node_configs)
<1>5. /\ locked > 0 /\ locked <= consumer_token_account[ConsumerOf[p]]
      /\ consumer_token_account' =
           [consumer_token_account EXCEPT ![ConsumerOf[p]] = @ - locked]
      /\ UNCHANGED <<pipeline_config, agent_token_account, operator_treasury>>
  BY DEF CreatePipeline
<1>6. Promise!Total([i \in Indexes |-> Lots'[p][i].amount], Indexes) = locked
  BY LockedTotal
<1> HIDE DEF locked
<1> QED
  BY <1>2, <1>3, <1>4, <1>5, <1>6 DEF Promise!Lock

(***************************************************************************)
(* Jobs.  A node that has an agent is a job: opened by claim_node, ended by *)
(* the five instructions that settle or expire a claimed node.  A pending   *)
(* node has none, nor has one that expires before it is claimed.            *)
(***************************************************************************)
JobSound(n, p, i) ==
  /\ n.status \in ActiveStatus \cup {"Settled"} => n.agent \in Agents
  /\ n.status \in {"Pending", "Absent", "Closed"} => n.agent = Nobody
  /\ n.agent = Nobody => n.job_id = NoJob
  /\ n.agent # Nobody => \E s \in Slots : n.job_id = <<p, i, n.agent, s>>

JobInv == \A p \in Pipelines, i \in Indexes : JobSound(node[p][i], p, i)

\* The job of node n, if it has one, is where it was.
SameJob(m, n) ==
  /\ m.agent = n.agent /\ m.job_id = n.job_id
  /\ n.agent = Nobody => m.status \notin ActiveStatus \cup {"Settled"}
  /\ n.agent # Nobody => /\ m.status \in ActiveStatus <=> n.status \in ActiveStatus
                         /\ m.status = "Settled" <=> n.status = "Settled"
                         /\ m.status = "Expired" <=> n.status = "Expired"

JobsKept == \A p \in Pipelines, i \in Indexes : SameJob(node'[p][i], node[p][i])

OtherJobsKept(p, i) ==
  \A q \in Pipelines, j \in Indexes :
    ~(q = p /\ j = i) => SameJob(node'[q][j], node[q][j])

Opened(p, i, agent) ==
  /\ OtherJobsKept(p, i)
  /\ node[p][i].status = "Pending" /\ node[p][i].agent = Nobody
  /\ node'[p][i].status = "Claimed" /\ node'[p][i].agent = agent
  /\ node'[p][i].job_id = <<p, i, agent, slot>>

Ended(p, i, outcome) ==
  /\ OtherJobsKept(p, i)
  /\ node[p][i].status \in ActiveStatus /\ node'[p][i].status = outcome
  /\ node'[p][i].agent = node[p][i].agent /\ node'[p][i].job_id = node[p][i].job_id

LEMMA SoundIsSame ==
  ASSUME NEW n, NEW p, NEW i, JobSound(n, p, i), Nobody \notin Agents
  PROVE  SameJob(n, n)
BY DEF JobSound, SameJob

LEMMA JobsNamed == Nobody \notin Agents
BY PartiesAssumption

\* Nodes that a step leaves alone keep their jobs.
LEMMA KeptNodes ==
  ASSUME JobInv, NEW p \in Pipelines, NEW R,
         \A q \in Pipelines, j \in Indexes :
           ~(q = p /\ j \in R) => node'[q][j] = node[q][j]
  PROVE  \A q \in Pipelines, j \in Indexes :
           ~(q = p /\ j \in R) => SameJob(node'[q][j], node[q][j])
BY JobsNamed, SoundIsSame DEF JobInv

LEMMA OneNodeMoves ==
  ASSUME TypeOK, JobInv, NEW p \in Pipelines, NEW i \in Indexes, NEW moved,
         node' = [node EXCEPT ![p][i] = moved]
  PROVE  node'[p][i] = moved /\ OtherJobsKept(p, i)
<1>1. \A q \in Pipelines, j \in Indexes :
        node'[q][j] = IF q = p /\ j = i THEN moved ELSE node[q][j]
  BY DEF TypeOK
<1> DEFINE R == {i}
<1>2. \A q \in Pipelines, j \in Indexes :
        ~(q = p /\ j \in R) => node'[q][j] = node[q][j]
  BY <1>1
<1>3. \A j : j \in R <=> j = i
  OBVIOUS
<1> HIDE DEF R
<1>4. \A q \in Pipelines, j \in Indexes :
        ~(q = p /\ j \in R) => SameJob(node'[q][j], node[q][j])
  BY <1>2, KeptNodes
<1> QED
  BY <1>1, <1>3, <1>4 DEF OtherJobsKept

StatusSet(p, i, status) == node' = [node EXCEPT ![p][i].status = status]

LEMMA StatusMoves ==
  ASSUME TypeOK, JobInv, NEW p \in Pipelines, NEW i \in Indexes, NEW status,
         StatusSet(p, i, status)
  PROVE  /\ OtherJobsKept(p, i)
         /\ node'[p][i].status = status /\ node'[p][i].agent = node[p][i].agent
         /\ node'[p][i].job_id = node[p][i].job_id
<1> DEFINE moved == [node[p][i] EXCEPT !.status = status]
<1>1. node' = [node EXCEPT ![p][i] = moved]
  BY DEF TypeOK, StatusSet
<1>2. /\ moved.status = status /\ moved.agent = node[p][i].agent
      /\ moved.job_id = node[p][i].job_id
  BY DEF TypeOK, NodeAccount
<1> HIDE DEF moved
<1>3. node'[p][i] = moved /\ OtherJobsKept(p, i)
  BY <1>1, OneNodeMoves
<1> QED
  BY <1>2, <1>3

(***************************************************************************)
(* What each instruction does to jobs                                       *)
(***************************************************************************)
LEMMA QuietJobs ==
  ASSUME JobInv, Tick \/ OperatorStep \/ UNCHANGED vars
  PROVE  JobsKept
<1>1. node' = node
  BY DEF Tick, OperatorStep, SetFacilitatorAuthority, SetPaused, SetDisputeWindow,
         ProposeOperator, AcceptOperator, accounts, vars
<1> QED
  BY <1>1, JobsNamed, SoundIsSame DEF JobInv, JobsKept

LEMMA ClaimOpens ==
  ASSUME TypeOK, JobInv, NEW p \in Pipelines, NEW i \in Indexes, NEW agent, NEW tier,
         ClaimNode(p, i, agent, tier)
  PROVE  Opened(p, i, agent)
<1> DEFINE moved == [node[p][i] EXCEPT !.agent = agent, !.status = "Claimed",
                                       !.job_id = <<p, i, agent, slot>>]
<1>1. node[p][i].status = "Pending" /\ node' = [node EXCEPT ![p][i] = moved]
  BY DEF ClaimNode, MayClaim, TypeOK
<1>2. /\ moved.status = "Claimed" /\ moved.agent = agent
      /\ moved.job_id = <<p, i, agent, slot>>
  BY DEF TypeOK, NodeAccount
<1>3. node[p][i].agent = Nobody
  BY <1>1 DEF JobInv, JobSound
<1> HIDE DEF moved
<1> QED
  BY <1>1, <1>2, <1>3, OneNodeMoves DEF Opened

LEMMA SettleEnds ==
  ASSUME TypeOK, JobInv, NEW p \in Pipelines, NEW mint, NEW i \in Indexes,
         node[p][i].status \in ActiveStatus, Settle(p, i, mint)
  PROVE  Ended(p, i, "Settled")
<1>1. StatusSet(p, i, "Settled")
  BY DEF Settle, StatusSet
<1> QED
  BY <1>1, StatusMoves DEF Ended

\* complete_node, finalize_node, and resolve_dispute for the agent.
LEMMA PaymentEnds ==
  ASSUME TypeOK, JobInv, NEW p \in Pipelines, NEW mint, NEW i \in Indexes,
         \/ \E facilitator : CompleteNode(p, i, facilitator, mint) \/ RejectDispute(p, i, facilitator, mint)
         \/ FinalizeNode(p, i, mint)
  PROVE  Ended(p, i, "Settled")
BY SettleEnds DEF CompleteNode, RejectDispute, FinalizeNode, MayFinalize, ActiveStatus

LEMMA UpholdEnds ==
  ASSUME TypeOK, JobInv, NEW p \in Pipelines, NEW mint, NEW i \in Indexes, NEW facilitator,
         UpholdDispute(p, i, facilitator, mint)
  PROVE  Ended(p, i, "Expired")
<1>1. /\ node[p][i].status \in ActiveStatus
      /\ StatusSet(p, i, "Expired")
  BY DEF UpholdDispute, ActiveStatus, StatusSet
<1> QED
  BY <1>1, StatusMoves DEF Ended

LEMMA ReviewKeepsJob ==
  ASSUME TypeOK, JobInv, NEW p \in Pipelines, NEW i \in Indexes,
         \/ \E facilitator, delta : SubmitCompletion(p, i, facilitator, delta)
         \/ \E consumer : DisputeNode(p, i, consumer)
  PROVE  JobsKept
<1>1. PICK status \in ActiveStatus : /\ node[p][i].status \in ActiveStatus
                                     /\ StatusSet(p, i, status)
  BY DEF SubmitCompletion, DisputeNode, DisputeOpen, ActiveStatus, StatusSet
<1>2. node[p][i].agent # Nobody
  BY <1>1, JobsNamed DEF JobInv, JobSound
<1>3. SameJob(node'[p][i], node[p][i])
  <2>1. node'[p][i].status = status
    BY <1>1, StatusMoves
  <2>2. "Settled" \notin ActiveStatus /\ "Expired" \notin ActiveStatus
    BY DEF ActiveStatus
  <2>3. node'[p][i].agent = node[p][i].agent /\ node'[p][i].job_id = node[p][i].job_id
    BY <1>1, StatusMoves
  <2> QED
    BY <1>1, <1>2, <2>1, <2>2, <2>3 DEF SameJob
<1>4. OtherJobsKept(p, i)
  BY <1>1, StatusMoves
<1> QED
  BY <1>3, <1>4 DEF JobsKept, OtherJobsKept

\* Pending nodes that expire or close take no job with them.
LEMMA PendingLeave ==
  ASSUME JobInv, NEW p \in Pipelines, NEW j \in Indexes, node[p][j].status = "Pending",
         node'[p][j].agent = Nobody, node'[p][j].job_id = NoJob,
         node'[p][j].status \in {"Expired", "Closed"}
  PROVE  SameJob(node'[p][j], node[p][j])
BY DEF JobInv, JobSound, SameJob, ActiveStatus

LEMMA ExpiryOfJobs ==
  ASSUME TypeOK, JobInv, NEW p \in Pipelines, NEW mint, NEW i \in Indexes, NEW listed \in SUBSET Indexes,
         ExpireNode(p, i, listed, mint)
  PROVE  /\ node[p][i].status = "Pending" => JobsKept
         /\ node[p][i].status = "Claimed" => Ended(p, i, "Expired")
<1> DEFINE expired == ExpiredBy(p, i, listed)
<1>1. node' = [node EXCEPT ![p] =
        [j \in Indexes |-> IF j \in expired THEN [node[p][j] EXCEPT !.status = "Expired"]
                                            ELSE node[p][j]]]
  BY DEF ExpireNode
<1>2. i \in expired /\ \A j \in expired : j = i \/ node[p][j].status = "Pending"
  BY TargetExpires, ExpiredByPending
<1> HIDE DEF expired
<1>3. \A q \in Pipelines, j \in Indexes :
        ~(q = p /\ j \in expired) => node'[q][j] = node[q][j]
  BY <1>1 DEF TypeOK
<1>4. \A j \in expired \cap Indexes :
        /\ node'[p][j].status = "Expired" /\ node'[p][j].agent = node[p][j].agent
        /\ node'[p][j].job_id = node[p][j].job_id
  BY <1>1 DEF TypeOK, NodeAccount
<1>5. \A j \in expired \cap Indexes :
        node[p][j].status = "Pending" => SameJob(node'[p][j], node[p][j])
  <2> SUFFICES ASSUME NEW j \in expired \cap Indexes, node[p][j].status = "Pending"
               PROVE  SameJob(node'[p][j], node[p][j])
    OBVIOUS
  <2>1. node[p][j].agent = Nobody /\ node[p][j].job_id = NoJob
    BY DEF JobInv, JobSound
  <2> QED
    BY <1>4, <2>1, PendingLeave
<1>6. \A q \in Pipelines, j \in Indexes :
        ~(q = p /\ j \in expired) => SameJob(node'[q][j], node[q][j])
  BY <1>3, KeptNodes
<1>7. OtherJobsKept(p, i)
  BY <1>2, <1>5, <1>6 DEF OtherJobsKept
<1>8. node[p][i].status = "Pending" => JobsKept
  BY <1>2, <1>5, <1>7 DEF OtherJobsKept, JobsKept
<1> QED
  BY <1>2, <1>4, <1>7, <1>8 DEF Ended, ActiveStatus

LEMMA CancelKeepsJobs ==
  ASSUME TypeOK, JobInv, NEW p \in Pipelines, NEW mint, NEW consumer, NEW listed,
         CancelPipeline(p, consumer, listed, mint)
  PROVE  JobsKept
<1>1. \A q \in Pipelines, j \in Indexes :
        node'[q][j] = IF q = p /\ j \in listed THEN NoNode("Closed") ELSE node[q][j]
  BY DEF CancelPipeline, TypeOK
<1>2. \A j \in listed : node[p][j].status = "Pending"
  BY DEF CancelPipeline
<1>3. /\ NoNode("Closed").status = "Closed" /\ NoNode("Closed").agent = Nobody
      /\ NoNode("Closed").job_id = NoJob
  BY DEF NoNode
<1>4. \A j \in Indexes : j \in listed => SameJob(node'[p][j], node[p][j])
  BY <1>1, <1>2, <1>3, PendingLeave
<1>5. \A q \in Pipelines, j \in Indexes :
        ~(q = p /\ j \in listed) => SameJob(node'[q][j], node[q][j])
  BY <1>1, KeptNodes
<1> QED
  BY <1>4, <1>5 DEF JobsKept

LEMMA CreateKeepsJobs ==
  ASSUME TypeOK, SummaryInv \/ ReviewInv, JobInv, NEW p \in Pipelines,
         NEW node_configs \in NodeConfigLists, CreatePipeline(p, node_configs)
  PROVE  JobsKept
<1>1. \A q \in Pipelines \ {p} : node'[q] = node[q]
  BY StepsElsewhere DEF Elsewhere
<1>2. \A i \in Indexes : node[p][i].agent = Nobody /\ node[p][i].job_id = NoJob
  <2>1. SummaryInv => ExistingNodes(p) = {}
    BY DEF SummaryInv, Summary, Summarises, CreatePipeline
  <2>2. \A i \in Indexes : node[p][i].status \in {"Absent", "Closed"}
    BY <2>1 DEF ExistingNodes, NodeExists, ReviewInv, AbsentIsEmpty, CreatePipeline
  <2> QED
    BY <2>2 DEF JobInv, JobSound
<1>3. \A i \in Indexes : /\ node'[p][i].status \in {"Pending", "Absent"}
                         /\ node'[p][i].agent = Nobody /\ node'[p][i].job_id = NoJob
  <2> TAKE i \in Indexes
  <2>1. \A config : PendingNode(config).job_id = NoJob
    BY DEF PendingNode, NoNode
  <2>2. NoNode("Absent").job_id = NoJob
    BY DEF NoNode
  <2> QED
    BY <2>1, <2>2, CreatedNodes, PendingNodeFields
<1>4. \A i \in Indexes : SameJob(node'[p][i], node[p][i])
  BY <1>2, <1>3 DEF SameJob, ActiveStatus
<1>5. \A q \in Pipelines, j \in Indexes :
        ~(q = p /\ j \in Indexes) => SameJob(node'[q][j], node[q][j])
  BY <1>1, KeptNodes
<1> QED
  BY <1>4, <1>5 DEF JobsKept

(***************************************************************************)
(* The invariant                                                            *)
(***************************************************************************)
LEMMA InitJobs == Init => JobInv
BY DEF Init, JobInv, JobSound, NoNode, ActiveStatus

LEMMA SameJobSound ==
  ASSUME NEW m, NEW n, NEW p, NEW i, JobSound(n, p, i), SameJob(m, n),
         m.status \in NodeStatus, n.status \in NodeStatus
  PROVE  JobSound(m, p, i)
<1>1. CASE n.agent = Nobody
  BY <1>1 DEF JobSound, SameJob
<1>2. CASE n.agent # Nobody
  <2>1. n.status \in ActiveStatus \cup {"Settled", "Expired"}
    BY <1>2 DEF JobSound, NodeStatus, OpenStatus
  <2>2. m.status \in ActiveStatus \cup {"Settled", "Expired"}
    BY <1>2, <2>1 DEF SameJob
  <2>3. m.status \notin {"Pending", "Absent", "Closed"}
    BY <2>2 DEF ActiveStatus
  <2> QED
    BY <1>2, <2>3 DEF JobSound, SameJob
<1> QED
  BY <1>1, <1>2

LEMMA OtherJobsSound ==
  ASSUME TypeOK, TypeOK', JobInv, NEW p \in Pipelines, NEW i \in Indexes, OtherJobsKept(p, i),
         JobSound(node'[p][i], p, i)
  PROVE  JobInv'
<1> SUFFICES ASSUME NEW q \in Pipelines, NEW j \in Indexes
             PROVE  JobSound(node'[q][j], q, j)
  BY DEF JobInv, JobSound
<1>1. node[q][j].status \in NodeStatus /\ node'[q][j].status \in NodeStatus
  BY DEF TypeOK, NodeAccount
<1>2. ~(q = p /\ j = i) => SameJob(node'[q][j], node[q][j])
  BY DEF OtherJobsKept
<1> QED
  BY <1>1, <1>2, SameJobSound DEF JobInv

LEMMA JobsSound ==
  ASSUME TypeOK, TypeOK', JobInv
  PROVE  /\ JobsKept => JobInv'
         /\ \A p \in Pipelines, i \in Indexes :
              /\ \A agent \in Agents : Opened(p, i, agent) => JobInv'
              /\ \A outcome \in {"Settled", "Expired"} : Ended(p, i, outcome) => JobInv'
<1>1. JobsKept => JobInv'
  <2> SUFFICES ASSUME JobsKept, NEW q \in Pipelines, NEW j \in Indexes
               PROVE  JobSound(node'[q][j], q, j)
    BY DEF JobInv, JobSound
  <2>1. node[q][j].status \in NodeStatus /\ node'[q][j].status \in NodeStatus
    BY DEF TypeOK, NodeAccount
  <2> QED
    BY <2>1, SameJobSound DEF JobInv, JobsKept
<1>2. ASSUME NEW p \in Pipelines, NEW i \in Indexes, NEW agent \in Agents, Opened(p, i, agent)
      PROVE  JobInv'
  <2>1. slot \in Slots
    BY DEF TypeOK
  <2>2. JobSound(node'[p][i], p, i)
    BY <1>2, <2>1, JobsNamed DEF JobSound, Opened
  <2> QED
    BY <1>2, <2>2, OtherJobsSound DEF Opened
<1>3. ASSUME NEW p \in Pipelines, NEW i \in Indexes, NEW outcome \in {"Settled", "Expired"},
             Ended(p, i, outcome)
      PROVE  JobInv'
  <2>1. node[p][i].agent \in Agents
    BY <1>3 DEF JobInv, JobSound, Ended
  <2>2. JobSound(node'[p][i], p, i)
    BY <1>3, <2>1, JobsNamed DEF JobInv, JobSound, Ended, ActiveStatus
  <2> QED
    BY <1>3, <2>2, OtherJobsSound DEF Ended
<1> QED
  BY <1>1, <1>2, <1>3

LEMMA JobsPreserved ==
  ASSUME TypeOK, SummaryInv \/ ReviewInv, JobInv, [Next]_vars, TypeOK'
  PROVE  JobInv'
<1>1. CASE Tick \/ OperatorStep \/ UNCHANGED vars
  BY <1>1, QuietJobs, JobsSound
<1>2. ASSUME NEW p \in Pipelines, ConsumerStep(p)
      PROVE  JobInv'
  BY <1>2, CreateKeepsJobs, CancelKeepsJobs, ReviewKeepsJob, JobsSound DEF ConsumerStep
<1>3. ASSUME NEW p \in Pipelines, NEW i \in Indexes,
             FacilitatorStep(p, i) \/ \E mint \in Mints : FinalizeNode(p, i, mint)
      PROVE  JobInv'
  BY <1>3, PaymentEnds, UpholdEnds, ReviewKeepsJob, JobsSound DEF FacilitatorStep
<1>4. ASSUME NEW p \in Pipelines, NEW i \in Indexes, NEW agent \in Agents, NEW tier \in Tiers,
             ClaimNode(p, i, agent, tier)
      PROVE  JobInv'
  BY <1>4, ClaimOpens, JobsSound
<1>5. ASSUME NEW p \in Pipelines, NEW i \in Indexes, NEW listed \in SUBSET Indexes,
             NEW mint \in Mints, ExpireNode(p, i, listed, mint)
      PROVE  JobInv'
  <2>1. node[p][i].status \in {"Pending", "Claimed"}
    BY <1>5 DEF ExpireNode, MayExpire
  <2> QED
    BY <1>5, <2>1, ExpiryOfJobs, JobsSound
<1> QED
  BY <1>1, <1>2, <1>3, <1>4, <1>5 DEF Next

(***************************************************************************)
(* The score delta an agent is settled with is the one the facilitator gave *)
(* when it submitted the completion.                                        *)
(***************************************************************************)
DeltasGiven ==
  \A p \in Pipelines, i \in Indexes :
    settlement[p][i].open => settlement[p][i].score_delta \in ScoreDeltas

LEMMA InitDeltas == Init => DeltasGiven
BY DEF Init, DeltasGiven, NoSettlement

LEMMA ClosedDeltas ==
  ASSUME TypeOK, DeltasGiven, NEW p, NEW i, CloseSettlement(p, i)
  PROVE  DeltasGiven'
BY DEF CloseSettlement, TypeOK, DeltasGiven, NoSettlement

LEMMA ReviewDeltas ==
  ASSUME TypeOK, DeltasGiven, NEW p \in Pipelines, NEW i \in Indexes,
         \/ \E facilitator : \E delta \in ScoreDeltas : SubmitCompletion(p, i, facilitator, delta)
         \/ \E consumer : DisputeNode(p, i, consumer)
  PROVE  DeltasGiven'
<1>1. settlement \in [Pipelines -> [Indexes -> SettlementAccount]]
  BY DEF TypeOK
<1>2. ASSUME NEW facilitator, NEW delta \in ScoreDeltas, SubmitCompletion(p, i, facilitator, delta)
      PROVE  DeltasGiven'
  BY <1>1, <1>2 DEF SubmitCompletion, DeltasGiven
<1>3. ASSUME NEW consumer, DisputeNode(p, i, consumer)
      PROVE  DeltasGiven'
  BY <1>1, <1>3 DEF DisputeNode, DeltasGiven, SettlementAccount
<1> QED
  BY <1>2, <1>3

LEMMA DeltasPreserved ==
  ASSUME TypeOK, DeltasGiven, [Next]_vars
  PROVE  DeltasGiven'
<1>1. settlement' = settlement => DeltasGiven'
  BY DEF DeltasGiven
<1>2. CASE Tick \/ OperatorStep \/ UNCHANGED vars
  BY <1>1, <1>2 DEF Tick, OperatorStep, SetFacilitatorAuthority, SetPaused, SetDisputeWindow,
                    ProposeOperator, AcceptOperator, accounts, vars
<1>3. ASSUME NEW p \in Pipelines, ConsumerStep(p)
      PROVE  DeltasGiven'
  BY <1>1, <1>3, ReviewDeltas DEF ConsumerStep, CreatePipeline, CancelPipeline
<1>4. ASSUME NEW p \in Pipelines, NEW i \in Indexes,
             FacilitatorStep(p, i) \/ \E mint \in Mints : FinalizeNode(p, i, mint)
      PROVE  DeltasGiven'
  BY <1>1, <1>4, ReviewDeltas, ClosedDeltas
     DEF FacilitatorStep, CompleteNode, UpholdDispute, RejectDispute, FinalizeNode
<1>5. ASSUME NEW p \in Pipelines, NEW i \in Indexes,
             \/ \E agent \in Agents, tier \in Tiers : ClaimNode(p, i, agent, tier)
             \/ \E mint \in Mints, listed \in SUBSET Indexes : ExpireNode(p, i, listed, mint)
      PROVE  DeltasGiven'
  BY <1>1, <1>5 DEF ClaimNode, ExpireNode
<1> QED
  BY <1>2, <1>3, <1>4, <1>5 DEF Next

(***************************************************************************)
(* The jobs of each agent: open, settled, failed                            *)
(***************************************************************************)
JobsOf(a, statuses) ==
  {n \in NodeIds : node[n[1]][n[2]].agent = a /\ node[n[1]][n[2]].status \in statuses}

JobStates == {ActiveStatus, {"Settled"}, {"Expired"}}

LEMMA JobsFinite ==
  ASSUME NEW a, NEW statuses
  PROVE  IsFiniteSet(JobsOf(a, statuses))
<1>1. IsFiniteSet(NodeIds)
  BY IndexesFinite, SupplyAssumption, FS_Product DEF NodeIds
<1>2. JobsOf(a, statuses) \subseteq NodeIds
  BY DEF JobsOf
<1> QED
  BY <1>1, <1>2, FS_Subset

LEMMA SameJobState ==
  ASSUME NEW m, NEW n, SameJob(m, n), NEW a \in Agents, NEW statuses \in JobStates
  PROVE  m.agent = a /\ m.status \in statuses <=> n.agent = a /\ n.status \in statuses
<1>1. CASE statuses = ActiveStatus
  BY <1>1, JobsNamed DEF SameJob
<1>2. CASE statuses = {"Settled"}
  BY <1>2, JobsNamed DEF SameJob
<1>3. CASE statuses = {"Expired"}
  BY <1>3, JobsNamed DEF SameJob
<1> QED
  BY <1>1, <1>2, <1>3 DEF JobStates

LEMMA JobsKeptByAgent ==
  ASSUME JobsKept, NEW a \in Agents, NEW statuses \in JobStates
  PROVE  JobsOf(a, statuses)' = JobsOf(a, statuses)
<1> SUFFICES ASSUME NEW n \in NodeIds
             PROVE  /\ node'[n[1]][n[2]].agent = a
                    /\ node'[n[1]][n[2]].status \in statuses
                    <=> /\ node[n[1]][n[2]].agent = a
                        /\ node[n[1]][n[2]].status \in statuses
  BY DEF JobsOf
<1>1. n[1] \in Pipelines /\ n[2] \in Indexes
  BY DEF NodeIds
<1> QED
  BY <1>1, SameJobState DEF JobsKept

\* What one node's move does to the sets.
LEMMA OneJobMoves ==
  ASSUME NEW p \in Pipelines, NEW i \in Indexes, OtherJobsKept(p, i),
         NEW a \in Agents, NEW statuses \in JobStates
  PROVE  JobsOf(a, statuses)' =
           IF node'[p][i].agent = a /\ node'[p][i].status \in statuses
           THEN JobsOf(a, statuses) \cup {<<p, i>>}
           ELSE JobsOf(a, statuses) \ {<<p, i>>}
<1> DEFINE Was(n) == node[n[1]][n[2]].agent = a /\ node[n[1]][n[2]].status \in statuses
           Is(n) == node'[n[1]][n[2]].agent = a /\ node'[n[1]][n[2]].status \in statuses
<1>1. JobsOf(a, statuses) = {n \in NodeIds : Was(n)}
  BY DEF JobsOf
<1>2. JobsOf(a, statuses)' = {n \in NodeIds : Is(n)}
  BY DEF JobsOf
<1>3. <<p, i>> \in NodeIds
      /\ (Is(<<p, i>>) <=> node'[p][i].agent = a /\ node'[p][i].status \in statuses)
  BY DEF NodeIds
<1>4. \A n \in NodeIds : n # <<p, i>> => (Is(n) <=> Was(n))
  <2> SUFFICES ASSUME NEW n \in NodeIds, n # <<p, i>> PROVE Is(n) <=> Was(n)
    OBVIOUS
  <2>1. n[1] \in Pipelines /\ n[2] \in Indexes /\ ~(n[1] = p /\ n[2] = i)
    BY DEF NodeIds
  <2>2. SameJob(node'[n[1]][n[2]], node[n[1]][n[2]])
    BY <2>1 DEF OtherJobsKept
  <2> QED
    BY <2>2, SameJobState
<1> HIDE DEF Was, Is
<1> QED
  BY <1>1, <1>2, <1>3, <1>4

Count(a, statuses) == Cardinality(JobsOf(a, statuses))

LEMMA CountsTyped ==
  ASSUME NEW a, NEW statuses
  PROVE  Count(a, statuses) \in Nat
BY JobsFinite, FS_CardinalityType DEF Count

LEMMA OpenedCounts ==
  ASSUME NEW p \in Pipelines, NEW i \in Indexes, NEW agent \in Agents, Opened(p, i, agent),
         NEW a \in Agents
  PROVE  /\ Count(a, ActiveStatus)' =
              IF a = agent THEN Count(a, ActiveStatus) + 1 ELSE Count(a, ActiveStatus)
         /\ Count(a, {"Settled"})' = Count(a, {"Settled"})
         /\ Count(a, {"Expired"})' = Count(a, {"Expired"})
<1>1. \A statuses \in JobStates : <<p, i>> \notin JobsOf(a, statuses)
  BY JobsNamed DEF JobsOf, Opened
<1>2. /\ node'[p][i].agent = agent /\ node'[p][i].status = "Claimed"
      /\ OtherJobsKept(p, i)
  BY DEF Opened
<1>3. "Claimed" \in ActiveStatus /\ "Claimed" \notin {"Settled"} /\ "Claimed" \notin {"Expired"}
  BY DEF ActiveStatus
<1>4. ActiveStatus \in JobStates /\ {"Settled"} \in JobStates /\ {"Expired"} \in JobStates
  BY DEF JobStates
<1>5. /\ JobsOf(a, ActiveStatus)' = IF a = agent THEN JobsOf(a, ActiveStatus) \cup {<<p, i>>}
                                                 ELSE JobsOf(a, ActiveStatus)
      /\ JobsOf(a, {"Settled"})' = JobsOf(a, {"Settled"})
      /\ JobsOf(a, {"Expired"})' = JobsOf(a, {"Expired"})
  <2>1. JobsOf(a, ActiveStatus)' = IF a = agent THEN JobsOf(a, ActiveStatus) \cup {<<p, i>>}
                                               ELSE JobsOf(a, ActiveStatus) \ {<<p, i>>}
    BY <1>2, <1>3, <1>4, OneJobMoves
  <2>2. JobsOf(a, {"Settled"})' = JobsOf(a, {"Settled"}) \ {<<p, i>>}
    BY <1>2, <1>3, <1>4, OneJobMoves
  <2>3. JobsOf(a, {"Expired"})' = JobsOf(a, {"Expired"}) \ {<<p, i>>}
    BY <1>2, <1>3, <1>4, OneJobMoves
  <2> QED
    BY <1>1, <1>4, <2>1, <2>2, <2>3
<1>6. Cardinality(JobsOf(a, ActiveStatus) \cup {<<p, i>>}) =
        Cardinality(JobsOf(a, ActiveStatus)) + 1
  BY <1>1, <1>4, JobsFinite, FS_AddElement
<1> QED
  BY <1>5, <1>6 DEF Count

EndedFor(p, i, agent, outcome) ==
  Ended(p, i, outcome) /\ node[p][i].agent = agent /\ outcome \in {"Settled", "Expired"}

CountsEnded(a, agent, outcome) ==
  /\ Count(a, ActiveStatus)' =
       IF a = agent THEN Count(a, ActiveStatus) - 1 ELSE Count(a, ActiveStatus)
  /\ Count(a, {"Settled"})' = IF a = agent /\ outcome = "Settled"
                              THEN Count(a, {"Settled"}) + 1 ELSE Count(a, {"Settled"})
  /\ Count(a, {"Expired"})' = IF a = agent /\ outcome = "Expired"
                              THEN Count(a, {"Expired"}) + 1 ELSE Count(a, {"Expired"})

LEMMA EndedCounts ==
  ASSUME NEW p \in Pipelines, NEW i \in Indexes, NEW agent \in Agents,
         NEW outcome, EndedFor(p, i, agent, outcome),
         NEW a \in Agents
  PROVE  CountsEnded(a, agent, outcome)
<1>1. /\ <<p, i>> \in JobsOf(a, ActiveStatus) <=> a = node[p][i].agent
      /\ <<p, i>> \notin JobsOf(a, {"Settled"}) /\ <<p, i>> \notin JobsOf(a, {"Expired"})
  BY DEF JobsOf, NodeIds, EndedFor, Ended, ActiveStatus
<1>2. /\ node'[p][i].agent = node[p][i].agent /\ node'[p][i].status = outcome
      /\ OtherJobsKept(p, i)
  BY DEF EndedFor, Ended
<1>3. outcome \notin ActiveStatus
  BY DEF EndedFor, ActiveStatus
<1>4. ActiveStatus \in JobStates /\ {"Settled"} \in JobStates /\ {"Expired"} \in JobStates
  BY DEF JobStates
<1>5. JobsOf(a, ActiveStatus)' = JobsOf(a, ActiveStatus) \ {<<p, i>>}
  BY <1>2, <1>3, <1>4, OneJobMoves
<1>6. /\ JobsOf(a, {"Settled"})' = IF a = node[p][i].agent /\ outcome = "Settled"
                                   THEN JobsOf(a, {"Settled"}) \cup {<<p, i>>}
                                   ELSE JobsOf(a, {"Settled"})
      /\ JobsOf(a, {"Expired"})' = IF a = node[p][i].agent /\ outcome = "Expired"
                                   THEN JobsOf(a, {"Expired"}) \cup {<<p, i>>}
                                   ELSE JobsOf(a, {"Expired"})
  <2>1. OtherJobsKept(p, i)
    BY <1>2
  <2>2. JobsOf(a, {"Settled"})' = IF node'[p][i].agent = a /\ node'[p][i].status \in {"Settled"}
                                 THEN JobsOf(a, {"Settled"}) \cup {<<p, i>>}
                                 ELSE JobsOf(a, {"Settled"}) \ {<<p, i>>}
    BY <1>4, <2>1, OneJobMoves
  <2>3. JobsOf(a, {"Expired"})' = IF node'[p][i].agent = a /\ node'[p][i].status \in {"Expired"}
                                 THEN JobsOf(a, {"Expired"}) \cup {<<p, i>>}
                                 ELSE JobsOf(a, {"Expired"}) \ {<<p, i>>}
    BY <1>4, <2>1, OneJobMoves
  <2>4. /\ node'[p][i].status \in {"Settled"} <=> outcome = "Settled"
        /\ node'[p][i].status \in {"Expired"} <=> outcome = "Expired"
        /\ node'[p][i].agent = a <=> a = node[p][i].agent
    BY <1>2
  <2>5. /\ JobsOf(a, {"Settled"}) \ {<<p, i>>} = JobsOf(a, {"Settled"})
        /\ JobsOf(a, {"Expired"}) \ {<<p, i>>} = JobsOf(a, {"Expired"})
    BY <1>1
  <2> QED
    BY <2>2, <2>3, <2>4, <2>5
<1>7. /\ Cardinality(JobsOf(a, {"Settled"}) \cup {<<p, i>>}) =
           Cardinality(JobsOf(a, {"Settled"})) + 1
      /\ Cardinality(JobsOf(a, {"Expired"}) \cup {<<p, i>>}) =
           Cardinality(JobsOf(a, {"Expired"})) + 1
  BY <1>1, JobsFinite, FS_AddElement
<1>8. Cardinality(JobsOf(a, ActiveStatus) \ {<<p, i>>}) =
        IF a = node[p][i].agent THEN Cardinality(JobsOf(a, ActiveStatus)) - 1
                                ELSE Cardinality(JobsOf(a, ActiveStatus))
  BY <1>1, JobsFinite, FS_RemoveElement
<1> QED
  BY <1>5, <1>6, <1>7, <1>8 DEF Count, EndedFor, CountsEnded

(***************************************************************************)
(* The refinement                                                           *)
(***************************************************************************)
PromiseInv == LedgerInv /\ OrderInv /\ JobInv

LEMMA InitPromise == Init => PromiseInv /\ Promise!Init
<1> SUFFICES ASSUME Init PROVE PromiseInv /\ Promise!Init
  OBVIOUS
<1>1. PromiseInv
  BY InitLedger, InitOrdered, InitJobs DEF PromiseInv
<1>2. Lots = [p \in Pipelines |-> [i \in Indexes |-> Promise!Emptied("none")]]
  <2>1. \A p \in Pipelines, i \in Indexes :
          node[p][i].status = "Absent" /\ left_behind[p][i] = 0
    BY PendingNodeFields DEF Init
  <2>2. \A p \in Pipelines, i \in Indexes : Locked(p)[i] = 0
    BY <2>1 DEF Locked, OpenStatus, ActiveStatus
  <2>3. \A p \in Pipelines, i \in Indexes : LotAt(p, i) = Promise!Emptied("none")
    BY <2>1, <2>2, LotCases, NothingLeftOver DEF LotAt
  <2> QED
    BY <2>3, LotsOfNodes
<1>3. pipeline_config.fee_bps \in FeeBps
  BY DEF Init
<1> QED
  BY <1>1, <1>2, <1>3 DEF Init, Promise!Init

LEMMA PromiseStep ==
  ASSUME CancelListsEveryNode
  PROVE  PromiseInv /\ [Next]_vars => PromiseInv' /\ [Promise!Next]_(Promise!pvars)
<1> SUFFICES ASSUME PromiseInv, [Next]_vars
             PROVE  PromiseInv' /\ [Promise!Next]_(Promise!pvars)
  OBVIOUS
<1>1. TypeOK /\ LedgerInv /\ OrderInv /\ JobInv
  BY DEF PromiseInv, LedgerInv
<1>2. PromiseInv'
  <2>1. LedgerInv' /\ OrderInv'
    BY <1>1, LedgerPreserved, OrderPreserved
  <2>2. JobInv'
    BY <1>1, <2>1, JobsPreserved DEF LedgerInv
  <2> QED
    BY <2>1, <2>2 DEF PromiseInv
<1>3. Worked => UNCHANGED Promise!pvars
  BY WorkedStutters
<1>4. ASSUME NEW p \in Pipelines, NEW mint \in Mints, NEW i \in Indexes, Paid(p, i, mint)
      PROVE  Promise!Next
  <2>1. node[p][i].agent \in Agents /\ pipeline_config.operator \in Keys
    BY <1>1, <1>4 DEF JobInv, JobSound, Paid, TypeOK, ConfigAccount
  <2>2. CASE mint = MintOf[p]
    BY <1>1, <1>4, <2>1, <2>2, PaidPays DEF Promise!Next
  <2>3. CASE mint # MintOf[p]
    BY <1>1, <1>4, <2>1, <2>3, PaidElsewhere DEF Promise!Next
  <2> QED
    BY <2>2, <2>3
<1>5. ASSUME NEW p \in Pipelines, NEW mint \in Mints, NEW R \in SUBSET Indexes,
             Returned(p, R, mint)
      PROVE  Promise!Next
  BY <1>1, <1>5, ReturnedReturns DEF Promise!Next
<1>6. ASSUME NEW p \in Pipelines, NEW node_configs \in NodeConfigLists,
             CreatePipeline(p, node_configs)
      PROVE  Promise!Next
  BY <1>1, <1>6, CreatedLocks DEF Promise!Next
<1>7. ASSUME NEW p \in Pipelines, NEW mint \in Mints, NEW consumer,
             NEW listed \in CancelLists(p), CancelPipeline(p, consumer, listed, mint)
      PROVE  Promise!Next
  <2>1. listed \in SUBSET Indexes
    BY DEF CancelLists
  <2> QED
    BY <1>1, <1>7, <2>1, CancelledReturns DEF Promise!Next
<1> QED
  BY <1>1, <1>2, <1>3, <1>4, <1>5, <1>6, <1>7, StepKinds

\* The program implements EscrowPromise: each lot a consumer locks is paid once,
\* after the lots it needs and minus the fee, or returned once, in full, or it ends
\* in another mint and keeps its amount for good.
THEOREM PromiseKept ==
  ASSUME CancelListsEveryNode
  PROVE  Spec => KeepsPromise
<1>1. Init => PromiseInv /\ Promise!Init
  BY InitPromise
<1>2. PromiseInv /\ [Next]_vars => PromiseInv' /\ [Promise!Next]_(Promise!pvars)
  BY PromiseStep
<1> QED
  BY <1>1, <1>2, PTL DEF Spec, KeepsPromise, Promise!Spec

-----------------------------------------------------------------------------
(***************************************************************************)
(* How node accounts move, as far as somebody who looks at them now and     *)
(* then can tell: an end is final, a review ends only in one of the two     *)
(* ends, a closed account stays closed, and a node keeps the agent and the  *)
(* job it once has.                                                         *)
(***************************************************************************)
Ends == {"Settled", "Expired"}

Forward(m, n) ==
  /\ n.agent # Nobody => m.agent = n.agent /\ m.job_id = n.job_id
  /\ n.status \in Ends => m.status = n.status
  /\ n.status \in UnderReview => m.status \in UnderReview \cup Ends
  /\ n.status = "Closed" => m.status = "Closed"
  /\ m.status = "Absent" => n.status = "Absent"

\* Nothing starts to be reviewed or paid.
NoNewWork(m, n) ==
  m.status \in UnderReview \cup {"Settled"} => n.status \in UnderReview \cup {"Settled"}

ChainInv == TypeOK /\ ReviewInv /\ JobInv

NodesForward == \A q \in Pipelines, j \in Indexes : Forward(node'[q][j], node[q][j])
NothingNew == \A q \in Pipelines, j \in Indexes : NoNewWork(node'[q][j], node[q][j])
OthersNothingNew(p, i) ==
  \A q \in Pipelines, j \in Indexes : ~(q = p /\ j = i) => NoNewWork(node'[q][j], node[q][j])

LEMMA SameMoves ==
  ASSUME NEW m
  PROVE  Forward(m, m) /\ NoNewWork(m, m)
BY DEF Forward, NoNewWork

\* The instructions that write the status of one node and nothing else of it.
LEMMA StatusForward ==
  ASSUME ChainInv, NEW p \in Pipelines, NEW i \in Indexes, NEW status, StatusSet(p, i, status),
         \/ node[p][i].status \in ActiveStatus /\ status \in Ends
         \/ node[p][i].status \in {"Claimed", "Submitted"} /\ status \in UnderReview
  PROVE  /\ NodesForward /\ OthersNothingNew(p, i)
         /\ node'[p][i].status = status
         /\ node'[p][i].agent = node[p][i].agent /\ node'[p][i].job_id = node[p][i].job_id
<1>1. \A q \in Pipelines, j \in Indexes :
        ~(q = p /\ j = i) => node'[q][j] = node[q][j]
  BY DEF ChainInv, TypeOK, StatusSet
<1>2. /\ node'[p][i].status = status
      /\ node'[p][i].agent = node[p][i].agent /\ node'[p][i].job_id = node[p][i].job_id
  BY StatusMoves DEF ChainInv
<1>3. Forward(node'[p][i], node[p][i])
  BY <1>2 DEF Forward, Ends, UnderReview, ActiveStatus
<1>4. NodesForward
  BY <1>1, <1>3, SameMoves DEF NodesForward
<1>5. OthersNothingNew(p, i)
  BY <1>1, SameMoves DEF OthersNothingNew
<1> QED
  BY <1>2, <1>4, <1>5

LEMMA SettleForward ==
  ASSUME ChainInv, NEW p \in Pipelines, NEW mint, NEW i \in Indexes,
         node[p][i].status \in ActiveStatus, Settle(p, i, mint)
  PROVE  /\ NodesForward /\ OthersNothingNew(p, i)
         /\ node'[p][i].status = "Settled"
         /\ node'[p][i].agent = node[p][i].agent /\ node'[p][i].job_id = node[p][i].job_id
<1>1. StatusSet(p, i, "Settled")
  BY DEF Settle, StatusSet
<1>2. "Settled" \in Ends
  BY DEF Ends
<1> QED
  BY <1>1, <1>2, StatusForward

LEMMA UpholdForward ==
  ASSUME ChainInv, NEW p \in Pipelines, NEW mint, NEW i \in Indexes, NEW facilitator,
         UpholdDispute(p, i, facilitator, mint)
  PROVE  NodesForward /\ NothingNew /\ node'[p][i].status = "Expired"
<1>1. StatusSet(p, i, "Expired") /\ node[p][i].status \in ActiveStatus /\ "Expired" \in Ends
  BY DEF UpholdDispute, StatusSet, ActiveStatus, Ends
<1>2. NodesForward /\ OthersNothingNew(p, i) /\ node'[p][i].status = "Expired"
  BY <1>1, StatusForward
<1>3. NoNewWork(node'[p][i], node[p][i])
  BY <1>2 DEF NoNewWork, UnderReview
<1> QED
  BY <1>2, <1>3 DEF NothingNew, OthersNothingNew

LEMMA SubmitForward ==
  ASSUME ChainInv, NEW p \in Pipelines, NEW i \in Indexes, NEW facilitator, NEW delta,
         SubmitCompletion(p, i, facilitator, delta)
  PROVE  /\ NodesForward /\ OthersNothingNew(p, i)
         /\ node'[p][i].status = "Submitted" /\ node'[p][i].job_id = node[p][i].job_id
<1>1. StatusSet(p, i, "Submitted") /\ node[p][i].status = "Claimed" /\ "Submitted" \in UnderReview
  BY DEF SubmitCompletion, StatusSet, UnderReview
<1> QED
  BY <1>1, StatusForward

LEMMA DisputeForward ==
  ASSUME ChainInv, NEW p \in Pipelines, NEW i \in Indexes, NEW consumer,
         DisputeNode(p, i, consumer)
  PROVE  NodesForward /\ NothingNew
<1>1. StatusSet(p, i, "Disputed") /\ node[p][i].status = "Submitted" /\ "Disputed" \in UnderReview
  BY DEF DisputeNode, DisputeOpen, StatusSet, UnderReview
<1>2. NodesForward /\ OthersNothingNew(p, i)
  BY <1>1, StatusForward
<1>3. NoNewWork(node'[p][i], node[p][i])
  BY <1>1 DEF NoNewWork, UnderReview
<1> QED
  BY <1>2, <1>3 DEF NothingNew, OthersNothingNew

\* finalize_node, and resolve_dispute for the agent: the work was reviewed before.
LEMMA ReviewedForward ==
  ASSUME ChainInv, NEW p \in Pipelines, NEW mint, NEW i \in Indexes,
         FinalizeNode(p, i, mint) \/ \E facilitator : RejectDispute(p, i, facilitator, mint)
  PROVE  NodesForward /\ NothingNew /\ node'[p][i].status = "Settled"
<1>1. Settle(p, i, mint) /\ node[p][i].status \in UnderReview
  BY DEF FinalizeNode, MayFinalize, RejectDispute, UnderReview
<1>2. node[p][i].status \in ActiveStatus
  BY <1>1 DEF ActiveStatus, UnderReview
<1>3. NodesForward /\ OthersNothingNew(p, i) /\ node'[p][i].status = "Settled"
  BY <1>1, <1>2, SettleForward
<1>4. NoNewWork(node'[p][i], node[p][i])
  BY <1>1 DEF NoNewWork
<1> QED
  BY <1>3, <1>4 DEF NothingNew, OthersNothingNew

LEMMA ClaimForward ==
  ASSUME ChainInv, NEW p \in Pipelines, NEW i \in Indexes, NEW agent, NEW tier,
         ClaimNode(p, i, agent, tier)
  PROVE  NodesForward /\ NothingNew
<1>1. \A q \in Pipelines, j \in Indexes :
        ~(q = p /\ j = i) => node'[q][j] = node[q][j]
  BY DEF ClaimNode, ChainInv, TypeOK
<1>2. node[p][i].status = "Pending" /\ node[p][i].agent = Nobody /\ node'[p][i].status = "Claimed"
  BY ClaimOpens DEF ChainInv, Opened
<1>3. Forward(node'[p][i], node[p][i]) /\ NoNewWork(node'[p][i], node[p][i])
  BY <1>2 DEF Forward, NoNewWork, Ends, UnderReview
<1> QED
  BY <1>1, <1>3, SameMoves DEF NodesForward, NothingNew

\* Pending nodes that expire or close, and the nodes of a new pipeline.
LEMMA IdleForward ==
  ASSUME ChainInv, NEW p \in Pipelines, NEW i \in Indexes,
         node[p][i].status \in {"Absent", "Pending"},
         node'[p][i].status \in {"Absent", "Pending", "Closed", "Expired"},
         node'[p][i].status = "Absent" => node[p][i].status = "Absent"
  PROVE  Forward(node'[p][i], node[p][i]) /\ NoNewWork(node'[p][i], node[p][i])
<1>1. node[p][i].agent = Nobody
  BY DEF ChainInv, JobInv, JobSound
<1> QED
  BY <1>1 DEF Forward, NoNewWork, Ends, UnderReview

LEMMA ExpireForward ==
  ASSUME ChainInv, NEW p \in Pipelines, NEW mint, NEW i \in Indexes, NEW listed \in SUBSET Indexes,
         ExpireNode(p, i, listed, mint)
  PROVE  NodesForward /\ NothingNew /\ node'[p][i].status = "Expired"
<1> DEFINE expired == ExpiredBy(p, i, listed)
<1>1. node' = [node EXCEPT ![p] =
        [j \in Indexes |-> IF j \in expired THEN [node[p][j] EXCEPT !.status = "Expired"]
                                            ELSE node[p][j]]]
  BY DEF ExpireNode
<1>2. i \in expired /\ \A j \in expired : j = i \/ node[p][j].status = "Pending"
  BY TargetExpires, ExpiredByPending DEF ChainInv
<1>3. node[p][i].status \in {"Pending", "Claimed"}
  BY DEF ExpireNode, MayExpire
<1> HIDE DEF expired
<1>4. \A q \in Pipelines, j \in Indexes :
        ~(q = p /\ j \in expired) => node'[q][j] = node[q][j]
  BY <1>1 DEF ChainInv, TypeOK
<1>5. \A j \in expired \cap Indexes :
        /\ node'[p][j].status = "Expired" /\ node'[p][j].agent = node[p][j].agent
        /\ node'[p][j].job_id = node[p][j].job_id
  BY <1>1 DEF ChainInv, TypeOK, NodeAccount
<1>6. \A j \in expired \cap Indexes :
        Forward(node'[p][j], node[p][j]) /\ NoNewWork(node'[p][j], node[p][j])
  BY <1>2, <1>3, <1>5 DEF Forward, NoNewWork, Ends, UnderReview
<1>7. NodesForward /\ NothingNew
  BY <1>4, <1>6, SameMoves DEF NodesForward, NothingNew
<1> QED
  BY <1>2, <1>5, <1>7

LEMMA CancelForward ==
  ASSUME ChainInv, NEW p \in Pipelines, NEW mint, NEW consumer, NEW listed,
         CancelPipeline(p, consumer, listed, mint)
  PROVE  NodesForward /\ NothingNew
<1>1. \A q \in Pipelines, j \in Indexes :
        node'[q][j] = IF q = p /\ j \in listed THEN NoNode("Closed") ELSE node[q][j]
  BY DEF CancelPipeline, ChainInv, TypeOK
<1>2. \A j \in listed : node[p][j].status = "Pending"
  BY DEF CancelPipeline
<1>3. NoNode("Closed").status = "Closed"
  BY DEF NoNode
<1>4. \A j \in Indexes : j \in listed =>
        Forward(node'[p][j], node[p][j]) /\ NoNewWork(node'[p][j], node[p][j])
  BY <1>1, <1>2, <1>3, IdleForward
<1> QED
  BY <1>1, <1>4, SameMoves DEF NodesForward, NothingNew

LEMMA CreateForward ==
  ASSUME ChainInv, NEW p \in Pipelines, NEW node_configs, CreatePipeline(p, node_configs)
  PROVE  NodesForward /\ NothingNew
<1>1. \A q \in Pipelines \ {p} : node'[q] = node[q]
  BY CreatePipelineEffect DEF ChainInv, ReviewsUntouched, OtherPipelinesKept
<1>2. \A j \in Indexes : node[p][j].status = "Absent"
  BY DEF CreatePipeline, ChainInv, ReviewInv, AbsentIsEmpty
<1>3. \A j \in Indexes : node'[p][j].status \in {"Pending", "Absent"}
  BY DEF CreatePipeline, ChainInv, TypeOK, PendingNode, NoNode
<1>4. \A j \in Indexes :
        Forward(node'[p][j], node[p][j]) /\ NoNewWork(node'[p][j], node[p][j])
  BY <1>2, <1>3, IdleForward
<1>5. \A q \in Pipelines, j \in Indexes : q # p =>
        Forward(node'[q][j], node[q][j]) /\ NoNewWork(node'[q][j], node[q][j])
  BY <1>1, SameMoves
<1> QED
  BY <1>4, <1>5 DEF NodesForward, NothingNew

LEMMA QuietForward ==
  ASSUME Tick \/ OperatorStep \/ UNCHANGED vars
  PROVE  NodesForward /\ NothingNew
<1>1. node' = node
  BY DEF Tick, OperatorStep, SetFacilitatorAuthority, SetPaused, SetDisputeWindow,
         ProposeOperator, AcceptOperator, accounts, vars
<1> QED
  BY <1>1, SameMoves DEF NodesForward, NothingNew

(***************************************************************************)
(* Steps of the chain                                                       *)
(***************************************************************************)
LEMMA ConsumerForward ==
  ASSUME ChainInv, NEW p \in Pipelines, ConsumerStep(p)
  PROVE  NodesForward /\ NothingNew
BY CreateForward, CancelForward, DisputeForward DEF ConsumerStep

LEMMA ChainPreserved ==
  ASSUME ChainInv, [Next]_vars
  PROVE  ChainInv'
<1>1. TypeOK' /\ ReviewInv'
  BY TypePreserved, ReviewPreserved DEF ChainInv, ReviewStep
<1> QED
  BY <1>1, JobsPreserved DEF ChainInv

(***************************************************************************)
(* The nodes of a pipeline: the accounts 0 to total_nodes - 1 and no other, *)
(* whatever lists cancel_pipeline is given; while none is closed, the list  *)
(* of those that exist has each at the position that is its index.          *)
(***************************************************************************)
Listed(p) == pipeline[p].status # "Absent"

PositionInv ==
  \A p \in Pipelines, i \in Indexes :
    i >= pipeline[p].total_nodes <=> node[p][i].status = "Absent"

\* A pipeline that is there stays there with the nodes it was created with.
Kept(p) ==
  Listed(p) =>
    /\ Listed(p)' /\ pipeline'[p].total_nodes = pipeline[p].total_nodes
    /\ \A i \in Indexes :
         /\ node[p][i].status = "Absent" <=> node'[p][i].status = "Absent"
         /\ node[p][i].status = "Closed" => node'[p][i].status = "Closed"

AllKept == \A p \in Pipelines : Kept(p)

LEMMA ElsewhereKept ==
  ASSUME NEW p \in Pipelines, Elsewhere(p), Kept(p)
  PROVE  AllKept
BY DEF Elsewhere, AllKept, Kept, Listed

LEMMA AccountsTyped ==
  ASSUME TypeOK, NEW p \in Pipelines
  PROVE  pipeline[p] \in PipelineAccount /\ \A i \in Indexes : node[p][i].status \in NodeStatus
BY DEF TypeOK, NodeAccount

LEMMA WorkedKept ==
  ASSUME Worked
  PROVE  AllKept
<1>1. {"Absent", "Closed"} \cap (OpenStatus \cup ActiveStatus) = {}
  BY DEF OpenStatus, ActiveStatus
<1>2. ASSUME NEW p \in Pipelines, NEW i \in Indexes
      PROVE  /\ node[p][i].status = "Absent" <=> node'[p][i].status = "Absent"
             /\ node[p][i].status = "Closed" => node'[p][i].status = "Closed"
  BY <1>1 DEF Worked
<1>3. pipeline' = pipeline
  BY DEF Worked
<1> QED
  BY <1>2, <1>3 DEF AllKept, Kept, Listed

LEMMA RetiredKept ==
  ASSUME NEW p \in Pipelines, NEW R, NEW fate \in Ends, Retired(p, R, fate),
         pipeline'[p].status # "Absent", pipeline'[p].total_nodes = pipeline[p].total_nodes
  PROVE  Kept(p)
<1>1. "Absent" \notin OpenStatus /\ "Closed" \notin OpenStatus /\ fate # "Absent"
  BY DEF OpenStatus, ActiveStatus, Ends
<1>2. ASSUME NEW i \in Indexes
      PROVE  /\ node[p][i].status = "Absent" <=> node'[p][i].status = "Absent"
             /\ node[p][i].status = "Closed" => node'[p][i].status = "Closed"
  <2>1. node'[p][i].status = IF i \in R THEN fate ELSE node[p][i].status
    BY DEF Retired
  <2>2. CASE i \in R
    <3>1. node[p][i].status \in OpenStatus
      BY <2>2 DEF Retired, NodesWith
    <3> QED
      BY <1>1, <2>1, <2>2, <3>1
  <2>3. CASE i \notin R
    BY <2>1, <2>3
  <2> QED
    BY <2>2, <2>3
<1> QED
  BY <1>2 DEF Kept, Listed

\* What a payment, a refund and a cancel write into the pipeline's account.
LEMMA AccountWritten ==
  ASSUME TypeOK, NEW p \in Pipelines, NEW mint
  PROVE  /\ \A i : Paid(p, i, mint) =>
              /\ pipeline'[p] = CountSettled(pipeline[p], i)
              /\ pipeline'[p].status = StatusAfterSettle(pipeline[p])
              /\ pipeline'[p].total_nodes = pipeline[p].total_nodes
              /\ pipeline'[p].total_usdc_locked = pipeline[p].total_usdc_locked
         /\ \A R : Returned(p, R, mint) =>
              /\ pipeline'[p] = CountExpired(pipeline[p], Cardinality(R))
              /\ pipeline'[p].status = "PartiallyRefunded"
              /\ pipeline'[p].total_nodes = pipeline[p].total_nodes
              /\ pipeline'[p].total_usdc_locked = pipeline[p].total_usdc_locked
         /\ \A consumer, listed : CancelPipeline(p, consumer, listed, mint) =>
              /\ pipeline'[p].status = "Cancelled"
              /\ pipeline'[p].total_nodes = pipeline[p].total_nodes
              /\ pipeline'[p].total_usdc_locked = pipeline[p].total_usdc_locked
<1>1. pipeline[p] \in PipelineAccount
  BY DEF TypeOK
<1>2. ASSUME NEW i, Paid(p, i, mint)
      PROVE  /\ pipeline'[p] = CountSettled(pipeline[p], i)
             /\ pipeline'[p].status = StatusAfterSettle(pipeline[p])
             /\ pipeline'[p].total_nodes = pipeline[p].total_nodes
             /\ pipeline'[p].total_usdc_locked = pipeline[p].total_usdc_locked
  <2>1. pipeline'[p] = CountSettled(pipeline[p], i)
    BY <1>2 DEF Paid, Settle, TypeOK
  <2> QED
    BY <1>1, <2>1 DEF CountSettled, PipelineAccount
<1>3. ASSUME NEW R, Returned(p, R, mint)
      PROVE  /\ pipeline'[p] = CountExpired(pipeline[p], Cardinality(R))
             /\ pipeline'[p].status = "PartiallyRefunded"
             /\ pipeline'[p].total_nodes = pipeline[p].total_nodes
             /\ pipeline'[p].total_usdc_locked = pipeline[p].total_usdc_locked
  <2>1. pipeline'[p] = CountExpired(pipeline[p], Cardinality(R))
    BY <1>3 DEF Returned, TypeOK
  <2> QED
    BY <1>1, <2>1 DEF CountExpired, PipelineAccount
<1>4. ASSUME NEW consumer, NEW listed, CancelPipeline(p, consumer, listed, mint)
      PROVE  /\ pipeline'[p].status = "Cancelled"
             /\ pipeline'[p].total_nodes = pipeline[p].total_nodes
             /\ pipeline'[p].total_usdc_locked = pipeline[p].total_usdc_locked
  BY <1>1, <1>4 DEF CancelPipeline, TypeOK, PipelineAccount
<1> QED
  BY <1>2, <1>3, <1>4

LEMMA StepsKept ==
  ASSUME TypeOK, [Next]_vars
  PROVE  AllKept
<1>0. "Settled" \in Ends /\ "Expired" \in Ends
  BY DEF Ends
<1>1. CASE Worked
  BY <1>1, WorkedKept
<1>2. ASSUME NEW p \in Pipelines, NEW i \in Indexes, NEW mint \in Mints, Paid(p, i, mint)
      PROVE  AllKept
  <2>1. /\ pipeline'[p].status = StatusAfterSettle(pipeline[p])
        /\ pipeline'[p].total_nodes = pipeline[p].total_nodes
    BY <1>2, AccountWritten
  <2>2. pipeline[p].status = "Absent" \/ pipeline'[p].status # "Absent"
    BY <2>1 DEF StatusAfterSettle
  <2>3. Kept(p)
    <3>1. CASE pipeline[p].status = "Absent"
      BY <3>1 DEF Kept, Listed
    <3>2. CASE pipeline'[p].status # "Absent"
      BY <1>0, <1>2, <2>1, <3>2, PaidRetired, RetiredKept
    <3> QED
      BY <2>2, <3>1, <3>2
  <2> QED
    BY <1>2, <2>3, StepsElsewhere, ElsewhereKept
<1>3. ASSUME NEW p \in Pipelines, NEW R \in SUBSET Indexes, NEW mint \in Mints,
             Returned(p, R, mint)
      PROVE  AllKept
  <2>1. /\ pipeline'[p].status # "Absent"
        /\ pipeline'[p].total_nodes = pipeline[p].total_nodes
    BY <1>3, AccountWritten
  <2>2. Kept(p)
    BY <1>0, <1>3, <2>1, ReturnedRetired, RetiredKept
  <2> QED
    BY <1>3, <2>2, StepsElsewhere, ElsewhereKept
<1>4. ASSUME NEW p \in Pipelines, NEW node_configs, CreatePipeline(p, node_configs)
      PROVE  AllKept
  <2>1. Kept(p)
    BY <1>4 DEF CreatePipeline, Kept, Listed
  <2> QED
    BY <1>4, <2>1, StepsElsewhere, ElsewhereKept
<1>5. ASSUME NEW p \in Pipelines, NEW consumer, NEW listed, NEW mint \in Mints,
             CancelPipeline(p, consumer, listed, mint)
      PROVE  AllKept
  <2>1. /\ pipeline'[p].status = "Cancelled"
        /\ pipeline'[p].total_nodes = pipeline[p].total_nodes
    BY <1>5, AccountWritten
  <2>2. \A j \in Indexes :
          node'[p][j] = IF j \in listed THEN NoNode("Closed") ELSE node[p][j]
    BY <1>5 DEF CancelPipeline, TypeOK
  <2>3. \A j \in listed : node[p][j].status = "Pending"
    BY <1>5 DEF CancelPipeline
  <2>4. NoNode("Closed").status = "Closed"
    BY DEF NoNode
  <2>5. Kept(p)
    BY <2>1, <2>2, <2>3, <2>4 DEF Kept, Listed
  <2> QED
    BY <1>5, <2>5, StepsElsewhere, ElsewhereKept
<1> QED
  BY <1>1, <1>2, <1>3, <1>4, <1>5, StepKinds

LEMMA StepsForward ==
  ASSUME ChainInv, [Next]_vars
  PROVE  NodesForward
<1>1. CASE Tick \/ OperatorStep \/ UNCHANGED vars
  BY <1>1, QuietForward
<1>2. ASSUME NEW p \in Pipelines, ConsumerStep(p)
      PROVE  NodesForward
  BY <1>2, ConsumerForward
<1>3. ASSUME NEW p \in Pipelines, NEW i \in Indexes, NEW agent, NEW tier,
             ClaimNode(p, i, agent, tier)
      PROVE  NodesForward
  BY <1>3, ClaimForward
<1>4. ASSUME NEW p \in Pipelines, NEW i \in Indexes, FacilitatorStep(p, i)
      PROVE  NodesForward
  <2>1. ASSUME NEW facilitator, NEW mint, CompleteNode(p, i, facilitator, mint)
        PROVE  NodesForward
    BY <2>1, SettleForward DEF CompleteNode, ActiveStatus
  <2>2. ASSUME NEW facilitator, NEW delta, SubmitCompletion(p, i, facilitator, delta)
        PROVE  NodesForward
    BY <2>2, SubmitForward
  <2>3. ASSUME NEW facilitator, NEW mint, UpholdDispute(p, i, facilitator, mint)
        PROVE  NodesForward
    BY <2>3, UpholdForward
  <2>4. ASSUME NEW facilitator, NEW mint, RejectDispute(p, i, facilitator, mint)
        PROVE  NodesForward
    BY <2>4, ReviewedForward
  <2> QED
    BY <1>4, <2>1, <2>2, <2>3, <2>4 DEF FacilitatorStep
<1>5. ASSUME NEW p \in Pipelines, NEW i \in Indexes, NEW mint, FinalizeNode(p, i, mint)
      PROVE  NodesForward
  BY <1>5, ReviewedForward
<1>6. ASSUME NEW p \in Pipelines, NEW i \in Indexes, NEW listed \in SUBSET Indexes, NEW mint,
             ExpireNode(p, i, listed, mint)
      PROVE  NodesForward
  BY <1>6, ExpireForward
<1> QED
  BY <1>1, <1>2, <1>3, <1>4, <1>5, <1>6 DEF Next

LEMMA InitPositions == Init => PositionInv
<1> SUFFICES ASSUME Init, NEW p \in Pipelines, NEW i \in Indexes
             PROVE  i >= pipeline[p].total_nodes <=> node[p][i].status = "Absent"
  BY DEF PositionInv
<1>1. pipeline[p].total_nodes = 0 /\ node[p][i].status = "Absent"
  BY DEF Init, NoPipeline, NoNode
<1>2. i >= 0
  BY DEF Indexes
<1> QED
  BY <1>1, <1>2

\* Only create_pipeline makes an account.
LEMMA MadeByCreate ==
  ASSUME ChainInv, [Next]_vars, NEW p \in Pipelines, ~Listed(p), Listed(p)'
  PROVE  \E node_configs \in NodeConfigLists : CreatePipeline(p, node_configs)
<1>1. ASSUME NEW q \in Pipelines, Elsewhere(q)
      PROVE  q = p
  BY <1>1 DEF Elsewhere, Listed
<1>2. NodesWith(p, OpenStatus) = {}
  BY DEF Listed, ChainInv, ReviewInv, AbsentIsEmpty, NodesWith, OpenStatus, ActiveStatus
<1>3. ASSUME NEW j \in Indexes, NEW mint, Paid(p, j, mint)
      PROVE  FALSE
  BY <1>2, <1>3 DEF Paid, NodesWith, OpenStatus
<1>4. ASSUME NEW R, NEW mint, Returned(p, R, mint)
      PROVE  FALSE
  BY <1>2, <1>4 DEF Returned
<1>5. ASSUME NEW consumer, NEW listed, NEW mint, CancelPipeline(p, consumer, listed, mint)
      PROVE  FALSE
  BY <1>5 DEF CancelPipeline, Listed
<1>6. ~Worked
  BY DEF Worked, Listed
<1> QED
  BY <1>1, <1>3, <1>4, <1>5, <1>6, StepKinds, StepsElsewhere DEF ChainInv

LEMMA PositionsPreserved ==
  ASSUME ChainInv, PositionInv, [Next]_vars
  PROVE  PositionInv'
<1> SUFFICES ASSUME NEW p \in Pipelines, NEW i \in Indexes
             PROVE  i >= pipeline'[p].total_nodes <=> node'[p][i].status = "Absent"
  BY DEF PositionInv
<1>1. CASE Listed(p)
  <2>1. Kept(p)
    BY StepsKept DEF ChainInv, AllKept
  <2> QED
    BY <1>1, <2>1 DEF Kept, PositionInv
<1>2. CASE ~Listed(p) /\ Listed(p)'
  <2>1. PICK node_configs \in NodeConfigLists : CreatePipeline(p, node_configs)
    BY <1>2, MadeByCreate
  <2>2. pipeline'[p].total_nodes = Len(node_configs)
    BY <2>1 DEF CreatePipeline, ChainInv, TypeOK
  <2>3. /\ Len(node_configs) \in Nat
        /\ node'[p][i] = IF i < Len(node_configs) THEN PendingNode(node_configs[i + 1])
                                                  ELSE NoNode("Absent")
    BY <2>1, CreatedNodes DEF ChainInv
  <2>4. node'[p][i].status = IF i < Len(node_configs) THEN "Pending" ELSE "Absent"
    BY <2>3, PendingNodeFields
  <2>5. i \in Int
    BY DEF Indexes
  <2> QED
    BY <2>2, <2>3, <2>4, <2>5
<1>3. CASE ~Listed(p) /\ ~Listed(p)'
  <2>1. node'[p][i].status = "Absent" /\ node[p][i].status = "Absent"
    BY <1>3, ChainPreserved DEF Listed, ChainInv, ReviewInv, AbsentIsEmpty
  <2>2. pipeline'[p].total_nodes = pipeline[p].total_nodes
    <3>1. CASE Worked
      BY <3>1 DEF Worked
    <3>2. ASSUME NEW q \in Pipelines, NEW j \in Indexes, NEW mint, Paid(q, j, mint)
          PROVE  pipeline'[p].total_nodes = pipeline[p].total_nodes
      BY <3>2, AccountWritten, StepsElsewhere DEF ChainInv, Elsewhere
    <3>3. ASSUME NEW q \in Pipelines, NEW R, NEW mint, Returned(q, R, mint)
          PROVE  pipeline'[p].total_nodes = pipeline[p].total_nodes
      BY <3>3, AccountWritten, StepsElsewhere DEF ChainInv, Elsewhere
    <3>4. ASSUME NEW q \in Pipelines, NEW consumer, NEW listed, NEW mint,
                 CancelPipeline(q, consumer, listed, mint)
          PROVE  pipeline'[p].total_nodes = pipeline[p].total_nodes
      BY <3>4, AccountWritten, StepsElsewhere DEF ChainInv, Elsewhere
    <3>5. ASSUME NEW q \in Pipelines, NEW node_configs, CreatePipeline(q, node_configs)
          PROVE  pipeline'[p].total_nodes = pipeline[p].total_nodes
      <4>1. pipeline'[q].status = "Active"
        BY <3>5 DEF CreatePipeline, ChainInv, TypeOK
      <4>2. q # p
        BY <1>3, <4>1 DEF Listed
      <4> QED
        BY <3>5, <4>2, StepsElsewhere DEF ChainInv, Elsewhere
    <3> QED
      BY <3>1, <3>2, <3>3, <3>4, <3>5, StepKinds DEF ChainInv
  <2> QED
    BY <2>1, <2>2 DEF PositionInv
<1>4. CASE Listed(p) \/ (~Listed(p) /\ Listed(p)') \/ (~Listed(p) /\ ~Listed(p)')
  BY <1>1, <1>2, <1>3
<1> QED
  BY <1>4

\* An account stands where its index says if all before it are in the list.
LEMMA PrefixPosition ==
  ASSUME NEW i \in Indexes, NEW S, \A j \in Indexes : j < i => j \in S
  PROVE  Cardinality({j \in Indexes : j < i /\ j \in S}) = i
<1> DEFINE last == i - 1
<1>1. i \in Nat /\ i <= MAX_NODES - 1 /\ MAX_NODES \in Nat
  BY ProgramConstants DEF Indexes
<1>2. {j \in Indexes : j < i /\ j \in S} = 0..last
  BY <1>1 DEF Indexes
<1>3. last \in Int /\ last - 0 + 1 = i /\ (0 > last <=> i = 0)
  BY <1>1
<1> HIDE DEF last
<1>4. Cardinality(0..last) = IF 0 > last THEN 0 ELSE last - 0 + 1
  BY <1>3, FS_Interval
<1> QED
  BY <1>2, <1>3, <1>4
-----------------------------------------------------------------------------
(***************************************************************************)
(* What can be done.  An instruction is its guard and what it writes: each  *)
(* of those that take a node out of the vault is equivalent to a condition  *)
(* on the state and an equation for all variables, so that the condition is *)
(* all it waits for.  The invariants show that the transfer, which is part  *)
(* of the guard, never fails, and so when the guard holds.                  *)
(***************************************************************************)
\* The variables after the instruction, as functions of the state before it.
SettledState(p, i, mint, reviews) ==
  LET n == node[p][i]
      amount == OwnMint(p, mint, n.allocation_usdc)
  IN
  <<slot, pipeline_config,
    <<[pipeline EXCEPT ![p] = CountSettled(@, i)],
      [node EXCEPT ![p][i].status = "Settled"],
      reviews,
      [vault EXCEPT ![p] = @ - amount],
      LeftBehind(p, {i}, mint)>>,
    <<consumer_token_account,
      [agent_token_account EXCEPT ![n.agent] = @ + ToAgent(amount)],
      [operator_treasury EXCEPT ![pipeline_config.operator] = @ + Fee(amount)]>>>>

RefundedState(p, R, mint, refund, nodes, reviews) ==
  <<slot, pipeline_config,
    <<[pipeline EXCEPT ![p] = CountExpired(@, Cardinality(R))],
      nodes,
      reviews,
      [vault EXCEPT ![p] = @ - refund],
      LeftBehind(p, R, mint)>>,
    <<[consumer_token_account EXCEPT ![ConsumerOf[p]] = @ + refund],
      agent_token_account, operator_treasury>>>>

Unreviewed(p, i) == [settlement EXCEPT ![p][i] = NoSettlement]

\* The guards of dispute_node and of the arbiter's two answers.
MayDispute(p, i, consumer) == consumer = ConsumerOf[p] /\ DisputeOpen(p, i)

MayResolve(p, i, facilitator, mint) ==
  /\ IsFacilitator(facilitator)
  /\ settlement[p][i].open
  /\ node[p][i].status = "Disputed"
  /\ vault[p] >= OwnMint(p, mint, node[p][i].allocation_usdc)

LEMMA ClaimGuard ==
  \A p, i, agent, tier :
    ClaimNode(p, i, agent, tier) <=>
      /\ MayClaim(p, i, tier)
      /\ vars' = <<slot, pipeline_config,
                   <<pipeline,
                     [node EXCEPT ![p][i] =
                       [@ EXCEPT !.agent = agent, !.status = "Claimed",
                                 !.job_id = <<p, i, agent, slot>>]],
                     settlement, vault, left_behind>>,
                   wallets>>
BY DEF ClaimNode, vars, accounts, wallets

LEMMA DisputeGuard ==
  \A p, i, consumer :
    DisputeNode(p, i, consumer) <=>
      /\ MayDispute(p, i, consumer)
      /\ vars' = <<slot, pipeline_config,
                   <<pipeline, [node EXCEPT ![p][i].status = "Disputed"],
                     [settlement EXCEPT ![p][i].disputed = TRUE], vault, left_behind>>,
                   wallets>>
BY DEF DisputeNode, MayDispute, vars, accounts, wallets

LEMMA FinalizeGuard ==
  \A p, i, mint :
    FinalizeNode(p, i, mint) <=>
      MayFinalize(p, i, mint) /\ vars' = SettledState(p, i, mint, Unreviewed(p, i))
BY DEF FinalizeNode, MayFinalize, Settle, CloseSettlement, SettledState, Unreviewed,
       vars, accounts, wallets

LEMMA RejectGuard ==
  \A p, i, facilitator, mint :
    RejectDispute(p, i, facilitator, mint) <=>
      /\ MayResolve(p, i, facilitator, mint)
      /\ vars' = SettledState(p, i, mint, Unreviewed(p, i))
BY DEF RejectDispute, MayResolve, Settle, CloseSettlement, SettledState, Unreviewed,
       vars, accounts, wallets

LEMMA UpholdGuard ==
  \A p, i, facilitator, mint :
    UpholdDispute(p, i, facilitator, mint) <=>
      /\ MayResolve(p, i, facilitator, mint)
      /\ vars' = RefundedState(p, {i}, mint, OwnMint(p, mint, node[p][i].allocation_usdc),
                               [node EXCEPT ![p][i].status = "Expired"], Unreviewed(p, i))
<1> TAKE p, i, facilitator, mint
<1> DEFINE amount == OwnMint(p, mint, node[p][i].allocation_usdc)
           left == LeftBehind(p, {i}, mint)
<1>1. Cardinality({i}) = 1
  BY FS_Singleton
<1>2. Refund(p, {i}, node[p][i].allocation_usdc, mint) <=>
        /\ vault[p] >= amount
        /\ vault' = [vault EXCEPT ![p] = @ - amount]
        /\ consumer_token_account' =
             [consumer_token_account EXCEPT ![ConsumerOf[p]] = @ + amount]
        /\ left_behind' = left
        /\ UNCHANGED <<agent_token_account, operator_treasury>>
  BY DEF Refund
<1>3. MayResolve(p, i, facilitator, mint) <=>
        /\ IsFacilitator(facilitator) /\ settlement[p][i].open
        /\ node[p][i].status = "Disputed" /\ vault[p] >= amount
  BY DEF MayResolve
<1>4. RefundedState(p, {i}, mint, amount, [node EXCEPT ![p][i].status = "Expired"],
                    Unreviewed(p, i)) =
        <<slot, pipeline_config,
          <<[pipeline EXCEPT ![p] = CountExpired(@, 1)],
            [node EXCEPT ![p][i].status = "Expired"],
            [settlement EXCEPT ![p][i] = NoSettlement],
            [vault EXCEPT ![p] = @ - amount],
            left>>,
          <<[consumer_token_account EXCEPT ![ConsumerOf[p]] = @ + amount],
            agent_token_account, operator_treasury>>>>
  BY <1>1 DEF RefundedState, Unreviewed
<1> HIDE DEF amount, left
<1> QED
  BY <1>2, <1>3, <1>4
     DEF UpholdDispute, CloseSettlement, vars, accounts, wallets, amount

LEMMA ExpireGuard ==
  \A p, i, listed, mint :
    LET R == ExpiredBy(p, i, listed) IN
    ExpireNode(p, i, listed, mint) <=>
      /\ MayExpire(p, i, listed, mint)
      /\ vars' = RefundedState(p, R, mint, OwnMint(p, mint, Total(Allocation(p), R)),
                   [node EXCEPT ![p] =
                      [j \in Indexes |-> IF j \in R THEN [node[p][j] EXCEPT !.status = "Expired"]
                                                    ELSE node[p][j]]],
                   settlement)
BY DEF ExpireNode, MayExpire, Refund, RefundedState, vars, accounts, wallets

\* The transfers: open nodes are covered by their vault, and by what their consumer
\* once owned.
LEMMA OpenCovered ==
  ASSUME LedgerInv, NEW p \in Pipelines, NEW R \in SUBSET OpenNodes(p)
  PROVE  Total(Allocation(p), R) \in Nat /\ Total(Allocation(p), R) <= vault[p]
<1>1. R \in SUBSET Indexes
  BY DEF OpenNodes, NodesWith
<1>2. IsFiniteSet(R) /\ Total(Allocation(p), R) \in Nat
  BY <1>1, AllocationTyped DEF LedgerInv
<1> DEFINE f == Locked(p)
           h == Allocation(p)
<1>3. \A i \in R : f[i] = h[i]
  BY <1>1 DEF OpenNodes, NodesWith, Locked
<1>4. vault[p] = Total(f, Indexes)
  BY BackedPipelines DEF LedgerInv, Backed
<1> HIDE DEF f, h
<1>5. Total(f, R) = Total(h, R)
  BY <1>3, TotalSame
<1>6. Total(f, R) <= Total(f, Indexes)
  BY <1>1, IndexesFinite, TotalDifference
<1> QED
  BY <1>2, <1>4, <1>5, <1>6 DEF h

LEMMA OpenNodeCovered ==
  ASSUME LedgerInv, NEW p \in Pipelines, NEW i \in Indexes, node[p][i].status \in OpenStatus
  PROVE  vault[p] >= OwnMint(p, MintOf[p], node[p][i].allocation_usdc)
<1>1. {i} \in SUBSET OpenNodes(p)
  BY DEF OpenNodes, NodesWith
<1>2. TypeOK
  BY DEF LedgerInv
<1>3. /\ Allocation(p)[i] = node[p][i].allocation_usdc
      /\ Allocation(p)[i] \in Amounts /\ Allocation(p)[i] \in Nat
  BY <1>2, AllocationTyped
<1>4. Total(Allocation(p), {i}) = node[p][i].allocation_usdc
  BY <1>3, TotalSingleton
<1>5. vault[p] \in Nat
  BY <1>2 DEF TypeOK
<1> QED
  BY <1>1, <1>3, <1>4, <1>5, OpenCovered DEF OwnMint

LEMMA OpenBounded ==
  ASSUME LedgerInv, ConsumerInv, NEW p \in Pipelines, NEW R \in SUBSET OpenNodes(p)
  PROVE  Total(Allocation(p), R) <= U64_MAX
<1> DEFINE c == ConsumerOf[p]
           K == PipelinesOf(c)
           mine == {p} \X R
           h == Allocation(p)
<1>1. c \in Consumers /\ p \in K
  BY PartiesAssumption DEF PipelinesOf
<1>2. R \in SUBSET Indexes
  BY DEF OpenNodes, NodesWith
<1>3. \A i \in R : Cost[<<p, i>>] = h[i]
  BY <1>2, CostAt DEF OpenNodes, NodesWith, Allocation
<1> HIDE DEF h
<1>4. Total(Cost, mine) = Total(h, R)
  BY <1>2, <1>3, PairRenamed
<1>5. mine \subseteq IdsIn(K) /\ IsFiniteSet(mine) /\ IsFiniteSet(IdsIn(K))
  BY <1>1, <1>2, NodeIdsFinite DEF IdsIn, NodeIds
<1> HIDE DEF mine
<1>6. Total(Cost, mine) <= Charge(K) /\ Total(Cost, mine) \in Nat
  BY <1>5, TotalDifference, TotalType DEF Charge
<1>7. consumer_token_account[c] \in Nat
  BY <1>1 DEF LedgerInv, TypeOK
<1>8. consumer_token_account[c] = Budget - Charge(K)
  BY <1>1 DEF ConsumerInv, Books
<1>9. Charge(K) \in Nat /\ Budget \in Nat /\ Budget <= U64_MAX
  BY ChargeTyped, BoundsAssumption, U64Assumption DEF Amounts
<1> HIDE DEF c, K
<1> QED
  BY <1>4, <1>6, <1>7, <1>8, <1>9, U64Assumption DEF h

\* A node under review is either still open to dispute or past its window.
LEMMA WindowOrDispute ==
  ASSUME TypeOK, ReviewInv, NEW p \in Pipelines, NEW i \in Indexes,
         node[p][i].status = "Submitted"
  PROVE  /\ settlement[p][i].open /\ ~settlement[p][i].disputed
         /\ DisputeOpen(p, i) <=> ~WindowOver(p, i)
<1>1. settlement[p][i].open /\ ~settlement[p][i].disputed
  BY DEF ReviewInv, ReviewsMatch, Matches
<1>2. settlement[p][i] \in SettlementAccount /\ slot \in Nat
  BY SlotIsAmount DEF TypeOK
<1>3. /\ settlement[p][i].submitted_at_slot \in Nat
      /\ settlement[p][i].dispute_slots \in Nat
  BY <1>2 DEF SettlementAccount, Amounts
<1>4. DisputeUntil(p, i) \in Amounts
  BY <1>3, SaturatingAddType DEF DisputeUntil
<1>5. DisputeUntil(p, i) \in Nat
  BY <1>4, U64Assumption DEF Amounts
<1> QED
  BY <1>1, <1>2, <1>5 DEF WindowOver, DisputeOpen

\* Whichever existing nodes the caller lists: a cascade takes open nodes.
LEMMA ExpiredAreOpen ==
  ASSUME NEW p \in Pipelines, NEW i \in Indexes, NEW listed \in SUBSET Indexes,
         node[p][i].status \in {"Pending", "Claimed"}
  PROVE  ExpiredBy(p, i, listed) \in SUBSET OpenNodes(p)
BY ExpiredByFinite, ExpiredByPending DEF OpenNodes, NodesWith, OpenStatus, ActiveStatus

LEMMA OverdueExpirable ==
  ASSUME LedgerInv, ConsumerInv, NEW p \in Pipelines, NEW i \in Indexes,
         node[p][i].status \in {"Pending", "Claimed"}, Overdue(p, i),
         NEW listed \in SUBSET ExistingNodes(p)
  PROVE  MayExpire(p, i, listed, MintOf[p])
<1>1. listed \in SUBSET Indexes /\ \A j \in listed : NodeExists(p, j)
  BY DEF ExistingNodes
<1> DEFINE refund == Total(Allocation(p), ExpiredBy(p, i, listed))
<1>2. refund \in Nat /\ refund <= vault[p]
  BY <1>1, ExpiredAreOpen, OpenCovered
<1>3. refund <= U64_MAX /\ vault[p] \in Nat
  BY <1>1, ExpiredAreOpen, OpenBounded DEF LedgerInv, TypeOK
<1> HIDE DEF refund
<1>4. vault[p] >= OwnMint(p, MintOf[p], refund)
  BY <1>2, <1>3 DEF OwnMint
<1> QED
  BY <1>1, <1>3, <1>4 DEF MayExpire, refund

ExitInv == LedgerInv /\ ReviewInv /\ ConsumerInv

LEMMA ExitInvariant ==
  ASSUME CancelListsEveryNode
  PROVE  Spec => []ExitInv
<1>1. Init => ExitInv
  BY InitLedger, InitReview, InitConsumer DEF ExitInv
<1>2. ExitInv /\ [Next]_vars => ExitInv'
  BY LedgerPreserved, ReviewPreserved, ConsumerPreserved DEF ExitInv, ReviewStep, LedgerInv
<1> QED
  BY <1>1, <1>2, PTL DEF Spec

LEMMA DisputeXor == ExitInv => DisputeXorFinalize
<1> SUFFICES ASSUME ExitInv, ~pipeline_config.paused, NEW p \in Pipelines, NEW i \in Indexes,
                    node[p][i].status = "Submitted"
             PROVE  DisputeOpen(p, i) # MayFinalize(p, i, MintOf[p])
  BY DEF DisputeXorFinalize
<1>1. /\ settlement[p][i].open /\ ~settlement[p][i].disputed
      /\ DisputeOpen(p, i) <=> ~WindowOver(p, i)
  BY WindowOrDispute DEF ExitInv, LedgerInv
<1>2. vault[p] >= OwnMint(p, MintOf[p], node[p][i].allocation_usdc)
  BY OpenNodeCovered DEF ExitInv, OpenStatus, ActiveStatus
<1>3. MayFinalize(p, i, MintOf[p]) <=> WindowOver(p, i)
  BY <1>1, <1>2 DEF MayFinalize
<1> QED
  BY <1>1, <1>3 DEF DisputeOpen, MayFinalize

\* At every slot of an unpaused program a submitted node can either be disputed or
\* be finalized, never both: the window has neither gap nor overlap, and the money
\* for the payout is there.
THEOREM DisputeXorFinalizeCorrect ==
  ASSUME CancelListsEveryNode
  PROVE  Spec => []DisputeXorFinalize
BY ExitInvariant, DisputeXor, PTL

\* The safety half of FundsNeverTrapped: a node whose deadline has passed, whose
\* dispute window has, or whose dispute has been brought to the arbiter, is held by
\* nothing but a pause, if the call names the pipeline's own mint.
NodesCanLeave ==
  \A p \in Pipelines, i \in Indexes :
    /\ node[p][i].status \in {"Pending", "Claimed"} /\ Overdue(p, i) =>
         \A listed \in SUBSET ExistingNodes(p) : MayExpire(p, i, listed, MintOf[p])
    /\ node[p][i].status = "Submitted" /\ WindowOver(p, i) /\ ~pipeline_config.paused =>
         MayFinalize(p, i, MintOf[p])
    /\ node[p][i].status = "Disputed" =>
         MayResolve(p, i, pipeline_config.facilitator_authority, MintOf[p])

LEMMA ExitsOpen == ExitInv => NodesCanLeave
<1> SUFFICES ASSUME ExitInv, NEW p \in Pipelines, NEW i \in Indexes
             PROVE  /\ node[p][i].status \in {"Pending", "Claimed"} /\ Overdue(p, i) =>
                         \A listed \in SUBSET ExistingNodes(p) : MayExpire(p, i, listed, MintOf[p])
                    /\ node[p][i].status = "Submitted" /\ WindowOver(p, i)
                         /\ ~pipeline_config.paused =>
                         MayFinalize(p, i, MintOf[p])
                    /\ node[p][i].status = "Disputed" =>
                         MayResolve(p, i, pipeline_config.facilitator_authority, MintOf[p])
  BY DEF NodesCanLeave
<1>1. LedgerInv /\ ConsumerInv /\ ReviewInv /\ TypeOK
  BY DEF ExitInv, LedgerInv
<1>2. ASSUME node[p][i].status = "Submitted", WindowOver(p, i), ~pipeline_config.paused
      PROVE  MayFinalize(p, i, MintOf[p])
  BY <1>1, <1>2, WindowOrDispute, OpenNodeCovered DEF MayFinalize, OpenStatus, ActiveStatus
<1>3. ASSUME node[p][i].status = "Disputed"
      PROVE  MayResolve(p, i, pipeline_config.facilitator_authority, MintOf[p])
  <2>1. settlement[p][i].open
    BY <1>1, <1>3 DEF ReviewInv, ReviewsMatch, Matches
  <2> QED
    BY <1>1, <1>3, <2>1, OpenNodeCovered DEF MayResolve, IsFacilitator, OpenStatus, ActiveStatus
<1> QED
  BY <1>1, <1>2, <1>3, OverdueExpirable

\* Overdue, finalizable and disputed nodes can always leave the vault, whichever
\* nodes the caller lists and whatever happened to the rest of the pipeline.
THEOREM NodesCanLeaveCorrect ==
  ASSUME CancelListsEveryNode
  PROVE  Spec => []NodesCanLeave
BY ExitInvariant, ExitsOpen, PTL
=============================================================================
