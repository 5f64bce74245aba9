----------------------------- MODULE DagEscrow ------------------------------
(***************************************************************************)
(* The dag_escrow program (src/programs/dag_escrow/src/lib.rs): a consumer  *)
(* locks the budget of a DAG of paid jobs in a vault; agents claim its      *)
(* nodes once the nodes they depend on are settled; each node is then paid  *)
(* to its agent or refunded to the consumer.                                *)
(*                                                                          *)
(* A transaction is one atomic step, enabled exactly when the instruction   *)
(* returns Ok.  The cross-program calls into bonded_registry and            *)
(* reputation_bridge are left open here: they change none of this module's  *)
(* variables, and a call that fails reverts the transaction, which is no    *)
(* step.  Module ChainPipe conjoins them.                                   *)
(***************************************************************************)
EXTENDS Tokens, Sequences, Cascade

CONSTANTS
  Pipelines,        \* pipeline PDAs, one per (consumer, nonce)
  Consumers,
  ConsumerOf,       \* the consumer in a pipeline's PDA seeds
  Mints,
  MintOf,           \* the stake_mint create_pipeline is given
  Agents,
  Keys,             \* keys that may be operator or facilitator
  Successors,       \* new_operator arguments of propose_operator
  Nobody,           \* Pubkey::default()
  NodeConfigLists,  \* the node_configs arguments consumers pass
  FeeBps,           \* the fee_bps arguments initialize is given
  Tiers,            \* tiers an agent_stake account may show
  ScoreDeltas,      \* score_delta arguments of the facilitator
  DisputeWindows,   \* dispute_slots arguments of set_dispute_window
  MAX_NODES, DISPUTE_SLOTS, MIN_DISPUTE_SLOTS, MAX_DISPUTE_SLOTS,
  Budget,           \* what a consumer's token account holds at first
  MaxSlot,          \* the horizon: the clock stops here
  CancelListsEveryNode
    \* TRUE: cancel_pipeline is given all node accounts of the pipeline, the
    \* list sdk cancelPipeline builds; FALSE: it is given any of them.

ASSUME PartiesAssumption ==
  /\ ConsumerOf \in [Pipelines -> Consumers]
  /\ MintOf \in [Pipelines -> Mints]
  /\ Nobody \notin Agents \cup Keys
  /\ Successors \subseteq Keys \cup {Nobody}

ASSUME ProgramConstants ==
  /\ MAX_NODES \in Nat
  /\ MIN_DISPUTE_SLOTS \in Nat /\ MAX_DISPUTE_SLOTS \in Nat
  /\ DISPUTE_SLOTS \in Amounts

\* initialize rejects a larger fee.
ASSUME FeeAssumption == FeeBps \subseteq 0..BPS

ASSUME ArgumentsAssumption ==
  /\ DisputeWindows \subseteq Amounts
  /\ Tiers \subseteq Nat
  /\ NodeConfigLists \subseteq
       Seq([allocation_usdc: Amounts, deadline_slots_from_now: Amounts,
            dependency_mask: SUBSET Nat, required_tier: Nat])

ASSUME BoundsAssumption ==
  /\ MaxSlot \in Nat \ {0} /\ MaxSlot < U64_MAX
  /\ Budget \in Amounts
  /\ CancelListsEveryNode \in BOOLEAN

\* The token program mints at most u64::MAX units in all.
ASSUME SupplyAssumption ==
  /\ IsFiniteSet(Pipelines) /\ IsFiniteSet(Consumers) /\ IsFiniteSet(Keys)
  /\ Cardinality(Consumers) * Budget <= U64_MAX

VARIABLES
  slot,                    \* Clock::get()?.slot
  pipeline_config,
  pipeline,                \* Pipeline accounts
  node,                    \* PipelineNode accounts, by pipeline and index
  settlement,              \* NodeSettlement accounts, by pipeline and index
  vault,                   \* amount in each pipeline's vault, of its own mint
  consumer_token_account,  \* what each party's token accounts hold, of those mints
  agent_token_account,
  operator_treasury,
  left_behind              \* history: what each node's end left of its allocation

accounts == <<pipeline, node, settlement, vault, left_behind>>
wallets == <<consumer_token_account, agent_token_account, operator_treasury>>
vars == <<slot, pipeline_config, accounts, wallets>>

Slots == 1..MaxSlot
Indexes == 0..(MAX_NODES - 1)
NodeIds == Pipelines \X Indexes

ActiveStatus == {"Claimed", "Submitted", "Disputed"}
OpenStatus == {"Pending"} \cup ActiveStatus
NodeStatus == OpenStatus \cup {"Settled", "Expired", "Absent", "Closed"}
PipelineStatus == {"Active", "Completed", "PartiallyRefunded", "Cancelled", "Absent"}

\* hashv(pipeline, index, agent, slot), taken to be injective, and [0u8; 32].
JobIds == Pipelines \X Indexes \X Agents \X Slots
NoJob == <<>>

\* An account that does not exist (yet, or any more).
NoPipeline ==
  [status |-> "Absent", total_nodes |-> 0, total_usdc_locked |-> 0,
   nodes_settled |-> 0, nodes_expired |-> 0, settled_mask |-> {}]
NoNode(status) ==
  [status |-> status, agent |-> Nobody, allocation_usdc |-> 0, deadline_slot |-> 0,
   dependency_mask |-> {}, required_tier |-> 0, job_id |-> NoJob]
NoSettlement ==
  [open |-> FALSE, submitted_at_slot |-> 0, dispute_slots |-> 0,
   score_delta |-> 0, disputed |-> FALSE]

\* A timer may only be started if it runs out before the horizon or, at the end
\* of u64, never.
WithinHorizon(until) == until < MaxSlot \/ until >= U64_MAX

(***************************************************************************)
(* Helpers the instructions share.                                          *)
(***************************************************************************)
\* Seeded faults: the fee is rounded up; the agent is paid the fee as well.
FeeRoundedUp(allocation) == (allocation * pipeline_config.fee_bps + BPS - 1) \div BPS
ToAgentGross(allocation) == allocation

Fee(allocation) == ShareOf(allocation, pipeline_config.fee_bps)
ToAgent(allocation) == allocation - Fee(allocation)

Allocation(p) == [i \in Indexes |-> node[p][i].allocation_usdc]

\* The status an account of the pipeline gets once one more node is settled.
StatusAfterSettle(pl) ==
  IF pl.nodes_settled + 1 = pl.total_nodes THEN "Completed"
  ELSE IF pl.nodes_settled + 1 + pl.nodes_expired = pl.total_nodes
       THEN "PartiallyRefunded" ELSE pl.status

\* The pipeline with node i counted as settled; with some nodes as expired.
CountSettled(pl, i) ==
  [pl EXCEPT !.nodes_settled = @ + 1,
             !.settled_mask = @ \cup {i},
             !.status = StatusAfterSettle(pl)]
\* A seeded fault: a cascade counts as one expired node.
CountExpiredOnce(pl, count) ==
  [pl EXCEPT !.nodes_expired = @ + 1, !.status = "PartiallyRefunded"]
CountExpired(pl, count) ==
  [pl EXCEPT !.nodes_expired = @ + count, !.status = "PartiallyRefunded"]

(***************************************************************************)
(* Every instruction that moves money is told a mint and takes the          *)
(* pipeline's token account of that mint for its vault; none compares it    *)
(* with the mint the pipeline was created in.  Another mint's account can   *)
(* be opened and filled by anybody, and its tokens are counted nowhere:     *)
(* such a call ends nodes and moves nothing out of the pipeline's vault.    *)
(***************************************************************************)
OwnMint(p, mint, amount) == IF mint = MintOf[p] THEN amount ELSE 0

\* The history after nodes R ended with a transfer in this mint.
LeftBehind(p, R, mint) ==
  [left_behind EXCEPT ![p] = [j \in Indexes |->
     IF j \in R THEN Allocation(p)[j] - OwnMint(p, mint, Allocation(p)[j]) ELSE @[j]]]

\* Pays node i's agent and the operator's fee out of the vault and counts the
\* node as settled: the tail complete, finalize and a rejected dispute share.
Settle(p, i, mint) ==
  LET n == node[p][i]
      amount == OwnMint(p, mint, n.allocation_usdc)
  IN
  /\ vault[p] >= amount
  /\ vault' = [vault EXCEPT ![p] = @ - amount]
  /\ agent_token_account' = [agent_token_account EXCEPT ![n.agent] = @ + ToAgent(amount)]
  /\ operator_treasury' =
       [operator_treasury EXCEPT ![pipeline_config.operator] = @ + Fee(amount)]
  /\ left_behind' = LeftBehind(p, {i}, mint)
  /\ node' = [node EXCEPT ![p][i].status = "Settled"]
  /\ pipeline' = [pipeline EXCEPT ![p] = CountSettled(@, i)]
  /\ UNCHANGED consumer_token_account

\* A seeded fault: the operator's fee is kept back from a refund.
RefundMinusFee(p, R, total, mint) ==
  LET amount == OwnMint(p, mint, total) IN
  /\ vault[p] >= amount
  /\ vault' = [vault EXCEPT ![p] = @ - amount]
  /\ consumer_token_account' =
       [consumer_token_account EXCEPT ![ConsumerOf[p]] = @ + ToAgent(amount)]
  /\ left_behind' = LeftBehind(p, R, mint)
  /\ UNCHANGED <<agent_token_account, operator_treasury>>

\* Returns a total from the vault to the consumer, for nodes R.
Refund(p, R, total, mint) ==
  LET amount == OwnMint(p, mint, total) IN
  /\ vault[p] >= amount
  /\ vault' = [vault EXCEPT ![p] = @ - amount]
  /\ consumer_token_account' =
       [consumer_token_account EXCEPT ![ConsumerOf[p]] = @ + amount]
  /\ left_behind' = LeftBehind(p, R, mint)
  /\ UNCHANGED <<agent_token_account, operator_treasury>>

\* A seeded fault: the settlement account is left open.
KeepSettlement(p, i) == UNCHANGED settlement

CloseSettlement(p, i) == settlement' = [settlement EXCEPT ![p][i] = NoSettlement]

(***************************************************************************)
(* The state initialize leaves behind; nothing can run before it.           *)
(***************************************************************************)
Init ==
  /\ slot = 1
  /\ pipeline_config \in
       [operator: Keys, facilitator_authority: Keys, fee_bps: FeeBps,
        paused: {FALSE}, dispute_slots: {DISPUTE_SLOTS}, pending_operator: {Nobody}]
  /\ pipeline = [p \in Pipelines |-> NoPipeline]
  /\ node = [p \in Pipelines |-> [i \in Indexes |-> NoNode("Absent")]]
  /\ settlement = [p \in Pipelines |-> [i \in Indexes |-> NoSettlement]]
  /\ vault = [p \in Pipelines |-> 0]
  /\ consumer_token_account = [c \in Consumers |-> Budget]
  /\ agent_token_account = [a \in Agents |-> 0]
  /\ operator_treasury = [k \in Keys |-> 0]
  /\ left_behind = [p \in Pipelines |-> [i \in Indexes |-> 0]]

Tick ==
  /\ slot < MaxSlot
  /\ slot' = slot + 1
  /\ UNCHANGED <<pipeline_config, accounts, wallets>>

(***************************************************************************)
(* Operator instructions; has_one = operator on pipeline_config.            *)
(***************************************************************************)
IsOperator(key) == key = pipeline_config.operator

SetFacilitatorAuthority(operator, new_authority) ==
  /\ IsOperator(operator)
  /\ pipeline_config' = [pipeline_config EXCEPT !.facilitator_authority = new_authority]
  /\ UNCHANGED <<slot, accounts, wallets>>

SetPaused(operator, paused) ==
  /\ IsOperator(operator)
  /\ pipeline_config' = [pipeline_config EXCEPT !.paused = paused]
  /\ UNCHANGED <<slot, accounts, wallets>>

SetDisputeWindow(operator, dispute_slots) ==
  /\ IsOperator(operator)
  /\ MIN_DISPUTE_SLOTS <= dispute_slots /\ dispute_slots <= MAX_DISPUTE_SLOTS
  /\ pipeline_config' = [pipeline_config EXCEPT !.dispute_slots = dispute_slots]
  /\ UNCHANGED <<slot, accounts, wallets>>

ProposeOperator(operator, new_operator) ==
  /\ IsOperator(operator)
  /\ pipeline_config' = [pipeline_config EXCEPT !.pending_operator = new_operator]
  /\ UNCHANGED <<slot, accounts, wallets>>

AcceptOperator(new_operator) ==
  /\ pipeline_config.pending_operator # Nobody
  /\ new_operator = pipeline_config.pending_operator
  /\ pipeline_config' =
       [pipeline_config EXCEPT !.operator = new_operator, !.pending_operator = Nobody]
  /\ UNCHANGED <<slot, accounts, wallets>>

(***************************************************************************)
(* create_pipeline                                                          *)
(***************************************************************************)
ValidDag(node_configs) ==
  \A k \in DOMAIN node_configs : node_configs[k].dependency_mask \subseteq 0..(k - 2)

\* A seeded fault: the sum misses the last node.
TotalLockedButLast(node_configs) ==
  Total([k \in DOMAIN node_configs |-> node_configs[k].allocation_usdc],
        1..(Len(node_configs) - 1))

TotalLocked(node_configs) ==
  Total([k \in DOMAIN node_configs |-> node_configs[k].allocation_usdc],
        DOMAIN node_configs)

PendingNode(config) ==
  [NoNode("Pending") EXCEPT
     !.allocation_usdc = config.allocation_usdc,
     !.deadline_slot = SaturatingAdd(slot, config.deadline_slots_from_now),
     !.dependency_mask = config.dependency_mask,
     !.required_tier = config.required_tier]

CreatePipeline(p, node_configs) ==
  LET n == Len(node_configs)
      total == TotalLocked(node_configs)
  IN
  /\ pipeline[p].status = "Absent"
  /\ ~pipeline_config.paused
  /\ n >= 1 /\ n <= MAX_NODES
  /\ ValidDag(node_configs)
  /\ total > 0 /\ total <= U64_MAX
  /\ total <= consumer_token_account[ConsumerOf[p]]
  /\ \A k \in 1..n :
       WithinHorizon(SaturatingAdd(slot, node_configs[k].deadline_slots_from_now))
  /\ consumer_token_account' =
       [consumer_token_account EXCEPT ![ConsumerOf[p]] = @ - total]
  /\ vault' = [vault EXCEPT ![p] = total]
  /\ pipeline' = [pipeline EXCEPT ![p] =
       [status |-> "Active", total_nodes |-> n, total_usdc_locked |-> total,
        nodes_settled |-> 0, nodes_expired |-> 0, settled_mask |-> {}]]
  /\ node' = [node EXCEPT ![p] =
       [i \in Indexes |-> IF i < n THEN PendingNode(node_configs[i + 1])
                                   ELSE NoNode("Absent")]]
  /\ UNCHANGED <<slot, pipeline_config, settlement, agent_token_account, operator_treasury,
                 left_behind>>

(***************************************************************************)
(* claim_node.  tier is what the agent's stake account shows.               *)
(***************************************************************************)
\* A seeded fault: one settled dependency is enough.
SomeDependencySettled(p, i) ==
  \/ node[p][i].dependency_mask = {}
  \/ node[p][i].dependency_mask \cap pipeline[p].settled_mask # {}

DependenciesSettled(p, i) == node[p][i].dependency_mask \subseteq pipeline[p].settled_mask

\* Every condition of claim_node that escrow itself checks.
MayClaim(p, i, tier) ==
  /\ ~pipeline_config.paused
  /\ pipeline[p].status = "Active"
  /\ node[p][i].status = "Pending"
  /\ DependenciesSettled(p, i)
  /\ tier >= node[p][i].required_tier

ClaimNode(p, i, agent, tier) ==
  /\ MayClaim(p, i, tier)
  /\ node' = [node EXCEPT ![p][i] =
       [@ EXCEPT !.agent = agent, !.status = "Claimed", !.job_id = <<p, i, agent, slot>>]]
  /\ UNCHANGED <<slot, pipeline_config, pipeline, settlement, vault, wallets, left_behind>>

(***************************************************************************)
(* complete_node: the facilitator settles a claimed node at once.           *)
(***************************************************************************)
IsFacilitator(key) == key = pipeline_config.facilitator_authority

CompleteNode(p, i, facilitator, mint) ==
  /\ ~pipeline_config.paused
  /\ IsFacilitator(facilitator)
  /\ node[p][i].status = "Claimed"
  /\ Settle(p, i, mint)
  /\ UNCHANGED <<slot, pipeline_config, settlement>>

(***************************************************************************)
(* Optimistic settlement: submit, then dispute or finalize.                 *)
(***************************************************************************)
SubmitCompletion(p, i, facilitator, score_delta) ==
  /\ ~pipeline_config.paused
  /\ IsFacilitator(facilitator)
  /\ node[p][i].status = "Claimed"
  /\ ~settlement[p][i].open
  /\ WithinHorizon(SaturatingAdd(slot, pipeline_config.dispute_slots))
  /\ settlement' = [settlement EXCEPT ![p][i] =
       [open |-> TRUE, submitted_at_slot |-> slot,
        dispute_slots |-> pipeline_config.dispute_slots,
        score_delta |-> score_delta, disputed |-> FALSE]]
  /\ node' = [node EXCEPT ![p][i].status = "Submitted"]
  /\ UNCHANGED <<slot, pipeline_config, pipeline, vault, wallets, left_behind>>

\* A seeded fault: the window in force now, not the one at submission.
DisputeUntilNow(p, i) ==
  SaturatingAdd(settlement[p][i].submitted_at_slot, pipeline_config.dispute_slots)

DisputeUntil(p, i) ==
  SaturatingAdd(settlement[p][i].submitted_at_slot, settlement[p][i].dispute_slots)

DisputeOpen(p, i) ==
  /\ settlement[p][i].open
  /\ node[p][i].status = "Submitted"
  /\ slot <= DisputeUntil(p, i)

\* dispute_node wants nothing else but the consumer's signature.
DisputeNode(p, i, consumer) ==
  /\ consumer = ConsumerOf[p]
  /\ DisputeOpen(p, i)
  /\ settlement' = [settlement EXCEPT ![p][i].disputed = TRUE]
  /\ node' = [node EXCEPT ![p][i].status = "Disputed"]
  /\ UNCHANGED <<slot, pipeline_config, pipeline, vault, wallets, left_behind>>

\* A seeded fault: finalize in the last slot of the window.
WindowOverEarly(p, i) == slot >= DisputeUntil(p, i)

WindowOver(p, i) == slot > DisputeUntil(p, i)

\* Every condition of finalize_node, the transfer's included.
MayFinalize(p, i, mint) ==
  /\ settlement[p][i].open
  /\ node[p][i].status = "Submitted"
  /\ ~settlement[p][i].disputed
  /\ ~pipeline_config.paused
  /\ WindowOver(p, i)
  /\ vault[p] >= OwnMint(p, mint, node[p][i].allocation_usdc)

FinalizeNode(p, i, mint) ==
  /\ MayFinalize(p, i, mint)
  /\ Settle(p, i, mint)
  /\ CloseSettlement(p, i)
  /\ UNCHANGED <<slot, pipeline_config>>

(***************************************************************************)
(* resolve_dispute: the arbiter upholds the dispute, refunding the node     *)
(* alone, or rejects it, settling the node.                                 *)
(***************************************************************************)
UpholdDispute(p, i, facilitator, mint) ==
  /\ IsFacilitator(facilitator)
  /\ settlement[p][i].open
  /\ node[p][i].status = "Disputed"
  /\ Refund(p, {i}, node[p][i].allocation_usdc, mint)
  /\ node' = [node EXCEPT ![p][i].status = "Expired"]
  /\ pipeline' = [pipeline EXCEPT ![p] = CountExpired(@, 1)]
  /\ CloseSettlement(p, i)
  /\ UNCHANGED <<slot, pipeline_config>>

RejectDispute(p, i, facilitator, mint) ==
  /\ IsFacilitator(facilitator)
  /\ settlement[p][i].open
  /\ node[p][i].status = "Disputed"
  /\ Settle(p, i, mint)
  /\ CloseSettlement(p, i)
  /\ UNCHANGED <<slot, pipeline_config>>

(***************************************************************************)
(* expire_node: anyone expires an overdue node and, among the node accounts *)
(* listed, the pending ones downstream of it.                               *)
(***************************************************************************)
NodeExists(p, i) == node[p][i].status \notin {"Absent", "Closed"}

ExpiredBy(p, i, listed) ==
  CascadeSet(i, [j \in Indexes |-> node[p][j].dependency_mask],
             {j \in listed \ {i} : node[p][j].status = "Pending"})

\* A seeded fault: nodes expire only while the pipeline is Active.
OverdueWhileActive(p, i) ==
  pipeline[p].status = "Active" /\ slot > node[p][i].deadline_slot

Overdue(p, i) == slot > node[p][i].deadline_slot

\* Every condition of expire_node, the transfer's included.
MayExpire(p, i, listed, mint) ==
  LET refund_total == Total(Allocation(p), ExpiredBy(p, i, listed)) IN
  /\ \A j \in listed : NodeExists(p, j)
  /\ node[p][i].status \in {"Pending", "Claimed"}
  /\ Overdue(p, i)
  /\ refund_total <= U64_MAX
  /\ vault[p] >= OwnMint(p, mint, refund_total)

ExpireNode(p, i, listed, mint) ==
  LET expired == ExpiredBy(p, i, listed) IN
  /\ MayExpire(p, i, listed, mint)
  /\ Refund(p, expired, Total(Allocation(p), expired), mint)
  /\ node' = [node EXCEPT ![p] =
       [j \in Indexes |-> IF j \in expired THEN [node[p][j] EXCEPT !.status = "Expired"]
                                           ELSE node[p][j]]]
  /\ pipeline' = [pipeline EXCEPT ![p] = CountExpired(@, Cardinality(expired))]
  /\ UNCHANGED <<slot, pipeline_config, settlement>>

(***************************************************************************)
(* cancel_pipeline: the consumer takes the vault back while no listed node  *)
(* has been claimed.                                                        *)
(***************************************************************************)
CancelPipeline(p, consumer, listed, mint) ==
  /\ consumer = ConsumerOf[p]
  /\ pipeline[p].status = "Active"
  /\ \A j \in listed : node[p][j].status = "Pending"
  /\ Refund(p, listed, vault[p], mint)
  /\ node' = [node EXCEPT ![p] =
       [j \in Indexes |-> IF j \in listed THEN NoNode("Closed") ELSE node[p][j]]]
  /\ pipeline' = [pipeline EXCEPT ![p].status = "Cancelled"]
  /\ UNCHANGED <<slot, pipeline_config, settlement>>

CancelLists(p) ==
  LET existing == {i \in Indexes : NodeExists(p, i)}
  IN  IF CancelListsEveryNode THEN {existing} ELSE SUBSET existing

-----------------------------------------------------------------------------
OperatorStep ==
  \E operator \in Keys :
    \/ \E key \in Keys : SetFacilitatorAuthority(operator, key)
    \/ \E paused \in BOOLEAN : SetPaused(operator, paused)
    \/ \E window \in DisputeWindows : SetDisputeWindow(operator, window)
    \/ \E key \in Successors : ProposeOperator(operator, key)
    \/ AcceptOperator(operator)

ConsumerStep(p) ==
  \/ \E node_configs \in NodeConfigLists : CreatePipeline(p, node_configs)
  \/ \E consumer \in Consumers, listed \in CancelLists(p), mint \in Mints :
       CancelPipeline(p, consumer, listed, mint)
  \/ \E consumer \in Consumers, i \in Indexes : DisputeNode(p, i, consumer)

FacilitatorStep(p, i) ==
  \E facilitator \in Keys :
    \/ \E delta \in ScoreDeltas : SubmitCompletion(p, i, facilitator, delta)
    \/ \E mint \in Mints :
         \/ CompleteNode(p, i, facilitator, mint)
         \/ UpholdDispute(p, i, facilitator, mint)
         \/ RejectDispute(p, i, facilitator, mint)

Next ==
  \/ Tick
  \/ OperatorStep
  \/ \E p \in Pipelines :
       \/ ConsumerStep(p)
       \/ \E i \in Indexes :
            \/ \E agent \in Agents, tier \in Tiers : ClaimNode(p, i, agent, tier)
            \/ FacilitatorStep(p, i)
            \/ \E mint \in Mints :
                 \/ FinalizeNode(p, i, mint)
                 \/ \E listed \in SUBSET Indexes : ExpireNode(p, i, listed, mint)

Spec == Init /\ [][Next]_vars

(***************************************************************************)
(* Fairness: time passes, and somebody calls the permissionless             *)
(* instructions expire_node and finalize_node, naming the pipeline's own    *)
(* mint as the SDK does.  Nobody else owes anything.  finalize_node is      *)
(* retried whenever the program is not paused, however often it is paused:  *)
(* strong fairness.                                                         *)
(***************************************************************************)
Fairness ==
  /\ WF_vars(Tick)
  /\ \A p \in Pipelines, i \in Indexes :
       /\ WF_vars(\E listed \in SUBSET Indexes : ExpireNode(p, i, listed, MintOf[p]))
       /\ SF_vars(FinalizeNode(p, i, MintOf[p]))

FairSpec == Spec /\ Fairness

(***************************************************************************)
(*                               Properties                                *)
(***************************************************************************)

ConfigAccount ==
  [operator: Keys, facilitator_authority: Keys, fee_bps: FeeBps, paused: BOOLEAN,
   dispute_slots: Amounts, pending_operator: Keys \cup {Nobody}]
PipelineAccount ==
  [status: PipelineStatus, total_nodes: Nat, total_usdc_locked: Amounts,
   nodes_settled: Nat, nodes_expired: Nat, settled_mask: SUBSET Indexes]
NodeAccount ==
  [status: NodeStatus, agent: Agents \cup {Nobody}, allocation_usdc: Amounts,
   deadline_slot: Amounts, dependency_mask: SUBSET Nat, required_tier: Nat,
   job_id: JobIds \cup {NoJob}]
SettlementAccount ==
  [open: BOOLEAN, submitted_at_slot: Amounts, dispute_slots: Amounts,
   score_delta: ScoreDeltas \cup {0}, disputed: BOOLEAN]

\* Every account holds values of its type.
TypeOK ==
  /\ slot \in Slots
  /\ pipeline_config \in ConfigAccount
  /\ pipeline \in [Pipelines -> PipelineAccount]
  /\ node \in [Pipelines -> [Indexes -> NodeAccount]]
  /\ settlement \in [Pipelines -> [Indexes -> SettlementAccount]]
  /\ vault \in [Pipelines -> Nat]
  /\ consumer_token_account \in [Consumers -> Nat]
  /\ agent_token_account \in [Agents -> Nat]
  /\ operator_treasury \in [Keys -> Nat]
  /\ left_behind \in [Pipelines -> [Indexes -> Amounts]]

NodesWith(p, statuses) == {i \in Indexes : node[p][i].status \in statuses}
ExistingNodes(p) == {i \in Indexes : NodeExists(p, i)}

\* What the vault holds for each node: its allocation while the node is open, then
\* what its end left behind.
Locked(p) ==
  [i \in Indexes |-> IF node[p][i].status \in OpenStatus THEN Allocation(p)[i]
                                                         ELSE left_behind[p][i]]

\* The vault of every pipeline holds exactly the allocations of its open nodes and
\* those whose end named another mint: a partial node list in expire_node, a cascade
\* or a race between settling and expiring neither strands nor overdraws it.
VaultBacksOpenNodes ==
  \A p \in Pipelines : vault[p] = Total(Locked(p), Indexes)

\* The pipeline's own counters, mask and status, which each instruction updates
\* on its own, tell the truth about its node accounts.
PipelineSummarisesNodes ==
  \A p \in Pipelines :
    LET pl == pipeline[p]
        settled == NodesWith(p, {"Settled"})
        expired == NodesWith(p, {"Expired"})
    IN
    /\ pl.settled_mask = settled
    /\ pl.nodes_settled = Cardinality(settled)
    /\ pl.nodes_expired = Cardinality(expired)
    /\ pl.status # "Cancelled" => pl.total_nodes = Cardinality(ExistingNodes(p))
    /\ pl.status = "Completed" <=> settled # {} /\ settled = ExistingNodes(p)
    /\ pl.status = "PartiallyRefunded" <=> expired # {}
    /\ pl.status = "Cancelled" <=> NodesWith(p, {"Closed"}) # {}

\* No node is worked on, under review or paid before every node it depends on
\* has been paid for (claim_node's settled_mask test, for whatever the cascades
\* and the disputes of other nodes did meanwhile).
DependencyOrder ==
  \A p \in Pipelines : \A i, j \in Indexes :
    node[p][i].status \in ActiveStatus \cup {"Settled"} /\ j \in node[p][i].dependency_mask
      => node[p][j].status = "Settled"

IdsWith(statuses) == {n \in NodeIds : node[n[1]][n[2]].status \in statuses}

\* What left the vault for a settled node.
PaidOutFor(n) == node[n[1]][n[2]].allocation_usdc - left_behind[n[1]][n[2]]

\* Each agent has received, over all pipelines, its allocation minus the fee for
\* exactly the nodes it settled, and the successive operators the fees of exactly
\* the settled nodes, whichever of the three settling paths a node took; save for
\* the nodes settled in another mint than their pipeline's.
PayoutsMatchSettledWork ==
  LET paid == [n \in NodeIds |-> PaidOutFor(n)]
      fee == [n \in NodeIds |-> ShareOf(paid[n], pipeline_config.fee_bps)]
  IN
  /\ \A a \in Agents :
       agent_token_account[a] =
         Total([n \in NodeIds |-> paid[n] - fee[n]],
               {n \in IdsWith({"Settled"}) : node[n[1]][n[2]].agent = a})
  /\ Total(operator_treasury, Keys) = Total(fee, IdsWith({"Settled"}))

\* What a node costs the consumer: its allocation while it is open or settled, then
\* what its refund left behind.
Cost ==
  [n \in NodeIds |->
     LET m == node[n[1]][n[2]] IN
     IF m.status \in OpenStatus \cup {"Settled"} THEN m.allocation_usdc
                                                 ELSE left_behind[n[1]][n[2]]]

\* A consumer is out of pocket for the nodes that are open or settled, and for
\* those refunded in another mint: every other expired or cancelled node came back
\* in full, once.
ConsumerPaysOnlyForWork ==
  \A c \in Consumers :
    consumer_token_account[c] =
      Budget - Total(Cost, {n \in NodeIds : ConsumerOf[n[1]] = c})

\* Once a completion is submitted, the consumer's right to dispute it ends with
\* the passing of time or with the dispute: no pause, no set_dispute_window, no
\* finalize_node and no key rotation takes it away early.
DisputeRightKept ==
  [][\A p \in Pipelines, i \in Indexes :
       DisputeOpen(p, i) =>
         \/ DisputeOpen(p, i)'
         \/ slot' # slot
         \/ node'[p][i].status = "Disputed"]_vars

\* While the program is not paused a submitted node can, at every slot, either
\* be disputed or be finalized, and never both: the window has no gap and no
\* overlap at its last slot.
DisputeXorFinalize ==
  ~pipeline_config.paused =>
    \A p \in Pipelines, i \in Indexes :
      node[p][i].status = "Submitted" =>
        DisputeOpen(p, i) # MayFinalize(p, i, MintOf[p])

\* A NodeSettlement account lives exactly as long as its node is under review,
\* so that a later submit or resolve never meets a stale one.
SettlementMatchesNode ==
  \A p \in Pipelines, i \in Indexes :
    /\ settlement[p][i].open <=> node[p][i].status \in {"Submitted", "Disputed"}
    /\ settlement[p][i].disputed <=> node[p][i].status = "Disputed"

\* If no pause and no dispute lasts for ever, locked money always leaves the vault,
\* but for what was left behind: whatever agents, consumers and the facilitator fail
\* to do, no state traps it (lib.rs: "consumer funds can never be trapped").
FundsNeverTrapped ==
  /\ []<>~pipeline_config.paused
  /\ \A p \in Pipelines, i \in Indexes : []<>(node[p][i].status # "Disputed")
  => \A p \in Pipelines :
       vault[p] > Total(left_behind[p], Indexes) ~>
         vault[p] = Total(left_behind[p], Indexes)

(***************************************************************************)
(* The escrow promises what EscrowPromise says.                             *)
(***************************************************************************)
Fate(status) ==
  CASE status = "Absent" -> "none"
    [] status \in OpenStatus -> "held"
    [] status = "Settled" -> "paid"
    [] status \in {"Expired", "Closed"} -> "refunded"

Lots == [p \in Pipelines |-> [i \in Indexes |->
  [fate |-> Fate(node[p][i].status), amount |-> Locked(p)[i],
   needs |-> IF node[p][i].status \in OpenStatus THEN node[p][i].dependency_mask ELSE {}]]]

Promise == INSTANCE EscrowPromise WITH
  lots <- Lots, fee_bps <- pipeline_config.fee_bps, wallet <- consumer_token_account,
  paid <- agent_token_account, fees <- operator_treasury

\* Every behaviour of the program is one of the abstract escrow: a lot of money
\* is paid once, after the lots it needs, or returned once, or it ends in another
\* mint and stays where it is.
KeepsPromise == Promise!Spec

\* resolve_dispute sets a node whose dispute is upheld to Expired; the product
\* description says that when a node expires the refund flows to every
\* downstream node too.  No pending dependent stays behind such an expiry.
UpheldExpiryReachesDependents ==
  [][\A p \in Pipelines : \A i, j \in Indexes :
       node[p][i].status = "Disputed" /\ node'[p][i].status = "Expired"
         /\ i \in node[p][j].dependency_mask
       => node'[p][j].status # "Pending"]_vars

\* cancel_pipeline's own comment: "All nodes must be Pending": a node
\* that was claimed or settled belongs to no cancelled pipeline.
CancelledPipelineWasIdle ==
  \A p \in Pipelines :
    pipeline[p].status = "Cancelled" =>
      NodesWith(p, ActiveStatus \cup {"Settled"}) = {}
=============================================================================
