----------------------------- MODULE ChainPipe ------------------------------
(***************************************************************************)
(* The three programs together.  dag_escrow calls bonded_registry and       *)
(* reputation_bridge inside its own instructions (CPI), signing with its    *)
(* dag_authority PDA; the calls of one transaction take effect together or  *)
(* not at all, so each is a conjunct of the instruction's action.           *)
(***************************************************************************)
EXTENDS Integers, Sequences, FiniteSets

CONSTANTS
  U64_MAX, Pipelines, Consumers, ConsumerOf, Agents, Keys, Successors, Nobody,
  NodeConfigLists,
  FeeBps, ScoreDeltas, DisputeWindows, MAX_NODES, DISPUTE_SLOTS,
  MIN_DISPUTE_SLOTS, MAX_DISPUTE_SLOTS, Budget, MaxSlot,
  Mints, SlashBps, MaxSlashBps, CooldownSlots, StakeAmounts,
  TIER1_MIN, TIER2_MIN, TIER3_MIN, StakeBudget,
  Alphas,
  Authorities, DagAuthority,   \* DagAuthority: dag_escrow's dag_authority PDA
  MintOf                       \* the stake_mint create_pipeline is given

VARIABLES
  slot, pipeline_config, pipeline, node, settlement, vault,
  consumer_token_account, agent_token_account, operator_treasury, left_behind,
  registry_config, agent_stake, stake_vault, foreign_vault, agent_wallet, slash_proceeds,
  bridge_config, agent_reputation, job_record

escrow == <<pipeline_config, pipeline, node, settlement, vault,
            consumer_token_account, agent_token_account, operator_treasury, left_behind>>
registry == <<registry_config, agent_stake, stake_vault, foreign_vault, agent_wallet,
              slash_proceeds>>
bridge == <<bridge_config, agent_reputation, job_record>>
vars == <<slot, escrow, registry, bridge>>

\* The lists of cancel_pipeline are those the SDK builds.
DE == INSTANCE DagEscrow WITH Tiers <- 0..3, CancelListsEveryNode <- TRUE
BR == INSTANCE BondedRegistry WITH MaxJobs <- Cardinality(DE!NodeIds)
RB == INSTANCE ReputationBridge WITH Jobs <- DE!JobIds, NoJob <- DE!NoJob

\* What the programs assume, and that they are deployed as one.
ASSUME ChainPipeAssumption ==
  /\ DE!U64Assumption /\ DE!PartiesAssumption /\ DE!ProgramConstants /\ DE!FeeAssumption
  /\ DE!ArgumentsAssumption /\ DE!BoundsAssumption /\ DE!SupplyAssumption
  /\ BR!BondedRegistryAssumption /\ BR!StakeSupplyAssumption
  /\ RB!ReputationBridgeAssumption
  /\ DagAuthority \in Authorities

Init == DE!Init /\ BR!Init /\ RB!Init

Tick == DE!Tick /\ UNCHANGED <<registry, bridge>>

(***************************************************************************)
(* Instructions of dag_escrow that call the other programs                  *)
(***************************************************************************)
ClaimNode(p, i, agent) ==
  /\ agent_stake[agent].registered
  /\ DE!ClaimNode(p, i, agent, agent_stake[agent].tier)
  /\ BR!IncrementOpenJobs(DagAuthority, agent)
  /\ UNCHANGED bridge

\* Seeded faults: the bridge is not told.
ReportSettledToRegistry(p, i, score_delta) ==
  BR!SettleJob(DagAuthority, node[p][i].agent) /\ UNCHANGED bridge
ReportFailedToRegistry(p, i, mint) ==
  BR!FailJob(DagAuthority, node[p][i].agent, mint, ConsumerOf[p]) /\ UNCHANGED bridge

\* decrement_open_jobs(settled = true), record_completion.
ReportSettled(p, i, score_delta) ==
  LET n == node[p][i] IN
  /\ BR!SettleJob(DagAuthority, n.agent)
  /\ RB!RecordCompletion(DagAuthority, n.agent, n.job_id, score_delta)

\* decrement_open_jobs(settled = false), slash_stake, record_failure.  The slash is
\* in the mint the caller named for the refund.
ReportFailed(p, i, mint) ==
  LET n == node[p][i] IN
  /\ BR!FailJob(DagAuthority, n.agent, mint, ConsumerOf[p])
  /\ RB!RecordFailure(DagAuthority, n.agent, n.job_id)

CompleteNode(p, i, facilitator, score_delta, mint) ==
  DE!CompleteNode(p, i, facilitator, mint) /\ ReportSettled(p, i, score_delta)

FinalizeNode(p, i, mint) ==
  DE!FinalizeNode(p, i, mint) /\ ReportSettled(p, i, settlement[p][i].score_delta)

RejectDispute(p, i, facilitator, mint) ==
  DE!RejectDispute(p, i, facilitator, mint) /\ ReportSettled(p, i, settlement[p][i].score_delta)

UpholdDispute(p, i, facilitator, mint) ==
  DE!UpholdDispute(p, i, facilitator, mint) /\ ReportFailed(p, i, mint)

\* Every condition of expire_node and of the calls it makes.
MayExpire(p, i, listed, mint) ==
  LET n == node[p][i] IN
  /\ DE!MayExpire(p, i, listed, mint)
  /\ n.status = "Claimed" =>
       /\ BR!MayFail(DagAuthority, n.agent, mint)
       /\ RB!MayRecord(DagAuthority, n.job_id)

ExpireNode(p, i, listed, mint) ==
  /\ DE!ExpireNode(p, i, listed, mint)
  /\ \/ node[p][i].status = "Pending" /\ UNCHANGED <<registry, bridge>>
     \/ node[p][i].status = "Claimed" /\ ReportFailed(p, i, mint)

(***************************************************************************)
(* Instructions that touch one program                                      *)
(***************************************************************************)
SubmitCompletion(p, i) ==
  /\ \E facilitator \in Keys, delta \in ScoreDeltas :
       DE!SubmitCompletion(p, i, facilitator, delta)
  /\ UNCHANGED <<registry, bridge>>

ConsumerStep(p) == DE!ConsumerStep(p) /\ UNCHANGED <<registry, bridge>>
StakingStep(a) == BR!AgentStep(a) /\ UNCHANGED <<escrow, bridge>>

OperatorStep ==
  \/ DE!OperatorStep /\ UNCHANGED <<registry, bridge>>
  \/ BR!OperatorStep /\ UNCHANGED <<escrow, bridge>>
  \/ RB!OperatorStep /\ UNCHANGED <<escrow, registry>>

Next ==
  \/ Tick
  \/ OperatorStep
  \/ \E a \in Agents : StakingStep(a)
  \/ \E p \in Pipelines :
       \/ ConsumerStep(p)
       \/ \E i \in DE!Indexes :
            \/ \E agent \in Agents : ClaimNode(p, i, agent)
            \/ SubmitCompletion(p, i)
            \/ \E mint \in Mints :
                 \/ FinalizeNode(p, i, mint)
                 \/ \E listed \in SUBSET DE!Indexes : ExpireNode(p, i, listed, mint)
                 \/ \E facilitator \in Keys :
                      \/ \E delta \in ScoreDeltas : CompleteNode(p, i, facilitator, delta, mint)
                      \/ UpholdDispute(p, i, facilitator, mint)
                      \/ RejectDispute(p, i, facilitator, mint)

Spec == Init /\ [][Next]_vars

\* As in DagEscrow: time passes, somebody expires and finalizes.
Fairness ==
  /\ WF_vars(Tick)
  /\ \A p \in Pipelines, i \in DE!Indexes :
       /\ WF_vars(\E listed \in SUBSET DE!Indexes : ExpireNode(p, i, listed, MintOf[p]))
       /\ SF_vars(FinalizeNode(p, i, MintOf[p]))

FairSpec == Spec /\ Fairness

(***************************************************************************)
(*                               Properties                                *)
(***************************************************************************)
NodeOf(n) == node[n[1]][n[2]]
NodesOf(a, statuses) ==
  {n \in DE!NodeIds : NodeOf(n).agent = a /\ NodeOf(n).status \in statuses}

\* The registry's open-job counter is the number of nodes the agent has claimed
\* and that are neither settled nor expired, over all pipelines and over the five
\* instructions that end a job: an agent is neither freed early nor stuck.
OpenJobsExact ==
  \A a \in Agents :
    agent_stake[a].open_jobs = Cardinality(NodesOf(a, DE!ActiveStatus))

\* Escrow, registry and bridge tell the same story of each agent.
LedgersAgree ==
  \A a \in Agents :
    LET settled == Cardinality(NodesOf(a, {"Settled"}))
        failed == Cardinality(NodesOf(a, {"Expired"}))
        stake == agent_stake[a]
        rep == agent_reputation[a]
    IN
    /\ stake.total_settled = settled /\ rep.total_settled = settled
    /\ stake.total_slashed = failed /\ rep.total_failed = failed

\* There is one receipt for every job that ended, with its outcome and its agent,
\* and none for a job still open or for a node that expired unclaimed.
ReceiptPerEndedJob ==
  /\ \A n \in DE!NodeIds :
       NodeOf(n).job_id \in DOMAIN job_record <=>
         NodeOf(n).job_id # DE!NoJob /\ NodeOf(n).status \in {"Settled", "Expired"}
  /\ \A j \in DOMAIN job_record :
       \E n \in DE!NodeIds :
         /\ NodeOf(n).job_id = j
         /\ job_record[j].agent = NodeOf(n).agent
         /\ job_record[j].outcome = IF NodeOf(n).status = "Settled" THEN "Settled" ELSE "Failed"

\* As long as an agent works on a node, its stake is there to be slashed for it:
\* a step that shrinks the stake is the failure of one of the agent's own nodes.
StakeAnswersForOpenWork ==
  [][\A a \in Agents :
       NodesOf(a, DE!ActiveStatus) # {} /\ stake_vault'[a] < stake_vault[a] =>
         \E n \in NodesOf(a, DE!ActiveStatus) : node'[n[1]][n[2]].status = "Expired"]_vars

Wired ==
  /\ registry_config.dag_escrow_authority = DagAuthority
  /\ bridge_config.dag_escrow_authority = DagAuthority

\* A missed deadline always refunds the buyer (PRODUCT.md:394): while the programs
\* are wired to each other, an overdue node that is pending or claimed can be
\* expired, whatever happened to its agent's stake, tier and reputation.
MissedDeadlineExpirable ==
  Wired =>
    \A p \in Pipelines, i \in DE!Indexes :
      node[p][i].status \in {"Pending", "Claimed"} /\ slot > node[p][i].deadline_slot =>
        MayExpire(p, i, {}, MintOf[p])

\* The agent staked the mint the pipeline pays in, and nothing else.
StakeOf(a, p) == agent_stake[a].stake_mint = MintOf[p] /\ foreign_vault[a] = 0

\* What that asks of the program that holds the stake, and no more: no slash before,
\* no ceiling, tier, unstake or receipt stands in the way of the refund.
OverdueNeedsOnlyTheStake ==
  Wired =>
    \A p \in Pipelines, i \in DE!Indexes :
      LET n == node[p][i] IN
      /\ slot > n.deadline_slot
      /\ n.status = "Pending" \/ (n.status = "Claimed" /\ StakeOf(n.agent, p))
      => MayExpire(p, i, {}, MintOf[p])

\* Locked money always leaves the vault, but for what was left behind, if no pause and
\* no dispute lasts for ever and, from some time on, the programs are wired to each
\* other and stakes are in the pipelines' mint: no failing call blocks the refund or
\* the payout for ever, and no authority set wrongly in between leaves lasting damage.
FundsNeverTrapped ==
  /\ []<>~pipeline_config.paused
  /\ \A p \in Pipelines, i \in DE!Indexes : []<>(node[p][i].status # "Disputed")
  /\ <>[]Wired
  /\ <>[](\A a \in Agents, p \in Pipelines : agent_stake[a].registered => StakeOf(a, p))
  => \A p \in Pipelines :
       vault[p] > DE!Total(left_behind[p], DE!Indexes) ~>
         vault[p] = DE!Total(left_behind[p], DE!Indexes)
=============================================================================
