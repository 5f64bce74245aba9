# ChainPipe in TLA+

ChainPipe lets a consumer lock money for a DAG of paid jobs on Solana. Bonded
agents claim the jobs, deliver them, and are paid or slashed; a permanent record
of every outcome moves their reputation. Three on-chain programs hold the money
and the state; a facilitator service drives them, an indexer copies them for a
dashboard, an SDK builds their transactions, and two scripts deploy and migrate
them. This directory holds TLA+ models of all of these, of the dashboard as far as
it decides anything, the TLC configurations that check them on small instances, and
proofs checked by TLAPS.

Paths in this file are relative to the repository root; `escrow` is
`programs/dag_escrow/src/lib.rs`, `registry` is
`programs/bonded_registry/src/lib.rs`, `bridge` is
`programs/reputation_bridge/src/lib.rs`.

## 1. Inventory

| component | state it keeps | operations | what is hard, and what makes it correct |
|---|---|---|---|
| **dag_escrow** | `PipelineConfig`; per pipeline a `Pipeline`, up to 16 `PipelineNode`s (`MAX_NODES`), a vault; per node under review a `NodeSettlement` | create, claim, complete, submit, dispute, finalize, resolve, expire, cancel; operator instructions (facilitator, pause, window, hand-over); migrate | Consumer, agents, facilitator/arbiter, operator and anybody act on one pipeline in any order, against deadlines and dispute windows. Every transfer takes the mint its caller names. Money leaves the vault once, to the right party; counters, mask and status tell the truth about the nodes; a node is worked on only after its dependencies; a dispute right is kept; no money is trapped. |
| **bonded_registry** | `RegistryConfig`; per agent an `AgentStake` and a vault | stake, add, request/execute unstake; increment, decrement, slash (called by dag_escrow); operator instructions; migrate | Unstaking interleaves with claims and slashes; the tier is a cached value; slashes round and clamp; `add_stake` takes any mint. Stake backs open jobs; a failed job can always be reported. |
| **reputation_bridge** | `BridgeConfig`; per agent an `AgentReputation`; per job a `JobRecord` | record_completion, record_failure (called by dag_escrow); operator instructions; migrate | Five paths end a job; each job is recorded once; score and receipts agree; fixed-point arithmetic truncates toward zero and clamps. |
| **the three together** | all of the above | claim, complete, finalize, resolve and expire call the other two programs in the same transaction (CPI) | A failing call reverts the whole instruction. The ledgers agree, and no failing call blocks a refund. |
| **config lifecycle** | layouts, operators, wiring and settings of the three config accounts | `initialize`, `migrate_*`, `scripts/initialize-programs.mts`, `scripts/migrate-configs.mts` | Old layouts are unusable until migrated, once. A script sends three transactions; it is killed, loses answers and is run again beside calls by hand. "Done." is true; running again undoes nothing and converges. |
| **facilitator** (`facilitator/src`) | in-memory set of seen jobs, keys from the environment | HTTP `/complete`, `/submit`, `/expire`, `/resolve`, `/finalize`, `/faucet`, read-only endpoints | Every await is a point where the chain moves; two requests pass the guard together; a transaction lands after the server gave up; a restart clears the seen set. It pays only for signed work, its answers are true, and it refuses no job that is still to be paid. |
| **indexer** (`indexer/src`) | a JSON file: pipelines, agents, stats, signed job specs | poll, read API, post job specs | Polls overlap and read account by account; crash while writing. Snapshots add up, specs survive polls and restarts, the store catches up. |
| **sdk** (`sdk/src`) | none | derives PDAs, builds the instructions and their account lists, reads accounts | The accounts a builder gives must satisfy the constraints of three programs; it decides on a node it read before; everything must fit one packet. |
| **generated IDL** | none | which accounts, signers, derivations, argument and account layouts each instruction has | Must agree with the SDK and with what dag_escrow passes on. |
| **dashboard** (`dashboard/`) | none that outlives a page | work page: claim, submit; settlement panel: dispute, finalize, expire; pipeline page: amounts | It decides what to offer from a snapshot that lags, from list positions, from answers that may fail, with its own copies of the program's conditions. What it offers should be what the program accepts. |
| **other scripts**, **tests** | none of the protocol's | seeding; exercises | – |

Interaction: a consumer signs create, dispute and cancel; an agent signs claim
and the staking instructions; the facilitator's key signs complete, submit and
resolve; expire and finalize need no authority. dag_escrow's `dag_authority` PDA
signs the calls into the registry and the bridge, which compare it with their own
`dag_escrow_authority`. The facilitator verifies an agent's signature off chain
before it signs. The indexer only reads the chain.

## 2. Modules

| module | models | state and actions |
|---|---|---|
| `Tokens` | u64 amounts: sums, shares in basis points, saturating addition | operators only; `Total` counts token units so that it needs no recursion and can be proved about |
| `Cascade` | what the fixpoint in `expire_node` computes (escrow:720-750) | `CascadeSet`, the least closed set that holds the target |
| `CascadeLoop` | how it computes it: passes over `remaining_accounts`, bit by bit | `VisitAccount`, `EndPass`; the inputs are initial states |
| `DagEscrow` | dag_escrow | one action per instruction, named as in the code (`ResolveDispute` is split into `UpholdDispute` and `RejectDispute`), `Tick` for the clock. The instructions that transfer take the `mint` of their caller; the history variable `left_behind` records what each node's end left in the vault |
| `EscrowPromise` | the abstract escrow: lots of money held, then paid or refunded | `Lock`, `Pay`, `ReturnLots`; `PayElsewhere`, `ReturnElsewhere` for lots that end in another mint and keep their amount |
| `BondedRegistry` | bonded_registry | one action per instruction; `AddStake` deposits in the stake's vault or, with another mint, in `foreign_vault`; `FailJob` is the `decrement_open_jobs(false)` and `slash_stake` that dag_escrow issues together |
| `ReputationBridge` | reputation_bridge | `RecordCompletion`, `RecordFailure`, operator instructions |
| `ChainPipe` | the three programs composed | instances of the three; an instruction that makes calls is the conjunction of its own action and the callees' |
| `Facilitator` | the facilitator service over `DagEscrow` | a request is a record that moves from await to await (`CheckSeen`, `LookUp`, `Verify`, `CheckDeadline`, `CheckReplay`, `CheckStatus`, `VerifyExpirable`, `CheckOverdue`, `Send`); its transaction lands by itself (`Land`, `Drop`); `Confirm` or `GiveUp` answers; `Decoded` is what the server makes of the hash it is sent; `Sign` for agents, `Restart` for the process |
| `Indexer` | the indexer over `DagEscrow` | `StartPoll`, `FetchPipeline`, `FetchNode`, `PipelineRead`, `FinishPoll`, `PollError` per poll; `PostSpec`; `Restart`, `RestartAfterTornSave` |
| `Dashboard` | what the pages compute from the indexer's snapshot, the slot and the facilitator's answer | operators only, over the states of `Indexer`: `Claimable`, `InProgress`, `OverdueShown`, `DisputeOffered`, `FinalizeOffered`, `InEscrowShown`; `PositionsShownAs` for what the work page finds at a list position |
| `Deployment` | the configs over their life and the two scripts | one action per instruction sent by hand; `Start`, `Look`, `Send` per script, `Killed` and `AnswerLost` between them |
| `Interface` | the clients' view of every instruction | operators only: accounts, writable, signers, derivations, argument sizes, account layouts, named as in the interface files with the program's initials in front |
| `Client` | one SDK call against the interface and the three programs | `Build` reads the node and fills in accounts, `Resolve` works out an open one, `Land` or `Fail` ends it, `Elsewhere` moves the node in between |
| `TokenTheorems`, `DagEscrowProofs`, `RegistryProofs`, `BridgeProofs`, `ChainPipeProofs`, `FacilitatorProofs`, `IndexerProofs`, `PartsProofs` | – | theorems and lemmas, section 5 |
| `MC*` | – | constants for TLC; `MCParts` runs the modules that need no other to run, one at a time |

Each variable is a family of accounts, indexed by what seeds its PDA, with the
field names of the Rust structs. `node[p][i]` is node `i` of pipeline `p`;
`"Absent"` and `"Closed"` stand for an account that does not exist. An
instruction is a transaction: one atomic step, enabled exactly when the program
returns `Ok`. Every `require!`, every account constraint that depends on state
(`has_one`, `init`, seeds) and every checked arithmetic operation that can fail
on a modelled value is a guard. `Init` is the state `initialize` leaves in each
program; `Deployment` models how it gets there.

An off-chain process takes one step per await: what it reads in one step is old in
the next. Its transaction is a step of the chain's own, so that it may land
after the process gave up or was restarted.

### What is abstracted

* `job_id`, a hash of (pipeline, index, agent, slot), is that tuple: the hash is
  taken to be injective. Result hashes, delivery URIs, dispute reasons, bumps,
  `settled_at_slot`, events and logs are left out; they decide nothing on chain.
* Token accounts are modelled in one mint each: vaults and wallets in the mint of
  their pipeline, stake vaults in the mint of their stake. Each party has one, for
  all its pipelines together. An account of another mint can be opened and filled by
  anybody and is worth nothing here, so its balance is not counted: `OwnMint` says what
  a transfer moves out of the pipeline's vault, all or nothing of it. `foreign_vault`
  counts what was deposited as stake in other mints, because the registry counts it;
  an agent may own any amount of them. A slash is kept in a ledger of its own,
  `slash_proceeds`. Tokens that somebody gives to a vault by a transfer of the token
  program are left out.
* A transaction may list any set of a pipeline's node accounts in
  `expire_node`; order and duplicates are in `CascadeLoop`, which shows
  they change nothing. Cancel lists are those the SDK builds, all nodes
  (`CancelListsEveryNode`); run `escrow_cancel` lifts this.
* A timer is started only if it runs out before the horizon `MaxSlot` or, at the
  end of u64, never (`WithinHorizon`); otherwise the horizon would cut off what
  happens after it. A deadline of `U64_MAX` never passes: the code lets the
  consumer choose it. In run `escrow_dag`, which checks liveness too, the node
  with that deadline has an allocation of 0: with another one the consumer
  would have chosen never to be refunded.
* `MaxJobs` bounds the jobs one agent takes in `BondedRegistry`; in
  `ChainPipe` it is the number of nodes, so it never binds.
* The counters that only count jobs and pipelines (`nodes_settled` and
  `nodes_expired` are u8 with at most 16 nodes; the registry's totals are u32) do
  not reach their width.
* `Facilitator`: a signature is the fact that an agent signed a message; an agent may
  sign any delivery for any node in the name of any job. The delivery is a (result hash,
  uri) pair; a hash posted as hex, which the server reads as base64, comes out as
  other bytes (`Misread`) and no signature is for it. Fetching the uri may fail whatever the
  delivery is. `getPipeline` reads a pipeline and its nodes one after another; the
  model takes that as one read, while it keeps that missing nodes shift the
  positions of the list (`AtPosition`). The score sent to `submit_completion` is
  any of `ScoreDeltas`, the scorer is left out.
* `Indexer`: an account the poll reads is one step; the list of staked agents is
  read likewise and left out. A job spec is a consumer and a value.
* `Deployment`: settings are reduced to "changed from the default or not". The
  programs before the hardening ran `initialize` only, so `Init` is any deployment
  that `initialize-programs` left behind, perhaps unfinished, and any wiring.
* `Client`: an address is a term, a key or what it is derived from, so that two
  addresses are equal only when they are derived alike. Tables of accounts are merged with
  `@@` and `:>`, which `Interface` defines as `TLC` does, for the provers to expand. The state of the node is
  its status and agent; whatever else could refuse a call is `Fail`. Transactions
  are legacy messages of one instruction, with the sizes of their encoding.

## 3. Runs

`U64_MAX` is 8 or 12 in the escrow runs, so that totals overflow, deadlines
saturate and fees round. Dispute windows are drawn from a set that holds values
below and above the limits, and `create_pipeline` is also called with lists it
must reject (empty, too long, cyclic, of nothing, overflowing). In every run the
clock goes past every deadline and every window, except a deadline of `U64_MAX`.

| run | question | bounds | distinct states |
|---|---|---|---|
| `parts` | One part at a time: does the loop of `expire_node` stop, at the cascade, and refund each node once? Do vault, stake, tier and jobs of the registry agree under every order of staking, work, slashing and tuning? Do scores and totals of the bridge follow the permanent receipts? Do the deployment scripts converge and undo nothing? Do SDK, interface and programs agree on every call? | cascade: all 64 DAGs of 4 nodes, every target and set of pending nodes, listings in every order, partial, and with duplicates; registry: 1 agent, 3 jobs, all tiers, two mints, slash rate 60 %, ceilings 0, 10, 100 % and one above; bridge: 2 agents, 3 jobs, deltas at both ends of i16, and ones that truncate to 0 from either side; deployment: 2 keys, 2 calls by hand, 2 faults; client: 2 agents, pipelines of 1, 13, 14 and 16 nodes, the real packet size | 1,270,117 |
| `escrow_dag` | Do money, counters, order and the dispute window stay consistent under every instruction, does the program implement `EscrowPromise`, and does locked money always leave the vault? | one pipeline of 3 nodes (chain, fork, join), two mints, 4 slots, under fairness | 46,920 |
| `escrow_keys` | Does everybody end up with exactly the money the settled nodes say, also when operator and facilitator change? | 2 pipelines, 2 agents, 2 keys, two mints | 514,440 |
| `chain_jobs` | Do the three programs tell one story? | 2 agents, 2 parallel nodes | 277,756 |
| `chain_wiring` | What can keep a missed deadline from being reported while operators rewire and retune and everybody names one mint or another, and does the vault empty once they stop? | 1 agent, 1 node, two mints, slash rate 100 %, 2 authorities, 2 ceilings, under fairness | 111,240 |
| `facilitator` | Does the server pay only for signed work and tell the truth, whatever moves between two awaits? | 2 requests of any endpoint, pipelines of 1 and 2 nodes, 2 keys, cancels that list any nodes | 539,535 |
| `indexer` | Do snapshots add up, do specs survive, does the store catch up, do the pages offer what the program accepts? | 2 polls, 2 signers, 1 pipeline of one node, of two in order, or of three of which one waits for the first, cancels that list any nodes, an operator who pauses and changes the window, restarts and torn saves | 429,236 |
| `escrow_upheld`, `escrow_cancel`, `chain_mint`, `facilitator_late`, `indexer_crash` | violations, section 6 | | |

Why these bounds are enough to be interesting: three nodes are the smallest DAGs
in which a cascade goes through an expired node to a further one (chain), reaches
several (fork) and meets a node with one dependency settled and one expired
(join); four nodes in the cascade let a pass skip a node that the next one must
take. Four slots let a node be claimed, submitted, disputed or left until after
its deadline, with every order of the deadline and the window. Two mints are the
pipeline's and any other. The third node of `indexer` is there so that a list that lost its first
node has one at the position another node asks for. Two keys are
enough for a hand-over and a stale holder. Two requests for one node are enough
for both to pass the replay guard; two nodes, for one account to be closed and
shift the positions of the list. Two polls are enough to overlap. Two faults
let a script lose an answer and the one run after it be killed.

Symmetry and a constraint are used in `facilitator` only. Its two requests are
interchangeable (`RequestSymmetry`; the run checks no liveness). `OneComplication`
explores at most one of five at a time: both requests in progress; a pipeline
of two nodes; a pause; the operator handing over or rotating keys; a hash that is
misread. With one request at a time the pipeline is created and claimed in the first
slot (`Early`). All of them together are beyond five minutes. `SignedAtWork` lets agents
sign only for a node they work on in the name of its job; the theorems are about agents who
sign what they like. `indexer` has a bound of the same kind and name: a second poll, or
posted specs, only with pipelines of one node; an operator who changes something only beside
one poll; three nodes only while the first slot lasts. It is written into the
next-state relation and into what fairness asks (`BoundedFairIndexer`), so that it leaves no
behaviour out of the liveness check that the bounded system has.

`chain_jobs`, `facilitator` and `indexer` have one mint, for their size; their theorems are for
any number. `chain_jobs`, `escrow_*` but `escrow_cancel`, and `chain_wiring` give `cancel_pipeline` all nodes;
`facilitator`, `indexer` and `escrow_cancel` any of them.

`escrow_dag`, `escrow_keys`, `chain_*` and `indexer*` check deadlock: at the horizon
operators can still act, and polls go on. `parts` says `CHECK_DEADLOCK FALSE`
because the cascade loop ends, `facilitator*` because requests may end with the
chain at its horizon and no signature left to ask for.

### Properties

* Money: `VaultBacksOpenNodes`, `PayoutsMatchSettledWork`,
  `ConsumerPaysOnlyForWork`, `VaultBacksStake`. Since a transfer takes the mint its caller
  names, these say what is so up to the nodes that ended, and the stake that was
  deposited, in another mint, and exactly how much that is (`left_behind`, `foreign_vault`): nothing
  else parts the ledgers.
* Bookkeeping across accounts: `PipelineSummarisesNodes`,
  `SettlementMatchesNode`, `ReputationMatchesReceipts`,
  `OpenJobsExact`, `LedgersAgree`, `ReceiptPerEndedJob`.
* Order and rights: `DependencyOrder`, `DisputeRightKept`, `DisputeXorFinalize`,
  `StakeHeldWhileWorking`, `StakeAnswersForOpenWork`, `ReceiptsPermanent`,
  `ScoreFollowsReceipts`.
* Services over a chain that moves: `SeenIsRecorded` (the replay cache never runs
  ahead of the receipts, so no job still to be paid is refused), `AnswersTrue` (200
  and 409 say what is so on chain), `OnlySignedWorkCounts`. The three have one exception,
  `Misaddressed`: the server finds a node by its position in the list of those that
  exist, so once a cancel that listed some nodes closed one, an agent's signature for one node
  in the name of another node's job is accepted for the wrong one. `SnapshotAddsUp` (a
  snapshot put together from many reads never contradicts itself in the direction
  that matters: it never counts ends its nodes do not show), `SpecsOutlivePolls` (a poll or a
  restart changes no spec; another POST does, whoever sent it, and so does a torn write).
* Pages: `OffersAreReady` (from however old a snapshot, as long as the pipeline is Active
  on chain no node is offered whose dependencies are not settled there, although the page looks
  dependencies up by list position; and the job spec shown with a node
  was signed by the consumer who pays), `PagesAgreeWithProgram` (with a current
  snapshot a page offers claims, refunds, disputes and payouts when the program takes them,
  up to exceptions that the property states, section 6, among them a slot the page read
  earlier or not at all and a facilitator that did not answer).
* Clients: `FreshCallsAccepted` (no call that is due is refused for an account,
  in dag_escrow or in a program it calls), `ReportsItsAgent` (a job is reported
  for whom it ended, although the client decided on an old read),
  `EveryPipelineCanEnd`. The last one is about numbers: a transaction has 1,232
  bytes. `create_pipeline` gets 13 nodes in, `expire_node` with the slash takes
  14 and `cancel_pipeline` 26, so what can be created can be taken apart; the
  16 of `MAX_NODES` is out of a legacy transaction's reach.
* Deployment: `ReportedDoneIsDone`, `ScriptsKeepChoices`.
* Progress: `FundsNeverTrapped` (in `DagEscrow` and in `ChainPipe`),
  `FailureAlwaysReportable`, `OverdueNeedsOnlyTheStake`, `Terminates`,
  `RerunsConverge`, `CatchesUp`. The first is conditional, section 4.
* Refinement: `KeepsPromise`, i.e. `EscrowPromise!Spec` under the mapping that
  turns a node into a lot: open statuses are "held", `Settled` is "paid",
  `Expired` and `Closed` are "refunded", and the amount is what the vault holds for
  it. The abstract escrow has no accounts, authorities, clock or disputes. It says that a lot is
  paid once, after the lots it needs, or returned once, or that it ends in another mint:
  then its amount stays, and no later step moves it.

Constants are checked as assumptions: `LayoutsAgree` in `MCParts` compares the account
lengths written out by hand in the programs, the offset the SDK filters by and
the operator's bytes the migrations read with the layouts of the interface.

Each property comes with a seeded fault, listed under "mutants" in
`PROJECT.json`: an operator next to the one it replaces ("A seeded fault" in the
modules) that changes it the way a bug would, and under which the same run
finds the property violated. Seeded faults are used by no specification.

## 4. Fairness

`FairSpec` in `DagEscrow` and in `ChainPipe` assumes:

* `Tick`, weakly: slots pass.
* `ExpireNode` in the pipeline's own mint, weakly, per node: it is permissionless, and
  the consumer, who is refunded, has every reason to call it.
* `FinalizeNode` in the pipeline's own mint, strongly, per node: it is permissionless and
  pays the agent. It is blocked while the program is paused; the operator may pause
  again and again, so that it is not continuously enabled. Strong fairness says a
  caller who retries hits an unpaused moment.

Nothing is assumed of agents, of the consumer's other instructions, of
`complete_node` and `submit_completion`, or of operators and the arbiter. What nobody owes
is a premise of `FundsNeverTrapped` instead, because the code has no timeout for it: the
program is unpaused again and again (`finalize_node` does not run during a pause,
escrow:535), and no disputed node stays disputed for ever (only the arbiter ends
that). `ChainPipe`'s version supposes besides that from some time on the registry and the
bridge obey dag_escrow's PDA, and that every registered agent's stake is in the
pipelines' mint and in no other: `slash_stake` refuses another mint, and a slash
computed from tokens of another mint may be more than the vault holds (section 6). Then
every vault empties, down to what ended nodes left in it when somebody named another mint; that
part no instruction can move.

* `CascadeLoop`: a running instruction goes on (weak).
* `Deployment`: each script goes on, and is run again after it ended (weak): the
  operator repeats it until it reports success, and may repeat it after that.
  `RerunsConverge` also supposes that the deployer's key still operates the
  configs in the end (`OneKey`) and that the deployment was complete or not begun
  (`CompleteOrNotBegun`, below).
* `Indexer` (`FairIndexer`, bounded in `BoundedFairIndexer`): polls go on (weak), as `setInterval` and the answers
  make them, and after some time no read fails and the process stays up.
  Nothing is assumed of the order in which two polls end.

## 5. Proofs

TLAPS checks the theorems below for every number of pipelines, nodes, agents and
keys and mints, every fee, rate, window, node configuration and horizon that the
assumptions allow. Almost every one rests on an inductive invariant that says more than the
property: the property alone is not kept by each step.

| module | theorem | property |
|---|---|---|
| `DagEscrowProofs` | `TypeCorrect`, `OrderCorrect`, `SettlementCorrect`, `DisputeRightCorrect`, `SummaryCorrect`, `VaultCorrect`, `ConsumerCorrect`, `PayoutsCorrect`, `PromiseKept`, `DisputeXorFinalizeCorrect`, `NodesCanLeaveCorrect` | `TypeOK`, `DependencyOrder`, `SettlementMatchesNode`, `DisputeRightKept`, `PipelineSummarisesNodes`, `VaultBacksOpenNodes`, `ConsumerPaysOnlyForWork`, `PayoutsMatchSettledWork`, `KeepsPromise`, `DisputeXorFinalize`, and that no node is stuck |
| `RegistryProofs` | `RegistryTyped`, `StakeBacked`, `StakeHeldCorrect`, `FailureReportCorrect` | `TypeOK`, `VaultBacksStake`, `StakeHeldWhileWorking`, `FailureAlwaysReportable` |
| `BridgeProofs` | `BridgeTyped`, `ReputationCorrect`, `ReceiptsKept`, `ScoreCorrect` | `TypeOK`, `ReputationMatchesReceipts`, `ReceiptsPermanent`, `ScoreFollowsReceipts` |
| `ChainPipeProofs` | `ProgramsImplemented`, `ChainKeepsPromise`, `OpenJobsCorrect`, `LedgersCorrect`, `ReceiptsCorrect`, `StakeAnswersCorrect`, `OverdueNeedsOnlyTheStakeCorrect` | the three specifications, `KeepsPromise`, `OpenJobsExact`, `LedgersAgree`, `ReceiptPerEndedJob`, `StakeAnswersForOpenWork`, `OverdueNeedsOnlyTheStake` |
| `FacilitatorProofs` | `CacheCorrect`, `AnswersCorrect`, `SignedWorkCorrect`, `ServiceOnChain` | `SeenIsRecorded`, `AnswersTrue`, `OnlySignedWorkCounts`, the specification of `DagEscrow` |
| `IndexerProofs` | `SnapshotsCorrect`, `OffersCorrect`, `SpecsCorrect`, `PagesCorrect`, `IndexerOnChain` | `SnapshotAddsUp`, `OffersAreReady`, `SpecsOutlivePolls`, `PagesAgreeWithProgram`, the specification of `DagEscrow` |
| `PartsProofs` | `CascadeLoopCorrect`, `DeploymentCorrect`, `ScriptsRespectOperators`, `ClientTyped`, `ReportsItsAgentCorrect` | `LoopComputesCascade`, `ReportedDoneIsDone`, `ScriptsKeepChoices`, `TypeOK`, `ReportsItsAgent` |

`TokenTheorems` holds what the others need of amounts: shares and saturated sums are
amounts, and the laws of `Total` (a sum changes by what one entry changes, a sum over
two disjoint sets is the sum of both, a smaller table has a smaller sum).

**`DagEscrow`, one account after another.**

* `TypeCorrect`: the work is in showing that no vault and
  no wallet is overdrawn and that every amount fits in a u64: a fee is at most
  the allocation (`FeeAssumption`), a total of amounts is a
  natural number, a saturated sum is an amount.
* `OrderCorrect`: `claim_node` looks at the pipeline's `settled_mask`, not at the
  node accounts, so `DependencyOrder` is not inductive. The invariant is
  `OrderInv == MaskNamesSettled /\ WorkFollowsMask`: a bit set in the mask belongs
  to a settled node, and a node that is being worked on or settled has all its
  dependencies in the mask. A settled node stays settled (`expire_node` and
  `cancel_pipeline` touch only pending and overdue claimed nodes, whatever
  accounts they are given), bits are only added, by `Settle` for the node it
  settles, and a status becomes active only in `ClaimNode`, whose guard is the
  second conjunct.
* `SettlementCorrect`: `create_pipeline` writes every node account of its pipeline
  and no settlement account, so a stale review could be left behind. `ReviewInv`
  adds `AbsentIsEmpty`: a pipeline that does not exist has no node accounts.
* `DisputeRightCorrect` is an action property, from the same invariant: only
  `dispute_node` and `finalize_node` apply to a submitted node, and `finalize_node`
  starts after the snapshotted window, where the right has ended already.

**`DagEscrow`, accounts against each other.** Here a step is first reduced to one of five
kinds (a node's work goes on, one node is paid, a set of nodes is returned, a
pipeline is created, one is cancelled; `StepKinds` in `DagEscrowProofs`), and each kind is dealt
with once for each ledger.

* `SummaryInv` relates each `Pipeline` account to the *sets* of its settled, expired
  and closed nodes, with the mask, and says which nodes exist at all. The counters are
  the sizes of these sets; the status follows from the sizes because a pipeline has
  as many nodes as `create_pipeline` counted.
* Nodes end in a mint (`Leaving`): with the pipeline's own, their allocations leave the
  vault; with another, they stay and `left_behind` says so. Each ledger is
  shown for both, the vault's as a sum over `Locked`, the consumer's over `Cost`, the agents'
  over `PaidOut`.
* `LedgerInv == TypeOK /\ SummaryInv /\ VaultBacksOpenNodes /\ AbsentHoldNothing`. Without
  the summary, nothing says that the nodes `expire_node` returns are different ones, and still
  open; without the last, that a new pipeline starts with nothing left behind.
* `ConsumerInv` says of each consumer that its wallet and the `Cost` of its nodes make up
  its budget, and that the sum of all budgets fits the token's supply
  (`SupplyAssumption`), so that no payment overflows an account. `PayoutInv` adds
  agents and operators. Fee and net payment add up to what left the vault, whatever
  `ShareOf` rounds away.
* `PromiseKept` is the refinement of `EscrowPromise`, under the mapping `Lots` of
  section 3: the initial states agree, and each step pays one lot, returns some, ends
  some elsewhere, locks some or leaves all alone. The invariant is `PromiseInv == LedgerInv /\ OrderInv /\ JobInv`:
  the abstract guards (a lot is paid when the lots it needs are
  paid; it was held) come from the first two, the agent who is paid from the third.

`SummaryCorrect`, `VaultCorrect`, `ConsumerCorrect`, `PayoutsCorrect`,
`PromiseKept`, `DisputeXorFinalizeCorrect` and `NodesCanLeaveCorrect` suppose `CancelListsEveryNode`: `cancel_pipeline` is given all node accounts,
as the SDK does. Without it they are false, and not for want of a stronger
invariant: it empties the vault and leaves the nodes it was not given `Pending`
(`escrow_cancel`, section 6). The other theorems hold for either value.

**What can be done.** Four properties, and `NodesCanLeave`, say that an instruction can succeed, or that two
cannot both. The modules give each of these instructions its guard as a state predicate, all its
conditions with those of the transfer it makes: `MayClaim`, `DisputeOpen`, `MayFinalize`,
`MayExpire`, `MayFail`, `MayRecord`. The prover has no ENABLED, and none is needed: the lemmas
`ClaimGuard`, `DisputeGuard`, `FinalizeGuard`, `RejectGuard`, `UpholdGuard`, `ExpireGuard` and `FailGuard` prove that
a step is the instruction exactly when its guard holds and *all* the variables take
values that are given as a function of the state. A step with such values always exists, so
the guard is what ENABLED would say.

* `ExitInv == LedgerInv /\ ReviewInv /\ ConsumerInv`: what a payout or a refund takes is in the
  vault because every open node's allocation is, and the account it goes to cannot overflow
  because of the budgets. So the windows alone decide between `dispute_node` and
  `finalize_node`, and they leave no slot between them (`DisputeXorFinalizeCorrect`); and from each status
  an instruction leads out, whatever nodes `expire_node` is given (`NodesCanLeaveCorrect`).
* `ReportInv` of the registry: vault and foreign deposits together are the stake, and the slash is a
  share of it under any ceiling; of an agent without foreign deposits the vault holds it. The
  counters cannot be at their bound while a job is open, since each job is counted once.
  `AccountsInv == ReportInv /\ MintInv` adds that an account keeps the mint it was opened with.
* Across the programs `OverdueNeedsOnlyTheStakeCorrect` names everything that can keep an
  overdue node from being expired while the programs are wired: that the agent staked another
  mint than the pipeline pays in (`has_one`, registry:542), or added some of another one
  (registry:469). Whatever else could is excluded by the invariants: the agent of a claimed node is
  registered and has an open job (`Matched`), its job has no receipt yet
  (`ReceiptsMatch`), the vaults hold the sums. `chain_mint` shows that the condition does fail.
* For the pages, `BookedInv`: `total_usdc_locked` of a pipeline is the total of its nodes while they
  are there, and only ended nodes left something behind, so that what the page computes from a fresh
  snapshot is the vault's balance without it. The rest of `PagesCorrect` compares what is
  offered, for every slot the page may have read and with or without an answer, with the guards. Its
  invariant is `PageInv == IndexerInv /\ BookedInv`; what a cancel with a partial list breaks is a premise
  of the clauses that need it (`NodesAreThere`, `VaultIsWhole`).

**`BondedRegistry`.** `StakeInv` says that each `AgentStake` agrees with what was deposited, in its
own mint and beside it (`Deposited`), and its tier with that (`StakesAgree`), and that wallets, vaults and what buyers got out of
slashes always make up the supply (`Balanced`); that is what keeps every deposit and
every compensation inside a u64. `StakeHeldCorrect` goes through the instructions:
a withdrawal asked for before a job was opened is refused because
`execute_unstake` looks at the open jobs again. `TallyInv` adds that an
account that was never opened has counted nothing, and serves the composition.

**`ReputationBridge`.** `ReceiptInv` says that the totals of an `AgentReputation` are the
numbers of receipts that name the agent with each outcome, that it exists when there is one, and that
its last job is one of them and none is newer. `ScoreCorrect` is arithmetic: for
every old score, delta in i16 and weight up to 10,000, the division that truncates toward
zero and the clamp keep the direction of the delta and its bound.

**`ChainPipe`.** Its theorems use those of the programs, through instances of their proof
modules (`Esc`, `Reg`, `Bri`); the first lemmas show that these instances and the ones `ChainPipe`
itself uses define the same actions. `StepKinds` then says of every
step that it is a step of each program or leaves it alone (`ProgramsStep`), and that for the jobs
it is one of three: nothing moves (`Quiet`), a job is opened (`Opens`), a job ends for
all three programs (`Ends`). This is where a call left out or made twice would be seen. The invariant is
`ChainInv == ProgramsInv /\ (\A a \in Agents : Matched(a)) /\ ReceiptsMatch`:

* `ProgramsInv`, the invariants of the programs, among them `JobInv`: a node has an
  agent exactly when it was claimed, and its job id names the node, so no two nodes share a
  receipt and the `init` of a `JobRecord` never fails;
* `Matched(a)`: each counter of the registry and each set of receipts has the size of
  the matching set of nodes. By itself `OpenJobsExact` is not inductive, because
  `decrement_open_jobs` saturates: that a job that ends was counted open is
  needed for the counter to move;
* `ReceiptsMatch`: a node's job has a receipt exactly when it ended with an agent, and
  each receipt belongs to such a node.

`StakeAnswersCorrect` follows: a step that shrinks a vault is not `Opens`; if it
is `Quiet`, the agent has no open job and so no node; so it is `Ends` with a failure of
a node of that agent. `ProgramsImplemented` carries every theorem above over to the
deployment of the three programs, where `CancelListsEveryNode` holds.

**`Facilitator`.** What a server may rely on between two awaits is in `Forward` (in
`DagEscrowProofs`): a node that has ended stays as it ended, a review ends only in one of the
two ends, and a node keeps the agent and the job it once has. `ServiceInv` says what each
request knows at each await (`RequestSound`): from the check of the signature on, that the agent of
this job signed this delivery (`Verified`); once its transaction has landed, what happened
to the node (`Happened`). It also says that the jobs in `seen` have their records (`CacheInv`) and that
each node under review or paid has a signature by its agent for its job
(`WorkInv`, `SignedInv`). Each of these has the exception `Misaddressed`. Agents may sign what they
like, and the hash may come out as other bytes. Positions in the list are indexes as long as no
node is closed (`PositionInv`), and a node that is there when the signature is checked is the one the message
names, or the signature was misaddressed. `OnlySignedWorkCounts` is not inductive without the requests: the server does not
look at the signature again when it sends, so that what it saw must still be true when the transaction
lands, also after the server gave up or was restarted. Each part is stable under every step of the
chain (`RequestStable`), so what is left is one lemma per await.

**`Indexer` and `Dashboard`.** The counters of a pipeline are read before its nodes.
What the chain gives is `IndexedChain == ChainInv /\ CountInv /\ PositionInv`, none of which needs
`CancelListsEveryNode`: the counters count the nodes by how they ended, a pipeline that is
Active has lost none, a Completed one has settled all it was made with (`Counted`). `Outlook` is the node list that a poll will end up with if the chain moves no
more: the nodes it has read, and the others as they are now. `IndexerInv` says of every poll that the
counters it read and its outlook add up (`AddsUp`) at every moment, not only when it is done: reading a node leaves
the outlook as it is, and a step of the chain only adds ends to it (`ReadsForward`). Besides, an account that is not there when its pipeline is never will be (`Kept`), and no account lies past
the last node (`PositionInv`), so that a poll that stops there skipped none. A node missing from the list is
gone (`Covers`), so in the list of a pipeline that is still Active none is missing, and each position is an
index (`ShownInPlace`). With `Evident`, that a node shown settled is settled, that gives `OffersCorrect`
through the mask. `SpecsCorrect` needs only that the file says what the store does
(`FileInv`).

**`CascadeLoop`.** `LoopInv` says of every moment of the loop that what it has expired
holds the target and is part of the cascade, that the refund and the count are those of this
set, and that a pass that has changed nothing yet leaves no node behind it that would
still expire (`NothingExpiresBehind`). So the pass that ends the loop leaves none in the
whole list, and a part of the cascade that pulls in nothing more is all of it
(`CascadeComplete`). Where a node is listed, or how often, never enters. The theorem is about the loop when it
stops; that it stops is `Terminates`, which TLC checks.

**`Deployment`.** A config's layout only grows: none, old, current (`LayoutGrows`). What a
script has done to a config, or found of it, therefore stays true whatever the other
script, the operators or a second run do, and `ScriptInv` can say it of all the configs
before the script's place in its order. It also says that a config
`initialize-programs` saw is there: an `escrow` config that it saw is passed without
sending anything, so nothing else would show that it exists.
`ScriptsRespectOperators` goes through what a script sends: a migration that succeeds met the old layout, an
initialization no account, and the third kind sets the authority alone.

**`Client`.** `ReportsItsAgentCorrect` hardly uses what a builder fills in. The call that ends a job
is accepted only if its `agent` and the agent in its stake account are the node's (`AgentMatches`), and
the registry and the bridge derive the stake account, the score and the receipt again from the
accounts and the job id dag_escrow passes on (`CountsOnItsStake`, `RecordsTheJob`); that leaves one address for
each. Only the token account is checked by its owner, and that it is the *associated* one comes from the
builders (`PaysCallersAgent`). So the stale read of the builder cannot charge the wrong agent: the
call is refused instead.

`ServiceOnChain` and `IndexerOnChain` show that beside these processes the chain behaves as
`DagEscrow` says, so that its theorems hold there too.

**Assumptions.** The named ASSUMEs of `Tokens`, `DagEscrow` and `BondedRegistry`, and
`ReputationBridgeAssumption`, `CascadeLoopAssumption` and `DeploymentAssumption`, which their modules
state as predicates. TLC evaluates them
in the runs of the modules that declare them; `ChainPipe` assumes all of them of its
constants (`ChainPipeAssumption`), which the `chain_*` runs evaluate. Apart from types they say:
the fee and rates are at most 100 %, as `initialize` checks; the tiers'
thresholds rise; there are finitely many wallets and the token's supply fits a u64
(`SupplyAssumption`, `StakeSupplyAssumption`), as the token program guarantees; a delta is an
i16; the horizon is below `U64_MAX`.

**Only model-checked:**

* liveness (`FundsNeverTrapped`, `Terminates`, `RerunsConverge`, `CatchesUp`): out of the
  prover's reach;
* `EveryPipelineCanEnd`: the sizes come from folds over layouts, which is induction over data, and
  it holds for the packet size there is, not for every one;
* `FreshCallsAccepted`: it compares fixed tables, the builders' and the interface's, for
  every call; only the names of the agents vary, which TLC does with two;
* that a guard and ENABLED are the same is an argument of this text, as above; the prover checks
  its premise.

No module uses a RECURSIVE operator.

## 6. Where code and documents disagree

* `escrow_upheld`: `resolve_dispute` expires an upheld node alone (escrow:650).
  `docs/PRODUCT.md:95` says the refund of an expired node flows to every downstream
  node. Here the dependents stay `Pending`: nobody can claim them, and their
  money comes back only when their own deadlines pass. `FundsNeverTrapped` in
  `escrow_dag` shows that it does come back then.
* `escrow_cancel`: `cancel_pipeline` checks the node accounts it is given and not
  that they are all of them (escrow:927), against its comments at escrow:916 and
  escrow:926. The SDK passes every node.
* `chain_mint`: nothing compares the mint an agent staked with the mint a
  pipeline pays in, while `slash_stake` requires them to be equal
  (registry:542), so `expire_node` fails for such a claimed node.
  `docs/PRODUCT.md:394` says a missed deadline always refunds the buyer.
* `facilitator_late`: `complete_node` has no deadline check (escrow:317), and the
  server's check is several awaits before its transaction lands, so a node is
  settled and paid after its deadline. `docs/PRODUCT.md:394` says a missed deadline
  always refunds the buyer, `facilitator/src/verifier.ts:26` that the deadline has
  not passed.
* `indexer_crash`: the store is rewritten in place (`indexer/src/store.ts:47`). A
  crash in between leaves a file that does not parse; the next start takes it for an
  empty store. Pipelines come back with the next poll, job specs are nowhere
  else. `store.ts:26` says "In-memory store with JSON-file persistence across
  restarts".

Met while modelling, and not a run of their own:

* `initialize-programs.mts` says it rewires what exists already; it rewires the registry
  and the bridge, and leaves `facilitator_authority` of an existing escrow as it is
  (`Sends` in `Deployment`).
* On an old deployment whose escrow config was never created neither script
  finishes: `migrate-configs` stops at the missing escrow, `initialize-programs` at
  the old bridge. The operator has to migrate by hand.
* The instructions of dag_escrow that transfer take a `stake_mint` and the pipeline's
  token account of that mint for the vault (escrow:1226, 1304, 1348, 1402, 1444); none compares
  the mint with the one the pipeline was created in. Two of them can be called by anybody. A node that ends in another
  mint leaves its allocation in the vault, and no instruction takes a node that has ended. The
  comment at escrow:63 says that consumer funds can never be trapped. The models have the caller's
  choice, and the properties of section 3 say what is true with it.
* `add_stake` accepts any mint too (registry:480), unlike `execute_unstake` and
  `slash_stake`. What is deposited in another one counts for stake and tier. A slash is computed
  from the whole stake and paid from the vault of the stake's own mint, and fails when that holds
  less, and `expire_node` with it; the comment at registry:239 says that a slash never blocks it.
  `FailureAlwaysReportable` and `OverdueNeedsOnlyTheStake` name it as their exception.
* The work page posts `resultHash` as hex (`dashboard/app/work/page.tsx:123`), the server decodes it as
  base64 (`facilitator/src/server.ts:38`), so that the agent's signature is for another message and
  `POST /submit` answers 400 (`Decoded`).
* The work page and the facilitator find a node by its position in a list that leaves out closed
  nodes (`dashboard/app/work/page.tsx:21`, `sdk/src/pipeline.ts:505`). After a cancel that
  lists some of a pipeline's nodes the positions are no indexes. For what is offered that matters only once
  the pipeline is not Active any more (`OffersAreReady`); for the facilitator, only when an
  agent's signature mixes two nodes up (`Misaddressed`).
* The pages and the program part in eight places, each an exception in
  `PagesAgreeWithProgram`:
  * a pause is not shown: claims and payouts are offered and refused;
  * the work page asks for active pipelines only (`dashboard/app/work/page.tsx:58`),
    so work claimed before another node expired, or before a cancel that did not list it,
    is not listed as in progress, while `submit_completion` still takes it and its deadline runs;
  * in the slot of the deadline a node is shown overdue
    (`dashboard/components/SettlementPanel.tsx:37` compares with `>=`), while
    `expire_node` wants a later slot (escrow:711);
  * in the last slot of the dispute window the panel shows it closed, while
    `dispute_node` still works;
  * `GET /settlement` adds the default window (`facilitator/src/server.ts:356`): with
    a longer one Finalize takes the place of Dispute too early and is refused, with a
    shorter one Finalize comes late. `docs/PRODUCT.md:503` names the difference of the number, and says the chain
    enforces the snapshotted one;
  * when `GET /settlement` fails or is not ok, nothing remains of the window
    (`SettlementPanel.tsx:46`, 120): Dispute is hidden and Finalize offered in an open one;
  * the slot is read when the panel refreshes, and is 0 when that fails (`SettlementPanel.tsx:41`):
    until the next refresh, refunds and payouts that are due are not offered;
  * the pipeline page subtracts settled and refunded nodes from the total; a cancelled
    pipeline's node accounts are closed, so it shows everything as in escrow, and one
    whose cancel did not list every node has nodes without funds.

## 7. Not modelled

* **Dashboard**: the form that builds a pipeline, staking, the leaderboard, charts and
  wallets; they render accounts or send what the SDK's builders send (`Client`).
* **Facilitator**: the faucet, the read-only endpoints, `/verify-delivery` and the
  scorer decide nothing about a job. **Indexer**: statistics are sums over the
  snapshot. **SDK**: readers that fetch and return.
* **Other scripts and the tests**: they seed and exercise the same instructions.
* **Interface**: the order of accounts, docs, discriminators, events and error texts.

## 8. Plan

Done: all the modules of section 2, and the theorems of section 5: every safety property of
the three programs, of their composition, of the cascade loop, the scripts, the
facilitator, the indexer and the dashboard that a run checks, but for the two of `Client`
named above.

What is left: `FreshCallsAccepted` and `EveryPipelineCanEnd` could be proved for the
fixed interface by going through its instructions one by one and unrolling the folds; liveness needs
another prover.
