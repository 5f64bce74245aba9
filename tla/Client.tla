------------------------------- MODULE Client -------------------------------
(***************************************************************************)
(* One client and one pipeline: a wallet calls a builder of the SDK         *)
(* (src/sdk/src/pipeline.ts, stake.ts) or a script's call.  The builder     *)
(* reads the node, fills in the accounts (the dashboard passes the same     *)
(* ones), and the library works out the ones left open; the transaction is  *)
(* sent, and lands while others may have moved the node since it was read.  *)
(* A landed instruction calls bonded_registry and reputation_bridge with    *)
(* the accounts it was given, which check them against their own interface. *)
(*                                                                          *)
(* An address is a term: a key, or what it is derived from.  What a call    *)
(* needs besides its accounts (slots, tiers, balances, pauses) is not       *)
(* modelled: any call may be refused.                                       *)
(***************************************************************************)
EXTENDS Interface, Integers, FiniteSets

LOCAL TLCModule == INSTANCE TLC

CONSTANTS
  Agents,       \* names of agents
  NodeCounts,   \* sizes of pipelines clients create
  MAX_NODES,
  PACKET_DATA_SIZE

ClientAssumption ==
  /\ MAX_NODES \in Nat /\ NodeCounts \subseteq 1..MAX_NODES
  /\ PACKET_DATA_SIZE \in Nat

VARIABLES
  nodes,      \* how many nodes the pipeline has; 0 before it exists
  node,       \* status and agent of its first node
  call,       \* the call under way
  seen,       \* the node as the builder read it
  accounts    \* the addresses given or worked out so far
cvars == <<nodes, node, call, seen, accounts>>

NoAgent == "nobody"
NoNode == [status |-> "none", agent |-> NoAgent]
NoCall == [name |-> "none", agent |-> NoAgent, size |-> 0]
NoAccounts == [a \in {} |-> Known("")]

Key(name) == PdaOf("key", name, <<>>)
Usdc == Key("usdc")
Consumer == Key("consumer")
Operator == Key("operator")
Facilitator == Key("facilitator")
Caller == Key("caller")
Nonce == Key("nonce")
JobOf(agent) == PdaOf("job", agent, <<>>)    \* drawn when agent claims the node

(***************************************************************************)
(* pdas.ts                                                                  *)
(***************************************************************************)
registryConfigPda == PdaOf("bonded_registry", "config", <<>>)
agentStakePda(agent) == PdaOf("bonded_registry", "agent_stake", <<agent>>)
bridgeConfigPda == PdaOf("reputation_bridge", "bridge_config", <<>>)
reputationPda(agent) == PdaOf("reputation_bridge", "reputation", <<agent>>)
\* A seeded fault: the seed of another account.
jobRecordPdaMislabelled(jobId) == PdaOf("reputation_bridge", "reputation", <<jobId>>)
jobRecordPda(jobId) == PdaOf("reputation_bridge", "job_record", <<jobId>>)
pipelineConfigPda == PdaOf("dag_escrow", "pipeline_config", <<>>)
dagAuthorityPda == PdaOf("dag_escrow", "dag_authority", <<>>)
pipelinePda(consumer, nonce) == PdaOf("dag_escrow", "pipeline", <<consumer, nonce>>)
nodePda(of, index) == PdaOf("dag_escrow", "node", <<of, Key(TLCModule!ToString(index))>>)
settlementPda(of) == PdaOf("dag_escrow", "settlement", <<of>>)
vaultAta(mint, owner) == AtaOf(owner, mint)

Pipeline == pipelinePda(Consumer, Nonce)
Node == nodePda(Pipeline, 0)

(***************************************************************************)
(* The accounts each builder passes.                                        *)
(***************************************************************************)
Programs(names) == [a \in names |->
  CASE a = "tokenProgram" -> Known("token")
    [] a = "associatedTokenProgram" -> Known("associatedToken")
    [] a = "systemProgram" -> Known("system")
    [] a = "bondedRegistryProgram" -> Known("bonded_registry")
    [] a = "reputationBridgeProgram" -> Known("reputation_bridge")]

OnNode ==
  [pipelineConfig |-> pipelineConfigPda, pipeline |-> Pipeline, node |-> Node,
   vault |-> vaultAta(Usdc, Pipeline), stakeMint |-> Usdc, dagAuthority |-> dagAuthorityPda]
Reporting(agent, jobId) ==
  [agent |-> agent, registryConfig |-> registryConfigPda, agentStake |-> agentStakePda(agent),
   bridgeConfig |-> bridgeConfigPda, agentReputation |-> reputationPda(agent),
   jobRecord |-> jobRecordPda(jobId)]
    @@ Programs({"bondedRegistryProgram", "reputationBridgeProgram"})
Paying(agent) ==
  [agentTokenAccount |-> vaultAta(Usdc, agent), operatorTreasury |-> vaultAta(Usdc, Operator)]
Only(names, given) == [a \in names |-> given[a]]

createPipeline ==
  [pipelineConfig |-> pipelineConfigPda, pipeline |-> Pipeline, consumer |-> Consumer,
   stakeMint |-> Usdc, consumerTokenAccount |-> vaultAta(Usdc, Consumer),
   vault |-> vaultAta(Usdc, Pipeline)]
    @@ Programs({"tokenProgram", "associatedTokenProgram", "systemProgram"})

claimNode(agent) ==
  Only({"pipelineConfig", "pipeline", "node", "dagAuthority"}, OnNode)
    @@ [agent |-> agent, agentStake |-> agentStakePda(agent), registryConfig |-> registryConfigPda]
    @@ Programs({"bondedRegistryProgram"})

completeNode(agent, jobId) ==
  OnNode @@ Reporting(agent, jobId) @@ Paying(agent)
    @@ [facilitator |-> Facilitator] @@ Programs({"tokenProgram", "systemProgram"})

submitCompletion(agent) ==
  Only({"pipelineConfig", "pipeline", "node"}, OnNode)
    @@ [facilitator |-> Facilitator, agent |-> agent, settlement |-> settlementPda(Node)]
    @@ Programs({"systemProgram"})

disputeNode ==
  [pipeline |-> Pipeline, node |-> Node, settlement |-> settlementPda(Node),
   consumer |-> Consumer]

finalizeNode(agent, jobId) ==
  OnNode @@ Reporting(agent, jobId) @@ Paying(agent)
    @@ [settlement |-> settlementPda(Node), caller |-> Caller]
    @@ Programs({"tokenProgram", "systemProgram"})

resolveDispute(agent, jobId) ==
  OnNode @@ Reporting(agent, jobId) @@ Paying(agent)
    @@ [settlement |-> settlementPda(Node), facilitator |-> Facilitator,
        consumerTokenAccount |-> vaultAta(Usdc, Consumer),
        agentStakeVault |-> vaultAta(Usdc, agentStakePda(agent))]
    @@ Programs({"tokenProgram", "systemProgram"})

\* The accounts for the slash go along when the node was read as claimed.
expireNode(read) ==
  OnNode @@ [consumerTokenAccount |-> vaultAta(Usdc, Consumer), caller |-> Caller]
    @@ Programs({"tokenProgram", "systemProgram"})
    @@ (IF read.status = "claimed"
        THEN Reporting(Key(read.agent), JobOf(read.agent))
               @@ [agentStakeVault |-> vaultAta(Usdc, agentStakePda(Key(read.agent)))]
        ELSE NoAccounts)

cancelPipeline ==
  Only({"pipeline", "vault", "stakeMint"}, OnNode)
    @@ [consumer |-> Consumer, consumerTokenAccount |-> vaultAta(Usdc, Consumer)]
    @@ Programs({"tokenProgram"})

Staking(agent) ==
  [agentStake |-> agentStakePda(agent), agent |-> agent, stakeMint |-> Usdc,
   agentTokenAccount |-> vaultAta(Usdc, agent),
   vault |-> vaultAta(Usdc, agentStakePda(agent))] @@ Programs({"tokenProgram"})
stakeAndRegister(agent) ==
  Staking(agent) @@ Programs({"associatedTokenProgram", "systemProgram"})
addStake(agent) == Staking(agent)
requestUnstake(agent) == Only({"agentStake", "agent"}, Staking(agent))
executeUnstake(agent) == Staking(agent) @@ [config |-> registryConfigPda]

\* What the scripts and the tests pass when an operator, or its successor, calls.
ConfigOf(program) ==
  CASE program = "dag_escrow" -> "pipelineConfig" :> pipelineConfigPda
    [] program = "bonded_registry" -> "config" :> registryConfigPda
    [] program = "reputation_bridge" -> "bridgeConfig" :> bridgeConfigPda
byOperator(ix) ==
  ConfigOf(ix.program)
    @@ ((IF "newOperator" \in ix.accounts THEN "newOperator" ELSE "operator") :> Operator)
OperatorCalls ==
  [de_initialize |-> de_initialize, br_initialize |-> br_initialize,
   rb_initialize |-> rb_initialize, de_migratePipelineConfig |-> de_migratePipelineConfig,
   br_migrateRegistryConfig |-> br_migrateRegistryConfig,
   rb_migrateBridgeConfig |-> rb_migrateBridgeConfig,
   de_proposeOperator |-> de_proposeOperator, br_proposeOperator |-> br_proposeOperator,
   rb_proposeOperator |-> rb_proposeOperator, de_acceptOperator |-> de_acceptOperator,
   br_acceptOperator |-> br_acceptOperator, rb_acceptOperator |-> rb_acceptOperator,
   de_setPaused |-> de_setPaused, de_setDisputeWindow |-> de_setDisputeWindow,
   de_setFacilitatorAuthority |-> de_setFacilitatorAuthority,
   br_setDagEscrowAuthority |-> br_setDagEscrowAuthority,
   rb_setDagEscrowAuthority |-> rb_setDagEscrowAuthority,
   br_setMaxSlashBps |-> br_setMaxSlashBps]

(***************************************************************************)
(* A call: the instruction, the accounts given, the wallet that pays.       *)
(***************************************************************************)
Of(ix, given, wallet) == [ix |-> ix, given |-> given, wallet |-> wallet]

AgentCalls == {"claimNode", "stakeAndRegister", "addStake", "requestUnstake", "executeUnstake"}
NodeCalls ==
  {"completeNode", "submitCompletion", "disputeNode", "finalizeNode", "resolveDispute",
   "expireNode", "cancelPipeline"}
\* agent: the argument of the builder; read: the node as fetched.
Built(name, agent, read) ==
  LET key == Key(agent)
      job == JobOf(read.agent)
  IN CASE name = "createPipeline" -> Of(de_createPipeline, createPipeline, Consumer)
       [] name = "claimNode" -> Of(de_claimNode, claimNode(key), key)
       [] name = "completeNode" -> Of(de_completeNode, completeNode(key, job), Facilitator)
       [] name = "submitCompletion" -> Of(de_submitCompletion, submitCompletion(key), Facilitator)
       [] name = "disputeNode" -> Of(de_disputeNode, disputeNode, Consumer)
       [] name = "finalizeNode" -> Of(de_finalizeNode, finalizeNode(key, job), Caller)
       [] name = "resolveDispute" -> Of(de_resolveDispute, resolveDispute(key, job), Facilitator)
       [] name = "expireNode" -> Of(de_expireNode, expireNode(read), Caller)
       [] name = "cancelPipeline" -> Of(de_cancelPipeline, cancelPipeline, Consumer)
       [] name = "stakeAndRegister" -> Of(br_stakeAndRegister, stakeAndRegister(key), key)
       [] name = "addStake" -> Of(br_addStake, addStake(key), key)
       [] name = "requestUnstake" -> Of(br_requestUnstake, requestUnstake(key), key)
       [] name = "executeUnstake" -> Of(br_executeUnstake, executeUnstake(key), key)
       [] name \in DOMAIN OperatorCalls ->
            Of(OperatorCalls[name], byOperator(OperatorCalls[name]), Operator)

Current == Built(call.name, call.agent, seen)
NodePdas(indexes) == {nodePda(Pipeline, i) : i \in indexes}
\* remainingAccounts, all writable.
Remaining(name, size) ==
  CASE name = "createPipeline" -> NodePdas(0..(size - 1))
    [] name = "cancelPipeline" -> NodePdas(0..(nodes - 1))
    [] name = "expireNode" -> NodePdas(1..(nodes - 1))
    [] OTHER -> {}

(***************************************************************************)
(* Working out an address: its seeds are accounts known by now, arguments,  *)
(* or the agent recorded in a stake account.                                *)
(***************************************************************************)
StakesAgent(address) == address.seeds[1]
Data(field, address) ==
  CASE field \in {"consumer", "agent"} -> address.seeds[1]
    [] field = "stakeMint" -> Usdc
    [] field = "operator" -> Operator
Source(seed) == IF seed = "agentStake.agent" THEN "agentStake" ELSE seed
Seed(seed, env) == IF seed = "agentStake.agent" THEN StakesAgent(env["agentStake"]) ELSE env[seed]

Derivable(d, env) ==
  d.under # "known" => \A i \in 1..Len(d.seeds) : Source(d.seeds[i]) \in DOMAIN env
Address(d, env) ==
  CASE d.under = "known" -> d
    [] d.under = "data" -> Data(d.label, env[d.seeds[1]])
    [] OTHER -> [d EXCEPT !.seeds = [i \in 1..Len(d.seeds) |-> Seed(d.seeds[i], env)]]

\* Every address an interface derives is the one in env.
DerivationsHold(ix, env) ==
  \A a \in DOMAIN ix.derives \cap DOMAIN env : env[a] = Address(ix.derives[a], env)

Env == accounts @@ [nonce |-> Nonce]
\* expireNode passes null for the optional accounts it leaves out.
Open == {a \in Current.ix.accounts \ Current.ix.optional : a \notin DOMAIN accounts}
Resolvable == {a \in Open \cap DOMAIN Current.ix.derives : Derivable(Current.ix.derives[a], Env)}

(***************************************************************************)
(* Size of the transaction: a legacy message with one instruction.  A null  *)
(* account is the program's own key.                                        *)
(***************************************************************************)
Compact(n) == IF n < 128 THEN 1 ELSE 2
ArgBytes(name, built, size) ==
  built.ix.args + (IF name = "createPipeline" THEN size * BytesOf(nodeConfig) ELSE 0)

TxSize(name, built, given, remaining, size) ==
  LET signatures == Cardinality({given[a] : a \in built.ix.signers} \cup {built.wallet})
      keys == Cardinality({given[a] : a \in DOMAIN given} \cup remaining
                            \cup {built.wallet, Known(built.ix.program)})
      metas == Cardinality(built.ix.accounts) + Cardinality(remaining)
      bytes == ArgBytes(name, built, size)
  IN Compact(signatures) + 64 * signatures + 3 + Compact(keys) + 32 * keys + 32
       + 1 + 1 + Compact(metas) + metas + Compact(bytes) + bytes

FitsPacket(name, built, given, remaining, size) ==
  TxSize(name, built, given, remaining, size) <= PACKET_DATA_SIZE

(***************************************************************************)
(* What dag_escrow calls: pass says which of its accounts it passes for     *)
(* each account of the other program's interface.                           *)
(***************************************************************************)
Inner(ix, pass) == [ix |-> ix, pass |-> pass]

MutateOpenJobs ==
  [config |-> "registryConfig", agentStake |-> "agentStake", dagAuthority |-> "dagAuthority"]
SlashStake ==
  MutateOpenJobs @@ [stakeMint |-> "stakeMint", vault |-> "agentStakeVault",
                     consumerTokenAccount |-> "consumerTokenAccount",
                     tokenProgram |-> "tokenProgram"]
RecordOutcome(payer) ==
  [bridgeConfig |-> "bridgeConfig", agentReputation |-> "agentReputation",
   jobRecord |-> "jobRecord", agent |-> "agent", dagAuthority |-> "dagAuthority",
   payer |-> payer, systemProgram |-> "systemProgram"]

Completed(payer) ==
  {Inner(br_decrementOpenJobs, MutateOpenJobs),
   Inner(rb_recordCompletion, RecordOutcome(payer))}
Failed(payer) ==
  {Inner(br_decrementOpenJobs, MutateOpenJobs), Inner(br_slashStake, SlashStake),
   Inner(rb_recordFailure, RecordOutcome(payer))}

\* resolve_dispute makes either set of calls, as the arbiter decides.
InnerCalls(name) ==
  CASE name = "claimNode" -> {Inner(br_incrementOpenJobs, MutateOpenJobs)}
    [] name = "completeNode" -> Completed("facilitator")
    [] name = "finalizeNode" -> Completed("caller")
    [] name = "resolveDispute" -> Completed("facilitator") \cup Failed("facilitator")
    [] name = "expireNode" /\ node.status = "claimed" -> Failed("caller")
    [] OTHER -> {}

Granted(ix, env) == {env[a] : a \in ix.writable \cap DOMAIN env}
\* The wallet's signatures and the PDAs dag_escrow signs for.
Signed(ix, env) ==
  {env[a] : a \in ix.signers} \cup {env[a] : a \in {b \in DOMAIN env : env[b].under = "dag_escrow"}}

InnerAccepted(inner, ix, env) ==
  /\ \A a \in inner.ix.accounts : inner.pass[a] \in DOMAIN env
  /\ LET theirs == [a \in inner.ix.accounts |-> env[inner.pass[a]]]
                     @@ [jobId |-> JobOf(node.agent)]
     IN /\ DerivationsHold(inner.ix, theirs)
        /\ \A a \in inner.ix.writable : theirs[a] \in Granted(ix, env)
        /\ \A a \in inner.ix.signers : theirs[a] \in Signed(ix, env)

(***************************************************************************)
(* When the program accepts the call: the state of the node, the accounts   *)
(* its constraints bind to the node, and the calls it makes.                *)
(***************************************************************************)
StatusAllows(name) ==
  CASE name = "createPipeline" -> node.status = "none"
    [] name = "claimNode" -> node.status = "pending"
    [] name \in {"completeNode", "submitCompletion"} -> node.status = "claimed"
    [] name \in {"disputeNode", "finalizeNode"} -> node.status = "submitted"
    [] name = "resolveDispute" -> node.status = "disputed"
    [] name = "expireNode" -> node.status \in {"pending", "claimed"}
    [] name = "cancelPipeline" -> node.status = "pending"
    [] OTHER -> TRUE

BindsAgent(name) ==
  \/ name \in {"completeNode", "submitCompletion", "finalizeNode", "resolveDispute"}
  \/ name = "expireNode" /\ node.status = "claimed"

\* A seeded fault: the accounts agree with one another, not with the node.
AgentConsistent(env) ==
  "agent" \in DOMAIN env
    /\ ("agentStake" \in DOMAIN env => StakesAgent(env["agentStake"]) = env["agent"])

\* node.agent against agent, agent_stake and agent_token_account, as far as passed.
AgentMatches(env) ==
  LET key == Key(node.agent)
  IN /\ "agent" \in DOMAIN env /\ env["agent"] = key
     /\ "agentStake" \in DOMAIN env => StakesAgent(env["agentStake"]) = key
     /\ "agentTokenAccount" \in DOMAIN env => Data("agent", env["agentTokenAccount"]) = key

Accepts(name, ix, env) ==
  /\ StatusAllows(name)
  /\ DerivationsHold(ix, env)
  /\ "node" \in DOMAIN env => env["node"] = Node
  /\ name = "claimNode" => StakesAgent(env["agentStake"]) = env["agent"]
  /\ BindsAgent(name) => AgentMatches(env)
  /\ \A inner \in InnerCalls(name) : InnerAccepted(inner, ix, env)

Landed(name) ==
  CASE name = "createPipeline" -> nodes' = call.size /\ node' = [NoNode EXCEPT !.status = "pending"]
    [] name = "claimNode" -> node' = [status |-> "claimed", agent |-> call.agent] /\ UNCHANGED nodes
    [] name = "submitCompletion" -> node' = [node EXCEPT !.status = "submitted"] /\ UNCHANGED nodes
    [] name = "disputeNode" -> node' = [node EXCEPT !.status = "disputed"] /\ UNCHANGED nodes
    [] name \in {"completeNode", "finalizeNode", "resolveDispute", "expireNode", "cancelPipeline"} ->
         node' = [node EXCEPT !.status = "over"] /\ UNCHANGED nodes
    [] OTHER -> UNCHANGED <<nodes, node>>

(***************************************************************************)
(* Account data: the lengths written out by hand where accounts are         *)
(* created, the filter of getPipelinesByConsumer, the operator's bytes the  *)
(* migrations compare, and the fields clients read after a fetch.           *)
(***************************************************************************)
AgentStakeLEN == 8 + 32 + 32 + 8 + 1 + 4 + 4 + 4 + 8 + 1
RegistryConfigLEN == 8 + 32 + 32 + 2 + 8 + 1 + 1 + 2 + 32
BridgeConfigLEN == 8 + 32 + 32 + 32 + 2 + 1 + 1 + 32
AgentReputationLEN == 8 + 32 + 4 + 4 + 4 + 32 + 8 + 1
JobRecordLEN == 8 + 32 + 32 + 1 + 2 + 8 + 1
consumerOffset == 8
Has(layout, names) == names \subseteq {layout[i][1] : i \in 1..Len(layout)}

LayoutsAgree ==
  /\ AgentStakeLEN = 8 + BytesOf(agentStake) /\ RegistryConfigLEN = 8 + BytesOf(registryConfig)
  /\ BridgeConfigLEN = 8 + BytesOf(bridgeConfig) /\ JobRecordLEN = 8 + BytesOf(jobRecord)
  /\ AgentReputationLEN = 8 + BytesOf(agentReputation)
  /\ OffsetOf(pipeline, "consumer") = consumerOffset
  /\ \A config \in {pipelineConfig, registryConfig, bridgeConfig} : OffsetOf(config, "operator") = 8
  /\ Has(pipelineNode, {"agent", "jobId", "status", "allocationUsdc", "deadlineSlot"})
  /\ Has(nodeSettlement, {"resultHash", "uri", "uriLen", "submittedAtSlot", "disputeSlots"})
  /\ Has(pipeline, {"consumer", "totalNodes"})

(***************************************************************************)
(* Steps                                                                    *)
(***************************************************************************)
Init ==
  /\ nodes = 0 /\ node = NoNode /\ seen = NoNode
  /\ call = NoCall /\ accounts = NoAccounts

\* A builder is called.  What it fetches must exist, or it throws before it sends.
Build(name, agent, size) ==
  /\ call = NoCall
  /\ name \in NodeCalls \cup {"claimNode"} => nodes > 0
  /\ call' = [name |-> name, agent |-> agent, size |-> size]
  /\ seen' = node
  /\ accounts' = Built(name, agent, node).given
  /\ UNCHANGED <<nodes, node>>

Resolve(a) ==
  /\ call # NoCall /\ a \in Resolvable
  /\ accounts' = accounts @@ (a :> Address(Current.ix.derives[a], Env))
  /\ UNCHANGED <<nodes, node, call, seen>>

Done == call' = NoCall /\ seen' = NoNode /\ accounts' = NoAccounts

Fits == FitsPacket(call.name, Current, accounts, Remaining(call.name, call.size), call.size)

Land ==
  /\ call # NoCall /\ Open = {} /\ Fits
  /\ Accepts(call.name, Current.ix, Env)
  /\ Landed(call.name) /\ Done

\* Too large, refused, or failed for a reason of its own.
Fail == call # NoCall /\ Resolvable = {} /\ Done /\ UNCHANGED <<nodes, node>>

\* Somebody else's transaction moves the node.
Elsewhere ==
  /\ UNCHANGED <<nodes, call, seen, accounts>>
  /\ \/ \E agent \in Agents :
          node.status = "pending" /\ node' = [status |-> "claimed", agent |-> agent]
     \/ node.status = "claimed" /\ node' = [node EXCEPT !.status = "submitted"]
     \/ node.status = "submitted" /\ node' = [node EXCEPT !.status = "disputed"]
     \/ node.status \notin {"none", "over"} /\ node' = [node EXCEPT !.status = "over"]

Next ==
  \/ \E size \in NodeCounts : Build("createPipeline", NoAgent, size)
  \/ \E name \in NodeCalls \cup AgentCalls, agent \in Agents : Build(name, agent, 0)
  \/ \E name \in DOMAIN OperatorCalls : Build(name, NoAgent, 0)
  \/ call # NoCall /\ \E a \in Resolvable : Resolve(a)
  \/ Land
  \/ Fail
  \/ Elsewhere

Spec == Init /\ [][Next]_cvars

-----------------------------------------------------------------------------
TypeOK ==
  /\ nodes \in 0..MAX_NODES
  /\ {node.status, seen.status} \subseteq
       {"none", "pending", "claimed", "submitted", "disputed", "over"}
  /\ {node.agent, seen.agent, call.agent} \subseteq Agents \cup {NoAgent}

\* The SDK, the interface and the three programs agree on every account: a call made for
\* the node's own agent, on a node nobody moved since it was read and in a state that
\* allows it, always gets all its accounts and is not refused for one of them, here or in
\* a program dag_escrow calls.
Fresh ==
  /\ seen = node /\ StatusAllows(call.name)
  /\ BindsAgent(call.name) /\ call.name # "expireNode" => call.agent = node.agent
FreshCallsAccepted ==
  call # NoCall /\ Resolvable = {} /\ Fresh =>
    Open = {} /\ Accepts(call.name, Current.ix, Env)

\* Whatever was read, whichever agent was asked for: the job that ends is reported for
\* the agent that holds the node when the transaction lands, on its stake, its score and
\* its receipt, and pays that agent.
EndsJob ==
  call # NoCall /\ call' = NoCall /\ node # node' /\ node'.status = "over" /\ node.agent # NoAgent
ReportsItsAgent ==
  [][EndsJob =>
       LET key == Key(node.agent)
       IN /\ accounts["agentStake"] = agentStakePda(key)
          /\ accounts["agentReputation"] = reputationPda(key)
          /\ accounts["jobRecord"] = jobRecordPda(JobOf(node.agent))
          /\ "agentTokenAccount" \in DOMAIN accounts =>
               accounts["agentTokenAccount"] = vaultAta(Usdc, key)]_cvars

\* Every pipeline a client can create in one transaction can be taken apart: expired, with
\* the slash, by a third party, and cancelled by its consumer, in one transaction each,
\* though expire_node and cancel_pipeline take all its node accounts.
EveryPipelineCanEnd ==
  nodes > 0 =>
    LET Ends(name, read) ==
          LET built == Built(name, NoAgent, read)
          IN FitsPacket(name, built, built.given, Remaining(name, 0), 0)
    IN /\ \A agent \in Agents : Ends("expireNode", [status |-> "claimed", agent |-> agent])
       /\ Ends("expireNode", NoNode)
       /\ Ends("cancelPipeline", NoNode)
=============================================================================
