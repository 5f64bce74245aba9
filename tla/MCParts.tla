------------------------------ MODULE MCParts -------------------------------
(***************************************************************************)
(* Small instances for TLC of the parts that need nobody else to run, one   *)
(* at a time: expire_node's cascade, bonded_registry, reputation_bridge,    *)
(* the configs and their scripts, a client.                                 *)
(* The initial state chooses a part; the others stay in their first state,  *)
(* where their invariants hold.                                             *)
(***************************************************************************)
EXTENDS BondedRegistry, Sequences, FiniteSetsExt

CONSTANTS
  BridgeAgents, Jobs, NoJob, Alphas, BridgeMaxSlot,
  CascadeMax, MAX_NODES,
  k1, dagPda, facilitatorKey, MaxCalls, MaxFaults

VARIABLES
  part,
  target, mask, pending, remaining_accounts, expired_bits, refund_total,
  expired_count, changed, position, running,
  bridge_slot, bridge_config, agent_reputation, job_record,
  config, script, calls, faults,
  nodes, node, call, seen, accounts

(***************************************************************************)
(* Every four-node DAG, every set of pending nodes, every target; lists in  *)
(* every order, with and without a node listed twice, and partial ones.     *)
(***************************************************************************)
NodeIndexes == 0..(MAX_NODES - 1)
MCAllocation == [i \in NodeIndexes |-> (2 * i) % 3]
Orders == {s \in [1..3 -> {1, 2, 3}] : Cardinality({s[1], s[2], s[3]}) = 3}
MCLists ==
  Orders \cup {Append(s, s[1]) : s \in Orders}
    \cup {<<>>, <<3>>, <<3, 1>>, <<3, 2>>, <<2, 3, 2>>, <<3, 0, 2, 1>>}

CL == INSTANCE CascadeLoop WITH
  U64_MAX <- CascadeMax, AllocationUsdc <- MCAllocation, AccountLists <- MCLists

\* Deltas at both ends of i16, ones the weight rounds away on either side of 0, and
\* the usual +100.
RB == INSTANCE ReputationBridge WITH
  Agents <- BridgeAgents, MaxSlot <- BridgeMaxSlot, slot <- bridge_slot,
  ScoreDeltas <- {-32768, -33, 3, 100, 32767}

MCWanted ==
  [p \in {"bridge", "registry", "escrow"} |-> IF p = "escrow" THEN facilitatorKey ELSE dagPda]
DP == INSTANCE Deployment WITH
  Deployer <- k1, Authorities <- {dagPda, facilitatorKey}, Wanted <- MCWanted

\* The largest pipeline that fits a transaction, the next one, and both ends.
CI == INSTANCE Client WITH
  Agents <- {"agent1", "agent2"}, NodeCounts <- {1, 13, 14, 16}, MAX_NODES <- 16,
  PACKET_DATA_SIZE <- 1232

ASSUME PartsAssumption ==
  /\ CL!CascadeLoopAssumption /\ RB!ReputationBridgeAssumption
  /\ DP!DeploymentAssumption /\ CI!ClientAssumption

\* Lengths, offsets and field names used by hand agree with the interface's layouts.
ASSUME LayoutsAgree == CI!LayoutsAgree

\* Total is the sum the community modules compute by recursion.
ASSUME TotalIsTheSum ==
  \A amount \in [1..3 -> 0..3] : \A S \in SUBSET (1..3) :
    Total(amount, S) = MapThenSumSet(LAMBDA x : amount[x], S)

-----------------------------------------------------------------------------
CascadeAtRest ==
  /\ target = 0 /\ mask = [i \in NodeIndexes |-> {}] /\ pending = {}
  /\ remaining_accounts = <<>>
  /\ expired_bits = {0} /\ refund_total = MCAllocation[0] /\ expired_count = 1
  /\ changed = FALSE /\ position = 1 /\ running = FALSE

RegistryAtRest ==
  /\ Init
  /\ registry_config.operator = CHOOSE key \in Keys : TRUE
  /\ registry_config.dag_escrow_authority = CHOOSE key \in Authorities : TRUE
  /\ registry_config.slash_bps = CHOOSE bps \in SlashBps : TRUE

BridgeAtRest ==
  /\ RB!Init
  /\ bridge_config.operator = CHOOSE key \in Keys : TRUE
  /\ bridge_config.dag_escrow_authority = CHOOSE key \in Authorities : TRUE

DeploymentAtRest ==
  /\ DP!Init
  /\ config = [p \in DP!Programs |-> DP!Missing]

PartsInit ==
  \/ part = "cascade" /\ CL!Init /\ RegistryAtRest /\ BridgeAtRest /\ DeploymentAtRest /\ CI!Init
  \/ part = "registry" /\ CascadeAtRest /\ Init /\ BridgeAtRest /\ DeploymentAtRest /\ CI!Init
  \/ part = "bridge" /\ CascadeAtRest /\ RegistryAtRest /\ RB!Init /\ DeploymentAtRest /\ CI!Init
  \/ part = "deployment" /\ CascadeAtRest /\ RegistryAtRest /\ BridgeAtRest /\ DP!Init /\ CI!Init
  \/ part = "client" /\ CascadeAtRest /\ RegistryAtRest /\ BridgeAtRest /\ DeploymentAtRest /\ CI!Init

cascade == <<target, mask, pending, remaining_accounts, expired_bits, refund_total,
             expired_count, changed, position, running>>
bridge == <<bridge_slot, bridge_config, agent_reputation, job_record>>
deployment == <<config, script, calls, faults>>
client == <<nodes, node, call, seen, accounts>>
partsvars == <<part, cascade, vars, bridge, deployment, client>>

DeploymentStep(s) == part = "deployment" /\ DP!ScriptStep(s) /\ UNCHANGED <<part, cascade, vars, bridge, client>>

PartsNext ==
  /\ UNCHANGED part
  /\ \/ part = "cascade" /\ CL!Next /\ UNCHANGED <<vars, bridge, deployment, client>>
     \/ part = "registry" /\ Next /\ UNCHANGED <<cascade, bridge, deployment, client>>
     \/ part = "bridge" /\ RB!Next /\ UNCHANGED <<cascade, vars, deployment, client>>
     \/ part = "deployment" /\ DP!Next /\ UNCHANGED <<cascade, vars, bridge, client>>
     \/ part = "client" /\ CI!Next /\ UNCHANGED <<cascade, vars, bridge, deployment>>

\* The loop runs on; both scripts are run, and run again when they ended.
PartsSpec ==
  /\ PartsInit /\ [][PartsNext]_partsvars
  /\ WF_partsvars(part = "cascade" /\ PartsNext)
  /\ \A s \in DP!Scripts : WF_partsvars(DeploymentStep(s))

-----------------------------------------------------------------------------
\* Every part's state has its type, in every state it can reach (TypeOK of each module).
PartsTypeOK == TypeOK /\ CL!TypeOK /\ RB!TypeOK /\ DP!TypeOK /\ CI!TypeOK

\* CascadeLoop: the loop of expire_node computes the cascade, however the accounts
\* are listed, and refunds and counts each node once.
LoopComputesCascade == CL!LoopComputesCascade

\* CascadeLoop: the loop stops.
Terminates == CL!Terminates

\* ReputationBridge: totals and last job agree with the receipts.
ReputationMatchesReceipts == RB!ReputationMatchesReceipts

\* ReputationBridge: no later call replaces a receipt.
ReceiptsPermanent == RB!ReceiptsPermanent

\* ReputationBridge: the score moves only with a receipt, its way and within its weight.
ScoreFollowsReceipts == RB!ScoreFollowsReceipts

\* Deployment: a script that reports success has done its work.
ReportedDoneIsDone == DP!ReportedDoneIsDone

\* Deployment: running a script again undoes no choice of the operator.
ScriptsKeepChoices == DP!ScriptsKeepChoices

\* Deployment: running both scripts again and again ends with every config usable.
RerunsConverge == part = "deployment" => DP!RerunsConverge

\* Client: SDK, interface and programs agree on every account of a call.
FreshCallsAccepted == CI!FreshCallsAccepted

\* Client: the job that ends is reported for the agent that holds the node.
ReportsItsAgent == CI!ReportsItsAgent

\* Client: what one transaction creates, one transaction expires or cancels.
EveryPipelineCanEnd == CI!EveryPipelineCanEnd
=============================================================================
