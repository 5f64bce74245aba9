----------------------------- MODULE Interface ------------------------------
(***************************************************************************)
(* The client interface of the three programs, as the SDK carries it        *)
(* (src/sdk/src/idl; src/dashboard/lib/idl holds the same files): of every  *)
(* instruction the accounts it reads, writes and wants signed, which        *)
(* addresses the client works out by itself, and the bytes of its           *)
(* arguments; of every account type its fields in order.                    *)
(*                                                                          *)
(* The order of accounts, docs, discriminators, events and error texts are  *)
(* left out.                                                                *)
(***************************************************************************)
EXTENDS Naturals, Sequences

LOCAL Seqs == INSTANCE SequencesExt

\* Tables of accounts, with the names TLC gives these operators: as definitions,
\* the provers can expand them.
name :> value == [n \in {name} |-> value]
f @@ g == [n \in DOMAIN f \cup DOMAIN g |-> IF n \in DOMAIN f THEN f[n] ELSE g[n]]

(***************************************************************************)
(* How an address follows from others: from seeds under a program, as the   *)
(* token account of an owner, as a well-known key, or from a field of       *)
(* another account's data.  Seeds name accounts or arguments.               *)
(***************************************************************************)
PdaOf(program, label, seeds) == [under |-> program, label |-> label, seeds |-> seeds]
AtaOf(owner, mint) == PdaOf("associatedToken", "ata", <<owner, mint>>)
Known(key) == PdaOf("known", key, <<>>)
FieldOf(account, field) == PdaOf("data", field, <<account>>)

Width ==
  [bool |-> 1, u8 |-> 1, u16 |-> 2, i16 |-> 2, u32 |-> 4, i32 |-> 4, u64 |-> 8, i64 |-> 8,
   pubkey |-> 32, bytes32 |-> 32, bytes96 |-> 96, enum |-> 1]
SizeOf(types) == Seqs!FoldSeq(LAMBDA type, sum : Width[type] + sum, 0, types)

Instruction(program, args, reads, writes, signers, derives) ==
  [program |-> program, args |-> 8 + SizeOf(args), accounts |-> reads \cup writes,
   writable |-> writes, signers |-> signers, optional |-> {}, derives |-> derives]

Tokens == "tokenProgram" :> Known("token")
AtaProgram == "associatedTokenProgram" :> Known("associatedToken")
System == "systemProgram" :> Known("system")
Registry == "bondedRegistryProgram" :> Known("bonded_registry")
Bridge == "reputationBridgeProgram" :> Known("reputation_bridge")

(***************************************************************************)
(* dag_escrow                                                               *)
(***************************************************************************)
PipelineConfigAt == "pipelineConfig" :> PdaOf("dag_escrow", "pipeline_config", <<>>)
DagAuthorityAt == "dagAuthority" :> PdaOf("dag_escrow", "dag_authority", <<>>)
SettlementAt == "settlement" :> PdaOf("dag_escrow", "settlement", <<"node">>)
VaultAt == "vault" :> AtaOf("pipeline", "stakeMint")
ConsumerAtaAt == "consumerTokenAccount" :> AtaOf("consumer", "stakeMint")
OperatorOfPipelineConfig == "operator" :> FieldOf("pipelineConfig", "operator")
ConsumerOfPipeline == "consumer" :> FieldOf("pipeline", "consumer")

de_acceptOperator ==
  Instruction("dag_escrow", <<>>, {"newOperator"}, {"pipelineConfig"}, {"newOperator"},
    PipelineConfigAt)

\* The pipeline's vault and the consumer's own account.
de_cancelPipeline_tokens == VaultAt @@ ConsumerAtaAt
de_cancelPipeline ==
  Instruction("dag_escrow", <<>>, {"stakeMint", "tokenProgram"},
    {"pipeline", "consumer", "vault", "consumerTokenAccount"}, {"consumer"},
    de_cancelPipeline_tokens @@ ConsumerOfPipeline @@ Tokens)

de_claimNode ==
  Instruction("dag_escrow", <<"u8">>,
    {"pipelineConfig", "agent", "registryConfig", "dagAuthority", "bondedRegistryProgram"},
    {"pipeline", "node", "agentStake"}, {"agent"},
    PipelineConfigAt @@ DagAuthorityAt @@ Registry)

\* What the job's end is reported with: complete_node, finalize_node, resolve_dispute.
reportsRead ==
  {"agent", "dagAuthority", "bondedRegistryProgram", "reputationBridgeProgram",
   "tokenProgram", "systemProgram"}
reportsWritten ==
  {"registryConfig", "agentStake", "bridgeConfig", "agentReputation", "jobRecord"}
reportsDerived == DagAuthorityAt @@ Registry @@ Bridge @@ Tokens @@ System

de_completeNode_reports == reportsDerived
de_completeNode ==
  Instruction("dag_escrow", <<"u8", "i16", "bytes32">>,
    reportsRead \cup {"pipelineConfig", "stakeMint"},
    reportsWritten \cup {"pipeline", "node", "facilitator", "vault", "agentTokenAccount",
                         "operatorTreasury"},
    {"facilitator"}, PipelineConfigAt @@ VaultAt @@ de_completeNode_reports)

\* nodeConfigs is a vector of nodeConfig, whose bytes come on top.
de_createPipeline_tokens == VaultAt @@ ConsumerAtaAt @@ Tokens @@ AtaProgram @@ System
de_createPipeline ==
  Instruction("dag_escrow", <<"u32", "u64">>,
    {"pipelineConfig", "stakeMint", "tokenProgram", "associatedTokenProgram", "systemProgram"},
    {"pipeline", "consumer", "consumerTokenAccount", "vault"}, {"consumer"},
    PipelineConfigAt @@ ("pipeline" :> PdaOf("dag_escrow", "pipeline", <<"consumer", "nonce">>))
      @@ de_createPipeline_tokens)

de_disputeNode ==
  Instruction("dag_escrow", <<"u8", "bytes32", "u8">>, {"pipeline", "consumer"},
    {"node", "settlement"}, {"consumer"}, SettlementAt @@ ConsumerOfPipeline)

\* Needed only for a claimed node.
de_expireNode_slashes ==
  [optional |-> reportsWritten \cup {"agentStakeVault", "agent", "bondedRegistryProgram",
                                     "reputationBridgeProgram"},
   derives |-> reportsDerived]
de_expireNode ==
  [Instruction("dag_escrow", <<"u8">>,
     reportsRead \cup {"pipelineConfig", "stakeMint"},
     reportsWritten \cup {"agentStakeVault", "pipeline", "node", "vault",
                          "consumerTokenAccount", "caller"},
     {"caller"}, PipelineConfigAt @@ VaultAt @@ de_expireNode_slashes.derives)
   EXCEPT !.optional = de_expireNode_slashes.optional]

de_finalizeNode_reports == reportsDerived
de_finalizeNode ==
  Instruction("dag_escrow", <<"u8">>,
    reportsRead \cup {"pipelineConfig", "stakeMint"},
    reportsWritten \cup {"pipeline", "node", "settlement", "caller", "vault",
                         "agentTokenAccount", "operatorTreasury"},
    {"caller"}, PipelineConfigAt @@ SettlementAt @@ VaultAt @@ de_finalizeNode_reports)

de_initialize ==
  Instruction("dag_escrow", <<"u16", "pubkey">>, {"systemProgram"},
    {"pipelineConfig", "operator"}, {"operator"}, PipelineConfigAt @@ System)

de_migratePipelineConfig ==
  Instruction("dag_escrow", <<>>, {"systemProgram"}, {"pipelineConfig", "operator"},
    {"operator"}, PipelineConfigAt @@ OperatorOfPipelineConfig @@ System)

de_proposeOperator ==
  Instruction("dag_escrow", <<"pubkey">>, {"operator"}, {"pipelineConfig"}, {"operator"},
    PipelineConfigAt @@ OperatorOfPipelineConfig)

de_resolveDispute_reports == reportsDerived
de_resolveDispute ==
  Instruction("dag_escrow", <<"u8", "bool">>,
    reportsRead \cup {"pipelineConfig", "stakeMint"},
    reportsWritten \cup {"agentStakeVault", "pipeline", "node", "settlement", "facilitator",
                         "vault", "agentTokenAccount", "operatorTreasury",
                         "consumerTokenAccount"},
    {"facilitator"}, PipelineConfigAt @@ SettlementAt @@ VaultAt @@ de_resolveDispute_reports)

de_setDisputeWindow ==
  Instruction("dag_escrow", <<"u64">>, {"operator"}, {"pipelineConfig"}, {"operator"},
    PipelineConfigAt @@ OperatorOfPipelineConfig)

de_setFacilitatorAuthority ==
  Instruction("dag_escrow", <<"pubkey">>, {"operator"}, {"pipelineConfig"}, {"operator"},
    PipelineConfigAt @@ OperatorOfPipelineConfig)

de_setPaused ==
  Instruction("dag_escrow", <<"bool">>, {"operator"}, {"pipelineConfig"}, {"operator"},
    PipelineConfigAt @@ OperatorOfPipelineConfig)

de_submitCompletion ==
  Instruction("dag_escrow", <<"u8", "i16", "bytes32", "bytes96", "u8">>,
    {"pipelineConfig", "pipeline", "agent", "systemProgram"},
    {"node", "facilitator", "settlement"}, {"facilitator"},
    PipelineConfigAt @@ SettlementAt @@ System)

(***************************************************************************)
(* bonded_registry                                                          *)
(***************************************************************************)
ConfigAt == "config" :> PdaOf("bonded_registry", "config", <<>>)
StakeOfAgent == "agentStake" :> PdaOf("bonded_registry", "agent_stake", <<"agent">>)
StakeOfItsAgent == "agentStake" :> PdaOf("bonded_registry", "agent_stake", <<"agentStake.agent">>)
StakeVaultAt == "vault" :> AtaOf("agentStake", "stakeMint")
AgentAtaAt == "agentTokenAccount" :> AtaOf("agent", "stakeMint")
OperatorOfConfig == "operator" :> FieldOf("config", "operator")
AgentOfStake == "agent" :> FieldOf("agentStake", "agent")
MintOfStake == "stakeMint" :> FieldOf("agentStake", "stakeMint")

br_acceptOperator ==
  Instruction("bonded_registry", <<>>, {"newOperator"}, {"config"}, {"newOperator"}, ConfigAt)

br_addStake_vault == StakeVaultAt
br_addStake ==
  Instruction("bonded_registry", <<"u64">>, {"stakeMint", "tokenProgram"},
    {"agentStake", "agent", "agentTokenAccount", "vault"}, {"agent"},
    StakeOfAgent @@ AgentOfStake @@ br_addStake_vault @@ Tokens)

br_decrementOpenJobs ==
  Instruction("bonded_registry", <<"bool">>, {"config", "dagAuthority"}, {"agentStake"},
    {"dagAuthority"}, ConfigAt @@ StakeOfItsAgent)

br_executeUnstake_tokens == StakeVaultAt @@ AgentAtaAt
br_executeUnstake ==
  Instruction("bonded_registry", <<>>, {"config", "stakeMint", "tokenProgram"},
    {"agentStake", "agent", "vault", "agentTokenAccount"}, {"agent"},
    ConfigAt @@ StakeOfAgent @@ AgentOfStake @@ MintOfStake @@ br_executeUnstake_tokens @@ Tokens)

br_incrementOpenJobs ==
  Instruction("bonded_registry", <<>>, {"config", "dagAuthority"}, {"agentStake"},
    {"dagAuthority"}, ConfigAt @@ StakeOfItsAgent)

br_initialize ==
  Instruction("bonded_registry", <<"u16", "u64", "pubkey">>, {"systemProgram"},
    {"config", "operator"}, {"operator"}, ConfigAt @@ System)

br_migrateRegistryConfig ==
  Instruction("bonded_registry", <<>>, {"systemProgram"}, {"config", "operator"},
    {"operator"}, ConfigAt @@ OperatorOfConfig @@ System)

br_proposeOperator ==
  Instruction("bonded_registry", <<"pubkey">>, {"operator"}, {"config"}, {"operator"},
    ConfigAt @@ OperatorOfConfig)

br_requestUnstake ==
  Instruction("bonded_registry", <<>>, {"agent"}, {"agentStake"}, {"agent"},
    StakeOfAgent @@ AgentOfStake)

br_setDagEscrowAuthority ==
  Instruction("bonded_registry", <<"pubkey">>, {"operator"}, {"config"}, {"operator"},
    ConfigAt @@ OperatorOfConfig)

br_setMaxSlashBps ==
  Instruction("bonded_registry", <<"u16">>, {"operator"}, {"config"}, {"operator"},
    ConfigAt @@ OperatorOfConfig)

br_slashStake_vault == StakeVaultAt
br_slashStake ==
  Instruction("bonded_registry", <<"bytes32", "u16">>,
    {"config", "stakeMint", "dagAuthority", "tokenProgram"},
    {"agentStake", "vault", "consumerTokenAccount"}, {"dagAuthority"},
    ConfigAt @@ StakeOfItsAgent @@ MintOfStake @@ br_slashStake_vault @@ Tokens)

br_stakeAndRegister_tokens == AgentAtaAt @@ StakeVaultAt
br_stakeAndRegister ==
  Instruction("bonded_registry", <<"u64">>,
    {"stakeMint", "tokenProgram", "associatedTokenProgram", "systemProgram"},
    {"agentStake", "agent", "agentTokenAccount", "vault"}, {"agent"},
    StakeOfAgent @@ br_stakeAndRegister_tokens @@ Tokens @@ AtaProgram @@ System)

(***************************************************************************)
(* reputation_bridge                                                        *)
(***************************************************************************)
BridgeConfigAt == "bridgeConfig" :> PdaOf("reputation_bridge", "bridge_config", <<>>)
OperatorOfBridgeConfig == "operator" :> FieldOf("bridgeConfig", "operator")
OutcomeAt ==
  ("agentReputation" :> PdaOf("reputation_bridge", "reputation", <<"agent">>))
    @@ ("jobRecord" :> PdaOf("reputation_bridge", "job_record", <<"jobId">>))

rb_acceptOperator ==
  Instruction("reputation_bridge", <<>>, {"newOperator"}, {"bridgeConfig"}, {"newOperator"},
    BridgeConfigAt)

rb_initialize ==
  Instruction("reputation_bridge", <<"pubkey", "pubkey", "u16">>, {"systemProgram"},
    {"bridgeConfig", "operator"}, {"operator"}, BridgeConfigAt @@ System)

rb_migrateBridgeConfig ==
  Instruction("reputation_bridge", <<>>, {"systemProgram"}, {"bridgeConfig", "operator"},
    {"operator"}, BridgeConfigAt @@ OperatorOfBridgeConfig @@ System)

rb_proposeOperator ==
  Instruction("reputation_bridge", <<"pubkey">>, {"operator"}, {"bridgeConfig"}, {"operator"},
    BridgeConfigAt @@ OperatorOfBridgeConfig)

rb_recordCompletion ==
  Instruction("reputation_bridge", <<"bytes32", "i16">>,
    {"bridgeConfig", "agent", "dagAuthority", "systemProgram"},
    {"agentReputation", "jobRecord", "payer"}, {"dagAuthority", "payer"},
    BridgeConfigAt @@ OutcomeAt @@ System)

rb_recordFailure ==
  Instruction("reputation_bridge", <<"bytes32">>,
    {"bridgeConfig", "agent", "dagAuthority", "systemProgram"},
    {"agentReputation", "jobRecord", "payer"}, {"dagAuthority", "payer"},
    BridgeConfigAt @@ OutcomeAt @@ System)

rb_setDagEscrowAuthority ==
  Instruction("reputation_bridge", <<"pubkey">>, {"operator"}, {"bridgeConfig"}, {"operator"},
    BridgeConfigAt @@ OperatorOfBridgeConfig)

(***************************************************************************)
(* Account data: fields after the discriminator, <<name, type>>.            *)
(***************************************************************************)
pipelineConfig ==
  << <<"operator", "pubkey">>, <<"facilitatorAuthority", "pubkey">>, <<"feeBps", "u16">>,
     <<"dagAuthorityBump", "u8">>, <<"bump", "u8">>, <<"version", "u8">>, <<"paused", "bool">>,
     <<"disputeSlots", "u64">>, <<"pendingOperator", "pubkey">> >>
registryConfig ==
  << <<"operator", "pubkey">>, <<"dagEscrowAuthority", "pubkey">>, <<"slashBps", "u16">>,
     <<"cooldownSlots", "u64">>, <<"bump", "u8">>, <<"version", "u8">>,
     <<"maxSlashBps", "u16">>, <<"pendingOperator", "pubkey">> >>
\* A seeded fault: narrow fields, as sixteen nodes would allow.
nodeConfigPacked ==
  << <<"allocationUsdc", "u64">>, <<"deadlineSlotsFromNow", "u16">>,
     <<"dependencyMask", "u16">>, <<"requiredTier", "u8">> >>
nodeConfig ==
  << <<"allocationUsdc", "u64">>, <<"deadlineSlotsFromNow", "u64">>,
     <<"dependencyMask", "u64">>, <<"requiredTier", "u8">> >>
pipeline ==
  << <<"consumer", "pubkey">>, <<"totalNodes", "u8">>, <<"totalUsdcLocked", "u64">>,
     <<"nodesSettled", "u8">>, <<"nodesExpired", "u8">>, <<"status", "enum">>,
     <<"nonce", "u64">>, <<"stakeMint", "pubkey">>, <<"settledMask", "u64">>,
     <<"bump", "u8">> >>
pipelineNode ==
  << <<"pipeline", "pubkey">>, <<"nodeIndex", "u8">>, <<"agent", "pubkey">>,
     <<"allocationUsdc", "u64">>, <<"deadlineSlot", "u64">>, <<"dependencyMask", "u64">>,
     <<"status", "enum">>, <<"settledAtSlot", "u64">>, <<"jobId", "bytes32">>,
     <<"requiredTier", "u8">>, <<"bump", "u8">> >>
nodeSettlement ==
  << <<"node", "pubkey">>, <<"resultHash", "bytes32">>, <<"uri", "bytes96">>, <<"uriLen", "u8">>,
     <<"submittedAtSlot", "u64">>, <<"disputeSlots", "u64">>, <<"scoreDelta", "i16">>,
     <<"disputed", "bool">>, <<"bump", "u8">> >>
agentStake ==
  << <<"agent", "pubkey">>, <<"stakeMint", "pubkey">>, <<"stakeAmount", "u64">>,
     <<"tier", "u8">>, <<"openJobs", "u32">>, <<"totalSettled", "u32">>,
     <<"totalSlashed", "u32">>, <<"unstakeRequestedAt", "i64">>, <<"bump", "u8">> >>
bridgeConfig ==
  << <<"operator", "pubkey">>, <<"dagEscrowProgram", "pubkey">>,
     <<"dagEscrowAuthority", "pubkey">>, <<"emaAlphaBps", "u16">>, <<"bump", "u8">>,
     <<"version", "u8">>, <<"pendingOperator", "pubkey">> >>
agentReputation ==
  << <<"agent", "pubkey">>, <<"emaScore", "u32">>, <<"totalSettled", "u32">>,
     <<"totalFailed", "u32">>, <<"lastJobId", "bytes32">>, <<"lastUpdatedSlot", "u64">>,
     <<"bump", "u8">> >>
jobRecord ==
  << <<"jobId", "bytes32">>, <<"agent", "pubkey">>, <<"outcome", "enum">>,
     <<"scoreDelta", "i16">>, <<"recordedAtSlot", "u64">>, <<"bump", "u8">> >>

BytesOf(layout) == SizeOf([i \in 1..Len(layout) |-> layout[i][2]])
\* Where a field starts in the account, after the eight bytes of the discriminator.
OffsetOf(layout, field) ==
  LET at == CHOOSE i \in 1..Len(layout) : layout[i][1] = field
  IN 8 + BytesOf(SubSeq(layout, 1, at - 1))
=============================================================================
