\* One part at a time: the cascade loop, the registry, the bridge, the configs, a client.
CONSTANTS
  U64_MAX = 7
  Agents = {a1}
  Consumers = {c1}
  Keys = {k1, k2}
  Successors = {Nobody, k1, k2}
  Nobody = Nobody
  Mints = {usdc, other_mint}
  Authorities = {dagPda, other}
  SlashBps = {6000}
  MaxSlashBps = {0, 1000, 10000, 10001}
  CooldownSlots = {2}
  StakeAmounts = {0, 1, 4}
  TIER1_MIN = 2
  TIER2_MIN = 5
  TIER3_MIN = 7
  StakeBudget = 5
  MaxJobs = 3
  MaxSlot = 4
  BridgeAgents = {a1, a2}
  Jobs = {j1, j2, j3}
  NoJob = NoJob
  Alphas = {2000}
  BridgeMaxSlot = 2
  CascadeMax = 6
  MAX_NODES = 4
  k1 = k1
  dagPda = dagPda
  facilitatorKey = facilitatorKey
  MaxCalls = 2
  MaxFaults = 2
SPECIFICATION PartsSpec
INVARIANTS PartsTypeOK VaultBacksStake FailureAlwaysReportable
  ReputationMatchesReceipts LoopComputesCascade
  ReportedDoneIsDone FreshCallsAccepted EveryPipelineCanEnd
PROPERTIES Terminates StakeHeldWhileWorking ReceiptsPermanent ScoreFollowsReceipts
  ScriptsKeepChoices RerunsConverge ReportsItsAgent
CHECK_DEADLOCK FALSE
