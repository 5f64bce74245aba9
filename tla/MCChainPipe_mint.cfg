\* The agent staked another mint than the pipeline pays in.
CONSTANTS
  p1 = p1  p2 = p2  c1 = c1  usdc = usdc  other_mint = other_mint
  U64_MAX = 8
  Pipelines = {p1}
  Consumers = {c1}
  ConsumerOf <- MCConsumerOf
  Agents = {a1}
  Keys = {k1}
  Successors = {}
  Nobody = Nobody
  NodeConfigLists <- Line
  FeeBps = {0}
  ScoreDeltas = {100}
  DisputeWindows = {1}
  MAX_NODES = 2
  DISPUTE_SLOTS = 1
  MIN_DISPUTE_SLOTS = 1
  MAX_DISPUTE_SLOTS = 2
  Budget = 7
  MaxSlot = 4
  Mints = {usdc, other_mint}
  SlashBps = {6000}
  MaxSlashBps = {0, 1000}
  CooldownSlots = {1}
  StakeAmounts = {4}
  TIER1_MIN = 2
  TIER2_MIN = 5
  TIER3_MIN = 9
  StakeBudget = 4
  Alphas = {2000}
  Authorities = {dagPda, other}
  DagAuthority = dagPda
  MintOf <- MCMintOf
SPECIFICATION Spec
INVARIANTS MissedDeadlineExpirable
