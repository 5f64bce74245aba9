\* One three-node pipeline, every instruction, one key holder; does the vault empty.
CONSTANTS
  p1 = p1  p2 = p2  c1 = c1  usdc = usdc
  U64_MAX = 12
  Pipelines = {p1}
  Consumers = {c1}
  ConsumerOf <- MCConsumerOf
  Mints = {usdc, other_mint}
  MintOf <- MCMintOf
  Agents = {a1}
  Keys = {k1}
  Successors = {}
  Nobody = Nobody
  NodeConfigLists <- OneDag
  FeeBps = {2500}
  Tiers = {0, 1}
  ScoreDeltas = {0}
  DisputeWindows = {0, 1, 2, 3}
  MAX_NODES = 3
  DISPUTE_SLOTS = 1
  MIN_DISPUTE_SLOTS = 1
  MAX_DISPUTE_SLOTS = 2
  Budget = 11
  MaxSlot = 4
  CancelListsEveryNode = TRUE
SPECIFICATION FairSpec
INVARIANTS TypeOK VaultBacksOpenNodes PipelineSummarisesNodes DependencyOrder
  SettlementMatchesNode DisputeXorFinalize
PROPERTIES DisputeRightKept KeepsPromise FundsNeverTrapped
