\* A crash between truncating the store's file and writing it.
CONSTANTS
  p1 = p1  c1 = c1  q1 = q1  usdc = usdc
  U64_MAX = 8
  Pipelines = {p1}
  Consumers = {c1}
  ConsumerOf <- MCConsumerOf
  Mints = {usdc}
  MintOf <- MCMintOf
  Agents = {a1}
  Keys = {k1}
  Successors = {}
  Nobody = Nobody
  NodeConfigLists <- OneJob
  FeeBps = {0}
  Tiers = {0}
  ScoreDeltas = {0}
  DisputeWindows = {}
  MAX_NODES = 1
  DISPUTE_SLOTS = 1
  MIN_DISPUTE_SLOTS = 1
  MAX_DISPUTE_SLOTS = 1
  Budget = 1
  MaxSlot = 3
  CancelListsEveryNode = TRUE
  Polls = {q1}
  Specs = {s1}
SPECIFICATION IndexerSpec
PROPERTIES SpecsPersist
