\* Two polls that overlap, or two nodes and an operator who tunes; posts, restarts.
CONSTANTS
  p1 = p1  c1 = c1  q1 = q1  usdc = usdc
  U64_MAX = 8
  Pipelines = {p1}
  Consumers = {c1, c2}
  ConsumerOf <- MCConsumerOf
  Mints = {usdc}
  MintOf <- MCMintOf
  Agents = {a1}
  Keys = {k1}
  Successors = {}
  Nobody = Nobody
  NodeConfigLists <- Jobs
  FeeBps = {0}
  Tiers = {0}
  ScoreDeltas = {0}
  DisputeWindows = {2}
  MAX_NODES = 3
  DISPUTE_SLOTS = 1
  MIN_DISPUTE_SLOTS = 1
  MAX_DISPUTE_SLOTS = 2
  Budget = 3
  MaxSlot = 3
  CancelListsEveryNode = FALSE
  Polls = {q1, q2}
  Specs = {s1}
SPECIFICATION BoundedFairIndexer
INVARIANTS SnapshotAddsUp OffersAreReady PagesAgreeWithProgram
PROPERTIES SpecsOutlivePolls CatchesUp
