\* Two requests at once; a pipeline of two nodes; keys and operator that change.
CONSTANTS
  p1 = p1  c1 = c1  k1 = k1  usdc = usdc
  U64_MAX = 8
  Pipelines = {p1}
  Consumers = {c1}
  ConsumerOf <- MCConsumerOf
  Mints = {usdc}
  MintOf <- MCMintOf
  Agents = {a1}
  Keys = {k1, k2}
  Successors = {k2}
  Nobody = Nobody
  NodeConfigLists <- Jobs
  FeeBps = {0}
  Tiers = {0}
  ScoreDeltas = {0}
  DisputeWindows = {}
  MAX_NODES = 2
  DISPUTE_SLOTS = 1
  MIN_DISPUTE_SLOTS = 1
  MAX_DISPUTE_SLOTS = 1
  Budget = 3
  MaxSlot = 3
  CancelListsEveryNode = FALSE
  Requests = {r1, r2}
  Endpoints = {"complete", "submit", "expire", "finalize", "resolve"}
  Deliveries = {d1}
  Unsigned = Unsigned
  Misread = Misread
  UsdcMint = usdc
SPECIFICATION FacilitatorSpec
INVARIANTS SeenIsRecorded AnswersTrue OnlySignedWorkCounts
CHECK_DEADLOCK FALSE
CONSTRAINT OneComplication
ACTION_CONSTRAINT SignedAtWork
SYMMETRY RequestSymmetry
