\* Two pipelines of one consumer, two agents, keys rotated in mid-flight.
CONSTANTS
  p1 = p1  p2 = p2  c1 = c1  usdc = usdc
  U64_MAX = 12
  Pipelines = {p1, p2}
  Consumers = {c1}
  ConsumerOf <- MCConsumerOf
  Mints = {usdc, other_mint}
  MintOf <- MCMintOf
  Agents = {a1, a2}
  Keys = {k1, k2}
  Successors = {Nobody, k1, k2}
  Nobody = Nobody
  NodeConfigLists <- Single
  FeeBps = {2500}
  Tiers = {0, 1}
  ScoreDeltas = {0}
  DisputeWindows = {1}
  MAX_NODES = 1
  DISPUTE_SLOTS = 1
  MIN_DISPUTE_SLOTS = 1
  MAX_DISPUTE_SLOTS = 2
  Budget = 11
  MaxSlot = 4
  CancelListsEveryNode = TRUE
SPECIFICATION Spec
INVARIANTS PayoutsMatchSettledWork ConsumerPaysOnlyForWork
