SPECIFICATION HSpec
CHECK_DEADLOCK FALSE
CONSTANTS
  MAX_ORDERS_PER_SIDE = 3
  MAX_MATCH_STEPS = 1
  EVENT_QUEUE_LEN = 4
  CRANK_BATCH_LEN = 2
  LIQUIDATION_TWAP_WINDOW = 2
  TWAP_OBSERVATIONS = 3
  MAX_SEQ = 4
  MAX_SLOT = 5
  Owners = {"a", "b"}
  Requests <- MCTwap
INVARIANT TwapBounded
INVARIANT SdkTwapAgrees
