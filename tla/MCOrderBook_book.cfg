SPECIFICATION FairSpec
CHECK_DEADLOCK FALSE
CONSTANTS
  MAX_ORDERS_PER_SIDE = 3
  MAX_MATCH_STEPS = 1
  EVENT_QUEUE_LEN = 4
  CRANK_BATCH_LEN = 2
  LIQUIDATION_TWAP_WINDOW = 2
  TWAP_OBSERVATIONS = 1
  MAX_SEQ = 4
  MAX_SLOT = 1
  Owners = {"a", "b", "c"}
  Requests <- MCBook
INVARIANT TypeOK
INVARIANT BookUncrossed
PROPERTY PriceTimePriority
PROPERTY EventsDrained
PROPERTY DemandConserved
