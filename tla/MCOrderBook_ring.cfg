SPECIFICATION Spec
CHECK_DEADLOCK FALSE
CONSTANTS
  MAX_ORDERS_PER_SIDE = 4
  MAX_MATCH_STEPS = 2
  EVENT_QUEUE_LEN = 3
  CRANK_BATCH_LEN = 2
  LIQUIDATION_TWAP_WINDOW = 2
  TWAP_OBSERVATIONS = 1
  MAX_SEQ = 7
  MAX_SLOT = 2
  Owners = {"a", "b"}
  Requests <- MCRing
PROPERTY FillsPersisted
PROPERTY UndrainedKept
