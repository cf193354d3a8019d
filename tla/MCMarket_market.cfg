CONSTANTS
  U64_MAX = 4
  U128_MAX = 24
  I128_MAX = 19
  NORM_BITS = 2
  MAX_SHIFT = 7
  APY_SCALE = 2
  BPS = 4
  SLOTS_PER_YEAR = 2
  LIQUIDATION_PENALTY_BPS = 1
  NumUsers = 2
  FUNDS = 1
  initial_margin_bps = 2
  maintenance_margin_bps = 1
  funding_k = 1
  max_funding = 1
  funding_epoch_slots = 1
  MAX_ORDERS_PER_SIDE = 2
  MAX_MATCH_STEPS = 1
  EVENT_QUEUE_LEN = 1
  CRANK_BATCH_LEN = 1
  LIQUIDATION_TWAP_WINDOW = 1
  TWAP_OBSERVATIONS = 2
  Setups <- MCSetups
  Requests <- MCRequests
  Openings <- MCOpenings
  Rates <- MCRates
  Amounts = {1}
  Sizes = {1}
  MAX_CLOSED = 1
  OTHER_RATE <- MCOtherRate
  MAX_SEQ = 4
  MAX_SLOT = 2
SPECIFICATION Spec
PROPERTY ImplementsAccounts
PROPERTY FillBookedOnce
PROPERTY ExposureBalanced
CHECK_DEADLOCK FALSE
