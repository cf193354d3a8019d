CONSTANTS
  U64_MAX = 3
  U128_MAX = 24
  I128_MAX = 19
  NORM_BITS = 2
  MAX_SHIFT = 7
  APY_SCALE = 2
  BPS = 4
  SLOTS_PER_YEAR = 2
  LIQUIDATION_PENALTY_BPS = 1
  NumUsers = 2
  FUNDS = 1
  initial_margin_bps = 4
  maintenance_margin_bps = 1
  funding_k = 1
  max_funding = 1
  funding_epoch_slots = 1
  EVENT_QUEUE_LEN = 1
  MAX_FILLS = 1
  MAX_SLOT = 1
  Rates <- MCRates
  Amounts = {1}
  Sizes = {1}
  Mids = {1}
  Makers = {1,2}
  Traded <- MCFacing
  MAX_CLOSED = 1
SPECIFICATION Spec
INVARIANT TypeOK
INVARIANT MarginLedger
INVARIANT Conservation
PROPERTY ClaimsOnlyPaid
CHECK_DEADLOCK FALSE
INVARIANT SdkPnlAgrees
