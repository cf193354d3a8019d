CONSTANTS
  old = old
  new = new
  k1 = k1
  k2 = k2
  U64_MAX = 3
  MAX_APY = 1
  Publishers = {old, new}
  Keepers = {k1, k2}
  keypair <- MCKeypair
  NotFinite = NotFinite
  Series <- MCSeries
  Windows = {1, 2}
  MAX_SLOT = 1
  MAX_ADMIN = 1
SPECIFICATION FairSpec
INVARIANT TypeOK
PROPERTY DecidedOnCurrent
PROPERTY NeverOlder
PROPERTY Refreshed
PROPERTY Converges
CHECK_DEADLOCK FALSE
