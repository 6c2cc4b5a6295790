SPECIFICATION OnboardingSpec
CONSTANTS
  w1 = w1
  w2 = w2
  k1 = k1
  k2 = k2
  r1 = r1
  r2 = r2
  a1 = a1
  d1 = d1
  d2 = d2
  Wallet <- MCWallet
  Limit = 2
  WindowLength = 3
  PruneInterval = 2
  TimeLimit = 7
  Code <- MCCode
  Preset <- MCPreset
  Invitee <- MCWallet
  Redemption <- MCRedemption
  Address <- MCAddress
  Coin <- MCCoin
  Drip <- MCDrip
  Reserve = 1
  Funds = 2
  Outages = {TRUE}
  DripLimit = 3
PROPERTY QueueRecovers
CHECK_DEADLOCK FALSE
