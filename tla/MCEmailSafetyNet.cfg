SPECIFICATION EmailSpec
CONSTANTS
  c1 = c1
  c2 = c2
  b1 = b1
  b2 = b2
  s1 = s1
  s2 = s2
  n1 = n1
  n2 = n2
  w1 = w1
  w2 = w2
  h1 = h1
  h2 = h2
  d1 = d1
  d2 = d2
  a1 = a1
  Box <- MCBox
  Call <- MCCall
  Sweeper <- MCSweeper
  Name <- MCName
  MaxRetries = 3
  Batch = 1
  Worlds <- MCServiceWorlds
  DomainCall <- MCCall
  LastId = 2
  Wallet <- MCWallet
  Address <- MCAddress
  Hook <- MCHook
  Delivery <- MCDelivery
  MaxAttempts = 2
  PauseAfter = 2
  LastBox = 2
PROPERTY SafetyNet
CHECK_DEADLOCK FALSE
