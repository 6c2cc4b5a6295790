SPECIFICATION Spec
CONSTANTS
  w1 = w1
  r1 = r1
  r2 = r2
  metered = metered
  fixed = fixed
  Wallet <- MCWallet
  Amount <- MCAmount
  NegativeCap = 1
  Request <- MCRequest
  Key <- MCKey
  Metered <- MCMetered
  Calculated <- MCKey
  StaticPrice = 2
  Price <- MCPrice
  SeedAmount = 2
  SeedLimit = 4
INVARIANT OwnPrice
CHECK_DEADLOCK FALSE
