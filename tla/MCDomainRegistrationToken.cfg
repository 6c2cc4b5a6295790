SPECIFICATION Spec
CONSTANTS
  c1 = c1
  c2 = c2
  c3 = c3
  c4 = c4
  ann = ann
  bob = bob
  Wallet <- TwoWallets
  Call <- FourCalls
  Worlds <- AllWorlds
  ZoneLimit = 2
SYMMETRY Symmetry
INVARIANT TokenRetriesSetup
CHECK_DEADLOCK FALSE
