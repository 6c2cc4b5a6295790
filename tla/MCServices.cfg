SPECIFICATION ServicesSpec
CONSTANTS
  e1 = e1
  e2 = e2
  e3 = e3
  c1 = c1
  c2 = c2
  w1 = w1
  Wallet <- MCWallet
  Server <- MCTwo
  SshKey <- MCKey
  Owner <- MCOwner
  Size = {"s", "m"}
  SpawnOrder <- MCCall
  MaxServers = 1
  SpawnLimit = 4
  Bucket <- MCTwo
  BucketName = {"n1", "n2"}
  ObjectKey = {"k1", "k2"}
  Bytes = {1, 2}
  Quota <- MCQuota
  DefaultQuota = 2
  MaxStorage = 3
  MaxBuckets = 2
  Opened <- MCOpened
  Transfer <- MCCall
  TransferLimit = 3
  Token <- MCToken
  Amount = {1, 2}
  InitialSupply = 2
  MaxSupply = 5
  TokenCall <- MCCall
  TokenLimit = 4
  Fee <- MCTwo
  Price = {1, 2}
  PoolCall <- MCCall
  PoolLimit = 3
  Collection <- MCThree
  Tenant <- MCTenant
  Place <- MCPlace
  MemCall <- MCCall
  MemLimit = 5
  CacheKey <- MCTwo
  Ttl <- MCTtl
  CacheEnd = 5
  Rec = {1, 2, 3}
  MailKinds <- MCMailKinds
  Kind <- MCKind
  Content <- MCContent
  Match <- MCMatch
  ByHand <- MCByHand
  RecCall <- MCCall
  RecLimit = 3
  Fetch <- MCTwo
  Charge = {1, 3}
  MaxPayment = 2
  RetrySettlement = TRUE
  KeystoreUsed = TRUE
  Address <- MCThree
  Command <- MCCall
  CommandLimit = 4
  Agent <- MCWallet
  FundRequest <- MCKey
  SendId <- MCCall
  Payment = {1, 2}
  LastDay = 2
  WalletLimit = 3
  Passkey <- MCTwo
  Challenge <- MCTwo
  SignIn <- MCCall
  Conversation <- MCTwo
  Chat <- MCCall
  ChatLimit = 3
  Model <- MCTwo
  Rate = {1, 2}
  Tokens = {2, 3}
  Fallback = 1
  Floor = 3
  Inference <- MCKey
  RateMoves = 1
INVARIANTS
  ServicesTypeOK
  RowsMatchProvider
  UsageIsExact
  MintedIsCounted
  PoolsAreReal
  CollectionsAreOwn
  ValuesLive
  RowsMatchCloudflare
  PaidAsAgreed
  KeysOpen
  PolicyHolds
  ChatHolds
  BilledAsRun
PROPERTY UploadsFit
SYMMETRY MCSymmetry
CHECK_DEADLOCK FALSE
