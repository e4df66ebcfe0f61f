SPECIFICATION ClientsSpec
CONSTANTS
  ClientKinds = {"portal", "reader", "wizard", "prover"}
  w = w
  c = c
  Accounts = {w, c}
  ra = ra
  rb = rb
  Registries = {ra, rb}
  None = None
  Owner = w
  Pages = {"owned", "identity", "dashboard", "registry"}
  Unknown = Unknown
  NoTx = NoTx
  Done = Done
  MaxLoads = 3
  MaxSwitches <- MCMaxSwitches
  MaxQueue = 2
  MadeAtStart <- MCMadeAtStart
  ChainsAtStart <- MCChainsAtStart
  Wallet = w
  Failed = Failed
  Pending = Pending
  MaxTime = 2
  MaxChanges = 1
  MaxFails = 1
  c1 = c1
  c2 = c2
  Certificates = {c1, c2}
  Listings <- MCListings
  Config <- MCConfig
  NoRegistry = NoRegistry
  NoInfo = NoInfo
  NoUrl = NoUrl
  NoCert = NoCert
  MaxCalls = 4
  ConsentAge = 1
  MaxProofAge = 1
  MaxClock = 2
  MaxSigning = 6
INVARIANTS
  SessionOfAccount ListOfAccount IdentityCatchesUp
  RowsAreTrue VerifiedStayVisible
  ConsentUnlessRemounted ShownResultCurrent CertificateAsShown
  RegistrantsOnRecord
CHECK_DEADLOCK FALSE
