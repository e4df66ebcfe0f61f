SPECIFICATION Spec
CONSTANTS
  ZeroHash = ZeroHash
  Cas = {ca1, ca2}
  ca1 = ca1
  ca2 = ca2
  ManualRoots = {}
  GracePeriods = {1}
  MaxBatch = 0
  MaxTime = 3
  k1 = k1
  Keys = {k1}
  Certs <- MCCerts
  country = country
  Fields = {country}
  KR = KR
  Values = {KR}
  NoValue = NoValue
  CrlRoots = {{1}}
  NoCrl = NoCrl
  Domains = {here, elsewhere}
  ThisDomain = here
  Programs = {prog1, prog2}
  FirstProgram = prog1
  FactoryModes = {TRUE, FALSE}
  Addresses = {a1}
  NoAddress = NoAddress
  Deployer = a1
  Candidates = {}
  WalletIndices = {0}
  ProofTimes = {0, 1, 2, 3}
  MaxWallets = 1
  MinDisclosure = {}
  MaxProofAge = 1
  ProverUrls = {NoUrl}
  NoUrl = NoUrl
  NoSlot = NoSlot
  CrlPathsAsClaimed = TRUE
PROPERTIES GrantSound
