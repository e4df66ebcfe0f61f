SPECIFICATION Spec
CONSTANTS
  ZeroHash = ZeroHash
  Cas = {ca1}
  ca1 = ca1
  ManualRoots = {}
  GracePeriods = {}
  MaxBatch = 1
  MaxTime = 3
  k1 = k1
  k2 = k2
  Keys = {k1, k2}
  Certs <- MCCerts
  Fields = {}
  Values = {}
  NoValue = NoValue
  CrlRoots = {}
  NoCrl = NoCrl
  Domains = {here}
  ThisDomain = here
  Programs = {prog}
  FirstProgram = prog
  FactoryModes = {FALSE}
  Addresses = {a1, a2, a3}
  NoAddress = NoAddress
  Deployer = a1
  Candidates = {a2}
  WalletIndices = {0, 1}
  ProofTimes = {0, 1, 2, 3}
  MaxWallets = 1
  MinDisclosure = {}
  MaxProofAge = 1
  ProverUrls = {}
  NoUrl = NoUrl
  NoSlot = NoSlot
  CrlPathsAsClaimed = TRUE
INVARIANTS VerifiedWalletBacked WalletLimit
PROPERTIES SlotLifecycle LiveWalletUndisturbed ImplementsLedger
