SPECIFICATION GroundSpec
CONSTANTS
  PartKinds = {"cas", "revoked", "factory"}
  ZeroHash = ZeroHash
  Cas = {ca1, ca2, ca3, ca4, ca5, ca6}
  ManualRoots = {}
  Top = 4
  MaxRevoked = 3
  Accounts = {user, treasury}
  Contracts = {treasury}
  NoAddress = NoAddress
  Deployer = treasury
  Candidates = {user}
  Programs = {prog1, prog2, prog3}
  FirstProgram = prog1
  Implementations = {impl1}
  FirstImplementation = impl1
  Native = Native
  Tokens = {TON}
  Fees = {0, 1, 2}
  MaxValue = 2
  MaxDepth = 2
  MaxRegistries = 2
INVARIANTS
  PathsProveMembership
  HostProofAccepted
  KeyHistory RefundsExact
PROPERTIES LoopTerminates TakenIsUnrevoked
CHECK_DEADLOCK FALSE
