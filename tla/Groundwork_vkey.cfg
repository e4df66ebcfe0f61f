SPECIFICATION GroundSpec
CONSTANTS
  PartKinds = {"factory"}
  ZeroHash = ZeroHash
  Cas = {ca1, ca2, ca3, ca4, ca5, ca6}
  ManualRoots = {}
  Top = 4
  MaxRevoked = 3
  Accounts = {user, treasury}
  Contracts = {}
  NoAddress = NoAddress
  Deployer = treasury
  Candidates = {user}
  Programs = {prog1, prog2, prog3}
  FirstProgram = prog1
  Implementations = {impl1}
  FirstImplementation = impl1
  Native = Native
  Tokens = {TON}
  Fees = {0}
  MaxValue = 2
  MaxDepth = 2
  MaxRegistries = 2
INVARIANT DeploymentKeyKept
CHECK_DEADLOCK FALSE
