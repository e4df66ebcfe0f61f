SPECIFICATION CaSpec
CONSTANTS
  ZeroHash = ZeroHash
  Cas = {ca1, ca2}
  ManualRoots = {}
  GracePeriods = {2, 3}
  MaxBatch = 1
  MaxTime = 4
INVARIANT DefaultGraceApplies
