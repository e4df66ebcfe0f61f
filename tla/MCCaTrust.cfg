SPECIFICATION CaSpec
CONSTANTS
  ZeroHash = ZeroHash
  Cas = {ca1, ca2, ca3}
  ManualRoots = {rootM}
  GracePeriods = {1, 2}
  MaxBatch = 3
  MaxTime = 4
  MaxDisplaced = 3
CONSTRAINT FewDisplaced
SYMMETRY CaSymmetry
INVARIANTS CaListConsistent TrustWindow
PROPERTIES RootFollowsList RemovesTheNamed InFlightRootSurvives
