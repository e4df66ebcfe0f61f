SPECIFICATION OwnerSpec
CONSTANTS
  OwnerKinds = {"cas", "settings", "create"}
  None = None
  c1 = c1
  c2 = c2
  c3 = c3
  Cas = {c1, c2, c3}
  Files = {c3}
  NoModal = NoModal
  NoBatch = NoBatch
  InitialLeaves <- MCLeaves
  MaxTxs = 2
  MaxElsewhere = 1
  MaxElsewhereSaves = 1
  MaxFetches = 2
  Forms = {"delegatedProving", "disclosureFilters", "maxProofAge", "typed", "metadata", "caGuide", "announcements"}
  v1 = v1
  Values = {None, v1}
  Unknown = Unknown
  NoTx = NoTx
  a1 = a1
  a2 = a2
  Ids = {a1, a2}
  MaxReads <- MCMaxReads
  MaxSaves <- MCMaxSaves
  MaxCalls = 3
  Native = Native
  e1 = e1
  e2 = e2
  Erc20s = {e1, e2}
  UnitOf <- MCUnitOf
  Charges <- MCCharges
  Limits = {1, 3}
  multi = multi
  Tags = {multi}
  MinWallets <- MCMinWallets
  MaxAttempts = 2
  MaxMoves = 3
INVARIANTS
  ListCatchesUp FormCatchesUp
  PaidAsShown ListedTagsFit OutcomeShown
PROPERTIES RemovalsHitNamed GuideOfListedCaKept UneditedKept
CHECK_DEADLOCK FALSE
