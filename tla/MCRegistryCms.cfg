SPECIFICATION Spec
CONSTANTS
  Requests = {r1, r2}
  Published = {a0}
  a0 = a0
  Chains = {c1, c2}
  c1 = c1
  Accounts = {alice, bob}
  CaHashes = {ca1}
  MaxAnnouncements = 2
  OwnerTtl = 1
  NoEntry = NoEntry
  NoChain = NoChain
  NoOwner = NoOwner
  InitialEntries <- MCEntries
  Operations = {"update-metadata", "post-announcement", "delete-announcement", "put-ca-guide", "delete-ca-guide"}
  MaxTime = 1
  MaxTransfers = 1
SYMMETRY AllAlike
PROPERTIES OwnerRecently RegisteredChainKept LossOnlyByOverlap
CHECK_DEADLOCK FALSE
