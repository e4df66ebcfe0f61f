SPECIFICATION Spec
CONSTANTS
  Requests = {r1, r2}
  Texts = {t1, t2}
  t1 = t1
  t2 = t2
  SignedAt <- MCSignedAt
  FreshWindow = 1
  Ttl = 1
  GuardKinds = {TRUE, FALSE}
  NoService = NoService
  Pending = Pending
  MaxTime = 1
  MaxCommits = 2
  MaxRestarts = 1
INVARIANTS AcceptedOncePerTtl PrCarriesOwnCommit
PROPERTY UnansweredOnlyByCrash
CHECK_DEADLOCK FALSE
