SPECIFICATION Spec
CONSTANTS
  c1 = c1
  c2 = c2
  c3 = c3
  Calls <- MCTwo
  Gap = 2
  MaxRetries = 1
  Nobody = Nobody
  ann = ann
  bob = bob
  various = various
  Hints <- MCHints
  Releases <- MCReleases
  MaxListed = 3
  Various = various
  NoRelease = NoRelease
INVARIANT TypeOK
INVARIANT LockAccounting
PROPERTY LetGoSpaced
INVARIANT HitSurvives
INVARIANT FailureIsNoMiss
PROPERTY EveryCallEnds
INVARIANT PickIsBest
