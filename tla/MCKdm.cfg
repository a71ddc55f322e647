SPECIFICATION Spec
CONSTANTS
  fa = fa
  fb = fb
  s1 = s1
  s2 = s2
  s3 = s3
  c1 = c1
  c2 = c2
  Facilities = {fa, fb}
  Flm <- MCFlm
  Bookings = {b1}
  Terms = {t1, t2}
  None = None
  Selections = {{s1}, {s1, s2}, {s1, s3}}
  Runs = {r1, r2}
  MaxEdits = 3
  MaxTroubles = 1
INVARIANTS
  KdmTypeOK
  IssuedKeyIsCurrent
  BookedScreensExist
  FeedNeverAheadOfDatabase
PROPERTIES
  OlderFlmOnlyAfterLostState
  FeedCatchesUp
