SPECIFICATION FairSpec
CONSTANTS
  r1 = r1
  r2 = r2
  t1 = t1
  t2 = t2
  b1 = b1
  b2 = b2
  b3 = b3
  None = None
  Requests = {r1, r2}
  Txs = {t1, t2}
  Blocks = {b1, b2, b3}
  Matched <- Matches
  Invs <- Lists
  MaxKnown = 2
CHECK_DEADLOCK FALSE
INVARIANTS TypeOK BlockIsComplete SkippedIsKnown
PROPERTIES KeepsContract DisconnectEnds
