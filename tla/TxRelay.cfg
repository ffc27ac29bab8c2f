SPECIFICATION Spec
SYMMETRY Symmetry
CONSTANTS
  t1 = t1
  t2 = t2
  Peers = {p1, p2}
  Tx = {t1, t2}
  Inputs <- MCInputs
  Sent = {t1, t2}
  Calls = {c1}
  Payments = {t2}
  MaxConnect = 2
  MaxLinks = 2
  MaxNews = 1
  None = None
  Held = {t1}
INVARIANTS TypeOK CallbackOnce AnnouncedIsTimed
PROPERTIES RemovedIsUnclaimed
CHECK_DEADLOCK FALSE
