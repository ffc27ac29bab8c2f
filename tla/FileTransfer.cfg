SPECIFICATION FairSpec
CONSTANTS
  f1 = f1
  f2 = f2
  p1 = p1
  p2 = p2
  mp4 = mp4
  m4a = m4a
  None = None
  Phones = {p1, p2}
  Transfers = {f1, f2}
  Owner <- TwoPhones
  Size <- Sizes
  Exts = {mp4, m4a}
  Ext <- Types
  Chunk = 2
CHECK_DEADLOCK FALSE
INVARIANTS TypeOK ReceivedIsPrefix ShownFromSender
PROPERTIES HandshakeCompletes
