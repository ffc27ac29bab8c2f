SPECIFICATION ChainSpec
CONSTANTS
  g = g
  a1 = a1
  a2 = a2
  a3 = a3
  a4 = a4
  b3 = b3
  b4 = b4
  b5 = b5
  x4 = x4
  t1 = t1
  p1 = p1
  t2 = t2
  NoBlock = NoBlock
  Block <- Blocks
  Prev <- PrevOf
  Height <- Heights
  Checkpoints = {g}
  Start = g
  Early = {a1}
  Recent = {a3, a4, x4, b3, b4, b5}
  BadTarget = {x4}
  TxOf <- Txs
  Nodes = {p1}
  PeerLast <- Tops
  Interval = 2
  MaxRewinds = 1
CHECK_DEADLOCK FALSE
INVARIANT NewBlockWaits
