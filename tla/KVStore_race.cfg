SPECIFICATION Spec
SYMMETRY Symmetry
CONSTANTS
  Keys = {k1}
  Values = {v1, v2}
  Writers = {w1}
  Syncers = {t1, t2}
  NoKey = NoKey
  NoValue = NoValue
  MaxRows = 2
  MaxRemote = 2
  MaxVersion = 3
  MaxTime = 3
INVARIANTS RecordedIsSound
PROPERTIES SyncNeverClobbers
