SPECIFICATION FairSpec
CONSTANTS
  Keys = {k1}
  Values = {v1}
  Writers = {w1}
  Syncers = {t1}
  NoKey = NoKey
  NoValue = NoValue
  MaxRows = 2
  MaxRemote = 2
  MaxVersion = 9
  MaxTime = 2
PROPERTIES FlagIsReleased EventuallySynced
