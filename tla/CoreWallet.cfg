SPECIFICATION Spec
CONSTANTS
  Tx <- MCTx
  Ins <- MCIns
  Outs <- MCOuts
  Replaceable <- MCReplaceable
  LockHeight <- MCLockHeight
  Gap <- MCGap
  LastIndex = 2
  MaxHeight = 2
  Thread = {"peer", "app"}
  PeerThread = "peer"
  SavedLists <- MCSaved
INVARIANTS TypeOK ListIsSound ConfirmedIsRight AccountIsSound
PROPERTIES DependentsGoFirst
