CONSTANTS
  d1 = d1
  o1 = o1
  i1 = i1
  Drafts <- OneDraft
  Others <- OneOther
  Incoming <- OneIncoming
  MaxChain = 2
  Loose <- OneDraft
  MaxCalls = 2
  NoNonce = 99
SPECIFICATION FairSpec
INVARIANTS TypeOK ListedOnce BlockedFollowChain NonceIsFresh
PROPERTY ListenerCatchesUp
CHECK_DEADLOCK FALSE
