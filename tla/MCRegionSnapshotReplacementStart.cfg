CONSTANTS
  r1 = r1  r2 = r2
  RS = {r1, r2}
  Order <- MCOrder
  Broken = {}
  NoRS = NoRS
  MaxLocks = 1
SPECIFICATION Spec
INVARIANTS TypeOK FastTrackOnlyWhenGone
PROPERTIES ExpungedEventuallyRequested RequestedEventuallyStarted
