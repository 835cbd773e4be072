CONSTANTS
  r1 = r1  r2 = r2
  RS = {r1, r2}
  Order <- MCOrder
  Broken = {r1}
  NoRS = NoRS
  MaxLocks = 1
SPECIFICATION Spec
PROPERTIES RequestedEventuallyStarted
