CONSTANTS
  i1 = i1  a = a  b = b
  Ids = {i1}
  Instances = {a, b}
  NoInst = NoInst
  MaxEnsures = 4
  MaxIncarnations = 2
SPECIFICATION Spec
\* The simulator idles once the API calls stop: every task waits on its
\* channel, which is a legitimate final state.
CHECK_DEADLOCK FALSE
INVARIANTS PokeFindsObject
