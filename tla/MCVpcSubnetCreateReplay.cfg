CONSTANTS
  b1 = b1
  b2 = b2
  Blocks = {b1, b2}
  CandidateSeqs <- MCCandidateSeqs
  MaxCrashes = 2
  ReplayMayFail = TRUE
  NoSubnet = NoSubnet
SPECIFICATION Spec
\* A finished or stuck saga takes no more steps.
CHECK_DEADLOCK FALSE
INVARIANTS UnwoundCleanSlate
