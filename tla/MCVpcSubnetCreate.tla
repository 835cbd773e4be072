------------------------- MODULE MCVpcSubnetCreate -------------------------
EXTENDS VpcSubnetCreate, TLC

CONSTANTS b1, b2

\* No candidate block, one (not retryable), and two (retryable).
MCCandidateSeqs == {<<>>, <<b1>>, <<b1, b2>>}

=============================================================================
