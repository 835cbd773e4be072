------------------------- MODULE SubnetCreateAtomic -------------------------
(***************************************************************************)
(* What the vpc-subnet-create saga promises its caller, as one atomic      *)
(* step: the request either creates the subnet row, its system route and,  *)
(* when a custom router was given, the link to it, all at once; or it      *)
(* fails and leaves the VPC as it was.  Until then nothing is visible.     *)
(***************************************************************************)
VARIABLES
  wantLink,  \* params.custom_router.is_some()
  outcome,   \* "pending", "created" or "failed"
  exists,    \* the subnet row exists
  routed,    \* the subnet's route in the system router exists
  linked     \* the subnet is linked to the custom router

avars == <<wantLink, outcome, exists, routed, linked>>

Init ==
  /\ wantLink \in BOOLEAN
  /\ outcome = "pending"
  /\ exists = FALSE /\ routed = FALSE /\ linked = FALSE

Commit ==
  /\ outcome = "pending"
  /\ outcome' = "created"
  /\ exists' = TRUE /\ routed' = TRUE
  /\ linked' = wantLink
  /\ UNCHANGED wantLink

Abort ==
  /\ outcome = "pending"
  /\ outcome' = "failed"
  /\ UNCHANGED <<wantLink, exists, routed, linked>>

Spec == Init /\ [][Commit \/ Abort]_avars

=============================================================================
