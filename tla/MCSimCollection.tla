-------------------------- MODULE MCSimCollection --------------------------
(***************************************************************************)
(* One disk id, created at most twice, two instances to attach it to, and  *)
(* up to MaxEnsures API calls: enough for an attach to be redirected while *)
(* its task sleeps, for a disk to be destroyed and created again, and for  *)
(* a stale message to reach the task of a destroyed incarnation.           *)
(***************************************************************************)
EXTENDS SimCollection

CONSTANTS i1, a, b
=============================================================================
