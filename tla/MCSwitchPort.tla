---------------------------- MODULE MCSwitchPort ----------------------------
(***************************************************************************)
(* Two ports on switch0 and one on switch1, two settings ids, two live BGP *)
(* configs with different asns and one that does not exist, and two       *)
(* addresses inside a lot and one outside every lot.                       *)
(***************************************************************************)
EXTENDS SwitchPort, TLC

CONSTANTS q1, q2, q3, sw0, sw1, c1, c2, cx, s1, s2, a1, a2, a3

MCSwitch == (q1 :> sw0) @@ (q2 :> sw0) @@ (q3 :> sw1)
MCAsn == (c1 :> 47) @@ (c2 :> 48)
=============================================================================
