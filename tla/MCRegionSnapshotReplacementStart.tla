---------------- MODULE MCRegionSnapshotReplacementStart ----------------
(***************************************************************************)
(* Two region snapshots, returned in the order r1, r2: enough for one      *)
(* row's failure to stand in front of the other's.                         *)
(***************************************************************************)
EXTENDS RegionSnapshotReplacementStart

CONSTANTS r1, r2

MCOrder == <<r1, r2>>
=============================================================================
