------------------------ MODULE MCStorageResources ------------------------
(***************************************************************************)
(* Two U.2 disks and one synthetic M.2, two zpool ids, two firmware        *)
(* versions, and three generations: none requested, both U.2s requested,  *)
(* and d1 alone with another zpool id, so that a late config, an           *)
(* unmanaged disk and a zpool id mismatch can all happen.                  *)
(***************************************************************************)
EXTENDS StorageResources, TLC

CONSTANTS d1, d2, m1, p1, p2, f1, f2

MCConfigs ==
  1 :> [id \in {} |-> p1] @@ 2 :> (d1 :> p1 @@ d2 :> p2) @@ 3 :> (d1 :> p2)
=============================================================================
