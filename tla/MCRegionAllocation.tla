------------------------- MODULE MCRegionAllocation -------------------------
(***************************************************************************)
(* A small rack for TLC: three sleds, four zpools (two on sled s1, one of  *)
(* them holding two datasets), two volumes allocated with the two          *)
(* strategies, a snapshot with a region snapshot on zpool p3, and          *)
(* capacities such that zpools p1, p2 and p4 fit two regions and p3 one.   *)
(***************************************************************************)
EXTENDS RegionAllocation, TLC

CONSTANTS v1, v2, s1, s2, s3, p1, p2, p3, p4, d1, d2, d3, d4, d5, sn1

MCPoolSled == (p1 :> s1) @@ (p2 :> s1) @@ (p3 :> s2) @@ (p4 :> s3)
MCDatasetPool == (d1 :> p1) @@ (d2 :> p1) @@ (d3 :> p2) @@ (d4 :> p3)
                   @@ (d5 :> p4)
MCTotalSize == (p1 :> 11) @@ (p2 :> 11) @@ (p3 :> 6) @@ (p4 :> 11)
MCStorageBuffer == [p \in {p1, p2, p3, p4} |-> 1]
MCSnapshotDatasets == sn1 :> {d4}
\* 4-byte regions: size_delta 5 with the 25% reservation.
MCVolumeParams ==
  [v \in {v1, v2} |-> [block_size |-> 4, blocks_per_extent |-> 1,
                       extent_count |-> 1]]
MCDistinctSleds == (v1 :> TRUE) @@ (v2 :> FALSE)
=============================================================================
