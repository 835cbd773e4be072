CONSTANTS
  v1 = v1  v2 = v2  s1 = s1  s2 = s2  s3 = s3
  p1 = p1  p2 = p2  p3 = p3  p4 = p4
  d1 = d1  d2 = d2  d3 = d3  d4 = d4  d5 = d5  sn1 = sn1
  Volumes = {v1, v2}
  Sleds = {s1, s2, s3}
  Pools = {p1, p2, p3, p4}
  Datasets = {d1, d2, d3, d4, d5}
  Snapshots = {sn1}
  NoSnapshot = NoSnapshot
  PoolSled <- MCPoolSled
  DatasetPool <- MCDatasetPool
  TotalSize <- MCTotalSize
  StorageBuffer <- MCStorageBuffer
  NoProvision = {}
  SnapshotDatasets <- MCSnapshotDatasets
  VolumeParams <- MCVolumeParams
  DistinctSleds <- MCDistinctSleds
  Redundancies = {2, 3}
  Width = 8
  MaxRegionSize = 100
  MaxExpunges = 1
SPECIFICATION Spec
INVARIANTS TypeOK PlacementAntiAffinity CapacityBound
PROPERTIES TopUp NoSpuriousFailure
