CONSTANTS
  d1 = d1  d2 = d2  m1 = m1  p1 = p1  p2 = p2  f1 = f1  f2 = f2
  U2s = {d1, d2}
  M2s = {m1}
  Synthetic = {m1}
  Pools = {p1, p2}
  Firmwares = {f1, f2}
  NoPool = NoPool
  MaxGen = 3
  Configs <- MCConfigs
SPECIFICATION Spec
INVARIANTS TypeOK PublishedCurrent NewestConfigInForce
PROPERTIES SyncResultAccurate
