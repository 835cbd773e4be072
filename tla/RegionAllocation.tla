-------------------------- MODULE RegionAllocation --------------------------
(***************************************************************************)
(* The region allocation query of Nexus                                    *)
(* (nexus/db-queries/src/db/queries/region_allocation.rs, allocation_query)*)
(* as one atomic step against the catalog.  The query is a single SQL      *)
(* statement: a chain of CTEs (old_regions, old_zpool_usage,               *)
(* existing_zpools, existing_sleds, candidate_zpools, candidate_datasets,  *)
(* shuffled_candidate_datasets, candidate_regions, do_insert,              *)
(* inserted_regions, updated_datasets) evaluated by the database as one    *)
(* indivisible unit.  Each CTE is one operator below; Allocate is the      *)
(* whole statement, numeric prelude included.                              *)
(*                                                                         *)
(* Data abstraction: ids are model values; region rows of a volume are the *)
(* set of datasets they live on; the md5(id || seed) orderings, which      *)
(* depend on a seed that defaults to the wall clock, are abstracted to a   *)
(* nondeterministic choice among the rows the ORDER BY ... LIMIT could     *)
(* keep.                                                                   *)
(*                                                                         *)
(* The catalog changes the query does not make (region deletion,         *)
(* expunging a physical disk or a sled, deleting a dataset) are           *)
(* environment actions, modelled from the spec: their code is not part    *)
(* of this source.                                                        *)
(***************************************************************************)
EXTENDS RegionSize, FiniteSetsExt

CONSTANTS
  Volumes,          \* volume ids
  Sleds,            \* sled ids
  Pools,            \* zpool ids
  Datasets,         \* crucible_dataset ids
  Snapshots,        \* snapshot ids with region_snapshot rows
  NoSnapshot,       \* snapshot_id = None
  PoolSled,         \* zpool.sled_id
  DatasetPool,      \* crucible_dataset.pool_id
  TotalSize,        \* latest inv_zpool.total_size of each zpool
  StorageBuffer,    \* zpool.control_plane_storage_buffer
  NoProvision,      \* datasets with crucible_dataset.no_provision = true
  SnapshotDatasets, \* datasets holding a region_snapshot of each snapshot
  VolumeParams,     \* the RegionParameters callers pass for each volume
  DistinctSleds,    \* strategy of each volume's caller: RandomWithDistinctSleds?
  Redundancies,     \* redundancy levels callers request
  MaxExpunges       \* bound on the disks and sleds the environment expunges

ASSUME TopologyAssumption ==
  /\ PoolSled \in [Pools -> Sleds]
  /\ DatasetPool \in [Datasets -> Pools]
  \* crucible_dataset is a table of finitely many rows.
  /\ IsFiniteSet(Datasets)
  /\ NoProvision \subseteq Datasets
  /\ SnapshotDatasets \in [Snapshots -> SUBSET Datasets]
  /\ NoSnapshot \notin Snapshots
ASSUME CapacityAssumption ==
  /\ TotalSize \in [Pools -> Nat]
  /\ StorageBuffer \in [Pools -> Nat]
  /\ \A p \in Pools : StorageBuffer[p] <= TotalSize[p]
ASSUME RequestAssumption ==
  /\ VolumeParams \in [Volumes -> ParamsOver(Nat)]
  /\ DistinctSleds \in [Volumes -> BOOLEAN]
  /\ Redundancies \subseteq Nat \ {0}
  /\ MaxExpunges \in Nat

VARIABLES
  regions,     \* regions[v]: datasets holding a region row of volume v
  sizeUsed,    \* crucible_dataset.size_used (an INT8 column)
  sledActive,  \* sled_policy = 'in_service' AND sled_state = 'active'
  diskActive,  \* physical disk of the zpool in_service and active
  dsDeleted,   \* crucible_dataset.time_deleted IS NOT NULL
  last         \* the call made by the last step and its outcome, or NoCall

vars == <<regions, sizeUsed, sledActive, diskActive, dsDeleted, last>>

None == "None"
\* Outcomes of the query beyond the numeric errors of RegionSize.
InsufficientErrors == {"NotEnoughZpoolSpace", "NotEnoughDatasets",
                       "NotEnoughUniqueZpools"}
\* A LIMIT given a negative value is rejected by the database.
BackendError == "BackendError"
Outcomes == Errors \cup InsufficientErrors \cup {NoError, BackendError}
SnapshotArgs == Snapshots \cup {NoSnapshot}
Calls == [vol : Volumes, snap : SnapshotArgs, r : Redundancies,
          outcome : Outcomes]
NoCall == [vol |-> None, snap |-> None, r |-> 0, outcome |-> None]

MinOf(a, b) == IF a <= b THEN a ELSE b
MaxOf(a, b) == IF a >= b THEN a ELSE b

PoolsOf(D) == {DatasetPool[d] : d \in D}
SledOf(d) == PoolSled[DatasetPool[d]]

\* time_deleted IS NULL AND no_provision = false
Usable(d) == ~dsDeleted[d] /\ d \notin NoProvision

\* old_regions: the region rows of the volume; COUNT(*) of it.
OldCount(v) == Cardinality(regions[v])

\* old_zpool_usage: sum of size_used of the live datasets of a zpool.
PoolUsage(p) ==
  MapThenSumSet(LAMBDA d : sizeUsed[d],
                {d \in Datasets : DatasetPool[d] = p /\ ~dsDeleted[d]})

\* existing_zpools: zpools of the volume's regions, and with a snapshot
\* also the zpools of that snapshot's region_snapshot rows (a UNION).
ExistingZpools(v, snap) ==
  PoolsOf(regions[v])
    \cup (IF snap = NoSnapshot THEN {} ELSE PoolsOf(SnapshotDatasets[snap]))

\* COUNT(*) FROM existing_zpools: without a snapshot the CTE is a plain
\* join with one row per old region; with one, the UNION removes duplicates.
ExistingZpoolCount(v, snap) ==
  IF snap = NoSnapshot THEN OldCount(v)
                       ELSE Cardinality(ExistingZpools(v, snap))

\* existing_sleds
ExistingSleds(v, snap) == {PoolSled[p] : p \in ExistingZpools(v, snap)}

\* Mutants of ZpoolQualifies: the existing_sleds filter dropped; the
\* size_delta left out of the capacity test; the capacity test strict.
ZpoolQualifiesNoSledFilter(v, snap, delta, p) ==
  /\ PoolUsage(p) + delta + StorageBuffer[p] <= TotalSize[p]
  /\ sledActive[PoolSled[p]] /\ diskActive[p]
  /\ p \notin ExistingZpools(v, snap)
ZpoolQualifiesNoDelta(v, snap, delta, p) ==
  /\ PoolUsage(p) + StorageBuffer[p] <= TotalSize[p]
  /\ sledActive[PoolSled[p]] /\ diskActive[p]
  /\ p \notin ExistingZpools(v, snap)
  /\ DistinctSleds[v] => PoolSled[p] \notin ExistingSleds(v, snap)
ZpoolQualifiesStrict(v, snap, delta, p) ==
  /\ PoolUsage(p) + delta + StorageBuffer[p] < TotalSize[p]
  /\ sledActive[PoolSled[p]] /\ diskActive[p]
  /\ p \notin ExistingZpools(v, snap)
  /\ DistinctSleds[v] => PoolSled[p] \notin ExistingSleds(v, snap)

\* The WHERE clause of candidate_zpools for zpool p.
ZpoolQualifies(v, snap, delta, p) ==
  /\ PoolUsage(p) + delta + StorageBuffer[p] <= TotalSize[p]
  /\ sledActive[PoolSled[p]]
  /\ diskActive[p]
  /\ p \notin ExistingZpools(v, snap)
  /\ DistinctSleds[v] => PoolSled[p] \notin ExistingSleds(v, snap)

\* The rows of the candidate_zpools join, one per zpool and usable dataset
\* of it; a row is identified by its dataset.
CandidateRows(v, snap, delta) ==
  {d \in Datasets : Usable(d) /\ ZpoolQualifies(v, snap, delta, DatasetPool[d])}

CandidateZpools(rows) == PoolsOf(rows)

\* COUNT(*) FROM candidate_zpools: rows of the join, or one row per sled
\* under SELECT DISTINCT ON (zpool.sled_id).
CandidateZpoolCount(v, rows) ==
  IF DistinctSleds[v]
    THEN Cardinality({PoolSled[p] : p \in CandidateZpools(rows)})
    ELSE Cardinality(rows)

\* candidate_datasets keeps one dataset per candidate zpool (DISTINCT ON
\* pool_id); under distinct sleds candidate_zpools holds one zpool per sled.
CandidateDatasetCount(v, rows) ==
  IF DistinctSleds[v]
    THEN Cardinality({PoolSled[p] : p \in CandidateZpools(rows)})
    ELSE Cardinality(CandidateZpools(rows))

\* Mutant of CandidateRegionChoices: LIMIT redundancy, the old regions
\* not subtracted.
CandidateRegionChoicesNoTopUp(v, r, rows) ==
  {N \in SUBSET rows :
     /\ \A d1, d2 \in N : d1 # d2 => DatasetPool[d1] # DatasetPool[d2]
     /\ DistinctSleds[v] => \A d1, d2 \in N : d1 # d2 => SledOf(d1) # SledOf(d2)
     /\ Cardinality(N) = MinOf(r, CandidateDatasetCount(v, rows))}

\* candidate_regions: LIMIT (redundancy - COUNT(old_regions)) rows of
\* shuffled_candidate_datasets, itself LIMIT redundancy rows of
\* candidate_datasets.  Any such choice of datasets is one some seed yields.
CandidateRegionChoices(v, r, rows) ==
  {N \in SUBSET rows :
     /\ \A d1, d2 \in N : d1 # d2 => DatasetPool[d1] # DatasetPool[d2]
     /\ DistinctSleds[v] => \A d1, d2 \in N : d1 # d2 => SledOf(d1) # SledOf(d2)
     /\ Cardinality(N) =
          MinOf(r - OldCount(v), MinOf(r, CandidateDatasetCount(v, rows)))}

\* do_insert, its conjuncts evaluated left to right; a failing threshold
\* raises its sentinel, which from_diesel maps to its error.
Verdict(v, snap, r, rows, N) ==
  IF r - OldCount(v) < 0 THEN BackendError
  ELSE IF ~(OldCount(v) < r) THEN NoError
  ELSE IF CandidateZpoolCount(v, rows) + ExistingZpoolCount(v, snap) < r
    THEN "NotEnoughZpoolSpace"
  ELSE IF Cardinality(N) + OldCount(v) < r THEN "NotEnoughDatasets"
  ELSE IF Cardinality(PoolsOf(N \cup regions[v])) < r
    THEN "NotEnoughUniqueZpools"
  ELSE NoError

\* Mutant of Commit: candidate_regions selects the pool_id column of
\* shuffled_candidate_datasets as the region's dataset_id.
CommitPoolAsDataset(v, delta, N) ==
  /\ regions' = [regions EXCEPT ![v] = @ \cup PoolsOf(N)]
  /\ sizeUsed' = [d \in Datasets |->
                    IF d \in N THEN sizeUsed[d] + delta ELSE sizeUsed[d]]

\* inserted_regions and updated_datasets, guarded by do_insert.
Commit(v, delta, N) ==
  /\ regions' = [regions EXCEPT ![v] = @ \cup N]
  /\ sizeUsed' = [d \in Datasets |->
                    IF d \in N THEN sizeUsed[d] + delta ELSE sizeUsed[d]]

(***************************************************************************)
(* allocation_query(volume_id, snapshot_id, params, strategy, redundancy)  *)
(* and the execution of the statement it builds.                          *)
(***************************************************************************)
Allocate(v, snap, r) ==
  LET pre == SizeDelta(VolumeParams[v]) IN
  IF pre.err # NoError
    THEN /\ last' = [vol |-> v, snap |-> snap, r |-> r, outcome |-> pre.err]
         /\ UNCHANGED <<regions, sizeUsed, sledActive, diskActive, dsDeleted>>
    ELSE
      LET delta == pre.delta
          rows == CandidateRows(v, snap, delta)
          choices == CandidateRegionChoices(v, r, rows)
      IN  \E N \in IF choices = {} THEN {{}} ELSE choices :
            LET outcome == Verdict(v, snap, r, rows, N) IN
            /\ last' = [vol |-> v, snap |-> snap, r |-> r, outcome |-> outcome]
            /\ IF outcome = NoError /\ OldCount(v) < r
                 THEN Commit(v, delta, N)
                 ELSE UNCHANGED <<regions, sizeUsed>>
            /\ UNCHANGED <<sledActive, diskActive, dsDeleted>>

(***************************************************************************)
(* Environment (from the spec): region cleanup removes a region and        *)
(* subtracts its reservation; expunging a disk takes its zpool out of      *)
(* service; datasets on expunged disks are soft-deleted.  None of them is  *)
(* a call of the query, so each sets last to NoCall.                       *)
(***************************************************************************)
DeleteRegion(v, d) ==
  /\ d \in regions[v]
  /\ regions' = [regions EXCEPT ![v] = @ \ {d}]
  /\ sizeUsed' = [sizeUsed EXCEPT ![d] = @ - SizeDelta(VolumeParams[v]).delta]
  /\ UNCHANGED <<sledActive, diskActive, dsDeleted>>
  /\ last' = NoCall

Expunged == Cardinality({p \in Pools : ~diskActive[p]})
               + Cardinality({s \in Sleds : ~sledActive[s]})

ExpungeDisk(p) ==
  /\ Expunged < MaxExpunges
  /\ diskActive[p]
  /\ diskActive' = [diskActive EXCEPT ![p] = FALSE]
  /\ UNCHANGED <<regions, sizeUsed, sledActive, dsDeleted>>
  /\ last' = NoCall

ExpungeSled(s) ==
  /\ Expunged < MaxExpunges
  /\ sledActive[s]
  /\ sledActive' = [sledActive EXCEPT ![s] = FALSE]
  /\ UNCHANGED <<regions, sizeUsed, diskActive, dsDeleted>>
  /\ last' = NoCall

DeleteDataset(d) ==
  /\ ~dsDeleted[d]
  /\ ~diskActive[DatasetPool[d]] \/ ~sledActive[SledOf(d)]
  /\ dsDeleted' = [dsDeleted EXCEPT ![d] = TRUE]
  /\ UNCHANGED <<regions, sizeUsed, sledActive, diskActive>>
  /\ last' = NoCall

Init ==
  /\ regions = [v \in Volumes |-> {}]
  /\ sizeUsed = [d \in Datasets |-> 0]
  /\ sledActive = [s \in Sleds |-> TRUE]
  /\ diskActive = [p \in Pools |-> TRUE]
  /\ dsDeleted = [d \in Datasets |-> FALSE]
  /\ last = NoCall

Next ==
  \/ \E v \in Volumes, snap \in SnapshotArgs, r \in Redundancies :
       Allocate(v, snap, r)
  \/ \E v \in Volumes, d \in Datasets : DeleteRegion(v, d)
  \/ \E p \in Pools : ExpungeDisk(p)
  \/ \E s \in Sleds : ExpungeSled(s)
  \/ \E d \in Datasets : DeleteDataset(d)

Spec == Init /\ [][Next]_vars

-----------------------------------------------------------------------------
(* Properties *)

TypeOK ==
  /\ regions \in [Volumes -> SUBSET Datasets]
  /\ sizeUsed \in [Datasets -> Int]
  /\ sledActive \in [Sleds -> BOOLEAN]
  /\ diskActive \in [Pools -> BOOLEAN]
  /\ dsDeleted \in [Datasets -> BOOLEAN]
  /\ last \in Calls \cup {NoCall}

\* Anti-affinity of a volume's regions, old and new alike: no two share a
\* zpool, and for a volume allocated with RandomWithDistinctSleds no two
\* share a sled.  It rests on existing_zpools / existing_sleds excluding
\* what earlier calls placed, on the DISTINCT ON clauses, and on the
\* unique-zpools threshold of do_insert.
PlacementAntiAffinity ==
  \A v \in Volumes : \A d1, d2 \in regions[v] :
    d1 # d2 => /\ DatasetPool[d1] # DatasetPool[d2]
               /\ DistinctSleds[v] => SledOf(d1) # SledOf(d2)

\* The capacity bound: the live size_used of every zpool plus its control
\* plane storage buffer never exceeds its total size, however many calls for
\* different volumes have placed regions on it.
CapacityBound ==
  \A p \in Pools : PoolUsage(p) + StorageBuffer[p] <= TotalSize[p]

\* A step that is a call of the query.
AllocateStep == last' # NoCall

\* Top-up: a successful call leaves the volume with exactly
\* max(existing, redundancy) regions and keeps every existing one.
TopUp ==
  [][AllocateStep /\ last'.outcome = NoError =>
       LET v == last'.vol IN
       /\ regions[v] \subseteq regions'[v]
       /\ Cardinality(regions'[v]) = MaxOf(OldCount(v), last'.r)]_vars

\* The spec's feasibility of a call: a set of usable datasets, on in-service
\* zpools with room for one more region, outside the zpools (and, for
\* distinct sleds, the sleds) of the volume's regions and the snapshot's
\* region snapshots, pairwise on distinct zpools (and sleds), as many as are
\* missing.
Placeable(v, snap, r) ==
  LET delta == SizeDelta(VolumeParams[v]).delta
      excluded == PoolsOf(regions[v])
                    \cup (IF snap = NoSnapshot THEN {}
                          ELSE PoolsOf(SnapshotDatasets[snap]))
  IN  \E N \in SUBSET Datasets :
        /\ Cardinality(N) = r - OldCount(v)
        /\ \A d \in N :
             /\ Usable(d) /\ diskActive[DatasetPool[d]] /\ sledActive[SledOf(d)]
             /\ PoolUsage(DatasetPool[d]) + delta
                  + StorageBuffer[DatasetPool[d]] <= TotalSize[DatasetPool[d]]
             /\ DatasetPool[d] \notin excluded
             /\ DistinctSleds[v] => SledOf(d) \notin {PoolSled[p] : p \in excluded}
        /\ \A d1, d2 \in N : d1 # d2 =>
             /\ DatasetPool[d1] # DatasetPool[d2]
             /\ DistinctSleds[v] => SledOf(d1) # SledOf(d2)

\* No spurious insufficiency: a call fails with NotEnoughZpoolSpace,
\* NotEnoughDatasets or NotEnoughUniqueZpools only when no placement of the
\* missing regions exists.
NoSpuriousFailure ==
  [][AllocateStep /\ last'.outcome \in InsufficientErrors =>
       ~Placeable(last'.vol, last'.snap, last'.r)]_vars

\* The spec's candidate zpools (section 4.2): in-service zpools with room
\* for the region and a usable dataset, outside the existing zpools (and
\* sleds); with distinct sleds, one per sled.
SpecCandidateZpoolCount(v, snap) ==
  LET delta == SizeDelta(VolumeParams[v]).delta
      pools == {p \in Pools :
                  /\ \E d \in Datasets : DatasetPool[d] = p /\ Usable(d)
                  /\ ZpoolQualifies(v, snap, delta, p)}
  IN  IF DistinctSleds[v] THEN Cardinality({PoolSled[p] : p \in pools})
                          ELSE Cardinality(pools)

\* Error classification as the spec states it (section 4.4): a call fails
\* with NotEnoughDatasets only when the candidate zpools and the existing
\* zpools together would meet the redundancy, i.e. when the first
\* threshold, that of NotEnoughZpoolSpace, passed.
DatasetsErrorOnlyWithEnoughZpools ==
  [][AllocateStep /\ last'.outcome = "NotEnoughDatasets" =>
       SpecCandidateZpoolCount(last'.vol, last'.snap)
         + Cardinality(ExistingZpools(last'.vol, last'.snap)) >= last'.r]_vars

\* The spec (section 4.3): when a volume already has at least the
\* requested number of regions the call degenerates to a pure read that
\* returns them; it does not fail.
TargetMetIsPureRead ==
  [][AllocateStep /\ SizeDelta(VolumeParams[last'.vol]).err = NoError
       /\ OldCount(last'.vol) >= last'.r =>
         /\ last'.outcome = NoError
         /\ UNCHANGED <<regions, sizeUsed>>]_vars

=============================================================================
