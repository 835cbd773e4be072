----------------------- MODULE RegionAllocationProofs -----------------------
(***************************************************************************)
(* Proofs about the atomic region allocation query, for every value of the *)
(* constants that satisfies the assumptions of RegionSize and              *)
(* RegionAllocation: type correctness, the anti-affinity of a volume's     *)
(* regions, and the two action properties of a call, top-up and no        *)
(* spurious insufficiency error.  TypeOK /\ PlacementAntiAffinity is       *)
(* inductive: a call only adds datasets outside the zpools (and sleds) of  *)
(* the volume's existing regions, pairwise on distinct zpools (and         *)
(* sleds), and every other step removes regions or leaves them alone.     *)
(***************************************************************************)
EXTENDS RegionAllocation, FiniteSetTheorems, TLAPS

(***************************************************************************)
(* Lemmas about the operators of the query.                                *)
(***************************************************************************)

\* The numeric prelude returns one of its outcomes and a natural size_delta
\* for parameters of natural numbers.
LEMMA SizeDeltaType ==
  ASSUME NEW params \in ParamsOver(Nat)
  PROVE  /\ SizeDelta(params).err \in Errors \cup {NoError}
         /\ SizeDelta(params).delta \in Nat
<1>1. /\ params.block_size \in Nat
      /\ params.blocks_per_extent \in Nat
      /\ params.extent_count \in Nat
  BY DEF ParamsOver
<1>2. params.block_size * params.blocks_per_extent * params.extent_count \in Nat
  BY <1>1
<1>. QED
  BY <1>2 DEF SizeDelta, Result, Errors, NoError

\* do_insert and from_diesel yield one of the query's outcomes.
LEMMA VerdictType ==
  ASSUME NEW v, NEW snap, NEW r, NEW rows, NEW N
  PROVE  Verdict(v, snap, r, rows, N) \in Outcomes
BY DEF Verdict, Outcomes, InsufficientErrors, BackendError, NoError

\* Every dataset a call may place a region on is a candidate row: a usable
\* dataset whose zpool passes the WHERE clause of candidate_zpools.
LEMMA ChoiceInRows ==
  ASSUME NEW v, NEW r, NEW rows,
         NEW N \in CandidateRegionChoices(v, r, rows)
  PROVE  N \subseteq rows
BY DEF CandidateRegionChoices

\* The datasets a call chooses are pairwise on distinct zpools, and on
\* distinct sleds under RandomWithDistinctSleds.
LEMMA ChoicePairwise ==
  ASSUME NEW v, NEW r, NEW rows,
         NEW N \in CandidateRegionChoices(v, r, rows),
         NEW d1 \in N, NEW d2 \in N, d1 # d2
  PROVE  /\ DatasetPool[d1] # DatasetPool[d2]
         /\ DistinctSleds[v] => SledOf(d1) # SledOf(d2)
BY DEF CandidateRegionChoices

\* A candidate row is a dataset outside the zpools of the volume's regions,
\* and under distinct sleds outside their sleds.
LEMMA RowExcluded ==
  ASSUME NEW v, NEW snap, NEW delta,
         NEW d \in CandidateRows(v, snap, delta),
         NEW e \in regions[v]
  PROVE  /\ d \in Datasets
         /\ DatasetPool[d] # DatasetPool[e]
         /\ DistinctSleds[v] => SledOf(d) # SledOf(e)
<1>1. /\ d \in Datasets
      /\ DatasetPool[d] \notin ExistingZpools(v, snap)
      /\ DistinctSleds[v] => PoolSled[DatasetPool[d]] \notin ExistingSleds(v, snap)
  BY DEF CandidateRows, ZpoolQualifies
<1>2. DatasetPool[e] \in ExistingZpools(v, snap)
  BY DEF ExistingZpools, PoolsOf
<1>3. PoolSled[DatasetPool[e]] \in ExistingSleds(v, snap)
  BY <1>2 DEF ExistingSleds
<1>. QED
  BY <1>1, <1>2, <1>3 DEF SledOf

\* The set a call draws its new regions from: a choice of candidate_regions,
\* or no rows at all when no choice exists.
Drawn(v, snap, r, delta) ==
  LET choices == CandidateRegionChoices(v, r, CandidateRows(v, snap, delta))
  IN  IF choices = {} THEN {{}} ELSE choices

\* A call either changes nothing but last, or, when its verdict is Ok and
\* the volume lacks regions, commits a drawn set of datasets.
LEMMA AllocateCases ==
  ASSUME NEW v \in Volumes, NEW snap \in SnapshotArgs, NEW r \in Redundancies,
         Allocate(v, snap, r)
  PROVE  /\ UNCHANGED <<sledActive, diskActive, dsDeleted>>
         /\ last' \in Calls
         /\ \/ UNCHANGED <<regions, sizeUsed>>
            \/ \E N \in Drawn(v, snap, r, SizeDelta(VolumeParams[v]).delta) :
                 /\ SizeDelta(VolumeParams[v]).err = NoError
                 /\ Commit(v, SizeDelta(VolumeParams[v]).delta, N)
<1> DEFINE pre == SizeDelta(VolumeParams[v])
<1>1. pre.err \in Errors \cup {NoError} /\ pre.delta \in Nat
  BY SizeDeltaType, RequestAssumption
<1>2. CASE pre.err # NoError
  BY <1>1, <1>2 DEF Allocate, Calls, Outcomes
<1>3. CASE pre.err = NoError
  <2> DEFINE rows == CandidateRows(v, snap, pre.delta)
             choices == CandidateRegionChoices(v, r, rows)
  <2>1. PICK N \in Drawn(v, snap, r, pre.delta) :
          LET outcome == Verdict(v, snap, r, rows, N) IN
          /\ last' = [vol |-> v, snap |-> snap, r |-> r, outcome |-> outcome]
          /\ IF outcome = NoError /\ OldCount(v) < r
               THEN Commit(v, pre.delta, N)
               ELSE UNCHANGED <<regions, sizeUsed>>
          /\ UNCHANGED <<sledActive, diskActive, dsDeleted>>
    BY <1>3 DEF Allocate, Drawn
  <2>2. Verdict(v, snap, r, rows, N) \in Outcomes
    BY VerdictType
  <2>. QED
    BY <1>3, <2>1, <2>2 DEF Calls
<1>. QED
  BY <1>2, <1>3

\* A drawn set is a set of candidate rows.
LEMMA DrawnInRows ==
  ASSUME NEW v, NEW snap, NEW r, NEW delta,
         NEW N \in Drawn(v, snap, r, delta)
  PROVE  N \subseteq CandidateRows(v, snap, delta)
BY ChoiceInRows DEF Drawn

(***************************************************************************)
(* Type correctness.                                                       *)
(***************************************************************************)

\* Every step of the query or of the catalog keeps the state well typed.
LEMMA TypeStep == TypeOK /\ [Next]_vars => TypeOK'
<1> SUFFICES ASSUME TypeOK, [Next]_vars PROVE TypeOK'
  OBVIOUS
<1>1. ASSUME NEW v \in Volumes, NEW snap \in SnapshotArgs,
             NEW r \in Redundancies, Allocate(v, snap, r)
      PROVE  TypeOK'
  <2> DEFINE delta == SizeDelta(VolumeParams[v]).delta
  <2>1. delta \in Nat
    BY SizeDeltaType, RequestAssumption
  <2>2. CASE UNCHANGED <<regions, sizeUsed>>
    BY <1>1, <2>2, AllocateCases DEF TypeOK
  <2>3. ASSUME NEW N \in Drawn(v, snap, r, delta), Commit(v, delta, N)
        PROVE  TypeOK'
    <3>1. N \subseteq Datasets
      BY DrawnInRows DEF CandidateRows
    <3>. QED
      BY <1>1, <2>1, <2>3, <3>1, AllocateCases DEF TypeOK, Commit
  <2>. QED
    BY <1>1, <2>2, <2>3, AllocateCases
<1>2. ASSUME NEW v \in Volumes, NEW d \in Datasets, DeleteRegion(v, d)
      PROVE  TypeOK'
  <2>1. SizeDelta(VolumeParams[v]).delta \in Nat
    BY SizeDeltaType, RequestAssumption
  <2>. QED
    BY <1>2, <2>1 DEF DeleteRegion, TypeOK, NoCall
<1>3. ASSUME NEW p \in Pools, ExpungeDisk(p) PROVE TypeOK'
  BY <1>3 DEF ExpungeDisk, TypeOK, NoCall
<1>4. ASSUME NEW s \in Sleds, ExpungeSled(s) PROVE TypeOK'
  BY <1>4 DEF ExpungeSled, TypeOK, NoCall
<1>5. ASSUME NEW d \in Datasets, DeleteDataset(d) PROVE TypeOK'
  BY <1>5 DEF DeleteDataset, TypeOK, NoCall
<1>6. CASE UNCHANGED vars
  BY <1>6 DEF vars, TypeOK
<1>. QED
  BY <1>1, <1>2, <1>3, <1>4, <1>5, <1>6 DEF Next

\* Every state the query and the catalog changes reach is well typed:
\* region rows of each volume are datasets, size_used is an integer, and
\* the last call recorded carries one of the query's outcomes.
THEOREM TypeCorrect == Spec => []TypeOK
<1>1. Init => TypeOK
  BY DEF Init, TypeOK, NoCall
<1>2. TypeOK /\ [Next]_vars => TypeOK'
  BY TypeStep
<1>. QED
  BY <1>1, <1>2, PTL DEF Spec

(***************************************************************************)
(* Anti-affinity.                                                          *)
(***************************************************************************)

\* The inductive invariant: anti-affinity holds of well-typed states.
IInv == TypeOK /\ PlacementAntiAffinity

\* A commit keeps anti-affinity: the new regions are candidate rows, so
\* they avoid the zpools and sleds of the old ones, and a drawn set is
\* pairwise on distinct zpools and sleds.
LEMMA CommitAntiAffinity ==
  ASSUME TypeOK, PlacementAntiAffinity,
         NEW v \in Volumes, NEW snap, NEW r, NEW delta,
         NEW N \in Drawn(v, snap, r, delta),
         Commit(v, delta, N)
  PROVE  PlacementAntiAffinity'
<1> SUFFICES ASSUME NEW w \in Volumes, NEW d1 \in regions'[w],
                    NEW d2 \in regions'[w], d1 # d2
             PROVE  /\ DatasetPool[d1] # DatasetPool[d2]
                    /\ DistinctSleds[w] => SledOf(d1) # SledOf(d2)
  BY DEF PlacementAntiAffinity
<1>1. CASE w # v
  BY <1>1 DEF Commit, PlacementAntiAffinity, TypeOK
<1>2. CASE w = v
  <2>1. regions'[v] = regions[v] \cup N
    BY DEF Commit, TypeOK
  <2>2. CASE d1 \in regions[v] /\ d2 \in regions[v]
    BY <1>2, <2>2 DEF PlacementAntiAffinity
  <2>3. CASE d1 \in N /\ d2 \in N
    <3>1. N \in CandidateRegionChoices(v, r, CandidateRows(v, snap, delta))
      BY <2>3 DEF Drawn
    <3>. QED
      BY <1>2, <2>3, <3>1, ChoicePairwise
  <2>4. CASE d1 \in N /\ d2 \in regions[v]
    BY <1>2, <2>4, DrawnInRows, RowExcluded
  <2>5. CASE d1 \in regions[v] /\ d2 \in N
    BY <1>2, <2>5, DrawnInRows, RowExcluded
  <2>. QED
    BY <1>2, <2>1, <2>2, <2>3, <2>4, <2>5
<1>. QED
  BY <1>1, <1>2

\* No two regions of a volume share a zpool, and no two regions of a volume
\* allocated with RandomWithDistinctSleds share a sled, across any sequence
\* of allocation calls (top-ups included), region deletions, expungements
\* and dataset deletions.
THEOREM AntiAffinity == Spec => []PlacementAntiAffinity
<1>1. Init => IInv
  BY DEF Init, IInv, TypeOK, NoCall, PlacementAntiAffinity
<1>2. IInv /\ [Next]_vars => IInv'
  <2> SUFFICES ASSUME IInv, [Next]_vars PROVE IInv'
    OBVIOUS
  <2>0. TypeOK'
    BY TypeStep DEF IInv
  <2>1. ASSUME NEW v \in Volumes, NEW snap \in SnapshotArgs,
               NEW r \in Redundancies, Allocate(v, snap, r)
        PROVE  PlacementAntiAffinity'
    <3>1. CASE UNCHANGED <<regions, sizeUsed>>
      BY <3>1 DEF PlacementAntiAffinity, IInv
    <3>2. ASSUME NEW N \in Drawn(v, snap, r, SizeDelta(VolumeParams[v]).delta),
                 Commit(v, SizeDelta(VolumeParams[v]).delta, N)
          PROVE  PlacementAntiAffinity'
      BY <3>2, CommitAntiAffinity DEF IInv
    <3>. QED
      BY <2>1, <3>1, <3>2, AllocateCases
  <2>2. ASSUME NEW v \in Volumes, NEW d \in Datasets, DeleteRegion(v, d)
        PROVE  PlacementAntiAffinity'
    BY <2>2 DEF DeleteRegion, PlacementAntiAffinity, IInv, TypeOK
  <2>3. ASSUME UNCHANGED regions PROVE PlacementAntiAffinity'
    BY <2>3 DEF PlacementAntiAffinity, IInv
  <2>4. PlacementAntiAffinity'
    BY <2>1, <2>2, <2>3 DEF Next, vars, ExpungeDisk, ExpungeSled,
                            DeleteDataset
  <2>. QED
    BY <2>0, <2>4 DEF IInv
<1>3. IInv => PlacementAntiAffinity
  BY DEF IInv
<1>. QED
  BY <1>1, <1>2, <1>3, PTL DEF Spec


(***************************************************************************)
(* Top-up.                                                                 *)
(***************************************************************************)

\* The step form of TopUp: a successful call keeps the volume's regions and
\* leaves it with max(existing, redundancy) of them.
TopUpStep ==
  AllocateStep /\ last'.outcome = NoError =>
    LET v == last'.vol IN
    /\ regions[v] \subseteq regions'[v]
    /\ Cardinality(regions'[v]) = MaxOf(OldCount(v), last'.r)

\* The region rows of a volume are finitely many.
LEMMA RegionsFinite ==
  ASSUME TypeOK, NEW v \in Volumes
  PROVE  /\ IsFiniteSet(regions[v])
         /\ OldCount(v) \in Nat
<1>1. IsFiniteSet(regions[v])
  BY FS_Subset, TopologyAssumption DEF TypeOK
<1>. QED
  BY <1>1, FS_CardinalityType DEF OldCount

\* A drawn set holds no more than the regions the volume lacks: a choice
\* of candidate_regions is LIMIT (redundancy - COUNT(old_regions)) rows,
\* and with no choice nothing is drawn.
LEMMA DrawnAtMostMissing ==
  ASSUME TypeOK, NEW v \in Volumes, NEW snap, NEW r \in Nat, NEW delta,
         OldCount(v) < r,
         NEW N \in Drawn(v, snap, r, delta)
  PROVE  /\ IsFiniteSet(N)
         /\ Cardinality(N) <= r - OldCount(v)
<1>1. IsFiniteSet(N)
  BY DrawnInRows, FS_Subset, TopologyAssumption DEF CandidateRows
<1>2. OldCount(v) \in Nat
  BY RegionsFinite
<1>3. CASE N \in CandidateRegionChoices(v, r, CandidateRows(v, snap, delta))
  <2>1. Cardinality(N) =
          MinOf(r - OldCount(v),
                MinOf(r, CandidateDatasetCount(v, CandidateRows(v, snap, delta))))
    BY <1>3 DEF CandidateRegionChoices
  <2>. QED
    BY <1>1, <1>2, <2>1, FS_CardinalityType DEF MinOf
<1>4. CASE N = {}
  BY <1>2, <1>4, FS_EmptySet
<1>. QED
  BY <1>1, <1>3, <1>4 DEF Drawn

\* A drawn set shares no dataset with the volume's regions: its rows lie
\* outside the zpools of the existing regions.
LEMMA DrawnDisjoint ==
  ASSUME NEW v, NEW snap, NEW r, NEW delta, NEW N \in Drawn(v, snap, r, delta)
  PROVE  N \cap regions[v] = {}
BY DrawnInRows, RowExcluded

\* A call whose verdict is Ok leaves the volume with max(existing,
\* redundancy) regions, the existing ones among them.
LEMMA AllocateTopUp ==
  ASSUME TypeOK, NEW v \in Volumes, NEW snap \in SnapshotArgs,
         NEW r \in Redundancies, Allocate(v, snap, r),
         last'.outcome = NoError
  PROVE  /\ regions[v] \subseteq regions'[v]
         /\ Cardinality(regions'[v]) = MaxOf(OldCount(v), r)
<1> DEFINE pre == SizeDelta(VolumeParams[v])
           rows == CandidateRows(v, snap, pre.delta)
<1>1. pre.err \in Errors \cup {NoError} /\ pre.delta \in Nat
  BY SizeDeltaType, RequestAssumption
<1>2. pre.err = NoError
  BY <1>1 DEF Allocate, Errors, NoError
<1>3. PICK N \in Drawn(v, snap, r, pre.delta) :
        /\ last' = [vol |-> v, snap |-> snap, r |-> r,
                    outcome |-> Verdict(v, snap, r, rows, N)]
        /\ IF Verdict(v, snap, r, rows, N) = NoError /\ OldCount(v) < r
             THEN Commit(v, pre.delta, N)
             ELSE UNCHANGED <<regions, sizeUsed>>
  BY <1>2 DEF Allocate, Drawn
<1>4. Verdict(v, snap, r, rows, N) = NoError
  BY <1>3
<1>5. r \in Nat /\ OldCount(v) \in Nat /\ IsFiniteSet(regions[v])
  BY RegionsFinite, RequestAssumption
<1>6. CASE ~(OldCount(v) < r)
  <2>1. regions' = regions
    BY <1>3, <1>6
  <2>. QED
    BY <1>5, <1>6, <2>1 DEF MaxOf, OldCount
<1>7. CASE OldCount(v) < r
  <2>1. regions'[v] = regions[v] \cup N
    BY <1>3, <1>4, <1>7 DEF Commit, TypeOK
  <2>2. IsFiniteSet(N) /\ Cardinality(N) <= r - OldCount(v)
    BY <1>5, <1>7, DrawnAtMostMissing
  <2>3. Cardinality(N) + OldCount(v) >= r
    <3>1. Cardinality(N) \in Nat
      BY <2>2, FS_CardinalityType
    <3>. QED
      BY <1>4, <1>5, <1>7, <3>1 DEF Verdict, BackendError, NoError
  <2>4. Cardinality(regions[v] \cup N) = OldCount(v) + Cardinality(N)
    <3>1. regions[v] \cap N = {}
      BY DrawnDisjoint
    <3>2. Cardinality(regions[v] \cap N) = 0
      BY <3>1, FS_EmptySet
    <3>3. Cardinality(regions[v] \cup N) =
            Cardinality(regions[v]) + Cardinality(N) - Cardinality(regions[v] \cap N)
      BY <1>5, <2>2, FS_Union
    <3>4. Cardinality(N) \in Nat
      BY <2>2, FS_CardinalityType
    <3>. QED
      BY <1>5, <3>2, <3>3, <3>4 DEF OldCount
  <2>. QED
    BY <1>5, <1>7, <2>1, <2>2, <2>3, <2>4, FS_CardinalityType DEF MaxOf
<1>. QED
  BY <1>6, <1>7

\* Every step keeps the step form of TopUp: only a call records a call in
\* last, and every other step of the catalog sets it to NoCall.
LEMMA TopUpStepHolds == TypeOK /\ [Next]_vars => [TopUpStep]_vars
<1> SUFFICES ASSUME TypeOK, [Next]_vars PROVE [TopUpStep]_vars
  OBVIOUS
<1>1. ASSUME NEW v \in Volumes, NEW snap \in SnapshotArgs,
             NEW r \in Redundancies, Allocate(v, snap, r)
      PROVE  TopUpStep
  <2>1. last'.vol = v /\ last'.r = r
    <3>1. CASE SizeDelta(VolumeParams[v]).err # NoError
      BY <1>1, <3>1 DEF Allocate
    <3>2. CASE SizeDelta(VolumeParams[v]).err = NoError
      BY <1>1, <3>2 DEF Allocate
    <3>. QED
      BY <3>1, <3>2
  <2>. QED
    BY <1>1, <2>1, AllocateTopUp DEF TopUpStep
<1>2. ASSUME ~\E v \in Volumes, snap \in SnapshotArgs, r \in Redundancies :
                 Allocate(v, snap, r)
      PROVE  [TopUpStep]_vars
  <2>1. last' = NoCall \/ UNCHANGED vars
    BY <1>2 DEF Next, DeleteRegion, ExpungeDisk, ExpungeSled, DeleteDataset
  <2>2. CASE last' = NoCall
    BY <2>2 DEF TopUpStep, AllocateStep
  <2>3. CASE UNCHANGED vars
    BY <2>3
  <2>. QED
    BY <2>1, <2>2, <2>3
<1>. QED
  BY <1>1, <1>2

\* A successful allocation_query call is a top-up: it keeps every region
\* the volume had and leaves it with exactly max(existing, redundancy)
\* regions, whatever calls, region deletions, expungements and dataset
\* deletions came before it.
THEOREM TopUpCorrect == Spec => TopUp
<1>1. TypeOK /\ [Next]_vars => [TopUpStep]_vars
  BY TopUpStepHolds
<1>. QED
  BY TypeCorrect, <1>1, PTL DEF Spec, TopUp, TopUpStep


(***************************************************************************)
(* No spurious failure.                                                    *)
(***************************************************************************)

\* The image of a finite set under a function is finite and no larger.
LEMMA ImageFinite ==
  ASSUME NEW S, IsFiniteSet(S), NEW f, S \subseteq DOMAIN f
  PROVE  /\ IsFiniteSet({f[x] : x \in S})
         /\ Cardinality({f[x] : x \in S}) <= Cardinality(S)
<1>1. [x \in S |-> f[x]] \in Surjection(S, {f[x] : x \in S})
  BY DEF Surjection
<1>. QED
  BY <1>1, FS_Surjection

\* The image of a finite set under a function injective on it has as many
\* elements as the set.
LEMMA InjectiveImage ==
  ASSUME NEW S, IsFiniteSet(S), NEW f, S \subseteq DOMAIN f,
         \A x, y \in S : x # y => f[x] # f[y]
  PROVE  /\ IsFiniteSet({f[x] : x \in S})
         /\ Cardinality({f[x] : x \in S}) = Cardinality(S)
<1>1. [x \in S |-> f[x]] \in Surjection(S, {f[x] : x \in S})
  BY DEF Surjection
<1>2. [x \in S |-> f[x]] \in Injection(S, {f[x] : x \in S})
  BY DEF Injection, IsInjective
<1>. QED
  BY <1>1, <1>2, FS_Surjection

\* The sleds of the zpools of datasets pairwise on distinct sleds are as
\* many as the datasets.
LEMMA SledsOfPairwise ==
  ASSUME NEW M \in SUBSET Datasets, IsFiniteSet(M),
         \A d1, d2 \in M : d1 # d2 => SledOf(d1) # SledOf(d2)
  PROVE  /\ IsFiniteSet({PoolSled[p] : p \in PoolsOf(M)})
         /\ Cardinality({PoolSled[p] : p \in PoolsOf(M)}) = Cardinality(M)
<1>0. PICK sl : sl = [d \in Datasets |-> SledOf(d)]
  BY Zenon
<1>2. \A x \in M : sl[x] = SledOf(x)
  BY <1>0
<1>1. {PoolSled[p] : p \in PoolsOf(M)} = {sl[d] : d \in M}
  <2>1. ASSUME NEW x \in {PoolSled[p] : p \in PoolsOf(M)}
        PROVE  x \in {sl[d] : d \in M}
    BY <1>2 DEF PoolsOf, SledOf
  <2>2. ASSUME NEW x \in {sl[d] : d \in M}
        PROVE  x \in {PoolSled[p] : p \in PoolsOf(M)}
    BY <1>2 DEF PoolsOf, SledOf
  <2>. QED
    BY <2>1, <2>2
<1>3. \A x, y \in M : x # y => sl[x] # sl[y]
  BY <1>2
<1>4. M \subseteq DOMAIN sl
  BY <1>0
<1>5. /\ IsFiniteSet({sl[d] : d \in M})
      /\ Cardinality({sl[d] : d \in M}) = Cardinality(M)
  BY <1>3, <1>4, InjectiveImage
<1>. QED
  BY <1>1, <1>5, Zenon


\* Datasets pairwise on distinct zpools (and, under distinct sleds, on
\* distinct sleds): the shape of a placement and of a drawn set.
Pairwise(v, M) ==
  \A d1, d2 \in M : d1 # d2 => /\ DatasetPool[d1] # DatasetPool[d2]
                               /\ DistinctSleds[v] => SledOf(d1) # SledOf(d2)

\* Both counts of candidate_zpools and candidate_datasets are at least the
\* size of any pairwise placement among the candidate rows: the zpools (or
\* sleds) of its datasets are distinct, and each is one of the counted.
LEMMA CountsCoverPlacement ==
  ASSUME NEW v \in Volumes, NEW rows \in SUBSET Datasets,
         NEW M \in SUBSET rows, Pairwise(v, M)
  PROVE  /\ IsFiniteSet(M)
         /\ CandidateDatasetCount(v, rows) \in Nat
         /\ CandidateZpoolCount(v, rows) \in Nat
         /\ CandidateDatasetCount(v, rows) >= Cardinality(M)
         /\ CandidateZpoolCount(v, rows) >= Cardinality(M)
<1>1. IsFiniteSet(rows) /\ IsFiniteSet(M)
  BY FS_Subset, TopologyAssumption
<1>2. /\ IsFiniteSet(PoolsOf(rows))
      /\ PoolsOf(M) \subseteq PoolsOf(rows)
      /\ PoolsOf(rows) \subseteq Pools
  <2>1. IsFiniteSet({DatasetPool[d] : d \in rows})
    BY <1>1, ImageFinite, TopologyAssumption
  <2>. QED
    BY <2>1, TopologyAssumption DEF PoolsOf
<1>3. Cardinality(M) \in Nat
  BY <1>1, FS_CardinalityType
<1>4. CASE DistinctSleds[v]
  <2> DEFINE Have == {PoolSled[p] : p \in PoolsOf(M)}
             All == {PoolSled[p] : p \in PoolsOf(rows)}
  <2>1. IsFiniteSet(Have) /\ Cardinality(Have) = Cardinality(M)
    BY <1>1, <1>4, SledsOfPairwise DEF Pairwise
  <2>2. IsFiniteSet(All)
    BY <1>2, ImageFinite, TopologyAssumption
  <2>3. Have \subseteq All
    BY <1>2
  <2>4. Cardinality(All) >= Cardinality(M) /\ Cardinality(All) \in Nat
    BY <2>1, <2>2, <2>3, FS_Subset, FS_CardinalityType
  <2>. QED
    BY <1>1, <1>4, <2>4 DEF CandidateDatasetCount, CandidateZpoolCount,
                             CandidateZpools
<1>5. CASE ~DistinctSleds[v]
  <2>1. Cardinality(rows) >= Cardinality(M) /\ Cardinality(rows) \in Nat
    BY <1>1, FS_Subset, FS_CardinalityType
  <2>2. IsFiniteSet(PoolsOf(M)) /\ Cardinality(PoolsOf(M)) = Cardinality(M)
    <3>1. \A x, y \in M : x # y => DatasetPool[x] # DatasetPool[y]
      BY DEF Pairwise
    <3>. QED
      BY <1>1, <3>1, InjectiveImage, TopologyAssumption DEF PoolsOf
  <2>3. Cardinality(PoolsOf(rows)) >= Cardinality(M)
        /\ Cardinality(PoolsOf(rows)) \in Nat
    BY <1>2, <2>2, FS_Subset, FS_CardinalityType
  <2>. QED
    BY <1>1, <1>5, <2>1, <2>3 DEF CandidateDatasetCount, CandidateZpoolCount,
                                  CandidateZpools
<1>. QED
  BY <1>1, <1>4, <1>5

\* COUNT(*) FROM existing_zpools counts at least the volume's regions: with
\* a snapshot the UNION keeps the zpools of the regions, which are distinct
\* by anti-affinity.
LEMMA ExistingCoversOld ==
  ASSUME TypeOK, PlacementAntiAffinity, NEW v \in Volumes,
         NEW snap \in SnapshotArgs
  PROVE  /\ ExistingZpoolCount(v, snap) \in Nat
         /\ ExistingZpoolCount(v, snap) >= OldCount(v)
<1>1. IsFiniteSet(regions[v]) /\ OldCount(v) \in Nat
  BY RegionsFinite
<1>2. CASE snap = NoSnapshot
  BY <1>1, <1>2 DEF ExistingZpoolCount
<1>3. CASE snap # NoSnapshot
  <2>1. snap \in Snapshots
    BY <1>3 DEF SnapshotArgs
  <2>2. regions[v] \subseteq Datasets /\ SnapshotDatasets[snap] \subseteq Datasets
    BY <2>1, TopologyAssumption DEF TypeOK
  <2>3. IsFiniteSet(PoolsOf(regions[v]))
        /\ Cardinality(PoolsOf(regions[v])) = OldCount(v)
    <3>1. \A x, y \in regions[v] : x # y => DatasetPool[x] # DatasetPool[y]
      BY DEF PlacementAntiAffinity
    <3>. QED
      BY <1>1, <2>2, <3>1, InjectiveImage, TopologyAssumption
         DEF PoolsOf, OldCount
  <2>4. IsFiniteSet(PoolsOf(SnapshotDatasets[snap]))
    <3>1. IsFiniteSet(SnapshotDatasets[snap])
      BY <2>2, FS_Subset, TopologyAssumption
    <3>. QED
      BY <2>2, <3>1, ImageFinite, TopologyAssumption DEF PoolsOf
  <2>5. ExistingZpools(v, snap)
          = PoolsOf(regions[v]) \cup PoolsOf(SnapshotDatasets[snap])
    BY <1>3 DEF ExistingZpools
  <2>6. IsFiniteSet(ExistingZpools(v, snap))
    <3>1. IsFiniteSet(PoolsOf(regions[v]) \cup PoolsOf(SnapshotDatasets[snap]))
      BY <2>3, <2>4, FS_Union, Zenon
    <3>. QED
      BY <2>5, <3>1, Zenon
  <2>7. Cardinality(ExistingZpools(v, snap)) >= Cardinality(PoolsOf(regions[v]))
        /\ Cardinality(ExistingZpools(v, snap)) \in Nat
    BY <2>5, <2>6, FS_Subset, FS_CardinalityType
  <2>. QED
    BY <1>3, <2>3, <2>7 DEF ExistingZpoolCount
<1>. QED
  BY <1>2, <1>3


\* A placement of the spec is a set of candidate rows: its conditions are
\* the WHERE clause of candidate_zpools and the usability of the dataset.
LEMMA PlacementRows ==
  ASSUME NEW v \in Volumes, NEW snap, NEW r, Placeable(v, snap, r)
  PROVE  \E M \in SUBSET CandidateRows(v, snap, SizeDelta(VolumeParams[v]).delta) :
           /\ Cardinality(M) = r - OldCount(v)
           /\ Pairwise(v, M)
<1> DEFINE delta == SizeDelta(VolumeParams[v]).delta
<1>1. PICK M \in SUBSET Datasets :
        /\ Cardinality(M) = r - OldCount(v)
        /\ \A d \in M :
             /\ Usable(d) /\ diskActive[DatasetPool[d]] /\ sledActive[SledOf(d)]
             /\ PoolUsage(DatasetPool[d]) + delta
                  + StorageBuffer[DatasetPool[d]] <= TotalSize[DatasetPool[d]]
             /\ DatasetPool[d] \notin ExistingZpools(v, snap)
             /\ DistinctSleds[v] =>
                  SledOf(d) \notin {PoolSled[p] : p \in ExistingZpools(v, snap)}
        /\ Pairwise(v, M)
  BY DEF Placeable, ExistingZpools, PoolsOf, Pairwise
<1>2. M \subseteq CandidateRows(v, snap, delta)
  BY <1>1 DEF CandidateRows, ZpoolQualifies, ExistingSleds, SledOf
<1>. QED
  BY <1>1, <1>2

\* The regions of a volume after a commit are on as many distinct zpools as
\* there are of them: a drawn set is pairwise, the old regions are by
\* anti-affinity, and the two avoid each other's zpools.
LEMMA CommitZpoolsDistinct ==
  ASSUME TypeOK, PlacementAntiAffinity, NEW v \in Volumes, NEW snap, NEW r,
         NEW delta, NEW N \in Drawn(v, snap, r, delta)
  PROVE  /\ IsFiniteSet(N \cup regions[v])
         /\ Cardinality(PoolsOf(N \cup regions[v])) = Cardinality(N \cup regions[v])
<1> DEFINE S == N \cup regions[v]
<1>1. S \subseteq Datasets /\ IsFiniteSet(S)
  BY DrawnInRows, FS_Subset, TopologyAssumption DEF CandidateRows, TypeOK
<1>2. \A x, y \in N : x # y => DatasetPool[x] # DatasetPool[y]
  BY ChoicePairwise DEF Drawn
<1>3. \A x, y \in regions[v] : x # y => DatasetPool[x] # DatasetPool[y]
  BY DEF PlacementAntiAffinity
<1>4. \A x \in N, y \in regions[v] : DatasetPool[x] # DatasetPool[y]
  BY DrawnInRows, RowExcluded
<1>5. \A x, y \in S : x # y => DatasetPool[x] # DatasetPool[y]
  BY <1>2, <1>3, <1>4
<1>6. S \subseteq DOMAIN DatasetPool
  BY <1>1, TopologyAssumption
<1>7. Cardinality({DatasetPool[x] : x \in S}) = Cardinality(S)
  BY <1>1, <1>5, <1>6, InjectiveImage
<1>. QED
  BY <1>1, <1>7, Zenon DEF PoolsOf


\* The arithmetic of do_insert's thresholds once the counts cover a
\* placement of the r - old missing regions.
LEMMA CountArith ==
  ASSUME NEW r \in Nat, NEW old \in Nat, NEW m \in Nat, NEW cdc \in Nat,
         NEW czc \in Nat, NEW ezc \in Nat,
         old < r, m = r - old, cdc >= m, czc >= m, ezc >= old
  PROVE  /\ MinOf(r - old, MinOf(r, cdc)) = r - old
         /\ ~(r - old < 0)
         /\ ~(czc + ezc < r)
         /\ ~((r - old) + old < r)
         /\ (r - old) + old - 0 = r
         /\ ~(r < r)
BY DEF MinOf

\* A call for which the spec's placement exists does not fail for want of
\* zpools or datasets: the placement is itself a choice of
\* candidate_regions, so a choice exists, every drawn set is as large, and
\* all three thresholds of do_insert pass.
LEMMA PlaceableNotInsufficient ==
  ASSUME TypeOK, PlacementAntiAffinity, NEW v \in Volumes,
         NEW snap \in SnapshotArgs, NEW r \in Redundancies,
         Allocate(v, snap, r), Placeable(v, snap, r)
  PROVE  last'.outcome \notin InsufficientErrors
<1> DEFINE pre == SizeDelta(VolumeParams[v])
           rows == CandidateRows(v, snap, pre.delta)
           choices == CandidateRegionChoices(v, r, rows)
<1>1. pre.err \in Errors \cup {NoError}
  BY SizeDeltaType, RequestAssumption
<1>2. CASE pre.err # NoError
  BY <1>1, <1>2 DEF Allocate, Errors, InsufficientErrors
<1>3. CASE pre.err = NoError
  <2>1. PICK N \in Drawn(v, snap, r, pre.delta) :
          last' = [vol |-> v, snap |-> snap, r |-> r,
                   outcome |-> Verdict(v, snap, r, rows, N)]
    BY <1>3 DEF Allocate, Drawn
  <2>2. PICK M \in SUBSET rows : Cardinality(M) = r - OldCount(v) /\ Pairwise(v, M)
    BY PlacementRows
  <2>3. r \in Nat /\ OldCount(v) \in Nat /\ IsFiniteSet(regions[v])
    BY RegionsFinite, RequestAssumption
  <2>4. CASE ~(OldCount(v) < r)
    BY <2>1, <2>4 DEF Verdict, BackendError, NoError, InsufficientErrors
  <2>5. CASE OldCount(v) < r
    <3>1. /\ IsFiniteSet(M)
          /\ CandidateDatasetCount(v, rows) \in Nat
          /\ CandidateZpoolCount(v, rows) \in Nat
          /\ CandidateDatasetCount(v, rows) >= Cardinality(M)
          /\ CandidateZpoolCount(v, rows) >= Cardinality(M)
      <4>1. rows \subseteq Datasets
        BY DEF CandidateRows
      <4>. QED
        BY <2>2, <4>1, CountsCoverPlacement
    <3>2. Cardinality(M) \in Nat
      BY <3>1, FS_CardinalityType
    <3>3. ExistingZpoolCount(v, snap) \in Nat
          /\ ExistingZpoolCount(v, snap) >= OldCount(v)
      BY ExistingCoversOld
    <3>4. /\ MinOf(r - OldCount(v), MinOf(r, CandidateDatasetCount(v, rows)))
               = r - OldCount(v)
          /\ ~(r - OldCount(v) < 0)
          /\ ~(CandidateZpoolCount(v, rows) + ExistingZpoolCount(v, snap) < r)
          /\ ~((r - OldCount(v)) + OldCount(v) < r)
          /\ (r - OldCount(v)) + OldCount(v) - 0 = r
          /\ ~(r < r)
      <4>1. /\ r \in Nat /\ OldCount(v) \in Nat /\ Cardinality(M) \in Nat
            /\ CandidateDatasetCount(v, rows) \in Nat
            /\ CandidateZpoolCount(v, rows) \in Nat
            /\ ExistingZpoolCount(v, snap) \in Nat
        BY <2>3, <3>1, <3>2, <3>3
      <4>2. /\ OldCount(v) < r
            /\ Cardinality(M) = r - OldCount(v)
            /\ CandidateDatasetCount(v, rows) >= Cardinality(M)
            /\ CandidateZpoolCount(v, rows) >= Cardinality(M)
            /\ ExistingZpoolCount(v, snap) >= OldCount(v)
        BY <2>2, <2>5, <3>1, <3>3
      <4>. QED
        BY <4>1, <4>2, CountArith, Zenon
    <3>5. M \in choices
      <4>1. Cardinality(M)
              = MinOf(r - OldCount(v), MinOf(r, CandidateDatasetCount(v, rows)))
        BY <2>2, <3>4, Zenon
      <4>2. /\ \A d1, d2 \in M : d1 # d2 => DatasetPool[d1] # DatasetPool[d2]
            /\ DistinctSleds[v] => \A d1, d2 \in M : d1 # d2 => SledOf(d1) # SledOf(d2)
        BY <2>2, Zenon DEF Pairwise
      <4>. QED
        BY <4>1, <4>2, Zenon DEF CandidateRegionChoices
    <3>6. N \in choices
      BY <2>1, <3>5 DEF Drawn
    <3>7. IsFiniteSet(N) /\ Cardinality(N) = r - OldCount(v)
      <4>1. Cardinality(N) = MinOf(r - OldCount(v), MinOf(r, CandidateDatasetCount(v, rows)))
        BY <3>6, Zenon DEF CandidateRegionChoices
      <4>2. IsFiniteSet(N)
        BY <2>1, <2>3, <2>5, DrawnAtMostMissing
      <4>. QED
        BY <3>4, <4>1, <4>2, Zenon
    <3>8. Cardinality(PoolsOf(N \cup regions[v])) = r
      <4>1. Cardinality(PoolsOf(N \cup regions[v])) = Cardinality(N \cup regions[v])
        BY CommitZpoolsDistinct
      <4>2. Cardinality(N \cap regions[v]) = 0
        BY <2>1, DrawnDisjoint, FS_EmptySet
      <4>3. Cardinality(N \cup regions[v])
              = Cardinality(N) + Cardinality(regions[v]) - Cardinality(N \cap regions[v])
        BY <2>3, <3>7, FS_Union, Zenon
      <4>4. Cardinality(N \cup regions[v]) = r
        BY <3>4, <3>7, <4>2, <4>3, Zenon DEF OldCount
      <4>. QED
        BY <4>1, <4>4, Zenon
    <3>9. Verdict(v, snap, r, rows, N) = NoError
      <4>1. ~(Cardinality(N) + OldCount(v) < r)
        BY <3>4, <3>7, Zenon
      <4>2. ~(Cardinality(PoolsOf(N \cup regions[v])) < r)
        BY <3>4, <3>8, Zenon
      <4>. QED
        BY <2>5, <3>4, <4>1, <4>2, Zenon DEF Verdict
    <3>. QED
      BY <2>1, <3>9 DEF NoError, InsufficientErrors
  <2>. QED
    BY <2>4, <2>5
<1>. QED
  BY <1>2, <1>3


\* The step form of NoSpuriousFailure.
NoSpuriousStep ==
  AllocateStep /\ last'.outcome \in InsufficientErrors =>
    ~Placeable(last'.vol, last'.snap, last'.r)

\* Every step keeps the step form of NoSpuriousFailure in a well-typed,
\* anti-affine state.
LEMMA NoSpuriousStepHolds ==
  TypeOK /\ PlacementAntiAffinity /\ [Next]_vars => [NoSpuriousStep]_vars
<1> SUFFICES ASSUME TypeOK, PlacementAntiAffinity, [Next]_vars
             PROVE  [NoSpuriousStep]_vars
  OBVIOUS
<1>1. ASSUME NEW v \in Volumes, NEW snap \in SnapshotArgs,
             NEW r \in Redundancies, Allocate(v, snap, r)
      PROVE  NoSpuriousStep
  <2>1. last'.vol = v /\ last'.snap = snap /\ last'.r = r
    <3>1. CASE SizeDelta(VolumeParams[v]).err # NoError
      BY <1>1, <3>1 DEF Allocate
    <3>2. CASE SizeDelta(VolumeParams[v]).err = NoError
      BY <1>1, <3>2 DEF Allocate
    <3>. QED
      BY <3>1, <3>2
  <2>2. Placeable(v, snap, r) => last'.outcome \notin InsufficientErrors
    BY <1>1, PlaceableNotInsufficient
  <2>. QED
    BY <2>1, <2>2 DEF NoSpuriousStep
<1>2. ASSUME ~\E v \in Volumes, snap \in SnapshotArgs, r \in Redundancies :
                 Allocate(v, snap, r)
      PROVE  [NoSpuriousStep]_vars
  <2>1. last' = NoCall \/ UNCHANGED vars
    BY <1>2 DEF Next, DeleteRegion, ExpungeDisk, ExpungeSled, DeleteDataset
  <2>2. CASE last' = NoCall
    BY <2>2 DEF NoSpuriousStep, AllocateStep
  <2>3. CASE UNCHANGED vars
    BY <2>3
  <2>. QED
    BY <2>1, <2>2, <2>3
<1>. QED
  BY <1>1, <1>2

\* allocation_query never fails with NotEnoughZpoolSpace,
\* NotEnoughDatasets or NotEnoughUniqueZpools while a placement of the
\* missing regions exists: usable datasets on in-service zpools with room,
\* outside the zpools (and sleds) already used, pairwise on distinct zpools
\* (and sleds).  It rests on anti-affinity of the existing regions.
THEOREM NoSpuriousFailureHolds == Spec => NoSpuriousFailure
<1>1. TypeOK /\ PlacementAntiAffinity /\ [Next]_vars => [NoSpuriousStep]_vars
  BY NoSpuriousStepHolds
<1>. QED
  BY TypeCorrect, AntiAffinity, <1>1, PTL
     DEF Spec, NoSpuriousFailure, NoSpuriousStep

=============================================================================
