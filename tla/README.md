# TLA+ models of the Omicron region allocator and its neighbours

This directory holds TLA+ specifications of parts of the Omicron sources
under `src/`, TLC configurations that model-check them on small instances,
and TLAPS proofs of their main invariants for every value of the constants.

## 1. The system and its parts

The core of the repository is the **region allocation query** of Nexus
(`nexus/db-queries/src/db/queries/region_allocation.rs`). Given a volume, an
optional snapshot, the region parameters, an allocation strategy and a
redundancy, `allocation_query` builds one SQL statement. The statement places
the volume's missing regions on datasets. A dataset lives on a zpool, and a
zpool lives on a sled. The statement is a chain of CTEs, and the database
evaluates it as one indivisible unit:

| CTE / step | what it computes | model |
|---|---|---|
| numeric prelude (Rust, lines 202-259) | `size_delta = size + size/4` with overflow checks | `RegionSize!SizeDelta` |
| `old_regions` | the volume's regions | `regions[v]`, `OldCount` |
| `old_zpool_usage` | sum of live `size_used` per zpool | `PoolUsage` |
| `existing_zpools` | zpools of old regions, plus the snapshot's zpools (UNION) | `ExistingZpools`, `ExistingZpoolCount` |
| `existing_sleds` | sleds of those zpools (distinct sleds only) | `ExistingSleds` |
| `candidate_zpools` | zpools with room, in service, not excluded; `DISTINCT ON sled_id` | `ZpoolQualifies`, `CandidateRows`, `CandidateZpoolCount` |
| `candidate_datasets` | one dataset per zpool (`DISTINCT ON pool_id`) | `CandidateDatasetCount` |
| `shuffled_candidate_datasets`, `candidate_regions` | md5 order; `LIMIT redundancy`, then `LIMIT redundancy - COUNT(old_regions)` | `CandidateRegionChoices` |
| `do_insert` | four conjuncts; three raise a sentinel error | `Verdict` |
| `inserted_regions`, `updated_datasets` | insert the regions; add `size_delta` to `size_used` | `Commit` |
| `from_diesel` | sentinel → insufficient-capacity error | `InsufficientErrors`, `Outcomes` |

Inventory of the other components:

| component | source | state | operations | hard behaviour |
|---|---|---|---|---|
| simulated sled agent objects (modelled for disks: `SimCollection`) | `src/sled_agent/sim/mod.rs` | per object: current state, requested state, notification channel; a mutex-guarded map | `transition`, `transition_finish`, `sim_ensure`, `sim_poke`, `sim_step` | a background task per object races API calls; zero-buffer channel drops duplicate wakeups; `remove(..).unwrap()` |
| sled storage resources | `sled-storage/src/resources.rs` | disk config generation, control-plane disks, observed disks and their management state | `set_config`, `synchronize_disk_management`, `insert_or_update_disk`, `remove_disk` | generation check accepts equal generations; partial failure of disk management |
| region snapshot replacement start | `nexus/src/app/background/tasks/region_snapshot_replacement_start.rs` | requests in the database, the activation status | create requests for expunged disks, start requested replacements | lookup failure ends the activation; lock conflicts ignored |
| VPC subnet create saga | `nexus/src/app/sagas/vpc_subnet_create.rs` | subnet, route and link rows | nodes with undo actions, retry over IPv6 blocks | undo after partial progress; already-exists on retry |
| simulated sidecar SP | `sp-sim/src/sidecar.rs` | ignition targets, power state | request handlers in a select loop | — |
| switch port datastore | `nexus/db-queries/src/db/datastore/switch_port.rs` | port and port-settings rows | settings create, update, delete; port create, delete; set a port's settings id | all-or-nothing transactions; a port delete is refused while the port has settings, a settings delete is not; the one-ASN-per-switch check |
| controller bootstrap, test harness, status types, console files, oximeter field rows | see PROJECT.json | none of their own | I/O wiring, test support, data types, formatting | not modelled |

The allocator depends on the catalog, which it reads and writes. The other
Nexus components call the allocator: the replacement task starts sagas that
allocate regions. The simulated components stand in for hardware in tests.

## 2. Modules

* `RegionSize.tla` models the numeric prelude. `SizeDelta(params)` has one
  branch per early return, in the order the code takes them. Integers keep
  their width: `Width` is the bit width of `u64` and `i64`. TLC runs use
  `Width = 8`; the proof holds for every width, 64 included.
  `SizeDeltaCorrect` is the reference the prelude is proved equal to
  (`RegionSizeProofs`); the proof for every width replaces a bounded TLC
  comparison.
* `RegionAllocation.tla` models the allocator against the catalog. Its
  variables are:
  * `regions`, the region rows of each volume, as a set of datasets;
  * `sizeUsed`;
  * the eligibility flags `sledActive`, `diskActive` and `dsDeleted`;
  * `last`, the last call and its outcome.

  `Allocate(v, snap, r)` is the whole of `allocation_query` plus the
  execution of its statement, as one step. The md5 orderings depend on a
  seed that defaults to the wall clock, so they become a nondeterministic
  choice among the row sets that `ORDER BY ... LIMIT` could keep. The
  catalog changes the query does not make are environment actions modelled
  from the spec: `DeleteRegion`, `ExpungeDisk`, `ExpungeSled` and
  `DeleteDataset`.
* `MCRegionAllocation.tla` and its cfgs form the rack. It has:
  * 3 sleds;
  * 4 zpools, two of them on sled s1;
  * zpool p1 holding two datasets;
  * zpool p3 with room for only one region;
  * a snapshot whose region snapshot is on p3;
  * two volumes, v1 with distinct sleds and v2 with random placement.

  Every region reserves 5 units. At most one disk or sled is expunged
  (`MaxExpunges`); a bound is needed because every expungement is a new
  catalog state.
* `SimCollection.tla` models the simulated sled agent's object collection
  (`src/sled_agent/sim/mod.rs`) in `SimMode::Auto`, with disks as the
  simulated type. Its variables are:
  * `objects`, the mutex-guarded map: per id, the current state, the
    requested state and the incarnation, or `Absent`;
  * `chan` and `closed`, per incarnation, the channel buffer and whether
    the sender was closed or dropped;
  * `task` and `pending`, per incarnation, where its `sim_step` task is and
    what `sim_poke` carries past the mutex;
  * `created`, `notified` and `ensures`.

  Every creation of an id makes a new object with its own channel and
  spawned task, so tasks are indexed by `<<id, incarnation>>`.
  `SIM_CHANNEL_BUFFER_SIZE = 0` gives a futures `mpsc` channel with one
  sender a capacity of one message. `try_send` on a full buffer drops the
  message, which the code tolerates (`TrySend`).

  `EnsureNew` and `EnsureExisting` are the two paths of `sim_ensure`. It
  holds the mutex for its whole body, so each path is one step.
  `sim_poke` is two steps. `PokeLocked` is the block under the mutex: it
  removes the object with `unwrap`, finishes the transition and re-inserts
  the object unless it is destroyed. `PokeNotify` notifies the controller
  and closes a destroyed object's channel. `StepReceive` and `StepExit` are
  the two outcomes of `rx.next()`. The 1500 ms sleep is a delay, during
  which any other step may run.

  `sim/disk.rs` is not part of this source, so the disk's transition
  functions (`NextForNewTarget`, `FinishAsync`) are taken from what
  `test_sim_disk` asserts.
* `MCSimCollection.tla` and its cfgs have one disk id, created at most
  twice, two instances and at most 4 `sim_ensure` calls.
* `StorageResources.tla` models `StorageResources`
  (`sled-storage/src/resources.rs`). The StorageManager task owns it and
  serves one request at a time with `&mut self`, so each method is one step.
  Its variables are:
  * `generation` and `cpDisks`, the config Nexus last sent;
  * `disks`, each identity's management state (`Missing`, `Unmanaged`,
    `Explicit` with a zpool id, `Implicit`) and firmware;
  * `published`, the `AllDisks` value on the `disk_updates` watch channel;
  * `result`, the last `DisksManagementResult`;
  * `newest`, a history variable: the newest generation delivered.

  `SetConfig(g)` may deliver any generation at any time: a config may come
  late or twice. `Synchronize` is the whole of
  `synchronize_disk_management`: the unmanage loop (`Unmanage`), then the
  manage loop (`Manage`, `ManageStatus`), with the outcome of each
  `Disk::new` (not in this source) chosen among Ok, a key-manager error and
  another error, and the publication when a disk changed.
  `InsertOrUpdateDisk` and `RemoveDisk` are the hardware monitor's calls.
* `MCStorageResources.tla` has two U.2 disks, one synthetic M.2, two zpool
  ids, two firmwares and three generations: empty, both U.2s, and d1 alone
  with the other zpool id (a late config, an unmanaged disk and a zpool id
  mismatch are all reachable).
* `RegionSnapshotReplacementStart.tla` models one activation of the
  background task `RegionSnapshotReplacementDetector`. `pc` walks the two
  loops: `Find` and `CreateStep` for the requests of region snapshots on
  expunged disks, then `List`, `StartLookup`, `ActOnLookup` and `StartAct`
  for the Requested requests. Every datastore call may fail. Between the
  calls the environment expunges disks, deletes region snapshots, takes and
  releases a volume's repair lock (`Lock`, `Unlock`) and runs started sagas
  (`SagaRun`, `Finish`). Rows come back in the datastore order `Order`,
  a sequence that lists every region snapshot exactly once;
  `Broken` names region snapshots whose lookup keeps failing.
* `MCRegionSnapshotReplacementStart.tla` has two region snapshots in the
  order r1, r2 and one competing lock.
* `VpcSubnetCreate.tla` models the saga `vpc_subnet_create`
  (`nexus/src/app/sagas/vpc_subnet_create.rs`) under the steno executor.
  * `mode` and `at` are the executor's position in the DAG that
    `make_saga_dag` builds (`Dag`): running forward, unwinding, done,
    unwound or stuck. `crashes` counts Nexus crashes.
  * `subnet` (the row and its custom-router link), `route` and `dirty` (a
    write the router workers have not been told of by an rpw version bump)
    are the database; `taken` and `v4Taken` are blocks other requests hold.
  * One action per saga action and undo action. `CreateSubnet` is the whole
    retry loop over `potential_ipv6_blocks`, one insert per step
    (`InsertAttempt`); every error moves to the next block, and the last
    attempt's result is the node's result. `CreateRoute` has the
    `ObjectAlreadyExists` path (`AlreadyExists`).
  * The executor is external, so its operators are modelled from its
    contract: `Done` records a node's output, or a crash (`Crash`) before
    the record makes the node run again; `Failed` starts unwinding from
    the node before (a failed node's undo is not run); `Undone` and `Stuck`
    are an undo action's success and failure.
  * `ReplayMayFail` says whether an action run a second time after a crash
    may fail although its first run took effect.
  * `OtherSubnet(b)` and `OtherSubnetV4` are concurrent requests that take
    a candidate IPv6 block or the IPv4 block.
* `SubnetCreateAtomic.tla` is what the saga promises its caller: the
  subnet, its route and its custom link appear in one step, or the request
  fails and nothing appears. `VpcSubnetCreate` maps onto it through
  `Atomic == INSTANCE SubnetCreateAtomic WITH ...`. Only a finished saga is
  observed: `outcome` is created, failed or pending, and `exists`, `routed`
  and `linked` are the rows once the saga has finished.
* `MCVpcSubnetCreate.tla` has two blocks and the candidate sequences
  `<<>>`, `<<b1>>` and `<<b1, b2>>`, with at most two crashes.
* `SwitchPort.tla` models the switch port datastore
  (`nexus/db-queries/src/db/datastore/switch_port.rs`). Every operation
  runs in `transaction_retry_wrapper`, a serializable transaction retried on
  conflict, so each is one atomic step that commits all its writes or none.
  Its variables are:
  * `settings`: per settings id, the BGP configs its peers name and the
    addresses its address config requests, or `NoSettings`;
  * `ports`: per port, `NoPort`, or its `port_settings_id` (`NoId` for NULL);
  * `rsvd`: per address, the settings whose address config reserved its lot
    block;
  * `resp`: the result of the last call.

  `SettingsCreate`, `SettingsUpdate` and `SettingsDelete` are the three
  settings calls; the update is the delete followed by the create with the
  same id inside one transaction (`CreateBody` run against the table with
  the old blocks released, `Release`). `CreateErrors` is the order of the
  create's failures: an unknown BGP config first, then an address outside
  every lot or already reserved. `PortCreate`, `PortDelete` and
  `SetSettingsId` are the port calls. `SetSettingsId` reads the first BGP
  config of the new settings (`LIMIT 1`, so any one of them:
  `FirstConfigs`) and refuses it when a port of the same switch uses a
  config with another ASN (`ConflictingConfigs`); a failed precondition
  updates no row and still returns Ok. Names, links, interfaces and routes
  are rows no check reads, and are left out.
* `MCSwitchPort.tla` has three ports, two on switch 0 and one on switch 1,
  two settings ids, two live BGP configs with ASNs 47 and 48 plus one that
  does not exist, and two lot addresses plus one outside every lot.
* The theorems are in `RegionAllocationProofs.tla`, `RegionSizeProofs.tla`,
  `VpcSubnetCreateProofs.tla`, `SwitchPortProofs.tla`,
  `StorageResourcesProofs.tla`, `RegionSnapshotReplacementStartProofs.tla`
  and `SimCollectionProofs.tla`. Each one EXTENDS the module it is about.

## 3. Runs

| run | checks | shows |
|---|---|---|
| `allocation` | `TypeOK`, `PlacementAntiAffinity`, `CapacityBound`, `TopUp`, `NoSpuriousFailure` | Anti-affinity and capacity hold over every sequence of calls, top-ups, deletions and one expungement. A successful call leaves exactly max(old, r) regions and keeps the old ones. No insufficiency error is returned while a placement exists (about 38,600 states). |
| `error_classification` (violation) | `DatasetsErrorOnlyWithEnoughZpools` | A zpool with two datasets counts twice in the first `do_insert` threshold. A call short of zpools then fails with NotEnoughDatasets, where spec §4.4 says NotEnoughZpoolSpace. |
| `target_exceeded` (violation) | `TargetMetIsPureRead` | Suppose v2 holds 3 regions and is asked for 2. `LIMIT (2 - 3)` is then negative, and the statement fails. Spec §4.3 says that call is a pure read. |
| `sim_collection` | `TypeOK`, `WakeupPending`, `AsyncTransitionsFinish` | While a disk in the map has an asynchronous transition pending, its task has a message buffered or is about to poke it. A dropped `try_send` is therefore never the only wakeup. Every pending transition is eventually finished, or the disk leaves the map (1,568 states). |
| `poke_after_destroy` (violation) | `PokeFindsObject` | The comment in `sim_poke` says the object is always in the map. Here is a counterexample. `sim_ensure(Attached)` sends a wakeup, and the task takes it. During the task's sleep, `sim_ensure(Destroyed)` turns Attaching into Detaching and sends a second wakeup into the emptied buffer. The poke destroys the disk and closes the channel, but the buffered wakeup is still delivered. The next poke's `remove(&id).unwrap()` then panics. |
| `storage_resources` | `TypeOK`, `PublishedCurrent`, `NewestConfigInForce`, `SyncResultAccurate` | A late or repeated config never rolls the requested disks back. Every change of the disk map reaches the watch channel. What `synchronize_disk_management` returns describes exactly the disks it leaves managed, even when single disks fail and hardware events come in between. |
| `replacement_start` | `TypeOK`, `FastTrackOnlyWhenGone`, `ExpungedEventuallyRequested`, `RequestedEventuallyStarted` | Every region snapshot on an expunged disk eventually gets a request, and every Requested request eventually has its saga started or is completed. This holds under transient datastore failures, competing locks and concurrent deletion. The task completes a request itself only when its region snapshot is gone. |
| `replacement_start_starved` (violation) | `RequestedEventuallyStarted` | If `region_snapshot_get` keeps failing for r1, the `return` on that error (line 231) ends every activation before r2, whose request is never started. Every other per-row error in the task moves on to the next row. |
| `vpc_subnet_create` | `TypeOK`, `CreatedNotified`, `UnwoundCleanSlate`, `AllOrNothing` | With crashes, replays that succeed and concurrent subnet creation: the retry index stays on a candidate block; a created subnet has been announced to the router workers after its last write; an unwound saga leaves no row; and the saga implements `SubnetCreateAtomic`, so subnet, route and custom link appear together or not at all (1,164 states). |
| `switch_port` | `TypeOK`, `ReservationsMatchSettings`, `SingleAsnActivation` | Across creates that fail half way, updates that release and re-reserve, and deletes, every lot block is reserved exactly for the settings whose address config names it. The ASN check of `switch_port_set_settings_id` keeps one ASN per switch as long as every settings object uses a single ASN. |
| `switch_port_two_asns` (violation) | `OneAsnPerSwitch` | The comment in `switch_port_set_settings_id` says two ASNs on one switch are refused. Settings whose peers use ASNs 47 and 48 (created that way, or updated to it while active) pass the `LIMIT 1` check, so a switch runs two ASNs. |
| `vpc_subnet_replay_leak` (violation) | `UnwoundCleanSlate` | Nexus crashes after `create_subnet` inserted the row and before steno recorded it. The replay fails (a concurrent request, or any datastore error, and every error is `action_failed`). Steno does not undo a failed node, so the unwound saga leaves the subnet row. The test helper `verify_clean_slate` expects none. The same holds for `create_route` when the lookup after `ObjectAlreadyExists` fails. The tests inject errors only into first runs. |

Why the bounds are enough:

* Two volumes are needed to contend for a zpool's capacity. With one
  distinct-sleds volume and one random volume, both strategies are
  exercised.
* Redundancies 2 and 3 allow a top-up from 2 to 3, and a call below the
  current count.
* The two-dataset zpool is what makes `DISTINCT ON pool_id` and the join row
  count matter.
* One expungement plus the small zpool p3 make every insufficiency error
  reachable.

Each property of a passing run has a mutant: a plausible bug in the code,
listed in PROJECT.json, that TLC shows breaks the property. Some examples:

* dropping the `existing_sleds` filter;
* leaving `size_delta` out of the capacity test;
* a strict `<` in the capacity test;
* `LIMIT redundancy` without subtracting the old regions;
* selecting `pool_id AS dataset_id`;
* a `try_send` that is lost, or a channel that queues every message;
* a `sim_step` loop that ends after its first poke.

Pool exclusivity alone has no single-point mutant. Three parts of the query
each enforce it: the existing-zpools filter, `DISTINCT ON pool_id` and the
unique-zpools threshold. It is therefore checked together with sled
anti-affinity in `PlacementAntiAffinity`.

No liveness is checked for the allocator: a call is one atomic step, and
nothing in the allocator waits for anything.

For the simulator, three bounds matter:

* Four `sim_ensure` calls allow an attach, a change of direction while the
  task sleeps, a destroy, and a re-creation.
* Two incarnations let a stale task coexist with the new object.
* Two instances make the "attached elsewhere" error reachable.

The simulator idles once the API calls stop, with every task blocked on its
channel. The runs therefore set `CHECK_DEADLOCK FALSE`. Each task is
weakly fair: the tokio runtime runs every spawned task that can make
progress, the futures mutex is released at the end of each step, and the
sleep always ends. The API calls are not fair, since a client may stop
calling at any time.

For the storage resources, three generations are the fewest that let a
config arrive after a newer one and still change the requested set; two
U.2s let one disk fail while the other is adopted, and the M.2 exercises the
implicit path and the synthetic exception of `remove_disk`. Nothing in
`StorageResources` waits, so no liveness is checked, and every state has a
successor (a config can always be delivered again).

For the replacement task, two region snapshots are enough for one row to
stand in front of another in datastore order, which is what the finding
needs. The fairness is what the task's scheduling gives: the task is
activated periodically (weak fairness of its steps); a datastore call
retried at every activation eventually succeeds (strong fairness of each
success), except the lookups of `Broken` rows; at most `MaxLocks`
competing replacements lock a volume and each releases it; a started saga
eventually runs.

For the subnet saga, the candidate sequence `<<b1, b2>>` lets a
concurrent request take b1 so that the retry reaches b2, and `<<>>` is the
documented 500 case. Two crashes let a node be replayed, and then the node
before it, during unwinding. The saga stops when it is done, unwound or
stuck, so the runs set `CHECK_DEADLOCK FALSE`. No liveness is checked and
the specification has no fairness: with a linear DAG, a bounded number of
crashes and a `for` loop over a finite list of blocks, the saga's ending
holds by construction and says nothing about the code. The passing run sets
`ReplayMayFail = FALSE`, the executor's contract under which the saga is
atomic; the violation run sets it to TRUE, and is the only run that takes
the failing branch of a replayed action.

For the switch ports, two ports on one switch are needed for the ASN check
to compare anything, and the port on the other switch shows the switch
filter. Two ASNs, and a peer set naming both, make the multi-ASN case
reachable; the missing BGP config and the address outside the lot make
every create error reachable, and two settings ids let two objects compete
for a block. Nothing in the datastore waits, so no liveness is checked; a
call can always be made, so deadlock is checked.

## 4. What is proved

* `RegionAllocationProofs!TypeCorrect`: `Spec => []TypeOK`, for every
  topology, capacity and parameter set satisfying the module's ASSUMEs. It
  rests on two lemmas:
  * `SizeDeltaType`: the prelude returns a natural `size_delta`;
  * `AllocateCases`: a call either leaves `regions` and `sizeUsed`
    unchanged, or commits a set drawn from the candidate rows.
* `RegionAllocationProofs!AntiAffinity`: `Spec => []PlacementAntiAffinity`.
  * The inductive invariant is `TypeOK /\ PlacementAntiAffinity`. The type
    is needed so that `regions'[v]` is `regions[v] \cup N` for a set of
    datasets.
  * Two old regions are covered by the hypothesis.
  * A new and an old region differ in zpool and sled because a candidate row
    lies outside `existing_zpools` and `existing_sleds` (`RowExcluded`).
  * Two new regions differ because a choice of `candidate_regions` is
    pairwise distinct (`ChoicePairwise`).
  * Every other action only removes regions or leaves them alone.
* `RegionAllocationProofs!TopUpCorrect`: `Spec => TopUp`, an action
  property. A successful call keeps the volume's regions and leaves it with
  max(old, r) of them. It needs `IsFiniteSet(Datasets)` in
  `TopologyAssumption`: `crucible_dataset` is a table of finitely many
  rows. The argument:
  * when the volume already has r regions, nothing is inserted;
  * otherwise the drawn set holds at most r - old datasets, the `LIMIT` of
    `candidate_regions` (`DrawnAtMostMissing`);
  * a verdict of Ok says it holds at least that many;
  * it shares no dataset with the old regions (`DrawnDisjoint`), so the
    union has exactly r elements.
* `RegionAllocationProofs!NoSpuriousFailureHolds`:
  `Spec => NoSpuriousFailure`, an action property. No call fails with an
  insufficiency error while the spec's placement exists. The invariant
  used is `TypeOK /\ PlacementAntiAffinity`, taken from the two theorems
  above. The argument (`PlaceableNotInsufficient`):
  * a placement is a set of candidate rows (`PlacementRows`);
  * it is pairwise on distinct zpools and sleds, so both candidate counts
    are at least its size (`CountsCoverPlacement`);
  * by anti-affinity the `existing_zpools` count is at least the number
    of old regions (`ExistingCoversOld`);
  * so the placement is itself a choice of `candidate_regions`, every
    drawn set has exactly the r - old missing regions, and the new and old
    regions lie on r distinct zpools (`CommitZpoolsDistinct`);
  * so all three thresholds of `do_insert` pass.
  The counting rests on `InjectiveImage`: the image of a finite set under
  a function injective on it has the same cardinality. It is proved with
  `FS_Surjection`, which takes no operator parameter.
* `RegionSizeProofs!PreludeCorrectness`: `SizeDeltaCorrect(params)` for
  every `u64` parameter triple, at every width. The hypothesis is
  `MaxRegionSize + MaxRegionSize \div 4 <= I64Max`, which the code's
  1023 GiB satisfies at 64 bits. The provers know no facts about `^`, so
  `WidthAssumption` states that `2^Width = 2 * 2^(Width-1)`; TLC evaluates
  it on every run of the allocator, which extends `RegionSize`. This theorem
  covers the prelude's numeric boundaries (both multiplications, the
  maximum size, the 25% overhead) for every parameter, so no TLC run checks
  the prelude separately.

* `VpcSubnetCreateProofs!TypeCorrect`: `Spec => []TypeOK` for every set of
  blocks, candidate sequences and crash bound. `TypeOK` is not inductive:
  `LinkCustom` writes the custom field of the subnet row, which is well
  typed only if the row exists. The inductive invariant adds
  `SubnetRowWritten` (the row exists while the saga runs nodes 2 to 4).
* `VpcSubnetCreateProofs!Refinement`: if a replayed action never fails
  (`~ReplayMayFail`), `Spec => AllOrNothing`: the saga implements
  `SubnetCreateAtomic`. The inductive invariant `IInv` adds
  `RowsAtPosition`, which says which rows exist at each position of the
  executor: before node k runs, the rows of nodes 1 to k-1 exist, with
  the values they were written with, and those of later nodes do not; while
  undoing node k, the rows of nodes 1 to k exist. A failure unwinds from the
  node before the failing one, whose rows therefore all exist, and each undo
  removes its own row. With that invariant the step that sets `mode` to
  done is the abstract `Commit`, the step that sets it to unwound is
  `Abort`, and every other step leaves the mapped variables unchanged.
  The lemma `ReplayedInsertOk` is where the assumption is used: a replayed
  insert finds its own row and succeeds.
* `VpcSubnetCreateProofs!CleanSlateUnderContract`: under the same
  assumption, `Spec => []UnwoundCleanSlate`. The run
  `vpc_subnet_replay_leak` shows that the assumption is needed.

* `SwitchPortProofs!ReservationsCorrect`: `Spec => []ReservationsMatchSettings`
  for every set of ports, settings ids, BGP configs and addresses, and
  `SwitchPortProofs!TypeCorrect`: `Spec => []TypeOK`. The inductive
  invariant is `TypeOK /\ ReservationsMatchSettings`. The argument rests on
  `CreateBodyStep`: a create keeps the invariant when it runs against a
  reservation table that *fits* its id (`Fits`: no block held by the id,
  the others matching the settings rows). A create of a new id fits
  because an id without a row holds no block (`CreateFits`); an update
  fits because its release frees exactly the blocks its own address config
  named (`ReleaseFits`); an empty `CreateErrors` says every requested block
  was free (`CreateOk`). A delete uses the same release (`DeleteStep`).
* `SwitchPortProofs!AsnCheckSound`: `Spec => SingleAsnActivation`, an
  action property. `SingleAsn` counts a switch's ASNs. The step argument
  uses the pairwise form `SameSwitchOneAsn`: any two configs active on one
  switch share an ASN. Two lemmas connect the two forms:
  * `AtMostOneElement`: a finite set of cardinality at most 1 has no two
    different elements;
  * `OneElementAtMost`: the converse, which needs no finiteness.
  The ASN set of a switch is finite (`AsnImageFinite`, through
  `FS_Surjection`) because `SwitchPortAssumption` says `BgpRefs` is finite:
  `bgp_config` is a table of finitely many rows. The step itself:
  * only `switch_port_set_settings_id` can put a port on settings with a
    config;
  * the first config of the new settings is a real config, because
    `SwitchPortAssumption` says `NoId` (the code's `None`) is not one;
  * the check found no port of the switch with another ASN
    (`CheckedPortAgrees`);
  * every other port keeps its settings (`OnePortStep`);
  * port create and delete give a port no settings.
* `StorageResourcesProofs`: `TypeCorrect`, `PublishedCurrentHolds`,
  `NewestConfigHolds` and `SyncAccurate` (the action property
  `SyncResultAccurate`), for every set of disks. The inductive invariant
  is `TypeOK /\ PublishedCurrent /\ NewestConfigInForce /\
  NothingDeliveredYet`. `NothingDeliveredYet` says the generation is still
  the initial one while no config has been delivered. It is needed for
  the first `set_config`. Generation 1 is the least generation, so the
  first config delivered is never older than the one in force, and it is
  applied. A record `EXCEPT` on a disk's firmware is rewritten
  field by field (`DiskFwUpdate`), and `SyncStep` proves the invariant and
  the action property together for `synchronize_disk_management`.
* `RegionSnapshotReplacementStartProofs!FastTrackSound`:
  `Spec => []FastTrackOnlyWhenGone`. `FastTrackOnlyWhenGone` is not
  inductive alone. The lookup and the completion are two awaits apart, so
  the invariant adds `LookupStillValid`: a lookup that found the region
  snapshot gone is still true when the task acts on it. It holds because
  no step brings a deleted region snapshot back.
* `RegionSnapshotReplacementStartProofs!TypeCorrect`: `Spec => []TypeOK`.
  The inductive invariant adds `CurInTodo` to the invariant above. Its one
  non-trivial fact is `FirstIn`: `First(S)` is in `S` for a nonempty set
  of rows. A least position of `S` in `Order` exists because the naturals
  are well founded (`WFMin`, `NatLessThanWellFounded`), and some position
  exists because `Order` lists every region snapshot.
* `VpcSubnetCreateProofs!CompletionNotified`: `Spec => []CreatedNotified`,
  with no assumption on replays. The executor reaches `done` only by
  recording the last node (`DoneAfterLastNode`). That node is
  `svsc_notify_rpw`, which clears `dirty`. Once the saga is done, no node
  runs and concurrent subnets leave the saga's routing alone.
* `SimCollectionProofs`: `TypeCorrect` and `WakeupSound`
  (`Spec => []WakeupPending`) for every number of ids, instances, calls
  and incarnations. `TypeOK /\ WakeupPending` is inductive, by these
  facts:
  * a transition that leaves a request pending changes the object, so it
    sends, and `try_send` only fills a buffer (`TransitionType`,
    `TrySendFills`);
  * a task empties its buffer only by going on to poke;
  * a poke finishes the transition (`TransitionFinishType`);
  * the steps of a stale incarnation's task touch only their own channel.

Only model-checked:

* `CapacityBound` needs sums over datasets (`MapThenSumSet`). Relating a
  sum before and after one update needs induction over finite sets. The
  library's theorems for that take an operator parameter, which the
  provers cannot instantiate. `NoSpuriousFailure` needs no sum, because
  the spec's capacity condition and the query's are the same `PoolUsage`
  term.
* All liveness (`AsyncTransitionsFinish`, `ExpungedEventuallyRequested`,
  `RequestedEventuallyStarted`): TLAPS does not reason
  about fairness and ENABLED.
* `AllOrNothing` and `UnwoundCleanSlate` when a replay may fail: those runs
  show violations, so there is nothing to prove.

## 5. Not modelled, and the plan

Done: `StorageResources`, `RegionSnapshotReplacementStart`,
`VpcSubnetCreate` and `SwitchPort`.

`StorageResources` also states `PublishedGenerationCurrent`, the doc
comment of `AllDisks::generation`. It does not hold: `set_config` changes
the generation without `send_replace`, and a synchronize that changes no
disk publishes nothing. No code in this source reads the generation from
the watch channel, so no run checks it; it is listed as a hazard.

Planned, in this order:

1. **`RegionAllocationTxn`**: the statement as a transaction with a read
   phase and a commit phase, for calls that interleave. Serializable
   validation rejects a commit whose reads were overwritten, and the retry
   layer runs it again. It would refine `RegionAllocation` through
   `INSTANCE ... WITH`.
2. **`SimCollection`**, done for disks. Still to do: instances, whose
   transitions chain (reboot), and `SimMode::Explicit`, where the pokes
   come from the API.
3. **The sidecar simulator.** The switch port datastore is done.
4. A proof of `CapacityBound`. It needs a lemma on how a sum over datasets
   changes under one update, proved for `MapThenSumSet` without an
   operator parameter.

Not modelled in `VpcSubnetCreate`: the rpw version bump that the undo of
`create_subnet` ignores when it fails (`let _ =`). The model records it in
`dirty`, but no document of the code says a deletion must be announced, so
no property is checked.

Left out for good:

* the controller bootstrap and the integration test harness (I/O wiring);
* the status types (plain data);
* console file serving and oximeter field extraction (string and column
  conversion, with no state).
