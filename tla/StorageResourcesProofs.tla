----------------------- MODULE StorageResourcesProofs -----------------------
(***************************************************************************)
(* Proofs about the sled's disk management (StorageResources), for every   *)
(* set of disks, zpool ids, firmwares and configs.                         *)
(*                                                                         *)
(* NewestConfigInForce is not inductive by itself: before any config is    *)
(* delivered (newest = 0) it says nothing, and the first delivery must     *)
(* find the initial generation 1 in place, not above the delivered one.    *)
(* IInv adds that fact.                                                    *)
(***************************************************************************)
EXTENDS StorageResources, TLAPS

\* Before the first set_config the generation is still the initial one.
NothingDeliveredYet == newest = 0 => generation = 1

IInv ==
  /\ TypeOK
  /\ PublishedCurrent
  /\ NewestConfigInForce
  /\ NothingDeliveredYet

\* What a U.2 disk's state can be: missing, unmanaged with firmware, or
\* explicitly managed with firmware and a zpool id.
LEMMA U2Kinds ==
  ASSUME NEW x \in U2States
  PROVE  /\ x = Disk(x.mgmt, x.fw, x.pool)
         /\ x.mgmt \in {"Missing", "Unmanaged", "Explicit"}
         /\ x.mgmt = "Missing" => x = Missing
         /\ x.mgmt = "Unmanaged" => x.fw \in Firmwares /\ x.pool = NoPool
         /\ x.mgmt = "Explicit" => x.fw \in Firmwares /\ x.pool \in Pools
BY DEF U2States, Disk, Missing

\* What an M.2 disk's state can be: missing, or implicitly managed.
LEMMA M2Kinds ==
  ASSUME NEW x \in M2States
  PROVE  /\ x = Disk(x.mgmt, x.fw, x.pool)
         /\ x.mgmt \in {"Missing", "Implicit"}
         /\ x.mgmt = "Missing" => x = Missing
         /\ x.mgmt = "Implicit" => x.fw \in Firmwares /\ x.pool = NoPool
BY DEF M2States, Disk, Missing

\* A config names U.2 disks only, each with a zpool id.
LEMMA ConfigMapShape ==
  ASSUME NEW cp \in ConfigMaps
  PROVE  /\ DOMAIN cp \subseteq U2s
         /\ \A id \in DOMAIN cp : cp[id] \in Pools
BY DEF ConfigMaps

\* The disk map is typed per bus: U.2 disks in U2States, M.2 in M2States.
DisksTyped(d) ==
  /\ d \in [Ids -> U2States \cup M2States]
  /\ \A id \in U2s : d[id] \in U2States
  /\ \A id \in M2s : d[id] \in M2States

\* Setting the firmware field of a disk record, field by field.
LEMMA DiskFwUpdate ==
  ASSUME NEW m, NEW f0, NEW p, NEW f
  PROVE  [Disk(m, f0, p) EXCEPT !.fw = f] = Disk(m, f, p)
<1>. DEFINE r == Disk(m, f0, p)
<1>1. DOMAIN [r EXCEPT !.fw = f] = {"mgmt", "fw", "pool"}
  BY DEF Disk
<1>2. /\ [r EXCEPT !.fw = f].mgmt = m
      /\ [r EXCEPT !.fw = f].fw = f
      /\ [r EXCEPT !.fw = f].pool = p
  BY DEF Disk
<1>3. [r EXCEPT !.fw = f] \in [mgmt : {m}, fw : {f}, pool : {p}]
  BY <1>1, <1>2
<1>. QED
  BY <1>3 DEF Disk

\* Changing a disk's firmware is replacing its record by one with the new
\* firmware and the same management kind and zpool id.
LEMMA FirmwareUpdate ==
  ASSUME NEW x \in U2States \cup M2States, NEW fw
  PROVE  [x EXCEPT !.fw = fw] = Disk(x.mgmt, fw, x.pool)
<1>1. x = Disk(x.mgmt, x.fw, x.pool)
  BY U2Kinds, M2Kinds
<1>. QED
  BY <1>1, DiskFwUpdate

\* A changed firmware keeps a present disk in its state set.
LEMMA FirmwareUpdateTyped ==
  ASSUME NEW d, DisksTyped(d), NEW id \in Ids, NEW fw \in Firmwares,
         d[id] # Missing
  PROVE  DisksTyped([d EXCEPT ![id].fw = fw])
<1>0. d \in [Ids -> U2States \cup M2States]
  BY DEF DisksTyped
<1>1. [d EXCEPT ![id].fw = fw] = [d EXCEPT ![id] = Disk(d[id].mgmt, fw, d[id].pool)]
  <2>1. d[id] \in U2States \cup M2States
    BY <1>0
  <2>2. [d[id] EXCEPT !.fw = fw] = Disk(d[id].mgmt, fw, d[id].pool)
    BY <2>1, FirmwareUpdate
  <2>. QED
    BY <2>2
<1>2. id \in U2s => Disk(d[id].mgmt, fw, d[id].pool) \in U2States
  <2>. HAVE id \in U2s
  <2>1. d[id] \in U2States
    BY DEF DisksTyped
  <2>. QED
    BY <2>1, U2Kinds DEF U2States, Disk
<1>3. id \in M2s => Disk(d[id].mgmt, fw, d[id].pool) \in M2States
  <2>. HAVE id \in M2s
  <2>1. d[id] \in M2States
    BY DEF DisksTyped
  <2>. QED
    BY <2>1, M2Kinds DEF M2States, Disk
<1>. QED
  BY <1>1, <1>2, <1>3, StorageAssumption DEF DisksTyped, Ids

\* The first loop of synchronize_disk_management only turns explicitly
\* managed, unrequested U.2s into unmanaged ones; requested disks keep
\* their state.
LEMMA UnmanageTyped ==
  ASSUME NEW d, DisksTyped(d), NEW cp \in ConfigMaps
  PROVE  /\ DisksTyped(Unmanage(d, cp))
         /\ \A id \in DOMAIN cp : Unmanage(d, cp)[id] = d[id]
<1>1. ASSUME NEW id \in U2s
      PROVE  Unmanage(d, cp)[id] \in U2States
  <2>1. d[id] \in U2States
    BY DEF DisksTyped
  <2>. QED
    BY <2>1, U2Kinds, StorageAssumption DEF Unmanage, U2States, Ids
<1>2. ASSUME NEW id \in M2s
      PROVE  Unmanage(d, cp)[id] = d[id]
  <2>1. d[id] \in M2States
    BY DEF DisksTyped
  <2>. QED
    BY <2>1, M2Kinds, StorageAssumption DEF Unmanage, Ids
<1>3. \A id \in DOMAIN cp : Unmanage(d, cp)[id] = d[id]
  BY ConfigMapShape DEF Unmanage, Ids
<1>. QED
  BY <1>1, <1>2, <1>3 DEF DisksTyped, Unmanage, Ids

\* The second loop adopts unmanaged, requested U.2s whose Disk::new
\* succeeded, as explicitly managed with the requested zpool id.
LEMMA ManageTyped ==
  ASSUME NEW d, DisksTyped(d), NEW cp \in ConfigMaps, NEW out
  PROVE  DisksTyped(Manage(d, cp, out))
<1>1. ASSUME NEW id \in U2s
      PROVE  Manage(d, cp, out)[id] \in U2States
  <2>1. d[id] \in U2States
    BY DEF DisksTyped
  <2>2. CASE id \in DOMAIN cp /\ d[id].mgmt = "Unmanaged" /\ out[id] = "Ok"
    <3>1. d[id].fw \in Firmwares /\ cp[id] \in Pools
      BY <2>1, <2>2, U2Kinds, ConfigMapShape
    <3>. QED
      BY <2>2, <3>1 DEF Manage, U2States, Ids
  <2>3. CASE ~(id \in DOMAIN cp /\ d[id].mgmt = "Unmanaged" /\ out[id] = "Ok")
    BY <2>1, <2>3 DEF Manage, Ids
  <2>. QED
    BY <2>2, <2>3
<1>2. ASSUME NEW id \in M2s
      PROVE  Manage(d, cp, out)[id] = d[id]
  BY ConfigMapShape, StorageAssumption DEF Manage, Ids
<1>. QED
  BY <1>1, <1>2 DEF DisksTyped, Manage, Ids

\* The status the second loop pushes for a requested disk is Ok exactly
\* when the loop leaves that disk explicitly managed with the requested
\* zpool id, whatever Disk::new returned for it.
LEMMA StatusMatches ==
  ASSUME NEW d, DisksTyped(d), NEW cp \in ConfigMaps,
         NEW out \in [{i \in DOMAIN cp : d[i].mgmt = "Unmanaged"} -> ManageOutcomes],
         NEW id \in DOMAIN cp
  PROVE  /\ ManageStatus(d, cp, id, out) \in Statuses
         /\ ManageStatus(d, cp, id, out) = "Ok" <=>
              /\ Manage(d, cp, out)[id].mgmt = "Explicit"
              /\ Manage(d, cp, out)[id].pool = cp[id]
<1>1. id \in U2s /\ d[id] \in U2States
  BY ConfigMapShape DEF DisksTyped
<1>2. CASE d[id].mgmt = "Missing"
  BY <1>1, <1>2 DEF ManageStatus, Manage, Statuses, Ids
<1>3. CASE d[id].mgmt = "Unmanaged"
  <2>1. out[id] \in {"Ok", "KeyManager", "Other"}
    BY <1>3 DEF ManageOutcomes
  <2>2. ManageStatus(d, cp, id, out) = out[id]
    BY <1>3 DEF ManageStatus
  <2>3. CASE out[id] = "Ok"
    BY <1>1, <1>3, <2>2, <2>3, StorageAssumption DEF Manage, Disk, Statuses, Ids
  <2>4. CASE out[id] # "Ok"
    BY <1>1, <1>3, <2>1, <2>2, <2>4, StorageAssumption DEF Manage, Statuses, Ids
  <2>. QED
    BY <2>3, <2>4
<1>4. CASE d[id].mgmt = "Explicit"
  BY <1>1, <1>4, StorageAssumption DEF ManageStatus, Manage, Statuses, Ids
<1>. QED
  BY <1>1, <1>2, <1>3, <1>4, U2Kinds

\* The outcome SyncResultAccurate requires of one synchronize call.
SyncOutcome ==
  /\ DOMAIN result' = DOMAIN cpDisks
  /\ \A id \in DOMAIN cpDisks :
       (result'[id] = "Ok") <=>
         (disks'[id].mgmt = "Explicit" /\ disks'[id].pool = cpDisks[id])
  /\ \A id \in U2s :
       disks'[id].mgmt = "Explicit" => id \in DOMAIN cpDisks

\* synchronize_disk_management keeps the invariant, and what it returns
\* describes the disks it leaves.
LEMMA SyncStep ==
  ASSUME IInv, Synchronize
  PROVE  IInv' /\ SyncOutcome
<1>. DEFINE d1 == Unmanage(disks, cpDisks)
            adoptable == {id \in DOMAIN cpDisks : d1[id].mgmt = "Unmanaged"}
<1>1. PICK out \in [adoptable -> ManageOutcomes] :
        /\ disks' = Manage(d1, cpDisks, out)
        /\ result' = [id \in DOMAIN cpDisks |-> ManageStatus(d1, cpDisks, id, out)]
        /\ IF disks' # disks THEN Publish ELSE UNCHANGED published
        /\ UNCHANGED <<generation, cpDisks, newest>>
  BY DEF Synchronize
<1>2. DisksTyped(disks) /\ cpDisks \in ConfigMaps
  BY DEF IInv, TypeOK, DisksTyped
<1>3. DisksTyped(d1) /\ \A id \in DOMAIN cpDisks : d1[id] = disks[id]
  BY <1>2, UnmanageTyped
<1>4. DisksTyped(disks')
  BY <1>1, <1>2, <1>3, ManageTyped
<1>5. \A id \in DOMAIN cpDisks :
        /\ result'[id] \in Statuses
        /\ result'[id] = "Ok" <=>
             disks'[id].mgmt = "Explicit" /\ disks'[id].pool = cpDisks[id]
  BY <1>1, <1>2, <1>3, StatusMatches
<1>6. \A id \in U2s : disks'[id].mgmt = "Explicit" => id \in DOMAIN cpDisks
  <2>. SUFFICES ASSUME NEW id \in U2s, id \notin DOMAIN cpDisks
                PROVE  disks'[id].mgmt # "Explicit"
    OBVIOUS
  <2>1. disks[id] \in U2States
    BY DEF IInv, TypeOK
  <2>2. d1[id].mgmt # "Explicit"
    BY <2>1, U2Kinds DEF Unmanage, Disk, Ids
  <2>. QED
    BY <1>1, <2>2 DEF Manage, Ids
<1>7. result' \in UNION {[S -> Statuses] : S \in SUBSET U2s}
  BY <1>1, <1>2, <1>5, ConfigMapShape
<1>8. PublishedCurrent' /\ published'.gen \in Gens
  <2>1. CASE disks' # disks
    BY <1>1, <2>1 DEF Publish, PublishedCurrent, IInv, TypeOK
  <2>2. CASE disks' = disks
    BY <1>1, <2>2 DEF PublishedCurrent, IInv, TypeOK
  <2>. QED
    BY <2>1, <2>2
<1>9. TypeOK'
  BY <1>1, <1>4, <1>7, <1>8 DEF IInv, TypeOK, DisksTyped
<1>10. NewestConfigInForce' /\ NothingDeliveredYet'
  BY <1>1 DEF IInv, NewestConfigInForce, NothingDeliveredYet
<1>. QED
  BY <1>1, <1>5, <1>6, <1>8, <1>9, <1>10 DEF IInv, SyncOutcome

\* The initial state: generation 1, no disks, the empty map published.
LEMMA InitIInv == Init => IInv
<1> SUFFICES ASSUME Init PROVE IInv
  OBVIOUS
<1>1. cpDisks \in ConfigMaps
  <2>1. cpDisks \in [{} -> Pools]
    BY DEF Init
  <2>. QED
    BY <2>1 DEF ConfigMaps
<1>2. result \in UNION {[S -> Statuses] : S \in SUBSET U2s}
  <2>1. result \in [{} -> Statuses]
    BY DEF Init, NoResult
  <2>. QED
    BY <2>1
<1>3. Missing \in U2States /\ Missing \in M2States
  BY DEF U2States, M2States
<1>4. 1 \in Gens
  BY StorageAssumption DEF Gens
<1>. QED
  BY <1>1, <1>2, <1>3, <1>4, StorageAssumption
     DEF Init, IInv, TypeOK, PublishedCurrent, NewestConfigInForce,
         NothingDeliveredYet, AllDisks, Ids, Gens

\* set_config: the newest delivered generation is the one in force.
LEMMA SetConfigStep ==
  ASSUME IInv, NEW g \in Gens, SetConfig(g)
  PROVE  IInv'
<1>1. newest \in 0 .. MaxGen /\ generation \in Gens /\ MaxGen \in Nat
  BY StorageAssumption DEF IInv, TypeOK
<1>2. CASE generation > g
  <2>1. newest # 0 /\ newest = generation
    BY <1>1, <1>2 DEF IInv, NothingDeliveredYet, NewestConfigInForce, Gens
  <2>. QED
    BY <1>1, <1>2, <2>1
       DEF SetConfig, SetConfigApply, IInv, TypeOK, PublishedCurrent,
           NewestConfigInForce, NothingDeliveredYet, Gens
<1>3. CASE ~(generation > g)
  <2>1. generation' = g /\ cpDisks' = Configs[g]
    BY <1>3 DEF SetConfig, SetConfigApply
  <2>2. g > newest \/ g = newest
    BY <1>1, <1>3 DEF IInv, NothingDeliveredYet, NewestConfigInForce, Gens
  <2>3. Configs[g] \in ConfigMaps
    BY StorageAssumption
  <2>. QED
    BY <1>1, <2>1, <2>2, <2>3
       DEF SetConfig, IInv, TypeOK, PublishedCurrent, NewestConfigInForce,
           NothingDeliveredYet, Gens
<1>. QED
  BY <1>2, <1>3

\* A hardware report: a known disk's firmware changes and is published;
\* a new disk is inserted and published.
LEMMA InsertStep ==
  ASSUME IInv, NEW id \in Ids, NEW fw \in Firmwares, InsertOrUpdateDisk(id, fw)
  PROVE  IInv'
<1>1. DisksTyped(disks)
  BY DEF IInv, TypeOK, DisksTyped
<1>2. DisksTyped(disks') /\ PublishedCurrent' /\ published'.gen \in Gens
  <2>1. CASE disks[id] # Missing /\ disks[id].fw # fw
    <3>1. disks' = [disks EXCEPT ![id].fw = fw] /\ Publish
      BY <2>1 DEF InsertOrUpdateDisk, UpdateKnownDisk
    <3>. QED
      BY <1>1, <2>1, <3>1, FirmwareUpdateTyped
         DEF Publish, PublishedCurrent, IInv, TypeOK
  <2>2. CASE disks[id] # Missing /\ disks[id].fw = fw
    BY <1>1, <2>2 DEF InsertOrUpdateDisk, PublishedCurrent, IInv, TypeOK
  <2>3. CASE disks[id] = Missing
    <3>1. PICK ok \in BOOLEAN :
            /\ disks' = [disks EXCEPT ![id] = InsertNewDisk(id, fw, ok)]
            /\ IF disks' # disks THEN Publish ELSE UNCHANGED published
      BY <2>3 DEF InsertOrUpdateDisk
    <3>2. id \in U2s => InsertNewDisk(id, fw, ok) \in U2States
      BY DEF InsertNewDisk, U2States
    <3>3. id \in M2s => InsertNewDisk(id, fw, ok) \in M2States
      BY StorageAssumption DEF InsertNewDisk, M2States
    <3>4. DisksTyped(disks')
      BY <1>1, <3>1, <3>2, <3>3, StorageAssumption DEF DisksTyped, Ids
    <3>5. CASE disks' # disks
      BY <3>1, <3>4, <3>5 DEF Publish, PublishedCurrent, IInv, TypeOK
    <3>6. CASE disks' = disks
      BY <3>1, <3>4, <3>6 DEF PublishedCurrent, IInv, TypeOK
    <3>. QED
      BY <3>5, <3>6
  <2>. QED
    BY <2>1, <2>2, <2>3
<1>. QED
  BY <1>2 DEF InsertOrUpdateDisk, IInv, TypeOK, DisksTyped,
              NewestConfigInForce, NothingDeliveredYet

\* remove_disk: a removed disk is published; a synthetic one stays.
LEMMA RemoveStep ==
  ASSUME IInv, NEW id \in Ids, RemoveDisk(id)
  PROVE  IInv'
<1>1. CASE disks[id] = Missing \/ id \in Synthetic
  BY <1>1 DEF RemoveDisk, IInv, TypeOK, PublishedCurrent, NewestConfigInForce,
              NothingDeliveredYet
<1>2. CASE ~(disks[id] = Missing \/ id \in Synthetic)
  <2>1. disks' = [disks EXCEPT ![id] = Missing] /\ Publish
    BY <1>2 DEF RemoveDisk
  <2>2. Missing \in U2States /\ Missing \in M2States
    BY DEF U2States, M2States
  <2>. QED
    BY <2>1, <2>2 DEF RemoveDisk, Publish, IInv, TypeOK, PublishedCurrent,
                      NewestConfigInForce, NothingDeliveredYet
<1>. QED
  BY <1>1, <1>2

\* Every request the StorageManager serves keeps the invariant.
LEMMA NextIInv == IInv /\ [Next]_vars => IInv'
<1> SUFFICES ASSUME IInv, [Next]_vars PROVE IInv'
  OBVIOUS
<1>1. ASSUME NEW g \in Gens, SetConfig(g) PROVE IInv'
  BY <1>1, SetConfigStep
<1>2. CASE Synchronize
  BY <1>2, SyncStep
<1>3. ASSUME NEW id \in Ids, NEW fw \in Firmwares, InsertOrUpdateDisk(id, fw)
      PROVE  IInv'
  BY <1>3, InsertStep
<1>4. ASSUME NEW id \in Ids, RemoveDisk(id) PROVE IInv'
  BY <1>4, RemoveStep
<1>5. CASE UNCHANGED vars
  BY <1>5 DEF vars, IInv, TypeOK, PublishedCurrent, NewestConfigInForce,
              NothingDeliveredYet
<1>. QED
  BY <1>1, <1>2, <1>3, <1>4, <1>5 DEF Next

\* The invariant holds in every reachable state.
LEMMA AlwaysIInv == Spec => []IInv
BY InitIInv, NextIInv, PTL DEF Spec

\* Every disk map and config the StorageManager holds is well typed.
THEOREM TypeCorrect == Spec => []TypeOK
<1>1. IInv => TypeOK
  BY DEF IInv
<1>. QED
  BY AlwaysIInv, <1>1, PTL

\* Every change of the disk map made by set_config, synchronize,
\* insert_or_update_disk and remove_disk reaches the disk_updates watch
\* channel: the published AllDisks always holds the current disks.
THEOREM PublishedCurrentHolds == Spec => []PublishedCurrent
<1>1. IInv => PublishedCurrent
  BY DEF IInv
<1>. QED
  BY AlwaysIInv, <1>1, PTL

\* set_config's generation check never lets a late or repeated config roll
\* the requested disks back: the config in force is always the one of the
\* newest generation delivered, whatever order the configs arrive in.
THEOREM NewestConfigHolds == Spec => []NewestConfigInForce
<1>1. IInv => NewestConfigInForce
  BY DEF IInv
<1>. QED
  BY AlwaysIInv, <1>1, PTL

\* Every synchronize_disk_management call returns a result that describes
\* exactly the disks it leaves managed: Ok for a requested disk exactly
\* when it is explicitly managed with the requested zpool id, even when
\* Disk::new fails for some disks, and no unrequested U.2 stays managed.
THEOREM SyncAccurate == Spec => SyncResultAccurate
<1>1. IInv => (Synchronize => SyncOutcome)
  BY SyncStep
<1>2. IInv => [Synchronize => SyncOutcome]_vars
  BY <1>1
<1>. QED
  BY AlwaysIInv, <1>2, PTL DEF SyncResultAccurate, SyncOutcome

=============================================================================
