------------------------- MODULE StorageResources -------------------------
(***************************************************************************)
(* The sled agent's view of its physical disks                             *)
(* (sled-storage/src/resources.rs): the generation-numbered config that    *)
(* Nexus last sent, the disks the hardware monitor observed and how each   *)
(* is managed, and the AllDisks value published on a watch channel.        *)
(*                                                                         *)
(* StorageResources is owned by the StorageManager task, which serves one  *)
(* request at a time with &mut self, so each method is one atomic step.    *)
(* Nexus requests (set_config, then synchronize_disk_management) and       *)
(* hardware events (insert_or_update_disk, remove_disk) interleave freely, *)
(* and a config may arrive late or twice: any generation may be delivered  *)
(* at any time.  Disk::new (disk.rs, not part of this source) either       *)
(* succeeds or fails with a key-manager or another error.  The build is a  *)
(* production build: cfg(test) is off in remove_disk.                     *)
(***************************************************************************)
EXTENDS Naturals

CONSTANTS
  U2s,        \* identities of U.2 disks the hardware may report
  M2s,        \* identities of M.2 disks the hardware may report
  Synthetic,  \* identities of synthetic disks
  Pools,      \* zpool ids Nexus may assign
  Firmwares,  \* firmware metadata a report may carry
  NoPool,     \* no zpool id known (unmanaged and M.2 disks)
  MaxGen,     \* generations 1 .. MaxGen of the config
  Configs     \* Configs[g]: the disks and zpool ids Nexus sends at generation g

Ids == U2s \cup M2s
Gens == 1 .. MaxGen
\* An OmicronPhysicalDisksConfig's disks: a zpool id per requested U.2.
ConfigMaps == UNION {[S -> Pools] : S \in SUBSET U2s}

ASSUME StorageAssumption ==
  /\ U2s \cap M2s = {} /\ Synthetic \subseteq Ids
  /\ NoPool \notin Pools
  /\ MaxGen \in Nat \ {0}
  /\ Configs \in [Gens -> ConfigMaps]

(***************************************************************************)
(* ManagedDisk: a record with the management kind, the firmware metadata   *)
(* of the last report, and the zpool id of an explicitly managed disk.     *)
(***************************************************************************)
Disk(m, fw, p) == [mgmt |-> m, fw |-> fw, pool |-> p]
Missing == Disk("Missing", NoPool, NoPool)
U2States ==
  {Missing} \cup {Disk("Unmanaged", f, NoPool) : f \in Firmwares}
    \cup {Disk("Explicit", f, p) : f \in Firmwares, p \in Pools}
M2States == {Missing} \cup {Disk("Implicit", f, NoPool) : f \in Firmwares}

\* DiskManagementStatus of a requested disk; "Skipped" is the implicitly
\* managed disk, for which no status is pushed.
Statuses == {"Ok", "NotFound", "KeyManager", "Other", "ZpoolUuidMismatch",
             "Skipped"}
NoResult == [x \in {} |-> "Ok"]

VARIABLES
  generation,  \* disks.generation
  cpDisks,     \* control_plane_disks: identity -> zpool id
  disks,       \* disks.inner.values, Missing where the map has no entry
  published,   \* the AllDisks value held by the disk_updates watch channel
  result,      \* the DisksManagementResult of the last synchronize call
  newest       \* history: the newest generation Nexus has delivered (0: none)

vars == <<generation, cpDisks, disks, published, result, newest>>

AllDisks == [gen |-> generation, values |-> disks]

\* disk_updates.send_replace(self.disks.clone())
Publish == published' = [gen |-> generation, values |-> disks']

Init ==
  /\ generation = 1
  /\ cpDisks = [id \in {} |-> NoPool]
  /\ disks = [id \in Ids |-> Missing]
  /\ published = AllDisks
  /\ result = NoResult
  /\ newest = 0

(***************************************************************************)
(* set_config: a config of an older generation is ignored; one of the same *)
(* or a newer generation replaces the requested disks.                     *)
(***************************************************************************)
SetConfigUnguarded(g) ==
  /\ generation' = g /\ cpDisks' = Configs[g]
SetConfigApply(g) ==
  IF generation > g THEN UNCHANGED <<generation, cpDisks>>
  ELSE generation' = g /\ cpDisks' = Configs[g]

SetConfig(g) ==
  /\ SetConfigApply(g)
  /\ newest' = IF g > newest THEN g ELSE newest
  /\ UNCHANGED <<disks, published, result>>

(***************************************************************************)
(* synchronize_disk_management.  The first loop unmanages every explicitly *)
(* managed disk no longer requested.  The second visits every requested    *)
(* disk: a missing one is NotFound; an unmanaged one goes through          *)
(* begin_disk_management, whose Disk::new outcome is `out[id]`; an         *)
(* explicitly managed one must carry the requested zpool id; an implicitly *)
(* managed one is skipped.  A failure of one disk does not stop the loop.  *)
(***************************************************************************)
Unmanage(d, cp) ==
  [id \in Ids |->
     IF d[id].mgmt = "Explicit" /\ id \notin DOMAIN cp
       THEN Disk("Unmanaged", d[id].fw, NoPool) ELSE d[id]]

ManageOutcomes == {"Ok", "KeyManager", "Other"}

ManagedStatusNoPoolCheck(d, cp, id, out) ==
  CASE d[id].mgmt = "Missing"   -> "NotFound"
    [] d[id].mgmt = "Unmanaged" -> out[id]
    [] d[id].mgmt = "Explicit"  -> "Ok"
    [] OTHER                    -> "Skipped"

\* The status pushed for requested disk id, given the disks after the first loop.
ManageStatus(d, cp, id, out) ==
  CASE d[id].mgmt = "Missing"   -> "NotFound"
    [] d[id].mgmt = "Unmanaged" -> out[id]
    [] d[id].mgmt = "Explicit"  ->
         IF d[id].pool = cp[id] THEN "Ok" ELSE "ZpoolUuidMismatch"
    [] OTHER                    -> "Skipped"

\* The disks after the second loop: an adopted disk is explicitly managed
\* with the requested zpool id.
Manage(d, cp, out) ==
  [id \in Ids |->
     IF id \in DOMAIN cp /\ d[id].mgmt = "Unmanaged" /\ out[id] = "Ok"
       THEN Disk("Explicit", d[id].fw, cp[id]) ELSE d[id]]

Synchronize ==
  LET d1 == Unmanage(disks, cpDisks)
      adoptable == {id \in DOMAIN cpDisks : d1[id].mgmt = "Unmanaged"}
  IN
  \E out \in [adoptable -> ManageOutcomes] :
    /\ disks' = Manage(d1, cpDisks, out)
    /\ result' = [id \in DOMAIN cpDisks |-> ManageStatus(d1, cpDisks, id, out)]
    /\ IF disks' # disks THEN Publish ELSE UNCHANGED published
    /\ UNCHANGED <<generation, cpDisks, newest>>

(***************************************************************************)
(* insert_or_update_disk(raw): a known disk takes the report's firmware    *)
(* metadata if it differs; a new U.2 is inserted unmanaged; a new M.2 is   *)
(* adopted through Disk::new, and nothing is inserted when that fails.     *)
(***************************************************************************)
InsertNewDiskSwapped(id, fw, ok) ==
  IF id \in M2s THEN Disk("Unmanaged", fw, NoPool)
  ELSE IF ok THEN Disk("Implicit", fw, NoPool) ELSE Missing

InsertNewDisk(id, fw, ok) ==
  IF id \in U2s THEN Disk("Unmanaged", fw, NoPool)
  ELSE IF ok THEN Disk("Implicit", fw, NoPool) ELSE Missing

UpdateUnmanagedSilently(id, fw) ==
  /\ disks' = [disks EXCEPT ![id].fw = fw]
  /\ UNCHANGED published

UpdateKnownDisk(id, fw) ==
  /\ disks' = [disks EXCEPT ![id].fw = fw]
  /\ Publish

InsertOrUpdateDisk(id, fw) ==
  /\ \/ /\ disks[id] # Missing
        /\ IF disks[id].fw # fw THEN UpdateKnownDisk(id, fw)
           ELSE UNCHANGED <<disks, published>>
     \/ /\ disks[id] = Missing
        /\ \E ok \in BOOLEAN :
             /\ disks' = [disks EXCEPT ![id] = InsertNewDisk(id, fw, ok)]
             /\ IF disks' # disks THEN Publish ELSE UNCHANGED published
  /\ UNCHANGED <<generation, cpDisks, result, newest>>

(***************************************************************************)
(* remove_disk: an unknown disk, or a synthetic one, is left alone.        *)
(***************************************************************************)
RemoveDisk(id) ==
  /\ IF disks[id] = Missing \/ id \in Synthetic
       THEN UNCHANGED <<disks, published>>
       ELSE /\ disks' = [disks EXCEPT ![id] = Missing]
            /\ Publish
  /\ UNCHANGED <<generation, cpDisks, result, newest>>

Next ==
  \/ \E g \in Gens : SetConfig(g)
  \/ Synchronize
  \/ \E id \in Ids, fw \in Firmwares : InsertOrUpdateDisk(id, fw)
  \/ \E id \in Ids : RemoveDisk(id)

Spec == Init /\ [][Next]_vars

-----------------------------------------------------------------------------
(* Properties *)

TypeOK ==
  /\ generation \in Gens
  /\ cpDisks \in ConfigMaps
  /\ disks \in [Ids -> U2States \cup M2States]
  /\ \A id \in U2s : disks[id] \in U2States
  /\ \A id \in M2s : disks[id] \in M2States
  /\ published.gen \in Gens
  /\ result \in UNION {[S -> Statuses] : S \in SUBSET U2s}
  /\ newest \in 0 .. MaxGen

\* Every change to the disk map reaches the watch channel: subscribers of
\* watch_disks always see the current disks once the manager is idle.
PublishedCurrent == published.values = disks

\* Configs delivered late or twice never roll the requested disks back:
\* the config in force is the one of the newest generation delivered.
NewestConfigInForce ==
  newest # 0 => generation = newest /\ cpDisks = Configs[newest]

\* What synchronize_disk_management returns describes the disks it leaves:
\* a requested disk is reported Ok exactly when it is explicitly managed
\* with the requested zpool id, and no disk that is not requested stays
\* explicitly managed.
SyncResultAccurate ==
  [][Synchronize =>
       /\ DOMAIN result' = DOMAIN cpDisks
       /\ \A id \in DOMAIN cpDisks :
            (result'[id] = "Ok") <=>
              (disks'[id].mgmt = "Explicit" /\ disks'[id].pool = cpDisks[id])
       /\ \A id \in U2s :
            disks'[id].mgmt = "Explicit" => id \in DOMAIN cpDisks]_vars

\* The comment on AllDisks.generation: it is the generation of the config
\* in force.  Watchers read it from the published value.
PublishedGenerationCurrent == published.gen = generation

=============================================================================
