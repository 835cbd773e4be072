------------------- MODULE RegionSnapshotReplacementStart -------------------
(***************************************************************************)
(* The Nexus background task RegionSnapshotReplacementDetector             *)
(* (nexus/src/app/background/tasks/region_snapshot_replacement_start.rs). *)
(* One activation runs two loops:                                          *)
(*  1. create_requests_for_region_snapshots_on_expunged_disks: for every   *)
(*     region snapshot on an expunged disk, look up its replacement        *)
(*     request and create one if there is none;                            *)
(*  2. start_requested_region_snapshot_replacements: for every request in  *)
(*     state Requested, look its region snapshot up; if it is gone,        *)
(*     complete the request, else start the start saga.                    *)
(*                                                                         *)
(* Every datastore call is an await at which the rest of the system moves: *)
(* disks are expunged, region snapshots deleted, other replacements take   *)
(* and release a volume's repair lock, and started sagas run.  Those are   *)
(* environment actions modelled from what the task expects of them.  Any   *)
(* datastore call may fail.  The lookup and the create of loop 1 are one   *)
(* step: nothing else in the model creates requests.  Rows come back in a  *)
(* fixed order, `Order`.                                                   *)
(***************************************************************************)
EXTENDS Naturals, Sequences

CONSTANTS
  RS,       \* region snapshots (dataset, region, snapshot)
  Order,    \* the order the datastore returns rows in
  Broken,   \* region snapshots whose region_snapshot_get always fails
  NoRS,     \* no region snapshot
  MaxLocks  \* competing replacements that lock one volume

ASSUME ReplacementAssumption ==
  \* Order lists every region snapshot, each once.
  /\ Order \in Seq(RS)
  /\ \A rs \in RS : \E i \in 1 .. Len(Order) : Order[i] = rs
  /\ \A i, j \in 1 .. Len(Order) : Order[i] = Order[j] => i = j
  /\ Broken \subseteq RS /\ NoRS \notin RS /\ MaxLocks \in Nat

\* The first element of S in datastore order.
First(S) == Order[CHOOSE i \in 1 .. Len(Order) :
                    Order[i] \in S /\ \A j \in 1 .. i - 1 : Order[j] \notin S]

RequestStates == {"None", "Requested", "Running", "Complete"}
Phases == {"idle", "create", "list", "start", "act"}

VARIABLES
  exists,     \* exists[rs]: the region snapshot row is present
  expunged,   \* expunged[rs]: its physical disk is expunged
  request,    \* request[rs]: state of its replacement request, "None" if none
  locked,     \* locked[rs]: another replacement holds its volume's repair lock
  locks,      \* locks[rs]: competing replacements that have locked it so far
  sagaQueued, \* sagaQueued[rs]: a start saga for its request was started and has not run
  fastDone,   \* history: fastDone[rs] when the task completed the request itself
  pc,         \* where the activation is
  todo,       \* the rows of the current loop not yet visited
  cur,        \* the request whose region snapshot was just looked up
  found       \* what region_snapshot_get returned for it

vars == <<exists, expunged, request, locked, locks, sagaQueued, fastDone,
          pc, todo, cur, found>>
env == <<exists, expunged, request, locked, locks, sagaQueued, fastDone>>
task == <<pc, todo, cur, found>>

Init ==
  /\ exists = [rs \in RS |-> TRUE]
  /\ expunged = [rs \in RS |-> FALSE]
  /\ request = [rs \in RS |-> "None"]
  /\ locked = [rs \in RS |-> FALSE]
  /\ locks = [rs \in RS |-> 0]
  /\ sagaQueued = [rs \in RS |-> FALSE]
  /\ fastDone = [rs \in RS |-> FALSE]
  /\ pc = "idle" /\ todo = {} /\ cur = NoRS /\ found = FALSE

-----------------------------------------------------------------------------
(* Loop 1: create_requests_for_region_snapshots_on_expunged_disks *)

\* find_region_snapshots_on_expunged_physical_disks; on failure the
\* function returns and the activation goes on with loop 2.
Find(ok) ==
  /\ pc = "idle"
  /\ IF ok THEN /\ todo' = {rs \in RS : exists[rs] /\ expunged[rs]}
                /\ pc' = "create"
           ELSE /\ pc' = "list" /\ UNCHANGED todo
  /\ UNCHANGED <<env, cur, found>>

\* One region snapshot: the lookup, and the create when no request exists.
\* A failed lookup, a repair-lock Conflict and any other create error all
\* go on with the next row.
NeedsRequestInverted(rs) == request[rs] # "None"
NeedsRequest(rs) == request[rs] = "None"

CreateStep(rs, lookupOk, createOk) ==
  /\ pc = "create" /\ todo # {} /\ rs = First(todo)
  /\ request' = IF lookupOk /\ NeedsRequest(rs) /\ ~locked[rs] /\ createOk
                  THEN [request EXCEPT ![rs] = "Requested"] ELSE request
  /\ todo' = todo \ {rs}
  /\ UNCHANGED <<exists, expunged, locked, locks, sagaQueued, fastDone, pc, cur, found>>

CreateDone ==
  /\ pc = "create" /\ todo = {}
  /\ pc' = "list"
  /\ UNCHANGED <<env, todo, cur, found>>

-----------------------------------------------------------------------------
(* Loop 2: start_requested_region_snapshot_replacements *)

\* get_requested_region_snapshot_replacements; on failure the activation ends.
List(ok) ==
  /\ pc = "list"
  /\ IF ok THEN /\ todo' = {rs \in RS : request[rs] = "Requested"}
                /\ pc' = "start"
           ELSE /\ pc' = "idle" /\ UNCHANGED todo
  /\ UNCHANGED <<env, cur, found>>

\* region_snapshot_get for the next request.  A failure returns from the
\* function: the requests after this one are not visited.
StartLookup(rs, ok) ==
  /\ pc = "start" /\ todo # {} /\ rs = First(todo)
  /\ ok => rs \notin Broken
  /\ IF ok THEN /\ pc' = "act" /\ cur' = rs /\ found' = exists[rs]
                /\ UNCHANGED todo
           ELSE /\ pc' = "idle" /\ todo' = {}
                /\ UNCHANGED <<cur, found>>
  /\ UNCHANGED env

ActOnLookupInverted(ok) ==
  IF found
    THEN /\ request' = IF ok /\ request[cur] = "Requested"
                         THEN [request EXCEPT ![cur] = "Complete"] ELSE request
         /\ fastDone' = IF ok /\ request[cur] = "Requested"
                          THEN [fastDone EXCEPT ![cur] = TRUE] ELSE fastDone
         /\ UNCHANGED sagaQueued
    ELSE /\ sagaQueued' = IF ok THEN [sagaQueued EXCEPT ![cur] = TRUE]
                          ELSE sagaQueued
         /\ UNCHANGED <<request, fastDone>>

ActOnLookupNoStart(ok) ==
  IF ~found
    THEN /\ request' = IF ok /\ request[cur] = "Requested"
                         THEN [request EXCEPT ![cur] = "Complete"] ELSE request
         /\ fastDone' = IF ok /\ request[cur] = "Requested"
                          THEN [fastDone EXCEPT ![cur] = TRUE] ELSE fastDone
         /\ UNCHANGED sagaQueued
    ELSE UNCHANGED <<sagaQueued, request, fastDone>>

\* The region snapshot is gone: set_region_snapshot_replacement_complete_
\* from_requested, which only moves a request still in state Requested.
\* Otherwise send_start_request starts the saga without waiting for it.
ActOnLookup(ok) ==
  IF ~found
    THEN /\ request' = IF ok /\ request[cur] = "Requested"
                         THEN [request EXCEPT ![cur] = "Complete"] ELSE request
         /\ fastDone' = IF ok /\ request[cur] = "Requested"
                          THEN [fastDone EXCEPT ![cur] = TRUE] ELSE fastDone
         /\ UNCHANGED sagaQueued
    ELSE /\ sagaQueued' = IF ok THEN [sagaQueued EXCEPT ![cur] = TRUE]
                          ELSE sagaQueued
         /\ UNCHANGED <<request, fastDone>>

StartActNoReset(ok) ==
  /\ pc = "act"
  /\ ActOnLookup(ok)
  /\ todo' = todo \ {cur} /\ pc' = "start" /\ UNCHANGED <<cur, found>>
  /\ UNCHANGED <<exists, expunged, locked, locks>>

StartAct(ok) ==
  /\ pc = "act"
  /\ ActOnLookup(ok)
  /\ todo' = todo \ {cur} /\ pc' = "start" /\ cur' = NoRS /\ found' = FALSE
  /\ UNCHANGED <<exists, expunged, locked, locks>>

StartDone ==
  /\ pc = "start" /\ todo = {}
  /\ pc' = "idle"
  /\ UNCHANGED <<env, todo, cur, found>>

TaskStep ==
  \/ \E ok \in BOOLEAN : Find(ok) \/ List(ok) \/ StartAct(ok)
  \/ \E rs \in RS, a, b \in BOOLEAN : CreateStep(rs, a, b)
  \/ \E rs \in RS, ok \in BOOLEAN : StartLookup(rs, ok)
  \/ CreateDone \/ StartDone

-----------------------------------------------------------------------------
(* The rest of the system *)

Expunge(rs) ==
  /\ ~expunged[rs] /\ expunged' = [expunged EXCEPT ![rs] = TRUE]
  /\ UNCHANGED <<exists, request, locked, locks, sagaQueued, fastDone>> /\ UNCHANGED task

\* The snapshot is deleted and its region snapshot goes with it.
DeleteRegionSnapshot(rs) ==
  /\ exists[rs] /\ exists' = [exists EXCEPT ![rs] = FALSE]
  /\ UNCHANGED <<expunged, request, locked, locks, sagaQueued, fastDone>> /\ UNCHANGED task

\* Another replacement locks the volume, and later releases it.
Lock(rs) ==
  /\ ~locked[rs] /\ locks[rs] < MaxLocks
  /\ locked' = [locked EXCEPT ![rs] = TRUE]
  /\ locks' = [locks EXCEPT ![rs] = @ + 1]
  /\ UNCHANGED <<exists, expunged, request, sagaQueued, fastDone>> /\ UNCHANGED task
Unlock(rs) ==
  /\ locked[rs] /\ locked' = [locked EXCEPT ![rs] = FALSE]
  /\ UNCHANGED <<exists, expunged, request, locks, sagaQueued, fastDone>> /\ UNCHANGED task

\* A started saga runs: it moves a request still Requested on, or unwinds.
\* Further starts while one is queued find the request moved and unwind.
SagaRun(rs, ok) ==
  /\ sagaQueued[rs]
  /\ sagaQueued' = [sagaQueued EXCEPT ![rs] = FALSE]
  /\ request' = IF ok /\ request[rs] = "Requested"
                  THEN [request EXCEPT ![rs] = "Running"] ELSE request
  /\ UNCHANGED <<exists, expunged, locked, locks, fastDone>> /\ UNCHANGED task

\* The later stages of the replacement finish it.
Finish(rs) ==
  /\ request[rs] = "Running" /\ request' = [request EXCEPT ![rs] = "Complete"]
  /\ UNCHANGED <<exists, expunged, locked, locks, sagaQueued, fastDone>> /\ UNCHANGED task

EnvStep ==
  \E rs \in RS :
    \/ Expunge(rs) \/ DeleteRegionSnapshot(rs) \/ Lock(rs) \/ Unlock(rs)
    \/ Finish(rs) \/ \E ok \in BOOLEAN : SagaRun(rs, ok)

Next == TaskStep \/ EnvStep

(***************************************************************************)
(* Fairness.  The task is activated periodically, and a datastore call     *)
(* that keeps being retried eventually succeeds (strong fairness of each   *)
(* success), except region_snapshot_get on a Broken row.  At most        *)
(* MaxLocks competing replacements lock a volume, each lock is eventually  *)
(* released, and a started saga eventually runs.                           *)
(***************************************************************************)
Fairness ==
  /\ WF_vars(TaskStep)
  /\ SF_vars(Find(TRUE)) /\ SF_vars(List(TRUE))
  /\ \A rs \in RS :
       /\ SF_vars(CreateStep(rs, TRUE, TRUE))
       /\ SF_vars(StartLookup(rs, TRUE))
       /\ SF_vars(cur = rs /\ StartAct(TRUE))
       /\ WF_vars(Unlock(rs))
       /\ WF_vars(\E ok \in BOOLEAN : SagaRun(rs, ok))

Spec == Init /\ [][Next]_vars /\ Fairness

-----------------------------------------------------------------------------
(* Properties *)

TypeOK ==
  /\ exists \in [RS -> BOOLEAN] /\ expunged \in [RS -> BOOLEAN]
  /\ request \in [RS -> RequestStates]
  /\ locked \in [RS -> BOOLEAN] /\ locks \in [RS -> 0 .. MaxLocks]
  /\ sagaQueued \in [RS -> BOOLEAN]
  /\ fastDone \in [RS -> BOOLEAN]
  /\ pc \in Phases /\ todo \subseteq RS
  /\ cur \in (IF pc = "act" THEN todo ELSE {NoRS}) /\ found \in BOOLEAN

\* The task only fast-tracks a request to Complete when its region
\* snapshot is really gone, although the lookup and the completion are two
\* awaits apart.
FastTrackOnlyWhenGone == \A rs \in RS : fastDone[rs] => ~exists[rs]

\* Every region snapshot left on an expunged disk eventually gets a
\* replacement request, despite failed lookups and repair-lock conflicts.
ExpungedEventuallyRequested ==
  \A rs \in RS :
    (exists[rs] /\ expunged[rs]) ~> (request[rs] # "None" \/ ~exists[rs])

\* Every request in state Requested eventually has a start saga invoked,
\* or leaves that state: what the comment on the start loop promises, for
\* every request whose own region snapshot lookup can succeed.
RequestedEventuallyStarted ==
  \A rs \in RS \ Broken :
    request[rs] = "Requested" ~> (sagaQueued[rs] \/ request[rs] # "Requested")

=============================================================================
