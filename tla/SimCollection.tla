--------------------------- MODULE SimCollection ---------------------------
(***************************************************************************)
(* The simulated sled agent's object collection                           *)
(* (src/sled_agent/sim/mod.rs): SimObject::transition and                  *)
(* transition_finish, and SimCollection::sim_ensure, sim_poke and the      *)
(* per-object background task sim_step, in SimMode::Auto.                  *)
(*                                                                         *)
(* The map `objects` is guarded by one futures Mutex; sim_ensure holds it  *)
(* for its whole body and sim_poke for its first block, so each is one     *)
(* step.  sim_poke then awaits the controller notification and closes the  *)
(* channel of an object it destroyed: two more steps.  Each object created *)
(* in Auto mode gets a channel of SIM_CHANNEL_BUFFER_SIZE = 0, which for a *)
(* futures mpsc channel with one sender holds at most one message, and a   *)
(* spawned sim_step task reading it.  An id may be created again after its *)
(* object was destroyed; each creation is an incarnation with its own      *)
(* channel and task, so a task is indexed by <<id, incarnation>>.          *)
(*                                                                         *)
(* The Simulatable type is SimDisk (sim/disk.rs is not part of this        *)
(* source); its transition functions are taken from test_sim_disk.         *)
(***************************************************************************)
EXTENDS Naturals

CONSTANTS
  Ids,             \* object ids (Uuid keys of the map)
  Instances,       \* instance ids a disk may be attached to
  NoInst,          \* no instance
  MaxEnsures,      \* bound on sim_ensure calls
  MaxIncarnations  \* bound on creations of one id

ASSUME SimAssumption ==
  /\ NoInst \notin Instances
  /\ MaxEnsures \in Nat /\ MaxIncarnations \in Nat \ {0}

Incs == 1 .. MaxIncarnations
Tasks == Ids \X Incs

(***************************************************************************)
(* SimDisk, from test_sim_disk (mod.rs lines 837-979).                     *)
(***************************************************************************)
DiskState(k, i) == [kind |-> k, inst |-> i]
DetachedKinds == {"Detached", "Destroyed", "Faulted"}
DiskStates ==
  {DiskState(k, NoInst) : k \in DetachedKinds \cup {"Creating"}}
    \cup {DiskState(k, i) : k \in {"Attaching", "Attached", "Detaching"},
                            i \in Instances}
\* ApiDiskStateRequested: attach to an instance, or a detached state.
Targets ==
  {DiskState("Attached", i) : i \in Instances}
    \cup {DiskState(k, NoInst) : k \in DetachedKinds}
None == [kind |-> "None", inst |-> NoInst]

IsAttached(s) == s.kind \in {"Attaching", "Attached", "Detaching"}

\* next_state_for_new_target: the state after the request and the async
\* request left pending, or an InvalidRequest error.
NextForNewTarget(cur, target) ==
  IF target.kind = "Attached"
    THEN CASE ~IsAttached(cur) ->
                [ok |-> TRUE, state |-> DiskState("Attaching", target.inst),
                 req |-> target]
           [] cur.kind = "Detaching" ->
                [ok |-> FALSE, state |-> cur, req |-> None]
           [] cur.inst = target.inst ->
                [ok |-> TRUE, state |-> cur, req |-> None]
           [] OTHER -> [ok |-> FALSE, state |-> cur, req |-> None]
    ELSE IF ~IsAttached(cur)
           THEN [ok |-> TRUE, state |-> target, req |-> None]
           ELSE [ok |-> TRUE, state |-> DiskState("Detaching", cur.inst),
                 req |-> target]

\* next_state_for_async_transition_finish: a disk's async transitions end
\* in the requested state and never start another one.
FinishAsync(req) ==
  IF req.kind = "Attached" THEN req ELSE DiskState(req.kind, NoInst)

ReadyToDestroy(s) == s.kind = "Destroyed"

(***************************************************************************)
(* SimObject and SimCollection.                                            *)
(***************************************************************************)
VARIABLES
  objects,   \* objects[id]: [cur, req, inc] of the SimObject in the map, or Absent
  created,   \* created[id]: incarnations of id created so far
  chan,      \* chan[t]: messages buffered in incarnation t's channel (0 or 1)
  closed,    \* closed[t]: the channel's sender was closed or dropped
  task,      \* task[t]: where incarnation t's sim_step task is
  pending,   \* pending[t]: the state and destroyed incarnation sim_poke holds
  notified,  \* notified[id]: the last state sim_poke notified the controller of
  ensures    \* sim_ensure calls made

vars == <<objects, created, chan, closed, task, pending, notified, ensures>>

Absent == [cur |-> None, req |-> None, inc |-> 0]
NoPending == [state |-> None, destroyed |-> 0]
TaskStates == {"unborn", "wait", "poke", "notify", "exit", "panicked"}

\* try_send(()) on incarnation t's channel: a full buffer drops the
\* message; a disconnected channel would fail the assertion, and cannot
\* occur for an object in the map.
TrySendDropped(c, t) == c
TrySendQueued(c, t) == [c EXCEPT ![t] = @ + 1]
TrySend(c, t) == [c EXCEPT ![t] = 1]

(***************************************************************************)
(* SimObject::transition on obj: the result, the object after it, and      *)
(* whether a message is sent to the background task.                       *)
(***************************************************************************)
Transition(obj, target) ==
  LET r == NextForNewTarget(obj.cur, target) IN
  IF ~r.ok THEN [ok |-> FALSE, obj |-> obj, send |-> FALSE]
  ELSE IF r.state = obj.cur THEN [ok |-> TRUE, obj |-> obj, send |-> FALSE]
  ELSE [ok |-> TRUE, obj |-> [obj EXCEPT !.cur = r.state, !.req = r.req],
        send |-> r.req # None]

\* SimObject::transition_finish
TransitionFinish(obj) ==
  IF obj.req = None THEN obj
  ELSE [obj EXCEPT !.cur = FinishAsync(obj.req), !.req = None]

(***************************************************************************)
(* sim_ensure(id, current, target) with the mutex held.  A new object is   *)
(* created from `current`, with a channel and a spawned sim_step task, and *)
(* kept only if the transition succeeds; a dropped new object drops its    *)
(* sender, which ends the task.                                            *)
(***************************************************************************)
EnsureNew(id, current, target) ==
  LET k == created[id] + 1
      t == <<id, k>>
      tr == Transition([cur |-> current, req |-> None, inc |-> k], target)
  IN
  /\ ensures < MaxEnsures
  /\ objects[id] = Absent
  /\ created[id] < MaxIncarnations
  /\ created' = [created EXCEPT ![id] = k]
  /\ task' = [task EXCEPT ![t] = "wait"]
  /\ IF tr.ok
       THEN /\ objects' = [objects EXCEPT ![id] = tr.obj]
            /\ chan' = IF tr.send THEN TrySend(chan, t) ELSE chan
            /\ UNCHANGED closed
       ELSE /\ UNCHANGED <<objects, chan>>
            /\ closed' = [closed EXCEPT ![t] = TRUE]
  /\ ensures' = ensures + 1
  /\ UNCHANGED <<pending, notified>>

EnsureExisting(id, target) ==
  LET obj == objects[id]
      tr == Transition(obj, target)
  IN
  /\ ensures < MaxEnsures
  /\ obj # Absent
  /\ objects' = [objects EXCEPT ![id] = tr.obj]
  /\ chan' = IF tr.send THEN TrySend(chan, <<id, obj.inc>>) ELSE chan
  /\ ensures' = ensures + 1
  /\ UNCHANGED <<created, closed, task, pending, notified>>

(***************************************************************************)
(* sim_step: rx.next() yields a buffered message, or None once the sender  *)
(* is closed and the buffer empty; the 1500 ms sleep is a delay only.      *)
(***************************************************************************)
StepReceive(t) ==
  /\ task[t] = "wait"
  /\ chan[t] = 1
  /\ chan' = [chan EXCEPT ![t] = 0]
  /\ task' = [task EXCEPT ![t] = "poke"]
  /\ UNCHANGED <<objects, created, closed, pending, notified, ensures>>

StepExit(t) ==
  /\ task[t] = "wait"
  /\ chan[t] = 0
  /\ closed[t]
  /\ task' = [task EXCEPT ![t] = "exit"]
  /\ UNCHANGED <<objects, created, chan, closed, pending, notified, ensures>>

(***************************************************************************)
(* sim_poke(id), the block under the mutex: remove the object (unwrap),    *)
(* finish its transition, and put it back unless it came to rest ready to  *)
(* be destroyed.  An absent object panics the task.                        *)
(***************************************************************************)
PokeLocked(t) ==
  LET id == t[1]
      obj == TransitionFinish(objects[id])
      destroy == obj.req = None /\ ReadyToDestroy(obj.cur)
  IN
  /\ task[t] = "poke"
  /\ IF objects[id] = Absent
       THEN /\ task' = [task EXCEPT ![t] = "panicked"]
            /\ UNCHANGED <<objects, pending>>
       ELSE /\ objects' = [objects EXCEPT ![id] = IF destroy THEN Absent ELSE obj]
            /\ pending' = [pending EXCEPT ![t] =
                             [state |-> obj.cur,
                              destroyed |-> IF destroy THEN obj.inc ELSE 0]]
            /\ task' = [task EXCEPT ![t] = "notify"]
  /\ UNCHANGED <<created, chan, closed, notified, ensures>>

PokeNotifyOnce(t) ==
  LET id == t[1] IN
  /\ task[t] = "notify"
  /\ notified' = [notified EXCEPT ![id] = pending[t].state]
  /\ closed' = IF pending[t].destroyed = 0 THEN closed
               ELSE [closed EXCEPT ![<<id, pending[t].destroyed>>] = TRUE]
  /\ pending' = [pending EXCEPT ![t] = NoPending]
  /\ task' = [task EXCEPT ![t] = "exit"]
  /\ UNCHANGED <<objects, created, chan, ensures>>

\* sim_poke, after the mutex: notify the controller, then close the
\* channel of the destroyed object.
PokeNotify(t) ==
  LET id == t[1] IN
  /\ task[t] = "notify"
  /\ notified' = [notified EXCEPT ![id] = pending[t].state]
  /\ closed' = IF pending[t].destroyed = 0 THEN closed
               ELSE [closed EXCEPT ![<<id, pending[t].destroyed>>] = TRUE]
  /\ pending' = [pending EXCEPT ![t] = NoPending]
  /\ task' = [task EXCEPT ![t] = "wait"]
  /\ UNCHANGED <<objects, created, chan, ensures>>

Init ==
  /\ objects = [id \in Ids |-> Absent]
  /\ created = [id \in Ids |-> 0]
  /\ chan = [t \in Tasks |-> 0]
  /\ closed = [t \in Tasks |-> FALSE]
  /\ task = [t \in Tasks |-> "unborn"]
  /\ pending = [t \in Tasks |-> NoPending]
  /\ notified = [id \in Ids |-> None]
  /\ ensures = 0

\* The states a caller passes as `current` for a new disk.
InitialStates == {DiskState("Creating", NoInst), DiskState("Detached", NoInst)}

TaskStep(t) == StepReceive(t) \/ StepExit(t) \/ PokeLocked(t) \/ PokeNotify(t)

Next ==
  \/ \E id \in Ids, c \in InitialStates, g \in Targets : EnsureNew(id, c, g)
  \/ \E id \in Ids, g \in Targets : EnsureExisting(id, g)
  \/ \E t \in Tasks : TaskStep(t)

\* The tokio runtime runs every spawned task that can make progress, and
\* its sleep always ends: weak fairness for each task's steps.
Spec == Init /\ [][Next]_vars /\ \A t \in Tasks : WF_vars(TaskStep(t))

-----------------------------------------------------------------------------
(* Properties *)

ObjectRecs == [cur : DiskStates, req : Targets \cup {None}, inc : Incs]

TypeOK ==
  /\ objects \in [Ids -> ObjectRecs \cup {Absent}]
  /\ created \in [Ids -> 0 .. MaxIncarnations]
  /\ chan \in [Tasks -> 0 .. 1]
  /\ closed \in [Tasks -> BOOLEAN]
  /\ task \in [Tasks -> TaskStates]
  /\ pending \in [Tasks -> [state : DiskStates \cup {None},
                            destroyed : 0 .. MaxIncarnations]]
  /\ notified \in [Ids -> DiskStates \cup {None}]
  /\ ensures \in 0 .. MaxEnsures

\* The wakeup argument of the SIM_CHANNEL_BUFFER_SIZE comment: while an
\* object in the map has an asynchronous transition pending, its task has
\* a message buffered or is about to poke it; a message dropped by a full
\* buffer is never the only one.
WakeupPending ==
  \A id \in Ids :
    objects[id] # Absent /\ objects[id].req # None =>
      LET t == <<id, objects[id].inc>> IN chan[t] = 1 \/ task[t] = "poke"

\* Every asynchronous transition sim_ensure starts is eventually finished
\* by the background task (or the object leaves the map).
AsyncTransitionsFinish ==
  \A id \in Ids :
    (objects[id] # Absent /\ objects[id].req # None)
      ~> (objects[id] = Absent \/ objects[id].req = None)

\* The claim of sim_poke's comment: the object is always in the map when
\* a poke runs, so objects.remove(&id).unwrap() never panics.
PokeFindsObject == \A t \in Tasks : task[t] # "panicked"

=============================================================================
