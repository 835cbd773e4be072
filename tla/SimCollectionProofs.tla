------------------------ MODULE SimCollectionProofs ------------------------
(***************************************************************************)
(* Proofs about the simulated sled agent's object collection, for every    *)
(* set of ids and instances and every bound on calls and incarnations.     *)
(*                                                                         *)
(* WakeupPending, the argument behind SIM_CHANNEL_BUFFER_SIZE, is          *)
(* inductive together with TypeOK.  A transition that leaves an async      *)
(* request pending changes the object and so sends a message, which fills *)
(* the buffer whatever was in it; a task empties the buffer only by going  *)
(* on to poke, and a poke finishes the transition before it waits again.   *)
(* The steps of a stale incarnation's task, or of the task of an id that   *)
(* was destroyed and created again, touch only their own channel, and a    *)
(* poke on the wrong incarnation finishes the transition too.              *)
(***************************************************************************)
EXTENDS SimCollection, TLAPS

Inv == TypeOK /\ WakeupPending

(***************************************************************************)
(* The SimDisk transition functions and SimObject's two operations.        *)
(***************************************************************************)

\* An object in the map is never the absent record.
LEMMA AbsentNotObject == Absent \notin ObjectRecs
BY SimAssumption DEF Absent, ObjectRecs, Incs

LEMMA NoneNotTarget == None \notin Targets \cup DiskStates
<1>1. \A s \in Targets \cup DiskStates : s.kind # "None"
  BY DEF Targets, DiskStates, DiskState, DetachedKinds
<1>. QED
  BY <1>1 DEF None

\* Rewriting an object's state and request keeps its incarnation.
LEMMA ObjectUpdate ==
  ASSUME NEW obj \in ObjectRecs, NEW c, NEW q
  PROVE  [obj EXCEPT !.cur = c, !.req = q] = [cur |-> c, req |-> q, inc |-> obj.inc]
<1> DEFINE e == [obj EXCEPT !.cur = c, !.req = q]
<1>1. DOMAIN e = {"cur", "req", "inc"}
  BY DEF ObjectRecs
<1>2. e.cur = c /\ e.req = q /\ e.inc = obj.inc
  BY <1>1 DEF ObjectRecs
<1>3. e \in [cur : {c}, req : {q}, inc : {obj.inc}]
  BY <1>1, <1>2
<1>4. \A x \in [cur : {c}, req : {q}, inc : {obj.inc}] :
        x = [cur |-> c, req |-> q, inc |-> obj.inc]
  OBVIOUS
<1>. QED
  BY <1>3, <1>4

\* next_state_for_new_target yields a disk state and a target or nothing.
LEMMA NewTargetType ==
  ASSUME NEW cur \in DiskStates, NEW target \in Targets
  PROVE  LET r == NextForNewTarget(cur, target) IN
         /\ r.ok \in BOOLEAN
         /\ r.state \in DiskStates
         /\ r.req \in Targets \cup {None}
<1>1. CASE target.kind = "Attached"
  <2>1. target.inst \in Instances
    BY <1>1, SimAssumption DEF Targets, DiskState, DetachedKinds
  <2>2. DiskState("Attaching", target.inst) \in DiskStates
    BY <2>1 DEF DiskStates
  <2>. QED
    BY <1>1, <2>2 DEF NextForNewTarget
<1>2. CASE target.kind # "Attached"
  <2>1. target \in DiskStates
    BY <1>2 DEF Targets, DiskStates, DiskState
  <2>2. IsAttached(cur) => DiskState("Detaching", cur.inst) \in DiskStates
    BY DEF IsAttached, DiskStates, DiskState, DetachedKinds
  <2>. QED
    BY <1>2, <2>1, <2>2 DEF NextForNewTarget
<1>. QED
  BY <1>1, <1>2

\* SimObject::transition keeps an object an object of the same incarnation,
\* and a request it leaves pending is new only when it sends a message.
LEMMA TransitionType ==
  ASSUME NEW obj \in ObjectRecs, NEW target \in Targets
  PROVE  LET tr == Transition(obj, target) IN
         /\ tr.obj \in ObjectRecs
         /\ tr.obj.inc = obj.inc
         /\ tr.send \in BOOLEAN
         /\ tr.obj.req # None => tr.send \/ tr.obj = obj
<1> DEFINE r == NextForNewTarget(obj.cur, target)
<1>1. r.ok \in BOOLEAN /\ r.state \in DiskStates /\ r.req \in Targets \cup {None}
  BY NewTargetType DEF ObjectRecs
<1>2. [obj EXCEPT !.cur = r.state, !.req = r.req]
        = [cur |-> r.state, req |-> r.req, inc |-> obj.inc]
  BY ObjectUpdate
<1>3. [cur |-> r.state, req |-> r.req, inc |-> obj.inc] \in ObjectRecs
  BY <1>1 DEF ObjectRecs
<1>. QED
  BY <1>1, <1>2, <1>3 DEF Transition

\* next_state_for_async_transition_finish lands on a disk state.
LEMMA FinishAsyncType ==
  ASSUME NEW req \in Targets
  PROVE  FinishAsync(req) \in DiskStates
BY DEF FinishAsync, Targets, DiskStates, DiskState

\* SimObject::transition_finish leaves no request pending.
LEMMA TransitionFinishType ==
  ASSUME NEW obj \in ObjectRecs
  PROVE  /\ TransitionFinish(obj) \in ObjectRecs
         /\ TransitionFinish(obj).req = None
         /\ TransitionFinish(obj).inc = obj.inc
<1>1. CASE obj.req = None
  BY <1>1 DEF TransitionFinish
<1>2. CASE obj.req # None
  <2>1. FinishAsync(obj.req) \in DiskStates
    BY <1>2, FinishAsyncType DEF ObjectRecs
  <2>2. [obj EXCEPT !.cur = FinishAsync(obj.req), !.req = None]
          = [cur |-> FinishAsync(obj.req), req |-> None, inc |-> obj.inc]
    BY ObjectUpdate
  <2>. QED
    BY <1>2, <2>1, <2>2 DEF TransitionFinish, ObjectRecs
<1>. QED
  BY <1>1, <1>2

(***************************************************************************)
(* The steps.  Each keeps TypeOK and WakeupPending.                        *)
(***************************************************************************)

LEMMA InitInv == Init => Inv
<1> SUFFICES ASSUME Init PROVE Inv
  OBVIOUS
<1>1. Absent \in ObjectRecs \cup {Absent} /\ None \in DiskStates \cup {None}
  OBVIOUS
<1>2. NoPending \in [state : DiskStates \cup {None}, destroyed : 0 .. MaxIncarnations]
  BY SimAssumption DEF NoPending
<1>3. 0 \in 0 .. MaxEnsures /\ 0 \in 0 .. MaxIncarnations
  BY SimAssumption
<1>4. TypeOK
  BY <1>1, <1>2, <1>3 DEF Init, TypeOK, TaskStates
<1>. QED
  BY <1>4 DEF Init, Inv, WakeupPending

\* A message sent is never lost from a full buffer: try_send only fills it.
LEMMA TrySendFills ==
  ASSUME NEW c \in [Tasks -> 0 .. 1], NEW t \in Tasks
  PROVE  /\ TrySend(c, t) \in [Tasks -> 0 .. 1]
         /\ TrySend(c, t)[t] = 1
         /\ \A x \in Tasks : c[x] = 1 => TrySend(c, t)[x] = 1
         /\ \A x \in Tasks \ {t} : TrySend(c, t)[x] = c[x]
BY DEF TrySend

LEMMA EnsureNewStep ==
  ASSUME Inv, NEW id \in Ids, NEW c \in InitialStates, NEW g \in Targets,
         EnsureNew(id, c, g)
  PROVE  Inv'
<1> DEFINE k == created[id] + 1
           t == <<id, k>>
           obj0 == [cur |-> c, req |-> None, inc |-> k]
           tr == Transition(obj0, g)
<1>1. k \in Incs /\ t \in Tasks
  BY SimAssumption DEF Inv, TypeOK, EnsureNew, Incs, Tasks
<1>2. obj0 \in ObjectRecs
  BY <1>1 DEF InitialStates, DiskStates, DiskState, DetachedKinds, ObjectRecs
<1>3. /\ tr.obj \in ObjectRecs /\ tr.obj.inc = k /\ tr.send \in BOOLEAN
      /\ tr.obj.req # None => tr.send
  BY <1>2, TransitionType
<1>4. /\ objects' = IF tr.ok THEN [objects EXCEPT ![id] = tr.obj] ELSE objects
      /\ chan' = IF tr.ok /\ tr.send THEN TrySend(chan, t) ELSE chan
      /\ closed' = IF tr.ok THEN closed ELSE [closed EXCEPT ![t] = TRUE]
      /\ created' = [created EXCEPT ![id] = k]
      /\ task' = [task EXCEPT ![t] = "wait"]
      /\ ensures' = ensures + 1 /\ ensures < MaxEnsures
      /\ created[id] < MaxIncarnations /\ objects[id] = Absent
      /\ UNCHANGED <<pending, notified>>
  BY DEF EnsureNew
<1>5. chan' \in [Tasks -> 0 .. 1] /\ (tr.ok /\ tr.send => chan'[t] = 1)
      /\ \A x \in Tasks \ {t} : chan'[x] = chan[x]
  <2>1. chan \in [Tasks -> 0 .. 1]
    BY DEF Inv, TypeOK
  <2>2. CASE tr.ok /\ tr.send
    <3>1. chan' = TrySend(chan, t)
      BY <1>4, <2>2
    <3>. QED
      BY <1>1, <2>1, <3>1, TrySendFills
  <2>3. CASE ~(tr.ok /\ tr.send)
    BY <1>4, <2>1, <2>3
  <2>. QED
    BY <2>2, <2>3
<1>6. TypeOK'
  <2>1. objects' \in [Ids -> ObjectRecs \cup {Absent}]
    BY <1>3, <1>4 DEF Inv, TypeOK
  <2>2. created' \in [Ids -> 0 .. MaxIncarnations]
    BY <1>1, <1>4 DEF Inv, TypeOK, Incs
  <2>3. closed' \in [Tasks -> BOOLEAN] /\ task' \in [Tasks -> TaskStates]
    BY <1>4 DEF Inv, TypeOK, TaskStates
  <2>4. ensures' \in 0 .. MaxEnsures
    BY <1>4, SimAssumption DEF Inv, TypeOK
  <2>. QED
    BY <1>4, <1>5, <2>1, <2>2, <2>3, <2>4 DEF Inv, TypeOK
<1>7. WakeupPending'
  <2> SUFFICES ASSUME NEW i \in Ids, objects'[i] # Absent, objects'[i].req # None
               PROVE  chan'[<<i, objects'[i].inc>>] = 1
                        \/ task'[<<i, objects'[i].inc>>] = "poke"
    BY DEF WakeupPending
  <2>1. CASE i = id
    BY <1>1, <1>3, <1>4, <1>5, <2>1 DEF Inv, TypeOK
  <2>2. CASE i # id
    <3>1. objects'[i] = objects[i] /\ objects[i] \in ObjectRecs
      BY <1>4, <2>2 DEF Inv, TypeOK
    <3>2. <<i, objects[i].inc>> \in Tasks \ {t}
      BY <2>2, <3>1 DEF ObjectRecs, Tasks
    <3>. QED
      BY <1>4, <1>5, <3>1, <3>2 DEF Inv, WakeupPending, TypeOK
  <2>. QED
    BY <2>1, <2>2
<1>. QED
  BY <1>6, <1>7 DEF Inv

LEMMA EnsureExistingStep ==
  ASSUME Inv, NEW id \in Ids, NEW g \in Targets, EnsureExisting(id, g)
  PROVE  Inv'
<1> DEFINE obj == objects[id]
           t == <<id, obj.inc>>
           tr == Transition(obj, g)
<1>1. obj \in ObjectRecs /\ t \in Tasks
  BY DEF Inv, TypeOK, EnsureExisting, ObjectRecs, Tasks
<1>2. /\ tr.obj \in ObjectRecs /\ tr.obj.inc = obj.inc /\ tr.send \in BOOLEAN
      /\ tr.obj.req # None => tr.send \/ tr.obj = obj
  BY <1>1, TransitionType
<1>3. /\ objects' = [objects EXCEPT ![id] = tr.obj]
      /\ chan' = IF tr.send THEN TrySend(chan, t) ELSE chan
      /\ ensures' = ensures + 1 /\ ensures < MaxEnsures
      /\ UNCHANGED <<created, closed, task, pending, notified>>
  BY DEF EnsureExisting
<1>4. /\ chan' \in [Tasks -> 0 .. 1] /\ (tr.send => chan'[t] = 1)
      /\ \A x \in Tasks : chan[x] = 1 => chan'[x] = 1
      /\ \A x \in Tasks \ {t} : chan'[x] = chan[x]
  <2>1. chan \in [Tasks -> 0 .. 1]
    BY DEF Inv, TypeOK
  <2>2. CASE tr.send
    <3>1. chan' = TrySend(chan, t)
      BY <1>3, <2>2
    <3>. QED
      BY <1>1, <2>1, <3>1, TrySendFills
  <2>3. CASE ~tr.send
    BY <1>3, <2>1, <2>3
  <2>. QED
    BY <2>2, <2>3
<1>5. TypeOK'
  <2>1. objects' \in [Ids -> ObjectRecs \cup {Absent}]
    BY <1>2, <1>3 DEF Inv, TypeOK
  <2>2. ensures' \in 0 .. MaxEnsures
    BY <1>3, SimAssumption DEF Inv, TypeOK
  <2>. QED
    BY <1>3, <1>4, <2>1, <2>2 DEF Inv, TypeOK
<1>6. WakeupPending'
  <2> SUFFICES ASSUME NEW i \in Ids, objects'[i] # Absent, objects'[i].req # None
               PROVE  chan'[<<i, objects'[i].inc>>] = 1
                        \/ task'[<<i, objects'[i].inc>>] = "poke"
    BY DEF WakeupPending
  <2>1. objects[i] # Absent => <<i, objects[i].inc>> \in Tasks
    BY DEF Inv, TypeOK, ObjectRecs, Tasks
  <2>2. CASE i = id /\ tr.obj = obj
    BY <1>3, <1>4, <2>1, <2>2 DEF Inv, WakeupPending, TypeOK
  <2>3. CASE i = id /\ tr.obj # obj
    BY <1>2, <1>3, <1>4, <2>3 DEF Inv, TypeOK
  <2>4. CASE i # id
    BY <1>3, <1>4, <2>1, <2>4 DEF Inv, WakeupPending, TypeOK
  <2>. QED
    BY <2>2, <2>3, <2>4
<1>. QED
  BY <1>5, <1>6 DEF Inv

\* A task's own steps: the object of its id is at index t[1].
LEMMA TaskIndex ==
  ASSUME NEW t \in Tasks
  PROVE  /\ t = <<t[1], t[2]>> /\ t[1] \in Ids /\ t[2] \in Incs
         /\ \A i \in Ids : \A k : <<i, k>> = t => i = t[1]
BY DEF Tasks

LEMMA StepReceiveStep ==
  ASSUME Inv, NEW t \in Tasks, StepReceive(t)
  PROVE  Inv'
<1>1. TypeOK'
  BY DEF StepReceive, Inv, TypeOK, TaskStates
<1>2. WakeupPending'
  BY DEF StepReceive, Inv, WakeupPending, TypeOK
<1>. QED
  BY <1>1, <1>2 DEF Inv

LEMMA StepExitStep ==
  ASSUME Inv, NEW t \in Tasks, StepExit(t)
  PROVE  Inv'
<1>1. TypeOK'
  BY DEF StepExit, Inv, TypeOK, TaskStates
<1>2. WakeupPending'
  BY DEF StepExit, Inv, WakeupPending, TypeOK
<1>. QED
  BY <1>1, <1>2 DEF Inv

LEMMA PokeNotifyStep ==
  ASSUME Inv, NEW t \in Tasks, PokeNotify(t)
  PROVE  Inv'
<1>1. pending[t] \in [state : DiskStates \cup {None}, destroyed : 0 .. MaxIncarnations]
  BY DEF Inv, TypeOK
<1>2. /\ notified' = [notified EXCEPT ![t[1]] = pending[t].state]
      /\ closed' = IF pending[t].destroyed = 0 THEN closed
                   ELSE [closed EXCEPT ![<<t[1], pending[t].destroyed>>] = TRUE]
      /\ pending' = [pending EXCEPT ![t] = NoPending]
      /\ task' = [task EXCEPT ![t] = "wait"] /\ task[t] = "notify"
      /\ UNCHANGED <<objects, created, chan, ensures>>
  BY DEF PokeNotify
<1>3. TypeOK'
  <2>1. notified' \in [Ids -> DiskStates \cup {None}]
    BY <1>1, <1>2, TaskIndex DEF Inv, TypeOK
  <2>2. closed' \in [Tasks -> BOOLEAN]
    BY <1>2 DEF Inv, TypeOK
  <2>3. pending' \in [Tasks -> [state : DiskStates \cup {None},
                                destroyed : 0 .. MaxIncarnations]]
    BY <1>2, SimAssumption DEF Inv, TypeOK, NoPending
  <2>4. task' \in [Tasks -> TaskStates]
    BY <1>2 DEF Inv, TypeOK, TaskStates
  <2>. QED
    BY <1>2, <2>1, <2>2, <2>3, <2>4 DEF Inv, TypeOK
<1>4. WakeupPending'
  <2> SUFFICES ASSUME NEW i \in Ids, objects'[i] # Absent, objects'[i].req # None
               PROVE  chan'[<<i, objects'[i].inc>>] = 1
                        \/ task'[<<i, objects'[i].inc>>] = "poke"
    BY DEF WakeupPending
  <2>1. chan[<<i, objects[i].inc>>] = 1 \/ task[<<i, objects[i].inc>>] = "poke"
    BY <1>2 DEF Inv, WakeupPending
  <2>2. <<i, objects[i].inc>> \in Tasks
    BY <1>2 DEF Inv, TypeOK, ObjectRecs, Tasks
  <2>. QED
    BY <1>2, <2>1, <2>2 DEF Inv, TypeOK
<1>. QED
  BY <1>3, <1>4 DEF Inv

LEMMA PokeLockedStep ==
  ASSUME Inv, NEW t \in Tasks, PokeLocked(t)
  PROVE  Inv'
<1> DEFINE id == t[1]
           obj == TransitionFinish(objects[id])
           destroy == obj.req = None /\ ReadyToDestroy(obj.cur)
<1>1. id \in Ids /\ t = <<id, t[2]>>
  BY TaskIndex
<1>2. \A i \in Ids \ {id} : objects[i] # Absent => <<i, objects[i].inc>> \in Tasks \ {t}
  BY <1>1 DEF Inv, TypeOK, ObjectRecs, Tasks
<1>3. CASE objects[id] = Absent
  <2>1. /\ task' = [task EXCEPT ![t] = "panicked"]
        /\ UNCHANGED <<objects, pending, created, chan, closed, notified, ensures>>
    BY <1>3 DEF PokeLocked
  <2>2. TypeOK'
    BY <2>1 DEF Inv, TypeOK, TaskStates
  <2>3. WakeupPending'
    BY <1>2, <1>3, <2>1 DEF Inv, WakeupPending, TypeOK
  <2>. QED
    BY <2>2, <2>3 DEF Inv
<1>4. CASE objects[id] # Absent
  <2>1. objects[id] \in ObjectRecs
    BY <1>1, <1>4 DEF Inv, TypeOK
  <2>2. obj \in ObjectRecs /\ obj.req = None /\ obj.inc = objects[id].inc
    BY <2>1, TransitionFinishType
  <2>3. /\ objects' = [objects EXCEPT ![id] = IF destroy THEN Absent ELSE obj]
        /\ pending' = [pending EXCEPT ![t] =
                         [state |-> obj.cur,
                          destroyed |-> IF destroy THEN obj.inc ELSE 0]]
        /\ task' = [task EXCEPT ![t] = "notify"]
        /\ UNCHANGED <<created, chan, closed, notified, ensures>>
    BY <1>4 DEF PokeLocked
  <2>4. TypeOK'
    <3>1. objects' \in [Ids -> ObjectRecs \cup {Absent}]
      BY <2>2, <2>3 DEF Inv, TypeOK
    <3>2. /\ obj.cur \in DiskStates
          /\ (IF destroy THEN obj.inc ELSE 0) \in 0 .. MaxIncarnations
      BY <2>2, SimAssumption DEF ObjectRecs, Incs
    <3>3. pending' \in [Tasks -> [state : DiskStates \cup {None},
                                  destroyed : 0 .. MaxIncarnations]]
      BY <2>3, <3>2 DEF Inv, TypeOK
    <3>4. task' \in [Tasks -> TaskStates]
      BY <2>3 DEF Inv, TypeOK, TaskStates
    <3>. QED
      BY <2>3, <3>1, <3>3, <3>4 DEF Inv, TypeOK
  <2>5. WakeupPending'
    <3> SUFFICES ASSUME NEW i \in Ids, objects'[i] # Absent, objects'[i].req # None
                 PROVE  chan'[<<i, objects'[i].inc>>] = 1
                          \/ task'[<<i, objects'[i].inc>>] = "poke"
      BY DEF WakeupPending
    <3>1. i # id
      BY <2>2, <2>3 DEF Inv, TypeOK
    <3>. QED
      BY <1>2, <2>3, <3>1 DEF Inv, WakeupPending, TypeOK
  <2>. QED
    BY <2>4, <2>5 DEF Inv
<1>. QED
  BY <1>3, <1>4

LEMMA NextInv == Inv /\ [Next]_vars => Inv'
<1> SUFFICES ASSUME Inv, [Next]_vars PROVE Inv'
  OBVIOUS
<1>1. CASE \E id \in Ids, c \in InitialStates, g \in Targets : EnsureNew(id, c, g)
  BY <1>1, EnsureNewStep
<1>2. CASE \E id \in Ids, g \in Targets : EnsureExisting(id, g)
  BY <1>2, EnsureExistingStep
<1>3. CASE \E t \in Tasks : TaskStep(t)
  BY <1>3, StepReceiveStep, StepExitStep, PokeLockedStep, PokeNotifyStep DEF TaskStep
<1>4. CASE UNCHANGED vars
  BY <1>4 DEF vars, Inv, TypeOK, WakeupPending
<1>. QED
  BY <1>1, <1>2, <1>3, <1>4 DEF Next

\* Every reachable state of the collection is well typed: objects are
\* SimDisk records of a created incarnation, every channel buffers at most
\* one message, and the state a poke holds is a disk state.
THEOREM TypeCorrect == Spec => []TypeOK
<1>1. Inv => TypeOK
  BY DEF Inv
<1>. QED
  BY InitInv, NextInv, <1>1, PTL DEF Spec

\* The wakeup argument of the SIM_CHANNEL_BUFFER_SIZE comment holds for
\* every number of ids, instances, calls and incarnations: an object with
\* an async transition pending always has a message buffered for its own
\* incarnation's task, or that task is about to poke it, so the message
\* try_send drops on a full buffer is never the one that was needed.
THEOREM WakeupSound == Spec => []WakeupPending
<1>1. Inv => WakeupPending
  BY DEF Inv
<1>. QED
  BY InitInv, NextInv, <1>1, PTL DEF Spec

=============================================================================
