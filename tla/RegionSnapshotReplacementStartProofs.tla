--------------- MODULE RegionSnapshotReplacementStartProofs ---------------
(***************************************************************************)
(* Proofs about the region snapshot replacement start task, for every set  *)
(* of region snapshots, datastore order and lock bound.                    *)
(*                                                                         *)
(* The task completes a request itself (fastDone) only after its lookup    *)
(* found the region snapshot gone, and the completion runs one await after *)
(* that lookup.  FastTrackOnlyWhenGone is not inductive alone: it needs    *)
(* that a lookup that found nothing is still true when the task acts on    *)
(* it (LookupStillValid), which holds because no step brings a deleted     *)
(* region snapshot back.                                                   *)
(***************************************************************************)
EXTENDS RegionSnapshotReplacementStart, WellFoundedInduction, TLAPS

\* The variables' types, without the place of cur in todo.
TypeCore ==
  /\ exists \in [RS -> BOOLEAN] /\ expunged \in [RS -> BOOLEAN]
  /\ request \in [RS -> RequestStates]
  /\ locked \in [RS -> BOOLEAN] /\ locks \in [RS -> 0 .. MaxLocks]
  /\ sagaQueued \in [RS -> BOOLEAN] /\ fastDone \in [RS -> BOOLEAN]
  /\ pc \in Phases /\ todo \subseteq RS
  /\ (pc = "act" => cur \in RS) /\ found \in BOOLEAN

\* region_snapshot_get returned None for cur, and it is still gone.
LookupStillValid == pc = "act" /\ ~found => ~exists[cur]

IInv == TypeCore /\ FastTrackOnlyWhenGone /\ LookupStillValid

\* The lock bound is a natural.
LEMMA MaxLocksNat == MaxLocks \in Nat
BY ReplacementAssumption

\* Every region snapshot exists, nothing is requested or fast-tracked.
LEMMA InitIInv == Init => IInv
<1> SUFFICES ASSUME Init PROVE IInv
  OBVIOUS
<1>1. /\ exists \in [RS -> BOOLEAN] /\ expunged \in [RS -> BOOLEAN]
      /\ locked \in [RS -> BOOLEAN] /\ sagaQueued \in [RS -> BOOLEAN]
      /\ fastDone \in [RS -> BOOLEAN]
  BY DEF Init
<1>2. request \in [RS -> RequestStates] /\ locks \in [RS -> 0 .. MaxLocks]
  BY MaxLocksNat DEF Init, RequestStates
<1>3. pc \in Phases /\ todo \subseteq RS /\ pc # "act" /\ found \in BOOLEAN
  BY DEF Init, Phases
<1>4. FastTrackOnlyWhenGone
  BY DEF Init, FastTrackOnlyWhenGone
<1>. QED
  BY <1>1, <1>2, <1>3, <1>4 DEF IInv, TypeCore, LookupStillValid

\* The task's own steps keep the invariant.  StartLookup records what the
\* lookup saw; StartAct completes a request only on that record.
LEMMA TaskStepIInv ==
  ASSUME IInv, TaskStep
  PROVE  IInv'
<1>. USE DEF IInv, TypeCore, RequestStates, Phases, env, task
<1>1. ASSUME NEW ok \in BOOLEAN, Find(ok) PROVE IInv'
  BY <1>1 DEF Find, FastTrackOnlyWhenGone, LookupStillValid, Phases
<1>2. ASSUME NEW ok \in BOOLEAN, List(ok) PROVE IInv'
  BY <1>2 DEF List, FastTrackOnlyWhenGone, LookupStillValid, Phases
<1>3. ASSUME NEW ok \in BOOLEAN, StartAct(ok) PROVE IInv'
  <2>1. pc = "act" /\ cur \in RS /\ pc' = "start"
    BY <1>3 DEF StartAct
  <2>2. fastDone' \in [RS -> BOOLEAN] /\ request' \in [RS -> RequestStates]
        /\ sagaQueued' \in [RS -> BOOLEAN]
    BY <1>3, <2>1 DEF StartAct, ActOnLookup, RequestStates
  <2>3. FastTrackOnlyWhenGone'
    <3>1. CASE ~found
      BY <1>3, <2>1, <3>1 DEF StartAct, ActOnLookup, FastTrackOnlyWhenGone,
                              LookupStillValid
    <3>2. CASE found
      BY <1>3, <2>1, <3>2 DEF StartAct, ActOnLookup, FastTrackOnlyWhenGone
    <3>. QED
      BY <3>1, <3>2
  <2>. QED
    BY <1>3, <2>1, <2>2, <2>3 DEF StartAct, LookupStillValid, Phases
<1>4. ASSUME NEW rs \in RS, NEW a \in BOOLEAN, NEW b \in BOOLEAN, CreateStep(rs, a, b)
      PROVE  IInv'
  BY <1>4 DEF CreateStep, FastTrackOnlyWhenGone, LookupStillValid, RequestStates
<1>5. ASSUME NEW rs \in RS, NEW ok \in BOOLEAN, StartLookup(rs, ok) PROVE IInv'
  BY <1>5 DEF StartLookup, FastTrackOnlyWhenGone, LookupStillValid, Phases
<1>6. CASE CreateDone
  BY <1>6 DEF CreateDone, FastTrackOnlyWhenGone, LookupStillValid, Phases
<1>7. CASE StartDone
  BY <1>7 DEF StartDone, FastTrackOnlyWhenGone, LookupStillValid, Phases
<1>. QED
  BY <1>1, <1>2, <1>3, <1>4, <1>5, <1>6, <1>7 DEF TaskStep

\* The rest of the system keeps the invariant: a region snapshot is only
\* ever deleted, never brought back.
LEMMA EnvStepIInv ==
  ASSUME IInv, EnvStep
  PROVE  IInv'
<1>. USE DEF IInv, TypeCore, RequestStates, Phases, env, task
<1>1. PICK rs \in RS :
        \/ Expunge(rs) \/ DeleteRegionSnapshot(rs) \/ Lock(rs) \/ Unlock(rs)
        \/ Finish(rs) \/ \E ok \in BOOLEAN : SagaRun(rs, ok)
  BY DEF EnvStep
<1>2. CASE Expunge(rs)
  BY <1>2 DEF Expunge, FastTrackOnlyWhenGone, LookupStillValid
<1>3. CASE DeleteRegionSnapshot(rs)
  BY <1>3 DEF DeleteRegionSnapshot, FastTrackOnlyWhenGone, LookupStillValid
<1>4. CASE Lock(rs)
  BY <1>4, MaxLocksNat DEF Lock, FastTrackOnlyWhenGone, LookupStillValid
<1>5. CASE Unlock(rs)
  BY <1>5 DEF Unlock, FastTrackOnlyWhenGone, LookupStillValid
<1>6. CASE Finish(rs)
  BY <1>6 DEF Finish, FastTrackOnlyWhenGone, LookupStillValid, RequestStates
<1>7. ASSUME NEW ok \in BOOLEAN, SagaRun(rs, ok) PROVE IInv'
  BY <1>7 DEF SagaRun, FastTrackOnlyWhenGone, LookupStillValid, RequestStates
<1>. QED
  BY <1>1, <1>2, <1>3, <1>4, <1>5, <1>6, <1>7

LEMMA NextIInv == IInv /\ [Next]_vars => IInv'
<1> SUFFICES ASSUME IInv, [Next]_vars PROVE IInv'
  OBVIOUS
<1>1. CASE TaskStep
  BY <1>1, TaskStepIInv
<1>2. CASE EnvStep
  BY <1>2, EnvStepIInv
<1>3. CASE UNCHANGED vars
  BY <1>3 DEF vars, IInv, TypeCore, FastTrackOnlyWhenGone, LookupStillValid
<1>. QED
  BY <1>1, <1>2, <1>3 DEF Next

\* The task only completes a replacement request from Requested by itself
\* (set_region_snapshot_replacement_complete_from_requested) when the
\* region snapshot is really gone, although the lookup that found it gone
\* and the completion are two awaits apart, with deletions, expungements,
\* locks and sagas running in between.
THEOREM FastTrackSound == Spec => []FastTrackOnlyWhenGone
<1>1. IInv => FastTrackOnlyWhenGone
  BY DEF IInv
<1>. QED
  BY InitIInv, NextIInv, <1>1, PTL DEF Spec

-----------------------------------------------------------------------------
(***************************************************************************)
(* The place of cur.  Both loops visit the rows of todo in datastore       *)
(* order; First(todo) is the first row of Order that is still in todo,     *)
(* which exists because Order lists every region snapshot and a nonempty   *)
(* set of positions has a least one (the naturals are well founded).       *)
(***************************************************************************)

\* A nonempty set of rows has a first row in datastore order, in the set.
LEMMA FirstIn ==
  ASSUME NEW S \in SUBSET RS, S # {}
  PROVE  First(S) \in S
<1> DEFINE Pos == {i \in 1 .. Len(Order) : Order[i] \in S}
<1>1. Order \in Seq(RS) /\ Len(Order) \in Nat
  BY ReplacementAssumption
<1>2. Pos # {} /\ Pos \subseteq Nat
  <2>1. PICK s \in S : TRUE
    OBVIOUS
  <2>2. PICK i \in 1 .. Len(Order) : Order[i] = s
    BY <2>1, ReplacementAssumption
  <2>3. i \in Pos
    BY <2>1, <2>2
  <2>4. Pos \subseteq Nat
    BY <1>1
  <2>. QED
    BY <2>3, <2>4
<1>3. PICK x \in Pos : \A y \in Pos : ~(<<y, x>> \in OpToRel(<, Nat))
  BY <1>2, NatLessThanWellFounded, WFMin
<1>4. \A j \in 1 .. x - 1 : Order[j] \notin S
  <2> SUFFICES ASSUME NEW j \in 1 .. x - 1, Order[j] \in S PROVE FALSE
    OBVIOUS
  <2>1. j \in Pos /\ j < x /\ j \in Nat /\ x \in Nat
    BY <1>1
  <2>2. <<j, x>> \in OpToRel(<, Nat)
    BY <2>1 DEF OpToRel
  <2>. QED
    BY <1>3, <2>1, <2>2
<1>5. \E i \in 1 .. Len(Order) :
        Order[i] \in S /\ \A j \in 1 .. i - 1 : Order[j] \notin S
  BY <1>3, <1>4
<1>. QED
  BY <1>5 DEF First

\* cur names a row of todo while the task acts on a lookup, and no row
\* otherwise.
CurInTodo == cur \in (IF pc = "act" THEN todo ELSE {NoRS})

LEMMA CurStep ==
  ASSUME IInv, CurInTodo, [Next]_vars
  PROVE  CurInTodo'
<1>. USE DEF CurInTodo
<1>1. CASE \E rs \in RS, ok \in BOOLEAN : StartLookup(rs, ok)
  <2>1. PICK rs \in RS, ok \in BOOLEAN : StartLookup(rs, ok)
    BY <1>1
  <2>2. todo \subseteq RS /\ todo # {} /\ rs = First(todo)
    BY <2>1 DEF StartLookup, IInv, TypeCore
  <2>3. rs \in todo
    BY <2>2, FirstIn
  <2>. QED
    BY <2>1, <2>3 DEF StartLookup
<1>2. CASE \E ok \in BOOLEAN : StartAct(ok)
  BY <1>2 DEF StartAct
<1>3. CASE \E ok \in BOOLEAN : Find(ok) \/ List(ok)
  BY <1>3 DEF Find, List
<1>4. CASE \E rs \in RS, a, b \in BOOLEAN : CreateStep(rs, a, b)
  BY <1>4 DEF CreateStep
<1>5. CASE CreateDone \/ StartDone
  BY <1>5 DEF CreateDone, StartDone
<1>6. CASE EnvStep \/ UNCHANGED vars
  BY <1>6 DEF EnvStep, Expunge, DeleteRegionSnapshot, Lock, Unlock, Finish,
              SagaRun, task, vars
<1>. QED
  BY <1>1, <1>2, <1>3, <1>4, <1>5, <1>6 DEF Next, TaskStep

\* Every state of the task and of the rows it reads is well typed, for
\* every set of region snapshots, datastore order and lock bound: while
\* the task acts on a lookup, the region snapshot it acts on is one of the
\* rows the loop has still to visit.
THEOREM TypeCorrect == Spec => []TypeOK
<1>1. Init => CurInTodo
  BY DEF Init, CurInTodo
<1>2. IInv /\ CurInTodo => TypeOK
  BY DEF IInv, TypeCore, CurInTodo, TypeOK
<1>3. IInv /\ CurInTodo /\ [Next]_vars => IInv' /\ CurInTodo'
  BY NextIInv, CurStep
<1>. QED
  BY InitIInv, <1>1, <1>2, <1>3, PTL DEF Spec

=============================================================================
