-------------------------- MODULE VpcSubnetCreate --------------------------
(***************************************************************************)
(* The vpc-subnet-create saga (nexus/src/app/sagas/vpc_subnet_create.rs)   *)
(* run by the saga executor.  The DAG is four nodes in a line: create the  *)
(* subnet row, create its route in the system router, link the custom     *)
(* router, bump the VPC's router-propagation (rpw) version.  The executor  *)
(* runs the nodes in order; when an action fails it runs the undo actions  *)
(* of the nodes already completed, newest first, and the failed node's own *)
(* undo is not run; when an undo action fails the saga is stuck.  A crash  *)
(* after a node's database effect and before its output is recorded makes *)
(* the executor run that node again (bounded by MaxCrashes).  The saga's   *)
(* tests require every action and undo action to be idempotent.            *)
(*                                                                         *)
(* The database is abstracted to what this saga reads and writes: its own  *)
(* subnet row (the IPv6 block it got and whether it is linked to the       *)
(* custom router), its route, and the blocks other subnets of the VPC hold *)
(* (concurrent requests may add some at any time).  `dirty` records that   *)
(* the saga changed the VPC's routing since it last bumped the rpw version.*)
(***************************************************************************)
EXTENDS Naturals, Sequences

CONSTANTS
  Blocks,         \* IPv6 blocks (model values)
  CandidateSeqs,  \* the values params.potential_ipv6_blocks may take
  MaxCrashes,     \* crashes of the executor in one run
  ReplayMayFail,  \* may a replayed action fail after its first run took effect?
  NoSubnet        \* no subnet row

ASSUME SubnetAssumption ==
  /\ CandidateSeqs \subseteq Seq(Blocks)
  /\ MaxCrashes \in Nat
  /\ ReplayMayFail \in BOOLEAN
  /\ NoSubnet \notin [block : Blocks, custom : BOOLEAN]

\* make_saga_dag: the action nodes in the order they are appended (the two
\* id-generating nodes before them have no effect on the database).
DagNotifyBeforeLink == <<"subnet", "route", "notify", "link">>
Dag == <<"subnet", "route", "link", "notify">>
Node(i) == Dag[i]

VARIABLES
  customParam,  \* params.custom_router.is_some()
  candidates,   \* params.potential_ipv6_blocks
  mode,         \* executor: "fwd", "unwind", "done", "unwound", "stuck"
  at,           \* executor: node to run (fwd) or to undo (unwind)
  attempt,      \* svsc_create_subnet: index of the block being tried
  subnet,       \* the saga's subnet row, or NoSubnet
  route,        \* the saga's route in the system router exists
  dirty,        \* routing changed since the last rpw version bump
  taken,        \* IPv6 blocks held by other subnets of the VPC
  v4Taken,      \* another subnet holds the requested IPv4 block
  crashes

vars == <<customParam, candidates, mode, at, attempt, subnet, route, dirty,
          taken, v4Taken, crashes>>

Init ==
  /\ customParam \in BOOLEAN
  /\ candidates \in CandidateSeqs
  /\ mode = "fwd" /\ at = 1 /\ attempt = 1
  /\ subnet = NoSubnet /\ route = FALSE /\ dirty = FALSE
  /\ taken \in SUBSET Blocks /\ v4Taken \in BOOLEAN
  /\ crashes = 0

(***************************************************************************)
(* The executor.  Done(rec): the running node's action returned Ok; with   *)
(* rec = FALSE the executor crashed before recording it and will run it    *)
(* again.  Failed: the action returned an error; unwinding starts at the   *)
(* node before it.  Undone(rec) and Stuck are the same for undo actions.   *)
(***************************************************************************)
Crash ==
  /\ crashes < MaxCrashes
  /\ crashes' = crashes + 1
  /\ UNCHANGED <<mode, at>>

Done(rec) ==
  IF rec THEN /\ at' = at + 1
              /\ mode' = IF at = Len(Dag) THEN "done" ELSE "fwd"
              /\ UNCHANGED crashes
         ELSE Crash

Failed ==
  /\ at' = at - 1
  /\ mode' = IF at = 1 THEN "unwound" ELSE "unwind"
  /\ UNCHANGED crashes

Undone(rec) ==
  IF rec THEN /\ at' = at - 1
              /\ mode' = IF at = 1 THEN "unwound" ELSE "unwind"
              /\ UNCHANGED crashes
         ELSE Crash

Stuck == mode' = "stuck" /\ UNCHANGED <<at, crashes>>

Running(n) == mode = "fwd" /\ Node(at) = n
Undoing(n) == mode = "unwind" /\ Node(at) = n

(***************************************************************************)
(* svsc_create_subnet: one step per call of vpc_create_subnet in the loop. *)
(* The insert fails with an IPv6 overlap when the block is held by another *)
(* subnet, with an IPv4 overlap when the IPv4 block is, and may fail with  *)
(* any other error.  Re-inserting the saga's own row (a replay) succeeds, *)
(* or, where ReplayMayFail, fails with a transient error.  The loop breaks *)
(* on Ok and otherwise goes on to the next block whatever the error; the   *)
(* action fails with the last error (with no block at all, it              *)
(* fails before any call).                                                 *)
(***************************************************************************)
InsertResults(b) ==
  IF subnet # NoSubnet
    THEN {"Ok"} \cup (IF ReplayMayFail THEN {"External"} ELSE {})
    ELSE {"External"}
           \cup (IF b \in taken THEN {"OverlapV6"} ELSE {})
           \cup (IF v4Taken THEN {"OverlapV4"} ELSE {})
           \cup (IF b \notin taken /\ ~v4Taken THEN {"Ok"} ELSE {})

NextAttempt(a) == a + 1
MoreBlocksOffByOne(a) == a <= Len(candidates)
MoreBlocks(a) == a < Len(candidates)

\* One call of vpc_create_subnet with block b, answered with r, and what the
\* loop does with the answer.
InsertAttempt(b, r) ==
  /\ subnet' = IF r = "Ok" /\ subnet = NoSubnet
                 THEN [block |-> b, custom |-> FALSE] ELSE subnet
  /\ dirty' = (dirty \/ subnet' # subnet)
  /\ IF r = "Ok"
       THEN attempt' = 1 /\ \E rec \in BOOLEAN : Done(rec)
     ELSE IF MoreBlocks(attempt)
       THEN attempt' = NextAttempt(attempt) /\ UNCHANGED <<mode, at, crashes>>
     ELSE attempt' = 1 /\ Failed

CreateSubnet ==
  /\ Running("subnet")
  /\ IF candidates = <<>>
       THEN Failed /\ UNCHANGED <<attempt, subnet, dirty>>
       ELSE \E r \in InsertResults(candidates[attempt]) :
              InsertAttempt(candidates[attempt], r)
  /\ UNCHANGED <<customParam, candidates, route, taken, v4Taken>>

(***************************************************************************)
(* svsc_create_route: ObjectAlreadyExists (the route inserted by an        *)
(* earlier run of this node) is answered by looking the route up, and the  *)
(* action fails if the lookup fails.                                       *)
(***************************************************************************)
LookupResults == IF ReplayMayFail THEN {"Ok", "Err"} ELSE {"Ok"}

AlreadyExistsFails == Failed
AlreadyExists ==
  \E r \in LookupResults :
    IF r = "Ok" THEN \E rec \in BOOLEAN : Done(rec) ELSE Failed

CreateRoute ==
  /\ Running("route")
  /\ \/ /\ ~route
        /\ \/ route' = TRUE /\ dirty' = TRUE /\ \E rec \in BOOLEAN : Done(rec)
           \/ Failed /\ UNCHANGED <<route, dirty>>
     \/ /\ route
        /\ UNCHANGED <<route, dirty>>
        /\ AlreadyExists
  /\ UNCHANGED <<customParam, candidates, attempt, subnet, taken, v4Taken>>

(***************************************************************************)
(* svsc_link_custom: with a custom router, vpc_subnet_set_custom_router,   *)
(* which may fail; without one, nothing.                                   *)
(***************************************************************************)
LinkCustomIgnored ==
  /\ Running("link")
  /\ UNCHANGED <<subnet, dirty>> /\ \E rec \in BOOLEAN : Done(rec)
  /\ UNCHANGED <<customParam, candidates, attempt, route, taken, v4Taken>>

LinkCustom ==
  /\ Running("link")
  /\ \/ /\ customParam
        /\ \/ /\ subnet' = [subnet EXCEPT !.custom = TRUE]
              /\ dirty' = (dirty \/ subnet' # subnet)
              /\ \E rec \in BOOLEAN : Done(rec)
           \/ Failed /\ UNCHANGED <<subnet, dirty>>
     \/ ~customParam /\ UNCHANGED <<subnet, dirty>> /\ \E rec \in BOOLEAN : Done(rec)
  /\ UNCHANGED <<customParam, candidates, attempt, route, taken, v4Taken>>

(***************************************************************************)
(* svsc_notify_rpw: vpc_increment_rpw_version; its failure unwinds the     *)
(* saga.                                                                   *)
(***************************************************************************)
NotifyRpw ==
  /\ Running("notify")
  /\ \/ dirty' = FALSE /\ \E rec \in BOOLEAN : Done(rec)
     \/ Failed /\ UNCHANGED dirty
  /\ UNCHANGED <<customParam, candidates, attempt, subnet, route, taken, v4Taken>>

(***************************************************************************)
(* svsc_link_custom_undo: unset the custom router, ignoring the result.    *)
(***************************************************************************)
UndoLinkCustom ==
  /\ Undoing("link")
  /\ \E ok \in BOOLEAN :
       /\ subnet' = IF customParam /\ ok /\ subnet # NoSubnet
                      THEN [subnet EXCEPT !.custom = FALSE] ELSE subnet
       /\ dirty' = (dirty \/ subnet' # subnet)
  /\ \E rec \in BOOLEAN : Undone(rec)
  /\ UNCHANGED <<customParam, candidates, attempt, route, taken, v4Taken>>

(***************************************************************************)
(* svsc_create_route_undo: delete the route; ObjectNotFound is success,    *)
(* any other error fails the undo.                                         *)
(***************************************************************************)
UndoCreateRoute ==
  /\ Undoing("route")
  /\ \/ route' = FALSE /\ dirty' = (dirty \/ route) /\ \E rec \in BOOLEAN : Undone(rec)
     \/ Stuck /\ UNCHANGED <<route, dirty>>
  /\ UNCHANGED <<customParam, candidates, attempt, subnet, taken, v4Taken>>

(***************************************************************************)
(* svsc_create_subnet_undo: delete the row; on Ok or ObjectNotFound bump   *)
(* the rpw version, ignoring whether that worked; any other error of the   *)
(* delete fails the undo.                                                  *)
(***************************************************************************)
UndoCreateSubnet ==
  /\ Undoing("subnet")
  /\ \/ /\ subnet' = NoSubnet
        /\ \E bumped \in BOOLEAN :
             dirty' = IF bumped THEN FALSE ELSE (dirty \/ subnet # NoSubnet)
        /\ \E rec \in BOOLEAN : Undone(rec)
     \/ Stuck /\ UNCHANGED <<subnet, dirty>>
  /\ UNCHANGED <<customParam, candidates, attempt, route, taken, v4Taken>>

SagaStep ==
  \/ CreateSubnet \/ CreateRoute \/ LinkCustom \/ NotifyRpw
  \/ UndoLinkCustom \/ UndoCreateRoute \/ UndoCreateSubnet

(***************************************************************************)
(* Concurrent requests on the same VPC: another subnet takes an IPv6 block *)
(* or the requested IPv4 block, where the saga's own row does not hold it. *)
(***************************************************************************)
OtherSubnet(b) ==
  /\ b \notin taken
  /\ IF subnet = NoSubnet THEN TRUE ELSE subnet.block # b
  /\ taken' = taken \cup {b}
  /\ UNCHANGED <<customParam, candidates, mode, at, attempt, subnet, route,
                 dirty, v4Taken, crashes>>

OtherSubnetV4 ==
  /\ ~v4Taken /\ subnet = NoSubnet
  /\ v4Taken' = TRUE
  /\ UNCHANGED <<customParam, candidates, mode, at, attempt, subnet, route,
                 dirty, taken, crashes>>

Next == SagaStep \/ \E b \in Blocks : OtherSubnet(b) \/ OtherSubnetV4

Spec == Init /\ [][Next]_vars

-----------------------------------------------------------------------------
(* Properties *)

TypeOK ==
  /\ customParam \in BOOLEAN
  /\ candidates \in CandidateSeqs
  /\ mode \in {"fwd", "unwind", "done", "unwound", "stuck"}
  /\ at \in 0 .. Len(Dag) + 1
  /\ mode \in {"fwd", "unwind"} => at \in 1 .. Len(Dag)
  /\ attempt \in 1 .. Len(candidates) \/ (candidates = <<>> /\ attempt = 1)
  /\ subnet \in [block : Blocks, custom : BOOLEAN] \cup {NoSubnet}
  /\ route \in BOOLEAN /\ dirty \in BOOLEAN
  /\ taken \in SUBSET Blocks /\ v4Taken \in BOOLEAN
  /\ crashes \in 0 .. MaxCrashes

\* The saga is all-or-nothing for its caller: mapped to what the caller
\* can observe once the saga has finished (before, it sees nothing), every
\* run is a run of SubnetCreateAtomic, whatever the failures, crashes and
\* replays, and whatever concurrent requests take.
Finished == mode \in {"done", "unwound"}
Atomic == INSTANCE SubnetCreateAtomic WITH
  wantLink <- customParam,
  outcome  <- CASE mode = "done" -> "created"
                [] mode = "unwound" -> "failed"
                [] OTHER -> "pending",
  exists   <- Finished /\ subnet # NoSubnet,
  routed   <- Finished /\ route,
  linked   <- Finished /\ subnet # NoSubnet /\ subnet.custom
AllOrNothing == Atomic!Spec

\* A saga that completes has bumped the rpw version after its last change
\* to the VPC's routing, so the router propagation task sees the new subnet,
\* its route and its custom router.
CreatedNotified == mode = "done" => ~dirty

\* verify_clean_slate in the saga's tests: after unwinding, no subnet and
\* no subnet route of the saga remain.
UnwoundCleanSlate == mode = "unwound" => subnet = NoSubnet /\ ~route

=============================================================================
