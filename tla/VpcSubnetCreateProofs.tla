----------------------- MODULE VpcSubnetCreateProofs -----------------------
(***************************************************************************)
(* Proofs about the vpc-subnet-create saga, for every set of blocks, every *)
(* set of candidate sequences and every crash bound: type correctness, and *)
(* that the saga implements SubnetCreateAtomic when a replayed action does *)
(* not fail (the executor's contract, which the saga's idempotency tests   *)
(* exercise).  The refinement rests on an invariant that says, for each    *)
(* executor position, which of the saga's rows exist: it is what makes the *)
(* last forward step land on the complete set of rows, and the last undo   *)
(* step on none.                                                           *)
(***************************************************************************)
EXTENDS VpcSubnetCreate, SequenceTheorems, TLAPS

\* The rows of the saga at each position of the executor.  A crash and a
\* replay leave a node's effect in place with the executor still on the
\* node, so the row written by a node may already exist when it runs.
RowsAtPosition ==
  /\ mode = "fwd" /\ at = 1 =>
       /\ ~route
       /\ subnet # NoSubnet => ~subnet.custom /\ candidates # <<>>
  /\ mode = "fwd" /\ at \in 2 .. 4 => subnet # NoSubnet
  /\ mode = "fwd" /\ at = 2 => ~subnet.custom
  /\ mode = "fwd" /\ at \in 3 .. 4 => route /\ (subnet.custom => customParam)
  /\ mode = "fwd" /\ at = 4 => subnet.custom = customParam
  /\ mode = "unwind" => at \in 1 .. 3
  /\ mode = "unwind" /\ at \in 2 .. 3 => subnet # NoSubnet
  /\ mode = "unwind" /\ at = 3 => route
  /\ mode = "unwind" /\ at = 1 => ~route
  /\ mode = "done" => subnet # NoSubnet /\ route /\ subnet.custom = customParam
  /\ mode = "unwound" => subnet = NoSubnet /\ ~route


(***************************************************************************)
(* Lemmas about the DAG and the executor.                                  *)
(***************************************************************************)

\* make_saga_dag's four action nodes, in order.
LEMMA DagFacts ==
  /\ Len(Dag) = 4
  /\ Node(1) = "subnet" /\ Node(2) = "route"
  /\ Node(3) = "link" /\ Node(4) = "notify"
BY DEF Dag, Node

\* On a node of the DAG, the node the executor runs names its position.
LEMMA NodeAt ==
  ASSUME NEW i \in 1 .. 4
  PROVE  /\ Node(i) = "subnet" <=> i = 1
         /\ Node(i) = "route" <=> i = 2
         /\ Node(i) = "link" <=> i = 3
         /\ Node(i) = "notify" <=> i = 4
BY DagFacts

\* A row of the saga's subnet is never the absent row.
LEMMA RowNotNoSubnet ==
  ASSUME NEW b \in Blocks, NEW c \in BOOLEAN
  PROVE  [block |-> b, custom |-> c] # NoSubnet
BY SubnetAssumption

\* Setting or unsetting the custom router keeps a row a row.
LEMMA SetCustom ==
  ASSUME NEW row \in [block : Blocks, custom : BOOLEAN], NEW c \in BOOLEAN
  PROVE  /\ [row EXCEPT !.custom = c] = [block |-> row.block, custom |-> c]
         /\ [row EXCEPT !.custom = c] \in [block : Blocks, custom : BOOLEAN]
         /\ [row EXCEPT !.custom = c] # NoSubnet
<1>1. [row EXCEPT !.custom = c] = [block |-> row.block, custom |-> c]
  OBVIOUS
<1>. QED
  BY <1>1, RowNotNoSubnet

\* Which node the executor is on, by its position.
LEMMA RunningAt ==
  ASSUME TypeOK
  PROVE  /\ Running("subnet") <=> mode = "fwd" /\ at = 1
         /\ Running("route") <=> mode = "fwd" /\ at = 2
         /\ Running("link") <=> mode = "fwd" /\ at = 3
         /\ Running("notify") <=> mode = "fwd" /\ at = 4
         /\ Undoing("subnet") <=> mode = "unwind" /\ at = 1
         /\ Undoing("route") <=> mode = "unwind" /\ at = 2
         /\ Undoing("link") <=> mode = "unwind" /\ at = 3
         /\ Undoing("notify") <=> mode = "unwind" /\ at = 4
<1>1. mode \in {"fwd", "unwind"} => at = 1 \/ at = 2 \/ at = 3 \/ at = 4
  BY DagFacts DEF TypeOK
<1>. QED
  BY <1>1, DagFacts DEF Running, Undoing

\* A candidate sequence is a finite sequence of blocks.
LEMMA CandidatesType ==
  ASSUME candidates \in CandidateSeqs
  PROVE  /\ Len(candidates) \in Nat
         /\ candidates = <<>> <=> Len(candidates) = 0
         /\ \A i \in 1 .. Len(candidates) : candidates[i] \in Blocks
<1>1. candidates \in Seq(Blocks)
  BY SubnetAssumption
<1>. QED
  BY <1>1, LenProperties, EmptySeq, ElementOfSeq

(***************************************************************************)
(* Type correctness.                                                       *)
(***************************************************************************)

\* TypeOK is the executor's part and the data's part.
Modes == {"fwd", "unwind", "done", "unwound", "stuck"}
ExecOK ==
  /\ mode \in Modes
  /\ at \in 0 .. 5
  /\ mode \in {"fwd", "unwind"} => at \in 1 .. 4
  /\ crashes \in 0 .. MaxCrashes
DataOK ==
  /\ customParam \in BOOLEAN
  /\ candidates \in CandidateSeqs
  /\ attempt \in 1 .. Len(candidates) \/ (candidates = <<>> /\ attempt = 1)
  /\ subnet \in [block : Blocks, custom : BOOLEAN] \cup {NoSubnet}
  /\ route \in BOOLEAN /\ dirty \in BOOLEAN
  /\ taken \in SUBSET Blocks /\ v4Taken \in BOOLEAN

LEMMA TypeSplit == TypeOK <=> ExecOK /\ DataOK
<1>1. Len(Dag) = 4
  BY DagFacts
<1>2. (at \in 0 .. Len(Dag) + 1 <=> at \in 0 .. 5)
      /\ (at \in 1 .. Len(Dag) <=> at \in 1 .. 4)
  BY <1>1
<1>. QED
  BY <1>2, Zenon DEF TypeOK, ExecOK, DataOK, Modes

LEMMA MaxCrashesNat == MaxCrashes \in Nat
BY SubnetAssumption

\* The moves of the executor a saga step makes: a node's action completes
\* (or is to be replayed), fails, an undo action completes (or is to be
\* replayed) or fails, or the create_subnet loop goes on to the next block.
ExecMove ==
  \/ mode = "fwd" /\ \E rec \in BOOLEAN : Done(rec)
  \/ mode = "fwd" /\ Failed
  \/ mode = "unwind" /\ \E rec \in BOOLEAN : Undone(rec)
  \/ Stuck
  \/ UNCHANGED <<mode, at, crashes>>

\* Each move of the executor keeps its position on the DAG.
LEMMA ExecStep ==
  ASSUME ExecOK, ExecMove
  PROVE  ExecOK'
<1>. USE MaxCrashesNat
<1>1. CASE mode = "fwd" /\ \E rec \in BOOLEAN : Done(rec)
  BY <1>1, DagFacts DEF ExecOK, Modes, Done, Crash
<1>2. CASE mode = "fwd" /\ Failed
  BY <1>2 DEF ExecOK, Modes, Failed
<1>3. CASE mode = "unwind" /\ \E rec \in BOOLEAN : Undone(rec)
  BY <1>3 DEF ExecOK, Modes, Undone, Crash
<1>4. CASE Stuck
  BY <1>4 DEF ExecOK, Modes, Stuck
<1>5. CASE UNCHANGED <<mode, at, crashes>>
  BY <1>5 DEF ExecOK
<1>. QED
  BY <1>1, <1>2, <1>3, <1>4, <1>5 DEF ExecMove

\* Every saga step is one of the executor's moves.
LEMMA SagaExecMove ==
  SagaStep => ExecMove
BY DEF SagaStep, ExecMove, CreateSubnet, InsertAttempt, CreateRoute, AlreadyExists,
       LinkCustom, NotifyRpw, UndoLinkCustom, UndoCreateRoute,
       UndoCreateSubnet, Running, Undoing

\* Past create_subnet, the subnet row exists while the saga goes forward:
\* the nodes after it write to that row.
SubnetRowWritten == mode = "fwd" /\ at \in 2 .. 4 => subnet # NoSubnet
TypeInv == TypeOK /\ SubnetRowWritten

LEMMA RowWrittenStep ==
  TypeOK /\ SubnetRowWritten /\ [Next]_vars => SubnetRowWritten'
<1> SUFFICES ASSUME TypeOK, SubnetRowWritten, [Next]_vars,
                    mode' = "fwd", at' \in 2 .. 4
             PROVE  subnet' # NoSubnet
  BY DEF SubnetRowWritten
<1>. USE DEF SubnetRowWritten
<1>1. CASE CreateSubnet
  <2>1. mode = "fwd" /\ at = 1
    BY <1>1, RunningAt DEF CreateSubnet
  <2>2. candidates # <<>>
    BY <1>1, <2>1 DEF CreateSubnet, Failed
  <2>3. candidates[attempt] \in Blocks
    BY <2>2, CandidatesType DEF TypeOK
  <2>4. PICK r \in InsertResults(candidates[attempt]) :
               InsertAttempt(candidates[attempt], r)
    BY <1>1, <2>2 DEF CreateSubnet
  <2>5. r = "Ok"
    BY <2>1, <2>4 DEF InsertAttempt, Failed, MoreBlocks
  <2>. QED
    BY <2>3, <2>4, <2>5, RowNotNoSubnet DEF InsertAttempt
<1>2. CASE CreateRoute \/ NotifyRpw
  <2>1. mode = "fwd" /\ at \in {2, 4}
    BY <1>2, RunningAt DEF CreateRoute, NotifyRpw
  <2>. QED
    BY <1>2, <2>1 DEF CreateRoute, AlreadyExists, NotifyRpw, Done, Failed, Crash
<1>3. CASE LinkCustom
  <2>1. mode = "fwd" /\ at = 3
    BY <1>3, RunningAt DEF LinkCustom
  <2>2. subnet \in [block : Blocks, custom : BOOLEAN]
    BY <2>1 DEF TypeOK
  <2>. QED
    BY <1>3, <2>1, <2>2, SetCustom DEF LinkCustom, Done, Failed, Crash
<1>4. CASE UndoLinkCustom \/ UndoCreateRoute \/ UndoCreateSubnet
  BY <1>4 DEF UndoLinkCustom, UndoCreateRoute, UndoCreateSubnet, Undoing,
              Undone, Stuck, Crash
<1>5. CASE \E b \in Blocks : OtherSubnet(b)
  BY <1>5 DEF OtherSubnet
<1>6. CASE OtherSubnetV4 \/ UNCHANGED vars
  BY <1>6 DEF OtherSubnetV4, vars
<1>. QED
  BY <1>1, <1>2, <1>3, <1>4, <1>5, <1>6 DEF Next, SagaStep

LEMMA TypeStep == TypeInv /\ [Next]_vars => TypeOK'
<1> SUFFICES ASSUME TypeOK, SubnetRowWritten, [Next]_vars PROVE TypeOK'
  BY DEF TypeInv
<1>1. ExecOK /\ DataOK
  BY TypeSplit
<1>2. /\ Len(candidates) \in Nat
      /\ candidates = <<>> <=> Len(candidates) = 0
      /\ \A i \in 1 .. Len(candidates) : candidates[i] \in Blocks
  BY CandidatesType DEF TypeOK
<1>3. ExecOK'
  <2>1. CASE SagaStep
    BY <1>1, <2>1, SagaExecMove, ExecStep
  <2>2. CASE ~SagaStep
    BY <1>1, <2>2 DEF Next, OtherSubnet, OtherSubnetV4, vars, ExecOK
  <2>. QED
    BY <2>1, <2>2
<1>4. DataOK'
  <2>. USE <1>1 DEF DataOK
  <2>1. CASE CreateSubnet
    <3>1. CASE candidates = <<>>
      BY <2>1, <3>1 DEF CreateSubnet
    <3>2. CASE candidates # <<>>
      <4>1. /\ attempt \in 1 .. Len(candidates)
            /\ candidates[attempt] \in Blocks
        BY <1>2, <3>2
      <4>0. PICK r \in InsertResults(candidates[attempt]) :
                   InsertAttempt(candidates[attempt], r)
        BY <2>1, <3>2 DEF CreateSubnet
      <4>2. subnet' \in [block : Blocks, custom : BOOLEAN] \cup {NoSubnet}
        BY <4>0, <4>1 DEF InsertAttempt
      <4>3. attempt' \in 1 .. Len(candidates)
        BY <1>2, <4>0, <4>1 DEF InsertAttempt, MoreBlocks, NextAttempt
      <4>4. /\ dirty' \in BOOLEAN
            /\ UNCHANGED <<customParam, candidates, route, taken, v4Taken>>
        BY <2>1, <4>0 DEF CreateSubnet, InsertAttempt
      <4>. QED
        BY <4>2, <4>3, <4>4
    <3>. QED
      BY <3>1, <3>2
  <2>2. CASE CreateRoute
    BY <2>2 DEF CreateRoute
  <2>3. CASE LinkCustom
    <3>1. subnet # NoSubnet
      BY <2>3, RunningAt DEF SubnetRowWritten, LinkCustom
    <3>. QED
      BY <2>3, <3>1 DEF LinkCustom
  <2>4. CASE NotifyRpw
    BY <2>4 DEF NotifyRpw
  <2>5. CASE UndoLinkCustom
    BY <2>5 DEF UndoLinkCustom
  <2>6. CASE UndoCreateRoute
    BY <2>6 DEF UndoCreateRoute
  <2>7. CASE UndoCreateSubnet
    BY <2>7 DEF UndoCreateSubnet
  <2>8. CASE \E b \in Blocks : OtherSubnet(b)
    BY <2>8 DEF OtherSubnet
  <2>9. CASE OtherSubnetV4
    BY <2>9 DEF OtherSubnetV4
  <2>10. CASE UNCHANGED vars
    BY <2>10 DEF vars
  <2>. QED
    BY <2>1, <2>2, <2>3, <2>4, <2>5, <2>6, <2>7, <2>8, <2>9, <2>10
       DEF Next, SagaStep
<1>5. Len(Dag) = 4
  BY DagFacts
<1>. QED
  BY <1>3, <1>4, <1>5 DEF TypeOK, ExecOK, DataOK, Modes

\* The initial states are well typed.
LEMMA TypeInit == Init => TypeInv
<1>1. Init => SubnetRowWritten
  BY DEF Init, SubnetRowWritten
<1>2. Init => TypeOK
  <2> SUFFICES ASSUME Init PROVE TypeOK
    OBVIOUS
  <2>1. /\ candidates \in CandidateSeqs
        /\ Len(candidates) \in Nat
        /\ candidates = <<>> <=> Len(candidates) = 0
    BY CandidatesType DEF Init
  <2>2. MaxCrashes \in Nat
    BY SubnetAssumption
  <2>3. at \in 0 .. Len(Dag) + 1 /\ at \in 1 .. Len(Dag)
    BY DagFacts DEF Init
  <2>4. attempt \in 1 .. Len(candidates) \/ (candidates = <<>> /\ attempt = 1)
    BY <2>1 DEF Init
  <2>5. subnet \in [block : Blocks, custom : BOOLEAN] \cup {NoSubnet}
    BY DEF Init
  <2>6. crashes \in 0 .. MaxCrashes
    BY <2>2 DEF Init
  <2>. QED
    BY <2>1, <2>3, <2>4, <2>5, <2>6, Zenon DEF Init, TypeOK
<1>. QED
  BY <1>1, <1>2 DEF TypeInv

\* Every state of the saga is well typed: the executor's position stays on
\* the DAG while it runs, and the create_subnet loop's index on a block.
THEOREM TypeCorrect == Spec => []TypeOK
<1>2. TypeInv /\ [Next]_vars => TypeInv'
  BY TypeStep, RowWrittenStep DEF TypeInv
<1>. QED
  BY TypeInit, <1>2, PTL DEF Spec, TypeInv

(***************************************************************************)
(* The refinement.  Under the executor's contract that a replayed action   *)
(* succeeds, RowsAtPosition is inductive: each forward step writes the row *)
(* of its node and moves on, each undo step removes it, and a failure      *)
(* starts the undo at the node before, whose rows are all there.           *)
(***************************************************************************)
IInv == TypeInv /\ RowsAtPosition

\* A replayed create_subnet call finds the saga's row and succeeds.
LEMMA ReplayedInsertOk ==
  ASSUME ~ReplayMayFail, subnet # NoSubnet, NEW b
  PROVE  InsertResults(b) = {"Ok"}
BY DEF InsertResults

LEMMA RowsStep ==
  ASSUME ~ReplayMayFail
  PROVE  IInv /\ [Next]_vars => RowsAtPosition'
<1> SUFFICES ASSUME TypeOK, SubnetRowWritten, RowsAtPosition, [Next]_vars
             PROVE  RowsAtPosition'
  BY DEF IInv, TypeInv
<1>. USE DEF RowsAtPosition
<1>1. CASE CreateSubnet
  <2>1. mode = "fwd" /\ at = 1
    BY <1>1, RunningAt DEF CreateSubnet
  <2>0. UNCHANGED <<customParam, candidates, route>>
    BY <1>1 DEF CreateSubnet
  <2>2. CASE candidates = <<>>
    <3>1. mode' = "unwound" /\ subnet' = subnet /\ subnet = NoSubnet
      BY <1>1, <2>1, <2>2 DEF CreateSubnet, Failed
    <3>. QED
      BY <2>0, <2>1, <3>1
  <2>3. CASE candidates # <<>>
    <3>1. candidates[attempt] \in Blocks
      BY <2>3, CandidatesType DEF TypeOK
    <3>2. PICK r \in InsertResults(candidates[attempt]) :
                 InsertAttempt(candidates[attempt], r)
      BY <1>1, <2>3 DEF CreateSubnet
    <3>3. CASE r = "Ok"
      <4>1. subnet' # NoSubnet /\ ~subnet'.custom
        BY <2>1, <3>1, <3>2, <3>3, RowNotNoSubnet DEF InsertAttempt
      <4>2. \/ mode' = "fwd" /\ at' = 2
            \/ mode' = "fwd" /\ at' = 1
        BY <2>1, <3>2, <3>3, DagFacts DEF InsertAttempt, Done, Crash
      <4>. QED
        BY <2>0, <2>1, <2>3, <4>1, <4>2
    <3>4. CASE r # "Ok" /\ MoreBlocks(attempt)
      <4>1. UNCHANGED <<mode, at, subnet>>
        BY <3>2, <3>4 DEF InsertAttempt
      <4>. QED
        BY <2>0, <4>1
    <3>5. CASE r # "Ok" /\ ~MoreBlocks(attempt)
      <4>1. subnet = NoSubnet
        BY <3>2, <3>5, ReplayedInsertOk
      <4>2. mode' = "unwound" /\ subnet' = subnet
        BY <2>1, <3>2, <3>5 DEF InsertAttempt, Failed
      <4>. QED
        BY <2>0, <2>1, <4>1, <4>2
    <3>. QED
      BY <3>3, <3>4, <3>5
  <2>. QED
    BY <2>2, <2>3
<1>2. CASE CreateRoute
  <2>1. mode = "fwd" /\ at = 2
    BY <1>2, RunningAt DEF CreateRoute
  <2>2. /\ UNCHANGED <<customParam, candidates, subnet>>
        /\ subnet # NoSubnet /\ ~subnet.custom
    BY <1>2, <2>1 DEF CreateRoute, SubnetRowWritten
  <2>3. \/ mode' = "fwd" /\ at' = 3 /\ route'
        \/ mode' = "fwd" /\ at' = 2
        \/ mode' = "unwind" /\ at' = 1 /\ ~route'
    BY <1>2, <2>1, DagFacts DEF CreateRoute, AlreadyExists, LookupResults, Done, Failed, Crash
  <2>. QED
    BY <2>1, <2>2, <2>3
<1>3. CASE LinkCustom
  <2>1. mode = "fwd" /\ at = 3
    BY <1>3, RunningAt DEF LinkCustom
  <2>2. /\ subnet \in [block : Blocks, custom : BOOLEAN]
        /\ subnet # NoSubnet /\ route /\ (subnet.custom => customParam)
    BY <2>1 DEF TypeOK, SubnetRowWritten
  <2>3. customParam' = customParam /\ candidates' = candidates /\ route' = route
    BY <1>3 DEF LinkCustom
  <2>4. CASE customParam
    <3>1. \/ subnet' = [subnet EXCEPT !.custom = TRUE] /\ \E rec \in BOOLEAN : Done(rec)
          \/ subnet' = subnet /\ Failed
      BY <1>3, <2>4, Zenon DEF LinkCustom
    <3>2. CASE subnet' = [subnet EXCEPT !.custom = TRUE] /\ \E rec \in BOOLEAN : Done(rec)
      <4>1. subnet' # NoSubnet /\ subnet'.custom = TRUE
        BY <2>2, <3>2, SetCustom
      <4>2. \/ mode' = "fwd" /\ at' = 4
            \/ mode' = "fwd" /\ at' = 3
        BY <2>1, <3>2, DagFacts DEF Done, Crash
      <4>3. mode' = "fwd" /\ at' \in 2 .. 4 /\ at' \in 3 .. 4 /\ at' # 1 /\ at' # 2
        BY <4>2
      <4>. QED
        BY <2>2, <2>3, <2>4, <4>1, <4>3, Zenon
    <3>3. CASE subnet' = subnet /\ Failed
      <4>1. mode' = "unwind" /\ at' = 2 /\ at' \in 2 .. 3 /\ at' # 1 /\ at' # 3
        BY <2>1, <3>3 DEF Failed
      <4>. QED
        BY <2>2, <2>3, <3>3, <4>1
    <3>. QED
      BY <3>1, <3>2, <3>3
  <2>5. CASE ~customParam
    <3>1. subnet' = subnet /\ \E rec \in BOOLEAN : Done(rec)
      BY <1>3, <2>5, Zenon DEF LinkCustom
    <3>2. \/ mode' = "fwd" /\ at' = 4
          \/ mode' = "fwd" /\ at' = 3
      BY <2>1, <3>1, DagFacts DEF Done, Crash
    <3>3. /\ subnet' # NoSubnet /\ subnet'.custom = FALSE /\ route' = TRUE
          /\ customParam' = customParam /\ customParam = FALSE
      BY <2>2, <2>3, <2>5, <3>1
    <3>4. mode' = "fwd" /\ at' \in 2 .. 4 /\ at' \in 3 .. 4 /\ at' # 1 /\ at' # 2
      BY <3>2
    <3>. QED
      BY <3>2, <3>3, <3>4, Zenon
  <2>. QED
    BY <2>4, <2>5
<1>4. CASE NotifyRpw
  <2>1. mode = "fwd" /\ at = 4
    BY <1>4, RunningAt DEF NotifyRpw
  <2>2. UNCHANGED <<customParam, candidates, subnet, route>>
    BY <1>4 DEF NotifyRpw
  <2>3. \/ mode' = "done"
        \/ mode' = "fwd" /\ at' = 4
        \/ mode' = "unwind" /\ at' = 3
    BY <1>4, <2>1, DagFacts DEF NotifyRpw, Done, Failed, Crash
  <2>. QED
    BY <2>1, <2>2, <2>3 DEF SubnetRowWritten
<1>5. CASE UndoLinkCustom
  <2>1. mode = "unwind" /\ at = 3
    BY <1>5, RunningAt DEF UndoLinkCustom
  <2>2. subnet \in [block : Blocks, custom : BOOLEAN]
    BY <2>1 DEF TypeOK
  <2>3. /\ UNCHANGED <<customParam, candidates, route>>
        /\ subnet' # NoSubnet
    BY <1>5, <2>1, <2>2, SetCustom DEF UndoLinkCustom
  <2>4. \/ mode' = "unwind" /\ at' = 2
        \/ mode' = "unwind" /\ at' = 3
    BY <1>5, <2>1 DEF UndoLinkCustom, Undone, Crash
  <2>. QED
    BY <2>1, <2>3, <2>4
<1>6. CASE UndoCreateRoute
  <2>1. mode = "unwind" /\ at = 2
    BY <1>6, RunningAt DEF UndoCreateRoute
  <2>2. UNCHANGED <<customParam, candidates, subnet>>
    BY <1>6 DEF UndoCreateRoute
  <2>3. \/ mode' = "unwind" /\ at' = 1 /\ ~route'
        \/ mode' = "unwind" /\ at' = 2
        \/ mode' = "stuck"
    BY <1>6, <2>1 DEF UndoCreateRoute, Undone, Stuck, Crash
  <2>. QED
    BY <2>1, <2>2, <2>3
<1>7. CASE UndoCreateSubnet
  <2>1. mode = "unwind" /\ at = 1
    BY <1>7, RunningAt DEF UndoCreateSubnet
  <2>2. UNCHANGED <<customParam, candidates, route>> /\ ~route
    BY <1>7, <2>1 DEF UndoCreateSubnet
  <2>3. \/ mode' = "unwound" /\ subnet' = NoSubnet
        \/ mode' = "unwind" /\ at' = 1
        \/ mode' = "stuck"
    BY <1>7, <2>1 DEF UndoCreateSubnet, Undone, Stuck, Crash
  <2>. QED
    BY <2>2, <2>3
<1>8. CASE \E b \in Blocks : OtherSubnet(b)
  BY <1>8 DEF OtherSubnet
<1>9. CASE OtherSubnetV4 \/ UNCHANGED vars
  BY <1>9 DEF OtherSubnetV4, vars
<1>. QED
  BY <1>1, <1>2, <1>3, <1>4, <1>5, <1>6, <1>7, <1>8, <1>9 DEF Next, SagaStep

\* Once the saga has finished or is stuck, no step changes what it wrote,
\* and no step changes its parameters.
LEMMA FinishedStays ==
  ASSUME TypeOK, [Next]_vars
  PROVE  /\ customParam' = customParam
         /\ mode \in {"done", "unwound", "stuck"} =>
              /\ mode' = mode /\ subnet' = subnet /\ route' = route
<1>1. SagaStep => mode \in {"fwd", "unwind"} /\ customParam' = customParam
  BY DEF SagaStep, CreateSubnet, CreateRoute, LinkCustom, NotifyRpw,
         UndoLinkCustom, UndoCreateRoute, UndoCreateSubnet, Running, Undoing
<1>2. ~SagaStep => UNCHANGED <<customParam, mode, subnet, route>>
  BY DEF Next, OtherSubnet, OtherSubnetV4, vars
<1>. QED
  BY <1>1, <1>2

\* The initial state is the abstract initial state.
LEMMA InitRefines == Init => Atomic!Init
BY DEF Init, Atomic!Init, Finished

\* Every step of the saga is a step of SubnetCreateAtomic or leaves what
\* the caller observes unchanged.
LEMMA StepRefines ==
  ASSUME TypeOK, RowsAtPosition, RowsAtPosition', [Next]_vars
  PROVE  [Atomic!Commit \/ Atomic!Abort]_Atomic!avars
<1>1. customParam' = customParam
  BY FinishedStays
<1>2. CASE mode \in {"done", "unwound", "stuck"}
  <2>1. mode' = mode /\ subnet' = subnet /\ route' = route
    BY <1>2, FinishedStays
  <2>. QED
    BY <1>1, <2>1 DEF Atomic!avars, Finished
<1>3. CASE mode \notin {"done", "unwound", "stuck"}
  <2>1. ~Finished
    BY <1>3 DEF Finished
  <2>2. CASE mode' = "done"
    <3>1. subnet' # NoSubnet /\ route' /\ subnet'.custom = customParam'
      BY <2>2 DEF RowsAtPosition
    <3>2. Finished' /\ (mode' = "done") /\ ~(mode = "done") /\ ~(mode = "unwound")
      BY <1>3, <2>2 DEF Finished
    <3>3. (Finished' /\ subnet' # NoSubnet /\ subnet'.custom) = customParam
      <4>1. customParam \in BOOLEAN
        BY DEF TypeOK
      <4>. QED
        BY <1>1, <3>1, <3>2, <4>1
    <3>4. (Finished' /\ subnet' # NoSubnet) = TRUE /\ (Finished' /\ route') = TRUE
      BY <3>1, <3>2
    <3>5. (Finished /\ subnet # NoSubnet) = FALSE /\ (Finished /\ route) = FALSE
      BY <2>1
    <3>. QED
      BY <1>1, <3>2, <3>3, <3>4, <3>5 DEF Atomic!Commit
  <2>3. CASE mode' = "unwound"
    <3>1. subnet' = NoSubnet /\ ~route'
      BY <2>3 DEF RowsAtPosition
    <3>. QED
      BY <1>1, <1>3, <2>1, <2>3, <3>1 DEF Atomic!Abort, Finished
  <2>4. CASE mode' \notin {"done", "unwound"}
    BY <1>1, <1>3, <2>4 DEF Atomic!avars, Finished
  <2>. QED
    BY <2>2, <2>3, <2>4
<1>. QED
  BY <1>2, <1>3

\* The saga is all-or-nothing (AllOrNothing, checked by the run
\* subnet_create_atomic): for every set of blocks and candidate sequences
\* and every crash bound, as long as a replayed action does not fail, each
\* run of the saga, mapped to what its caller sees once it has finished,
\* is a run of SubnetCreateAtomic: create the subnet, its route and its
\* custom-router link at once, or fail and leave nothing behind.
THEOREM Refinement ==
  ASSUME ~ReplayMayFail
  PROVE  Spec => AllOrNothing
<1>1. Init => IInv
  <2>1. Init => RowsAtPosition
    BY DEF Init, RowsAtPosition
  <2>. QED
    BY <2>1, TypeInit DEF IInv
<1>2. IInv /\ [Next]_vars => IInv'
  BY TypeStep, RowWrittenStep, RowsStep DEF IInv, TypeInv
<1>3. IInv /\ IInv' /\ [Next]_vars => [Atomic!Commit \/ Atomic!Abort]_Atomic!avars
  BY StepRefines DEF IInv, TypeInv
<1>. QED
  BY <1>1, <1>2, <1>3, InitRefines, PTL DEF Spec, AllOrNothing, Atomic!Spec

\* verify_clean_slate holds after every unwinding (UnwoundCleanSlate, whose
\* run subnet_replay_leak finds violated once a replay may fail) as long as
\* replayed actions succeed.
THEOREM CleanSlateUnderContract ==
  ASSUME ~ReplayMayFail
  PROVE  Spec => []UnwoundCleanSlate
<1>1. Init => IInv
  <2>1. Init => RowsAtPosition
    BY DEF Init, RowsAtPosition
  <2>. QED
    BY <2>1, TypeInit DEF IInv
<1>2. IInv /\ [Next]_vars => IInv'
  BY TypeStep, RowWrittenStep, RowsStep DEF IInv, TypeInv
<1>3. IInv => UnwoundCleanSlate
  BY DEF IInv, RowsAtPosition, UnwoundCleanSlate
<1>. QED
  BY <1>1, <1>2, <1>3, PTL DEF Spec

(***************************************************************************)
(* The rpw notification.  The executor reaches "done" only by recording    *)
(* the last node, svsc_notify_rpw, whose action bumps the version; once    *)
(* done, no node runs again and concurrent subnets do not touch the        *)
(* saga's routing.  No assumption on replays is needed.                    *)
(***************************************************************************)

\* The executor finishes only by recording the last node's action.
LEMMA DoneAfterLastNode ==
  ASSUME ExecOK, ExecMove, mode # "done", mode' = "done"
  PROVE  mode = "fwd" /\ at = 4
<1>1. CASE mode = "fwd" /\ \E rec \in BOOLEAN : Done(rec)
  BY <1>1, DagFacts DEF Done, Crash
<1>2. CASE mode = "fwd" /\ Failed
  BY <1>2 DEF Failed
<1>3. CASE mode = "unwind" /\ \E rec \in BOOLEAN : Undone(rec)
  BY <1>3 DEF Undone, Crash
<1>4. CASE Stuck
  BY <1>4 DEF Stuck
<1>5. CASE UNCHANGED <<mode, at, crashes>>
  BY <1>5
<1>. QED
  BY <1>1, <1>2, <1>3, <1>4, <1>5 DEF ExecMove

LEMMA NotifiedStep ==
  ASSUME TypeOK, CreatedNotified, [Next]_vars
  PROVE  CreatedNotified'
<1> SUFFICES ASSUME mode' = "done" PROVE ~dirty'
  BY DEF CreatedNotified
<1>1. CASE mode = "done"
  <2>1. ~SagaStep
    BY <1>1 DEF SagaStep, CreateSubnet, CreateRoute, LinkCustom, NotifyRpw,
                UndoLinkCustom, UndoCreateRoute, UndoCreateSubnet,
                Running, Undoing
  <2>. QED
    BY <1>1, <2>1 DEF Next, OtherSubnet, OtherSubnetV4, vars, CreatedNotified
<1>2. CASE mode # "done"
  <2>1. SagaStep
    BY <1>2 DEF Next, OtherSubnet, OtherSubnetV4, vars
  <2>2. mode = "fwd" /\ at = 4
    BY <1>2, <2>1, SagaExecMove, DoneAfterLastNode, TypeSplit
  <2>3. Running("notify") /\ ~Running("subnet") /\ ~Running("route")
        /\ ~Running("link") /\ ~Undoing("link") /\ ~Undoing("route")
        /\ ~Undoing("subnet")
    BY <2>2, RunningAt
  <2>4. NotifyRpw
    BY <2>1, <2>3 DEF SagaStep, CreateSubnet, CreateRoute, LinkCustom,
                      UndoLinkCustom, UndoCreateRoute, UndoCreateSubnet
  <2>. QED
    BY <2>4 DEF NotifyRpw, Failed
<1>. QED
  BY <1>1, <1>2

\* A saga that completes has bumped the VPC's rpw version after its last
\* change to the routing, whatever the crashes, replays, failed inserts and
\* concurrent subnets on the way, for every value of the constants.
THEOREM CompletionNotified == Spec => []CreatedNotified
<1>1. Init => CreatedNotified
  BY DEF Init, CreatedNotified
<1>2. TypeInv /\ CreatedNotified /\ [Next]_vars
        => TypeInv' /\ CreatedNotified'
  BY TypeStep, RowWrittenStep, NotifiedStep DEF TypeInv
<1>. QED
  BY TypeInit, <1>1, <1>2, PTL DEF Spec, TypeInv

=============================================================================
