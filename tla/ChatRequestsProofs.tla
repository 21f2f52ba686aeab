------------------------- MODULE ChatRequestsProofs -------------------------
(***************************************************************************)
(* Proofs about the idempotency gate, for any sets of sessions, keys,      *)
(* contents and notes.                                                     *)
(***************************************************************************)
EXTENDS ChatRequests, TLAPS

USE ConstantsAssumption

\* What one session does: the disjuncts of Next for one client, flattened.
Step(c) ==
  \/ StartExecute(c) \/ StartUnkeyed(c) \/ StartRecover(c) \/ RefuseRecover(c)
  \/ Lookup(c) \/ Insert(c) \/ InsertLoses(c) \/ InsertRaises(c)
  \/ TurnWrites(c) \/ TurnCompletes(c) \/ TurnFails(c)
  \/ RecordFailedRun(c) \/ SkipFailedRun(c)
  \/ UnkeyedCommit(c) \/ UnkeyedCommitRaises(c)
  \/ Stage(c) \/ StageRaises(c) \/ CommitCompleted(c) \/ CommitRaises(c)
  \/ MarkFailed(c) \/ MarkFailedRaises(c)
  \/ ReconcileCompleted(c) \/ ReconcileFailed(c) \/ ReconcileRaises(c)
  \/ Crash(c)

LEMMA NextIsStep == Next <=> \E c \in Clients : Step(c)
  BY DEF Next, Step, Arrive, Reserve, Turn, Settle

-----------------------------------------------------------------------------
(* Type correctness                                                        *)

LEMMA TypeInit == Init => TypeOK
  BY DEF Init, TypeOK, Pending, NothingPending, Call, NoCall, Reply, NoReply, Stages

LEMMA RollbackType ==
  ASSUME TypeOK, NEW c \in Clients, Rollback(c)
  PROVE  /\ lock' \in Clients \cup {NoClient}
         /\ pending' \in [Clients -> Pending]
  BY DEF TypeOK, Rollback, Pending, NothingPending

LEMMA FinishType ==
  ASSUME TypeOK, NEW c \in Clients, NEW run \in Nat,
         NEW kind \in {"ok", "conflict", "in_progress", "previous_failure",
                       "failed", "error"},
         Finish(c, kind, run)
  PROVE  /\ pc' \in [Clients -> Stages]
         /\ call' \in [Clients -> Call]
         /\ reply' \in [Clients -> Reply]
  BY DEF TypeOK, Finish, Goto, NoCall, Stages, Call, Reply

-----------------------------------------------------------------------------
(* The inductive invariant                                                 *)

\* SingleWriter, with the whole shape of a pending transaction at each stage:
\* what a commit makes durable depends on it.
WriterInv ==
  \A c \in Clients :
    /\ pc[c] \in InTransaction <=> lock = c
    /\ pc[c] \notin InTransaction => pending[c] = NothingPending
    /\ pc[c] = "dirty" => pending[c].run = 0 /\ ~pending[c].staged
    /\ pc[c] = "flushed" => pending[c].run = Len(runs) + 1 /\ ~pending[c].staged
    /\ pc[c] = "staged" => pending[c].run = Len(runs) + 1 /\ pending[c].staged
    /\ pc[c] \in {"check", "insert", "staged", "failing", "reconcile"} =>
         call[c].key # Absent
    /\ pc[c] \in {"check", "insert"} => call[c].content # Absent

IInv == TypeOK /\ WriterInv /\ SingleExecutor /\ AtomicCompletion /\ TruthfulReplies

LEMMA TypeStep ==
  ASSUME TypeOK, WriterInv, SingleExecutor, NEW c \in Clients, Step(c)
  PROVE  TypeOK'
<1> USE AbsentAssumption DEF TypeOK
<1>a. /\ call[c].key \in Keys \cup {Absent} /\ call[c].content \in Contents \cup {Absent}
      /\ call[c].source \in Keys \cup {Absent} /\ call[c].note \in Notes \cup {Absent}
  BY DEF Call
<1>c. pending[c] \in Pending /\ Len(runs) + 1 \in Nat
  OBVIOUS
<1>b. pending[c].changed \in BOOLEAN /\ pending[c].run \in Nat
  BY DEF Pending
<1>1. ASSUME NEW s \in Stages, Goto(c, s) PROVE pc' \in [Clients -> Stages]
  BY <1>1 DEF Goto
<1>2. CASE StartExecute(c)
  BY <1>1, <1>2 DEF StartExecute, Begin, Stages, NoReply, Goto, Call, Reply
<1>3. CASE StartUnkeyed(c)
  BY <1>1, <1>3 DEF StartUnkeyed, Begin, Stages, Executing, NoReply, NoCall, Goto, Call, Reply
<1>4. CASE StartRecover(c)
  BY <1>1, <1>4 DEF StartRecover, Begin, Stages, NoReply, Goto, Row, Call, Reply
<1>5. CASE RefuseRecover(c)
  BY <1>5 DEF RefuseRecover, NoReply, Reply
<1>6. CASE Lookup(c)
  <2>1. CASE requests[call[c].key] = Absent
    BY <1>1, <1>6, <2>1 DEF Lookup, Stages, Goto
  <2>2. CASE requests[call[c].key] # Absent
    <3>1. call[c].key \in Keys
      BY <1>a, <1>6 DEF Lookup, WriterInv
    <3>2. requests[call[c].key] \in Row
      BY <3>1, <2>2
    <3>3. requests[call[c].key].run \in Nat
      BY <3>2 DEF Row
    <3>4. PICK kind \in {"ok", "conflict", "in_progress", "previous_failure"},
               run \in {0, requests[call[c].key].run} : Finish(c, kind, run)
      BY <1>6, <2>2, <3>2 DEF Lookup, Resolve, Row, Statuses
    <3>5. QED
      BY <1>6, <3>3, <3>4, FinishType DEF Lookup
  <2>3. QED
    BY <2>1, <2>2
<1>7. ASSUME call[c].key \in Keys, call[c].content \in Contents, InsertRow(c)
      PROVE  requests' \in [Keys -> Row \cup {Absent}]
  BY <1>a, <1>7 DEF InsertRow, Row, Statuses
<1>8. CASE Insert(c)
  BY <1>a, <1>1, <1>7, <1>8 DEF Insert, WriterInv, Stages, Executing, Goto
<1>9. CASE InsertLoses(c)
  BY <1>1, <1>9 DEF InsertLoses, Stages, Goto
<1>10. CASE InsertRaises(c)
  BY <1>a, <1>7, <1>10, FinishType DEF InsertRaises, WriterInv
<1>11. CASE TurnWrites(c)
  <2>1. [pending[c] EXCEPT !.changed = TRUE] \in Pending
    BY <1>c, Zenon DEF Pending
  <2>2. QED
    BY <1>1, <1>11, <2>1 DEF TurnWrites, Stages, Executing, InTransaction
<1>12. CASE TurnCompletes(c)
  <2>1. [pending[c] EXCEPT !.run = Len(runs) + 1] \in Pending
    BY <1>c, Zenon DEF Pending
  <2>2. QED
    BY <1>1, <1>12, <2>1 DEF TurnCompletes, Stages, Executing, InTransaction
<1>13. CASE TurnFails(c)
  BY <1>1, <1>13, RollbackType DEF TurnFails, Stages, Executing
<1>14. ASSUME Propagate(c)
       PROVE  pc' \in [Clients -> Stages] /\ call' \in [Clients -> Call]
              /\ reply' \in [Clients -> Reply]
  BY <1>1, <1>14, FinishType DEF Propagate, Stages, Executing
<1>15. CASE RecordFailedRun(c)
  <2>1. runs' \in Seq(Run)
    BY <1>a, <1>15 DEF RecordFailedRun, Run
  <2>2. QED
    BY <1>14, <1>15, <2>1 DEF RecordFailedRun
<1>16. CASE SkipFailedRun(c)
  BY <1>14, <1>16 DEF SkipFailedRun
<1>17. ASSUME Commit(c), pending[c].staged => /\ call[c].key \in Keys
                                              /\ requests[call[c].key] \in Row
       PROVE  /\ requests' \in [Keys -> Row \cup {Absent}]
              /\ runs' \in Seq(Run)
              /\ effects' \in [Keys -> Nat]
              /\ pending' \in [Clients -> Pending]
              /\ lock' \in Clients \cup {NoClient}
  <2>0. [key |-> call[c].key, status |-> "completed", changed |-> pending[c].changed] \in Run
    BY <1>a, <1>b, Zenon DEF Run
  <2>1. runs' \in Seq(Run)
    BY <1>17, <2>0 DEF Commit
  <2>2. requests' \in [Keys -> Row \cup {Absent}]
    BY <1>b, <1>17 DEF Commit, Row, Statuses
  <2>3. QED
    <3>1. NothingPending \in Pending
      BY DEF NothingPending, Pending
    <3>2. effects' \in [Keys -> Nat]
      BY <1>a, <1>17 DEF Commit
    <3>3. QED
      BY <1>17, <2>1, <2>2, <3>1, <3>2 DEF Commit
<1>18. CASE UnkeyedCommit(c)
  <2>1. ~pending[c].staged /\ pending[c].run \in Nat
    BY <1>b, <1>18 DEF UnkeyedCommit, WriterInv
  <2>2. QED
    BY <1>17, <1>18, <2>1, FinishType DEF UnkeyedCommit
<1>19. CASE UnkeyedCommitRaises(c)
  <2>1. ~pending[c].staged
    BY <1>19 DEF UnkeyedCommitRaises, WriterInv
  <2>2. QED
    BY <1>1, <1>17, <1>19, <2>1, RollbackType DEF UnkeyedCommitRaises, Stages, Executing
<1>20. CASE Stage(c)
  <2>1. [pending[c] EXCEPT !.staged = TRUE] \in Pending
    BY <1>c, Zenon DEF Pending
  <2>2. QED
    BY <1>1, <1>20, <2>1 DEF Stage, Stages, Executing, InTransaction
<1>21. CASE StageRaises(c)
  BY <1>1, <1>21, RollbackType DEF StageRaises, Stages, Executing
<1>22. ASSUME pc[c] \in {"staged", "failing"}
       PROVE  call[c].key \in Keys /\ requests[call[c].key] \in Row
  <2>1. call[c].key \in Keys
    BY <1>a, <1>22 DEF WriterInv
  <2>2. QED
    BY <1>22, <2>1 DEF SingleExecutor, HasStatus, Executing, InTransaction
<1>23. CASE CommitCompleted(c)
  BY <1>b, <1>17, <1>22, <1>23, FinishType DEF CommitCompleted
<1>24. CASE CommitRaises(c)
  BY <1>1, <1>17, <1>22, <1>24, RollbackType DEF CommitRaises, Stages, Executing
<1>25. ASSUME call[c].key \in Keys, requests[call[c].key] \in Row, CloseAsFailed(c)
       PROVE  requests' \in [Keys -> Row \cup {Absent}]
  BY <1>25 DEF CloseAsFailed, Row, Statuses
<1>26. CASE MarkFailed(c)
  BY <1>22, <1>25, <1>26, FinishType DEF MarkFailed
<1>27. CASE MarkFailedRaises(c)
  BY <1>22, <1>25, <1>27, FinishType DEF MarkFailedRaises
<1>28. ASSUME pc[c] = "reconcile"
       PROVE  call[c].key \in Keys /\ requests[call[c].key] \in Row
  <2>1. call[c].key \in Keys
    BY <1>a, <1>28 DEF WriterInv
  <2>2. QED
    BY <1>28, <2>1 DEF SingleExecutor, HasStatus, Executing
<1>29. CASE ReconcileCompleted(c)
  <2>1. requests[call[c].key].run \in Nat
    BY <1>28, <1>29 DEF ReconcileCompleted, Row
  <2>2. QED
    BY <1>29, <2>1, FinishType DEF ReconcileCompleted
<1>30. CASE ReconcileFailed(c)
  BY <1>25, <1>28, <1>30, FinishType DEF ReconcileFailed
<1>31. CASE ReconcileRaises(c)
  BY <1>25, <1>28, <1>31, FinishType DEF ReconcileRaises
<1>32. CASE Crash(c)
  BY <1>1, <1>32, RollbackType DEF Crash, Stages, Call, NoCall
<1>33. QED
  BY <1>2, <1>3, <1>4, <1>5, <1>6, <1>8, <1>9, <1>10, <1>11, <1>12, <1>13, <1>15,
     <1>16, <1>18, <1>19, <1>20, <1>21, <1>23, <1>24, <1>26, <1>27, <1>29, <1>30,
     <1>31, <1>32 DEF Step

LEMMA WriterStep ==
  ASSUME TypeOK, WriterInv, NEW c \in Clients, Step(c)
  PROVE  WriterInv'
<1> DEFINE Shape(d) ==
      /\ pc[d] \in InTransaction <=> lock = d
      /\ pc[d] \notin InTransaction => pending[d] = NothingPending
      /\ pc[d] = "dirty" => pending[d].run = 0 /\ ~pending[d].staged
      /\ pc[d] = "flushed" => pending[d].run = Len(runs) + 1 /\ ~pending[d].staged
      /\ pc[d] = "staged" => pending[d].run = Len(runs) + 1 /\ pending[d].staged
      /\ pc[d] \in {"check", "insert", "staged", "failing", "reconcile"} =>
           call[d].key # Absent
      /\ pc[d] \in {"check", "insert"} => call[d].content # Absent
<1> SUFFICES ASSUME NEW d \in Clients PROVE Shape(d)'
  BY DEF WriterInv
<1>1. Shape(c) /\ Shape(d)
  BY DEF WriterInv
<1>2. /\ pc \in [Clients -> Stages] /\ pending \in [Clients -> Pending]
      /\ call \in [Clients -> Call] /\ lock \in Clients \cup {NoClient}
  BY DEF TypeOK
<1> HIDE DEF Shape
<1> USE DEF Goto, InTransaction
<1>3. ASSUME UNCHANGED <<runs, lock, pending>>, pc' = [pc EXCEPT ![c] = "idle"],
             call' = [call EXCEPT ![c] = NoCall], pc[c] \notin InTransaction
      PROVE  Shape(d)'
  BY <1>1, <1>2, <1>3 DEF Shape
<1>4. CASE StartExecute(c)
  BY <1>1, <1>2, <1>4 DEF StartExecute, Begin, Shape
<1>5. CASE StartUnkeyed(c)
  BY <1>1, <1>2, <1>5 DEF StartUnkeyed, Begin, Shape
<1>6. CASE StartRecover(c)
  <2>1. \A s \in Keys : requests[s] # Absent => requests[s].content # Absent
    BY DEF TypeOK, Row
  <2>2. QED
    BY <1>1, <1>2, <1>6, <2>1 DEF StartRecover, Begin, Shape
<1>7. CASE RefuseRecover(c)
  BY <1>1, <1>7 DEF RefuseRecover, Shape
<1>8. CASE Lookup(c)
  <2>1. CASE requests[call[c].key] = Absent
    BY <1>1, <1>2, <1>8, <2>1 DEF Lookup, Shape
  <2>2. CASE requests[call[c].key] # Absent
    <3>1. call[c].key \in Keys
      BY <1>1, <1>2, <1>8 DEF Lookup, Shape, Call
    <3>2. requests[call[c].key].status \in Statuses
      BY <2>2, <3>1 DEF TypeOK, Row
    <3>3. QED
      BY <1>3, <1>8, <2>2, <3>2 DEF Lookup, Resolve, Finish, Statuses
  <2>3. QED
    BY <2>1, <2>2
<1>9. CASE Insert(c)
  BY <1>1, <1>2, <1>9 DEF Insert, Shape
<1>10. CASE InsertLoses(c)
  BY <1>1, <1>2, <1>10 DEF InsertLoses, Shape
<1>11. CASE InsertRaises(c)
  BY <1>3, <1>11 DEF InsertRaises, Finish
<1>12. CASE TurnWrites(c)
  BY <1>1, <1>2, <1>12 DEF TurnWrites, Shape, NothingPending, Pending
<1>13. CASE TurnCompletes(c)
  BY <1>1, <1>2, <1>13 DEF TurnCompletes, Shape, NothingPending, Pending
<1>14. ASSUME Rollback(c), runs' = runs, call' = call \/ call' = [call EXCEPT ![c] = NoCall],
              NEW s \in {"idle", "record", "failing", "reconcile"},
              s \in {"failing", "reconcile"} => call' = call /\ call[c].key # Absent,
              pc' = [pc EXCEPT ![c] = s]
       PROVE  Shape(d)'
  BY <1>1, <1>2, <1>14 DEF Rollback, Shape
<1>15. CASE TurnFails(c)
  BY <1>14, <1>15 DEF TurnFails
<1>16. ASSUME Propagate(c), UNCHANGED <<lock, pending>>, pc[c] = "record",
              lock = NoClient \/ runs' = runs
       PROVE  Shape(d)'
  BY <1>1, <1>2, <1>16 DEF Propagate, Finish, Shape, NoCall
<1>17. CASE RecordFailedRun(c)
  BY <1>16, <1>17 DEF RecordFailedRun
<1>18. CASE SkipFailedRun(c)
  BY <1>16, <1>18 DEF SkipFailedRun
<1>19. ASSUME Commit(c), pc[c] \in InTransaction,
              call' = call \/ call' = [call EXCEPT ![c] = NoCall],
              NEW s \in {"idle", "record", "reconcile"},
              s = "reconcile" => call' = call /\ call[c].key # Absent,
              pc' = [pc EXCEPT ![c] = s]
       PROVE  Shape(d)'
  <2>1. d # c => pc[d] \notin InTransaction
    BY <1>1, <1>19 DEF Shape
  <2>2. pending' = [pending EXCEPT ![c] = NothingPending] /\ lock' = NoClient
    BY <1>19 DEF Commit
  <2>3. pc'[d] \notin InTransaction /\ pending'[d] = NothingPending
    BY <1>1, <1>2, <1>19, <2>1, <2>2 DEF Shape
  <2>4. pc'[d] \in {"check", "insert", "failing"} => d # c
    BY <1>2, <1>19
  <2>5. QED
    BY <1>1, <1>2, <1>19, <2>2, <2>3, <2>4 DEF Shape
<1>20. CASE UnkeyedCommit(c)
  BY <1>19, <1>20 DEF UnkeyedCommit, Finish
<1>21. CASE UnkeyedCommitRaises(c)
  BY <1>14, <1>19, <1>21 DEF UnkeyedCommitRaises
<1>22. CASE Stage(c)
  BY <1>1, <1>2, <1>22 DEF Stage, Shape, Pending
<1>23. CASE StageRaises(c)
  BY <1>14, <1>23 DEF StageRaises
<1>24. CASE CommitCompleted(c)
  BY <1>19, <1>24 DEF CommitCompleted, Finish
<1>25. CASE CommitRaises(c)
  BY <1>1, <1>2, <1>14, <1>19, <1>25 DEF CommitRaises, Shape
<1>26. CASE MarkFailed(c)
  BY <1>3, <1>26 DEF MarkFailed, Finish
<1>27. CASE MarkFailedRaises(c)
  BY <1>3, <1>27 DEF MarkFailedRaises, Finish
<1>28. CASE ReconcileCompleted(c)
  BY <1>3, <1>28 DEF ReconcileCompleted, Finish
<1>29. CASE ReconcileFailed(c)
  BY <1>3, <1>29 DEF ReconcileFailed, Finish
<1>30. CASE ReconcileRaises(c)
  BY <1>3, <1>30 DEF ReconcileRaises, Finish
<1>31. CASE Crash(c)
  BY <1>14, <1>31 DEF Crash
<1>32. QED
  BY <1>4, <1>5, <1>6, <1>7, <1>8, <1>9, <1>10, <1>11, <1>12, <1>13, <1>15, <1>17,
     <1>18, <1>20, <1>21, <1>22, <1>23, <1>24, <1>25, <1>26, <1>27, <1>28, <1>29,
     <1>30, <1>31 DEF Step

LEMMA ExecutorStep ==
  ASSUME TypeOK, WriterInv, SingleExecutor, NEW c \in Clients, Step(c)
  PROVE  SingleExecutor'
<1> DEFINE Executes(d) == pc[d] \in Executing /\ call[d].key # Absent
           Open(d) == \/ HasStatus(call[d].key, "processing")
                      \/ pc[d] = "reconcile" /\ HasStatus(call[d].key, "completed")
<1> SUFFICES /\ \A d \in Clients : Executes(d)' => Open(d)'
             /\ \A d, e \in Clients : d # e /\ Executes(d)' /\ Executes(e)' =>
                  call'[d].key # call'[e].key
  BY DEF SingleExecutor
<1>1. /\ \A d \in Clients : Executes(d) => Open(d)
      /\ \A d, e \in Clients : d # e /\ Executes(d) /\ Executes(e) =>
           call[d].key # call[e].key
  BY DEF SingleExecutor
<1>2. /\ pc \in [Clients -> Stages] /\ call \in [Clients -> Call]
      /\ requests \in [Keys -> Row \cup {Absent}]
      /\ call[c].key \in Keys \cup {Absent}
  BY DEF TypeOK, Call
<1> DEFINE Goal == /\ \A d \in Clients : Executes(d)' => Open(d)'
                   /\ \A d, e \in Clients : d # e /\ Executes(d)' /\ Executes(e)' =>
                        call'[d].key # call'[e].key
<1> USE DEF Goto
\* A call that ends, or that has not begun to execute, changes no other one.
<1>3. ASSUME UNCHANGED requests, NEW s \in {"idle", "check", "insert"},
             NEW a, call' = call \/ call' = [call EXCEPT ![c] = a],
             pc' = [pc EXCEPT ![c] = s]
      PROVE  Goal
  BY <1>1, <1>2, <1>3 DEF Executing, InTransaction, HasStatus
\* A call that goes on executing keeps its key.
<1>4. ASSUME UNCHANGED <<requests, call>>, NEW s \in Executing,
             pc' = [pc EXCEPT ![c] = s], pc[c] \in Executing \ {"reconcile"}
      PROVE  Goal
  BY <1>1, <1>2, <1>4 DEF HasStatus
<1>5. CASE StartExecute(c)
  BY <1>3, <1>5 DEF StartExecute, Begin
<1>6. CASE StartUnkeyed(c)
  <2>1. ~Executes(c)'
    BY <1>2, <1>6 DEF StartUnkeyed, Begin, NoCall
  <2>2. \A d \in Clients \ {c} : (Executes(d)' <=> Executes(d)) /\ (Open(d)' <=> Open(d))
                                 /\ call'[d].key = call[d].key
    BY <1>2, <1>6 DEF StartUnkeyed, Begin, HasStatus
  <2>3. QED
    BY <1>1, <2>1, <2>2
<1>7. CASE StartRecover(c)
  BY <1>3, <1>7 DEF StartRecover, Begin
<1>8. CASE RefuseRecover(c)
  BY <1>1, <1>8 DEF RefuseRecover, HasStatus
<1>9. CASE Lookup(c)
  <2>1. CASE requests[call[c].key] = Absent
    BY <1>3, <1>9, <2>1 DEF Lookup
  <2>2. CASE requests[call[c].key] # Absent
    <3>1. call[c].key \in Keys
      BY <1>2, <1>9 DEF Lookup, WriterInv
    <3>2. requests[call[c].key].status \in Statuses
      BY <1>2, <2>2, <3>1 DEF Row
    <3>3. QED
      BY <1>3, <1>9, <2>2, <3>2 DEF Lookup, Resolve, Finish, Statuses
  <2>3. QED
    BY <2>1, <2>2
\* A new row has no executor yet: every executor's row exists.
<1>10. ASSUME InsertRow(c), requests[call[c].key] = Absent, pc[c] = "insert"
       PROVE  /\ call[c].key \in Keys
              /\ requests'[call[c].key] # Absent
              /\ requests'[call[c].key].status = "processing"
              /\ \A k \in Keys \ {call[c].key} : requests'[k] = requests[k]
              /\ \A d \in Clients : Executes(d) => call[d].key # call[c].key
  <2>1. call[c].key \in Keys
    BY <1>2, <1>10 DEF WriterInv
  <2>2. requests'[call[c].key] # Absent /\ requests'[call[c].key].status = "processing"
    <3>1. [status |-> "processing", content |-> call[c].content,
           source |-> call[c].source, note |-> call[c].note, run |-> 0] \in Row
      <4>1. call[c].content \in Contents
        BY <1>10 DEF TypeOK, Call, WriterInv
      <4>2. QED
        BY <1>2, <4>1 DEF Row, Statuses, Call
    <3>2. requests'[call[c].key] = [status |-> "processing", content |-> call[c].content,
             source |-> call[c].source, note |-> call[c].note, run |-> 0]
      BY <1>2, <1>10, <2>1 DEF InsertRow
    <3>3. QED
      BY <3>1, <3>2, AbsentAssumption
  <2>3. \A d \in Clients : Executes(d) => call[d].key # call[c].key
    BY <1>1, <1>10 DEF HasStatus
  <2>4. QED
    BY <1>2, <1>10, <2>1, <2>2, <2>3 DEF InsertRow
<1>11. CASE Insert(c)
  <2>1. /\ requests'[call[c].key] # Absent
        /\ requests'[call[c].key].status = "processing"
        /\ \A k \in Keys \ {call[c].key} : requests'[k] = requests[k]
        /\ \A d \in Clients : Executes(d) => call[d].key # call[c].key
    BY <1>10, <1>11 DEF Insert
  <2>2. call' = call /\ pc' = [pc EXCEPT ![c] = "turn"]
    BY <1>11 DEF Insert
  <2>3. \A d \in Clients \ {c} : Executes(d)' <=> Executes(d)
    BY <1>2, <2>2
  <2>4. \A d \in Clients \ {c} : Executes(d) => Open(d)'
    BY <1>1, <1>2, <2>1, <2>2 DEF HasStatus, Call
  <2>5. Open(c)'
    BY <2>1, <2>2 DEF HasStatus
  <2>6. QED
    BY <1>1, <2>1, <2>2, <2>3, <2>4, <2>5
<1>12. CASE InsertLoses(c)
  BY <1>3, <1>12 DEF InsertLoses
<1>13. CASE InsertRaises(c)
  <2>1. CASE UNCHANGED requests
    BY <1>3, <1>13, <2>1 DEF InsertRaises, Finish
  <2>2. CASE InsertRow(c) /\ requests[call[c].key] = Absent
    <3>1. /\ \A k \in Keys \ {call[c].key} : requests'[k] = requests[k]
          /\ \A d \in Clients : Executes(d) => call[d].key # call[c].key
      BY <1>10, <1>13, <2>2 DEF InsertRaises
    <3>2. call' = [call EXCEPT ![c] = NoCall] /\ pc' = [pc EXCEPT ![c] = "idle"]
      BY <1>13 DEF InsertRaises, Finish
    <3>3. ~Executes(c)'
      BY <1>2, <3>2 DEF Executing, InTransaction
    <3>4. \A d \in Clients \ {c} : (Executes(d)' <=> Executes(d)) /\ call'[d] = call[d]
      BY <1>2, <3>2
    <3>5. \A d \in Clients \ {c} : Executes(d) => Open(d)'
      BY <1>1, <1>2, <3>1, <3>2 DEF HasStatus, Call
    <3>6. QED
      BY <1>1, <3>3, <3>4, <3>5
  <2>3. QED
    BY <1>13, <2>1, <2>2 DEF InsertRaises
<1>14. CASE TurnWrites(c)
  BY <1>4, <1>14 DEF TurnWrites, Executing, InTransaction
<1>15. CASE TurnCompletes(c)
  BY <1>4, <1>15 DEF TurnCompletes, Executing, InTransaction
<1>16. CASE TurnFails(c)
  BY <1>4, <1>16 DEF TurnFails, Executing, InTransaction
<1>17. CASE RecordFailedRun(c)
  BY <1>3, <1>4, <1>17 DEF RecordFailedRun, Propagate, Finish, Executing, InTransaction
<1>18. CASE SkipFailedRun(c)
  BY <1>3, <1>4, <1>18 DEF SkipFailedRun, Propagate, Finish, Executing, InTransaction
<1>19. CASE UnkeyedCommit(c)
  <2>1. ~pending[c].staged
    BY <1>19 DEF UnkeyedCommit, WriterInv
  <2>2. QED
    BY <1>3, <1>19, <2>1 DEF UnkeyedCommit, Commit, Finish
<1>20. CASE UnkeyedCommitRaises(c)
  <2>1. ~pending[c].staged
    BY <1>20 DEF UnkeyedCommitRaises, WriterInv
  <2>2. QED
    BY <1>4, <1>20, <2>1 DEF UnkeyedCommitRaises, Commit, Executing, InTransaction
<1>21. CASE Stage(c)
  BY <1>4, <1>21 DEF Stage, Executing, InTransaction
<1>22. CASE StageRaises(c)
  BY <1>4, <1>22 DEF StageRaises, Executing, InTransaction
\* The executor closes its own row and nobody else's.
<1>23. ASSUME NEW s \in {"idle", "reconcile"}, pc' = [pc EXCEPT ![c] = s],
              pc[c] \in Executing, call[c].key # Absent,
              NEW row \in Row, requests' = [requests EXCEPT ![call[c].key] = row],
              \/ s = "reconcile" /\ row.status = "completed" /\ call' = call
              \/ s = "idle" /\ call' = [call EXCEPT ![c] = NoCall]
       PROVE  Goal
  <2>1. \A d \in Clients \ {c} : Executes(d) => /\ call[d].key # call[c].key
                                                /\ requests'[call[d].key] = requests[call[d].key]
    BY <1>1, <1>2, <1>23
  <2>2. \A d \in Clients \ {c} : (Executes(d)' <=> Executes(d)) /\ pc'[d] = pc[d]
                                 /\ call'[d] = call[d]
    BY <1>2, <1>23
  <2>3. Executes(c)' => s = "reconcile"
    BY <1>2, <1>23 DEF Executing, InTransaction
  <2>4. s = "reconcile" => HasStatus(call[c].key, "completed")' /\ pc'[c] = "reconcile"
    BY <1>2, <1>23, AbsentAssumption DEF HasStatus
  <2>5. QED
    BY <1>1, <1>23, <2>1, <2>2, <2>3, <2>4 DEF HasStatus
<1>24. ASSUME pc[c] \in {"staged", "failing", "reconcile"}
       PROVE  /\ call[c].key \in Keys /\ requests[call[c].key] \in Row
              /\ pc[c] \in Executing
  BY <1>1, <1>2, <1>24 DEF WriterInv, HasStatus, Executing, InTransaction
<1>25. ASSUME pc[c] = "staged", Commit(c)
       PROVE  \E row \in Row : /\ row.status = "completed"
                               /\ requests' = [requests EXCEPT ![call[c].key] = row]
  <2>1. pending[c].staged /\ pending[c].run \in Nat
    BY <1>25 DEF WriterInv, TypeOK
  <2> DEFINE row == [requests[call[c].key] EXCEPT !.status = "completed",
                                                  !.run = pending[c].run]
  <2>2. row \in Row /\ row.status = "completed"
    BY <1>24, <1>25, <2>1 DEF Row, Statuses
  <2>3. requests' = [requests EXCEPT ![call[c].key] = row]
    BY <1>25, <2>1 DEF Commit
  <2>4. QED
    BY <2>2, <2>3
<1>26. ASSUME pc[c] \in {"failing", "reconcile"}, CloseAsFailed(c)
       PROVE  \E row \in Row : requests' = [requests EXCEPT ![call[c].key] = row]
  BY <1>24, <1>26 DEF CloseAsFailed, Row, Statuses
<1>27. CASE CommitCompleted(c)
  BY <1>23, <1>24, <1>25, <1>27 DEF CommitCompleted, Finish
<1>28. CASE CommitRaises(c)
  <2>1. CASE Commit(c)
    BY <1>23, <1>24, <1>25, <1>28, <2>1 DEF CommitRaises
  <2>2. CASE UNCHANGED requests
    BY <1>4, <1>28, <2>2 DEF CommitRaises, Executing, InTransaction
  <2>3. QED
    BY <1>28, <2>1, <2>2 DEF CommitRaises
<1>29. CASE MarkFailed(c)
  BY <1>23, <1>24, <1>26, <1>29 DEF MarkFailed, Finish
<1>30. CASE MarkFailedRaises(c)
  <2>1. CASE CloseAsFailed(c)
    BY <1>23, <1>24, <1>26, <1>30, <2>1 DEF MarkFailedRaises, Finish
  <2>2. CASE UNCHANGED requests
    BY <1>3, <1>30, <2>2 DEF MarkFailedRaises, Finish
  <2>3. QED
    BY <1>30, <2>1, <2>2 DEF MarkFailedRaises
<1>31. CASE ReconcileCompleted(c)
  BY <1>3, <1>31 DEF ReconcileCompleted, Finish
<1>32. CASE ReconcileFailed(c)
  BY <1>23, <1>24, <1>26, <1>32 DEF ReconcileFailed, Finish
<1>33. CASE ReconcileRaises(c)
  <2>1. CASE CloseAsFailed(c)
    BY <1>23, <1>24, <1>26, <1>33, <2>1 DEF ReconcileRaises, Finish
  <2>2. CASE UNCHANGED requests
    BY <1>3, <1>33, <2>2 DEF ReconcileRaises, Finish
  <2>3. QED
    BY <1>33, <2>1, <2>2 DEF ReconcileRaises
<1>34. CASE Crash(c)
  BY <1>3, <1>34 DEF Crash
<1>35. QED
  BY <1>5, <1>6, <1>7, <1>8, <1>9, <1>11, <1>12, <1>13, <1>14, <1>15, <1>16, <1>17,
     <1>18, <1>19, <1>20, <1>21, <1>22, <1>27, <1>28, <1>29, <1>30, <1>31, <1>32,
     <1>33, <1>34 DEF Step

-----------------------------------------------------------------------------
(* What a step makes durable                                               *)

KeepsStore == UNCHANGED <<requests, runs, effects>>

ReservesKey(k) ==
  /\ requests[k] = Absent
  /\ \E row \in Row : /\ row.status = "processing"
                      /\ requests' = [requests EXCEPT ![k] = row]
  /\ UNCHANGED <<runs, effects>>

LogsFailure ==
  /\ \E r \in Run : r.status = "failed" /\ runs' = Append(runs, r)
  /\ UNCHANGED <<requests, effects>>

FailsKey(k) ==
  /\ HasStatus(k, "processing")
  /\ requests' = [requests EXCEPT ![k].status = "failed"]
  /\ UNCHANGED <<runs, effects>>

CompletesKey(k) ==
  /\ HasStatus(k, "processing")
  /\ requests' = [requests EXCEPT ![k].status = "completed", ![k].run = Len(runs) + 1]
  /\ \E r \in Run :
       /\ r.key = k /\ r.status = "completed"
       /\ runs' = Append(runs, r)
       /\ effects' = IF r.changed THEN [effects EXCEPT ![k] = @ + 1] ELSE effects

AppliesUnkeyed ==
  /\ \E r \in Run : r.key = Absent /\ r.status = "completed" /\ runs' = Append(runs, r)
  /\ UNCHANGED <<requests, effects>>

LEMMA StepFootprint ==
  ASSUME TypeOK, WriterInv, SingleExecutor, NEW c \in Clients, Step(c)
  PROVE  \/ KeepsStore
         \/ LogsFailure
         \/ AppliesUnkeyed
         \/ \E k \in Keys : k = call[c].key /\ (ReservesKey(k) \/ FailsKey(k) \/ CompletesKey(k))
<1>1. /\ call[c] \in Call /\ pending[c] \in Pending /\ Len(runs) + 1 \in Nat
      /\ requests \in [Keys -> Row \cup {Absent}]
  BY DEF TypeOK
<1>2. CASE Insert(c) \/ (InsertRaises(c) /\ requests' # requests)
  <2>1. call[c].key \in Keys /\ call[c].content \in Contents
    BY <1>1, <1>2 DEF Insert, InsertRaises, WriterInv, Call
  <2> DEFINE row == [status |-> "processing", content |-> call[c].content,
                     source |-> call[c].source, note |-> call[c].note, run |-> 0]
  <2>2. row \in Row /\ row.status = "processing"
    BY <1>1, <2>1 DEF Row, Statuses, Call
  <2>3. requests[call[c].key] = Absent /\ requests' = [requests EXCEPT ![call[c].key] = row]
    BY <1>2 DEF Insert, InsertRaises, InsertRow
  <2>4. QED
    BY <1>2, <2>1, <2>2, <2>3 DEF Insert, InsertRaises, ReservesKey
<1>3. CASE RecordFailedRun(c)
  BY <1>1, <1>3 DEF RecordFailedRun, LogsFailure, Run, Call
<1>4. CASE \/ MarkFailed(c) \/ (MarkFailedRaises(c) /\ requests' # requests)
           \/ ReconcileFailed(c) \/ (ReconcileRaises(c) /\ requests' # requests)
  <2>1. call[c].key \in Keys
    BY <1>1, <1>4 DEF MarkFailed, MarkFailedRaises, ReconcileFailed, ReconcileRaises,
                          WriterInv, Call
  <2>2. HasStatus(call[c].key, "processing")
    BY <1>4, <2>1 DEF MarkFailed, MarkFailedRaises, ReconcileFailed, ReconcileRaises,
                      SingleExecutor, Executing, HasStatus
  <2>3. QED
    BY <1>4, <2>1, <2>2 DEF MarkFailed, MarkFailedRaises, ReconcileFailed,
                            ReconcileRaises, CloseAsFailed, FailsKey
<1>5. ASSUME Commit(c), pc[c] = "staged"
      PROVE  call[c].key \in Keys /\ CompletesKey(call[c].key)
  <2>1. call[c].key \in Keys /\ pending[c].run = Len(runs) + 1 /\ pending[c].staged
    BY <1>1, <1>5 DEF WriterInv, Call
  <2>2. HasStatus(call[c].key, "processing")
    BY <1>5, <2>1 DEF SingleExecutor, Executing, InTransaction
  <2> DEFINE r == [key |-> call[c].key, status |-> "completed", changed |-> pending[c].changed]
  <2>3. r \in Run
    <3>1. pending[c].changed \in BOOLEAN
      BY <1>1 DEF Pending
    <3>2. QED
      BY <2>1, <3>1, Zenon DEF Run
  <2>4. Len(runs) + 1 # 0
    BY DEF TypeOK
  <2>5. runs' = Append(runs, r)
    BY <1>5, <2>1, <2>4 DEF Commit
  <2>6. effects' = IF r.changed THEN [effects EXCEPT ![call[c].key] = @ + 1] ELSE effects
    <3>1. effects' = IF pending[c].changed /\ call[c].key # Absent
                     THEN [effects EXCEPT ![call[c].key] = @ + 1] ELSE effects
      BY <1>5 DEF Commit
    <3>2. call[c].key # Absent
      BY <2>1
    <3>3. r.changed = pending[c].changed
      BY Zenon
    <3>4. QED
      BY <3>1, <3>2, <3>3
  <2>7. requests' = [requests EXCEPT ![call[c].key].status = "completed",
                                     ![call[c].key].run = Len(runs) + 1]
    BY <1>5, <2>1 DEF Commit
  <2>8. r.key = call[c].key /\ r.status = "completed"
    OBVIOUS
  <2>9. QED
    BY <2>1, <2>2, <2>3, <2>5, <2>6, <2>7, <2>8 DEF CompletesKey
<1>6. ASSUME Commit(c), pc[c] = "flushed", call[c].key = Absent
      PROVE  AppliesUnkeyed
  <2>1. pending[c].run = Len(runs) + 1 /\ ~pending[c].staged
    BY <1>6 DEF WriterInv
  <2> DEFINE r == [key |-> Absent, status |-> "completed", changed |-> pending[c].changed]
  <2>2. r \in Run
    <3>1. pending[c].changed \in BOOLEAN
      BY <1>1 DEF Pending
    <3>2. QED
      BY <3>1, Zenon DEF Run
  <2>3. Len(runs) + 1 # 0
    BY DEF TypeOK
  <2>4. runs' = Append(runs, r)
    BY <1>6, <2>1, <2>3 DEF Commit
  <2>5. UNCHANGED <<requests, effects>>
    BY <1>6, <2>1 DEF Commit
  <2>6. QED
    BY <2>2, <2>4, <2>5 DEF AppliesUnkeyed
<1>7. CASE UnkeyedCommit(c) \/ UnkeyedCommitRaises(c)
  BY <1>6, <1>7 DEF UnkeyedCommit, UnkeyedCommitRaises, KeepsStore
<1>8. CASE CommitCompleted(c) \/ CommitRaises(c)
  BY <1>5, <1>8 DEF CommitCompleted, CommitRaises, KeepsStore
<1>9. CASE \/ StartExecute(c) \/ StartUnkeyed(c) \/ StartRecover(c) \/ RefuseRecover(c)
           \/ Lookup(c) \/ InsertLoses(c) \/ (InsertRaises(c) /\ requests' = requests)
           \/ TurnWrites(c) \/ TurnCompletes(c) \/ TurnFails(c) \/ SkipFailedRun(c)
           \/ Stage(c) \/ StageRaises(c) \/ (MarkFailedRaises(c) /\ requests' = requests)
           \/ ReconcileCompleted(c) \/ (ReconcileRaises(c) /\ requests' = requests)
           \/ Crash(c)
  BY <1>9 DEF StartExecute, StartUnkeyed, StartRecover, RefuseRecover, Begin, Lookup,
              InsertLoses, InsertRaises, TurnWrites, TurnCompletes, TurnFails,
              SkipFailedRun, Stage, StageRaises, MarkFailedRaises, ReconcileCompleted,
              ReconcileRaises, Crash, KeepsStore
<1>10. QED
  BY <1>2, <1>3, <1>4, <1>7, <1>8, <1>9 DEF Step

LEMMA CommittedRunsAppend ==
  ASSUME runs \in Seq(Run), NEW r \in Run, runs' = Append(runs, r), NEW k
  PROVE  /\ CommittedRuns(k)' = IF r.key = k /\ r.status = "completed"
                                THEN CommittedRuns(k) \cup {Len(runs) + 1}
                                ELSE CommittedRuns(k)
         /\ Len(runs') = Len(runs) + 1
         /\ \A i \in 1 .. Len(runs) : runs'[i] = runs[i]
         /\ runs'[Len(runs) + 1] = r
<1>1. /\ Len(runs) \in Nat /\ Len(runs') = Len(runs) + 1
      /\ \A i \in 1 .. Len(runs) : runs'[i] = runs[i]
      /\ runs'[Len(runs) + 1] = r
  OBVIOUS
<1>2. CommittedRuns(k)' = {i \in 1 .. Len(runs) + 1 : runs'[i].key = k /\ runs'[i].status = "completed"}
  BY <1>1 DEF CommittedRuns
<1>3. 1 .. Len(runs) + 1 = (1 .. Len(runs)) \cup {Len(runs) + 1}
  BY <1>1
<1>4. QED
  BY <1>1, <1>2, <1>3 DEF CommittedRuns

LEMMA DurableStep ==
  ASSUME TypeOK, WriterInv, SingleExecutor, NEW c \in Clients, Step(c)
  PROVE  Durable
<1>1. requests \in [Keys -> Row \cup {Absent}] /\ runs \in Seq(Run) /\ Len(runs) \in Nat
  BY DEF TypeOK
<1> DEFINE RunsKept == /\ Len(runs') >= Len(runs)
                       /\ \A i \in 1 .. Len(runs) : runs'[i] = runs[i]
           RowKept(k) == requests[k] # Absent =>
                           /\ requests'[k] # Absent
                           /\ SameRequest(requests'[k], requests[k])
                           /\ requests[k].status # "processing" => requests'[k] = requests[k]
<1>2. CASE KeepsStore
  BY <1>1, <1>2 DEF KeepsStore, Durable, SameRequest
<1>3. CASE LogsFailure \/ AppliesUnkeyed
  <2>1. PICK r \in Run : runs' = Append(runs, r)
    BY <1>3 DEF LogsFailure, AppliesUnkeyed
  <2>2. RunsKept
    BY <1>1, <2>1, CommittedRunsAppend
  <2>3. requests' = requests
    BY <1>3 DEF LogsFailure, AppliesUnkeyed
  <2>4. QED
    BY <1>1, <2>2, <2>3 DEF Durable, SameRequest
<1>4. ASSUME NEW k \in Keys, ReservesKey(k) PROVE Durable
  <2>1. \A j \in Keys : requests[j] # Absent => requests'[j] = requests[j]
    BY <1>1, <1>4 DEF ReservesKey
  <2>2. QED
    BY <1>1, <1>4, <2>1 DEF ReservesKey, Durable, SameRequest
<1>5. ASSUME NEW k \in Keys, FailsKey(k) PROVE Durable
  <2>1. requests[k] \in Row
    BY <1>1, <1>5 DEF FailsKey, HasStatus
  <2>2. requests'[k] \in Row /\ SameRequest(requests'[k], requests[k])
    BY <1>1, <1>5, <2>1 DEF FailsKey, Row, SameRequest, Statuses
  <2>3. \A j \in Keys \ {k} : requests'[j] = requests[j]
    BY <1>1, <1>5 DEF FailsKey
  <2>4. \A j \in Keys : RowKept(j)
    BY <1>5, <2>2, <2>3, AbsentAssumption DEF FailsKey, HasStatus, SameRequest
  <2>5. QED
    BY <1>1, <1>5, <2>4 DEF FailsKey, Durable
<1>6. ASSUME NEW k \in Keys, CompletesKey(k) PROVE Durable
  <2>1. requests[k] \in Row
    BY <1>1, <1>6 DEF CompletesKey, HasStatus
  <2>2. requests'[k] \in Row /\ SameRequest(requests'[k], requests[k])
    <3> DEFINE id == Len(runs) + 1
               row == [requests[k] EXCEPT !.status = "completed", !.run = id]
    <3>0. id \in Nat
      BY <1>1
    <3> HIDE DEF id
    <3>1. row \in Row /\ SameRequest(row, requests[k])
      BY <2>1, <3>0 DEF Row, SameRequest, Statuses
    <3>2. requests'[k] = row
      BY <1>1, <1>6 DEF CompletesKey, id
    <3>3. QED
      BY <3>1, <3>2
  <2>3. \A j \in Keys \ {k} : requests'[j] = requests[j]
    BY <1>1, <1>6 DEF CompletesKey
  <2>4. \A j \in Keys : RowKept(j)
    BY <1>6, <2>2, <2>3, AbsentAssumption DEF CompletesKey, HasStatus, SameRequest
  <2>5. PICK r \in Run : runs' = Append(runs, r)
    BY <1>6 DEF CompletesKey
  <2>6. RunsKept
    BY <1>1, <2>5, CommittedRunsAppend
  <2>7. QED
    BY <2>4, <2>6 DEF Durable
<1>7. QED
  BY <1>2, <1>3, <1>4, <1>5, <1>6, StepFootprint

LEMMA AtomicStep ==
  ASSUME TypeOK, WriterInv, SingleExecutor, AtomicCompletion, NEW c \in Clients, Step(c)
  PROVE  AtomicCompletion'
<1>1. /\ requests \in [Keys -> Row \cup {Absent}] /\ runs \in Seq(Run) /\ Len(runs) \in Nat
      /\ effects \in [Keys -> Nat]
  BY DEF TypeOK
<1> DEFINE Settled(k) ==
      IF HasStatus(k, "completed")
      THEN /\ CommittedRuns(k) = {requests[k].run}
           /\ effects[k] = IF runs[requests[k].run].changed THEN 1 ELSE 0
      ELSE CommittedRuns(k) = {} /\ effects[k] = 0
<1> SUFFICES ASSUME NEW j \in Keys PROVE Settled(j)'
  BY DEF AtomicCompletion
<1>2. Settled(j) /\ \A i \in CommittedRuns(j) : i \in 1 .. Len(runs)
  BY DEF AtomicCompletion, CommittedRuns
\* Nothing about j changes except that runs of other keys, or failed ones, are
\* appended.
<1>3. ASSUME HasStatus(j, "completed")' <=> HasStatus(j, "completed"),
             HasStatus(j, "completed") => requests'[j] = requests[j],
             effects'[j] = effects[j],
             CommittedRuns(j)' = CommittedRuns(j),
             \A i \in 1 .. Len(runs) : runs'[i] = runs[i]
      PROVE  Settled(j)'
  BY <1>2, <1>3
<1>4. CASE KeepsStore
  BY <1>1, <1>3, <1>4 DEF KeepsStore, HasStatus, CommittedRuns
<1>5. CASE LogsFailure \/ AppliesUnkeyed
  <2>1. PICK r \in Run : runs' = Append(runs, r) /\ (r.status = "failed" \/ r.key = Absent)
    BY <1>5 DEF LogsFailure, AppliesUnkeyed
  <2>2. CommittedRuns(j)' = CommittedRuns(j) /\ \A i \in 1 .. Len(runs) : runs'[i] = runs[i]
    BY <1>1, <2>1, CommittedRunsAppend
  <2>3. UNCHANGED <<requests, effects>>
    BY <1>5 DEF LogsFailure, AppliesUnkeyed
  <2>4. QED
    BY <1>3, <2>2, <2>3 DEF HasStatus
<1>6. ASSUME NEW k \in Keys, ReservesKey(k) \/ FailsKey(k) PROVE Settled(j)'
  <2>1. HasStatus(j, "completed")' <=> HasStatus(j, "completed")
    BY <1>1, <1>6, AbsentAssumption DEF ReservesKey, FailsKey, HasStatus, Row, Statuses
  <2>2. HasStatus(j, "completed") => requests'[j] = requests[j]
    BY <1>1, <1>6 DEF ReservesKey, FailsKey, HasStatus
  <2>3. UNCHANGED <<runs, effects>>
    BY <1>6 DEF ReservesKey, FailsKey
  <2>4. CommittedRuns(j)' = CommittedRuns(j)
    BY <2>3 DEF CommittedRuns
  <2>5. QED
    BY <1>1, <1>3, <2>1, <2>2, <2>3, <2>4
<1>7. ASSUME NEW k \in Keys, CompletesKey(k), j # k PROVE Settled(j)'
  <2>1. PICK r \in Run : r.key = k /\ runs' = Append(runs, r)
    BY <1>7 DEF CompletesKey
  <2>2. CommittedRuns(j)' = CommittedRuns(j) /\ \A i \in 1 .. Len(runs) : runs'[i] = runs[i]
    BY <1>1, <1>7, <2>1, CommittedRunsAppend
  <2>3. requests'[j] = requests[j]
    BY <1>1, <1>7 DEF CompletesKey
  <2>4. effects'[j] = effects[j]
    BY <1>1, <1>7 DEF CompletesKey
  <2>5. QED
    BY <1>3, <2>2, <2>3, <2>4 DEF HasStatus
<1>8. ASSUME CompletesKey(j) PROVE Settled(j)'
  <2>1. CommittedRuns(j) = {} /\ effects[j] = 0
    BY <1>2, <1>8 DEF CompletesKey, HasStatus
  <2>2. PICK r \in Run : /\ r.key = j /\ r.status = "completed" /\ runs' = Append(runs, r)
                         /\ effects' = IF r.changed THEN [effects EXCEPT ![j] = @ + 1]
                                       ELSE effects
    BY <1>8 DEF CompletesKey
  <2>3. CommittedRuns(j)' = {Len(runs) + 1} /\ runs'[Len(runs) + 1] = r
    BY <1>1, <2>1, <2>2, CommittedRunsAppend
  <2>4. effects'[j] = IF r.changed THEN 1 ELSE 0
    BY <1>1, <2>1, <2>2
  <2>5. requests[j] \in Row
    BY <1>1, <1>8 DEF CompletesKey, HasStatus
  <2>6. requests'[j] \in Row /\ requests'[j].status = "completed"
                             /\ requests'[j].run = Len(runs) + 1
    <3> DEFINE id == Len(runs) + 1
               row == [requests[j] EXCEPT !.status = "completed", !.run = id]
    <3>0. id \in Nat
      BY <1>1
    <3> HIDE DEF id
    <3>1. row \in Row /\ row.status = "completed" /\ row.run = id
      BY <2>5, <3>0 DEF Row, Statuses
    <3>2. requests'[j] = row
      BY <1>1, <1>8 DEF CompletesKey, id
    <3>3. QED
      BY <3>1, <3>2 DEF id
  <2>7. HasStatus(j, "completed")'
    BY <2>6, AbsentAssumption DEF HasStatus
  <2>8. QED
    BY <2>3, <2>4, <2>6, <2>7
<1>9. QED
  BY <1>4, <1>5, <1>6, <1>7, <1>8, StepFootprint

LEMMA TruthStep ==
  ASSUME TypeOK, WriterInv, SingleExecutor, AtomicCompletion, TruthfulReplies,
         NEW c \in Clients, Step(c)
  PROVE  TruthfulReplies'
<1>1. /\ requests \in [Keys -> Row \cup {Absent}] /\ reply \in [Clients -> Reply]
      /\ call \in [Clients -> Call] /\ pending[c] \in Pending
  BY DEF TypeOK
<1> DEFINE True(r) == r.key # Absent =>
      /\ r.kind = "ok" => HasStatus(r.key, "completed") /\ requests[r.key].run = r.run
      /\ r.kind \in {"failed", "previous_failure"} => HasStatus(r.key, "failed")
           TrueNext(r) == r.key # Absent =>
      /\ r.kind = "ok" => /\ requests'[r.key] # Absent
                          /\ requests'[r.key].status = "completed"
                          /\ requests'[r.key].run = r.run
      /\ r.kind \in {"failed", "previous_failure"} => /\ requests'[r.key] # Absent
                                                      /\ requests'[r.key].status = "failed"
\* A reply that was true stays true: settled rows do not change.
<1>2. ASSUME NEW r \in Reply, True(r) PROVE TrueNext(r)
  <2>1. Durable
    BY DurableStep
  <2>2. ASSUME r.key \in Keys, requests[r.key] # Absent, requests[r.key].status # "processing"
        PROVE  requests'[r.key] = requests[r.key]
    BY <2>1, <2>2 DEF Durable
  <2>3. r.key \in Keys \cup {Absent}
    BY DEF Reply
  <2>4. QED
    BY <1>2, <2>2, <2>3 DEF HasStatus
\* The reply this step gives, if it gives one, is true.
<1>3. ASSUME NEW kind, NEW run, Finish(c, kind, run),
             kind \in {"ok", "failed", "previous_failure"} =>
               TrueNext([kind |-> kind, key |-> call[c].key, run |-> run])
      PROVE  TruthfulReplies'
  <2>1. reply' = [reply EXCEPT ![c] = [kind |-> kind, key |-> call[c].key, run |-> run]]
    BY <1>3 DEF Finish
  <2>2. TrueNext([kind |-> kind, key |-> call[c].key, run |-> run])
    BY <1>3
  <2>3. \A d \in Clients : TrueNext(reply'[d])
    <3>1. ASSUME NEW d \in Clients \ {c} PROVE TrueNext(reply'[d])
      BY <1>1, <1>2, <2>1, <3>1 DEF TruthfulReplies
    <3>2. reply'[c] = [kind |-> kind, key |-> call[c].key, run |-> run]
      BY <1>1, <2>1
    <3>3. QED
      BY <2>2, <3>1, <3>2
  <2>4. QED
    BY <2>3 DEF TruthfulReplies, HasStatus
<1>4. ASSUME NEW r \in Reply, r.key = Absent, reply' = reply \/ reply' = [reply EXCEPT ![c] = r]
      PROVE  TruthfulReplies'
  <2>1. \A d \in Clients : reply'[d] = reply[d] \/ reply'[d] = r
    BY <1>1, <1>4
  <2>2. \A d \in Clients : TrueNext(reply'[d])
    BY <1>1, <1>2, <1>4, <2>1 DEF TruthfulReplies
  <2>3. QED
    BY <2>2 DEF TruthfulReplies, HasStatus
<1>5. NoReply \in Reply /\ NoReply.key = Absent
  BY DEF NoReply, Reply
<1>6. CASE \/ StartExecute(c) \/ StartUnkeyed(c) \/ StartRecover(c) \/ Insert(c)
           \/ InsertLoses(c) \/ TurnWrites(c) \/ TurnCompletes(c) \/ TurnFails(c)
           \/ UnkeyedCommitRaises(c) \/ Stage(c) \/ StageRaises(c) \/ CommitRaises(c) \/ Crash(c)
  BY <1>4, <1>5, <1>6
     DEF StartExecute, StartUnkeyed, StartRecover, Begin, Insert, InsertLoses, TurnWrites,
         TurnCompletes, TurnFails, UnkeyedCommitRaises, Stage, StageRaises, CommitRaises, Crash
<1>7. CASE RefuseRecover(c)
  <2>1. [NoReply EXCEPT !.kind = "refused"] \in Reply
        /\ [NoReply EXCEPT !.kind = "refused"].key = Absent
    BY DEF NoReply, Reply
  <2>2. QED
    BY <1>4, <1>7, <2>1 DEF RefuseRecover
<1>8. CASE Lookup(c)
  <2>1. CASE requests[call[c].key] = Absent
    BY <1>4, <1>5, <1>8, <2>1 DEF Lookup
  <2>2. CASE requests[call[c].key] # Absent
    <3>1. call[c].key \in Keys
      BY <1>1, <1>8 DEF Lookup, WriterInv, Call
    <3>2. requests[call[c].key].status \in Statuses
      BY <1>1, <2>2, <3>1 DEF Row
    <3>3. requests' = requests
      BY <1>8 DEF Lookup
    <3>4. QED
      BY <1>3, <1>8, <2>2, <3>2, <3>3 DEF Lookup, Resolve, Statuses
  <2>3. QED
    BY <2>1, <2>2
<1>9. CASE InsertRaises(c) \/ MarkFailedRaises(c) \/ ReconcileRaises(c)
  BY <1>3, <1>9 DEF InsertRaises, MarkFailedRaises, ReconcileRaises
<1>10. CASE RecordFailedRun(c) \/ SkipFailedRun(c)
  BY <1>3, <1>4, <1>5, <1>10 DEF RecordFailedRun, SkipFailedRun, Propagate
<1>11. CASE UnkeyedCommit(c)
  BY <1>3, <1>11 DEF UnkeyedCommit
<1>12. CASE CommitCompleted(c)
  <2>1. call[c].key \in Keys /\ pending[c].run \in Nat /\ pending[c].staged
        /\ requests[call[c].key] \in Row
    BY <1>1, <1>12 DEF CommitCompleted, WriterInv, Call, Pending, SingleExecutor, HasStatus,
                       Executing, InTransaction
  <2> DEFINE row == [requests[call[c].key] EXCEPT !.status = "completed",
                                                  !.run = pending[c].run]
  <2>2. row \in Row /\ row.status = "completed" /\ row.run = pending[c].run
    BY <2>1 DEF Row, Statuses
  <2>3. requests'[call[c].key] = row
    BY <1>1, <1>12, <2>1 DEF CommitCompleted, Commit
  <2>4. QED
    BY <1>3, <1>12, <2>2, <2>3, AbsentAssumption DEF CommitCompleted
<1>13. ASSUME pc[c] \in {"failing", "reconcile"}, CloseAsFailed(c)
       PROVE  requests'[call[c].key] # Absent /\ requests'[call[c].key].status = "failed"
  <2>1. call[c].key \in Keys /\ requests[call[c].key] \in Row
    BY <1>1, <1>13 DEF WriterInv, Call, SingleExecutor, HasStatus, Executing
  <2> DEFINE row == [requests[call[c].key] EXCEPT !.status = "failed"]
  <2>2. row \in Row /\ row.status = "failed"
    BY <2>1 DEF Row, Statuses
  <2>3. requests'[call[c].key] = row
    BY <1>1, <1>13, <2>1 DEF CloseAsFailed
  <2>4. QED
    BY <2>2, <2>3, AbsentAssumption
<1>14. CASE MarkFailed(c) \/ ReconcileFailed(c)
  BY <1>3, <1>13, <1>14 DEF MarkFailed, ReconcileFailed
<1>15. CASE ReconcileCompleted(c)
  <2>1. HasStatus(call[c].key, "completed")
    BY <1>15 DEF ReconcileCompleted, SingleExecutor, WriterInv, HasStatus, Executing
  <2>2. QED
    BY <1>3, <1>15, <2>1 DEF ReconcileCompleted, HasStatus
<1>16. QED
  BY <1>6, <1>7, <1>8, <1>9, <1>10, <1>11, <1>12, <1>14, <1>15 DEF Step

-----------------------------------------------------------------------------
(* The theorems                                                            *)

LEMMA Initially == Init => IInv
<1> SUFFICES ASSUME Init PROVE IInv
  OBVIOUS
<1>1. TypeOK
  BY TypeInit
<1>2. WriterInv
  BY DEF Init, WriterInv, InTransaction
<1>3. SingleExecutor
  BY DEF Init, SingleExecutor, Executing, InTransaction
<1>4. AtomicCompletion
  BY DEF Init, AtomicCompletion, HasStatus, CommittedRuns
<1>5. TruthfulReplies
  BY DEF Init, TruthfulReplies, NoReply
<1>6. QED
  BY <1>1, <1>2, <1>3, <1>4, <1>5 DEF IInv

LEMMA Inductive == IInv /\ [Next]_vars => IInv'
<1> SUFFICES ASSUME IInv, [Next]_vars PROVE IInv'
  OBVIOUS
<1>1. CASE UNCHANGED vars
  BY <1>1 DEF IInv, vars, TypeOK, WriterInv, SingleExecutor, AtomicCompletion,
              TruthfulReplies, HasStatus, CommittedRuns
<1>2. CASE Next
  <2>1. PICK c \in Clients : Step(c)
    BY <1>2, NextIsStep
  <2>2. QED
    BY <2>1, TypeStep, WriterStep, ExecutorStep, AtomicStep, TruthStep DEF IInv
<1>3. QED
  BY <1>1, <1>2

LEMMA Invariance == Spec => []IInv
  BY Initially, Inductive, PTL DEF Spec

\* The types of the store and of every call, as the code's guards keep them.
THEOREM TypeCorrect == Spec => []TypeOK
  BY Invariance, PTL DEF IInv

\* A request is completed exactly when its one turn is durable, and the turn's
\* inventory writes are then durable once: the transaction that stage, commit
\* and reconcile share in _execute_reserved.
THEOREM CompletionIsAtomic == Spec => []AtomicCompletion
  BY Invariance, PTL DEF IInv

\* _reserve admits one executor per key, and nobody settles a row under it.
THEOREM OneExecutorPerKey == Spec => []SingleExecutor
  BY Invariance, PTL DEF IInv

\* Results and failures that callers were told are the durable outcome.
THEOREM RepliesAreTruthful == Spec => []TruthfulReplies
  BY Invariance, PTL DEF IInv

\* The write lock covers every flushed transaction, so staged run ids are exact.
THEOREM WritersExclude == Spec => []SingleWriter
<1>1. IInv => SingleWriter
  BY DEF IInv, WriterInv, SingleWriter, InTransaction
<1>2. QED
  BY <1>1, Invariance, PTL

\* Bindings, settled rows and logged runs never change.
THEOREM StoreIsDurable == Spec => RowsAndRunsAreDurable
<1>1. IInv /\ [Next]_vars => [Durable]_vars
  <2> SUFFICES ASSUME IInv, Next PROVE Durable
    OBVIOUS
  <2>1. PICK c \in Clients : Step(c)
    BY NextIsStep
  <2>2. QED
    BY <2>1, DurableStep DEF IInv
<1>2. QED
  BY <1>1, Invariance, PTL DEF Spec, RowsAndRunsAreDurable

-----------------------------------------------------------------------------
(* Refinement                                                              *)

LEMMA LedgerInit == Init => Ledger!Init
<1> SUFFICES ASSUME Init PROVE Ledger!Init
  OBVIOUS
<1>1. \A k \in Keys : Outcome(k) = "new"
  BY DEF Init, Outcome
<1>2. \A k \in Keys : CommittedRuns(k) = {}
  BY DEF Init, CommittedRuns
<1>3. reply = [c \in Clients |-> Ledger!NoAnswer]
  BY DEF Init, NoReply, Ledger!NoAnswer
<1>4. QED
  BY <1>1, <1>2, <1>3 DEF Ledger!Init

LEMMA LedgerStep == IInv /\ IInv' /\ Next => Ledger!Next
<1> SUFFICES ASSUME IInv, IInv', Next PROVE Ledger!Next
  OBVIOUS
<1>1. PICK c \in Clients : Step(c)
  BY NextIsStep
<1>2. /\ requests \in [Keys -> Row \cup {Absent}] /\ requests' \in [Keys -> Row \cup {Absent}]
      /\ runs \in Seq(Run) /\ Len(runs) \in Nat
      /\ reply' \in [Clients -> Reply]
  BY DEF IInv, TypeOK
<1> DEFINE out == [k \in Keys |-> Outcome(k)]
           app == [k \in Keys |-> CommittedRuns(k)]
<1>3. Ledger!Answers
  <2> SUFFICES ASSUME NEW d \in Clients PROVE Ledger!True(reply'[d])
    BY DEF Ledger!Answers
  <2>1. reply'[d].key \in Keys \cup {Absent}
    BY <1>2 DEF Reply
  <2>2. CASE reply'[d].key = Absent
    BY <2>2 DEF Ledger!True
  <2>3. ASSUME NEW k \in Keys, reply'[d].key = k PROVE Ledger!True(reply'[d])
    <3>1. reply'[d].kind = "ok" =>
            /\ requests'[k] # Absent /\ requests'[k].status = "completed"
            /\ requests'[k].run = reply'[d].run
      BY <2>3 DEF IInv, TruthfulReplies, HasStatus
    <3>2. reply'[d].kind \in {"failed", "previous_failure"} =>
            requests'[k] # Absent /\ requests'[k].status = "failed"
      BY <2>3 DEF IInv, TruthfulReplies, HasStatus
    <3>3. reply'[d].kind = "ok" => CommittedRuns(k)' = {reply'[d].run}
      BY <3>1 DEF IInv, AtomicCompletion, HasStatus
    <3>4. reply'[d].kind = "ok" => Outcome(k)' = "done"
      BY <3>1 DEF Outcome, LedgerStatus
    <3>5. reply'[d].kind \in {"failed", "previous_failure"} => Outcome(k)' = "failed"
      BY <3>2 DEF Outcome, LedgerStatus
    <3>6. out'[k] = Outcome(k)' /\ app'[k] = CommittedRuns(k)'
      OBVIOUS
    <3>7. QED
      BY <2>3, <3>3, <3>4, <3>5, <3>6 DEF Ledger!True
  <2>4. QED
    BY <2>1, <2>2, <2>3
<1> DEFINE Settles == (\E k \in Keys : Ledger!Open(k) \/ Ledger!Complete(k) \/ Ledger!Fail(k))
                      \/ UNCHANGED <<out, app>>
<1>4. ASSUME KeepsStore PROVE Settles
  <2>1. \A k \in Keys : Outcome(k)' = Outcome(k) /\ CommittedRuns(k)' = CommittedRuns(k)
    BY <1>4 DEF KeepsStore, Outcome, CommittedRuns
  <2>2. QED
    BY <2>1
<1>5. ASSUME LogsFailure \/ AppliesUnkeyed PROVE Settles
  <2>1. PICK r \in Run : runs' = Append(runs, r) /\ (r.status = "failed" \/ r.key = Absent)
    BY <1>5 DEF LogsFailure, AppliesUnkeyed
  <2>2. \A k \in Keys : CommittedRuns(k)' = CommittedRuns(k)
    BY <1>2, <2>1, CommittedRunsAppend
  <2>3. \A k \in Keys : Outcome(k)' = Outcome(k)
    BY <1>5 DEF LogsFailure, AppliesUnkeyed, Outcome
  <2>4. QED
    BY <2>2, <2>3
<1>6. ASSUME NEW k \in Keys, ReservesKey(k) PROVE Ledger!Open(k)
  <2>1. Outcome(k) = "new" /\ Outcome(k)' = "open"
    BY <1>2, <1>6, AbsentAssumption DEF ReservesKey, Outcome, LedgerStatus
  <2>2. \A j \in Keys \ {k} : Outcome(j)' = Outcome(j)
    BY <1>2, <1>6 DEF ReservesKey, Outcome
  <2>3. out' = [out EXCEPT ![k] = "open"]
    BY <2>1, <2>2
  <2>4. app' = app
    BY <1>6 DEF ReservesKey, CommittedRuns
  <2>5. QED
    BY <2>1, <2>3, <2>4 DEF Ledger!Open
<1>7. ASSUME NEW k \in Keys, FailsKey(k) PROVE Ledger!Fail(k)
  <2>1. requests[k] \in Row
    BY <1>2, <1>7 DEF FailsKey, HasStatus
  <2>2. requests'[k] # Absent /\ requests'[k].status = "failed"
    <3> DEFINE row == [requests[k] EXCEPT !.status = "failed"]
    <3>1. row \in Row /\ row.status = "failed"
      BY <2>1 DEF Row, Statuses
    <3>2. requests'[k] = row
      BY <1>2, <1>7 DEF FailsKey
    <3>3. QED
      BY <3>1, <3>2, AbsentAssumption
  <2>3. Outcome(k) = "open" /\ Outcome(k)' = "failed"
    BY <1>7, <2>2 DEF FailsKey, HasStatus, Outcome, LedgerStatus
  <2>4. \A j \in Keys \ {k} : Outcome(j)' = Outcome(j)
    BY <1>2, <1>7 DEF FailsKey, Outcome
  <2>5. out' = [out EXCEPT ![k] = "failed"]
    BY <2>3, <2>4
  <2>6. app' = app
    BY <1>7 DEF FailsKey, CommittedRuns
  <2>7. QED
    BY <2>3, <2>5, <2>6 DEF Ledger!Fail
<1>8. ASSUME NEW k \in Keys, CompletesKey(k) PROVE Ledger!Complete(k)
  <2>1. PICK r \in Run : r.key = k /\ r.status = "completed" /\ runs' = Append(runs, r)
    BY <1>8 DEF CompletesKey
  <2>2. CommittedRuns(k) = {}
    BY <1>8 DEF IInv, AtomicCompletion, CompletesKey, HasStatus
  <2>3. CommittedRuns(k)' = {Len(runs) + 1}
        /\ \A j \in Keys \ {k} : CommittedRuns(j)' = CommittedRuns(j)
    BY <1>2, <2>1, <2>2, CommittedRunsAppend
  <2>4. HasStatus(k, "completed")'
    BY <2>3 DEF IInv, AtomicCompletion
  <2>5. Outcome(k) = "open" /\ Outcome(k)' = "done"
    BY <1>8, <2>4 DEF CompletesKey, HasStatus, Outcome, LedgerStatus
  <2>6. \A j \in Keys \ {k} : Outcome(j)' = Outcome(j)
    BY <1>2, <1>8 DEF CompletesKey, Outcome
  <2>7. out' = [out EXCEPT ![k] = "done"]
    BY <2>5, <2>6
  <2>8. app[k] = {} /\ app'[k] = {Len(runs) + 1}
        /\ app' = [app EXCEPT ![k] = {Len(runs) + 1}]
    BY <2>2, <2>3
  <2>9. QED
    BY <2>5, <2>7, <2>8 DEF Ledger!Complete, Ledger!CompleteWith
<1>9. Settles
  BY <1>1, <1>4, <1>5, <1>6, <1>7, <1>8, StepFootprint DEF IInv
<1>10. QED
  BY <1>3, <1>9 DEF Ledger!Next

\* The gate implements the exactly-once ledger.
THEOREM GateImplementsLedger == Spec => ImplementsLedger
<1>1. IInv /\ IInv' /\ [Next]_vars => [Ledger!Next]_(Ledger!vars)
  <2>1. CASE UNCHANGED vars
    BY <2>1 DEF vars, Ledger!vars, Outcome, CommittedRuns
  <2>2. QED
    BY <2>1, LedgerStep
<1>2. QED
  BY <1>1, LedgerInit, Invariance, PTL DEF Spec, ImplementsLedger, Ledger!Spec

=============================================================================
