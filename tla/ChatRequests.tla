---------------------------- MODULE ChatRequests ----------------------------
(***************************************************************************)
(* The durable idempotency gate in front of the agent                      *)
(* (services/chat_requests.py, with the transaction outline of the agent   *)
(* turn in agent/runner.py and the operation of                            *)
(* services/chat_application.py).                                          *)
(*                                                                         *)
(* A client is one SQLAlchemy Session serving one call at a time: a web    *)
(* request in the server's thread pool, or the Telegram poller.  Clients   *)
(* share one SQLite file.  A session's flushed writes are `pending` and    *)
(* visible to nobody until its commit; SQLite admits one writer, `lock`,   *)
(* and a session that waits longer than busy_timeout gets an exception,    *)
(* which is one of the failures every writing step may meet.               *)
(*                                                                         *)
(* Contents abstracts the pair (message, conversation id) bound to a key.  *)
(***************************************************************************)
EXTENDS Naturals, Sequences

CONSTANTS
  Clients,   \* sessions that call the service
  Keys,      \* request keys
  Contents,  \* (message, requested conversation) pairs
  Notes,     \* operator recovery notes
  NoClient,  \* the write lock is free
  Absent,    \* no row, no key, no note
  MaxRuns    \* bound on unkeyed turns: none starts once MaxRuns runs are logged

ASSUME ConstantsAssumption ==
  /\ NoClient \notin Clients
  /\ Absent \notin Keys \cup Contents \cup Notes
  /\ MaxRuns \in Nat

VARIABLES
  requests,  \* chat_requests: key -> row or Absent, committed
  runs,      \* agent_run_logs in id order, committed; `changed`: it has
             \* mutation receipts
  effects,   \* per key: how many committed transactions of its execution
             \* wrote to the inventory
  lock,      \* the client that holds SQLite's write lock
  pending,   \* per client: flushed, uncommitted writes
  pc,        \* per client: where its call stands
  call,      \* per client: the arguments of its call
  reply      \* per client: what its last call returned or raised

vars == <<requests, runs, effects, lock, pending, pc, call, reply>>

Statuses == {"processing", "completed", "failed"}

Row == [status : Statuses, content : Contents, source : Keys \cup {Absent},
        note : Notes \cup {Absent}, run : Nat]          \* run = 0: no agent_run_id

Run == [key : Keys \cup {Absent}, status : {"completed", "failed"},
        changed : BOOLEAN]

\* Absent is the value of a row that does not exist.
ASSUME AbsentAssumption == Absent \notin Row

Pending == [changed : BOOLEAN, run : Nat, staged : BOOLEAN]

NothingPending == [changed |-> FALSE, run |-> 0, staged |-> FALSE]

Call == [key : Keys \cup {Absent}, content : Contents \cup {Absent},
         source : Keys \cup {Absent}, note : Notes \cup {Absent}]

NoCall == [key |-> Absent, content |-> Absent, source |-> Absent, note |-> Absent]

Reply == [kind : {"none", "ok", "conflict", "in_progress", "previous_failure",
                  "failed", "error", "refused"},
          key : Keys \cup {Absent}, run : Nat]

NoReply == [kind |-> "none", key |-> Absent, run |-> 0]

(***************************************************************************)
(* Where a call stands:                                                    *)
(*   check      _reserve is about to look the key up                       *)
(*   insert     it saw no row and is about to insert one                   *)
(*   turn       the agent turn runs, nothing flushed                       *)
(*   dirty      the turn has flushed inventory writes                      *)
(*   flushed    the turn's messages and completed run are flushed too      *)
(*   staged     the row's completion is flushed in the same transaction    *)
(*   record     the turn rolled back; its failed run is about to be logged *)
(*   failing    _mark_failed is about to close the row                     *)
(*   reconcile  the final commit raised; the durable row is about to be    *)
(*              read through a fresh session                               *)
(***************************************************************************)
InTransaction == {"dirty", "flushed", "staged"}
Executing == {"turn", "record", "failing", "reconcile"} \cup InTransaction
Stages == {"idle", "check", "insert"} \cup Executing

-----------------------------------------------------------------------------

Init ==
  /\ requests = [k \in Keys |-> Absent]
  /\ runs = <<>>
  /\ effects = [k \in Keys |-> 0]
  /\ lock = NoClient
  /\ pending = [c \in Clients |-> NothingPending]
  /\ pc = [c \in Clients |-> "idle"]
  /\ call = [c \in Clients |-> NoCall]
  /\ reply = [c \in Clients |-> NoReply]

Goto(c, stage) == pc' = [pc EXCEPT ![c] = stage]

\* The call returns to, or raises at, its caller.
Finish(c, kind, run) ==
  /\ Goto(c, "idle")
  /\ call' = [call EXCEPT ![c] = NoCall]
  /\ reply' = [reply EXCEPT ![c] = [kind |-> kind, key |-> call[c].key, run |-> run]]

Begin(c, arguments, stage) ==
  /\ pc[c] = "idle"
  /\ Goto(c, stage)
  /\ call' = [call EXCEPT ![c] = arguments]
  /\ reply' = [reply EXCEPT ![c] = NoReply]
  /\ UNCHANGED <<requests, runs, effects, lock, pending>>

\* session.rollback(): pending writes vanish, the write lock is released.
Rollback(c) ==
  /\ pending' = [pending EXCEPT ![c] = NothingPending]
  /\ lock' = IF lock = c THEN NoClient ELSE lock

\* session.commit(): everything c flushed becomes durable in one step.
Commit(c) ==
  LET p == pending[c]
      k == call[c].key
  IN /\ runs' = IF p.run = 0 THEN runs
                ELSE Append(runs, [key |-> k, status |-> "completed",
                                   changed |-> p.changed])
     /\ requests' = IF p.staged
                    THEN [requests EXCEPT ![k].status = "completed", ![k].run = p.run]
                    ELSE requests
     /\ effects' = IF p.changed /\ k # Absent THEN [effects EXCEPT ![k] = @ + 1] ELSE effects
     /\ pending' = [pending EXCEPT ![c] = NothingPending]
     /\ lock' = NoClient

-----------------------------------------------------------------------------
(* Entry points                                                            *)

StartExecute(c) ==
  \E k \in Keys, m \in Contents :
    Begin(c, [key |-> k, content |-> m, source |-> Absent, note |-> Absent], "check")

\* request_key = None: no gate, the runner commits its own transaction.
StartUnkeyed(c) ==
  /\ Len(runs) < MaxRuns
  /\ Begin(c, NoCall, "turn")

\* recover: the source row is read and judged here, and never again.
StartRecover(c) ==
  \E s, k \in Keys, n \in Notes :
    /\ requests[s] # Absent
    /\ requests[s].status # "completed"
    /\ k # s
    /\ Begin(c, [key |-> k, content |-> requests[s].content, source |-> s, note |-> n],
             "check")

RefuseRecover(c) ==
  /\ pc[c] = "idle"
  /\ \E s \in Keys : requests[s] # Absent => requests[s].status = "completed"
  /\ reply' = [reply EXCEPT ![c] = [NoReply EXCEPT !.kind = "refused"]]
  /\ UNCHANGED <<requests, runs, effects, lock, pending, pc, call>>

-----------------------------------------------------------------------------
(* _reserve, and _resolve_existing for a key that has a row                *)

SameRequest(row, a) ==
  /\ row.content = a.content
  /\ row.source = a.source
  /\ row.note = a.note

Resolve(c, row) ==
  IF ~SameRequest(row, call[c]) THEN Finish(c, "conflict", 0)
  ELSE CASE row.status = "processing" -> Finish(c, "in_progress", 0)
         [] row.status = "failed"     -> Finish(c, "previous_failure", 0)
         [] row.status = "completed"  -> Finish(c, "ok", row.run)

Lookup(c) ==
  LET row == requests[call[c].key] IN
  /\ pc[c] = "check"
  /\ IF row = Absent THEN Goto(c, "insert") /\ UNCHANGED <<call, reply>>
                     ELSE Resolve(c, row)
  /\ UNCHANGED <<requests, runs, effects, lock, pending>>

InsertRow(c) ==
  requests' = [requests EXCEPT ![call[c].key] =
                 [status |-> "processing", content |-> call[c].content,
                  source |-> call[c].source, note |-> call[c].note, run |-> 0]]

Insert(c) ==
  /\ pc[c] = "insert"
  /\ lock = NoClient
  /\ requests[call[c].key] = Absent
  /\ InsertRow(c)
  /\ Goto(c, "turn")
  /\ UNCHANGED <<runs, effects, lock, pending, call, reply>>

\* Fault: the loser of the insert race executes too.
InsertLosesAndRuns(c) ==
  /\ pc[c] = "insert"
  /\ lock = NoClient
  /\ requests[call[c].key] # Absent
  /\ Goto(c, "turn")
  /\ UNCHANGED <<requests, runs, effects, lock, pending, call, reply>>

\* Another client inserted the key first: IntegrityError, rollback, read again.
InsertLoses(c) ==
  /\ pc[c] = "insert"
  /\ lock = NoClient
  /\ requests[call[c].key] # Absent
  /\ Goto(c, "check")
  /\ UNCHANGED <<requests, runs, effects, lock, pending, call, reply>>

\* Fault: every exception of the insert is retried.
InsertRetries(c) ==
  /\ pc[c] = "insert"
  /\ Goto(c, "check")
  /\ UNCHANGED <<requests, runs, effects, lock, pending, call, reply>>

\* Any other exception of the insert's commit or of the refresh after it; the
\* row may or may not have become durable, and nobody will execute it.
InsertRaises(c) ==
  /\ pc[c] = "insert"
  /\ \/ UNCHANGED requests
     \/ lock = NoClient /\ requests[call[c].key] = Absent /\ InsertRow(c)
  /\ Finish(c, "error", 0)
  /\ UNCHANGED <<runs, effects, lock, pending>>

-----------------------------------------------------------------------------
(* The agent turn, as far as its transaction goes                          *)

\* A mutation tool takes the write lock and flushes.
TurnWrites(c) ==
  /\ pc[c] \in {"turn", "dirty"}
  /\ lock \in {NoClient, c}
  /\ lock' = c
  /\ pending' = [pending EXCEPT ![c].changed = TRUE]
  /\ Goto(c, "dirty")
  /\ UNCHANGED <<requests, runs, effects, call, reply>>

\* The final answer: messages and the completed run are flushed, under the
\* write lock, so that the run's id is the next one.
TurnCompletes(c) ==
  /\ pc[c] \in {"turn", "dirty"}
  /\ lock \in {NoClient, c}
  /\ lock' = c
  /\ pending' = [pending EXCEPT ![c].run = Len(runs) + 1]
  /\ Goto(c, "flushed")
  /\ UNCHANGED <<requests, runs, effects, call, reply>>

\* Fault: the failed turn is not rolled back.
TurnFailsDirty(c) ==
  /\ pc[c] \in {"turn", "dirty"}
  /\ Goto(c, "record")
  /\ UNCHANGED <<requests, runs, effects, lock, pending, call, reply>>

\* An exception inside the turn: a failed tool, the model, the round limit, a
\* locked database.
TurnFails(c) ==
  /\ pc[c] \in {"turn", "dirty"}
  /\ Rollback(c)
  /\ Goto(c, "record")
  /\ UNCHANGED <<requests, runs, effects, call, reply>>

\* The exception leaves the runner for the gate, or for an unkeyed caller.
Propagate(c) ==
  IF call[c].key = Absent THEN Finish(c, "error", 0)
  ELSE Goto(c, "failing") /\ UNCHANGED <<call, reply>>

RecordFailedRun(c) ==
  /\ pc[c] = "record"
  /\ lock = NoClient
  /\ runs' = Append(runs, [key |-> call[c].key, status |-> "failed", changed |-> FALSE])
  /\ Propagate(c)
  /\ UNCHANGED <<requests, effects, lock, pending>>

\* Trace persistence failed, which is swallowed, or the turn raised before the
\* runner's own handler.
SkipFailedRun(c) ==
  /\ pc[c] = "record"
  /\ Propagate(c)
  /\ UNCHANGED <<requests, runs, effects, lock, pending>>

\* Fault: the runner commits its own transaction for a keyed call as well.
RunnerAlwaysCommits(c) ==
  /\ pc[c] = "flushed"
  /\ Commit(c)
  /\ Finish(c, "ok", pending[c].run)

UnkeyedCommit(c) ==
  /\ pc[c] = "flushed"
  /\ call[c].key = Absent
  /\ Commit(c)
  /\ Finish(c, "ok", pending[c].run)

\* The runner's handler treats a raising commit as a failed turn, whatever
\* became durable.
UnkeyedCommitRaises(c) ==
  /\ pc[c] = "flushed"
  /\ call[c].key = Absent
  /\ Commit(c) \/ (Rollback(c) /\ UNCHANGED <<requests, runs, effects>>)
  /\ Goto(c, "record")
  /\ UNCHANGED <<call, reply>>

-----------------------------------------------------------------------------
(* _execute_reserved after the turn                                        *)

\* _stage_completed
Stage(c) ==
  LET row == requests[call[c].key] IN
  /\ pc[c] = "flushed"
  /\ call[c].key # Absent
  /\ row.status = "processing" /\ row.run = 0
  /\ pending' = [pending EXCEPT ![c].staged = TRUE]
  /\ Goto(c, "staged")
  /\ UNCHANGED <<requests, runs, effects, lock, call, reply>>

StageRaises(c) ==
  /\ pc[c] = "flushed"
  /\ call[c].key # Absent
  /\ Rollback(c)
  /\ Goto(c, "failing")
  /\ UNCHANGED <<requests, runs, effects, call, reply>>

CommitCompleted(c) ==
  /\ pc[c] = "staged"
  /\ Commit(c)
  /\ Finish(c, "ok", pending[c].run)

\* The commit raises after, or without, becoming durable.
CommitRaises(c) ==
  /\ pc[c] = "staged"
  /\ Commit(c) \/ (Rollback(c) /\ UNCHANGED <<requests, runs, effects>>)
  /\ Goto(c, "reconcile")
  /\ UNCHANGED <<call, reply>>

CloseAsFailed(c) == requests' = [requests EXCEPT ![call[c].key].status = "failed"]

MarkFailed(c) ==
  /\ pc[c] = "failing"
  /\ lock = NoClient
  /\ CloseAsFailed(c)
  /\ Finish(c, "failed", 0)
  /\ UNCHANGED <<runs, effects, lock, pending>>

MarkFailedRaises(c) ==
  /\ pc[c] = "failing"
  /\ UNCHANGED requests \/ (lock = NoClient /\ CloseAsFailed(c))
  /\ Finish(c, "error", 0)
  /\ UNCHANGED <<runs, effects, lock, pending>>

\* _reconcile_commit: the durable row decides, not the exception.
ReconcileCompleted(c) ==
  LET row == requests[call[c].key] IN
  /\ pc[c] = "reconcile"
  /\ row.status = "completed"
  /\ Finish(c, "ok", row.run)
  /\ UNCHANGED <<requests, runs, effects, lock, pending>>

\* Fault: the row is closed as failed without a look at its status.
ReconcileBlindly(c) ==
  /\ pc[c] = "reconcile"
  /\ lock = NoClient
  /\ CloseAsFailed(c)
  /\ Finish(c, "failed", 0)
  /\ UNCHANGED <<runs, effects, lock, pending>>

\* Fault: the exception decides, not the durable row.
ReconcileByException(c) ==
  /\ pc[c] = "reconcile"
  /\ Finish(c, "failed", 0)
  /\ UNCHANGED <<requests, runs, effects, lock, pending>>

ReconcileFailed(c) ==
  LET row == requests[call[c].key] IN
  /\ pc[c] = "reconcile"
  /\ row.status = "processing" /\ row.run = 0
  /\ lock = NoClient
  /\ CloseAsFailed(c)
  /\ Finish(c, "failed", 0)
  /\ UNCHANGED <<runs, effects, lock, pending>>

\* The fresh session cannot read or write the row, or its commit raises after
\* becoming durable.
ReconcileRaises(c) ==
  LET row == requests[call[c].key] IN
  /\ pc[c] = "reconcile"
  /\ \/ UNCHANGED requests
     \/ row.status = "processing" /\ row.run = 0 /\ lock = NoClient /\ CloseAsFailed(c)
  /\ Finish(c, "error", 0)
  /\ UNCHANGED <<runs, effects, lock, pending>>

\* The process dies, or an exception outside `except Exception` unwinds the
\* call: SQLite drops the open transaction and nobody reconciles.
Crash(c) ==
  /\ pc[c] # "idle"
  /\ Rollback(c)
  /\ Goto(c, "idle")
  /\ call' = [call EXCEPT ![c] = NoCall]
  /\ UNCHANGED <<requests, runs, effects, reply>>

-----------------------------------------------------------------------------

Arrive(c) == StartExecute(c) \/ StartUnkeyed(c) \/ StartRecover(c) \/ RefuseRecover(c)

Reserve(c) == Lookup(c) \/ Insert(c) \/ InsertLoses(c) \/ InsertRaises(c)

Turn(c) ==
  \/ TurnWrites(c) \/ TurnCompletes(c) \/ TurnFails(c)
  \/ RecordFailedRun(c) \/ SkipFailedRun(c)
  \/ UnkeyedCommit(c) \/ UnkeyedCommitRaises(c)

Settle(c) ==
  \/ Stage(c) \/ StageRaises(c)
  \/ CommitCompleted(c) \/ CommitRaises(c)
  \/ MarkFailed(c) \/ MarkFailedRaises(c)
  \/ ReconcileCompleted(c) \/ ReconcileFailed(c) \/ ReconcileRaises(c)

Next == \E c \in Clients : Arrive(c) \/ Reserve(c) \/ Turn(c) \/ Settle(c) \/ Crash(c)

Spec == Init /\ [][Next]_vars

\* A call that has begun goes on: the model and the transport have timeouts, a
\* turn has max_rounds, a wait for the write lock ends after busy_timeout.
\* Nobody is obliged to call, and nothing is obliged to crash.
FairSpec == Spec /\ \A c \in Clients : WF_vars(Reserve(c) \/ Turn(c) \/ Settle(c))

-----------------------------------------------------------------------------
(* Properties                                                              *)

TypeOK ==
  /\ requests \in [Keys -> Row \cup {Absent}]
  /\ runs \in Seq(Run)
  /\ effects \in [Keys -> Nat]
  /\ lock \in Clients \cup {NoClient}
  /\ pending \in [Clients -> Pending]
  /\ pc \in [Clients -> Stages]
  /\ call \in [Clients -> Call]
  /\ reply \in [Clients -> Reply]

HasStatus(k, s) == requests[k] # Absent /\ requests[k].status = s

\* The ids of the committed turns of a key.
CommittedRuns(k) == {i \in 1 .. Len(runs) : runs[i].key = k /\ runs[i].status = "completed"}

(***************************************************************************)
(* A completed row names the one committed turn of its key, whose writes   *)
(* reached the inventory once; a key whose row is missing, processing or   *)
(* failed has neither.  A crash or a raising commit never separates a      *)
(* request from its inventory effect, and no retry, race or reconciliation *)
(* executes a key twice.                                                   *)
(***************************************************************************)
AtomicCompletion ==
  \A k \in Keys :
    IF HasStatus(k, "completed")
    THEN /\ CommittedRuns(k) = {requests[k].run}
         /\ effects[k] = IF runs[requests[k].run].changed THEN 1 ELSE 0
    ELSE CommittedRuns(k) = {} /\ effects[k] = 0

(***************************************************************************)
(* At most one live call executes a key, and while it does, its row is     *)
(* open, or completed by a commit it has yet to hear of: nobody else       *)
(* closes or completes a row under its executor.                           *)
(***************************************************************************)
SingleExecutor ==
  \A c \in Clients :
    pc[c] \in Executing /\ call[c].key # Absent =>
      /\ \A d \in Clients \ {c} : pc[d] \in Executing => call[d].key # call[c].key
      /\ \/ HasStatus(call[c].key, "processing")
         \/ pc[c] = "reconcile" /\ HasStatus(call[c].key, "completed")

(***************************************************************************)
(* What a caller was told stays true: a result is the run the row names    *)
(* for good, and a failure is told only of a row that is failed for good.  *)
(* After an exception of another kind the caller knows nothing.            *)
(***************************************************************************)
TruthfulReplies ==
  \A c \in Clients :
    LET r == reply[c] IN
    r.key # Absent =>
      /\ r.kind = "ok" => HasStatus(r.key, "completed") /\ requests[r.key].run = r.run
      /\ r.kind \in {"failed", "previous_failure"} => HasStatus(r.key, "failed")

(***************************************************************************)
(* A transaction in progress owns the write lock, and the run id it staged *)
(* is still the next one: no other session can log a run in between.       *)
(***************************************************************************)
SingleWriter ==
  \A c \in Clients :
    /\ pc[c] \in InTransaction <=> lock = c
    /\ pending[c] # NothingPending => lock = c
    /\ pc[c] \in {"flushed", "staged"} => pending[c].run = Len(runs) + 1

(***************************************************************************)
(* A row keeps the content, source and note it was reserved with, a        *)
(* completed or failed row never changes, and logged runs stay as they are.*)
(***************************************************************************)
Durable ==
  /\ \A k \in Keys : requests[k] # Absent =>
       /\ requests'[k] # Absent
       /\ SameRequest(requests'[k], requests[k])
       /\ requests[k].status # "processing" => requests'[k] = requests[k]
  /\ Len(runs') >= Len(runs)
  /\ \A i \in 1 .. Len(runs) : runs'[i] = runs[i]

RowsAndRunsAreDurable == [][Durable]_vars

(***************************************************************************)
(* Every call is answered or dies with its process: no session waits       *)
(* forever for the write lock or for another caller of its key.            *)
(***************************************************************************)
EveryCallEnds == \A c \in Clients : pc[c] # "idle" ~> pc[c] = "idle"

-----------------------------------------------------------------------------
(* The gate implements the exactly-once ledger                             *)

LedgerStatus == [processing |-> "open", completed |-> "done", failed |-> "failed"]

Outcome(k) == IF requests[k] = Absent THEN "new" ELSE LedgerStatus[requests[k].status]

Ledger == INSTANCE ExactlyOnceLedger WITH
  outcome <- [k \in Keys |-> Outcome(k)],
  applied <- [k \in Keys |-> CommittedRuns(k)],
  answer <- reply

(***************************************************************************)
(* Behind sessions, transactions, crashes and recovery calls, each key     *)
(* behaves as a ledger entry that is settled once, together with its turn. *)
(***************************************************************************)
ImplementsLedger == Ledger!Spec

=============================================================================
