------------------------------ MODULE SlowTurn ------------------------------
(***************************************************************************)
(* A Telegram message whose turn takes long (telegram/polling.py): the     *)
(* main thread waits for a model, then sends the reply; meanwhile a worker *)
(* thread tells the user that the bot is at work (telegram/progress.py).   *)
(* There is one worker in the process, even when a call of an earlier one  *)
(* is still on its way.                                                    *)
(*                                                                         *)
(* A turn is one call of a model or none; AgentTurn has the rounds.  What  *)
(* the worker sends, a draft or, after a draft has failed, the typing      *)
(* action, is one.                                                         *)
(***************************************************************************)
EXTENDS RemoteCalls

CONSTANT MaxUpdates  \* bound on updates

ASSUME UpdatesAssumption == MaxUpdates \in Nat

VARIABLES
  update,    \* the one at hand, or the last
  turn,      \* where the main thread is in run_once
  stops,     \* the updates whose progress.stop was called
  shutdown,  \* the stop event of the process
  gate,      \* _PROGRESS_WORKER_GATE, a semaphore of one
  worker     \* None or [update, at]

main == <<update, turn, stops>>
slowVars == <<remoteVars, main, shutdown, gate, worker>>

Stopping(u) == shutdown \/ u \in stops

-----------------------------------------------------------------------------
(* The main thread *)

\* Fault: the gate stays taken when the thread cannot be started.
ProgressLeaked(u) ==
  IF Stopping(u) \/ gate = 0
  THEN UNCHANGED <<gate, worker>>
  ELSE gate' = 0 /\ (worker' = [update |-> u, at |-> "wait"] \/ UNCHANGED worker)

\* TelegramDraftProgress.__enter__; a thread that cannot be started gives the
\* gate back.
Progress(u) ==
  IF Stopping(u) \/ gate = 0
  THEN UNCHANGED <<gate, worker>>
  ELSE \/ gate' = 0 /\ worker' = [update |-> u, at |-> "wait"]
       \/ UNCHANGED <<gate, worker>>

Take ==
  /\ turn = "idle" /\ update < MaxUpdates
  /\ update' = update + 1 /\ turn' = "think"
  /\ Progress(update + 1)
  /\ (\E m \in Models : BeginCall(m)) \/ UNCHANGED remoteVars
  /\ UNCHANGED <<stops, shutdown>>

\* before_reply, whatever has become of the turn.
Stop ==
  /\ turn = "think" /\ At("over")
  /\ stops' = stops \cup {update} /\ turn' = "join"
  /\ UNCHANGED <<update, remoteVars, shutdown, gate, worker>>

Mine == worker # None /\ worker.update = update

\* Fault: the worker is told to stop and not waited for.
JoinNot ==
  /\ turn = "join"
  /\ turn' = "reply" /\ BeginCall("telegram")
  /\ UNCHANGED <<update, stops, shutdown, gate, worker>>

\* The worker is waited for, but not for a call that takes long; then the reply.
JoinWorker ==
  /\ turn = "join"
  /\ Mine => worker.at = "sending"
  /\ turn' = "reply" /\ BeginCall("telegram")
  /\ UNCHANGED <<update, stops, shutdown, gate, worker>>

\* Acknowledged, or abandoned and polled again.
Replied ==
  /\ turn = "reply" /\ At("over")
  /\ turn' = "idle"
  /\ UNCHANGED <<update, stops, remoteVars, shutdown, gate, worker>>

-----------------------------------------------------------------------------
(* The worker *)

OnlyWorker == UNCHANGED <<remoteVars, main, shutdown>>
WorkerAt(here, there) ==
  /\ worker # None /\ worker.at = here
  /\ worker' = [worker EXCEPT !.at = there]
  /\ UNCHANGED gate /\ OnlyWorker

TimeToSend == WorkerAt("wait", "looking")

\* The last look at the stop events, and then the call.
Looked == WorkerAt("looking", "about to send") /\ ~Stopping(worker.update)
Sends == WorkerAt("about to send", "sending")
Sent == WorkerAt("sending", "wait")

WorkerEnds ==
  /\ worker # None /\ worker.at \in {"wait", "looking"} /\ Stopping(worker.update)
  /\ worker' = None /\ gate' = gate + 1
  /\ OnlyWorker

Shutdown ==
  /\ ~shutdown /\ shutdown' = TRUE
  /\ UNCHANGED <<remoteVars, main, gate, worker>>

SlowInit ==
  /\ CallInit
  /\ update = 0 /\ turn = "idle" /\ stops = {}
  /\ shutdown = FALSE /\ gate = 1 /\ worker = None

Calling == CallNext /\ UNCHANGED <<main, shutdown, gate, worker>>
Main == Stop \/ JoinWorker \/ Replied
Worker == TimeToSend \/ Looked \/ Sends \/ Sent \/ WorkerEnds

SlowNext == Take \/ Main \/ Worker \/ Shutdown \/ Calling

\* Threads run and time passes.  Nothing is assumed of servers, of processes,
\* or of a call of the worker.
SlowSpec ==
  /\ SlowInit /\ [][SlowNext]_slowVars
  /\ WF_slowVars(Tick /\ UNCHANGED <<main, shutdown, gate, worker>>)
  /\ WF_slowVars(Caller /\ UNCHANGED <<main, shutdown, gate, worker>>)
  /\ WF_slowVars(Main) /\ WF_slowVars(Sends) /\ WF_slowVars(WorkerEnds)

-----------------------------------------------------------------------------
(* Properties *)

\* The worker begins no call once the reply of its update is being sent: what
\* still appears after it was on its way before (TelegramDraftProgress.stop).
NoDraftAfterReply ==
  [][worker # None /\ worker' # None /\ worker.at # "sending" /\ worker'.at = "sending" =>
       worker.update = update /\ turn \in {"think", "join"}]_slowVars

\* A turn ends, whatever a model, a process or a call of the worker does, unless
\* a server of OpenAI's or Gemini's protocol or Telegram sends a body without
\* end: these clients have no deadline for all of the call.  And the gate of the
\* worker is free again, unless a call of the worker does not return.
TurnsEnd ==
  LET Endless == At("body") /\ ~Timed
      InFlight == worker # None /\ worker.at = "sending"
  IN
  /\ []<>(turn = "idle") \/ <>[]Endless
  /\ []<>(gate = 1) \/ <>[]InFlight \/ <>[]Endless
=============================================================================
