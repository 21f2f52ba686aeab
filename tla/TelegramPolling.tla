--------------------------- MODULE TelegramPolling ---------------------------
(***************************************************************************)
(* The Telegram poller (telegram/polling.py, telegram/adapter.py), the     *)
(* process that runs it (telegram/runtime.py, the systemd unit) and the    *)
(* operator's `telegram-recover` (runtime_cli.py), which excludes it by    *)
(* the singleton lock (telegram/singleton.py).                             *)
(*                                                                         *)
(* Updates are numbered 1, 2, ... as Telegram hands them out.  Update u is *)
(* executed under the request key <<u, 0>>, and the a-th recovery of it    *)
(* under <<u, a>>; what becomes of a key is the business of the            *)
(* idempotency gate, of which only the ledger that it implements           *)
(* (ChatRequests!ImplementsLedger) is used here.                           *)
(***************************************************************************)
EXTENDS Integers, Sequences, FiniteSets

CONSTANTS
  MaxUpdates,   \* bound on updates
  MaxAttempts,  \* bound on recovery attempts per update
  MaxFaults     \* bound on crashes, database errors and permanent rejections

ASSUME BoundsAssumption ==
  MaxUpdates \in Nat /\ MaxAttempts \in Nat /\ MaxFaults \in Nat

Updates == 1 .. MaxUpdates
Keys == Updates \X (0 .. MaxAttempts)
Original(u) == <<u, 0>>

Kinds == {"text",      \* private text of the allowed user: the agent answers
          "view",      \* /locations: answered from the database, no request
          "button",    \* a navigation button: its message is edited in place
          "ignored"}   \* a rejected update or button: nothing to deliver
Screens == {"page", "stale"}   \* what a pressed navigation button shows
NoticeKinds == {"no_mutation", "uncertain"}
Idle == <<>>           \* no operator command is running
Turn == "turn"         \* what a turn does is the ledger's business

VARIABLES
  sent,          \* the kinds of the updates sent so far
  confirmed,     \* the server no longer keeps updates below this id
  outcome,       \* the ledger: key -> "new", "open", "done", "failed"
  applied,       \* the ledger: key -> its committed turns
  requested,     \* per update: was the chat bound when its key was reserved
  binding,       \* is the chat bound to a conversation
  nextOffset,    \* telegram_polling_state.next_offset
  notices,       \* telegram_failure_notices: update -> kind or "none"
  told,          \* what reached the user, per update
  pc,            \* where the poller stands, "down" without one
  batch,         \* the updates of this poll not looked at yet
  current,       \* the update being processed
  conversation,  \* the conversation id process_update passes on
  notice,        \* the kind of notice _notify_failure is to send
  operator,      \* the key a recovery command executes, or Idle
  stopped,       \* systemd does not start the unit again on its own
  faults         \* faults so far

server == <<sent, confirmed>>
ledger == <<outcome, applied>>
tables == <<requested, binding, nextOffset, notices>>
locals == <<batch, current, conversation, notice>>
unit == <<operator, stopped>>
vars == <<server, ledger, tables, told, pc, locals, unit, faults>>

Gate == INSTANCE ExactlyOnceLedger WITH
  Clients <- {}, Absent <- Idle, answer <- <<>>

Init ==
  /\ sent = <<>> /\ confirmed = 0
  /\ outcome = [k \in Keys |-> "new"] /\ applied = [k \in Keys |-> {}]
  /\ requested = [u \in Updates |-> FALSE] /\ binding = FALSE
  /\ nextOffset = 0 /\ notices = [u \in Updates |-> "none"]
  /\ told = [u \in Updates |-> {}]
  /\ pc = "down" /\ batch = {} /\ current = 0 /\ conversation = FALSE /\ notice = "none"
  /\ operator = Idle /\ stopped = FALSE
  /\ faults = 0

Attempts(u) == {k \in Keys : k[1] = u /\ outcome[k] # "new"}

\* _recovery_lineage(...)[-1]: every attempt recovers the one before it.
LastAttempt(u) == CHOOSE k \in Attempts(u) : \A j \in Attempts(u) : j[2] <= k[2]

\* Fault: only the original request is looked at.
ProvenBySource(u) == outcome[Original(u)] = "failed"

\* _proven_no_mutation_failure, when its reads succeed.
ProvenFailure(u) == Attempts(u) # {} /\ \A k \in Attempts(u) : outcome[k] = "failed"

\* The lock that the poller and the operator's commands take at start.
SingletonFree == pc = "down" /\ operator = Idle

Goto(stage) == pc' = stage

Fault == faults < MaxFaults /\ faults' = faults + 1

\* The poll ends: an exception the runtime retries, or the process ends.
Abandon(stage) ==
  /\ Goto(stage)
  /\ batch' = {} /\ current' = 0 /\ conversation' = FALSE /\ notice' = "none"

Halt == Abandon("down") /\ stopped' = TRUE /\ UNCHANGED operator    \* exit status 2

-----------------------------------------------------------------------------
(* The user, and the server's side of getUpdates                           *)

UserSends ==
  /\ Len(sent) < MaxUpdates
  /\ \E kind \in Kinds : sent' = Append(sent, kind)
  /\ UNCHANGED <<confirmed, ledger, tables, told, pc, locals, unit, faults>>

\* getUpdates returns some first part of what is not confirmed.
Fetched(updates) ==
  LET unconfirmed == {u \in 1 .. Len(sent) : u >= nextOffset} IN
  \/ unconfirmed = {} /\ updates = {}
  \/ \E last \in unconfirmed : updates = {u \in unconfirmed : u <= last}

\* Asking for updates from nextOffset on confirms the earlier ones.
Poll ==
  /\ pc = "poll"
  /\ confirmed' = nextOffset
  /\ Fetched(batch')
  /\ Goto("batch")
  /\ UNCHANGED <<sent, ledger, tables, told, current, conversation, notice, unit, faults>>

\* The answer is lost or cannot be parsed, one bad update in it sufficing:
\* the poll is repeated, but its offset has confirmed the earlier updates.
PollLost ==
  /\ pc = "poll"
  /\ confirmed' = nextOffset
  /\ UNCHANGED <<sent, ledger, tables, told, pc, locals, unit, faults>>

-----------------------------------------------------------------------------
(* run_once over the batch, process_update                                 *)

Take ==
  LET left == {u \in batch : u >= nextOffset} IN
  /\ pc = "batch"
  /\ IF left = {} THEN Abandon("poll")
     ELSE \E u \in left :
            /\ \A v \in left : u <= v
            /\ current' = u
            /\ batch' = left \ {u}
            /\ Goto(CASE sent[u] = "text" -> "judge"
                      [] sent[u] \in {"view", "button"} -> sent[u]
                      [] sent[u] = "ignored" -> "ack")
            /\ UNCHANGED <<conversation, notice>>
  /\ UNCHANGED <<server, ledger, tables, told, unit, faults>>

GiveNotice(kind) == notice' = kind /\ Goto("notice") /\ UNCHANGED conversation

\* Fault: completed recoveries are not looked up.
JudgeWithoutLineage ==
  LET k == Original(current) IN
  /\ pc = "judge"
  /\ IF outcome[k] \in {"open", "failed"}
     THEN GiveNotice(IF ProvenFailure(current) THEN "no_mutation" ELSE "uncertain")
     ELSE /\ conversation' = IF outcome[k] = "new" THEN binding ELSE requested[current]
          /\ Goto("execute")
          /\ UNCHANGED notice
  /\ UNCHANGED <<server, ledger, tables, told, batch, current, unit, faults>>

\* An update met before and left open or failed is never executed again; one
\* that is new or done goes to the gate, with the conversation of its reservation.
Judge ==
  LET k == Original(current) IN
  /\ pc = "judge"
  /\ IF outcome[k] \in {"open", "failed"}
     THEN IF outcome[LastAttempt(current)] = "done"
          THEN Goto("bind") /\ UNCHANGED <<conversation, notice>>
          ELSE GiveNotice(IF ProvenFailure(current) THEN "no_mutation" ELSE "uncertain")
     ELSE /\ conversation' = IF outcome[k] = "new" THEN binding ELSE requested[current]
          /\ Goto("execute")
          /\ UNCHANGED notice
  /\ UNCHANGED <<server, ledger, tables, told, batch, current, unit, faults>>

\* execute_chat: reserves the key, or replays its result if this is the same
\* request.
Execute ==
  LET k == Original(current) IN
  /\ pc = "execute"
  /\ IF outcome[k] = "new"
     THEN /\ Gate!Open(k)
          /\ requested' = [requested EXCEPT ![current] = conversation]
          /\ Goto("turn")
     ELSE /\ Goto(IF requested[current] = conversation THEN "bind" ELSE "raised")
          /\ UNCHANGED <<ledger, requested>>
  /\ UNCHANGED <<server, binding, nextOffset, notices, told, locals, unit, faults>>

\* The reservation or the replay raises; a row may have become durable.
ExecuteRaises ==
  LET k == Original(current) IN
  /\ pc = "execute"
  /\ Fault
  /\ \/ UNCHANGED <<ledger, requested>>
     \/ Gate!Open(k) /\ requested' = [requested EXCEPT ![current] = conversation]
  /\ Goto("raised")
  /\ UNCHANGED <<server, binding, nextOffset, notices, told, locals, unit>>

TurnCompletes ==
  /\ pc = "turn"
  /\ Gate!CompleteWith(Original(current), Turn)
  /\ Goto("bind")
  /\ UNCHANGED <<server, tables, told, locals, unit, faults>>

TurnFails ==
  /\ pc = "turn"
  /\ Gate!Fail(Original(current))
  /\ Goto("raised")
  /\ UNCHANGED <<server, tables, told, locals, unit, faults>>

\* The gate's own bookkeeping raises: the turn is committed and its result
\* unread, or the row stays open.
TurnRaises ==
  /\ pc = "turn"
  /\ Fault
  /\ Gate!CompleteWith(Original(current), Turn) \/ UNCHANGED ledger
  /\ Goto("raised")
  /\ UNCHANGED <<server, tables, told, locals, unit>>

\* The handler of execute_chat's exceptions asks the durable rows.
Raised ==
  /\ pc = "raised"
  /\ GiveNotice(IF ProvenFailure(current) THEN "no_mutation" ELSE "uncertain")
  /\ UNCHANGED <<server, ledger, tables, told, batch, current, unit, faults>>

\* They cannot be read: nothing is proven.
ProofFails ==
  /\ pc \in {"raised", "judge"}
  /\ pc = "judge" => ProvenFailure(current)
  /\ Fault
  /\ GiveNotice("uncertain")
  /\ UNCHANGED <<server, ledger, tables, told, batch, current, unit>>

Bind ==
  /\ pc = "bind"
  /\ binding' = TRUE
  /\ Goto("reply")
  /\ UNCHANGED <<server, ledger, requested, nextOffset, notices, told, locals, unit, faults>>

-----------------------------------------------------------------------------
(* Messages to the user, and the checkpoint                                *)

Tell(message) == told' = [told EXCEPT ![current] = @ \cup {message}]

\* sendMessage fails with nothing, all, or the first of its chunks delivered.
TellPerhaps(message) == Tell(message) \/ Tell("part") \/ UNCHANGED told

\* editMessageText is tried once, and may fail after it took effect.
Edited == (\E screen \in Screens : Tell(screen)) \/ UNCHANGED told

\* process_callback_update: the query's answer and the edit of the message are
\* advisory; nothing that happens to them holds up the queue.
Button ==
  /\ pc = "button"
  /\ Edited
  /\ Goto("ack")
  /\ UNCHANGED <<server, ledger, tables, locals, unit, faults>>

Answer == IF pc = "view" THEN "view" ELSE "result"

AnswerSent ==
  /\ pc \in {"view", "reply"}
  /\ Tell(Answer)
  /\ Goto("ack")
  /\ UNCHANGED <<server, ledger, tables, locals, unit, faults>>

\* Fault: the checkpoint is written although the send failed.
AnswerLostAndAcknowledged ==
  /\ pc \in {"view", "reply"}
  /\ TellPerhaps(Answer)
  /\ Goto("ack")
  /\ UNCHANGED <<server, ledger, tables, locals, unit, faults>>

\* The transport gives up, though the message may have arrived: poll again.
AnswerLost ==
  /\ pc \in {"view", "reply"}
  /\ TellPerhaps(Answer)
  /\ Abandon("poll")
  /\ UNCHANGED <<server, ledger, tables, unit, faults>>

\* Fault: every failure stops the bot.
NoticedAndHalted == Halt

\* After the notice: a proven failure is checkpointed, anything else needs the
\* operator.
Noticed ==
  IF notice = "no_mutation" THEN Goto("ack") /\ UNCHANGED <<locals, unit>> ELSE Halt

NoticeSkipped ==
  /\ pc = "notice"
  /\ notices[current] # "none"
  /\ Noticed
  /\ UNCHANGED <<server, ledger, tables, told, faults>>

NoticeSent ==
  /\ pc = "notice"
  /\ notices[current] = "none"
  /\ Tell(notice)
  /\ Goto("mark")
  /\ UNCHANGED <<server, ledger, tables, locals, unit, faults>>

NoticeLost ==
  /\ pc = "notice"
  /\ notices[current] = "none"
  /\ Tell(notice) \/ UNCHANGED told
  /\ Abandon("poll")
  /\ UNCHANGED <<server, ledger, tables, unit, faults>>

\* An existing marker that cannot be read is no marker: the notice goes out
\* again.
NoticeRepeated ==
  /\ pc = "notice"
  /\ notices[current] # "none"
  /\ Fault
  /\ Tell(notice)
  /\ Goto("mark")
  /\ UNCHANGED <<server, ledger, tables, locals, unit>>

Mark ==
  /\ pc = "mark"
  /\ notices' = [notices EXCEPT ![current] = IF @ = "none" THEN notice ELSE @]
  /\ Noticed
  /\ UNCHANGED <<server, ledger, requested, binding, nextOffset, told, faults>>

Acknowledge ==
  /\ pc = "ack"
  /\ nextOffset' = IF nextOffset > current THEN nextOffset ELSE current + 1
  /\ Goto("batch")
  /\ current' = 0 /\ conversation' = FALSE /\ notice' = "none"
  /\ UNCHANGED <<server, ledger, requested, binding, notices, told, batch, unit, faults>>

-----------------------------------------------------------------------------
(* The process, systemd and the operator                                   *)

\* A crash, an exception no handler expects, or `systemctl stop`.
Crash ==
  /\ pc # "down"
  /\ Fault
  /\ Abandon("down")
  /\ stopped' \in BOOLEAN
  /\ UNCHANGED <<server, ledger, tables, told, operator>>

\* Telegram rejects a call for good, or a third conflict in a row: exit status 2.
Rejected ==
  /\ pc \in {"poll", "view", "reply", "notice"}
  /\ Fault
  /\ Halt
  /\ UNCHANGED <<server, ledger, tables, told>>

\* Start-up takes the singleton lock; finding it held is exit status 2 as well.
Start ==
  /\ pc = "down" /\ ~stopped
  /\ IF SingletonFree THEN Goto("poll") /\ UNCHANGED stopped
                        ELSE stopped' = TRUE /\ UNCHANGED pc
  /\ UNCHANGED <<server, ledger, tables, told, locals, operator, faults>>

\* The schema gate refuses to start over a database that is not at the packaged
\* heads, cannot be read, or was written while it looked: exit status 2.
StartRefused ==
  /\ pc = "down" /\ ~stopped
  /\ Fault
  /\ stopped' = TRUE
  /\ UNCHANGED <<server, ledger, tables, told, pc, locals, operator>>

OperatorStarts ==
  /\ stopped
  /\ stopped' = FALSE
  /\ UNCHANGED <<server, ledger, tables, told, pc, locals, operator, faults>>

\* Fault: a completed recovery is recovered again.
RecoverAgain ==
  /\ SingletonFree
  /\ \E u \in Updates :
       /\ outcome[Original(u)] \in {"open", "failed"}
       /\ LET k == <<u, LastAttempt(u)[2] + 1>> IN
          k \in Keys /\ Gate!Open(k) /\ operator' = k
  /\ UNCHANGED <<server, tables, told, pc, locals, stopped, faults>>

\* telegram-recover, under the same lock.
Recover ==
  /\ SingletonFree
  /\ \E u \in Updates :
       /\ outcome[Original(u)] \in {"open", "failed"}
       /\ outcome[LastAttempt(u)] # "done"
       /\ LET k == <<u, LastAttempt(u)[2] + 1>> IN
          k \in Keys /\ Gate!Open(k) /\ operator' = k
  /\ UNCHANGED <<server, tables, told, pc, locals, stopped, faults>>

\* The attempt commits, fails, or dies and leaves its row open.
RecoverEnds ==
  /\ operator # Idle
  /\ \/ Gate!CompleteWith(operator, Turn)
     \/ Gate!Fail(operator)
     \/ UNCHANGED ledger
  /\ operator' = Idle
  /\ UNCHANGED <<server, tables, told, pc, locals, stopped, faults>>

-----------------------------------------------------------------------------

Process == Take \/ Judge \/ Execute \/ ExecuteRaises \/ TurnCompletes \/ TurnFails
           \/ TurnRaises \/ Raised \/ ProofFails \/ Bind \/ Button

Deliver == AnswerSent \/ AnswerLost \/ NoticeSkipped \/ NoticeSent \/ NoticeLost
           \/ NoticeRepeated \/ Mark \/ Acknowledge

Lifecycle == Crash \/ Rejected \/ Start \/ StartRefused \/ OperatorStarts \/ Recover \/ RecoverEnds

Next == UserSends \/ Poll \/ PollLost \/ Process \/ Deliver \/ Lifecycle

Spec == Init /\ [][Next]_vars

\* The poller goes on, systemd and the operator start it again, a recovery
\* command ends, and a message that is sent again and again arrives one day.
FairSpec ==
  /\ Spec
  /\ WF_vars(Poll \/ Process \/ Deliver)
  /\ WF_vars(Start) /\ WF_vars(OperatorStarts) /\ WF_vars(RecoverEnds)
  /\ SF_vars(AnswerSent) /\ SF_vars(NoticeSent)

-----------------------------------------------------------------------------
(* Properties                                                              *)

Stages == {"down", "poll", "batch", "judge", "execute", "turn", "raised", "bind",
           "button", "view", "reply", "notice", "mark", "ack"}

TypeOK ==
  /\ sent \in Seq(Kinds) /\ Len(sent) <= MaxUpdates
  /\ confirmed \in 0 .. nextOffset
  /\ outcome \in [Keys -> {"new", "open", "done", "failed"}]
  /\ applied \in [Keys -> SUBSET {Turn}]
  /\ requested \in [Updates -> BOOLEAN] /\ binding \in BOOLEAN
  /\ nextOffset \in 0 .. Len(sent) + 1
  /\ notices \in [Updates -> NoticeKinds \cup {"none"}]
  /\ told \in [Updates -> SUBSET (NoticeKinds \cup Screens \cup {"result", "part", "view"})]
  /\ pc \in Stages
  /\ batch \subseteq 1 .. Len(sent)
  /\ current \in 0 .. Len(sent) /\ conversation \in BOOLEAN
  /\ notice \in NoticeKinds \cup {"none"}
  /\ operator \in Keys \cup {Idle} /\ stopped \in BOOLEAN
  /\ faults \in 0 .. MaxFaults

Acknowledged == {u \in 1 .. Len(sent) : u < nextOffset}
Done(u) == \E k \in Attempts(u) : outcome[k] = "done"

(***************************************************************************)
(* However often an update is delivered, retried after a lost reply or     *)
(* recovered by the operator, at most one of its requests is applied, no   *)
(* attempt is opened after it, and none is opened while an earlier update  *)
(* is not checkpointed.  (The types of the variables come with it.)        *)
(***************************************************************************)
OneTurnPerUpdate ==
  TypeOK /\ \A u \in Updates : \A k \in Attempts(u) :
    /\ \A j \in Attempts(u) : applied[j] # {} => k[2] <= j[2]
    /\ u - 1 < nextOffset \/ u = 1

(***************************************************************************)
(* A checkpoint is passed only by an answer: a text below next_offset has  *)
(* had the whole result of a committed turn delivered, or its own request  *)
(* failed and the user was told of a failure.                              *)
(***************************************************************************)
CheckpointAfterAnswer ==
  \A u \in Acknowledged :
    /\ sent[u] = "text" =>
         \/ "result" \in told[u] /\ Done(u)
         \/ outcome[Original(u)] = "failed" /\ told[u] \cap NoticeKinds # {}
    /\ sent[u] = "view" => "view" \in told[u]

(***************************************************************************)
(* "I changed nothing" is sent only when every request of the update has   *)
(* failed for good, and none is running or may have been applied.          *)
(***************************************************************************)
NothingChangedIsTrue ==
  [][\A u \in Updates : "no_mutation" \in told'[u] \ told[u] =>
       /\ Attempts(u) # {}
       /\ \A k \in Attempts(u) : outcome[k] = "failed" /\ applied[k] = {}]_vars

(***************************************************************************)
(* The queue stands still only behind an update one of whose requests was  *)
(* interrupted and has not been recovered; every other update is           *)
(* checkpointed, however many messages are lost.                           *)
(***************************************************************************)
Interrupted(u) == ~Done(u) /\ \E k \in Attempts(u) : outcome[k] = "open"

QueueMoves ==
  \A u \in Updates :
    u <= Len(sent) ~> u < nextOffset \/ \E v \in 1 .. u : Interrupted(v)

(***************************************************************************)
(* A committed turn of an update that is still to be checkpointed is       *)
(* reported to the user in the end, through crashes, lost replies and      *)
(* recoveries.                                                             *)
(***************************************************************************)
CommittedTurnsAreReported ==
  \A u \in Updates : Done(u) /\ nextOffset <= u ~> "result" \in told[u]

=============================================================================
