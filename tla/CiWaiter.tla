------------------------------ MODULE CiWaiter ------------------------------
(***************************************************************************)
(* The wait for the checks of a pull request at one commit                 *)
(* (tools/agent/ci_waiter.py): every poll asks GitHub four times, for the  *)
(* head, the check runs, the commit statuses and the head again, while     *)
(* checks register, end and are run again and commits are pushed.          *)
(*                                                                         *)
(* Every request may fail, every answer may be malformed, and time passes  *)
(* as it likes.  Checks are those of the expected commit; pages of more    *)
(* than a hundred are read as one.                                         *)
(***************************************************************************)
EXTENDS Naturals

CONSTANTS
  CheckRuns, Statuses,  \* names of checks, by their kind
  Timeout, Interval, Grace,
  MaxMoves              \* bound on what happens on GitHub

ASSUME WaitConstants ==
  /\ CheckRuns \cap Statuses = {}
  /\ {Timeout, Interval} \subseteq Nat \ {0} /\ {Grace, MaxMoves} \subseteq Nat

VARIABLES
  checks,     \* check -> "absent", "pending", "green", "red" or "strange"
  expected,   \* is the pull request at the expected commit?
  moves,
  clock,
  pc,
  seen,       \* what the answers of this poll say: check -> state
  status,     \* of the summary; "none" before
  journal,    \* the last line of observations.jsonl, or "none"
  summary,    \* summary.json
  shown,      \* history: <<check, state>> true of GitHub during this poll
  away        \* history: was the head another during this poll?

github == <<checks, expected, moves>>
history == <<shown, away>>
waitVars == <<github, clock, pc, seen, status, journal, summary, history>>

Checks == CheckRuns \cup Statuses
Truth(state) == {<<c, state[c]>> : c \in Checks}

-----------------------------------------------------------------------------
(* GitHub and time *)

Move(c, from, to) ==
  /\ checks[c] \in from
  /\ checks' = [checks EXCEPT ![c] = to]
  /\ UNCHANGED expected

\* Only a check run is of a state that the waiter does not know, or has ended
\* without a conclusion.
GitHub ==
  /\ moves < MaxMoves /\ moves' = moves + 1
  /\ \/ \E c \in Checks :
          \/ Move(c, {"absent", "green", "red"}, "pending")
          \/ \E end \in {"green", "red"} : Move(c, {"absent", "pending"}, end)
          \/ c \in CheckRuns /\ Move(c, {"pending"}, "strange")
     \/ expected' = ~expected /\ UNCHANGED checks
  /\ shown' = shown \cup Truth(checks')
  /\ away' = (away \/ ~expected')
  /\ UNCHANGED <<clock, pc, seen, status, journal, summary>>

Tick ==
  /\ clock < Timeout /\ pc # "ended"
  /\ clock' = clock + 1
  /\ UNCHANGED <<github, pc, seen, status, journal, summary, history>>

-----------------------------------------------------------------------------
(* The waiter *)

Quiet == UNCHANGED <<github, clock>>
GoOn(stage) == pc' = stage /\ UNCHANGED <<status, summary>>

\* _Journal.record and finish.
Recorded(observation) == journal' = observation
Summarised(verdict) == summary' = verdict

\* The verdict of the command: state_error when the summary is not written, or
\* not known to be durable.
Finish(verdict) ==
  /\ pc' = "ended"
  /\ \/ status' = verdict /\ Summarised(verdict)
     \/ status' = "state_error" /\ (UNCHANGED summary \/ Summarised(verdict))

\* The top of the loop.
Poll ==
  /\ pc = "poll"
  /\ IF clock >= Timeout
     THEN Finish("timed_out") /\ UNCHANGED <<seen, history>>
     ELSE /\ GoOn("pull") /\ seen' = << >>
          /\ shown' = Truth(checks) /\ away' = ~expected
  /\ UNCHANGED journal /\ Quiet

Requests == {"pull", "runs", "statuses", "pull again"}

\* _gh_json: no request is made after the deadline, which is also the end of one
\* that takes too long; gh may fail in several ways, or answer what cannot be read.
Unanswered ==
  /\ pc \in Requests
  /\ IF clock >= Timeout
     THEN Finish("timed_out")
     ELSE \E error \in {"gh_error", "malformed_response"} : Finish(error)
  /\ UNCHANGED <<seen, journal, history>> /\ Quiet

Answered(request) ==
  /\ pc = request /\ clock < Timeout
  /\ UNCHANGED <<journal, history>> /\ Quiet

\* _pull_head, before and after.
HeadIs(next) == IF expected THEN GoOn(next) ELSE Finish("head_changed")

Pull == Answered("pull") /\ HeadIs("runs") /\ UNCHANGED seen
PullAgain == Answered("pull again") /\ HeadIs("judge") /\ UNCHANGED seen

Registered(names) == {c \in names : checks[c] # "absent"}
RunsNow == [c \in Registered(CheckRuns) |-> checks[c]]
StatusesNow == [c \in Registered(Statuses) |-> checks[c]]

AskRuns ==
  /\ Answered("runs") /\ GoOn("statuses")
  /\ seen' = RunsNow

AskStatuses ==
  /\ Answered("statuses") /\ GoOn("pull again")
  /\ seen' = [c \in DOMAIN seen \cup DOMAIN StatusesNow |->
                IF c \in DOMAIN seen THEN seen[c] ELSE StatusesNow[c]]

Some(names, state) == \E c \in names \cap DOMAIN seen : seen[c] = state

\* Fault: checks that are not over are left aside.
ClassifyEnded ==
  IF Some(Checks, "red") THEN "failed"
  ELSE IF Some(Checks, "green") THEN "success"
  ELSE IF DOMAIN seen = {} THEN "checks_not_registered"
  ELSE "in_progress"

\* _classify: a failed status counts before anything else is read.
Classify ==
  IF Some(Statuses, "red") THEN "failed"
  ELSE IF DOMAIN seen = {} THEN "checks_not_registered"
  ELSE IF Some(CheckRuns, "strange") THEN "malformed_response"
  ELSE IF Some(Checks, "red") THEN "failed"
  ELSE IF Some(Checks, "pending") THEN "in_progress"
  ELSE "success"

\* The observation is recorded, and only then acted upon.  An observation that
\* cannot be recorded ends the program with an exception and no summary.
Judge ==
  /\ pc = "judge"
  /\ \/ /\ Classify = "malformed_response"
        /\ Finish(Classify) /\ UNCHANGED journal
     \/ /\ Classify # "malformed_response"
        /\ Recorded(Classify)
        /\ IF Classify \in {"success", "failed"} \/ (Classify = "checks_not_registered" /\ clock >= Grace)
           THEN Finish(Classify)
           ELSE IF clock >= Timeout THEN Finish("timed_out") ELSE GoOn("sleep")
     \/ /\ Classify # "malformed_response"
        /\ GoOn("ended") /\ UNCHANGED journal
  /\ UNCHANGED <<seen, history>> /\ Quiet

\* Fault: the interval may be nothing.
SleepNot ==
  /\ pc = "sleep"
  /\ clock' \in {clock, IF clock + Interval < Timeout THEN clock + Interval ELSE Timeout}
  /\ GoOn("poll")
  /\ UNCHANGED <<github, seen, journal, history>>

\* No longer than until the deadline.
Sleep ==
  /\ pc = "sleep"
  /\ clock' = IF clock + Interval < Timeout THEN clock + Interval ELSE Timeout
  /\ GoOn("poll")
  /\ UNCHANGED <<github, seen, journal, history>>

Killed ==
  /\ pc # "ended"
  /\ GoOn("ended")
  /\ UNCHANGED <<seen, journal, history>> /\ Quiet

WaitInit ==
  /\ checks = [c \in Checks |-> "absent"] /\ expected = TRUE /\ moves = 0
  /\ clock = 0 /\ pc = "poll" /\ seen = << >>
  /\ status = "none" /\ journal = "none" /\ summary = "none"
  /\ shown = {} /\ away = FALSE

Waiter ==
  Poll \/ Unanswered \/ Pull \/ AskRuns \/ AskStatuses \/ PullAgain \/ Judge \/ Sleep

WaitNext == GitHub \/ Tick \/ Waiter \/ Killed

\* The waiter runs, as every process does; nothing is assumed of GitHub or of
\* the time that requests take.
WaitSpec == WaitInit /\ [][WaitNext]_waitVars /\ WF_waitVars(Waiter)

-----------------------------------------------------------------------------
Was(c, state) == <<c, state>> \in shown
RegisteredBefore == {c \in Checks : ~Was(c, "absent")}

\* Whatever happens on GitHub between the four requests of a poll: a success
\* means that every check registered when the poll began was green in its
\* course, and one was; a failure that one was red; a changed head that it was
\* another; no checks that some were missing, and for the grace period.  A
\* summary of success or failure has its observation in the journal
\* (wait_for_checks, _classify, _Journal).
VerdictIsTrue ==
  /\ status = "success" =>
       /\ \E c \in Checks : Was(c, "green")
       /\ \A c \in RegisteredBefore : Was(c, "green")
  /\ status = "failed" => \E c \in Checks : Was(c, "red")
  /\ status = "head_changed" => away
  /\ status = "checks_not_registered" => clock >= Grace /\ \A c \in Checks : Was(c, "absent")
  /\ summary \in {"success", "failed"} => journal = summary

\* Every wait ends, however slow GitHub is and however often the checks are
\* run again: by the deadline (wait_for_checks).
WaitEnds == <>(pc = "ended")
=============================================================================
