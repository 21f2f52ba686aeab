-------------------------- MODULE CanonicalVerifier --------------------------
(***************************************************************************)
(* canonical_verifier.py: a detached worker runs the fixed Make recipes    *)
(* one after the other and keeps what it did in run.json; a verdict is in  *)
(* summary.json.                                                           *)
(*                                                                         *)
(* A launch is a `start` or a `resume`: its command line, the worker it    *)
(* leaves behind, and the Make process of that worker.  All of them may be *)
(* killed alone.  The lock of the repository is a flock that a launch      *)
(* hands on to its worker, and the worker to the wrapper of Make, which    *)
(* closes it when it becomes Make: it is free when all have ended.         *)
(*                                                                         *)
(* Files change by rename, so a reader sees all of a write or nothing.     *)
(* HEAD moves forward to new commits, and git may fail to tell it.  What   *)
(* the system refuses is left out, but while a recipe runs.                *)
(***************************************************************************)
EXTENDS Naturals, FiniteSets, Sequences

CONSTANTS
  Runs,      \* state directories
  Launches,  \* invocations of start and resume
  NoRun, NoLaunch,
  Recipes,   \* how many recipes there are
  MaxHead,   \* bound on commits
  MaxFaults  \* bound on kills, exceptions and ids given away

ASSUME ConstantsAssumption ==
  /\ NoRun \notin Runs /\ NoLaunch \notin Launches
  /\ Recipes \in Nat /\ MaxHead \in Nat /\ MaxFaults \in Nat

VARIABLES
  head,      \* HEAD of the repository
  owner,     \* contents of the lock file: the run that had it last
  stored,    \* run -> run.json
  summary,   \* run -> status in summary.json
  cli,       \* launch -> where start or resume stands
  target,    \* launch -> its run
  worker,    \* launch -> where its worker stands
  command,   \* launch -> its Make process
  outcome,   \* launch -> how that ended
  began,     \* history: HEAD when it was started
  tested,    \* history: <<run, recipe, HEAD>> that ran to success
  faults

files == <<owner, stored, summary>>
procs == <<cli, target, worker, command, outcome>>
vars == <<head, files, procs, began, tested, faults>>

Terminal == {"passed", "failed", "timed_out", "head_changed", "internal_error"}
Outcomes == {"success", "failed", "timed_out"}

\* active_command: the launch whose worker started it; whether its process
\* is recorded.
NoCommand == [by |-> NoLaunch, known |-> FALSE]

\* No directory; once it is made, and before run.json is there, it is "empty".
NoState == [status |-> "none", head |-> 0, checks |-> <<>>, active |-> NoCommand,
            worker |-> NoLaunch]

InitialState(h) == [NoState EXCEPT !.status = "starting", !.head = h]

WorkerStages == {"boot", "loop", "spawn", "await", "give_up", "wait", "error", "after",
                 "close"}
CommandStages == {"wrapper", "registered", "make"}

Supervised(l) == worker[l] \in WorkerStages
Live(l) == command[l] \in CommandStages

Holds(l) == \/ cli[l] \in {"locked", "made", "relocked", "written", "owned"}
            \/ Supervised(l)
            \/ command[l] \in {"wrapper", "registered"}
LockFree == \A l \in Launches : ~ Holds(l)

Init ==
  /\ head = 0 /\ owner = NoRun
  /\ stored = [r \in Runs |-> NoState] /\ summary = [r \in Runs |-> "none"]
  /\ cli = [l \in Launches |-> "idle"] /\ target = [l \in Launches |-> NoRun]
  /\ worker = [l \in Launches |-> "none"] /\ command = [l \in Launches |-> "none"]
  /\ outcome = [l \in Launches |-> "none"]
  /\ began = [l \in Launches |-> 0] /\ tested = {} /\ faults = 0

-----------------------------------------------------------------------------
(* What status and resume conclude from the files and the processes        *)

\* _group_state of the recorded worker and of the recorded command; the id of
\* a process that ended may be that of another one by now.
WorkerState(r) ==
  LET l == stored[r].worker IN
  IF l = NoLaunch THEN "unknown"
  ELSE IF Supervised(l) THEN "live"
  ELSE IF worker[l] = "reused" THEN "identity_mismatch" ELSE "dead"

CommandState(r) ==
  LET l == stored[r].active.by IN
  IF ~ stored[r].active.known THEN "unknown"
  ELSE IF Live(l) THEN "live"
  ELSE IF command[l] = "reused" THEN "identity_mismatch" ELSE "dead"

\* _git_head, which raises when git fails.
Unreadable == MaxHead + 1
GitHead == {head, Unreadable}

Verdict(r, otherwise) == IF summary[r] # "none" THEN summary[r] ELSE otherwise

Status(r) ==
  IF stored[r].status \in {"none", "empty"} THEN "invalid"
  ELSE IF WorkerState(r) = "identity_mismatch" THEN Verdict(r, "invalid")
  ELSE IF WorkerState(r) = "live" THEN "running"
  ELSE IF CommandState(r) = "identity_mismatch" THEN Verdict(r, "invalid")
  ELSE IF CommandState(r) = "live" THEN "orphaned_command"
  ELSE IF stored[r].status = "starting" /\ stored[r].worker = NoLaunch
       THEN Verdict(r, "starting")
  ELSE Verdict(r, "interrupted")

\* _resume_reasons: nothing speaks against going on.
MayGoOn(r, seen) ==
  /\ seen = stored[r].head
  /\ \A i \in DOMAIN stored[r].checks : stored[r].checks[i] = "success"
  /\ stored[r].status \notin Terminal

-----------------------------------------------------------------------------
(* start                                                                   *)

FilesKept == UNCHANGED files
HistoryKept == UNCHANGED <<began, tested>>
Cli(l, stage) == cli' = [cli EXCEPT ![l] = stage]
OnlyCli == UNCHANGED <<head, target, worker, command, outcome>> /\ HistoryKept

\* The directory is new and the lock is free.
Start(l, r) ==
  /\ cli[l] = "idle" /\ stored[r].status = "none" /\ LockFree
  /\ Cli(l, "locked")
  /\ target' = [target EXCEPT ![l] = r]
  /\ UNCHANGED <<head, worker, command, outcome>> /\ FilesKept /\ HistoryKept

\* Under the lock: the run that had it before must have left no process
\* behind, and nobody may have made the directory since.
Prepare(l) ==
  LET left == /\ owner \notin {NoRun, target[l]}
              /\ Status(owner) \in {"running", "orphaned_command", "invalid"} IN
  /\ cli[l] = "locked"
  /\ IF ~ left /\ stored[target[l]].status = "none"
     THEN /\ stored' = [stored EXCEPT ![target[l]].status = "empty"]
          /\ Cli(l, "made")
     ELSE Cli(l, "done") /\ UNCHANGED stored
  /\ UNCHANGED <<owner, summary>> /\ OnlyCli

\* Without a HEAD the directory stays empty.
WriteInitial(l) == \E seen \in GitHead :
  /\ cli[l] = "made"
  /\ IF seen = Unreadable THEN Cli(l, "done") /\ UNCHANGED stored
     ELSE /\ stored' = [stored EXCEPT ![target[l]] = InitialState(seen)]
          /\ Cli(l, "written")
  /\ UNCHANGED <<owner, summary>> /\ OnlyCli

\* _write_lock_owner, of start and resume.
WriteOwner(l) ==
  /\ cli[l] = "written"
  /\ owner' = target[l] /\ Cli(l, "owned")
  /\ UNCHANGED <<stored, summary>> /\ OnlyCli

\* _launch_worker: the worker has the lock's descriptor, the command line
\* closes its own and waits for a byte that changes nothing.
LaunchWorker(l) ==
  /\ cli[l] = "owned"
  /\ Cli(l, "done") /\ worker' = [worker EXCEPT ![l] = "boot"]
  /\ UNCHANGED <<head, target, command, outcome>> /\ FilesKept /\ HistoryKept

-----------------------------------------------------------------------------
(* resume                                                                  *)

\* The first look, without the lock.
Look(l, r) ==
  /\ cli[l] = "idle"
  /\ Status(r) \in {"starting", "interrupted"} /\ MayGoOn(r, head)
  /\ Cli(l, "looked")
  /\ target' = [target EXCEPT ![l] = r]
  /\ UNCHANGED <<head, worker, command, outcome>> /\ FilesKept /\ HistoryKept

\* Fault: that the lock is held elsewhere goes unnoticed.
RelockAnyway(l) ==
  /\ cli[l] = "looked" /\ Cli(l, "relocked")
  /\ FilesKept /\ OnlyCli

Relock(l) ==
  /\ cli[l] = "looked"
  /\ Cli(l, IF LockFree THEN "relocked" ELSE "done")
  /\ FilesKept /\ OnlyCli

\* Fault: the second look asks for the worker only.
ResumeOverCommand(l) == \E seen \in GitHead :
  LET r == target[l] IN
  /\ cli[l] = "relocked"
  /\ IF WorkerState(r) # "live" /\ MayGoOn(r, seen)
     THEN /\ stored' = [stored EXCEPT ![r] =
               [@ EXCEPT !.status = "starting", !.worker = NoLaunch, !.active = NoCommand]]
          /\ Cli(l, "written")
     ELSE Cli(l, "done") /\ UNCHANGED stored
  /\ UNCHANGED <<owner, summary>> /\ OnlyCli

\* The second look, under the lock; the recorded processes are forgotten.
Resume(l) == \E seen \in GitHead :
  LET r == target[l] IN
  /\ cli[l] = "relocked"
  /\ IF Status(r) \notin {"running", "orphaned_command", "invalid"} /\ MayGoOn(r, seen)
     THEN /\ stored' = [stored EXCEPT ![r] =
               [@ EXCEPT !.status = "starting", !.worker = NoLaunch, !.active = NoCommand]]
          /\ Cli(l, "written")
     ELSE Cli(l, "done") /\ UNCHANGED stored
  /\ UNCHANGED <<owner, summary>> /\ OnlyCli

-----------------------------------------------------------------------------
(* The worker                                                              *)

Run(l) == stored[target[l]]
Write(l, state) == stored' = [stored EXCEPT ![target[l]] = state]
Conclude(l, status) == summary' = [summary EXCEPT ![target[l]] = status]
GoOn(l, stage) == worker' = [worker EXCEPT ![l] = stage]
OnlyWorker == UNCHANGED <<head, owner, cli, target>> /\ HistoryKept

\* _worker_main: the worker makes itself known.
Boot(l) ==
  /\ worker[l] = "boot"
  /\ Write(l, [Run(l) EXCEPT !.worker = l, !.status = "running"])
  /\ GoOn(l, "loop")
  /\ UNCHANGED <<summary, command, outcome>> /\ OnlyWorker

\* _run_checks, the top of the loop: the verdict, or the next recipe.
NextRecipe(l) == \E seen \in GitHead :
  /\ worker[l] = "loop"
  /\ \/ /\ Len(Run(l).checks) = Recipes
        /\ Conclude(l, "passed") /\ GoOn(l, "close") /\ UNCHANGED stored
     \/ /\ Len(Run(l).checks) < Recipes /\ seen # Run(l).head
        /\ Conclude(l, "head_changed") /\ GoOn(l, "close") /\ UNCHANGED stored
     \/ /\ Len(Run(l).checks) < Recipes /\ seen = Run(l).head
        /\ Write(l, [Run(l) EXCEPT !.status = "running", !.active = [by |-> l, known |-> FALSE]])
        /\ GoOn(l, "spawn") /\ UNCHANGED summary
  /\ UNCHANGED <<command, outcome>> /\ OnlyWorker

\* _execute_recipe: the wrapper inherits the lock.
Spawn(l) ==
  /\ worker[l] = "spawn"
  /\ command' = [command EXCEPT ![l] = "wrapper"] /\ GoOn(l, "await")
  /\ outcome' = [outcome EXCEPT ![l] = "none"]
  /\ FilesKept /\ OnlyWorker

\* Fault: the wrapper becomes Make before it is recorded.
RegisterLate(l) ==
  /\ command[l] = "wrapper"
  /\ command' = [command EXCEPT ![l] = "make"]
  /\ began' = [began EXCEPT ![l] = head]
  /\ UNCHANGED <<head, cli, target, worker, outcome, tested>> /\ FilesKept

\* _command_entry: the wrapper records its process, unless the run has gone on
\* without it.
Register(l) ==
  /\ command[l] = "wrapper"
  /\ IF Run(l).active = [by |-> l, known |-> FALSE]
     THEN /\ Write(l, [Run(l) EXCEPT !.active.known = TRUE])
          /\ command' = [command EXCEPT ![l] = "registered"] /\ UNCHANGED outcome
     ELSE /\ command' = [command EXCEPT ![l] = "ended"]
          /\ outcome' = [outcome EXCEPT ![l] = "failed"] /\ UNCHANGED stored
  /\ UNCHANGED <<head, owner, summary, cli, target, worker>> /\ HistoryKept

\* It closes the lock and becomes Make.
BecomeMake(l) ==
  /\ command[l] = "registered"
  /\ command' = [command EXCEPT ![l] = "make"]
  /\ began' = [began EXCEPT ![l] = head]
  /\ UNCHANGED <<head, cli, target, worker, outcome, tested>> /\ FilesKept

\* Make ends by itself.
MakeEnds(l) == \E o \in {"success", "failed"} :
  /\ command[l] = "make"
  /\ command' = [command EXCEPT ![l] = "ended"]
  /\ outcome' = [outcome EXCEPT ![l] = o]
  /\ tested' = IF o = "success" /\ began[l] = head
               THEN tested \cup {<<target[l], Len(Run(l).checks) + 1, head>>} ELSE tested
  /\ UNCHANGED <<head, cli, target, worker, began>> /\ FilesKept

\* The wait for the record of the process: it is there, or the time is over or
\* the wrapper has ended.
Await(l) ==
  /\ worker[l] = "await"
  /\ GoOn(l, IF Run(l).active.known THEN "wait" ELSE "give_up")
  /\ UNCHANGED <<command, outcome>> /\ FilesKept /\ OnlyWorker

\* The process group is killed.
GiveUp(l) ==
  /\ worker[l] = "give_up" /\ GoOn(l, "error")
  /\ command' = [command EXCEPT ![l] = "ended"] /\ UNCHANGED outcome
  /\ FilesKept /\ OnlyWorker

\* No process can be created, or a log not be written: the same.
Breaks(l) ==
  /\ worker[l] \in {"spawn", "await", "wait"} /\ GoOn(l, "error")
  /\ command' = [command EXCEPT ![l] = IF Live(l) THEN "ended" ELSE @] /\ UNCHANGED outcome
  /\ FilesKept /\ OnlyWorker

\* The run ends with the error; the command has left no result.
InternalError(l) ==
  /\ worker[l] = "error" /\ GoOn(l, "close")
  /\ Conclude(l, "internal_error")
  /\ UNCHANGED <<stored, command, outcome>> /\ OnlyWorker

\* The process group is terminated, and killed.
TimeOut(l) ==
  /\ worker[l] = "wait" /\ Live(l)
  /\ command' = [command EXCEPT ![l] = "ended"]
  /\ outcome' = [outcome EXCEPT ![l] = "timed_out"]
  /\ UNCHANGED worker /\ FilesKept /\ OnlyWorker

\* The result is durable before anything follows from it.
Gather(l) ==
  /\ worker[l] = "wait" /\ ~ Live(l)
  /\ Write(l, [Run(l) EXCEPT !.checks = Append(@, outcome[l]), !.active = NoCommand])
  /\ GoOn(l, "after")
  /\ UNCHANGED <<summary, command, outcome>> /\ OnlyWorker

\* Fault: HEAD is looked at before a recipe only.
AfterUnchecked(l) ==
  LET o == Run(l).checks[Len(Run(l).checks)] IN
  /\ worker[l] = "after"
  /\ IF o # "success" THEN Conclude(l, o) /\ GoOn(l, "close")
     ELSE GoOn(l, "loop") /\ UNCHANGED summary
  /\ UNCHANGED <<stored, command, outcome>> /\ OnlyWorker

After(l) == \E seen \in GitHead :
  LET o == Run(l).checks[Len(Run(l).checks)] IN
  /\ worker[l] = "after"
  /\ IF o # "success" THEN Conclude(l, o) /\ GoOn(l, "close")
     ELSE IF seen # Run(l).head THEN Conclude(l, "head_changed") /\ GoOn(l, "close")
     ELSE GoOn(l, "loop") /\ UNCHANGED summary
  /\ UNCHANGED <<stored, command, outcome>> /\ OnlyWorker

\* _write_summary: run.json follows summary.json; then the worker ends.
Close(l) ==
  /\ worker[l] = "close"
  /\ Write(l, [Run(l) EXCEPT !.status = summary[target[l]], !.active = NoCommand])
  /\ GoOn(l, "gone")
  /\ UNCHANGED <<summary, command, outcome>> /\ OnlyWorker

-----------------------------------------------------------------------------
(* The environment                                                         *)

Fault == faults < MaxFaults /\ faults' = faults + 1

Commit ==
  /\ head < MaxHead /\ head' = head + 1
  /\ UNCHANGED <<files, procs, began, tested>>

KillCli(l) ==
  /\ cli[l] \notin {"idle", "done"} /\ Cli(l, "done")
  /\ FilesKept /\ OnlyCli

KillWorker(l) ==
  /\ Supervised(l) /\ GoOn(l, "gone")
  /\ UNCHANGED <<command, outcome>> /\ FilesKept /\ OnlyWorker

\* A Make process that is killed has failed.
KillWrapper(l) ==
  /\ command[l] \in {"wrapper", "registered"}
  /\ command' = [command EXCEPT ![l] = "ended"]
  /\ outcome' = [outcome EXCEPT ![l] = "failed"]
  /\ UNCHANGED worker /\ FilesKept /\ OnlyWorker

\* Another program has the process id of the worker, or of the command.  One
\* thing is left out: the worker's id given away while its command lives in a
\* run with a verdict (one that a resume took on between whose two looks the
\* worker before was killed in Close).  The verdict then hides the command.
Reuse(l) ==
  /\ worker[l] # "none"
  /\ Live(l) => summary[target[l]] = "none"
  /\ \/ worker[l] = "gone" /\ GoOn(l, "reused") /\ UNCHANGED command
     \/ /\ command[l] = "ended" /\ ~ Supervised(l)
        /\ command' = [command EXCEPT ![l] = "reused"] /\ UNCHANGED worker
  /\ UNCHANGED <<head, cli, target, outcome, began, tested>> /\ FilesKept

WorkerStep(l) == Boot(l) \/ NextRecipe(l) \/ Spawn(l) \/ Await(l) \/ GiveUp(l)
                 \/ InternalError(l) \/ TimeOut(l) \/ Gather(l) \/ After(l) \/ Close(l)
CommandStep(l) == Register(l) \/ BecomeMake(l) \/ MakeEnds(l)

Next ==
  \/ /\ UNCHANGED faults
     /\ \/ \E l \in Launches, r \in Runs : Start(l, r) \/ Look(l, r)
        \/ \E l \in Launches :
             \/ Prepare(l) \/ WriteInitial(l) \/ WriteOwner(l) \/ LaunchWorker(l)
             \/ Relock(l) \/ Resume(l)
             \/ WorkerStep(l) \/ CommandStep(l)
        \/ Commit
  \/ /\ Fault
     /\ \E l \in Launches :
          KillCli(l) \/ KillWorker(l) \/ KillWrapper(l) \/ Breaks(l) \/ Reuse(l)

Spec == Init /\ [][Next]_vars

-----------------------------------------------------------------------------
(* Properties                                                              *)

State == [status : {"none", "empty", "starting", "running"} \cup Terminal,
          head : 0 .. MaxHead,
          checks : Seq(Outcomes),
          active : [by : Launches \cup {NoLaunch}, known : BOOLEAN],
          worker : Launches \cup {NoLaunch}]

\* Types, and no more results than recipes (_validate_state).
TypeOK ==
  /\ head \in 0 .. MaxHead /\ owner \in Runs \cup {NoRun}
  /\ stored \in [Runs -> State]
  /\ \A r \in Runs : Len(stored[r].checks) <= Recipes
  /\ summary \in [Runs -> Terminal \cup {"none"}]
  /\ cli \in [Launches -> {"idle", "looked", "locked", "relocked", "made", "written",
                           "owned", "done"}]
  /\ target \in [Launches -> Runs \cup {NoRun}]
  /\ worker \in [Launches -> WorkerStages \cup {"none", "gone", "reused"}]
  /\ command \in [Launches -> CommandStages \cup {"none", "ended", "reused"}]
  /\ outcome \in [Launches -> Outcomes \cup {"none"}]
  /\ began \in [Launches -> 0 .. MaxHead]
  /\ tested \subseteq Runs \X (1 .. Recipes) \X (0 .. MaxHead)
  /\ faults \in 0 .. MaxFaults

\* One worker at most serves the repository, and no two commands of one run
\* are alive: neither two command lines at once nor a worker that died under
\* its Make process leads to a second execution (start_run, resume_run).
OneVerifier ==
  /\ TypeOK
  /\ \A l, k \in Launches : l # k =>
       /\ ~ (Supervised(l) /\ Supervised(k))
       /\ ~ (Live(l) /\ Live(k) /\ target[l] = target[k])

\* A Make process that has let go of the lock is found by the status of its own
\* run, whoever was killed before: that is running, orphaned or invalid until it
\* ends (_command_entry, status_run).
OrphansAreVisible ==
  \A l \in Launches :
    command[l] = "make" => Status(target[l]) \in {"running", "orphaned_command", "invalid"}

\* So it blocks a resume of its run that has the lock, and a start that finds its
\* run in the lock file.  Others do not look at it: a resume looks at its own run
\* only, a start at the run that had the lock last (resume_run, start_run).
OrphansBlock ==
  [][\A l, k \in Launches : command[k] = "make" =>
       /\ cli[l] = "relocked" /\ target[l] = target[k] => cli'[l] # "written"
       /\ cli[l] = "locked" /\ owner = target[k] => cli'[l] # "made"]_vars

\* A run that passed has run every recipe to success on the commit it names,
\* in one or several launches (_run_checks, _resume_reasons).
PassedMeansTested ==
  \A r \in Runs : summary[r] = "passed" =>
    \A i \in 1 .. Recipes : <<r, i, stored[r].head>> \in tested
=============================================================================
