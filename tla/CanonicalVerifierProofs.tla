----------------------- MODULE CanonicalVerifierProofs -----------------------
(***************************************************************************)
(* One verifier at most, no hidden command, no verdict without its tests:  *)
(* for any runs, launches, recipes, commits and faults.                    *)
(*                                                                         *)
(* The lock alone does not do it, for a Make process lives on without it.  *)
(* The invariant has two halves.  Of those that hold the lock there is one *)
(* (Mutex); of those that do not, a live command is still named by its     *)
(* run's state (Recorded), so that nobody who serves the run overlooks it  *)
(* (Exclusive).  Only a holder changes the files of a run, and it has no   *)
(* rival there (Alone); from this everything else follows launch by        *)
(* launch.                                                                 *)
(*                                                                         *)
(* For the verdict: as long as HEAD is the commit of a run, all its        *)
(* successes were successes on that commit (RunInv); and HEAD is compared  *)
(* at each point where the tests could have come from two commits          *)
(* (Tests).                                                                *)
(***************************************************************************)
EXTENDS CanonicalVerifier, TLAPS

Locked == {"locked", "made", "relocked", "written", "owned"}
Running == {"await", "give_up", "wait"}   \* there is, or was, a command

Serving(l) == cli[l] \in {"written", "owned"} \/ Supervised(l)

Mutex == \A l, k \in Launches : Holds(l) /\ Holds(k) => l = k

Exclusive ==
  \A l, k \in Launches : l # k /\ Serving(k) /\ target[l] = target[k] => ~ Live(l)

\* The processes of a launch.
Processes(l) ==
  /\ cli[l] # "done" => worker[l] = "none" /\ command[l] = "none"
  /\ cli[l] # "idle" => target[l] \in Runs
  /\ worker[l] = "none" => command[l] = "none"
  /\ Supervised(l) /\ worker[l] \notin Running => ~ Live(l)
  /\ worker[l] \in Running =>
       command[l] \in CommandStages \cup {"ended"} /\ (Live(l) \/ outcome[l] # "none")

\* What the files of its run say of them.
Recorded(l) ==
  /\ cli[l] = "made" => Run(l).status = "empty"
  /\ worker[l] # "none" \/ cli[l] \in {"written", "owned"} =>
       Run(l).status \notin {"none", "empty"}
  /\ worker[l] = "close" => summary[target[l]] # "none"
  /\ Live(l) \/ (Supervised(l) /\ worker[l] # "boot") => Run(l).worker = l
  /\ command[l] \in {"registered", "make"} => Run(l).active = [by |-> l, known |-> TRUE]
  /\ Live(l) /\ worker[l] = "reused" => summary[target[l]] = "none"

Tested(r, i) == <<r, i, stored[r].head>> \in tested

\* What has been tested.
Tests(l) ==
  LET r == target[l]
      n == Len(stored[r].checks) IN
  /\ Live(l) \/ worker[l] \in Running \cup {"spawn"} => n < Recipes
  /\ Serving(l) /\ worker[l] \notin {"after", "close"} => \A i \in 1 .. n : Tested(r, i)
  /\ worker[l] = "after" => n > 0 /\ \A i \in 1 .. n - 1 : Tested(r, i)
  /\ command[l] = "make" => stored[r].head <= began[l] /\ began[l] <= head
  /\ worker[l] \in Running /\ ~ Live(l) /\ outcome[l] = "success" /\ head = stored[r].head
       => Tested(r, n + 1)

RunInv(r) ==
  /\ stored[r].status \in {"none", "empty"} => summary[r] = "none"
  /\ stored[r].head <= head
  /\ head = stored[r].head =>
       \A i \in 1 .. Len(stored[r].checks) : stored[r].checks[i] = "success" => Tested(r, i)
  /\ summary[r] = "passed" => \A i \in 1 .. Recipes : Tested(r, i)

IInv ==
  /\ TypeOK /\ Mutex /\ Exclusive
  /\ \A l \in Launches : Processes(l) /\ Recorded(l) /\ Tests(l)
  /\ \A r \in Runs : RunInv(r)

-----------------------------------------------------------------------------
(* Steps of one launch                                                     *)

\* What a step of h leaves alone.
Frame(h) ==
  /\ \A l \in Launches : l # h =>
       /\ cli'[l] = cli[l] /\ target'[l] = target[l] /\ worker'[l] = worker[l]
       /\ command'[l] = command[l] /\ outcome'[l] = outcome[l] /\ began'[l] = began[l]
  /\ \A r \in Runs : r # target[h] => stored'[r] = stored[r] /\ summary'[r] = summary[r]
  /\ head' = head /\ tested \subseteq tested'
  /\ target'[h] = target[h] \/ cli[h] = "idle"

\* No command of another launch is alive in the run of h.
Clear(h) == \A l \in Launches : l # h /\ target[l] = target[h] => ~ Live(l)

\* What it does to the files of its run, if anything.
Files(h) ==
  \/ UNCHANGED <<stored, summary>>
  \/ /\ Holds(h) /\ Clear(h) /\ target[h] \in Runs
     /\ stored[target[h]].status \notin {"none", "empty"} =>
          stored'[target[h]].status \notin {"none", "empty"}

\* How it comes to the lock, to its run and to a command.
Claims(h) ==
  /\ Holds(h)' => Holds(h) \/ LockFree
  /\ Serving(h)' => target'[h] = target[h] /\ (Serving(h) \/ Clear(h))
  /\ Live(h)' => target'[h] = target[h] /\ (Live(h) \/ Supervised(h))

Own(h) == Processes(h) /\ Recorded(h) /\ Tests(h)

LEMMA Preserved ==
  ASSUME IInv, NEW h \in Launches, Frame(h), Files(h), Claims(h), TypeOK', Own(h)',
         \A r \in Runs : RunInv(r)'
  PROVE  IInv'
<1> USE DEF IInv
<1>1. ASSUME NEW l \in Launches, l # h
      PROVE  /\ Holds(l)' = Holds(l) /\ Serving(l)' = Serving(l) /\ Live(l)' = Live(l)
             /\ Supervised(l)' = Supervised(l) /\ target'[l] = target[l]
             /\ Serving(l) => Holds(l)
  BY <1>1 DEF Frame, Holds, Serving, Live, Supervised
<1>2. Mutex'
  <2> SUFFICES ASSUME NEW l \in Launches, NEW k \in Launches, Holds(l)', Holds(k)' PROVE l = k
    BY DEF Mutex
  <2>1. QED
    BY <1>1 DEF Mutex, Claims, LockFree
<1>3. Exclusive'
  <2> SUFFICES ASSUME NEW l \in Launches, NEW k \in Launches, l # k, Serving(k)',
                      target'[l] = target'[k], Live(l)'
               PROVE  FALSE
    BY DEF Exclusive
  <2>1. CASE l # h /\ k # h
    BY <2>1, <1>1 DEF Exclusive
  <2>2. CASE k = h
    BY <2>2, <1>1 DEF Exclusive, Claims, Clear
  <2>3. CASE l = h
    <3>1. Serving(k) /\ target[k] = target[h] /\ Holds(k)
      BY <2>3, <1>1 DEF Claims
    <3>2. Supervised(h) => Holds(h)
      BY DEF Holds
    <3>3. QED
      BY <2>3, <3>1, <3>2 DEF Exclusive, Claims, Mutex
  <2>4. QED
    BY <2>1, <2>2, <2>3
<1>4. ASSUME NEW l \in Launches, l # h PROVE Own(l)'
  <2>1. /\ cli'[l] = cli[l] /\ target'[l] = target[l] /\ worker'[l] = worker[l]
        /\ command'[l] = command[l] /\ outcome'[l] = outcome[l] /\ began'[l] = began[l]
        /\ head' = head /\ tested \subseteq tested'
    BY <1>4 DEF Frame
  <2>2. Processes(l)'
    BY <2>1 DEF Processes, Supervised, Live
  <2>3. CASE stored'[target[l]] = stored[target[l]] /\ summary'[target[l]] = summary[target[l]]
    <3>1. Recorded(l)'
      BY <2>1, <2>3 DEF Recorded, Supervised, Live, Run
    <3>2. Tests(l)'
      BY <2>1, <2>3 DEF Tests, Tested, Supervised, Serving, Live
    <3>3. QED
      BY <2>2, <3>1, <3>2 DEF Own
  <2>4. CASE ~ (stored'[target[l]] = stored[target[l]] /\ summary'[target[l]] = summary[target[l]])
    <3>1. target[l] \in Runs => target[l] = target[h]
      BY <2>4 DEF Frame
    <3>2. CASE target[l] \notin Runs
      <4>1. cli[l] = "idle" /\ worker[l] = "none" /\ command[l] = "none"
        BY <3>2 DEF Processes
      <4>2. QED
        BY <2>1, <2>2, <4>1 DEF Own, Recorded, Tests, Supervised, Serving, Live, WorkerStages,
           CommandStages, Running
    <3>3. CASE target[l] = target[h] /\ target[l] \in Runs
      <4>1. Holds(h) /\ ~ Live(l) /\ (stored[target[l]].status \notin {"none", "empty"} =>
                                        stored'[target[l]].status \notin {"none", "empty"})
        BY <1>4, <2>4, <3>3 DEF Files, Clear
      <4>2. ~ Holds(l)
        BY <1>4, <4>1 DEF Mutex
      <4>3. cli[l] \notin Locked /\ ~ Supervised(l)
        BY <4>2 DEF Holds, Locked
      <4>4. QED
        BY <2>1, <2>2, <4>1, <4>3 DEF Own, Recorded, Tests, Supervised, Serving, Live, Locked,
           WorkerStages, CommandStages, Running, Run
    <3>4. QED
      BY <3>1, <3>2, <3>3
  <2>5. QED
    BY <2>3, <2>4
<1>5. QED
  BY <1>2, <1>3, <1>4 DEF Own

\* Runs whose files and HEAD stay, while tests are added.
LEMMA RunsKept ==
  ASSUME IInv, UNCHANGED <<stored, summary, head>>, tested \subseteq tested'
  PROVE  \A r \in Runs : RunInv(r)'
  BY DEF IInv, RunInv, Tested

-----------------------------------------------------------------------------
(* What holds of a launch between its steps                                *)

LEMMA Basics ==
  ASSUME IInv, NEW l \in Launches
  PROVE  /\ Processes(l) /\ Recorded(l) /\ Tests(l)
         /\ cli[l] # "idle" => target[l] \in Runs
         /\ worker[l] # "none" => cli[l] = "done" /\ target[l] \in Runs
         /\ command[l] # "none" => worker[l] # "none"
  BY DEF IInv, Processes

\* A live command without the lock is found by the status of its run.
LEMMA Visible ==
  ASSUME IInv, NEW l \in Launches, command[l] = "make"
  PROVE  Status(target[l]) \in {"running", "orphaned_command", "invalid"}
<1>1. worker[l] # "none" /\ Live(l) /\ target[l] \in Runs
  BY Basics DEF Live, CommandStages
<1>2. /\ Run(l).worker = l /\ Run(l).active = [by |-> l, known |-> TRUE]
      /\ Run(l).status \notin {"none", "empty"}
      /\ worker[l] = "reused" => summary[target[l]] = "none"
  BY <1>1, Basics DEF Recorded
<1>3. l # NoLaunch
  BY ConstantsAssumption
<1>4. WorkerState(target[l]) = IF Supervised(l) THEN "live"
                               ELSE IF worker[l] = "reused" THEN "identity_mismatch" ELSE "dead"
  BY <1>2, <1>3 DEF WorkerState, Run
<1>5. CommandState(target[l]) = "live"
  BY <1>1, <1>2 DEF CommandState, Run
<1>6. QED
  BY <1>2, <1>4, <1>5 DEF Status, Verdict, Run, Supervised, WorkerStages

\* A holder that serves its run, or finds it free, has no rival there.
LEMMA Alone ==
  ASSUME IInv, NEW h \in Launches,
         \/ Serving(h)
         \/ command[h] \in {"wrapper", "registered"}
         \/ cli[h] \in {"locked", "made"} /\ stored[target[h]].status \in {"none", "empty"}
         \/ /\ cli[h] = "relocked"
            /\ Status(target[h]) \notin {"running", "orphaned_command", "invalid"}
  PROVE  Clear(h)
<1> SUFFICES ASSUME NEW l \in Launches, l # h, target[l] = target[h], Live(l) PROVE FALSE
  BY DEF Clear
<1>1. CASE Serving(h)
  BY <1>1 DEF IInv, Exclusive
<1>2. CASE command[h] \in {"wrapper", "registered"}
  <2>1. Live(h)
    BY <1>2 DEF Live, CommandStages
  <2>2. QED
    BY <2>1, Basics, ZenonT(60) DEF Recorded, Run
<1>3. CASE cli[h] \in {"locked", "made"} /\ stored[target[h]].status \in {"none", "empty"}
  BY <1>3, Basics DEF Recorded, Run, Live, CommandStages
<1>4. CASE cli[h] = "relocked" /\ Status(target[h]) \notin {"running", "orphaned_command", "invalid"}
  <2>1. Holds(h)
    BY <1>4 DEF Holds
  <2>2. command[l] # "make"
    BY <1>4, Visible
  <2>3. Holds(l)
    BY <2>2 DEF Live, Holds, CommandStages
  <2>4. QED
    BY <2>1, <2>3 DEF IInv, Mutex
<1>5. QED
  BY <1>1, <1>2, <1>3, <1>4

-----------------------------------------------------------------------------
(* Steps that change no file of a run                                      *)

Safe(h) ==
  Frame(h) /\ Files(h) /\ Claims(h) /\ TypeOK' /\ Own(h)' /\ \A r \in Runs : RunInv(r)'

Counted == faults' \in 0 .. MaxFaults

\* start and resume, but for what they write.
LEMMA CliStep ==
  ASSUME IInv, Counted, NEW h \in Launches,
         \/ \E r \in Runs : Start(h, r) \/ Look(h, r)
         \/ Relock(h) \/ WriteOwner(h) \/ LaunchWorker(h) \/ KillCli(h)
  PROVE  Safe(h)
<1> USE DEF IInv
<1>a. UNCHANGED <<head, stored, summary, command, outcome, began, tested>>
  BY DEF Start, Look, Relock, WriteOwner, LaunchWorker, KillCli, FilesKept, files, HistoryKept, OnlyCli
<1>b. cli[h] # "done" /\ worker[h] = "none" /\ command[h] = "none"
  BY Basics DEF Processes, Start, Look, Relock, WriteOwner, LaunchWorker, KillCli
<1>1. Frame(h) /\ Files(h)
  BY <1>a DEF Frame, Files, TypeOK, Start, Look, Relock, WriteOwner, LaunchWorker, KillCli, Cli, OnlyCli
<1>2. Claims(h)
  <2>1. /\ Holds(h)' => Holds(h) \/ LockFree
        /\ Serving(h)' => Serving(h) /\ target'[h] = target[h]
    BY <1>a, <1>b DEF Holds, Serving, Supervised, TypeOK, Start, Look, Relock, WriteOwner,
       LaunchWorker, KillCli, Cli, OnlyCli, WorkerStages
  <2>2. ~ Live(h)'
    BY <1>a, <1>b DEF Live, CommandStages
  <2>3. QED
    BY <2>1, <2>2 DEF Claims
<1>3. TypeOK'
  BY <1>a, ZenonT(60) DEF TypeOK, Counted, Start, Look, Relock, WriteOwner, LaunchWorker, KillCli, Cli, OnlyCli,
     FilesKept, files, WorkerStages
<1>4. Processes(h)'
  BY <1>a, <1>b, Basics DEF Processes, TypeOK, Supervised, Live, Running, CommandStages, Start, Look,
     Relock, WriteOwner, LaunchWorker, KillCli, Cli, OnlyCli
<1>5. Recorded(h)' /\ Tests(h)'
  <2>1. /\ command'[h] = "none" /\ ~ Live(h)'
        /\ cli'[h] \in {"made", "written"} => FALSE
    BY <1>a, <1>b DEF Live, CommandStages, TypeOK, Start, Look, Relock, WriteOwner, LaunchWorker,
       KillCli, Cli
  <2>2. \/ worker'[h] = "none" /\ cli'[h] # "owned"
        \/ /\ cli[h] \in {"written", "owned"} /\ target'[h] = target[h]
           /\ worker'[h] \in {"none", "boot"}
    BY <1>b DEF TypeOK, Start, Look, Relock, WriteOwner, LaunchWorker, KillCli, Cli, OnlyCli
  <2>3. Recorded(h)'
    BY <1>a, <1>b, <2>1, <2>2, Basics DEF Recorded, Run, Supervised, WorkerStages
  <2>4. Tests(h)'
    BY <1>a, <1>b, <2>1, <2>2, Basics DEF Tests, Tested, Serving, Supervised, WorkerStages, Running
  <2>5. QED
    BY <2>3, <2>4
<1>6. \A r \in Runs : RunInv(r)'
  BY <1>a, RunsKept
<1>7. QED
  BY <1>1, <1>2, <1>3, <1>4, <1>5, <1>6 DEF Safe, Own

\* The worker around its command, and its death.
LEMMA WorkerStepKept ==
  ASSUME IInv, Counted, NEW h \in Launches,
         Spawn(h) \/ Await(h) \/ GiveUp(h) \/ Breaks(h) \/ TimeOut(h) \/ KillWorker(h)
  PROVE  Safe(h)
<1> USE DEF IInv
<1>a. UNCHANGED <<head, owner, stored, summary, cli, target, began, tested>>
  BY DEF Spawn, Await, GiveUp, Breaks, TimeOut, KillWorker, FilesKept, files, HistoryKept, OnlyWorker
<1>b. Supervised(h) /\ cli[h] = "done" /\ target[h] \in Runs /\ worker[h] # "none"
  BY Basics DEF Supervised, WorkerStages, Spawn, Await, GiveUp, Breaks, TimeOut, KillWorker
<1>c. \/ /\ worker[h] = "spawn" /\ worker'[h] = "await" /\ command'[h] = "wrapper"
      \/ /\ worker[h] = "await" /\ worker'[h] \in {"wait", "give_up"}
         /\ command'[h] = command[h] /\ outcome'[h] = outcome[h]
      \/ /\ worker'[h] = "error" /\ command'[h] \notin CommandStages /\ worker[h] \in Running \cup {"spawn"}
         /\ command'[h] \in {"ended", command[h]}
      \/ /\ worker[h] = "wait" /\ worker'[h] = "wait" /\ Live(h)
         /\ command'[h] = "ended" /\ outcome'[h] = "timed_out"
      \/ worker'[h] = "gone" /\ command'[h] = command[h]
  BY DEF TypeOK, Spawn, Await, GiveUp, Breaks, TimeOut, KillWorker, GoOn, Live, CommandStages, Running
<1>1. Frame(h) /\ Files(h)
  BY <1>a DEF Frame, Files, TypeOK, Spawn, Await, GiveUp, Breaks, TimeOut, KillWorker, GoOn
<1>2. Claims(h)
  BY <1>a, <1>b, <1>c DEF Claims, Holds, Serving, Supervised, Live, CommandStages
<1>3. TypeOK'
  BY <1>a DEF TypeOK, Counted, Spawn, Await, GiveUp, Breaks, TimeOut, KillWorker, GoOn, Live,
     WorkerStages, CommandStages, Outcomes
<1>4. Processes(h)'
  <2>1. Supervised(h)' /\ worker'[h] \notin Running => ~ Live(h)'
    BY <1>c DEF Supervised, Live, Running, WorkerStages
  <2>2. worker'[h] \in Running =>
          command'[h] \in CommandStages \cup {"ended"} /\ (Live(h)' \/ outcome'[h] # "none")
    BY <1>c, Basics DEF Processes, Live, Running, CommandStages
  <2>3. worker'[h] # "none"
    BY <1>c
  <2>4. QED
    BY <1>a, <1>b, <2>1, <2>2, <2>3 DEF Processes
<1>5. Recorded(h)'
  BY <1>a, <1>b, <1>c, Basics DEF Recorded, Processes, Run, Supervised, Live, Running, CommandStages,
     WorkerStages
<1>6. Tests(h)'
  BY <1>a, <1>b, <1>c, Basics DEF Tests, Tested, Processes, Serving, Supervised, Live, Running,
     CommandStages, WorkerStages
<1>7. \A r \in Runs : RunInv(r)'
  BY <1>a, RunsKept
<1>8. QED
  BY <1>1, <1>2, <1>3, <1>4, <1>5, <1>6, <1>7 DEF Safe, Own

\* The command, but for its record.
LEMMA CommandStepKept ==
  ASSUME IInv, Counted, NEW h \in Launches, BecomeMake(h) \/ KillWrapper(h) \/ Reuse(h)
  PROVE  Safe(h)
<1> USE DEF IInv
<1>a. UNCHANGED <<head, owner, stored, summary, cli, target, tested>>
  BY DEF BecomeMake, KillWrapper, Reuse, FilesKept, files, HistoryKept, OnlyWorker
<1>b. cli[h] = "done" /\ target[h] \in Runs /\ worker[h] # "none"
  BY Basics DEF BecomeMake, KillWrapper, Reuse
<1>c. \/ /\ command[h] = "registered" /\ command'[h] = "make" /\ worker'[h] = worker[h]
         /\ outcome'[h] = outcome[h] /\ began'[h] = head
      \/ /\ command'[h] = "ended" /\ worker'[h] = worker[h] /\ outcome'[h] = "failed"
      \/ /\ worker[h] = "gone" /\ worker'[h] = "reused" /\ command'[h] = command[h]
         /\ began'[h] = began[h] /\ (Live(h) => summary[target[h]] = "none")
      \/ /\ command[h] = "ended" /\ command'[h] = "reused" /\ worker'[h] = worker[h] /\ ~ Supervised(h)
  BY DEF TypeOK, BecomeMake, KillWrapper, Reuse, GoOn, OnlyWorker, HistoryKept
<1>1. Frame(h) /\ Files(h)
  BY <1>a DEF Frame, Files, TypeOK, BecomeMake, KillWrapper, Reuse, GoOn, OnlyWorker, HistoryKept
<1>2. Claims(h)
  BY <1>a, <1>b, <1>c DEF Claims, Holds, Serving, Supervised, Live, CommandStages, WorkerStages
<1>3. TypeOK'
  BY <1>a DEF TypeOK, Counted, BecomeMake, KillWrapper, Reuse, GoOn, OnlyWorker, HistoryKept,
     WorkerStages, CommandStages, Outcomes
<1>4. Processes(h)'
  BY <1>a, <1>b, <1>c, Basics DEF Processes, Supervised, Live, Running, CommandStages, WorkerStages
<1>5. Recorded(h)'
  BY <1>a, <1>b, <1>c, Basics DEF Recorded, Processes, Run, Supervised, Live, Running, CommandStages,
     WorkerStages
<1>6. Tests(h)'
  <2>1. stored[target[h]].head <= head /\ head <= head
    BY <1>b DEF RunInv, TypeOK
  <2>2. QED
    BY <1>a, <1>b, <1>c, <2>1, Basics DEF Tests, Tested, Processes, Serving, Supervised, Live, Running,
       CommandStages, WorkerStages
<1>7. \A r \in Runs : RunInv(r)'
  BY <1>a, RunsKept
<1>8. QED
  BY <1>1, <1>2, <1>3, <1>4, <1>5, <1>6, <1>7 DEF Safe, Own

-----------------------------------------------------------------------------
(* Steps that write the files of a run                                     *)

LEMMA RunTypes ==
  ASSUME IInv, NEW r \in Runs
  PROVE  /\ stored[r] \in State /\ RunInv(r)
         /\ stored[r].head \in 0 .. MaxHead /\ head \in 0 .. MaxHead
         /\ stored[r].checks \in Seq(Outcomes)
         /\ Len(stored[r].checks) \in Nat /\ Len(stored[r].checks) <= Recipes
         /\ DOMAIN stored[r].checks = 1 .. Len(stored[r].checks)
         /\ stored[r].status \in {"none", "empty", "starting", "running"} \cup Terminal
         /\ stored[r].worker \in Launches \cup {NoLaunch}
         /\ stored[r].active \in [by : Launches \cup {NoLaunch}, known : BOOLEAN]
         /\ summary[r] \in Terminal \cup {"none"}
         /\ Recipes \in Nat /\ MaxHead \in Nat
<1>1. stored[r] \in State /\ RunInv(r) /\ Len(stored[r].checks) <= Recipes
      /\ summary[r] \in Terminal \cup {"none"} /\ head \in 0 .. MaxHead
  BY DEF IInv, TypeOK
<1>2. /\ stored[r].head \in 0 .. MaxHead
      /\ stored[r].checks \in Seq(Outcomes)
      /\ stored[r].status \in {"none", "empty", "starting", "running"} \cup Terminal
      /\ stored[r].worker \in Launches \cup {NoLaunch}
      /\ stored[r].active \in [by : Launches \cup {NoLaunch}, known : BOOLEAN]
  BY <1>1 DEF State
<1>3. QED
  BY <1>1, <1>2, ConstantsAssumption

\* HEAD, when git tells it, is no commit that it was not.
LEMMA Seen ==
  ASSUME IInv, NEW r \in Runs, NEW seen \in GitHead, seen = stored[r].head
  PROVE  seen = head
  BY RunTypes DEF GitHead, Unreadable

LEMMA Written ==
  ASSUME IInv, NEW r \in Runs, NEW s \in State, stored' = [stored EXCEPT ![r] = s],
         Len(s.checks) <= Recipes
  PROVE  /\ stored' \in [Runs -> State] /\ stored'[r] = s
         /\ \A q \in Runs : q # r => stored'[q] = stored[q]
         /\ \A q \in Runs : Len(stored'[q].checks) <= Recipes
  BY DEF IInv, TypeOK

LEMMA OtherRuns ==
  ASSUME IInv, NEW h \in Launches, Frame(h), NEW r \in Runs, r = target[h], RunInv(r)'
  PROVE  \A q \in Runs : RunInv(q)'
  BY DEF IInv, RunInv, Tested, Frame

LEMMA PrepareKept ==
  ASSUME IInv, Counted, NEW h \in Launches, Prepare(h)
  PROVE  Safe(h)
<1> USE DEF IInv
<1>r. PICK r \in Runs : r = target[h]
  BY Basics DEF Prepare
<1>a. /\ r = target[h] /\ cli[h] = "locked" /\ worker[h] = "none" /\ command[h] = "none"
      /\ UNCHANGED <<head, owner, summary, target, worker, command, outcome, began, tested>>
  BY <1>r, Basics DEF Prepare, OnlyCli, HistoryKept, Processes
<1>b. \/ cli' = [cli EXCEPT ![h] = "done"] /\ UNCHANGED stored
      \/ /\ cli' = [cli EXCEPT ![h] = "made"] /\ stored[r].status = "none"
         /\ stored' = [stored EXCEPT ![r] = [stored[r] EXCEPT !.status = "empty"]]
  BY <1>r DEF Prepare, Cli
<1>c. cli' \in [Launches -> {"idle", "looked", "locked", "relocked", "made", "written", "owned", "done"}]
      /\ cli'[h] \in {"done", "made"} /\ \A l \in Launches : l # h => cli'[l] = cli[l]
  BY <1>b DEF TypeOK
<1>d. [stored[r] EXCEPT !.status = "empty"] \in State
  BY <1>a, RunTypes DEF State
<1>1. /\ stored' \in [Runs -> State] /\ \A q \in Runs : Len(stored'[q].checks) <= Recipes
      /\ \A q \in Runs : q # r => stored'[q] = stored[q]
      /\ cli'[h] = "made" => stored[r].status = "none" /\ stored'[r].status = "empty"
      /\ UNCHANGED stored \/ cli'[h] = "made"
      /\ stored'[r].checks = stored[r].checks /\ stored'[r].head = stored[r].head
  <2>1. CASE UNCHANGED stored /\ cli'[h] = "done"
    BY <2>1, <1>a DEF TypeOK
  <2>2. CASE /\ cli' = [cli EXCEPT ![h] = "made"] /\ stored[r].status = "none"
             /\ stored' = [stored EXCEPT ![r] = [stored[r] EXCEPT !.status = "empty"]]
    <3>1. [stored[r] EXCEPT !.status = "empty"].checks = stored[r].checks
          /\ [stored[r] EXCEPT !.status = "empty"].head = stored[r].head
          /\ [stored[r] EXCEPT !.status = "empty"].status = "empty"
      BY <1>a, RunTypes DEF State
    <3>2. QED
      BY <2>2, <3>1, <1>a, <1>d, Written, RunTypes DEF TypeOK
  <2>3. QED
    BY <1>b, <2>1, <2>2 DEF TypeOK
<1>2. Frame(h)
  BY <1>a, <1>1, <1>c DEF Frame
<1>3. Files(h)
  <2>1. CASE UNCHANGED stored
    BY <2>1, <1>a DEF Files
  <2>2. CASE stored[r].status = "none"
    BY <2>2, <1>a, Alone DEF Files, Holds
  <2>3. QED
    BY <1>1, <2>1, <2>2
<1>4. Claims(h)
  BY <1>a, <1>c DEF Claims, Holds, Serving, Supervised, Live, WorkerStages, CommandStages
<1>5. TypeOK'
  BY <1>a, <1>1, <1>c DEF TypeOK, Counted
<1>6. Own(h)'
  BY <1>a, <1>1, <1>c DEF Own, Processes, Recorded, Tests, Run, Supervised, Serving, Live,
     WorkerStages, CommandStages, Running
<1>7. RunInv(r)'
  <2>1. UNCHANGED stored \/ stored[r].status = "none"
    BY <1>1
  <2>2. QED
    BY <2>1, <1>a, <1>1 DEF RunInv, Tested
<1>8. QED
  BY <1>a, <1>2, <1>3, <1>4, <1>5, <1>6, <1>7, OtherRuns DEF Safe

LEMMA WriteInitialKept ==
  ASSUME IInv, Counted, NEW h \in Launches, WriteInitial(h)
  PROVE  Safe(h)
<1> USE DEF IInv
<1>r. PICK r \in Runs : r = target[h]
  BY Basics DEF WriteInitial
<1>a. /\ r = target[h] /\ cli[h] = "made" /\ worker[h] = "none" /\ command[h] = "none"
      /\ stored[r].status = "empty" /\ summary[r] = "none"
      /\ UNCHANGED <<head, owner, summary, target, worker, command, outcome, began, tested>>
  BY <1>r, Basics DEF WriteInitial, OnlyCli, HistoryKept, Processes, Recorded, Run, RunInv
<1>b. \/ cli' = [cli EXCEPT ![h] = "done"] /\ UNCHANGED stored
      \/ cli' = [cli EXCEPT ![h] = "written"] /\ stored' = [stored EXCEPT ![r] = InitialState(head)]
  BY <1>r DEF WriteInitial, Cli, GitHead
<1>c. cli' \in [Launches -> {"idle", "looked", "locked", "relocked", "made", "written", "owned", "done"}]
      /\ cli'[h] \in {"done", "written"} /\ \A l \in Launches : l # h => cli'[l] = cli[l]
  BY <1>b DEF TypeOK
<1>d. /\ InitialState(head) \in State /\ InitialState(head).checks = << >> /\ Len(<< >>) = 0
      /\ InitialState(head).status = "starting" /\ InitialState(head).head = head
  <2>1. << >> \in Seq(Outcomes) /\ Len(<< >>) = 0 /\ head \in 0 .. MaxHead
    BY RunTypes
  <2>2. QED
    BY <2>1 DEF State, InitialState, NoState, NoCommand
<1>1. /\ stored' \in [Runs -> State] /\ \A q \in Runs : Len(stored'[q].checks) <= Recipes
      /\ \A q \in Runs : q # r => stored'[q] = stored[q]
      /\ \/ UNCHANGED stored /\ cli'[h] = "done"
         \/ /\ cli'[h] = "written" /\ stored'[r].status = "starting" /\ stored'[r].head = head
            /\ Len(stored'[r].checks) = 0
  <2>1. CASE UNCHANGED stored /\ cli'[h] = "done"
    BY <2>1, <1>a DEF TypeOK
  <2>2. CASE cli' = [cli EXCEPT ![h] = "written"] /\ stored' = [stored EXCEPT ![r] = InitialState(head)]
    BY <2>2, <1>a, <1>d, Written, RunTypes, SMTT(30) DEF TypeOK
  <2>3. QED
    BY <1>b, <2>1, <2>2 DEF TypeOK
<1>2. Frame(h)
  BY <1>a, <1>1, <1>c DEF Frame
<1>3. Clear(h) /\ Holds(h)
  BY <1>a, Alone DEF Holds
<1>4. Files(h)
  BY <1>a, <1>1, <1>3 DEF Files
<1>5. Claims(h)
  BY <1>a, <1>c, <1>3 DEF Claims, Holds, Serving, Supervised, Live, WorkerStages, CommandStages
<1>6. TypeOK'
  BY <1>a, <1>1, <1>c DEF TypeOK, Counted
<1>7. Own(h)'
  BY <1>a, <1>1, <1>c DEF Own, Processes, Recorded, Tests, Run, Supervised, Serving, Live,
     WorkerStages, CommandStages, Running
<1>8. RunInv(r)'
  <2>1. head <= head
    BY <1>a, RunTypes
  <2>2. QED
    BY <2>1, <1>a, <1>1 DEF RunInv, Tested
<1>9. QED
  BY <1>a, <1>2, <1>4, <1>5, <1>6, <1>7, <1>8, OtherRuns DEF Safe

LEMMA ResumeKept ==
  ASSUME IInv, Counted, NEW h \in Launches, Resume(h)
  PROVE  Safe(h)
<1> USE DEF IInv
<1>r. PICK r \in Runs : r = target[h]
  BY Basics DEF Resume
<1> DEFINE s == [stored[r] EXCEPT !.status = "starting", !.worker = NoLaunch, !.active = NoCommand]
<1>a. /\ r = target[h] /\ cli[h] = "relocked" /\ worker[h] = "none" /\ command[h] = "none"
      /\ UNCHANGED <<head, owner, summary, target, worker, command, outcome, began, tested>>
  BY <1>r, Basics DEF Resume, OnlyCli, HistoryKept, Processes
<1>b. \/ cli' = [cli EXCEPT ![h] = "done"] /\ UNCHANGED stored
      \/ /\ cli' = [cli EXCEPT ![h] = "written"] /\ stored' = [stored EXCEPT ![r] = s]
         /\ Status(r) \notin {"running", "orphaned_command", "invalid"}
         /\ \E seen \in GitHead : MayGoOn(r, seen)
  BY <1>r DEF Resume, Cli
<1>c. cli' \in [Launches -> {"idle", "looked", "locked", "relocked", "made", "written", "owned", "done"}]
      /\ cli'[h] \in {"done", "written"} /\ \A l \in Launches : l # h => cli'[l] = cli[l]
  BY <1>b DEF TypeOK
<1>d. /\ s \in State /\ s.checks = stored[r].checks /\ s.head = stored[r].head
      /\ s.status = "starting"
  BY <1>a, RunTypes DEF State, NoCommand
<1>1. /\ stored' \in [Runs -> State] /\ \A q \in Runs : Len(stored'[q].checks) <= Recipes
      /\ \A q \in Runs : q # r => stored'[q] = stored[q]
      /\ stored'[r].head = stored[r].head /\ stored'[r].checks = stored[r].checks
      /\ \/ UNCHANGED stored /\ cli'[h] = "done"
         \/ cli'[h] = "written" /\ stored'[r].status = "starting" /\ Clear(h) /\ Holds(h)
            /\ \A i \in 1 .. Len(stored[r].checks) : Tested(r, i)
  <2>1. CASE UNCHANGED stored /\ cli'[h] = "done"
    BY <2>1, <1>a DEF TypeOK
  <2>2. CASE /\ cli' = [cli EXCEPT ![h] = "written"] /\ stored' = [stored EXCEPT ![r] = s]
             /\ Status(r) \notin {"running", "orphaned_command", "invalid"}
             /\ \E seen \in GitHead : MayGoOn(r, seen)
    <3>1. Clear(h) /\ Holds(h)
      BY <2>2, <1>a, Alone DEF Holds
    <3>2. head = stored[r].head /\ \A i \in 1 .. Len(stored[r].checks) : stored[r].checks[i] = "success"
      BY <2>2, <1>a, Seen, RunTypes DEF MayGoOn
    <3>3. \A i \in 1 .. Len(stored[r].checks) : Tested(r, i)
      BY <3>2, <1>a, RunTypes DEF RunInv
    <3>4. cli'[h] = "written"
      BY <2>2 DEF TypeOK
    <3>5. /\ stored' \in [Runs -> State] /\ stored'[r] = s
          /\ \A q \in Runs : q # r => stored'[q] = stored[q]
          /\ \A q \in Runs : Len(stored'[q].checks) <= Recipes
      BY <2>2, <1>a, <1>d, Written, RunTypes
    <3>6. QED
      BY <3>1, <3>3, <3>4, <3>5, <1>d
  <2>3. QED
    BY <1>b, <2>1, <2>2 DEF TypeOK
<1> HIDE DEF s
<1>2. Frame(h)
  BY <1>a, <1>1, <1>c DEF Frame
<1>4. Files(h)
  BY <1>a, <1>1 DEF Files
<1>5. Claims(h)
  BY <1>a, <1>c, <1>1 DEF Claims, Holds, Serving, Supervised, Live, WorkerStages, CommandStages
<1>6. TypeOK'
  BY <1>a, <1>1, <1>c DEF TypeOK, Counted
<1>7. Own(h)'
  <2>1. Processes(h)' /\ Recorded(h)'
    BY <1>a, <1>1, <1>c DEF Processes, Recorded, Run, Supervised, Live,
       WorkerStages, CommandStages, Running
  <2>2. Tests(h)'
    BY <1>a, <1>1, <1>c DEF Tests, Tested, Supervised, Serving, Live, WorkerStages, CommandStages,
       Running
  <2>3. QED
    BY <2>1, <2>2 DEF Own
<1>8. RunInv(r)'
  <2>1. RunInv(r)
    BY <1>a
  <2>2. QED
    BY <2>1, <1>a, <1>1 DEF RunInv, Tested
<1>9. QED
  BY <1>a, <1>2, <1>4, <1>5, <1>6, <1>7, <1>8, OtherRuns DEF Safe

\* What a worker may write while no command of it runs: run s and summary c,
\* with which it goes on to w.
LEMMA WorkerWrites ==
  ASSUME IInv, Counted, NEW h \in Launches, NEW r \in Runs, r = target[h],
         Supervised(h), ~ Live(h),
         NEW w \in {"loop", "spawn", "after", "close", "gone"},
         NEW s \in State, NEW c \in Terminal \cup {"none"},
         worker' = [worker EXCEPT ![h] = w],
         stored' = [stored EXCEPT ![r] = s], summary' = [summary EXCEPT ![r] = c],
         UNCHANGED <<head, owner, cli, target, command, outcome, began, tested>>,
         s.status \notin {"none", "empty"}, s.head = stored[r].head, Len(s.checks) <= Recipes,
         w # "gone" => s.worker = h,
         w = "close" => c # "none",
         w = "spawn" => Len(s.checks) < Recipes,
         w \in {"loop", "spawn"} => \A i \in 1 .. Len(s.checks) : <<r, i, s.head>> \in tested,
         w = "after" => /\ Len(s.checks) > 0
                        /\ \A i \in 1 .. Len(s.checks) - 1 : <<r, i, s.head>> \in tested,
         head = s.head =>
           \A i \in 1 .. Len(s.checks) : s.checks[i] = "success" => <<r, i, s.head>> \in tested,
         c = "passed" => \A i \in 1 .. Recipes : <<r, i, s.head>> \in tested
  PROVE  Safe(h)
<1> USE DEF IInv
<1>1. /\ stored' \in [Runs -> State] /\ stored'[r] = s
      /\ \A q \in Runs : q # r => stored'[q] = stored[q]
      /\ \A q \in Runs : Len(stored'[q].checks) <= Recipes
  BY Written
<1>2. /\ summary' \in [Runs -> Terminal \cup {"none"}] /\ summary'[r] = c
      /\ \A q \in Runs : q # r => summary'[q] = summary[q]
      /\ worker' \in [Launches -> WorkerStages \cup {"none", "gone", "reused"}] /\ worker'[h] = w
      /\ \A l \in Launches : l # h => worker'[l] = worker[l]
  BY DEF TypeOK, WorkerStages
<1>3. cli[h] = "done" /\ Clear(h) /\ Holds(h) /\ command'[h] = command[h] /\ ~ Live(h)'
  BY Basics, Alone DEF Serving, Holds, Live, Supervised, WorkerStages
<1>4. Frame(h) /\ Files(h)
  BY <1>1, <1>2, <1>3 DEF Frame, Files
<1>5. Claims(h)
  BY <1>2, <1>3 DEF Claims, Serving, Supervised
<1>6. TypeOK'
  BY <1>1, <1>2 DEF TypeOK, Counted
<1>7. Own(h)'
  <2>1. Processes(h)'
    BY <1>2, <1>3, Basics DEF Processes, Running, Live, Supervised
  <2>2. Recorded(h)'
    BY <1>1, <1>2, <1>3 DEF Recorded, Run, Live, Supervised, WorkerStages, CommandStages
  <2>3. Tests(h)'
    BY <1>1, <1>2, <1>3 DEF Tests, Tested, Live, Supervised, Serving, Running, WorkerStages, CommandStages
  <2>4. QED
    BY <2>1, <2>2, <2>3 DEF Own
<1>8. RunInv(r)'
  BY <1>1, <1>2, RunTypes DEF RunInv, Tested
<1>9. QED
  BY <1>4, <1>5, <1>6, <1>7, <1>8, OtherRuns DEF Safe

LEMMA BootKept ==
  ASSUME IInv, Counted, NEW h \in Launches, Boot(h)
  PROVE  Safe(h)
<1>1. PICK r \in Runs : r = target[h]
  BY Basics DEF Boot
<1>2. /\ Supervised(h) /\ ~ Live(h) /\ stored[r].status \notin {"none", "empty"}
      /\ \A i \in 1 .. Len(stored[r].checks) : Tested(r, i)
  BY <1>1, Basics DEF Boot, Supervised, WorkerStages, Running, Processes, Recorded, Tests, Serving, Run
<1>3. PICK s \in State : s = [stored[r] EXCEPT !.worker = h, !.status = "running"]
  BY <1>1, RunTypes DEF State
<1>4. /\ s.status = "running" /\ s.worker = h /\ s.head = stored[r].head
      /\ s.checks = stored[r].checks
  BY <1>1, <1>3, RunTypes DEF State
<1>5. PICK c \in Terminal \cup {"none"} : c = summary[r]
  BY RunTypes
<1>6. /\ worker' = [worker EXCEPT ![h] = "loop"] /\ stored' = [stored EXCEPT ![r] = s]
      /\ summary' = [summary EXCEPT ![r] = c]
      /\ UNCHANGED <<head, owner, cli, target, command, outcome, began, tested>>
  BY <1>1, <1>3, <1>5 DEF Boot, Write, Run, GoOn, OnlyWorker, HistoryKept, IInv, TypeOK
<1>7. RunInv(r) /\ Len(stored[r].checks) <= Recipes
  BY RunTypes
<1>8. QED
  BY <1>1, <1>2, <1>4, <1>5, <1>6, <1>7, WorkerWrites DEF RunInv, Tested

LEMMA NextRecipeKept ==
  ASSUME IInv, Counted, NEW h \in Launches, NextRecipe(h)
  PROVE  Safe(h)
<1>1. PICK r \in Runs : r = target[h]
  BY Basics DEF NextRecipe
<1>2. /\ Supervised(h) /\ ~ Live(h) /\ stored[r].status \notin {"none", "empty"}
      /\ stored[r].worker = h /\ \A i \in 1 .. Len(stored[r].checks) : Tested(r, i)
  BY <1>1, Basics DEF NextRecipe, Supervised, WorkerStages, Running, Processes, Recorded, Tests, Serving, Run
<1>3. PICK n \in Nat : n = Len(stored[r].checks)
  BY RunTypes
<1>4. RunInv(r) /\ n <= Recipes /\ Recipes \in Nat /\ stored[r] \in State
  BY <1>3, RunTypes
<1>5. /\ summary' = [summary EXCEPT ![r] = summary'[r]] /\ summary'[r] \in Terminal \cup {"none"}
      /\ UNCHANGED <<head, owner, cli, target, command, outcome, began, tested>>
  BY <1>1, RunTypes DEF NextRecipe, Conclude, OnlyWorker, HistoryKept, IInv, TypeOK, Terminal
<1>6. PICK c \in Terminal \cup {"none"} : c = summary'[r]
  BY <1>5
<1>7. CASE /\ GoOn(h, "close") /\ UNCHANGED stored
           /\ \/ n = Recipes /\ Conclude(h, "passed")
              \/ Conclude(h, "head_changed")
  <2>1. /\ worker' = [worker EXCEPT ![h] = "close"] /\ stored' = [stored EXCEPT ![r] = stored[r]]
        /\ c \in {"passed", "head_changed"} /\ (c = "passed" => n = Recipes)
    BY <1>1, <1>6, <1>7 DEF Conclude, GoOn, IInv, TypeOK
  <2>2. PICK s \in State : s = stored[r]
    BY <1>4
  <2>3. QED
    BY <1>1, <1>2, <1>3, <1>4, <1>5, <1>6, <2>1, <2>2, WorkerWrites DEF RunInv, Tested
<1>8. CASE /\ n < Recipes /\ GoOn(h, "spawn") /\ UNCHANGED summary
           /\ Write(h, [Run(h) EXCEPT !.status = "running", !.active = [by |-> h, known |-> FALSE]])
  <2>1. PICK s \in State :
          s = [stored[r] EXCEPT !.status = "running", !.active = [by |-> h, known |-> FALSE]]
    BY <1>4 DEF State
  <2>2. /\ s.status = "running" /\ s.worker = h /\ s.head = stored[r].head
        /\ s.checks = stored[r].checks
    BY <1>2, <1>4, <2>1 DEF State
  <2>3. /\ worker' = [worker EXCEPT ![h] = "spawn"] /\ stored' = [stored EXCEPT ![r] = s]
        /\ c = summary[r]
    BY <1>1, <1>6, <1>8, <2>1 DEF GoOn, Write, Run
  <2>4. /\ Len(s.checks) < Recipes /\ Len(s.checks) <= Recipes
        /\ \A i \in 1 .. Len(s.checks) : <<r, i, s.head>> \in tested
        /\ c = "passed" => \A i \in 1 .. Recipes : <<r, i, s.head>> \in tested
    BY <1>2, <1>3, <1>4, <1>8, <2>2, <2>3 DEF RunInv, Tested
  <2>5. summary' = [summary EXCEPT ![r] = c]
    BY <1>5, <1>6
  <2>6. QED
    BY <1>1, <1>2, <1>5, <2>2, <2>3, <2>4, <2>5, WorkerWrites
<1>9. QED
  BY <1>1, <1>3, <1>7, <1>8 DEF NextRecipe, Run

LEMMA InternalErrorKept ==
  ASSUME IInv, Counted, NEW h \in Launches, InternalError(h)
  PROVE  Safe(h)
<1>1. PICK r \in Runs : r = target[h]
  BY Basics DEF InternalError
<1>2. /\ Supervised(h) /\ ~ Live(h) /\ stored[r].status \notin {"none", "empty"}
      /\ stored[r].worker = h
  BY <1>1, Basics DEF InternalError, Supervised, WorkerStages, Running, Processes, Recorded, Run
<1>3. PICK s \in State : s = stored[r]
  BY RunTypes
<1>4. /\ worker' = [worker EXCEPT ![h] = "close"] /\ stored' = [stored EXCEPT ![r] = s]
      /\ summary' = [summary EXCEPT ![r] = "internal_error"]
      /\ UNCHANGED <<head, owner, cli, target, command, outcome, began, tested>>
  BY <1>1, <1>3 DEF InternalError, Conclude, GoOn, OnlyWorker, HistoryKept, IInv, TypeOK
<1>5. RunInv(r) /\ Len(stored[r].checks) <= Recipes
  BY RunTypes
<1>6. QED
  BY <1>1, <1>2, <1>3, <1>4, <1>5, WorkerWrites DEF RunInv, Tested, Terminal

LEMMA GatherKept ==
  ASSUME IInv, Counted, NEW h \in Launches, Gather(h)
  PROVE  Safe(h)
<1>1. PICK r \in Runs : r = target[h]
  BY Basics DEF Gather
<1>2. PICK n \in Nat : n = Len(stored[r].checks)
  BY RunTypes
<1>3. /\ Supervised(h) /\ ~ Live(h) /\ stored[r].status \notin {"none", "empty"}
      /\ stored[r].worker = h /\ outcome[h] # "none" /\ n < Recipes
      /\ \A i \in 1 .. n : Tested(r, i)
      /\ outcome[h] = "success" /\ head = stored[r].head => Tested(r, n + 1)
  BY <1>1, <1>2, Basics DEF Gather, Supervised, WorkerStages, Running, Processes, Recorded, Tests,
     Serving, Run
<1>4. PICK o \in Outcomes : o = outcome[h]
  BY <1>3 DEF IInv, TypeOK
<1>5. RunInv(r) /\ stored[r] \in State /\ stored[r].checks \in Seq(Outcomes) /\ Recipes \in Nat
  BY RunTypes
<1>6. /\ Append(stored[r].checks, o) \in Seq(Outcomes) /\ Len(Append(stored[r].checks, o)) = n + 1
      /\ \A i \in 1 .. n : Append(stored[r].checks, o)[i] = stored[r].checks[i]
      /\ Append(stored[r].checks, o)[n + 1] = o
  BY <1>2, <1>5
<1>7. PICK s \in State :
        s = [stored[r] EXCEPT !.checks = Append(stored[r].checks, o), !.active = NoCommand]
  BY <1>5, <1>6 DEF State, NoCommand
<1>8. /\ s.status = stored[r].status /\ s.worker = h /\ s.head = stored[r].head
      /\ s.checks = Append(stored[r].checks, o)
  BY <1>3, <1>5, <1>7 DEF State
<1>9. PICK c \in Terminal \cup {"none"} : c = summary[r]
  BY RunTypes
<1>10. /\ worker' = [worker EXCEPT ![h] = "after"] /\ stored' = [stored EXCEPT ![r] = s]
       /\ summary' = [summary EXCEPT ![r] = c]
       /\ UNCHANGED <<head, owner, cli, target, command, outcome, began, tested>>
  BY <1>1, <1>4, <1>7, <1>9 DEF Gather, Write, Run, GoOn, OnlyWorker, HistoryKept, IInv, TypeOK
<1>11. /\ Len(s.checks) = n + 1 /\ Len(s.checks) <= Recipes /\ Len(s.checks) > 0
       /\ \A i \in 1 .. Len(s.checks) - 1 : <<r, i, s.head>> \in tested
       /\ c = "passed" => \A i \in 1 .. Recipes : <<r, i, s.head>> \in tested
  BY <1>3, <1>5, <1>6, <1>8, <1>9 DEF RunInv, Tested
<1>12. head = s.head =>
         \A i \in 1 .. Len(s.checks) : s.checks[i] = "success" => <<r, i, s.head>> \in tested
  <2> SUFFICES ASSUME head = s.head, NEW i \in 1 .. n + 1, s.checks[i] = "success"
               PROVE  <<r, i, s.head>> \in tested
    BY <1>11
  <2>1. i \in 1 .. n \/ i = n + 1
    OBVIOUS
  <2>2. QED
    BY <2>1, <1>3, <1>4, <1>6, <1>8 DEF Tested
<1>13. QED
  BY <1>1, <1>3, <1>8, <1>10, <1>11, <1>12, WorkerWrites

LEMMA AfterKept ==
  ASSUME IInv, Counted, NEW h \in Launches, After(h)
  PROVE  Safe(h)
<1>1. PICK r \in Runs : r = target[h]
  BY Basics DEF After
<1>2. PICK n \in Nat : n = Len(stored[r].checks)
  BY RunTypes
<1>3. /\ Supervised(h) /\ ~ Live(h) /\ stored[r].status \notin {"none", "empty"}
      /\ stored[r].worker = h /\ n > 0 /\ \A i \in 1 .. n - 1 : Tested(r, i)
  BY <1>1, <1>2, Basics DEF After, Supervised, WorkerStages, Running, Processes, Recorded, Tests, Run
<1>4. PICK o \in Outcomes : o = stored[r].checks[n]
  BY <1>2, <1>3, RunTypes
<1>5. PICK s \in State : s = stored[r]
  BY RunTypes
<1>6. RunInv(r) /\ n <= Recipes
  BY <1>2, RunTypes
<1>7. /\ stored' = [stored EXCEPT ![r] = s]
      /\ UNCHANGED <<head, owner, cli, target, command, outcome, began, tested>>
  BY <1>5 DEF After, OnlyWorker, HistoryKept, IInv, TypeOK
<1>8. CASE \E c \in {o, "head_changed"} \ {"success"} : Conclude(h, c) /\ GoOn(h, "close")
  <2>1. PICK c \in {o, "head_changed"} \ {"success"} : Conclude(h, c) /\ GoOn(h, "close")
    BY <1>8
  <2>2. c \in Terminal \cup {"none"} /\ c # "none" /\ c # "passed"
    BY DEF Outcomes, Terminal
  <2>3. worker' = [worker EXCEPT ![h] = "close"] /\ summary' = [summary EXCEPT ![r] = c]
    BY <1>1, <2>1 DEF Conclude, GoOn
  <2>4. QED
    BY <1>1, <1>2, <1>3, <1>5, <1>6, <1>7, <2>2, <2>3, WorkerWrites DEF RunInv, Tested
<1>9. CASE /\ o = "success" /\ GoOn(h, "loop") /\ UNCHANGED summary
           /\ \E seen \in GitHead : seen = stored[r].head
  <2>1. PICK c \in Terminal \cup {"none"} : c = summary[r]
    BY RunTypes
  <2>2. worker' = [worker EXCEPT ![h] = "loop"] /\ summary' = [summary EXCEPT ![r] = c]
    BY <1>9, <2>1 DEF GoOn, IInv, TypeOK
  <2>3. head = stored[r].head
    BY <1>9, Seen
  <2>4. \A i \in 1 .. n : Tested(r, i)
    <3> SUFFICES ASSUME NEW i \in 1 .. n PROVE Tested(r, i)
      OBVIOUS
    <3>1. i \in 1 .. n - 1 \/ i = n
      OBVIOUS
    <3>2. QED
      BY <3>1, <1>2, <1>3, <1>4, <1>6, <1>9, <2>3 DEF RunInv
  <2>5. QED
    BY <1>1, <1>2, <1>3, <1>5, <1>6, <1>7, <2>1, <2>2, <2>4, WorkerWrites DEF RunInv, Tested
<1>10. QED
  BY <1>1, <1>2, <1>4, <1>8, <1>9 DEF After, Run

LEMMA CloseKept ==
  ASSUME IInv, Counted, NEW h \in Launches, Close(h)
  PROVE  Safe(h)
<1>1. PICK r \in Runs : r = target[h]
  BY Basics DEF Close
<1>2. /\ Supervised(h) /\ ~ Live(h) /\ summary[r] # "none"
  BY <1>1, Basics DEF Close, Supervised, WorkerStages, Running, Processes, Recorded
<1>3. PICK c \in Terminal \cup {"none"} : c = summary[r]
  BY RunTypes
<1>4. PICK s \in State : s = [stored[r] EXCEPT !.status = c, !.active = NoCommand]
  BY <1>3, RunTypes DEF State, NoCommand
<1>5. s.status = c /\ s.head = stored[r].head /\ s.checks = stored[r].checks
  BY <1>4, RunTypes DEF State
<1>6. c \notin {"none", "empty"}
  BY <1>2, <1>3 DEF Terminal
<1>7. /\ worker' = [worker EXCEPT ![h] = "gone"] /\ stored' = [stored EXCEPT ![r] = s]
      /\ summary' = [summary EXCEPT ![r] = c]
      /\ UNCHANGED <<head, owner, cli, target, command, outcome, began, tested>>
  BY <1>1, <1>3, <1>4 DEF Close, Write, Run, GoOn, OnlyWorker, HistoryKept, IInv, TypeOK
<1>8. RunInv(r) /\ Len(stored[r].checks) <= Recipes
  BY RunTypes
<1>9. QED
  BY <1>1, <1>2, <1>3, <1>5, <1>6, <1>7, <1>8, WorkerWrites DEF RunInv, Tested

LEMMA RegisterKept ==
  ASSUME IInv, Counted, NEW h \in Launches, Register(h)
  PROVE  Safe(h)
<1> USE DEF IInv
<1>1. PICK r \in Runs : r = target[h]
  BY Basics DEF Register
<1>2. /\ command[h] = "wrapper" /\ worker[h] # "none" /\ cli[h] = "done" /\ Live(h) /\ Holds(h)
      /\ Clear(h)
      /\ UNCHANGED <<head, owner, summary, cli, target, worker, began, tested>>
  BY Basics, Alone DEF Register, HistoryKept, Live, Holds, CommandStages
<1>3. PICK s \in State :
        /\ stored' = [stored EXCEPT ![r] = s]
        /\ s.status = stored[r].status /\ s.head = stored[r].head
        /\ s.checks = stored[r].checks /\ s.worker = stored[r].worker
        /\ command'[h] = "registered" => s.active = [by |-> h, known |-> TRUE]
  <2>1. CASE UNCHANGED stored /\ command' = [command EXCEPT ![h] = "ended"]
    BY <2>1, RunTypes DEF TypeOK
  <2>2. CASE Write(h, [Run(h) EXCEPT !.active.known = TRUE]) /\ Run(h).active = [by |-> h, known |-> FALSE]
    <3>1. PICK s \in State : s = [stored[r] EXCEPT !.active.known = TRUE]
      BY <2>2, RunTypes DEF State
    <3>2. /\ s.status = stored[r].status /\ s.head = stored[r].head
          /\ s.checks = stored[r].checks /\ s.worker = stored[r].worker
          /\ s.active = [stored[r].active EXCEPT !.known = TRUE]
          /\ s.active \in [by : Launches \cup {NoLaunch}, known : BOOLEAN]
      BY <3>1, RunTypes DEF State
    <3>3. Run(h) = stored[r] /\ stored[r].active = [by |-> h, known |-> FALSE]
      BY <1>1, <2>2 DEF Run
    <3>4. s.active.by = h /\ s.active.known = TRUE
      <4>1. stored[r].active \in [by : Launches \cup {NoLaunch}, known : BOOLEAN]
        BY RunTypes
      <4>2. s.active.by = stored[r].active.by /\ s.active.known = TRUE
        BY <3>2, <4>1
      <4>3. QED
        BY <3>3, <4>2
    <3>5. s.active = [by |-> h, known |-> TRUE]
      BY <3>2, <3>4
    <3>6. stored' = [stored EXCEPT ![r] = s]
      BY <1>1, <2>2, <3>1, <3>3 DEF Write
    <3>7. QED
      BY <3>2, <3>5, <3>6
  <2>3. QED
    BY <2>1, <2>2 DEF Register
<1>4. /\ command' \in [Launches -> CommandStages \cup {"none", "ended", "reused"}]
      /\ outcome' \in [Launches -> Outcomes \cup {"none"}]
      /\ \A l \in Launches : l # h => command'[l] = command[l] /\ outcome'[l] = outcome[l]
      /\ \/ command'[h] = "registered" /\ outcome'[h] = outcome[h]
         \/ command'[h] = "ended" /\ outcome'[h] = "failed"
  BY ZenonT(60) DEF Register, TypeOK, CommandStages, Outcomes
<1>5. /\ stored' \in [Runs -> State] /\ stored'[r] = s
      /\ \A q \in Runs : q # r => stored'[q] = stored[q]
      /\ \A q \in Runs : Len(stored'[q].checks) <= Recipes
  BY <1>3, Written, RunTypes
<1>6. Frame(h) /\ Files(h)
  BY <1>1, <1>2, <1>3, <1>4, <1>5 DEF Frame, Files
<1>7. Claims(h)
  BY <1>2 DEF Claims, Serving, Supervised, Live
<1>8. TypeOK'
  BY <1>2, <1>4, <1>5 DEF TypeOK, Counted
<1>9. Own(h)'
  <2>1. Processes(h)'
    BY <1>2, <1>4, Basics DEF Processes, Supervised, Live, Running, CommandStages
  <2>2. Recorded(h)'
    BY <1>1, <1>2, <1>3, <1>4, <1>5, Basics DEF Recorded, Run, Supervised, Live, CommandStages
  <2>3. Tests(h)'
    BY <1>1, <1>2, <1>3, <1>4, <1>5, Basics DEF Tests, Tested, Serving, Supervised, Live, CommandStages
  <2>4. QED
    BY <2>1, <2>2, <2>3 DEF Own
<1>10. RunInv(r)'
  BY <1>2, <1>3, <1>5, RunTypes DEF RunInv, Tested
<1>11. QED
  BY <1>1, <1>6, <1>7, <1>8, <1>9, <1>10, OtherRuns DEF Safe

LEMMA MakeEndsKept ==
  ASSUME IInv, Counted, NEW h \in Launches, MakeEnds(h)
  PROVE  Safe(h)
<1> USE DEF IInv
<1>1. PICK r \in Runs : r = target[h]
  BY Basics DEF MakeEnds
<1>2. /\ command[h] = "make" /\ worker[h] # "none" /\ cli[h] = "done" /\ Live(h)
      /\ UNCHANGED <<head, owner, stored, summary, cli, target, worker, began>>
      /\ command' = [command EXCEPT ![h] = "ended"]
      /\ outcome' = [outcome EXCEPT ![h] = outcome'[h]] /\ outcome'[h] \in {"success", "failed"}
  BY Basics DEF MakeEnds, FilesKept, files, Live, CommandStages, TypeOK
<1>3. PICK n \in Nat : n = Len(stored[r].checks)
  BY RunTypes
<1>4. n < Recipes /\ stored[r].head <= began[h] /\ began[h] <= head
  BY <1>1, <1>2, <1>3, Basics DEF Tests
<1>5. /\ tested' \subseteq Runs \X (1 .. Recipes) \X (0 .. MaxHead) /\ tested \subseteq tested'
      /\ outcome'[h] = "success" /\ began[h] = head => <<r, n + 1, head>> \in tested'
  BY <1>1, <1>3, <1>4, RunTypes, SMTT(30) DEF MakeEnds, Run, TypeOK
<1>6. Frame(h) /\ Files(h)
  BY <1>2, <1>5 DEF Frame, Files, TypeOK
<1>7. Claims(h)
  BY <1>2 DEF Claims, Serving, Supervised, Live, Holds, TypeOK
<1>8. TypeOK'
  BY <1>2, <1>5, ZenonT(60) DEF TypeOK, Counted, CommandStages, Outcomes
<1>9. Own(h)'
  <2>1. command'[h] = "ended" /\ ~ Live(h)'
    BY <1>2 DEF TypeOK, Live, CommandStages
  <2>2. Processes(h)'
    BY <1>2, <2>1, Basics DEF Processes, Live, Supervised
  <2>3. Recorded(h)'
    BY <1>2, <2>1, Basics DEF Recorded, Run, Live, Supervised
  <2>4. outcome'[h] = "success" /\ head = stored[r].head => <<r, n + 1, stored[r].head>> \in tested'
    BY <1>4, <1>5, RunTypes DEF TypeOK
  <2>5. Tests(h)'
    BY <1>1, <1>2, <1>3, <1>5, <2>1, <2>4, Basics DEF Tests, Tested, Live, Supervised, Serving
  <2>6. QED
    BY <2>2, <2>3, <2>5 DEF Own
<1>10. \A q \in Runs : RunInv(q)'
  BY <1>2, <1>5, RunsKept
<1>11. QED
  BY <1>6, <1>7, <1>8, <1>9, <1>10 DEF Safe

LEMMA CommitKept ==
  ASSUME IInv, Commit, UNCHANGED faults
  PROVE  IInv'
<1> USE DEF IInv
<1>1. /\ head' = head + 1 /\ head \in 0 .. MaxHead /\ head' \in 0 .. MaxHead
      /\ UNCHANGED <<owner, stored, summary, cli, target, worker, command, outcome, began, tested>>
  BY ConstantsAssumption DEF Commit, files, procs, TypeOK
<1>2. TypeOK' /\ Mutex' /\ Exclusive'
  BY <1>1 DEF TypeOK, Mutex, Exclusive, Holds, Serving, Supervised, Live
<1>3. ASSUME NEW r \in Runs PROVE RunInv(r)'
  <2>1. stored[r].head <= head /\ stored[r].head \in Nat
    BY RunTypes DEF RunInv
  <2>2. stored[r].head <= head' /\ head' # stored[r].head
    BY <1>1, <2>1
  <2>3. QED
    BY <1>1, <2>2 DEF RunInv, Tested
<1>4. ASSUME NEW l \in Launches PROVE Processes(l)' /\ Recorded(l)' /\ Tests(l)'
  <2>1. Processes(l)' /\ Recorded(l)'
    BY <1>1 DEF Processes, Recorded, Supervised, Live, Run
  <2>2. began[l] <= head => began[l] <= head'
    BY <1>1 DEF TypeOK
  <2>3. target[l] \in Runs => head' # stored[target[l]].head
    BY <1>1, RunTypes DEF RunInv
  <2>4. worker[l] \in Running => target[l] \in Runs
    BY Basics DEF Running
  <2>5. Tests(l)'
    BY <1>1, <2>2, <2>3, <2>4 DEF Tests, Tested, Supervised, Serving, Live
  <2>6. QED
    BY <2>1, <2>5
<1>5. QED
  BY <1>2, <1>3, <1>4

-----------------------------------------------------------------------------
(* Theorems                                                                *)

LEMMA Initially == Init => IInv
<1> SUFFICES ASSUME Init PROVE IInv
  OBVIOUS
<1> USE ConstantsAssumption DEF Init
<1>1. NoState \in State /\ Len(NoState.checks) = 0 /\ NoState.head = 0 /\ NoState.status = "none"
  <2>1. << >> \in Seq(Outcomes) /\ Len(<< >>) = 0
    OBVIOUS
  <2>2. QED
    BY <2>1 DEF NoState, State, NoCommand
<1>2. TypeOK
  BY <1>1 DEF TypeOK
<1>3. \A l \in Launches : ~ Holds(l) /\ ~ Live(l) /\ ~ Supervised(l) /\ ~ Serving(l)
  BY DEF Holds, Live, Supervised, Serving, WorkerStages, CommandStages
<1>4. Mutex /\ Exclusive
  BY <1>3 DEF Mutex, Exclusive
<1>5. \A l \in Launches : Processes(l) /\ Recorded(l) /\ Tests(l)
  BY <1>3 DEF Processes, Recorded, Tests, Running, Run
<1>6. \A r \in Runs : RunInv(r)
  BY <1>1 DEF RunInv
<1>7. QED
  BY <1>2, <1>4, <1>5, <1>6 DEF IInv

LEMMA StepKept ==
  ASSUME IInv, Next
  PROVE  IInv'
<1>1. CASE Commit /\ UNCHANGED faults
  BY <1>1, CommitKept
<1>2. CASE ~ (Commit /\ UNCHANGED faults)
  <2>1. Counted
    BY ConstantsAssumption DEF Next, Counted, Fault, IInv, TypeOK
  <2>2. PICK h \in Launches : Safe(h)
    BY <1>2, <2>1, CliStep, PrepareKept, WriteInitialKept, ResumeKept, WorkerStepKept,
       CommandStepKept, BootKept, NextRecipeKept, InternalErrorKept, GatherKept, AfterKept, CloseKept,
       RegisterKept, MakeEndsKept DEF Next, WorkerStep, CommandStep
  <2>3. QED
    BY <2>2, Preserved DEF Safe
<1>3. QED
  BY <1>1, <1>2

LEMMA Inductive == IInv /\ [Next]_vars => IInv'
<1>1. ASSUME IInv, UNCHANGED vars PROVE IInv'
  BY <1>1 DEF IInv, TypeOK, Mutex, Exclusive, Processes, Recorded, Tests, RunInv, Tested, Run, Holds,
     Serving, Supervised, Live, vars, files, procs
<1>2. QED
  BY <1>1, StepKept

LEMMA Invariance == Spec => []IInv
  BY Initially, Inductive, PTL DEF Spec

(***************************************************************************)
(* No two workers serve the repository and no two commands of one run are  *)
(* alive, however launches race and whatever is killed under them          *)
(* (start_run, resume_run).                                                *)
(***************************************************************************)
THEOREM ThereIsOneVerifier == Spec => []OneVerifier
<1>1. IInv => OneVerifier
  <2> SUFFICES ASSUME IInv, NEW l \in Launches, NEW k \in Launches, l # k
               PROVE  /\ ~ (Supervised(l) /\ Supervised(k))
                      /\ ~ (Live(l) /\ Live(k) /\ target[l] = target[k])
    BY DEF OneVerifier, IInv
  <2>1. ~ (Supervised(l) /\ Supervised(k))
    BY DEF IInv, Mutex, Holds
  <2>2. ~ (Live(l) /\ Live(k) /\ target[l] = target[k])
    <3>1. Live(l) => stored[target[l]].worker = l
      BY Basics DEF Recorded, Run
    <3>2. Live(k) => stored[target[k]].worker = k
      BY Basics DEF Recorded, Run
    <3>3. QED
      BY <3>1, <3>2
  <2>3. QED
    BY <2>1, <2>2
<1>2. QED
  BY <1>1, Invariance, PTL

(***************************************************************************)
(* The status of a run tells of its Make process that has let go of the    *)
(* lock until that ends, whichever processes around it were killed, unless *)
(* a verdict hides it (see Reuse; _command_entry, status_run).             *)
(***************************************************************************)
THEOREM NoOrphanIsHidden == Spec => []OrphansAreVisible
<1>1. IInv => OrphansAreVisible
  BY Visible DEF OrphansAreVisible
<1>2. QED
  BY <1>1, Invariance, PTL

\* A launch that has the lock gets on to its run's new state by these steps only.
LEMMA NewState ==
  ASSUME TypeOK, Next, NEW l \in Launches, cli[l] \in {"locked", "relocked"},
         cli'[l] \in {"made", "written"}
  PROVE  Prepare(l) \/ Resume(l)
<1>1. cli \in [Launches -> {"idle", "looked", "locked", "relocked", "made", "written",
                            "owned", "done"}]
  BY DEF TypeOK
<1>2. ASSUME NEW h \in Launches, NEW r \in Runs, Start(h, r) \/ Look(h, r) PROVE FALSE
  BY <1>1, <1>2 DEF Start, Look, Cli
<1>3. ASSUME NEW h \in Launches,
             WriteInitial(h) \/ WriteOwner(h) \/ LaunchWorker(h) \/ Relock(h) \/ KillCli(h)
      PROVE  FALSE
  BY <1>1, <1>3 DEF WriteInitial, WriteOwner, LaunchWorker, Relock, KillCli, Cli
<1>4. ASSUME NEW h \in Launches, Prepare(h) \/ Resume(h) PROVE h = l
  BY <1>1, <1>4 DEF Prepare, Resume, Cli
<1>5. ASSUME NEW h \in Launches, WorkerStep(h) PROVE FALSE
  <2>1. UNCHANGED cli
    BY <1>5 DEF WorkerStep, OnlyWorker, Boot, NextRecipe, Spawn, Await, GiveUp, InternalError,
       TimeOut, Gather, After, Close
  <2>2. QED
    BY <2>1
<1>6. ASSUME NEW h \in Launches, CommandStep(h) PROVE FALSE
  <2>1. UNCHANGED cli
    BY <1>6 DEF CommandStep, Register, BecomeMake, MakeEnds
  <2>2. QED
    BY <2>1
<1>7. ASSUME NEW h \in Launches, KillWorker(h) \/ KillWrapper(h) \/ Breaks(h) \/ Reuse(h)
      PROVE  FALSE
  <2>1. UNCHANGED cli
    BY <1>7 DEF KillWorker, KillWrapper, Breaks, Reuse, OnlyWorker
  <2>2. QED
    BY <2>1
<1>8. ~ Commit
  BY DEF Commit, procs
<1>9. QED
  BY <1>2, <1>3, <1>4, <1>5, <1>6, <1>7, <1>8 DEF Next

(***************************************************************************)
(* So a resume of this run that has the lock does not go on beside it, and *)
(* a start that finds this run in the lock file makes no other.  A resume  *)
(* of another run does not look at it, nor does a start once that has put  *)
(* its run in the lock file (resume_run, start_run).                       *)
(***************************************************************************)
THEOREM OrphansStandInTheWay == Spec => OrphansBlock
<1> DEFINE Blocks(l, k) ==
      command[k] = "make" =>
        /\ cli[l] = "relocked" /\ target[l] = target[k] => cli'[l] # "written"
        /\ cli[l] = "locked" /\ owner = target[k] => cli'[l] # "made"
<1>1. ASSUME IInv, Next, NEW l \in Launches, NEW k \in Launches, command[k] = "make"
      PROVE  Blocks(l, k)
  <2>1. /\ target[k] \in Runs
        /\ Status(target[k]) \in {"running", "orphaned_command", "invalid"}
        /\ stored[target[k]].status # "none"
    BY <1>1, Basics, Visible DEF Recorded, Run
  <2>2. cli[l] = "relocked" /\ target[l] = target[k] => cli'[l] # "written"
    <3>1. SUFFICES ASSUME cli[l] = "relocked", cli'[l] = "written" PROVE Resume(l)
      BY <1>1, <2>1 DEF Resume, Cli, IInv, TypeOK
    <3>2. QED
      BY <1>1, <3>1, NewState DEF IInv, Prepare
  <2>3. cli[l] = "locked" /\ owner = target[k] => cli'[l] # "made"
    <3>1. SUFFICES ASSUME cli[l] = "locked", cli'[l] = "made" PROVE Prepare(l)
      <4>1. owner = target[k] => owner # NoRun
        BY <2>1, ConstantsAssumption
      <4>2. QED
        BY <1>1, <2>1, <4>1 DEF Prepare, Cli, IInv, TypeOK
    <3>2. QED
      BY <1>1, <3>1, NewState DEF IInv, Resume
  <2>4. QED
    BY <2>2, <2>3
<1>2. IInv /\ [Next]_vars => [\A l, k \in Launches : Blocks(l, k)]_vars
  BY <1>1
<1>3. QED
  BY <1>2, Invariance, PTL DEF Spec, OrphansBlock

(***************************************************************************)
(* A run that passed has run each recipe to success on its commit, in      *)
(* however many launches (_run_checks, _resume_reasons).                   *)
(***************************************************************************)
THEOREM PassedIsTested == Spec => []PassedMeansTested
<1>1. IInv => PassedMeansTested
  BY DEF PassedMeansTested, IInv, RunInv, Tested
<1>2. QED
  BY <1>1, Invariance, PTL
=============================================================================
