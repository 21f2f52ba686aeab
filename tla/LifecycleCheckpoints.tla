------------------------ MODULE LifecycleCheckpoints ------------------------
(***************************************************************************)
(* The journal of an assignment (tools/agent/lifecycle_checkpoints.py), in *)
(* its two forms: phases of one task, with corrections, and events of a    *)
(* batch, from the preflight through its tasks in order to the merge.      *)
(*                                                                         *)
(* A command looks at Git and at the journal, decides, and replaces the    *)
(* journal; there is no lock, and the repository moves meanwhile: commits, *)
(* resets, checkouts and merges.  Commits are numbered; the first is the   *)
(* start of main that the manifest names.                                  *)
(*                                                                         *)
(* A dirty worktree refuses a command of a batch and changes nothing: it   *)
(* is left out, and so are paths, times and the text of the manifest.       *)
(***************************************************************************)
EXTENDS Naturals, FiniteSets, Sequences, SequencesExt, TLC

CONSTANTS
  Phases,     \* the phases of a task, in order
  Manifests,  \* what the manifest of the batch may say
  Modes,      \* forms of the journal to start with
  Nil,
  MaxCommit,  \* mode -> bound on commits
  MaxEvents   \* mode -> bound on the length of a journal

ASSUME ConstantsAssumption ==
  /\ {"implementation_ready", "pr_open", "merged"} \subseteq ToSet(Phases)
  /\ Phases \in Seq(STRING) /\ Nil \notin Nat
  /\ \A m \in Manifests : m.ordered \in Seq(ToSet(m.ordered))
  /\ Modes \subseteq {"task", "batch"}
  /\ \A m \in Modes : MaxCommit[m] \in Nat /\ MaxEvents[m] \in Nat

VARIABLES
  mode,
  manifest, \* of the batch, which stays as it is at the control commit
  commits,  \* sequence of [anc: its ancestors and itself, material]
  tip,      \* branch -> commit
  branch,   \* what is checked out
  file,     \* the journal, or Nil
  cmd       \* what a command is about to write, or Nil

git == <<commits, tip, branch>>
vars == <<mode, manifest, git, file, cmd>>

Start == 1
Branches == {"main", "implementation"}
HEAD == tip[branch]
Commits == 1 .. Len(commits)
Ancestor(a, c) == a # Nil /\ a \in commits[c].anc

-----------------------------------------------------------------------------
(* The repository *)

GitOnly == UNCHANGED <<mode, manifest, file, cmd>>

\* A commit above the start may hold the material of the batch, or not.
NewCommit(anc) ==
  LET new == Len(commits) + 1 IN
  /\ new <= MaxCommit[mode]
  /\ \E m \in IF anc = {Start} THEN BOOLEAN ELSE {FALSE} :
       commits' = Append(commits, [anc |-> anc \cup {new}, material |-> m])
  /\ tip' = [tip EXCEPT ![branch] = new]
  /\ UNCHANGED branch /\ GitOnly

Commit == NewCommit(commits[HEAD].anc)

Merge ==
  /\ branch = "main" /\ ~ Ancestor(tip["implementation"], HEAD)
  /\ NewCommit(commits[HEAD].anc \cup commits[tip["implementation"]].anc)

Reset ==
  /\ \E c \in commits[HEAD].anc \ {HEAD} : tip' = [tip EXCEPT ![branch] = c]
  /\ UNCHANGED <<commits, branch>> /\ GitOnly

Checkout ==
  /\ branch' \in Branches \ {branch}
  /\ UNCHANGED <<commits, tip>> /\ GitOnly

-----------------------------------------------------------------------------
(* One task *)

Rank(phase) == CHOOSE k \in DOMAIN Phases : Phases[k] = phase
Higher(p, q) == IF Rank(p) > Rank(q) THEN p ELSE q

\* Fault: what was merged may be corrected.
MayAdvanceFromMerged(old, phase, step) ==
  /\ step <= 1 /\ old.at = branch
  /\ Rank(phase) < Rank(old.phase) => step = 1
  /\ (HEAD # old.head /\ step = 0 /\ Rank(phase) <= Rank(old.phase)) =>
       old.phase = "implementation_ready" /\ phase = "implementation_ready"

\* A phase back, or a new HEAD in the same phase, takes a new correction.
MayAdvance(old, phase, step) ==
  /\ step <= 1 /\ old.at = branch
  /\ old.phase = "merged" => phase = "merged"
  /\ Rank(phase) < Rank(old.phase) => step = 1
  /\ (HEAD # old.head /\ step = 0 /\ Rank(phase) <= Rank(old.phase)) =>
       old.phase = "implementation_ready" /\ phase = "implementation_ready"

PrFacts(phase, pr, prHead, merge) ==
  /\ Rank(phase) >= Rank("pr_open") => pr /\ prHead = HEAD
  /\ (phase = "merged") <=> (merge # Nil)

\* write_checkpoint on what it has read.
TaskStep(old, phase, step, newPr, newPrHead, merge) ==
  LET first == old = Nil
      iteration == IF first THEN step ELSE old.iteration + step
      pr == newPr \/ (~first /\ old.pr)
      prHead == IF newPrHead # Nil \/ first THEN newPrHead ELSE old.prHead
      event == [phase |-> phase, iteration |-> iteration, head |-> HEAD]
      turn == [from |-> IF first THEN Nil ELSE old.phase, phase |-> phase, head |-> HEAD]
  IN IF (IF first THEN iteration = 0 ELSE MayAdvance(old, phase, step))
        /\ PrFacts(phase, pr, prHead, merge)
     THEN {[phase |-> phase, iteration |-> iteration, head |-> HEAD, at |-> branch,
            pr |-> pr, prHead |-> prHead, merge |-> merge,
            highest |-> IF first THEN phase ELSE Higher(phase, old.highest),
            history |-> IF first THEN <<event>> ELSE Append(old.history, event),
            corrections |-> IF first THEN << >>
                            ELSE IF step = 1 THEN Append(old.corrections, turn)
                            ELSE old.corrections]}
     ELSE {}

TaskWrites(old) ==
  UNION {TaskStep(old, phase, step, newPr, newPrHead, merge) :
           phase \in ToSet(Phases), step \in 0 .. 2, newPr \in BOOLEAN,
           newPrHead \in {Nil, HEAD}, merge \in {Nil, HEAD}}

\* _validate_checkpoint, when the journal is read.
LoadableTask(f) ==
  LET h == f.history
      turns == {k \in 2 .. Len(h) : h[k].iteration = h[k - 1].iteration + 1}
  IN
  /\ h # << >> /\ h[1].iteration = 0
  /\ \A k \in 2 .. Len(h) :
       /\ h[k].iteration # h[k - 1].iteration => k \in turns
       /\ h[k - 1].phase = "merged" => h[k].phase = "merged"
       /\ Rank(h[k].phase) < Rank(h[k - 1].phase) => k \in turns
  /\ \E k \in DOMAIN h : h[k].phase = f.highest
  /\ \A k \in DOMAIN h : Rank(h[k].phase) <= Rank(f.highest)
  /\ Last(h) = [phase |-> f.phase, iteration |-> f.iteration, head |-> f.head]
  /\ Rank(f.phase) >= Rank("pr_open") => f.pr /\ f.prHead = f.head
  /\ (f.phase = "merged") <=> (f.merge # Nil)
  /\ Len(f.corrections) = f.iteration /\ Cardinality(turns) = f.iteration
  /\ \A k \in turns : f.corrections[h[k].iteration] =
       [from |-> h[k - 1].phase, phase |-> h[k].phase, head |-> h[k].head]

-----------------------------------------------------------------------------
(* A batch *)

Events == <<"preflight", "seed", "task", "review", "final_local", "pr", "ci", "merge">>
EventRank(event) == CHOOSE k \in DOMAIN Events : Events[k] = event

\* A manifest numbers its tasks and lists a specification and a destination for
\* each; a manifest of the older form has tasks with branches of their own.
Order == [k \in DOMAIN manifest.ordered |-> manifest.ordered[k].id]

\* _parse_integrated_manifest
Parsed(m) ==
  /\ m.format = "integrated" /\ m.ordered # << >>
  /\ \A k \in DOMAIN m.ordered : m.ordered[k].position = k
  /\ IsInjective(Order) /\ Order = m.specs /\ Order = m.destinations

\* The first event: main is where the manifest starts.
Preflight ==
  IF HEAD = Start
  THEN {[head |-> HEAD, at |-> branch, highest |-> "preflight", seed |-> Nil, tasks |-> << >>,
         review |-> Nil, final |-> Nil, prHead |-> Nil, ci |-> Nil, merge |-> Nil,
         history |-> <<[event |-> "preflight", head |-> HEAD, task |-> Nil, count |-> 0]>>]}
  ELSE {}

\* verify_batch_seed: an ordinary commit on the start with the whole material,
\* which is HEAD, or below it when another than HEAD was asked for.
SeedVerified(seed, later) ==
  /\ branch = "implementation"
  /\ commits[seed].anc = {Start, seed} /\ seed # Start /\ commits[seed].material
  /\ IF later THEN Ancestor(seed, HEAD) ELSE seed = HEAD

Seeded(old) ==
  {[old EXCEPT !.seed = s] :
     s \in {s \in Commits : old.seed = Nil /\ SeedVerified(s, s # HEAD)}}

\* The next task of the order, at its first count.
TaskDone(old, task) ==
  IF old.seed # Nil /\ Ancestor(old.seed, HEAD)
     /\ Len(old.tasks) < Len(Order) /\ task = Order[Len(old.tasks) + 1]
  THEN {[old EXCEPT !.tasks = Append(@, [id |-> task, head |-> HEAD, count |-> 0])]}
  ELSE {}

MayCorrect(old, task, count) ==
  /\ old.seed # Nil /\ Ancestor(old.seed, HEAD)
  /\ old.tasks # << >> /\ task = Last(old.tasks).id
  /\ count = Last(old.tasks).count + 1 /\ HEAD # Last(old.tasks).head

\* Fault: what was proved before the correction stays.
CorrectedOnly(old, task, count) ==
  IF MayCorrect(old, task, count)
  THEN {[old EXCEPT !.tasks[Len(old.tasks)] = [id |-> task, head |-> HEAD, count |-> count]]}
  ELSE {}

\* Another HEAD for the last task: what was proved before is void.
Corrected(old, task, count) ==
  IF MayCorrect(old, task, count)
  THEN {[old EXCEPT !.tasks[Len(old.tasks)] = [id |-> task, head |-> HEAD, count |-> count],
                    !.review = Nil, !.final = Nil, !.prHead = Nil, !.ci = Nil, !.merge = Nil]}
  ELSE {}

Reviewed(old) ==
  IF Len(old.tasks) = Len(Order) /\ old.review = Nil
  THEN {[old EXCEPT !.review = HEAD]} ELSE {}

FinalLocal(old) ==
  IF old.review # Nil /\ old.final = Nil THEN {[old EXCEPT !.final = HEAD]} ELSE {}

PrOpened(old) ==
  IF old.final = HEAD /\ old.prHead = Nil
  THEN {[old EXCEPT !.prHead = HEAD, !.ci = Nil, !.merge = Nil]} ELSE {}

CiGreen(old) ==
  IF old.ci = Nil /\ old.prHead = HEAD THEN {[old EXCEPT !.ci = HEAD]} ELSE {}

\* With neither a PR nor CI the two are equal, and asking Git for the ancestors
\* of nothing raises TypeError: nothing is written.
Merged(old) ==
  IF old.ci = old.prHead /\ Ancestor(old.ci, HEAD)
  THEN {[old EXCEPT !.merge = HEAD]} ELSE {}

\* write_batch_checkpoint on what it has read: the facts of the event, its
\* place in the history, the highest event.
Logged(old, event, task, count, facts) ==
  {[f EXCEPT !.head = HEAD,
             !.highest = IF EventRank(event) > EventRank(@) THEN event ELSE @,
             !.history = Append(@, [event |-> event, head |-> HEAD, task |-> task, count |-> count])] :
     f \in IF old.merge = Nil /\ (event = "merge" \/ branch = "implementation") THEN facts ELSE {}}

BatchWrites(old) ==
  IF ~Parsed(manifest) THEN {}
  ELSE IF old = Nil THEN Preflight
  ELSE Logged(old, "seed", Nil, 0, Seeded(old))
       \cup (UNION {Logged(old, "task", t, 0, TaskDone(old, t)) : t \in ToSet(Order)})
       \cup (UNION {Logged(old, "task", t, n, Corrected(old, t, n)) :
                      t \in ToSet(Order), n \in 0 .. MaxEvents[mode]})
       \cup Logged(old, "review", Nil, 0, Reviewed(old))
       \cup Logged(old, "final_local", Nil, 0, FinalLocal(old))
       \cup Logged(old, "pr", Nil, 0, PrOpened(old))
       \cup Logged(old, "ci", Nil, 0, CiGreen(old))
       \cup Logged(old, "merge", Nil, 0, Merged(old))

\* The tasks as the history tells them, from those told so far: the next of the
\* order, or the last again; none when it reorders them.
Replay(tasks, e) ==
  LET fact == [id |-> e.task, head |-> e.head, count |-> e.count] IN
  IF e.event # "task" THEN {tasks}
  ELSE IF Len(tasks) < Len(Order) /\ e.task = Order[Len(tasks) + 1] /\ e.count = 0
  THEN {Append(tasks, fact)}
  ELSE IF tasks # << >> /\ e.task = Last(tasks).id /\ e.count = Last(tasks).count + 1
  THEN {[tasks EXCEPT ![Len(tasks)] = fact]}
  ELSE {}

Told(h) ==
  LET told[k \in 0 .. Len(h)] ==
        IF k = 0 THEN {<< >>} ELSE UNION {Replay(tasks, h[k]) : tasks \in told[k - 1]}
  IN told[Len(h)]

\* _validate_batch_checkpoint, before the journal is written and when it is read.
LoadableBatch(f) ==
  LET h == f.history
      OnSeed(c) == f.seed # Nil /\ Ancestor(f.seed, c)
  IN
  /\ f.seed # Nil => commits[f.seed].anc = {Start, f.seed}
  /\ Order # << >> /\ IsInjective(Order)
  /\ IsPrefix([k \in DOMAIN f.tasks |-> f.tasks[k].id], Order)
  /\ \A k \in DOMAIN f.tasks : OnSeed(f.tasks[k].head)
  /\ h # << >> /\ h[1].event = "preflight"
  /\ \A k \in 1 .. Len(h) - 1 : h[k].event # "merge"
  /\ \E k \in DOMAIN h : h[k].event = f.highest
  /\ \A k \in DOMAIN h : EventRank(h[k].event) <= EventRank(f.highest)
  /\ Told(h) = {f.tasks}
  /\ \A c \in {f.review, f.final} \ {Nil} : OnSeed(c)
  /\ f.review # Nil => Len(f.tasks) = Len(Order)
  /\ f.final # Nil => f.review # Nil
  /\ f.prHead # Nil => f.prHead = f.final
  /\ f.ci # Nil => f.ci = f.prHead
  /\ f.merge # Nil => f.ci # Nil /\ Ancestor(f.ci, f.merge)

-----------------------------------------------------------------------------
Loadable(f) == IF mode = "task" THEN LoadableTask(f) ELSE LoadableBatch(f)
Length == IF file = Nil THEN 0 ELSE Len(file.history)

Writes == IF mode = "task" THEN TaskWrites(file) ELSE BatchWrites(file)

\* A journal that cannot be read ends the command.
MayWrite == Length < MaxEvents[mode] /\ (file # Nil => Loadable(file))

\* _atomic_json; for a batch after the validation.
Written(f) == IF mode = "batch" /\ ~ LoadableBatch(f) THEN file ELSE f

Look ==
  /\ cmd = Nil /\ MayWrite
  /\ cmd' \in Writes
  /\ UNCHANGED <<mode, manifest, git, file>>

Replace ==
  /\ cmd # Nil
  /\ file' = Written(cmd) /\ cmd' = Nil
  /\ UNCHANGED <<mode, manifest, git>>

\* The command dies, or the disk is full: the temporary file is no journal.
Fail ==
  /\ cmd # Nil
  /\ cmd' = Nil
  /\ UNCHANGED <<mode, manifest, git, file>>

\* A second command, beside the first.  That it looks and writes at once loses
\* nothing: when two overlap, one of them writes over the other.
Overtake ==
  /\ cmd # Nil /\ MayWrite
  /\ \E f \in Writes : file' = Written(f)
  /\ UNCHANGED <<mode, manifest, git, cmd>>

\* What is reported of the journal.
Reported(head, at) ==
  IF HEAD = head /\ branch = at THEN "current" ELSE "stale"

TaskStatus ==
  IF file = Nil THEN "missing" ELSE IF LoadableTask(file) THEN Reported(file.head, file.at) ELSE "invalid"

\* After the merge, main and the merge; before the seed, where the preflight was.
BatchStatus ==
  IF ~Parsed(manifest) THEN "invalid"
  ELSE IF file = Nil THEN "missing"
  ELSE IF ~LoadableBatch(file) THEN "invalid"
  ELSE IF file.merge # Nil THEN Reported(file.merge, "main")
  ELSE Reported(file.head, IF file.seed # Nil THEN "implementation" ELSE file.at)

Init ==
  /\ mode \in Modes
  /\ manifest \in IF mode = "batch" THEN Manifests ELSE {Nil}
  /\ commits = <<[anc |-> {Start}, material |-> FALSE]>>
  /\ tip = [b \in Branches |-> Start]
  /\ branch \in Branches
  /\ file = Nil /\ cmd = Nil

Next ==
  \/ Commit \/ Merge \/ Reset \/ Checkout
  \/ Look \/ Replace \/ Fail \/ Overtake

Spec == Init /\ [][Next]_vars

-----------------------------------------------------------------------------
(* Properties *)

OffSeed(f) ==
  mode = "batch" /\ Last(f.history).event \in {"review", "final_local"} /\ ~ Ancestor(f.seed, f.head)

\* The rules for writing are as strict as the rules for reading, which are
\* written down twice: no command leaves a journal that the next one refuses,
\* and none that its own rules admit is refused before it is written, unless
\* the branch was reset below the seed.  A journal exists only for a manifest
\* whose tasks can be told apart.
AlwaysReadable ==
  /\ IF mode = "task" THEN TaskStatus # "invalid" ELSE file # Nil => BatchStatus # "invalid"
  /\ cmd # Nil => Loadable(cmd) \/ OffSeed(cmd)

\* Since the last task or correction.
Since(h, event, c) ==
  \E k \in DOMAIN h :
    /\ h[k].event = event /\ h[k].head = c
    /\ \A j \in k + 1 .. Len(h) : h[j].event # "task"

\* Whatever was corrected, reset or written by two commands at once: what the
\* journal of a batch says of review, local verification, PR and CI was
\* recorded after the last task or correction, and PR and CI are of one commit,
\* which stands on the seed and is in the merge.
EvidenceIsFresh ==
  (mode = "batch" /\ file # Nil) =>
    LET h == file.history IN
    /\ file.review # Nil => Since(h, "review", file.review)
    /\ file.final # Nil => Since(h, "final_local", file.final)
    /\ file.prHead # Nil => Since(h, "pr", file.prHead)
    /\ file.ci # Nil => Since(h, "ci", file.prHead)
    /\ file.merge # Nil =>
         /\ [k \in DOMAIN file.tasks |-> file.tasks[k].id] = Order
         /\ {file.seed, file.ci} \subseteq commits[file.merge].anc
         /\ \A f \in {file.final, file.prHead, file.ci} : f = file.ci /\ Ancestor(file.seed, f)
=============================================================================
