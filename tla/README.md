# A verification project for ah-there-it-is

`ah-there-it-is` is a single-user home inventory: a FastAPI web application and
a Telegram bot in front of an LLM agent whose tools change an SQLite database.
Nothing in it is large, but much of it is about what must not happen: a message
retried after a lost reply must not be executed twice, a failed turn must leave
nothing behind, "undo" must not destroy what somebody did in the meantime, a
lost lot or an invented piece is a lie in an inventory.  This directory holds
TLA+ models of those parts, the TLC configurations that check them on small
instances, and TLAPS proofs for every instance.  `PROJECT.json` lists
components, runs, mutants, the source lines of every definition, hazards and
theorems.

Paths below are relative to `src/src/ah_there_it_is/` unless they start with
`src/`.

## 1. Inventory of the system

| Component | State it keeps | Operations | Talks to |
|---|---|---|---|
| Idempotency gate `services/chat_requests.py` | `chat_requests` rows: key, message, conversation, status, source, run | `execute`, `recover`, `_reserve`, `_stage_completed`, `_reconcile_commit`, `_mark_failed` | agent runner (callback), SQLite |
| Chat application `services/chat_application.py`, endpoints in `web/routes.py` | none | `execute_chat`, `recover_chat` | gate, runner |
| Agent turn `agent/runner.py`, `agent/tools.py`, `agent/write_resolution.py` | messages, trace, receipts, evidence of the turn; `agent_run_logs` | rounds of LLM calls and tool calls, one commit | LLM provider, inventory, undo |
| Inventory `services/inventory.py`, `domain/` | `items`, `locations`, `categories`, `item_media`, `events` | create, update, quantity, move, take, lose, remove, restore, photos, trees | SQLite |
| Undo `services/undo.py` | none of its own; reads `agent_run_logs.mutation_receipts` | `undo` | inventory rows, events |
| Catalog, suggestions `services/catalog.py`, `services/location_suggestions.py` | none | reads of trees and of the event history | inventory |
| Telegram `telegram/adapter.py`, `telegram/polling.py` | `telegram_polling_state`, `telegram_chat_bindings`, `telegram_failure_notices` | poll, process, answer, notify, checkpoint, `telegram-recover` | Bot API, gate |
| Telegram process `telegram/runtime.py`, `telegram/singleton.py`, `runtime_cli.py`, systemd unit | lock file, back-off | loop, stop, exit status 2, restart | adapter, operator |
| Telegram transport and progress `telegram/client.py`, `telegram/progress.py` | one worker thread | sends, drafts | Bot API |
| Storage `storage.py` | database file, WAL, backups, staged files | backup, restore with safety backup and rollback | file system, SQLite |
| Portable export and import `storage.py`, `portable_stream.py` | a temporary document or database | export under a snapshot, validate, build, publish by link | file system, SQLite |
| Bootstrap, doctor `bootstrap.py`, `database_doctor.py` | inventory tables, search index | seed an empty database from a manifest; diagnosis, rebuild of the index | SQLite |
| Search `services/search.py`, `db/search_schema.py` | FTS5 index kept by triggers | ranking | SQLite |
| Conversations, activity, evaluation `services/` | messages, feedback | appends, read projections | runner |
| LLM providers `agent/*.py` | credentials, process handles | one completion per call | network |
| Canonical verifier `src/tools/agent/canonical_verifier.py` | `run.json`, `summary.json`, lock file | start, status, resume, a detached worker, its Make commands | Git, Make |
| Lifecycle checkpoints `src/tools/agent/lifecycle_checkpoints.py` | a journal per assignment | events of a task or batch, status | Git |
| CI waiter `src/tools/agent/ci_waiter.py` | observations, summary | poll until the checks of a commit are decided | GitHub |
| Experiments, benchmarks `services/experiments.py`, `benchmark_campaign.py`, ... | result files, review rows | developer tooling | providers |
| Migrations `src/migrations/` | schema | run once by the operator | SQLite |

**How they interact.**  A message arrives over HTTP or as a Telegram update and
becomes a call of the gate under a request key.  The gate commits a reservation
row, then runs the turn in the same session with `commit=False`; the turn's
tools flush inventory changes under SQLite's write lock; the gate adds the
completion of the row and commits everything once.  Telegram's poller then
delivers the reply and moves its checkpoint in a transaction of its own.  Undo
is a tool of a later turn that reads the receipts stored with the run.  Web
pages change the inventory directly, one transaction per request.  All
processes share one SQLite file in WAL mode with `busy_timeout=5000`; Python's
legacy transaction mode opens a transaction at the first write, so a read
before it holds nothing.

**What is hard.**

* *Concurrency*: sessions race for the same key (the UNIQUE constraint
  decides), for the write lock (waits end in an exception), and read rows
  before they own it.
* *Failure*: a commit may raise after it became durable; a process may die
  between any two of reservation, turn, commit, reply and checkpoint; a
  `sendMessage` may fail after it was delivered.
* *Ordering*: updates are executed in order and an uncertain one stops the
  queue until the operator recovers it.
* *Sequences of legal calls*: splits, removals, restorations and compensations
  of the same lots within and across turns.
* *Files*: backup, restore and import publish files with renames and links and
  roll back on failure.
* *Slow calls*: a model, a server or a process answers late, in part or never,
  beside a worker thread that reports progress.
* *Tools of the developers*: detached processes that outlive who started them,
  journals that two commands rewrite, a repository and a GitHub that move
  between two questions.

**What makes each component correct.**

* *Gate*: a key is executed by at most one session, ever; its completion and
  its effect become durable together; an answer is the durable outcome.
* *Telegram*: at most one committed turn per update over all recoveries; the
  checkpoint follows the answer; "nothing was changed" is only said when it is
  true; the queue moves unless a request was interrupted.
* *Inventory*: a row never contradicts itself or its history; pieces are neither
  lost nor invented.
* *Undo*: it restores exactly, completely, or refuses; it never overwrites what
  came later.
* *Turn and tools*: no write without evidence found in the same turn and still
  unambiguous under the lock; a turn ends within its rounds.
* *Trees*: no cycles, no two siblings of one name; an edit keeps what others
  wrote to other columns.
* *Portable documents*: one is one state of the inventory; what is imported
  says the same, and can be exported again.
* *Providers*: an answer is a whole answer; no process is left behind.
* *Verifier*: one at a time; what has passed has been run.  *Checkpoints*: what
  they hold is of the commit they name.  *CI waiter*: a verdict was true.
* *Storage*: a restore that fails leaves the database as it was; a file is
  published whole or not at all; nothing is overwritten that was not ours.

The hazards, each at the line where it bites and with the properties that would
catch it, are in `PROJECT.json`.

## 2. Plan

| Order | Module | Models | State |
|---|---|---|---|
| 1 | `ExactlyOnceLedger` | abstract promise of the gate | done |
| 2 | `ChatRequests` | the gate and its sessions; refines 1 | done, proved |
| 3 | `TelegramPolling` | poller, delivery, checkpoint, recovery, process; uses 1's promise | done, proved |
| 4 | `InventoryTurns` | item operations, receipts, undo, races | done, proved |
| 5 | `StorageRestore` | backup, restore, rollback and publication steps with crashes | done, proved |
| 6 | `InventoryTree` | concurrent creation and edits of places, items and photos | done, proved |
| 7 | `AgentTurn` | rounds, evidence of a write and its revalidation, receipts, commit | done, proved |
| 8 | `PortableTransfer` | export, validation, import, bootstrap | done, proved |
| 9 | `RemoteCalls`, `SlowTurn` | model and Telegram calls; the progress worker beside a slow turn, extends the first | done, proved |
| 10 | `CanonicalVerifier` | detached runs, their lock, kills and resumption | done, proved |
| 11 | `LifecycleCheckpoints` | journals of tasks and batches | done, proved |
| 12 | `CiWaiter` | one wait for the checks of a commit | done, proved |

Abstract specifications worth stating: the ledger (done); for the tree, a
forest.  Storage has none: what a restore promises depends on where it fails,
and its four properties say that more plainly than a more abstract machine.

Runs: one per module (two for the gate, whose liveness needs a smaller
instance without symmetry), with two or three actors and every failure once or
twice.

Theorems: every safety invariant and every action property that a run checks,
and the refinement of the ledger (done).  A module of proofs is about one
component, or about two whose proofs have the same reader: `StorageProofs` about
`StorageRestore` and `PortableTransfer`, `TurnProofs` about `AgentTurn` and
`SlowTurn`, `EvidenceProofs` about `LifecycleCheckpoints` and `CiWaiter`.  Such
modules extend both, so the second one's names differ from the first one's
(`SlowSpec`, `TransferSpec`, `WaitSpec`).

## 3. The modules

A definition named after a Python function models it; a comment says so where
the names differ.  Operators under a `\* Fault:` comment are plausible mistakes
next to the definition they would replace; nothing in a specification uses
them.  They are the mutants of `PROJECT.json`, and each one makes a property
fail.

### ChatRequests (and ExactlyOnceLedger)

A *client* is one SQLAlchemy session that serves one call at a time.
`requests`, `runs` and `effects` are what is committed; `pending` are a
session's flushed, uncommitted writes; `lock` is SQLite's single writer; `pc`
and `call` say where a call stands, `reply` what it last returned or raised.
Each action is one transaction boundary or one choice between success and
exception in `chat_requests.py` or `runner.py`: `Lookup`, `Insert`,
`InsertLoses` and `InsertRaises` are `_reserve`; `TurnWrites`, `TurnCompletes`
and `TurnFails` are the runner; `Stage`, `CommitCompleted` and `CommitRaises`
finish the request; the `Reconcile...` actions re-read after an exception; and
`MarkFailed` closes the row.  A commit that raises may or may not have become
durable.  A crash ends a call anywhere.  Contents stands for the pair of
message and conversation, which the gate only compares.

`ExactlyOnceLedger` is the promise without sessions: a key opens once and
settles once, the step that completes it applies its turn, answers are true.
`ImplementsLedger` maps `requests`, `effects` and `reply` to it.

### TelegramPolling

Updates are numbered in the order Telegram hands them out.  Server state:
`sent`, `confirmed`.  Tables: `nextOffset`, `binding`, `notices`, `requested`.
The gate appears as its ledger (`outcome`, `applied`), which `ChatRequests`
implements; what the gate's answer is, is decided in one step there.  `pc`,
`batch`, `current`, `conversation`, `notice` are locals of `run_once` and
`process_update`.  `told` is what reached the user, `operator` the recovery
command under way, `stopped` systemd's `RestartPreventExitStatus`.  `AnswerLost`
and `NoticeLost` are calls that raise, whether or not the message arrived; a
long answer may arrive in part.  A button edits its message in place, and shows
a page or that it is out of date.  `StartRefused` is the schema gate before the
start.

### InventoryTurns

`committed` is what every session reads, `draft` what the holder of the write
lock (`writer`) sees; both hold the item rows and, per item, the place that
`location_suggestions._last_known_event` reads from the events.  `turn` is per
session: a conversation's turn with several calls, or a browser request with
one.  A tool call is `Look` (`_mutation_before`, without the lock) followed by
the operation, which takes the lock and reads afresh (`_validated_write`); a
browser request and `undo_last_action` read and compute (`Plan`), and `Flush`
later, when the lock is theirs.  An UPDATE writes the attributes that differ
from what was read (`Merge`).  `Write` appends the receipt that
`_mutation_receipt` stores.  `lastRun` is what `eligible_run` finds.  `around`,
the store before and after that run, is a history variable for the properties,
and so is `overtaken`, the sessions during whose present turn another one has
committed.

Photos are rows of their own, attached, described and deleted, with receipts
that Undo compensates like those of items.  Left out: names, aliases and tags
(they change with `update_item`, whose model is `state`); calls that change
nothing (Undo drops their receipts); the identity map, in which rows a session
read earlier in the same turn may be older still than `Read` shows.  An undone
move stays "last known" evidence for where the item was: `Witness` has that, as
the code does.

### StorageRestore

A *process* runs one command, `backup` or `restore`; its `stage` is the place in
`create_backup`, `restore_backup` or `_rollback_restore`, one per call that
changes files or may raise, and `staged` is the temporary file it prepares.
`data` is the active database, its main file and what its WAL adds; `backups`
says what every name holds.  `dataOld` and `backupsOld` are the earlier states
of the two that a loss of power may bring back, until the directory is synced
(`_fsync_directory`; SQLite's first commit to a new WAL syncs it, too).
Contents are commit numbers, so that a lost commit shows.  `truth` is what the
user relies on: the last commit, or the restore that was reported.  `Raises` is
an exception at any step, `Refuses` those that the state of the files makes
certain, `Killed` and `PowerLoss` end commands in between, and `Damaged` puts
something that is no database in the place of a backup.

Assumed, as the operator is told
(`src/agent-tasks/archive/snapshots/README-through-0034.md:300`): the application
is stopped during a restore, and there is one restore at a time.  A safety
backup that is named explicitly is nobody else's destination.  Left out: an
active database that is itself invalid, which the safety backup refuses;
backups with a destination that is taken at the start, which change nothing;
rehearsals, which are restores of a private copy.

### InventoryTree

A row of any of the tables is a record with a name, an owner (the parent of a
place, the place of an item, the item of a photo) and a note.  A session is a
browser request or a turn of the agent; a call goes through the stages of its
Python function: it loads its row (`cache` is the identity map of the session),
looks names up, walks from the new parent to the root one row at a time
(`Ascend`), and writes.  Reads before the first write see the last commit,
`Step`s of others come in between, and the write lock is taken by the write.
`fresh` is a history variable: it is true of a session that nobody overtook.

Keys are of one table each (`Keys`), although SQLite numbers every table from
one: rows of two tables can then be one function of keys.  A database that the
run starts from has what the schema demands, its foreign keys (`Referenced`) and
its unique names (`Unique`), which SQLite enforces from then on; it may have
cycles, and duplicates where the schema allows them.

### AgentTurn

One turn, from `runner.run` to its commit or its failure.  `known` is
`ToolRunState`, `told` the part of it that the model had when it answered
(`begin_round` to `end_round`).  The model may name any id.  A write is
`AskWrite` (what the dispatcher checks at once, and `_mutation_before`),
`TakeLock`, `Check` (every target looked up again by the words it was found
with) and `Write` or `Refuse`.  Others take the lock when it
is free, and rename or create a row (`OtherBegins`, `OtherCommits`).  `draft` is what the turn's
transaction sees.

### PortableTransfer

The rows are places with parents and names, items with states, quantities and
places, and events.  `ex` and `snapshot` are the export, section after section;
`im`, `source`, `work` and `level` the import, which reads a document of one of
three formats, validates it, writes the tree level by level and the rest, looks
at the target again and links.  `ValidWhole` and `Valid` are the two validators,
of a whole document and of a stream of it.  `boot` is a bootstrap: the manifest
is read, then read again by the preflight, and applied in one transaction.
What the system starts with (`Scenarios`) is a parameter, because the inputs
are what matters: a run starts once from each of many documents.  Of the
database it is assumed (`IsScenario`) that the application's rules have kept it,
so that its own export would be valid; of a document or a manifest only that it
has the shape of one, as the parser gives it.

### CanonicalVerifier

A *launch* is one `start` or `resume`, the worker that it leaves behind and the
Make process of that worker; `cli`, `worker` and `command` say where the three
stand, and each may be killed alone.  `stored` and `summary` are the two files
of a run.  The lock is no variable: `Holds` says which processes have its
descriptor open.  `began` and `tested` are history: what really ran on which
commit.  A process id that was given to another process is `"reused"`.

### LifecycleCheckpoints

`file` is the journal, `cmd` what a command has decided to write and has not
written yet; a second command may decide meanwhile.  `MayAdvance` and the
actions named after events are the rules for writing, `Loadable` is the rules
for reading.  Git is a sequence of commits with their ancestors, branch tips and
what is checked out.

### CiWaiter

`checks` and `expected` are GitHub's; `seen` is what the answers of this poll
said.  Every request is a step, and GitHub moves between any two.  `shown` is
history: every state that a check had during the poll.

### RemoteCalls and SlowTurn

`RemoteCalls` is one call: attempts, delays and deadline of the HTTP clients, the
event stream of the Codex backend, and the Codex process with a helper that may
leave its process group.  `SlowTurn` extends it by the main thread of the poller
(`turn`), the worker that sends drafts and the semaphore that admits one worker
in the process.

## 4. The runs

| Run | Instance | Shows |
|---|---|---|
| `gate_safety` | 3 sessions, 2 keys, 2 contents, 1 note | one executor per key, atomic completion, true answers, refinement of the ledger |
| `gate_progress` | 2 sessions, 1 key, 1 unkeyed run | staged run ids are those committed; every call ends |
| `telegram` | 2 updates of any kind, 2 recoveries each, 2 faults | one turn per update, checkpoint after answer, true notices; the queue moves and committed turns are reported |
| `inventory_undo` | 1 session, 1 conversation, 3 items, 2 photos, lots of 1 or 3, 2 places, 3 calls | rows and history agree; undo restores, refuses, or is complete |
| `inventory_tree` | 2 browsers and the agent, 2 calls together, 5 rows at first, two free keys for places and one each for an item and a photo; also a tree with a cycle | calls that nobody overtook keep the inventory sound; edits keep what others wrote; calls end |
| `agent_turn` | 3 rounds, 4 calls, 3 ids, 2 names, 1 commit of others | a turn is all or nothing; writes hit what their words name |
| `storage_restore` | 2 commands, 1 destination, 2 restores, 2 commits, 3 faults | the inventory is recoverable; failed restores keep it; reported ones stay; no name is taken from another |
| `portable_transfer` | 3 places, 2 items, some thousand documents and manifests, 2 commits, 4 steps of others, 1 kill | a document is one state; an import says the same; the validators agree; nothing is replaced |
| `verifier` | 2 runs, 3 launches, 2 recipes, 1 commit, 2 faults | one verifier at a time; orphans are found, and block whoever looks at their run; passed means tested |
| `lifecycle` | a task of 3 phases, 3 events, 2 commits; a batch of 2 tasks, 7 manifests, 13 events, 3 commits | journals stay readable; their evidence is of the commit they name |
| `ci_waiter` | 2 check runs, 1 status, 3 moves, time for 2 polls or 3 | verdicts are true; the wait ends |
| `slow_turn` | 2 updates with any client each, 1 retry, 2 ticks, 1 piece of text, 3 events of a process | answers are whole; nothing is left running; no draft begins after the reply; turns end |

Type invariants are conjuncts of an invariant or a property of their module
where no theorem states them by themselves (`ChatRequests` and
`StorageRestore`: `TypeCorrect`).

**Bounds.**  Three sessions on one key give every race of an executor, a loser
and a recovering operator; a second key shows that they do not disturb each
other.  Two updates are an order; two recoveries are one that dies and one that
succeeds; two faults are a crash at any step and another while its effects are
repaired.  Three items are a lot, a part, and a part of either; three
calls are a turn of two calls and its undo, or a turn, an interloper and an
undo.  Two commands race for one destination, or one backs up while the other
restores; the second restore may take the first one's safety backup as its
candidate; three faults are an exception after the publication, one in its
rollback and a loss of power.  Two calls on a tree are the smallest race, and
every race of the code is between two; the free keys are the two places of a
path, and a row for each of two other calls.  Four calls of the agent are a search, a write that succeeds, a
write that fails and one more, over an answer more than they need.  Every tree
on three places has every shape of cycle and of names that collide.  Three
launches are a start, a resume and an interloper; two recipes are one before a
commit and one after.  Thirteen events of a batch are the nine of two tasks that
go well and four more, for a correction and evidence recorded again.  Three moves on GitHub are a
check that appears, ends and is run again.  `MaxRuns`, `MaxUpdates`, `MaxAttempts`,
`MaxFaults`, `MaxItems`, `MaxPhotos`, `MaxId`, `MaxCalls`, `MaxEdits`,
`MaxCommits`, `MaxRestores`, `MaxOther`, `MaxKills`, `MaxHead`, `MaxMoves`,
`MaxText` and `MaxOutput` occur only in guards of actions that begin something,
or that would need a new id; `MaxRounds`, `MaxRetries`, `Timeout`, `Interval` and
`Grace` are the code's own.  Where the bounds let everything come to its end,
and nothing begins any more, the configuration says `CHECK_DEADLOCK FALSE`.
Symmetry is declared only in runs without liveness properties.

**One session at a time.**  `inventory_undo` has one session because the code
promises nothing for concurrent browser writes
(`src/agent-tasks/designs/post-0050-engineering-backlog.md:66-70`): coherent rows
and exact compensations cannot be had from sessions that read before they have
the write lock.  That Undo refuses does not need it: `UndoFailsClosed` is proved
for any number of sessions, and excepts only the Undo of a session during whose
turn another one has committed (`overtaken`, which stays empty in this run).
Without the exception it is false of two sessions, as section 6 says.  What they
may do to each other's rows is else the subject of `InventoryTree`.

**The verifier's faults.**  Two launches for one run and a third for another make
every race for the lock; one fault makes an orphan, the second gives a process id
away, kills the next worker or fails what would have passed.

**Fairness.**  `ChatRequests`: weak fairness of every session's own steps.  A
step that waits for the write lock has an alternative that raises
(`busy_timeout`), a turn has at most `max_rounds` rounds of calls with
timeouts, and nothing is assumed about who begins.  `TelegramPolling`: weak
fairness of the poller's steps, of the process's start (systemd restarts it)
and of the operator's start after exit status 2 and end of a recovery; strong
fairness of deliveries, as a message that is sent again and again arrives one
day.  Faults are bounded by `MaxFaults`.  No recovery is assumed to be started:
`QueueMoves` excuses an update whose request was interrupted.  `InventoryTree`:
weak fairness of every session's steps, which are Python code between two
statements; a wait for the lock may end in an error.  `CiWaiter`: weak fairness
of the waiter, whose requests have a timeout each; GitHub may do nothing at all.
`SlowTurn`: weak fairness of the clock, of the caller (each HTTP request has a
timeout for the answer to begin, each wait for a process a deadline), of the
main thread and of the worker's own steps; none of what a server or a process
does, so `TurnsEnd` excuses the clients that have no deadline for a whole call.

## 5. What is proved

`ChatRequestsProofs` proves, for all sets of clients, keys, contents and notes
and every bound, from the assumptions on constants in `ChatRequests`:

* `TypeCorrect`, `OneExecutorPerKey`, `CompletionIsAtomic`, `RepliesAreTruthful`:
  the four invariants of `gate_safety`.  None is inductive alone.  A completion
  is atomic because its executor is the only one and its pending writes carry
  the turn; that needs `SingleExecutor`, which in turn needs that a row that is
  still open belongs to the call that inserted it; answers are true because
  settled rows do not change.  Their conjunction with `WriterInv` (who has pending
  writes holds the lock, and a staged run id is the next one) is `IInv`, which
  is inductive.
* `WritersExclude`: the single-writer argument behind staged run ids.
* `StoreIsDurable`: no step rewrites a settled row or a logged run; it is
  proved only; `TruthfulReplies` and the refinement, which runs check, are about
  the same rows.
* `GateImplementsLedger`: initial states map to initial states and every step
  to a step of the ledger or a stutter.

`StepFootprint` and `CommittedRunsAppend` carry most of the work: what a step of
one client leaves alone for the others.

`StorageProofs` proves, for any commands, names and bounds, from
`ConstantsAssumption`, all properties of `storage_restore`: `TypeCorrect`,
`InventoryIsRecoverable`, `FailedRestoresKeep`, `ReportedRestoresStay` and
`NamesAreNotTaken`.  `Recoverable` needs to know what each stage has done
already (`FilesInv`: once a restore is past its backup stages, its safety
backup holds what it found, whatever the power brings back; once it has
checkpointed, no WAL hides the main file), who may be where (`CommandInv`: one
restore, and the application stopped) and that what a restore found is what the
user relies on, or that this is safe already (`TruthInv`: it may be older, when
an earlier restore was killed).  Their conjunction `IInv` is inductive.
`SafetiesKept` is the lemma that serves all of them: whatever state of the
directory the power may bring back after a step, it holds the safety backups
that it could have held before the step.

`StorageProofs` also proves, for places, items, documents and manifests of any
size and any number of commits, kills and steps of others, from
`TransferConstants`, all properties of `portable_transfer`: `ExportsAreOneState`
(`ExportIsOneState`), `ImportsAreFaithful` (`ImportIsFaithful`),
`ReadersAlwaysAgree` (`ReadersAgree`) and `NothingIsReplaced`
(`NothingReplaced`).  Both readers walk up from each place, but the one that
streams stops where an earlier walk has been.  Both meet no cycle exactly if the
places have ranks that fall on the way up (`Grounded`), and this is how one is
compared with the other.  The walks are recursive functions;
what they reach is proved from the least number of steps at which it would fail
(`LeastNumber`), as the library's induction theorem cannot be used.  The height of
a place is its depth, so the levels of the importer never write a child before its
parent.  The snapshot of an export is a state in the history
(`ExportInv`), and each page adds the items up to its own.  What an import has
written so far is a part of what its document says (`ImportInv`), and a file at
the target that is called the import's is that (`TargetInv`).  A bootstrap has
places for a manifest's paths because the database is empty when it looks, and
the places it makes have those paths (`BootInv`).  `TransferInv`, the conjunction
of these with `HistoryIsGood` and `Counts`, is inductive.

`TelegramPollingProofs` proves, for any numbers of updates, attempts and faults,
`UpdatesAreAppliedOnce` (`OneTurnPerUpdate`), `CheckpointsFollowAnswers`
(`CheckpointAfterAnswer`) and `NothingChangedIsProven` (`NothingChangedIsTrue`).
An update has a key for each attempt, and each key alone may be applied; that
only one of them ever is, follows from `LineageInv` (the attempts are opened in
order, and only the last may be done) and `AppliedInv`.  The checkpoint needs
what each stage of the poller knows of the update at hand (`StageInv`), that the
batch goes on without a gap from the offset (`QueueInv`), that a notice on
record was given (`NoticesInv`), and that a recovery executes the last attempt
while no poller runs (`OperatorInv`).  `OrderInv` says that no later update is
attempted while an earlier one is open.  `NothingChangedIsTrue` is an action
property: the notice is chosen from the ledger before it is sent, and
`StageInv` carries that choice over the steps in between.

`TurnProofs` proves, for any names, ids, rounds, calls and any number of
changes by others, `TurnsAreAtomic` (`TurnIsAtomic`) and `WritesAreOnTarget`
(`WritesHitTheNamedOne`), from `ConstantsAssumption` and `StartAssumption` (each
inventory to start from is well formed).  What `Check` finds is found under the
lock, and the turn keeps the lock until it ends (`LockInv`), so it still holds
when the call writes (`PendingInv`).  The receipt of a call takes the events
with a number above a count that was read *before* the lock was taken; that
they hold the call's own event and none of an earlier call, although others may
have added some, is `ReceiptInv` with `PendingInv`.  `TraceInv` says what a
failed call may leave behind it, `LogInv` the same of a recorded run.

`TurnProofs` also proves, for any clients, retries, deadlines and sizes,
`EveryAnswerIsWhole` (`AnswersAreWhole`), `NoProcessIsLeft`
(`NothingLeftRunning`) and `DraftsComeFirst` (`NoDraftAfterReply`).  A stream
that has completed is whole because completion comes after all of its text and
after the item of its tool call (`StreamInv`); the group of a process is gone
when its readers are joined, because only a running leader starts a helper
(`ProcessInv`); the worker's last look at the stop events fixes its update
(`ProgressInv`).  `StageInv` says which client goes through which stages.

`CanonicalVerifierProofs` proves, for any runs, launches, recipes, commits and
faults, `ThereIsOneVerifier` (`OneVerifier`), `NoOrphanIsHidden`
(`OrphansAreVisible`), `OrphansStandInTheWay` (`OrphansBlock`) and
`PassedIsTested` (`PassedMeansTested`).  The lock alone
does not give the first, as a Make process lives on without it.  Of those that
hold the lock there is one (`Mutex`); a command that is alive without its worker
is still named in its run's state (`Recorded`), so that nobody serves that run
(`Exclusive`); hence the files of a run change in one hand (`Alone`), and the
rest follows launch by launch.  An orphan blocks whoever looks at its run with the
lock in hand; that not everybody does is said in section 6, and that a verdict may
hide it, once the process id of its worker is given away, in the comment of
`Reuse`.  A verdict is true because HEAD is compared at
each point where the tests could be of two commits (`Tests`, `RunInv`).

`InventoryTurnsProofs` proves, for any sessions, items, photos, places, quantities
and conversations and any number of calls, `UndoStaysClosed` (`UndoFailsClosed`).
`SharedInv` says of every log that it is about known rows and that its newest
receipt about a row says how the turn left it (`LastSays`); a session that has
flushed anything is the writer, so nobody changes what its log speaks of.  A
compensation compares the newest receipt about a row with the row as the session
sees it (`StoreFits`), and that stays so until the flush unless another session
commits (`Compensates`, `overtaken`).  The document asks for it without this
exception, which the code does not give (section 6).

Of one session at a time (`OneSession`, as in `inventory_undo`) it proves
`RowsStayCoherent` (`RowsAreCoherent`), `UndoGivesBack` (`UndoRestores`) and
`UndoIsWhole` (`UndoIsComplete`).  The parts of its
`IInv`: what a call is going to flush was computed from rows as they are, and its
places are where its events lead (`FlushInv`, `LookInv`), so that rows and
history stay in step (`RowsInv`); a receipt says what the call found and left, in
coherent rows that exist (`ReceiptsInv`).  A compensation runs back over receipts
that may be many on the same row, compares each with what the ones before it
made of the row, and writes at its end.  So each receipt begins where the one
before it about the row ended, because the newest says how the row was left so far
(`LeftInv`); the oldest is the one compensated last, and `BegunInv` says
that it holds the row as the turn found it, the quantity of a lot that stays
split excepted.  What the compensation has made of the rows after n receipts is a
recursive function; `RunIsSane` and its neighbours carry an invariant over its
steps by the least number for which it fails (`LeastNumber`, from the
well-foundedness of finite sets), as the library's induction theorem cannot be
used.

`UndoIsWhole` needs two more things. Consecutive receipts about a row are
linked, the later one saying how the earlier one left it (`Chained`, a part of
`BegunInv`); and if a turn's splits show (`SplitsShow`: of lots that the turn
had changed before, only those of known quantity are split), each of them is the
oldest receipt about its lot and its part (`SplitIsOldest`): an older one would
have left the lot both as the split found it and, since its compensation went
through, as the split left it. So compensation leaves a lot and its part with
the pieces that the lot had (`SplitUndone`, `PartedKeeps`), and every other row
with its own (`RowsUndone`). Taking the receipts into account one by one, the
total of all rows stays (`UnitsKept`), because each split moves pieces between
two rows only (`Transfer`). Without `SplitsShow` it is false (section 6): the
run, of three calls, is too short to show it, and the proof found it.

`OneSession` is needed for these three: with a second session, any row that a
call has read may change before its flush (section 6).

`InventoryTreeProofs` proves, for any sessions, names and keys, any databases to
start from that the schema allows, and any number of calls,
`UndisturbedCallsStaySound` (`UndisturbedCallsAreSound`) and `EditsStayNarrow`
(`EditsKeepTheRest`).  A session decides from rows that it read one by one before
it had the lock.  As long as nobody commits they are the rows that its write
meets (`FreshInv`), so the ancestors it has seen are still the ancestors of the
new parent (`Climbed`) and none of them is the place itself; a set of places that
a cycle would need has then a way out either among these ancestors or outside
them (`MoveStaysAcyclic`).  A name that was found free is free (`PutStaysApart`).  A call of
the agent that locked first is fresh from then on (`CallInv`).  For edits of
stale rows no more is needed than that what was not asked for is as it was read
(`Completes`), since only differences are written.  That what a call refers to is
there when it writes, although it is stale, holds because no place and no item is
ever deleted (`GrowInv`).  What others do to a session is one lemma for all their
steps (`BystandersKnow`).

`EvidenceProofs` proves, for any phases, manifests, tasks and commits,
`JournalsAreReadable` (`AlwaysReadable`) and `EvidenceStaysFresh`
(`EvidenceIsFresh`).  A command decides on the journal that it has read and
writes when another one may have written; so what holds of the file is said of
the pending write of every command, too (`FileInv`, `CmdInv`).  What the loader
computes from a journal, event by event, is said for each prefix of it, and
carried from one to the next from the least one at which it fails.  The rest is
about the journal alone, but for the ancestors of a seed or a commit, which no
commit, reset or checkout takes away (`GitGrows`).

It also proves, for any checks, times and moves, `VerdictsAreTrue`
(`VerdictIsTrue`).  The answers of one poll are of different moments.  Each was
true at some moment of this poll (`ShownInv`, with the history of `PresentInv`),
and what an answer leaves out was missing at its own (`MissedInv`); the verdict
claims no more.

Each `IInv` was checked by TLC on the instance of its run before it was proved,
and is a conjunction of the parts named here.

Only model-checked: the liveness properties, which are `EveryCallEnds`,
`QueueMoves`, `CommittedTurnsAreReported`, `CallsEnd`, `WaitEnds` and `TurnsEnd`.
The prover has no ENABLED and no fairness.

## 6. Disagreements between documents and code, and other things met

The models have all of these behaviours; no property forbids them.  Those marked
"code" look like defects, the others like documents that need a word.

*Telegram*

* `src/deploy/README.md:300-308` says that a failed update is never skipped and
  stops the bot; a failure proven to have changed nothing is answered and
  checkpointed (`telegram/adapter.py:209-229`, `telegram/polling.py:92`).
* `src/deploy/README.md:340` promises that a recovered result is delivered on
  redelivery; recovery of an update that was already checkpointed is accepted
  and its result never delivered (`telegram/adapter.py:531`).
* Code: an uncertain request "is not silently acknowledged"
  (`src/agent-tasks/batches/0101-telegram-native-ux-navigation-progress-failures.md:194`);
  the marker of the uncertain notice suppresses the later one, and the update
  is acknowledged (`telegram/adapter.py:466`).
* The schema gate refuses a start (exit status 2, no restart) when the web
  process happens to write meanwhile.  One malformed update makes a whole
  `getUpdates` fail, again and again.
* The web endpoint for recoveries accepts a Telegram request as its source
  (`web/routes.py:285`); the row then has a foreign key prefix, so that the
  lineage reads as inconsistent and the queue stands still.  The operator of
  `TelegramPolling` recovers with `telegram-recover` only.

*Inventory*

* Code: Undo "fails closed" when the rows are no longer as the turn left them
  (`src/agent-tasks/designs/undo-correction-decision.md:45`); the rows are
  compared before the write lock is held (`services/undo.py:80`), so a commit of
  another session in between is overwritten.  In `InventoryTurns` that takes a
  turn, an `UndoLastAction` of it that waits in `Await`, and a call of the other
  session on the same row that is committed before the `Flush`; `UndoFailsClosed`
  excepts it.
* Undo "must be the next user action" (line 25 there); only the turns of the
  same conversation count (`services/undo.py:31`).
* "Partial compensation is not allowed" (line 98 there); a split of a lot of
  unknown quantity leaves no trace in the lot's row, so a turn that created or
  moved such a lot and then split it is taken back in part: the split-off item
  stays at a place where its lot was only during the turn.  `UndoIsComplete`
  excuses turns with such a split (`SplitsShow`).  The compensation of a photo does not look at
  what happened to its item.
* Code: "category/location cycles cannot be introduced"
  (`src/agent-tasks/archive/assignments/0010-stage21-manual-web-admin.md:20`);
  `_update_tree_node` walks up before it has the write lock
  (`services/inventory.py:270`), so two requests that move two places under each
  other both commit, and every path through them raises from then on.  Names
  of siblings that are roots, and of items, collide in the same way.
* A receipt "claiming a change" is not created by a call without one
  (`src/agent-tasks/archive/assignments/0014-stage24-atomic-turn-receipts.md:24`);
  `_mutation_before` reads the last event before the write lock is taken
  (`agent/tools.py:306`), so such a call claims what another session commits in
  between.
* A commit of a turn that raises leaves "committed" in the trace of the failed
  run (`agent/runner.py:137-142`).  The commit of an unkeyed turn that raises
  after it became durable leaves a failed run beside the completed one.
* `recover` accepts a source that is still processing, and the same source
  twice; exactly-once is promised per key only.

*Storage and transfer*

* An application that runs during a restore commits to the file that was
  replaced; the operator is told to stop it.
* A bootstrap looks whether the database is empty before it has the write lock,
  so a commit in between is mixed with the manifest (`bootstrap.py:230`), and it
  reads the manifest twice.
* Older documents may have items in state "removed" without what the newer
  format wants; they pass validation and become rows that no export can carry.
  The run imports the documents that older versions wrote.
* Duplicate roots and cycles that concurrent edits left make an export that
  cannot be imported.  The importer removes its own link when somebody opened
  the new database at once, and with it what they write.

*Slow calls*

* The clients of OpenAI's and Gemini's protocols and of the Bot API have no
  deadline for a whole call, and the first two wait as long as Retry-After says.
  A draft whose call was on its way may appear after the reply: only its
  beginning is before.  A thread that cannot be started after the Codex process has
  been (`agent/codex_exec.py:416-430`) leaves the process running; `Spawn` does not
  have this failure.

*Tools*

* Code: "A repository-scoped process lock prevents two verifier runs from running
  at the same time" and an orphaned recipe is reported "so a second verifier is
  not started"
  (`src/agent-tasks/archive/snapshots/tools-agent-README-through-0034.md:132,149`);
  `start` looks at the run that had the lock before
  (`canonical_verifier.py:615`), `resume` does not (708), so a run may be resumed
  while the orphaned Make process of another one works.  `OneVerifier` is
  therefore about workers, and about commands of one run.
* `resume` looks at the status in `run.json` only: a worker killed between
  `summary.json` and `run.json` leaves a verdict beside a run that may go on.
* The "preflight" event of a batch says `preflight_ok` without a preflight
  (`lifecycle_checkpoints.py:1510-1535`); a merge can be recorded on the branch
  of the implementation; of two commands at once the second to write wins.
* An observation that cannot be written ends `ci_waiter` without a summary.

## 7. What is not modelled

Text: prompts, replies, rendering, search ranking, Russian morphology and name
normalisation are functions without state.  The pages and reports that only
read: navigation, catalog, activity, diagnosis, status of checkpoints and
seeds.  The doctor's one repair rebuilds an index that is derived from the
items, in one immediate transaction.  Experiments, evaluation and benchmarks
are offline tools of one process over files and tables of their own; migrations
and the installation of units are run once.  Rehearsals of a restore run the
restore of `StorageRestore` on a private copy.  `PROJECT.json` says it for every
component.
