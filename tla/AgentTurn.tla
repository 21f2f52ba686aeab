------------------------------ MODULE AgentTurn ------------------------------
(***************************************************************************)
(* One turn of the agent (runner.py) and the dispatcher that decides what  *)
(* the model may touch (tools.py, write_resolution.py), beside others who  *)
(* change the inventory.                                                   *)
(*                                                                         *)
(* The model answers with tool calls, which are executed in order; their   *)
(* results are in its next prompt.  It may name any id and any name, and   *)
(* any tool, offered or not.  What a call may use is what the model had    *)
(* been told when it answered.  A write takes SQLite's write lock, looks   *)
(* every target up again by the words it was found with, and only then     *)
(* writes.  The turn's changes are committed with its answer, or not at    *)
(* all.                                                                    *)
(*                                                                         *)
(* An entity is an item, which may have several names, or a place.  Photos *)
(* are in InventoryTree; undo, quantities and states in InventoryTurns;    *)
(* the request around the turn in ChatRequests.                            *)
(***************************************************************************)
EXTENDS Naturals, FiniteSets, Sequences

CONSTANTS
  Names,      \* normalized names
  Nil,
  Start,      \* the inventories to start from
  MaxId,      \* bound on ids
  MaxRounds,  \* max_rounds
  MaxCalls,   \* bound on the tool calls of a turn
  MaxEdits    \* bound on what others commit

ASSUME ConstantsAssumption ==
  /\ Nil \notin Names \cup Nat \cup {"turn", "other"}
  /\ MaxId \in Nat /\ MaxRounds \in Nat \ {0} /\ MaxCalls \in Nat /\ MaxEdits \in Nat

VARIABLES
  rows,     \* committed: id -> [kind, names, place]
  events,   \* committed events: who wrote them
  draft,    \* what the turn's transaction sees: [rows, events]
  lock,     \* "turn", "other" or Nil
  edits,    \* edits left to others
  pc,       \* where the turn stands
  round,
  calls,    \* calls left in this answer
  known,    \* ToolRunState
  told,     \* what begin_round has frozen
  call,     \* the call that is executed
  last,     \* _mutation_before: the number of events
  changed,  \* changed_seen
  trace,    \* tool results: [writes, ok, asks, changed, state]
  receipts, \* dispatcher.receipts: [events, changed]
  log       \* recorded runs

turnVars == <<round, calls, known, told, call, last, changed, trace, receipts, log>>
vars == <<rows, events, draft, lock, edits, pc, turnVars>>

Ids == 1 .. MaxId
Kinds == {"item", "place"}
Row == [kind : Kinds, names : (SUBSET Names) \ {{}}, place : Ids \cup {Nil}]
Inventory(db) == DOMAIN db \subseteq Ids /\ \A i \in DOMAIN db : db[i] \in Row

ASSUME StartAssumption == \A db \in Start : Inventory(db)

Of(db, kind) == {i \in DOMAIN db : db[i].kind = kind}

\* WriteResolver.resolve: the only entity of that name.
Matches(db, kind, name) == {i \in Of(db, kind) : name \in db[i].names}
Resolve(db, kind, name) ==
  IF Cardinality(Matches(db, kind, name)) = 1
  THEN CHOOSE i \in Matches(db, kind, name) : TRUE
  ELSE Nil

Nothing == [seen |-> {}, resolved |-> {}, evidence |-> {}, searches |-> {}, created |-> {}]

Call(tool, refs, kind, name) == [tool |-> tool, refs |-> refs, kind |-> kind, name |-> name]
NoCall == Call("none", {}, "item", Nil)

View == IF lock = "turn" THEN draft ELSE [rows |-> rows, events |-> events]

-----------------------------------------------------------------------------
\* Others commit under the write lock, which they hold for a while.
OtherBegins ==
  /\ lock = Nil /\ edits > 0
  /\ lock' = "other"
  /\ edits' = edits - 1
  /\ UNCHANGED <<rows, events, draft, pc, turnVars>>

NewIds(db) == {i \in Ids \ DOMAIN db : \A j \in Ids \ DOMAIN db : i <= j}
Added(db, i, row) == [j \in DOMAIN db \cup {i} |-> IF j = i THEN row ELSE db[j]]

OtherCommits ==
  /\ lock = "other"
  /\ lock' = Nil
  /\ \/ \E i \in DOMAIN rows, N \in (SUBSET Names) \ {{}} :
          /\ rows[i].kind = "place" => Cardinality(N) = 1
          /\ rows' = [rows EXCEPT ![i].names = N]
          /\ events' = IF rows[i].kind = "item" THEN Append(events, "other") ELSE events
     \/ \E i \in NewIds(rows), k \in Kinds, n \in Names :
          /\ rows' = Added(rows, i, [kind |-> k, names |-> {n}, place |-> Nil])
          /\ events' = IF k = "item" THEN Append(events, "other") ELSE events
  /\ UNCHANGED <<draft, edits, pc, turnVars>>

-----------------------------------------------------------------------------
Begin ==
  /\ pc = "idle" /\ log = << >>
  /\ pc' = "model" /\ round' = 1
  /\ UNCHANGED <<rows, events, draft, lock, edits, calls, known, told, call, last, changed,
                 trace, receipts, log>>

\* The model answers with tool calls: begin_round.
AnswerWithCalls ==
  /\ pc = "model"
  /\ calls' \in 1 .. MaxCalls - Len(trace)
  /\ told' = known
  /\ pc' = "calls"
  /\ UNCHANGED <<rows, events, draft, lock, edits, round, known, call, last, changed, trace,
                 receipts, log>>

\* What _require_seen, _require_resolved and _validated_write look at.
Visible == told

\* end_round; after the last round AgentLoopLimitError.
EndRound ==
  /\ pc = "calls" /\ calls = 0
  /\ told' = Nothing
  /\ pc' = IF round < MaxRounds THEN "model" ELSE "failing"
  /\ round' = IF round < MaxRounds THEN round + 1 ELSE round
  /\ UNCHANGED <<rows, events, draft, lock, edits, calls, known, call, last, changed, trace,
                 receipts, log>>

Failure(writes, asks) ==
  [writes |-> writes, ok |-> FALSE, asks |-> asks, changed |-> FALSE, state |-> "none"]
Success(writes, real) ==
  [writes |-> writes, ok |-> TRUE, asks |-> FALSE, changed |-> real,
   state |-> IF writes THEN "provisional" ELSE "none"]

\* Fault: an error ends the turn only if the call was to change something.
ToleratesReads(r) == r.ok \/ ~r.writes \/ (r.asks /\ ~changed)

\* After an error the turn goes on only if nothing has changed and nothing was
\* to be changed, or the model is to ask the user first.
Tolerates(r) == r.ok \/ (~changed /\ (~r.writes \/ r.asks))

Report(r) ==
  /\ trace' = Append(trace, r)
  /\ pc' = IF Tolerates(r) THEN "calls" ELSE "failing"
  /\ calls' = calls - 1
  /\ call' = NoCall

\* An unknown tool, or arguments that do not fit its schema.
Unparsed ==
  /\ pc = "calls" /\ calls > 0
  /\ \E writes \in BOOLEAN : Report(Failure(writes, FALSE))
  /\ UNCHANGED <<rows, events, draft, lock, edits, round, known, told, last, changed, receipts, log>>

-----------------------------------------------------------------------------
\* search_items, search_locations: fuzzy candidates, of which only the one
\* that the words name exactly may be written to.
Search ==
  /\ pc = "calls" /\ calls > 0
  /\ \E kind \in Kinds, name \in Names : \E found \in SUBSET Of(View.rows, kind) :
       LET id == Resolve(View.rows, kind, name)
           exact == id # Nil /\ id \in found
       IN known' = [known EXCEPT
            !.seen = @ \cup found,
            !.searches = @ \cup {<<kind, name>>},
            !.resolved = IF exact THEN @ \cup {id} ELSE @,
            !.evidence = IF exact THEN @ \cup {<<id, name>>} ELSE @]
  /\ Report(Success(FALSE, FALSE))
  /\ UNCHANGED <<rows, events, draft, lock, edits, round, told, last, changed, receipts, log>>

\* get_item, list_location and the like: what is in a place is seen.
Read ==
  /\ pc = "calls" /\ calls > 0
  /\ \E i \in Ids :
       IF i \in Visible.seen
       THEN /\ known' = [known EXCEPT !.seen = @ \cup {j \in DOMAIN View.rows : View.rows[j].place = i}]
            /\ Report(Success(FALSE, FALSE))
       ELSE /\ UNCHANGED known
            /\ Report(Failure(FALSE, FALSE))
  /\ UNCHANGED <<rows, events, draft, lock, edits, round, told, last, changed, receipts, log>>

\* Calls that write: an item and its new place, an item and its new name, or a
\* name and the place of what is created.
Move(i, p) == Call("move", {i, p}, "item", Nil)
Update(i, n) == Call("update", {i}, "item", n)
Create(R, k, n) == Call("create", R, k, n)
Writes ==
  {Move(i, p) : i \in Ids, p \in Ids} \cup {Update(i, n) : i \in Ids, n \in Names}
  \cup {Create(R, k, n) : R \in {{}} \cup {{p} : p \in Ids}, k \in Kinds, n \in Names}

\* _require_resolved, _require_prior_search and the evidence.
MayWrite(c) ==
  /\ c.refs \subseteq Visible.resolved
  /\ c.tool = "create" => <<c.kind, c.name>> \in Visible.searches
  /\ \A i \in c.refs : i \in Visible.created \/ \E n \in Names : <<i, n>> \in Visible.evidence

\* The dispatcher requires an item or a place where the tool takes one.
RightKinds(db, c) ==
  CASE c.tool = "move" -> \E i, p \in DOMAIN db : c.refs = {i, p} /\ db[i].kind = "item" /\ db[p].kind = "place"
    [] c.tool = "update" -> c.refs \subseteq Of(db, "item")
    [] c.tool = "create" -> c.refs \subseteq Of(db, "place")

AskWrite ==
  /\ pc = "calls" /\ calls > 0
  /\ \E c \in Writes :
       /\ last' = Len(View.events)
       /\ IF MayWrite(c) /\ RightKinds(View.rows, c)
          THEN /\ call' = c
               /\ pc' = IF c.refs = {} /\ c.kind = "item" THEN "write" ELSE "lock"
               /\ UNCHANGED <<calls, trace>>
          ELSE Report(Failure(TRUE, FALSE))
  /\ UNCHANGED <<rows, events, draft, lock, edits, round, known, told, changed, receipts, log>>

\* Fault: the targets are looked up before the lock is taken.
TakeLockLater ==
  /\ pc = "lock" /\ lock # "other"
  /\ pc' = "check"
  /\ UNCHANGED <<rows, events, draft, lock, edits, turnVars>>

\* The UPDATE that changes nothing.
TakeLock ==
  /\ pc = "lock" /\ lock # "other"
  /\ lock' = "turn" /\ draft' = View
  /\ pc' = "check"
  /\ UNCHANGED <<rows, events, edits, turnVars>>

\* OperationalError: "database is locked" ends the turn.
Busy ==
  /\ pc \in {"lock", "write", "ending"} /\ lock = "other"
  /\ pc' = "failing"
  /\ UNCHANGED <<rows, events, draft, lock, edits, turnVars>>

StillNamed(i) ==
  \/ i \in told.created
  \/ \E n \in Names : <<i, n>> \in told.evidence /\ Resolve(View.rows, View.rows[i].kind, n) = i

\* "resolution is stale or ambiguous; search again"
Check ==
  /\ pc = "check"
  /\ IF \A i \in call.refs : StillNamed(i)
     THEN /\ pc' = "write" /\ UNCHANGED <<calls, trace, call>>
     ELSE Report(Failure(TRUE, FALSE))
  /\ UNCHANGED <<rows, events, draft, lock, edits, round, known, told, last, changed, receipts, log>>

-----------------------------------------------------------------------------
\* What the service makes of the call: the new rows, whether there is an
\* event, and what was created.  None: it refuses.
Effect(db, event, created) == [rows |-> db, event |-> event, created |-> created]
Moved(db, i, p) == Effect([db EXCEPT ![i].place = p], db[i].place # p, {})
Updated(db, i, n) == Effect([db EXCEPT ![i].names = {n}], db[i].names # {n}, {})
Created(db, i, c) ==
  Effect(Added(db, i, [kind |-> c.kind, names |-> {c.name},
                       place |-> IF c.refs = {} THEN Nil ELSE CHOOSE p \in c.refs : TRUE]),
         c.kind = "item", {i})
Effects(db, c) ==
  CASE c.tool = "move" ->
         {Moved(db, i, p) : i \in {j \in c.refs : db[j].kind = "item"},
                            p \in {j \in c.refs : db[j].kind = "place"}}
    [] c.tool = "update" -> {Updated(db, i, c.name) : i \in c.refs}
    [] c.tool = "create" -> {Created(db, i, c) : i \in NewIds(db)}

\* Event.id > last_event_id.
NewEvents(log2) == {n \in 1 .. Len(log2) : n > last}

Write ==
  /\ pc = "write" /\ lock # "other"
  /\ \E e \in Effects(View.rows, call) :
       LET log2 == IF e.event THEN Append(View.events, "turn") ELSE View.events
           real == IF call.tool = "create" THEN TRUE ELSE NewEvents(log2) # {}
       IN /\ lock' = "turn"
          /\ draft' = [rows |-> e.rows, events |-> log2]
          /\ known' = [known EXCEPT !.seen = @ \cup e.created, !.resolved = @ \cup e.created,
                                    !.created = @ \cup e.created]
          /\ receipts' = Append(receipts, [changed |-> real,
                                           events |-> IF call.kind = "place" THEN {} ELSE NewEvents(log2)])
          /\ changed' = (changed \/ real)
          /\ Report(Success(TRUE, real))
  /\ UNCHANGED <<rows, events, edits, round, told, last, log>>

\* A conflict of states or names; for a path of places the user may be asked.
Refuse ==
  /\ pc = "write" /\ lock # "other"
  /\ \E asks \in BOOLEAN :
       /\ asks => call.kind = "place"
       /\ Report(Failure(TRUE, asks))
  /\ UNCHANGED <<rows, events, draft, lock, edits, round, known, told, last, changed, receipts, log>>

-----------------------------------------------------------------------------
Settled(state) ==
  [n \in DOMAIN trace |->
     IF trace[n].state = "provisional" THEN [trace[n] EXCEPT !.state = state] ELSE trace[n]]

\* The model answers without calls; an empty answer after a change is a failure.
Answer ==
  /\ pc = "model"
  /\ \E empty \in BOOLEAN :
       IF changed /\ empty
       THEN pc' = "failing" /\ UNCHANGED trace
       ELSE pc' = "ending" /\ trace' = Settled("committed")
  /\ UNCHANGED <<rows, events, draft, lock, edits, round, calls, known, told, call, last,
                 changed, receipts, log>>

\* record_run: the trace, and the receipts of what is committed with it.
Recorded(status, kept) ==
  Append(log, [status |-> status, trace |-> trace, receipts |-> kept])

\* Messages, run, receipts and changes in one commit.
Commit ==
  /\ pc = "ending" /\ lock # "other"
  /\ rows' = View.rows /\ events' = View.events
  /\ draft' = [rows |-> << >>, events |-> << >>] /\ lock' = Nil
  /\ log' = Recorded("completed", receipts)
  /\ pc' = "idle"
  /\ UNCHANGED <<edits, round, calls, known, told, call, last, changed, trace, receipts>>

\* The provider fails.
ProviderFails ==
  /\ pc = "model"
  /\ pc' = "failing"
  /\ UNCHANGED <<rows, events, draft, lock, edits, turnVars>>

\* The disk is full, say.
CommitRaises ==
  /\ pc = "ending"
  /\ pc' = "failing"
  /\ UNCHANGED <<rows, events, draft, lock, edits, turnVars>>

\* Everything is rolled back.
Rollback ==
  /\ pc = "failing"
  /\ draft' = [rows |-> << >>, events |-> << >>]
  /\ lock' = IF lock = "turn" THEN Nil ELSE lock
  /\ trace' = Settled("rolled_back")
  /\ pc' = "recording"
  /\ UNCHANGED <<rows, events, edits, round, calls, known, told, call, last, changed,
                 receipts, log>>

\* The failed run is recorded on its own, or not at all when that fails too.
Record ==
  /\ pc = "recording"
  /\ \/ /\ lock # "other"
        /\ log' = Recorded("failed", << >>)
     \/ /\ lock = "other"
        /\ UNCHANGED log
  /\ pc' = "over"
  /\ UNCHANGED <<rows, events, draft, lock, edits, round, calls, known, told, call, last,
                 changed, trace, receipts>>

Init ==
  /\ rows \in Start /\ events = << >>
  /\ draft = [rows |-> << >>, events |-> << >>] /\ lock = Nil /\ edits = MaxEdits
  /\ pc = "idle" /\ round = 0 /\ calls = 0
  /\ known = Nothing /\ told = Nothing /\ call = NoCall /\ last = 0 /\ changed = FALSE
  /\ trace = << >> /\ receipts = << >> /\ log = << >>

Turn ==
  \/ Begin \/ AnswerWithCalls \/ EndRound \/ Unparsed \/ Search \/ Read \/ AskWrite
  \/ TakeLock \/ Busy \/ Check \/ Write \/ Refuse
  \/ Answer \/ Commit \/ CommitRaises \/ ProviderFails \/ Rollback \/ Record

Next == Turn \/ OtherBegins \/ OtherCommits

Spec == Init /\ [][Next]_vars

-----------------------------------------------------------------------------
Learnt(k) ==
  /\ k.seen \subseteq Ids /\ k.resolved \subseteq k.seen /\ k.created \subseteq k.resolved
  /\ k.evidence \subseteq k.resolved \X Names /\ k.searches \subseteq Kinds \X Names

\* The variables have their types; a turn has no more than max_rounds rounds.
TypeOK ==
  /\ Inventory(rows) /\ Inventory(draft.rows)
  /\ events \in Seq({"turn", "other"}) /\ draft.events \in Seq({"turn", "other"})
  /\ lock \in {"turn", "other", Nil} /\ edits \in 0 .. MaxEdits
  /\ pc \in {"idle", "model", "calls", "lock", "check", "write", "ending", "failing",
             "recording", "over"}
  /\ round \in 0 .. MaxRounds /\ calls \in 0 .. MaxCalls /\ last \in Nat
  /\ Learnt(known) /\ Learnt(told) /\ changed \in BOOLEAN

\* Whatever others rename or add, and whatever ids the model makes up: when a
\* call writes, each of its targets is the only entity with a name that was
\* searched in an earlier answer, or was created in one (_validated_write,
\* WriteResolver).
WritesHitTheNamedOne ==
  [][receipts' # receipts =>
       \A i \in call.refs :
         \/ i \in told.created
         \/ \E n \in Names :
              /\ <<i, n>> \in told.evidence
              /\ Matches(View.rows, View.rows[i].kind, n) = {i}]_vars

Own(log2) == {n \in DOMAIN log2 : log2[n] = "turn"}

\* A turn is all or nothing: nothing of a failed turn is in the inventory and
\* it has no receipts; a completed one had no error after a change and no
\* failed write the user was not asked about, and each of its events is in
\* one receipt (AgentRunner.run).
TurnIsAtomic ==
  /\ TypeOK
  /\ Own(events) # {} => \E n \in DOMAIN log : log[n].status = "completed"
  /\ \A n \in DOMAIN log :
       LET r == log[n] IN
       IF r.status = "failed"
       THEN r.receipts = << >> /\ \A k \in DOMAIN r.trace : r.trace[k].state # "provisional"
       ELSE /\ \A k \in DOMAIN r.trace :
                 /\ r.trace[k].state # "provisional"
                 /\ ~r.trace[k].ok =>
                      /\ \A j \in 1 .. k - 1 : ~r.trace[j].changed
                      /\ r.trace[k].writes => r.trace[k].asks
            /\ \A e \in Own(events) :
                 Cardinality({k \in DOMAIN r.receipts : e \in r.receipts[k].events}) = 1
=============================================================================
