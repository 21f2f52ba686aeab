------------------------------ MODULE TurnProofs ------------------------------
(***************************************************************************)
(* What a turn of the agent writes, and the calls it waits for.            *)
(***************************************************************************)
EXTENDS AgentTurn, SlowTurn, FiniteSetTheorems, SequenceTheorems, TLAPS

(***************************************************************************)
(* A turn is all or nothing and writes only to what its words name: for    *)
(* any names, ids, rounds and calls, and any number of changes by others.  *)
(*                                                                         *)
(* Two facts carry it.  What was looked up under the lock is still so when *)
(* the call writes, since the turn keeps the lock until it ends            *)
(* (PendingInv).  And an event is the turn's own only while it has the     *)
(* lock, so that none of them is older than the count that the pending     *)
(* call started from, whatever others add before it has the lock; so its   *)
(* receipt has its own event and no earlier one of the turn (ReceiptInv).  *)
(***************************************************************************)

Events == {"turn", "other"}
Knowledge == [seen : SUBSET Ids, resolved : SUBSET Ids, evidence : SUBSET (Ids \X Names),
              searches : SUBSET (Kinds \X Names), created : SUBSET Ids]
Result == [writes : BOOLEAN, ok : BOOLEAN, asks : BOOLEAN, changed : BOOLEAN,
           state : {"none", "provisional", "committed", "rolled_back"}]
Receipt == [changed : BOOLEAN, events : SUBSET Nat]

Shapes ==
  /\ known \in Knowledge /\ told \in Knowledge
  /\ trace \in Seq(Result) /\ receipts \in Seq(Receipt)

Pending == {"lock", "check", "write"}
Open == log = << >> /\ pc \notin {"recording", "over"}

\* The call that is executed.
PendingInv ==
  /\ pc \in Pending =>
       /\ call \in Writes /\ calls > 0
       /\ last <= Len(View.events) /\ \A e \in Own(View.events) : e <= last
  /\ pc = "check" => lock = "turn"
  /\ pc = "write" /\ call.refs # {} => lock = "turn" /\ \A i \in call.refs : StillNamed(i)

\* The turn has the lock while it is open, and nothing committed before its end.
LockInv ==
  /\ lock = "turn" => Open
  /\ pc \notin {"idle", "over"} => log = << >>
  /\ log = << >> => Own(events) = {}

\* Each of the turn's events has its one receipt.
ReceiptInv == Open =>
  /\ \A k \in DOMAIN receipts : receipts[k].events \subseteq 1 .. Len(View.events)
  /\ \A e \in Own(View.events) : \E k \in DOMAIN receipts :
       \A j \in DOMAIN receipts : e \in receipts[j].events <=> j = k

\* A failed call has no change before it, and if it was to write, it asks.
Harmless(t) ==
  \A k \in DOMAIN t : ~ t[k].ok =>
    (\A j \in 1 .. k - 1 : ~ t[j].changed) /\ (t[k].writes => t[k].asks)

TraceInv ==
  /\ \A k \in DOMAIN trace : trace[k].changed => changed
  /\ pc \notin {"failing", "recording", "over"} => Harmless(trace)
  /\ pc \in {"ending", "recording"} => \A k \in DOMAIN trace : trace[k].state # "provisional"

\* What TurnIsAtomic says of recorded runs.
LogInv ==
  /\ Own(events) # {} => \E n \in DOMAIN log : log[n].status = "completed"
  /\ \A n \in DOMAIN log :
       LET r == log[n] IN
       IF r.status = "failed"
       THEN r.receipts = << >> /\ \A k \in DOMAIN r.trace : r.trace[k].state # "provisional"
       ELSE /\ \A k \in DOMAIN r.trace : r.trace[k].state # "provisional"
            /\ Harmless(r.trace)
            /\ \A e \in Own(events) : Cardinality({k \in DOMAIN r.receipts : e \in r.receipts[k].events}) = 1

IInv == TypeOK /\ Shapes /\ PendingInv /\ LockInv /\ ReceiptInv /\ TraceInv /\ LogInv

-----------------------------------------------------------------------------
(* Names, calls and their effects                                          *)

\* A name that resolves has that one match.
LEMMA ResolvedIsOnly ==
  ASSUME NEW db, Inventory(db), NEW kind, NEW name, NEW i \in Ids, Resolve(db, kind, name) = i
  PROVE  Matches(db, kind, name) = {i}
<1> DEFINE M == Matches(db, kind, name)
<1>1. IsFiniteSet(M)
  <2>1. IsFiniteSet(1 .. MaxId)
    BY FS_Interval, ConstantsAssumption
  <2>2. M \subseteq 1 .. MaxId
    BY DEF Matches, Of, Inventory, Ids
  <2>3. QED
    BY <2>1, <2>2, FS_Subset
<1>2. i # Nil
  BY ConstantsAssumption DEF Ids
<1>3. Cardinality(M) = 1 /\ i = CHOOSE j \in M : TRUE
  BY <1>2 DEF Resolve
<1>4. PICK x : M = {x}
  BY <1>1, <1>3, FS_Singleton
<1>5. QED
  BY <1>3, <1>4

LEMMA WritesAre ==
  ASSUME NEW c \in Writes
  PROVE  /\ c.tool \in {"move", "update", "create"} /\ c.refs \subseteq Ids /\ c.kind \in Kinds
         /\ c.tool # "create" => c.kind = "item"
         /\ c.tool # "move" => c.name \in Names
<1>1. \/ \E i, p \in Ids : c = Move(i, p)
      \/ \E i \in Ids, n \in Names : c = Update(i, n)
      \/ \E R \in {{}} \cup {{p} : p \in Ids}, k \in Kinds, n \in Names : c = Create(R, k, n)
  BY DEF Writes
<1>2. QED
  BY <1>1 DEF Call, Kinds, Move, Update, Create

LEMMA AddedKeeps ==
  ASSUME NEW db, Inventory(db), NEW i \in Ids, NEW row \in Row
  PROVE  Inventory(Added(db, i, row))
  BY DEF Inventory, Added

LEMMA RenamedKeeps ==
  ASSUME NEW db, Inventory(db), NEW i, NEW N \in (SUBSET Names) \ {{}}
  PROVE  Inventory([db EXCEPT ![i].names = N])
  BY DEF Inventory, Row

LEMMA MovedKeeps ==
  ASSUME NEW db, Inventory(db), NEW i, NEW q \in Ids
  PROVE  Inventory([db EXCEPT ![i].place = q])
  BY DEF Inventory, Row

LEMMA OneName ==
  ASSUME NEW c \in Writes, c.tool # "move"
  PROVE  {c.name} \in (SUBSET Names) \ {{}}
<1>1. c.name \in Names
  BY WritesAre
<1>2. PICK n \in Names : n = c.name
  BY <1>1
<1>3. {n} # {} /\ {n} \in SUBSET Names
  OBVIOUS
<1>4. {n} \in (SUBSET Names) \ {{}}
  BY <1>3
<1>5. QED
  BY <1>2, <1>4

LEMMA EffectsKeep ==
  ASSUME NEW db, Inventory(db), NEW c \in Writes, NEW e \in Effects(db, c)
  PROVE  /\ Inventory(e.rows) /\ e.created \subseteq Ids
         /\ e.event \in BOOLEAN /\ (e.event => c.kind = "item")
<1> USE WritesAre
<1>1. CASE c.tool = "move"
  <2>1. PICK i \in c.refs, q \in c.refs : e = Moved(db, i, q)
    BY <1>1 DEF Effects
  <2>2. QED
    BY <1>1, <2>1, MovedKeeps DEF Effect, Moved
<1>2. CASE c.tool = "update"
  <2>1. PICK i \in c.refs : e = Updated(db, i, c.name)
    BY <1>2 DEF Effects
  <2>2. {c.name} \in (SUBSET Names) \ {{}}
    BY <1>2, OneName
  <2>3. Inventory([db EXCEPT ![i].names = {c.name}])
    BY <2>2, RenamedKeeps
  <2>4. e.rows = [db EXCEPT ![i].names = {c.name}] /\ e.event = (db[i].names # {c.name}) /\ e.created = {}
    BY <2>1 DEF Effect, Updated
  <2>5. QED
    BY <1>2, <2>3, <2>4
<1>3. CASE c.tool = "create"
  <2>1. PICK i \in NewIds(db) : e = Created(db, i, c)
    BY <1>3 DEF Effects
  <2>2. PICK row \in Row : e = Effect(Added(db, i, row), c.kind = "item", {i})
    <3> DEFINE place == IF c.refs = {} THEN Nil ELSE CHOOSE p \in c.refs : TRUE
    <3>1. place \in Ids \cup {Nil}
      OBVIOUS
    <3>2. {c.name} \in (SUBSET Names) \ {{}}
      BY <1>3, OneName
    <3> HIDE DEF place
    <3>3. [kind |-> c.kind, names |-> {c.name}, place |-> place] \in Row
      BY <3>1, <3>2 DEF Row
    <3>4. e = Effect(Added(db, i, [kind |-> c.kind, names |-> {c.name}, place |-> place]), c.kind = "item", {i})
      BY <2>1 DEF Created, place
    <3>5. QED
      BY <3>3, <3>4
  <2>3. i \in Ids
    BY DEF NewIds
  <2>4. QED
    BY <2>2, <2>3, AddedKeeps DEF Effect
<1>4. QED
  BY <1>1, <1>2, <1>3

-----------------------------------------------------------------------------
(* Results of tools                                                        *)

Stopped == {"failing", "recording", "over"}

LEMMA Results ==
  /\ \A writes, asks \in BOOLEAN : Failure(writes, asks) \in Result /\ ~ Failure(writes, asks).changed
  /\ \A writes, real \in BOOLEAN : /\ Success(writes, real) \in Result
                                   /\ Success(writes, real).changed = real
  BY DEF Failure, Success, Result

\* What a step does to the trace.
LEMMA TraceCases ==
  ASSUME IInv, [Next]_vars
  PROVE  /\ changed' \in BOOLEAN /\ (changed => changed')
         /\ \/ /\ UNCHANGED trace /\ (pc' \notin Stopped => pc \notin Stopped)
               /\ pc' \in {"ending", "recording"} => pc = pc'
            \/ pc = "model" /\ pc' = "ending" /\ trace' = Settled("committed")
            \/ pc = "failing" /\ pc' = "recording" /\ trace' = Settled("rolled_back")
            \/ /\ calls > 0 /\ pc \in Pending \cup {"calls"}
               /\ \E r \in Result : Report(r) /\ (r.changed => changed')
<1> USE DEF IInv
<1>0. changed \in BOOLEAN /\ (pc \in Pending => calls > 0)
  BY DEF TypeOK, PendingInv
<1>1. CASE Unparsed
  BY <1>0, <1>1, Results DEF Unparsed
<1>2. CASE Search
  <2>1. Success(FALSE, FALSE) \in Result /\ ~ Success(FALSE, FALSE).changed
    BY Results
  <2>2. Report(Success(FALSE, FALSE)) /\ UNCHANGED changed /\ pc = "calls" /\ calls > 0
    BY <1>2 DEF Search
  <2>3. QED
    BY <1>0, <2>1, <2>2
<1>3. CASE Read
  <2>1. /\ Success(FALSE, FALSE) \in Result /\ ~ Success(FALSE, FALSE).changed
        /\ Failure(FALSE, FALSE) \in Result /\ ~ Failure(FALSE, FALSE).changed
    BY Results
  <2>2. /\ Report(Success(FALSE, FALSE)) \/ Report(Failure(FALSE, FALSE))
        /\ UNCHANGED changed /\ pc = "calls" /\ calls > 0
    BY <1>3 DEF Read
  <2>3. QED
    BY <1>0, <2>1, <2>2
<1>4. CASE AskWrite
  BY <1>0, <1>4, Results DEF AskWrite, Stopped
<1>5. CASE Check
  BY <1>0, <1>5, Results DEF Check, Stopped, Pending
<1>6. CASE Write
  <2>1. PICK real \in BOOLEAN : Report(Success(TRUE, real)) /\ changed' = (changed \/ real)
    BY <1>6 DEF Write
  <2>2. Success(TRUE, real) \in Result /\ Success(TRUE, real).changed = real
    BY Results
  <2>3. changed' \in BOOLEAN /\ (changed => changed') /\ (real => changed')
    BY <1>0, <2>1
  <2>4. QED
    BY <1>0, <1>6, <2>1, <2>2, <2>3 DEF Write, Pending
<1>7. CASE Refuse
  BY <1>0, <1>7, Results DEF Refuse, Pending
<1>8. CASE Answer \/ Rollback
  BY <1>0, <1>8 DEF Answer, Rollback, Stopped
<1>9. CASE Begin \/ AnswerWithCalls \/ EndRound \/ TakeLock \/ Busy \/ Commit \/ CommitRaises
           \/ ProviderFails \/ Record \/ OtherBegins \/ OtherCommits \/ UNCHANGED vars
  BY <1>0, <1>9 DEF Begin, AnswerWithCalls, EndRound, TakeLock, Busy, Commit, CommitRaises,
     ProviderFails, Record, OtherBegins, OtherCommits, turnVars, vars, Stopped
<1>10. QED
  BY <1>1, <1>2, <1>3, <1>4, <1>5, <1>6, <1>7, <1>8, <1>9 DEF Next, Turn

LEMMA SettledTrace ==
  ASSUME trace \in Seq(Result), NEW state \in {"committed", "rolled_back"}
  PROVE  /\ Settled(state) \in Seq(Result) /\ Len(Settled(state)) = Len(trace)
         /\ DOMAIN Settled(state) = DOMAIN trace
         /\ \A k \in DOMAIN trace :
              /\ Settled(state)[k].ok = trace[k].ok /\ Settled(state)[k].writes = trace[k].writes
              /\ Settled(state)[k].asks = trace[k].asks /\ Settled(state)[k].changed = trace[k].changed
              /\ Settled(state)[k].state # "provisional"
<1>1. DOMAIN trace = 1 .. Len(trace) /\ Len(trace) \in Nat /\ \A k \in DOMAIN trace : trace[k] \in Result
  OBVIOUS
<1>2. DOMAIN Settled(state) = 1 .. Len(trace)
  BY <1>1 DEF Settled
<1>3. ASSUME NEW k \in DOMAIN trace
      PROVE  /\ Settled(state)[k] \in Result
             /\ Settled(state)[k].ok = trace[k].ok /\ Settled(state)[k].writes = trace[k].writes
             /\ Settled(state)[k].asks = trace[k].asks /\ Settled(state)[k].changed = trace[k].changed
             /\ Settled(state)[k].state # "provisional"
  <2>1. PICK r \in Result : r = trace[k]
    BY <1>1
  <2>2. Settled(state)[k] = IF r.state = "provisional" THEN [r EXCEPT !.state = state] ELSE r
    BY <2>1 DEF Settled
  <2>3. QED
    BY <2>1, <2>2 DEF Result
<1>4. Settled(state) \in [1 .. Len(trace) -> Result]
  BY <1>1, <1>2, <1>3 DEF Settled
<1>5. Settled(state) \in Seq(Result) /\ Len(Settled(state)) = Len(trace)
  BY <1>1, <1>4
<1>6. QED
  BY <1>1, <1>2, <1>3, <1>5

LEMMA ReportedTrace ==
  ASSUME IInv, NEW r \in Result, Report(r)
  PROVE  /\ trace' \in Seq(Result) /\ Len(trace') = Len(trace) + 1
         /\ DOMAIN trace = 1 .. Len(trace) /\ DOMAIN trace' = 1 .. Len(trace) + 1
         /\ \A k \in DOMAIN trace : trace'[k] = trace[k]
         /\ trace'[Len(trace) + 1] = r
  BY DEF IInv, Shapes, Report

LEMMA TraceStep ==
  ASSUME IInv, [Next]_vars
  PROVE  TraceInv' /\ trace' \in Seq(Result)
<1> USE DEF IInv
<1>0. changed' \in BOOLEAN /\ (changed => changed') /\ trace \in Seq(Result)
  BY TraceCases DEF Shapes
<1>1. CASE /\ UNCHANGED trace /\ (pc' \notin Stopped => pc \notin Stopped)
           /\ pc' \in {"ending", "recording"} => pc = pc'
  BY <1>0, <1>1 DEF TraceInv, Harmless, Stopped
<1>2. CASE pc = "model" /\ pc' = "ending" /\ trace' = Settled("committed")
  BY <1>0, <1>2, SettledTrace, SMTT(30) DEF TraceInv, Harmless
<1>3. CASE pc = "failing" /\ pc' = "recording" /\ trace' = Settled("rolled_back")
  BY <1>0, <1>3, SettledTrace, SMTT(30) DEF TraceInv, Harmless
<1>4. ASSUME pc \in Pending \cup {"calls"}, NEW r \in Result, Report(r), r.changed => changed'
      PROVE  TraceInv' /\ trace' \in Seq(Result)
  <2>1. /\ trace' \in Seq(Result) /\ Len(trace) \in Nat
        /\ DOMAIN trace = 1 .. Len(trace) /\ DOMAIN trace' = 1 .. Len(trace) + 1
        /\ \A k \in DOMAIN trace : trace'[k] = trace[k]
        /\ trace'[Len(trace) + 1] = r
    BY <1>0, <1>4, ReportedTrace
  <2>2. \A k \in DOMAIN trace' : k \in DOMAIN trace \/ k = Len(trace) + 1
    BY <2>1
  <2>3. \A k \in DOMAIN trace' : trace'[k].changed => changed'
    BY <1>0, <1>4, <2>1, <2>2 DEF TraceInv
  <2>4. /\ pc' \in {"calls", "failing"}
        /\ pc' # "failing" => r.ok \/ (~ changed /\ (~ r.writes \/ r.asks))
    BY <1>4 DEF Report, Tolerates
  <2>5. ASSUME pc' # "failing" PROVE Harmless(trace')
    <3>1. Harmless(trace) /\ \A k \in DOMAIN trace : trace[k].changed => changed
      BY <1>4 DEF TraceInv, Pending
    <3>2. SUFFICES ASSUME NEW k \in DOMAIN trace', ~ trace'[k].ok
                   PROVE  /\ \A j \in 1 .. k - 1 : ~ trace'[j].changed
                          /\ trace'[k].writes => trace'[k].asks
      BY DEF Harmless
    <3>3. CASE k \in DOMAIN trace
      <4>1. \A j \in 1 .. k - 1 : j \in DOMAIN trace
        BY <2>1, <3>3
      <4>2. QED
        BY <2>1, <3>1, <3>2, <3>3, <4>1 DEF Harmless
    <3>4. CASE k = Len(trace) + 1
      <4>1. \A j \in 1 .. k - 1 : j \in DOMAIN trace
        BY <2>1, <3>4
      <4>2. ~ changed /\ (r.writes => r.asks)
        BY <2>1, <2>4, <2>5, <3>2, <3>4
      <4>3. QED
        BY <2>1, <3>1, <3>4, <4>1, <4>2
    <3>5. QED
      BY <2>2, <3>3, <3>4
  <2>6. QED
    BY <2>1, <2>3, <2>4, <2>5 DEF TraceInv
<1>5. QED
  BY <1>1, <1>2, <1>3, <1>4, TraceCases

-----------------------------------------------------------------------------
(* What the turn and the others see and write                              *)

LEMMA ViewIs ==
  ASSUME IInv
  PROVE  /\ Inventory(View.rows) /\ View.events \in Seq(Events)
         /\ Len(View.events) \in Nat /\ DOMAIN View.events = 1 .. Len(View.events)
         /\ Own(View.events) \subseteq 1 .. Len(View.events)
<1>1. Inventory(View.rows) /\ View.events \in Seq(Events)
  BY DEF IInv, TypeOK, View, Events
<1>2. QED
  BY <1>1 DEF Own

LEMMA OwnAppended ==
  ASSUME NEW s \in Seq(Events), NEW w \in Events
  PROVE  /\ Append(s, w) \in Seq(Events) /\ Len(Append(s, w)) = Len(s) + 1
         /\ Own(Append(s, w)) = IF w = "turn" THEN Own(s) \cup {Len(s) + 1} ELSE Own(s)
<1> DEFINE t == Append(s, w)
<1>1. /\ t \in Seq(Events) /\ Len(t) = Len(s) + 1 /\ Len(s) \in Nat
      /\ DOMAIN s = 1 .. Len(s) /\ DOMAIN t = 1 .. Len(s) + 1
      /\ t[Len(s) + 1] = w /\ \A n \in 1 .. Len(s) : t[n] = s[n]
  OBVIOUS
<1> HIDE DEF t
<1>2. DOMAIN t = DOMAIN s \cup {Len(s) + 1}
  BY <1>1
<1>3. Own(t) = IF w = "turn" THEN Own(s) \cup {Len(s) + 1} ELSE Own(s)
  BY <1>1, <1>2 DEF Own
<1>4. QED
  BY <1>1, <1>3 DEF t

\* What others commit leaves the turn's events where they are.
LEMMA OthersKeep ==
  ASSUME IInv, OtherCommits
  PROVE  /\ Inventory(rows') /\ events' \in Seq(Events)
         /\ Own(events') = Own(events) /\ Len(events) <= Len(events')
<1>1. Inventory(rows) /\ events \in Seq(Events)
  BY DEF IInv, TypeOK, Events
<1>2. Inventory(rows')
  <2>1. CASE \E i \in DOMAIN rows, N \in (SUBSET Names) \ {{}} : rows' = [rows EXCEPT ![i].names = N]
    <3>1. PICK i \in DOMAIN rows, N \in (SUBSET Names) \ {{}} : rows' = [rows EXCEPT ![i].names = N]
      BY <2>1
    <3>2. Inventory([rows EXCEPT ![i].names = N])
      BY <1>1, RenamedKeeps
    <3>3. QED
      BY <3>1, <3>2
  <2>2. CASE \E i \in NewIds(rows), k \in Kinds, n \in Names :
               rows' = Added(rows, i, [kind |-> k, names |-> {n}, place |-> Nil])
    <3>1. PICK i \in Ids, k \in Kinds, n \in Names :
                 rows' = Added(rows, i, [kind |-> k, names |-> {n}, place |-> Nil])
      BY <2>2 DEF NewIds
    <3>2. {n} \in (SUBSET Names) \ {{}}
      OBVIOUS
    <3>3. [kind |-> k, names |-> {n}, place |-> Nil] \in Row
      BY <3>2 DEF Row
    <3>4. QED
      BY <1>1, <3>1, <3>3, AddedKeeps
  <2>3. QED
    BY <2>1, <2>2 DEF OtherCommits
<1>3. events' = Append(events, "other") \/ events' = events
  BY DEF OtherCommits
<1>4. PICK s \in Seq(Events) : s = events
  BY <1>1
<1>5. /\ Append(s, "other") \in Seq(Events) /\ Len(Append(s, "other")) = Len(s) + 1
      /\ Own(Append(s, "other")) = Own(s)
  BY OwnAppended DEF Events
<1>6. CASE events' = Append(s, "other")
  BY <1>2, <1>4, <1>5, <1>6
<1>7. CASE events' = s
  BY <1>2, <1>4, <1>7
<1>8. QED
  BY <1>3, <1>4, <1>6, <1>7

\* What a write does, whichever its call.
LEMMA WriteDoes ==
  ASSUME IInv, Write
  PROVE  /\ call \in Writes /\ lock' = "turn"
         /\ Inventory(draft'.rows) /\ draft'.events \in Seq(Events)
         /\ known' \in Knowledge /\ Learnt(known')
         /\ \/ draft'.events = View.events
            \/ draft'.events = Append(View.events, "turn") /\ call.kind = "item"
         /\ \E b \in BOOLEAN : receipts' = Append(receipts,
              [changed |-> b, events |-> IF call.kind = "place" THEN {} ELSE NewEvents(draft'.events)])
<1>1. call \in Writes
  BY DEF IInv, PendingInv, Pending, Write
<1>2. PICK e \in Effects(View.rows, call) :
        LET log2 == IF e.event THEN Append(View.events, "turn") ELSE View.events
            real == IF call.tool = "create" THEN TRUE ELSE NewEvents(log2) # {}
        IN /\ draft' = [rows |-> e.rows, events |-> log2]
           /\ known' = [known EXCEPT !.seen = @ \cup e.created, !.resolved = @ \cup e.created,
                                     !.created = @ \cup e.created]
           /\ receipts' = Append(receipts, [changed |-> real,
                                            events |-> IF call.kind = "place" THEN {} ELSE NewEvents(log2)])
  BY DEF Write
<1>3. /\ Inventory(e.rows) /\ e.created \subseteq Ids
      /\ e.event \in BOOLEAN /\ (e.event => call.kind = "item")
  BY <1>1, EffectsKeep, ViewIs
<1>4. Inventory(draft'.rows)
  BY <1>2, <1>3
<1>5. /\ \/ draft'.events = View.events
         \/ draft'.events = Append(View.events, "turn") /\ call.kind = "item"
  BY <1>2, <1>3
<1>6. draft'.events \in Seq(Events)
  BY <1>5, ViewIs, OwnAppended DEF Events
<1>7. known' \in Knowledge /\ Learnt(known')
  <2>1. PICK C \in SUBSET Ids : C = e.created
    BY <1>3
  <2>2. known \in Knowledge /\ Learnt(known)
    BY DEF IInv, TypeOK, Shapes
  <2>3. known' = [known EXCEPT !.seen = @ \cup C, !.resolved = @ \cup C, !.created = @ \cup C]
    BY <1>2, <2>1
  <2>4. QED
    BY <2>2, <2>3 DEF Knowledge, Learnt
<1>8. QED
  BY <1>1, <1>2, <1>4, <1>5, <1>6, <1>7 DEF Write

\* Only these change what the turn sees.
LEMMA ViewKept ==
  ASSUME IInv, [Next]_vars, ~ Write, ~ Commit, ~ Rollback, ~ OtherCommits
  PROVE  View' = View
<1>1. CASE TakeLock
  BY <1>1, ConstantsAssumption DEF TakeLock, View
<1>2. CASE OtherBegins
  <2>1. lock # "turn"
    BY <1>2, ConstantsAssumption DEF OtherBegins
  <2>2. QED
    BY <1>2, <2>1 DEF OtherBegins, View
<1>3. CASE \/ Begin \/ AnswerWithCalls \/ EndRound \/ Unparsed \/ Search \/ Read \/ AskWrite
           \/ Busy \/ Check \/ Refuse \/ Answer \/ CommitRaises \/ ProviderFails \/ Record
           \/ UNCHANGED vars
  BY <1>3 DEF Begin, AnswerWithCalls, EndRound, Unparsed, Search, Read, AskWrite, Busy, Check,
     Refuse, Answer, CommitRaises, ProviderFails, Record, turnVars, vars, View
<1>4. QED
  BY <1>1, <1>2, <1>3 DEF Next, Turn

\* Nothing the turn sees is lost before it ends.
LEMMA ViewGrows ==
  ASSUME IInv, [Next]_vars, ~ Write, ~ Commit, ~ Rollback
  PROVE  /\ Own(View'.events) = Own(View.events) /\ Len(View.events) <= Len(View'.events)
         /\ lock = "turn" => View' = View
<1>1. CASE OtherCommits
  <2>1. View = [rows |-> rows, events |-> events] /\ View' = [rows |-> rows', events |-> events']
    BY <1>1, ConstantsAssumption DEF OtherCommits, View
  <2>2. QED
    BY <1>1, <2>1, OthersKeep DEF OtherCommits
<1>2. CASE ~ OtherCommits
  <2>1. View' = View /\ Len(View.events) \in Nat
    BY <1>2, ViewKept, ViewIs
  <2>2. QED
    BY <2>1
<1>3. QED
  BY <1>1, <1>2

-----------------------------------------------------------------------------
(* Types                                                                   *)

LEMMA DataStep ==
  ASSUME IInv, [Next]_vars
  PROVE  /\ Inventory(rows') /\ Inventory(draft'.rows)
         /\ events' \in Seq(Events) /\ draft'.events \in Seq(Events)
<1>1. /\ Inventory(rows) /\ Inventory(draft.rows)
      /\ events \in Seq(Events) /\ draft.events \in Seq(Events)
  BY DEF IInv, TypeOK, Events
<1>2. Inventory(View.rows) /\ View.events \in Seq(Events)
  BY ViewIs
<1>3. Inventory(<< >>) /\ << >> \in Seq(Events)
  BY DEF Inventory
<1>4. CASE OtherCommits
  BY <1>1, <1>4, OthersKeep DEF OtherCommits
<1>5. CASE Write
  BY <1>1, <1>5, WriteDoes DEF Write
<1>6. CASE Commit \/ Rollback
  <2>1. draft' = [rows |-> << >>, events |-> << >>]
    BY <1>6 DEF Commit, Rollback
  <2>2. (rows' = View.rows /\ events' = View.events) \/ UNCHANGED <<rows, events>>
    BY <1>6 DEF Commit, Rollback
  <2>3. draft'.rows = << >> /\ draft'.events = << >>
    BY <2>1
  <2>4. QED
    BY <1>1, <1>2, <1>3, <2>2, <2>3
<1>7. CASE TakeLock
  BY <1>1, <1>2, <1>7 DEF TakeLock
<1>8. CASE \/ Begin \/ AnswerWithCalls \/ EndRound \/ Unparsed \/ Search \/ Read \/ AskWrite
           \/ Busy \/ Check \/ Refuse \/ Answer \/ CommitRaises \/ ProviderFails \/ Record
           \/ OtherBegins \/ UNCHANGED vars
  BY <1>1, <1>8 DEF Begin, AnswerWithCalls, EndRound, Unparsed, Search, Read, AskWrite, Busy, Check,
     Refuse, Answer, CommitRaises, ProviderFails, Record, OtherBegins, turnVars, vars
<1>9. QED
  BY <1>4, <1>5, <1>6, <1>7, <1>8 DEF Next, Turn

LEMMA KnowledgeStep ==
  ASSUME IInv, [Next]_vars
  PROVE  /\ known' \in Knowledge /\ told' \in Knowledge
         /\ Learnt(known') /\ Learnt(told')
<1>1. known \in Knowledge /\ told \in Knowledge /\ Learnt(known) /\ Learnt(told)
  BY DEF IInv, TypeOK, Shapes
<1>2. CASE Search
  <2>1. PICK kind \in Kinds, name \in Names : \E found \in SUBSET Of(View.rows, kind) :
          LET id == Resolve(View.rows, kind, name)
              exact == id # Nil /\ id \in found
          IN known' = [known EXCEPT
               !.seen = @ \cup found,
               !.searches = @ \cup {<<kind, name>>},
               !.resolved = IF exact THEN @ \cup {id} ELSE @,
               !.evidence = IF exact THEN @ \cup {<<id, name>>} ELSE @]
    BY <1>2 DEF Search
  <2>2. Of(View.rows, kind) \subseteq Ids
    BY ViewIs DEF Of, Inventory
  <2>3. PICK found \in SUBSET Ids, R \in SUBSET Ids :
          /\ R \subseteq found
          /\ \E E \in SUBSET (R \X {name}) :
               known' = [known EXCEPT !.seen = @ \cup found, !.searches = @ \cup {<<kind, name>>},
                                      !.resolved = @ \cup R, !.evidence = @ \cup E]
    <3>1. PICK found \in SUBSET Ids : \E id :
            LET exact == id # Nil /\ id \in found
            IN known' = [known EXCEPT
                 !.seen = @ \cup found,
                 !.searches = @ \cup {<<kind, name>>},
                 !.resolved = IF exact THEN @ \cup {id} ELSE @,
                 !.evidence = IF exact THEN @ \cup {<<id, name>>} ELSE @]
      BY <2>1, <2>2
    <3>2. PICK id :
            LET exact == id # Nil /\ id \in found
            IN known' = [known EXCEPT
                 !.seen = @ \cup found,
                 !.searches = @ \cup {<<kind, name>>},
                 !.resolved = IF exact THEN @ \cup {id} ELSE @,
                 !.evidence = IF exact THEN @ \cup {<<id, name>>} ELSE @]
      BY <3>1
    <3>3. CASE id # Nil /\ id \in found
      <4>1. {id} \in SUBSET Ids /\ {id} \subseteq found /\ {<<id, name>>} \in SUBSET ({id} \X {name})
        BY <3>3
      <4>2. known' = [known EXCEPT !.seen = @ \cup found, !.searches = @ \cup {<<kind, name>>},
                                   !.resolved = @ \cup {id}, !.evidence = @ \cup {<<id, name>>}]
        BY <3>2, <3>3
      <4>3. QED
        BY <4>1, <4>2
    <3>4. CASE ~ (id # Nil /\ id \in found)
      <4>1. {} \in SUBSET Ids /\ {} \subseteq found /\ {} \in SUBSET ({} \X {name})
        OBVIOUS
      <4>2. /\ known.resolved \cup {} = known.resolved /\ known.evidence \cup {} = known.evidence
        OBVIOUS
      <4>3. known' = [known EXCEPT !.seen = @ \cup found, !.searches = @ \cup {<<kind, name>>},
                                   !.resolved = @ \cup {}, !.evidence = @ \cup {}]
        BY <1>1, <3>2, <3>4, <4>2 DEF Knowledge
      <4>4. QED
        BY <4>1, <4>3
    <3>5. QED
      BY <3>3, <3>4
  <2>4. PICK E \in SUBSET (R \X {name}) :
               known' = [known EXCEPT !.seen = @ \cup found, !.searches = @ \cup {<<kind, name>>},
                                      !.resolved = @ \cup R, !.evidence = @ \cup E]
    BY <2>3
  <2>5. known' \in Knowledge /\ Learnt(known')
    <3>1. /\ DOMAIN known' = {"seen", "resolved", "evidence", "searches", "created"}
          /\ known' = [seen |-> known.seen \cup found, resolved |-> known.resolved \cup R,
                       evidence |-> known.evidence \cup E, created |-> known.created,
                       searches |-> known.searches \cup {<<kind, name>>}]
      BY <1>1, <2>4 DEF Knowledge
    <3>2. /\ known.seen \cup found \in SUBSET Ids /\ known.resolved \cup R \in SUBSET Ids
          /\ known.searches \cup {<<kind, name>>} \in SUBSET (Kinds \X Names)
          /\ known.created \in SUBSET Ids
          /\ known.resolved \cup R \subseteq known.seen \cup found
          /\ known.created \subseteq known.resolved \cup R
      BY <1>1, <2>3 DEF Knowledge, Learnt
    <3>3. E \in SUBSET (Ids \X Names) /\ E \in SUBSET ((known.resolved \cup R) \X Names)
      OBVIOUS
    <3>4. /\ known.evidence \in SUBSET (Ids \X Names)
          /\ known.evidence \in SUBSET ((known.resolved \cup R) \X Names)
      BY <1>1 DEF Knowledge, Learnt
    <3>5. QED
      BY <3>1, <3>2, <3>3, <3>4 DEF Knowledge, Learnt
  <2>6. QED
    BY <1>1, <1>2, <2>5 DEF Search
<1>3. CASE Read
  <2>1. PICK S : (known' = [known EXCEPT !.seen = @ \cup S] /\ S \subseteq Ids) \/ known' = known
    BY <1>3, ViewIs DEF Read, Inventory
  <2>2. QED
    BY <1>1, <1>3, <2>1 DEF Read, Knowledge, Learnt
<1>4. CASE Write
  BY <1>1, <1>4, WriteDoes DEF Write
<1>5. CASE AnswerWithCalls
  BY <1>1, <1>5 DEF AnswerWithCalls
<1>6. CASE EndRound
  BY <1>1, <1>6 DEF EndRound, Nothing, Knowledge, Learnt
<1>7. CASE \/ Begin \/ Unparsed \/ AskWrite \/ TakeLock \/ Busy \/ Check \/ Refuse \/ Answer
           \/ Commit \/ CommitRaises \/ ProviderFails \/ Rollback \/ Record
           \/ OtherBegins \/ OtherCommits \/ UNCHANGED vars
  BY <1>1, <1>7 DEF Begin, Unparsed, AskWrite, TakeLock, Busy, Check, Refuse, Answer, Commit,
     CommitRaises, ProviderFails, Rollback, Record, OtherBegins, OtherCommits, turnVars, vars
<1>8. QED
  BY <1>2, <1>3, <1>4, <1>5, <1>6, <1>7 DEF Next, Turn

LEMMA ReceiptsStep ==
  ASSUME IInv, [Next]_vars
  PROVE  receipts' \in Seq(Receipt) /\ (~ Write => UNCHANGED receipts)
<1>1. receipts \in Seq(Receipt)
  BY DEF IInv, Shapes
<1>2. CASE Write
  <2>1. NewEvents(draft'.events) \subseteq Nat
    BY DEF NewEvents
  <2>2. PICK b \in BOOLEAN, E \in SUBSET Nat : receipts' = Append(receipts, [changed |-> b, events |-> E])
    BY <1>2, <2>1, WriteDoes
  <2>3. [changed |-> b, events |-> E] \in Receipt
    BY DEF Receipt
  <2>4. QED
    BY <1>1, <1>2, <2>2, <2>3
<1>3. CASE ~ Write
  BY <1>1, <1>3 DEF Next, Turn, Begin, AnswerWithCalls, EndRound, Unparsed, Search, Read, AskWrite,
     TakeLock, Busy, Check, Refuse, Answer, Commit, CommitRaises, ProviderFails, Rollback, Record,
     OtherBegins, OtherCommits, turnVars, vars
<1>4. QED
  BY <1>2, <1>3

LEMMA ControlStep ==
  ASSUME IInv, [Next]_vars
  PROVE  /\ lock' \in {"turn", "other", Nil} /\ edits' \in 0 .. MaxEdits
         /\ pc' \in {"idle", "model", "calls", "lock", "check", "write", "ending", "failing",
                     "recording", "over"}
         /\ round' \in 0 .. MaxRounds /\ calls' \in 0 .. MaxCalls /\ last' \in Nat
<1> USE DEF TypeOK
<1>0. TypeOK /\ MaxRounds \in Nat \ {0} /\ MaxCalls \in Nat /\ MaxEdits \in Nat
  BY ConstantsAssumption DEF IInv
<1>1. CASE Begin \/ EndRound
  BY <1>0, <1>1 DEF Begin, EndRound
<1>2. CASE AnswerWithCalls
  <2>1. Len(trace) \in Nat
    BY DEF IInv, Shapes
  <2>2. QED
    BY <1>0, <1>2, <2>1 DEF AnswerWithCalls
<1>3. CASE \E r \in Result : Report(r) /\ calls > 0 /\ UNCHANGED <<edits, round>>
             /\ lock' \in {"turn", lock} /\ last' \in Nat
  BY <1>0, <1>3 DEF Report
<1>4. CASE Unparsed \/ Search \/ Read \/ Refuse \/ Write
  <2>1. /\ \A writes, asks \in BOOLEAN : Failure(writes, asks) \in Result
        /\ \A writes, real \in BOOLEAN : Success(writes, real) \in Result
    BY Results
  <2>2. (pc \in Pending => calls > 0) /\ last \in Nat
    BY <1>0 DEF IInv, PendingInv
  <2>3. CASE Unparsed
    BY <1>3, <2>1, <2>2, <2>3 DEF Unparsed
  <2>4. CASE Search
    <3>1. /\ Report(Success(FALSE, FALSE)) /\ calls > 0
          /\ UNCHANGED <<edits, round, lock, last>>
      BY <2>4 DEF Search
    <3>2. QED
      BY <1>3, <2>1, <2>2, <3>1
  <2>5. CASE Read
    <3>1. /\ Report(Success(FALSE, FALSE)) \/ Report(Failure(FALSE, FALSE))
          /\ UNCHANGED <<edits, round, lock, last>> /\ calls > 0
      BY <2>5 DEF Read
    <3>2. QED
      BY <1>3, <2>1, <2>2, <3>1
  <2>6. CASE Refuse
    BY <1>3, <2>1, <2>2, <2>6 DEF Refuse, Pending
  <2>7. CASE Write
    <3>1. PICK real \in BOOLEAN : Report(Success(TRUE, real)) /\ lock' = "turn"
      BY <2>7 DEF Write
    <3>2. QED
      BY <1>3, <2>1, <2>2, <2>7, <3>1 DEF Write, Pending
  <2>8. QED
    BY <1>4, <2>3, <2>4, <2>5, <2>6, <2>7
<1>5. CASE AskWrite \/ Check
  <2>1. Len(View.events) \in Nat /\ (pc = "check" => calls > 0)
    BY ViewIs DEF IInv, PendingInv, Pending
  <2>2. CASE AskWrite
    <3>1. /\ last' = Len(View.events) /\ UNCHANGED <<lock, edits, round>>
          /\ pc' \in {"lock", "write", "calls", "failing"}
          /\ calls' = calls \/ (calls > 0 /\ calls' = calls - 1)
      BY <2>2 DEF AskWrite, Report
    <3>2. QED
      BY <1>0, <2>1, <3>1
  <2>3. CASE Check
    <3>1. /\ UNCHANGED <<lock, edits, round, last>>
          /\ pc' \in {"write", "calls", "failing"}
          /\ calls' = calls \/ (calls > 0 /\ calls' = calls - 1)
      BY <2>1, <2>3 DEF Check, Report
    <3>2. QED
      BY <1>0, <3>1
  <2>4. QED
    BY <1>5, <2>2, <2>3
<1>6. CASE \/ TakeLock \/ Busy \/ Answer \/ Commit \/ CommitRaises \/ ProviderFails \/ Rollback
           \/ Record \/ OtherBegins \/ OtherCommits \/ UNCHANGED vars
  BY <1>0, <1>6 DEF TakeLock, Busy, Answer, Commit, CommitRaises, ProviderFails, Rollback, Record,
     OtherBegins, OtherCommits, turnVars, vars
<1>7. QED
  BY <1>1, <1>2, <1>4, <1>5, <1>6 DEF Next, Turn

LEMMA TypeStep ==
  ASSUME IInv, [Next]_vars
  PROVE  TypeOK' /\ Shapes'
<1>1. changed' \in BOOLEAN /\ trace' \in Seq(Result)
  BY TraceCases, TraceStep
<1>2. QED
  BY <1>1, DataStep, KnowledgeStep, ReceiptsStep, ControlStep DEF TypeOK, Shapes, Events

-----------------------------------------------------------------------------
(* The invariants, step by step                                            *)

LEMMA LogKept ==
  ASSUME IInv, [Next]_vars, ~ Commit, ~ Record
  PROVE  UNCHANGED log
  BY DEF Next, Turn, Begin, AnswerWithCalls, EndRound, Unparsed, Search, Read, AskWrite, TakeLock,
     Busy, Check, Write, Refuse, Answer, CommitRaises, ProviderFails, Rollback, OtherBegins,
     OtherCommits, turnVars, vars

\* The log grows by one run.
LEMMA LogGrows ==
  ASSUME IInv, Commit \/ Record, log' # log
  PROVE  /\ log = << >> /\ pc \in {"ending", "recording"}
         /\ \E status, kept :
              /\ log' = << [status |-> status, trace |-> trace, receipts |-> kept] >>
              /\ \/ Commit /\ status = "completed" /\ kept = receipts
                 \/ Record /\ status = "failed" /\ kept = << >>
<1>1. pc \in {"ending", "recording"}
  BY DEF Commit, Record
<1>2. log = << >>
  BY <1>1 DEF IInv, LockInv
<1>3. CASE Commit
  BY <1>1, <1>2, <1>3 DEF Commit, Recorded
<1>4. CASE Record
  BY <1>1, <1>2, <1>4 DEF Record, Recorded
<1>5. QED
  BY <1>3, <1>4

LEMMA OwnKept ==
  ASSUME IInv, [Next]_vars, ~ Commit
  PROVE  Own(events') = Own(events)
<1>1. CASE OtherCommits
  BY <1>1, OthersKeep
<1>2. CASE ~ OtherCommits
  <2>1. events' = events
    BY <1>2 DEF Next, Turn, Begin, AnswerWithCalls, EndRound, Unparsed, Search, Read, AskWrite,
       TakeLock, Busy, Check, Write, Refuse, Answer, CommitRaises, ProviderFails, Rollback, Record,
       OtherBegins, turnVars, vars
  <2>2. QED
    BY <2>1
<1>3. QED
  BY <1>1, <1>2

LEMMA LockStep ==
  ASSUME IInv, [Next]_vars
  PROVE  LockInv'
<1>0. LockInv
  BY DEF IInv
<1>1. CASE Commit \/ (Record /\ log' # log)
  <2>1. log' # << >> /\ pc' \in {"idle", "over"}
    BY <1>1, LogGrows DEF Commit, Recorded, Record, IInv, LockInv
  <2>2. lock' # "turn"
    BY <1>0, <1>1, ConstantsAssumption DEF Commit, Record, LockInv, Open
  <2>3. QED
    BY <2>1, <2>2 DEF LockInv
<1>2. CASE ~ Commit /\ ~ Record
  <2>1. log' = log /\ Own(events') = Own(events)
    BY <1>2, LogKept, OwnKept
  <2>2. pc' \notin {"idle", "over"} => log' = << >>
    BY <1>0, <1>2, <2>1 DEF LockInv, Next, Turn, Begin, AnswerWithCalls, EndRound, Unparsed, Search,
       Read, AskWrite, TakeLock, Busy, Check, Write, Refuse, Report, Answer, CommitRaises,
       ProviderFails, Rollback, OtherBegins, OtherCommits, turnVars, vars
  <2>3. lock' = "turn" => (lock = "turn" \/ pc \in Pending) /\ pc' \notin {"recording", "over"}
    BY <1>0, <1>2, ConstantsAssumption DEF LockInv, Open, Pending, Next, Turn, Begin, AnswerWithCalls,
       EndRound, Unparsed, Search, Read, AskWrite, TakeLock, Busy, Check, Write, Refuse, Report, Answer,
       CommitRaises, ProviderFails, Rollback, OtherBegins, OtherCommits, turnVars, vars
  <2>4. lock' = "turn" => log' = << >>
    BY <1>0, <2>1, <2>3 DEF LockInv, Open, Pending
  <2>5. QED
    BY <1>0, <2>1, <2>2, <2>3, <2>4 DEF LockInv, Open
<1>3. CASE Record /\ log' = log
  <2>1. pc = "recording" /\ pc' = "over" /\ UNCHANGED <<lock, events>>
    BY <1>3 DEF Record
  <2>2. lock' # "turn"
    BY <1>0, <2>1 DEF LockInv, Open
  <2>3. QED
    BY <1>0, <1>3, <2>1, <2>2 DEF LockInv
<1>4. QED
  BY <1>1, <1>2, <1>3

\* A call that is looked up under the lock finds the same when it writes.
LEMMA PendingStep ==
  ASSUME IInv, [Next]_vars
  PROVE  PendingInv'
<1>0. PendingInv /\ Len(View.events) \in Nat /\ Own(View.events) \subseteq 1 .. Len(View.events)
  BY ViewIs DEF IInv
<1>1. CASE AskWrite
  <2>1. SUFFICES ASSUME pc' \in Pending PROVE PendingInv'
    BY DEF PendingInv, Pending
  <2>2. /\ call' \in Writes /\ calls' = calls /\ calls > 0 /\ last' = Len(View.events)
        /\ pc' = IF call'.refs = {} /\ call'.kind = "item" THEN "write" ELSE "lock"
    BY <1>1, <2>1 DEF AskWrite, Report, Pending
  <2>3. View' = View
    BY <1>1 DEF AskWrite, View
  <2>4. QED
    BY <1>0, <2>2, <2>3 DEF PendingInv, Pending
<1>2. CASE TakeLock
  <2>1. View' = View
    BY <1>2, ConstantsAssumption DEF TakeLock, View
  <2>2. QED
    BY <1>0, <1>2, <2>1 DEF TakeLock, PendingInv, Pending, turnVars
<1>3. CASE Check
  <2>1. View' = View /\ told' = told /\ lock' = lock /\ last' = last
    BY <1>3 DEF Check, View
  <2>2. CASE \A i \in call.refs : StillNamed(i)
    <3>1. UNCHANGED <<calls, call>> /\ pc' = "write" /\ pc = "check"
      BY <1>3, <2>2 DEF Check
    <3>2. \A i : StillNamed(i)' <=> StillNamed(i)
      BY <2>1 DEF StillNamed
    <3>3. QED
      BY <1>0, <2>1, <2>2, <3>1, <3>2 DEF PendingInv, Pending
  <2>3. CASE ~ \A i \in call.refs : StillNamed(i)
    BY <1>3, <2>3 DEF Check, Report, PendingInv, Pending
  <2>4. QED
    BY <2>2, <2>3
<1>4. CASE OtherBegins \/ OtherCommits \/ UNCHANGED vars
  <2>1. UNCHANGED <<pc, calls, call, last, told>>
    BY <1>4 DEF OtherBegins, OtherCommits, vars, turnVars
  <2>2. /\ Own(View'.events) = Own(View.events) /\ Len(View.events) <= Len(View'.events)
        /\ lock = "turn" => View' = View
    <3>1. CASE Write \/ Commit \/ Rollback
      BY <1>0, <2>1, <3>1 DEF Write, Report, Commit, Rollback
    <3>2. CASE ~ Write /\ ~ Commit /\ ~ Rollback
      BY <3>2, ViewGrows
    <3>3. QED
      BY <3>1, <3>2
  <2>3. lock = "turn" => lock' = "turn"
    BY <1>4, ConstantsAssumption DEF OtherBegins, OtherCommits, vars
  <2>4. lock = "turn" => \A i : StillNamed(i)' <=> StillNamed(i)
    BY <2>1, <2>2 DEF StillNamed
  <2>5. Len(View'.events) \in Nat
    <3>1. View'.events \in Seq(Events)
      BY DataStep DEF View
    <3>2. QED
      BY <3>1
  <2>6. last \in Nat
    BY DEF IInv, TypeOK
  <2>7. QED
    BY <1>0, <2>1, <2>2, <2>3, <2>4, <2>5, <2>6 DEF PendingInv, Pending
<1>5. CASE \/ Begin \/ AnswerWithCalls \/ EndRound \/ Unparsed \/ Search \/ Read \/ Busy \/ Write
           \/ Refuse \/ Answer \/ Commit \/ CommitRaises \/ ProviderFails \/ Rollback \/ Record
  <2>1. pc' \notin Pending
    BY <1>5 DEF Begin, AnswerWithCalls, EndRound, Unparsed, Search, Read, Busy, Write, Refuse, Report,
       Answer, Commit, CommitRaises, ProviderFails, Rollback, Record, Pending
  <2>2. QED
    BY <2>1 DEF PendingInv, Pending
<1>6. QED
  BY <1>1, <1>2, <1>3, <1>4, <1>5 DEF Next, Turn

\* A write's receipt has its own event, and none of the earlier ones.
LEMMA ReceiptStep ==
  ASSUME IInv, [Next]_vars
  PROVE  ReceiptInv'
<1>0. /\ Len(View.events) \in Nat /\ Own(View.events) \subseteq 1 .. Len(View.events)
      /\ View.events \in Seq(Events) /\ receipts \in Seq(Receipt)
  BY ViewIs DEF IInv, Shapes
<1>1. SUFFICES ASSUME Open' PROVE ReceiptInv'
  BY DEF ReceiptInv
<1>2. Open /\ ~ Commit /\ ~ Rollback
  <2>1. ~ Commit /\ ~ Rollback
    <3>1. CASE Commit
      <4>1. log = << >>
        BY <3>1 DEF Commit, IInv, LockInv
      <4>2. log' # << >>
        BY <3>1, <4>1 DEF Commit, Recorded
      <4>3. QED
        BY <1>1, <4>2 DEF Open
    <3>2. CASE Rollback
      BY <1>1, <3>2 DEF Open, Rollback
    <3>3. QED
      BY <3>1, <3>2
  <2>2. pc \notin {"recording", "over"}
    BY <1>1 DEF Open, Next, Turn, Begin, AnswerWithCalls, EndRound, Unparsed, Search, Read, AskWrite,
       TakeLock, Busy, Check, Write, Refuse, Report, Answer, Commit, CommitRaises, ProviderFails,
       Rollback, Record, OtherBegins, OtherCommits, turnVars, vars
  <2>3. log = << >>
    BY <1>1, <2>1, <2>2, LogKept DEF Open, Record
  <2>4. QED
    BY <2>1, <2>2, <2>3 DEF Open
<1>3. ReceiptInv /\ PendingInv
  BY DEF IInv
<1>4. CASE Write
  <2>1. /\ View' = draft' /\ draft'.events \in Seq(Events) /\ call \in Writes
    BY <1>4, WriteDoes DEF View
  <2>2. PICK log2 : log2 = draft'.events
    OBVIOUS
  <2>3. PICK E : /\ E = (IF call.kind = "place" THEN {} ELSE NewEvents(log2))
                 /\ \E b \in BOOLEAN : receipts' = Append(receipts, [changed |-> b, events |-> E])
    BY <1>4, <2>2, WriteDoes
  <2>4. /\ DOMAIN receipts = 1 .. Len(receipts) /\ Len(receipts) \in Nat
        /\ DOMAIN receipts' = 1 .. Len(receipts) + 1
        /\ \A k \in DOMAIN receipts : receipts'[k] = receipts[k]
        /\ receipts'[Len(receipts) + 1].events = E
    BY <1>0, <2>3
  <2>5. /\ \A k \in DOMAIN receipts : receipts[k].events \subseteq 1 .. Len(View.events)
        /\ \A e \in Own(View.events) : \E k \in DOMAIN receipts :
             \A j \in DOMAIN receipts : e \in receipts[j].events <=> j = k
    BY <1>2, <1>3 DEF ReceiptInv
  <2>6. /\ last \in Nat /\ last <= Len(View.events) /\ \A e \in Own(View.events) : e <= last
    BY <1>3, <1>4 DEF IInv, TypeOK, PendingInv, Pending, Write
  <2>7. \A k \in DOMAIN receipts' : k \in DOMAIN receipts \/ k = Len(receipts) + 1
    BY <2>4
  <2>8. \A e \in Own(View.events) : e \notin E
    BY <1>0, <2>3, <2>6 DEF NewEvents
  <2>9. CASE log2 = View.events
    <3>1. E \subseteq 1 .. Len(View.events)
      BY <2>3, <2>9 DEF NewEvents
    <3>2. \A k \in DOMAIN receipts' : receipts'[k].events \subseteq 1 .. Len(View.events)
      BY <2>4, <2>5, <2>7, <3>1
    <3>3. \A e \in Own(View.events) : \E k \in DOMAIN receipts' :
            \A j \in DOMAIN receipts' : e \in receipts'[j].events <=> j = k
      BY <2>4, <2>5, <2>7, <2>8
    <3>4. View'.events = View.events
      BY <2>1, <2>2, <2>9
    <3>5. QED
      BY <3>2, <3>3, <3>4 DEF ReceiptInv
  <2>10. CASE log2 = Append(View.events, "turn") /\ call.kind = "item"
    <3> DEFINE m == Len(View.events) + 1
    <3>1. Len(log2) = m /\ Own(log2) = Own(View.events) \cup {m}
      BY <1>0, <2>10, OwnAppended DEF Events
    <3>2. m \in E /\ E \subseteq 1 .. m
      <4>1. E = {n \in 1 .. m : n > last}
        BY <2>3, <2>10, <3>1 DEF NewEvents
      <4>2. m \in 1 .. m /\ m > last
        BY <1>0, <2>6
      <4>3. QED
        BY <4>1, <4>2
    <3>3. \A k \in DOMAIN receipts' : receipts'[k].events \subseteq 1 .. m
      <4>1. 1 .. Len(View.events) \subseteq 1 .. m
        BY <1>0
      <4>2. QED
        BY <2>4, <2>5, <2>7, <3>2, <4>1
    <3>4. \A k \in DOMAIN receipts : m \notin receipts[k].events
      BY <1>0, <2>5
    <3>5. \A e \in Own(View.events) : \E k \in DOMAIN receipts' :
            \A j \in DOMAIN receipts' : e \in receipts'[j].events <=> j = k
      BY <2>4, <2>5, <2>7, <2>8
    <3>6. \E k \in DOMAIN receipts' : \A j \in DOMAIN receipts' : m \in receipts'[j].events <=> j = k
      <4> HIDE DEF m
      <4>1. Len(receipts) + 1 \in DOMAIN receipts' /\ Len(receipts) + 1 \notin DOMAIN receipts
        BY <2>4
      <4>2. m \in receipts'[Len(receipts) + 1].events
        BY <2>4, <3>2
      <4>3. ASSUME NEW j \in DOMAIN receipts', m \in receipts'[j].events
            PROVE  j = Len(receipts) + 1
        BY <2>4, <2>7, <3>4, <4>3
      <4>4. QED
        BY <4>1, <4>2, <4>3
    <3>7. View'.events = log2
      BY <2>1, <2>2
    <3> HIDE DEF m
    <3>8. \A e \in Own(log2) : \E k \in DOMAIN receipts' :
            \A j \in DOMAIN receipts' : e \in receipts'[j].events <=> j = k
      BY <3>1, <3>5, <3>6
    <3>9. QED
      BY <3>1, <3>3, <3>7, <3>8 DEF ReceiptInv
  <2>11. QED
    BY <1>4, <2>2, <2>9, <2>10, WriteDoes
<1>5. CASE ~ Write
  <2>1. /\ receipts' = receipts
        /\ Own(View'.events) = Own(View.events) /\ Len(View.events) <= Len(View'.events)
    BY <1>2, <1>5, ReceiptsStep, ViewGrows
  <2>2. Len(View'.events) \in Nat
    <3>1. View'.events \in Seq(Events)
      BY DataStep DEF View
    <3>2. QED
      BY <3>1
  <2>3. 1 .. Len(View.events) \subseteq 1 .. Len(View'.events)
    BY <1>0, <2>1, <2>2
  <2>4. QED
    BY <1>2, <1>3, <2>1, <2>3 DEF ReceiptInv
<1>6. QED
  BY <1>4, <1>5

LEMMA LogStep ==
  ASSUME IInv, [Next]_vars
  PROVE  LogInv'
<1>0. LogInv /\ LockInv /\ TraceInv /\ ReceiptInv
  BY DEF IInv
<1>1. CASE Commit
  <2>1. log' # log
    BY <1>0, <1>1 DEF Commit, Recorded, LockInv
  <2>2. log' = << [status |-> "completed", trace |-> trace, receipts |-> receipts] >>
    BY <1>1, <2>1, LogGrows DEF Commit, Record
  <2>3. /\ \A k \in DOMAIN trace : trace[k].state # "provisional"
        /\ Harmless(trace)
    BY <1>0, <1>1 DEF Commit, TraceInv
  <2>4. PICK R \in Seq(Receipt) : R = receipts
    BY DEF IInv, Shapes
  <2>5. ASSUME NEW e \in Own(events')
        PROVE  Cardinality({k \in DOMAIN R : e \in R[k].events}) = 1
    <3>1. e \in Own(View.events)
      BY <1>1 DEF Commit
    <3>2. Open
      BY <1>0, <1>1 DEF Commit, LockInv, Open
    <3>3. PICK k \in DOMAIN R : \A j \in DOMAIN R : e \in R[j].events <=> j = k
      BY <1>0, <2>4, <3>1, <3>2 DEF ReceiptInv
    <3>4. {j \in DOMAIN R : e \in R[j].events} = {k}
      BY <3>3
    <3>5. QED
      BY <3>4, FS_Singleton
  <2>6. /\ DOMAIN log' = {1}
        /\ log'[1].status = "completed" /\ log'[1].trace = trace /\ log'[1].receipts = R
    BY <2>2, <2>4
  <2>7. QED
    BY <2>3, <2>5, <2>6 DEF LogInv
<1>2. CASE Record /\ log' # log
  <2>1. /\ log = << >> /\ Own(events') = Own(events)
        /\ log' = << [status |-> "failed", trace |-> trace, receipts |-> << >>] >>
    BY <1>2, LogGrows, OwnKept DEF Commit, Record
  <2>2. Own(events') = {}
    BY <1>0, <2>1 DEF LockInv
  <2>3. \A k \in DOMAIN trace : trace[k].state # "provisional"
    BY <1>0, <1>2 DEF Record, TraceInv
  <2>4. /\ DOMAIN log' = {1}
        /\ log'[1].status = "failed" /\ log'[1].trace = trace /\ log'[1].receipts = << >>
    BY <2>1
  <2>5. QED
    BY <2>2, <2>3, <2>4 DEF LogInv
<1>3. CASE ~ Commit /\ log' = log
  <2>1. Own(events') = Own(events)
    BY <1>3, OwnKept
  <2>2. QED
    BY <1>0, <1>3, <2>1 DEF LogInv
<1>4. QED
  BY <1>1, <1>2, <1>3, LogKept

-----------------------------------------------------------------------------
(* The invariant                                                           *)

LEMMA Initially == ASSUME Init PROVE IInv
<1> USE DEF Init
<1>1. Inventory(rows) /\ Inventory(<< >>)
  BY StartAssumption DEF Inventory
<1>2. Learnt(Nothing) /\ Nothing \in Knowledge
  BY DEF Learnt, Nothing, Knowledge
<1>3. TypeOK
  <2>1. Inventory(draft.rows) /\ draft.events = << >>
    BY <1>1
  <2>2. << >> \in Seq({"turn", "other"})
    OBVIOUS
  <2>3. 0 \in 0 .. MaxRounds /\ 0 \in 0 .. MaxCalls /\ MaxEdits \in 0 .. MaxEdits
    BY ConstantsAssumption
  <2>4. QED
    BY <1>1, <1>2, <2>1, <2>2, <2>3 DEF TypeOK
<1>4. Shapes
  BY <1>2 DEF Shapes
<1>5. Own(events) = {} /\ View.events = << >>
  BY ConstantsAssumption DEF Own, View
<1>6. PendingInv /\ LockInv /\ TraceInv /\ LogInv
  BY <1>5, ConstantsAssumption DEF PendingInv, Pending, LockInv, TraceInv, Harmless, LogInv
<1>7. ReceiptInv
  BY <1>5 DEF ReceiptInv, Own
<1>8. QED
  BY <1>3, <1>4, <1>6, <1>7 DEF IInv

LEMMA Inductive == ASSUME IInv, [Next]_vars PROVE IInv'
  BY TypeStep, PendingStep, LockStep, ReceiptStep, TraceStep, LogStep DEF IInv

THEOREM Invariance == Spec => []IInv
<1>1. Init => IInv
  BY Initially
<1>2. IInv /\ [Next]_vars => IInv'
  BY Inductive
<1>3. QED
  BY <1>1, <1>2, PTL DEF Spec

\* A turn is all or nothing, for any inventory and any number of rounds, calls
\* and edits of others: a completed run has its events, each in one receipt,
\* and a failed one has left none.
THEOREM TurnsAreAtomic == Spec => []TurnIsAtomic
<1>1. IInv => TurnIsAtomic
  BY DEF IInv, LogInv, Harmless, TurnIsAtomic
<1>2. QED
  BY <1>1, Invariance, PTL

\* When a call writes, each of its targets is the one entity with a name that
\* the turn searched, or the turn created it: no edit of others comes between
\* the lookup under the lock and the write.
THEOREM WritesAreOnTarget == Spec => WritesHitTheNamedOne
<1>1. ASSUME IInv, [Next]_vars
      PROVE  [receipts' # receipts =>
                \A i \in call.refs :
                  \/ i \in told.created
                  \/ \E n \in Names :
                       /\ <<i, n>> \in told.evidence
                       /\ Matches(View.rows, View.rows[i].kind, n) = {i}]_vars
  <2>1. SUFFICES ASSUME receipts' # receipts, NEW i \in call.refs, i \notin told.created
                 PROVE  \E n \in Names : /\ <<i, n>> \in told.evidence
                                         /\ Matches(View.rows, View.rows[i].kind, n) = {i}
    OBVIOUS
  <2>2. Write
    BY <1>1, <2>1, ReceiptsStep
  <2>3. StillNamed(i) /\ i \in Ids
    BY <1>1, <2>1, <2>2, WritesAre DEF Write, IInv, PendingInv, Pending
  <2>4. PICK n \in Names : /\ <<i, n>> \in told.evidence
                           /\ Resolve(View.rows, View.rows[i].kind, n) = i
    BY <2>1, <2>3 DEF StillNamed
  <2>5. Matches(View.rows, View.rows[i].kind, n) = {i}
    <3>1. PICK db : db = View.rows
      OBVIOUS
    <3>2. PICK kind : kind = View.rows[i].kind
      OBVIOUS
    <3>3. Inventory(db) /\ Resolve(db, kind, n) = i
      BY <1>1, <2>4, <3>1, <3>2, ViewIs
    <3>4. QED
      BY <2>3, <3>1, <3>2, <3>3, ResolvedIsOnly
  <2>6. QED
    BY <2>4, <2>5
<1>2. QED
  BY <1>1, Invariance, PTL DEF Spec, WritesHitTheNamedOne

-----------------------------------------------------------------------------
(***************************************************************************)
(* What a call returns is whole, it leaves no process behind, and no draft *)
(* is begun after the reply: for any clients, retries, deadlines, sizes of *)
(* responses and number of updates.                                        *)
(*                                                                         *)
(* A stream is whole when it has completed, because completion comes after *)
(* all of the text and after the item of the tool call, and the client has *)
(* by then counted the text and named the tool (StreamInv).  The group of  *)
(* a process is gone when its readers are joined, because nothing but a    *)
(* running leader starts a helper (ProcessInv).  The worker's last look at *)
(* the stop events fixes its update: every earlier one has been stopped,   *)
(* and a stopped one is joined before its reply (ProgressInv).             *)
(***************************************************************************)

HttpStages == {"attempt", "sent", "sleep", "body"}
ProcessStages == {"spawn", "watch", "reap", "join"}
OutputEvents == {"message", "tool", "completed", "error"}

Response == [text : Nat, tool : BOOLEAN, texts : Nat, events : Seq(ToSet(ToolEvents))]
Reading == [texts : Nat, named : BOOLEAN, pieces : Nat, completed : BOOLEAN \cup {None}]

\* Which client goes through which stages.
StageInv ==
  /\ stage \in HttpStages \cup ProcessStages \cup {"over"}
  /\ stage \in HttpStages => client # "exec"
  /\ stage \in ProcessStages => client = "exec"

\* What the client has made of the part of the stream that was sent.
StreamInv ==
  client = "codex" /\ At("body") =>
    /\ response \in Response /\ parsed \in Reading
    /\ parsed.texts = response.texts /\ response.texts <= response.text
    /\ IF response.events = << >> THEN ~ InStream ELSE response.tool /\ parsed.named
    /\ parsed.completed # None =>
         response.texts = response.text /\ (response.tool => response.events # << >>)

\* What lives of the process group at each stage.
ProcessInv ==
  /\ output \in Seq(OutputEvents) /\ read \in 0 .. Len(output)
  /\ stage \in HttpStages \cup {"spawn"} => leader = "none" /\ helper = "none"
  /\ stage \in {"reap", "join", "over"} => leader # "running"
  /\ stage \in {"join", "over"} => helper # "group"

AnswerInv == (answer \notin {None, Failed} => At("over")) /\ AnswersAreWhole

WorkerStages == {"wait", "looking", "about to send", "sending"}

\* Which updates are stopped, and which of them the worker may begin a call for.
ProgressInv ==
  /\ update \in Nat /\ turn \in {"idle", "think", "join", "reply"}
  /\ \A u \in 1 .. update : u \in stops \/ (u = update /\ turn = "think")
  /\ worker # None =>
       /\ worker \in [update : 1 .. update, at : WorkerStages]
       /\ worker.at = "about to send" => worker.update = update /\ turn \in {"think", "join"}

CallInv == StageInv /\ StreamInv /\ ProcessInv /\ AnswerInv
SlowInv == CallInv /\ ProgressInv

\* What a step does to the call at hand.
CallStep == CallNext \/ (\E c : BeginCall(c)) \/ UNCHANGED remoteVars

-----------------------------------------------------------------------------
(* The call                                                                *)

LEMMA StageStep ==
  ASSUME CallInv, CallStep
  PROVE  StageInv'
<1> USE DEF CallInv, StageInv, HttpStages, ProcessStages, At, Goto, Return, InTime
<1>1. CASE \E c : BeginCall(c)
  BY <1>1 DEF BeginCall
<1>2. CASE Tick \/ WriteOutput \/ Helper \/ LeaderExits \/ Drain \/ Chunk \/ Completed \/ UNCHANGED remoteVars
  BY <1>2 DEF Tick, WriteOutput, Helper, LeaderExits, Drain, Chunk, Completed, OnlyProcess, remoteVars
<1>3. CASE Attempt \/ Unreached \/ Refused \/ Sleep \/ Accepted \/ StreamEnds \/ StreamIsOverdue
  BY <1>3 DEF Attempt, Unreached, Refused, Again, Sleep, Accepted, StreamEnds, StreamIsOverdue
<1>4. CASE ChatCompletion \/ Candidate \/ BotResult
  BY <1>4 DEF ChatCompletion, Candidate, BotResult, Body, Again
<1>5. CASE Spawn \/ Watch \/ Reap \/ Join
  BY <1>5 DEF Spawn, Watch, Reap, Join
<1>6. QED
  BY <1>1, <1>2, <1>3, <1>4, <1>5 DEF CallStep, CallNext, Caller, World

LEMMA Dispatches ==
  ASSUME NEW p \in Reading, NEW e \in ToSet(ToolEvents)
  PROVE  /\ Dispatched(p, e) \in Reading
         /\ p.named \/ e = "added" => Dispatched(p, e).named
         /\ Dispatched(p, e).texts = p.texts /\ Dispatched(p, e).completed = p.completed
<1>1. e \in {"added", "piece", "arguments", "item"}
  BY DEF ToSet, ToolEvents
<1>2. QED
  <2>1. p = [texts |-> p.texts, named |-> p.named, pieces |-> p.pieces, completed |-> p.completed]
    BY DEF Reading
  <2>2. CASE e = "added"
    BY <2>2 DEF Reading, Dispatched
  <2>3. CASE e = "piece"
    <3>1. Dispatched(p, e) = [p EXCEPT !.pieces = @ + 1] /\ p.pieces + 1 \in Nat
      BY <2>3 DEF Reading, Dispatched
    <3>2. QED
      BY <2>3, <3>1 DEF Reading
  <2>4. CASE e = "arguments"
    BY <2>4 DEF Reading, Dispatched
  <2>5. CASE e = "item"
    BY <2>5 DEF Reading, Dispatched
  <2>6. QED
    BY <1>1, <2>2, <2>3, <2>4, <2>5

\* A piece of text, or an event of the tool call.
LEMMA ChunkStep ==
  ASSUME CallInv, Chunk
  PROVE  StreamInv'
<1>1. /\ response \in Response /\ parsed \in Reading
      /\ parsed.texts = response.texts /\ response.texts <= response.text
      /\ IF response.events = << >> THEN ~ InStream ELSE response.tool /\ parsed.named
      /\ parsed.completed # None =>
           response.texts = response.text /\ (response.tool => response.events # << >>)
  BY DEF CallInv, StreamInv, Chunk
<1>2. CASE /\ response.texts < response.text
           /\ response' = [response EXCEPT !.texts = @ + 1]
           /\ parsed' = Dispatched(parsed, "text")
  <2>1. /\ response' \in Response /\ response'.texts = response.texts + 1
        /\ UNCHANGED <<response.text, response.tool, response.events>>
    BY <1>1, <1>2 DEF Response
  <2>2. /\ parsed' \in Reading /\ parsed'.texts = parsed.texts + 1
        /\ UNCHANGED <<parsed.named, parsed.pieces, parsed.completed>>
    BY <1>1, <1>2 DEF Reading, Dispatched
  <2>3. /\ response.text \in Nat /\ response.texts \in Nat
    BY <1>1 DEF Response
  <2>4. QED
    BY <1>1, <1>2, <2>1, <2>2, <2>3 DEF StreamInv, InStream
<1>3. ASSUME NEW e \in ToSet(ToolEvents), response.tool, MayFollow(response.events, e),
             response' = [response EXCEPT !.events = Append(@, e)],
             parsed' = Dispatched(parsed, e)
      PROVE  StreamInv'
  <2>1. response.events \in Seq(ToSet(ToolEvents))
    BY <1>1 DEF Response
  <2>2. /\ Append(response.events, e) \in Seq(ToSet(ToolEvents))
        /\ Append(response.events, e) # << >>
    BY <2>1
  <2>3. /\ response' \in Response /\ response'.events # << >>
        /\ UNCHANGED <<response.text, response.tool, response.texts>>
    BY <1>1, <1>3, <2>2 DEF Response
  <2>4. parsed.named \/ e = "added"
    BY <1>1, <1>3 DEF MayFollow
  <2>5. /\ parsed' \in Reading /\ parsed'.named
        /\ UNCHANGED <<parsed.texts, parsed.completed>>
    BY <1>1, <1>3, <2>4, Dispatches
  <2>6. QED
    BY <1>1, <1>3, <2>3, <2>5 DEF StreamInv
<1>4. QED
  BY <1>2, <1>3 DEF Chunk

LEMMA StreamStep ==
  ASSUME CallInv, CallStep
  PROVE  StreamInv'
<1>1. CASE Accepted
  <2>1. PICK text \in 0 .. MaxText, tool \in BOOLEAN :
          /\ response' = [text |-> text, tool |-> tool, texts |-> 0, events |-> << >>]
          /\ parsed' = [texts |-> 0, named |-> FALSE, pieces |-> 0, completed |-> None]
    BY <1>1 DEF Accepted
  <2>2. text \in Nat /\ << >> \in Seq(ToSet(ToolEvents))
    OBVIOUS
  <2>3. response' \in Response /\ parsed' \in Reading
    BY <2>1, <2>2 DEF Response, Reading
  <2>4. QED
    BY <2>1, <2>2, <2>3 DEF StreamInv, InStream
<1>2. CASE Chunk
  BY <1>2, ChunkStep
<1>3. CASE Completed
  <2>1. PICK repeated \in BOOLEAN : parsed' = [parsed EXCEPT !.completed = repeated]
    BY <1>3 DEF Completed
  <2>2. /\ response \in Response /\ parsed \in Reading
        /\ parsed.texts = response.texts /\ response.texts <= response.text
        /\ IF response.events = << >> THEN ~ InStream ELSE response.tool /\ parsed.named
    BY <1>3 DEF CallInv, StreamInv, Completed
  <2>3. /\ parsed' \in Reading
        /\ UNCHANGED <<parsed.texts, parsed.named, parsed.pieces, response>>
    BY <1>3, <2>1, <2>2 DEF Reading, Completed
  <2>4. response.texts = response.text /\ (response.tool => response.events # << >>)
    BY <1>3 DEF Completed, Contains
  <2>5. QED
    BY <2>2, <2>3, <2>4 DEF StreamInv, InStream
<1>4. CASE \E c : BeginCall(c)
  BY <1>4 DEF BeginCall, StreamInv, At
<1>5. CASE Tick \/ WriteOutput \/ Helper \/ LeaderExits \/ Drain \/ UNCHANGED remoteVars
  BY <1>5 DEF CallInv, StreamInv, InStream, At, Tick, WriteOutput, Helper, LeaderExits, Drain, OnlyProcess,
     http, remoteVars
<1>6. CASE \/ Attempt \/ Unreached \/ Refused \/ Sleep \/ StreamEnds \/ StreamIsOverdue
           \/ ChatCompletion \/ Candidate \/ BotResult \/ Spawn \/ Watch \/ Reap \/ Join
  <2>1. stage' # "body"
    BY <1>6 DEF Attempt, Unreached, Refused, Again, Sleep, StreamEnds, StreamIsOverdue, ChatCompletion,
       Candidate, BotResult, Body, Spawn, Watch, Reap, Join, Goto, Return
  <2>2. QED
    BY <2>1 DEF StreamInv, At
<1>7. QED
  BY <1>1, <1>2, <1>3, <1>4, <1>5, <1>6 DEF CallStep, CallNext, Caller, World

LEMMA ProcessStep ==
  ASSUME CallInv, CallStep
  PROVE  ProcessInv'
<1>0. /\ output \in Seq(OutputEvents) /\ read \in 0 .. Len(output) /\ Len(output) \in Nat
      /\ ProcessInv
  BY DEF CallInv, ProcessInv
<1> USE DEF ProcessInv, HttpStages, At, Goto, Return
<1>1. CASE \E c : BeginCall(c)
  <2>1. << >> \in Seq(OutputEvents) /\ 0 \in 0 .. Len(<< >>)
    OBVIOUS
  <2>2. QED
    BY <1>1, <2>1 DEF BeginCall
<1>2. CASE WriteOutput
  <2>1. PICK e \in OutputEvents : output' = Append(output, e)
    BY <1>2 DEF WriteOutput, OutputEvents
  <2>2. /\ output' \in Seq(OutputEvents) /\ Len(output') = Len(output) + 1
        /\ UNCHANGED <<stage, leader, helper, read>>
    BY <1>0, <1>2, <2>1 DEF WriteOutput, OnlyProcess
  <2>3. read' \in 0 .. Len(output')
    BY <1>0, <2>2
  <2>4. QED
    BY <1>0, <2>2, <2>3
<1>3. CASE Helper \/ LeaderExits
  BY <1>0, <1>3 DEF Helper, LeaderExits, OnlyProcess
<1>4. CASE Drain
  BY <1>0, <1>4 DEF Drain, OnlyProcess
<1>5. CASE Spawn \/ Watch \/ Reap \/ Join
  BY <1>0, <1>5 DEF Spawn, Watch, Reap, Join, KillGroup, process
<1>6. CASE \/ Attempt \/ Unreached \/ Refused \/ Sleep \/ Accepted \/ StreamEnds \/ StreamIsOverdue
           \/ ChatCompletion \/ Candidate \/ BotResult
  BY <1>0, <1>6 DEF Attempt, Unreached, Refused, Again, Sleep, Accepted, StreamEnds, StreamIsOverdue,
     ChatCompletion, Candidate, BotResult, Body, process
<1>7. CASE Tick \/ Chunk \/ Completed \/ UNCHANGED remoteVars
  BY <1>0, <1>7 DEF Tick, Chunk, Completed, process, remoteVars
<1>8. QED
  BY <1>1, <1>2, <1>3, <1>4, <1>5, <1>6, <1>7 DEF CallStep, CallNext, Caller, World

\* A stream that is taken for an answer is the whole response.
LEMMA ParsedIsWhole ==
  ASSUME CallInv, At("body"), client = "codex", Parsed # Failed
  PROVE  Parsed = [text |-> response.text, tool |-> response.tool]
<1>1. /\ response \in Response /\ parsed \in Reading
      /\ parsed.texts = response.texts
      /\ IF response.events = << >> THEN ~ InStream ELSE response.tool /\ parsed.named
      /\ parsed.completed # None =>
           response.texts = response.text /\ (response.tool => response.events # << >>)
  BY DEF CallInv, StreamInv
<1>2. parsed.completed # None /\ response.texts = response.text
  BY <1>1 DEF Parsed
<1>3. InStream <=> response.tool
  BY <1>1, <1>2 DEF InStream, Response
<1> DEFINE repeated == parsed.completed = TRUE
           text == IF repeated /\ response.text > 0 THEN response.text ELSE parsed.texts
           tool == repeated /\ response.tool
<1>4. Parsed = [text |-> text, tool |-> tool \/ InStream]
  BY <1>2 DEF Parsed
<1>5. text = response.text
  BY <1>1, <1>2
<1>6. (tool \/ InStream) = response.tool
  <2>1. response.tool \in BOOLEAN /\ InStream \in BOOLEAN
    BY <1>1 DEF Response, InStream
  <2>2. QED
    BY <1>3, <2>1
<1>7. QED
  BY <1>4, <1>5, <1>6

\* A process that is taken for an answer has completed its turn before anything
\* went wrong.
LEMMA JudgedIsWhole ==
  ASSUME CallInv, Judged # Failed
  PROVE  \E k \in DOMAIN output :
           output[k] = "completed" /\ \A j \in 1 .. k : output[j] \notin {"tool", "error"}
<1>1. Seen({"completed"}) /\ ~ Seen({"tool", "error"})
  BY DEF Judged
<1>2. PICK k \in 1 .. read : output[k] = "completed"
  BY <1>1 DEF Seen
<1>3. read \in Nat /\ read <= Len(output) /\ DOMAIN output = 1 .. Len(output)
  BY DEF CallInv, ProcessInv
<1>4. k \in DOMAIN output /\ \A j \in 1 .. k : j \in 1 .. read
  BY <1>3
<1>5. QED
  BY <1>1, <1>2, <1>4 DEF Seen

LEMMA AnswerStep ==
  ASSUME CallInv, CallStep
  PROVE  AnswerInv'
<1>0. AnswerInv /\ StageInv
  BY DEF CallInv
<1> USE DEF At, Goto, Return
<1>1. CASE \E c : BeginCall(c)
  BY <1>1 DEF BeginCall, AnswerInv, AnswersAreWhole
<1>2. ASSUME answer' \in {None, Failed}
      PROVE  AnswerInv'
  BY <1>2 DEF AnswerInv, AnswersAreWhole
<1>3. CASE StreamEnds
  BY <1>2, <1>3, ParsedIsWhole DEF StreamEnds, AnswerInv, AnswersAreWhole, InTime, http
<1>4. CASE ChatCompletion \/ Candidate \/ BotResult
  <2>1. /\ stage = "body" /\ UNCHANGED <<client, response>> /\ client # "exec"
        /\ \/ stage' = "over" /\ answer' \in {Whole, Failed}
           \/ UNCHANGED answer
    BY <1>4 DEF ChatCompletion, Candidate, BotResult, Body, Again, InTime, http
  <2>2. QED
    BY <1>0, <1>2, <2>1 DEF AnswerInv, AnswersAreWhole, Whole
<1>5. CASE Join
  <2>1. PICK result \in Decoded(Judged) : stage' = "over" /\ answer' = result
    BY <1>5 DEF Join
  <2>2. result # Failed => Judged # Failed
    BY <2>1 DEF Decoded
  <2>3. client' = "exec" /\ UNCHANGED output
    BY <1>0, <1>5 DEF Join, InTime, process, StageInv, ProcessStages
  <2>4. QED
    BY <1>2, <2>1, <2>2, <2>3, JudgedIsWhole DEF AnswerInv, AnswersAreWhole
<1>6. CASE \/ Attempt \/ Unreached \/ Refused \/ Sleep \/ Accepted \/ StreamIsOverdue \/ Chunk
           \/ Completed \/ Spawn \/ WriteOutput \/ Drain \/ Watch \/ Reap
  <2>1. stage # "over" /\ (answer' = Failed \/ UNCHANGED answer)
    BY <1>6 DEF Attempt, Unreached, Refused, Again, Sleep, Accepted, StreamIsOverdue, Chunk,
       Completed, Spawn, WriteOutput, Drain, Watch, Reap, OnlyProcess
  <2>2. QED
    BY <1>0, <1>2, <2>1 DEF AnswerInv
<1>7. CASE Tick \/ Helper \/ LeaderExits \/ UNCHANGED remoteVars
  BY <1>0, <1>7 DEF Tick, Helper, LeaderExits, OnlyProcess, http, process, remoteVars, AnswerInv, AnswersAreWhole
<1>8. QED
  BY <1>1, <1>3, <1>4, <1>5, <1>6, <1>7 DEF CallStep, CallNext, Caller, World

LEMMA CallKeeps == ASSUME CallInv, CallStep PROVE CallInv'
  BY StageStep, StreamStep, ProcessStep, AnswerStep DEF CallInv

-----------------------------------------------------------------------------
(* The worker                                                              *)

LEMMA ProgressStep ==
  ASSUME ProgressInv, [SlowNext]_slowVars
  PROVE  ProgressInv'
<1>0. update \in Nat
  BY DEF ProgressInv
<1>1. CASE Take
  <2>1. /\ update' = update + 1 /\ turn' = "think" /\ turn = "idle" /\ UNCHANGED stops
        /\ worker' = worker \/ worker' = [update |-> update + 1, at |-> "wait"]
    BY <1>1 DEF Take, Progress
  <2>2. /\ \A u \in 1 .. update : u \in stops
        /\ worker # None => /\ worker \in [update : 1 .. update, at : WorkerStages]
                          /\ worker.at # "about to send"
    BY <2>1 DEF ProgressInv
  <2>3. 1 .. update \subseteq 1 .. update + 1 /\ \A u \in 1 .. update + 1 : u \in 1 .. update \/ u = update + 1
    BY <1>0
  <2>4. \A u \in 1 .. update' : u \in stops' \/ (u = update' /\ turn' = "think")
    BY <2>1, <2>2, <2>3
  <2>5. CASE worker' = worker
    <3>1. worker # None => worker \in [update : 1 .. update + 1, at : WorkerStages]
      BY <2>2, <2>3
    <3>2. worker' # None =>
            worker' \in [update : 1 .. update', at : WorkerStages] /\ worker'.at # "about to send"
      BY <2>1, <2>2, <2>5, <3>1
    <3>3. update' \in Nat
      BY <1>0, <2>1
    <3>4. QED
      BY <2>1, <2>4, <3>2, <3>3 DEF ProgressInv
  <2>6. CASE worker' = [update |-> update + 1, at |-> "wait"]
    <3>1. update + 1 \in 1 .. update + 1 /\ update + 1 \in Nat
      BY <1>0
    <3>2. worker' \in [update : 1 .. update + 1, at : WorkerStages] /\ worker'.at = "wait"
      BY <2>6, <3>1 DEF WorkerStages
    <3>3. QED
      BY <2>1, <2>4, <3>1, <3>2 DEF ProgressInv
  <2>7. QED
    BY <2>1, <2>5, <2>6
<1>2. CASE Main
  <2>1. UNCHANGED <<update, worker>> /\ stops \subseteq stops'
    BY <1>2 DEF Main, Stop, JoinWorker, Replied
  <2>2. /\ turn' \in {"join", "reply", "idle"}
        /\ turn' = "join" => turn = "think" /\ update \in stops'
        /\ turn' # "join" => turn # "think"
    BY <1>2 DEF Main, Stop, JoinWorker, Replied
  <2>3. worker # None /\ worker.at = "about to send" => turn' = "join"
    BY <1>2 DEF Main, Stop, JoinWorker, Replied, Mine, ProgressInv
  <2>4. QED
    BY <2>1, <2>2, <2>3 DEF ProgressInv
<1>3. CASE Worker
  <2>1. UNCHANGED <<update, turn, stops>> /\ worker # None
    BY <1>3 DEF Worker, TimeToSend, Looked, Sends, Sent, WorkerEnds, WorkerAt, OnlyWorker, main
  <2>2. PICK at \in {"wait", "looking", "about to send", "sending", "ended"} :
          /\ at = "about to send" => ~ Stopping(worker.update)
          /\ IF at = "ended" THEN worker' = None ELSE worker' = [worker EXCEPT !.at = at]
    BY <1>3 DEF Worker, TimeToSend, Looked, Sends, Sent, WorkerEnds, WorkerAt
  <2>3. CASE at = "ended"
    BY <2>1, <2>2, <2>3 DEF ProgressInv
  <2>4. CASE at # "ended"
    <3>1. /\ worker' \in [update : 1 .. update, at : WorkerStages]
          /\ worker'.at = at /\ worker'.update = worker.update /\ worker.update \in 1 .. update
      BY <2>1, <2>2, <2>4 DEF ProgressInv, WorkerStages
    <3>2. at = "about to send" => worker.update = update /\ turn = "think"
      BY <2>1, <2>2, <3>1 DEF ProgressInv, Stopping
    <3>3. QED
      BY <2>1, <3>1, <3>2 DEF ProgressInv
  <2>5. QED
    BY <2>3, <2>4
<1>4. CASE Shutdown \/ Calling \/ UNCHANGED slowVars
  BY <1>4 DEF Shutdown, Calling, main, slowVars, ProgressInv
<1>5. QED
  BY <1>1, <1>2, <1>3, <1>4 DEF SlowNext

-----------------------------------------------------------------------------
(* The invariant                                                           *)

LEMMA SlowInitially == ASSUME SlowInit PROVE SlowInv
<1>1. << >> \in Seq(OutputEvents) /\ 0 \in 0 .. Len(<< >>)
  OBVIOUS
<1>2. QED
  BY <1>1 DEF SlowInit, CallInit, SlowInv, CallInv, StageInv, StreamInv, ProcessInv, AnswerInv,
     AnswersAreWhole, ProgressInv, At, HttpStages, ProcessStages

LEMMA SlowInductive == ASSUME SlowInv, [SlowNext]_slowVars PROVE SlowInv'
<1>1. CallStep
  BY DEF CallStep, SlowNext, Take, Main, Stop, JoinWorker, Replied, Worker, TimeToSend, Looked, Sends,
     Sent, WorkerEnds, WorkerAt, OnlyWorker, Shutdown, Calling, slowVars
<1>2. QED
  BY <1>1, CallKeeps, ProgressStep DEF SlowInv

THEOREM SlowInvariance == SlowSpec => []SlowInv
<1>1. SlowInit => SlowInv
  BY SlowInitially
<1>2. SlowInv /\ [SlowNext]_slowVars => SlowInv'
  BY SlowInductive
<1>3. QED
  BY <1>1, <1>2, PTL DEF SlowSpec

\* Wherever a server stops and whatever a process writes, an answer is a whole
\* response or a turn that the process completed: for any size of it and any
\* number of retries.
THEOREM EveryAnswerIsWhole == SlowSpec => []AnswersAreWhole
<1>1. SlowInv => AnswersAreWhole
  BY DEF SlowInv, CallInv, AnswerInv
<1>2. QED
  BY <1>1, SlowInvariance, PTL

\* A call that has returned leaves nothing of its process group running, after
\* any output, exits of the leader and any deadline.
THEOREM NoProcessIsLeft == SlowSpec => []NothingLeftRunning
<1>1. SlowInv => NothingLeftRunning
  BY DEF SlowInv, CallInv, ProcessInv, NothingLeftRunning, At
<1>2. QED
  BY <1>1, SlowInvariance, PTL

\* The worker begins no draft once the reply is being sent, for any number of
\* updates.
THEOREM DraftsComeFirst == SlowSpec => NoDraftAfterReply
<1>1. ASSUME SlowInv, [SlowNext]_slowVars
      PROVE  [worker # None /\ worker' # None /\ worker.at # "sending" /\ worker'.at = "sending" =>
                worker.update = update /\ turn \in {"think", "join"}]_slowVars
  <2>1. SUFFICES ASSUME worker # None, worker' # None, worker.at # "sending", worker'.at = "sending"
                 PROVE  worker.at = "about to send"
    BY <1>1 DEF SlowInv, ProgressInv
  <2>2. CASE Worker
    <3>1. \E here, there \in WorkerStages :
            /\ worker.at = here /\ worker' = [worker EXCEPT !.at = there]
            /\ there = "sending" => here = "about to send"
      BY <2>1, <2>2 DEF Worker, TimeToSend, Looked, Sends, Sent, WorkerEnds, WorkerAt, WorkerStages
    <3>2. PICK there \in WorkerStages :
            /\ worker' = [worker EXCEPT !.at = there]
            /\ there = "sending" => worker.at = "about to send"
      BY <3>1
    <3>3. worker'.at = there
      BY <1>1, <2>1, <3>2 DEF SlowInv, ProgressInv
    <3>4. QED
      BY <2>1, <3>2, <3>3
  <2>3. CASE Take
    <3>1. worker' = worker \/ worker' = [update |-> update + 1, at |-> "wait"]
      BY <2>3 DEF Take, Progress
    <3>2. CASE worker' = worker
      BY <2>1, <3>2
    <3>3. CASE worker' = [update |-> update + 1, at |-> "wait"]
      <4>1. worker'.at = "wait"
        BY <3>3
      <4>2. QED
        BY <2>1, <4>1
    <3>4. QED
      BY <3>1, <3>2, <3>3
  <2>4. CASE Main \/ Shutdown \/ Calling \/ UNCHANGED slowVars
    <3>1. UNCHANGED worker
      BY <2>4 DEF Main, Stop, JoinWorker, Replied, Shutdown, Calling, slowVars
    <3>2. QED
      BY <2>1, <3>1
  <2>5. QED
    BY <1>1, <2>2, <2>3, <2>4 DEF SlowNext
<1>2. QED
  BY <1>1, SlowInvariance, PTL DEF SlowSpec, NoDraftAfterReply
=============================================================================
