------------------------ MODULE InventoryTreeProofs ------------------------
(***************************************************************************)
(* What people and the agent do side by side to places, items and photos:  *)
(* a call that nobody overtook leaves a sound inventory, and an edit keeps *)
(* what others wrote, for any sessions, names and keys and any number of   *)
(* calls.                                                                  *)
(*                                                                         *)
(* A session decides from rows that it read one by one before it had the   *)
(* write lock.  While nobody commits, they are the rows that its write     *)
(* meets (FreshInv), so the ancestors that an edit has seen are still the  *)
(* ancestors, and a name that was free is free.  What others commit may    *)
(* make them stale but takes no place and no item away (GrowInv), so that  *)
(* what a call refers to is there when it writes (CallInv).                *)
(***************************************************************************)
EXTENDS InventoryTree, TLAPS

Calls == [op : {"none", "create", "update", "detach", "path"}, table : Tables, id : Ids \cup {Nil},
          name : Names \cup {Nil}, owner : Ids \cup {Nil}, note : BOOLEAN,
          asked : SUBSET Columns, outer : Names \cup {Nil}]

Shapes ==
  /\ pc = [s \in Sessions |-> pc[s]] /\ call \in [Sessions -> Calls]
  /\ at = [s \in Sessions |-> at[s]] /\ seen = [s \in Sessions |-> seen[s]]
  /\ cache = [s \in Sessions |-> cache[s]] /\ fresh \in [Sessions -> BOOLEAN]

\* Places and items stay.
Grows(old, new) == \A table \in {"tree", "item"} : Of(old, table) \subseteq Of(new, table)

GrowInv == lock # Nil => Grows(rows, draft)

\* The row that a call edits has been read, and what it does not ask for is as
\* it was read.
Completes(c, read) ==
  /\ c.id \in DOMAIN read /\ c.id \in Keys[c.table] /\ c.name \in Names
  /\ \A column \in Columns \ c.asked : c[column] = read[c.id][column]

\* What a call refers to is there.
CallInv(s) ==
  LET c == call[s] IN
  /\ c.owner \in Owners(View(s), c.table) /\ at[s] \in Of(View(s), "tree") \cup {Nil}
  /\ \A i \in DOMAIN cache[s] : cache[s][i].owner \in Owners(View(s), cache[s][i].table)
  /\ pc[s] = "lock" =>
       /\ Locked(s, c) /\ at[s] = Nil
       /\ c.op = "create" => c.id = Nil /\ c.name \in Names
       /\ c.op = "update" => c.id \in Of(View(s), "item") /\ Sensible(c)
       /\ c.op = "path" => {c.name, c.outer} \subseteq Names /\ c.table = "tree"
  /\ pc[s] \in {"walk", "flush"} =>
       /\ c.op # "none" /\ (Locked(s, c) => lock = s /\ fresh[s])
       /\ c.op = "create" => c.id = Nil /\ c.name \in Names
       /\ c.op \in {"update", "detach"} => Completes(c, cache[s])
       /\ c.op = "detach" => c.table = "photo"
       /\ c.op = "path" =>
            s \in Agents /\ pc[s] = "flush" /\ {c.name, c.outer} \subseteq Names /\ c.table = "tree"
  /\ pc[s] = "flush" => at[s] = Nil

\* The ancestors seen lead to the next one, and the place is not among them.
Climbed(s) ==
  /\ call[s].owner \in seen[s] \cup {at[s]} /\ call[s].id \notin seen[s]
  /\ \A i \in seen[s] : i \in DOMAIN View(s) /\ View(s)[i].owner \in seen[s] \cup {at[s]}

\* What a session knows, as long as nobody commits.
FreshInv(s) ==
  fresh[s] =>
    /\ \A i \in DOMAIN cache[s] : i \in DOMAIN View(s) /\ cache[s][i] = View(s)[i]
    /\ pc[s] \in {"walk", "flush"} /\ call[s].op = "update" /\ call[s].table = "tree" => Climbed(s)
    /\ pc[s] = "flush" /\ call[s].op \in {"create", "update"} => ~ Taken(s)

SessionInv == \A s \in Sessions : CallInv(s) /\ FreshInv(s)

IInv == TypeOK /\ Shapes /\ GrowInv /\ SessionInv

-----------------------------------------------------------------------------
LEMMA NilIsNothing == Nil \notin Names /\ Nil \notin Sessions /\ Nil \notin Nat /\ Nil \notin Ids
<1>1. Nil \notin Names /\ Nil \notin Sessions /\ Nil \notin Nat
  BY ConstantsAssumption
<1>2. Ids \subseteq Nat
  BY ConstantsAssumption DEF Ids
<1>3. QED
  BY <1>1, <1>2

\* A key is of one table.
LEMMA KeysAre ==
  ASSUME NEW i, NEW t \in Tables, NEW u \in Tables, i \in Keys[t]
  PROVE  i \in Ids /\ i \in Nat /\ (i \in Keys[u] => t = u)
BY ConstantsAssumption DEF Ids

LEMMA RowIs ==
  ASSUME NEW row \in Row
  PROVE  /\ row.table \in Tables /\ row.name \in Names /\ row.owner \in Ids \cup {Nil}
         /\ row.note \in BOOLEAN
BY DEF Row

LEMMA WithIs ==
  ASSUME NEW db, NEW i, NEW row
  PROVE  /\ With(db, i, row) = [j \in DOMAIN With(db, i, row) |-> With(db, i, row)[j]]
         /\ DOMAIN With(db, i, row) = DOMAIN db \cup {i}
         /\ With(db, i, row)[i] = row
         /\ \A j \in DOMAIN db \ {i} : With(db, i, row)[j] = db[j]
BY DEF With

LEMMA OwnersGrow ==
  ASSUME NEW old, NEW new, Grows(old, new), NEW table \in Tables
  PROVE  Owners(old, table) \subseteq Owners(new, table)
BY DEF Grows, Owners, Tables

LEMMA GrowsOn == \A db : Grows(db, db)
BY DEF Grows

\* A row with a key of its table and an owner that is there.
LEMMA PutIsGood ==
  ASSUME NEW db, Database(db), Referenced(db), NEW i, NEW row \in Row, i \in Keys[row.table],
         row.owner \in Owners(db, row.table)
  PROVE  /\ Database(With(db, i, row)) /\ Referenced(With(db, i, row))
         /\ Grows(db, With(db, i, row))
<1> DEFINE new == With(db, i, row)
<1>1. /\ new = [j \in DOMAIN new |-> new[j]] /\ DOMAIN new = DOMAIN db \cup {i} /\ new[i] = row
      /\ \A j \in DOMAIN db \ {i} : new[j] = db[j]
  BY DEF With
<1> HIDE DEF new
<1>2. \A j \in DOMAIN db : db[j] \in Row /\ j \in Keys[db[j].table] /\ db[j].table \in Tables
  BY RowIs DEF Database
<1>3. row.table \in Tables
  BY RowIs
<1>4. Database(new)
  BY <1>1, <1>2, <1>3 DEF Database
<1>5. ASSUME NEW j \in DOMAIN db PROVE new[j].table = db[j].table
  BY <1>1, <1>2, <1>3, <1>5, KeysAre
<1>6. Grows(db, new)
  BY <1>1, <1>5 DEF Grows, Of
<1>7. ASSUME NEW j \in DOMAIN new PROVE new[j].owner \in Owners(new, new[j].table)
  <2>1. CASE j = i
    BY <2>1, <1>1, <1>3, <1>6, OwnersGrow
  <2>2. CASE j # i
    BY <2>2, <1>1, <1>2, <1>6, OwnersGrow DEF Referenced
  <2>3. QED
    BY <2>1, <2>2
<1>8. QED
  BY <1>4, <1>6, <1>7 DEF Referenced, new

LEMMA WithoutIsGood ==
  ASSUME NEW db, Database(db), Referenced(db), NEW i \in Keys["photo"]
  PROVE  Database(Without(db, i)) /\ Referenced(Without(db, i)) /\ Grows(db, Without(db, i))
<1>1. \A j \in DOMAIN db : db[j] \in Row /\ j \in Keys[db[j].table] /\ db[j].table \in Tables
  BY RowIs DEF Database
<1>2. Database(Without(db, i))
  BY <1>1 DEF Database, Without
<1>3. \A j \in DOMAIN db : db[j].table # "photo" => j # i
  BY <1>1, KeysAre DEF Tables
<1>4. Grows(db, Without(db, i))
  BY <1>3 DEF Grows, Of, Without
<1>5. ASSUME NEW j \in DOMAIN Without(db, i)
      PROVE  Without(db, i)[j].owner \in Owners(Without(db, i), Without(db, i)[j].table)
  <2>1. j \in DOMAIN db /\ Without(db, i)[j] = db[j]
    BY DEF Without
  <2>2. QED
    BY <2>1, <1>1, <1>4, OwnersGrow DEF Referenced
<1>6. QED
  BY <1>2, <1>4, <1>5 DEF Referenced

\* What a session reads.
LEMMA ViewIs ==
  ASSUME TypeOK, NEW s \in Sessions
  PROVE  Database(View(s)) /\ Unique(View(s)) /\ Referenced(View(s))
BY DEF TypeOK, View


-----------------------------------------------------------------------------
(***************************************************************************)
(* What a session knows when another one has made a step                   *)
(***************************************************************************)
Bystander(s) ==
  /\ pc'[s] = pc[s] /\ call'[s] = call[s] /\ at'[s] = at[s] /\ seen'[s] = seen[s]
  /\ cache'[s] = cache[s]
  /\ lock = s => lock' = s /\ draft' = draft /\ fresh'[s] = fresh[s]
  /\ lock # s => lock' # s
  /\ Grows(rows, rows')
  /\ fresh'[s] => pc[s] = "idle" \/ (fresh[s] /\ (lock # s => rows' = rows))

LEMMA BystandersKnow ==
  ASSUME TypeOK, Shapes, SessionInv, NEW s \in Sessions, Bystander(s)
  PROVE  CallInv(s)' /\ FreshInv(s)'
<1>1. Grows(View(s), View(s)')
  BY GrowsOn DEF Bystander, View
<1>2. CallInv(s) /\ FreshInv(s)
  BY DEF SessionInv
<1>3. call[s].table \in Tables /\ \A i \in DOMAIN cache[s] : cache[s][i].table \in Tables
  BY RowIs DEF Shapes, Calls, TypeOK, Database
<1>4. \A table \in Tables : Owners(View(s), table) \subseteq Owners(View(s)', table)
  BY <1>1, OwnersGrow
<1>5. \A table \in {"tree", "item"} : Of(View(s), table) \subseteq Of(View(s)', table)
  BY <1>1 DEF Grows
<1>6. CallInv(s)'
  <2>1. lock = s /\ fresh[s] => lock' = s /\ fresh'[s]
    BY DEF Bystander
  <2>2. QED
    BY <1>2, <1>3, <1>4, <1>5, <2>1 DEF CallInv, Bystander, Locked
<1>7. FreshInv(s)'
  <2>1. CASE pc[s] = "idle"
    <3>1. cache[s] = Empty
      BY <2>1 DEF TypeOK
    <3>2. QED
      BY <2>1, <3>1 DEF FreshInv, Bystander, Empty
  <2>2. CASE pc[s] # "idle" /\ fresh'[s]
    <3>1. fresh[s] /\ View(s)' = View(s)
      BY <2>2 DEF Bystander, View
    <3>2. QED
      BY <3>1, <1>2 DEF FreshInv, Bystander, Climbed, Taken, Renamed
  <2>3. QED
    BY <2>1, <2>2 DEF FreshInv
<1>8. QED
  BY <1>6, <1>7

Session(s) == AskEdit(s) \/ AskNew(s) \/ AskLocked(s) \/ Step(s)

LEMMA NextIs == Next <=> \E s \in Sessions : Session(s)
BY DEF Next, Session

\* What is another session's own, it keeps.
LEMMA OthersKeep ==
  ASSUME Shapes, NEW t \in Sessions, Session(t), NEW s \in Sessions, s # t
  PROVE  /\ pc'[s] = pc[s] /\ call'[s] = call[s] /\ at'[s] = at[s] /\ seen'[s] = seen[s]
         /\ cache'[s] = cache[s]
<1> DEFINE Kept == /\ pc'[s] = pc[s] /\ call'[s] = call[s] /\ at'[s] = at[s] /\ seen'[s] = seen[s]
                   /\ cache'[s] = cache[s]
<1>0. /\ pc = [u \in Sessions |-> pc[u]] /\ call = [u \in Sessions |-> call[u]]
      /\ at = [u \in Sessions |-> at[u]] /\ seen = [u \in Sessions |-> seen[u]]
      /\ cache = [u \in Sessions |-> cache[u]]
  BY DEF Shapes
<1>1. CASE Abandon(t)
  BY <1>0, <1>1 DEF Abandon, Forget
<1>2. CASE Publish(t) /\ Goto(t, "idle")
  BY <1>0, <1>2 DEF Publish, Forget, Goto
<1>3. CASE AskEdit(t)
  BY <1>0, <1>3 DEF AskEdit, MayAsk, Keep, Goto
<1>4. CASE AskNew(t)
  BY <1>0, <1>4 DEF AskNew, MayAsk, Keep, Goto
<1>5. CASE AskLocked(t)
  BY <1>0, <1>5 DEF AskLocked, MayAsk, Goto
<1>6. CASE TakeLock(t)
  BY <1>0, <1>6 DEF TakeLock, Forget, Goto
<1>7. CASE Ascend(t)
  BY <1>0, <1>7 DEF Ascend, Keep
<1>8. CASE AcceptName(t)
  BY <1>0, <1>8 DEF AcceptName, Goto
<1>9. CASE Flush(t)
  BY <1>0, <1>9 DEF Flush, Goto
<1>10. QED
  BY <1>1, <1>2, <1>3, <1>4, <1>5, <1>6, <1>7, <1>8, <1>9
     DEF Session, Step, Busy, RefuseCycle, RefuseName, FlushFails, FailTurn, Respond, EndTurn

\* A step changes the rows only with its session's view, and the draft only if
\* no other session has the lock.
LEMMA OthersStandBy ==
  ASSUME TypeOK, Shapes, GrowInv, NEW t \in Sessions, Session(t), NEW s \in Sessions, s # t
  PROVE  Bystander(s)
<1> DEFINE Kept == /\ lock = s => lock' = s /\ draft' = draft /\ fresh'[s] = fresh[s]
                   /\ lock # s => lock' # s
                   /\ Grows(rows, rows')
                   /\ fresh'[s] => pc[s] = "idle" \/ (fresh[s] /\ (lock # s => rows' = rows))
<1> SUFFICES Kept
  BY OthersKeep DEF Bystander
<1>0. fresh = [u \in Sessions |-> fresh[u]] /\ fresh[s] \in BOOLEAN
  BY DEF Shapes
<1>n. s # Nil /\ t # Nil
  BY NilIsNothing
<1>g. Grows(rows, rows) /\ Grows(rows, View(t))
  <2>1. View(t) = rows \/ (lock = t /\ View(t) = draft)
    BY DEF View
  <2>2. Grows(rows, rows)
    BY GrowsOn
  <2>3. lock = t => Grows(rows, draft)
    BY <1>n DEF GrowInv
  <2>4. QED
    BY <2>1, <2>2, <2>3
<1>1. CASE Abandon(t)
  BY <1>0, <1>1, <1>n, <1>g DEF Abandon
<1>2. CASE Publish(t)
  <2>1. lock = s => pc[s] # "idle" /\ View(t) = rows
    BY DEF TypeOK, View
  <2>2. rows' = View(t) /\ draft' = (IF lock = t THEN Empty ELSE draft)
        /\ lock' = (IF lock = t THEN Nil ELSE lock)
    BY <1>2 DEF Publish
  <2>3. fresh'[s] = (pc[s] = "idle" \/ (fresh[s] /\ rows' = rows))
    BY <1>2 DEF Publish
  <2>4. lock = s => fresh'[s] = fresh[s]
    BY <1>0, <2>1, <2>2, <2>3
  <2>5. QED
    BY <1>n, <1>g, <2>2, <2>3, <2>4
<1>3. CASE UNCHANGED <<rows, draft, lock, fresh>>
  BY <1>3, <1>g
<1>4. CASE TakeLock(t)
  BY <1>0, <1>4, <1>n, <1>g DEF TakeLock, Free
<1>5. CASE Flush(t)
  BY <1>5, <1>n, <1>g DEF Flush, Free
<1>6. QED
  BY <1>1, <1>2, <1>3, <1>4, <1>5
     DEF Session, Step, Busy, RefuseCycle, RefuseName, FlushFails, FailTurn, Respond, EndTurn,
         AskEdit, AskNew, AskLocked, Ascend, AcceptName

-----------------------------------------------------------------------------
(***************************************************************************)
(* What a write leaves behind                                              *)
(***************************************************************************)
LEMMA SessionIs ==
  ASSUME TypeOK, Shapes, SessionInv, NEW s \in Sessions
  PROVE  /\ call[s] \in Calls /\ CallInv(s) /\ FreshInv(s) /\ Database(cache[s])
         /\ Database(View(s)) /\ Unique(View(s)) /\ Referenced(View(s))
BY ViewIs DEF Shapes, SessionInv, TypeOK

LEMMA CallIs ==
  ASSUME NEW c \in Calls
  PROVE  /\ c.table \in Tables /\ c.id \in Ids \cup {Nil} /\ c.name \in Names \cup {Nil}
         /\ c.owner \in Ids \cup {Nil} /\ c.note \in BOOLEAN /\ c.asked \subseteq Columns
         /\ c.outer \in Names \cup {Nil} /\ c.op \in {"none", "create", "update", "detach", "path"}
BY DEF Calls

LEMMA NewRowIs ==
  ASSUME NEW c \in Calls, NEW n, NEW o
  PROVE  /\ NewRow(c, n, o).table = c.table /\ NewRow(c, n, o).name = n
         /\ NewRow(c, n, o).owner = o /\ NewRow(c, n, o).note = c.note
         /\ n \in Names /\ o \in Ids \cup {Nil} => NewRow(c, n, o) \in Row
BY CallIs DEF NewRow, Row

LEMMA OwnersAre ==
  ASSUME NEW db, Database(db), NEW table \in Tables
  PROVE  Owners(db, table) \subseteq Ids \cup {Nil} /\ \A t : Of(db, t) \subseteq Ids
<1>1. DOMAIN db \subseteq Ids
  BY RowIs, KeysAre DEF Database
<1>2. QED
  BY <1>1 DEF Owners, Of

LEMMA NewKeyIs ==
  ASSUME NEW db, NEW table \in Tables, NEW i \in NewKey(db, table)
  PROVE  i \in Keys[table] /\ i \notin DOMAIN db
BY DEF NewKey, Least

\* What an edit makes of the row as it is now.
Edited(c, r, now) ==
  [now EXCEPT !.name = IF c.name # r.name THEN c.name ELSE now.name,
              !.owner = IF c.owner # r.owner THEN c.owner ELSE now.owner,
              !.note = IF c.note # r.note THEN c.note ELSE now.note]

LEMMA EditedIs ==
  ASSUME NEW c \in Calls, NEW r \in Row, NEW now \in Row, c.name \in Names
  PROVE  LET new == Edited(c, r, now) IN
         /\ new \in Row /\ new.table = now.table
         /\ new.name = IF c.name # r.name THEN c.name ELSE now.name
         /\ new.owner = IF c.owner # r.owner THEN c.owner ELSE now.owner
         /\ new.note = IF c.note # r.note THEN c.note ELSE now.note
<1>1. /\ now = [table |-> now.table, name |-> now.name, owner |-> now.owner, note |-> now.note]
      /\ now.table \in Tables /\ now.name \in Names /\ now.owner \in Ids \cup {Nil} /\ now.note \in BOOLEAN
  BY DEF Row
<1>2. c.owner \in Ids \cup {Nil} /\ c.note \in BOOLEAN
  BY CallIs
<1>3. QED
  BY <1>1, <1>2 DEF Edited, Row

LEMMA ChangedIs ==
  ASSUME TypeOK, Shapes, SessionInv, NEW s \in Sessions, pc[s] = "flush", call[s].op = "update",
         call[s].id \in DOMAIN View(s)
  PROVE  Changed(s, View(s)) =
         With(View(s), call[s].id, Edited(call[s], cache[s][call[s].id], View(s)[call[s].id]))
<1> DEFINE db == View(s)
           i == call[s].id
           row == Edited(call[s], cache[s][i], db[i])
<1>1. Changed(s, db) = [db EXCEPT ![i] = row]
  BY DEF Changed, Edited
<1>2. db = [j \in DOMAIN db |-> db[j]] /\ i \in DOMAIN db
  BY SessionIs DEF Database
<1> HIDE DEF db, i, row
<1>3. [db EXCEPT ![i] = row] = With(db, i, row)
  BY <1>2 DEF With
<1>4. QED
  BY <1>1, <1>3 DEF db, i, row

\* A creation, an edit, a detachment, a path below a new place, or below the
\* only place that can be meant.
Creates(c, db, new) == \E i \in NewKey(db, c.table) : new = With(db, i, NewRow(c, c.name, c.owner))
Edits(s, c, db, new) ==
  c.id \in DOMAIN db /\ new = With(db, c.id, Edited(c, cache[s][c.id], db[c.id]))
PathsNew(c, db, new) ==
  \E i \in NewKey(db, "tree") :
    LET placed == With(db, i, NewRow(c, c.outer, c.owner)) IN
    /\ Outer(db, c) = {}
    /\ \E j \in NewKey(placed, "tree") : new = With(placed, j, NewRow(c, c.name, i))
PathsBelow(c, db, new) ==
  \E o \in Outer(db, c), j \in NewKey(db, "tree") :
    Twins(db, "tree", c.name, o) = {} /\ new = With(db, j, NewRow(c, c.name, o))

LEMMA PathedIs ==
  ASSUME NEW c, NEW db, NEW new \in Pathed(db, c)
  PROVE  PathsNew(c, db, new) \/ PathsBelow(c, db, new)
<1>1. CASE Outer(db, c) = {}
  BY <1>1 DEF Pathed, PathsNew
<1>2. CASE Outer(db, c) # {}
  BY <1>2 DEF Pathed, PathsBelow
<1>3. QED
  BY <1>1, <1>2

LEMMA WrittenIs ==
  ASSUME TypeOK, Shapes, SessionInv, NEW s \in Sessions, pc[s] = "flush",
         NEW new \in Written(s, View(s))
  PROVE  LET c == call[s]
             db == View(s)
         IN /\ c \in Calls /\ Unique(new)
            /\ \/ c.op = "create" /\ Creates(c, db, new)
               \/ c.op = "update" /\ Edits(s, c, db, new)
               \/ c.op = "detach" /\ new = Without(db, c.id)
               \/ c.op = "path" /\ (PathsNew(c, db, new) \/ PathsBelow(c, db, new))
<1> DEFINE c == call[s]
           db == View(s)
<1>1. c \in Calls /\ c.op \in {"create", "update", "detach", "path"}
  BY SessionIs, CallIs DEF CallInv
<1>2. Unique(new)
  BY DEF Written
<1>3. CASE c.op = "create"
  <2>1. new \in Inserted(db, c)
    BY <1>3 DEF Written
  <2>2. QED
    BY <1>1, <1>2, <1>3, <2>1 DEF Inserted, Creates
<1>4. CASE c.op = "update"
  <2>1. c.id \in DOMAIN db /\ new = Changed(s, db)
    BY <1>4 DEF Written
  <2>2. QED
    BY <1>1, <1>2, <1>4, <2>1, ChangedIs DEF Edits
<1>5. CASE c.op = "detach"
  <2>1. new = Without(db, c.id)
    BY <1>5 DEF Written
  <2>2. QED
    BY <1>1, <1>2, <1>5, <2>1
<1>6. CASE c.op = "path"
  <2>1. new \in Pathed(db, c)
    BY <1>6 DEF Written
  <2>2. QED
    BY <1>1, <1>2, <1>6, <2>1, PathedIs
<1>7. QED
  BY <1>1, <1>3, <1>4, <1>5, <1>6

LEMMA EditedOwner ==
  ASSUME TypeOK, Shapes, SessionInv, NEW s \in Sessions, pc[s] = "flush", call[s].op = "update",
         call[s].id \in DOMAIN View(s)
  PROVE  LET c == call[s]
             now == View(s)[c.id]
             row == Edited(c, cache[s][c.id], now)
         IN /\ c \in Calls /\ c.name \in Names /\ cache[s][c.id] \in Row /\ now \in Row
            /\ row \in Row /\ c.id \in Keys[row.table] /\ row.table = now.table /\ now.table = c.table
            /\ row.owner \in Owners(View(s), row.table)
<1> DEFINE c == call[s]
           r == cache[s][c.id]
           now == View(s)[c.id]
           row == Edited(c, r, now)
<1>1. c \in Calls /\ Completes(c, cache[s]) /\ c.owner \in Owners(View(s), c.table)
  BY SessionIs DEF CallInv
<1>2. Database(cache[s]) /\ Database(View(s)) /\ Referenced(View(s))
  BY SessionIs
<1>3. c.name \in Names /\ c.id \in Keys[c.table] /\ r \in Row /\ now \in Row /\ c.id \in Keys[now.table]
  BY <1>1, <1>2 DEF Completes, Database
<1>4. now.table = c.table /\ now.owner \in Owners(View(s), now.table)
  BY <1>1, <1>2, <1>3, CallIs, RowIs, KeysAre DEF Referenced
<1> HIDE DEF c, r, now
<1>5. /\ row \in Row /\ row.table = now.table
      /\ row.owner = IF c.owner # r.owner THEN c.owner ELSE now.owner
  BY <1>1, <1>3, EditedIs
<1>6. QED
  BY <1>1, <1>3, <1>4, <1>5 DEF c, r, now

LEMMA WrittenIsGood ==
  ASSUME TypeOK, Shapes, SessionInv, NEW s \in Sessions, pc[s] = "flush",
         NEW new \in Written(s, View(s))
  PROVE  Database(new) /\ Unique(new) /\ Referenced(new) /\ Grows(View(s), new)
<1> DEFINE c == call[s]
           db == View(s)
<1>1. /\ c \in Calls /\ CallInv(s) /\ Database(db) /\ Referenced(db)
      /\ c.table \in Tables /\ c.owner \in Owners(db, c.table) /\ c.owner \in Ids \cup {Nil}
  BY SessionIs, CallIs DEF CallInv
<1>2. Unique(new)
  BY WrittenIs
<1>3. CASE c.op = "create" /\ Creates(c, db, new)
  <2>1. PICK i \in NewKey(db, c.table) : new = With(db, i, NewRow(c, c.name, c.owner))
    BY <1>3 DEF Creates
  <2>2. c.name \in Names
    BY <1>1, <1>3 DEF CallInv
  <2>3. QED
    BY <1>1, <1>2, <2>1, <2>2, NewRowIs, NewKeyIs, PutIsGood
<1>4. CASE c.op = "update" /\ Edits(s, c, db, new)
  BY <1>1, <1>2, <1>4, EditedOwner, PutIsGood DEF Edits
<1>5. CASE c.op = "detach" /\ new = Without(db, c.id)
  BY <1>1, <1>2, <1>5, WithoutIsGood DEF CallInv, Completes
<1>6. CASE c.op = "path" /\ PathsNew(c, db, new)
  <2>1. c.name \in Names /\ c.outer \in Names /\ c.table = "tree" /\ "tree" \in Tables
    BY <1>1, <1>6 DEF CallInv, Tables
  <2>2. PICK i \in NewKey(db, "tree") :
          \E j \in NewKey(With(db, i, NewRow(c, c.outer, c.owner)), "tree") :
            new = With(With(db, i, NewRow(c, c.outer, c.owner)), j, NewRow(c, c.name, i))
    BY <1>6 DEF PathsNew
  <2>3. PICK placed : placed = With(db, i, NewRow(c, c.outer, c.owner))
    OBVIOUS
  <2>4. Database(placed) /\ Referenced(placed) /\ Grows(db, placed)
    BY <1>1, <2>1, <2>3, NewRowIs, NewKeyIs, PutIsGood
  <2>5. i \in Of(placed, "tree") /\ i \in Ids
    <3>1. DOMAIN placed = DOMAIN db \cup {i} /\ placed[i] = NewRow(c, c.outer, c.owner)
      BY <2>3 DEF With
    <3>2. QED
      BY <3>1, <1>1, <2>1, NewRowIs, NewKeyIs, KeysAre DEF Of
  <2>6. PICK j \in NewKey(placed, "tree") : new = With(placed, j, NewRow(c, c.name, i))
    BY <2>2, <2>3
  <2>7. Database(new) /\ Referenced(new) /\ Grows(placed, new)
    <3>1. i \in Owners(placed, "tree")
      BY <2>5 DEF Owners
    <3>2. QED
      BY <1>1, <2>1, <2>4, <2>5, <2>6, <3>1, NewRowIs, NewKeyIs, PutIsGood
  <2>8. QED
    BY <1>2, <2>4, <2>7 DEF Grows
<1>7. CASE c.op = "path" /\ PathsBelow(c, db, new)
  <2>1. c.name \in Names /\ c.table = "tree" /\ "tree" \in Tables
    BY <1>1, <1>7 DEF CallInv, Tables
  <2>2. PICK o \in Outer(db, c), j \in NewKey(db, "tree") : new = With(db, j, NewRow(c, c.name, o))
    BY <1>7 DEF PathsBelow
  <2>3. o \in Owners(db, "tree") /\ o \in Ids
    BY <1>1, <2>1, OwnersAre DEF Outer, Twins, Owners, Of
  <2>4. QED
    BY <1>1, <1>2, <2>1, <2>2, <2>3, NewRowIs, NewKeyIs, PutIsGood
<1>8. QED
  BY <1>3, <1>4, <1>5, <1>6, <1>7, WrittenIs

-----------------------------------------------------------------------------
(***************************************************************************)
(* A sound inventory stays sound                                           *)
(***************************************************************************)
Alike(a, b) == a.table = b.table /\ a.name = b.name /\ a.owner = b.owner
Apart(db) == \A i, j \in DOMAIN db : Alike(db[i], db[j]) => i = j

LEMMA SoundIs == \A db : Sound(db) <=> Acyclic(db) /\ Apart(db)
BY DEF Sound, Apart, Alike, Twins, Of

LEMMA TwinsAre ==
  ASSUME NEW db, NEW row, NEW X, Twins(db, row.table, row.name, row.owner) \ X = {}
  PROVE  \A j \in DOMAIN db \ X : ~ Alike(db[j], row)
BY DEF Twins, Of, Alike

LEMMA PutStaysApart ==
  ASSUME NEW db, Apart(db), NEW i, NEW row, \A j \in DOMAIN db \ {i} : ~ Alike(db[j], row)
  PROVE  Apart(With(db, i, row))
<1> DEFINE new == With(db, i, row)
<1>1. /\ DOMAIN new = DOMAIN db \cup {i} /\ new[i] = row
      /\ \A j \in DOMAIN db \ {i} : new[j] = db[j]
  BY DEF With
<1> HIDE DEF new
<1>2. SUFFICES ASSUME NEW j \in DOMAIN new, NEW k \in DOMAIN new, Alike(new[j], new[k]), j # k PROVE FALSE
  BY DEF Apart, new
<1>3. Alike(new[k], new[j])
  BY <1>2 DEF Alike
<1>4. CASE j = i
  BY <1>1, <1>2, <1>3, <1>4
<1>5. CASE k = i
  BY <1>1, <1>2, <1>5
<1>6. CASE j # i /\ k # i
  BY <1>1, <1>2, <1>6 DEF Apart
<1>7. QED
  BY <1>4, <1>5, <1>6

\* A new row has no row below it.
LEMMA NewRowStaysAcyclic ==
  ASSUME NEW db, Database(db), Referenced(db), Acyclic(db), NEW i \in Ids, i \notin DOMAIN db,
         NEW row, row.owner # i
  PROVE  Acyclic(With(db, i, row))
<1> DEFINE new == With(db, i, row)
<1>1. /\ DOMAIN new = DOMAIN db \cup {i} /\ new[i] = row
      /\ \A j \in DOMAIN db : new[j] = db[j]
  BY DEF With
<1> HIDE DEF new
<1>2. SUFFICES ASSUME NEW S \in SUBSET Of(new, "tree"), S # {} PROVE \E j \in S : new[j].owner \notin S
  BY DEF Acyclic, new
<1>3. S \ {i} \subseteq Of(db, "tree")
  BY <1>1 DEF Of
<1>4. CASE S \ {i} = {}
  BY <1>1, <1>2, <1>4
<1>5. CASE S \ {i} # {}
  <2>1. PICK j \in S \ {i} : db[j].owner \notin S \ {i}
    BY <1>3, <1>5 DEF Acyclic
  <2>2. j \in DOMAIN db /\ db[j].table = "tree" /\ new[j] = db[j]
    BY <1>1, <1>3 DEF Of
  <2>3. db[j].owner \in DOMAIN db \cup {Nil}
    BY <2>2 DEF Referenced, Owners, Of
  <2>4. db[j].owner # i
    BY <2>3, NilIsNothing
  <2>5. QED
    BY <2>1, <2>2, <2>4
<1>6. QED
  BY <1>4, <1>5

\* A place may go below another, when the ancestors of that one are not it.
LEMMA MoveStaysAcyclic ==
  ASSUME NEW db, Acyclic(db), Database(db), NEW i \in DOMAIN db, NEW row, row.table = db[i].table,
         NEW above, above \subseteq DOMAIN db, i \notin above,
         row.table = "tree" => row.owner \in above \cup {Nil},
         \A j \in above : db[j].owner \in above \cup {Nil}
  PROVE  Acyclic(With(db, i, row))
<1> DEFINE new == With(db, i, row)
<1>1. /\ DOMAIN new = DOMAIN db /\ new[i] = row
      /\ \A j \in DOMAIN db \ {i} : new[j] = db[j]
  BY DEF With
<1> HIDE DEF new
<1>2. SUFFICES ASSUME NEW S \in SUBSET Of(new, "tree"), S # {} PROVE \E j \in S : new[j].owner \notin S
  BY DEF Acyclic, new
<1>3. S \subseteq Of(db, "tree") /\ Nil \notin S
  <2>1. Of(new, "tree") = Of(db, "tree")
    BY <1>1 DEF Of
  <2>2. QED
    BY <2>1, OwnersAre, NilIsNothing DEF Tables
<1>4. CASE i \notin S
  BY <1>1, <1>2, <1>3, <1>4 DEF Acyclic, Of
<1>5. CASE i \in S /\ row.owner \notin S
  BY <1>1, <1>5
<1>6. CASE i \in S /\ row.owner \in S
  <2>1. row.table = "tree" /\ row.owner \in above
    BY <1>1, <1>3, <1>6 DEF Of
  <2>2. PICK j \in S \cap above : db[j].owner \notin S \cap above
    BY <1>3, <1>6, <2>1 DEF Acyclic
  <2>3. db[j].owner \notin S /\ new[j] = db[j]
    BY <1>1, <1>3, <2>2
  <2>4. QED
    BY <2>2, <2>3
<1>7. QED
  BY <1>4, <1>5, <1>6

LEMMA WithoutIsSound ==
  ASSUME NEW db, Sound(db), NEW i
  PROVE  Sound(Without(db, i))
<1> DEFINE new == Without(db, i)
<1>1. DOMAIN new \subseteq DOMAIN db /\ \A j \in DOMAIN new : new[j] = db[j]
  BY DEF Without
<1> HIDE DEF new
<1>2. Acyclic(db) /\ Apart(db)
  BY SoundIs
<1>3. Apart(new)
  BY <1>1, <1>2 DEF Apart
<1>4. Of(new, "tree") \subseteq Of(db, "tree")
  BY <1>1 DEF Of
<1>5. ASSUME NEW S \in SUBSET Of(new, "tree"), S # {} PROVE \E j \in S : new[j].owner \notin S
  <2>1. PICK j \in S : db[j].owner \notin S
    BY <1>2, <1>4, <1>5 DEF Acyclic
  <2>2. QED
    BY <2>1, <1>1, <1>5 DEF Of
<1>6. QED
  BY <1>3, <1>5, SoundIs DEF Acyclic, new

\* A new row beside no other of its name.
LEMMA NewRowIsSound ==
  ASSUME NEW db, Database(db), Referenced(db), Sound(db), NEW i \in Ids, i \notin DOMAIN db,
         NEW row, row.owner # i, \A j \in DOMAIN db : ~ Alike(db[j], row)
  PROVE  Sound(With(db, i, row))
<1>1. Acyclic(db) /\ Apart(db)
  BY SoundIs
<1>2. Acyclic(With(db, i, row))
  BY <1>1, NewRowStaysAcyclic
<1>3. Apart(With(db, i, row))
  BY <1>1, PutStaysApart
<1>4. QED
  BY <1>2, <1>3, SoundIs

LEMMA EditIsSound ==
  ASSUME TypeOK, Shapes, SessionInv, NEW s \in Sessions, pc[s] = "flush", call[s].op = "update",
         fresh[s], Sound(View(s)), NEW new, Edits(s, call[s], View(s), new)
  PROVE  Sound(new)
<1> DEFINE c == call[s]
           db == View(s)
           now == db[c.id]
           row == Edited(c, cache[s][c.id], now)
<1>1. /\ Database(db) /\ CallInv(s) /\ FreshInv(s) /\ Acyclic(db) /\ Apart(db)
      /\ c.id \in DOMAIN db /\ new = With(db, c.id, row)
  BY SessionIs, SoundIs DEF Edits
<1>2. /\ c \in Calls /\ c.name \in Names /\ now \in Row /\ row \in Row
      /\ row.table = now.table /\ now.table = c.table
  BY <1>1, EditedOwner
<1>3. cache[s][c.id] = now
  BY <1>1 DEF CallInv, Completes, FreshInv
<1>4. row.name = c.name /\ row.owner = c.owner
  BY <1>2, <1>3, EditedIs
<1>5. ~ Taken(s)
  BY <1>1 DEF FreshInv
<1>6. ASSUME NEW j \in DOMAIN db \ {c.id} PROVE ~ Alike(db[j], row)
  <2>1. CASE Renamed(s)
    <3>1. Twins(db, row.table, row.name, row.owner) \ {c.id} = {}
      BY <2>1, <1>2, <1>4, <1>5 DEF Taken
    <3>2. QED
      BY <3>1, TwinsAre, <1>6
  <2>2. CASE ~ Renamed(s)
    <3>1. row.name = now.name /\ row.owner = now.owner
      BY <2>2, <1>3, <1>4 DEF Renamed
    <3>2. ~ Alike(db[j], now)
      BY <1>1, <1>6 DEF Apart
    <3>3. QED
      BY <3>1, <3>2, <1>2 DEF Alike
  <2>3. QED
    BY <2>1, <2>2
<1>7. Apart(new)
  BY <1>1, <1>6, PutStaysApart
<1>8. Acyclic(new)
  <2>1. CASE row.table = "tree"
    <3>1. Climbed(s) /\ at[s] = Nil
      BY <2>1, <1>1, <1>2 DEF FreshInv, CallInv
    <3>2. /\ seen[s] \subseteq DOMAIN db /\ c.id \notin seen[s] /\ row.owner \in seen[s] \cup {Nil}
          /\ \A j \in seen[s] : db[j].owner \in seen[s] \cup {Nil}
      BY <3>1, <1>4 DEF Climbed
    <3>3. QED
      BY <3>2, <1>1, <1>2, MoveStaysAcyclic
  <2>2. CASE row.table # "tree"
    <3>1. PICK above : above = {x \in DOMAIN db : FALSE}
      OBVIOUS
    <3>2. QED
      BY <3>1, <2>2, <1>1, <1>2, MoveStaysAcyclic
  <2>3. QED
    BY <2>1, <2>2
<1>9. QED
  BY <1>7, <1>8, SoundIs

LEMMA PathIsSound ==
  ASSUME TypeOK, Shapes, SessionInv, NEW s \in Sessions, pc[s] = "flush", call[s].op = "path",
         Sound(View(s)), NEW new,
         PathsNew(call[s], View(s), new) \/ PathsBelow(call[s], View(s), new)
  PROVE  Sound(new)
<1> DEFINE c == call[s]
           db == View(s)
<1>1. /\ c \in Calls /\ CallInv(s) /\ Database(db) /\ Referenced(db)
      /\ c.name \in Names /\ c.outer \in Names /\ c.table = "tree" /\ "tree" \in Tables
  BY SessionIs DEF CallInv, Tables
<1>2. c.owner \in DOMAIN db \cup {Nil} /\ c.owner \in Ids \cup {Nil} /\ c.owner \in Owners(db, "tree")
  BY <1>1, CallIs DEF CallInv, Owners, Of
<1>3. CASE PathsNew(c, db, new)
  <2>1. PICK i \in NewKey(db, "tree") :
          /\ Outer(db, c) = {}
          /\ \E j \in NewKey(With(db, i, NewRow(c, c.outer, c.owner)), "tree") :
               new = With(With(db, i, NewRow(c, c.outer, c.owner)), j, NewRow(c, c.name, i))
    BY <1>3 DEF PathsNew
  <2>2. PICK row : row = NewRow(c, c.outer, c.owner)
    OBVIOUS
  <2>3. PICK placed : placed = With(db, i, row)
    OBVIOUS
  <2>4. PICK j \in NewKey(placed, "tree") : new = With(placed, j, NewRow(c, c.name, i))
    BY <2>1, <2>2, <2>3
  <2>5. /\ i \in Keys["tree"] /\ i \in Ids /\ i \notin DOMAIN db /\ i # Nil
        /\ row \in Row /\ row.table = "tree" /\ row.name = c.outer /\ row.owner = c.owner
    BY <1>1, <1>2, <2>2, NewKeyIs, KeysAre, NewRowIs, NilIsNothing
  <2>6. \A k \in DOMAIN db : ~ Alike(db[k], row)
    BY <2>1, <2>5 DEF Outer, Twins, Of, Alike
  <2>7. Database(placed) /\ Referenced(placed) /\ Sound(placed)
    BY <1>1, <1>2, <2>3, <2>5, <2>6, PutIsGood, NewRowIsSound
  <2>8. /\ DOMAIN placed = DOMAIN db \cup {i} /\ placed[i] = row
        /\ \A k \in DOMAIN db : placed[k] = db[k]
    BY <2>3, <2>5 DEF With
  <2>9. PICK below : below = NewRow(c, c.name, i)
    OBVIOUS
  <2>10. below.table = "tree" /\ below.owner = i /\ j \in Ids /\ j \notin DOMAIN placed /\ i # j
    BY <1>1, <2>8, <2>9, NewKeyIs, KeysAre, NewRowIs
  <2>11. ASSUME NEW k \in DOMAIN placed PROVE ~ Alike(placed[k], below)
    <3>1. CASE k = i
      BY <3>1, <1>2, <2>5, <2>8, <2>10 DEF Alike
    <3>2. CASE k \in DOMAIN db /\ db[k].table = "tree"
      <4>1. db[k].owner \in DOMAIN db \cup {Nil}
        BY <3>2, <1>1 DEF Referenced, Owners, Of
      <4>2. QED
        BY <3>2, <4>1, <2>5, <2>8, <2>10 DEF Alike
    <3>3. CASE k \in DOMAIN db /\ db[k].table # "tree"
      BY <3>3, <2>8, <2>10 DEF Alike
    <3>4. QED
      BY <3>1, <3>2, <3>3, <2>8
  <2>12. QED
    BY <2>4, <2>7, <2>9, <2>10, <2>11, NewRowIsSound
<1>4. CASE PathsBelow(c, db, new)
  <2>1. PICK o \in Outer(db, c), j \in NewKey(db, "tree") :
          Twins(db, "tree", c.name, o) = {} /\ new = With(db, j, NewRow(c, c.name, o))
    BY <1>4 DEF PathsBelow
  <2>2. PICK row : row = NewRow(c, c.name, o)
    OBVIOUS
  <2>3. row.table = "tree" /\ row.name = c.name /\ row.owner = o /\ j \in Ids /\ j \notin DOMAIN db
    BY <1>1, <2>2, NewRowIs, NewKeyIs, KeysAre
  <2>4. o \in DOMAIN db
    BY DEF Outer, Twins, Of
  <2>5. \A k \in DOMAIN db : ~ Alike(db[k], row)
    BY <2>1, <2>3 DEF Twins, Of, Alike
  <2>6. QED
    BY <1>1, <2>1, <2>2, <2>3, <2>4, <2>5, NewRowIsSound
<1>5. QED
  BY <1>3, <1>4

LEMMA WrittenIsSound ==
  ASSUME TypeOK, Shapes, SessionInv, NEW s \in Sessions, pc[s] = "flush",
         fresh[s] \/ Locked(s, call[s]), Sound(View(s)), NEW new \in Written(s, View(s))
  PROVE  Sound(new)
<1> DEFINE c == call[s]
           db == View(s)
<1>1. /\ c \in Calls /\ CallInv(s) /\ FreshInv(s) /\ Database(db) /\ Referenced(db)
      /\ c.table \in Tables /\ c.owner \in Owners(db, c.table)
  BY SessionIs, CallIs DEF CallInv
<1>2. fresh[s]
  BY <1>1 DEF CallInv
<1>3. CASE c.op = "create" /\ Creates(c, db, new)
  <2>1. PICK i \in NewKey(db, c.table) : new = With(db, i, NewRow(c, c.name, c.owner))
    BY <1>3 DEF Creates
  <2>2. PICK row : row = NewRow(c, c.name, c.owner)
    OBVIOUS
  <2>3. /\ row.table = c.table /\ row.name = c.name /\ row.owner = c.owner
        /\ i \in Ids /\ i \notin DOMAIN db /\ i # Nil
    BY <1>1, <2>2, NewRowIs, NewKeyIs, KeysAre, NilIsNothing
  <2>4. c.owner # i
    BY <1>1, <2>3 DEF Owners, Of
  <2>5. c.id = Nil /\ ~ Taken(s)
    BY <1>1, <1>2, <1>3 DEF CallInv, FreshInv
  <2>6. Twins(db, row.table, row.name, row.owner) \ {Nil} = {}
    BY <2>3, <2>5, <1>3 DEF Taken
  <2>7. \A j \in DOMAIN db : j # Nil /\ ~ Alike(db[j], row)
    <3>1. DOMAIN db \subseteq Ids
      BY <1>1, RowIs, KeysAre DEF Database
    <3>2. QED
      BY <3>1, <2>6, TwinsAre, NilIsNothing
  <2>8. QED
    BY <1>1, <2>1, <2>2, <2>3, <2>4, <2>7, NewRowIsSound
<1>4. CASE c.op = "update" /\ Edits(s, c, db, new)
  BY <1>2, <1>4, EditIsSound
<1>5. CASE c.op = "detach" /\ new = Without(db, c.id)
  BY <1>5, WithoutIsSound
<1>6. CASE c.op = "path" /\ (PathsNew(c, db, new) \/ PathsBelow(c, db, new))
  BY <1>6, PathIsSound
<1>7. QED
  BY <1>3, <1>4, <1>5, <1>6, WrittenIs

-----------------------------------------------------------------------------
(***************************************************************************)
(* A session's own steps                                                   *)
(***************************************************************************)
Own(s) == CallInv(s)' /\ FreshInv(s)'

\* What a session reads after it ended is what has been committed.
LEMMA Ends ==
  ASSUME TypeOK, Shapes, NEW s \in Sessions,
         lock' # s, cache'[s] = Empty, call'[s] = NoCall, at'[s] = Nil, pc'[s] = "idle"
  PROVE  Own(s)
<1>1. CallInv(s)'
  BY DEF CallInv, NoCall, Owners, Empty
<1>2. FreshInv(s)'
  BY DEF FreshInv, Empty
<1>3. QED
  BY <1>1, <1>2 DEF Own

LEMMA AbandonKeeps ==
  ASSUME TypeOK, Shapes, NEW s \in Sessions, Abandon(s)
  PROVE  Own(s)
<1>1. s # Nil
  BY NilIsNothing
<1>2. lock' # s /\ cache'[s] = Empty /\ call'[s] = NoCall /\ at'[s] = Nil /\ pc'[s] = "idle"
  BY <1>1 DEF Abandon, Forget, Shapes
<1>3. QED
  BY <1>2, Ends

LEMMA PublishKeeps ==
  ASSUME TypeOK, Shapes, NEW s \in Sessions, Publish(s), Goto(s, "idle")
  PROVE  Own(s)
<1>1. s # Nil
  BY NilIsNothing
<1>2. lock' # s /\ cache'[s] = Empty /\ call'[s] = NoCall /\ at'[s] = Nil /\ pc'[s] = "idle"
  BY <1>1 DEF Publish, Goto, Forget, Shapes
<1>3. QED
  BY <1>2, Ends

\* What a session reads and does not change.
LEMMA SameView ==
  ASSUME UNCHANGED <<rows, draft, lock>>, NEW s
  PROVE  View(s)' = View(s)
BY DEF View

LEMMA CacheGrows ==
  ASSUME TypeOK, Shapes, SessionInv, NEW s \in Sessions, NEW i,
         i \in DOMAIN cache[s] \cup DOMAIN View(s)
  PROVE  /\ Get(s, i) \in Row /\ i \in Keys[Get(s, i).table]
         /\ Get(s, i).owner \in Owners(View(s), Get(s, i).table)
         /\ fresh[s] => i \in DOMAIN View(s) /\ Get(s, i) = View(s)[i]
<1>1. CallInv(s) /\ FreshInv(s) /\ Database(cache[s]) /\ Database(View(s)) /\ Referenced(View(s))
  BY SessionIs
<1>2. CASE i \in DOMAIN cache[s]
  <2>1. Get(s, i) = cache[s][i]
    BY <1>2 DEF Get
  <2>2. QED
    BY <1>1, <1>2, <2>1 DEF CallInv, FreshInv, Database
<1>3. CASE i \notin DOMAIN cache[s]
  <2>1. Get(s, i) = View(s)[i] /\ i \in DOMAIN View(s)
    BY <1>3 DEF Get
  <2>2. QED
    BY <1>1, <2>1 DEF Database, Referenced
<1>4. QED
  BY <1>2, <1>3

\* The cache after Keep.
LEMMA Kept ==
  ASSUME TypeOK, Shapes, SessionInv, NEW s \in Sessions, NEW i,
         i \in DOMAIN cache[s] \cup DOMAIN View(s), Keep(s, i)
  PROVE  /\ cache' = [u \in Sessions |-> cache'[u]]
         /\ Database(cache'[s]) /\ DOMAIN cache'[s] = DOMAIN cache[s] \cup {i}
         /\ cache'[s][i] = Get(s, i) /\ \A j \in DOMAIN cache[s] : cache'[s][j] = cache[s][j]
         /\ \A j \in DOMAIN cache'[s] : cache'[s][j].owner \in Owners(View(s), cache'[s][j].table)
         /\ fresh[s] => \A j \in DOMAIN cache'[s] : j \in DOMAIN View(s) /\ cache'[s][j] = View(s)[j]
<1>1. CallInv(s) /\ FreshInv(s) /\ Database(cache[s])
  BY SessionIs
<1>2. cache' = [u \in Sessions |-> cache'[u]] /\ cache'[s] = With(cache[s], i, Get(s, i))
  BY DEF Keep, Shapes
<1>3. /\ DOMAIN cache'[s] = DOMAIN cache[s] \cup {i} /\ cache'[s][i] = Get(s, i)
      /\ \A j \in DOMAIN cache[s] \ {i} : cache'[s][j] = cache[s][j]
      /\ cache'[s] = [j \in DOMAIN cache'[s] |-> cache'[s][j]]
  BY <1>2 DEF With
<1>4. \A j \in DOMAIN cache[s] : cache'[s][j] = cache[s][j]
  BY <1>3 DEF Get
<1>5. ASSUME NEW j \in DOMAIN cache'[s]
      PROVE  /\ cache'[s][j] \in Row /\ j \in Keys[cache'[s][j].table]
             /\ cache'[s][j].owner \in Owners(View(s), cache'[s][j].table)
             /\ fresh[s] => j \in DOMAIN View(s) /\ cache'[s][j] = View(s)[j]
  <2>1. CASE j = i
    BY <2>1, <1>3, CacheGrows
  <2>2. CASE j \in DOMAIN cache[s]
    BY <2>2, <1>1, <1>4 DEF CallInv, FreshInv, Database
  <2>3. QED
    BY <2>1, <2>2, <1>3, <1>5
<1>6. QED
  BY <1>2, <1>3, <1>4, <1>5 DEF Database

-----------------------------------------------------------------------------
(***************************************************************************)
(* What is asked                                                           *)
(***************************************************************************)
\* A call that may be made on what its session reads.
Creation(db, c) ==
  /\ c.op = "create" /\ c.id = Nil /\ c.name \in Names /\ c.owner \in Owners(db, c.table)
Edit(db, c) ==
  /\ c.op = "update" /\ c.id \in Of(db, c.table) /\ Sensible(c)
  /\ c.table = "photo" => "owner" \notin c.asked
  /\ c.owner \in Of(db, "tree") \cup {Nil}
Detachment(db, c) ==
  /\ c.op = "detach" /\ c.table = "photo" /\ c.id \in Of(db, "photo") /\ Sensible(c)
  /\ c.asked = {}
Path(s, db, c) ==
  /\ c.op = "path" /\ c.table = "tree" /\ s \in Agents /\ {c.name, c.outer} \subseteq Names
  /\ c.owner \in Of(db, "tree") \cup {Nil}

LEMMA NoCallIs ==
  /\ NoCall \in Calls
  /\ NoCall = [op |-> NoCall.op, table |-> NoCall.table, id |-> NoCall.id, name |-> NoCall.name,
               owner |-> NoCall.owner, note |-> NoCall.note, asked |-> NoCall.asked,
               outer |-> NoCall.outer]
  /\ NoCall.op = "none" /\ NoCall.id = Nil /\ NoCall.name = Nil /\ NoCall.owner = Nil
  /\ NoCall.table = "tree" /\ NoCall.asked = {} /\ NoCall.outer = Nil /\ NoCall.note = FALSE
BY DEF NoCall, Calls, Tables, Columns

LEMMA NewIs ==
  ASSUME NEW db, Database(db), NEW table \in Tables, NEW n \in Names, NEW o \in Owners(db, table)
  PROVE  New(table, n, o) \in Calls /\ Creation(db, New(table, n, o))
<1>1. o \in Ids \cup {Nil}
  BY OwnersAre
<1>2. /\ New(table, n, o).op = "create" /\ New(table, n, o).table = table
      /\ New(table, n, o).name = n /\ New(table, n, o).owner = o /\ New(table, n, o).id = Nil
  BY DEF New, NoCall
<1>3. New(table, n, o) \in Calls
  BY <1>1 DEF New, NoCall, Calls, Columns
<1>4. QED
  BY <1>2, <1>3 DEF Creation

LEMMA CompletedIs ==
  ASSUME NEW c \in Calls, NEW r \in Row, Sensible(c)
  PROVE  LET full == Completed(c, r) IN
         /\ full \in Calls /\ full.op = c.op /\ full.table = c.table /\ full.id = c.id
         /\ full.asked = c.asked /\ full.name \in Names
         /\ full.owner = IF "owner" \in c.asked THEN c.owner ELSE r.owner
         /\ \A column \in Columns \ full.asked : full[column] = r[column]
<1> DEFINE full == Completed(c, r)
<1>1. /\ full.op = c.op /\ full.table = c.table /\ full.id = c.id /\ full.asked = c.asked
      /\ full.name = IF "name" \in c.asked THEN c.name ELSE r.name
      /\ full.owner = IF "owner" \in c.asked THEN c.owner ELSE r.owner
      /\ full.note = IF "note" \in c.asked THEN c.note ELSE r.note
  BY DEF Completed, Calls
<1>2. full.name \in Names
  BY <1>1, CallIs, RowIs DEF Sensible
<1>3. full \in Calls
  <2>1. full = [op |-> full.op, table |-> full.table, id |-> full.id, name |-> full.name,
                owner |-> full.owner, note |-> full.note, asked |-> full.asked, outer |-> full.outer]
    <3>1. PICK n, o, x : full = [c EXCEPT !.name = n, !.owner = o, !.note = x]
      BY DEF Completed
    <3>2. c = [op |-> c.op, table |-> c.table, id |-> c.id, name |-> c.name, owner |-> c.owner,
               note |-> c.note, asked |-> c.asked, outer |-> c.outer]
      BY DEF Calls
    <3> HIDE DEF full
    <3>3. QED
      BY <3>1, <3>2
  <2>2. full.outer = c.outer
    BY DEF Completed, Calls
  <2> HIDE DEF full
  <2>3. QED
    BY <1>1, <1>2, <2>1, <2>2, CallIs, RowIs DEF Calls
<1> HIDE DEF full
<1>4. ASSUME NEW column \in Columns \ full.asked PROVE full[column] = r[column]
  <2>1. CASE column = "name"
    BY <2>1, <1>1, <1>4
  <2>2. CASE column = "owner"
    BY <2>2, <1>1, <1>4
  <2>3. CASE column = "note"
    BY <2>3, <1>1, <1>4
  <2>4. QED
    BY <2>1, <2>2, <2>3 DEF Columns
<1>5. QED
  BY <1>1, <1>2, <1>3, <1>4 DEF full

LEMMA AsksAre ==
  ASSUME NEW db, Database(db), NEW table \in {"tree", "item"}, NEW i \in Of(db, table),
         NEW c \in Asks(table, i, db), Sensible(c)
  PROVE  c \in Calls /\ Edit(db, c)
<1>1. PICK n \in Names \cup {Nil}, o \in Of(db, "tree") \cup {Nil}, a \in Asked :
        c = [op |-> "update", table |-> table, id |-> i, name |-> n, owner |-> o,
             note |-> "note" \in a, asked |-> a, outer |-> Nil]
  BY DEF Asks
<1>2. i \in Ids /\ o \in Ids \cup {Nil} /\ a \subseteq Columns /\ table \in Tables
  BY OwnersAre, ConstantsAssumption DEF Tables
<1>3. ("note" \in a) \in BOOLEAN
  OBVIOUS
<1>4. c \in Calls
  BY <1>1, <1>2, <1>3 DEF Calls
<1>5. c.op = "update" /\ c.table = table /\ c.id = i /\ c.owner = o
  BY <1>1
<1>6. QED
  BY <1>4, <1>5 DEF Edit

LEMMA PhotoEditsAre ==
  ASSUME NEW db, Database(db), NEW c \in PhotoEdits(db)
  PROVE  c \in Calls /\ (Edit(db, c) \/ Detachment(db, c))
<1>1. CASE \E i \in Of(db, "photo"), d \in BOOLEAN :
             c = [op |-> "update", table |-> "photo", id |-> i, name |-> Nil, owner |-> Nil,
                  note |-> d, asked |-> {"note"}, outer |-> Nil]
  BY <1>1, OwnersAre DEF Calls, Tables, Columns, Edit, Sensible
<1>2. CASE \E i \in Of(db, "photo") :
             c = [op |-> "detach", table |-> "photo", id |-> i, name |-> Nil, owner |-> Nil,
                  note |-> FALSE, asked |-> {}, outer |-> Nil]
  BY <1>2, OwnersAre DEF Calls, Tables, Columns, Detachment, Sensible
<1>3. QED
  BY <1>1, <1>2 DEF PhotoEdits

LEMMA PathsAre ==
  ASSUME NEW s \in Agents, NEW db, Database(db), NEW c \in Paths(db)
  PROVE  c \in Calls /\ Path(s, db, c)
<1>1. PICK n \in Names, m \in Names, o \in Of(db, "tree") \cup {Nil} :
        c = [op |-> "path", table |-> "tree", id |-> Nil, name |-> n, owner |-> o, note |-> FALSE,
             asked |-> {}, outer |-> m]
  BY DEF Paths
<1>2. o \in Ids \cup {Nil}
  BY OwnersAre DEF Tables
<1>3. c \in Calls
  BY <1>1, <1>2 DEF Calls, Tables, Columns
<1>4. QED
  BY <1>1, <1>3 DEF Path

LEMMA RequestsAre ==
  ASSUME NEW s, NEW db, Database(db), NEW c \in Requests(s, db)
  PROVE  c \in Calls /\ (Creation(db, c) \/ Edit(db, c) \/ Detachment(db, c) \/ Path(s, db, c))
<1>1. CASE c \in NewPlaces(db)
  <2>1. PICK n \in Names, o \in Owners(db, "tree") : c = New("tree", n, o)
    BY <1>1 DEF NewPlaces, Owners
  <2>2. QED
    BY <2>1, NewIs DEF Tables
<1>2. CASE c \in NewItems(db)
  <2>1. PICK n \in Names, o \in Owners(db, "item") : c = New("item", n, o)
    BY <1>2 DEF NewItems, Owners
  <2>2. QED
    BY <2>1, NewIs DEF Tables
<1>3. CASE c \in NewPhotos(db)
  <2>1. PICK n \in Names, o \in Owners(db, "photo") : c = New("photo", n, o)
    BY <1>3 DEF NewPhotos, Owners
  <2>2. QED
    BY <2>1, NewIs DEF Tables
<1>4. CASE c \in ItemEdits(db)
  <2>1. Sensible(c) /\ \E i \in Of(db, "item") : c \in Asks("item", i, db)
    BY <1>4 DEF ItemEdits
  <2>2. QED
    BY <2>1, AsksAre
<1>5. CASE c \in PhotoEdits(db)
  BY <1>5, PhotoEditsAre
<1>6. CASE s \in Agents /\ c \in Paths(db)
  BY <1>6, PathsAre
<1>7. CASE c \in PlaceEdits(db)
  <2>1. Sensible(c) /\ \E i \in Of(db, "tree") : c \in Asks("tree", i, db)
    BY <1>7 DEF PlaceEdits
  <2>2. QED
    BY <2>1, AsksAre
<1>8. QED
  BY <1>1, <1>2, <1>3, <1>4, <1>5, <1>6, <1>7 DEF Requests

-----------------------------------------------------------------------------
LEMMA KeysOf ==
  ASSUME NEW db, Database(db), NEW table \in Tables, NEW i \in Of(db, table)
  PROVE  i \in DOMAIN db /\ i \in Keys[table] /\ i \in Ids /\ db[i] \in Row
BY KeysAre DEF Of, Database

\* The row to be edited is of the table, and what the edit refers to is there.
LEMMA AskedIs ==
  ASSUME TypeOK, Shapes, SessionInv, NEW s \in Sessions, NEW c \in Calls,
         Edit(View(s), c) \/ Detachment(View(s), c), NEW r \in Row, c.id \in Keys[r.table],
         r.owner \in Owners(View(s), r.table)
  PROVE  LET full == Completed(c, r) IN
         /\ full \in Calls /\ full.op = c.op /\ full.table = c.table /\ full.id = c.id
         /\ full.name \in Names /\ full.owner \in Owners(View(s), full.table)
         /\ c.id \in Keys[c.table]
         /\ \A column \in Columns \ full.asked : full[column] = r[column]
<1> DEFINE db == View(s)
           full == Completed(c, r)
<1>1. Database(db) /\ c.table \in Tables /\ r.table \in Tables
  BY SessionIs, CallIs, RowIs
<1>2. Sensible(c) /\ c.id \in Of(db, c.table)
  BY DEF Edit, Detachment
<1>3. c.id \in Keys[c.table] /\ r.table = c.table
  BY <1>1, <1>2, KeysOf, KeysAre
<1>4. /\ full \in Calls /\ full.op = c.op /\ full.table = c.table /\ full.id = c.id
      /\ full.asked = c.asked /\ full.name \in Names
      /\ full.owner = IF "owner" \in c.asked THEN c.owner ELSE r.owner
      /\ \A column \in Columns \ full.asked : full[column] = r[column]
  BY <1>2, CompletedIs
<1> HIDE DEF full
<1>5. full.owner \in Owners(db, full.table)
  <2>1. CASE "owner" \in c.asked
    <3>1. c.table # "photo" /\ c.owner \in Of(db, "tree") \cup {Nil}
      BY <2>1 DEF Edit, Detachment
    <3>2. QED
      BY <2>1, <3>1, <1>4 DEF Owners
  <2>2. CASE "owner" \notin c.asked
    BY <2>2, <1>3, <1>4
  <2>3. QED
    BY <2>1, <2>2
<1>6. QED
  BY <1>3, <1>4, <1>5 DEF full

LEMMA AskEditKeeps ==
  ASSUME TypeOK, Shapes, SessionInv, NEW s \in Sessions, AskEdit(s)
  PROVE  Own(s) /\ call'[s] \in Calls /\ Database(cache'[s])
<1>1. PICK c \in Requests(s, View(s)) :
        /\ c.op \in {"update", "detach"} /\ ~ Locked(s, c)
        /\ call' = [call EXCEPT ![s] = Completed(c, Get(s, c.id))]
        /\ at' = [at EXCEPT ![s] = IF c.table = "tree" THEN Completed(c, Get(s, c.id)).owner ELSE Nil]
        /\ Keep(s, c.id)
  BY DEF AskEdit
<1> DEFINE db == View(s)
           r == Get(s, c.id)
           full == Completed(c, r)
<1>2. Database(db) /\ CallInv(s) /\ FreshInv(s)
  BY SessionIs
<1>3. c \in Calls /\ (Edit(db, c) \/ Detachment(db, c))
  BY <1>1, <1>2, RequestsAre DEF Creation, Path
<1>4. c.id \in DOMAIN db
  BY <1>3 DEF Edit, Detachment, Of
<1>5. r \in Row /\ c.id \in Keys[r.table] /\ r.owner \in Owners(db, r.table)
  BY <1>4, CacheGrows
<1>6. /\ full \in Calls /\ full.op = c.op /\ full.table = c.table /\ full.id = c.id
      /\ full.name \in Names /\ full.owner \in Owners(db, full.table) /\ c.id \in Keys[c.table]
      /\ \A column \in Columns \ full.asked : full[column] = r[column]
  BY <1>3, <1>5, AskedIs
<1>7. /\ c.id \in DOMAIN cache'[s] /\ cache'[s][c.id] = r /\ Database(cache'[s])
      /\ \A j \in DOMAIN cache'[s] : cache'[s][j].owner \in Owners(db, cache'[s][j].table)
      /\ fresh[s] => \A j \in DOMAIN cache'[s] : j \in DOMAIN db /\ cache'[s][j] = db[j]
  BY <1>1, <1>4, Kept
<1>8. /\ call'[s] = full /\ at'[s] = (IF c.table = "tree" THEN full.owner ELSE Nil)
      /\ seen'[s] = {} /\ pc'[s] = "walk" /\ fresh' = fresh
  BY <1>1 DEF AskEdit, MayAsk, Goto, Shapes
<1>9. View(s)' = db
  BY SameView DEF AskEdit
<1> HIDE DEF full, r, db
<1>10. c.op = "detach" => c.table = "photo"
  BY <1>3 DEF Edit, Detachment
<1>11. ~ Locked(s, full)
  BY <1>1, <1>6 DEF Locked
<1>12. at'[s] \in Of(db, "tree") \cup {Nil}
  BY <1>6, <1>8 DEF Owners
<1>13. Completes(full, cache'[s])
  BY <1>6, <1>7 DEF Completes
<1>14. full.op \in {"update", "detach"} /\ (full.op = "detach" => full.table = "photo")
  BY <1>1, <1>6, <1>10
<1>15. CallInv(s)'
  BY <1>6, <1>7, <1>8, <1>9, <1>11, <1>12, <1>13, <1>14 DEF CallInv
<1>16. FreshInv(s)'
  BY <1>6, <1>7, <1>8, <1>9 DEF FreshInv, Climbed
<1>17. QED
  BY <1>6, <1>7, <1>8, <1>15, <1>16 DEF Own

LEMMA AskNewKeeps ==
  ASSUME TypeOK, Shapes, SessionInv, NEW s \in Sessions, AskNew(s)
  PROVE  Own(s) /\ call'[s] \in Calls /\ Database(cache'[s])
<1>1. PICK c \in Requests(s, View(s)) :
        /\ c.op = "create" /\ ~ Locked(s, c) /\ call' = [call EXCEPT ![s] = c]
        /\ IF c.owner # Nil THEN Keep(s, c.owner) ELSE UNCHANGED cache
  BY DEF AskNew
<1> DEFINE db == View(s)
<1>2. Database(db) /\ CallInv(s) /\ FreshInv(s)
  BY SessionIs
<1>3. c \in Calls /\ Creation(db, c)
  BY <1>1, <1>2, RequestsAre DEF Edit, Detachment, Path
<1>4. c.owner # Nil => c.owner \in DOMAIN db
  BY <1>3 DEF Creation, Owners, Of
<1>5. /\ \A j \in DOMAIN cache'[s] : cache'[s][j].owner \in Owners(db, cache'[s][j].table)
      /\ fresh[s] => \A j \in DOMAIN cache'[s] : j \in DOMAIN db /\ cache'[s][j] = db[j]
      /\ Database(cache'[s])
  <2>1. CASE c.owner # Nil
    BY <2>1, <1>1, <1>4, Kept
  <2>2. CASE c.owner = Nil
    <3>1. cache' = cache
      BY <2>2, <1>1
    <3>2. QED
      BY <3>1, <1>2, SessionIs DEF CallInv, FreshInv
  <2>3. QED
    BY <2>1, <2>2
<1>6. call'[s] = c /\ at'[s] = Nil /\ pc'[s] = "walk" /\ fresh' = fresh
  BY <1>1 DEF AskNew, Goto, Shapes
<1>7. View(s)' = db
  BY SameView DEF AskNew
<1> HIDE DEF db
<1>8. CallInv(s)'
  BY <1>1, <1>3, <1>5, <1>6, <1>7 DEF CallInv, Creation
<1>9. FreshInv(s)'
  BY <1>1, <1>5, <1>6, <1>7 DEF FreshInv
<1>10. QED
  BY <1>3, <1>5, <1>6, <1>8, <1>9 DEF Own

LEMMA AskLockedKeeps ==
  ASSUME TypeOK, Shapes, SessionInv, NEW s \in Sessions, AskLocked(s)
  PROVE  Own(s) /\ call'[s] \in Calls
<1>1. PICK c \in Requests(s, View(s)) : Locked(s, c) /\ call' = [call EXCEPT ![s] = c]
  BY DEF AskLocked
<1> DEFINE db == View(s)
<1>2. Database(db) /\ CallInv(s) /\ FreshInv(s)
  BY SessionIs
<1>3. c \in Calls /\ (Creation(db, c) \/ Edit(db, c) \/ Detachment(db, c) \/ Path(s, db, c))
  BY <1>2, RequestsAre
<1>4. call'[s] = c /\ at'[s] = Nil /\ pc'[s] = "lock" /\ fresh' = fresh /\ cache' = cache
  BY <1>1 DEF AskLocked, Goto, Shapes
<1>5. View(s)' = db
  BY SameView DEF AskLocked
<1> HIDE DEF db
<1>6. /\ c.owner \in Owners(db, c.table)
      /\ c.op = "create" => c.id = Nil /\ c.name \in Names
      /\ c.op = "update" => c.id \in Of(db, "item") /\ Sensible(c)
      /\ c.op = "path" => {c.name, c.outer} \subseteq Names /\ c.table = "tree"
  <2>1. CASE Creation(db, c)
    BY <2>1 DEF Creation
  <2>2. CASE Edit(db, c)
    BY <2>2, <1>1 DEF Edit, Locked, Owners
  <2>3. CASE Detachment(db, c)
    BY <2>3, <1>1 DEF Detachment, Locked
  <2>4. CASE Path(s, db, c)
    BY <2>4 DEF Path, Owners
  <2>5. QED
    BY <2>1, <2>2, <2>3, <2>4, <1>3
<1>7. CallInv(s)'
  <2>1. \A i \in DOMAIN cache[s] : cache[s][i].owner \in Owners(db, cache[s][i].table)
    BY <1>2 DEF CallInv, db
  <2>2. QED
    BY <1>1, <1>4, <1>5, <1>6, <2>1 DEF CallInv, Locked
<1>8. FreshInv(s)'
  <2>1. fresh[s] => \A i \in DOMAIN cache[s] : i \in DOMAIN db /\ cache[s][i] = db[i]
    BY <1>2 DEF FreshInv, db
  <2>2. QED
    BY <1>4, <1>5, <2>1 DEF FreshInv
<1>9. QED
  BY <1>3, <1>4, <1>7, <1>8 DEF Own

\* Under the lock nothing moves: what is read now is what the write meets.
LEMMA TakeLockKeeps ==
  ASSUME TypeOK, Shapes, SessionInv, NEW s \in Sessions, TakeLock(s)
  PROVE  Own(s) /\ call'[s] \in Calls /\ Database(cache'[s])
<1> DEFINE c == call[s]
           db == View(s)
<1>1. /\ c \in Calls /\ CallInv(s) /\ FreshInv(s) /\ Database(db) /\ Referenced(db)
      /\ pc[s] = "lock"
  BY SessionIs DEF TakeLock
<1>2. /\ Locked(s, c) /\ at[s] = Nil /\ c.owner \in Owners(db, c.table)
      /\ c.op = "create" => c.id = Nil /\ c.name \in Names
      /\ c.op = "update" => c.id \in Of(db, "item") /\ Sensible(c)
      /\ c.op = "path" => {c.name, c.outer} \subseteq Names /\ c.table = "tree"
  BY <1>1 DEF CallInv
<1>3. /\ View(s)' = db /\ lock' = s /\ at' = at /\ fresh'[s] = TRUE
      /\ pc'[s] = (IF c.op = "path" THEN "flush" ELSE "walk")
  BY DEF TakeLock, View, Goto, Shapes
<1>4. CASE c.op = "update"
  <2>1. PICK full : full = Completed(c, db[c.id])
    OBVIOUS
  <2>2. call'[s] = full /\ cache'[s] = With(Empty, c.id, db[c.id])
    BY <1>4, <2>1 DEF TakeLock, Shapes
  <2>3. c.table = "item" /\ c.id \in DOMAIN db /\ Edit(db, c)
    BY <1>2, <1>4 DEF Locked, Edit, Owners, Of
  <2>4. /\ db[c.id] \in Row /\ c.id \in Keys[db[c.id].table]
        /\ db[c.id].owner \in Owners(db, db[c.id].table)
    BY <1>1, <2>3 DEF Database, Referenced
  <2>5. /\ full \in Calls /\ full.op = c.op /\ full.table = c.table /\ full.id = c.id
        /\ full.name \in Names /\ full.owner \in Owners(db, full.table) /\ c.id \in Keys[c.table]
        /\ \A column \in Columns \ full.asked : full[column] = db[c.id][column]
    BY <1>1, <2>1, <2>3, <2>4, AskedIs
  <2>6. /\ DOMAIN cache'[s] = {c.id} /\ cache'[s][c.id] = db[c.id]
        /\ cache'[s] = [j \in DOMAIN cache'[s] |-> cache'[s][j]]
    BY <2>2 DEF With, Empty
  <2>7. Database(cache'[s])
    BY <2>4, <2>6 DEF Database
  <2> HIDE DEF c, db
  <2>8. CallInv(s)'
    BY <1>2, <1>3, <1>4, <2>2, <2>3, <2>4, <2>5, <2>6 DEF CallInv, Completes, Locked
  <2>9. FreshInv(s)'
    BY <1>3, <1>4, <2>2, <2>3, <2>5, <2>6 DEF FreshInv
  <2>10. QED
    BY <2>2, <2>5, <2>7, <2>8, <2>9 DEF Own
<1>5. CASE c.op # "update"
  <2>1. call'[s] = c /\ cache'[s] = Empty
    BY <1>5 DEF TakeLock, Forget, Shapes
  <2>2. c.op \in {"create", "path"} /\ s \in Agents
    BY <1>2, <1>5 DEF Locked
  <2> HIDE DEF c, db
  <2>3. CallInv(s)'
    BY <1>2, <1>3, <1>5, <2>1, <2>2 DEF CallInv, Empty
  <2>4. FreshInv(s)'
    BY <1>3, <1>5, <2>1, <2>2 DEF FreshInv, Empty
  <2>5. QED
    BY <1>1, <2>1, <2>3, <2>4 DEF Own, Database, Empty, c
<1>6. QED
  BY <1>4, <1>5

LEMMA AscendKeeps ==
  ASSUME TypeOK, Shapes, SessionInv, NEW s \in Sessions, Ascend(s)
  PROVE  Own(s) /\ Database(cache'[s]) /\ at'[s] \in Ids \cup {Nil} /\ at[s] \in Ids
<1> DEFINE c == call[s]
           db == View(s)
           i == at[s]
<1>1. CallInv(s) /\ FreshInv(s) /\ Database(db) /\ "tree" \in Tables
  BY SessionIs DEF Tables
<1>2. i \in Of(db, "tree") /\ i \in DOMAIN db /\ i \in Keys["tree"] /\ i \in Ids
  BY <1>1, KeysOf DEF CallInv, Ascend
<1>3. /\ Get(s, i) \in Row /\ Get(s, i).owner \in Owners(db, Get(s, i).table)
      /\ i \in Keys[Get(s, i).table] /\ (fresh[s] => Get(s, i) = db[i])
  BY <1>2, CacheGrows
<1>4. Get(s, i).table = "tree"
  <2>1. Get(s, i).table \in Tables
    BY <1>3, RowIs
  <2>2. QED
    BY <2>1, <1>1, <1>2, <1>3, KeysAre
<1>5. /\ Database(cache'[s])
      /\ \A j \in DOMAIN cache'[s] : cache'[s][j].owner \in Owners(db, cache'[s][j].table)
      /\ fresh[s] => \A j \in DOMAIN cache'[s] : j \in DOMAIN db /\ cache'[s][j] = db[j]
      /\ DOMAIN cache[s] \subseteq DOMAIN cache'[s]
      /\ \A j \in DOMAIN cache[s] : cache'[s][j] = cache[s][j]
  BY <1>2, Kept DEF Ascend
<1>6. /\ call' = call /\ pc' = pc /\ lock' = lock /\ fresh' = fresh /\ View(s)' = db
      /\ pc[s] = "walk" /\ i # c.id /\ at'[s] = Get(s, i).owner /\ seen'[s] = seen[s] \cup {i}
  BY SameView DEF Ascend, Shapes
<1>7. at'[s] \in Of(db, "tree") \cup {Nil}
  BY <1>3, <1>4, <1>6 DEF Owners
<1> HIDE DEF c, db
<1>8. CallInv(s)'
  <2>1. Completes(c, cache[s]) => Completes(c, cache'[s])
    BY <1>5 DEF Completes
  <2>2. QED
    BY <1>1, <1>5, <1>6, <1>7, <2>1 DEF CallInv, Locked, c, db
<1>9. FreshInv(s)'
  <2>1. ASSUME fresh[s], Climbed(s) PROVE Climbed(s)'
    <3>1. /\ c.owner \in seen[s] \cup {i} /\ c.id \notin seen[s]
          /\ \A j \in seen[s] : j \in DOMAIN db /\ db[j].owner \in seen[s] \cup {i}
      BY <2>1 DEF Climbed, c, db
    <3>2. i \in DOMAIN db /\ at'[s] = db[i].owner
      BY <2>1, <1>2, <1>3, <1>6 DEF db
    <3> HIDE DEF i
    <3>3. c.owner \in seen'[s] \cup {at'[s]} /\ c.id \notin seen'[s]
      BY <3>1, <1>6
    <3>4. \A j \in seen'[s] : j \in DOMAIN db /\ db[j].owner \in seen'[s] \cup {at'[s]}
      BY <3>1, <3>2, <1>6
    <3>5. call'[s] = c /\ View(s)' = db
      BY <1>6 DEF c
    <3> HIDE DEF c, db
    <3>6. QED
      BY <3>3, <3>4, <3>5 DEF Climbed
  <2>2. QED
    BY <1>1, <1>5, <1>6, <2>1 DEF FreshInv, c, db
<1>10. at'[s] \in Ids \cup {Nil}
  BY <1>3, <1>6, RowIs
<1>11. QED
  BY <1>2, <1>5, <1>8, <1>9, <1>10 DEF Own

LEMMA AcceptNameKeeps ==
  ASSUME TypeOK, Shapes, SessionInv, NEW s \in Sessions, AcceptName(s)
  PROVE  Own(s)
<1>1. CallInv(s) /\ FreshInv(s)
  BY SessionIs
<1>2. /\ call' = call /\ at' = at /\ seen' = seen /\ cache' = cache /\ lock' = lock /\ fresh' = fresh
      /\ View(s)' = View(s) /\ pc[s] = "walk" /\ at[s] = Nil /\ ~ Taken(s) /\ pc'[s] \in {"done", "flush"}
  BY SameView DEF AcceptName, Goto, Shapes
<1>3. call[s].op # "path"
  BY <1>1, <1>2 DEF CallInv
<1>4. CallInv(s)'
  BY <1>1, <1>2, <1>3 DEF CallInv, Locked
<1>5. FreshInv(s)'
  BY <1>1, <1>2 DEF FreshInv, Climbed, Taken, Renamed
<1>6. QED
  BY <1>4, <1>5 DEF Own

\* A write touches no other row.
LEMMA WrittenKeeps ==
  ASSUME TypeOK, Shapes, SessionInv, NEW s \in Sessions, pc[s] = "flush",
         NEW new \in Written(s, View(s)), NEW i \in DOMAIN View(s) \cap DOMAIN new, i # call[s].id
  PROVE  new[i] = View(s)[i]
<1> DEFINE c == call[s]
           db == View(s)
<1>1. c.table \in Tables /\ "tree" \in Tables
  BY SessionIs, CallIs DEF Tables
<1>2. CASE Creates(c, db, new)
  BY <1>1, <1>2, NewKeyIs DEF Creates, With
<1>3. CASE Edits(s, c, db, new)
  BY <1>3 DEF Edits, With
<1>4. CASE new = Without(db, c.id)
  BY <1>4 DEF Without
<1>5. CASE PathsNew(c, db, new)
  <2>1. PICK j \in NewKey(db, "tree") :
          \E k \in NewKey(With(db, j, NewRow(c, c.outer, c.owner)), "tree") :
            new = With(With(db, j, NewRow(c, c.outer, c.owner)), k, NewRow(c, c.name, j))
    BY <1>5 DEF PathsNew
  <2>2. PICK placed : placed = With(db, j, NewRow(c, c.outer, c.owner))
    OBVIOUS
  <2>3. PICK k \in NewKey(placed, "tree") : new = With(placed, k, NewRow(c, c.name, j))
    BY <2>1, <2>2
  <2>4. i \in DOMAIN placed /\ placed[i] = db[i]
    BY <1>1, <2>2, NewKeyIs DEF With
  <2>5. k # i
    BY <1>1, <2>4, NewKeyIs
  <2>6. QED
    BY <2>3, <2>4, <2>5 DEF With
<1>6. CASE PathsBelow(c, db, new)
  BY <1>1, <1>6, NewKeyIs DEF PathsBelow, With
<1>7. QED
  BY <1>2, <1>3, <1>4, <1>5, <1>6, WrittenIs

LEMMA FlushKeeps ==
  ASSUME TypeOK, Shapes, SessionInv, NEW s \in Sessions, Flush(s)
  PROVE  Own(s) /\ Database(cache'[s])
<1>1. PICK new \in Written(s, View(s)) :
        /\ draft' = new
        /\ cache' = [cache EXCEPT ![s] = [i \in DOMAIN @ \cap DOMAIN new |->
                                            IF i = call[s].id THEN new[i] ELSE @[i]]]
  BY DEF Flush
<1> DEFINE db == View(s)
           read == cache[s]
<1>2. Database(new) /\ Referenced(new) /\ Grows(db, new)
  BY WrittenIsGood DEF Flush
<1>3. CallInv(s) /\ FreshInv(s) /\ Database(read) /\ call[s].table \in Tables
  BY SessionIs, CallIs
<1>4. /\ call' = call /\ at' = at /\ fresh' = fresh /\ View(s)' = new /\ pc'[s] = "done"
      /\ lock' = s /\ pc[s] = "flush"
  BY <1>1 DEF Flush, Goto, Shapes, View
<1>5. /\ cache'[s] = [i \in DOMAIN cache'[s] |-> cache'[s][i]]
      /\ DOMAIN cache'[s] = DOMAIN read \cap DOMAIN new
      /\ \A i \in DOMAIN cache'[s] : cache'[s][i] = IF i = call[s].id THEN new[i] ELSE read[i]
  BY <1>1 DEF Shapes
<1>6. \A i \in DOMAIN db \cap DOMAIN new : i # call[s].id => new[i] = db[i]
  BY <1>4, WrittenKeeps
<1>7. \A table \in Tables : Owners(db, table) \subseteq Owners(new, table)
  BY <1>2, OwnersGrow
<1> HIDE DEF db, read
<1>8. Database(cache'[s])
  BY <1>2, <1>3, <1>5 DEF Database
<1>9. ASSUME NEW i \in DOMAIN cache'[s]
      PROVE  /\ cache'[s][i].owner \in Owners(new, cache'[s][i].table)
             /\ fresh[s] => i \in DOMAIN new /\ cache'[s][i] = new[i]
  <2>1. CASE i = call[s].id
    BY <2>1, <1>2, <1>5, <1>9 DEF Referenced
  <2>2. CASE i # call[s].id
    <3>1. i \in DOMAIN read /\ i \in DOMAIN new /\ cache'[s][i] = read[i]
      BY <2>2, <1>5, <1>9
    <3>2. read[i].table \in Tables
      BY <3>1, <1>3, RowIs DEF Database
    <3>3. read[i].owner \in Owners(db, read[i].table)
      BY <3>1, <1>3 DEF CallInv, db, read
    <3>4. fresh[s] => i \in DOMAIN db /\ read[i] = db[i]
      BY <3>1, <1>3 DEF FreshInv, db, read
    <3>5. QED
      BY <2>2, <3>1, <3>2, <3>3, <3>4, <1>6, <1>7
  <2>3. QED
    BY <2>1, <2>2
<1>10. call[s].owner \in Owners(new, call[s].table) /\ at[s] = Nil
  BY <1>3, <1>4, <1>7 DEF CallInv, db
<1>11. CallInv(s)'
  BY <1>4, <1>9, <1>10 DEF CallInv
<1>12. FreshInv(s)'
  BY <1>4, <1>9 DEF FreshInv
<1>13. QED
  BY <1>8, <1>11, <1>12 DEF Own

-----------------------------------------------------------------------------
(***************************************************************************)
(* The invariant                                                           *)
(***************************************************************************)
Good(db) == Database(db) /\ Unique(db) /\ Referenced(db)

LEMMA EmptyIsGood == Good(Empty)
BY DEF Good, Empty, Database, Unique, Referenced

\* What is committed and what the holder of the lock sees.
LEMMA DatabasesKept ==
  ASSUME TypeOK, Shapes, GrowInv, SessionInv, NEW s \in Sessions, Session(s)
  PROVE  /\ Good(rows') /\ Good(draft') /\ lock' \in Sessions \cup {Nil} /\ left' \in 0 .. MaxCalls
         /\ lock' = Nil => draft' = Empty
         /\ GrowInv'
<1> DEFINE Stays == /\ Good(rows') /\ Good(draft') /\ lock' \in Sessions \cup {Nil} /\ left' \in 0 .. MaxCalls
                    /\ lock' = Nil => draft' = Empty
                    /\ GrowInv'
<1> SUFFICES Stays
  OBVIOUS
<1>1. /\ Good(rows) /\ Good(draft) /\ Good(View(s)) /\ Good(Empty) /\ lock \in Sessions \cup {Nil}
      /\ left \in 0 .. MaxCalls /\ MaxCalls \in Nat /\ (lock = Nil => draft = Empty) /\ s # Nil
  BY EmptyIsGood, ViewIs, NilIsNothing, ConstantsAssumption DEF TypeOK, Good
<1>2. Grows(rows, rows) /\ Grows(rows, View(s))
  BY <1>1, GrowsOn DEF View, GrowInv
<1>3. CASE Abandon(s)
  BY <1>1, <1>3 DEF Abandon, GrowInv
<1>4. CASE Publish(s) /\ UNCHANGED left
  <2>1. /\ rows' = View(s) /\ draft' = (IF lock = s THEN Empty ELSE draft)
        /\ lock' = (IF lock = s THEN Nil ELSE lock) /\ left' = left
    BY <1>4 DEF Publish
  <2>2. CASE lock = s
    BY <2>1, <2>2, <1>1 DEF GrowInv
  <2>3. CASE lock # s
    BY <2>1, <2>3, <1>1 DEF GrowInv, View
  <2>4. QED
    BY <2>2, <2>3
<1>5. CASE MayAsk(s) /\ UNCHANGED <<rows, draft, lock>>
  BY <1>1, <1>5 DEF MayAsk, GrowInv
<1>6. CASE TakeLock(s)
  BY <1>1, <1>2, <1>6 DEF TakeLock, GrowInv
<1>7. CASE UNCHANGED <<rows, draft, lock, left>>
  BY <1>1, <1>7 DEF GrowInv
<1>8. CASE Flush(s)
  <2>1. rows' = rows /\ lock' = s /\ left' = left /\ draft' \in Written(s, View(s)) /\ pc[s] = "flush"
    BY <1>8 DEF Flush
  <2>2. Good(draft') /\ Grows(View(s), draft')
    BY <2>1, WrittenIsGood DEF Good
  <2>3. QED
    BY <1>1, <1>2, <2>1, <2>2 DEF GrowInv, Grows
<1>9. QED
  BY <1>3, <1>4, <1>5, <1>6, <1>7, <1>8
     DEF Session, Step, Busy, RefuseCycle, RefuseName, FlushFails, FailTurn, Respond, EndTurn,
         AskEdit, AskNew, AskLocked, Ascend, AcceptName

\* A session's own variables.
Typed(s) ==
  /\ pc'[s] \in {"idle", "lock", "walk", "flush", "done"} /\ seen'[s] \subseteq Ids
  /\ Database(cache'[s]) /\ call'[s] \in Calls
  /\ pc'[s] = "idle" => lock' # s /\ cache'[s] = Empty

LEMMA OwnKept ==
  ASSUME TypeOK, Shapes, GrowInv, SessionInv, NEW s \in Sessions, Session(s)
  PROVE  Own(s) /\ Typed(s)
<1>1. /\ pc[s] \in {"idle", "lock", "walk", "flush", "done"} /\ seen[s] \subseteq Ids
      /\ Database(cache[s]) /\ call[s] \in Calls /\ s # Nil /\ Database(Empty)
      /\ NoCall \in Calls
  BY NilIsNothing, NoCallIs, EmptyIsGood DEF TypeOK, Shapes, Good
<1>2. CASE Abandon(s)
  <2>1. Own(s)
    BY <1>2, AbandonKeeps
  <2>2. /\ pc'[s] = "idle" /\ seen'[s] = {} /\ cache'[s] = Empty /\ call'[s] = NoCall /\ lock' # s
    BY <1>1, <1>2 DEF Abandon, Forget, Shapes
  <2>3. QED
    BY <1>1, <2>1, <2>2 DEF Typed
<1>3. CASE Publish(s) /\ Goto(s, "idle")
  <2>1. Own(s)
    BY <1>3, PublishKeeps
  <2>2. /\ pc'[s] = "idle" /\ seen'[s] = {} /\ cache'[s] = Empty /\ call'[s] = NoCall /\ lock' # s
    BY <1>1, <1>3 DEF Publish, Goto, Forget, Shapes
  <2>3. QED
    BY <1>1, <2>1, <2>2 DEF Typed
<1>4. CASE AskEdit(s)
  <2>1. pc'[s] = "walk" /\ seen'[s] = {}
    BY <1>4 DEF AskEdit, MayAsk, Goto, Shapes
  <2>2. QED
    BY <2>1, <1>4, AskEditKeeps DEF Typed
<1>5. CASE AskNew(s)
  <2>1. pc'[s] = "walk" /\ seen'[s] = {}
    BY <1>5 DEF AskNew, MayAsk, Goto, Shapes
  <2>2. QED
    BY <2>1, <1>5, AskNewKeeps DEF Typed
<1>6. CASE AskLocked(s)
  <2>1. pc'[s] = "lock" /\ seen'[s] = {} /\ cache'[s] = cache[s]
    BY <1>6 DEF AskLocked, MayAsk, Goto, Shapes
  <2>2. QED
    BY <2>1, <1>1, <1>6, AskLockedKeeps DEF Typed
<1>7. CASE TakeLock(s)
  <2>1. pc'[s] \in {"walk", "flush"} /\ seen'[s] = seen[s]
    BY <1>7 DEF TakeLock, Goto, Shapes
  <2>2. QED
    BY <2>1, <1>1, <1>7, TakeLockKeeps DEF Typed
<1>8. CASE Ascend(s)
  <2>1. pc'[s] = "walk" /\ seen'[s] = seen[s] \cup {at[s]} /\ call'[s] = call[s]
    BY <1>8 DEF Ascend, Shapes
  <2>2. QED
    BY <2>1, <1>1, <1>8, AscendKeeps DEF Typed
<1>9. CASE AcceptName(s)
  <2>1. pc'[s] \in {"done", "flush"} /\ seen'[s] = seen[s] /\ call'[s] = call[s] /\ cache'[s] = cache[s]
    BY <1>9 DEF AcceptName, Goto, Shapes
  <2>2. QED
    BY <2>1, <1>1, <1>9, AcceptNameKeeps DEF Typed
<1>10. CASE Flush(s)
  <2>1. pc'[s] = "done" /\ seen'[s] = seen[s] /\ call'[s] = call[s]
    BY <1>10 DEF Flush, Goto, Shapes
  <2>2. QED
    BY <2>1, <1>1, <1>10, FlushKeeps DEF Typed
<1>11. QED
  BY <1>2, <1>3, <1>4, <1>5, <1>6, <1>7, <1>8, <1>9, <1>10
     DEF Session, Step, Busy, RefuseCycle, RefuseName, FlushFails, FailTurn, Respond, EndTurn

LEMMA ShapesKept ==
  ASSUME Shapes, NEW s \in Sessions, Session(s), call'[s] \in Calls
  PROVE  Shapes'
<1>0. /\ pc = [u \in Sessions |-> pc[u]] /\ call = [u \in Sessions |-> call[u]]
      /\ at = [u \in Sessions |-> at[u]] /\ seen = [u \in Sessions |-> seen[u]]
      /\ cache = [u \in Sessions |-> cache[u]] /\ fresh \in [Sessions -> BOOLEAN]
      /\ \A u \in Sessions : call[u] \in Calls
  BY DEF Shapes
<1> DEFINE Stays == /\ pc' = [u \in Sessions |-> pc'[u]] /\ call' = [u \in Sessions |-> call'[u]]
                    /\ at' = [u \in Sessions |-> at'[u]] /\ seen' = [u \in Sessions |-> seen'[u]]
                    /\ cache' = [u \in Sessions |-> cache'[u]] /\ fresh' \in [Sessions -> BOOLEAN]
<1> SUFFICES Stays
  <2>1. ASSUME NEW u \in Sessions PROVE Stays => call'[u] \in Calls
    BY <1>0, OthersKeep
  <2>2. QED
    BY <2>1 DEF Shapes
<1>1. CASE Abandon(s)
  BY <1>0, <1>1 DEF Abandon, Forget
<1>2. CASE Publish(s) /\ Goto(s, "idle")
  <2>1. fresh' \in [Sessions -> BOOLEAN]
    BY <1>0, <1>2 DEF Publish
  <2>2. QED
    BY <1>0, <1>2, <2>1 DEF Publish, Forget, Goto
<1>3. CASE AskEdit(s)
  BY <1>0, <1>3 DEF AskEdit, MayAsk, Keep, Goto
<1>4. CASE AskNew(s)
  BY <1>0, <1>4 DEF AskNew, MayAsk, Keep, Goto
<1>5. CASE AskLocked(s)
  BY <1>0, <1>5 DEF AskLocked, MayAsk, Goto
<1>6. CASE TakeLock(s)
  BY <1>0, <1>6 DEF TakeLock, Forget, Goto
<1>7. CASE Ascend(s)
  BY <1>0, <1>7 DEF Ascend, Keep
<1>8. CASE AcceptName(s)
  BY <1>0, <1>8 DEF AcceptName, Goto
<1>9. CASE Flush(s)
  BY <1>0, <1>9 DEF Flush, Goto
<1>10. QED
  BY <1>1, <1>2, <1>3, <1>4, <1>5, <1>6, <1>7, <1>8, <1>9
     DEF Session, Step, Busy, RefuseCycle, RefuseName, FlushFails, FailTurn, Respond, EndTurn

LEMMA Initially == Init => IInv
<1> SUFFICES ASSUME Init PROVE IInv
  OBVIOUS
<1>1. Good(rows) /\ Good(draft) /\ Database(Empty)
  BY StartAssumption, EmptyIsGood DEF Init, Good
<1>2. TypeOK
  BY <1>1, NilIsNothing, ConstantsAssumption DEF Init, TypeOK, Good
<1>3. Shapes
  BY NoCallIs DEF Init, Shapes
<1>4. GrowInv
  BY DEF Init, GrowInv
<1>5. ASSUME NEW s \in Sessions PROVE CallInv(s) /\ FreshInv(s)
  <2>1. pc[s] = "idle" /\ call[s] = NoCall /\ at[s] = Nil /\ cache[s] = Empty
    BY DEF Init
  <2>2. CallInv(s)
    BY <2>1 DEF CallInv, NoCall, Owners, Empty
  <2>3. FreshInv(s)
    BY <2>1 DEF FreshInv, Empty
  <2>4. QED
    BY <2>2, <2>3
<1>6. QED
  BY <1>2, <1>3, <1>4, <1>5 DEF IInv, SessionInv

LEMMA Inductive == IInv /\ [Next]_vars => IInv'
<1> SUFFICES ASSUME IInv, [Next]_vars PROVE IInv'
  OBVIOUS
<1>0. TypeOK /\ Shapes /\ GrowInv /\ SessionInv
  BY DEF IInv
<1>1. CASE UNCHANGED vars
  <2>1. TypeOK'
    BY <1>0, <1>1 DEF vars, TypeOK
  <2>2. Shapes' /\ GrowInv'
    BY <1>0, <1>1 DEF vars, Shapes, GrowInv
  <2>3. SessionInv'
    BY <1>0, <1>1 DEF vars, SessionInv, CallInv, FreshInv, View, Climbed, Taken, Renamed
  <2>4. QED
    BY <2>1, <2>2, <2>3 DEF IInv
<1>2. CASE Next
  <2>1. PICK s \in Sessions : Session(s)
    BY <1>2, NextIs
  <2>2. Own(s) /\ Typed(s)
    BY <1>0, <2>1, OwnKept
  <2>3. /\ Good(rows') /\ Good(draft') /\ lock' \in Sessions \cup {Nil} /\ left' \in 0 .. MaxCalls
        /\ (lock' = Nil => draft' = Empty) /\ GrowInv'
    BY <1>0, <2>1, DatabasesKept
  <2>4. Shapes'
    BY <1>0, <2>1, <2>2, ShapesKept DEF Typed
  <2>5. SessionInv'
    <3>1. ASSUME NEW u \in Sessions PROVE CallInv(u)' /\ FreshInv(u)'
      <4>1. CASE u = s
        BY <4>1, <2>2 DEF Own
      <4>2. CASE u # s
        BY <4>2, <1>0, <2>1, OthersStandBy, BystandersKnow
      <4>3. QED
        BY <4>1, <4>2
    <3>2. QED
      BY <3>1 DEF SessionInv
  <2>6. TypeOK'
    <3>1. ASSUME NEW u \in Sessions
          PROVE  /\ pc'[u] \in {"idle", "lock", "walk", "flush", "done"} /\ seen'[u] \subseteq Ids
                 /\ Database(cache'[u])
                 /\ pc'[u] = "idle" => lock' # u /\ cache'[u] = Empty
      <4>1. CASE u = s
        BY <4>1, <2>2 DEF Typed
      <4>2. CASE u # s
        BY <4>2, <1>0, <2>1, OthersKeep, OthersStandBy DEF TypeOK, Bystander
      <4>3. QED
        BY <4>1, <4>2
    <3>2. ASSUME NEW u \in Sessions PROVE at'[u] \in Ids \cup {Nil}
      <4>1. at'[u] \in Of(View(u)', "tree") \cup {Nil}
        BY <2>5 DEF SessionInv, CallInv
      <4>2. Database(View(u)')
        BY <2>3 DEF View, Good
      <4>3. QED
        BY <4>1, <4>2, OwnersAre DEF Tables
    <3>3. QED
      BY <3>1, <3>2, <2>3 DEF TypeOK, Good
  <2>7. QED
    BY <2>3, <2>4, <2>5, <2>6 DEF IInv
<1>3. QED
  BY <1>1, <1>2

LEMMA Invariance == Spec => []IInv
BY Initially, Inductive, PTL DEF Spec

-----------------------------------------------------------------------------
(***************************************************************************)
(* What a call leaves behind                                               *)
(***************************************************************************)
\* Only its own write gives a session that is about to write the lock or
\* another draft.
LEMMA OnlyItsWrite ==
  ASSUME IInv, [Next]_vars, NEW s \in Sessions, pc[s] = "flush", lock' = s
  PROVE  \/ draft' = View(s)
         \/ draft' \in Written(s, View(s))
<1>0. TypeOK /\ Shapes /\ GrowInv /\ s # Nil
  BY NilIsNothing DEF IInv
<1>1. CASE UNCHANGED vars
  BY <1>1 DEF vars, View
<1>2. CASE Next
  <2>1. PICK t \in Sessions : Session(t)
    BY <1>2, NextIs
  <2>2. CASE t # s
    <3>1. Bystander(s)
      BY <2>1, <2>2, <1>0, OthersStandBy
    <3>2. QED
      BY <3>1 DEF Bystander, View
  <2>3. CASE t = s
    <3>1. CASE Abandon(s)
      BY <3>1, <1>0 DEF Abandon
    <3>2. CASE Flush(s)
      BY <3>2 DEF Flush
    <3>3. QED
      BY <2>1, <2>3, <3>1, <3>2
         DEF Session, Step, AskEdit, AskNew, AskLocked, MayAsk, TakeLock, Ascend, AcceptName, Busy,
             RefuseCycle, RefuseName, FlushFails, FailTurn, Respond, EndTurn
  <2>4. QED
    BY <2>2, <2>3
<1>3. QED
  BY <1>1, <1>2

\* A call whose session was not overtaken by a commit, and every call of the
\* agent that locked first, leaves a sound inventory, and what the database
\* rejects is never in it (_update_tree_node, _ensure_tree_name_available,
\* create_item, create_location_path).
THEOREM UndisturbedCallsStaySound == Spec => UndisturbedCallsAreSound
<1> DEFINE Stays == \A s \in Sessions :
                      /\ pc[s] = "flush" /\ lock' = s /\ Sound(View(s))
                      /\ fresh[s] \/ Locked(s, call[s])
                      => Sound(draft')
<1>1. IInv /\ [Next]_vars => [Stays]_vars
  <2>1. SUFFICES ASSUME IInv, [Next]_vars, NEW s \in Sessions, pc[s] = "flush", lock' = s,
                        Sound(View(s)), fresh[s] \/ Locked(s, call[s])
                 PROVE  Sound(draft')
    OBVIOUS
  <2>2. CASE draft' = View(s)
    BY <2>1, <2>2
  <2>3. CASE draft' \in Written(s, View(s))
    <3>1. PICK new \in Written(s, View(s)) : new = draft'
      BY <2>3
    <3>2. Sound(new)
      BY <2>1, WrittenIsSound DEF IInv
    <3>3. QED
      BY <3>1, <3>2
  <2>4. QED
    BY <2>1, <2>2, <2>3, OnlyItsWrite
<1>2. IInv => TypeOK
  BY DEF IInv
<1>3. QED
  BY <1>1, <1>2, Invariance, PTL DEF Spec, UndisturbedCallsAreSound

\* What an edit does to a column that it was not asked to change.
LEMMA NarrowWrite ==
  ASSUME TypeOK, Shapes, SessionInv, NEW s \in Sessions, pc[s] = "flush", call[s].op = "update",
         NEW new \in Written(s, View(s)), NEW column \in Columns \ call[s].asked
  PROVE  call[s].id \in DOMAIN View(s) /\ new[call[s].id][column] = View(s)[call[s].id][column]
<1> DEFINE c == call[s]
           r == cache[s][c.id]
           now == View(s)[c.id]
           row == Edited(c, r, now)
<1>1. c.id \in DOMAIN View(s) /\ new = With(View(s), c.id, row)
  BY WrittenIs DEF Edits
<1>2. new[c.id] = row
  BY <1>1 DEF With
<1>3. c \in Calls /\ c.name \in Names /\ r \in Row /\ now \in Row
  BY <1>1, EditedOwner
<1>4. /\ row.name = IF c.name # r.name THEN c.name ELSE now.name
      /\ row.owner = IF c.owner # r.owner THEN c.owner ELSE now.owner
      /\ row.note = IF c.note # r.note THEN c.note ELSE now.note
  BY <1>3, EditedIs
<1>5. c[column] = r[column]
  BY SessionIs DEF CallInv, Completes
<1> HIDE DEF row
<1>6. row[column] = now[column]
  <2>1. CASE column = "name"
    BY <2>1, <1>4, <1>5
  <2>2. CASE column = "owner"
    BY <2>2, <1>4, <1>5
  <2>3. CASE column = "note"
    BY <2>3, <1>4, <1>5
  <2>4. QED
    BY <2>1, <2>2, <2>3 DEF Columns
<1>7. QED
  BY <1>1, <1>2, <1>6

\* An edit changes the asked columns of the one row and nothing else, however
\* old the row is that its session read (_update_tree_node, update_item and
\* update_item_photo assign every column of it).
THEOREM EditsStayNarrow == Spec => EditsKeepTheRest
<1> DEFINE Stays == \A s \in Sessions :
                      pc[s] = "flush" /\ lock' = s /\ call[s].op = "update" =>
                        \A i \in DOMAIN View(s), c \in Columns :
                          draft'[i][c] = View(s)[i][c] \/ (i = call[s].id /\ c \in call[s].asked)
<1>1. IInv /\ [Next]_vars => [Stays]_vars
  <2>1. SUFFICES ASSUME IInv, [Next]_vars, NEW s \in Sessions, pc[s] = "flush", lock' = s,
                        call[s].op = "update", NEW i \in DOMAIN View(s), NEW c \in Columns,
                        ~ (i = call[s].id /\ c \in call[s].asked)
                 PROVE  draft'[i][c] = View(s)[i][c]
    OBVIOUS
  <2>2. CASE draft' = View(s)
    BY <2>2
  <2>3. CASE draft' \in Written(s, View(s))
    <3>1. PICK new \in Written(s, View(s)) : new = draft'
      BY <2>3
    <3>2. TypeOK /\ Shapes /\ SessionInv
      BY <2>1 DEF IInv
    <3>3. CASE i = call[s].id
      BY <2>1, <3>1, <3>2, <3>3, NarrowWrite
    <3>4. CASE i # call[s].id
      <4>1. i \in DOMAIN new
        BY <2>1, <3>2, WrittenIs DEF Edits, With
      <4>2. QED
        BY <2>1, <3>1, <3>2, <3>4, <4>1, WrittenKeeps
    <3>5. QED
      BY <3>3, <3>4
  <2>4. QED
    BY <2>1, <2>2, <2>3, OnlyItsWrite
<1>2. QED
  BY <1>1, Invariance, PTL DEF Spec, EditsKeepTheRest

=============================================================================
