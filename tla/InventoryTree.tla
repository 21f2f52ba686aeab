---------------------------- MODULE InventoryTree ----------------------------
(***************************************************************************)
(* The rows people edit side by side: locations and categories (two trees  *)
(* of one code, one is modelled), items and their photos.                  *)
(*                                                                         *)
(* A session is one browser request, or one turn of the agent, which may   *)
(* make several calls before it commits.  A call reads, checks what it     *)
(* read, and then writes.  SQLite gives no transaction to the reads before *)
(* the first write, so every one of them sees the last commit; the first   *)
(* write takes the only write lock and keeps it until the session commits  *)
(* or rolls back.  A row read once is kept by the session (the identity    *)
(* map) and not read again.                                                *)
(*                                                                         *)
(* The agent's calls that name existing rows take the lock first and       *)
(* forget what they read.  Splits, quantities and undo are in              *)
(* InventoryTurns.                                                         *)
(***************************************************************************)
EXTENDS Naturals

CONSTANTS
  Sessions,
  Agents,    \* the sessions that are turns of the agent
  Names,     \* normalized names and photo references
  Asked,     \* the sets of columns an edit may ask for
  Nil,       \* no row
  Start,     \* the databases to start from
  Keys,      \* the primary keys of each table
  MaxCalls   \* bound on calls, of all sessions together

VARIABLES
  rows,   \* committed: id -> row
  draft,  \* what the holder of the write lock sees
  lock,   \* the session that holds it
  pc,     \* session -> where its call stands
  call,   \* session -> the call
  at,     \* session -> the ancestor to be read next
  seen,   \* session -> the ancestors read
  cache,  \* session -> id -> the row as first read
  left,   \* calls still to be made
  fresh   \* history: nobody has committed since the session first read

vars == <<rows, draft, lock, pc, call, at, seen, cache, left, fresh>>

Tables == {"tree", "item", "photo"}
Columns == {"name", "owner", "note"}
Ids == UNION {Keys[table] : table \in Tables}

ASSUME ConstantsAssumption ==
  /\ Agents \subseteq Sessions /\ Nil \notin Names \cup Sessions \cup Nat
  /\ Asked \subseteq SUBSET Columns
  /\ Keys \in [Tables -> SUBSET Nat]
  /\ \A t, u \in Tables : t # u => Keys[t] \cap Keys[u] = {}
  /\ MaxCalls \in Nat

\* owner: the parent of a location, the category of an item, the item of a
\* photo.  note: a description, a caption or a position.
Row == [table : Tables, name : Names, owner : Ids \cup {Nil}, note : BOOLEAN]
Database(db) ==
  /\ db = [i \in DOMAIN db |-> db[i]]
  /\ \A i \in DOMAIN db : db[i] \in Row /\ i \in Keys[db[i].table]
Empty == [i \in {} |-> Nil]
With(db, i, row) == [j \in DOMAIN db \cup {i} |-> IF j = i THEN row ELSE db[j]]

Of(db, table) == {i \in DOMAIN db : db[i].table = table}

\* Rows of the table with that name under that owner: what the checks
\* before a write look for.
Twins(db, table, name, owner) ==
  {i \in Of(db, table) : db[i].name = name /\ db[i].owner = owner}

\* The UNIQUE constraints.  Two NULL parents never collide, and items have none.
Unique(db) ==
  \A i, j \in DOMAIN db :
    /\ i # j /\ db[i].table = db[j].table
    /\ db[i].name = db[j].name /\ db[i].owner = db[j].owner
    => db[i].table = "item" \/ (db[i].table = "tree" /\ db[i].owner = Nil)

\* Foreign keys.
Owners(db, table) == IF table = "photo" THEN Of(db, "item") ELSE Of(db, "tree") \cup {Nil}
Referenced(db) == \A i \in DOMAIN db : db[i].owner \in Owners(db, db[i].table)

ASSUME StartAssumption == \A db \in Start : Database(db) /\ Unique(db) /\ Referenced(db)

-----------------------------------------------------------------------------
\* A call names the columns it sets.
NoCall == [op |-> "none", table |-> "tree", id |-> Nil, name |-> Nil,
           owner |-> Nil, note |-> FALSE, asked |-> {}, outer |-> Nil]

New(table, n, o) == [op |-> "create", table |-> table, id |-> Nil, name |-> n,
                     owner |-> o, note |-> FALSE, asked |-> {}, outer |-> Nil]

NewPlaces(db) == {New("tree", n, o) : n \in Names, o \in Of(db, "tree") \cup {Nil}}
NewItems(db) == {New("item", n, o) : n \in Names, o \in Of(db, "tree") \cup {Nil}}
NewPhotos(db) == {New("photo", n, o) : n \in Names, o \in Of(db, "item")}

\* Any of name, owner and note; what is not asked has no value of its own.
Asks(table, i, db) ==
  {[op |-> "update", table |-> table, id |-> i, name |-> n, owner |-> o,
    note |-> "note" \in a, asked |-> a, outer |-> Nil] :
     n \in Names \cup {Nil}, o \in Of(db, "tree") \cup {Nil},
     a \in Asked}

Sensible(c) == ("name" \in c.asked) = (c.name # Nil) /\ ("owner" \in c.asked \/ c.owner = Nil)

\* PATCH of a location or category, or of an item.
PlaceEdits(db) == {c \in UNION {Asks("tree", i, db) : i \in Of(db, "tree")} : Sensible(c)}
ItemEdits(db) == {c \in UNION {Asks("item", i, db) : i \in Of(db, "item")} : Sensible(c)}

PhotoEdits(db) ==
  {[op |-> "update", table |-> "photo", id |-> i, name |-> Nil, owner |-> Nil,
    note |-> d, asked |-> {"note"}, outer |-> Nil] : i \in Of(db, "photo"), d \in BOOLEAN}
  \cup {[op |-> "detach", table |-> "photo", id |-> i, name |-> Nil, owner |-> Nil,
          note |-> FALSE, asked |-> {}, outer |-> Nil] : i \in Of(db, "photo")}

\* create_location of the agent: a place in, on or under another one.
Paths(db) ==
  {[op |-> "path", table |-> "tree", id |-> Nil, name |-> n, owner |-> o,
    note |-> FALSE, asked |-> {}, outer |-> m] :
     n \in Names, m \in Names, o \in Of(db, "tree") \cup {Nil}}

Requests(s, db) ==
  NewPlaces(db) \cup NewItems(db) \cup NewPhotos(db) \cup ItemEdits(db) \cup PhotoEdits(db)
  \cup IF s \in Agents THEN {c \in Paths(db) : c.name # c.outer} ELSE PlaceEdits(db)

\* _validated_write: with references to check, or a path to create.
Locked(s, c) ==
  /\ s \in Agents
  /\ \/ c.op = "path"
     \/ c.op = "create" /\ c.owner # Nil
     \/ c.op = "update" /\ c.table = "item"

-----------------------------------------------------------------------------
View(s) == IF lock = s THEN draft ELSE rows

\* Session.get: the row is read from the database once.
Get(s, i) == IF i \in DOMAIN cache[s] THEN cache[s][i] ELSE View(s)[i]
Keep(s, i) == cache' = [cache EXCEPT ![s] = With(@, i, Get(s, i))]
Forget(s) == cache' = [cache EXCEPT ![s] = Empty]

Free(s) == lock \in {Nil, s}

\* The session ends without a trace: web rolls the request back, and the
\* runner the whole turn.
Abandon(s) ==
  /\ lock' = IF lock = s THEN Nil ELSE lock
  /\ pc' = [pc EXCEPT ![s] = "idle"]
  /\ call' = [call EXCEPT ![s] = NoCall]
  /\ at' = [at EXCEPT ![s] = Nil]
  /\ seen' = [seen EXCEPT ![s] = {}]
  /\ Forget(s)
  /\ fresh' = [fresh EXCEPT ![s] = TRUE]
  /\ draft' = IF lock = s THEN Empty ELSE draft
  /\ UNCHANGED <<rows, left>>

Goto(s, label) == pc' = [pc EXCEPT ![s] = label]

MayAsk(s) ==
  /\ pc[s] = "idle" \/ (pc[s] = "done" /\ s \in Agents)
  /\ left > 0
  /\ left' = left - 1
  /\ seen' = [seen EXCEPT ![s] = {}]

\* What is not asked stays as it was read.
Completed(c, r) ==
  [c EXCEPT !.name = IF "name" \in c.asked THEN c.name ELSE r.name,
            !.owner = IF "owner" \in c.asked THEN c.owner ELSE r.owner,
            !.note = IF "note" \in c.asked THEN c.note ELSE r.note]

\* The request of a browser, or what the model asks for next in its turn: the
\* row to be changed is read.
AskEdit(s) ==
  /\ MayAsk(s)
  /\ \E c \in Requests(s, View(s)) :
       /\ c.op \in {"update", "detach"} /\ ~Locked(s, c)
       /\ LET full == Completed(c, Get(s, c.id)) IN
          /\ call' = [call EXCEPT ![s] = full]
          /\ at' = [at EXCEPT ![s] = IF c.table = "tree" THEN full.owner ELSE Nil]
       /\ Keep(s, c.id)
  /\ Goto(s, "walk")
  /\ UNCHANGED <<rows, draft, lock, fresh>>

\* The parent, category or item a new row belongs to is read.
AskNew(s) ==
  /\ MayAsk(s)
  /\ \E c \in Requests(s, View(s)) :
       /\ c.op = "create" /\ ~Locked(s, c)
       /\ call' = [call EXCEPT ![s] = c]
       /\ IF c.owner # Nil THEN Keep(s, c.owner) ELSE UNCHANGED cache
  /\ at' = [at EXCEPT ![s] = Nil]
  /\ Goto(s, "walk")
  /\ UNCHANGED <<rows, draft, lock, fresh>>

AskLocked(s) ==
  /\ MayAsk(s)
  /\ \E c \in Requests(s, View(s)) :
       Locked(s, c) /\ call' = [call EXCEPT ![s] = c]
  /\ at' = [at EXCEPT ![s] = Nil]
  /\ Goto(s, "lock")
  /\ UNCHANGED <<rows, draft, lock, cache, fresh>>

\* The statement that changes no row takes the lock; expire_all forgets what
\* was read before.  Whether the names still resolve is in AgentTurn.  The item
\* to be changed is read now.  A path is looked up and written under the lock.
TakeLock(s) ==
  LET c == call[s] IN
  /\ pc[s] = "lock" /\ Free(s)
  /\ draft' = View(s)
  /\ lock' = s
  /\ IF c.op = "update"
     THEN /\ call' = [call EXCEPT ![s] = Completed(c, View(s)[c.id])]
          /\ cache' = [cache EXCEPT ![s] = With(Empty, c.id, View(s)[c.id])]
     ELSE Forget(s) /\ UNCHANGED call
  /\ fresh' = [fresh EXCEPT ![s] = TRUE]
  /\ Goto(s, IF c.op = "path" THEN "flush" ELSE "walk")
  /\ UNCHANGED <<rows, at, seen, left>>

\* busy_timeout runs out: OperationalError.
Busy(s) ==
  /\ pc[s] \in {"lock", "flush"} /\ ~Free(s)
  /\ Abandon(s)

-----------------------------------------------------------------------------
\* Fault: the place itself is not looked for above its new parent.
AscendPast(s) ==
  /\ pc[s] = "walk" /\ at[s] # Nil /\ at[s] \notin seen[s]
  /\ seen' = [seen EXCEPT ![s] = @ \cup {at[s]}]
  /\ at' = [at EXCEPT ![s] = Get(s, at[s]).owner]
  /\ Keep(s, at[s])
  /\ UNCHANGED <<rows, draft, lock, pc, call, left, fresh>>

\* Fault: what was seen is not remembered.
AscendForever(s) ==
  /\ pc[s] = "walk" /\ at[s] # Nil /\ at[s] # call[s].id
  /\ at' = [at EXCEPT ![s] = Get(s, at[s]).owner]
  /\ Keep(s, at[s])
  /\ UNCHANGED <<rows, draft, lock, pc, call, seen, left, fresh>>

\* One ancestor of the new parent after the other, each read on its own.
Ascend(s) ==
  /\ pc[s] = "walk" /\ at[s] # Nil
  /\ at[s] # call[s].id /\ at[s] \notin seen[s]
  /\ seen' = [seen EXCEPT ![s] = @ \cup {at[s]}]
  /\ at' = [at EXCEPT ![s] = Get(s, at[s]).owner]
  /\ Keep(s, at[s])
  /\ UNCHANGED <<rows, draft, lock, pc, call, left, fresh>>

\* "parent would create a cycle"
RefuseCycle(s) ==
  /\ pc[s] = "walk" /\ at[s] # Nil
  /\ at[s] = call[s].id \/ at[s] \in seen[s]
  /\ Abandon(s)

\* _ensure_tree_name_available and its like: before a creation, and when an
\* edit changes the name or the parent.
Renamed(s) ==
  call[s].name # cache[s][call[s].id].name \/ call[s].owner # cache[s][call[s].id].owner

Taken(s) ==
  LET c == call[s] IN
  /\ Twins(View(s), c.table, c.name, c.owner) \ {c.id} # {}
  /\ IF c.op = "create" THEN TRUE ELSE Renamed(s)

Unchanged(s) ==
  LET r == cache[s][call[s].id] IN
  call[s].name = r.name /\ call[s].owner = r.owner /\ call[s].note = r.note

RefuseName(s) ==
  /\ pc[s] = "walk" /\ at[s] = Nil /\ Taken(s)
  /\ Abandon(s)

\* An edit that changes nothing is answered at once.
AcceptName(s) ==
  /\ pc[s] = "walk" /\ at[s] = Nil /\ ~Taken(s)
  /\ Goto(s, IF call[s].op = "update" /\ Unchanged(s) THEN "done" ELSE "flush")
  /\ UNCHANGED <<rows, draft, lock, call, at, seen, cache, left, fresh>>

-----------------------------------------------------------------------------
\* A key is used again after the last photo was detached.
Least(S) == {i \in S : \A j \in S : i <= j}
NewKey(db, table) == Least(Keys[table] \ DOMAIN db)

NewRow(c, name, owner) == [table |-> c.table, name |-> name, owner |-> owner, note |-> c.note]

\* create_item and the other creations insert one row.
Inserted(db, c) == {With(db, i, NewRow(c, c.name, c.owner)) : i \in NewKey(db, c.table)}

\* Fault: every column of the row that was read is written.
ChangedWhole(s, db) ==
  LET c == call[s] IN
  [db EXCEPT ![c.id] = NewRow([c EXCEPT !.table = db[c.id].table], c.name, c.owner)]

\* SQLAlchemy writes the columns that differ from the row it has read.
Changed(s, db) ==
  LET c == call[s]
      r == cache[s][c.id]
      now == db[c.id]
  IN [db EXCEPT ![c.id] =
        [now EXCEPT !.name = IF c.name # r.name THEN c.name ELSE now.name,
                    !.owner = IF c.owner # r.owner THEN c.owner ELSE now.owner,
                    !.note = IF c.note # r.note THEN c.note ELSE now.note]]

Without(db, i) == [j \in DOMAIN db \ {i} |-> db[j]]

\* create_location_path: without a parent the outer place may be any single
\* one of that name, otherwise a new root; below a node its children are
\* reused.  What is missing is inserted together.
Outer(db, c) ==
  IF c.owner = Nil THEN {i \in Of(db, "tree") : db[i].name = c.outer}
                   ELSE Twins(db, "tree", c.outer, c.owner)

Pathed(db, c) ==
  LET outer == Outer(db, c) IN
  IF outer = {}
  THEN LET placed(i) == With(db, i, NewRow(c, c.outer, c.owner)) IN
       UNION {{With(placed(i), j, NewRow(c, c.name, i)) : j \in NewKey(placed(i), "tree")} :
                i \in NewKey(db, "tree")}
  ELSE {With(db, j, NewRow(c, c.name, o)) :
          o \in {i \in outer : outer = {i} /\ Twins(db, "tree", c.name, i) = {}},
          j \in NewKey(db, "tree")}

\* What the write leaves behind; none when it fails.  An UPDATE of a row that
\* is gone fails, a DELETE of one only warns.
Written(s, db) ==
  LET c == call[s] IN
  {new \in CASE c.op = "create" -> Inserted(db, c)
             [] c.op = "update" -> IF c.id \in DOMAIN db THEN {Changed(s, db)} ELSE {}
             [] c.op = "detach" -> {Without(db, c.id)}
             [] c.op = "path"   -> Pathed(db, c) :
     Unique(new)}

Flush(s) ==
  /\ pc[s] = "flush" /\ Free(s)
  /\ \E new \in Written(s, View(s)) :
       /\ draft' = new
       /\ cache' = [cache EXCEPT ![s] = [i \in DOMAIN @ \cap DOMAIN new |->
                                           IF i = call[s].id THEN new[i] ELSE @[i]]]
  /\ lock' = s
  /\ Goto(s, "done")
  /\ UNCHANGED <<rows, call, at, seen, left, fresh>>

\* IntegrityError, StaleDataError, an ambiguous path, or no key left.
FlushFails(s) ==
  /\ pc[s] = "flush" /\ Free(s)
  /\ Written(s, View(s)) = {}
  /\ Abandon(s)

-----------------------------------------------------------------------------
Publish(s) ==
  /\ rows' = View(s)
  /\ draft' = IF lock = s THEN Empty ELSE draft
  /\ lock' = IF lock = s THEN Nil ELSE lock
  /\ call' = [call EXCEPT ![s] = NoCall]
  /\ at' = [at EXCEPT ![s] = Nil]
  /\ seen' = [seen EXCEPT ![s] = {}]
  /\ Forget(s)
  /\ fresh' = [t \in Sessions |-> t = s \/ pc[t] = "idle" \/ (fresh[t] /\ rows' = rows)]

\* _manual_mutation commits the request.
Respond(s) ==
  /\ s \notin Agents /\ pc[s] = "done"
  /\ Publish(s)
  /\ Goto(s, "idle")
  /\ UNCHANGED left

\* The final answer of the turn.
EndTurn(s) ==
  /\ s \in Agents /\ pc[s] = "done"
  /\ Publish(s)
  /\ Goto(s, "idle")
  /\ UNCHANGED left

\* The provider fails, or the turn runs out of rounds.
FailTurn(s) ==
  /\ s \in Agents /\ pc[s] = "done"
  /\ Abandon(s)

Step(s) ==
  \/ TakeLock(s) \/ Busy(s)
  \/ Ascend(s) \/ RefuseCycle(s)
  \/ RefuseName(s) \/ AcceptName(s)
  \/ Flush(s) \/ FlushFails(s)
  \/ Respond(s) \/ EndTurn(s) \/ FailTurn(s)

Next == \E s \in Sessions : AskEdit(s) \/ AskNew(s) \/ AskLocked(s) \/ Step(s)

Init ==
  /\ rows \in Start
  /\ draft = Empty /\ lock = Nil
  /\ pc = [s \in Sessions |-> "idle"]
  /\ call = [s \in Sessions |-> NoCall]
  /\ at = [s \in Sessions |-> Nil]
  /\ seen = [s \in Sessions |-> {}]
  /\ cache = [s \in Sessions |-> Empty]
  /\ left = MaxCalls
  /\ fresh = [s \in Sessions |-> TRUE]

Spec == Init /\ [][Next]_vars

\* SQLite and the provider answer or time out, and a turn has a last round.
FairSpec == Spec /\ \A s \in Sessions : WF_vars(Step(s))

-----------------------------------------------------------------------------
\* Going up from any place ends at a root.
Acyclic(db) ==
  \A S \in SUBSET Of(db, "tree") \ {{}} : \E i \in S : db[i].owner \notin S

Sound(db) ==
  /\ Acyclic(db)
  /\ \A i \in DOMAIN db : Twins(db, db[i].table, db[i].name, db[i].owner) = {i}

\* The variables have their types; what the database rejects is never in it.
TypeOK ==
  /\ \A db \in {rows, draft} : Database(db) /\ Unique(db) /\ Referenced(db)
  /\ lock \in Sessions \cup {Nil} /\ left \in 0 .. MaxCalls
  /\ lock = Nil => draft = Empty
  /\ \A s \in Sessions :
       /\ pc[s] \in {"idle", "lock", "walk", "flush", "done"}
       /\ at[s] \in Ids \cup {Nil} /\ seen[s] \subseteq Ids
       /\ Database(cache[s])
       /\ pc[s] = "idle" => lock # s /\ cache[s] = Empty

\* A call whose session was not overtaken by a commit, and every call of the
\* agent that locked first, leaves a sound inventory: no cycle, no two places
\* of one name side by side (the roots included), no second item of a name in
\* a category (_update_tree_node, _ensure_tree_name_available, create_item,
\* create_location_path).
UndisturbedCallsAreSound ==
  /\ []TypeOK
  /\ [][\A s \in Sessions :
          /\ pc[s] = "flush" /\ lock' = s /\ Sound(View(s))
          /\ fresh[s] \/ Locked(s, call[s])
          => Sound(draft')]_vars

\* An edit changes the asked columns of the one row and nothing else, however
\* old the row is that the session read (_update_tree_node assigns them all).
EditsKeepTheRest ==
  [][\A s \in Sessions :
       pc[s] = "flush" /\ lock' = s /\ call[s].op = "update" =>
         \A i \in DOMAIN View(s), c \in Columns :
           draft'[i][c] = View(s)[i][c] \/ (i = call[s].id /\ c \in call[s].asked)]_vars

\* Every call ends and gives up the lock, in a tree that has a cycle too: the
\* walks to the root of _update_tree_node stop at a place they have seen.
CallsEnd == \A s \in Sessions : pc[s] # "idle" ~> pc[s] = "idle"
=============================================================================
