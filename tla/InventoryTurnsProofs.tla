------------------------- MODULE InventoryTurnsProofs -------------------------
(***************************************************************************)
(* Rows, photos and history agree, and a compensation is exact or refused, *)
(* for any items, photos, places, quantities and conversations and any     *)
(* number of calls.                                                        *)
(*                                                                         *)
(* That a compensation is refused if the turn's rows have changed holds    *)
(* for any number of sessions, but for what commits while the turn that    *)
(* undoes is under way (`overtaken`): the last two sections.  The newest   *)
(* receipt about a row says how the turn left it (LastSays), and Undo      *)
(* compares that receipt with the row as it is (SharedInv).                *)
(*                                                                         *)
(* The rest is about one session at a time (OneSession): the code promises *)
(* nothing for two that read before they have the write lock.  What a call *)
(* is going to flush was computed from rows as they are (FlushInv), and    *)
(* its receipt says what it found and what it left (ReceiptsInv).  Undo    *)
(* compares each receipt with rows that it has itself compensated so far.  *)
(* So each receipt begins where the one before it about the same row ended *)
(* (LeftInv), and the oldest gives the row back as it was before the turn  *)
(* (BegunInv).  A split that shows is the oldest receipt about its two     *)
(* rows, so what it took out of the lot is all that the lot lacks.         *)
(***************************************************************************)
EXTENDS InventoryTurns, FiniteSetTheorems, TLAPS

OneSession == \A s, t \in Sessions : s = t

ItemOps == {"create_item", "update_item", "change_item_quantity", "item_moved", "item_taken",
            "item_location_unknown", "item_removed", "item_restored"}

Receipts ==
  [op : Operations, source : Ids \cup {New}, entity : Ids \cup PhotoIds \cup {New},
   before : Row \cup Photo \cup {None},
   after : UNION {[D -> Row] : D \in SUBSET Ids},
   photos : UNION {[D -> Photo \cup {None}] : D \in SUBSET PhotoIds}]

Shapes ==
  /\ lastRun \in [Conversations -> Seq(Receipts)]
  /\ around \in [Conversations -> [before : StoreType, after : StoreType]]
  /\ turn = [s \in Sessions |-> turn[s]]
  /\ \A s \in Sessions :
       turn[s] \in [stage : {"idle", "open", "looked", "flushing"},
                    conversation : Conversations \cup {None}, receipts : Seq(Receipts),
                    plan : {turn[s].plan}, seen : {turn[s].seen}]

-----------------------------------------------------------------------------
(* Stores                                                                  *)

\* Rows agree with the places that their history shows.
Sound(rows, known) ==
  \A i \in Ids : rows[i] # None =>
    CoherentRow(rows[i]) /\ (rows[i].status = "known" => known[i] = rows[i].place)

Unique(photos) ==
  \A p, q \in PhotoIds :
    p # q /\ photos[p] # None /\ photos[q] # None =>
      <<photos[p].item, photos[p].reference>> # <<photos[q].item, photos[q].reference>>

Owned(photos, rows) == \A p \in PhotoIds : photos[p] # None => rows[photos[p].item] # None

StoreInv(store) ==
  /\ store \in StoreType
  /\ Sound(store.items, store.lastKnown)
  /\ Unique(store.photos) /\ Owned(store.photos, store.items)

\* Rows are never deleted.
Later(rows, then) == \A i \in Ids : rows[i] # None => then[i] # None

RowsInv ==
  /\ StoreInv(committed) /\ StoreInv(draft) /\ Later(committed.items, draft.items)
  /\ writer = None => draft = committed

-----------------------------------------------------------------------------
(* Receipts                                                                *)

\* A lot that a part was taken out of.
Less(lot, part) == [lot EXCEPT !.quantity = Remainder(lot.quantity, part)]

ItemReceipt(r) ==
  /\ r.op \in ItemOps /\ r.source \in Ids /\ r.entity \in Ids
  /\ DOMAIN r.after = {r.source, r.entity} /\ DOMAIN r.photos = {}
  /\ \A i \in DOMAIN r.after : CoherentRow(r.after[i])
  /\ IF r.op = "create_item" THEN r.source = r.entity
     ELSE r.before \in Row /\ CoherentRow(r.before)
  /\ r.source # r.entity =>
       /\ r.before.state # "removed"
       /\ r.after[r.source] = Less(r.before, r.after[r.entity].quantity)

PhotoReceipt(r) ==
  /\ r.op \in PhotoOps /\ r.source \in Ids /\ r.entity \in PhotoIds
  /\ DOMAIN r.after = {} /\ DOMAIN r.photos = {r.entity}
  /\ r.op # "attach_item_photo" => r.before \in Photo /\ r.before.item = r.source
  /\ r.op = "update_item_photo" =>
       /\ r.photos[r.entity] # None
       /\ r.photos[r.entity].item = r.source
       /\ r.photos[r.entity].reference = r.before.reference

\* One that Undo can read, and whose items are there.
Undoable(r, rows) ==
  Supported(r) =>
    /\ ItemReceipt(r) \/ PhotoReceipt(r)
    /\ \A i \in DOMAIN r.after \cup {r.source} : rows[i] # None

\* The newest receipt about an item or a photo says how it was left.
Left(receipts, store) ==
  /\ \A i \in Affected(receipts) : \E n \in DOMAIN receipts :
       /\ i \in DOMAIN receipts[n].after /\ receipts[n].after[i] = store.items[i]
       /\ \A m \in DOMAIN receipts : m > n => i \notin DOMAIN receipts[m].after
  /\ \A p \in Pictured(receipts) : \E n \in DOMAIN receipts :
       /\ p \in DOMAIN receipts[n].photos /\ receipts[n].photos[p] = store.photos[p]
       /\ \A m \in DOMAIN receipts : m > n => p \notin DOMAIN receipts[m].photos

\* The oldest says how it was before.
Begun(receipts, store) ==
  \A n \in DOMAIN receipts : Supported(receipts[n]) =>
    LET r == receipts[n] IN
    /\ \A i \in DOMAIN r.after :
         (\A m \in 1 .. n - 1 : i \notin DOMAIN receipts[m].after) =>
           store.items[i] = IF r.op # "create_item" /\ i = r.source THEN r.before ELSE None
    /\ \A p \in DOMAIN r.photos :
         (\A m \in 1 .. n - 1 : p \notin DOMAIN receipts[m].photos) =>
           store.photos[p] = IF r.op = "attach_item_photo" THEN None ELSE r.before

\* The next one about an item says how the one before left it.
Chained(receipts) ==
  \A n \in DOMAIN receipts : Supported(receipts[n]) =>
    \A m \in 1 .. n - 1 : \A i \in DOMAIN receipts[n].after \cap DOMAIN receipts[m].after :
      (\A k \in m + 1 .. n - 1 : i \notin DOMAIN receipts[k].after) =>
        /\ receipts[n].op # "create_item" /\ i = receipts[n].source
        /\ receipts[n].before = receipts[m].after[i]

\* What no receipt is about is as it was.
Untouched(receipts, store, now) ==
  /\ \A i \in Ids \ Affected(receipts) : now.items[i] = store.items[i]
  /\ \A p \in PhotoIds \ Pictured(receipts) : now.photos[p] = store.photos[p]

ReceiptsInv ==
  /\ \A s \in Sessions : turn[s].conversation # None =>
       \A n \in DOMAIN turn[s].receipts : Undoable(turn[s].receipts[n], draft.items)
  /\ \A v \in Conversations : \A n \in DOMAIN lastRun[v] : Undoable(lastRun[v][n], committed.items)

LeftInv ==
  /\ \A s \in Sessions : Left(turn[s].receipts, draft)
  /\ \A v \in Conversations : Left(lastRun[v], around[v].after)

BegunInv ==
  /\ \A s \in Sessions :
       /\ Untouched(turn[s].receipts, committed, draft)
       /\ turn[s].conversation # None =>
            Begun(turn[s].receipts, committed) /\ Chained(turn[s].receipts)
  /\ \A v \in Conversations : Begun(lastRun[v], around[v].before) /\ Chained(lastRun[v])

-----------------------------------------------------------------------------
(* Changes                                                                 *)

IsChange(c) ==
  /\ c = [op |-> c.op, source |-> c.source, entity |-> c.entity, new |-> c.new,
          events |-> c.events, photos |-> c.photos, before |-> c.before]
  /\ c.before \in Row \cup Photo \cup {None}

\* A change of an item, or of a lot and a part of it.
ItemChange(c, store) ==
  /\ c.op \in ItemOps /\ (c.op = "create_item" <=> c.source = New)
  /\ c.source \in Ids \cup {New} /\ (c.source # New => store.items[c.source] # None)
  /\ c.entity \in {c.source, New}
  /\ DOMAIN c.new = {c.source, c.entity}
  /\ \A i \in DOMAIN c.new : c.new[i] \in Row /\ CoherentRow(c.new[i])
  /\ c.source # c.entity =>
       /\ store.items[c.source].state # "removed"
       /\ c.new[c.source] = Less(store.items[c.source], c.new[c.entity].quantity)
  /\ \/ c.events = <<>>
     \/ \E type \in ItemOps \cup {"item_created"}, from, to \in Places :
          c.events = <<Event(type, c.entity, from, to)>>
  /\ \A i \in DOMAIN c.new : c.new[i].status = "known" =>
       IF c.events # <<>> /\ i = c.entity THEN Witness(c.events[1]) = c.new[i].place
       ELSE i \in Ids /\ store.items[i].status = "known" /\ store.items[i].place = c.new[i].place
  /\ c.photos = <<>>

PhotoChanged(c, store) ==
  /\ c.op \in PhotoOps /\ c.new = <<>> /\ c.events = <<>>
  /\ c.source \in Ids /\ store.items[c.source] # None
  /\ c.entity \in PhotoIds \cup {New} /\ (c.op = "attach_item_photo" <=> c.entity = New)
  /\ DOMAIN c.photos = {c.entity}
  /\ IF c.op = "detach_item_photo" THEN c.photos[c.entity] = None
     ELSE c.photos[c.entity] \in Photo /\ c.photos[c.entity].item = c.source
  /\ c.op # "attach_item_photo" =>
       store.photos[c.entity] # None /\ store.photos[c.entity].item = c.source
  /\ c.op = "update_item_photo" =>
       c.photos[c.entity].reference = store.photos[c.entity].reference

NodeChange(c) ==
  /\ c.op = "create_node" /\ c.source = New /\ c.entity = New
  /\ c.new = <<>> /\ c.events = <<>> /\ c.photos = <<>>

\* Undo has found nothing in its way.
UndoChange(s, c) ==
  LET receipts == lastRun[turn[s].conversation] IN
  /\ turn[s].conversation # None /\ receipts # <<>>
  /\ \A n \in DOMAIN receipts : Supported(receipts[n])
  /\ Compensated(draft, receipts).ok
  /\ c = Compensation(receipts, Compensated(draft, receipts))

\* A tool says in its receipt what it found.
FoundBefore(c, store) ==
  IF c.op \in ItemOps \ {"create_item"} THEN c.before = store.items[c.source]
  ELSE c.op \in PhotoOps \ {"attach_item_photo"} => c.before = store.photos[c.entity]

Flushable(s, c) ==
  /\ IsChange(c)
  /\ \/ /\ ItemChange(c, draft) \/ PhotoChanged(c, draft) \/ NodeChange(c)
        /\ turn[s].conversation # None => FoundBefore(c, draft)
     \/ UndoChange(s, c)

FlushInv ==
  \A s \in Sessions : turn[s].stage = "flushing" =>
    Flushable(s, turn[s].plan) /\ turn[s].seen = Read(s, turn[s].plan)

\* What a tool looked at is there.
LookInv ==
  \A s \in Sessions : turn[s].stage = "looked" =>
    LET seen == turn[s].seen IN
    /\ turn[s].conversation # None
    /\ \/ seen = [item |-> New, photo |-> New, row |-> None]
       \/ \E i \in Ids : draft.items[i] # None /\ seen = [item |-> i, photo |-> New, row |-> draft.items[i]]
       \/ \E p \in PhotoIds :
            draft.photos[p] # None /\ seen = [item |-> New, photo |-> p, row |-> draft.photos[p]]

IInv ==
  /\ TypeOK /\ Shapes /\ RowsInv /\ ReceiptsInv /\ LeftInv /\ BegunInv /\ FlushInv /\ LookInv

-----------------------------------------------------------------------------
(* Numbers, and the places that a history shows                            *)

\* Induction over numbers is by least counterexample: the intervals up to the
\* numbers are finite sets, and their inclusion is well-founded.
LEMMA LeastNumber ==
  ASSUME NEW T, T \subseteq Nat, T # {}
  PROVE  \E x \in T : \A y \in T : x <= y
<1> DEFINE Below == {1 .. n : n \in T}
<1>1. Below \subseteq FiniteSubsetsOf(Nat) /\ Below # {}
  <2>1. \A n \in T : 1 .. n \subseteq Nat /\ IsFiniteSet(1 .. n)
    BY FS_Interval
  <2>2. QED
    BY <2>1 DEF FiniteSubsetsOf
<1>2. PICK b \in Below : \A c \in Below : <<c, b>> \notin StrictSubsetOrdering(Nat)
  <2> HIDE DEF Below
  <2>1. QED
    BY <1>1, FS_StrictSubsetOrderingWellFounded, WFMin
<1>3. PICK x \in T : b = 1 .. x
  OBVIOUS
<1>4. ASSUME NEW y \in T, ~ (x <= y)
      PROVE  FALSE
  <2>1. 1 .. y \in SUBSET Nat /\ 1 .. x \in SUBSET Nat
    OBVIOUS
  <2>2. 1 .. y \subseteq 1 .. x /\ x \in 1 .. x /\ x \notin 1 .. y /\ 1 .. y \in Below
    BY <1>4
  <2>3. 1 .. y # 1 .. x
    BY <2>2
  <2>4. QED
    BY <1>2, <1>3, <2>1, <2>2, <2>3 DEF StrictSubsetOrdering
<1>5. QED
  BY <1>4

LEMMA MinIs ==
  ASSUME NEW T, T \subseteq Nat, T # {}
  PROVE  Min(T) \in T /\ \A y \in T : Min(T) <= y
BY LeastNumber DEF Min

LEMMA MaxIs ==
  ASSUME NEW n \in Nat, NEW T, T \subseteq 0 .. n, T # {}
  PROVE  Max(T) \in T /\ \A y \in T : y <= Max(T)
<1> DEFINE Rest == {n - t : t \in T}
<1>1. Rest \subseteq Nat /\ Rest # {}
  OBVIOUS
<1>2. PICK least \in Rest : \A r \in Rest : least <= r
  <2> HIDE DEF Rest
  <2>1. QED
    BY <1>1, LeastNumber
<1>3. PICK x \in T : least = n - x
  OBVIOUS
<1>4. \A y \in T : x >= y
  <2>1. TAKE y \in T
  <2>2. n - x <= n - y
    BY <1>2, <1>3
  <2>3. QED
    BY <2>2
<1>5. QED
  BY <1>4 DEF Max

\* An item is where the newest event says that shows it.
LEMMA WitnessedMore ==
  ASSUME NEW known, NEW S, NEW events \in Seq(S), NEW e, NEW i \in Ids
  PROVE  Witnessed(known, Append(events, e))[i] =
           IF e.item = i /\ Witness(e) # None THEN Witness(e) ELSE Witnessed(known, events)[i]
<1> DEFINE more == Append(events, e)
           Showing(log) == {n \in DOMAIN log : log[n].item = i /\ Witness(log[n]) # None}
           At(log) == IF Showing(log) = {} THEN known[i] ELSE Witness(log[Max(Showing(log))])
<1>1. Witnessed(known, more)[i] = At(more) /\ Witnessed(known, events)[i] = At(events)
  BY DEF Witnessed
<1>2. /\ Len(events) \in Nat /\ DOMAIN events = 1 .. Len(events)
      /\ DOMAIN more = 1 .. Len(events) + 1
      /\ more[Len(events) + 1] = e
      /\ \A n \in DOMAIN events : more[n] = events[n]
  OBVIOUS
<1>3. CASE e.item = i /\ Witness(e) # None
  <2>1. Len(events) + 1 \in Showing(more) /\ Showing(more) \subseteq 0 .. Len(events) + 1
    BY <1>2, <1>3
  <2>2. /\ Max(Showing(more)) \in Showing(more)
        /\ Len(events) + 1 <= Max(Showing(more))
    <3> HIDE DEF Showing
    <3>1. QED
      BY <1>2, <2>1, MaxIs
  <2>3. Max(Showing(more)) = Len(events) + 1
    <3>1. PICK m : m = Max(Showing(more))
      OBVIOUS
    <3>2. m \in 0 .. Len(events) + 1 /\ Len(events) + 1 <= m
      <4> HIDE DEF Showing
      <4>1. QED
        BY <2>1, <2>2, <3>1
    <3>3. m = Len(events) + 1
      BY <1>2, <3>2
    <3>4. QED
      BY <3>1, <3>3
  <2>4. QED
    BY <1>1, <1>2, <1>3, <2>1, <2>3
<1>4. CASE ~ (e.item = i /\ Witness(e) # None)
  <2>1. Showing(more) = Showing(events)
    BY <1>2, <1>4
  <2>2. Showing(events) # {} => Max(Showing(events)) \in Showing(events)
    <3>1. Showing(events) \subseteq 0 .. Len(events)
      BY <1>2
    <3> HIDE DEF Showing
    <3>2. QED
      BY <1>2, <3>1, MaxIs
  <2>3. Showing(events) # {} =>
          more[Max(Showing(events))] = events[Max(Showing(events))]
    BY <1>2, <2>2
  <2>4. QED
    BY <1>1, <1>4, <2>1, <2>3
<1>5. QED
  BY <1>3, <1>4

Types == ItemOps \cup {"item_created", "item_undo_compensated"}
Events == [type : Types, item : Ids, from : Places, to : Places]

LEMMA EventIs ==
  ASSUME NEW type \in Types, NEW item \in Ids, NEW from \in Places, NEW to \in Places
  PROVE  /\ Event(type, item, from, to) \in Events
         /\ Event(type, item, from, to).item = item
         /\ type # "item_taken" /\ to # None => Witness(Event(type, item, from, to)) = to
BY DEF Event, Events, Witness

LEMMA WitnessedNext ==
  \A known, e : \A events \in Seq(Events) : \A i \in Ids :
    Witnessed(known, Append(events, e))[i] =
      IF e.item = i /\ Witness(e) # None THEN Witness(e) ELSE Witnessed(known, events)[i]
BY WitnessedMore

LEMMA WitnessedNone ==
  ASSUME NEW known, NEW i \in Ids
  PROVE  Witnessed(known, << >>)[i] = known[i]
BY DEF Witnessed

LEMMA WitnessedType ==
  ASSUME NEW known \in [Ids -> Places], NEW events \in Seq(Events)
  PROVE  Witnessed(known, events) \in [Ids -> Places]
<1> DEFINE Showing(i) == {n \in DOMAIN events : events[n].item = i /\ Witness(events[n]) # None}
<1>1. \A n \in DOMAIN events : Witness(events[n]) \in Places
  <2>1. TAKE n \in DOMAIN events
  <2>2. events[n] \in Events
    OBVIOUS
  <2>3. QED
    BY <2>2 DEF Witness, Events
<1>2. ASSUME NEW i \in Ids, Showing(i) # {}
      PROVE  Witness(events[Max(Showing(i))]) \in Places
  <2>1. Showing(i) \subseteq 0 .. Len(events) /\ Len(events) \in Nat
    OBVIOUS
  <2>2. Max(Showing(i)) \in Showing(i)
    <3> HIDE DEF Showing
    <3>1. QED
      BY <1>2, <2>1, MaxIs
  <2>3. QED
    BY <1>1, <2>2
<1>3. QED
  BY <1>2 DEF Witnessed

-----------------------------------------------------------------------------
(* Rows                                                                    *)

LEMMA NoPlace == \A place \in Locations : place # None /\ place \in Places
BY ConstantsAssumption DEF Places

LEMMA RowIs ==
  ASSUME NEW row \in Row
  PROVE  /\ row # None
         /\ row.state \in Active \cup {"removed"}
         /\ row.status \in {"known", "unknown", "in_use", "not_applicable"}
         /\ row.place \in Places /\ row.quantity \in Quantity /\ row.reason \in BOOLEAN
BY NoneAssumption DEF Row

LEMMA CreatedIs ==
  ASSUME NEW place \in Places, NEW quantity \in Quantity
  PROVE  LET row == Created(place, quantity) IN
         row \in Row /\ CoherentRow(row) /\ row.place = place
BY ConstantsAssumption DEF Created, StatusAt, Row, CoherentRow, Active

LEMMA MovedIs ==
  ASSUME NEW row \in Row, CoherentRow(row), row.state # "removed", NEW place \in Locations
  PROVE  Moved(row, place) \in Row /\ CoherentRow(Moved(row, place)) /\ Moved(row, place).place = place
         /\ Moved(row, place).quantity = row.quantity
BY NoPlace DEF Moved, Row, CoherentRow, Active

LEMMA TakenIs ==
  ASSUME NEW row \in Row, CoherentRow(row), row.state # "removed"
  PROVE  /\ Taken(row) \in Row /\ CoherentRow(Taken(row))
         /\ Taken(row).status # "known" /\ Taken(row).place = None
         /\ Taken(row).quantity = row.quantity
BY DEF Taken, Row, CoherentRow, Active, Places

LEMMA LostIs ==
  ASSUME NEW row \in Row, CoherentRow(row), row.state # "removed"
  PROVE  /\ Lost(row) \in Row /\ CoherentRow(Lost(row))
         /\ Lost(row).status # "known" /\ Lost(row).place = None
BY DEF Lost, Row, CoherentRow, Active, Places

LEMMA RemovedIs ==
  ASSUME NEW row \in Row
  PROVE  /\ Removed(row) \in Row /\ CoherentRow(Removed(row))
         /\ Removed(row).status # "known" /\ Removed(row).place = None
         /\ Removed(row).quantity = row.quantity /\ Removed(row).state = "removed"
BY DEF Removed, Row, CoherentRow, Active, Places

LEMMA RestoredIs ==
  ASSUME NEW row \in Row, NEW state \in Active, NEW place \in Places
  PROVE  LET after == Restored(row, state, place) IN
         after \in Row /\ CoherentRow(after) /\ after.place = place
BY DEF Restored, StatusAt, Row, CoherentRow, Active

LEMMA CountedIs ==
  ASSUME NEW row \in Row, CoherentRow(row), NEW quantity \in Quantity
  PROVE  LET after == [row EXCEPT !.quantity = quantity] IN
         /\ after \in Row /\ CoherentRow(after) /\ SameButQuantity(after, row)
         /\ after.state = row.state /\ after.status = row.status /\ after.place = row.place
BY DEF Row, CoherentRow, SameButQuantity

LEMMA UpdatedIs ==
  ASSUME NEW row \in Row, CoherentRow(row), row.state # "removed", NEW state \in Active
  PROVE  LET after == [row EXCEPT !.state = state] IN
         /\ after \in Row /\ CoherentRow(after)
         /\ after.status = row.status /\ after.place = row.place
BY DEF Row, CoherentRow, Active

LEMMA SameIs ==
  ASSUME NEW row \in Row, NEW other \in Row
  PROVE  SameButQuantity(row, other) <=>
           /\ row.state = other.state /\ row.status = other.status
           /\ row.place = other.place /\ row.reason = other.reason
BY DEF SameButQuantity, Row

LEMMA RemainderIs ==
  ASSUME NEW lot \in Quantity, NEW part \in Quantity
  PROVE  Remainder(lot, part) \in Quantity
<1> USE DEF Remainder, Quantity, Unknown, Modes
<1>1. CASE "unknown" \in {lot.mode, part.mode} \/ lot.value <= part.value
  BY <1>1
<1>2. CASE ~ ("unknown" \in {lot.mode, part.mode} \/ lot.value <= part.value)
  <2>1. /\ lot \in [mode : {"exact", "approximate"}, value : Nat \ {0}]
        /\ part \in [mode : {"exact", "approximate"}, value : Nat \ {0}]
    BY <1>2
  <2>2. lot.value - part.value \in Nat \ {0}
    BY <1>2, <2>1
  <2>3. QED
    BY <1>2, <2>2
<1>3. QED
  BY <1>1, <1>2

LEMMA LessIs ==
  ASSUME NEW lot \in Row, CoherentRow(lot), NEW part \in Quantity
  PROVE  /\ Less(lot, part) \in Row /\ CoherentRow(Less(lot, part))
         /\ SameButQuantity(Less(lot, part), lot)
         /\ Less(lot, part).state = lot.state /\ Less(lot, part).status = lot.status
         /\ Less(lot, part).place = lot.place
         /\ Less(lot, part).quantity = Remainder(lot.quantity, part)
<1>1. PICK rest \in Quantity : rest = Remainder(lot.quantity, part)
  BY RowIs, RemainderIs
<1>2. Less(lot, part) = [lot EXCEPT !.quantity = rest]
  BY <1>1 DEF Less
<1>3. [lot EXCEPT !.quantity = rest].quantity = rest
  BY DEF Row
<1>4. QED
  BY <1>1, <1>2, <1>3, CountedIs

\* An UPDATE computed from the row as it is writes what was computed.
LEMMA MergeIsNew ==
  ASSUME NEW row, NEW new \in Row
  PROVE  Merge(row, new, row) = new
BY DEF Merge, Row

-----------------------------------------------------------------------------
(* Compensation                                                            *)

Start(store) == [ok |-> TRUE, rows |-> store.items, photos |-> store.photos, events |-> <<>>]

\* d is the compensation of the receipts one by one, the newest first.
Run(d, store, receipts) ==
  /\ d[0] = Start(store)
  /\ \A n \in 1 .. Len(receipts) :
       d[n] = Compensate(d[n - 1], receipts[Len(receipts) + 1 - n])

LEMMA CompensationRuns ==
  ASSUME NEW store, NEW receipts, Len(receipts) \in Nat
  PROVE  \E d : Run(d, store, receipts) /\ Compensated(store, receipts) = d[Len(receipts)]
<1> DEFINE N == Len(receipts)
           Upto(d, m) == d = [n \in 0 .. m |->
             IF n = 0 THEN Start(store) ELSE Compensate(d[n - 1], receipts[N + 1 - n])]
           Missing == {m \in Nat : ~ \E d : Upto(d, m)}
<1>1. Missing = {}
  <2> SUFFICES ASSUME Missing # {} PROVE FALSE
    OBVIOUS
  <2>1. PICK m \in Missing : \A k \in Missing : m <= k
    <3>1. Missing \subseteq Nat
      OBVIOUS
    <3> HIDE DEF Missing
    <3>2. QED
      BY <3>1, LeastNumber
  <2>2. CASE m = 0
    <3>1. Upto([n \in 0 .. 0 |-> Start(store)], 0)
      OBVIOUS
    <3>2. QED
      BY <2>1, <2>2, <3>1
  <2>3. CASE m # 0
    <3>1. m - 1 \in Nat /\ m - 1 \notin Missing
      BY <2>1, <2>3
    <3>2. PICK d : Upto(d, m - 1)
      BY <3>1
    <3> DEFINE e == [n \in 0 .. m |-> IF n = m THEN Compensate(d[m - 1], receipts[N + 1 - m])
                                     ELSE d[n]]
    <3>3. \A n \in 0 .. m - 1 : e[n] = d[n]
      BY <3>1
    <3>4. ASSUME NEW n \in 0 .. m
          PROVE  e[n] = IF n = 0 THEN Start(store) ELSE Compensate(e[n - 1], receipts[N + 1 - n])
      <4>1. CASE n = m
        <5>1. e[n] = Compensate(d[m - 1], receipts[N + 1 - m]) /\ e[m - 1] = d[m - 1]
          BY <3>1, <3>3, <4>1
        <5>2. QED
          BY <2>3, <4>1, <5>1
      <4>2. CASE n # m
        <5>1. n \in 0 .. m - 1 /\ (n # 0 => n - 1 \in 0 .. m - 1)
          BY <3>1, <4>2
        <5>2. d[n] = IF n = 0 THEN Start(store) ELSE Compensate(d[n - 1], receipts[N + 1 - n])
          BY <3>2, <5>1
        <5>3. QED
          BY <3>3, <5>1, <5>2
      <4>3. QED
        BY <4>1, <4>2
    <3>5. Upto(e, m)
      <4>1. e = [n \in 0 .. m |-> e[n]]
        OBVIOUS
      <4> HIDE DEF e
      <4>2. QED
        BY <3>4, <4>1
    <3>6. QED
      BY <2>1, <3>5
  <2>4. QED
    BY <2>2, <2>3
<1>2. PICK d : Upto(d, N) /\ Compensated(store, receipts) = d[N]
  <2>1. \E d : Upto(d, N)
    BY <1>1
  <2>2. QED
    BY <2>1 DEF Compensated, Start
<1>3. Run(d, store, receipts)
  BY <1>2, SMTT(30) DEF Run
<1>4. QED
  BY <1>2, <1>3

\* What it has made of the store at any point.
Sane(done, store, receipts) ==
  /\ done \in [ok : BOOLEAN, rows : [Ids -> Row \cup {None}],
               photos : [PhotoIds -> Photo \cup {None}], events : Seq(Events)]
  /\ Sound(done.rows, Witnessed(store.lastKnown, done.events))
  /\ Unique(done.photos) /\ Owned(done.photos, store.items)
  /\ \A i \in Ids : done.rows[i] = None <=> store.items[i] = None
  /\ \A i \in Ids \ Affected(receipts) : done.rows[i] = store.items[i]
  /\ \A p \in PhotoIds \ Pictured(receipts) : done.photos[p] = store.photos[p]

LEMMA TargetIs ==
  ASSUME NEW r \in Receipts, ItemReceipt(r), NEW row \in Row, CoherentRow(row)
  PROVE  Target(row, r) \in Row /\ CoherentRow(Target(row, r))
<1>1. CASE r.op = "create_item"
  BY <1>1, RemovedIs DEF Target
<1>2. CASE r.op # "create_item"
  <2>1. r.before \in Row /\ CoherentRow(r.before) /\ row.quantity \in Quantity
    BY <1>2, RowIs DEF ItemReceipt
  <2>2. Target(row, r) \in {r.before, [r.before EXCEPT !.quantity = row.quantity]}
    BY <1>2 DEF Target
  <2>3. QED
    BY <2>1, <2>2, CountedIs
<1>3. QED
  BY <1>1, <1>2

LEMMA AboutOne ==
  ASSUME NEW receipts, NEW n \in 1 .. Len(receipts)
  PROVE  /\ DOMAIN receipts[n].after \subseteq Affected(receipts)
         /\ DOMAIN receipts[n].photos \subseteq Pictured(receipts)
BY DEF Affected, Pictured

LEMMA RowCompensated ==
  ASSUME NEW store, NEW receipts, NEW n \in 1 .. Len(receipts), NEW done,
         receipts[n] \in Receipts, ItemReceipt(receipts[n]), Sane(done, store, receipts),
         Fits(done.rows, receipts[n])
  PROVE  LET i == receipts[n].entity IN
         Sane(RestoreSnapshot(done, i, Target(done.rows[i], receipts[n])), store, receipts)
<1> DEFINE r == receipts[n]
           i == r.entity
           target == Target(done.rows[i], r)
           e == Event("item_undo_compensated", i, done.rows[i].place, target.place)
           now == RestoreSnapshot(done, i, target)
<1>1. i \in Ids /\ i \in Affected(receipts) /\ done.rows[i] = r.after[i] /\ CoherentRow(r.after[i])
  <2>1. i \in Ids /\ i \in DOMAIN r.after
    BY DEF ItemReceipt
  <2>2. QED
    BY <2>1, AboutOne DEF ItemReceipt, Fits
<1>2. done.rows[i] \in Row /\ CoherentRow(done.rows[i])
  <2>1. done.rows[i] \in Row \cup {None}
    BY <1>1 DEF Sane
  <2>2. r.after[i] \in Row
    <3>1. PICK D \in SUBSET Ids : r.after \in [D -> Row]
      BY DEF Receipts
    <3>2. i \in D
      BY <3>1 DEF ItemReceipt
    <3>3. QED
      BY <3>1, <3>2
  <2>3. QED
    BY <1>1, <2>2
<1>3. target \in Row /\ CoherentRow(target)
  BY <1>2, TargetIs
<1>4. e \in Events /\ (target.status = "known" => Witness(e) = target.place /\ target.place # None)
  <2>1. done.rows[i].place \in Places /\ target.place \in Places
    BY <1>2, <1>3, RowIs
  <2> HIDE DEF target
  <2>2. QED
    <3>1. e \in Events /\ (target.place # None => Witness(e) = target.place)
      <4>1. i \in Ids
        BY <1>1
      <4> HIDE DEF i
      <4>2. QED
        <5>1. PICK from \in Places, to \in Places : from = done.rows[i].place /\ to = target.place
          BY <2>1
        <5>2. PICK type \in Types : type = "item_undo_compensated"
          BY DEF Types
        <5>3. e = Event(type, i, from, to) /\ type # "item_taken"
          BY <5>1, <5>2
        <5>4. QED
          BY <4>1, <5>1, <5>3, EventIs
    <3>2. target.status = "known" => target.place # None
      BY <1>3 DEF CoherentRow
    <3>3. QED
      BY <3>1, <3>2
<1> HIDE DEF target
<1>5. now = [ok |-> done.ok, rows |-> [done.rows EXCEPT ![i] = target],
             photos |-> done.photos, events |-> Append(done.events, e)]
  <2>1. done = [ok |-> done.ok, rows |-> done.rows, photos |-> done.photos, events |-> done.events]
    BY DEF Sane
  <2>2. now = [done EXCEPT !.rows[i] = target, !.events = Append(@, e)]
    BY DEF RestoreSnapshot
  <2> HIDE DEF now, e
  <2>3. QED
    BY <2>1, <2>2
<1> HIDE DEF now, e
<1>6. now \in [ok : BOOLEAN, rows : [Ids -> Row \cup {None}],
               photos : [PhotoIds -> Photo \cup {None}], events : Seq(Events)]
  <2>1. done.events \in Seq(Events) /\ done.rows \in [Ids -> Row \cup {None}]
        /\ done.ok \in BOOLEAN /\ done.photos \in [PhotoIds -> Photo \cup {None}]
    BY DEF Sane
  <2>2. Append(done.events, e) \in Seq(Events)
    BY <1>4, <2>1
  <2>3. [done.rows EXCEPT ![i] = target] \in [Ids -> Row \cup {None}]
    BY <1>3, <2>1
  <2>4. QED
    BY <1>5, <2>1, <2>2, <2>3
<1>7. \A j \in Ids : now.rows[j] = IF j = i THEN target ELSE done.rows[j]
  BY <1>1, <1>5 DEF Sane
<1>8. Sound(now.rows, Witnessed(store.lastKnown, now.events))
  <2> SUFFICES ASSUME NEW j \in Ids, now.rows[j] # None
               PROVE  /\ CoherentRow(now.rows[j])
                      /\ now.rows[j].status = "known" =>
                           Witnessed(store.lastKnown, now.events)[j] = now.rows[j].place
    BY DEF Sound
  <2>1. Witnessed(store.lastKnown, now.events)[j] =
          IF e.item = j /\ Witness(e) # None THEN Witness(e)
          ELSE Witnessed(store.lastKnown, done.events)[j]
    <3>1. done.events \in Seq(Events)
      BY DEF Sane
    <3>2. Witnessed(store.lastKnown, Append(done.events, e))[j] =
            IF e.item = j /\ Witness(e) # None THEN Witness(e)
            ELSE Witnessed(store.lastKnown, done.events)[j]
      BY <3>1, WitnessedNext
    <3>3. now.events = Append(done.events, e)
      BY <1>5
    <3>4. QED
      BY <3>2, <3>3
  <2>2. e.item = i
    BY DEF e, Event
  <2>3. CASE j = i
    BY <1>3, <1>4, <1>7, <2>1, <2>2, <2>3
  <2>4. CASE j # i
    BY <1>7, <2>1, <2>2, <2>4 DEF Sane, Sound
  <2>5. QED
    BY <2>3, <2>4
<1>9. \A j \in Ids : now.rows[j] = None <=> store.items[j] = None
  <2>1. target # None /\ done.rows[i] # None
    BY <1>2, <1>3, RowIs
  <2>2. QED
    BY <1>1, <1>7, <2>1 DEF Sane
<1>10. now.photos = done.photos
  BY <1>5
<1>11. \A j \in Ids \ Affected(receipts) : now.rows[j] = store.items[j]
  BY <1>1, <1>7 DEF Sane
<1>12. Sane(now, store, receipts)
  BY <1>6, <1>8, <1>9, <1>10, <1>11 DEF Sane
<1>13. QED
  BY <1>12 DEF now, target

LEMMA PhotoReplaced ==
  ASSUME NEW store, NEW receipts, NEW done, Sane(done, store, receipts),
         NEW p \in PhotoIds, p \in Pictured(receipts), NEW photo \in Photo \cup {None},
         photo # None => store.items[photo.item] # None,
         photo # None => \A q \in PhotoIds : q # p /\ done.photos[q] # None =>
           <<done.photos[q].item, done.photos[q].reference>> # <<photo.item, photo.reference>>
  PROVE  Sane([done EXCEPT !.photos[p] = photo], store, receipts)
<1> DEFINE now == [done EXCEPT !.photos[p] = photo]
<1>1. now = [ok |-> done.ok, rows |-> done.rows, photos |-> [done.photos EXCEPT ![p] = photo],
             events |-> done.events]
  <2>1. done = [ok |-> done.ok, rows |-> done.rows, photos |-> done.photos, events |-> done.events]
    BY DEF Sane
  <2>2. QED
    BY <2>1
<1> HIDE DEF now
<1>2. \A q \in PhotoIds : now.photos[q] = IF q = p THEN photo ELSE done.photos[q]
  BY <1>1 DEF Sane
<1>3. now \in [ok : BOOLEAN, rows : [Ids -> Row \cup {None}],
               photos : [PhotoIds -> Photo \cup {None}], events : Seq(Events)]
  <2>1. done.events \in Seq(Events) /\ done.rows \in [Ids -> Row \cup {None}]
        /\ done.ok \in BOOLEAN /\ done.photos \in [PhotoIds -> Photo \cup {None}]
    BY DEF Sane
  <2>2. [done.photos EXCEPT ![p] = photo] \in [PhotoIds -> Photo \cup {None}]
    BY <2>1
  <2>3. QED
    BY <1>1, <2>1, <2>2
<1>4. Unique(now.photos)
  <2> SUFFICES ASSUME NEW q \in PhotoIds, NEW k \in PhotoIds, q # k,
                      now.photos[q] # None, now.photos[k] # None
               PROVE  <<now.photos[q].item, now.photos[q].reference>>
                        # <<now.photos[k].item, now.photos[k].reference>>
    BY DEF Unique
  <2>1. CASE q = p
    BY <1>2, <2>1
  <2>2. CASE k = p
    BY <1>2, <2>2
  <2>3. CASE q # p /\ k # p
    BY <1>2, <2>3 DEF Sane, Unique
  <2>4. QED
    BY <2>1, <2>2, <2>3
<1>5. Owned(now.photos, store.items)
  BY <1>2 DEF Owned, Sane
<1>6. \A q \in PhotoIds \ Pictured(receipts) : now.photos[q] = store.photos[q]
  BY <1>2 DEF Sane
<1>7. now.rows = done.rows /\ now.events = done.events
  BY <1>1
<1>8. Sane(now, store, receipts)
  BY <1>3, <1>4, <1>5, <1>6, <1>7 DEF Sane
<1>9. QED
  BY <1>8 DEF now

LEMMA NotCompensated ==
  ASSUME NEW store, NEW receipts, NEW done, Sane(done, store, receipts)
  PROVE  Sane([done EXCEPT !.ok = FALSE], store, receipts)
<1> DEFINE now == [done EXCEPT !.ok = FALSE]
<1>1. now = [ok |-> FALSE, rows |-> done.rows, photos |-> done.photos, events |-> done.events]
  <2>1. done = [ok |-> done.ok, rows |-> done.rows, photos |-> done.photos, events |-> done.events]
    BY DEF Sane
  <2>2. PICK no \in BOOLEAN : no = FALSE
    OBVIOUS
  <2>3. now = [ok |-> no, rows |-> done.rows, photos |-> done.photos, events |-> done.events]
    <3>1. now = [done EXCEPT !.ok = no]
      BY <2>2
    <3> HIDE DEF now
    <3>2. QED
      BY <2>1, <3>1
  <2>4. QED
    BY <2>2, <2>3
<1> HIDE DEF now
<1>2. now \in [ok : BOOLEAN, rows : [Ids -> Row \cup {None}],
               photos : [PhotoIds -> Photo \cup {None}], events : Seq(Events)]
  BY <1>1 DEF Sane
<1>3. now.rows = done.rows /\ now.events = done.events /\ now.photos = done.photos
  BY <1>1
<1>4. Sane(now, store, receipts)
  BY <1>2, <1>3 DEF Sane
<1>5. QED
  BY <1>4 DEF now

LEMMA PhotoCompensated ==
  ASSUME NEW store, NEW receipts, NEW n \in 1 .. Len(receipts), NEW done,
         PhotoReceipt(receipts[n]), store.items[receipts[n].source] # None,
         Sane(done, store, receipts)
  PROVE  Sane(CompensatePhoto(done, receipts[n]), store, receipts)
<1> DEFINE r == receipts[n]
           p == r.entity
           photo == IF r.op = "attach_item_photo" THEN None ELSE r.before
<1>1. p \in PhotoIds /\ p \in Pictured(receipts)
  BY AboutOne DEF PhotoReceipt
<1>2. CASE PhotoFits(done.photos, r) /\ (r.op = "detach_item_photo" => ~ Attached(done.photos, r.before))
  <2>1. photo \in Photo \cup {None} /\ (photo # None => store.items[photo.item] # None)
    BY DEF PhotoReceipt
  <2>2. ASSUME photo # None, NEW q \in PhotoIds, q # p, done.photos[q] # None
        PROVE  <<done.photos[q].item, done.photos[q].reference>> # <<photo.item, photo.reference>>
    <3>1. photo = r.before /\ r.op \in {"update_item_photo", "detach_item_photo"}
      BY <2>2 DEF PhotoReceipt, PhotoOps
    <3>2. CASE r.op = "detach_item_photo"
      BY <1>2, <2>2, <3>1, <3>2 DEF Attached
    <3>3. CASE r.op = "update_item_photo"
      <4>1. /\ done.photos[p] # None /\ done.photos[p].item = r.before.item
            /\ done.photos[p].reference = r.before.reference
        BY <1>2, <3>3 DEF PhotoFits, PhotoReceipt
      <4>2. QED
        BY <1>1, <2>2, <3>1, <4>1 DEF Sane, Unique
    <3>4. QED
      BY <3>1, <3>2, <3>3
  <2>3. CompensatePhoto(done, r) = [done EXCEPT !.photos[p] = photo]
    BY <1>2 DEF CompensatePhoto
  <2> HIDE DEF photo, p
  <2>4. QED
    BY <1>1, <2>1, <2>2, <2>3, PhotoReplaced
<1>3. CASE ~ (PhotoFits(done.photos, r) /\ (r.op = "detach_item_photo" => ~ Attached(done.photos, r.before)))
  <2>1. CompensatePhoto(done, r) = [done EXCEPT !.ok = FALSE]
    BY <1>3 DEF CompensatePhoto
  <2>2. QED
    BY <2>1, NotCompensated
<1>4. QED
  BY <1>2, <1>3

\* What receipts must say for the compensation to be sane.
Legible(receipts, rows) ==
  /\ receipts \in Seq(Receipts)
  /\ \A n \in DOMAIN receipts : Supported(receipts[n]) /\ Undoable(receipts[n], rows)

LEMMA CompensateIsSane ==
  ASSUME NEW store, NEW receipts, Legible(receipts, store.items), NEW n \in 1 .. Len(receipts),
         NEW done, Sane(done, store, receipts)
  PROVE  Sane(Compensate(done, receipts[n]), store, receipts)
<1> DEFINE r == receipts[n]
<1>1. r \in Receipts /\ (ItemReceipt(r) \/ PhotoReceipt(r)) /\ store.items[r.source] # None
  BY DEF Legible, Undoable
<1>2. CASE ~ done.ok
  BY <1>2 DEF Compensate
<1>3. CASE done.ok /\ PhotoReceipt(r)
  <2>1. Compensate(done, r) = CompensatePhoto(done, r)
    BY <1>3 DEF Compensate, PhotoReceipt
  <2>2. QED
    BY <1>1, <1>3, <2>1, PhotoCompensated
<1>4. CASE done.ok /\ ItemReceipt(r)
  <2>1. r.op \notin PhotoOps
    BY <1>4 DEF ItemReceipt, ItemOps, PhotoOps
  <2>2. CASE Fits(done.rows, r)
    <3>1. Compensate(done, r) = RestoreSnapshot(done, r.entity, Target(done.rows[r.entity], r))
      BY <1>4, <2>1, <2>2 DEF Compensate
    <3>2. QED
      BY <1>1, <1>4, <2>2, <3>1, RowCompensated
  <2>3. CASE ~ Fits(done.rows, r)
    <3>1. Compensate(done, r) = [done EXCEPT !.ok = FALSE]
      BY <1>4, <2>1, <2>3 DEF Compensate
    <3>2. QED
      BY <3>1, NotCompensated
  <2>4. QED
    BY <2>2, <2>3
<1>5. QED
  BY <1>1, <1>2, <1>3, <1>4

LEMMA RunIsSane ==
  ASSUME NEW store, StoreInv(store), NEW receipts, Legible(receipts, store.items),
         NEW d, Run(d, store, receipts)
  PROVE  \A n \in 0 .. Len(receipts) : Sane(d[n], store, receipts)
<1> DEFINE Bad == {n \in 0 .. Len(receipts) : ~ Sane(d[n], store, receipts)}
<1> SUFFICES ASSUME Bad # {} PROVE FALSE
  OBVIOUS
<1>0. Len(receipts) \in Nat
  BY DEF Legible
<1>1. PICK n \in Bad : \A m \in Bad : n <= m
  <2>1. Bad \subseteq Nat
    BY <1>0
  <2> HIDE DEF Bad
  <2>2. QED
    BY <2>1, LeastNumber
<1>2. CASE n = 0
  <2>1. d[0] = Start(store)
    BY DEF Run
  <2>2. Sane(Start(store), store, receipts)
    <3>1. /\ store.items \in [Ids -> Row \cup {None}] /\ store.photos \in [PhotoIds -> Photo \cup {None}]
          /\ << >> \in Seq(Events)
      BY DEF StoreInv, StoreType
    <3>2. Start(store) \in [ok : BOOLEAN, rows : [Ids -> Row \cup {None}],
                            photos : [PhotoIds -> Photo \cup {None}], events : Seq(Events)]
      BY <3>1 DEF Start
    <3>3. Sound(store.items, Witnessed(store.lastKnown, << >>))
      BY WitnessedNone DEF StoreInv, Sound
    <3>4. QED
      BY <3>2, <3>3 DEF Sane, Start, StoreInv
  <2>3. QED
    BY <1>2, <2>1, <2>2
<1>3. CASE n # 0
  <2>1. n \in 1 .. Len(receipts) /\ n - 1 \in 0 .. Len(receipts) /\ n - 1 \notin Bad
    BY <1>0, <1>1, <1>3
  <2>2. Sane(d[n - 1], store, receipts)
    BY <2>1
  <2>3. Len(receipts) + 1 - n \in 1 .. Len(receipts)
    BY <1>0, <2>1
  <2>4. Sane(d[n], store, receipts)
    BY <2>1, <2>2, <2>3, CompensateIsSane DEF Run
  <2>5. QED
    BY <2>4
<1>4. QED
  BY <1>2, <1>3

-----------------------------------------------------------------------------
(* What a flush does                                                       *)

LEMMA Numbers ==
  /\ MaxItems \in Nat \ {0} /\ MaxPhotos \in Nat \ {0} /\ MaxCalls \in Nat
  /\ New = 0 /\ New \notin Ids /\ New \notin PhotoIds
  /\ Ids \subseteq Nat /\ PhotoIds \subseteq Nat
BY ConstantsAssumption DEF New, Ids, PhotoIds

LEMMA StoreIs ==
  ASSUME OneSession, TypeOK, RowsInv, NEW s \in Sessions
  PROVE  Store(s) = draft /\ Rows(s) = draft.items /\ Photos(s) = draft.photos
<1>1. writer = s \/ writer = None
  BY DEF TypeOK, OneSession
<1>2. QED
  BY <1>1 DEF Store, Rows, Photos, RowsInv

LEMMA NextIdIs ==
  ASSUME NEW s, HasRoom(s)
  PROVE  NextId(s) \in Ids /\ Rows(s)[NextId(s)] = None
<1> DEFINE Vacant == {i \in Ids : Rows(s)[i] = None}
<1>1. Vacant \subseteq Nat /\ Vacant # {}
  BY Numbers DEF HasRoom
<1>2. PICK i \in Vacant : \A j \in Vacant : i <= j
  <2> HIDE DEF Vacant
  <2>1. QED
    BY <1>1, LeastNumber
<1>3. \A j \in Ids : j < i => Rows(s)[j] # None
  BY <1>2, Numbers
<1>4. QED
  BY <1>2, <1>3 DEF NextId

LEMMA NextPhotoIs ==
  ASSUME NEW s, NextPhoto(s) \in PhotoIds
  PROVE  Photos(s)[NextPhoto(s)] = None
<1> DEFINE Used == {0} \cup {p \in PhotoIds : Photos(s)[p] # None}
<1>1. Used \subseteq 0 .. MaxPhotos /\ Used # {}
  BY Numbers DEF PhotoIds
<1>2. Max(Used) \in Used /\ \A p \in Used : p <= Max(Used)
  <2> HIDE DEF Used
  <2>1. QED
    BY <1>1, Numbers, MaxIs
<1>3. Max(Used) \in Nat /\ NextPhoto(s) = 1 + Max(Used)
  BY <1>1, <1>2 DEF NextPhoto
<1>4. 1 + Max(Used) \notin Used
  <2> HIDE DEF Used
  <2>1. QED
    BY <1>2, <1>3
<1>5. QED
  BY <1>3, <1>4

\* The flush of a change computed from what is there.
Flushes(s, c) == Write(s, c, Read(s, c))

LEMMA WrittenIs ==
  ASSUME NEW s, NEW c, \A j \in DOMAIN c.new : c.new[j] \in Row
  PROVE  /\ DOMAIN Written(s, c, Read(s, c)) = Ids
         /\ \A i \in Ids : Written(s, c, Read(s, c))[i] =
              IF i \in DOMAIN c.new THEN c.new[i]
              ELSE IF New \in DOMAIN c.new /\ i = NextId(s) THEN c.new[New]
              ELSE Rows(s)[i]
<1>1. DOMAIN Read(s, c) = DOMAIN c.new \ {New} /\ \A i \in DOMAIN Read(s, c) : Read(s, c)[i] = Rows(s)[i]
  BY DEF Read
<1>2. \A i \in DOMAIN Read(s, c) : Merge(Read(s, c)[i], c.new[i], Rows(s)[i]) = c.new[i]
  BY <1>1, MergeIsNew
<1>3. \A i \in Ids : i \in DOMAIN Read(s, c) <=> i \in DOMAIN c.new
  BY <1>1, Numbers
<1>4. QED
  BY <1>2, <1>3 DEF Written

\* The receipt has what was written, and nothing else was.
Reflects(r) ==
  /\ \A i \in Ids : draft'.items[i] = IF i \in DOMAIN r.after THEN r.after[i] ELSE draft.items[i]
  /\ \A p \in PhotoIds :
       draft'.photos[p] = IF p \in DOMAIN r.photos THEN r.photos[p] ELSE draft.photos[p]

LEMMA FlushReflects ==
  ASSUME OneSession, TypeOK, RowsInv, NEW s \in Sessions, NEW c, Flushes(s, c)
  PROVE  Reflects(Noted(s, c, Read(s, c)))
<1> DEFINE r == Noted(s, c, Read(s, c))
           W == Written(s, c, Read(s, c))
<1>1. /\ draft'.items = W
      /\ draft'.photos = [p \in PhotoIds |-> IF p \in DOMAIN Pictures(s, c) THEN Pictures(s, c)[p]
                                            ELSE Photos(s)[p]]
  BY DEF Flushes, Write
<1>2. r.after = [i \in {IdOf(s, j) : j \in DOMAIN c.new} |-> W[i]] /\ r.photos = Pictures(s, c)
  BY DEF Noted, ReceiptOf
<1>3. \A i \in Ids : i \notin DOMAIN r.after => W[i] = Rows(s)[i]
  <2> SUFFICES ASSUME NEW i \in Ids, i \notin {IdOf(s, j) : j \in DOMAIN c.new}
               PROVE  W[i] = Rows(s)[i]
    BY <1>2
  <2>1. i \notin DOMAIN c.new
    BY Numbers DEF IdOf
  <2>2. New \in DOMAIN c.new => i # NextId(s)
    BY DEF IdOf
  <2>3. i \notin DOMAIN Read(s, c)
    BY <2>1 DEF Read
  <2>4. QED
    BY <2>2, <2>3 DEF Written
<1>4. QED
  BY <1>1, <1>2, <1>3, StoreIs DEF Reflects

\* What is left for the invariants, of a flush with receipt r.
Kept(s, r) ==
  /\ r \in Receipts
  /\ StoreInv(draft')
  /\ Later(draft.items, draft'.items)
  /\ turn[s].conversation # None =>
       /\ Undoable(r, draft'.items)
       /\ Supported(r) =>
            /\ \A i \in DOMAIN r.after :
                 draft.items[i] = IF r.op # "create_item" /\ i = r.source THEN r.before ELSE None
            /\ \A p \in DOMAIN r.photos :
                 draft.photos[p] = IF r.op = "attach_item_photo" THEN None ELSE r.before

LEMMA NothingPictured ==
  ASSUME NEW s, NEW c, c.photos = << >>
  PROVE  DOMAIN Pictures(s, c) = {}
BY DEF Pictures

LEMMA NothingLogged ==
  ASSUME NEW s, NEW c, c.events = << >>
  PROVE  Logged(s, c) = << >>
BY DEF Logged

LEMMA OneLogged ==
  ASSUME NEW s, NEW c, NEW type, NEW from, NEW to, c.events = <<Event(type, c.entity, from, to)>>
  PROVE  Logged(s, c) = <<Event(type, IdOf(s, c.entity), from, to)>>
<1>1. DOMAIN c.events = {1} /\ c.events[1] = [type |-> type, item |-> c.entity, from |-> from, to |-> to]
  BY DEF Event
<1>2. [c.events[1] EXCEPT !.item = IdOf(s, @)] = Event(type, IdOf(s, c.entity), from, to)
  BY <1>1 DEF Event
<1>3. Logged(s, c) = [n \in {1} |-> Event(type, IdOf(s, c.entity), from, to)]
  BY <1>1, <1>2 DEF Logged
<1>4. QED
  BY <1>3

\* Where the two rows of a change of an item are.
LEMMA ItemPlaces ==
  ASSUME OneSession, TypeOK, RowsInv, NEW s \in Sessions, NEW c, ItemChange(c, draft), Flushes(s, c)
  PROVE  LET a == IdOf(s, c.source)  b == IdOf(s, c.entity)  r == Noted(s, c, Read(s, c)) IN
         /\ a \in Ids /\ b \in Ids
         /\ IF c.source = New THEN draft.items[a] = None ELSE a = c.source
         /\ IF c.entity = c.source THEN b = a ELSE b # a /\ draft.items[b] = None
         /\ r = [op |-> c.op, source |-> a, entity |-> b, before |-> c.before,
                 after |-> r.after, photos |-> r.photos]
         /\ DOMAIN r.after = {a, b} /\ DOMAIN r.photos = {}
         /\ r.after[a] = c.new[c.source] /\ r.after[b] = c.new[c.entity]
<1> DEFINE a == IdOf(s, c.source)
           b == IdOf(s, c.entity)
           r == Noted(s, c, Read(s, c))
           W == Written(s, c, Read(s, c))
<1>1. c.op \notin PhotoOps
  BY DEF ItemChange, ItemOps, PhotoOps
<1>2. New \in {c.source, c.entity} => NextId(s) \in Ids /\ draft.items[NextId(s)] = None
  BY <1>1, NextIdIs, StoreIs DEF Flushes, Write
<1>3. a \in Ids /\ b \in Ids
  BY <1>2 DEF ItemChange, IdOf
<1>4. IF c.source = New THEN draft.items[a] = None ELSE a = c.source
  BY <1>2 DEF IdOf
<1>5. IF c.entity = c.source THEN b = a ELSE b # a /\ draft.items[b] = None
  BY <1>2 DEF IdOf, ItemChange
<1>6. /\ r = [op |-> c.op, source |-> a, entity |-> b, before |-> c.before,
              after |-> [i \in {IdOf(s, j) : j \in DOMAIN c.new} |-> W[i]],
              photos |-> Pictures(s, c)]
  BY <1>1 DEF Noted, ReceiptOf
<1>7. {IdOf(s, j) : j \in DOMAIN c.new} = {a, b}
  BY DEF ItemChange
<1>8. DOMAIN r.photos = {}
  BY <1>6, NothingPictured DEF ItemChange
<1>9. W[a] = c.new[c.source] /\ W[b] = c.new[c.entity]
  <2>1. \A i \in Ids : W[i] = IF i \in DOMAIN c.new THEN c.new[i]
                             ELSE IF New \in DOMAIN c.new /\ i = NextId(s) THEN c.new[New]
                             ELSE Rows(s)[i]
    BY WrittenIs DEF ItemChange
  <2>2. DOMAIN c.new = {c.source, c.entity} /\ c.entity \in {c.source, New}
        /\ c.source \in Ids \cup {New}
    BY DEF ItemChange
  <2>3. W[a] = c.new[c.source]
    <3>1. CASE c.source = New
      BY <1>3, <2>1, <2>2, <3>1, Numbers DEF IdOf
    <3>2. CASE c.source # New
      BY <1>3, <2>1, <2>2, <3>2 DEF IdOf
    <3>3. QED
      BY <3>1, <3>2
  <2>4. W[b] = c.new[c.entity]
    <3>1. CASE c.entity = c.source
      BY <2>3, <3>1
    <3>2. CASE c.entity # c.source
      <4>1. c.entity = New /\ b = NextId(s) /\ b # c.source /\ b # New
        BY <1>3, <1>4, <1>5, <2>2, <3>2, Numbers DEF IdOf
      <4>2. QED
        BY <1>3, <2>1, <2>2, <4>1
    <3>3. QED
      BY <3>1, <3>2
  <2>5. QED
    BY <2>3, <2>4
<1> HIDE DEF a, b, W, r
<1>10. DOMAIN r.after = {a, b} /\ r.after[a] = W[a] /\ r.after[b] = W[b]
  BY <1>6, <1>7
<1>11. r = [op |-> c.op, source |-> a, entity |-> b, before |-> c.before,
            after |-> r.after, photos |-> r.photos]
  BY <1>6
<1>12. QED
  BY <1>3, <1>4, <1>5, <1>8, <1>9, <1>10, <1>11 DEF a, b, r

\* The places that the history shows once a change of an item is logged.
LEMMA ItemLogged ==
  ASSUME OneSession, TypeOK, RowsInv, NEW s \in Sessions, NEW c, ItemChange(c, draft), Flushes(s, c)
  PROVE  LET b == IdOf(s, c.entity) IN
         /\ draft'.lastKnown \in [Ids -> Places]
         /\ \A i \in Ids : i # b \/ c.events = << >> => draft'.lastKnown[i] = draft.lastKnown[i]
         /\ c.events # << >> /\ Witness(c.events[1]) # None =>
              draft'.lastKnown[b] = Witness(c.events[1])
<1> DEFINE b == IdOf(s, c.entity)
           known == draft.lastKnown
<1>0. b \in Ids /\ known \in [Ids -> Places]
  BY ItemPlaces DEF RowsInv, StoreInv, StoreType
<1>1. draft'.lastKnown = Witnessed(known, Logged(s, c))
  BY StoreIs DEF Flushes, Write
<1>2. CASE c.events = << >>
  <2>1. draft'.lastKnown = Witnessed(known, << >>)
    BY <1>1, <1>2, NothingLogged
  <2>2. << >> \in Seq(Events)
    OBVIOUS
  <2>3. draft'.lastKnown \in [Ids -> Places]
    BY <1>0, <2>1, <2>2, WitnessedType
  <2>4. \A i \in Ids : draft'.lastKnown[i] = known[i]
    BY <2>1, WitnessedNone
  <2>5. QED
    BY <1>2, <2>3, <2>4
<1>3. CASE c.events # << >>
  <2>1. PICK type \in Types, from \in Places, to \in Places :
               c.events = <<Event(type, c.entity, from, to)>>
    BY <1>3 DEF ItemChange, Types
  <2> DEFINE e == Event(type, b, from, to)
  <2>2. e \in Events /\ e.item = b
    BY <1>0, EventIs
  <2>3. Witness(e) = Witness(c.events[1])
    BY <2>1 DEF Event, Witness
  <2>4. Logged(s, c) = <<e>>
    BY <2>1, OneLogged
  <2> HIDE DEF e, b
  <2>5. draft'.lastKnown = Witnessed(known, Append(<< >>, e)) /\ << >> \in Seq(Events)
        /\ <<e>> \in Seq(Events)
    BY <1>1, <2>2, <2>4
  <2>6. draft'.lastKnown \in [Ids -> Places]
    BY <1>0, <1>1, <2>4, <2>5, WitnessedType
  <2>7. \A i \in Ids : draft'.lastKnown[i] =
          IF e.item = i /\ Witness(e) # None THEN Witness(e) ELSE known[i]
    <3>1. \A i \in Ids : Witnessed(known, Append(<< >>, e))[i] =
            IF e.item = i /\ Witness(e) # None THEN Witness(e) ELSE Witnessed(known, << >>)[i]
      BY <2>5, WitnessedNext
    <3>2. QED
      BY <2>5, <3>1, WitnessedNone
  <2>8. QED
    BY <1>0, <1>3, <2>2, <2>3, <2>6, <2>7 DEF b
<1>4. QED
  BY <1>2, <1>3

LEMMA ItemKept ==
  ASSUME OneSession, TypeOK, RowsInv, NEW s \in Sessions, NEW c, Flushes(s, c),
         IsChange(c), ItemChange(c, draft),
         turn[s].conversation # None => FoundBefore(c, draft)
  PROVE  Kept(s, Noted(s, c, Read(s, c)))
<1> DEFINE a == IdOf(s, c.source)
           b == IdOf(s, c.entity)
           r == Noted(s, c, Read(s, c))
<1>1. /\ a \in Ids /\ b \in Ids
      /\ IF c.source = New THEN draft.items[a] = None ELSE a = c.source
      /\ IF c.entity = c.source THEN b = a ELSE b # a /\ draft.items[b] = None
      /\ r = [op |-> c.op, source |-> a, entity |-> b, before |-> c.before,
              after |-> r.after, photos |-> r.photos]
      /\ DOMAIN r.after = {a, b} /\ DOMAIN r.photos = {}
      /\ r.after[a] = c.new[c.source] /\ r.after[b] = c.new[c.entity]
  BY ItemPlaces
<1>2. Reflects(r)
  BY FlushReflects
<1>3. /\ draft'.lastKnown \in [Ids -> Places]
      /\ \A i \in Ids : i # b \/ c.events = << >> => draft'.lastKnown[i] = draft.lastKnown[i]
      /\ c.events # << >> /\ Witness(c.events[1]) # None =>
           draft'.lastKnown[b] = Witness(c.events[1])
  BY ItemLogged
<1>4. draft' = [items |-> draft'.items, lastKnown |-> draft'.lastKnown, photos |-> draft'.photos]
      /\ draft'.items = Written(s, c, Read(s, c)) /\ DOMAIN draft'.photos = PhotoIds
      /\ draft'.photos = [p \in PhotoIds |-> draft'.photos[p]]
  BY DEF Flushes, Write
<1>5. draft'.items = [i \in Ids |-> draft'.items[i]]
  BY <1>4 DEF Written
<1> HIDE DEF r, a, b
<1>6. /\ \A i \in {a, b} : draft'.items[i] = r.after[i] /\ r.after[i] \in Row /\ CoherentRow(r.after[i])
      /\ \A i \in Ids \ {a, b} : draft'.items[i] = draft.items[i]
      /\ \A p \in PhotoIds : draft'.photos[p] = draft.photos[p]
  <2>1. {c.source, c.entity} = DOMAIN c.new
    BY DEF ItemChange
  <2>2. QED
    BY <1>1, <1>2, <2>1 DEF ItemChange, Reflects
<1>7. Later(draft.items, draft'.items)
  BY <1>1, <1>6, RowIs DEF Later
<1>8. StoreInv(draft')
  <2>1. draft \in StoreType /\ Sound(draft.items, draft.lastKnown)
        /\ Unique(draft.photos) /\ Owned(draft.photos, draft.items)
    BY DEF RowsInv, StoreInv
  <2>2. draft' \in StoreType
    <3>1. draft'.items \in [Ids -> Row \cup {None}]
      BY <1>1, <1>5, <1>6, <2>1 DEF StoreType
    <3>2. draft'.photos \in [PhotoIds -> Photo \cup {None}]
      BY <1>4, <1>6, <2>1 DEF StoreType
    <3>3. QED
      BY <1>3, <1>4, <3>1, <3>2 DEF StoreType
  <2>3. Sound(draft'.items, draft'.lastKnown)
    <3> SUFFICES ASSUME NEW i \in Ids, draft'.items[i] # None
                 PROVE  /\ CoherentRow(draft'.items[i])
                        /\ draft'.items[i].status = "known" =>
                             draft'.lastKnown[i] = draft'.items[i].place
      BY DEF Sound
    <3>1. CASE i \notin {a, b}
      BY <1>3, <1>6, <2>1, <3>1 DEF Sound
    <3>2. CASE i = b
      <4>1. draft'.items[i] = c.new[c.entity] /\ CoherentRow(draft'.items[i])
        BY <1>1, <1>6, <3>2
      <4>2. ASSUME draft'.items[i].status = "known"
            PROVE  draft'.lastKnown[i] = draft'.items[i].place
        <5>1. c.entity \in DOMAIN c.new /\ c.new[c.entity].status = "known"
          BY <4>1, <4>2 DEF ItemChange
        <5>2. CASE c.events # << >>
          <6>1. Witness(c.events[1]) = c.new[c.entity].place
            BY <5>1, <5>2 DEF ItemChange
          <6>2. c.new[c.entity].place # None
            BY <4>1, <5>1 DEF CoherentRow
          <6>3. QED
            BY <1>3, <3>2, <4>1, <5>2, <6>1, <6>2
        <5>3. CASE c.events = << >>
          <6>1. /\ c.entity \in Ids /\ draft.items[c.entity].status = "known"
                /\ draft.items[c.entity].place = c.new[c.entity].place
            BY <5>1, <5>3 DEF ItemChange
          <6>2. c.entity = c.source /\ b = c.entity /\ draft.items[b] # None
            BY <1>1, <6>1, Numbers DEF ItemChange
          <6>3. QED
            BY <1>3, <2>1, <3>2, <4>1, <5>3, <6>1, <6>2 DEF Sound
        <5>4. QED
          BY <5>2, <5>3
      <4>3. QED
        BY <4>1, <4>2
    <3>3. CASE i = a /\ a # b
      <4>1. draft'.items[i] = c.new[c.source] /\ CoherentRow(draft'.items[i])
        BY <1>1, <1>6, <3>3
      <4>2. ASSUME draft'.items[i].status = "known"
            PROVE  draft'.lastKnown[i] = draft'.items[i].place
        <5>1. c.source \in DOMAIN c.new /\ c.new[c.source].status = "known" /\ c.source # c.entity
          BY <1>1, <3>3, <4>1, <4>2 DEF ItemChange
        <5>2. /\ c.source \in Ids /\ draft.items[c.source].status = "known"
              /\ draft.items[c.source].place = c.new[c.source].place
          BY <5>1 DEF ItemChange
        <5>3. a = c.source /\ draft.items[a] # None
          BY <1>1, <5>2, Numbers DEF ItemChange
        <5>4. QED
          BY <1>3, <2>1, <3>3, <4>1, <5>2, <5>3 DEF Sound
      <4>3. QED
        BY <4>1, <4>2
    <3>4. QED
      BY <3>1, <3>2, <3>3
  <2>4. Unique(draft'.photos)
    BY <1>6, <2>1 DEF Unique
  <2>5. Owned(draft'.photos, draft'.items)
    <3>1. \A p \in PhotoIds : draft.photos[p] # None => draft.photos[p].item \in Ids
      BY <2>1 DEF StoreType, Photo
    <3>2. QED
      BY <1>6, <1>7, <2>1, <3>1 DEF Owned, Later
  <2>6. QED
    BY <2>2, <2>3, <2>4, <2>5 DEF StoreInv
<1>9. r \in Receipts
  <2>1. r.after = [i \in {a, b} |-> r.after[i]] /\ r.photos = [p \in {} |-> r.photos[p]]
    <3>1. r.after = [i \in {IdOf(s, j) : j \in DOMAIN c.new} |-> Written(s, c, Read(s, c))[i]]
          /\ r.photos = Pictures(s, c)
      BY DEF r, Noted, ReceiptOf
    <3>2. QED
      BY <1>1, <3>1 DEF Pictures
  <2>2. r.after \in [{a, b} -> Row] /\ {a, b} \in SUBSET Ids
    BY <1>1, <1>6, <2>1
  <2>3. r.photos \in [{} -> Photo \cup {None}] /\ {} \in SUBSET PhotoIds
    BY <2>1
  <2>4. c.op \in Operations /\ c.before \in Row \cup Photo \cup {None}
    BY DEF ItemChange, ItemOps, Operations, IsChange
  <2>5. QED
    BY <1>1, <2>2, <2>3, <2>4 DEF Receipts
<1>10. ASSUME turn[s].conversation # None
       PROVE  /\ Undoable(r, draft'.items)
              /\ \A i \in DOMAIN r.after :
                   draft.items[i] = IF r.op # "create_item" /\ i = r.source THEN r.before ELSE None
  <2>1. r.op = c.op /\ r.source = a /\ r.entity = b /\ r.before = c.before
    BY <1>1
  <2>2. c.op # "create_item" =>
          /\ a = c.source /\ draft.items[a] # None /\ c.before = draft.items[a]
          /\ c.before \in Row /\ CoherentRow(c.before)
    <3>1. ASSUME c.op # "create_item"
          PROVE  /\ a = c.source /\ draft.items[a] # None /\ c.before = draft.items[a]
      <4>1. c.source # New /\ c.op \in ItemOps
        BY <3>1 DEF ItemChange
      <4>2. c.before = draft.items[c.source]
        BY <1>10, <3>1, <4>1 DEF FoundBefore
      <4>3. QED
        BY <1>1, <4>1, <4>2 DEF ItemChange
    <3>2. QED
      BY <1>1, <3>1 DEF RowsInv, StoreInv, StoreType, Sound
  <2>3. c.op = "create_item" => c.source = New /\ c.entity = New
    BY DEF ItemChange
  <2>4. a # b => /\ c.source # c.entity /\ c.before.state # "removed"
                 /\ r.after[a] = Less(c.before, r.after[b].quantity)
    <3>1. ASSUME a # b
          PROVE  /\ c.source # c.entity /\ c.before.state # "removed"
                 /\ r.after[a] = Less(c.before, r.after[b].quantity)
      <4>1. c.source # c.entity /\ c.op # "create_item"
        BY <1>1, <2>3, <3>1
      <4>2. /\ draft.items[c.source].state # "removed"
            /\ c.new[c.source] = Less(draft.items[c.source], c.new[c.entity].quantity)
        BY <4>1 DEF ItemChange
      <4>3. QED
        BY <1>1, <2>2, <4>1, <4>2
    <3>2. QED
      BY <3>1
  <2>5. ItemReceipt(r)
    <3>1. c.op \in ItemOps
      BY DEF ItemChange
    <3>2. \A i \in DOMAIN r.after : CoherentRow(r.after[i])
      BY <1>1, <1>6
    <3>3. QED
      BY <1>1, <2>1, <2>2, <2>3, <2>4, <3>1, <3>2 DEF ItemReceipt
  <2>6. \A i \in DOMAIN r.after \cup {r.source} : draft'.items[i] # None
    BY <1>1, <1>6, <2>1, RowIs
  <2>7. Undoable(r, draft'.items)
    BY <2>5, <2>6 DEF Undoable
  <2>8. \A i \in DOMAIN r.after :
          draft.items[i] = IF r.op # "create_item" /\ i = r.source THEN r.before ELSE None
    BY <1>1, <2>1, <2>2, <2>3
  <2>9. QED
    BY <2>7, <2>8
<1>11. Kept(s, r)
  BY <1>1, <1>7, <1>8, <1>9, <1>10 DEF Kept
<1>12. QED
  BY <1>11 DEF r

\* Flushes without a row.
LEMMA NoRows ==
  ASSUME OneSession, TypeOK, RowsInv, NEW s \in Sessions, NEW c, Flushes(s, c),
         c.new = << >>, c.events = << >>
  PROVE  /\ draft'.items = draft.items /\ draft'.lastKnown = draft.lastKnown
         /\ DOMAIN Noted(s, c, Read(s, c)).after = {}
<1> DEFINE W == Written(s, c, Read(s, c))
<1>1. DOMAIN c.new = {}
  OBVIOUS
<1>2. draft \in StoreType
  BY DEF RowsInv, StoreInv
<1>3. DOMAIN W = Ids /\ \A i \in Ids : W[i] = draft.items[i]
  BY <1>1, WrittenIs, StoreIs
<1>4. W = draft.items
  <2>1. W = [i \in Ids |-> W[i]]
    BY DEF Written
  <2>2. draft.items = [i \in Ids |-> draft.items[i]]
    BY <1>2 DEF StoreType
  <2> HIDE DEF W
  <2>3. QED
    BY <1>3, <2>1, <2>2
<1>5. draft'.lastKnown = Witnessed(draft.lastKnown, << >>)
  BY NothingLogged, StoreIs DEF Flushes, Write
<1>6. draft'.lastKnown = draft.lastKnown
  <2>1. draft.lastKnown \in [Ids -> Places] /\ << >> \in Seq(Events)
    BY <1>2 DEF StoreType
  <2>2. draft'.lastKnown \in [Ids -> Places]
    BY <1>5, <2>1, WitnessedType
  <2>3. \A i \in Ids : draft'.lastKnown[i] = draft.lastKnown[i]
    BY <1>5, WitnessedNone
  <2>4. QED
    BY <2>1, <2>2, <2>3
<1>7. DOMAIN Noted(s, c, Read(s, c)).after = {}
  BY <1>1 DEF Noted, ReceiptOf
<1>8. draft'.items = W
  BY DEF Flushes, Write
<1>9. QED
  BY <1>4, <1>6, <1>7, <1>8

LEMMA PhotoKept ==
  ASSUME OneSession, TypeOK, RowsInv, NEW s \in Sessions, NEW c, Flushes(s, c),
         IsChange(c), PhotoChanged(c, draft),
         turn[s].conversation # None => FoundBefore(c, draft)
  PROVE  Kept(s, Noted(s, c, Read(s, c)))
<1> DEFINE r == Noted(s, c, Read(s, c))
           p == PhotoIdOf(s, c.entity)
           photo == c.photos[c.entity]
<1>1. /\ draft'.items = draft.items /\ draft'.lastKnown = draft.lastKnown
      /\ DOMAIN r.after = {}
  BY NoRows DEF PhotoChanged
<1>2. r = [op |-> c.op, source |-> c.source, entity |-> p, before |-> c.before,
           after |-> [i \in {IdOf(s, j) : j \in DOMAIN c.new} |-> Written(s, c, Read(s, c))[i]],
           photos |-> Pictures(s, c)]
  BY DEF Noted, ReceiptOf, PhotoChanged
<1>3. c.op \in PhotoOps /\ DOMAIN c.photos = {c.entity} /\ c.entity \in PhotoIds \cup {New}
      /\ photo \in Photo \cup {None} /\ (c.entity = New => photo # None)
  <2>1. c.op \in PhotoOps /\ DOMAIN c.photos = {c.entity} /\ c.entity \in PhotoIds \cup {New}
        /\ (c.op = "attach_item_photo" <=> c.entity = New)
    BY DEF PhotoChanged
  <2>2. IF c.op = "detach_item_photo" THEN photo = None ELSE photo \in Photo
    BY DEF PhotoChanged
  <2>3. QED
    BY <2>1, <2>2, NoneAssumption
<1>4. p \in PhotoIds /\ (c.entity = New => draft.photos[p] = None) /\ (c.entity # New => p = c.entity)
  <2>1. PhotosFit(s, c)
    BY DEF Flushes, Write
  <2>2. c.entity = New => NextPhoto(s) \in PhotoIds
    BY <1>3, <2>1 DEF PhotosFit
  <2>3. QED
    BY <1>3, <2>2, NextPhotoIs, StoreIs DEF PhotoIdOf
<1>5. DOMAIN Pictures(s, c) = {p} /\ Pictures(s, c)[p] = photo
  BY <1>3, <1>4, Numbers DEF Pictures, PhotoIdOf
<1>6. /\ r.op = c.op /\ r.source = c.source /\ r.entity = p /\ r.before = c.before
      /\ DOMAIN r.photos = {p} /\ r.photos[p] = photo
  BY <1>2, <1>5
<1>7. \A q \in PhotoIds : draft'.photos[q] = IF q = p THEN photo ELSE draft.photos[q]
  BY <1>6, FlushReflects DEF Reflects
<1>8. draft \in StoreType /\ Sound(draft.items, draft.lastKnown)
      /\ Unique(draft.photos) /\ Owned(draft.photos, draft.items)
  BY DEF RowsInv, StoreInv
<1>9. \A q \in PhotoIds : photo # None /\ q # p /\ draft.photos[q] # None =>
         <<draft.photos[q].item, draft.photos[q].reference>> # <<photo.item, photo.reference>>
  <2>1. PhotosFit(s, c)
    BY DEF Flushes, Write
  <2>2. \A q \in PhotoIds : q # p => q \notin DOMAIN c.photos
    BY <1>3, <1>4, Numbers
  <2>3. QED
    BY <1>3, <2>1, <2>2, StoreIs DEF PhotosFit
<1>10. photo # None => photo.item = c.source
  BY DEF PhotoChanged
<1>11. draft' = [items |-> draft'.items, lastKnown |-> draft'.lastKnown, photos |-> draft'.photos]
       /\ draft'.photos = [q \in PhotoIds |-> draft'.photos[q]]
  BY DEF Flushes, Write
<1>12. c.source \in Ids /\ draft.items[c.source] # None
  BY DEF PhotoChanged
<1>13. turn[s].conversation # None /\ c.op # "attach_item_photo" =>
         /\ c.before = draft.photos[p] /\ c.before \in Photo /\ c.before.item = c.source
         /\ c.op = "update_item_photo" => photo.reference = c.before.reference
  <2>1. ASSUME turn[s].conversation # None, c.op # "attach_item_photo"
        PROVE  c.before = draft.photos[c.entity] /\ p = c.entity
    <3>1. FoundBefore(c, draft)
      BY <2>1
    <3>2. c.op \in PhotoOps \ {"attach_item_photo"} /\ c.op \notin ItemOps
      BY <1>3, <2>1 DEF PhotoOps, ItemOps
    <3>3. QED
      BY <1>4, <2>1, <3>1, <3>2 DEF FoundBefore, PhotoChanged
  <2>2. QED
    BY <1>4, <1>8, <2>1 DEF PhotoChanged, StoreType
<1>14. r.after = [i \in {} |-> r.after[i]] /\ r.photos = [q \in {p} |-> r.photos[q]]
  <2>1. r.after = [i \in {IdOf(s, j) : j \in DOMAIN c.new} |-> Written(s, c, Read(s, c))[i]]
    BY <1>2
  <2>2. r.after = [i \in DOMAIN r.after |-> r.after[i]]
    BY <2>1
  <2>3. Pictures(s, c) = [q \in DOMAIN Pictures(s, c) |-> Pictures(s, c)[q]]
    BY DEF Pictures
  <2>4. r.photos = Pictures(s, c)
    BY <1>2
  <2> HIDE DEF r, p
  <2>5. QED
    BY <1>1, <1>5, <2>2, <2>3, <2>4
<1> HIDE DEF r, p, photo
<1>15. StoreInv(draft')
  <2>1. draft' \in StoreType
    <3>1. draft'.photos \in [PhotoIds -> Photo \cup {None}]
      BY <1>3, <1>4, <1>7, <1>8, <1>11 DEF StoreType
    <3>2. QED
      BY <1>1, <1>8, <1>11, <3>1 DEF StoreType
  <2>2. Unique(draft'.photos)
    <3> SUFFICES ASSUME NEW q \in PhotoIds, NEW k \in PhotoIds, q # k,
                        draft'.photos[q] # None, draft'.photos[k] # None
                 PROVE  <<draft'.photos[q].item, draft'.photos[q].reference>>
                          # <<draft'.photos[k].item, draft'.photos[k].reference>>
      BY DEF Unique
    <3>1. CASE q = p
      BY <1>7, <1>9, <3>1
    <3>2. CASE k = p
      BY <1>7, <1>9, <3>2
    <3>3. CASE q # p /\ k # p
      BY <1>7, <1>8, <3>3 DEF Unique
    <3>4. QED
      BY <3>1, <3>2, <3>3
  <2>3. Owned(draft'.photos, draft'.items)
    BY <1>1, <1>7, <1>8, <1>10, <1>12 DEF Owned
  <2>4. QED
    BY <1>1, <1>8, <2>1, <2>2, <2>3 DEF StoreInv
<1>16. r \in Receipts
  <2>1. r.after \in [{} -> Row] /\ {} \in SUBSET Ids
    BY <1>14
  <2>2. r.photos \in [{p} -> Photo \cup {None}] /\ {p} \in SUBSET PhotoIds
    BY <1>3, <1>4, <1>6, <1>14
  <2>3. c.op \in Operations /\ c.before \in Row \cup Photo \cup {None}
    BY <1>3 DEF Operations, IsChange
  <2>4. r = [op |-> c.op, source |-> c.source, entity |-> p, before |-> c.before,
             after |-> r.after, photos |-> r.photos]
    BY <1>2
  <2>5. QED
    BY <1>4, <1>12, <2>1, <2>2, <2>3, <2>4 DEF Receipts
<1>17. Later(draft.items, draft'.items)
  BY <1>1 DEF Later
<1>18. ASSUME turn[s].conversation # None
       PROVE  /\ Undoable(r, draft'.items)
              /\ \A q \in DOMAIN r.photos :
                   draft.photos[q] = IF r.op = "attach_item_photo" THEN None ELSE r.before
  <2>1. PhotoReceipt(r)
    <3>1. r.op = "update_item_photo" =>
            /\ r.photos[r.entity] # None /\ r.photos[r.entity].item = r.source
            /\ r.photos[r.entity].reference = r.before.reference
      <4>1. c.op = "update_item_photo" => photo \in Photo
        BY DEF PhotoChanged, photo
      <4>2. QED
        BY <1>6, <1>10, <1>13, <1>18, <4>1, NoneAssumption
    <3>2. QED
      BY <1>1, <1>3, <1>4, <1>6, <1>12, <1>13, <1>18, <3>1 DEF PhotoReceipt
  <2>2. Undoable(r, draft'.items)
    BY <1>1, <1>6, <1>12, <2>1 DEF Undoable
  <2>3. c.op = "attach_item_photo" => draft.photos[p] = None
    BY <1>4 DEF PhotoChanged
  <2>4. QED
    BY <1>6, <1>13, <1>18, <2>2, <2>3
<1>19. Kept(s, r)
  BY <1>1, <1>15, <1>16, <1>17, <1>18 DEF Kept
<1>20. QED
  BY <1>19 DEF r

LEMMA NodeKept ==
  ASSUME OneSession, TypeOK, RowsInv, NEW s \in Sessions, NEW c, Flushes(s, c),
         IsChange(c), NodeChange(c)
  PROVE  Kept(s, Noted(s, c, Read(s, c)))
<1> DEFINE r == Noted(s, c, Read(s, c))
<1>1. /\ draft'.items = draft.items /\ draft'.lastKnown = draft.lastKnown
      /\ DOMAIN r.after = {}
  BY NoRows DEF NodeChange
<1>2. c.op \notin PhotoOps
  BY DEF NodeChange, PhotoOps
<1>3. r = [op |-> c.op, source |-> NextId(s), entity |-> NextId(s), before |-> c.before,
           after |-> [i \in {IdOf(s, j) : j \in DOMAIN c.new} |-> Written(s, c, Read(s, c))[i]],
           photos |-> Pictures(s, c)]
  BY <1>2 DEF Noted, ReceiptOf, NodeChange, IdOf
<1>4. DOMAIN r.photos = {}
  BY <1>3, NothingPictured DEF NodeChange
<1>5. NextId(s) \in Ids
  BY <1>2, NextIdIs DEF Flushes, Write, NodeChange
<1>6. \A q \in PhotoIds : draft'.photos[q] = draft.photos[q]
  BY <1>4, FlushReflects DEF Reflects
<1>7. draft' = [items |-> draft'.items, lastKnown |-> draft'.lastKnown, photos |-> draft'.photos]
      /\ draft'.photos = [q \in PhotoIds |-> draft'.photos[q]]
  BY DEF Flushes, Write
<1>8. r.after = [i \in {} |-> r.after[i]] /\ r.photos = [q \in {} |-> r.photos[q]]
  BY <1>1, <1>3, <1>4 DEF Pictures
<1>9. ~ Supported(r)
  BY <1>3 DEF NodeChange, Supported
<1> HIDE DEF r
<1>10. StoreInv(draft')
  <2>1. draft \in StoreType /\ StoreInv(draft)
    BY DEF RowsInv, StoreInv
  <2>2. draft'.photos = draft.photos
    BY <1>6, <1>7, <2>1 DEF StoreType
  <2>3. draft' \in StoreType
    BY <1>1, <1>7, <2>1, <2>2 DEF StoreType
  <2>4. QED
    BY <1>1, <2>1, <2>2, <2>3 DEF StoreInv
<1>11. r \in Receipts
  <2>1. r.after \in [{} -> Row] /\ {} \in SUBSET Ids
    BY <1>8
  <2>2. r.photos \in [{} -> Photo \cup {None}] /\ {} \in SUBSET PhotoIds
    BY <1>8
  <2>3. c.op \in Operations /\ c.before \in Row \cup Photo \cup {None}
    BY DEF Operations, IsChange, NodeChange
  <2>4. r = [op |-> c.op, source |-> NextId(s), entity |-> NextId(s), before |-> c.before,
             after |-> r.after, photos |-> r.photos]
    BY <1>3
  <2>5. QED
    BY <1>5, <2>1, <2>2, <2>3, <2>4 DEF Receipts
<1>12. Later(draft.items, draft'.items)
  BY <1>1 DEF Later
<1>13. Kept(s, r)
  BY <1>9, <1>10, <1>11, <1>12 DEF Kept, Undoable
<1>14. QED
  BY <1>13 DEF r

\* What Undo finds in the receipts of a turn.
LEMMA UndoReads ==
  ASSUME OneSession, TypeOK, Shapes, RowsInv, ReceiptsInv, NEW s \in Sessions, NEW c,
         UndoChange(s, c)
  PROVE  LET receipts == lastRun[turn[s].conversation]
             done == Compensated(draft, receipts)
             items == Affected(receipts) \cup Parents(receipts) IN
         /\ turn[s].conversation \in Conversations
         /\ Legible(receipts, draft.items) /\ Len(receipts) \in Nat \ {0}
         /\ Sane(done, draft, receipts)
         /\ items \subseteq Ids /\ items # {} /\ \A i \in items : draft.items[i] # None
         /\ Pictured(receipts) \subseteq PhotoIds
<1> DEFINE receipts == lastRun[turn[s].conversation]
           done == Compensated(draft, receipts)
           items == Affected(receipts) \cup Parents(receipts)
<1>1. turn[s].conversation \in Conversations /\ receipts \in Seq(Receipts) /\ receipts # << >>
  BY DEF TypeOK, UndoChange, Shapes
<1>2. Len(receipts) \in Nat \ {0} /\ DOMAIN receipts = 1 .. Len(receipts)
  BY <1>1
<1>3. ASSUME NEW n \in DOMAIN receipts
      PROVE  /\ Supported(receipts[n]) /\ Undoable(receipts[n], draft.items)
             /\ ItemReceipt(receipts[n]) \/ PhotoReceipt(receipts[n])
             /\ \A i \in DOMAIN receipts[n].after \cup {receipts[n].source} :
                  i \in Ids /\ draft.items[i] # None
             /\ DOMAIN receipts[n].photos \subseteq PhotoIds
  <2>1. Supported(receipts[n]) /\ Undoable(receipts[n], committed.items)
    BY <1>1 DEF UndoChange, ReceiptsInv
  <2>2. ItemReceipt(receipts[n]) \/ PhotoReceipt(receipts[n])
    BY <2>1 DEF Undoable
  <2>3. DOMAIN receipts[n].after \cup {receipts[n].source} \subseteq Ids
        /\ DOMAIN receipts[n].photos \subseteq PhotoIds
    BY <2>2 DEF ItemReceipt, PhotoReceipt
  <2>4. \A i \in DOMAIN receipts[n].after \cup {receipts[n].source} : draft.items[i] # None
    BY <2>1, <2>3 DEF Undoable, RowsInv, Later
  <2>5. QED
    BY <2>1, <2>2, <2>3, <2>4 DEF Undoable
<1>4. Legible(receipts, draft.items)
  BY <1>1, <1>3 DEF Legible
<1>5. Sane(done, draft, receipts)
  <2>1. PICK d : Run(d, draft, receipts) /\ done = d[Len(receipts)]
    BY <1>2, CompensationRuns
  <2>2. StoreInv(draft)
    BY DEF RowsInv
  <2>3. \A n \in 0 .. Len(receipts) : Sane(d[n], draft, receipts)
    BY <1>4, <2>1, <2>2, RunIsSane
  <2>4. QED
    BY <1>2, <2>1, <2>3
<1>6. items \subseteq Ids /\ \A i \in items : draft.items[i] # None
  BY <1>2, <1>3 DEF Affected, Parents
<1>7. items # {}
  <2>1. 1 \in DOMAIN receipts
    BY <1>2
  <2>2. ItemReceipt(receipts[1]) \/ PhotoReceipt(receipts[1])
    BY <1>3, <2>1
  <2>3. CASE ItemReceipt(receipts[1])
    <3>1. receipts[1].source \in DOMAIN receipts[1].after
      BY <2>3 DEF ItemReceipt
    <3>2. QED
      BY <1>2, <2>1, <3>1 DEF Affected
  <2>4. CASE PhotoReceipt(receipts[1])
    BY <1>2, <2>1, <2>4 DEF PhotoReceipt, Parents
  <2>5. QED
    BY <2>2, <2>3, <2>4
<1>8. Pictured(receipts) \subseteq PhotoIds
  BY <1>2, <1>3 DEF Pictured
<1>9. QED
  BY <1>1, <1>2, <1>4, <1>5, <1>6, <1>7, <1>8

\* What its flush writes is the store compensated.
LEMMA UndoWrites ==
  ASSUME OneSession, TypeOK, Shapes, RowsInv, ReceiptsInv, NEW s \in Sessions, NEW c,
         UndoChange(s, c), Flushes(s, c)
  PROVE  LET receipts == lastRun[turn[s].conversation]
             done == Compensated(draft, receipts)
             r == Noted(s, c, Read(s, c)) IN
         /\ draft'.items = done.rows /\ draft'.photos = done.photos
         /\ draft'.lastKnown = Witnessed(draft.lastKnown, done.events)
         /\ draft' = [items |-> draft'.items, lastKnown |-> draft'.lastKnown,
                      photos |-> draft'.photos]
         /\ r \in Receipts /\ r.op = "undo_last_action"
<1> DEFINE receipts == lastRun[turn[s].conversation]
           done == Compensated(draft, receipts)
           items == Affected(receipts) \cup Parents(receipts)
           r == Noted(s, c, Read(s, c))
           W == Written(s, c, Read(s, c))
<1>1. /\ Sane(done, draft, receipts)
      /\ items \subseteq Ids /\ items # {} /\ \A i \in items : draft.items[i] # None
      /\ Pictured(receipts) \subseteq PhotoIds
  BY UndoReads
<1>2. PICK least : least = Min(items) /\ least \in items
  BY <1>1, Numbers, MinIs
<1>3. c = [op |-> "undo_last_action", source |-> least, entity |-> least,
           new |-> [j \in items |-> done.rows[j]], events |-> done.events,
           photos |-> [p \in Pictured(receipts) |-> done.photos[p]], before |-> None]
  BY <1>2 DEF UndoChange, Compensation, Change
<1> HIDE DEF done, items
<1>4. \A i \in items : done.rows[i] \in Row
  BY <1>1 DEF Sane
<1>5. \A i \in Ids : i \notin items => done.rows[i] = draft.items[i]
  BY <1>1 DEF Sane, items
<1>6. W = done.rows
  <2>1. DOMAIN c.new = items /\ \A j \in DOMAIN c.new : c.new[j] = done.rows[j] /\ c.new[j] \in Row
    BY <1>3, <1>4
  <2>2. DOMAIN W = Ids /\ \A i \in Ids : W[i] = IF i \in DOMAIN c.new THEN c.new[i]
                             ELSE IF New \in DOMAIN c.new /\ i = NextId(s) THEN c.new[New]
                             ELSE Rows(s)[i]
    BY <2>1, WrittenIs
  <2>3. New \notin items /\ Rows(s) = draft.items
    BY <1>1, Numbers, StoreIs
  <2>4. W = [i \in Ids |-> W[i]] /\ done.rows = [i \in Ids |-> done.rows[i]]
    BY <1>1 DEF Written, Sane
  <2>5. \A i \in Ids : W[i] = done.rows[i]
    <3> HIDE DEF W
    <3>1. QED
      BY <1>5, <2>1, <2>2, <2>3
  <2> HIDE DEF W
  <2>6. QED
    BY <2>4, <2>5
<1>7. Logged(s, c) = done.events
  <2>1. c.events = done.events /\ done.events \in Seq(Events)
    BY <1>1, <1>3 DEF Sane
  <2>2. ASSUME NEW n \in DOMAIN done.events
        PROVE  [done.events[n] EXCEPT !.item = IdOf(s, @)] = done.events[n]
    <3>1. PICK e \in Events : e = done.events[n]
      BY <2>1
    <3>2. IdOf(s, e.item) = e.item
      BY Numbers DEF IdOf, Events
    <3>3. [e EXCEPT !.item = e.item] = e
      BY DEF Events
    <3>4. QED
      BY <3>1, <3>2, <3>3
  <2>3. Logged(s, c) = [n \in DOMAIN done.events |-> done.events[n]]
    BY <2>1, <2>2 DEF Logged
  <2>4. QED
    BY <2>1, <2>3
<1>8. Pictures(s, c) = [p \in Pictured(receipts) |-> done.photos[p]]
  <2>1. DOMAIN c.photos = Pictured(receipts) /\ \A p \in DOMAIN c.photos : c.photos[p] = done.photos[p]
    BY <1>3
  <2>2. \A p \in DOMAIN c.photos : PhotoIdOf(s, p) = p
    BY <1>1, <2>1, Numbers DEF PhotoIdOf
  <2>3. {PhotoIdOf(s, q) : q \in DOMAIN c.photos} = Pictured(receipts)
    BY <2>1, <2>2
  <2>4. QED
    BY <2>1, <2>3 DEF Pictures
<1>9. /\ draft'.items = W
      /\ draft'.lastKnown = Witnessed(draft.lastKnown, Logged(s, c))
      /\ draft'.photos = [p \in PhotoIds |-> IF p \in DOMAIN Pictures(s, c) THEN Pictures(s, c)[p]
                                            ELSE draft.photos[p]]
      /\ draft' = [items |-> draft'.items, lastKnown |-> draft'.lastKnown,
                   photos |-> draft'.photos]
  BY StoreIs DEF Flushes, Write
<1>10. draft'.photos = done.photos
  <2>1. \A p \in PhotoIds : draft'.photos[p] = done.photos[p]
    BY <1>1, <1>8, <1>9 DEF Sane
  <2>2. done.photos = [p \in PhotoIds |-> done.photos[p]]
    BY <1>1 DEF Sane
  <2>3. QED
    BY <1>9, <2>1, <2>2
<1>11. r = [op |-> "undo_last_action", source |-> least, entity |-> least, before |-> None,
            after |-> [i \in items |-> done.rows[i]], photos |-> Pictures(s, c)]
  <2>1. c.op = "undo_last_action" /\ c.op \notin PhotoOps /\ c.source = least /\ c.entity = least
        /\ c.before = None /\ DOMAIN c.new = items
    BY <1>3 DEF PhotoOps
  <2>2. \A i \in items : IdOf(s, i) = i
    BY <1>1, Numbers DEF IdOf
  <2>3. {IdOf(s, j) : j \in DOMAIN c.new} = items
    BY <2>1, <2>2
  <2>4. IdOf(s, least) = least
    BY <1>2, <2>2
  <2>5. r = [op |-> c.op, source |-> least, entity |-> least, before |-> c.before,
             after |-> [i \in {IdOf(s, j) : j \in DOMAIN c.new} |-> W[i]], photos |-> Pictures(s, c)]
    BY <2>1, <2>4 DEF Noted, ReceiptOf
  <2>6. QED
    BY <1>6, <2>1, <2>3, <2>5
<1>12. r \in Receipts
  <2>1. [i \in items |-> done.rows[i]] \in [items -> Row] /\ items \in SUBSET Ids
    BY <1>1, <1>4
  <2>2. Pictures(s, c) \in [Pictured(receipts) -> Photo \cup {None}]
        /\ Pictured(receipts) \in SUBSET PhotoIds
    BY <1>1, <1>8 DEF Sane
  <2>3. least \in Ids /\ "undo_last_action" \in Operations
    BY <1>1, <1>2 DEF Operations
  <2> HIDE DEF r
  <2>4. QED
    BY <1>11, <2>1, <2>2, <2>3 DEF Receipts
<1>13. QED
  BY <1>6, <1>7, <1>9, <1>10, <1>11, <1>12 DEF done

LEMMA UndoKept ==
  ASSUME OneSession, TypeOK, Shapes, RowsInv, ReceiptsInv, NEW s \in Sessions, NEW c,
         UndoChange(s, c), Flushes(s, c)
  PROVE  Kept(s, Noted(s, c, Read(s, c)))
<1> DEFINE receipts == lastRun[turn[s].conversation]
           done == Compensated(draft, receipts)
           r == Noted(s, c, Read(s, c))
<1>1. Sane(done, draft, receipts)
  BY UndoReads
<1>2. /\ draft'.items = done.rows /\ draft'.photos = done.photos
      /\ draft'.lastKnown = Witnessed(draft.lastKnown, done.events)
      /\ draft' = [items |-> draft'.items, lastKnown |-> draft'.lastKnown,
                   photos |-> draft'.photos]
      /\ r \in Receipts /\ r.op = "undo_last_action"
  BY UndoWrites
<1> HIDE DEF r, done
<1>3. draft' \in StoreType
  <2>1. draft.lastKnown \in [Ids -> Places] /\ done.events \in Seq(Events)
    BY <1>1 DEF RowsInv, StoreInv, StoreType, Sane
  <2>2. draft'.lastKnown \in [Ids -> Places]
    BY <1>2, <2>1, WitnessedType
  <2>3. draft'.items \in [Ids -> Row \cup {None}] /\ draft'.photos \in [PhotoIds -> Photo \cup {None}]
    BY <1>1, <1>2 DEF Sane
  <2>4. QED
    BY <1>2, <2>2, <2>3 DEF StoreType
<1>4. Sound(draft'.items, draft'.lastKnown) /\ Unique(draft'.photos)
  BY <1>1, <1>2 DEF Sane
<1>5. Owned(draft'.photos, draft'.items)
  <2>1. \A p \in PhotoIds : done.photos[p] # None => done.photos[p].item \in Ids
    BY <1>1 DEF Sane, Photo
  <2>2. QED
    BY <1>1, <1>2, <2>1 DEF Owned, Sane
<1>6. Later(draft.items, draft'.items)
  BY <1>1, <1>2 DEF Sane, Later
<1>7. ~ Supported(r)
  BY <1>2 DEF Supported
<1>8. Kept(s, r)
  BY <1>2, <1>3, <1>4, <1>5, <1>6, <1>7 DEF Kept, StoreInv, Undoable
<1>9. QED
  BY <1>8 DEF r

LEMMA FlushKept ==
  ASSUME OneSession, TypeOK, Shapes, RowsInv, ReceiptsInv, NEW s \in Sessions, NEW c,
         Flushable(s, c), Flushes(s, c)
  PROVE  Kept(s, Noted(s, c, Read(s, c)))
<1>1. CASE ItemChange(c, draft) /\ (turn[s].conversation # None => FoundBefore(c, draft))
  BY <1>1, ItemKept DEF Flushable
<1>2. CASE PhotoChanged(c, draft) /\ (turn[s].conversation # None => FoundBefore(c, draft))
  BY <1>2, PhotoKept DEF Flushable
<1>3. CASE NodeChange(c)
  BY <1>3, NodeKept DEF Flushable
<1>4. CASE UndoChange(s, c)
  BY <1>4, UndoKept
<1>5. QED
  BY <1>1, <1>2, <1>3, <1>4 DEF Flushable

-----------------------------------------------------------------------------
(* The steps                                                               *)

LEMMA ReceiptIs ==
  ASSUME NEW r \in Receipts
  PROVE  /\ IsReceipt(r)
         /\ DOMAIN r.after \subseteq Ids /\ DOMAIN r.photos \subseteq PhotoIds
<1>1. PICK D \in SUBSET Ids : r.after \in [D -> Row]
  BY DEF Receipts
<1>2. PICK E \in SUBSET PhotoIds : r.photos \in [E -> Photo \cup {None}]
  BY DEF Receipts
<1>3. /\ r.op \in Operations /\ r.source \in Ids \cup {New}
      /\ r.entity \in Ids \cup PhotoIds \cup {New} /\ r.before \in Row \cup Photo \cup {None}
  BY DEF Receipts
<1>4. QED
  BY <1>1, <1>2, <1>3 DEF IsReceipt

LEMMA Longer ==
  ASSUME NEW rs \in Seq(Receipts), NEW r \in Receipts
  PROVE  /\ Append(rs, r) \in Seq(Receipts)
         /\ Len(rs) \in Nat /\ DOMAIN rs = 1 .. Len(rs)
         /\ Len(Append(rs, r)) = Len(rs) + 1
         /\ DOMAIN Append(rs, r) = 1 .. Len(rs) + 1
         /\ \A n \in 1 .. Len(rs) : Append(rs, r)[n] = rs[n]
         /\ Append(rs, r)[Len(rs) + 1] = r
OBVIOUS

LEMMA LeftMore ==
  ASSUME NEW rs \in Seq(Receipts), NEW r \in Receipts, Left(rs, draft), Reflects(r)
  PROVE  Left(Append(rs, r), draft')
<1> DEFINE more == Append(rs, r)
           N == Len(rs)
<1>1. /\ N \in Nat /\ DOMAIN rs = 1 .. N /\ Len(more) = N + 1 /\ DOMAIN more = 1 .. N + 1
      /\ \A n \in 1 .. N : more[n] = rs[n]
      /\ more[N + 1] = r
  BY Longer
<1>2. \A n \in DOMAIN more : DOMAIN more[n].after \subseteq Ids /\ DOMAIN more[n].photos \subseteq PhotoIds
  <2>1. \A n \in DOMAIN rs : rs[n] \in Receipts
    OBVIOUS
  <2>2. \A n \in DOMAIN more : more[n] \in Receipts
    <3> HIDE DEF more, N
    <3>1. QED
      BY <1>1, <2>1
  <2>3. QED
    BY <2>2, ReceiptIs
<1> HIDE DEF more, N
<1>3. ASSUME NEW i \in Affected(more)
      PROVE  \E n \in DOMAIN more :
               /\ i \in DOMAIN more[n].after /\ more[n].after[i] = draft'.items[i]
               /\ \A m \in DOMAIN more : m > n => i \notin DOMAIN more[m].after
  <2>1. PICK k \in DOMAIN more : i \in DOMAIN more[k].after
    BY <1>1 DEF Affected
  <2>2. i \in Ids
    BY <1>2, <2>1
  <2>3. CASE i \in DOMAIN r.after
    <3>1. r.after[i] = draft'.items[i]
      BY <2>2, <2>3 DEF Reflects
    <3>2. N + 1 \in DOMAIN more /\ \A m \in DOMAIN more : ~ (m > N + 1)
      BY <1>1
    <3>3. QED
      BY <1>1, <2>3, <3>1, <3>2
  <2>4. CASE i \notin DOMAIN r.after
    <3>1. k \in 1 .. N
      BY <1>1, <2>1, <2>4
    <3>2. i \in Affected(rs)
      BY <1>1, <2>1, <3>1 DEF Affected, N
    <3>3. PICK n \in DOMAIN rs :
            /\ i \in DOMAIN rs[n].after /\ rs[n].after[i] = draft.items[i]
            /\ \A m \in DOMAIN rs : m > n => i \notin DOMAIN rs[m].after
      BY <3>2 DEF Left
    <3>4. draft'.items[i] = draft.items[i]
      BY <2>2, <2>4 DEF Reflects
    <3>5. \A m \in DOMAIN more : m > n => i \notin DOMAIN more[m].after
      <4>1. \A m \in DOMAIN more : m \in 1 .. N \/ m = N + 1
        BY <1>1
      <4>2. QED
        BY <1>1, <2>4, <3>3, <4>1
    <3>6. n \in DOMAIN more /\ more[n] = rs[n]
      BY <1>1
    <3>7. QED
      BY <3>3, <3>4, <3>5, <3>6
  <2>5. QED
    BY <2>3, <2>4
<1>4. ASSUME NEW p \in Pictured(more)
      PROVE  \E n \in DOMAIN more :
               /\ p \in DOMAIN more[n].photos /\ more[n].photos[p] = draft'.photos[p]
               /\ \A m \in DOMAIN more : m > n => p \notin DOMAIN more[m].photos
  <2>1. PICK k \in DOMAIN more : p \in DOMAIN more[k].photos
    BY <1>1 DEF Pictured
  <2>2. p \in PhotoIds
    BY <1>2, <2>1
  <2>3. CASE p \in DOMAIN r.photos
    <3>1. r.photos[p] = draft'.photos[p]
      BY <2>2, <2>3 DEF Reflects
    <3>2. N + 1 \in DOMAIN more /\ \A m \in DOMAIN more : ~ (m > N + 1)
      BY <1>1
    <3>3. QED
      BY <1>1, <2>3, <3>1, <3>2
  <2>4. CASE p \notin DOMAIN r.photos
    <3>1. k \in 1 .. N
      BY <1>1, <2>1, <2>4
    <3>2. p \in Pictured(rs)
      BY <1>1, <2>1, <3>1 DEF Pictured, N
    <3>3. PICK n \in DOMAIN rs :
            /\ p \in DOMAIN rs[n].photos /\ rs[n].photos[p] = draft.photos[p]
            /\ \A m \in DOMAIN rs : m > n => p \notin DOMAIN rs[m].photos
      BY <3>2 DEF Left
    <3>4. draft'.photos[p] = draft.photos[p]
      BY <2>2, <2>4 DEF Reflects
    <3>5. \A m \in DOMAIN more : m > n => p \notin DOMAIN more[m].photos
      <4>1. \A m \in DOMAIN more : m \in 1 .. N \/ m = N + 1
        BY <1>1
      <4>2. QED
        BY <1>1, <2>4, <3>3, <4>1
    <3>6. n \in DOMAIN more /\ more[n] = rs[n]
      BY <1>1
    <3>7. QED
      BY <3>3, <3>4, <3>5, <3>6
  <2>5. QED
    BY <2>3, <2>4
<1>5. QED
  BY <1>3, <1>4 DEF Left, more

LEMMA UntouchedMore ==
  ASSUME NEW rs \in Seq(Receipts), NEW r \in Receipts, Untouched(rs, committed, draft), Reflects(r)
  PROVE  Untouched(Append(rs, r), committed, draft')
<1> DEFINE more == Append(rs, r)
<1>1. /\ Len(rs) \in Nat /\ Len(more) = Len(rs) + 1
      /\ \A n \in 1 .. Len(rs) : more[n] = rs[n]
      /\ more[Len(rs) + 1] = r
  BY Longer
<1>2. /\ 1 .. Len(rs) \subseteq 1 .. Len(more) /\ Len(rs) + 1 \in 1 .. Len(more)
  BY <1>1
<1> HIDE DEF more
<1>3. Affected(rs) \subseteq Affected(more) /\ DOMAIN r.after \subseteq Affected(more)
      /\ Pictured(rs) \subseteq Pictured(more) /\ DOMAIN r.photos \subseteq Pictured(more)
  BY <1>1, <1>2 DEF Affected, Pictured
<1>4. QED
  BY <1>3 DEF Untouched, Reflects, more

LEMMA BegunMore ==
  ASSUME NEW rs \in Seq(Receipts), NEW r \in Receipts,
         Begun(rs, committed), Untouched(rs, committed, draft),
         Supported(r) =>
            /\ \A i \in DOMAIN r.after :
                 draft.items[i] = IF r.op # "create_item" /\ i = r.source THEN r.before ELSE None
            /\ \A p \in DOMAIN r.photos :
                 draft.photos[p] = IF r.op = "attach_item_photo" THEN None ELSE r.before
  PROVE  Begun(Append(rs, r), committed)
<1> DEFINE more == Append(rs, r)
           N == Len(rs)
<1>1. /\ N \in Nat /\ DOMAIN rs = 1 .. N /\ DOMAIN more = 1 .. N + 1
      /\ \A n \in 1 .. N : more[n] = rs[n]
      /\ more[N + 1] = r
  BY Longer
<1> HIDE DEF more
<1> SUFFICES ASSUME NEW n \in DOMAIN more, Supported(more[n])
             PROVE  /\ \A i \in DOMAIN more[n].after :
                         (\A m \in 1 .. n - 1 : i \notin DOMAIN more[m].after) =>
                           committed.items[i] =
                             IF more[n].op # "create_item" /\ i = more[n].source
                             THEN more[n].before ELSE None
                    /\ \A p \in DOMAIN more[n].photos :
                         (\A m \in 1 .. n - 1 : p \notin DOMAIN more[m].photos) =>
                           committed.photos[p] =
                             IF more[n].op = "attach_item_photo" THEN None ELSE more[n].before
  BY DEF Begun, more
<1>2. CASE n \in 1 .. N
  <2>1. \A m \in 1 .. n - 1 : m \in 1 .. N
    BY <1>1, <1>2
  <2>2. more[n] = rs[n] /\ \A m \in 1 .. n - 1 : more[m] = rs[m]
    BY <1>1, <1>2, <2>1
  <2>3. n \in DOMAIN rs
    BY <1>1, <1>2
  <2> HIDE DEF N
  <2>4. QED
    BY <2>2, <2>3 DEF Begun
<1>3. CASE n = N + 1
  <2>1. more[n] = r /\ 1 .. n - 1 = 1 .. N
    BY <1>1, <1>3
  <2>2. \A m \in 1 .. N : more[m] = rs[m]
    BY <1>1
  <2>3. DOMAIN r.after \subseteq Ids /\ DOMAIN r.photos \subseteq PhotoIds
    BY ReceiptIs
  <2>4. ASSUME NEW i \in DOMAIN r.after, \A m \in 1 .. N : i \notin DOMAIN more[m].after
        PROVE  draft.items[i] = committed.items[i]
    <3>1. i \notin Affected(rs)
      BY <2>2, <2>4 DEF Affected
    <3>2. QED
      BY <2>3, <3>1 DEF Untouched
  <2>5. ASSUME NEW p \in DOMAIN r.photos, \A m \in 1 .. N : p \notin DOMAIN more[m].photos
        PROVE  draft.photos[p] = committed.photos[p]
    <3>1. p \notin Pictured(rs)
      BY <2>2, <2>5 DEF Pictured
    <3>2. QED
      BY <2>3, <3>1 DEF Untouched
  <2>6. QED
    BY <2>1, <2>4, <2>5, ZenonT(60)
<1>4. QED
  BY <1>1, <1>2, <1>3

LEMMA ChainedMore ==
  ASSUME NEW rs \in Seq(Receipts), NEW r \in Receipts, Chained(rs), Left(rs, draft),
         Supported(r) =>
            \A i \in DOMAIN r.after :
              draft.items[i] = IF r.op # "create_item" /\ i = r.source THEN r.before ELSE None
  PROVE  Chained(Append(rs, r))
<1> DEFINE more == Append(rs, r)
           N == Len(rs)
<1>1. /\ N \in Nat /\ DOMAIN rs = 1 .. N /\ DOMAIN more = 1 .. N + 1
      /\ \A n \in 1 .. N : more[n] = rs[n]
      /\ more[N + 1] = r
  BY Longer
<1> HIDE DEF more
<1> SUFFICES ASSUME NEW n \in DOMAIN more, Supported(more[n]), NEW m \in 1 .. n - 1,
                    NEW i \in DOMAIN more[n].after \cap DOMAIN more[m].after,
                    \A k \in m + 1 .. n - 1 : i \notin DOMAIN more[k].after
             PROVE  /\ more[n].op # "create_item" /\ i = more[n].source
                    /\ more[n].before = more[m].after[i]
  BY DEF Chained, more
<1>2. CASE n \in 1 .. N
  <2>1. m \in 1 .. N /\ \A k \in m + 1 .. n - 1 : k \in 1 .. N
    BY <1>1, <1>2
  <2>2. more[n] = rs[n] /\ more[m] = rs[m] /\ \A k \in m + 1 .. n - 1 : more[k] = rs[k]
    BY <1>1, <1>2, <2>1
  <2>3. n \in DOMAIN rs
    BY <1>1, <1>2
  <2> HIDE DEF N
  <2>4. QED
    BY <2>2, <2>3 DEF Chained
<1>3. CASE n = N + 1
  <2>1. more[n] = r /\ m \in 1 .. N /\ more[m] = rs[m]
        /\ \A k \in 1 .. N : k > m => k \in m + 1 .. n - 1 /\ more[k] = rs[k]
    BY <1>1, <1>3
  <2>2. i \in Affected(rs)
    BY <2>1 DEF Affected
  <2>3. PICK j \in DOMAIN rs :
          /\ i \in DOMAIN rs[j].after /\ rs[j].after[i] = draft.items[i]
          /\ \A k \in DOMAIN rs : k > j => i \notin DOMAIN rs[k].after
    BY <2>2 DEF Left
  <2>4. j = m
    <3>1. ~ (j > m)
      BY <1>1, <2>1, <2>3
    <3>2. ~ (m > j)
      BY <1>1, <2>1, <2>3
    <3>3. QED
      BY <1>1, <2>1, <2>3, <3>1, <3>2
  <2>5. rs[m].after[i] \in Row
    <3>1. rs[m] \in Receipts
      BY <1>1, <2>1
    <3>2. QED
      BY <2>1, <3>1, ReceiptIs DEF IsReceipt
  <2>6. QED
    BY <2>1, <2>3, <2>4, <2>5, RowIs
<1>4. QED
  BY <1>1, <1>2, <1>3

LEMMA WriteStep ==
  ASSUME OneSession, IInv, NEW s \in Sessions, NEW c, Flushable(s, c), Flushes(s, c),
         calls' \in 0 .. MaxCalls
  PROVE  IInv'
<1> DEFINE r == Noted(s, c, Read(s, c))
           rs == turn[s].receipts
<1>1. Kept(s, r) /\ Reflects(r)
  BY FlushKept, FlushReflects DEF IInv
<1>2. /\ committed' = committed /\ lastRun' = lastRun /\ around' = around /\ writer' = s
      /\ overtaken' = overtaken
      /\ turn' = [turn EXCEPT ![s].stage = "open", ![s].plan = None, ![s].seen = None,
                              ![s].receipts = Append(@, r)]
  BY DEF Flushes, Write
<1>3. \A t \in Sessions : t = s
  BY DEF OneSession
<1> HIDE DEF r
<1>4. /\ turn = [t \in Sessions |-> turn[t]]
      /\ turn[s] \in [stage : {"idle", "open", "looked", "flushing"},
                      conversation : Conversations \cup {None}, receipts : Seq(Receipts),
                      plan : {turn[s].plan}, seen : {turn[s].seen}]
  BY DEF IInv, Shapes
<1>5. turn'[s] = [stage |-> "open", conversation |-> turn[s].conversation,
                  receipts |-> Append(rs, r), plan |-> None, seen |-> None]
  <2>1. PICK now : now = turn[s] /\ now = [stage |-> now.stage, conversation |-> now.conversation,
                      receipts |-> now.receipts, plan |-> now.plan, seen |-> now.seen]
    BY <1>4
  <2>2. turn'[s] = [turn[s] EXCEPT !.stage = "open", !.plan = None, !.seen = None,
                                   !.receipts = Append(@, r)]
    BY <1>2, <1>4
  <2>3. turn'[s] = [now EXCEPT !.stage = "open", !.plan = None, !.seen = None,
                               !.receipts = Append(rs, r)]
    BY <2>1, <2>2
  <2>4. QED
    BY <2>1, <2>3
<1>6. turn' = [t \in Sessions |-> turn'[t]]
  BY <1>2, <1>4
<1>7. rs \in Seq(Receipts) /\ r \in Receipts /\ Append(rs, r) \in Seq(Receipts)
      /\ turn[s].conversation \in Conversations \cup {None}
  BY <1>1, <1>4 DEF Kept
<1>8. turn'[s].stage = "open" /\ turn'[s].conversation = turn[s].conversation
      /\ turn'[s].receipts = Append(rs, r)
  BY <1>5
<1> HIDE DEF rs
<1>9. StoreInv(draft') /\ Later(draft.items, draft'.items)
  BY <1>1 DEF Kept
<1>10. /\ DOMAIN rs = 1 .. Len(rs) /\ Len(rs) \in Nat /\ DOMAIN Append(rs, r) = 1 .. Len(rs) + 1
       /\ Len(Append(rs, r)) = Len(rs) + 1
       /\ \A n \in 1 .. Len(rs) : Append(rs, r)[n] = rs[n]
       /\ Append(rs, r)[Len(rs) + 1] = r
  BY <1>7, Longer
<1>11. TypeOK'
  <2>1. \A n \in 1 .. Len(Append(rs, r)) : IsReceipt(Append(rs, r)[n])
    BY <1>7, <1>10, ReceiptIs
  <2>2. \A t \in Sessions :
          /\ turn'[t].stage \in {"idle", "open", "looked", "flushing"}
          /\ turn'[t].conversation \in Conversations \cup {None}
          /\ \A n \in 1 .. Len(turn'[t].receipts) : IsReceipt(turn'[t].receipts[n])
    BY <1>3, <1>7, <1>8, <2>1
  <2>3. draft' \in StoreType
    BY <1>9 DEF StoreInv
  <2>4. QED
    BY <1>2, <2>2, <2>3 DEF IInv, TypeOK
<1>12. Shapes'
  <2>1. turn'[s] \in [stage : {"idle", "open", "looked", "flushing"},
                      conversation : Conversations \cup {None}, receipts : Seq(Receipts),
                      plan : {turn'[s].plan}, seen : {turn'[s].seen}]
    BY <1>5, <1>7
  <2>2. QED
    BY <1>2, <1>3, <1>6, <2>1 DEF IInv, Shapes
<1>13. RowsInv'
  <2>1. StoreInv(committed) /\ Later(committed.items, draft.items)
    BY DEF IInv, RowsInv
  <2>2. Later(committed.items, draft'.items)
    BY <1>9, <2>1 DEF Later
  <2>3. writer' # None
    BY <1>2, ConstantsAssumption
  <2>4. QED
    BY <1>2, <1>9, <2>1, <2>2, <2>3 DEF RowsInv
<1>14. ReceiptsInv'
  <2>1. ASSUME turn[s].conversation # None, NEW n \in DOMAIN Append(rs, r)
        PROVE  Undoable(Append(rs, r)[n], draft'.items)
    <3>1. CASE n = Len(rs) + 1
      BY <1>1, <1>10, <2>1, <3>1 DEF Kept
    <3>2. CASE n \in 1 .. Len(rs)
      <4>1. Undoable(rs[n], draft.items)
        BY <1>10, <2>1, <3>2 DEF IInv, ReceiptsInv, rs
      <4>2. rs[n] \in Receipts
        BY <1>7, <1>10, <3>2
      <4>3. DOMAIN rs[n].after \subseteq Ids
        BY <4>2, ReceiptIs
      <4>4. ItemReceipt(rs[n]) \/ PhotoReceipt(rs[n]) => rs[n].source \in Ids
        BY DEF ItemReceipt, PhotoReceipt
      <4>5. Undoable(rs[n], draft'.items)
        BY <1>9, <4>1, <4>3, <4>4 DEF Undoable, Later
      <4>6. QED
        BY <1>10, <3>2, <4>5
    <3>3. QED
      BY <1>10, <3>1, <3>2
  <2>2. QED
    BY <1>2, <1>3, <1>8, <2>1 DEF IInv, ReceiptsInv
<1>15. LeftInv'
  <2>1. Left(rs, draft)
    BY DEF IInv, LeftInv, rs
  <2>2. Left(Append(rs, r), draft')
    BY <1>1, <1>7, <2>1, LeftMore
  <2>3. \A v \in Conversations : Left(lastRun[v], around[v].after)
    BY DEF IInv, LeftInv
  <2>4. QED
    BY <1>2, <1>3, <1>8, <2>2, <2>3 DEF LeftInv
<1>16. BegunInv'
  <2>1. /\ Untouched(rs, committed, draft) /\ Left(rs, draft)
        /\ turn[s].conversation # None => Begun(rs, committed) /\ Chained(rs)
    BY DEF IInv, BegunInv, LeftInv, rs
  <2>2. Untouched(Append(rs, r), committed, draft')
    BY <1>1, <1>7, <2>1, UntouchedMore
  <2>3. turn[s].conversation # None => Begun(Append(rs, r), committed)
    BY <1>1, <1>7, <2>1, BegunMore DEF Kept
  <2>4. turn[s].conversation # None => Chained(Append(rs, r))
    BY <1>1, <1>7, <2>1, ChainedMore DEF Kept
  <2>5. \A v \in Conversations : Begun(lastRun[v], around[v].before) /\ Chained(lastRun[v])
    BY DEF IInv, BegunInv
  <2>6. QED
    BY <1>2, <1>3, <1>8, <2>2, <2>3, <2>4, <2>5 DEF BegunInv
<1>17. FlushInv' /\ LookInv'
  BY <1>3, <1>8 DEF FlushInv, LookInv
<1>18. QED
  BY <1>11, <1>12, <1>13, <1>14, <1>15, <1>16, <1>17 DEF IInv

\* A step of a session that leaves its receipts and the store as they are.
LEMMA TurnStep ==
  ASSUME OneSession, IInv, NEW s \in Sessions, NEW now,
         now \in [stage : {"idle", "open", "looked", "flushing"},
                  conversation : Conversations \cup {None}, receipts : {turn[s].receipts},
                  plan : {now.plan}, seen : {now.seen}],
         now.conversation = turn[s].conversation \/ turn[s].receipts = << >>,
         turn' = [turn EXCEPT ![s] = now],
         UNCHANGED <<committed, draft, writer, lastRun, around, overtaken>>, calls' \in 0 .. MaxCalls,
         FlushInv', LookInv'
  PROVE  IInv'
<1>1. \A t \in Sessions : t = s
  BY DEF OneSession
<1>2. /\ turn'[s] = now /\ turn' = [t \in Sessions |-> turn'[t]]
      /\ turn[s].receipts \in Seq(Receipts)
  BY DEF IInv, Shapes
<1>3. now.receipts = turn[s].receipts /\ now.conversation \in Conversations \cup {None}
      /\ now.stage \in {"idle", "open", "looked", "flushing"}
  OBVIOUS
<1>4. TypeOK'
  <2>1. \A t \in Sessions :
          /\ turn'[t].stage \in {"idle", "open", "looked", "flushing"}
          /\ turn'[t].conversation \in Conversations \cup {None}
          /\ \A n \in 1 .. Len(turn'[t].receipts) : IsReceipt(turn'[t].receipts[n])
    BY <1>1, <1>2, <1>3 DEF IInv, TypeOK
  <2>2. QED
    BY <2>1 DEF IInv, TypeOK
<1>5. Shapes'
  <2>1. turn'[s] \in [stage : {"idle", "open", "looked", "flushing"},
                      conversation : Conversations \cup {None}, receipts : Seq(Receipts),
                      plan : {turn'[s].plan}, seen : {turn'[s].seen}]
    BY <1>2
  <2>2. QED
    BY <1>1, <1>2, <2>1 DEF IInv, Shapes
<1>6. RowsInv'
  BY DEF IInv, RowsInv
<1>7. ReceiptsInv'
  <2>1. turn'[s].conversation # None =>
          \A n \in DOMAIN turn'[s].receipts : Undoable(turn'[s].receipts[n], draft.items)
    BY <1>2, <1>3 DEF IInv, ReceiptsInv
  <2>2. QED
    BY <1>1, <2>1 DEF IInv, ReceiptsInv
<1>8. LeftInv'
  BY <1>1, <1>2, <1>3 DEF IInv, LeftInv
<1>9. BegunInv'
  <2>1. Untouched(turn'[s].receipts, committed, draft)
        /\ (turn'[s].conversation # None =>
               Begun(turn'[s].receipts, committed) /\ Chained(turn'[s].receipts))
    <3>1. Begun(<< >>, committed) /\ Chained(<< >>)
      BY DEF Begun, Chained
    <3>2. Untouched(turn[s].receipts, committed, draft)
          /\ (turn[s].conversation # None =>
                 Begun(turn[s].receipts, committed) /\ Chained(turn[s].receipts))
      BY DEF IInv, BegunInv
    <3>3. CASE turn[s].receipts = << >>
      BY <1>2, <1>3, <3>1, <3>2, <3>3
    <3>4. CASE now.conversation = turn[s].conversation
      BY <1>2, <1>3, <3>2, <3>4
    <3>5. QED
      BY <3>3, <3>4
  <2>2. QED
    BY <1>1, <2>1 DEF IInv, BegunInv
<1>10. QED
  BY <1>4, <1>5, <1>6, <1>7, <1>8, <1>9 DEF IInv

LEMMA TurnIs ==
  ASSUME IInv, NEW s \in Sessions
  PROVE  /\ turn = [t \in Sessions |-> turn[t]]
         /\ turn[s] = [stage |-> turn[s].stage, conversation |-> turn[s].conversation,
                       receipts |-> turn[s].receipts, plan |-> turn[s].plan,
                       seen |-> turn[s].seen]
         /\ turn[s].conversation \in Conversations \cup {None}
         /\ turn[s].receipts \in Seq(Receipts)
         /\ calls \in 0 .. MaxCalls
<1>1. /\ turn = [t \in Sessions |-> turn[t]]
      /\ turn[s] \in [stage : {"idle", "open", "looked", "flushing"},
                      conversation : Conversations \cup {None}, receipts : Seq(Receipts),
                      plan : {turn[s].plan}, seen : {turn[s].seen}]
  BY DEF IInv, Shapes
<1>2. calls \in 0 .. MaxCalls
  BY DEF IInv, TypeOK
<1>3. PICK now : now = turn[s]
  OBVIOUS
<1>4. QED
  BY <1>1, <1>2, <1>3

LEMMA BeginStep ==
  ASSUME OneSession, IInv, NEW s \in Sessions, Begin(s)
  PROVE  IInv'
<1>1. PICK v \in Conversations \cup {None} :
        turn' = [turn EXCEPT ![s] = [Idle EXCEPT !.stage = "open", !.conversation = v]]
  BY DEF Begin
<1> DEFINE now == [stage |-> "open", conversation |-> v, receipts |-> << >>, plan |-> None,
                   seen |-> None]
<1>2. turn' = [turn EXCEPT ![s] = now]
  <2>1. PICK idle : idle = Idle /\ idle = [stage |-> "idle", conversation |-> None,
                      receipts |-> << >>, plan |-> None, seen |-> None]
    BY DEF Idle
  <2>2. turn'[s] = [idle EXCEPT !.stage = "open", !.conversation = v]
    <3>1. turn'[s] = [Idle EXCEPT !.stage = "open", !.conversation = v]
      BY <1>1, TurnIs
    <3>2. QED
      BY <2>1, <3>1
  <2>3. turn'[s] = now
    <3>1. PICK empty : empty = << >>
      OBVIOUS
    <3>2. turn'[s] = [stage |-> "open", conversation |-> v, receipts |-> empty, plan |-> None,
                      seen |-> None]
      <4>1. idle = [stage |-> "idle", conversation |-> None, receipts |-> empty, plan |-> None,
                    seen |-> None]
        BY <2>1, <3>1
      <4>2. QED
        BY <2>2, <4>1
    <3>3. QED
      BY <3>1, <3>2
  <2>4. turn' = [turn EXCEPT ![s] = turn'[s]]
    BY <1>1, TurnIs
  <2>5. QED
    BY <2>3, <2>4
<1>3. turn[s].receipts = << >>
  BY DEF Begin, Idle
<1>4. turn'[s].stage = "open"
  BY <1>2, TurnIs
<1>5. FlushInv' /\ LookInv'
  BY <1>4 DEF OneSession, FlushInv, LookInv
<1>6. UNCHANGED <<committed, draft, writer, lastRun, around, overtaken>> /\ calls' \in 0 .. MaxCalls
  BY TurnIs DEF Begin
<1>7. now \in [stage : {"idle", "open", "looked", "flushing"},
               conversation : Conversations \cup {None}, receipts : {turn[s].receipts},
               plan : {now.plan}, seen : {now.seen}]
  BY <1>3
<1> HIDE DEF now
<1>8. QED
  BY <1>2, <1>3, <1>5, <1>6, <1>7, TurnStep

LEMMA LookStep ==
  ASSUME OneSession, IInv, NEW s \in Sessions, Look(s)
  PROVE  IInv'
<1>1. Rows(s) = draft.items /\ Photos(s) = draft.photos
  BY StoreIs DEF IInv
<1>2. PICK seen \in {[item |-> New, photo |-> New, row |-> None]}
                    \cup {[item |-> i, photo |-> New, row |-> Rows(s)[i]] : i \in Ids}
                    \cup {[item |-> New, photo |-> p, row |-> Photos(s)[p]] : p \in PhotoIds} :
        /\ seen.item # New \/ seen.photo # New => seen.row # None
        /\ turn' = [turn EXCEPT ![s].stage = "looked", ![s].seen = seen]
  BY DEF Look
<1> DEFINE now == [stage |-> "looked", conversation |-> turn[s].conversation,
                   receipts |-> turn[s].receipts, plan |-> turn[s].plan, seen |-> seen]
<1>3. turn' = [turn EXCEPT ![s] = now]
  <2>1. PICK old : old = turn[s] /\ old = [stage |-> old.stage, conversation |-> old.conversation,
                      receipts |-> old.receipts, plan |-> old.plan, seen |-> old.seen]
    BY TurnIs
  <2>2. turn'[s] = [old EXCEPT !.stage = "looked", !.seen = seen]
    BY <1>2, <2>1, TurnIs
  <2>3. turn'[s] = now
    BY <2>1, <2>2
  <2>4. turn' = [turn EXCEPT ![s] = turn'[s]]
    BY <1>2, TurnIs
  <2>5. QED
    BY <2>3, <2>4
<1>4. /\ turn'[s].stage = "looked" /\ turn'[s].seen = seen
      /\ turn'[s].conversation = turn[s].conversation
  BY <1>3, TurnIs
<1>5. \/ seen = [item |-> New, photo |-> New, row |-> None]
      \/ \E i \in Ids : draft.items[i] # None /\ seen = [item |-> i, photo |-> New, row |-> draft.items[i]]
      \/ \E p \in PhotoIds :
           draft.photos[p] # None /\ seen = [item |-> New, photo |-> p, row |-> draft.photos[p]]
  <2>1. CASE seen = [item |-> New, photo |-> New, row |-> None]
    BY <2>1
  <2>2. ASSUME NEW i \in Ids, seen = [item |-> i, photo |-> New, row |-> draft.items[i]]
        PROVE  draft.items[i] # None
    BY <1>2, <2>2, Numbers
  <2>3. ASSUME NEW p \in PhotoIds, seen = [item |-> New, photo |-> p, row |-> draft.photos[p]]
        PROVE  draft.photos[p] # None
    BY <1>2, <2>3, Numbers
  <2>4. QED
    BY <1>1, <1>2, <2>1, <2>2, <2>3
<1>6. FlushInv' /\ LookInv'
  <2>1. turn[s].conversation # None /\ draft' = draft
    BY DEF Look
  <2>2. FlushInv'
    BY <1>4 DEF OneSession, FlushInv
  <2>3. LookInv'
    BY <1>4, <1>5, <2>1 DEF OneSession, LookInv
  <2>4. QED
    BY <2>2, <2>3
<1>7. UNCHANGED <<committed, draft, writer, lastRun, around, overtaken>> /\ calls' \in 0 .. MaxCalls
  <2>1. calls' = calls + 1 /\ calls < MaxCalls
        /\ UNCHANGED <<committed, draft, writer, lastRun, around, overtaken>>
    BY DEF Look
  <2>2. calls \in 0 .. MaxCalls
    BY TurnIs
  <2>3. QED
    BY <2>1, <2>2, Numbers
<1>8. now \in [stage : {"idle", "open", "looked", "flushing"},
               conversation : Conversations \cup {None}, receipts : {turn[s].receipts},
               plan : {now.plan}, seen : {now.seen}]
      /\ now.conversation = turn[s].conversation
  BY TurnIs
<1> HIDE DEF now
<1>9. QED
  BY <1>3, <1>6, <1>7, <1>8, TurnStep

LEMMA AwaitStep ==
  ASSUME OneSession, IInv, NEW s \in Sessions, NEW c, Flushable(s, c), Await(s, c),
         calls' \in 0 .. MaxCalls
  PROVE  IInv'
<1> DEFINE now == [stage |-> "flushing", conversation |-> turn[s].conversation,
                   receipts |-> turn[s].receipts, plan |-> c, seen |-> Read(s, c)]
<1>1. turn' = [turn EXCEPT ![s].stage = "flushing", ![s].plan = c, ![s].seen = Read(s, c)]
      /\ UNCHANGED <<committed, draft, writer, lastRun, around, overtaken>>
  BY DEF Await
<1>2. turn' = [turn EXCEPT ![s] = now]
  <2>1. PICK old : old = turn[s] /\ old = [stage |-> old.stage, conversation |-> old.conversation,
                      receipts |-> old.receipts, plan |-> old.plan, seen |-> old.seen]
    BY TurnIs
  <2>2. turn'[s] = [old EXCEPT !.stage = "flushing", !.plan = c, !.seen = Read(s, c)]
    BY <1>1, <2>1, TurnIs
  <2>3. turn'[s] = now
    BY <2>1, <2>2
  <2>4. turn' = [turn EXCEPT ![s] = turn'[s]]
    BY <1>1, TurnIs
  <2>5. QED
    BY <2>3, <2>4
<1>3. /\ turn'[s].stage = "flushing" /\ turn'[s].plan = c /\ turn'[s].seen = Read(s, c)
      /\ turn'[s].conversation = turn[s].conversation
  BY <1>2, TurnIs
<1>4. Flushable(s, c)'
  <2>1. UndoChange(s, c) => UndoChange(s, c)'
    BY <1>1, <1>3 DEF UndoChange
  <2>2. draft' = draft
    BY <1>1
  <2>3. QED
    BY <1>3, <2>1, <2>2 DEF Flushable
<1>5. Read(s, c)' = Read(s, c)
  BY <1>1 DEF Read, Rows, Store
<1>6. FlushInv' /\ LookInv'
  <2>1. \A t \in Sessions : t = s
    BY DEF OneSession
  <2>2. FlushInv'
    BY <1>3, <1>4, <1>5, <2>1 DEF FlushInv
  <2>3. LookInv'
    BY <1>3, <2>1 DEF LookInv
  <2>4. QED
    BY <2>2, <2>3
<1>7. now \in [stage : {"idle", "open", "looked", "flushing"},
               conversation : Conversations \cup {None}, receipts : {turn[s].receipts},
               plan : {now.plan}, seen : {now.seen}]
      /\ now.conversation = turn[s].conversation
  BY TurnIs
<1> HIDE DEF now
<1>8. QED
  BY <1>1, <1>2, <1>6, <1>7, TurnStep

LEMMA FlushStep ==
  ASSUME OneSession, IInv, NEW s \in Sessions, Flush(s)
  PROVE  IInv'
<1>1. Flushable(s, turn[s].plan) /\ turn[s].seen = Read(s, turn[s].plan)
  BY DEF IInv, FlushInv, Flush
<1>2. Flushes(s, turn[s].plan) /\ calls' \in 0 .. MaxCalls
  BY <1>1, TurnIs DEF Flush, Flushes
<1>3. PICK c : c = turn[s].plan
  OBVIOUS
<1>4. QED
  BY <1>1, <1>2, <1>3, WriteStep

LEMMA IdleIs ==
  ASSUME OneSession, IInv, NEW s \in Sessions, turn' = [turn EXCEPT ![s] = Idle]
  PROVE  /\ \A t \in Sessions : turn'[t] = Idle
         /\ turn' = [t \in Sessions |-> turn'[t]]
         /\ Idle.stage = "idle" /\ Idle.receipts = << >> /\ Idle.conversation = None
         /\ \A t \in Sessions :
              turn'[t] \in [stage : {"idle", "open", "looked", "flushing"},
                            conversation : Conversations \cup {None}, receipts : Seq(Receipts),
                            plan : {turn'[t].plan}, seen : {turn'[t].seen}]
<1>1. turn'[s] = Idle /\ turn' = [t \in Sessions |-> turn'[t]]
  BY TurnIs
<1>2. \A t \in Sessions : turn'[t] = Idle
  BY <1>1 DEF OneSession
<1>3. Idle.stage = "idle" /\ Idle.receipts = << >> /\ Idle.conversation = None
  BY DEF Idle
<1>4. \A t \in Sessions :
        turn'[t] \in [stage : {"idle", "open", "looked", "flushing"},
                      conversation : Conversations \cup {None}, receipts : Seq(Receipts),
                      plan : {turn'[t].plan}, seen : {turn'[t].seen}]
  <2>1. Idle \in [stage : {"idle", "open", "looked", "flushing"},
                  conversation : Conversations \cup {None}, receipts : Seq(Receipts),
                  plan : {Idle.plan}, seen : {Idle.seen}]
    <3>1. PICK empty \in Seq(Receipts) : empty = << >>
      <4>1. << >> \in Seq(Receipts)
        OBVIOUS
      <4>2. QED
        BY <4>1
    <3>2. Idle = [stage |-> "idle", conversation |-> None, receipts |-> empty, plan |-> None,
                  seen |-> None]
      BY <3>1 DEF Idle
    <3>3. QED
      BY <3>1, <3>2
  <2>2. QED
    BY <1>2, <2>1
<1>5. QED
  BY <1>1, <1>2, <1>3, <1>4

LEMMA BareIs == Bare \in StoreType
<1>1. Empty \in [Ids -> Row \cup {None}] /\ Empty \in [Ids -> Places]
  BY DEF Empty, Places
<1>2. QED
  BY <1>1 DEF Bare, StoreType

LEMMA NothingLeft ==
  ASSUME NEW store, NEW then
  PROVE  /\ Left(<< >>, store) /\ Begun(<< >>, store) /\ Chained(<< >>)
         /\ \A i \in Ids : i \notin Affected(<< >>)
         /\ \A p \in PhotoIds : p \notin Pictured(<< >>)
BY DEF Left, Begun, Chained, Affected, Pictured

\* A session has ended its turn.
LEMMA EndStep ==
  ASSUME OneSession, IInv, NEW s \in Sessions, turn' = [turn EXCEPT ![s] = Idle],
         draft' = committed', committed' \in {committed, draft}, writer' = None, calls' = calls,
         overtaken' \subseteq Sessions,
         lastRun' \in [Conversations -> Seq(Receipts)],
         around' \in [Conversations -> [before : StoreType, after : StoreType]],
         \A v \in Conversations :
           \/ lastRun'[v] = lastRun[v] /\ around'[v] = around[v]
           \/ /\ \A n \in DOMAIN lastRun'[v] : Undoable(lastRun'[v][n], committed'.items)
              /\ Left(lastRun'[v], around'[v].after) /\ Begun(lastRun'[v], around'[v].before)
              /\ Chained(lastRun'[v])
  PROVE  IInv'
<1>1. /\ \A t \in Sessions : turn'[t] = Idle
      /\ turn' = [t \in Sessions |-> turn'[t]]
      /\ Idle.stage = "idle" /\ Idle.receipts = << >> /\ Idle.conversation = None
      /\ \A t \in Sessions :
           turn'[t] \in [stage : {"idle", "open", "looked", "flushing"},
                         conversation : Conversations \cup {None}, receipts : Seq(Receipts),
                         plan : {turn'[t].plan}, seen : {turn'[t].seen}]
  BY IdleIs
<1>2. StoreInv(committed') /\ Later(committed.items, committed'.items)
  BY DEF IInv, RowsInv, Later
<1>3. TypeOK'
  <2>1. committed' \in StoreType /\ draft' \in StoreType
    BY <1>2 DEF StoreInv
  <2>2. ASSUME NEW v \in Conversations
        PROVE  /\ \A n \in 1 .. Len(lastRun'[v]) : IsReceipt(lastRun'[v][n])
               /\ around'[v].before \in StoreType /\ around'[v].after \in StoreType
    <3>1. lastRun'[v] \in Seq(Receipts)
      OBVIOUS
    <3>2. \A n \in 1 .. Len(lastRun'[v]) : lastRun'[v][n] \in Receipts
      BY <3>1
    <3>3. around'[v] \in [before : StoreType, after : StoreType]
      OBVIOUS
    <3>4. QED
      BY <3>2, <3>3, ReceiptIs
  <2>3. \A t \in Sessions :
          /\ turn'[t].stage \in {"idle", "open", "looked", "flushing"}
          /\ turn'[t].conversation \in Conversations \cup {None}
          /\ \A n \in 1 .. Len(turn'[t].receipts) : IsReceipt(turn'[t].receipts[n])
    BY <1>1
  <2>4. calls' \in 0 .. MaxCalls
    BY TurnIs
  <2>5. QED
    BY <2>1, <2>2, <2>3, <2>4 DEF TypeOK
<1>4. Shapes'
  BY <1>1 DEF Shapes
<1>5. RowsInv'
  BY <1>2 DEF RowsInv, Later
<1>6. ReceiptsInv'
  <2>1. ASSUME NEW v \in Conversations, lastRun'[v] = lastRun[v], NEW n \in DOMAIN lastRun[v]
        PROVE  Undoable(lastRun[v][n], committed'.items)
    <3>1. Undoable(lastRun[v][n], committed.items)
      BY DEF IInv, ReceiptsInv
    <3>2. lastRun[v][n] \in Receipts
      <4>1. lastRun[v] \in Seq(Receipts)
        BY DEF IInv, Shapes
      <4>2. QED
        BY <4>1
    <3>3. DOMAIN lastRun[v][n].after \subseteq Ids
      BY <3>2, ReceiptIs
    <3>4. ItemReceipt(lastRun[v][n]) \/ PhotoReceipt(lastRun[v][n]) => lastRun[v][n].source \in Ids
      BY DEF ItemReceipt, PhotoReceipt
    <3>5. QED
      BY <1>2, <3>1, <3>3, <3>4 DEF Undoable, Later
  <2>2. \A v \in Conversations : \A n \in DOMAIN lastRun'[v] :
          Undoable(lastRun'[v][n], committed'.items)
    BY <2>1
  <2>3. QED
    BY <1>1, <2>2 DEF ReceiptsInv
<1>7. LeftInv'
  <2>1. \A v \in Conversations : Left(lastRun'[v], around'[v].after)
    BY DEF IInv, LeftInv
  <2>2. Left(<< >>, draft')
    BY NothingLeft
  <2>3. QED
    BY <1>1, <2>1, <2>2 DEF LeftInv
<1>8. BegunInv'
  <2>1. \A v \in Conversations : Begun(lastRun'[v], around'[v].before) /\ Chained(lastRun'[v])
    BY DEF IInv, BegunInv
  <2>2. Untouched(<< >>, committed', draft')
    BY DEF Untouched
  <2>3. QED
    BY <1>1, <2>1, <2>2 DEF BegunInv
<1>9. FlushInv' /\ LookInv'
  BY <1>1 DEF FlushInv, LookInv
<1>10. QED
  BY <1>3, <1>4, <1>5, <1>6, <1>7, <1>8, <1>9 DEF IInv

LEMMA CommitStep ==
  ASSUME OneSession, IInv, NEW s \in Sessions, Commit(s)
  PROVE  IInv'
<1> DEFINE v == turn[s].conversation
           rs == turn[s].receipts
<1>1. Store(s) = draft
  BY StoreIs DEF IInv
<1>2. /\ committed' = draft /\ draft' = draft /\ writer' = None /\ calls' = calls
      /\ turn' = [turn EXCEPT ![s] = Idle] /\ overtaken' \subseteq Sessions
  BY <1>1 DEF Commit
<1>3. CASE v = None
  <2>1. lastRun' = lastRun /\ around' = around
    BY <1>3 DEF Commit
  <2>2. lastRun' \in [Conversations -> Seq(Receipts)]
        /\ around' \in [Conversations -> [before : StoreType, after : StoreType]]
    BY <2>1 DEF IInv, Shapes
  <2>3. QED
    BY <1>2, <2>1, <2>2, EndStep
<1>4. CASE v # None
  <2>1. v \in Conversations /\ rs \in Seq(Receipts)
    BY <1>4, TurnIs
  <2>2. PICK ends : /\ ends \in [before : StoreType, after : StoreType]
                    /\ Left(rs, ends.after) /\ Begun(rs, ends.before) /\ Chained(rs)
                    /\ around' = [around EXCEPT ![v] = ends]
    <3>1. CASE rs # << >>
      <4>1. around' = [around EXCEPT ![v] = [before |-> committed, after |-> draft]]
        BY <1>1, <1>4, <3>1 DEF Commit
      <4>2. PICK ends : ends = [before |-> committed, after |-> draft]
        OBVIOUS
      <4>3. committed \in StoreType /\ draft \in StoreType
        BY DEF IInv, TypeOK
      <4>4. Left(rs, draft) /\ Begun(rs, committed) /\ Chained(rs)
        BY <1>4 DEF IInv, LeftInv, BegunInv
      <4>5. QED
        BY <4>1, <4>2, <4>3, <4>4
    <3>2. CASE rs = << >>
      <4>1. around' = [around EXCEPT ![v] = [before |-> Bare, after |-> Bare]]
        BY <1>4, <3>2 DEF Commit
      <4>2. PICK ends : ends = [before |-> Bare, after |-> Bare]
        OBVIOUS
      <4>3. Left(<< >>, Bare) /\ Begun(<< >>, Bare) /\ Chained(<< >>)
        BY NothingLeft
      <4>4. QED
        BY <3>2, <4>1, <4>2, <4>3, BareIs
    <3>3. QED
      BY <3>1, <3>2
  <2>3. lastRun' = [lastRun EXCEPT ![v] = rs]
    BY <1>4 DEF Commit
  <2>4. /\ lastRun \in [Conversations -> Seq(Receipts)]
        /\ around \in [Conversations -> [before : StoreType, after : StoreType]]
    BY DEF IInv, Shapes
  <2>5. \A n \in DOMAIN rs : Undoable(rs[n], draft.items)
    BY <1>4 DEF IInv, ReceiptsInv
  <2> HIDE DEF v, rs
  <2>6. /\ lastRun' \in [Conversations -> Seq(Receipts)]
        /\ around' \in [Conversations -> [before : StoreType, after : StoreType]]
    BY <2>1, <2>2, <2>3, <2>4
  <2>7. \A w \in Conversations :
           \/ lastRun'[w] = lastRun[w] /\ around'[w] = around[w]
           \/ /\ \A n \in DOMAIN lastRun'[w] : Undoable(lastRun'[w][n], committed'.items)
              /\ Left(lastRun'[w], around'[w].after) /\ Begun(lastRun'[w], around'[w].before)
              /\ Chained(lastRun'[w])
    <3>1. TAKE w \in Conversations
    <3>2. CASE w = v
      <4>1. lastRun'[w] = rs /\ around'[w] = ends
        BY <2>1, <2>2, <2>3, <2>4, <3>2
      <4>2. QED
        BY <1>2, <2>2, <2>5, <4>1
    <3>3. CASE w # v
      BY <2>1, <2>2, <2>3, <2>4, <3>3
    <3>4. QED
      BY <3>2, <3>3
  <2>8. QED
    BY <1>2, <2>6, <2>7, EndStep
<1>5. QED
  BY <1>3, <1>4

LEMMA AbortStep ==
  ASSUME OneSession, IInv, NEW s \in Sessions, Abort(s)
  PROVE  IInv'
<1>1. writer = s \/ writer = None
  BY DEF IInv, TypeOK, OneSession
<1>2. draft' = committed /\ writer' = None
  <2>1. CASE writer = s
    BY <2>1 DEF Abort
  <2>2. CASE writer # s
    BY <1>1, <2>2 DEF Abort, IInv, RowsInv
  <2>3. QED
    BY <2>1, <2>2
<1>3. committed' = committed /\ calls' = calls /\ lastRun' = lastRun /\ around' = around
      /\ turn' = [turn EXCEPT ![s] = Idle] /\ overtaken' \subseteq Sessions
  BY DEF Abort, IInv, TypeOK
<1>4. /\ lastRun' \in [Conversations -> Seq(Receipts)]
      /\ around' \in [Conversations -> [before : StoreType, after : StoreType]]
  BY <1>3 DEF IInv, Shapes
<1>5. QED
  BY <1>2, <1>3, <1>4, EndStep

-----------------------------------------------------------------------------
(* The calls                                                               *)

LEMMA ChangeIs ==
  ASSUME NEW op, NEW source, NEW entity, NEW new, NEW events
  PROVE  LET c == Change(op, source, entity, new, events) IN
         /\ IsChange(c) /\ c.op = op /\ c.source = source /\ c.entity = entity
         /\ c.new = new /\ c.events = events /\ c.photos = << >> /\ c.before = None
BY DEF Change, IsChange

LEMMA PhotoChangeIs ==
  ASSUME NEW op, NEW item, NEW id, NEW photo
  PROVE  LET c == PhotoChange(op, item, id, photo) IN
         /\ IsChange(c) /\ c.op = op /\ c.source = item /\ c.entity = id
         /\ c.new = << >> /\ c.events = << >> /\ c.before = None
         /\ DOMAIN c.photos = {id} /\ c.photos[id] = photo
<1> DEFINE c == PhotoChange(op, item, id, photo)
<1>1. PICK none, pictures : none = << >> /\ pictures = [p \in {id} |-> photo]
  OBVIOUS
<1>2. c = [[op |-> op, source |-> item, entity |-> id, new |-> none, events |-> none,
            photos |-> none, before |-> None] EXCEPT !.photos = pictures]
  BY <1>1 DEF PhotoChange, Change
<1>3. c = [op |-> op, source |-> item, entity |-> id, new |-> none, events |-> none,
           photos |-> pictures, before |-> None]
  <2> HIDE DEF c
  <2>1. QED
    BY <1>2
<1> HIDE DEF c
<1>4. /\ IsChange(c) /\ c.op = op /\ c.source = item /\ c.entity = id
      /\ c.new = << >> /\ c.events = << >> /\ c.before = None
      /\ DOMAIN c.photos = {id} /\ c.photos[id] = photo
  BY <1>1, <1>3 DEF IsChange
<1>5. QED
  BY <1>4 DEF c

\* The change of a tool call, with what the tool has looked at.
LEMMA WithBefore ==
  ASSUME NEW c, IsChange(c), NEW before \in Row \cup Photo \cup {None}
  PROVE  LET b == [c EXCEPT !.before = before] IN
         /\ IsChange(b) /\ b.before = before
         /\ b.op = c.op /\ b.source = c.source /\ b.entity = c.entity
         /\ b.new = c.new /\ b.events = c.events /\ b.photos = c.photos
<1> DEFINE b == [c EXCEPT !.before = before]
<1>1. c = [op |-> c.op, source |-> c.source, entity |-> c.entity, new |-> c.new,
           events |-> c.events, photos |-> c.photos, before |-> c.before]
  BY DEF IsChange
<1>2. b = [op |-> c.op, source |-> c.source, entity |-> c.entity, new |-> c.new,
           events |-> c.events, photos |-> c.photos, before |-> before]
  BY <1>1
<1> HIDE DEF b
<1>3. /\ IsChange(b) /\ b.before = before
      /\ b.op = c.op /\ b.source = c.source /\ b.entity = c.entity
      /\ b.new = c.new /\ b.events = c.events /\ b.photos = c.photos
  BY <1>2 DEF IsChange
<1>4. QED
  BY <1>3 DEF b

LEMMA SeenIs ==
  ASSUME IInv, NEW s \in Sessions, turn[s].stage = "looked"
  PROVE  /\ turn[s].conversation # None
         /\ turn[s].seen.row \in Row \cup Photo \cup {None}
         /\ turn[s].seen.item # New =>
              turn[s].seen.row = draft.items[turn[s].seen.item]
         /\ turn[s].seen.photo # New =>
              turn[s].seen.row = draft.photos[turn[s].seen.photo]
<1> DEFINE seen == turn[s].seen
<1>1. /\ turn[s].conversation # None
      /\ \/ seen = [item |-> New, photo |-> New, row |-> None]
         \/ \E i \in Ids : draft.items[i] # None /\ seen = [item |-> i, photo |-> New, row |-> draft.items[i]]
         \/ \E p \in PhotoIds :
              draft.photos[p] # None /\ seen = [item |-> New, photo |-> p, row |-> draft.photos[p]]
  BY DEF IInv, LookInv
<1>2. /\ draft.items \in [Ids -> Row \cup {None}] /\ draft.photos \in [PhotoIds -> Photo \cup {None}]
  BY DEF IInv, TypeOK, StoreType
<1> HIDE DEF seen
<1>3. CASE seen = [item |-> New, photo |-> New, row |-> None]
  BY <1>1, <1>3 DEF seen
<1>4. ASSUME NEW i \in Ids, seen = [item |-> i, photo |-> New, row |-> draft.items[i]]
      PROVE  /\ seen.row \in Row \cup Photo \cup {None}
             /\ seen.item # New => seen.row = draft.items[seen.item]
             /\ seen.photo # New => seen.row = draft.photos[seen.photo]
  BY <1>2, <1>4
<1>5. ASSUME NEW p \in PhotoIds, seen = [item |-> New, photo |-> p, row |-> draft.photos[p]]
      PROVE  /\ seen.row \in Row \cup Photo \cup {None}
             /\ seen.item # New => seen.row = draft.items[seen.item]
             /\ seen.photo # New => seen.row = draft.photos[seen.photo]
  BY <1>2, <1>5
<1>6. QED
  BY <1>1, <1>3, <1>4, <1>5 DEF seen

LEMMA Replanned ==
  ASSUME NEW c, NEW b, IsChange(c), IsChange(b),
         b.op = c.op, b.source = c.source, b.entity = c.entity,
         b.new = c.new, b.events = c.events, b.photos = c.photos
  PROVE  /\ ItemChange(c, draft) => ItemChange(b, draft)
         /\ PhotoChanged(c, draft) => PhotoChanged(b, draft)
         /\ NodeChange(c) => NodeChange(b)
         /\ \A s : Read(s, b) = Read(s, c)
<1>1. ItemChange(c, draft) => ItemChange(b, draft)
  BY DEF ItemChange
<1>2. PhotoChanged(c, draft) => PhotoChanged(b, draft)
  BY DEF PhotoChanged
<1>3. NodeChange(c) => NodeChange(b)
  BY DEF NodeChange
<1>4. \A s : Read(s, b) = Read(s, c)
  BY DEF Read
<1>5. QED
  BY <1>1, <1>2, <1>3, <1>4

LEMMA ByHandDoes ==
  ASSUME OneSession, IInv, NEW s \in Sessions, NEW c, IsChange(c),
         ItemChange(c, draft) \/ PhotoChanged(c, draft) \/ NodeChange(c), ByHand(s, c)
  PROVE  IInv'
<1>1. turn[s].conversation = None /\ Await(s, c) /\ calls' = calls + 1 /\ calls < MaxCalls
  BY DEF ByHand, Plan
<1>2. Flushable(s, c)
  BY <1>1 DEF Flushable
<1>3. calls' \in 0 .. MaxCalls
  <2>1. calls \in 0 .. MaxCalls
    BY TurnIs
  <2>2. QED
    BY <1>1, <2>1, Numbers
<1>4. QED
  BY <1>1, <1>2, <1>3, AwaitStep

LEMMA PerformDoes ==
  ASSUME OneSession, IInv, NEW s \in Sessions, NEW c, IsChange(c), c.before = None,
         \/ ItemChange(c, draft)
         \/ PhotoChanged(c, draft) /\ c.op = "attach_item_photo"
         \/ NodeChange(c),
         Perform(s, c)
  PROVE  IInv'
<1>1. CASE ByHand(s, c)
  BY <1>1, ByHandDoes
<1>2. CASE ByTool(s, c)
  <2> DEFINE before == IF c.op = "attach_item_photo" THEN None ELSE turn[s].seen.row
             b == [c EXCEPT !.before = before]
  <2>1. /\ turn[s].stage = "looked" /\ turn[s].seen.photo = New /\ turn[s].seen.item = c.source
        /\ Write(s, b, Read(s, c)) /\ calls' = calls
    BY <1>2 DEF ByTool
  <2>2. /\ turn[s].conversation # None
        /\ before \in Row \cup Photo \cup {None}
        /\ turn[s].seen.item # New => turn[s].seen.row = draft.items[turn[s].seen.item]
    BY <2>1, SeenIs
  <2>3. /\ IsChange(b) /\ b.before = before
        /\ b.op = c.op /\ b.source = c.source /\ b.entity = c.entity
        /\ b.new = c.new /\ b.events = c.events /\ b.photos = c.photos
    <3> HIDE DEF before
    <3>1. QED
      BY <2>2, WithBefore
  <2> HIDE DEF b
  <2>4. /\ ItemChange(c, draft) => ItemChange(b, draft)
        /\ PhotoChanged(c, draft) => PhotoChanged(b, draft)
        /\ NodeChange(c) => NodeChange(b)
        /\ Read(s, b) = Read(s, c)
    BY <2>3, Replanned
  <2>5. FoundBefore(b, draft)
    <3>1. CASE c.op \in ItemOps \ {"create_item"}
      <4>1. ItemChange(c, draft)
        BY <3>1 DEF ItemOps, NodeChange
      <4>2. c.source # New /\ c.op # "attach_item_photo"
        BY <3>1, <4>1 DEF ItemChange, ItemOps
      <4>3. QED
        BY <2>1, <2>2, <2>3, <3>1, <4>2 DEF FoundBefore
    <3>2. CASE c.op \notin ItemOps \ {"create_item"}
      <4>1. c.op \notin PhotoOps \ {"attach_item_photo"}
        BY <3>2 DEF PhotoOps, NodeChange, ItemChange, ItemOps
      <4>2. QED
        BY <2>3, <3>2, <4>1 DEF FoundBefore
    <3>3. QED
      BY <3>1, <3>2
  <2>6. Flushable(s, b)
    BY <2>3, <2>4, <2>5 DEF Flushable
  <2>7. Flushes(s, b)
    BY <2>1, <2>4 DEF Flushes
  <2>8. calls' \in 0 .. MaxCalls
    BY <2>1, TurnIs
  <2>9. QED
    BY <2>6, <2>7, <2>8, WriteStep
<1>3. QED
  BY <1>1, <1>2 DEF Perform

LEMMA ChangePhotoDoes ==
  ASSUME OneSession, IInv, NEW s \in Sessions, NEW c, IsChange(c),
         PhotoChanged(c, draft), c.op # "attach_item_photo", ChangePhoto(s, c)
  PROVE  IInv'
<1>1. CASE ByHand(s, c)
  BY <1>1, ByHandDoes
<1>2. CASE turn[s].stage = "looked" /\ turn[s].seen.photo = c.entity
           /\ Await(s, [c EXCEPT !.before = turn[s].seen.row]) /\ UNCHANGED calls
  <2> DEFINE before == turn[s].seen.row
             b == [c EXCEPT !.before = before]
  <2>1. Await(s, b) /\ calls' = calls
    BY <1>2
  <2>2. /\ turn[s].conversation # None
        /\ before \in Row \cup Photo \cup {None}
        /\ turn[s].seen.photo # New => before = draft.photos[turn[s].seen.photo]
    BY <1>2, SeenIs
  <2>3. /\ IsChange(b) /\ b.before = before
        /\ b.op = c.op /\ b.source = c.source /\ b.entity = c.entity
        /\ b.new = c.new /\ b.events = c.events /\ b.photos = c.photos
    <3> HIDE DEF before
    <3>1. QED
      BY <2>2, WithBefore
  <2> HIDE DEF b
  <2>4. PhotoChanged(b, draft)
    BY <2>3, Replanned
  <2>5. FoundBefore(b, draft)
    <3>1. c.op \notin ItemOps /\ c.entity # New
      BY DEF PhotoChanged, PhotoOps, ItemOps
    <3>2. QED
      BY <1>2, <2>2, <2>3, <3>1 DEF FoundBefore
  <2>6. Flushable(s, b)
    BY <2>3, <2>4, <2>5 DEF Flushable
  <2>7. calls' \in 0 .. MaxCalls
    BY <2>1, TurnIs
  <2>8. QED
    BY <2>1, <2>6, <2>7, AwaitStep
<1>3. QED
  BY <1>1, <1>2 DEF ChangePhoto

\* A change of the whole of an item.
LEMMA OfItem ==
  ASSUME NEW i \in Ids, draft.items[i] # None,
         NEW op \in ItemOps \ {"create_item"}, NEW row \in Row, CoherentRow(row),
         NEW from \in Places, op # "item_taken" \/ row.status # "known"
  PROVE  LET c == Change(op, i, i, Only(i, row), <<Event(op, i, from, row.place)>>) IN
         IsChange(c) /\ c.before = None /\ ItemChange(c, draft)
<1> DEFINE c == Change(op, i, i, Only(i, row), <<Event(op, i, from, row.place)>>)
           new == Only(i, row)
           e == Event(op, i, from, row.place)
<1>1. /\ IsChange(c) /\ c.op = op /\ c.source = i /\ c.entity = i
      /\ c.new = new /\ c.events = <<e>> /\ c.photos = << >> /\ c.before = None
  BY ChangeIs
<1>2. DOMAIN new = {i} /\ new[i] = row
  BY DEF Only
<1>3. row.place \in Places
  BY RowIs
<1>4. i # New
  BY Numbers
<1>5. row.status = "known" => Witness(e) = row.place
  BY DEF Witness, Event, CoherentRow
<1>6. \E type \in ItemOps \cup {"item_created"}, x, y \in Places : <<e>> = <<Event(type, i, x, y)>>
  BY <1>3
<1>7. <<e>> # << >> /\ <<e>>[1] = e
  OBVIOUS
<1> HIDE DEF c, new, e
<1>8. ItemChange(c, draft)
  BY <1>1, <1>2, <1>4, <1>5, <1>6, <1>7 DEF ItemChange
<1>9. QED
  BY <1>1, <1>8 DEF c, new, e

\* One that moves nothing and is not logged.
LEMMA InPlace ==
  ASSUME RowsInv, NEW i \in Ids, draft.items[i] # None,
         NEW op \in ItemOps \ {"create_item"}, NEW row \in Row, CoherentRow(row),
         row.status = draft.items[i].status, row.place = draft.items[i].place
  PROVE  LET c == Change(op, i, i, Only(i, row), << >>) IN
         IsChange(c) /\ c.before = None /\ ItemChange(c, draft)
<1> DEFINE c == Change(op, i, i, Only(i, row), << >>)
           new == Only(i, row)
<1>1. /\ IsChange(c) /\ c.op = op /\ c.source = i /\ c.entity = i
      /\ c.new = new /\ c.events = << >> /\ c.photos = << >> /\ c.before = None
  BY ChangeIs
<1>2. DOMAIN new = {i} /\ new[i] = row
  BY DEF Only
<1>3. i # New
  BY Numbers
<1> HIDE DEF c, new
<1>4. ItemChange(c, draft)
  BY <1>1, <1>2, <1>3 DEF ItemChange
<1>5. QED
  BY <1>1, <1>4 DEF c, new

\* One of a part of a lot, which becomes an item of its own.
LEMMA OfPart ==
  ASSUME RowsInv, NEW i \in Ids, draft.items[i] # None,
         NEW op \in ItemOps \ {"create_item"}, NEW child \in Row, CoherentRow(child),
         op # "item_taken" \/ child.status # "known", NEW from \in Places,
         NEW rest \in Row, CoherentRow(rest), draft.items[i].state # "removed",
         rest = Less(draft.items[i], child.quantity),
         rest.status = draft.items[i].status, rest.place = draft.items[i].place
  PROVE  LET c == Change(op, i, New, [j \in {i, New} |-> IF j = i THEN rest ELSE child],
                         <<Event(op, New, from, child.place)>>) IN
         IsChange(c) /\ c.before = None /\ ItemChange(c, draft)
<1> DEFINE new == [j \in {i, New} |-> IF j = i THEN rest ELSE child]
           e == Event(op, New, from, child.place)
           c == Change(op, i, New, new, <<e>>)
<1>1. /\ IsChange(c) /\ c.op = op /\ c.source = i /\ c.entity = New
      /\ c.new = new /\ c.events = <<e>> /\ c.photos = << >> /\ c.before = None
  BY ChangeIs
<1>2. i # New
  BY Numbers
<1>3. DOMAIN new = {i, New} /\ new[i] = rest /\ new[New] = child
  BY <1>2
<1>4. child.place \in Places
  BY RowIs
<1>5. child.status = "known" => Witness(e) = child.place
  BY DEF Witness, Event, CoherentRow
<1>6. \E type \in ItemOps \cup {"item_created"}, x, y \in Places : <<e>> = <<Event(type, New, x, y)>>
  BY <1>4
<1>7. <<e>> # << >> /\ <<e>>[1] = e
  OBVIOUS
<1> HIDE DEF c, new, e
<1>8. ItemChange(c, draft)
  <2>1. \A j \in DOMAIN new : new[j] \in Row /\ CoherentRow(new[j])
    BY <1>3
  <2>2. \A j \in DOMAIN new : new[j].status = "known" =>
          IF j = New THEN Witness(e) = new[j].place
          ELSE j \in Ids /\ draft.items[j].status = "known" /\ draft.items[j].place = new[j].place
    BY <1>2, <1>3, <1>5
  <2>3. /\ draft.items[c.source].state # "removed"
        /\ c.new[c.source] = Less(draft.items[c.source], c.new[c.entity].quantity)
    BY <1>1, <1>3
  <2>4. /\ c.op \in ItemOps /\ (c.op = "create_item" <=> c.source = New)
        /\ c.source \in Ids /\ draft.items[c.source] # None /\ c.entity = New
        /\ DOMAIN c.new = {c.source, c.entity} /\ c.photos = << >>
    BY <1>1, <1>2, <1>3
  <2>5. \A j \in DOMAIN c.new : c.new[j].status = "known" =>
          IF c.events # << >> /\ j = c.entity THEN Witness(c.events[1]) = c.new[j].place
          ELSE j \in Ids /\ draft.items[j].status = "known" /\ draft.items[j].place = c.new[j].place
    BY <1>1, <1>7, <2>2
  <2>6. \E type \in ItemOps \cup {"item_created"}, x, y \in Places : c.events = <<Event(type, c.entity, x, y)>>
    BY <1>1, <1>6
  <2>7. QED
    BY <1>1, <2>1, <2>3, <2>4, <2>5, <2>6 DEF ItemChange
<1>9. QED
  BY <1>1, <1>8 DEF c, new, e

LEMMA LotIs ==
  ASSUME RowsInv, NEW i \in Ids, draft.items[i] # None
  PROVE  draft.items[i] \in Row /\ CoherentRow(draft.items[i]) /\ draft.items[i].place \in Places
BY RowIs DEF RowsInv, StoreInv, StoreType, Sound

\* The two rows of a lot that is split.
LEMMA SplitIs ==
  ASSUME RowsInv, NEW i \in Ids, draft.items[i] # None, NEW part \in Quantities
  PROVE  LET lot == draft.items[i]  split == Split(lot, part) IN
         /\ split.part \in Row /\ CoherentRow(split.part)
         /\ split.part.state = lot.state /\ split.part.place = lot.place
         /\ split.part.quantity = part
         /\ split.rest \in Row /\ CoherentRow(split.rest) /\ split.rest = Less(lot, part)
         /\ split.rest.status = lot.status /\ split.rest.place = lot.place
<1> DEFINE lot == draft.items[i]
<1>1. lot \in Row /\ CoherentRow(lot) /\ lot.quantity \in Quantity
  BY LotIs, RowIs
<1>2. part \in Quantity
  BY ConstantsAssumption
<1>3. Remainder(lot.quantity, part) \in Quantity
  BY <1>1, <1>2, RemainderIs
<1>4. PICK rest \in Quantity : rest = Remainder(lot.quantity, part)
  BY <1>3
<1>5. /\ Split(lot, part).part = [lot EXCEPT !.quantity = part]
      /\ Split(lot, part).rest = [lot EXCEPT !.quantity = rest]
      /\ Less(lot, part) = [lot EXCEPT !.quantity = rest]
      /\ [lot EXCEPT !.quantity = part].quantity = part
  BY <1>1, <1>4 DEF Split, Less, Row
<1> HIDE DEF lot
<1>6. QED
  BY <1>1, <1>2, <1>4, <1>5, CountedIs DEF lot

LEMMA CreateItemStep ==
  ASSUME OneSession, IInv, NEW s \in Sessions, CreateItem(s)
  PROVE  IInv'
<1>1. PICK place \in Places, quantity \in Quantities :
        Perform(s, Change("create_item", New, New, Only(New, Created(place, quantity)),
                          <<Event("item_created", New, None, place)>>))
  BY DEF CreateItem
<1> DEFINE row == Created(place, quantity)
           new == Only(New, row)
           e == Event("item_created", New, None, place)
           c == Change("create_item", New, New, new, <<e>>)
<1>2. /\ IsChange(c) /\ c.op = "create_item" /\ c.source = New /\ c.entity = New
      /\ c.new = new /\ c.events = <<e>> /\ c.photos = << >> /\ c.before = None
  BY ChangeIs
<1>3. row \in Row /\ CoherentRow(row) /\ row.place = place
  BY CreatedIs, ConstantsAssumption
<1>4. DOMAIN new = {New} /\ new[New] = row
  BY DEF Only
<1>5. row.status = "known" => Witness(e) = place
  <2>1. row.status = "known" => place # None
    <3> HIDE DEF row
    <3>1. QED
      BY <1>3 DEF CoherentRow
  <2>2. QED
    BY <2>1 DEF Witness, Event
<1>6. \E type \in ItemOps \cup {"item_created"}, x, y \in Places : <<e>> = <<Event(type, New, x, y)>>
  BY DEF Places
<1>7. <<e>> # << >> /\ <<e>>[1] = e
  OBVIOUS
<1> HIDE DEF c, new, e, row
<1>8. ItemChange(c, draft)
  BY <1>2, <1>3, <1>4, <1>5, <1>6, <1>7 DEF ItemChange, ItemOps
<1>9. Perform(s, c)
  BY <1>1 DEF c, new, e, row
<1>10. QED
  BY <1>2, <1>8, <1>9, PerformDoes

LEMMA CreateNodeStep ==
  ASSUME OneSession, IInv, NEW s \in Sessions, CreateNode(s)
  PROVE  IInv'
<1> DEFINE c == Change("create_node", New, New, << >>, << >>)
<1>1. IsChange(c) /\ c.before = None /\ NodeChange(c)
  BY ChangeIs DEF NodeChange
<1>2. Perform(s, c)
  BY DEF CreateNode
<1> HIDE DEF c
<1>3. QED
  BY <1>1, <1>2, PerformDoes

LEMMA UpdateItemStep ==
  ASSUME OneSession, IInv, NEW s \in Sessions, NEW i \in Ids, Rows(s)[i] # None, UpdateItem(s, i)
  PROVE  IInv'
<1>1. Rows(s) = draft.items
  BY StoreIs DEF IInv
<1>2. PICK state \in Active :
        Perform(s, Change("update_item", i, i,
                          Only(i, [draft.items[i] EXCEPT !.state = state]), << >>))
  BY <1>1 DEF UpdateItem
<1>3. PICK row : row = [draft.items[i] EXCEPT !.state = state]
  OBVIOUS
<1>4. /\ draft.items[i] \in Row /\ CoherentRow(draft.items[i])
      /\ draft.items[i].state # "removed" /\ draft.items[i] # None
  BY <1>1, LotIs DEF IInv, UpdateItem
<1>5. /\ row \in Row /\ CoherentRow(row)
      /\ row.status = draft.items[i].status /\ row.place = draft.items[i].place
  BY <1>3, <1>4, UpdatedIs
<1> DEFINE c == Change("update_item", i, i, Only(i, row), << >>)
<1>6. IsChange(c) /\ c.before = None /\ ItemChange(c, draft)
  <2>1. PICK op \in ItemOps \ {"create_item"} : op = "update_item"
    BY DEF ItemOps
  <2>2. QED
    BY <1>4, <1>5, <2>1, InPlace DEF IInv
<1>7. Perform(s, c)
  BY <1>2, <1>3
<1> HIDE DEF c
<1>8. QED
  BY <1>6, <1>7, PerformDoes

LEMMA ChangeQuantityStep ==
  ASSUME OneSession, IInv, NEW s \in Sessions, NEW i \in Ids, Rows(s)[i] # None,
         ChangeQuantity(s, i)
  PROVE  IInv'
<1>1. Rows(s) = draft.items
  BY StoreIs DEF IInv
<1>2. PICK quantity \in Quantities :
        Perform(s, Change("change_item_quantity", i, i,
                          Only(i, [draft.items[i] EXCEPT !.quantity = quantity]), << >>))
  BY <1>1 DEF ChangeQuantity
<1>3. PICK row : row = [draft.items[i] EXCEPT !.quantity = quantity]
  OBVIOUS
<1>4. /\ draft.items[i] \in Row /\ CoherentRow(draft.items[i]) /\ draft.items[i] # None
      /\ quantity \in Quantity
  BY <1>1, LotIs, ConstantsAssumption DEF IInv
<1>5. /\ row \in Row /\ CoherentRow(row)
      /\ row.status = draft.items[i].status /\ row.place = draft.items[i].place
  BY <1>3, <1>4, CountedIs
<1> DEFINE c == Change("change_item_quantity", i, i, Only(i, row), << >>)
<1>6. IsChange(c) /\ c.before = None /\ ItemChange(c, draft)
  <2>1. PICK op \in ItemOps \ {"create_item"} : op = "change_item_quantity"
    BY DEF ItemOps
  <2>2. QED
    BY <1>4, <1>5, <2>1, InPlace DEF IInv
<1>7. Perform(s, c)
  BY <1>2, <1>3
<1> HIDE DEF c
<1>8. QED
  BY <1>6, <1>7, PerformDoes

\* An operation on a lot that would have left row, or child on a part of it.
LEMMA WholeDoes ==
  ASSUME OneSession, IInv, NEW s \in Sessions, NEW i \in Ids, draft.items[i] # None,
         NEW op \in ItemOps \ {"create_item"}, NEW row \in Row, CoherentRow(row),
         NEW from \in Places, op # "item_taken" \/ row.status # "known",
         Perform(s, Change(op, i, i, Only(i, row), <<Event(op, i, from, row.place)>>))
  PROVE  IInv'
<1> DEFINE c == Change(op, i, i, Only(i, row), <<Event(op, i, from, row.place)>>)
<1>1. IsChange(c) /\ c.before = None /\ ItemChange(c, draft)
  BY OfItem
<1>2. Perform(s, c)
  OBVIOUS
<1> HIDE DEF c
<1>3. QED
  BY <1>1, <1>2, PerformDoes

LEMMA PartDoes ==
  ASSUME OneSession, IInv, NEW s \in Sessions, NEW i \in Ids, draft.items[i] # None,
         NEW op \in ItemOps \ {"create_item"}, NEW child \in Row, CoherentRow(child),
         op # "item_taken" \/ child.status # "known", NEW part \in Quantities,
         child.quantity = part, draft.items[i].state # "removed",
         Perform(s, Change(op, i, New,
                           [j \in {i, New} |-> IF j = i THEN Split(draft.items[i], part).rest
                                               ELSE child],
                           <<Event(op, New, draft.items[i].place, child.place)>>))
  PROVE  IInv'
<1>1. PICK rest, from : rest = Split(draft.items[i], part).rest /\ from = draft.items[i].place
  OBVIOUS
<1>2. /\ rest \in Row /\ CoherentRow(rest) /\ rest = Less(draft.items[i], child.quantity)
      /\ rest.status = draft.items[i].status /\ rest.place = draft.items[i].place
      /\ from \in Places
  BY <1>1, SplitIs, LotIs DEF IInv
<1> DEFINE c == Change(op, i, New, [j \in {i, New} |-> IF j = i THEN rest ELSE child],
                       <<Event(op, New, from, child.place)>>)
<1>3. IsChange(c) /\ c.before = None /\ ItemChange(c, draft)
  BY <1>2, OfPart DEF IInv
<1>4. Perform(s, c)
  BY <1>1
<1> HIDE DEF c
<1>5. QED
  BY <1>3, <1>4, PerformDoes

LEMMA MoveItemStep ==
  ASSUME OneSession, IInv, NEW s \in Sessions, NEW i \in Ids, Rows(s)[i] # None, MoveItem(s, i)
  PROVE  IInv'
<1> DEFINE lot == draft.items[i]
<1>1. Rows(s) = draft.items
  BY StoreIs DEF IInv
<1>2. /\ lot \in Row /\ CoherentRow(lot) /\ lot.place \in Places /\ lot # None
      /\ lot.state # "removed"
  BY <1>1, LotIs DEF IInv, MoveItem
<1>3. PICK place \in Locations :
        \/ Perform(s, Change("item_moved", i, i, Only(i, Moved(lot, place)),
                             <<Event("item_moved", i, lot.place, Moved(lot, place).place)>>))
        \/ \E quantity \in Quantities :
             Perform(s, Change("item_moved", i, New,
                [j \in {i, New} |-> IF j = i THEN Split(lot, quantity).rest
                                    ELSE Moved(Split(lot, quantity).part, place)],
                <<Event("item_moved", New, lot.place,
                        Moved(Split(lot, quantity).part, place).place)>>))
  BY <1>1 DEF MoveItem, Portioned
<1>4. PICK op \in ItemOps \ {"create_item"} : op = "item_moved"
  BY DEF ItemOps
<1>5. CASE Perform(s, Change("item_moved", i, i, Only(i, Moved(lot, place)),
                             <<Event("item_moved", i, lot.place, Moved(lot, place).place)>>))
  <2>1. PICK row : row = Moved(lot, place)
    OBVIOUS
  <2>2. row \in Row /\ CoherentRow(row)
    BY <1>2, <2>1, MovedIs
  <2>3. Perform(s, Change(op, i, i, Only(i, row), <<Event(op, i, lot.place, row.place)>>))
    BY <1>4, <1>5, <2>1
  <2>4. QED
    BY <1>2, <1>4, <2>2, <2>3, WholeDoes
<1>6. ASSUME NEW quantity \in Quantities,
             Perform(s, Change("item_moved", i, New,
                [j \in {i, New} |-> IF j = i THEN Split(lot, quantity).rest
                                    ELSE Moved(Split(lot, quantity).part, place)],
                <<Event("item_moved", New, lot.place,
                        Moved(Split(lot, quantity).part, place).place)>>))
      PROVE  IInv'
  <2>1. PICK part, child : part = Split(lot, quantity).part /\ child = Moved(part, place)
    OBVIOUS
  <2>2. part \in Row /\ CoherentRow(part) /\ part.state # "removed" /\ part.quantity = quantity
    BY <1>2, <2>1, SplitIs DEF IInv
  <2>3. child \in Row /\ CoherentRow(child) /\ child.quantity = quantity
    BY <2>1, <2>2, MovedIs
  <2>4. Perform(s, Change(op, i, New,
                [j \in {i, New} |-> IF j = i THEN Split(lot, quantity).rest ELSE child],
                <<Event(op, New, lot.place, child.place)>>))
    BY <1>4, <1>6, <2>1
  <2>5. QED
    BY <1>2, <1>4, <2>3, <2>4, PartDoes
<1>7. QED
  BY <1>3, <1>5, <1>6

LEMMA TakeItemStep ==
  ASSUME OneSession, IInv, NEW s \in Sessions, NEW i \in Ids, Rows(s)[i] # None, TakeItem(s, i)
  PROVE  IInv'
<1> DEFINE lot == draft.items[i]
<1>1. Rows(s) = draft.items
  BY StoreIs DEF IInv
<1>2. /\ lot \in Row /\ CoherentRow(lot) /\ lot.place \in Places /\ lot # None
      /\ lot.state # "removed"
  BY <1>1, LotIs DEF IInv, TakeItem
<1>3. \/ Perform(s, Change("item_taken", i, i, Only(i, Taken(lot)),
                           <<Event("item_taken", i, lot.place, Taken(lot).place)>>))
      \/ \E quantity \in Quantities :
           Perform(s, Change("item_taken", i, New,
              [j \in {i, New} |-> IF j = i THEN Split(lot, quantity).rest
                                  ELSE Taken(Split(lot, quantity).part)],
              <<Event("item_taken", New, lot.place, Taken(Split(lot, quantity).part).place)>>))
  BY <1>1 DEF TakeItem, Portioned
<1>4. PICK op \in ItemOps \ {"create_item"} : op = "item_taken"
  BY DEF ItemOps
<1>5. CASE Perform(s, Change("item_taken", i, i, Only(i, Taken(lot)),
                             <<Event("item_taken", i, lot.place, Taken(lot).place)>>))
  <2>1. PICK row : row = Taken(lot)
    OBVIOUS
  <2>2. row \in Row /\ CoherentRow(row) /\ row.status # "known"
    BY <1>2, <2>1, TakenIs
  <2>3. Perform(s, Change(op, i, i, Only(i, row), <<Event(op, i, lot.place, row.place)>>))
    BY <1>4, <1>5, <2>1
  <2>4. QED
    BY <1>2, <1>4, <2>2, <2>3, WholeDoes
<1>6. ASSUME NEW quantity \in Quantities,
             Perform(s, Change("item_taken", i, New,
                [j \in {i, New} |-> IF j = i THEN Split(lot, quantity).rest
                                    ELSE Taken(Split(lot, quantity).part)],
                <<Event("item_taken", New, lot.place, Taken(Split(lot, quantity).part).place)>>))
      PROVE  IInv'
  <2>1. PICK part, child : part = Split(lot, quantity).part /\ child = Taken(part)
    OBVIOUS
  <2>2. part \in Row /\ CoherentRow(part) /\ part.state # "removed" /\ part.quantity = quantity
    BY <1>2, <2>1, SplitIs DEF IInv
  <2>3. child \in Row /\ CoherentRow(child) /\ child.status # "known" /\ child.quantity = quantity
    BY <2>1, <2>2, TakenIs
  <2>4. Perform(s, Change(op, i, New,
                [j \in {i, New} |-> IF j = i THEN Split(lot, quantity).rest ELSE child],
                <<Event(op, New, lot.place, child.place)>>))
    BY <1>4, <1>6, <2>1
  <2>5. QED
    BY <1>2, <1>4, <2>3, <2>4, PartDoes
<1>7. QED
  BY <1>3, <1>5, <1>6

LEMMA RemoveItemStep ==
  ASSUME OneSession, IInv, NEW s \in Sessions, NEW i \in Ids, Rows(s)[i] # None, RemoveItem(s, i)
  PROVE  IInv'
<1> DEFINE lot == draft.items[i]
<1>1. Rows(s) = draft.items
  BY StoreIs DEF IInv
<1>2. /\ lot \in Row /\ CoherentRow(lot) /\ lot.place \in Places /\ lot # None
      /\ lot.state # "removed"
  BY <1>1, LotIs DEF IInv, RemoveItem
<1>3. \/ Perform(s, Change("item_removed", i, i, Only(i, Removed(lot)),
                           <<Event("item_removed", i, lot.place, Removed(lot).place)>>))
      \/ \E quantity \in Quantities :
           Perform(s, Change("item_removed", i, New,
              [j \in {i, New} |-> IF j = i THEN Split(lot, quantity).rest
                                  ELSE Removed(Split(lot, quantity).part)],
              <<Event("item_removed", New, lot.place, Removed(Split(lot, quantity).part).place)>>))
  BY <1>1 DEF RemoveItem, Portioned
<1>4. PICK op \in ItemOps \ {"create_item"} : op = "item_removed"
  BY DEF ItemOps
<1>5. CASE Perform(s, Change("item_removed", i, i, Only(i, Removed(lot)),
                             <<Event("item_removed", i, lot.place, Removed(lot).place)>>))
  <2>1. PICK row : row = Removed(lot)
    OBVIOUS
  <2>2. row \in Row /\ CoherentRow(row) /\ row.status # "known"
    BY <1>2, <2>1, RemovedIs
  <2>3. Perform(s, Change(op, i, i, Only(i, row), <<Event(op, i, lot.place, row.place)>>))
    BY <1>4, <1>5, <2>1
  <2>4. QED
    BY <1>2, <1>4, <2>2, <2>3, WholeDoes
<1>6. ASSUME NEW quantity \in Quantities,
             Perform(s, Change("item_removed", i, New,
                [j \in {i, New} |-> IF j = i THEN Split(lot, quantity).rest
                                    ELSE Removed(Split(lot, quantity).part)],
                <<Event("item_removed", New, lot.place, Removed(Split(lot, quantity).part).place)>>))
      PROVE  IInv'
  <2>1. PICK part, child : part = Split(lot, quantity).part /\ child = Removed(part)
    OBVIOUS
  <2>2. part \in Row /\ CoherentRow(part) /\ part.quantity = quantity
    BY <1>2, <2>1, SplitIs DEF IInv
  <2>3. child \in Row /\ CoherentRow(child) /\ child.status # "known" /\ child.quantity = quantity
    BY <2>1, <2>2, RemovedIs
  <2>4. Perform(s, Change(op, i, New,
                [j \in {i, New} |-> IF j = i THEN Split(lot, quantity).rest ELSE child],
                <<Event(op, New, lot.place, child.place)>>))
    BY <1>4, <1>6, <2>1
  <2>5. QED
    BY <1>2, <1>4, <2>3, <2>4, PartDoes
<1>7. QED
  BY <1>3, <1>5, <1>6

LEMMA MarkLocationUnknownStep ==
  ASSUME OneSession, IInv, NEW s \in Sessions, NEW i \in Ids, Rows(s)[i] # None,
         MarkLocationUnknown(s, i)
  PROVE  IInv'
<1> DEFINE lot == draft.items[i]
<1>1. Rows(s) = draft.items
  BY StoreIs DEF IInv
<1>2. /\ lot \in Row /\ CoherentRow(lot) /\ lot.place \in Places /\ lot # None
      /\ lot.state # "removed"
  BY <1>1, LotIs DEF IInv, MarkLocationUnknown
<1>3. PICK op \in ItemOps \ {"create_item"} : op = "item_location_unknown"
  BY DEF ItemOps
<1>4. PICK row : row = Lost(lot)
  OBVIOUS
<1>5. row \in Row /\ CoherentRow(row) /\ row.status # "known" /\ row.place = None
  BY <1>2, <1>4, LostIs
<1>6. Perform(s, Change("item_location_unknown", i, i, Only(i, Lost(lot)),
                        <<Event("item_location_unknown", i, lot.place, None)>>))
  BY <1>1 DEF MarkLocationUnknown
<1>7. Perform(s, Change(op, i, i, Only(i, row), <<Event(op, i, lot.place, row.place)>>))
  BY <1>3, <1>4, <1>5, <1>6
<1>8. QED
  BY <1>2, <1>5, <1>7, WholeDoes

LEMMA RestoreItemStep ==
  ASSUME OneSession, IInv, NEW s \in Sessions, NEW i \in Ids, Rows(s)[i] # None, RestoreItem(s, i)
  PROVE  IInv'
<1> DEFINE lot == draft.items[i]
<1>1. Rows(s) = draft.items
  BY StoreIs DEF IInv
<1>2. lot \in Row /\ CoherentRow(lot) /\ lot # None
  BY <1>1, LotIs DEF IInv
<1>3. PICK state \in Active, place \in Places :
        Perform(s, Change("item_restored", i, i, Only(i, Restored(lot, state, place)),
                          <<Event("item_restored", i, None, place)>>))
  BY <1>1 DEF RestoreItem
<1>4. PICK op \in ItemOps \ {"create_item"} : op = "item_restored"
  BY DEF ItemOps
<1>5. PICK row : row = Restored(lot, state, place)
  OBVIOUS
<1>6. row \in Row /\ CoherentRow(row) /\ row.place = place
  BY <1>2, <1>5, RestoredIs
<1>7. PICK from \in Places : from = None
  BY DEF Places
<1>8. Perform(s, Change(op, i, i, Only(i, row), <<Event(op, i, from, row.place)>>))
  BY <1>3, <1>4, <1>5, <1>6, <1>7
<1>9. op # "item_taken"
  BY <1>4
<1>10. QED
  BY <1>2, <1>6, <1>8, <1>9, WholeDoes

LEMMA AttachPhotoStep ==
  ASSUME OneSession, IInv, NEW s \in Sessions, AttachPhoto(s)
  PROVE  IInv'
<1>1. Rows(s) = draft.items
  BY StoreIs DEF IInv
<1>2. PICK i \in Ids, reference \in References, note \in BOOLEAN :
        /\ Rows(s)[i] # None
        /\ Perform(s, PhotoChange("attach_item_photo", i, New,
                                  [item |-> i, reference |-> reference, note |-> note]))
  BY DEF AttachPhoto
<1>3. PICK photo : photo = [item |-> i, reference |-> reference, note |-> note]
  OBVIOUS
<1>4. photo \in Photo /\ photo.item = i
  BY <1>3 DEF Photo
<1> DEFINE c == PhotoChange("attach_item_photo", i, New, photo)
<1>5. /\ IsChange(c) /\ c.op = "attach_item_photo" /\ c.source = i /\ c.entity = New
      /\ c.new = << >> /\ c.events = << >> /\ c.before = None
      /\ DOMAIN c.photos = {New} /\ c.photos[New] = photo
  BY PhotoChangeIs
<1>6. Perform(s, c)
  BY <1>2, <1>3
<1> HIDE DEF c
<1>7. PhotoChanged(c, draft)
  BY <1>1, <1>2, <1>4, <1>5 DEF PhotoChanged, PhotoOps
<1>8. QED
  BY <1>5, <1>6, <1>7, PerformDoes

LEMMA PhotoIs ==
  ASSUME RowsInv, NEW p \in PhotoIds, draft.photos[p] # None
  PROVE  /\ draft.photos[p] \in Photo /\ draft.photos[p].item \in Ids
         /\ draft.items[draft.photos[p].item] # None
BY DEF RowsInv, StoreInv, StoreType, Owned, Photo

LEMMA UpdatePhotoStep ==
  ASSUME OneSession, IInv, NEW s \in Sessions, NEW p \in PhotoIds, Photos(s)[p] # None,
         UpdatePhoto(s, p)
  PROVE  IInv'
<1>1. Photos(s) = draft.photos
  BY StoreIs DEF IInv
<1>2. PICK old : old = draft.photos[p]
  OBVIOUS
<1>3. old \in Photo /\ old.item \in Ids /\ draft.items[old.item] # None /\ old # None
  BY <1>1, <1>2, PhotoIs DEF IInv
<1>4. PICK photo : photo = [old EXCEPT !.note = ~@]
  OBVIOUS
<1>5. photo \in Photo /\ photo.item = old.item /\ photo.reference = old.reference
  BY <1>3, <1>4 DEF Photo
<1> DEFINE c == PhotoChange("update_item_photo", old.item, p, photo)
<1>6. /\ IsChange(c) /\ c.op = "update_item_photo" /\ c.source = old.item /\ c.entity = p
      /\ c.new = << >> /\ c.events = << >> /\ c.before = None
      /\ DOMAIN c.photos = {p} /\ c.photos[p] = photo
  BY PhotoChangeIs
<1>7. ChangePhoto(s, c)
  BY <1>1, <1>2, <1>4 DEF UpdatePhoto
<1>8. p # New
  BY Numbers
<1> HIDE DEF c
<1>9. PhotoChanged(c, draft)
  BY <1>2, <1>3, <1>5, <1>6, <1>8 DEF PhotoChanged, PhotoOps
<1>10. QED
  BY <1>6, <1>7, <1>9, ChangePhotoDoes

LEMMA DetachPhotoStep ==
  ASSUME OneSession, IInv, NEW s \in Sessions, NEW p \in PhotoIds, Photos(s)[p] # None,
         DetachPhoto(s, p)
  PROVE  IInv'
<1>1. Photos(s) = draft.photos
  BY StoreIs DEF IInv
<1>2. PICK old : old = draft.photos[p]
  OBVIOUS
<1>3. old \in Photo /\ old.item \in Ids /\ draft.items[old.item] # None /\ old # None
  BY <1>1, <1>2, PhotoIs DEF IInv
<1> DEFINE c == PhotoChange("detach_item_photo", old.item, p, None)
<1>4. /\ IsChange(c) /\ c.op = "detach_item_photo" /\ c.source = old.item /\ c.entity = p
      /\ c.new = << >> /\ c.events = << >> /\ c.before = None
      /\ DOMAIN c.photos = {p} /\ c.photos[p] = None
  BY PhotoChangeIs
<1>5. ChangePhoto(s, c)
  BY <1>1, <1>2 DEF DetachPhoto
<1>6. p # New
  BY Numbers
<1> HIDE DEF c
<1>7. PhotoChanged(c, draft)
  BY <1>2, <1>3, <1>4, <1>6 DEF PhotoChanged, PhotoOps
<1>8. QED
  BY <1>4, <1>5, <1>7, ChangePhotoDoes

LEMMA UndoStep ==
  ASSUME OneSession, IInv, NEW s \in Sessions, UndoLastAction(s)
  PROVE  IInv'
<1> DEFINE receipts == lastRun[turn[s].conversation]
           done == Compensated(draft, receipts)
           c == Compensation(receipts, done)
<1>1. Store(s) = draft
  BY StoreIs DEF IInv
<1>2. /\ turn[s].conversation # None /\ receipts # << >>
      /\ \A n \in 1 .. Len(receipts) : Supported(receipts[n])
      /\ done.ok /\ Plan(s, c)
  BY <1>1 DEF UndoLastAction
<1>3. receipts \in Seq(Receipts)
  BY <1>2, TurnIs DEF IInv, Shapes
<1>4. UndoChange(s, c)
  BY <1>2, <1>3 DEF UndoChange
<1>5. IsChange(c)
  <2>1. PICK items, new, pictures :
               /\ items = Affected(receipts) \cup Parents(receipts)
               /\ new = [j \in items |-> done.rows[j]]
               /\ pictures = [p \in Pictured(receipts) |-> done.photos[p]]
    OBVIOUS
  <2>2. PICK none : none = << >>
    OBVIOUS
  <2>3. c = [[op |-> "undo_last_action", source |-> Min(items), entity |-> Min(items),
              new |-> new, events |-> done.events, photos |-> none, before |-> None]
             EXCEPT !.photos = pictures]
    BY <2>1, <2>2 DEF Compensation, Change
  <2>4. c = [op |-> "undo_last_action", source |-> Min(items), entity |-> Min(items),
             new |-> new, events |-> done.events, photos |-> pictures, before |-> None]
    <3> HIDE DEF c, done
    <3>1. QED
      BY <2>3
  <2> HIDE DEF c
  <2>5. QED
    BY <2>4 DEF IsChange
<1> HIDE DEF c
<1>6. Flushable(s, c)
  BY <1>4, <1>5 DEF Flushable
<1>7. Await(s, c) /\ calls' = calls + 1 /\ calls < MaxCalls
  BY <1>2 DEF Plan
<1>8. calls' \in 0 .. MaxCalls
  <2>1. calls \in 0 .. MaxCalls
    BY TurnIs
  <2>2. QED
    BY <1>7, <2>1, Numbers
<1>9. QED
  BY <1>6, <1>7, <1>8, AwaitStep

LEMMA CallStep ==
  ASSUME OneSession, IInv, NEW s \in Sessions, Call(s)
  PROVE  IInv'
<1>1. CASE Look(s)
  BY <1>1, LookStep
<1>2. CASE CreateItem(s)
  BY <1>2, CreateItemStep
<1>3. CASE CreateNode(s)
  BY <1>3, CreateNodeStep
<1>4. CASE AttachPhoto(s)
  BY <1>4, AttachPhotoStep
<1>5. CASE UndoLastAction(s)
  BY <1>5, UndoStep
<1>6. ASSUME NEW i \in Ids, Rows(s)[i] # None,
             \/ UpdateItem(s, i) \/ ChangeQuantity(s, i) \/ MoveItem(s, i) \/ TakeItem(s, i)
             \/ MarkLocationUnknown(s, i) \/ RemoveItem(s, i) \/ RestoreItem(s, i)
      PROVE  IInv'
  BY <1>6, UpdateItemStep, ChangeQuantityStep, MoveItemStep, TakeItemStep,
     MarkLocationUnknownStep, RemoveItemStep, RestoreItemStep
<1>7. ASSUME NEW p \in PhotoIds, Photos(s)[p] # None, UpdatePhoto(s, p) \/ DetachPhoto(s, p)
      PROVE  IInv'
  BY <1>7, UpdatePhotoStep, DetachPhotoStep
<1>8. QED
  BY <1>1, <1>2, <1>3, <1>4, <1>5, <1>6, <1>7 DEF Call

LEMMA Initially ==
  ASSUME OneSession, Init
  PROVE  IInv
<1>1. PICK place \in Places, quantity \in Quantities, reference \in References :
        committed = [Bare EXCEPT
          !.items[1] = Created(place, quantity), !.lastKnown[1] = place,
          !.photos[1] = [item |-> 1, reference |-> reference, note |-> FALSE]]
  BY DEF Init
<1>2. PICK row, photo : row = Created(place, quantity)
        /\ photo = [item |-> 1, reference |-> reference, note |-> FALSE]
  OBVIOUS
<1>3. 1 \in Ids /\ 1 \in PhotoIds
  BY Numbers DEF Ids, PhotoIds
<1>4. row \in Row /\ CoherentRow(row) /\ row.place = place /\ photo \in Photo /\ photo.item = 1
  BY <1>2, <1>3, CreatedIs, ConstantsAssumption DEF Photo
<1> DEFINE rows == [Empty EXCEPT ![1] = row]
           known == [Empty EXCEPT ![1] = place]
           photos == [[p \in PhotoIds |-> None] EXCEPT ![1] = photo]
<1>5. committed = [items |-> rows, lastKnown |-> known, photos |-> photos]
  <2>1. PICK none : none = [p \in PhotoIds |-> None]
    OBVIOUS
  <2>2. committed = [[items |-> Empty, lastKnown |-> Empty, photos |-> none] EXCEPT
          !.items[1] = row, !.lastKnown[1] = place, !.photos[1] = photo]
    BY <1>1, <1>2, <2>1 DEF Bare
  <2>3. QED
    BY <2>1, <2>2
<1>6. /\ \A i \in Ids : rows[i] = IF i = 1 THEN row ELSE None
      /\ \A i \in Ids : known[i] = IF i = 1 THEN place ELSE None
      /\ \A p \in PhotoIds : photos[p] = IF p = 1 THEN photo ELSE None
  BY DEF Empty
<1>7. /\ rows \in [Ids -> Row \cup {None}] /\ known \in [Ids -> Places]
      /\ photos \in [PhotoIds -> Photo \cup {None}]
  BY <1>4 DEF Empty, Places
<1> HIDE DEF rows, known, photos
<1>8. StoreInv(committed)
  <2>1. committed \in StoreType
    BY <1>5, <1>7 DEF StoreType
  <2>2. Sound(rows, known)
    BY <1>4, <1>6 DEF Sound
  <2>3. Unique(photos)
    BY <1>6 DEF Unique
  <2>4. Owned(photos, rows)
    BY <1>3, <1>4, <1>6, RowIs DEF Owned
  <2>5. QED
    BY <1>5, <2>1, <2>2, <2>3, <2>4 DEF StoreInv
<1>9. /\ draft = committed /\ writer = None /\ calls = 0 /\ overtaken = {}
      /\ lastRun = [v \in Conversations |-> << >>]
      /\ turn = [s \in Sessions |-> Idle]
      /\ around = [v \in Conversations |-> [before |-> Bare, after |-> Bare]]
  BY DEF Init
<1>10. << >> \in Seq(Receipts)
  OBVIOUS
<1>11. /\ \A s \in Sessions : turn[s] = Idle
       /\ \A v \in Conversations : lastRun[v] = << >>
            /\ around[v].before = Bare /\ around[v].after = Bare
  BY <1>9
<1>12. Idle.stage = "idle" /\ Idle.receipts = << >> /\ Idle.conversation = None
  BY DEF Idle
<1>13. TypeOK
  <2>1. committed \in StoreType
    BY <1>8 DEF StoreInv
  <2>2. calls \in 0 .. MaxCalls
    BY <1>9, Numbers
  <2>3. Len(<< >>) = 0 /\ 1 .. 0 = {}
    OBVIOUS
  <2>4. QED
    BY <1>9, <1>11, <1>12, <2>1, <2>2, <2>3, BareIs DEF TypeOK
<1>14. Shapes
  <2>1. lastRun \in [Conversations -> Seq(Receipts)]
    BY <1>9, <1>10
  <2>2. around \in [Conversations -> [before : StoreType, after : StoreType]]
    <3>1. PICK ends \in [before : StoreType, after : StoreType] :
                 ends = [before |-> Bare, after |-> Bare]
      BY BareIs
    <3>2. around = [v \in Conversations |-> ends]
      BY <1>9, <3>1
    <3>3. QED
      BY <3>1, <3>2
  <2>3. turn = [s \in Sessions |-> turn[s]]
    BY <1>9
  <2>4. Idle \in [stage : {"idle", "open", "looked", "flushing"},
                  conversation : Conversations \cup {None}, receipts : Seq(Receipts),
                  plan : {Idle.plan}, seen : {Idle.seen}]
    <3>1. PICK empty \in Seq(Receipts) : empty = << >>
      BY <1>10
    <3>2. Idle = [stage |-> "idle", conversation |-> None, receipts |-> empty, plan |-> None,
                  seen |-> None]
      BY <3>1 DEF Idle
    <3>3. QED
      BY <3>1, <3>2
  <2>5. QED
    BY <1>11, <2>1, <2>2, <2>3, <2>4 DEF Shapes
<1>15. RowsInv
  BY <1>8, <1>9 DEF RowsInv, Later
<1>16. ReceiptsInv
  <2>1. DOMAIN << >> = {}
    OBVIOUS
  <2>2. QED
    BY <1>11, <1>12, <2>1 DEF ReceiptsInv
<1>17. LeftInv
  <2>1. Left(<< >>, draft) /\ Left(<< >>, Bare)
    BY NothingLeft
  <2>2. QED
    BY <1>11, <1>12, <2>1 DEF LeftInv
<1>18. BegunInv
  <2>1. Begun(<< >>, Bare) /\ Chained(<< >>)
    BY NothingLeft
  <2>2. Untouched(<< >>, committed, draft)
    BY <1>9 DEF Untouched
  <2>3. QED
    BY <1>11, <1>12, <2>1, <2>2 DEF BegunInv
<1>19. FlushInv /\ LookInv
  BY <1>11, <1>12 DEF FlushInv, LookInv
<1>20. QED
  BY <1>13, <1>14, <1>15, <1>16, <1>17, <1>18, <1>19 DEF IInv

LEMMA Inductive ==
  ASSUME OneSession, IInv, [Next]_vars
  PROVE  IInv'
<1>1. ASSUME NEW s \in Sessions, Begin(s) \/ Call(s) \/ Flush(s) \/ Commit(s) \/ Abort(s)
      PROVE  IInv'
  BY <1>1, BeginStep, CallStep, FlushStep, CommitStep, AbortStep
<1>2. CASE UNCHANGED vars
  <2>1. /\ committed' = committed /\ draft' = draft /\ writer' = writer /\ lastRun' = lastRun
        /\ turn' = turn /\ calls' = calls /\ around' = around /\ overtaken' = overtaken
    BY <1>2 DEF vars
  <2>2. TypeOK' /\ Shapes' /\ RowsInv'
    BY <2>1 DEF IInv, TypeOK, Shapes, RowsInv
  <2>3. ReceiptsInv' /\ LeftInv' /\ BegunInv' /\ LookInv'
    BY <2>1 DEF IInv, ReceiptsInv, LeftInv, BegunInv, LookInv
  <2>4. FlushInv'
    BY <2>1 DEF IInv, FlushInv, Flushable, UndoChange, Read, Rows, Store
  <2>5. QED
    BY <2>2, <2>3, <2>4 DEF IInv
<1>3. QED
  BY <1>1, <1>2 DEF Next

(***************************************************************************)
(* The invariant holds in every state.                                     *)
(***************************************************************************)
THEOREM Invariance == ASSUME OneSession PROVE Spec => []IInv
<1>1. Init => IInv
  BY Initially
<1>2. IInv /\ [Next]_vars => IInv'
  BY Inductive
<1>3. QED
  BY <1>1, <1>2, PTL DEF Spec

(***************************************************************************)
(* Whatever a session creates, moves, splits, removes, restores or takes   *)
(* back, a row says one thing about where its item is, the history of the  *)
(* item ends there, and no item has a photo twice.                         *)
(***************************************************************************)
THEOREM RowsStayCoherent == ASSUME OneSession PROVE Spec => []RowsAreCoherent
<1>1. IInv => RowsAreCoherent
  <2> SUFFICES ASSUME IInv PROVE RowsAreCoherent
    OBVIOUS
  <2>1. TypeOK /\ Sound(draft.items, draft.lastKnown) /\ Unique(draft.photos)
    BY DEF IInv, RowsInv, StoreInv
  <2>2. \A i \in Ids :
          draft.items[i] # None => CoherentRow(draft.items[i]) /\ HistoryAgrees(i)
    BY <2>1 DEF Sound, HistoryAgrees
  <2>3. QED
    BY <2>1, <2>2 DEF RowsAreCoherent, Unique
<1>2. QED
  BY <1>1, Invariance, PTL

-----------------------------------------------------------------------------
(* Undo                                                                    *)

\* The n-th step of a compensation found what its receipt says.
Back(d, receipts, n) ==
  LET r == receipts[Len(receipts) + 1 - n] IN
  /\ d[n - 1].ok
  /\ r \in Receipts /\ (ItemReceipt(r) \/ PhotoReceipt(r))
  /\ ItemReceipt(r) =>
       /\ Fits(d[n - 1].rows, r) /\ d[n].photos = d[n - 1].photos
       /\ d[n].rows = [d[n - 1].rows EXCEPT ![r.entity] = Target(d[n - 1].rows[r.entity], r)]
  /\ PhotoReceipt(r) =>
       /\ PhotoFits(d[n - 1].photos, r) /\ d[n].rows = d[n - 1].rows
       /\ d[n].photos = [d[n - 1].photos EXCEPT ![r.entity] =
                           IF r.op = "attach_item_photo" THEN None ELSE r.before]

LEMMA OneBack ==
  ASSUME NEW store, NEW receipts, Legible(receipts, store.items), NEW d,
         Run(d, store, receipts), NEW n \in 1 .. Len(receipts),
         Sane(d[n - 1], store, receipts), d[n].ok
  PROVE  Back(d, receipts, n)
<1> DEFINE k == Len(receipts) + 1 - n
           r == receipts[k]
<1>0. Len(receipts) \in Nat /\ DOMAIN receipts = 1 .. Len(receipts) /\ k \in DOMAIN receipts
  BY DEF Legible
<1>1. r \in Receipts /\ (ItemReceipt(r) \/ PhotoReceipt(r))
  BY <1>0 DEF Legible, Undoable
<1>2. PICK was : was = d[n - 1]
  OBVIOUS
<1>3. PICK now : now = d[n] /\ now = Compensate(was, r)
  BY <1>2 DEF Run
<1>4. was = [ok |-> was.ok, rows |-> was.rows, photos |-> was.photos, events |-> was.events]
      /\ was.ok \in BOOLEAN
  BY <1>2 DEF Sane
<1> HIDE DEF r
<1>5. was.ok
  BY <1>2, <1>3 DEF Compensate
<1>6. [was EXCEPT !.ok = FALSE].ok = FALSE
  <2>1. PICK no \in BOOLEAN : no = FALSE
    OBVIOUS
  <2>2. [was EXCEPT !.ok = no].ok = no
    BY <1>4
  <2>3. QED
    BY <2>1, <2>2
<1>7. ASSUME ItemReceipt(r)
      PROVE  /\ Fits(was.rows, r) /\ now.photos = was.photos
             /\ now.rows = [was.rows EXCEPT ![r.entity] = Target(was.rows[r.entity], r)]
  <2>1. r.op \notin PhotoOps
    BY <1>7 DEF ItemReceipt, ItemOps, PhotoOps
  <2>2. Fits(was.rows, r)
    BY <1>3, <1>5, <1>6, <2>1 DEF Compensate
  <2>3. now = RestoreSnapshot(was, r.entity, Target(was.rows[r.entity], r))
    BY <1>3, <1>5, <2>1, <2>2 DEF Compensate
  <2>4. PICK i, target, e : /\ i = r.entity /\ target = Target(was.rows[r.entity], r)
                            /\ e = Event("item_undo_compensated", i, was.rows[i].place, target.place)
    OBVIOUS
  <2>5. now = [was EXCEPT !.rows[i] = target, !.events = Append(@, e)]
    BY <2>3, <2>4 DEF RestoreSnapshot
  <2>6. now = [ok |-> was.ok, rows |-> [was.rows EXCEPT ![i] = target], photos |-> was.photos,
               events |-> Append(was.events, e)]
    BY <1>4, <2>5
  <2>7. QED
    BY <2>2, <2>4, <2>6
<1>8. ASSUME PhotoReceipt(r)
      PROVE  /\ PhotoFits(was.photos, r) /\ now.rows = was.rows
             /\ now.photos = [was.photos EXCEPT ![r.entity] =
                                IF r.op = "attach_item_photo" THEN None ELSE r.before]
  <2>1. r.op \in PhotoOps
    BY <1>8 DEF PhotoReceipt
  <2>2. now = CompensatePhoto(was, r)
    BY <1>3, <1>5, <2>1 DEF Compensate
  <2>3. PICK p, photo : p = r.entity /\ photo = IF r.op = "attach_item_photo" THEN None ELSE r.before
    OBVIOUS
  <2>4. PhotoFits(was.photos, r) /\ now = [was EXCEPT !.photos[p] = photo]
    BY <1>3, <1>6, <2>2, <2>3 DEF CompensatePhoto
  <2>5. now = [ok |-> was.ok, rows |-> was.rows, photos |-> [was.photos EXCEPT ![p] = photo],
               events |-> was.events]
    BY <1>4, <2>4
  <2>6. QED
    BY <2>3, <2>4, <2>5
<1>9. QED
  BY <1>1, <1>2, <1>3, <1>5, <1>7, <1>8 DEF Back, r

\* A compensation that has found nothing in its way.
Undone(d, store, receipts) ==
  /\ Legible(receipts, store.items) /\ Len(receipts) \in Nat
  /\ Run(d, store, receipts)
  /\ \A n \in 0 .. Len(receipts) : Sane(d[n], store, receipts) /\ d[n].ok

LEMMA AllOk ==
  ASSUME NEW store, NEW receipts, Legible(receipts, store.items), NEW d,
         Run(d, store, receipts),
         \A n \in 0 .. Len(receipts) : Sane(d[n], store, receipts), d[Len(receipts)].ok
  PROVE  Undone(d, store, receipts)
<1> DEFINE N == Len(receipts)
           Good == {m \in 0 .. N : d[N - m].ok}
           Bad == {m \in 0 .. N : ~ d[N - m].ok}
<1>0. N \in Nat
  BY DEF Legible
<1>1. Bad = {}
  <2> SUFFICES ASSUME Bad # {} PROVE FALSE
    OBVIOUS
  <2>1. PICK m \in Bad : \A k \in Bad : m <= k
    <3>1. Bad \subseteq Nat
      BY <1>0
    <3> HIDE DEF Bad
    <3>2. QED
      BY <3>1, LeastNumber
  <2>2. m # 0
    BY <1>0, <2>1
  <2>3. m \in 1 .. N /\ m - 1 \in 0 .. N /\ m - 1 \notin Bad
    BY <1>0, <2>1, <2>2
  <2>4. d[N - (m - 1)].ok
    BY <2>3
  <2>5. PICK n \in 1 .. N : n = N - (m - 1) /\ n - 1 = N - m
    BY <1>0, <2>3
  <2>6. d[n].ok /\ Sane(d[n - 1], store, receipts)
    BY <1>0, <2>4, <2>5
  <2>7. d[n - 1].ok
    BY <2>6, OneBack DEF Back
  <2>8. QED
    BY <2>1, <2>5, <2>7
<1>2. ASSUME NEW n \in 0 .. N
      PROVE  d[n].ok
  <2>1. N - n \in 0 .. N /\ N - (N - n) = n
    BY <1>0
  <2>2. N - n \notin Bad
    BY <1>1
  <2>3. QED
    BY <2>1, <2>2
<1>3. QED
  BY <1>0, <1>2 DEF Undone

\* From one step of a compensation to a later one.
Spares(d, receipts, a, b) ==
  /\ \A i \in Ids :
       (\A m \in 1 .. Len(receipts) :
          Len(receipts) + 1 - b <= m /\ m <= Len(receipts) - a =>
            i \notin DOMAIN receipts[m].after) =>
       d[b].rows[i] = d[a].rows[i]
  /\ \A p \in PhotoIds :
       (\A m \in 1 .. Len(receipts) :
          Len(receipts) + 1 - b <= m /\ m <= Len(receipts) - a =>
            p \notin DOMAIN receipts[m].photos) =>
       d[b].photos[p] = d[a].photos[p]

\* What a stretch of the receipts is not about stays as it is.
LEMMA Spared ==
  ASSUME NEW store, NEW receipts, NEW d, Undone(d, store, receipts),
         NEW a \in 0 .. Len(receipts)
  PROVE  \A b \in a .. Len(receipts) : Spares(d, receipts, a, b)
<1> DEFINE N == Len(receipts)
           Between(b, m) == N + 1 - b <= m /\ m <= N - a
           Same(b) ==
             /\ \A i \in Ids : (\A m \in 1 .. N : Between(b, m) => i \notin DOMAIN receipts[m].after) =>
                  d[b].rows[i] = d[a].rows[i]
             /\ \A p \in PhotoIds :
                  (\A m \in 1 .. N : Between(b, m) => p \notin DOMAIN receipts[m].photos) =>
                  d[b].photos[p] = d[a].photos[p]
           Bad == {b \in a .. N : ~ Same(b)}
<1> USE DEF Spares
<1>0. N \in Nat /\ a \in Nat /\ a <= N
  BY DEF Undone
<1> SUFFICES ASSUME Bad # {} PROVE FALSE
  OBVIOUS
<1>1. PICK b \in Bad : \A k \in Bad : b <= k
  <2>1. Bad \subseteq Nat
    BY <1>0
  <2> HIDE DEF Bad
  <2>2. QED
    BY <2>1, LeastNumber
<1>2. b # a
  BY <1>1
<1>3. b \in 1 .. N /\ b - 1 \in a .. N /\ b - 1 \notin Bad /\ b \in a .. N /\ a < b
  BY <1>0, <1>1, <1>2
<1>4. Same(b - 1)
  BY <1>3
<1> DEFINE k == N + 1 - b
           r == receipts[k]
<1>5. k \in 1 .. N /\ Between(b, k)
  BY <1>0, <1>3
<1>6. \A m \in 1 .. N : Between(b - 1, m) => Between(b, m)
  BY <1>0, <1>3
<1>7. /\ r \in Receipts /\ (ItemReceipt(r) \/ PhotoReceipt(r))
      /\ ItemReceipt(r) =>
           /\ d[b].photos = d[b - 1].photos
           /\ d[b].rows = [d[b - 1].rows EXCEPT ![r.entity] = Target(d[b - 1].rows[r.entity], r)]
      /\ PhotoReceipt(r) =>
           /\ d[b].rows = d[b - 1].rows
           /\ d[b].photos = [d[b - 1].photos EXCEPT ![r.entity] =
                               IF r.op = "attach_item_photo" THEN None ELSE r.before]
  <2>1. Sane(d[b - 1], store, receipts) /\ d[b].ok /\ Legible(receipts, store.items)
        /\ Run(d, store, receipts)
    BY <1>0, <1>3 DEF Undone
  <2>2. Back(d, receipts, b)
    BY <1>3, <2>1, OneBack
  <2>3. QED
    BY <2>2 DEF Back
<1>8. d[b - 1].rows \in [Ids -> Row \cup {None}] /\ d[b - 1].photos \in [PhotoIds -> Photo \cup {None}]
  <2>1. Sane(d[b - 1], store, receipts)
    BY <1>0, <1>3 DEF Undone
  <2>2. QED
    BY <2>1 DEF Sane
<1> HIDE DEF r
<1>9. ASSUME NEW i \in Ids, \A m \in 1 .. N : Between(b, m) => i \notin DOMAIN receipts[m].after
      PROVE  d[b].rows[i] = d[a].rows[i]
  <2>1. d[b - 1].rows[i] = d[a].rows[i]
    <3>1. \A m \in 1 .. N : Between(b - 1, m) => i \notin DOMAIN receipts[m].after
      BY <1>6, <1>9
    <3> HIDE DEF Between
    <3>2. QED
      BY <1>4, <3>1
  <2>2. i \notin DOMAIN r.after
    BY <1>5, <1>9 DEF r
  <2>3. d[b].rows[i] = d[b - 1].rows[i]
    <3>1. CASE ItemReceipt(r)
      <4>1. i # r.entity
        BY <2>2, <3>1 DEF ItemReceipt
      <4>2. PICK was, e, target : was = d[b - 1].rows /\ e = r.entity /\ target = Target(was[e], r)
        OBVIOUS
      <4>3. d[b].rows = [was EXCEPT ![e] = target]
        BY <1>7, <3>1, <4>2
      <4>4. QED
        BY <4>1, <4>2, <4>3, <1>8
    <3>2. CASE PhotoReceipt(r)
      BY <1>7, <3>2
    <3>3. QED
      BY <1>7, <3>1, <3>2
  <2>4. QED
    BY <2>1, <2>3
<1>10. ASSUME NEW p \in PhotoIds, \A m \in 1 .. N : Between(b, m) => p \notin DOMAIN receipts[m].photos
       PROVE  d[b].photos[p] = d[a].photos[p]
  <2>1. d[b - 1].photos[p] = d[a].photos[p]
    <3>1. \A m \in 1 .. N : Between(b - 1, m) => p \notin DOMAIN receipts[m].photos
      BY <1>6, <1>10
    <3> HIDE DEF Between
    <3>2. QED
      BY <1>4, <3>1
  <2>2. p \notin DOMAIN r.photos
    BY <1>5, <1>10 DEF r
  <2>3. d[b].photos[p] = d[b - 1].photos[p]
    <3>1. CASE PhotoReceipt(r)
      <4>1. p # r.entity
        BY <2>2, <3>1 DEF PhotoReceipt
      <4>2. PICK was, e, photo : was = d[b - 1].photos /\ e = r.entity
                                 /\ photo = IF r.op = "attach_item_photo" THEN None ELSE r.before
        OBVIOUS
      <4>3. d[b].photos = [was EXCEPT ![e] = photo]
        BY <1>7, <3>1, <4>2
      <4>4. QED
        BY <4>1, <4>2, <4>3, <1>8
    <3>2. CASE ItemReceipt(r)
      BY <1>7, <3>2
    <3>3. QED
      BY <1>7, <3>1, <3>2
  <2>4. QED
    BY <2>1, <2>3
<1>11. Same(b)
  BY <1>9, <1>10
<1>12. QED
  BY <1>1, <1>11

LEMMA AllBack ==
  ASSUME NEW store, NEW receipts, NEW d, Undone(d, store, receipts)
  PROVE  /\ Len(receipts) \in Nat /\ DOMAIN receipts = 1 .. Len(receipts)
         /\ \A n \in 1 .. Len(receipts) : Back(d, receipts, n)
         /\ \A n \in 1 .. Len(receipts) :
              /\ receipts[n] \in Receipts /\ Supported(receipts[n])
              /\ ItemReceipt(receipts[n]) \/ PhotoReceipt(receipts[n])
              /\ DOMAIN receipts[n].after \subseteq Ids /\ DOMAIN receipts[n].photos \subseteq PhotoIds
         /\ \A n \in 0 .. Len(receipts) :
              /\ d[n].rows \in [Ids -> Row \cup {None}]
              /\ d[n].photos \in [PhotoIds -> Photo \cup {None}]
         /\ d[0].rows = store.items /\ d[0].photos = store.photos
<1>1. /\ Legible(receipts, store.items) /\ Len(receipts) \in Nat /\ Run(d, store, receipts)
      /\ \A n \in 0 .. Len(receipts) : Sane(d[n], store, receipts) /\ d[n].ok
  BY DEF Undone
<1>2. \A n \in 1 .. Len(receipts) : Back(d, receipts, n)
  <2>1. TAKE n \in 1 .. Len(receipts)
  <2>2. n - 1 \in 0 .. Len(receipts) /\ n \in 0 .. Len(receipts)
    BY <1>1
  <2>3. Sane(d[n - 1], store, receipts) /\ d[n].ok
    BY <1>1, <2>2
  <2>4. QED
    BY <1>1, <2>3, OneBack
<1>3. DOMAIN receipts = 1 .. Len(receipts)
  BY <1>1 DEF Legible
<1>4. \A n \in 1 .. Len(receipts) :
        /\ receipts[n] \in Receipts /\ Supported(receipts[n])
        /\ ItemReceipt(receipts[n]) \/ PhotoReceipt(receipts[n])
  BY <1>1, <1>3 DEF Legible, Undoable
<1>5. \A n \in 1 .. Len(receipts) :
        DOMAIN receipts[n].after \subseteq Ids /\ DOMAIN receipts[n].photos \subseteq PhotoIds
  BY <1>4, ReceiptIs
<1>6. \A n \in 0 .. Len(receipts) :
        /\ d[n].rows \in [Ids -> Row \cup {None}]
        /\ d[n].photos \in [PhotoIds -> Photo \cup {None}]
  BY <1>1 DEF Sane
<1>7. d[0].rows = store.items /\ d[0].photos = store.photos
  BY <1>1 DEF Run, Start
<1>8. QED
  BY <1>1, <1>2, <1>3, <1>4, <1>5, <1>6, <1>7

\* The step of a compensation that takes the n-th receipt back.
Step(d, receipts, n) ==
  \E b \in 1 .. Len(receipts) :
    /\ b = Len(receipts) + 1 - n /\ Len(receipts) + 1 - b = n
    /\ b - 1 = Len(receipts) - n /\ b - 1 \in 0 .. Len(receipts)
    /\ Back(d, receipts, b)

LEMMA StepOf ==
  ASSUME NEW store, NEW receipts, NEW d, Undone(d, store, receipts),
         NEW n \in 1 .. Len(receipts)
  PROVE  Step(d, receipts, n)
<1>1. Len(receipts) \in Nat /\ \A b \in 1 .. Len(receipts) : Back(d, receipts, b)
  BY AllBack
<1>2. PICK b \in 1 .. Len(receipts) : b = Len(receipts) + 1 - n
  BY <1>1
<1>3. Len(receipts) + 1 - b = n /\ b - 1 = Len(receipts) - n /\ b - 1 \in 0 .. Len(receipts)
  BY <1>1, <1>2
<1>4. QED
  BY <1>1, <1>2, <1>3 DEF Step

\* It finds the rows of its receipt and leaves them to the older ones.
LEMMA StepDoes ==
  ASSUME NEW store, NEW receipts, NEW d, Undone(d, store, receipts),
         NEW n \in 1 .. Len(receipts), ItemReceipt(receipts[n]),
         NEW i \in DOMAIN receipts[n].after
  PROVE  LET r == receipts[n]  N == Len(receipts) IN
         /\ d[N - n].rows[i] = r.after[i]
         /\ d[N + 1 - n].rows[i] = IF i = r.entity THEN Target(r.after[i], r) ELSE r.after[i]
<1> DEFINE N == Len(receipts)
           r == receipts[n]
<1>1. PICK b \in 1 .. N : /\ b = N + 1 - n /\ N + 1 - b = n /\ b - 1 = N - n /\ b - 1 \in 0 .. N
                          /\ Back(d, receipts, b)
  BY StepOf DEF Step
<1>2. d[b - 1].rows \in [Ids -> Row \cup {None}] /\ DOMAIN r.after \subseteq Ids
  BY <1>1, AllBack
<1>3. /\ Fits(d[b - 1].rows, r)
      /\ d[b].rows = [d[b - 1].rows EXCEPT ![r.entity] = Target(d[b - 1].rows[r.entity], r)]
  BY <1>1 DEF Back
<1>4. d[b - 1].rows[i] = r.after[i]
  BY <1>3 DEF Fits
<1>5. PICK was, e, target : was = d[b - 1].rows /\ e = r.entity /\ target = Target(was[e], r)
  OBVIOUS
<1>6. d[b].rows = [was EXCEPT ![e] = target]
  BY <1>3, <1>5
<1>7. d[b].rows[i] = IF i = e THEN target ELSE was[i]
  BY <1>2, <1>5, <1>6
<1> HIDE DEF r
<1>8. i = e => target = Target(r.after[i], r)
  BY <1>4, <1>5
<1>9. QED
  BY <1>1, <1>4, <1>5, <1>7, <1>8 DEF r

\* No receipt after the m-th and before the n-th is about i.
Silent(receipts, i, m, n) == \A k \in m + 1 .. n - 1 : i \notin DOMAIN receipts[k].after

\* From the step of a receipt to that of an older one, or to the end.
LEMMA Onwards ==
  ASSUME NEW store, NEW receipts, NEW d, Undone(d, store, receipts),
         NEW n \in 1 .. Len(receipts), NEW m \in 0 .. n - 1
  PROVE  \A i \in Ids : Silent(receipts, i, m, n) =>
           d[Len(receipts) - m].rows[i] = d[Len(receipts) + 1 - n].rows[i]
<1> SUFFICES ASSUME NEW i \in Ids, Silent(receipts, i, m, n)
             PROVE  d[Len(receipts) - m].rows[i] = d[Len(receipts) + 1 - n].rows[i]
  OBVIOUS
<1>0. Len(receipts) \in Nat
  BY AllBack
<1> DEFINE N == Len(receipts)
<1>1. PICK b, a : b = N - m /\ a = N + 1 - n /\ b \in a .. N /\ a \in 0 .. N
  BY <1>0
<1>2. Spares(d, receipts, a, b)
  BY <1>1, Spared
<1>3. \A k \in 1 .. N : N + 1 - b <= k /\ k <= N - a => k \in m + 1 .. n - 1
  BY <1>0, <1>1
<1> HIDE DEF N
<1>4. d[b].rows[i] = d[a].rows[i]
  BY <1>2, <1>3 DEF Spares, Silent, N
<1>5. QED
  BY <1>1, <1>4 DEF N

IsOldest(receipts, n, i) == \A m \in 1 .. n - 1 : i \notin DOMAIN receipts[m].after

\* What the oldest receipt about a row leaves is left.
LEMMA OldestIs ==
  ASSUME NEW store, NEW receipts, NEW d, Undone(d, store, receipts),
         NEW n \in 1 .. Len(receipts), ItemReceipt(receipts[n])
  PROVE  LET r == receipts[n] IN
         \A i \in DOMAIN r.after : IsOldest(receipts, n, i) =>
           d[Len(receipts)].rows[i] = IF i = r.entity THEN Target(r.after[i], r) ELSE r.after[i]
<1> SUFFICES ASSUME NEW i \in DOMAIN receipts[n].after, IsOldest(receipts, n, i)
             PROVE  d[Len(receipts)].rows[i] =
                      IF i = receipts[n].entity THEN Target(receipts[n].after[i], receipts[n])
                      ELSE receipts[n].after[i]
  OBVIOUS
<1>1. i \in Ids /\ Len(receipts) \in Nat
  BY AllBack
<1>2. PICK m \in 0 .. n - 1 : m = 0
  OBVIOUS
<1>3. d[Len(receipts) - m].rows[i] = d[Len(receipts) + 1 - n].rows[i]
  <2>1. Silent(receipts, i, m, n)
    BY <1>2 DEF Silent, IsOldest
  <2>2. i \in Ids /\ m \in 0 .. n - 1
    BY <1>1, <1>2
  <2>3. \A j \in Ids : Silent(receipts, j, m, n) =>
          d[Len(receipts) - m].rows[j] = d[Len(receipts) + 1 - n].rows[j]
    BY <2>2, Onwards
  <2>4. QED
    BY <2>1, <2>2, <2>3
<1>4. QED
  BY <1>1, <1>2, <1>3, StepDoes

\* The oldest receipt about a row gives it back as it was.
LEMMA OldestRestores ==
  ASSUME NEW store, NEW receipts, NEW d, Undone(d, store, receipts),
         NEW old \in StoreType, Begun(receipts, old)
  PROVE  /\ \A i \in Affected(receipts) : old.items[i] # None =>
              SameButQuantity(d[Len(receipts)].rows[i], old.items[i])
         /\ \A p \in Pictured(receipts) : d[Len(receipts)].photos[p] = old.photos[p]
<1> DEFINE N == Len(receipts)
<1>1. /\ N \in Nat /\ DOMAIN receipts = 1 .. N
      /\ \A n \in 1 .. N : Back(d, receipts, n)
      /\ \A n \in 1 .. N :
           /\ receipts[n] \in Receipts /\ Supported(receipts[n])
           /\ ItemReceipt(receipts[n]) \/ PhotoReceipt(receipts[n])
           /\ DOMAIN receipts[n].after \subseteq Ids /\ DOMAIN receipts[n].photos \subseteq PhotoIds
      /\ \A n \in 0 .. N :
           /\ d[n].rows \in [Ids -> Row \cup {None}]
           /\ d[n].photos \in [PhotoIds -> Photo \cup {None}]
  BY AllBack
<1>2. ASSUME NEW n \in 1 .. N
      PROVE  /\ \A i \in Ids : (\A m \in 1 .. n - 1 : i \notin DOMAIN receipts[m].after) =>
                  d[N].rows[i] = d[N + 1 - n].rows[i]
             /\ \A p \in PhotoIds : (\A m \in 1 .. n - 1 : p \notin DOMAIN receipts[m].photos) =>
                  d[N].photos[p] = d[N + 1 - n].photos[p]
  <2>1. PICK b, a : b = N /\ a = N + 1 - n /\ b \in a .. N /\ a \in 0 .. N
    BY <1>1
  <2>2. /\ \A i \in Ids :
             (\A m \in 1 .. N : N + 1 - b <= m /\ m <= N - a => i \notin DOMAIN receipts[m].after) =>
               d[b].rows[i] = d[a].rows[i]
        /\ \A p \in PhotoIds :
             (\A m \in 1 .. N : N + 1 - b <= m /\ m <= N - a => p \notin DOMAIN receipts[m].photos) =>
               d[b].photos[p] = d[a].photos[p]
    <3>1. Spares(d, receipts, a, b)
      BY <2>1, Spared
    <3>2. QED
      BY <3>1 DEF Spares
  <2>3. \A m \in 1 .. N : N + 1 - b <= m /\ m <= N - a => m \in 1 .. n - 1
    BY <1>1, <2>1
  <2> HIDE DEF N
  <2>4. QED
    BY <2>1, <2>2, <2>3
<1>3. ASSUME NEW n \in 1 .. N
      PROVE  \E b \in 1 .. N :
               b = N + 1 - n /\ N + 1 - b = n /\ Back(d, receipts, b)
               /\ d[b - 1].rows \in [Ids -> Row \cup {None}]
               /\ d[b - 1].photos \in [PhotoIds -> Photo \cup {None}]
  <2>0. N \in Nat /\ n \in Nat /\ 1 <= n /\ n <= N
    BY <1>1
  <2> HIDE DEF N
  <2>1. PICK b \in 1 .. N : b = N + 1 - n
    BY <2>0
  <2>2. N + 1 - b = n /\ b - 1 \in 0 .. N
    BY <2>0, <2>1
  <2>3. QED
    BY <1>1, <2>1, <2>2
<1>4. ASSUME NEW i \in Affected(receipts), old.items[i] # None
      PROVE  SameButQuantity(d[N].rows[i], old.items[i])
  <2> DEFINE About == {n \in 1 .. N : i \in DOMAIN receipts[n].after}
  <2>1. About \subseteq Nat /\ About # {}
    BY DEF Affected
  <2>2. PICK n \in About : \A m \in About : n <= m
    <3> HIDE DEF About
    <3>1. QED
      BY <2>1, LeastNumber
  <2>3. n \in 1 .. N /\ i \in DOMAIN receipts[n].after /\ i \in Ids
    BY <1>1, <2>2
  <2>4. \A m \in 1 .. n - 1 : i \notin DOMAIN receipts[m].after
    <3>1. \A m \in 1 .. n - 1 : m \in 1 .. N /\ ~ (n <= m)
      BY <1>1, <2>3
    <3>2. QED
      BY <2>2, <3>1
  <2> DEFINE r == receipts[n]
  <2>5. ItemReceipt(r) /\ r \in Receipts
    BY <1>1, <2>3 DEF PhotoReceipt
  <2>6. r.op # "create_item" /\ i = r.source /\ old.items[i] = r.before
    <3>1. old.items[i] = IF r.op # "create_item" /\ i = r.source THEN r.before ELSE None
      BY <1>1, <2>3, <2>4 DEF Begun
    <3>2. QED
      BY <1>4, <3>1
  <2>7. d[N].rows[i] = IF i = r.entity THEN Target(r.after[i], r) ELSE r.after[i]
    <3>1. IsOldest(receipts, n, i)
      BY <2>4 DEF IsOldest
    <3>2. QED
      BY <2>3, <2>5, <3>1, OldestIs
  <2>8. old.items[i] \in Row
    BY <1>4, <2>3 DEF StoreType
  <2> HIDE DEF r
  <2>9. CASE r.source = r.entity
    <3>1. Target(r.after[i], r) = r.before
      BY <2>6, <2>9 DEF Target
    <3>2. SameButQuantity(old.items[i], old.items[i])
      BY <2>8, SameIs
    <3>3. QED
      BY <2>6, <2>7, <2>9, <3>1, <3>2
  <2>10. CASE r.source # r.entity
    <3>1. d[N].rows[i] = r.after[i]
      BY <2>6, <2>7, <2>10
    <3>2. /\ r.before \in Row /\ CoherentRow(r.before)
          /\ r.after[i] = Less(r.before, r.after[r.entity].quantity)
          /\ r.entity \in DOMAIN r.after
      BY <2>5, <2>6, <2>10 DEF ItemReceipt
    <3>3. r.after[r.entity].quantity \in Quantity
      BY <2>5, <3>2, ReceiptIs, RowIs DEF IsReceipt
    <3>4. SameButQuantity(r.after[i], r.before)
      BY <3>2, <3>3, LessIs
    <3>5. QED
      BY <2>6, <3>1, <3>4
  <2>11. QED
    BY <2>9, <2>10
<1>5. ASSUME NEW p \in Pictured(receipts)
      PROVE  d[N].photos[p] = old.photos[p]
  <2> DEFINE About == {n \in 1 .. N : p \in DOMAIN receipts[n].photos}
  <2>1. About \subseteq Nat /\ About # {}
    BY DEF Pictured
  <2>2. PICK n \in About : \A m \in About : n <= m
    <3> HIDE DEF About
    <3>1. QED
      BY <2>1, LeastNumber
  <2>3. n \in 1 .. N /\ p \in DOMAIN receipts[n].photos /\ p \in PhotoIds
    BY <1>1, <2>2
  <2>4. \A m \in 1 .. n - 1 : p \notin DOMAIN receipts[m].photos
    <3>1. \A m \in 1 .. n - 1 : m \in 1 .. N /\ ~ (n <= m)
      BY <1>1, <2>3
    <3>2. QED
      BY <2>2, <3>1
  <2> DEFINE r == receipts[n]
  <2>5. PhotoReceipt(r) /\ p = r.entity
    BY <1>1, <2>3 DEF PhotoReceipt, ItemReceipt
  <2>6. old.photos[p] = IF r.op = "attach_item_photo" THEN None ELSE r.before
    BY <1>1, <2>3, <2>4 DEF Begun
  <2>7. PICK b \in 1 .. N : b = N + 1 - n /\ N + 1 - b = n /\ Back(d, receipts, b)
                            /\ d[b - 1].photos \in [PhotoIds -> Photo \cup {None}]
    BY <1>3, <2>3
  <2>8. d[N].photos[p] = d[b].photos[p]
    BY <1>2, <2>3, <2>4, <2>7
  <2>9. d[b].photos = [d[b - 1].photos EXCEPT ![r.entity] =
                         IF r.op = "attach_item_photo" THEN None ELSE r.before]
    BY <2>5, <2>7 DEF Back
  <2> HIDE DEF r
  <2>10. PICK was, photo : was = d[b - 1].photos
                           /\ photo = IF r.op = "attach_item_photo" THEN None ELSE r.before
    OBVIOUS
  <2>11. d[b].photos = [was EXCEPT ![p] = photo]
    BY <2>5, <2>9, <2>10
  <2>12. d[b].photos[p] = photo
    BY <2>3, <2>7, <2>10, <2>11
  <2>13. QED
    BY <2>6, <2>8, <2>10, <2>12
<1>6. QED
  BY <1>4, <1>5

\* A step that writes nothing leaves no receipt.
LEMMA NoReceipt ==
  ASSUME IInv, NEW s \in Sessions, turn'[s].receipts \in {turn[s].receipts, << >>}
  PROVE  ~ Flushed(s)
<1>1. Len(turn[s].receipts) \in Nat
  BY TurnIs
<1>2. Len(<< >>) = 0
  OBVIOUS
<1>3. QED
  BY <1>1, <1>2 DEF Flushed

LEMMA AwaitNoReceipt ==
  ASSUME IInv, NEW s \in Sessions, NEW c, Await(s, c)
  PROVE  ~ Flushed(s)
<1>1. turn'[s].receipts = turn[s].receipts
  <2>1. PICK now : now = turn[s] /\ now = [stage |-> now.stage, conversation |-> now.conversation,
                      receipts |-> now.receipts, plan |-> now.plan, seen |-> now.seen]
    BY TurnIs
  <2>2. turn'[s] = [now EXCEPT !.stage = "flushing", !.plan = c, !.seen = Read(s, c)]
    BY <2>1, TurnIs DEF Await
  <2>3. turn'[s].receipts = now.receipts
    BY <2>1, <2>2
  <2>4. QED
    BY <2>1, <2>3
<1>2. QED
  BY <1>1, NoReceipt

LEMMA WriteReceipt ==
  ASSUME IInv, NEW s \in Sessions, NEW c, NEW read, Write(s, c, read)
  PROVE  Receipt(s).op = c.op
<1> DEFINE r == Noted(s, c, read)
<1>1. r.op = c.op
  BY DEF Noted, ReceiptOf
<1> HIDE DEF r
<1>2. turn'[s].receipts = Append(turn[s].receipts, r)
  <2>1. PICK now : now = turn[s] /\ now = [stage |-> now.stage, conversation |-> now.conversation,
                      receipts |-> now.receipts, plan |-> now.plan, seen |-> now.seen]
    BY TurnIs
  <2>2. turn' = [turn EXCEPT ![s].stage = "open", ![s].plan = None, ![s].seen = None,
                             ![s].receipts = Append(@, r)]
    BY DEF Write, r
  <2>3. turn'[s] = [now EXCEPT !.stage = "open", !.plan = None, !.seen = None,
                               !.receipts = Append(now.receipts, r)]
    BY <2>1, <2>2, TurnIs
  <2>4. turn'[s].receipts = Append(now.receipts, r)
    BY <2>1, <2>3
  <2>5. QED
    BY <2>1, <2>4
<1>3. Last(turn'[s].receipts) = r
  <2>1. PICK rs \in Seq(Receipts) : rs = turn[s].receipts
    BY TurnIs
  <2>2. Append(rs, r)[Len(Append(rs, r))] = r
    OBVIOUS
  <2>3. QED
    BY <1>2, <2>1, <2>2 DEF Last
<1>4. QED
  BY <1>1, <1>3 DEF Receipt

LEMMA PerformIsNoUndo ==
  ASSUME IInv, NEW s \in Sessions, NEW c, IsChange(c), c.op # "undo_last_action", Perform(s, c)
  PROVE  ~ UndoFlushed(s)
<1>1. CASE ByHand(s, c)
  BY <1>1, AwaitNoReceipt DEF ByHand, Plan, UndoFlushed
<1>2. CASE ByTool(s, c)
  <2> DEFINE before == IF c.op = "attach_item_photo" THEN None ELSE turn[s].seen.row
             b == [c EXCEPT !.before = before]
  <2>1. Write(s, b, Read(s, c))
    BY <1>2 DEF ByTool
  <2>2. c = [op |-> c.op, source |-> c.source, entity |-> c.entity, new |-> c.new,
             events |-> c.events, photos |-> c.photos, before |-> c.before]
    BY DEF IsChange
  <2> HIDE DEF before
  <2>3. b.op = c.op
    BY <2>2
  <2> HIDE DEF b
  <2>4. Receipt(s).op = c.op
    BY <2>1, <2>3, WriteReceipt
  <2>5. QED
    BY <2>4 DEF UndoFlushed
<1>3. QED
  BY <1>1, <1>2 DEF Perform

LEMMA OpNoUndo ==
  ASSUME IInv, NEW s \in Sessions,
         NEW op, op # "undo_last_action",
         NEW source, NEW entity, NEW new, NEW events,
         Perform(s, Change(op, source, entity, new, events))
  PROVE  ~ UndoFlushed(s)
<1> DEFINE c == Change(op, source, entity, new, events)
<1>1. IsChange(c) /\ c.op = op
  BY ChangeIs
<1>2. Perform(s, c)
  OBVIOUS
<1> HIDE DEF c
<1>3. QED
  BY <1>1, <1>2, PerformIsNoUndo

LEMMA PortionNoUndo ==
  ASSUME IInv, NEW s \in Sessions, NEW i,
         MoveItem(s, i) \/ TakeItem(s, i) \/ RemoveItem(s, i)
  PROVE  ~ UndoFlushed(s)
<1>1. CASE MoveItem(s, i)
  <2>1. PICK source, entity, new, events :
               Perform(s, Change("item_moved", source, entity, new, events))
    BY <1>1 DEF MoveItem, Portioned
  <2>2. "item_moved" # "undo_last_action"
    OBVIOUS
  <2>3. QED
    BY <2>1, <2>2, OpNoUndo
<1>2. CASE TakeItem(s, i)
  <2>1. PICK source, entity, new, events :
               Perform(s, Change("item_taken", source, entity, new, events))
    BY <1>2 DEF TakeItem, Portioned
  <2>2. "item_taken" # "undo_last_action"
    OBVIOUS
  <2>3. QED
    BY <2>1, <2>2, OpNoUndo
<1>3. CASE RemoveItem(s, i)
  <2>1. PICK source, entity, new, events :
               Perform(s, Change("item_removed", source, entity, new, events))
    BY <1>3 DEF RemoveItem, Portioned
  <2>2. "item_removed" # "undo_last_action"
    OBVIOUS
  <2>3. QED
    BY <2>1, <2>2, OpNoUndo
<1>4. QED
  BY <1>1, <1>2, <1>3

LEMMA CallNoUndo ==
  ASSUME IInv, NEW s \in Sessions, Call(s)
  PROVE  ~ UndoFlushed(s)
<1>1. CASE Look(s)
  <2>1. PICK seen : turn' = [turn EXCEPT ![s].stage = "looked", ![s].seen = seen]
    BY <1>1 DEF Look
  <2>2. PICK now : now = turn[s] /\ now = [stage |-> now.stage, conversation |-> now.conversation,
                      receipts |-> now.receipts, plan |-> now.plan, seen |-> now.seen]
    BY TurnIs
  <2>3. turn'[s] = [now EXCEPT !.stage = "looked", !.seen = seen]
    BY <2>1, <2>2, TurnIs
  <2>4. turn'[s].receipts = now.receipts
    BY <2>2, <2>3
  <2>5. QED
    BY <2>2, <2>4, NoReceipt DEF UndoFlushed
<1>2. CASE CreateItem(s)
  <2>1. PICK source, entity, new, events :
               Perform(s, Change("create_item", source, entity, new, events))
    BY <1>2 DEF CreateItem
  <2>2. "create_item" # "undo_last_action"
    OBVIOUS
  <2>3. QED
    BY <2>1, <2>2, OpNoUndo
<1>3. CASE CreateNode(s)
  <2>1. PICK source, entity, new, events :
               Perform(s, Change("create_node", source, entity, new, events))
    BY <1>3 DEF CreateNode
  <2>2. "create_node" # "undo_last_action"
    OBVIOUS
  <2>3. QED
    BY <2>1, <2>2, OpNoUndo
<1>4. CASE AttachPhoto(s)
  <2>1. PICK i, photo : Perform(s, PhotoChange("attach_item_photo", i, New, photo))
    BY <1>4 DEF AttachPhoto
  <2>2. PICK c : c = PhotoChange("attach_item_photo", i, New, photo)
    OBVIOUS
  <2>3. IsChange(c) /\ c.op = "attach_item_photo"
    BY <2>2, PhotoChangeIs
  <2>4. QED
    BY <2>1, <2>2, <2>3, PerformIsNoUndo
<1>5. CASE UndoLastAction(s)
  BY <1>5, AwaitNoReceipt DEF UndoLastAction, Plan, UndoFlushed
<1>6. ASSUME NEW i \in Ids, UpdateItem(s, i)
      PROVE  ~ UndoFlushed(s)
  <2>1. PICK source, entity, new, events :
               Perform(s, Change("update_item", source, entity, new, events))
    BY <1>6 DEF UpdateItem
  <2>2. "update_item" # "undo_last_action"
    OBVIOUS
  <2>3. QED
    BY <2>1, <2>2, OpNoUndo
<1>7. ASSUME NEW i \in Ids, ChangeQuantity(s, i)
      PROVE  ~ UndoFlushed(s)
  <2>1. PICK source, entity, new, events :
               Perform(s, Change("change_item_quantity", source, entity, new, events))
    BY <1>7 DEF ChangeQuantity
  <2>2. "change_item_quantity" # "undo_last_action"
    OBVIOUS
  <2>3. QED
    BY <2>1, <2>2, OpNoUndo
<1>8. ASSUME NEW i \in Ids, MarkLocationUnknown(s, i)
      PROVE  ~ UndoFlushed(s)
  <2>1. PICK source, entity, new, events :
               Perform(s, Change("item_location_unknown", source, entity, new, events))
    BY <1>8 DEF MarkLocationUnknown
  <2>2. "item_location_unknown" # "undo_last_action"
    OBVIOUS
  <2>3. QED
    BY <2>1, <2>2, OpNoUndo
<1>9. ASSUME NEW i \in Ids, RestoreItem(s, i)
      PROVE  ~ UndoFlushed(s)
  <2>1. PICK source, entity, new, events :
               Perform(s, Change("item_restored", source, entity, new, events))
    BY <1>9 DEF RestoreItem
  <2>2. "item_restored" # "undo_last_action"
    OBVIOUS
  <2>3. QED
    BY <2>1, <2>2, OpNoUndo
<1>10. ASSUME NEW p \in PhotoIds, UpdatePhoto(s, p) \/ DetachPhoto(s, p)
       PROVE  ~ UndoFlushed(s)
  <2>1. PICK c : ChangePhoto(s, c)
    BY <1>10 DEF UpdatePhoto, DetachPhoto
  <2>2. PICK b : Await(s, b)
    BY <2>1 DEF ChangePhoto, ByHand, Plan
  <2>3. QED
    BY <2>2, AwaitNoReceipt DEF UndoFlushed
<1>11. QED
  BY <1>1, <1>2, <1>3, <1>4, <1>5, <1>6, <1>7, <1>8, <1>9, <1>10, PortionNoUndo DEF Call

\* A compensation is flushed that was computed from the store as it is.
LEMMA UndoFlushIs ==
  ASSUME OneSession, IInv, Next, NEW s \in Sessions, UndoFlushed(s)
  PROVE  \E c : UndoChange(s, c) /\ Flushes(s, c)
<1>1. Begin(s) \/ Call(s) \/ Flush(s) \/ Commit(s) \/ Abort(s)
  BY DEF Next, OneSession
<1>2. ~ Begin(s)
  <2> SUFFICES ASSUME Begin(s) PROVE FALSE
    OBVIOUS
  <2>1. PICK v : turn' = [turn EXCEPT ![s] = [Idle EXCEPT !.stage = "open", !.conversation = v]]
    BY DEF Begin
  <2>2. turn'[s] = [Idle EXCEPT !.stage = "open", !.conversation = v]
    BY <2>1, TurnIs
  <2>3. turn'[s].receipts = << >>
    BY <2>2 DEF Idle
  <2>4. QED
    BY <2>3, NoReceipt DEF UndoFlushed
<1>3. ~ Commit(s) /\ ~ Abort(s)
  <2> SUFFICES ASSUME Commit(s) \/ Abort(s) PROVE FALSE
    OBVIOUS
  <2>1. turn' = [turn EXCEPT ![s] = Idle]
    BY DEF Commit, Abort
  <2>2. turn'[s].receipts = << >>
    BY <2>1, TurnIs DEF Idle
  <2>3. QED
    BY <2>2, NoReceipt DEF UndoFlushed
<1>4. ~ Call(s)
  BY CallNoUndo
<1>5. Flush(s)
  BY <1>1, <1>2, <1>3, <1>4
<1>6. PICK c : c = turn[s].plan
  OBVIOUS
<1>7. Flushable(s, c) /\ Write(s, c, Read(s, c))
  BY <1>5, <1>6 DEF IInv, FlushInv, Flush
<1>8. c.op = "undo_last_action"
  BY <1>7, WriteReceipt DEF UndoFlushed
<1>9. UndoChange(s, c)
  BY <1>7, <1>8 DEF Flushable, ItemChange, PhotoChanged, NodeChange, ItemOps, PhotoOps
<1>10. QED
  BY <1>7, <1>9 DEF Flushes

LEMMA UndoIs ==
  ASSUME OneSession, IInv, Next, NEW s \in Sessions, UndoFlushed(s)
  PROVE  LET v == turn[s].conversation IN
         /\ v \in Conversations
         /\ Rows(s) = draft.items /\ Photos(s) = draft.photos
         /\ Sane(Compensated(draft, lastRun[v]), draft, lastRun[v])
         /\ draft'.items = Compensated(draft, lastRun[v]).rows
         /\ draft'.photos = Compensated(draft, lastRun[v]).photos
         /\ \E d : /\ Undone(d, draft, lastRun[v])
                   /\ Compensated(draft, lastRun[v]) = d[Len(lastRun[v])]
<1> DEFINE v == turn[s].conversation
           receipts == lastRun[v]
           done == Compensated(draft, receipts)
<1>1. PICK c : UndoChange(s, c) /\ Flushes(s, c)
  BY UndoFlushIs
<1>2. TypeOK /\ Shapes /\ RowsInv /\ ReceiptsInv
  BY DEF IInv
<1>3. /\ v \in Conversations /\ Legible(receipts, draft.items) /\ Len(receipts) \in Nat
      /\ Sane(done, draft, receipts)
  BY <1>1, <1>2, UndoReads
<1>4. draft'.items = done.rows /\ draft'.photos = done.photos
  BY <1>1, <1>2, UndoWrites
<1>5. Rows(s) = draft.items /\ Photos(s) = draft.photos
  BY <1>2, StoreIs
<1>6. done.ok
  BY <1>1 DEF UndoChange
<1>7. PICK d : Run(d, draft, receipts) /\ done = d[Len(receipts)]
  BY <1>3, CompensationRuns
<1>8. \A n \in 0 .. Len(receipts) : Sane(d[n], draft, receipts)
  BY <1>2, <1>3, <1>7, RunIsSane DEF RowsInv
<1> HIDE DEF done, receipts, v
<1>9. Undone(d, draft, receipts)
  BY <1>3, <1>6, <1>7, <1>8, AllOk
<1>10. QED
  BY <1>3, <1>4, <1>5, <1>7, <1>9 DEF done, receipts, v

(***************************************************************************)
(* An Undo gives each item and photo of the turn back as it was before the *)
(* turn, and nothing else changes: items but for the quantity of a lot     *)
(* that stays split, photos exactly.                                       *)
(***************************************************************************)
THEOREM UndoGivesBack == ASSUME OneSession PROVE Spec => UndoRestores
<1>1. ASSUME IInv, Next, NEW s \in Sessions, UndoFlushed(s)
      PROVE  LET receipts == lastRun[turn[s].conversation]
                 touched == Affected(receipts)
                 old == around[turn[s].conversation].before
                 now == draft'
             IN /\ \A i \in Ids \ touched : now.items[i] = Rows(s)[i]
                /\ \A i \in touched :
                     old.items[i] # None => SameButQuantity(now.items[i], old.items[i])
                /\ \A p \in Pictured(receipts) : now.photos[p] = old.photos[p]
                /\ \A p \in PhotoIds \ Pictured(receipts) : now.photos[p] = Photos(s)[p]
  <2> DEFINE v == turn[s].conversation
             done == Compensated(draft, lastRun[v])
  <2>1. /\ v \in Conversations
        /\ Rows(s) = draft.items /\ Photos(s) = draft.photos
        /\ Sane(done, draft, lastRun[v])
        /\ draft'.items = done.rows /\ draft'.photos = done.photos
        /\ \E d : Undone(d, draft, lastRun[v]) /\ done = d[Len(lastRun[v])]
    BY <1>1, UndoIs
  <2>2. PICK d : Undone(d, draft, lastRun[v]) /\ done = d[Len(lastRun[v])]
    BY <2>1
  <2>3. Begun(lastRun[v], around[v].before) /\ around[v].before \in StoreType
    BY <1>1, <2>1 DEF IInv, BegunInv, TypeOK
  <2> HIDE DEF v, done
  <2>4. /\ \A i \in Affected(lastRun[v]) : around[v].before.items[i] # None =>
              SameButQuantity(done.rows[i], around[v].before.items[i])
        /\ \A p \in Pictured(lastRun[v]) : done.photos[p] = around[v].before.photos[p]
    BY <2>2, <2>3, OldestRestores
  <2>5. /\ \A i \in Ids \ Affected(lastRun[v]) : done.rows[i] = draft.items[i]
        /\ \A p \in PhotoIds \ Pictured(lastRun[v]) : done.photos[p] = draft.photos[p]
    BY <2>1 DEF Sane
  <2>6. QED
    BY <2>1, <2>4, <2>5 DEF v
<1>2. IInv /\ [Next]_vars =>
        [\A s \in Sessions : UndoFlushed(s) =>
           LET receipts == lastRun[turn[s].conversation]
               touched == Affected(receipts)
               old == around[turn[s].conversation].before
               now == draft'
           IN /\ \A i \in Ids \ touched : now.items[i] = Rows(s)[i]
              /\ \A i \in touched :
                   old.items[i] # None => SameButQuantity(now.items[i], old.items[i])
              /\ \A p \in Pictured(receipts) : now.photos[p] = old.photos[p]
              /\ \A p \in PhotoIds \ Pictured(receipts) : now.photos[p] = Photos(s)[p]]_vars
  BY <1>1
<1>3. QED
  BY <1>2, Invariance, PTL DEF Spec, UndoRestores

-----------------------------------------------------------------------------
(* Splits                                                                  *)

IsSplit(r) == ItemReceipt(r) /\ r.source # r.entity

LEMMA RemainderDiffers ==
  ASSUME NEW lot \in Quantity, lot # Unknown, NEW part \in Quantity
  PROVE  Remainder(lot, part) # lot
<1> USE DEF Remainder, Quantity, Unknown, Modes
<1>1. CASE "unknown" \in {lot.mode, part.mode} \/ lot.value <= part.value
  BY <1>1
<1>2. CASE ~ ("unknown" \in {lot.mode, part.mode} \/ lot.value <= part.value)
  <2>1. lot.value \in Nat /\ part.value \in Nat \ {0}
    BY <1>2
  <2>2. Remainder(lot, part).value = lot.value - part.value
    BY <1>2
  <2>3. Remainder(lot, part).value # lot.value
    BY <2>1, <2>2
  <2>4. QED
    BY <2>3
<1>3. QED
  BY <1>1, <1>2

\* What a lot and its part hold, of an exact rest.
LEMMA RemainderAdds ==
  ASSUME NEW lot \in Quantity, NEW part \in Quantity, Remainder(lot, part).mode = "exact"
  PROVE  /\ Remainder(lot, part).value \in Nat /\ part.value \in Nat /\ lot.value \in Nat
         /\ Remainder(lot, part).value + part.value = lot.value
<1>1. ~ ("unknown" \in {lot.mode, part.mode} \/ lot.value <= part.value)
  BY DEF Remainder, Unknown
<1>2. lot.value \in Nat /\ part.value \in Nat
  BY DEF Quantity, Unknown
<1>3. Remainder(lot, part).value = lot.value - part.value
  BY <1>1 DEF Remainder
<1>4. lot.value - part.value \in Nat /\ lot.value - part.value + part.value = lot.value
  BY <1>1, <1>2
<1>5. QED
  BY <1>2, <1>3, <1>4

\* The receipt before that about the same row.
LEMMA OneBefore ==
  ASSUME NEW receipts, NEW n \in Nat, NEW i,
         \E m \in 1 .. n - 1 : i \in DOMAIN receipts[m].after
  PROVE  \E m \in 1 .. n - 1 :
           /\ i \in DOMAIN receipts[m].after
           /\ \A k \in m + 1 .. n - 1 : i \notin DOMAIN receipts[k].after
<1> DEFINE About == {m \in 1 .. n - 1 : i \in DOMAIN receipts[m].after}
<1>1. About \subseteq 0 .. n /\ About # {}
  OBVIOUS
<1>2. Max(About) \in About /\ \A k \in About : k <= Max(About)
  <2> HIDE DEF About
  <2>1. QED
    BY <1>1, MaxIs
<1>3. PICK m \in About : \A k \in About : k <= m
  BY <1>2
<1>4. \A k \in m + 1 .. n - 1 : k \in 1 .. n - 1 /\ ~ (k <= m)
  BY <1>3
<1>5. QED
  BY <1>3, <1>4

\* A split that shows is the oldest receipt about its two rows.  An older one
\* would have left its lot as the split found it, and as the split left it.
LEMMA SplitIsOldest ==
  ASSUME NEW store, NEW receipts, NEW d, Undone(d, store, receipts),
         Chained(receipts), NEW n \in 1 .. Len(receipts), IsSplit(receipts[n]),
         Shows(receipts, n), NEW i \in DOMAIN receipts[n].after
  PROVE  IsOldest(receipts, n, i)
<1> DEFINE r == receipts[n]
           N == Len(receipts)
<1>1. /\ N \in Nat /\ n \in DOMAIN receipts /\ i \in Ids /\ r \in Receipts
      /\ Supported(r) /\ ItemReceipt(r) /\ r.source # r.entity
  BY AllBack DEF IsSplit
<1> SUFFICES ASSUME \E m \in 1 .. n - 1 : i \in DOMAIN receipts[m].after
             PROVE  FALSE
  BY DEF IsOldest
<1>0. n \in Nat
  BY <1>1
<1>2. PICK m \in 1 .. n - 1 : /\ i \in DOMAIN receipts[m].after
                              /\ \A k \in m + 1 .. n - 1 : i \notin DOMAIN receipts[k].after
  BY <1>0, OneBefore
<1>3. /\ i = r.source /\ r.before = receipts[m].after[i] /\ r.op # "create_item"
  BY <1>1, <1>2 DEF Chained
<1>4. m \in 1 .. N /\ m \in 0 .. n - 1
  BY <1>1
<1>5. ItemReceipt(receipts[m])
  BY <1>2, <1>4, AllBack DEF PhotoReceipt
<1>6. d[N - m].rows[i] = receipts[m].after[i]
  BY <1>2, <1>4, <1>5, StepDoes
<1>7. d[N + 1 - n].rows[i] = r.after[i]
  BY <1>1, <1>3, StepDoes, SMTT(30)
<1>8. d[N - m].rows[i] = d[N + 1 - n].rows[i]
  <2>1. Silent(receipts, i, m, n)
    BY <1>2 DEF Silent
  <2>2. i \in Ids /\ m \in 0 .. n - 1
    BY <1>1, <1>4
  <2>3. \A j \in Ids : Silent(receipts, j, m, n) =>
          d[Len(receipts) - m].rows[j] = d[Len(receipts) + 1 - n].rows[j]
    BY <2>2, Onwards
  <2>4. QED
    BY <2>1, <2>2, <2>3
<1>9. r.before \in Row /\ CoherentRow(r.before) /\ r.after[i] = Less(r.before, r.after[r.entity].quantity)
      /\ r.entity \in DOMAIN r.after
  BY <1>1, <1>3 DEF ItemReceipt
<1>10. r.after[r.entity].quantity \in Quantity /\ r.before.quantity \in Quantity
  BY <1>1, <1>9, ReceiptIs, RowIs DEF IsReceipt
<1>11. r.before.quantity = Remainder(r.before.quantity, r.after[r.entity].quantity)
  <2>1. r.after[i] = r.before
    BY <1>3, <1>6, <1>7, <1>8
  <2>2. Less(r.before, r.after[r.entity].quantity).quantity =
          Remainder(r.before.quantity, r.after[r.entity].quantity)
    BY <1>9, <1>10, LessIs
  <2>3. QED
    BY <1>9, <2>1, <2>2
<1>12. r.before.quantity # Unknown
  BY <1>2, <1>3 DEF Shows
<1>13. QED
  BY <1>10, <1>11, <1>12, RemainderDiffers

\* What a compensation makes of a lot and the part taken out of it.
Parted(r, old, now) ==
  LET part == r.after[r.entity].quantity IN
  /\ r.source \in Ids /\ r.entity \in Ids /\ r.source # r.entity
  /\ DOMAIN r.after = {r.source, r.entity} /\ part \in Quantity
  /\ r.before \in Row /\ CoherentRow(r.before) /\ r.before.state # "removed"
  /\ old[r.source] = r.before /\ old[r.entity] = None
  /\ now[r.source] = Less(r.before, part) /\ now[r.entity] = [r.before EXCEPT !.quantity = part]

LEMMA SplitUndone ==
  ASSUME NEW store, NEW receipts, NEW d, Undone(d, store, receipts),
         Chained(receipts), SplitsShow(receipts), NEW old, Begun(receipts, old),
         NEW n \in 1 .. Len(receipts), IsSplit(receipts[n])
  PROVE  /\ Parted(receipts[n], old.items, d[Len(receipts)].rows)
         /\ \A m \in 1 .. n - 1 : DOMAIN receipts[n].after \cap DOMAIN receipts[m].after = {}
<1> DEFINE r == receipts[n]
           now == d[Len(receipts)].rows
           part == r.after[r.entity].quantity
<1>1. /\ n \in DOMAIN receipts /\ r \in Receipts /\ Supported(r) /\ ItemReceipt(r)
      /\ r.source # r.entity /\ DOMAIN r.after \subseteq Ids
  BY AllBack DEF IsSplit
<1>2. r.op \in ItemOps /\ r.op \notin PhotoOps
  BY <1>1 DEF ItemReceipt, ItemOps, PhotoOps
<1>3. Shows(receipts, n)
  BY <1>1, <1>2 DEF SplitsShow
<1>4. r.op # "create_item" /\ DOMAIN r.after = {r.source, r.entity} /\ r.source \in Ids /\ r.entity \in Ids
  BY <1>1 DEF ItemReceipt
<1>5. /\ r.before \in Row /\ CoherentRow(r.before) /\ r.before.state # "removed"
      /\ r.after[r.source] = Less(r.before, part)
  BY <1>1, <1>4 DEF ItemReceipt
<1>6. part \in Quantity /\ r.after[r.entity] \in Row
  BY <1>1, <1>4, ReceiptIs, RowIs DEF IsReceipt
<1>7. \A i \in DOMAIN r.after : IsOldest(receipts, n, i)
  BY <1>3, SplitIsOldest
<1>8. old.items[r.source] = r.before /\ old.items[r.entity] = None
  BY <1>1, <1>4, <1>7 DEF Begun, IsOldest
<1>9. now[r.source] = r.after[r.source] /\ now[r.entity] = Target(r.after[r.entity], r)
  BY <1>1, <1>4, <1>7, OldestIs
<1>10. Target(r.after[r.entity], r) = [r.before EXCEPT !.quantity = part]
  BY <1>1, <1>4 DEF Target
<1> HIDE DEF r, now, part
<1>11. Parted(r, old.items, now)
  BY <1>1, <1>4, <1>5, <1>6, <1>8, <1>9, <1>10 DEF Parted, part
<1>12. QED
  BY <1>7, <1>11 DEF r, now, IsOldest

\* What a compensation leaves of each row.
LEMMA RowsUndone ==
  ASSUME NEW store, NEW receipts, NEW d, Undone(d, store, receipts),
         Chained(receipts), SplitsShow(receipts), NEW old, Begun(receipts, old),
         old \in StoreType, NEW i \in Affected(receipts)
  PROVE  LET now == d[Len(receipts)].rows IN
         \/ \E n \in 1 .. Len(receipts) : IsSplit(receipts[n]) /\ i \in DOMAIN receipts[n].after
         \/ old.items[i] = None /\ now[i].state = "removed"
         \/ now[i] \in Row /\ now[i] = old.items[i]
<1> DEFINE N == Len(receipts)
           now == d[N].rows
           About == {n \in 1 .. N : i \in DOMAIN receipts[n].after}
<1>1. About \subseteq Nat /\ About # {}
  BY DEF Affected
<1>2. PICK n \in About : \A m \in About : n <= m
  <2> HIDE DEF About
  <2>1. QED
    BY <1>1, LeastNumber
<1>3. N \in Nat /\ n \in 1 .. N /\ i \in DOMAIN receipts[n].after
  BY <1>2, AllBack
<1>4. IsOldest(receipts, n, i)
  <2>1. \A m \in 1 .. n - 1 : m \in 1 .. N /\ ~ (n <= m)
    BY <1>3
  <2>2. QED
    BY <1>2, <2>1 DEF IsOldest
<1> DEFINE r == receipts[n]
<1>5. /\ n \in DOMAIN receipts /\ r \in Receipts /\ Supported(r) /\ ItemReceipt(r)
      /\ DOMAIN r.after \subseteq Ids
  BY <1>3, AllBack DEF PhotoReceipt
<1>6. CASE r.source # r.entity
  BY <1>3, <1>5, <1>6 DEF IsSplit
<1>7. CASE r.source = r.entity
  <2>1. i = r.entity /\ i = r.source /\ r.after[i] \in Row
    <3>1. i = r.entity
      BY <1>3, <1>5, <1>7 DEF ItemReceipt
    <3>2. r.after[i] \in Row
      BY <1>3, <1>5, ReceiptIs DEF IsReceipt
    <3>3. QED
      BY <1>7, <3>1, <3>2
  <2>2. now[i] = Target(r.after[i], r)
    <3>1. n \in 1 .. Len(receipts) /\ ItemReceipt(receipts[n]) /\ i \in DOMAIN receipts[n].after
      BY <1>3, <1>5
    <3>2. d[Len(receipts)].rows[i] = IF i = receipts[n].entity
                                     THEN Target(receipts[n].after[i], receipts[n])
                                     ELSE receipts[n].after[i]
      BY <1>4, <3>1, OldestIs
    <3>3. QED
      BY <2>1, <3>2
  <2>3. old.items[i] = IF r.op # "create_item" THEN r.before ELSE None
    BY <1>3, <1>4, <1>5, <2>1 DEF Begun, IsOldest
  <2>4. Target(r.after[i], r) = IF r.op = "create_item" THEN Removed(r.after[i]) ELSE r.before
    BY <1>7 DEF Target
  <2>5. Removed(r.after[i]).state = "removed"
    BY <2>1, RemovedIs
  <2>6. r.op # "create_item" => r.before \in Row
    BY <1>5 DEF ItemReceipt
  <2> HIDE DEF r, now
  <2>7. QED
    BY <2>2, <2>3, <2>4, <2>5, <2>6 DEF now
<1>8. QED
  BY <1>6, <1>7

-----------------------------------------------------------------------------
(* Pieces                                                                  *)

\* f sums up the weights of the ids, the first ones first.
Sums(f, weight) == f[0] = 0 /\ \A n \in Ids : f[n] = f[n - 1] + weight[n]

LEMMA SumsExist ==
  ASSUME NEW weight
  PROVE  \E f : f = [i \in 0 .. MaxItems |-> IF i = 0 THEN 0 ELSE f[i - 1] + weight[i]]
<1> DEFINE Upto(f, m) == f = [i \in 0 .. m |-> IF i = 0 THEN 0 ELSE f[i - 1] + weight[i]]
           Missing == {m \in Nat : ~ \E f : Upto(f, m)}
<1>1. Missing = {}
  <2> SUFFICES ASSUME Missing # {} PROVE FALSE
    OBVIOUS
  <2>1. PICK m \in Missing : \A k \in Missing : m <= k
    <3>1. Missing \subseteq Nat
      OBVIOUS
    <3> HIDE DEF Missing
    <3>2. QED
      BY <3>1, LeastNumber
  <2>2. CASE m = 0
    <3>1. Upto([i \in 0 .. 0 |-> 0], 0)
      OBVIOUS
    <3>2. QED
      BY <2>1, <2>2, <3>1
  <2>3. CASE m # 0
    <3>1. m - 1 \in Nat /\ m - 1 \notin Missing
      BY <2>1, <2>3
    <3>2. PICK f : Upto(f, m - 1)
      BY <3>1
    <3> DEFINE g == [i \in 0 .. m |-> IF i = m THEN f[m - 1] + weight[m] ELSE f[i]]
    <3>3. \A i \in 0 .. m - 1 : g[i] = f[i]
      BY <3>1
    <3>4. ASSUME NEW i \in 0 .. m
          PROVE  g[i] = IF i = 0 THEN 0 ELSE g[i - 1] + weight[i]
      <4>1. CASE i = m
        <5>1. g[i] = f[m - 1] + weight[m] /\ g[m - 1] = f[m - 1]
          BY <3>1, <3>3, <4>1
        <5>2. QED
          BY <2>3, <4>1, <5>1
      <4>2. CASE i # m
        <5>1. i \in 0 .. m - 1 /\ (i # 0 => i - 1 \in 0 .. m - 1)
          BY <3>1, <4>2
        <5>2. f[i] = IF i = 0 THEN 0 ELSE f[i - 1] + weight[i]
          BY <3>2, <5>1
        <5>3. QED
          BY <3>3, <5>1, <5>2
      <4>3. QED
        BY <4>1, <4>2
    <3>5. Upto(g, m)
      <4>1. g = [i \in 0 .. m |-> g[i]]
        OBVIOUS
      <4> HIDE DEF g
      <4>2. QED
        BY <3>4, <4>1
    <3>6. QED
      BY <2>1, <3>5
  <2>4. QED
    BY <2>2, <2>3
<1>2. MaxItems \in Nat
  BY ConstantsAssumption
<1>3. QED
  BY <1>1, <1>2

LEMMA SumsAre ==
  ASSUME NEW weight
  PROVE  \E f : Sums(f, weight)
<1>1. PICK f : f = [i \in 0 .. MaxItems |-> IF i = 0 THEN 0 ELSE f[i - 1] + weight[i]]
  BY SumsExist
<1>2. MaxItems \in Nat
  BY ConstantsAssumption
<1>3. QED
  BY <1>1, <1>2 DEF Sums, Ids

\* What Units counts of each id.
Counted(rows, ids) == [i \in Ids |-> IF i \in ids THEN Pieces(rows[i]) ELSE 0]

LEMMA UnitsAre ==
  ASSUME NEW rows, NEW ids
  PROVE  \E f : Sums(f, Counted(rows, ids)) /\ Units(rows, ids) = f[MaxItems]
<1> DEFINE weight == Counted(rows, ids)
           IsSum(f) == f = [i \in 0 .. MaxItems |->
             IF i = 0 THEN 0 ELSE f[i - 1] + IF i \in ids THEN Pieces(rows[i]) ELSE 0]
<1>1. \E f : IsSum(f)
  <2>1. PICK f : f = [i \in 0 .. MaxItems |-> IF i = 0 THEN 0 ELSE f[i - 1] + weight[i]]
    BY SumsExist
  <2>2. \A i \in 0 .. MaxItems : i # 0 => weight[i] = IF i \in ids THEN Pieces(rows[i]) ELSE 0
    BY ConstantsAssumption DEF Counted, Ids
  <2> HIDE DEF weight
  <2>3. [i \in 0 .. MaxItems |-> IF i = 0 THEN 0 ELSE f[i - 1] + weight[i]] =
        [i \in 0 .. MaxItems |->
           IF i = 0 THEN 0 ELSE f[i - 1] + IF i \in ids THEN Pieces(rows[i]) ELSE 0]
    BY <2>2
  <2>4. QED
    BY <2>1, <2>3
<1>2. PICK f : IsSum(f) /\ Units(rows, ids) = f[MaxItems]
  BY <1>1 DEF Units
<1>3. Sums(f, weight)
  <2>1. MaxItems \in Nat
    BY ConstantsAssumption
  <2>2. f[0] = 0 /\ \A n \in 1 .. MaxItems :
          f[n] = f[n - 1] + IF n \in ids THEN Pieces(rows[n]) ELSE 0
    BY <1>2, <2>1
  <2>3. QED
    BY <2>2 DEF Sums, Counted, Ids
<1>4. QED
  BY <1>2, <1>3

\* Weights that differ by what a passes to b, or the other way round.
Transferred(v, w, a, b) == (\A i \in Ids \ {a, b} : w[i] = v[i]) /\ w[a] + w[b] = v[a] + v[b]

LEMMA Transfer ==
  ASSUME NEW v \in [Ids -> Nat], NEW w \in [Ids -> Nat], NEW a \in Ids, NEW b \in Ids,
         Transferred(v, w, a, b), NEW f, NEW g, Sums(f, v), Sums(g, w)
  PROVE  f[MaxItems] = g[MaxItems]
<1> USE DEF Transferred
<1> DEFINE Gone(n, i) == IF i <= n THEN w[i] - v[i] ELSE 0
           Good(n) == f[n] \in Nat /\ g[n] \in Nat
                      /\ g[n] = f[n] + IF a = b THEN 0 ELSE Gone(n, a) + Gone(n, b)
           Bad == {n \in 0 .. MaxItems : ~ Good(n)}
<1>0. MaxItems \in Nat /\ a \in Nat /\ b \in Nat /\ a >= 1 /\ b >= 1
      /\ a <= MaxItems /\ b <= MaxItems
  BY ConstantsAssumption DEF Ids
<1>1. v[a] \in Nat /\ w[a] \in Nat /\ v[b] \in Nat /\ w[b] \in Nat
      /\ (a = b => w[a] = v[a])
  <2>1. v[a] \in Nat /\ w[a] \in Nat /\ v[b] \in Nat /\ w[b] \in Nat
    OBVIOUS
  <2>2. QED
    BY <2>1
<1>2. Bad = {}
  <2> SUFFICES ASSUME Bad # {} PROVE FALSE
    OBVIOUS
  <2>1. PICK n \in Bad : \A k \in Bad : n <= k
    <3>1. Bad \subseteq Nat
      BY <1>0
    <3> HIDE DEF Bad
    <3>2. QED
      BY <3>1, LeastNumber
  <2>2. CASE n = 0
    <3>1. f[0] = 0 /\ g[0] = 0
      BY DEF Sums
    <3>2. Gone(0, a) = 0 /\ Gone(0, b) = 0
      BY <1>0
    <3>3. Good(0)
      BY <3>1, <3>2
    <3>4. QED
      BY <2>1, <2>2, <3>3
  <2>3. CASE n # 0
    <3>1. n \in Ids /\ n - 1 \in 0 .. MaxItems /\ n - 1 \notin Bad /\ n \in Nat
      BY <1>0, <2>1, <2>3 DEF Ids
    <3>2. Good(n - 1)
      BY <3>1
    <3>3. f[n] = f[n - 1] + v[n] /\ g[n] = g[n - 1] + w[n] /\ v[n] \in Nat /\ w[n] \in Nat
      BY <3>1 DEF Sums
    <3>4. PICK x, y, vn, wn, va, wa, vb, wb :
            /\ x = f[n - 1] /\ y = g[n - 1] /\ vn = v[n] /\ wn = w[n]
            /\ va = v[a] /\ wa = w[a] /\ vb = v[b] /\ wb = w[b]
      OBVIOUS
    <3>5. Good(n)
      <4>1. x \in Nat /\ y \in Nat /\ f[n] \in Nat /\ g[n] \in Nat
            /\ f[n] = x + vn /\ g[n] = y + wn /\ vn \in Nat /\ wn \in Nat
        BY <3>2, <3>3, <3>4
      <4>2. va \in Nat /\ wa \in Nat /\ vb \in Nat /\ wb \in Nat /\ wa + wb = va + vb
        BY <1>1, <3>4
      <4>3. CASE a = b
        <5>1. wn = vn
          BY <1>1, <3>1, <3>4, <4>3
        <5>2. y = x
          BY <3>2, <3>4, <4>1, <4>3
        <5>3. QED
          BY <4>1, <4>3, <5>1, <5>2
      <4>4. CASE a # b
        <5>1. y = x + (IF a <= n - 1 THEN wa - va ELSE 0) + (IF b <= n - 1 THEN wb - vb ELSE 0)
          BY <3>2, <3>4, <4>1, <4>2, <4>4
        <5>2. wn = vn + (IF n = a THEN wa - va ELSE 0) + (IF n = b THEN wb - vb ELSE 0)
          BY <3>1, <3>4, <4>1, <4>2, <4>4
        <5>3. y + wn = x + vn + (IF a <= n THEN wa - va ELSE 0) + (IF b <= n THEN wb - vb ELSE 0)
          BY <1>0, <3>1, <4>1, <4>2, <4>4, <5>1, <5>2
        <5>4. QED
          BY <3>4, <4>1, <4>2, <4>4, <5>3
      <4>5. QED
        BY <4>3, <4>4
    <3>6. QED
      BY <2>1, <3>5
  <2>4. QED
    BY <2>2, <2>3
<1>3. Good(MaxItems)
  BY <1>0, <1>2
<1>4. a # b => Gone(MaxItems, a) + Gone(MaxItems, b) = 0
  BY <1>0, <1>1
<1> HIDE DEF Gone
<1>5. QED
  BY <1>3, <1>4

LEMMA PiecesAre ==
  /\ \A row \in Row \cup {None} : Pieces(row) \in Nat
  /\ \A row \in Row : row.state # "removed" => Pieces(row) = row.quantity.value
  /\ \A row \in Row : row.state = "removed" => Pieces(row) = 0
  /\ Pieces(None) = 0
<1>1. \A row \in Row : row # None /\ row.quantity.value \in Nat
  <2>1. TAKE row \in Row
  <2>2. row # None /\ row.quantity \in Quantity
    BY RowIs
  <2>3. QED
    BY <2>2 DEF Quantity, Unknown
<1>2. QED
  BY <1>1 DEF Pieces

LEMMA PartedKeeps ==
  ASSUME NEW r, NEW old, NEW now, Parted(r, old, now), now[r.source].quantity.mode = "exact"
  PROVE  Pieces(now[r.source]) + Pieces(now[r.entity]) = Pieces(old[r.source]) + Pieces(old[r.entity])
<1> DEFINE part == r.after[r.entity].quantity
<1>1. /\ part \in Quantity
      /\ r.before \in Row /\ CoherentRow(r.before) /\ r.before.state # "removed"
      /\ old[r.source] = r.before /\ old[r.entity] = None
      /\ now[r.source] = Less(r.before, part) /\ now[r.entity] = [r.before EXCEPT !.quantity = part]
  BY DEF Parted
<1> HIDE DEF part
<1>2. PICK lot \in Quantity : lot = r.before.quantity
  BY <1>1, RowIs
<1>3. /\ now[r.source] \in Row /\ now[r.source].state # "removed"
      /\ now[r.source].quantity = Remainder(lot, part)
  BY <1>1, <1>2, LessIs
<1>4. /\ now[r.entity] \in Row /\ now[r.entity].state # "removed"
  BY <1>1, CountedIs
<1>5. now[r.entity].quantity = part
  BY <1>1 DEF Row
<1>6. /\ Pieces(now[r.source]) = Remainder(lot, part).value
      /\ Pieces(now[r.entity]) = part.value
      /\ Pieces(old[r.source]) = lot.value /\ Pieces(old[r.entity]) = 0
  BY <1>1, <1>2, <1>3, <1>4, <1>5, PiecesAre
<1>7. /\ Remainder(lot, part).value \in Nat /\ part.value \in Nat /\ lot.value \in Nat
      /\ Remainder(lot, part).value + part.value = lot.value
  BY <1>1, <1>2, <1>3, RemainderAdds
<1>8. QED
  BY <1>6, <1>7

PartedAll(receipts, old, now) ==
  \A n \in 1 .. Len(receipts) : IsSplit(receipts[n]) =>
    /\ Parted(receipts[n], old, now)
    /\ \A m \in 1 .. n - 1 : DOMAIN receipts[n].after \cap DOMAIN receipts[m].after = {}

\* What is counted once the first k receipts are looked at: lots that they split,
\* and their parts, as they are now.
SplitBy(receipts, k, i) == \E n \in 1 .. k : IsSplit(receipts[n]) /\ i \in DOMAIN receipts[n].after

Weighed(receipts, k, old, now) ==
  LET ids == Affected(receipts) IN
  [i \in Ids |-> IF SplitBy(receipts, k, i) THEN Counted(now, ids)[i] ELSE Counted(old, ids)[i]]

\* A step from one receipt to the next moves pieces from a lot to its part, or none.
LEMMA OneWeighed ==
  ASSUME NEW receipts, NEW k \in Nat \ {0}, Len(receipts) \in Nat, k <= Len(receipts),
         Affected(receipts) \subseteq Ids,
         NEW old \in [Ids -> Row \cup {None}], NEW now \in [Ids -> Row \cup {None}],
         AllExact(now, Affected(receipts)),
         PartedAll(receipts, old, now)
  PROVE  \E a, b \in Ids :
           Transferred(Weighed(receipts, k - 1, old, now), Weighed(receipts, k, old, now), a, b)
<1> DEFINE r == receipts[k]
           ids == Affected(receipts)
           v == Weighed(receipts, k - 1, old, now)
           w == Weighed(receipts, k, old, now)
<1>1. \A i \in Ids : SplitBy(receipts, k, i) <=>
        SplitBy(receipts, k - 1, i) \/ (IsSplit(r) /\ i \in DOMAIN r.after)
  <2>1. /\ \A n \in 1 .. k : n \in 1 .. k - 1 \/ n = k
        /\ \A n \in 1 .. k - 1 : n \in 1 .. k
        /\ k \in 1 .. k
    OBVIOUS
  <2> HIDE DEF r
  <2>2. ASSUME NEW i \in Ids, SplitBy(receipts, k, i)
        PROVE  SplitBy(receipts, k - 1, i) \/ (IsSplit(r) /\ i \in DOMAIN r.after)
    BY <2>1, <2>2 DEF SplitBy, r
  <2>3. ASSUME NEW i \in Ids, SplitBy(receipts, k - 1, i) \/ (IsSplit(r) /\ i \in DOMAIN r.after)
        PROVE  SplitBy(receipts, k, i)
    BY <2>1, <2>3 DEF SplitBy, r
  <2>4. QED
    BY <2>2, <2>3
<1>2. \A i \in Ids :
        /\ v[i] = IF SplitBy(receipts, k - 1, i) THEN Counted(now, ids)[i] ELSE Counted(old, ids)[i]
        /\ w[i] = IF SplitBy(receipts, k, i) THEN Counted(now, ids)[i] ELSE Counted(old, ids)[i]
  BY DEF Weighed
<1> HIDE DEF v, w, r
<1>3. CASE ~ IsSplit(r)
  <2>1. \A i \in Ids : w[i] = v[i]
    BY <1>1, <1>2, <1>3
  <2>2. 1 \in Ids
    BY ConstantsAssumption DEF Ids
  <2>3. QED
    BY <2>1, <2>2 DEF Transferred, v, w
<1>4. CASE IsSplit(r)
  <2>1. /\ Parted(r, old, now)
        /\ \A m \in 1 .. k - 1 : DOMAIN r.after \cap DOMAIN receipts[m].after = {}
    BY <1>4 DEF PartedAll, r
  <2>2. PICK a \in Ids, b \in Ids : a = r.source /\ b = r.entity /\ DOMAIN r.after = {a, b}
    BY <2>1 DEF Parted
  <2>3. \A i \in Ids \ {a, b} : w[i] = v[i]
    BY <1>1, <1>2, <2>2
  <2>4. \A i \in {a, b} : w[i] = Pieces(now[i]) /\ v[i] = Pieces(old[i])
    <3>1. TAKE i \in {a, b}
    <3>2. i \in ids /\ i \in Ids
      BY <2>2 DEF Affected, r
    <3>3. SplitBy(receipts, k, i)
      BY <1>1, <1>4, <2>2
    <3>4. ~ SplitBy(receipts, k - 1, i)
      BY <2>1, <2>2 DEF SplitBy
    <3>5. QED
      BY <1>2, <3>2, <3>3, <3>4 DEF Counted
  <2>5. now[a].quantity.mode = "exact"
    <3>1. a \in ids
      BY <2>2 DEF Affected, r
    <3>2. now[a] # None
      <4>1. now[a] = Less(r.before, r.after[b].quantity) /\ r.before \in Row /\ CoherentRow(r.before)
            /\ r.after[b].quantity \in Quantity
        BY <2>1, <2>2 DEF Parted
      <4>2. QED
        BY <4>1, LessIs, RowIs
    <3>3. QED
      BY <3>1, <3>2 DEF AllExact
  <2>6. Pieces(now[a]) + Pieces(now[b]) = Pieces(old[a]) + Pieces(old[b])
    BY <2>1, <2>2, <2>5, PartedKeeps
  <2>7. w[a] + w[b] = v[a] + v[b]
    BY <2>4, <2>6
  <2>8. QED
    BY <2>3, <2>7 DEF Transferred, v, w
<1>5. QED
  BY <1>3, <1>4

LEMMA WeighedIs ==
  ASSUME NEW receipts, NEW k, NEW old \in [Ids -> Row \cup {None}], NEW now \in [Ids -> Row \cup {None}]
  PROVE  Weighed(receipts, k, old, now) \in [Ids -> Nat]
<1>1. \A i \in Ids : Pieces(old[i]) \in Nat /\ Pieces(now[i]) \in Nat
  BY PiecesAre
<1>2. QED
  BY <1>1 DEF Weighed, Counted

SplitOrSame(receipts, old, now) ==
  \A i \in Affected(receipts) :
    SplitBy(receipts, Len(receipts), i) \/ Pieces(now[i]) = Pieces(old[i])

\* Taking the receipts one by one from none to all, the total stays.
LEMMA UnitsKept ==
  ASSUME NEW receipts, Len(receipts) \in Nat, Affected(receipts) \subseteq Ids,
         NEW old \in [Ids -> Row \cup {None}], NEW now \in [Ids -> Row \cup {None}],
         AllExact(now, Affected(receipts)),
         PartedAll(receipts, old, now),
         SplitOrSame(receipts, old, now)
  PROVE  Units(old, Affected(receipts)) = Units(now, Affected(receipts))
<1> DEFINE N == Len(receipts)
           ids == Affected(receipts)
           W(k) == Weighed(receipts, k, old, now)
           Good(k) == \E f : Sums(f, W(k)) /\ f[MaxItems] = Units(old, ids)
           Bad == {k \in 0 .. N : ~ Good(k)}
<1>1. Bad = {}
  <2> SUFFICES ASSUME Bad # {} PROVE FALSE
    OBVIOUS
  <2>1. PICK k \in Bad : \A j \in Bad : k <= j
    <3>1. Bad \subseteq Nat
      OBVIOUS
    <3> HIDE DEF Bad
    <3>2. QED
      BY <3>1, LeastNumber
  <2>0. PartedAll(receipts, old, now) /\ AllExact(now, Affected(receipts))
    OBVIOUS
  <2>2. CASE k = 0
    <3>1. \A i \in Ids : W(0)[i] = Counted(old, ids)[i]
      BY DEF Weighed, SplitBy
    <3>2. PICK f : Sums(f, Counted(old, ids)) /\ Units(old, ids) = f[MaxItems]
      BY UnitsAre
    <3> HIDE DEF W
    <3>3. Sums(f, W(0))
      BY <3>1, <3>2 DEF Sums
    <3>4. QED
      BY <2>1, <2>2, <3>2, <3>3
  <2>3. CASE k # 0
    <3>1. k \in 1 .. N /\ k \in Nat \ {0} /\ k <= N /\ k - 1 \in 0 .. N /\ k - 1 \notin Bad
      BY <2>1, <2>3
    <3>2. PICK f : Sums(f, W(k - 1)) /\ f[MaxItems] = Units(old, ids)
      BY <3>1
    <3>3. PICK g : Sums(g, W(k))
      BY SumsAre
    <3>4. \E a, b \in Ids : Transferred(W(k - 1), W(k), a, b)
      BY <2>0, <3>1, OneWeighed
    <3>5. W(k) \in [Ids -> Nat] /\ W(k - 1) \in [Ids -> Nat]
      BY WeighedIs
    <3>6. PICK v \in [Ids -> Nat], w \in [Ids -> Nat] : v = W(k - 1) /\ w = W(k)
      BY <3>5
    <3> HIDE DEF W
    <3>7. f[MaxItems] = g[MaxItems]
      <4>1. PICK a \in Ids, b \in Ids : Transferred(v, w, a, b)
        BY <3>4, <3>6
      <4>2. Sums(f, v) /\ Sums(g, w)
        BY <3>2, <3>3, <3>6
      <4>3. QED
        BY <4>1, <4>2, Transfer, ZenonT(60)
    <3>8. QED
      BY <2>1, <3>2, <3>3, <3>7
  <2>4. QED
    BY <2>2, <2>3
<1>2. PICK f : Sums(f, W(N)) /\ f[MaxItems] = Units(old, ids)
  BY <1>1
<1>3. PICK g : Sums(g, Counted(now, ids)) /\ Units(now, ids) = g[MaxItems]
  BY UnitsAre
<1>4. \A i \in Ids : W(N)[i] = Counted(now, ids)[i]
  <2>1. TAKE i \in Ids
  <2>2. W(N)[i] = IF SplitBy(receipts, N, i) THEN Counted(now, ids)[i] ELSE Counted(old, ids)[i]
    BY DEF Weighed
  <2>3. SplitBy(receipts, N, i) \/ Counted(now, ids)[i] = Counted(old, ids)[i]
    BY DEF SplitOrSame, Counted
  <2>4. QED
    BY <2>2, <2>3
<1>5. W(N) \in [Ids -> Nat]
  BY WeighedIs
<1>6. PICK a \in Ids : TRUE
  BY ConstantsAssumption DEF Ids
<1> HIDE DEF W
<1>7. Sums(g, W(N))
  BY <1>3, <1>4 DEF Sums
<1>8. f[MaxItems] = g[MaxItems]
  <2>1. Transferred(W(N), W(N), a, a)
    BY DEF Transferred
  <2>2. QED
    BY <1>2, <1>5, <1>7, <2>1, Transfer
<1>9. QED
  BY <1>2, <1>3, <1>8

(***************************************************************************)
(* And it takes back all that the turn did, if its splits show: what the   *)
(* turn created is gone or lies where the lot lay, and lots counted        *)
(* exactly hold what they held, however often the turn split them.         *)
(***************************************************************************)
THEOREM UndoIsWhole == ASSUME OneSession PROVE Spec => UndoIsComplete
<1>1. ASSUME IInv, Next, NEW s \in Sessions, UndoFlushed(s)
      PROVE  LET receipts == lastRun[turn[s].conversation]
                 touched == Affected(receipts)
                 old == around[turn[s].conversation].before.items
                 now == draft'.items
             IN SplitsShow(receipts) =>
                  /\ \A i \in touched : old[i] = None => CreatedIsGone(i, now, old)
                  /\ AllExact(old, touched) /\ AllExact(now, touched) =>
                       Units(old, touched) = Units(now, touched)
  <2> DEFINE v == turn[s].conversation
             receipts == lastRun[v]
             store == around[v].before
             done == Compensated(draft, receipts)
  <2> SUFFICES ASSUME SplitsShow(receipts)
               PROVE  /\ \A i \in Affected(receipts) :
                           store.items[i] = None => CreatedIsGone(i, draft'.items, store.items)
                      /\ AllExact(store.items, Affected(receipts))
                         /\ AllExact(draft'.items, Affected(receipts)) =>
                           Units(store.items, Affected(receipts)) =
                           Units(draft'.items, Affected(receipts))
    OBVIOUS
  <2>1. /\ v \in Conversations /\ draft'.items = done.rows
        /\ \E d : Undone(d, draft, receipts) /\ done = d[Len(receipts)]
    BY <1>1, UndoIs
  <2>2. PICK d : Undone(d, draft, receipts) /\ done = d[Len(receipts)]
    BY <2>1
  <2>3. Begun(receipts, store) /\ Chained(receipts) /\ store \in StoreType
    BY <1>1, <2>1 DEF IInv, BegunInv, TypeOK
  <2> HIDE DEF v, done, receipts, store
  <2>4. PICK now : now = draft'.items /\ now = d[Len(receipts)].rows
    BY <2>1, <2>2
  <2>5. PICK old : old = store.items /\ old \in [Ids -> Row \cup {None}]
    BY <2>3 DEF StoreType
  <2>6. /\ Len(receipts) \in Nat /\ now \in [Ids -> Row \cup {None}]
        /\ \A n \in 1 .. Len(receipts) : DOMAIN receipts[n].after \subseteq Ids
    BY <2>2, <2>4, AllBack
  <2>7. Affected(receipts) \subseteq Ids
    BY <2>6 DEF Affected
  <2>8. PartedAll(receipts, old, now)
    BY <2>2, <2>3, <2>4, <2>5, SplitUndone DEF PartedAll
  <2>9. \A i \in Affected(receipts) :
          \/ SplitBy(receipts, Len(receipts), i)
          \/ old[i] = None /\ now[i].state = "removed"
          \/ now[i] \in Row /\ now[i] = old[i]
    <3>1. TAKE i \in Affected(receipts)
    <3>2. LET then == d[Len(receipts)].rows IN
          \/ \E n \in 1 .. Len(receipts) : IsSplit(receipts[n]) /\ i \in DOMAIN receipts[n].after
          \/ store.items[i] = None /\ then[i].state = "removed"
          \/ then[i] \in Row /\ then[i] = store.items[i]
      BY <2>2, <2>3, RowsUndone
    <3>3. QED
      BY <2>4, <2>5, <3>2 DEF SplitBy
  <2>10. ASSUME NEW i \in Affected(receipts), old[i] = None
         PROVE  CreatedIsGone(i, now, old)
    <3>1. CASE now[i].state = "removed"
      BY <3>1 DEF CreatedIsGone
    <3>2. CASE SplitBy(receipts, Len(receipts), i)
      <4>1. PICK n \in 1 .. Len(receipts) : IsSplit(receipts[n]) /\ i \in DOMAIN receipts[n].after
        BY <3>2 DEF SplitBy
      <4>2. PICK r : r = receipts[n]
        OBVIOUS
      <4>3. Parted(r, old, now) /\ i \in DOMAIN r.after
        BY <2>8, <4>1, <4>2 DEF PartedAll
      <4>4. r.before \in Row /\ r.before # None /\ CoherentRow(r.before) /\ r.source \in Ids
            /\ old[r.source] = r.before
        BY <4>3, RowIs DEF Parted
      <4>5. i = r.entity
        BY <2>10, <4>3, <4>4 DEF Parted
      <4>6. PICK part \in Quantity : now[i] = [r.before EXCEPT !.quantity = part]
        BY <4>3, <4>5 DEF Parted
      <4>7. SameButQuantity(now[i], old[r.source])
        BY <4>4, <4>6, CountedIs
      <4>8. QED
        BY <4>4, <4>7 DEF CreatedIsGone
    <3>3. ~ (now[i] \in Row /\ now[i] = old[i])
      BY <2>10, RowIs
    <3>4. QED
      BY <2>9, <3>1, <3>2, <3>3
  <2>11. ASSUME AllExact(now, Affected(receipts))
         PROVE  Units(old, Affected(receipts)) = Units(now, Affected(receipts))
    <3>1. SplitOrSame(receipts, old, now)
      <4>1. \A i \in Affected(receipts) :
              old[i] = None /\ now[i].state = "removed" => Pieces(now[i]) = Pieces(old[i])
        <5>1. TAKE i \in Affected(receipts)
        <5>2. i \in Ids /\ (now[i] = None \/ now[i] \in Row)
          BY <2>6, <2>7
        <5>3. QED
          BY <5>2, PiecesAre
      <4>2. QED
        BY <2>9, <4>1 DEF SplitOrSame
    <3>2. QED
      BY <2>5, <2>6, <2>7, <2>8, <2>11, <3>1, UnitsKept
  <2>12. QED
    BY <2>4, <2>5, <2>10, <2>11
<1>2. IInv /\ [Next]_vars =>
        [\A s \in Sessions : UndoFlushed(s) =>
           LET receipts == lastRun[turn[s].conversation]
               touched == Affected(receipts)
               old == around[turn[s].conversation].before.items
               now == draft'.items
           IN SplitsShow(receipts) =>
                /\ \A i \in touched : old[i] = None => CreatedIsGone(i, now, old)
                /\ AllExact(old, touched) /\ AllExact(now, touched) =>
                     Units(old, touched) = Units(now, touched)]_vars
  BY <1>1
<1>3. QED
  BY <1>2, Invariance, PTL DEF Spec, UndoIsComplete

-----------------------------------------------------------------------------
(* Several sessions                                                        *)

\* A log, whatever its receipts are.
IsLog(log) == \E S : log \in Seq(S)

\* A receipt that Undo can take back is about rows, its entity among them, or
\* about one photo.
Plain(r) ==
  Supported(r) =>
    IF r.op \in PhotoOps
    THEN DOMAIN r.after = {} /\ DOMAIN r.photos = {r.entity} /\ r.entity \in PhotoIds
    ELSE DOMAIN r.photos = {} /\ r.entity \in DOMAIN r.after /\ DOMAIN r.after \subseteq Ids

\* So is the change that it is the receipt of.
PlainChange(c) ==
  c.op \notin {"create_node", "undo_last_action"} =>
    IF c.op \in PhotoOps
    THEN /\ DOMAIN c.new = {} /\ DOMAIN c.photos = {c.entity}
         /\ c.entity \in PhotoIds \/ (c.entity = New /\ c.photos[New] # None)
    ELSE /\ DOMAIN c.photos = {} /\ c.entity \in DOMAIN c.new
         /\ DOMAIN c.new \subseteq Ids \cup {New} /\ (New \in DOMAIN c.new => c.entity = New)

\* The newest receipt about a row or a photo says how it was left.
LastSays(log, store) ==
  \A n \in DOMAIN log :
    /\ \A i \in Ids \cap DOMAIN log[n].after :
         (\A m \in DOMAIN log : m > n => i \notin DOMAIN log[m].after) =>
           log[n].after[i] = store.items[i]
    /\ \A p \in PhotoIds \cap DOMAIN log[n].photos :
         (\A m \in DOMAIN log : m > n => p \notin DOMAIN log[m].photos) =>
           log[n].photos[p] = store.photos[p]

PlainLog(log) == IsLog(log) /\ \A n \in DOMAIN log : Plain(log[n])

IsStore(store) == DOMAIN store.items = Ids /\ DOMAIN store.photos = PhotoIds

\* Undo has found the store as its turn left it.
Compensates(s) ==
  /\ turn[s].conversation # None
  /\ \A n \in 1 .. Len(lastRun[turn[s].conversation]) :
       Supported(lastRun[turn[s].conversation][n])
  /\ Compensated(Store(s), lastRun[turn[s].conversation]).ok

OfSession(s) ==
  /\ turn[s] = [stage |-> turn[s].stage, conversation |-> turn[s].conversation,
                receipts |-> turn[s].receipts, plan |-> turn[s].plan, seen |-> turn[s].seen]
  /\ turn[s].conversation \in Conversations \cup {None}
  /\ PlainLog(turn[s].receipts)
  /\ turn[s].receipts # <<>> => writer = s /\ LastSays(turn[s].receipts, draft)
  /\ turn[s].stage = "flushing" =>
       /\ PlainChange(turn[s].plan)
       /\ DOMAIN turn[s].seen = DOMAIN turn[s].plan.new \ {New}
       /\ turn[s].plan.op = "undo_last_action" /\ s \notin overtaken => Compensates(s)

OfConversation(v) == PlainLog(lastRun[v]) /\ LastSays(lastRun[v], around[v].after)

\* What needs no session to be alone.
SharedInv ==
  /\ turn = [s \in Sessions |-> turn[s]]
  /\ lastRun = [v \in Conversations |-> lastRun[v]]
  /\ around = [v \in Conversations |-> around[v]]
  /\ IsStore(committed) /\ IsStore(draft)
  /\ \A s \in Sessions : OfSession(s)
  /\ \A v \in Conversations : OfConversation(v)

-----------------------------------------------------------------------------
(* A compensation that fits its store                                      *)

IsDone(done) ==
  /\ done = [ok |-> done.ok, rows |-> done.rows, photos |-> done.photos, events |-> done.events]
  /\ done.ok \in BOOLEAN /\ DOMAIN done.rows = Ids /\ DOMAIN done.photos = PhotoIds

\* One step changes the row or the photo of its receipt, if that fits.
OneFits(was, now, r) ==
  /\ was.ok
  /\ IF r.op \in PhotoOps
     THEN /\ PhotoFits(was.photos, r) /\ now.rows = was.rows
          /\ \A p \in PhotoIds : p # r.entity => now.photos[p] = was.photos[p]
     ELSE /\ Fits(was.rows, r) /\ now.photos = was.photos
          /\ \A i \in Ids : i # r.entity => now.rows[i] = was.rows[i]

LEMMA CompensateOne ==
  ASSUME NEW was, IsDone(was), NEW r
  PROVE  /\ IsDone(Compensate(was, r))
         /\ Compensate(was, r).ok => OneFits(was, Compensate(was, r), r)
<1>1. PICK now : now = Compensate(was, r)
  OBVIOUS
<1>2. was = [ok |-> was.ok, rows |-> was.rows, photos |-> was.photos, events |-> was.events]
      /\ was.ok \in BOOLEAN /\ DOMAIN was.rows = Ids /\ DOMAIN was.photos = PhotoIds
  BY DEF IsDone
<1>3. CASE now = was /\ ~ was.ok
  BY <1>1, <1>3
<1>4. CASE now = [was EXCEPT !.ok = FALSE]
  <2>1. PICK no \in BOOLEAN : no = FALSE
    OBVIOUS
  <2>2. now = [ok |-> no, rows |-> was.rows, photos |-> was.photos, events |-> was.events]
    BY <1>2, <1>4, <2>1
  <2>3. /\ now.ok = no /\ now.rows = was.rows /\ now.photos = was.photos
        /\ now = [ok |-> now.ok, rows |-> now.rows, photos |-> now.photos, events |-> now.events]
    BY <2>2
  <2>4. QED
    BY <1>1, <1>2, <2>1, <2>3 DEF IsDone
<1>5. ASSUME was.ok, r.op \in PhotoOps, now # [was EXCEPT !.ok = FALSE]
      PROVE  IsDone(now) /\ OneFits(was, now, r)
  <2>1. PICK p, photo : p = r.entity /\ photo = IF r.op = "attach_item_photo" THEN None ELSE r.before
    OBVIOUS
  <2>2. now = CompensatePhoto(was, r)
    BY <1>1, <1>5 DEF Compensate
  <2>3. PhotoFits(was.photos, r) /\ now = [was EXCEPT !.photos[p] = photo]
    BY <1>5, <2>1, <2>2 DEF CompensatePhoto
  <2>4. now = [ok |-> was.ok, rows |-> was.rows, photos |-> [was.photos EXCEPT ![p] = photo],
               events |-> was.events]
    BY <1>2, <2>3
  <2>5. /\ now.ok = was.ok /\ now.rows = was.rows /\ now.photos = [was.photos EXCEPT ![p] = photo]
        /\ now = [ok |-> now.ok, rows |-> now.rows, photos |-> now.photos, events |-> now.events]
    BY <2>4
  <2>6. DOMAIN now.photos = PhotoIds /\ \A q \in PhotoIds : q # p => now.photos[q] = was.photos[q]
    BY <1>2, <2>5
  <2>7. QED
    BY <1>2, <1>5, <2>1, <2>3, <2>5, <2>6 DEF IsDone, OneFits
<1>6. ASSUME was.ok, r.op \notin PhotoOps, now # [was EXCEPT !.ok = FALSE]
      PROVE  IsDone(now) /\ OneFits(was, now, r)
  <2>1. Fits(was.rows, r) /\ now = RestoreSnapshot(was, r.entity, Target(was.rows[r.entity], r))
    BY <1>1, <1>6 DEF Compensate
  <2>2. PICK i, target, e : /\ i = r.entity /\ target = Target(was.rows[r.entity], r)
                            /\ e = Event("item_undo_compensated", i, was.rows[i].place, target.place)
    OBVIOUS
  <2>3. now = [was EXCEPT !.rows[i] = target, !.events = Append(@, e)]
    BY <2>1, <2>2 DEF RestoreSnapshot
  <2>4. now = [ok |-> was.ok, rows |-> [was.rows EXCEPT ![i] = target], photos |-> was.photos,
               events |-> Append(was.events, e)]
    BY <1>2, <2>3
  <2>5. /\ now.ok = was.ok /\ now.photos = was.photos /\ now.rows = [was.rows EXCEPT ![i] = target]
        /\ now = [ok |-> now.ok, rows |-> now.rows, photos |-> now.photos, events |-> now.events]
    BY <2>4
  <2>6. DOMAIN now.rows = Ids /\ \A j \in Ids : j # i => now.rows[j] = was.rows[j]
    BY <1>2, <2>5
  <2>7. QED
    BY <1>2, <1>6, <2>1, <2>2, <2>5, <2>6 DEF IsDone, OneFits
<1>7. [was EXCEPT !.ok = FALSE].ok = FALSE
  <2>1. PICK no \in BOOLEAN : no = FALSE
    OBVIOUS
  <2>2. [was EXCEPT !.ok = no].ok = no
    BY <1>2
  <2>3. QED
    BY <2>1, <2>2
<1>8. CASE ~ was.ok
  <2>1. now = was
    BY <1>1, <1>8 DEF Compensate
  <2>2. QED
    BY <1>1, <1>8, <2>1
<1>9. CASE now = [was EXCEPT !.ok = FALSE]
  BY <1>1, <1>4, <1>7, <1>9
<1>10. QED
  BY <1>1, <1>5, <1>6, <1>8, <1>9

LEMMA RunFits ==
  ASSUME NEW store, IsStore(store), NEW log, Len(log) \in Nat, NEW d, Run(d, store, log),
         d[Len(log)].ok
  PROVE  \A n \in 1 .. Len(log) : OneFits(d[n - 1], d[n], log[Len(log) + 1 - n])
<1> DEFINE N == Len(log)
<1>1. \A n \in 0 .. N : IsDone(d[n])
  <2> DEFINE Bad == {n \in 0 .. N : ~ IsDone(d[n])}
  <2> SUFFICES ASSUME Bad # {} PROVE FALSE
    OBVIOUS
  <2>1. PICK n \in Bad : \A k \in Bad : n <= k
    <3>1. Bad \subseteq Nat
      OBVIOUS
    <3> HIDE DEF Bad
    <3>2. QED
      BY <3>1, LeastNumber
  <2>2. n # 0
    <3>1. PICK start : start = d[0] /\ start = [ok |-> TRUE, rows |-> store.items,
                                               photos |-> store.photos, events |-> <<>>]
      BY DEF Run, Start
    <3>2. IsDone(start)
      BY <3>1 DEF IsDone, IsStore
    <3>3. QED
      BY <2>1, <3>1, <3>2
  <2>3. n \in 1 .. N /\ n - 1 \in 0 .. N /\ n - 1 \notin Bad
    BY <2>1, <2>2
  <2>4. IsDone(d[n - 1]) /\ d[n] = Compensate(d[n - 1], log[N + 1 - n])
    BY <2>3 DEF Run
  <2>5. QED
    BY <2>1, <2>4, CompensateOne
<1>2. ASSUME NEW n \in 1 .. N, d[n].ok
      PROVE  OneFits(d[n - 1], d[n], log[N + 1 - n])
  <2>1. n - 1 \in 0 .. N
    OBVIOUS
  <2>2. d[n] = Compensate(d[n - 1], log[N + 1 - n])
    BY DEF Run
  <2>3. QED
    BY <1>1, <1>2, <2>1, <2>2, CompensateOne
<1>3. \A n \in 0 .. N : d[N - n].ok
  <2> DEFINE Bad == {n \in 0 .. N : ~ d[N - n].ok}
  <2> SUFFICES ASSUME Bad # {} PROVE FALSE
    OBVIOUS
  <2>1. PICK n \in Bad : \A k \in Bad : n <= k
    <3>1. Bad \subseteq Nat
      OBVIOUS
    <3> HIDE DEF Bad
    <3>2. QED
      BY <3>1, LeastNumber
  <2>2. n # 0
    BY <2>1
  <2>3. n \in 1 .. N /\ n - 1 \in 0 .. N /\ n - 1 \notin Bad
    BY <2>1, <2>2
  <2>4. PICK k \in 1 .. N : k = N - (n - 1) /\ k - 1 = N - n
    BY <2>3
  <2>5. d[k].ok
    BY <2>3, <2>4
  <2>6. d[k - 1].ok
    BY <1>2, <2>5 DEF OneFits
  <2>7. QED
    BY <2>1, <2>4, <2>6
<1>4. ASSUME NEW n \in 1 .. N
      PROVE  d[n].ok
  <2>1. N - n \in 0 .. N /\ N - (N - n) = n
    OBVIOUS
  <2>2. QED
    BY <1>3, <2>1
<1>5. QED
  BY <1>2, <1>4

\* Each receipt fits, the newest first.
Fitting(d, log) ==
  \A n \in 1 .. Len(log) :
    Plain(log[n]) /\ Supported(log[n]) /\ OneFits(d[n - 1], d[n], log[Len(log) + 1 - n])

\* What no receipt so far was about is as it is in the store.
Sparing(d, store, log) ==
  \A n \in 0 .. Len(log) :
    /\ \A i \in Ids :
         (\A m \in 1 .. Len(log) : m > Len(log) - n => i \notin DOMAIN log[m].after) =>
           d[n].rows[i] = store.items[i]
    /\ \A p \in PhotoIds :
         (\A m \in 1 .. Len(log) : m > Len(log) - n => p \notin DOMAIN log[m].photos) =>
           d[n].photos[p] = store.photos[p]

LEMMA RunSpares ==
  ASSUME NEW store, NEW log, Len(log) \in Nat, NEW d, Run(d, store, log), Fitting(d, log)
  PROVE  Sparing(d, store, log)
<1> DEFINE N == Len(log)
           Same(n) ==
             /\ \A i \in Ids : (\A m \in 1 .. N : m > N - n => i \notin DOMAIN log[m].after) =>
                  d[n].rows[i] = store.items[i]
             /\ \A p \in PhotoIds : (\A m \in 1 .. N : m > N - n => p \notin DOMAIN log[m].photos) =>
                  d[n].photos[p] = store.photos[p]
           Bad == {n \in 0 .. N : ~ Same(n)}
<1> SUFFICES ASSUME Bad # {} PROVE FALSE
  BY DEF Sparing
<1>1. PICK n \in Bad : \A k \in Bad : n <= k
  <2>1. Bad \subseteq Nat
    OBVIOUS
  <2> HIDE DEF Bad
  <2>2. QED
    BY <2>1, LeastNumber
<1>2. n # 0
  <2>1. PICK start : start = d[0] /\ start = [ok |-> TRUE, rows |-> store.items,
                                             photos |-> store.photos, events |-> <<>>]
    BY DEF Run, Start
  <2>2. d[0].rows = store.items /\ d[0].photos = store.photos
    BY <2>1
  <2>3. Same(0)
    BY <2>2
  <2>4. QED
    BY <1>1, <2>3
<1>3. n \in 1 .. N /\ n - 1 \in 0 .. N /\ n - 1 \notin Bad
  BY <1>1, <1>2
<1>4. Same(n - 1)
  BY <1>3
<1> DEFINE k == N + 1 - n
           r == log[k]
<1>5. k \in 1 .. N /\ k > N - n /\ \A m \in 1 .. N : m > N - (n - 1) => m > N - n
  BY <1>3
<1>6. Plain(r) /\ Supported(r) /\ OneFits(d[n - 1], d[n], r)
  BY <1>3, <1>5 DEF Fitting
<1> HIDE DEF r
<1>7. ASSUME NEW i \in Ids, \A m \in 1 .. N : m > N - n => i \notin DOMAIN log[m].after
      PROVE  d[n].rows[i] = store.items[i]
  <2>1. d[n - 1].rows[i] = store.items[i]
    BY <1>4, <1>5, <1>7
  <2>2. i \notin DOMAIN r.after
    BY <1>5, <1>7 DEF r
  <2>3. d[n].rows[i] = d[n - 1].rows[i]
    BY <1>6, <2>2 DEF OneFits, Plain
  <2>4. QED
    BY <2>1, <2>3
<1>8. ASSUME NEW p \in PhotoIds, \A m \in 1 .. N : m > N - n => p \notin DOMAIN log[m].photos
      PROVE  d[n].photos[p] = store.photos[p]
  <2>1. d[n - 1].photos[p] = store.photos[p]
    BY <1>4, <1>5, <1>8
  <2>2. p \notin DOMAIN r.photos
    BY <1>5, <1>8 DEF r
  <2>3. d[n].photos[p] = d[n - 1].photos[p]
    BY <1>6, <2>2 DEF OneFits, Plain
  <2>4. QED
    BY <2>1, <2>3
<1>9. QED
  BY <1>1, <1>7, <1>8

\* So the newest receipt about a row or a photo was compared with the store.
LEMMA StoreFits ==
  ASSUME NEW store, IsStore(store), NEW log, PlainLog(log),
         \A n \in 1 .. Len(log) : Supported(log[n]),
         Compensated(store, log).ok, NEW left, LastSays(log, left)
  PROVE  /\ \A i \in Affected(log) : store.items[i] = left.items[i]
         /\ \A p \in Pictured(log) : store.photos[p] = left.photos[p]
<1> DEFINE N == Len(log)
<1>1. N \in Nat /\ DOMAIN log = 1 .. N
  BY DEF PlainLog, IsLog
<1>2. PICK d : Run(d, store, log) /\ Compensated(store, log) = d[N]
  BY <1>1, CompensationRuns
<1>3. \A n \in 1 .. N : Plain(log[n]) /\ Supported(log[n])
  BY <1>1 DEF PlainLog
<1>4. \A n \in 1 .. N : OneFits(d[n - 1], d[n], log[N + 1 - n])
  BY <1>1, <1>2, RunFits
<1>5. ASSUME NEW n \in 1 .. N
      PROVE  /\ N - n \in 0 .. N /\ N - (N - n) = n
             /\ log[n].op \in PhotoOps => PhotoFits(d[N - n].photos, log[n])
             /\ log[n].op \notin PhotoOps => Fits(d[N - n].rows, log[n])
  <2>1. PICK k \in 1 .. N : k = N + 1 - n /\ k - 1 = N - n /\ N + 1 - k = n
    BY <1>1
  <2>2. OneFits(d[N - n], d[k], log[n])
    BY <1>4, <2>1
  <2>3. QED
    BY <1>1, <2>2 DEF OneFits
<1> HIDE DEF N
<1>6. \A k \in 0 .. N :
        /\ \A i \in Ids : (\A m \in 1 .. N : m > N - k => i \notin DOMAIN log[m].after) =>
             d[k].rows[i] = store.items[i]
        /\ \A p \in PhotoIds : (\A m \in 1 .. N : m > N - k => p \notin DOMAIN log[m].photos) =>
             d[k].photos[p] = store.photos[p]
  <2>1. Len(log) \in Nat /\ Run(d, store, log) /\ Fitting(d, log)
    BY <1>1, <1>2, <1>3, <1>4 DEF N, Fitting
  <2>2. Sparing(d, store, log)
    BY <2>1, RunSpares
  <2>3. QED
    BY <2>2 DEF N, Sparing
\* The newest one of finitely many.
<1>7. ASSUME NEW T, T \subseteq 1 .. N, T # {}
      PROVE  \E n \in T : \A m \in 1 .. N : m > n => m \notin T
  <2> DEFINE Gaps == {N - n : n \in T}
  <2>1. Gaps \subseteq Nat /\ Gaps # {}
    <3>1. \A n \in T : N - n \in Nat
      BY <1>1, <1>7
    <3>2. PICK n : n \in T
      BY <1>7
    <3>3. N - n \in Gaps
      BY <3>2
    <3>4. QED
      BY <3>1, <3>3
  <2>2. PICK g \in Gaps : \A h \in Gaps : g <= h
    <3> HIDE DEF Gaps
    <3>1. QED
      BY <2>1, LeastNumber
  <2>3. PICK n \in T : g = N - n
    OBVIOUS
  <2>4. ASSUME NEW m \in 1 .. N, m > n, m \in T
        PROVE  FALSE
    <3>1. N - m \in Gaps /\ N - m < N - n
      BY <1>1, <1>7, <2>4
    <3> HIDE DEF Gaps
    <3>2. QED
      BY <1>1, <1>7, <2>1, <2>2, <2>3, <3>1
  <2>5. QED
    BY <2>3, <2>4
<1>8. ASSUME NEW i \in Affected(log)
      PROVE  store.items[i] = left.items[i]
  <2>1. PICK k \in 1 .. N : i \in DOMAIN log[k].after
    BY DEF Affected, N
  <2>2. PICK n \in 1 .. N : /\ i \in DOMAIN log[n].after
                            /\ \A m \in 1 .. N : m > n => i \notin DOMAIN log[m].after
    <3>1. PICK T : T = {m \in 1 .. N : i \in DOMAIN log[m].after}
      OBVIOUS
    <3>2. PICK n \in T : \A m \in 1 .. N : m > n => m \notin T
      BY <1>7, <2>1, <3>1
    <3>3. QED
      BY <3>1, <3>2
  <2>3. i \in Ids /\ log[n].op \notin PhotoOps
    BY <1>3, <2>2 DEF Plain
  <2>4. d[N - n].rows[i] = log[n].after[i]
    BY <1>5, <2>2, <2>3 DEF Fits
  <2>5. log[n].after[i] = left.items[i]
    BY <1>1, <2>2, <2>3 DEF LastSays
  <2>6. d[N - n].rows[i] = store.items[i]
    <3>1. PICK b \in 0 .. N : b = N - n /\ N - b = n
      BY <1>5
    <3>2. \A m \in 1 .. N : m > N - b => i \notin DOMAIN log[m].after
      BY <2>2, <3>1
    <3>3. QED
      BY <1>6, <2>3, <3>1, <3>2
  <2>7. QED
    BY <2>4, <2>5, <2>6
<1>9. ASSUME NEW p \in Pictured(log)
      PROVE  store.photos[p] = left.photos[p]
  <2>1. PICK k \in 1 .. N : p \in DOMAIN log[k].photos
    BY DEF Pictured, N
  <2>2. PICK n \in 1 .. N : /\ p \in DOMAIN log[n].photos
                            /\ \A m \in 1 .. N : m > n => p \notin DOMAIN log[m].photos
    <3>1. PICK T : T = {m \in 1 .. N : p \in DOMAIN log[m].photos}
      OBVIOUS
    <3>2. PICK n \in T : \A m \in 1 .. N : m > n => m \notin T
      BY <1>7, <2>1, <3>1
    <3>3. QED
      BY <3>1, <3>2
  <2>3. p \in PhotoIds /\ log[n].op \in PhotoOps /\ p = log[n].entity
    BY <1>3, <2>2 DEF Plain
  <2>4. d[N - n].photos[p] = log[n].photos[p]
    BY <1>5, <2>3 DEF PhotoFits
  <2>5. log[n].photos[p] = left.photos[p]
    BY <1>1, <2>2, <2>3 DEF LastSays
  <2>6. d[N - n].photos[p] = store.photos[p]
    <3>1. PICK b \in 0 .. N : b = N - n /\ N - b = n
      BY <1>5
    <3>2. \A m \in 1 .. N : m > N - b => p \notin DOMAIN log[m].photos
      BY <2>2, <3>1
    <3>3. QED
      BY <1>6, <2>3, <3>1, <3>2
  <2>7. QED
    BY <2>4, <2>5, <2>6
<1>10. QED
  BY <1>8, <1>9

-----------------------------------------------------------------------------
(* Steps of one of several sessions                                        *)

LEMMA SharedTurn ==
  ASSUME SharedInv, NEW s \in Sessions
  PROVE  /\ turn = [t \in Sessions |-> turn[t]]
         /\ turn[s] = [stage |-> turn[s].stage, conversation |-> turn[s].conversation,
                       receipts |-> turn[s].receipts, plan |-> turn[s].plan,
                       seen |-> turn[s].seen]
         /\ turn[s].conversation \in Conversations \cup {None}
         /\ PlainLog(turn[s].receipts) /\ Len(turn[s].receipts) \in Nat
         /\ turn[s].receipts # << >> => writer = s /\ LastSays(turn[s].receipts, draft)
<1>1. OfSession(s)
  BY DEF SharedInv
<1>2. PlainLog(turn[s].receipts)
  BY <1>1 DEF OfSession
<1>3. Len(turn[s].receipts) \in Nat
  BY <1>2 DEF PlainLog, IsLog
<1>4. QED
  BY <1>1, <1>2, <1>3 DEF SharedInv, OfSession

LEMMA NoLog ==
  ASSUME NEW store
  PROVE  PlainLog(<< >>) /\ LastSays(<< >>, store)
<1>1. << >> \in Seq({})
  OBVIOUS
<1>2. QED
  BY <1>1 DEF PlainLog, IsLog, LastSays

\* The turn of s, at a step that gives it another one.
LEMMA OwnTurn ==
  ASSUME SharedInv, NEW s \in Sessions, NEW now, turn' = [turn EXCEPT ![s] = now]
  PROVE  /\ turn'[s] = now /\ turn' = [t \in Sessions |-> turn'[t]]
         /\ \A t \in Sessions \ {s} : turn'[t] = turn[t]
BY DEF SharedInv

\* A step that leaves the store, the lock and the logs alone.
LEMMA TurnKept ==
  ASSUME SharedInv, NEW s \in Sessions, NEW now, turn' = [turn EXCEPT ![s] = now],
         UNCHANGED <<committed, draft, writer, lastRun, around, overtaken>>, OfSession(s)'
  PROVE  SharedInv'
<1>1. /\ turn'[s] = now /\ turn' = [t \in Sessions |-> turn'[t]]
      /\ \A t \in Sessions \ {s} : turn'[t] = turn[t]
  BY OwnTurn
<1>2. ASSUME NEW t \in Sessions \ {s}
      PROVE  OfSession(t)'
  <2>1. OfSession(t) /\ turn'[t] = turn[t]
    BY <1>1 DEF SharedInv
  <2>2. Compensates(t) => Compensates(t)'
    BY <2>1 DEF Compensates, Store
  <2>3. QED
    BY <2>1, <2>2 DEF OfSession
<1>3. \A v \in Conversations : OfConversation(v)'
  BY DEF SharedInv, OfConversation
<1>4. QED
  BY <1>1, <1>2, <1>3 DEF SharedInv, IsStore

LEMMA BeginShared ==
  ASSUME SharedInv, NEW s \in Sessions, Begin(s)
  PROVE  SharedInv' /\ turn'[s].receipts = << >>
<1>1. PICK v \in Conversations \cup {None} :
        turn' = [turn EXCEPT ![s] = [Idle EXCEPT !.stage = "open", !.conversation = v]]
  BY DEF Begin
<1>2. PICK now : now = [Idle EXCEPT !.stage = "open", !.conversation = v]
  OBVIOUS
<1>3. PICK empty : empty = << >>
  OBVIOUS
<1>4. now = [stage |-> "open", conversation |-> v, receipts |-> empty, plan |-> None,
             seen |-> None]
  <2>1. PICK idle : idle = Idle /\ idle = [stage |-> "idle", conversation |-> None,
                      receipts |-> empty, plan |-> None, seen |-> None]
    BY <1>3 DEF Idle
  <2>2. now = [idle EXCEPT !.stage = "open", !.conversation = v]
    BY <1>2, <2>1
  <2>3. idle = [stage |-> "idle", conversation |-> None, receipts |-> empty, plan |-> None,
                seen |-> None]
    BY <2>1
  <2>4. QED
    BY <2>2, <2>3
<1>5. turn' = [turn EXCEPT ![s] = now] /\ turn'[s] = now
  <2>1. turn' = [turn EXCEPT ![s] = now]
    BY <1>1, <1>2, Zenon
  <2>2. QED
    BY <2>1, SharedTurn
<1>6. /\ now = [stage |-> now.stage, conversation |-> now.conversation, receipts |-> now.receipts,
                plan |-> now.plan, seen |-> now.seen]
      /\ now.stage = "open" /\ now.conversation = v /\ now.receipts = << >>
  BY <1>3, <1>4
<1>7. OfSession(s)'
  BY <1>5, <1>6, NoLog DEF OfSession
<1>8. UNCHANGED <<committed, draft, writer, lastRun, around, overtaken>>
  BY DEF Begin
<1>9. QED
  BY <1>5, <1>6, <1>7, <1>8, TurnKept

LEMMA LookShared ==
  ASSUME SharedInv, NEW s \in Sessions, Look(s)
  PROVE  SharedInv' /\ turn'[s].receipts = turn[s].receipts
<1>1. PICK seen : turn' = [turn EXCEPT ![s].stage = "looked", ![s].seen = seen]
  BY DEF Look
<1>2. PICK old : old = turn[s]
  OBVIOUS
<1>3. old = [stage |-> old.stage, conversation |-> old.conversation,
             receipts |-> old.receipts, plan |-> old.plan, seen |-> old.seen]
  BY <1>2, SharedTurn
<1>4. PICK now : now = [old EXCEPT !.stage = "looked", !.seen = seen]
  OBVIOUS
<1>5. /\ now = [stage |-> now.stage, conversation |-> now.conversation, receipts |-> now.receipts,
                plan |-> now.plan, seen |-> now.seen]
      /\ now.stage = "looked" /\ now.conversation = old.conversation
      /\ now.receipts = old.receipts
  BY <1>3, <1>4
<1>6. turn' = [turn EXCEPT ![s] = now] /\ turn'[s] = now
  BY <1>1, <1>2, <1>4, SharedTurn
<1>7. UNCHANGED <<committed, draft, writer, lastRun, around, overtaken>>
  BY DEF Look
<1>8. OfSession(s)'
  BY <1>2, <1>5, <1>6, <1>7, SharedTurn DEF OfSession
<1>9. QED
  BY <1>2, <1>5, <1>6, <1>7, <1>8, TurnKept

LEMMA AwaitShared ==
  ASSUME SharedInv, NEW s \in Sessions, NEW c, PlainChange(c), Await(s, c),
         c.op = "undo_last_action" /\ s \notin overtaken => Compensates(s)
  PROVE  SharedInv' /\ turn'[s].receipts = turn[s].receipts
<1>1. PICK old, read : old = turn[s] /\ read = Read(s, c)
  OBVIOUS
<1>2. old = [stage |-> old.stage, conversation |-> old.conversation,
             receipts |-> old.receipts, plan |-> old.plan, seen |-> old.seen]
  BY <1>1, SharedTurn
<1>3. PICK now : now = [old EXCEPT !.stage = "flushing", !.plan = c, !.seen = read]
  OBVIOUS
<1>4. /\ now = [stage |-> now.stage, conversation |-> now.conversation, receipts |-> now.receipts,
                plan |-> now.plan, seen |-> now.seen]
      /\ now.stage = "flushing" /\ now.conversation = old.conversation
      /\ now.receipts = old.receipts /\ now.plan = c /\ now.seen = read
  BY <1>2, <1>3
<1>5. turn' = [turn EXCEPT ![s] = now] /\ turn'[s] = now
  BY <1>1, <1>3, SharedTurn DEF Await
<1>6. UNCHANGED <<committed, draft, writer, lastRun, around, overtaken>>
  BY DEF Await
<1>7. DOMAIN read = DOMAIN c.new \ {New}
  BY <1>1 DEF Read
<1>8. Compensates(s) => Compensates(s)'
  BY <1>1, <1>4, <1>5, <1>6 DEF Compensates, Store
<1>9. OfSession(s)'
  BY <1>1, <1>4, <1>5, <1>6, <1>7, <1>8, SharedTurn DEF OfSession
<1>10. QED
  BY <1>1, <1>4, <1>5, <1>6, <1>9, TurnKept

\* The receipt tells what the flush has changed in the store.
Turns(store, then, r) ==
  /\ \A i \in Ids : IF i \in DOMAIN r.after THEN then.items[i] = r.after[i]
                    ELSE then.items[i] = store.items[i]
  /\ \A p \in PhotoIds : IF p \in DOMAIN r.photos THEN then.photos[p] = r.photos[p]
                         ELSE then.photos[p] = store.photos[p]

\* What a flush leaves, and what its receipt says of it.
LEMMA FlushSays ==
  ASSUME NEW s, NEW c, NEW read, DOMAIN read = DOMAIN c.new \ {New}, Write(s, c, read)
  PROVE  IsStore(draft') /\ Turns(Store(s), draft', Noted(s, c, read))
<1> DEFINE r == Noted(s, c, read)
           W == Written(s, c, read)
<1>1. /\ draft'.items = W
      /\ draft'.photos = [p \in PhotoIds |-> IF p \in DOMAIN Pictures(s, c) THEN Pictures(s, c)[p]
                                            ELSE Photos(s)[p]]
  BY DEF Write
<1>2. r.after = [i \in {IdOf(s, j) : j \in DOMAIN c.new} |-> W[i]] /\ r.photos = Pictures(s, c)
  BY DEF Noted, ReceiptOf
<1>3. \A i \in Ids : i \notin DOMAIN r.after => W[i] = Rows(s)[i]
  <2> SUFFICES ASSUME NEW i \in Ids, i \notin {IdOf(s, j) : j \in DOMAIN c.new}
               PROVE  W[i] = Rows(s)[i]
    BY <1>2
  <2>1. i \notin DOMAIN c.new
    BY Numbers DEF IdOf
  <2>2. New \in DOMAIN c.new => i # NextId(s)
    BY DEF IdOf
  <2>3. i \notin DOMAIN read
    BY <2>1
  <2>4. QED
    BY <2>2, <2>3 DEF Written
<1>4. DOMAIN draft'.items = Ids
  BY <1>1 DEF Written
<1> HIDE DEF r, W
<1>5. QED
  BY <1>1, <1>2, <1>3, <1>4 DEF IsStore, Turns, Rows, Photos, r

\* The receipt of a plain change is plain.
LEMMA NotedPlain ==
  ASSUME NEW s, NEW c, PlainChange(c), NEW read, Write(s, c, read)
  PROVE  Plain(Noted(s, c, read)) /\ Noted(s, c, read).op = c.op
<1> DEFINE r == Noted(s, c, read)
<1>1. /\ r.op = c.op
      /\ r.entity = IF c.op \in PhotoOps THEN PhotoIdOf(s, c.entity) ELSE IdOf(s, c.entity)
      /\ DOMAIN r.after = {IdOf(s, j) : j \in DOMAIN c.new}
      /\ r.photos = Pictures(s, c)
  BY DEF Noted, ReceiptOf
<1>2. DOMAIN r.photos = {PhotoIdOf(s, q) : q \in DOMAIN c.photos}
  BY <1>1 DEF Pictures
<1> HIDE DEF r
<1>3. ASSUME Supported(r), r.op \in PhotoOps
      PROVE  DOMAIN r.after = {} /\ DOMAIN r.photos = {r.entity} /\ r.entity \in PhotoIds
  <2>1. /\ DOMAIN c.new = {} /\ DOMAIN c.photos = {c.entity}
        /\ c.entity \in PhotoIds \/ (c.entity = New /\ c.photos[New] # None)
    BY <1>1, <1>3 DEF PlainChange, Supported
  <2>2. r.entity = PhotoIdOf(s, c.entity)
    BY <1>1, <1>3
  <2>3. PhotoIdOf(s, c.entity) \in PhotoIds
    <3>1. CASE c.entity = New
      <4>1. NextPhoto(s) \in PhotoIds
        BY <2>1, <3>1, Numbers DEF Write, PhotosFit
      <4>2. QED
        BY <3>1, <4>1 DEF PhotoIdOf
    <3>2. CASE c.entity # New
      BY <2>1, <3>2 DEF PhotoIdOf
    <3>3. QED
      BY <3>1, <3>2
  <2>4. QED
    BY <1>1, <1>2, <2>1, <2>2, <2>3
<1>4. ASSUME Supported(r), r.op \notin PhotoOps
      PROVE  DOMAIN r.photos = {} /\ r.entity \in DOMAIN r.after /\ DOMAIN r.after \subseteq Ids
  <2>1. /\ DOMAIN c.photos = {} /\ c.entity \in DOMAIN c.new
        /\ DOMAIN c.new \subseteq Ids \cup {New} /\ (New \in DOMAIN c.new => c.entity = New)
    BY <1>1, <1>4 DEF PlainChange, Supported
  <2>2. \A j \in DOMAIN c.new : IdOf(s, j) \in Ids
    <3>1. ASSUME New \in DOMAIN c.new
          PROVE  NextId(s) \in Ids
      <4>1. HasRoom(s)
        BY <1>1, <1>4, <2>1, <3>1 DEF Write
      <4>2. QED
        BY <4>1, NextIdIs
    <3>2. QED
      BY <2>1, <3>1 DEF IdOf
  <2>3. r.entity = IdOf(s, c.entity)
    BY <1>1, <1>4
  <2>4. QED
    BY <1>1, <1>2, <2>1, <2>2, <2>3
<1>5. QED
  BY <1>1, <1>3, <1>4 DEF Plain, r

\* One receipt more.
LEMMA LogMore ==
  ASSUME NEW log, PlainLog(log), NEW r, Plain(r), NEW store, NEW then,
         log # << >> => LastSays(log, store), Turns(store, then, r)
  PROVE  /\ PlainLog(Append(log, r)) /\ LastSays(Append(log, r), then)
         /\ Last(Append(log, r)) = r
<1>1. PICK S : log \in Seq(S)
  BY DEF PlainLog, IsLog
<1>2. PICK T : T = S \cup {r}
  OBVIOUS
<1>3. log \in Seq(T) /\ r \in T
  BY <1>1, <1>2
<1> DEFINE N == Len(log)
           more == Append(log, r)
<1>4. /\ more \in Seq(T) /\ N \in Nat /\ DOMAIN log = 1 .. N /\ DOMAIN more = 1 .. N + 1
      /\ more[N + 1] = r /\ \A n \in 1 .. N : more[n] = log[n]
      /\ Len(more) = N + 1
  BY <1>3
<1>5. \A n \in 1 .. N + 1 : n = N + 1 \/ (n \in 1 .. N /\ n < N + 1)
  BY <1>4
<1>6. 1 .. N \subseteq 1 .. N + 1 /\ N + 1 \in 1 .. N + 1
  BY <1>4
<1>7. Last(more) = r
  BY <1>4 DEF Last
<1>8. N # 0 => LastSays(log, store)
  BY <1>3, <1>4
<1> HIDE DEF N, more
<1>9. PlainLog(more)
  BY <1>4, <1>5 DEF PlainLog, IsLog
<1>10. ASSUME NEW n \in 1 .. N + 1, NEW i \in Ids, i \in DOMAIN more[n].after,
              \A m \in 1 .. N + 1 : m > n => i \notin DOMAIN more[m].after
       PROVE  more[n].after[i] = then.items[i]
  <2>1. CASE n = N + 1
    BY <1>4, <1>10, <2>1 DEF Turns
  <2>2. CASE n # N + 1
    <3>1. n \in 1 .. N /\ n < N + 1 /\ N # 0
      BY <1>4, <1>5, <2>2
    <3>2. i \notin DOMAIN r.after
      BY <1>4, <1>6, <1>10, <3>1
    <3>3. \A m \in 1 .. N : m > n => i \notin DOMAIN log[m].after
      BY <1>4, <1>6, <1>10
    <3>4. log[n].after[i] = store.items[i]
      BY <1>4, <1>8, <1>10, <3>1, <3>3 DEF LastSays
    <3>5. QED
      BY <1>4, <3>1, <3>2, <3>4 DEF Turns
  <2>3. QED
    BY <2>1, <2>2
<1>11. ASSUME NEW n \in 1 .. N + 1, NEW p \in PhotoIds, p \in DOMAIN more[n].photos,
              \A m \in 1 .. N + 1 : m > n => p \notin DOMAIN more[m].photos
       PROVE  more[n].photos[p] = then.photos[p]
  <2>1. CASE n = N + 1
    BY <1>4, <1>11, <2>1 DEF Turns
  <2>2. CASE n # N + 1
    <3>1. n \in 1 .. N /\ n < N + 1 /\ N # 0
      BY <1>4, <1>5, <2>2
    <3>2. p \notin DOMAIN r.photos
      BY <1>4, <1>6, <1>11, <3>1
    <3>3. \A m \in 1 .. N : m > n => p \notin DOMAIN log[m].photos
      BY <1>4, <1>6, <1>11
    <3>4. log[n].photos[p] = store.photos[p]
      BY <1>4, <1>8, <1>11, <3>1, <3>3 DEF LastSays
    <3>5. QED
      BY <1>4, <3>1, <3>2, <3>4 DEF Turns
  <2>3. QED
    BY <2>1, <2>2
<1>12. LastSays(more, then)
  BY <1>4, <1>10, <1>11 DEF LastSays
<1>13. QED
  BY <1>7, <1>9, <1>12 DEF more

\* While one session writes, another one has flushed nothing.
LEMMA OnlyWriter ==
  ASSUME SharedInv, NEW s \in Sessions, writer \in {None, s}, NEW t \in Sessions \ {s}
  PROVE  turn[t].receipts = << >> /\ Store(t) = committed
<1>1. s # None /\ t # None /\ writer # t
  BY ConstantsAssumption
<1>2. QED
  BY <1>1, SharedTurn DEF Store

LEMMA WriteShared ==
  ASSUME SharedInv, NEW s \in Sessions, NEW c, PlainChange(c), NEW read,
         DOMAIN read = DOMAIN c.new \ {New}, Write(s, c, read)
  PROVE  SharedInv' /\ Receipt(s).op = c.op
<1>1. PICK r : r = Noted(s, c, read)
  OBVIOUS
<1>2. /\ Plain(r) /\ r.op = c.op /\ IsStore(draft') /\ Turns(Store(s), draft', r)
  BY <1>1, NotedPlain, FlushSays
<1>3. PICK old, more : old = turn[s] /\ more = Append(old.receipts, r)
  OBVIOUS
<1>4. /\ old = [stage |-> old.stage, conversation |-> old.conversation,
                receipts |-> old.receipts, plan |-> old.plan, seen |-> old.seen]
      /\ old.conversation \in Conversations \cup {None} /\ PlainLog(old.receipts)
      /\ old.receipts # << >> => writer = s /\ LastSays(old.receipts, draft)
  BY <1>3, SharedTurn
<1>5. PICK now : now = [old EXCEPT !.stage = "open", !.plan = None, !.seen = None,
                                   !.receipts = more]
  OBVIOUS
<1>6. /\ now = [stage |-> now.stage, conversation |-> now.conversation, receipts |-> now.receipts,
                plan |-> now.plan, seen |-> now.seen]
      /\ now.stage = "open" /\ now.conversation = old.conversation /\ now.receipts = more
  BY <1>4, <1>5
<1>7. /\ writer \in {None, s} /\ writer' = s /\ UNCHANGED <<committed, lastRun, around, overtaken>>
  BY DEF Write
<1>8. /\ turn'[s] = now /\ turn' = [t \in Sessions |-> turn'[t]]
      /\ \A t \in Sessions \ {s} : turn'[t] = turn[t]
  <2>1. turn' = [turn EXCEPT ![s].stage = "open", ![s].plan = None, ![s].seen = None,
                             ![s].receipts = Append(@, r)]
    BY <1>1 DEF Write
  <2>2. turn' = [turn EXCEPT ![s] = now]
    BY <1>3, <1>5, <2>1, SharedTurn
  <2>3. QED
    BY <2>2, OwnTurn
<1>9. old.receipts # << >> => LastSays(old.receipts, Store(s))
  BY <1>4 DEF Store
<1>10. PlainLog(more) /\ LastSays(more, draft') /\ Last(more) = r
  <2>1. PICK log, store, then : log = old.receipts /\ store = Store(s) /\ then = draft'
    OBVIOUS
  <2>2. PlainLog(log) /\ Plain(r) /\ (log # << >> => LastSays(log, store)) /\ Turns(store, then, r)
    BY <1>2, <1>4, <1>9, <2>1
  <2>3. PlainLog(Append(log, r)) /\ LastSays(Append(log, r), then) /\ Last(Append(log, r)) = r
    BY <2>2, LogMore
  <2>4. QED
    BY <1>3, <2>1, <2>3
<1>11. OfSession(s)'
  BY <1>4, <1>6, <1>7, <1>8, <1>10 DEF OfSession
<1>12. ASSUME NEW t \in Sessions \ {s}
       PROVE  OfSession(t)'
  <2>1. OfSession(t) /\ turn'[t] = turn[t] /\ turn[t].receipts = << >> /\ Store(t) = committed
    BY <1>7, <1>8, OnlyWriter DEF SharedInv
  <2>2. Store(t)' = Store(t)
    BY <1>7, <2>1 DEF Store
  <2>3. Compensates(t) => Compensates(t)'
    BY <1>7, <2>1, <2>2 DEF Compensates
  <2>4. QED
    BY <1>7, <2>1, <2>3 DEF OfSession
<1>13. \A v \in Conversations : OfConversation(v)'
  BY <1>7 DEF SharedInv, OfConversation
<1>14. SharedInv'
  BY <1>2, <1>7, <1>8, <1>11, <1>12, <1>13 DEF SharedInv, IsStore
<1>15. QED
  BY <1>2, <1>6, <1>8, <1>10, <1>14 DEF Receipt


LEMMA IdleShared ==
  ASSUME SharedInv, NEW s \in Sessions, turn' = [turn EXCEPT ![s] = Idle]
  PROVE  /\ turn' = [t \in Sessions |-> turn'[t]] /\ \A t \in Sessions \ {s} : turn'[t] = turn[t]
         /\ turn'[s].receipts = << >> /\ OfSession(s)'
<1>1. PICK empty : empty = << >>
  OBVIOUS
<1>2. PICK idle : idle = Idle
  OBVIOUS
<1>3. idle = [stage |-> "idle", conversation |-> None, receipts |-> empty, plan |-> None,
              seen |-> None]
  BY <1>1, <1>2 DEF Idle
<1>4. /\ turn'[s] = idle /\ turn' = [t \in Sessions |-> turn'[t]]
      /\ \A t \in Sessions \ {s} : turn'[t] = turn[t]
  BY <1>2, OwnTurn
<1>5. /\ idle = [stage |-> idle.stage, conversation |-> idle.conversation,
                 receipts |-> idle.receipts, plan |-> idle.plan, seen |-> idle.seen]
      /\ idle.stage = "idle" /\ idle.conversation = None /\ idle.receipts = << >>
  BY <1>1, <1>3
<1>6. OfSession(s)'
  BY <1>4, <1>5, NoLog DEF OfSession
<1>7. QED
  BY <1>4, <1>5, <1>6

LEMMA CommitShared ==
  ASSUME SharedInv, NEW s \in Sessions, Commit(s)
  PROVE  SharedInv' /\ turn'[s].receipts = << >>
<1>1. PICK v, store : v = turn[s].conversation /\ store = Store(s)
  OBVIOUS
<1>2. /\ turn[s].stage = "open" /\ writer \in {None, s}
      /\ committed' = store /\ draft' = store /\ writer' = None
      /\ overtaken' = {t \in Sessions \ {s} : turn[t] # Idle}
      /\ turn' = [turn EXCEPT ![s] = Idle]
      /\ IF v = None THEN UNCHANGED <<lastRun, around>>
         ELSE /\ lastRun' = [lastRun EXCEPT ![v] = turn[s].receipts]
              /\ \E pair : around' = [around EXCEPT ![v] = pair]
                           /\ (turn[s].receipts # << >> => pair.after = store)
  BY <1>1 DEF Commit
<1>3. /\ turn' = [t \in Sessions |-> turn'[t]] /\ \A t \in Sessions \ {s} : turn'[t] = turn[t]
      /\ turn'[s].receipts = << >> /\ OfSession(s)'
  BY <1>2, IdleShared
<1>4. IsStore(store) /\ PlainLog(turn[s].receipts)
      /\ (turn[s].receipts # << >> => LastSays(turn[s].receipts, store))
      /\ v \in Conversations \cup {None}
  BY <1>1, SharedTurn DEF SharedInv, Store
<1>5. ASSUME NEW t \in Sessions \ {s}
      PROVE  OfSession(t)'
  <2>1. OfSession(t) /\ turn'[t] = turn[t] /\ turn[t].receipts = << >>
    BY <1>2, <1>3, OnlyWriter DEF SharedInv
  <2>2. turn[t].stage = "flushing" => t \in overtaken'
    BY <1>2 DEF Idle
  <2>3. QED
    BY <2>1, <2>2 DEF OfSession
<1>6. /\ lastRun' = [w \in Conversations |-> lastRun'[w]]
      /\ around' = [w \in Conversations |-> around'[w]]
      /\ \A w \in Conversations : OfConversation(w)'
  <2>1. CASE v = None
    BY <1>2, <2>1 DEF SharedInv, OfConversation
  <2>2. CASE v # None
    <3>1. PICK pair : around' = [around EXCEPT ![v] = pair]
                      /\ (turn[s].receipts # << >> => pair.after = store)
      BY <1>2, <2>2
    <3>2. v \in Conversations /\ lastRun' = [lastRun EXCEPT ![v] = turn[s].receipts]
      BY <1>2, <1>4, <2>2
    <3>3. /\ lastRun'[v] = turn[s].receipts /\ around'[v] = pair
          /\ lastRun' = [w \in Conversations |-> lastRun'[w]]
          /\ around' = [w \in Conversations |-> around'[w]]
          /\ \A w \in Conversations \ {v} : lastRun'[w] = lastRun[w] /\ around'[w] = around[w]
      BY <3>1, <3>2 DEF SharedInv
    <3>4. OfConversation(v)'
      BY <1>4, <3>1, <3>3, NoLog DEF OfConversation
    <3>5. \A w \in Conversations \ {v} : OfConversation(w)'
      BY <3>3 DEF SharedInv, OfConversation
    <3>6. QED
      BY <3>3, <3>4, <3>5
  <2>3. QED
    BY <2>1, <2>2
<1>7. IsStore(committed)' /\ IsStore(draft)'
  BY <1>2, <1>4 DEF IsStore
<1>8. QED
  BY <1>3, <1>5, <1>6, <1>7 DEF SharedInv

LEMMA AbortShared ==
  ASSUME SharedInv, NEW s \in Sessions, Abort(s)
  PROVE  SharedInv' /\ turn'[s].receipts = << >>
<1>1. /\ IF writer = s THEN writer' = None /\ draft' = committed ELSE UNCHANGED <<writer, draft>>
      /\ turn' = [turn EXCEPT ![s] = Idle] /\ overtaken' = overtaken \ {s}
      /\ UNCHANGED <<committed, lastRun, around>>
  BY DEF Abort
<1>2. /\ turn' = [t \in Sessions |-> turn'[t]] /\ \A t \in Sessions \ {s} : turn'[t] = turn[t]
      /\ turn'[s].receipts = << >> /\ OfSession(s)'
  BY <1>1, IdleShared
<1>3. ASSUME NEW t \in Sessions \ {s}
      PROVE  OfSession(t)'
  <2>1. OfSession(t) /\ turn'[t] = turn[t] /\ (t \notin overtaken' => t \notin overtaken)
        /\ t # None
    BY <1>1, <1>2, ConstantsAssumption DEF SharedInv
  <2>2. writer = s => turn[t].receipts = << >>
    BY OnlyWriter
  <2>3. Store(t)' = Store(t)
    BY <1>1, <2>1 DEF Store
  <2>4. Compensates(t) => Compensates(t)'
    BY <1>1, <2>1, <2>3 DEF Compensates
  <2>5. QED
    BY <1>1, <2>1, <2>2, <2>4 DEF OfSession
<1>4. \A v \in Conversations : OfConversation(v)'
  BY <1>1 DEF SharedInv, OfConversation
<1>5. IsStore(committed)' /\ IsStore(draft)'
  BY <1>1 DEF SharedInv, IsStore
<1>6. QED
  BY <1>1, <1>2, <1>3, <1>4, <1>5 DEF SharedInv

-----------------------------------------------------------------------------
(* Calls of one of several sessions                                        *)

\* s plans a change or flushes one; a compensation was found to fit.
Changes(s) ==
  \E c : /\ PlainChange(c)
         /\ c.op = "undo_last_action" /\ s \notin overtaken => Compensates(s)
         /\ \/ Await(s, c)
            \/ \E read : DOMAIN read = DOMAIN c.new \ {New} /\ Write(s, c, read)

LEMMA PlainBefore ==
  ASSUME NEW c, IsChange(c), PlainChange(c), NEW before
  PROVE  LET b == [c EXCEPT !.before = before] IN
         PlainChange(b) /\ b.op = c.op /\ b.new = c.new
<1> DEFINE b == [c EXCEPT !.before = before]
<1>1. c = [op |-> c.op, source |-> c.source, entity |-> c.entity, new |-> c.new,
           events |-> c.events, photos |-> c.photos, before |-> c.before]
  BY DEF IsChange
<1>2. b = [op |-> c.op, source |-> c.source, entity |-> c.entity, new |-> c.new,
           events |-> c.events, photos |-> c.photos, before |-> before]
  BY <1>1
<1> HIDE DEF b
<1>3. b.op = c.op /\ b.entity = c.entity /\ b.new = c.new /\ b.photos = c.photos
  BY <1>2
<1>4. QED
  BY <1>3 DEF PlainChange, b

LEMMA PerformPlain ==
  ASSUME NEW s \in Sessions, NEW c, IsChange(c), PlainChange(c), c.op # "undo_last_action",
         Perform(s, c)
  PROVE  Changes(s)
<1>1. CASE ByHand(s, c)
  BY <1>1 DEF ByHand, Plan, Changes
<1>2. CASE ByTool(s, c)
  <2>1. PICK before : Write(s, [c EXCEPT !.before = before], Read(s, c))
    BY <1>2 DEF ByTool
  <2>2. PICK b, read : b = [c EXCEPT !.before = before] /\ read = Read(s, c)
    OBVIOUS
  <2>3. PlainChange(b) /\ b.op = c.op /\ b.new = c.new
    BY <2>2, PlainBefore
  <2>4. Write(s, b, read) /\ DOMAIN read = DOMAIN b.new \ {New}
    BY <2>1, <2>2, <2>3 DEF Read
  <2>5. QED
    BY <2>3, <2>4 DEF Changes
<1>3. QED
  BY <1>1, <1>2 DEF Perform

\* A change of rows that a flush finds, or of one that it inserts.
LEMMA RowsPlain ==
  ASSUME NEW s \in Sessions, NEW op, op \notin PhotoOps, op # "undo_last_action",
         NEW source, NEW entity, NEW new, NEW events, entity \in DOMAIN new,
         DOMAIN new \subseteq Ids \cup {New}, New \in DOMAIN new => entity = New,
         Perform(s, Change(op, source, entity, new, events))
  PROVE  Changes(s)
<1>1. PICK c : c = Change(op, source, entity, new, events)
  OBVIOUS
<1>2. IsChange(c) /\ c.op = op /\ c.entity = entity /\ c.new = new /\ c.photos = << >>
  BY <1>1, ChangeIs
<1>3. PlainChange(c)
  BY <1>2 DEF PlainChange
<1>4. QED
  BY <1>1, <1>2, <1>3, PerformPlain

LEMMA WholePlain ==
  ASSUME NEW s \in Sessions, NEW op, op \notin PhotoOps, op # "undo_last_action",
         NEW i \in Ids \cup {New}, NEW row, NEW events,
         Perform(s, Change(op, i, i, Only(i, row), events))
  PROVE  Changes(s)
<1>1. PICK new : new = Only(i, row)
  OBVIOUS
<1>2. i \in DOMAIN new /\ DOMAIN new \subseteq Ids \cup {New} /\ (New \in DOMAIN new => i = New)
  BY <1>1 DEF Only
<1>3. QED
  BY <1>1, <1>2, RowsPlain

LEMMA PartPlain ==
  ASSUME NEW s \in Sessions, NEW op, op \notin PhotoOps, op # "undo_last_action",
         NEW i \in Ids, NEW rest, NEW child, NEW events,
         Perform(s, Change(op, i, New, [j \in {i, New} |-> IF j = i THEN rest ELSE child], events))
  PROVE  Changes(s)
<1>1. PICK new : new = [j \in {i, New} |-> IF j = i THEN rest ELSE child]
  OBVIOUS
<1>2. New \in DOMAIN new /\ DOMAIN new \subseteq Ids \cup {New}
  BY <1>1
<1>3. QED
  BY <1>1, <1>2, RowsPlain

\* A photo that is known or inserted.
LEMMA PhotoPlain ==
  ASSUME NEW s \in Sessions, NEW op \in PhotoOps, NEW item, NEW id, NEW photo,
         id \in PhotoIds \/ (id = New /\ photo # None),
         \/ Perform(s, PhotoChange(op, item, id, photo))
         \/ ChangePhoto(s, PhotoChange(op, item, id, photo))
  PROVE  Changes(s)
<1>1. PICK c : c = PhotoChange(op, item, id, photo)
  OBVIOUS
<1>2. /\ IsChange(c) /\ c.op = op /\ c.entity = id /\ c.new = << >>
      /\ DOMAIN c.photos = {id} /\ c.photos[id] = photo
  BY <1>1, PhotoChangeIs
<1>3. PlainChange(c) /\ c.op # "undo_last_action"
  BY <1>2 DEF PlainChange, PhotoOps
<1>4. CASE Perform(s, c)
  BY <1>2, <1>3, <1>4, PerformPlain
<1>5. CASE ChangePhoto(s, c)
  <2>1. CASE ByHand(s, c)
    BY <1>3, <2>1 DEF ByHand, Plan, Changes
  <2>2. ASSUME NEW before, Await(s, [c EXCEPT !.before = before])
        PROVE  Changes(s)
    <3>1. PICK b : b = [c EXCEPT !.before = before]
      OBVIOUS
    <3>2. PlainChange(b) /\ b.op = c.op
      BY <1>2, <1>3, <3>1, PlainBefore
    <3>3. QED
      BY <1>3, <2>2, <3>1, <3>2 DEF Changes
  <2>3. QED
    BY <1>5, <2>1, <2>2 DEF ChangePhoto
<1>6. QED
  BY <1>1, <1>4, <1>5

LEMMA PortionPlain ==
  ASSUME NEW s \in Sessions, NEW i \in Ids, MoveItem(s, i) \/ TakeItem(s, i) \/ RemoveItem(s, i)
  PROVE  Changes(s)
<1>1. PICK lot : lot = Rows(s)[i]
  OBVIOUS
<1>2. CASE MoveItem(s, i)
  <2>1. PICK place :
        \/ \E events : Perform(s, Change("item_moved", i, i, Only(i, Moved(lot, place)), events))
        \/ \E quantity, events :
             Perform(s, Change("item_moved", i, New,
                [j \in {i, New} |-> IF j = i THEN Split(lot, quantity).rest
                                    ELSE Moved(Split(lot, quantity).part, place)], events))
    BY <1>1, <1>2 DEF MoveItem, Portioned
  <2>2. ASSUME NEW events, Perform(s, Change("item_moved", i, i, Only(i, Moved(lot, place)), events))
        PROVE  Changes(s)
    <3>1. PICK row : row = Moved(lot, place)
      OBVIOUS
    <3>2. QED
      BY <2>2, <3>1, WholePlain DEF PhotoOps
  <2>3. ASSUME NEW quantity, NEW events,
               Perform(s, Change("item_moved", i, New,
                  [j \in {i, New} |-> IF j = i THEN Split(lot, quantity).rest
                                      ELSE Moved(Split(lot, quantity).part, place)], events))
        PROVE  Changes(s)
    <3>1. PICK rest, child : rest = Split(lot, quantity).rest /\ child = Moved(Split(lot, quantity).part, place)
      OBVIOUS
    <3>2. Perform(s, Change("item_moved", i, New,
                            [j \in {i, New} |-> IF j = i THEN rest ELSE child], events))
      BY <2>3, <3>1
    <3>3. QED
      BY <3>2, PartPlain DEF PhotoOps
  <2>4. QED
    BY <2>1, <2>2, <2>3
<1>3. CASE TakeItem(s, i)
  <2>1. 
        \/ \E events : Perform(s, Change("item_taken", i, i, Only(i, Taken(lot)), events))
        \/ \E quantity, events :
             Perform(s, Change("item_taken", i, New,
                [j \in {i, New} |-> IF j = i THEN Split(lot, quantity).rest
                                    ELSE Taken(Split(lot, quantity).part)], events))
    BY <1>1, <1>3 DEF TakeItem, Portioned
  <2>2. ASSUME NEW events, Perform(s, Change("item_taken", i, i, Only(i, Taken(lot)), events))
        PROVE  Changes(s)
    <3>1. PICK row : row = Taken(lot)
      OBVIOUS
    <3>2. QED
      BY <2>2, <3>1, WholePlain DEF PhotoOps
  <2>3. ASSUME NEW quantity, NEW events,
               Perform(s, Change("item_taken", i, New,
                  [j \in {i, New} |-> IF j = i THEN Split(lot, quantity).rest
                                      ELSE Taken(Split(lot, quantity).part)], events))
        PROVE  Changes(s)
    <3>1. PICK rest, child : rest = Split(lot, quantity).rest /\ child = Taken(Split(lot, quantity).part)
      OBVIOUS
    <3>2. Perform(s, Change("item_taken", i, New,
                            [j \in {i, New} |-> IF j = i THEN rest ELSE child], events))
      BY <2>3, <3>1
    <3>3. QED
      BY <3>2, PartPlain DEF PhotoOps
  <2>4. QED
    BY <2>1, <2>2, <2>3
<1>4. CASE RemoveItem(s, i)
  <2>1. 
        \/ \E events : Perform(s, Change("item_removed", i, i, Only(i, Removed(lot)), events))
        \/ \E quantity, events :
             Perform(s, Change("item_removed", i, New,
                [j \in {i, New} |-> IF j = i THEN Split(lot, quantity).rest
                                    ELSE Removed(Split(lot, quantity).part)], events))
    BY <1>1, <1>4 DEF RemoveItem, Portioned
  <2>2. ASSUME NEW events, Perform(s, Change("item_removed", i, i, Only(i, Removed(lot)), events))
        PROVE  Changes(s)
    <3>1. PICK row : row = Removed(lot)
      OBVIOUS
    <3>2. QED
      BY <2>2, <3>1, WholePlain DEF PhotoOps
  <2>3. ASSUME NEW quantity, NEW events,
               Perform(s, Change("item_removed", i, New,
                  [j \in {i, New} |-> IF j = i THEN Split(lot, quantity).rest
                                      ELSE Removed(Split(lot, quantity).part)], events))
        PROVE  Changes(s)
    <3>1. PICK rest, child : rest = Split(lot, quantity).rest /\ child = Removed(Split(lot, quantity).part)
      OBVIOUS
    <3>2. Perform(s, Change("item_removed", i, New,
                            [j \in {i, New} |-> IF j = i THEN rest ELSE child], events))
      BY <2>3, <3>1
    <3>3. QED
      BY <3>2, PartPlain DEF PhotoOps
  <2>4. QED
    BY <2>1, <2>2, <2>3
<1>5. QED
  BY <1>2, <1>3, <1>4

LEMMA CallIs ==
  ASSUME NEW s \in Sessions, Call(s)
  PROVE  Look(s) \/ Changes(s)
<1>1. CASE CreateItem(s)
  <2>1. PICK row, events : Perform(s, Change("create_item", New, New, Only(New, row), events))
    BY <1>1 DEF CreateItem
  <2>2. QED
    BY <2>1, WholePlain DEF PhotoOps
<1>2. CASE CreateNode(s)
  <2>1. PICK c : c = Change("create_node", New, New, << >>, << >>)
    OBVIOUS
  <2>2. IsChange(c) /\ c.op = "create_node"
    BY <2>1, ChangeIs
  <2>3. PlainChange(c)
    BY <2>2 DEF PlainChange
  <2>4. QED
    BY <1>2, <2>1, <2>2, <2>3, PerformPlain DEF CreateNode
<1>3. CASE AttachPhoto(s)
  <2>1. PICK i \in Ids, reference \in References, note \in BOOLEAN :
          Perform(s, PhotoChange("attach_item_photo", i, New,
                                 [item |-> i, reference |-> reference, note |-> note]))
    BY <1>3 DEF AttachPhoto
  <2>2. PICK photo : photo = [item |-> i, reference |-> reference, note |-> note]
    OBVIOUS
  <2>3. photo # None
    BY <2>2, NoneAssumption DEF Photo
  <2>4. QED
    BY <2>1, <2>2, <2>3, PhotoPlain DEF PhotoOps
<1>4. CASE UndoLastAction(s)
  <2>1. PICK receipts : receipts = lastRun[turn[s].conversation]
    OBVIOUS
  <2>2. PICK done : done = Compensated(Store(s), receipts)
    OBVIOUS
  <2>3. Compensates(s) /\ Await(s, Compensation(receipts, done))
    BY <1>4, <2>1, <2>2 DEF UndoLastAction, Compensates, Plan
  <2>4. PICK c : c = Compensation(receipts, done)
    OBVIOUS
  <2>5. c.op = "undo_last_action"
    BY <2>4 DEF Compensation, Change
  <2>6. PlainChange(c)
    BY <2>5 DEF PlainChange
  <2>7. QED
    BY <2>3, <2>4, <2>6 DEF Changes
<1>5. ASSUME NEW i \in Ids, UpdateItem(s, i)
      PROVE  Changes(s)
  <2>1. PICK row, events : Perform(s, Change("update_item", i, i, Only(i, row), events))
    BY <1>5 DEF UpdateItem
  <2>2. QED
    BY <2>1, WholePlain DEF PhotoOps
<1>6. ASSUME NEW i \in Ids, ChangeQuantity(s, i)
      PROVE  Changes(s)
  <2>1. PICK row, events : Perform(s, Change("change_item_quantity", i, i, Only(i, row), events))
    BY <1>6 DEF ChangeQuantity
  <2>2. QED
    BY <2>1, WholePlain DEF PhotoOps
<1>7. ASSUME NEW i \in Ids, MarkLocationUnknown(s, i)
      PROVE  Changes(s)
  <2>1. PICK row, events : Perform(s, Change("item_location_unknown", i, i, Only(i, row), events))
    BY <1>7 DEF MarkLocationUnknown
  <2>2. QED
    BY <2>1, WholePlain DEF PhotoOps
<1>8. ASSUME NEW i \in Ids, RestoreItem(s, i)
      PROVE  Changes(s)
  <2>1. PICK row, events : Perform(s, Change("item_restored", i, i, Only(i, row), events))
    BY <1>8 DEF RestoreItem
  <2>2. QED
    BY <2>1, WholePlain DEF PhotoOps
<1>9. ASSUME NEW p \in PhotoIds, UpdatePhoto(s, p) \/ DetachPhoto(s, p)
      PROVE  Changes(s)
  <2>1. PICK op, item, photo : op \in PhotoOps /\ ChangePhoto(s, PhotoChange(op, item, p, photo))
    BY <1>9 DEF UpdatePhoto, DetachPhoto, PhotoOps
  <2>2. QED
    BY <2>1, PhotoPlain
<1>10. QED
  BY <1>1, <1>2, <1>3, <1>4, <1>5, <1>6, <1>7, <1>8, <1>9, PortionPlain DEF Call

\* A step of s: it begins or ends its turn, looks, plans or flushes.
LEMMA SharedStep ==
  ASSUME SharedInv, NEW s \in Sessions, Begin(s) \/ Call(s) \/ Flush(s) \/ Commit(s) \/ Abort(s)
  PROVE  /\ SharedInv'
         /\ UndoFlushed(s) /\ s \notin overtaken => Compensates(s)
<1>1. /\ turn'[s].receipts \in {turn[s].receipts, << >>} => ~ UndoFlushed(s)
  BY SharedTurn DEF UndoFlushed, Flushed
<1>2. CASE Begin(s)
  BY <1>1, <1>2, BeginShared
<1>3. CASE Look(s)
  BY <1>1, <1>3, LookShared
<1>4. CASE Changes(s)
  <2>1. PICK c : /\ PlainChange(c)
                 /\ c.op = "undo_last_action" /\ s \notin overtaken => Compensates(s)
                 /\ \/ Await(s, c)
                    \/ \E read : DOMAIN read = DOMAIN c.new \ {New} /\ Write(s, c, read)
    BY <1>4 DEF Changes
  <2>2. CASE Await(s, c)
    BY <1>1, <2>1, <2>2, AwaitShared
  <2>3. ASSUME NEW read, DOMAIN read = DOMAIN c.new \ {New}, Write(s, c, read)
        PROVE  SharedInv' /\ Receipt(s).op = c.op
    BY <2>1, <2>3, WriteShared
  <2>4. QED
    BY <2>1, <2>2, <2>3 DEF UndoFlushed
<1>5. CASE Flush(s)
  <2>1. PICK c, read : c = turn[s].plan /\ read = turn[s].seen
    OBVIOUS
  <2>2. turn[s].stage = "flushing" /\ Write(s, c, read) /\ OfSession(s)
    BY <1>5, <2>1 DEF Flush, SharedInv
  <2>3. Changes(s)
    BY <2>1, <2>2 DEF OfSession, Changes
  <2>4. QED
    BY <1>4, <2>3
<1>6. CASE Commit(s)
  BY <1>1, <1>6, CommitShared
<1>7. CASE Abort(s)
  BY <1>1, <1>7, AbortShared
<1>8. QED
  BY <1>2, <1>3, <1>4, <1>5, <1>6, <1>7, CallIs

\* A step of one session leaves the turns of the others alone.
LEMMA OthersRest ==
  ASSUME SharedInv, NEW s \in Sessions, Begin(s) \/ Call(s) \/ Flush(s) \/ Commit(s) \/ Abort(s),
         NEW t \in Sessions \ {s}
  PROVE  turn'[t] = turn[t]
<1>1. CASE Begin(s) \/ Look(s) \/ Commit(s) \/ Abort(s)
  BY <1>1, SharedTurn DEF Begin, Look, Commit, Abort
<1>2. CASE Changes(s)
  BY <1>2, SharedTurn DEF Changes, Await, Write
<1>3. CASE Flush(s)
  BY <1>3, SharedTurn DEF Flush, Write
<1>4. QED
  BY <1>1, <1>2, <1>3, CallIs

LEMMA SharedInitially == Init => SharedInv
<1> SUFFICES ASSUME Init PROVE SharedInv
  OBVIOUS
<1>1. PICK empty : empty = << >>
  OBVIOUS
<1>2. PICK idle : idle = Idle
  OBVIOUS
<1>3. idle = [stage |-> "idle", conversation |-> None, receipts |-> empty, plan |-> None,
              seen |-> None]
  BY <1>1, <1>2 DEF Idle
<1>4. /\ idle = [stage |-> idle.stage, conversation |-> idle.conversation,
                 receipts |-> idle.receipts, plan |-> idle.plan, seen |-> idle.seen]
      /\ idle.stage = "idle" /\ idle.conversation = None /\ idle.receipts = << >>
  BY <1>1, <1>3
<1>5. ASSUME NEW s \in Sessions
      PROVE  OfSession(s)
  <2>1. turn[s] = idle
    BY <1>2 DEF Init
  <2>2. QED
    BY <1>4, <2>1, NoLog DEF OfSession
<1>6. ASSUME NEW v \in Conversations
      PROVE  OfConversation(v)
  BY NoLog DEF Init, OfConversation
<1>7. IsStore(committed) /\ draft = committed
  <2>1. PICK bare : bare = Bare
    OBVIOUS
  <2>2. /\ bare = [items |-> bare.items, lastKnown |-> bare.lastKnown, photos |-> bare.photos]
        /\ DOMAIN bare.items = Ids /\ DOMAIN bare.photos = PhotoIds
    BY <2>1 DEF Bare, Empty
  <2>3. PICK place, quantity, reference :
          committed = [Bare EXCEPT
            !.items[1] = Created(place, quantity), !.lastKnown[1] = place,
            !.photos[1] = [item |-> 1, reference |-> reference, note |-> FALSE]]
    BY DEF Init
  <2>4. PICK row, photo : row = Created(place, quantity)
                          /\ photo = [item |-> 1, reference |-> reference, note |-> FALSE]
    OBVIOUS
  <2>5. committed = [bare EXCEPT !.items[1] = row, !.lastKnown[1] = place, !.photos[1] = photo]
    BY <2>1, <2>3, <2>4, Zenon
  <2>6. /\ committed.items = [bare.items EXCEPT ![1] = row]
        /\ committed.photos = [bare.photos EXCEPT ![1] = photo]
    BY <2>2, <2>5
  <2>7. QED
    BY <2>2, <2>6 DEF IsStore, Init
<1>8. QED
  BY <1>5, <1>6, <1>7 DEF Init, SharedInv

LEMMA SharedInductive == SharedInv /\ [Next]_vars => SharedInv'
<1> SUFFICES ASSUME SharedInv, [Next]_vars PROVE SharedInv'
  OBVIOUS
<1>1. CASE Next
  BY <1>1, SharedStep DEF Next
<1>2. CASE UNCHANGED vars
  <2>1. UNCHANGED <<committed, draft, writer, lastRun, turn, around, overtaken>>
    BY <1>2 DEF vars
  <2>2. ASSUME NEW s \in Sessions
        PROVE  OfSession(s)'
    <3>1. OfSession(s) /\ (Compensates(s) => Compensates(s)')
      BY <2>1 DEF SharedInv, Compensates, Store
    <3>2. QED
      BY <2>1, <3>1 DEF OfSession
  <2>3. \A v \in Conversations : OfConversation(v)'
    BY <2>1 DEF SharedInv, OfConversation
  <2>4. QED
    BY <2>1, <2>2, <2>3 DEF SharedInv, IsStore
<1>3. QED
  BY <1>1, <1>2

\* A compensation that is flushed has found the store as its turn left it.
LEMMA UndoFits ==
  ASSUME SharedInv, Next, NEW s \in Sessions \ overtaken, UndoFlushed(s)
  PROVE  AsLeft(s)
<1>1. PICK t \in Sessions : Begin(t) \/ Call(t) \/ Flush(t) \/ Commit(t) \/ Abort(t)
  BY DEF Next
<1>2. t = s
  <2>1. SUFFICES ASSUME t # s PROVE FALSE
    OBVIOUS
  <2>2. turn'[s] = turn[s]
    BY <1>1, <2>1, OthersRest
  <2>3. QED
    BY <2>2, SharedTurn DEF UndoFlushed, Flushed
<1>3. Compensates(s)
  BY <1>1, <1>2, SharedStep
<1>4. PICK v, log : v = turn[s].conversation /\ log = lastRun[v]
  OBVIOUS
<1>5. v \in Conversations /\ OfConversation(v)
  BY <1>3, <1>4, SharedTurn DEF Compensates, SharedInv
<1>6. PICK store, left : store = Store(s) /\ left = around[v].after
  OBVIOUS
<1>7. /\ IsStore(store) /\ PlainLog(log) /\ LastSays(log, left)
      /\ \A n \in 1 .. Len(log) : Supported(log[n])
      /\ Compensated(store, log).ok
  BY <1>3, <1>4, <1>5, <1>6 DEF SharedInv, Store, OfConversation, Compensates
<1>8. /\ \A i \in Affected(log) : store.items[i] = left.items[i]
      /\ \A p \in Pictured(log) : store.photos[p] = left.photos[p]
  BY <1>7, StoreFits
<1>9. QED
  BY <1>4, <1>6, <1>8 DEF AsLeft, Rows, Photos

(***************************************************************************)
(* undo-correction-decision.md: an Undo that is flushed found the rows and *)
(* photos of the turn as the turn left them, whatever any number of other  *)
(* sessions did, unless one has committed since the turn of the Undo       *)
(* began: Undo compares before it has the write lock.                      *)
(***************************************************************************)
THEOREM UndoStaysClosed == Spec => UndoFailsClosed
<1>1. SharedInv /\ [Next]_vars =>
        [\A s \in Sessions \ overtaken : UndoFlushed(s) => AsLeft(s)]_vars
  BY UndoFits
<1>2. QED
  BY <1>1, SharedInitially, SharedInductive, PTL DEF Spec, UndoFailsClosed

=============================================================================
