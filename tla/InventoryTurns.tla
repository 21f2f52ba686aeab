---------------------------- MODULE InventoryTurns ----------------------------
(***************************************************************************)
(* Items and the operations that change them (services/inventory.py), the  *)
(* receipts a chat turn keeps of them (agent/tools.py, agent/receipts.py)  *)
(* and the one-level Undo that reads the receipts back (services/undo.py). *)
(*                                                                         *)
(* A session serves one turn of a conversation, whose calls are flushed    *)
(* one by one and committed together, or one manual request of the browser *)
(* (`conversation` None), which is one call.  A call reads rows, computes  *)
(* its change in memory and flushes it when SQLite's write lock is its     *)
(* own: between its reading and its flush another session may commit.      *)
(*                                                                         *)
(* Of a row, the attributes that Undo or the location history depend on    *)
(* are kept; `state` stands for all that update_item changes, `note` for   *)
(* the metadata of a photo.  Calls that change nothing leave a receipt     *)
(* that Undo drops, and are left out.  Of the event log `lastKnown` is     *)
(* kept: what location_suggestions._last_known_event reads from it.        *)
(***************************************************************************)
EXTENDS Integers, Sequences, FiniteSets, FiniteSetsExt, SequencesExt

CONSTANTS
  Sessions, Conversations, Locations,
  None,         \* no row, no place, no session, no conversation
  Quantities,   \* quantities and portions the calls ask for
  References,   \* references to photos kept elsewhere
  MaxItems,     \* bound on items
  MaxPhotos,    \* bound on photos
  MaxCalls      \* bound on the calls of a behaviour

Modes == {"exact", "approximate"}
Unknown == [mode |-> "unknown", value |-> 0]         \* value 0 is NULL
Quantity == [mode : Modes, value : Nat \ {0}] \cup {Unknown}

ASSUME ConstantsAssumption ==
  /\ None \notin Sessions \cup Conversations \cup Locations
  /\ Quantities \subseteq Quantity
  /\ MaxItems \in Nat \ {0} /\ MaxPhotos \in Nat \ {0} /\ MaxCalls \in Nat

Ids == 1 .. MaxItems
PhotoIds == 1 .. MaxPhotos
New == 0                       \* the row a flush is going to insert

Active == {"working", "broken"}
Places == Locations \cup {None}

Row == [state : Active \cup {"removed"},
        status : {"known", "unknown", "in_use", "not_applicable"},
        place : Places, quantity : Quantity, reason : BOOLEAN]

Photo == [item : Ids, reference : References, note : BOOLEAN]

ASSUME NoneAssumption == None \notin Row \cup Photo

Empty == [i \in Ids |-> None]
Bare == [items |-> Empty, lastKnown |-> Empty, photos |-> [p \in PhotoIds |-> None]]

VARIABLES
  committed,   \* items, lastKnown and photos as every session reads them
  draft,       \* the same, as the writer sees it
  writer,      \* the session that holds the write lock
  lastRun,     \* per conversation: the receipts of its latest completed turn
  turn,        \* per session: the turn or request it serves
  calls,       \* calls so far
  around,      \* history: per conversation, the store before and after that turn
  overtaken    \* history: sessions during whose turn another one has committed

vars == <<committed, draft, writer, lastRun, turn, calls, around, overtaken>>

Idle == [stage |-> "idle", conversation |-> None, receipts |-> <<>>,
         plan |-> None, seen |-> None]

-----------------------------------------------------------------------------
(* Rows and quantities                                                     *)

StatusAt(place) == IF place = None THEN "unknown" ELSE "known"

Created(place, quantity) ==
  [state |-> "working", status |-> StatusAt(place), place |-> place,
   quantity |-> quantity, reason |-> FALSE]

\* Fault: the removal reason outlives the restoration.
RestoredWithReason(row, state, place) ==
  [row EXCEPT !.state = state, !.place = place, !.status = StatusAt(place)]

Moved(row, place) == [row EXCEPT !.place = place, !.status = "known"]
Taken(row)        == [row EXCEPT !.place = None, !.status = "in_use"]
Lost(row)         == [row EXCEPT !.place = None, !.status = "unknown"]
Removed(row)      == [row EXCEPT !.state = "removed", !.place = None,
                                 !.status = "not_applicable", !.reason = TRUE]
Restored(row, state, place) ==
  [row EXCEPT !.state = state, !.place = place, !.status = StatusAt(place),
              !.reason = FALSE]

\* What is left of a lot when a part is taken out of it.
Remainder(lot, part) ==
  IF "unknown" \in {lot.mode, part.mode} \/ lot.value <= part.value THEN Unknown
  ELSE [mode |-> IF {lot.mode, part.mode} = {"exact"} THEN "exact" ELSE "approximate",
        value |-> lot.value - part.value]

IsWhole(lot, part) == lot.mode = "exact" /\ part = lot

-----------------------------------------------------------------------------

Store(s) == IF writer = s THEN draft ELSE committed
Rows(s) == Store(s).items
NextId(s) == CHOOSE i \in Ids : Rows(s)[i] = None /\ \A j \in Ids : j < i => Rows(s)[j] # None
HasRoom(s) == \E i \in Ids : Rows(s)[i] = None

Photos(s) == Store(s).photos

\* A rowid without AUTOINCREMENT: that of the last photo, detached, is used again.
NextPhoto(s) == 1 + Max({0} \cup {p \in PhotoIds : Photos(s)[p] # None})

Init ==
  /\ \E place \in Places, quantity \in Quantities, reference \in References :
       committed = [Bare EXCEPT
         !.items[1] = Created(place, quantity), !.lastKnown[1] = place,
         !.photos[1] = [item |-> 1, reference |-> reference, note |-> FALSE]]
  /\ draft = committed
  /\ writer = None
  /\ lastRun = [v \in Conversations |-> <<>>]
  /\ turn = [s \in Sessions |-> Idle]
  /\ calls = 0
  /\ around = [v \in Conversations |-> [before |-> Bare, after |-> Bare]]
  /\ overtaken = {}

Begin(s) ==
  /\ turn[s] = Idle
  /\ calls < MaxCalls
  /\ \E v \in Conversations \cup {None} :
       turn' = [turn EXCEPT ![s] = [Idle EXCEPT !.stage = "open", !.conversation = v]]
  /\ UNCHANGED <<committed, draft, writer, lastRun, calls, around, overtaken>>

\* A tool call of the agent reads what its receipt will call `before`: the
\* item or the photo it is about, neither when it is about a new one.
Look(s) ==
  /\ turn[s].stage = "open"
  /\ turn[s].conversation # None
  /\ calls < MaxCalls
  /\ calls' = calls + 1
  /\ \E seen \in {[item |-> New, photo |-> New, row |-> None]}
                 \cup {[item |-> i, photo |-> New, row |-> Rows(s)[i]] : i \in Ids}
                 \cup {[item |-> New, photo |-> p, row |-> Photos(s)[p]] : p \in PhotoIds} :
       /\ seen.item # New \/ seen.photo # New => seen.row # None
       /\ turn' = [turn EXCEPT ![s].stage = "looked", ![s].seen = seen]
  /\ UNCHANGED <<committed, draft, writer, lastRun, around, overtaken>>

\* A change: the rows and photos it computed, one of them perhaps New, and what
\* it logs.  `before` is what its receipt will say.
Change(op, source, entity, new, events) ==
  [op |-> op, source |-> source, entity |-> entity, new |-> new, events |-> events,
   photos |-> <<>>, before |-> None]

\* The same for a photo of an item; None detaches it.
PhotoChange(op, item, id, photo) ==
  [Change(op, item, id, <<>>, <<>>) EXCEPT !.photos = [p \in {id} |-> photo]]

Event(type, item, from, to) == [type |-> type, item |-> item, from |-> from, to |-> to]

\* An UPDATE writes the attributes that differ from what the session read.
Merge(read, new, current) ==
  [f \in DOMAIN new |-> IF new[f] = read[f] THEN current[f] ELSE new[f]]

\* Where an event shows its item, if it does.
Witness(event) ==
  IF event.type = "item_taken" \/ event.to = None THEN event.from ELSE event.to

\* _last_known_event, some events later: the latest of an item that shows it.
Witnessed(known, events) ==
  [i \in Ids |->
     LET showing == {n \in DOMAIN events : events[n].item = i /\ Witness(events[n]) # None}
     IN IF showing = {} THEN known[i] ELSE Witness(events[Max(showing)])]

PhotoOps == {"attach_item_photo", "update_item_photo", "detach_item_photo"}

\* An INSERT of a reference that the item has, or an UPDATE of a photo that is
\* gone, fails the flush.
PhotosFit(s, change) ==
  \A p \in DOMAIN change.photos :
    LET photo == change.photos[p] IN
    photo # None =>
      /\ \A q \in PhotoIds \ DOMAIN change.photos :
           Photos(s)[q] # None =>
             <<Photos(s)[q].item, Photos(s)[q].reference>> # <<photo.item, photo.reference>>
      /\ p = New => NextPhoto(s) \in PhotoIds
      /\ change.op = "update_item_photo" => Photos(s)[p] # None

\* _mutation_receipt: the state that the call left, which Undo will ask for.
ReceiptOf(change, source, entity, after, photos) ==
  [op |-> change.op, source |-> source, entity |-> entity, before |-> change.before,
   after |-> after, photos |-> photos]

\* The ids of what a flush inserts.
IdOf(s, i) == IF i = New THEN NextId(s) ELSE i
PhotoIdOf(s, p) == IF p = New THEN NextPhoto(s) ELSE p

\* The rows once a change is flushed that was computed from those in read.
Written(s, change, read) ==
  [i \in Ids |->
     IF i \in DOMAIN read THEN Merge(read[i], change.new[i], Rows(s)[i])
     ELSE IF New \in DOMAIN change.new /\ i = NextId(s) THEN change.new[New]
     ELSE Rows(s)[i]]

Pictures(s, change) ==
  [p \in {PhotoIdOf(s, q) : q \in DOMAIN change.photos} |->
     IF p \in DOMAIN change.photos THEN change.photos[p] ELSE change.photos[New]]

Logged(s, change) ==
  [n \in DOMAIN change.events |-> [change.events[n] EXCEPT !.item = IdOf(s, @)]]

\* Its receipt.
Noted(s, change, read) ==
  LET ofPhoto == change.op \in PhotoOps IN
  ReceiptOf(change,
            IF ofPhoto THEN change.source ELSE IdOf(s, change.source),
            IF ofPhoto THEN PhotoIdOf(s, change.entity) ELSE IdOf(s, change.entity),
            [i \in {IdOf(s, j) : j \in DOMAIN change.new} |-> Written(s, change, read)[i]],
            Pictures(s, change))

\* session.flush(): rows, events and photos at once.
Write(s, change, read) ==
  /\ writer \in {None, s}
  /\ change.op \notin PhotoOps /\ New \in {change.source, change.entity} => HasRoom(s)
  /\ PhotosFit(s, change)
  /\ writer' = s
  /\ draft' = [items |-> Written(s, change, read),
               lastKnown |-> Witnessed(Store(s).lastKnown, Logged(s, change)),
               photos |-> [p \in PhotoIds |->
                 IF p \in DOMAIN Pictures(s, change) THEN Pictures(s, change)[p]
                 ELSE Photos(s)[p]]]
  /\ turn' = [turn EXCEPT ![s].stage = "open", ![s].plan = None, ![s].seen = None,
                          ![s].receipts = Append(@, Noted(s, change, read))]
  /\ UNCHANGED <<committed, lastRun, around, overtaken>>

Read(s, change) == [i \in DOMAIN change.new \ {New} |-> Rows(s)[i]]

\* The change is computed, and its flush waits for the write lock.
Await(s, change) ==
  /\ turn' = [turn EXCEPT ![s].stage = "flushing",
                          ![s].plan = change, ![s].seen = Read(s, change)]
  /\ UNCHANGED <<committed, draft, writer, lastRun, around, overtaken>>

Plan(s, change) ==
  /\ turn[s].stage = "open"
  /\ calls < MaxCalls
  /\ calls' = calls + 1
  /\ Await(s, change)

Flush(s) ==
  /\ turn[s].stage = "flushing"
  /\ Write(s, turn[s].plan, turn[s].seen)
  /\ UNCHANGED calls

\* A tool call takes the write lock (_validated_write) and only then reads the
\* rows to change.
ByTool(s, change) ==
  /\ turn[s].stage = "looked"
  /\ turn[s].seen.photo = New /\ turn[s].seen.item = change.source
  /\ LET before == IF change.op = "attach_item_photo" THEN None ELSE turn[s].seen.row IN
     Write(s, [change EXCEPT !.before = before], Read(s, change))
  /\ UNCHANGED calls

\* A manual request is one call: it reads, changes and flushes.
ByHand(s, change) ==
  /\ turn[s].conversation = None
  /\ turn[s].receipts = <<>>
  /\ Plan(s, change)

Perform(s, change) == ByTool(s, change) \/ ByHand(s, change)

-----------------------------------------------------------------------------
(* The operations                                                          *)

Only(i, row) == [j \in {i} |-> row]

CreateItem(s) ==
  \E place \in Places, quantity \in Quantities :
    Perform(s, Change("create_item", New, New, Only(New, Created(place, quantity)),
                      <<Event("item_created", New, None, place)>>))

\* create_location, create_category: nothing that Undo can take back.
CreateNode(s) == Perform(s, Change("create_node", New, New, <<>>, <<>>))

UpdateItem(s, i) ==
  /\ Rows(s)[i].state # "removed"
  /\ \E state \in Active \ {Rows(s)[i].state} :
       Perform(s, Change("update_item", i, i,
                         Only(i, [Rows(s)[i] EXCEPT !.state = state]), <<>>))

\* Of removed items too: the code asks for no state.
ChangeQuantity(s, i) ==
  \E quantity \in Quantities \ {Rows(s)[i].quantity} :
    Perform(s, Change("change_item_quantity", i, i,
                      Only(i, [Rows(s)[i] EXCEPT !.quantity = quantity]), <<>>))

\* _split_for_portion: the part becomes an item of its own, where the lot is.
Split(lot, part) ==
  [part |-> [lot EXCEPT !.quantity = part],
   rest |-> [lot EXCEPT !.quantity = Remainder(@, part)]]

\* An operation on a lot, or on a part of it.
Portioned(s, op, i, To(_)) ==
  LET lot == Rows(s)[i] IN
  \/ Perform(s, Change(op, i, i, Only(i, To(lot)),
                       <<Event(op, i, lot.place, To(lot).place)>>))
  \/ \E quantity \in Quantities :
       LET split == Split(lot, quantity)
           child == To(split.part)
       IN /\ ~IsWhole(lot.quantity, quantity)
          /\ Perform(s, Change(op, i, New,
                               [j \in {i, New} |-> IF j = i THEN split.rest ELSE child],
                               <<Event(op, New, lot.place, child.place)>>))

MoveItem(s, i) ==
  \E place \in Locations \ {Rows(s)[i].place} :
    LET To(row) == Moved(row, place) IN
    /\ Rows(s)[i].state # "removed"
    /\ Portioned(s, "item_moved", i, To)

TakeItem(s, i) ==
  /\ Rows(s)[i].state # "removed"
  /\ Rows(s)[i].status # "in_use"
  /\ Portioned(s, "item_taken", i, Taken)

MarkLocationUnknown(s, i) ==
  LET row == Rows(s)[i] IN
  /\ row.state # "removed"
  /\ row.status # "unknown"
  /\ Perform(s, Change("item_location_unknown", i, i, Only(i, Lost(row)),
                       <<Event("item_location_unknown", i, row.place, None)>>))

RemoveItem(s, i) ==
  /\ Rows(s)[i].state # "removed"
  /\ Portioned(s, "item_removed", i, Removed)

RestoreItem(s, i) ==
  LET row == Rows(s)[i] IN
  /\ row.state = "removed"
  /\ \E state \in Active, place \in Places :
       Perform(s, Change("item_restored", i, i, Only(i, Restored(row, state, place)),
                         <<Event("item_restored", i, None, place)>>))

\* Of removed items too, like the other two.
AttachPhoto(s) ==
  \E i \in Ids, reference \in References, note \in BOOLEAN :
    /\ Rows(s)[i] # None
    /\ Perform(s, PhotoChange("attach_item_photo", i, New,
                              [item |-> i, reference |-> reference, note |-> note]))

\* The tools that change a photo take no lock before they read it.
ChangePhoto(s, change) ==
  \/ /\ turn[s].stage = "looked"
     /\ turn[s].seen.photo = change.entity
     /\ Await(s, [change EXCEPT !.before = turn[s].seen.row])
     /\ UNCHANGED calls
  \/ ByHand(s, change)

UpdatePhoto(s, p) ==
  ChangePhoto(s, PhotoChange("update_item_photo", Photos(s)[p].item, p,
                             [Photos(s)[p] EXCEPT !.note = ~@]))

DetachPhoto(s, p) ==
  ChangePhoto(s, PhotoChange("detach_item_photo", Photos(s)[p].item, p, None))

-----------------------------------------------------------------------------
(* Undo                                                                    *)

\* Fault: the recorded post-state is not compared.
FitsAnyway(rows, receipt) == \A i \in DOMAIN receipt.after : rows[i] # None

Fits(rows, receipt) == \A i \in DOMAIN receipt.after : rows[i] = receipt.after[i]

\* Fault: a split child gets everything back that its lot had.
TargetWithQuantity(row, receipt) ==
  IF receipt.op = "create_item" THEN Removed(row) ELSE receipt.before

\* Fault: only the place is compensated.
TargetOfPlace(row, receipt) ==
  IF receipt.op = "create_item" THEN Removed(row)
  ELSE [row EXCEPT !.place = receipt.before.place, !.status = receipt.before.status]

\* A created item is removed, a split child goes back to where its lot was, any
\* other item gets its earlier row back.
Target(row, receipt) ==
  CASE receipt.op = "create_item" -> Removed(row)
    [] receipt.op # "create_item" /\ receipt.source # receipt.entity ->
         [receipt.before EXCEPT !.quantity = row.quantity]
    [] receipt.op # "create_item" /\ receipt.source = receipt.entity ->
         receipt.before

\* _restore_snapshot: the row, and an event from where it was to where it is.
RestoreSnapshot(done, i, target) ==
  [done EXCEPT !.rows[i] = target,
               !.events = Append(@, Event("item_undo_compensated", i,
                                          done.rows[i].place, target.place))]

\* What the photo must be like for its receipt to be compensated.
PhotoFits(photos, receipt) ==
  photos[receipt.entity] = receipt.photos[receipt.entity]

Attached(photos, photo) ==
  \E p \in PhotoIds : photos[p] # None /\ photos[p].item = photo.item
                     /\ photos[p].reference = photo.reference

\* _compensate_media: detached, described as before, or attached again under the
\* id it had.
CompensatePhoto(done, receipt) ==
  LET p == receipt.entity IN
  IF /\ PhotoFits(done.photos, receipt)
     /\ receipt.op = "detach_item_photo" => ~Attached(done.photos, receipt.before)
  THEN [done EXCEPT !.photos[p] =
          IF receipt.op = "attach_item_photo" THEN None ELSE receipt.before]
  ELSE [done EXCEPT !.ok = FALSE]

\* One step of the compensation, newest receipt first, in memory.
Compensate(done, receipt) ==
  LET i == receipt.entity IN
  IF ~done.ok THEN done
  ELSE IF receipt.op \in PhotoOps THEN CompensatePhoto(done, receipt)
  ELSE IF Fits(done.rows, receipt)
       THEN RestoreSnapshot(done, i, Target(done.rows[i], receipt))
       ELSE [done EXCEPT !.ok = FALSE]

Compensated(store, receipts) ==
  LET done[n \in 0 .. Len(receipts)] ==
        IF n = 0
        THEN [ok |-> TRUE, rows |-> store.items, photos |-> store.photos, events |-> <<>>]
        ELSE Compensate(done[n - 1], receipts[Len(receipts) + 1 - n])
  IN done[Len(receipts)]

Supported(receipt) == receipt.op \notin {"create_node", "undo_last_action"}

\* The items whose rows the receipts record, and those of their photos.
Affected(receipts) == UNION {DOMAIN receipts[n].after : n \in 1 .. Len(receipts)}
Parents(receipts) == {receipts[n].source : n \in
                        {m \in 1 .. Len(receipts) : receipts[m].op \in PhotoOps}}
Pictured(receipts) == UNION {DOMAIN receipts[n].photos : n \in 1 .. Len(receipts)}

\* What undo_last_action writes, under the first of the items affected.
Compensation(receipts, done) ==
  LET items == Affected(receipts) \cup Parents(receipts)
  IN [Change("undo_last_action", Min(items), Min(items),
             [j \in items |-> done.rows[j]], done.events)
      EXCEPT !.photos = [p \in Pictured(receipts) |-> done.photos[p]]]

\* It takes no lock first.  Whatever is in the way of the compensation fails
\* the tool, and so the turn.
UndoLastAction(s) ==
  LET receipts == lastRun[turn[s].conversation]
      done == Compensated(Store(s), receipts)
  IN /\ turn[s].conversation # None
     /\ receipts # <<>>
     /\ \A n \in 1 .. Len(receipts) : Supported(receipts[n])
     /\ done.ok
     /\ Plan(s, Compensation(receipts, done))

Call(s) ==
  \/ Look(s) \/ CreateItem(s) \/ CreateNode(s) \/ AttachPhoto(s) \/ UndoLastAction(s)
  \/ \E i \in Ids :
       /\ Rows(s)[i] # None
       /\ \/ UpdateItem(s, i) \/ ChangeQuantity(s, i) \/ MoveItem(s, i) \/ TakeItem(s, i)
          \/ MarkLocationUnknown(s, i) \/ RemoveItem(s, i) \/ RestoreItem(s, i)
  \/ \E p \in PhotoIds : Photos(s)[p] # None /\ (UpdatePhoto(s, p) \/ DetachPhoto(s, p))

-----------------------------------------------------------------------------
(* Commit and rollback                                                     *)

Commit(s) ==
  LET v == turn[s].conversation
      changed == turn[s].receipts # <<>>
  IN /\ turn[s].stage = "open"
     /\ writer \in {None, s}
     /\ v = None => changed
     /\ committed' = Store(s)
     /\ draft' = Store(s)
     /\ writer' = None
     /\ IF v = None THEN UNCHANGED <<lastRun, around>>
        ELSE /\ lastRun' = [lastRun EXCEPT ![v] = turn[s].receipts]
             /\ around' = [around EXCEPT ![v] =
                             IF changed THEN [before |-> committed, after |-> Store(s)]
                                        ELSE [before |-> Bare, after |-> Bare]]
     /\ turn' = [turn EXCEPT ![s] = Idle]
     /\ overtaken' = {t \in Sessions \ {s} : turn[t] # Idle}
     /\ UNCHANGED calls

\* A failed call or model, a database error, a crash.
Abort(s) ==
  /\ turn[s] # Idle
  /\ IF writer = s THEN writer' = None /\ draft' = committed
                   ELSE UNCHANGED <<writer, draft>>
  /\ turn' = [turn EXCEPT ![s] = Idle]
  /\ overtaken' = overtaken \ {s}
  /\ UNCHANGED <<committed, lastRun, calls, around>>

Next == \E s \in Sessions : Begin(s) \/ Call(s) \/ Flush(s) \/ Commit(s) \/ Abort(s)

Spec == Init /\ [][Next]_vars

-----------------------------------------------------------------------------
(* Properties                                                              *)

Operations == {"create_item", "create_node", "update_item", "change_item_quantity",
               "item_moved", "item_taken", "item_location_unknown", "item_removed",
               "item_restored", "undo_last_action"} \cup PhotoOps

StoreType == [items : [Ids -> Row \cup {None}], lastKnown : [Ids -> Places],
              photos : [PhotoIds -> Photo \cup {None}]]

IsReceipt(r) ==
  /\ r.op \in Operations
  /\ r.source \in Ids \cup {New} /\ r.entity \in Ids \cup PhotoIds \cup {New}
  /\ r.before \in Row \cup Photo \cup {None}
  /\ DOMAIN r.after \subseteq Ids /\ \A i \in DOMAIN r.after : r.after[i] \in Row
  /\ \A p \in DOMAIN r.photos : r.photos[p] \in Photo \cup {None}

TypeOK ==
  /\ committed \in StoreType /\ draft \in StoreType
  /\ writer \in Sessions \cup {None}
  /\ \A v \in Conversations :
       /\ \A n \in 1 .. Len(lastRun[v]) : IsReceipt(lastRun[v][n])
       /\ around[v].before \in StoreType /\ around[v].after \in StoreType
  /\ \A s \in Sessions :
       /\ turn[s].stage \in {"idle", "open", "looked", "flushing"}
       /\ turn[s].conversation \in Conversations \cup {None}
       /\ \A n \in 1 .. Len(turn[s].receipts) : IsReceipt(turn[s].receipts[n])
  /\ overtaken \subseteq Sessions
  /\ calls \in 0 .. MaxCalls

\* A row says one thing about where its item is.
CoherentRow(row) ==
  /\ row.status = "known" <=> row.place # None
  /\ row.state = "removed" <=> row.status = "not_applicable"
  /\ row.state = "removed" <=> row.reason

\* The event log and the row tell the same story: an item whose place is known
\* lies where the last located event of its history says.
HistoryAgrees(i) ==
  draft.items[i].status = "known" => draft.lastKnown[i] = draft.items[i].place

(***************************************************************************)
(* No sequence of moves, splits, removals, restorations and compensations  *)
(* makes the records contradict each other: an item has a place exactly    *)
(* when its place is known, and a reason to be gone exactly when it is     *)
(* gone; its history, to which splits and compensations add no location    *)
(* event of their own, ends where it lies; no item has a photo twice.      *)
(***************************************************************************)
RowsAreCoherent ==
  /\ TypeOK
  /\ \A i \in Ids :
       draft.items[i] # None => CoherentRow(draft.items[i]) /\ HistoryAgrees(i)
  /\ \A p, q \in PhotoIds :
       LET one == draft.photos[p]  other == draft.photos[q] IN
       p # q /\ one # None /\ other # None =>
         <<one.item, one.reference>> # <<other.item, other.reference>>

\* The step flushes a call of s; its receipt is the last one.
Flushed(s) == Len(turn'[s].receipts) > Len(turn[s].receipts)
Receipt(s) == Last(turn'[s].receipts)
UndoFlushed(s) == Flushed(s) /\ Receipt(s).op = "undo_last_action"

AllExact(rows, ids) ==
  \A i \in ids : rows[i] # None => rows[i].quantity.mode = "exact"

\* The number of pieces in the lots among ids that are not removed.
Pieces(row) == IF row # None /\ row.state # "removed" THEN row.quantity.value ELSE 0

Units(rows, ids) ==
  LET sum[i \in 0 .. MaxItems] ==
        IF i = 0 THEN 0 ELSE sum[i - 1] + IF i \in ids THEN Pieces(rows[i]) ELSE 0
  IN sum[MaxItems]

SameButQuantity(row, other) == [row EXCEPT !.quantity = other.quantity] = other

\* What the turn created is gone, or lies where the lot lay it was taken from.
CreatedIsGone(i, now, old) ==
  \/ now[i].state = "removed"
  \/ \E j \in Ids : old[j] # None /\ SameButQuantity(now[i], old[j])

(***************************************************************************)
(* A compensated turn is as if it had not been, but for lots that stay     *)
(* split: each item that was there before has its earlier row back, each   *)
(* photo is described as before or gone again, under the same id, and      *)
(* nothing that the turn did not touch changes.                            *)
(***************************************************************************)
UndoRestores ==
  [][\A s \in Sessions : UndoFlushed(s) =>
       LET receipts == lastRun[turn[s].conversation]
           touched == Affected(receipts)
           old == around[turn[s].conversation].before
           now == draft'
       IN /\ \A i \in Ids \ touched : now.items[i] = Rows(s)[i]
          /\ \A i \in touched :
               old.items[i] # None => SameButQuantity(now.items[i], old.items[i])
          /\ \A p \in Pictured(receipts) : now.photos[p] = old.photos[p]
          /\ \A p \in PhotoIds \ Pictured(receipts) : now.photos[p] = Photos(s)[p]]_vars

\* The store of s has the rows and photos of the turn to undo as it left them.
AsLeft(s) ==
  LET receipts == lastRun[turn[s].conversation]
      left == around[turn[s].conversation].after
  IN /\ \A i \in Affected(receipts) : Rows(s)[i] = left.items[i]
     /\ \A p \in Pictured(receipts) : Photos(s)[p] = left.photos[p]

(***************************************************************************)
(* agent-tasks/designs/undo-correction-decision.md: a compensation is      *)
(* applied only to items and photos that are still as the turn left them;  *)
(* whatever anybody did to them since makes Undo fail and leaves them      *)
(* alone.  So it is with any number of sessions, unless one commits while  *)
(* the turn that undoes is under way.                                      *)
(***************************************************************************)
UndoFailsClosed ==
  [][\A s \in Sessions \ overtaken : UndoFlushed(s) => AsLeft(s)]_vars

\* A split of a lot that the turn had changed before shows in the lot's row, unless
\* its quantity is unknown: then it looks as if nothing had been taken out of it.
Shows(receipts, n) ==
  \/ receipts[n].before.quantity # Unknown
  \/ \A m \in 1 .. n - 1 : receipts[n].source \notin DOMAIN receipts[m].after

SplitsShow(receipts) ==
  \A n \in 1 .. Len(receipts) :
    receipts[n].op \notin PhotoOps /\ receipts[n].source # receipts[n].entity =>
      Shows(receipts, n)

(***************************************************************************)
(* The same document: the compensation of a turn is complete or does not   *)
(* happen, if the turn's splits show.  No item stays that the turn created *)
(* or split off one that it created, and lots counted exactly hold as many *)
(* pieces in use as before: splits neither lose nor invent any.            *)
(***************************************************************************)
UndoIsComplete ==
  [][\A s \in Sessions : UndoFlushed(s) =>
       LET receipts == lastRun[turn[s].conversation]
           touched == Affected(receipts)
           old == around[turn[s].conversation].before.items
           now == draft'.items
       IN SplitsShow(receipts) =>
            /\ \A i \in touched : old[i] = None => CreatedIsGone(i, now, old)
            /\ AllExact(old, touched) /\ AllExact(now, touched) =>
                 Units(old, touched) = Units(now, touched)]_vars

=============================================================================
