-------------------------- MODULE PortableTransfer --------------------------
(***************************************************************************)
(* An inventory leaves the database as one JSON document, and a document   *)
(* becomes a new database (storage.py); a manifest fills an empty one      *)
(* (bootstrap.py).                                                         *)
(*                                                                         *)
(* The application commits while an export reads section after section.    *)
(* The importer reads any file it is given, in three versions of the       *)
(* format, builds a database beside the target and publishes it with a     *)
(* hard link, while others may create, open or delete files at the target. *)
(* Both may be killed anywhere.                                            *)
(*                                                                         *)
(* Categories and locations are two trees of one code: one is modelled.    *)
(* Texts, times, aliases, tags and attributes are copied and left out, and *)
(* so is the search index.                                                 *)
(***************************************************************************)
EXTENDS Integers, FiniteSets, SequencesExt

CONSTANTS
  Places, Items,  \* primary keys
  PlaceNames,     \* normalized names of places
  Nil,            \* NULL, or no file
  Scenarios,      \* what the system starts with
  MaxOther,       \* bound on what others do at the target
  MaxKills        \* bound on kills

VARIABLES
  db,        \* committed rows of the active database
  past,      \* history: every state it has had
  sessions,  \* what the application may still commit
  ex,        \* where the export stands
  snapshot,  \* what the transaction of the export sees
  page,      \* last item written
  partial,   \* the temporary file
  exported,  \* the destination of the export
  given,     \* another document that may be imported
  boot,      \* where the bootstrap stands
  im,        \* where the import stands
  source,    \* what it has read
  level,     \* the level of the tree that is next
  work,      \* the database it builds
  target,    \* the file at the target: who made it, and from what
  sidecar,   \* a -wal or -shm file is there
  others,    \* steps left to others
  kills

exportVars == <<ex, snapshot, page, partial, exported>>
importVars == <<im, source, level, work>>
fileVars == <<target, sidecar, others>>
transferVars == <<db, past, sessions, exportVars, given, boot, importVars, fileVars, kills>>

States == {"active", "removed", "sold", "discarded"}
Statuses == {"known", "unknown", "not_applicable"}
Reasons == {"sold", "discarded", "lost"}

\* Partial functions: places to rows, items to rows; events are a set.
Empty == [places |-> [p \in {} |-> Nil], items |-> [i \in {} |-> Nil], events |-> {}]
PlaceRow == [up : Places \cup {Nil}, name : PlaceNames]
ItemRow == [state : States, place : Places \cup {Nil}, status : Statuses,
            mode : {"exact", "unknown"}, quantity : {1, Nil}, reason : Reasons \cup {Nil}]
EventRow == [item : Items \cup {Nil}, place : Places \cup {Nil}]

Rows(d) ==
  /\ d = [places |-> d.places, items |-> d.items, events |-> d.events]
  /\ DOMAIN d.places \subseteq Places /\ d.places \in [DOMAIN d.places -> PlaceRow]
  /\ DOMAIN d.items \subseteq Items /\ d.items \in [DOMAIN d.items -> ItemRow]
  /\ d.events \subseteq EventRow

V1 == "inventory-portable-v1"
V2 == "inventory-portable-v2"
V3 == "inventory-portable-v3"

\* A document has the rows and its version; what a version does not have is
\* ignored in them.
Document(v, d) == [version |-> v, rows |-> d]
IsDocument(doc) ==
  doc = Document(doc.version, doc.rows) /\ doc.version \in {V1, V2, V3} /\ Rows(doc.rows)

-----------------------------------------------------------------------------
\* No two siblings of one name, and nobody its own parent.
ValidSiblings(d) ==
  \A p \in DOMAIN d.places :
    /\ d.places[p].up # p
    /\ \A q \in DOMAIN d.places \ {p} : d.places[p] # d.places[q]

Parents(d) == [p \in DOMAIN d.places |-> d.places[p].up]
Linked(up) == \A p \in DOMAIN up : up[p] # Nil => up[p] \in DOMAIN up

\* The place n steps above p.
Above(up, p) ==
  LET above[n \in 0 .. Cardinality(DOMAIN up)] ==
        IF n = 0 THEN p
        ELSE LET q == above[n - 1] IN IF q = Nil THEN Nil ELSE up[q]
  IN above

Rooted(up, p) == \E n \in DOMAIN Above(up, p) : Above(up, p)[n] = Nil

\* Fault: a walk that meets itself has arrived.
WalkedOver(up, done, p) ==
  (done \cup {Above(up, p)[n] : n \in DOMAIN Above(up, p)}) \ {Nil}

\* One walk up to a root or to where an earlier walk has been; Nil when it
\* meets itself.
Walked(up, done, p) ==
  LET above == Above(up, p)
      stops == {n \in DOMAIN above : above[n] \in done \cup {Nil}}
  IN IF stops = {} THEN Nil
     ELSE done \cup {above[n] : n \in {m \in DOMAIN above : \A k \in stops : m < k}}

\* The walks of the importer, from every place after the other.
LastPlace == CHOOSE p \in Places : \A q \in Places : q <= p
Walks(up) ==
  LET walks[p \in 0 .. LastPlace] ==
        IF p = 0 THEN {}
        ELSE IF p \notin DOMAIN up \/ walks[p - 1] = Nil THEN walks[p - 1]
        ELSE Walked(up, walks[p - 1], p)
  IN walks

ValidHierarchy(d) ==
  LET up == Parents(d) IN Linked(up) /\ Walks(up)[LastPlace] # Nil

\* _legacy_location_status: v1 has no status.
LegacyStatus(item) ==
  IF item.place # Nil THEN "known"
  ELSE IF item.state \in {"sold", "discarded"} THEN "not_applicable" ELSE "unknown"

StatusIn(v, item) == IF v = V1 THEN LegacyStatus(item) ELSE item.status

QuantityIsTrue(item) == (item.mode = "unknown") = (item.quantity = Nil)

ValidItem(v, d, item) ==
  LET terminal == IF v = V3 THEN {"removed"} ELSE {"sold", "discarded"} IN
  /\ v = V3 => item.state \notin {"sold", "discarded"}
  /\ v # V3 => item.quantity # Nil
  /\ (StatusIn(v, item) = "known") = (item.place # Nil)
  /\ (item.state \in terminal) = (StatusIn(v, item) = "not_applicable")
  /\ v = V3 => QuantityIsTrue(item) /\ (item.state = "removed") = (item.reason # Nil)
  /\ item.place \in DOMAIN d.places \cup {Nil}

ValidItems(v, d) == \A i \in DOMAIN d.items : ValidItem(v, d, d.items[i])

ValidEvents(d) ==
  \A e \in d.events :
    e.item \in DOMAIN d.items \cup {Nil} /\ e.place \in DOMAIN d.places \cup {Nil}

Valid(doc) ==
  /\ ValidSiblings(doc.rows) /\ ValidHierarchy(doc.rows)
  /\ ValidItems(doc.version, doc.rows) /\ ValidEvents(doc.rows)

\* parse_portable_inventory has the document in memory, and walks from every
\* place to its root.  The rules for items and events are the same text.
ValidTree(d) ==
  LET up == Parents(d) IN ValidSiblings(d) /\ Linked(up) /\ \A p \in DOMAIN up : Rooted(up, p)

ValidWhole(doc) ==
  /\ ValidTree(doc.rows)
  /\ ValidItems(doc.version, doc.rows) /\ ValidEvents(doc.rows)

\* Fault: the reason of what was sold or discarded gets lost.
ImportTruthBare(v, item) ==
  IF v = V3 THEN item
  ELSE [item EXCEPT !.state = IF @ \in {"sold", "discarded"} THEN "removed" ELSE @,
                    !.status = StatusIn(v, item), !.mode = "exact", !.reason = Nil]

\* _portable_import_truth: the columns an older version does not have.
ImportTruth(v, item) ==
  IF v = V3 THEN item
  ELSE LET gone == item.state \in {"sold", "discarded"} IN
       [item EXCEPT !.state = IF gone THEN "removed" ELSE @,
                    !.status = StatusIn(v, item),
                    !.mode = "exact",
                    !.reason = IF gone THEN item.state ELSE Nil]

Depth(d, p) ==
  LET above == Above(Parents(d), p)
  IN Cardinality({n \in DOMAIN above : above[n] # Nil}) - 1

-----------------------------------------------------------------------------
Commit(new) ==
  /\ db' = new
  /\ past' = past \cup {new}

Log(d, i, p) == [d EXCEPT !.events = @ \cup {[item |-> i, place |-> p]}]

\* f, and g where f says nothing.
Over(f, g) == [x \in DOMAIN f \cup DOMAIN g |-> IF x \in DOMAIN f THEN f[x] ELSE g[x]]
PutPlace(d, p, row) == [d EXCEPT !.places = Over([q \in {p} |-> row], @)]
Put(d, i, row) == [d EXCEPT !.items = Over([j \in {i} |-> row], @)]

Lot(p) == [state |-> "active", place |-> p, status |-> IF p = Nil THEN "unknown" ELSE "known",
           mode |-> "exact", quantity |-> 1, reason |-> Nil]

Moved(row, p) == [row EXCEPT !.place = p, !.status = "known"]
Uncounted(row) == [row EXCEPT !.mode = "unknown", !.quantity = Nil]
Removed(row, reason) == [row EXCEPT !.state = "removed", !.place = Nil,
                                    !.status = "not_applicable", !.reason = reason]

\* What one session of the application commits; InventoryTurns and
\* InventoryTree have the details.
Changes(d) ==
  {PutPlace(d, p, [up |-> u, name |-> n]) :
     p \in Places \ DOMAIN d.places, u \in DOMAIN d.places \cup {Nil}, n \in PlaceNames}
  \cup {Log(Put(d, i, Lot(p)), i, p) :
          i \in Items \ DOMAIN d.items, p \in DOMAIN d.places \cup {Nil}}
  \cup {Log(Put(d, i, Moved(d.items[i], p)), i, p) :
          i \in {j \in DOMAIN d.items : d.items[j].state = "active"}, p \in DOMAIN d.places}
  \cup {Log(Put(d, i, Removed(d.items[i], "lost")), i, Nil) :
          i \in {j \in DOMAIN d.items : d.items[j].state = "active"}}
  \cup {Log(Put(d, i, Uncounted(d.items[i])), i, Nil) :
          i \in {j \in DOMAIN d.items : d.items[j].state = "active"}}

SessionCommits ==
  /\ sessions > 0
  /\ \E new \in Changes(db) : ValidSiblings(new) /\ Commit(new)
  /\ sessions' = sessions - 1
  /\ UNCHANGED <<exportVars, given, boot, importVars, fileVars, kills>>

-----------------------------------------------------------------------------
\* A manifest lists places by their paths and items with what they are; a file
\* that is no manifest is Nil.  Every parent is listed, and no path twice.
ValidPaths(paths) ==
  /\ IsInjective(paths)
  /\ \A k \in DOMAIN paths : paths[k] # << >> /\ (Len(paths[k]) > 1 => Front(paths[k]) \in Range(paths))

ValidEntry(m, e) ==
  /\ e.state \notin {"sold", "discarded"}
  /\ QuantityIsTrue(e)
  /\ (e.state = "removed") = (e.reason # Nil)
  /\ e.state = "removed" => e.path = Nil
  /\ e.path # Nil => e.path \in Range(m.paths)

ValidManifest(m) ==
  /\ m # Nil /\ ValidPaths(m.paths)
  /\ \A k \in DOMAIN m.items :
       /\ ValidEntry(m, m.items[k])
       /\ \A j \in 1 .. k - 1 : m.items[j].name # m.items[k].name

BootstrapTo(pc) == boot' = [boot EXCEPT !.pc = pc]

\* The file is read and judged.
BootstrapLoad ==
  /\ boot.pc = "ready"
  /\ \E m \in boot.files :
       boot' = [boot EXCEPT !.pc = IF ValidManifest(m) THEN "loaded" ELSE "refused", !.manifest = m]
  /\ UNCHANGED <<db, past, sessions, exportVars, given, importVars, fileVars, kills>>

\* Rows of each table.
InventoryCounts == [places |-> Cardinality(DOMAIN db.places), items |-> Cardinality(DOMAIN db.items),
                    events |-> Cardinality(db.events)]

\* The preflight reads it again, as it is now, and counts the rows.
BootstrapCheck ==
  LET empty == \A table \in DOMAIN InventoryCounts : InventoryCounts[table] = 0 IN
  /\ boot.pc = "loaded"
  /\ \E m \in boot.files : BootstrapTo(IF ValidManifest(m) /\ empty THEN "checked" ELSE "refused")
  /\ UNCHANGED <<db, past, sessions, exportVars, given, importVars, fileVars, kills>>

\* The session looks once more.
BootstrapLook ==
  /\ boot.pc = "checked"
  /\ BootstrapTo(IF db = Empty THEN "empty" ELSE "refused")
  /\ UNCHANGED <<db, past, sessions, exportVars, given, importVars, fileVars, kills>>

\* create_item and, for what is gone, remove_item.
BootstrapItem(e, at) ==
  LET row == [Lot(IF e.path = Nil THEN Nil ELSE at[e.path])
                EXCEPT !.mode = e.mode, !.quantity = e.quantity]
  IN IF e.state = "removed" THEN Removed(row, e.reason) ELSE [row EXCEPT !.state = e.state]

\* at is the place of a path.  A parent that is not listed is none.
Planted(at) ==
  [p \in Range(at) |->
     LET path == CHOOSE q \in DOMAIN at : at[q] = p
     IN [up |-> IF Front(path) \in DOMAIN at THEN at[Front(path)] ELSE Nil, name |-> Last(path)]]

\* key is the item of an entry.
Stocked(m, at, key) ==
  [i \in Range(key) |-> BootstrapItem(m.items[CHOOSE k \in DOMAIN key : key[k] = i], at)]

Entered(m, at, key) ==
  {[item |-> key[k], place |-> IF m.items[k].path = Nil THEN Nil ELSE at[m.items[k].path]] :
     k \in DOMAIN key}

\* Places under their parents, then the items, with keys that are free.
Filled(d, m) ==
  {[places |-> Over(Planted(at), d.places), items |-> Over(Stocked(m, at, key), d.items),
    events |-> d.events \cup Entered(m, at, key)] :
     at \in Injection(Range(m.paths), Places \ DOMAIN d.places),
     key \in Injection(DOMAIN m.items, Items \ DOMAIN d.items)}

\* What create_category, create_location, create_item and remove_item refuse.
Refused(new, m) ==
  \/ ~ValidSiblings(new) \/ ~IsInjective(m.paths)
  \/ \E k \in DOMAIN m.items :
       \/ \E j \in 1 .. k - 1 : m.items[j].name = m.items[k].name
       \/ m.items[k].state \in {"sold", "discarded"} \/ ~QuantityIsTrue(m.items[k])

\* The first row takes the write lock, and all are committed together; what
\* was committed since the look is there too.  A name that is taken refuses
\* everything.
BootstrapApply ==
  LET filled == {new \in Filled(db, boot.manifest) : ~Refused(new, boot.manifest)} IN
  /\ boot.pc = "empty"
  /\ IF filled # {}
     THEN (\E new \in filled : Commit(new)) /\ BootstrapTo("applied")
     ELSE BootstrapTo(IF db = Empty THEN "broken" ELSE "refused") /\ UNCHANGED <<db, past>>
  /\ UNCHANGED <<sessions, exportVars, given, importVars, fileVars, kills>>

-----------------------------------------------------------------------------
\* The sections of a document in their order.
Sections == <<"places", "items", "events", "written">>
NextSection == ex' = Sections[CHOOSE k \in 2 .. Len(Sections) : Sections[k - 1] = ex]

\* The explicit BEGIN: every section is read from one snapshot.
ExportBegins ==
  /\ ex = "ready"
  /\ ex' = Sections[1] /\ snapshot' = db /\ page' = 0 /\ partial' = Empty
  /\ UNCHANGED <<db, past, sessions, exported, given, boot, importVars, fileVars, kills>>

\* Fault: SELECT statements alone open no transaction.
SeenLatest == db

\* What a SELECT of the export sees.
Seen == snapshot

WritePlaces ==
  /\ ex = "places"
  /\ partial' = [partial EXCEPT !.places = Seen.places]
  /\ NextSection
  /\ UNCHANGED <<db, past, sessions, snapshot, page, exported, given, boot, importVars, fileVars, kills>>

\* Pages of items above the last key written.
WriteItems ==
  LET rest == {i \in DOMAIN Seen.items : i > page} IN
  /\ ex = "items"
  /\ IF rest = {}
     THEN /\ NextSection /\ UNCHANGED <<page, partial>>
     ELSE LET i == CHOOSE j \in rest : \A k \in rest : j <= k IN
          /\ partial' = Put(partial, i, Seen.items[i])
          /\ page' = i
          /\ UNCHANGED ex
  /\ UNCHANGED <<db, past, sessions, snapshot, exported, given, boot, importVars, fileVars, kills>>

WriteEvents ==
  /\ ex = "events"
  /\ partial' = [partial EXCEPT !.events = Seen.events]
  /\ NextSection
  /\ UNCHANGED <<db, past, sessions, snapshot, page, exported, given, boot, importVars, fileVars, kills>>

\* fsync and os.replace.
ExportEnds ==
  /\ ex = "written"
  /\ exported' = Document(V3, partial)
  /\ ex' = "done" /\ partial' = Empty /\ snapshot' = Empty
  /\ UNCHANGED <<db, past, sessions, page, given, boot, importVars, fileVars, kills>>

KillExport ==
  /\ ex \in Range(Sections) /\ kills > 0
  /\ ex' = "dead" /\ partial' = Empty /\ snapshot' = Empty
  /\ kills' = kills - 1
  /\ UNCHANGED <<db, past, sessions, page, exported, given, boot, importVars, fileVars>>

-----------------------------------------------------------------------------
Nothing == [by |-> "nobody", db |-> Empty, from |-> Nil]
There == target.by # "nobody"
Free == ~There /\ ~sidecar

ImportTo(pc) == im' = pc
Fail(pc) ==
  /\ ImportTo(pc)
  /\ source' = Nil /\ work' = Empty /\ level' = 0

\* validate_portable_import_target
ImportBegins ==
  /\ im = "ready"
  /\ IF Free THEN ImportTo("checked") ELSE ImportTo("refused")
  /\ UNCHANGED <<db, past, sessions, exportVars, given, boot, source, level, work, fileVars, kills>>

\* The file is spooled: what comes after it at its path does not matter.
ReadDocument ==
  /\ im = "checked"
  /\ \E doc \in {given, exported} \ {Nil} : source' = doc
  /\ ImportTo("read")
  /\ UNCHANGED <<db, past, sessions, exportVars, given, boot, level, work, fileVars, kills>>

Validate ==
  /\ im = "read"
  /\ IF Valid(source) THEN ImportTo("writing") /\ UNCHANGED <<source, level, work>> ELSE Fail("refused")
  /\ UNCHANGED <<db, past, sessions, exportVars, given, boot, fileVars, kills>>

\* _write_workspace_tree: one level after the other; a place whose parent is
\* not there violates the foreign key.
WriteLevel ==
  LET d == source.rows
      here == {p \in DOMAIN d.places : Depth(d, p) = level}
  IN
  /\ im = "writing" /\ DOMAIN d.places # DOMAIN work.places
  /\ IF \A p \in here : d.places[p].up \in DOMAIN work.places \cup here \cup {Nil}
     THEN /\ work' = [work EXCEPT !.places = Over([p \in here |-> d.places[p]], @)]
          /\ level' = level + 1
          /\ UNCHANGED <<im, source>>
     ELSE Fail("broken")
  /\ UNCHANGED <<db, past, sessions, exportVars, given, boot, fileVars, kills>>

\* Items, then events; one commit.  ck_items_quantity_truth is the only
\* constraint on what the columns of an item say together.
WriteRows ==
  LET d == source.rows
      items == [i \in DOMAIN d.items |-> ImportTruth(source.version, d.items[i])]
  IN
  /\ im = "writing" /\ DOMAIN d.places = DOMAIN work.places
  /\ IF \A i \in DOMAIN items : QuantityIsTrue(items[i])
     THEN /\ work' = [work EXCEPT !.items = items, !.events = d.events]
          /\ ImportTo("built")
          /\ UNCHANGED <<source, level>>
     ELSE Fail("broken")
  /\ UNCHANGED <<db, past, sessions, exportVars, given, boot, fileVars, kills>>

\* The copy is validated, and the target checked again.
CheckAgain ==
  /\ im = "built"
  /\ IF Free THEN ImportTo("staged") /\ UNCHANGED <<source, level, work>> ELSE Fail("refused")
  /\ UNCHANGED <<db, past, sessions, exportVars, given, boot, fileVars, kills>>

\* _publish_new_database: the sidecars, then the link, which never replaces.
CheckSidecars ==
  /\ im = "staged"
  /\ IF ~sidecar THEN ImportTo("clear") /\ UNCHANGED <<source, level, work>> ELSE Fail("refused")
  /\ UNCHANGED <<db, past, sessions, exportVars, given, boot, fileVars, kills>>

\* Fault: a rename instead of a link.
Rename ==
  /\ im = "clear"
  /\ target' = [by |-> "import", db |-> work, from |-> source]
  /\ ImportTo("linked") /\ UNCHANGED <<source, level, work>>
  /\ UNCHANGED <<db, past, sessions, exportVars, given, boot, sidecar, others, kills>>

Link ==
  /\ im = "clear"
  /\ \/ /\ ~There
        /\ target' = [by |-> "import", db |-> work, from |-> source]
        /\ ImportTo("linked") /\ UNCHANGED <<source, level, work>>
     \/ /\ There
        /\ Fail("refused") /\ UNCHANGED target
  /\ UNCHANGED <<db, past, sessions, exportVars, given, boot, sidecar, others, kills>>

\* A sidecar that appeared belongs to something else: the link is taken back.
PublishImport ==
  /\ im = "linked"
  /\ IF sidecar
     THEN target' = Nothing /\ Fail("refused")
     ELSE Fail("done") /\ UNCHANGED target
  /\ UNCHANGED <<db, past, sessions, exportVars, given, boot, sidecar, others, kills>>

\* Temporary files stay behind under names nobody looks for.
KillImport ==
  /\ im \notin {"ready", "refused", "broken", "done", "dead"} /\ kills > 0
  /\ Fail("dead")
  /\ kills' = kills - 1
  /\ UNCHANGED <<db, past, sessions, exportVars, given, boot, fileVars>>

-----------------------------------------------------------------------------
OtherStep ==
  /\ others > 0
  /\ others' = others - 1
  /\ UNCHANGED <<db, past, sessions, exportVars, given, boot, importVars, kills>>

\* Another program makes its database at the target, and opens and closes
\* what it finds there.
OtherCreates ==
  /\ ~There /\ OtherStep
  /\ target' = [by |-> "other", db |-> Empty, from |-> Nil]
  /\ UNCHANGED sidecar

OtherOpens ==
  /\ There /\ ~sidecar /\ OtherStep
  /\ sidecar' = TRUE
  /\ UNCHANGED target

OtherCloses ==
  /\ sidecar /\ OtherStep
  /\ sidecar' = FALSE
  /\ UNCHANGED target

\* Its main file is deleted; a sidecar may be left.
OtherDeletes ==
  /\ target.by = "other" /\ OtherStep
  /\ target' = Nothing
  /\ UNCHANGED sidecar

\* Entries of a manifest, which have room among the keys there are.
Entry == [name : PlaceNames, state : States, path : Seq(PlaceNames) \cup {Nil},
          mode : {"exact", "unknown"}, quantity : {1, Nil}, reason : Reasons \cup {Nil}]
IsManifest(m) ==
  /\ m.paths \in Seq(Seq(PlaceNames)) /\ Len(m.paths) <= Cardinality(Places)
  /\ m.items \in Seq(Entry) /\ Len(m.items) <= Cardinality(Items)

\* The application starts with an inventory that its rules have kept; a document
\* or a manifest may say anything.
IsScenario(s) ==
  /\ Rows(s.db) /\ Valid(Document(V3, s.db)) /\ s.sessions \in Nat
  /\ s.ex \in {"none", "ready"} /\ s.others \in 0 .. MaxOther
  /\ s.given # Nil => IsDocument(s.given)
  /\ \A m \in s.files : m # Nil => IsManifest(m)

ASSUME TransferConstants ==
  /\ Places \subseteq Nat \ {0} /\ IsFiniteSet(Places) /\ Places # {}
  /\ Items \subseteq Nat \ {0} /\ IsFiniteSet(Items)
  /\ Nil \notin Nat \cup PlaceNames \cup {"sold", "discarded", "lost"}
  /\ \A S \in SUBSET Places : S # Nil
  /\ MaxOther \in Nat /\ MaxKills \in Nat
  /\ \A s \in Scenarios : IsScenario(s)

TransferInit ==
  \E s \in Scenarios :
    /\ db = s.db /\ past = {s.db} /\ sessions = s.sessions
    /\ ex = s.ex /\ snapshot = Empty /\ page = 0 /\ partial = Empty /\ exported = Nil
    /\ given = s.given
    /\ boot = [pc |-> IF s.files = {} THEN "none" ELSE "ready", files |-> s.files, manifest |-> Nil]
    /\ im = "ready" /\ source = Nil /\ level = 0 /\ work = Empty
    /\ target = Nothing /\ sidecar = FALSE /\ others = s.others /\ kills = MaxKills

TransferNext ==
  \/ SessionCommits \/ BootstrapLoad \/ BootstrapCheck \/ BootstrapLook \/ BootstrapApply
  \/ ExportBegins \/ WritePlaces \/ WriteItems \/ WriteEvents \/ ExportEnds \/ KillExport
  \/ ImportBegins \/ ReadDocument \/ Validate \/ WriteLevel \/ WriteRows
  \/ CheckAgain \/ CheckSidecars \/ Link \/ PublishImport \/ KillImport
  \/ OtherCreates \/ OtherOpens \/ OtherCloses \/ OtherDeletes

TransferSpec == TransferInit /\ [][TransferNext]_transferVars

-----------------------------------------------------------------------------
\* The variables have their types, and ck_items_quantity_truth holds.
TransferTypeOK ==
  /\ \A i \in DOMAIN db.items : QuantityIsTrue(db.items[i])
  /\ Rows(db) /\ Rows(work) /\ Rows(partial) /\ Rows(snapshot)
  /\ sessions \in Nat /\ others \in 0 .. MaxOther /\ kills \in 0 .. MaxKills
  /\ ex \in {"none", "ready", "places", "items", "events", "written", "done", "dead"}
  /\ im \in {"ready", "checked", "read", "writing", "built", "staged", "clear", "linked",
             "refused", "broken", "done", "dead"}
  /\ boot.pc \in {"none", "ready", "loaded", "checked", "empty", "applied", "refused", "broken"}
  /\ page \in {0} \cup Items /\ level \in Nat /\ sidecar \in BOOLEAN
  /\ target.by \in {"nobody", "import", "other"}

\* Whatever is committed while it runs, a document that reaches its
\* destination is one state the database was in, and the importer accepts it
\* (stream_portable_inventory, validate_portable_workspace).
ExportIsOneState ==
  /\ TransferTypeOK
  /\ exported # Nil => exported.rows \in past /\ Valid(exported)

\* Documents of the older versions as their exporters wrote them.
Frozen(doc) ==
  doc.version # V3 => \A i \in DOMAIN doc.rows.items : doc.rows.items[i].state # "removed"

Same(doc, d) ==
  /\ d.places = doc.rows.places /\ d.events = doc.rows.events
  /\ DOMAIN d.items = DOMAIN doc.rows.items
  /\ \A i \in DOMAIN d.items :
       LET old == doc.rows.items[i]
           now == d.items[i]
       IN /\ now.place = old.place /\ now.quantity = old.quantity
          /\ now.state = "removed" => old.reason = now.reason \/ old.state = now.reason
          /\ now.state # "removed" => old.state = now.state

\* Names from the root down.
PathTo(d, p) ==
  LET depth == Depth(d, p) IN
  [k \in 1 .. depth + 1 |-> d.places[Above(Parents(d), p)[depth + 1 - k]].name]

IsAt(d, place, path) ==
  IF path = Nil THEN place = Nil ELSE place # Nil /\ PathTo(d, place) = path

\* Every path and every item of the manifest, as it says.
Fulfils(d, m) ==
  /\ \A k \in DOMAIN m.paths : \E p \in DOMAIN d.places : PathTo(d, p) = m.paths[k]
  /\ \A k \in DOMAIN m.items :
       LET e == m.items[k] IN
       \E i \in DOMAIN d.items :
         LET row == d.items[i] IN
         /\ <<row.state, row.mode, row.quantity, row.reason>> = <<e.state, e.mode, e.quantity, e.reason>>
         /\ IsAt(d, row.place, e.path)

\* A valid document or manifest is always written.  What is found at the target
\* of an import is all of the document, can be exported, and the export be
\* imported, unless the document is of an older version and holds a removed item,
\* for which nothing is claimed (Frozen); a bootstrap leaves every path and item
\* of the manifest, however the file changes between its two readings
\* (import_portable_inventory, apply_bootstrap_import).
ImportIsFaithful ==
  /\ im # "broken" /\ boot.pc # "broken"
  /\ target.by = "import" /\ Frozen(target.from) =>
       /\ Same(target.from, target.db)
       /\ Valid(Document(V3, target.db))
  /\ boot.pc = "applied" => \E d \in past : Fulfils(d, boot.manifest)

\* The streaming reader, which remembers where it has walked, and the reader
\* in memory accept the same documents (_validate_stream_hierarchy,
\* _validate_portable_tree).
ReadersAgree == source # Nil => (Valid(source) <=> ValidWhole(source))

\* The importer never replaces or deletes a file it did not make
\* (_publish_new_database, "without replacing any path").
NothingReplaced ==
  [][im' # im /\ target.by = "other" => target' = target]_transferVars
=============================================================================
