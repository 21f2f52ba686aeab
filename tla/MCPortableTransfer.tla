------------------------- MODULE MCPortableTransfer -------------------------
(* Exports of a small inventory that changes, and imports of many documents. *)
EXTENDS PortableTransfer, TLC

CONSTANTS x, y

Base == [db |-> Empty, sessions |-> 0, ex |-> "none", given |-> Nil, files |-> {}, others |-> 0]

\* Three places, two items, one of them removed.
Place(u, n) == [up |-> u, name |-> n]
Home == [places |-> (1 :> Place(3, x)) @@ (3 :> Place(Nil, x)),
         items |-> (1 :> Lot(1)) @@ (2 :> Removed(Lot(Nil), "lost")),
         events |-> {[item |-> 1, place |-> 1]}]

Exports == {[Base EXCEPT !.db = d, !.sessions = 2, !.ex = "ready"] : d \in {Empty, Home}}

EntryOf(n, s, p, q, r) ==
  [name |-> n, state |-> s, path |-> p, mode |-> IF q = Nil THEN "unknown" ELSE "exact",
   quantity |-> q, reason |-> r]
Paths == <<<<x>>, <<x, x>>>>
Manifest(paths, items) == [paths |-> paths, items |-> items]

\* A bootstrap beside an export and a commit.
Boots == {[Base EXCEPT !.sessions = 1, !.ex = "ready", !.files = {Manifest(Paths, <<e>>)}] :
            e \in {EntryOf(x, "active", <<x, x>>, 1, Nil), EntryOf(x, "active", Nil, Nil, Nil),
                   EntryOf(x, "removed", Nil, 1, "lost"), EntryOf(x, "removed", Nil, Nil, "lost")}}

\* Lists of up to three paths, every entry, two entries, and two files.
Some == {<<x>>, <<y>>, <<x, x>>, <<y, x>>, <<x, x, y>>}
Forests == {Manifest(f, <<EntryOf(x, "active", <<x>>, 1, Nil)>>) : f \in SeqOf(Some, 3)}
Entries == {Manifest(Paths, <<[EntryOf(x, s, p, q, r) EXCEPT !.mode = m]>>) :
              s \in States, p \in {Nil, <<x, x>>, <<y>>}, q \in {1, Nil}, r \in {Nil, "lost"},
              m \in {"exact", "unknown"}}
Pairs == {Manifest(Paths, <<EntryOf(n, "active", <<x>>, 1, Nil), EntryOf(x, "removed", Nil, 1, "sold")>>) :
            n \in PlaceNames}
Loads == {[Base EXCEPT !.files = {m}] : m \in Forests \cup Entries \cup Pairs}
         \cup {[Base EXCEPT !.files = Pairs \cup {Manifest(<< >>, << >>), Nil}]}

\* Every tree on three places, and every item and event on one tree.
Trees == {[Home EXCEPT !.places = [p \in Places |-> Place(up[p], nm[p])]] :
            up \in [Places -> Places \cup {Nil}], nm \in [Places -> PlaceNames]}
Lots == {[Home EXCEPT !.items = (1 :> i)] : i \in ItemRow}
Events == {[Home EXCEPT !.events = {e}, !.items = (1 :> Lot(1))] : e \in EventRow}

Imports == {[Base EXCEPT !.given = Document(V3, d)] : d \in Trees \cup Events}
           \cup {[Base EXCEPT !.given = Document(v, d)] : v \in {V1, V2, V3}, d \in Lots}
           \cup {[Base EXCEPT !.given = Document(V3, Home), !.others = MaxOther]}

MCScenarios == Exports \cup Boots \cup Loads \cup Imports
=============================================================================
