--------------------------- MODULE MCInventoryTree ---------------------------
(* Two browsers and a turn of the agent on a small inventory.              *)
EXTENDS InventoryTree

CONSTANTS w1, w2, a1, x, y

R(table, name, owner) == [table |-> table, name |-> name, owner |-> owner, note |-> FALSE]

\* Room for two more places, an item and a photo.
MCKeys == [tree |-> {1, 2, 3, 6, 7}, item |-> {4, 8}, photo |-> {5, 9}]

\* Two places side by side, one below the first, an item of the first and its
\* photo; and two places that are below each other already.
MCForest == {
  <<R("tree", x, Nil), R("tree", y, Nil), R("tree", x, 1), R("item", x, 1), R("photo", x, 4)>>}
MCStart == MCForest \cup {<<R("tree", x, 2), R("tree", y, 1), R("tree", x, Nil)>>}
=============================================================================
