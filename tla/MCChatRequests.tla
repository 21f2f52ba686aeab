--------------------------- MODULE MCChatRequests ---------------------------
(***************************************************************************)
(* ChatRequests for TLC.  Clients, contents and notes are interchangeable, *)
(* and so are keys: no definition tells one member of a set from another.  *)
(***************************************************************************)
EXTENDS ChatRequests, TLC

Symmetry == Permutations(Clients) \cup Permutations(Keys) \cup Permutations(Contents)

=============================================================================
