---------------------------- MODULE MCAgentTurn ----------------------------
(* A turn of four calls on an item and a place; others commit once.        *)
EXTENDS AgentTurn

CONSTANTS x, y

MCStart == {<<[kind |-> "item", names |-> {x}, place |-> Nil],
              [kind |-> "place", names |-> {y}, place |-> Nil]>>}
=============================================================================
