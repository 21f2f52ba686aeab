-------------------------- MODULE MCTelegramPolling --------------------------
(***************************************************************************)
(* TelegramPolling for TLC.  The bounds are its constants.                 *)
(***************************************************************************)
EXTENDS TelegramPolling

=============================================================================
