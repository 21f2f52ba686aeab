-------------------------- MODULE ExactlyOnceLedger --------------------------
(***************************************************************************)
(* What the idempotency gate promises, without sessions, transactions or   *)
(* locks: a key goes from new to open and from open to one final outcome;  *)
(* the step that completes it is the step that applies its turn; and a     *)
(* caller hears of a result or of a failure only when that is the final    *)
(* outcome of its key.                                                     *)
(***************************************************************************)
EXTENDS Naturals

CONSTANTS Clients, Keys, Absent

VARIABLES
  outcome,  \* key -> "new", "open", "done" or "failed"
  applied,  \* key -> the turns that were applied to the inventory for it
  answer    \* client -> the last answer it was given

vars == <<outcome, applied, answer>>

NoAnswer == [kind |-> "none", key |-> Absent, run |-> 0]

Init ==
  /\ outcome = [k \in Keys |-> "new"]
  /\ applied = [k \in Keys |-> {}]
  /\ answer = [c \in Clients |-> NoAnswer]

Open(k) ==
  /\ outcome[k] = "new"
  /\ outcome' = [outcome EXCEPT ![k] = "open"]
  /\ UNCHANGED applied

\* One turn, r, is applied for k, and none was before.
CompleteWith(k, r) ==
  /\ outcome[k] = "open"
  /\ outcome' = [outcome EXCEPT ![k] = "done"]
  /\ applied[k] = {}
  /\ applied' = [applied EXCEPT ![k] = {r}]

Complete(k) == \E r \in applied'[k] : CompleteWith(k, r)

Fail(k) ==
  /\ outcome[k] = "open"
  /\ outcome' = [outcome EXCEPT ![k] = "failed"]
  /\ UNCHANGED applied

\* An answer may be given in the step that settles its key, or later.
True(a) ==
  a.key # Absent =>
    /\ a.kind = "ok" => outcome'[a.key] = "done" /\ applied'[a.key] = {a.run}
    /\ a.kind \in {"failed", "previous_failure"} => outcome'[a.key] = "failed"

Answers == \A c \in Clients : answer'[c] = answer[c] \/ True(answer'[c])

Next ==
  /\ (\E k \in Keys : Open(k) \/ Complete(k) \/ Fail(k)) \/ UNCHANGED <<outcome, applied>>
  /\ Answers

Spec == Init /\ [][Next]_vars

=============================================================================
