----------------------- MODULE MCLifecycleCheckpoints -----------------------
(* A task of three phases, or a batch of two tasks.                        *)
EXTENDS LifecycleCheckpoints

CONSTANTS t1, t2

MCPhases == <<"implementation_ready", "pr_open", "merged">>

\* Two tasks; one of them twice; out of order; a specification too few; the
\* destinations exchanged; none; the older form.
Listed(ids, at) == [k \in DOMAIN ids |-> [position |-> at[k], id |-> ids[k]]]
M(form, ids, at, specs, destinations) ==
  [format |-> form, ordered |-> Listed(ids, at), specs |-> specs, destinations |-> destinations]
Both == <<t1, t2>>
MCManifests ==
  {M("integrated", Both, <<1, 2>>, Both, Both),
   M("integrated", <<t1, t1>>, <<1, 2>>, <<t1, t1>>, <<t1, t1>>),
   M("integrated", Both, <<2, 1>>, Both, Both),
   M("integrated", Both, <<1, 2>>, <<t1>>, Both),
   M("integrated", Both, <<1, 2>>, Both, <<t2, t1>>),
   M("integrated", << >>, << >>, << >>, << >>),
   M("legacy", Both, <<1, 2>>, Both, Both)}

MCCommits == [m \in {"task", "batch"} |-> IF m = "task" THEN 2 ELSE 3]
MCEvents == [m \in {"task", "batch"} |-> IF m = "task" THEN 3 ELSE 13]
=============================================================================
