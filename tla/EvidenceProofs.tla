--------------------------- MODULE EvidenceProofs ---------------------------
(***************************************************************************)
(* What is kept of a commit, in the journal of an assignment and in the    *)
(* wait for its checks, may be relied upon: for any phases, manifests,     *)
(* tasks, commits and lengths of a journal, and for any checks, times and  *)
(* moves on GitHub.                                                        *)
(*                                                                         *)
(* Journal.  A command decides on what it has read, and writes when the    *)
(* repository and the journal may be others.  So the same is said of what  *)
(* a command is about to write as of what is in the file (FileInv,         *)
(* CmdInv), it is said of the journal alone wherever it can be, and the    *)
(* facts that need Git only need that commits keep their ancestors         *)
(* (GitGrows).                                                             *)
(*                                                                         *)
(* Wait.  The answers of a poll are of different moments, so nothing can   *)
(* be said of GitHub at any one of them.  What carries the proof is that   *)
(* each answer was true at some moment of this poll (ShownInv), and that a *)
(* check that an answer leaves out was missing at its moment (MissedInv).  *)
(***************************************************************************)
EXTENDS LifecycleCheckpoints, CiWaiter, FiniteSetTheorems, TLAPS

\* What stands in for induction: a set of numbers with something in it has a least.
LEMMA LeastNumber ==
  ASSUME NEW T, T \subseteq Nat, T # {}
  PROVE  \E x \in T : \A y \in T : x <= y
<1> DEFINE Below == {1 .. n : n \in T}
<1>1. Below \subseteq FiniteSubsetsOf(Nat) /\ Below # {}
  <2>1. \A n \in T : 1 .. n \subseteq Nat /\ IsFiniteSet(1 .. n)
    BY FS_Interval
  <2>2. QED
    BY <2>1 DEF FiniteSubsetsOf
<1>2. PICK b \in Below : \A c \in Below : <<c, b>> \notin StrictSubsetOrdering(Nat)
  <2> HIDE DEF Below
  <2>1. QED
    BY <1>1, FS_StrictSubsetOrderingWellFounded, WFMin
<1>3. PICK x \in T : b = 1 .. x
  OBVIOUS
<1>4. ASSUME NEW y \in T, ~ (x <= y)
      PROVE  FALSE
  <2>1. 1 .. y \in SUBSET Nat /\ 1 .. x \in SUBSET Nat
    OBVIOUS
  <2>2. 1 .. y \subseteq 1 .. x /\ x \in 1 .. x /\ x \notin 1 .. y /\ 1 .. y \in Below
    BY <1>4
  <2>3. 1 .. y # 1 .. x
    BY <2>2
  <2>4. QED
    BY <1>2, <1>3, <2>1, <2>2, <2>3 DEF StrictSubsetOrdering
<1>5. QED
  BY <1>4

-----------------------------------------------------------------------------
(* The tasks as the history tells them *)

\* One line more, after each of what may be told.
More(told, e) == UNION {Replay(tasks, e) : tasks \in told}

\* f says what is told of the first n lines.
Tells(f, h, n) ==
  /\ f = [k \in 0 .. n |-> f[k]]
  /\ \A k \in 0 .. n : f[k] = IF k = 0 THEN {<< >>} ELSE More(f[k - 1], h[k])

\* The recursion of Told is well defined, and the lines after do not matter.
LEMMA TellsExist ==
  ASSUME NEW h, NEW n \in Nat
  PROVE  \E f : Tells(f, h, n)
<1> DEFINE T == {m \in Nat : ~ \E f : Tells(f, h, m)}
<1>1. SUFFICES ASSUME T # {} PROVE FALSE
  OBVIOUS
<1>2. PICK m \in T : \A y \in T : m <= y
  BY <1>1, LeastNumber
<1>3. CASE m = 0
  <2>1. Tells([k \in 0 .. 0 |-> {<< >>}], h, 0)
    BY DEF Tells
  <2>2. QED
    BY <2>1, <1>3
<1>4. CASE m # 0
  <2>1. m - 1 \in Nat /\ m - 1 \notin T
    BY <1>2, <1>4
  <2>2. PICK f : Tells(f, h, m - 1)
    BY <2>1
  <2> DEFINE g == [k \in 0 .. m |-> IF k = m THEN More(f[m - 1], h[m]) ELSE f[k]]
  <2>3. Tells(g, h, m)
    <3>1. g = [k \in 0 .. m |-> g[k]]
      OBVIOUS
    <3>2. ASSUME NEW k \in 0 .. m PROVE g[k] = IF k = 0 THEN {<< >>} ELSE More(g[k - 1], h[k])
      <4>1. CASE k = m
        BY <4>1, <1>4
      <4>2. CASE k # m
        <5>1. k \in 0 .. (m - 1) /\ (k # 0 => k - 1 \in 0 .. m /\ k - 1 # m)
          BY <4>2
        <5>2. f[k] = IF k = 0 THEN {<< >>} ELSE More(f[k - 1], h[k])
          BY <5>1, <2>2 DEF Tells
        <5>3. QED
          BY <5>1, <5>2, <4>2
      <4>3. QED
        BY <4>1, <4>2
    <3>3. QED
      BY <3>1, <3>2 DEF Tells
  <2>4. QED
    BY <2>3
<1>5. QED
  BY <1>3, <1>4

LEMMA TellsOnce ==
  ASSUME NEW h, NEW i, NEW m \in Nat, NEW n \in Nat, NEW f, NEW g, m <= n,
         Tells(f, h, m), Tells(g, i, n), \A k \in 1 .. m : h[k] = i[k]
  PROVE  f[m] = g[m]
<1> DEFINE T == {k \in 0 .. m : f[k] # g[k]}
<1>1. SUFFICES ASSUME T # {} PROVE FALSE
  OBVIOUS
<1>2. PICK k \in T : \A y \in T : k <= y
  <2>1. T \subseteq Nat
    OBVIOUS
  <2> HIDE DEF T
  <2>2. QED
    BY <1>1, <2>1, LeastNumber
<1>3. k \in 0 .. m /\ k \in 0 .. n /\ f[k] # g[k]
  OBVIOUS
<1>4. /\ f[k] = IF k = 0 THEN {<< >>} ELSE More(f[k - 1], h[k])
      /\ g[k] = IF k = 0 THEN {<< >>} ELSE More(g[k - 1], i[k])
  BY <1>3 DEF Tells
<1>5. k # 0
  BY <1>3, <1>4
<1>6. k - 1 \in 0 .. m /\ k - 1 \notin T /\ h[k] = i[k]
  BY <1>2, <1>3, <1>5
<1>7. QED
  BY <1>3, <1>4, <1>5, <1>6

LEMMA ToldIs ==
  ASSUME NEW h, Len(h) \in Nat
  PROVE  \E f : Tells(f, h, Len(h)) /\ Told(h) = f[Len(h)]
<1> DEFINE told == CHOOSE told : told = [k \in 0 .. Len(h) |-> IF k = 0 THEN {<< >>} ELSE More(told[k - 1], h[k])]
<1>1. PICK f : Tells(f, h, Len(h))
  BY TellsExist
<1>2. f = [k \in 0 .. Len(h) |-> IF k = 0 THEN {<< >>} ELSE More(f[k - 1], h[k])]
  BY <1>1 DEF Tells
<1>3. told = [k \in 0 .. Len(h) |-> IF k = 0 THEN {<< >>} ELSE More(told[k - 1], h[k])]
  BY <1>2
<1>4. Told(h) = told[Len(h)]
  BY DEF Told, More
<1> HIDE DEF told
<1>5. Tells(told, h, Len(h))
  BY <1>3 DEF Tells
<1>6. QED
  BY <1>4, <1>5

\* Nothing is told of nothing, and one line more is one more step.
LEMMA ToldOfNothing == Told(<< >>) = {<< >>}
  BY ToldIs DEF Tells

LEMMA ToldOfOneMore ==
  ASSUME NEW S, NEW h \in Seq(S), NEW e \in S
  PROVE  Told(Append(h, e)) = More(Told(h), e)
<1> DEFINE n == Len(h)
           i == Append(h, e)
<1>1. n \in Nat /\ Len(i) = n + 1 /\ i[n + 1] = e /\ \A k \in 1 .. n : h[k] = i[k]
  OBVIOUS
<1>2. PICK f : Tells(f, h, n) /\ Told(h) = f[n]
  BY <1>1, ToldIs
<1>3. PICK g : Tells(g, i, n + 1) /\ Told(i) = g[n + 1]
  <2>1. Len(i) \in Nat
    BY <1>1
  <2> HIDE DEF i, n
  <2>2. QED
    BY <1>1, <2>1, ToldIs
<1> HIDE DEF i, n
<1>4. f[n] = g[n]
  BY <1>1, <1>2, <1>3, TellsOnce
<1>5. g[n + 1] = More(g[n], e)
  <2>1. n + 1 \in 0 .. n + 1 /\ n + 1 # 0 /\ (n + 1) - 1 = n
    BY <1>1
  <2>2. g[n + 1] = More(g[(n + 1) - 1], i[n + 1])
    BY <1>3, <2>1 DEF Tells
  <2>3. QED
    BY <1>1, <2>1, <2>2
<1>6. QED
  BY <1>2, <1>3, <1>4, <1>5 DEF i, n

\* The manifest never changes.
LEMMA ToldStays ==
  ASSUME manifest' = manifest, NEW h
  PROVE  Told(h)' = Told(h)
  BY DEF Told, Replay, Order

-----------------------------------------------------------------------------
(* The repository *)

\* Commits are numbered as they are made, and ancestors are closed.
GitOK ==
  /\ commits \in Seq([anc : SUBSET Nat, material : BOOLEAN])
  /\ Start \in Commits
  /\ \A c \in Commits : c \in commits[c].anc /\ commits[c].anc \subseteq Commits
  /\ \A c \in Commits : \A a \in commits[c].anc : commits[a].anc \subseteq commits[c].anc
  /\ tip \in [Branches -> Commits] /\ branch \in Branches

\* What the repository never loses.
GitGrows == \A c \in Commits : c \in Commits' /\ commits'[c].anc = commits[c].anc

LEMMA CommitStep ==
  ASSUME GitOK, NEW anc \in SUBSET Commits, \A a \in anc : commits[a].anc \subseteq anc,
         NewCommit(anc)
  PROVE  GitOK' /\ GitGrows
<1> DEFINE new == Len(commits) + 1
<1>1. PICK m \in BOOLEAN : commits' = Append(commits, [anc |-> anc \cup {new}, material |-> m])
  BY DEF NewCommit
<1> DEFINE C == [anc : SUBSET Nat, material : BOOLEAN]
<1>2. PICK c \in C : commits' = Append(commits, c) /\ c.anc = anc \cup {new}
  <2>1. anc \cup {new} \in SUBSET Nat
    BY DEF GitOK, Commits
  <2>2. [anc |-> anc \cup {new}, material |-> m] \in C
    BY <2>1
  <2>3. QED
    BY <1>1, <2>2
<1>3. /\ commits' \in Seq(C) /\ Len(commits') = new /\ new \in Nat /\ new \notin Commits
      /\ \A k \in Commits : commits'[k] = commits[k]
      /\ commits'[new] = c
  BY <1>2 DEF GitOK, Commits
<1>4. Commits' = Commits \cup {new}
  BY <1>3 DEF Commits, GitOK
<1> HIDE DEF new, C
<1>5. tip' \in [Branches -> Commits'] /\ branch' \in Branches
  BY <1>4 DEF GitOK, NewCommit, new
<1>6. \A d \in Commits' : d \in commits'[d].anc /\ commits'[d].anc \subseteq Commits'
  BY <1>2, <1>3, <1>4 DEF GitOK
<1>7. \A d \in Commits' : \A a \in commits'[d].anc : commits'[a].anc \subseteq commits'[d].anc
  <2>1. ASSUME NEW d \in Commits, NEW a \in commits[d].anc
        PROVE  commits'[d] = commits[d] /\ commits'[a] = commits[a] /\ commits[a].anc \subseteq commits[d].anc
    BY <1>3 DEF GitOK
  <2>2. ASSUME NEW a \in anc \cup {new}
        PROVE  commits'[a].anc \subseteq anc \cup {new}
    BY <1>2, <1>3
  <2>3. ASSUME NEW d \in Commits', NEW a \in commits'[d].anc
        PROVE  commits'[a].anc \subseteq commits'[d].anc
    <3>1. CASE d \in Commits
      <4>1. commits'[d] = commits[d]
        BY <3>1, <1>3
      <4>2. a \in commits[d].anc
        BY <4>1
      <4>3. QED
        BY <2>1, <3>1, <4>1, <4>2
    <3>2. CASE d = new
      BY <2>2, <3>2, <1>2, <1>3
    <3>3. QED
      BY <3>1, <3>2, <1>4
  <2>4. QED
    BY <2>3
<1>8. QED
  BY <1>3, <1>4, <1>5, <1>6, <1>7 DEF GitOK, GitGrows, C

LEMMA GitStep == GitOK /\ [Next]_vars => GitOK' /\ GitGrows
<1> SUFFICES ASSUME GitOK, [Next]_vars PROVE GitOK' /\ GitGrows
  OBVIOUS
<1>0. HEAD \in Commits /\ tip["implementation"] \in Commits
  BY DEF GitOK, HEAD, Branches
<1>1. CASE Commit
  <2>1. commits[HEAD].anc \in SUBSET Commits /\ \A a \in commits[HEAD].anc : commits[a].anc \subseteq commits[HEAD].anc
    BY <1>0 DEF GitOK
  <2>2. QED
    BY <1>1, <2>1, CommitStep DEF Commit
<1>2. CASE Merge
  <2> DEFINE anc == commits[HEAD].anc \cup commits[tip["implementation"]].anc
  <2>1. anc \in SUBSET Commits /\ \A a \in anc : commits[a].anc \subseteq anc
    BY <1>0 DEF GitOK
  <2>2. NewCommit(anc)
    BY <1>2 DEF Merge
  <2> HIDE DEF anc
  <2>3. QED
    BY <2>1, <2>2, CommitStep
<1>3. CASE Reset
  BY <1>0, <1>3 DEF Reset, GitOK, GitGrows, Commits
<1>4. CASE Checkout
  BY <1>4 DEF Checkout, GitOK, GitGrows, Commits
<1>5. CASE UNCHANGED git
  BY <1>5 DEF git, GitOK, GitGrows, Commits
<1>6. QED
  BY <1>1, <1>2, <1>3, <1>4, <1>5 DEF Next, Look, Replace, Fail, Overtake, vars

-----------------------------------------------------------------------------
(* Reading the journal of a batch *)

Ids == ToSet(Order) \cup {Nil}
Lines == [event : ToSet(Events), head : Nat, task : Ids, count : Nat]
Facts == [id : Ids, head : Nat, count : Nat]
BatchJournals ==
  [head : Nat, at : Branches, highest : ToSet(Events), seed : Nat \cup {Nil}, tasks : Seq(Facts),
   review : Nat \cup {Nil}, final : Nat \cup {Nil}, prHead : Nat \cup {Nil}, ci : Nat \cup {Nil},
   merge : Nat \cup {Nil}, history : Seq(Lines)]

\* LoadableBatch in parts: the history, what stands on the seed, and the facts.
HistoryOK(f) ==
  LET h == f.history IN
  /\ h # << >> /\ h[1].event = "preflight"
  /\ \A k \in 1 .. Len(h) - 1 : h[k].event # "merge"
  /\ \E k \in DOMAIN h : h[k].event = f.highest
  /\ \A k \in DOMAIN h : EventRank(h[k].event) <= EventRank(f.highest)

OnSeed(f, c) == f.seed # Nil /\ Ancestor(f.seed, c)

ReviewOK(f) == \A c \in {f.review, f.final} \ {Nil} : OnSeed(f, c)

FieldsOK(f) ==
  /\ f.seed # Nil => commits[f.seed].anc = {Start, f.seed}
  /\ Len(f.tasks) <= Len(Order) /\ \A k \in 1 .. Len(f.tasks) : f.tasks[k].id = Order[k]
  /\ \A k \in 1 .. Len(f.tasks) : OnSeed(f, f.tasks[k].head)
  /\ f.review # Nil => Len(f.tasks) = Len(Order)
  /\ f.final # Nil => f.review # Nil
  /\ f.prHead # Nil => f.prHead = f.final
  /\ f.ci # Nil => f.ci = f.prHead
  /\ f.merge # Nil => f.ci # Nil /\ Ancestor(f.ci, f.merge)

OrderOK == Order # << >> /\ IsInjective(Order)

LEMMA OrderIsSeq ==
  ASSUME manifest \in Manifests
  PROVE  Order \in Seq(ToSet(Order)) /\ Len(Order) \in Nat /\ DOMAIN Order = 1 .. Len(Order)
<1>1. manifest.ordered \in Seq(ToSet(manifest.ordered))
  BY ConstantsAssumption
<1>2. PICK n \in Nat : DOMAIN manifest.ordered = 1 .. n
  BY <1>1
<1>3. DOMAIN Order = 1 .. n /\ Order = [k \in 1 .. n |-> Order[k]] /\ \A k \in 1 .. n : Order[k] \in ToSet(Order)
  BY <1>2 DEF Order, ToSet
<1>4. Order \in [1 .. n -> ToSet(Order)]
  BY <1>3
<1>5. QED
  BY <1>3, <1>4

LEMMA PrefixOfOrder ==
  ASSUME manifest \in Manifests, NEW tasks \in Seq(Facts)
  PROVE  IsPrefix([k \in DOMAIN tasks |-> tasks[k].id], Order) <=>
           Len(tasks) <= Len(Order) /\ \A k \in 1 .. Len(tasks) : tasks[k].id = Order[k]
<1> DEFINE ids == [k \in DOMAIN tasks |-> tasks[k].id]
           n == Len(tasks)
<1>1. n \in Nat /\ DOMAIN tasks = 1 .. n
  OBVIOUS
<1>2. ids \in [1 .. n -> Ids] /\ \A k \in 1 .. n : ids[k] = tasks[k].id
  <2>1. ASSUME NEW k \in 1 .. n PROVE tasks[k].id \in Ids
    <3>1. tasks[k] \in Facts
      BY <1>1
    <3>2. QED
      BY <3>1 DEF Facts
  <2>2. QED
    BY <1>1, <2>1
<1>3. ids \in Seq(Ids) /\ Len(ids) = n
  BY <1>1, <1>2
<1>4. Order \in Seq(ToSet(Order)) /\ Len(Order) \in Nat
  BY OrderIsSeq
<1> HIDE DEF ids, n
<1>5. SubSeq(ids, 1, n) = [k \in 1 .. n |-> ids[k]]
  BY <1>1, <1>3
<1>6. CASE n <= Len(Order)
  <2>1. SubSeq(Order, 1, n) = [k \in 1 .. n |-> Order[k]]
    BY <1>1, <1>4, <1>6
  <2>2. SubSeq(ids, 1, n) = SubSeq(Order, 1, n) <=> \A k \in 1 .. n : ids[k] = Order[k]
    BY <2>1, <1>5
  <2>3. QED
    BY <2>2, <1>2, <1>3, <1>6 DEF IsPrefix, n, ids
<1>7. CASE ~ (n <= Len(Order))
  BY <1>3, <1>7 DEF IsPrefix, n, ids
<1>8. QED
  BY <1>6, <1>7

LEMMA LoadableParts ==
  ASSUME manifest \in Manifests, NEW f \in BatchJournals
  PROVE  LoadableBatch(f) <=>
           OrderOK /\ FieldsOK(f) /\ ReviewOK(f) /\ HistoryOK(f) /\ Told(f.history) = {f.tasks}
<1>1. f.tasks \in Seq(Facts) /\ DOMAIN f.tasks = 1 .. Len(f.tasks)
  BY DEF BatchJournals
<1>2. IsPrefix([k \in DOMAIN f.tasks |-> f.tasks[k].id], Order) <=>
           Len(f.tasks) <= Len(Order) /\ \A k \in 1 .. Len(f.tasks) : f.tasks[k].id = Order[k]
  BY <1>1, PrefixOfOrder
<1>3. QED
  BY <1>1, <1>2 DEF LoadableBatch, OrderOK, FieldsOK, ReviewOK, HistoryOK, OnSeed

-----------------------------------------------------------------------------
(* One line more in the journal of a batch *)

\* What was proved was proved since the last task.
Fresh(f) ==
  LET h == f.history IN
  /\ f.review # Nil => Since(h, "review", f.review)
  /\ f.final # Nil => Since(h, "final_local", f.final)
  /\ f.prHead # Nil => Since(h, "pr", f.prHead)
  /\ f.ci # Nil => Since(h, "ci", f.prHead)

\* A merge in the history is one of the facts.
MergeTold(f) == \A k \in DOMAIN f.history : f.history[k].event = "merge" => f.merge # Nil

\* The commits of a journal are in the repository.
Known(f) ==
  /\ {f.head, f.seed, f.review, f.final, f.prHead, f.ci, f.merge} \ {Nil} \subseteq Commits
  /\ \A k \in 1 .. Len(f.tasks) : f.tasks[k].head \in Commits

BatchOK(f) == f \in BatchJournals /\ Known(f) /\ Fresh(f) /\ MergeTold(f)

LEMMA EventsAre ==
  /\ DOMAIN Events = 1 .. 8
  /\ ToSet(Events) = {"preflight", "seed", "task", "review", "final_local", "pr", "ci", "merge"}
  /\ \A e \in ToSet(Events) : EventRank(e) \in Nat
<1>1. DOMAIN Events = 1 .. 8
  BY DEF Events
<1>2. ToSet(Events) = {Events[1], Events[2], Events[3], Events[4], Events[5], Events[6], Events[7], Events[8]}
  BY <1>1 DEF ToSet
<1>3. ToSet(Events) = {"preflight", "seed", "task", "review", "final_local", "pr", "ci", "merge"}
  BY <1>2 DEF Events
<1>4. ASSUME NEW e \in ToSet(Events) PROVE EventRank(e) \in Nat
  <2>1. \E k \in DOMAIN Events : Events[k] = e
    BY DEF ToSet
  <2>2. EventRank(e) \in DOMAIN Events
    BY <2>1 DEF EventRank
  <2>3. QED
    BY <1>1, <2>2
<1>5. QED
  BY <1>1, <1>3, <1>4

LEMMA SinceStays ==
  \A event, c : \A h \in Seq(Lines) : \A line \in Lines :
    line.event # "task" /\ Since(h, event, c) => Since(Append(h, line), event, c)
<1> SUFFICES ASSUME NEW event, NEW c, NEW h \in Seq(Lines), NEW line \in Lines,
                    line.event # "task", Since(h, event, c)
             PROVE  Since(Append(h, line), event, c)
  OBVIOUS
<1>1. PICK k \in DOMAIN h : h[k].event = event /\ h[k].head = c /\ \A j \in k + 1 .. Len(h) : h[j].event # "task"
  BY DEF Since
<1>2. PICK i : i = Append(h, line)
  OBVIOUS
<1>3. /\ Len(h) \in Nat /\ DOMAIN h = 1 .. Len(h) /\ DOMAIN i = 1 .. Len(h) + 1 /\ Len(i) = Len(h) + 1
      /\ i[Len(h) + 1] = line /\ \A j \in 1 .. Len(h) : i[j] = h[j]
  BY <1>2
<1>4. k \in DOMAIN i /\ i[k].event = event /\ i[k].head = c
  BY <1>1, <1>3
<1>5. ASSUME NEW j \in k + 1 .. Len(i) PROVE i[j].event # "task"
  BY <1>1, <1>3
<1>6. QED
  BY <1>2, <1>4, <1>5 DEF Since

LEMMA SinceNow ==
  \A h \in Seq(Lines) : \A line \in Lines : Since(Append(h, line), line.event, line.head)
<1> SUFFICES ASSUME NEW h \in Seq(Lines), NEW line \in Lines
             PROVE  Since(Append(h, line), line.event, line.head)
  OBVIOUS
<1>1. PICK i : i = Append(h, line)
  OBVIOUS
<1>2. Len(i) \in Nat /\ Len(i) \in DOMAIN i /\ i[Len(i)] = line
  BY <1>1
<1>3. ASSUME NEW j \in Len(i) + 1 .. Len(i) PROVE FALSE
  BY <1>2
<1>4. QED
  BY <1>1, <1>2, <1>3 DEF Since

Lengthened(g, line) ==
  [g EXCEPT !.head = HEAD,
            !.highest = IF EventRank(line.event) > EventRank(@) THEN line.event ELSE @,
            !.history = Append(@, line)]

\* A line more in the history.
LEMMA Logging ==
  ASSUME GitOK, NEW old \in BatchJournals, HistoryOK(old), MergeTold(old), old.merge = Nil,
         NEW g \in BatchJournals, g.history = old.history, g.highest = old.highest,
         NEW line \in Lines,
         NEW f, f = Lengthened(g, line)
  PROVE  /\ f \in BatchJournals /\ HistoryOK(f)
         /\ f.history = Append(old.history, line) /\ f.head = HEAD
         /\ f.seed = g.seed /\ f.tasks = g.tasks /\ f.review = g.review /\ f.final = g.final
         /\ f.prHead = g.prHead /\ f.ci = g.ci /\ f.merge = g.merge
         /\ (line.event = "merge" => f.merge # Nil) => MergeTold(f)
<1>1. HEAD \in Nat /\ line.event \in ToSet(Events) /\ old.highest \in ToSet(Events) /\ g.highest \in ToSet(Events)
  BY DEF GitOK, HEAD, Commits, Lines, BatchJournals
<1>2. old.history \in Seq(Lines) /\ g.history \in Seq(Lines)
  BY DEF BatchJournals
<1> DEFINE high == IF EventRank(line.event) > EventRank(g.highest) THEN line.event ELSE g.highest
           hist == Append(old.history, line)
<1>3. high \in ToSet(Events) /\ hist \in Seq(Lines)
  BY <1>1, <1>2
<1>4. /\ f.history = hist /\ f.head = HEAD /\ f.highest = high
      /\ f.seed = g.seed /\ f.tasks = g.tasks /\ f.review = g.review /\ f.final = g.final
      /\ f.prHead = g.prHead /\ f.ci = g.ci /\ f.merge = g.merge
  BY DEF BatchJournals, Lengthened
<1>5. f = [g EXCEPT !.head = HEAD, !.highest = high, !.history = hist]
  BY DEF BatchJournals, Lengthened
<1> HIDE DEF high
<1>6. f \in BatchJournals
  <2> HIDE DEF hist
  <2>1. QED
    BY <1>1, <1>3, <1>5 DEF BatchJournals
<1>7. PICK n \in Nat : n = Len(old.history)
  BY <1>2
<1>8. /\ DOMAIN old.history = 1 .. n /\ DOMAIN hist = 1 .. n + 1 /\ Len(hist) = n + 1 /\ hist # << >>
      /\ hist[n + 1] = line /\ \A k \in 1 .. n : hist[k] = old.history[k]
  BY <1>2, <1>7
<1>9. n # 0 /\ 1 \in 1 .. n /\ n + 1 \in 1 .. n + 1 /\ 1 .. n + 1 = 1 .. n \cup {n + 1} /\ (n + 1) - 1 = n
  BY <1>2, <1>7 DEF HistoryOK
<1>10. \A k \in 1 .. n : old.history[k].event # "merge"
  BY <1>8 DEF MergeTold
<1> HIDE DEF hist
<1>11. \E k \in DOMAIN hist : hist[k].event = high
  <2>1. PICK k \in 1 .. n : old.history[k].event = old.highest
    BY <1>8 DEF HistoryOK
  <2>2. QED
    BY <1>8, <1>9, <2>1 DEF high
<1>12. ASSUME NEW k \in DOMAIN hist PROVE EventRank(hist[k].event) <= EventRank(high)
  <2>1. EventRank(line.event) \in Nat /\ EventRank(old.highest) \in Nat /\ EventRank(g.highest) \in Nat
    BY <1>1, EventsAre
  <2>2. EventRank(line.event) <= EventRank(high) /\ EventRank(old.highest) <= EventRank(high) /\ EventRank(high) \in Nat
    BY <2>1 DEF high
  <2>3. CASE k \in 1 .. n
    <3>1. old.history[k].event \in ToSet(Events)
      <4>1. old.history[k] \in Lines
        BY <1>2, <1>8, <2>3
      <4>2. QED
        BY <4>1 DEF Lines
    <3>2. EventRank(old.history[k].event) \in Nat
      BY <3>1, EventsAre
    <3>3. EventRank(old.history[k].event) <= EventRank(old.highest)
      BY <1>8, <2>3 DEF HistoryOK
    <3>4. EventRank(old.history[k].event) <= EventRank(high)
      BY <2>1, <2>2, <3>2, <3>3
    <3>5. QED
      BY <1>8, <2>3, <3>4
  <2>4. CASE k = n + 1
    BY <1>8, <2>2, <2>4
  <2>5. QED
    BY <1>8, <1>9, <2>3, <2>4
<1>13. HistoryOK(f)
  <2>1. hist[1].event = "preflight"
    BY <1>8, <1>9 DEF HistoryOK
  <2>2. \A k \in 1 .. Len(hist) - 1 : hist[k].event # "merge"
    BY <1>8, <1>9, <1>10
  <2>3. QED
    BY <1>4, <1>8, <1>11, <1>12, <2>1, <2>2 DEF HistoryOK
<1>14. (line.event = "merge" => f.merge # Nil) => MergeTold(f)
  BY <1>4, <1>8, <1>9, <1>10 DEF MergeTold
<1>15. QED
  BY <1>4, <1>6, <1>13, <1>14 DEF hist

-----------------------------------------------------------------------------
(* Events *)

Line(event, task, count) == [event |-> event, head |-> HEAD, task |-> task, count |-> count]

\* f is what is written after old when the event brought about g.
Wrote(old, g, line, f) ==
  /\ f \in BatchJournals /\ HistoryOK(f)
  /\ f.history = Append(old.history, line) /\ f.head = HEAD
  /\ f.seed = g.seed /\ f.tasks = g.tasks /\ f.review = g.review /\ f.final = g.final
  /\ f.prHead = g.prHead /\ f.ci = g.ci /\ f.merge = g.merge
  /\ (line.event = "merge" => f.merge # Nil) => MergeTold(f)

\* An event says something of the facts, not of the history.
SaysOf(old, g) == g \in BatchJournals /\ g.history = old.history /\ g.highest = old.highest

\* What may be written on.
Ready(old) ==
  /\ mode = "batch" /\ GitOK /\ manifest \in Manifests /\ BatchOK(old)
  /\ OrderOK /\ FieldsOK(old) /\ ReviewOK(old) /\ HistoryOK(old) /\ Told(old.history) = {old.tasks}

LEMMA ReadyIs ==
  ASSUME mode = "batch", GitOK, manifest \in Manifests, NEW old, BatchOK(old), LoadableBatch(old)
  PROVE  Ready(old)
  BY LoadableParts DEF Ready, BatchOK

LEMMA LoggedIs ==
  ASSUME NEW old, Ready(old), NEW event \in ToSet(Events), NEW task \in Ids, NEW count \in Nat,
         NEW facts, \A g \in facts : SaysOf(old, g),
         NEW f \in Logged(old, event, task, count, facts)
  PROVE  /\ old.merge = Nil /\ (event = "merge" \/ branch = "implementation")
         /\ \E g \in facts : Wrote(old, g, Line(event, task, count), f)
<1>1. old.merge = Nil /\ (event = "merge" \/ branch = "implementation")
  BY DEF Logged
<1>2. PICK g \in facts :
        f = [g EXCEPT !.head = HEAD,
                      !.highest = IF EventRank(event) > EventRank(@) THEN event ELSE @,
                      !.history = Append(@, [event |-> event, head |-> HEAD, task |-> task, count |-> count])]
  <2>1. CASE event = "merge" \/ branch = "implementation"
    BY <1>1, <2>1 DEF Logged
  <2>2. QED
    BY <1>1, <2>1
<1>3. HEAD \in Nat
  BY DEF GitOK, HEAD, Commits, Ready
<1>4. PICK line \in Lines : line = Line(event, task, count)
  BY <1>3 DEF Line, Lines
<1>5. line.event = event /\ line = [event |-> event, head |-> HEAD, task |-> task, count |-> count]
  BY <1>4 DEF Line
<1>6. f = Lengthened(g, line)
  BY <1>2, <1>5 DEF Lengthened
<1>7. GitOK /\ old \in BatchJournals /\ HistoryOK(old) /\ MergeTold(old)
  BY DEF Ready, BatchOK
<1>8. g \in BatchJournals /\ g.history = old.history /\ g.highest = old.highest
  BY DEF SaysOf
<1>9. Wrote(old, g, line, f)
  BY <1>1, <1>6, <1>7, <1>8, Logging DEF Wrote
<1>10. QED
  BY <1>1, <1>4, <1>9

Keeps(old, f) == \A event, c : Since(old.history, event, c) => Since(f.history, event, c)

\* What holds of the next journal, whatever the event.
LEMMA WroteIs ==
  ASSUME NEW old, Ready(old), NEW g, NEW event \in ToSet(Events), NEW task \in Ids, NEW count \in Nat,
         NEW f, Wrote(old, g, Line(event, task, count), f)
  PROVE  /\ f \in BatchJournals
         /\ Told(f.history) = Replay(old.tasks, Line(event, task, count))
         /\ event # "task" => Keeps(old, f)
         /\ Since(f.history, event, HEAD)
         /\ event # "merge" => MergeTold(f)
         /\ HEAD \in Commits /\ HEAD \in Nat /\ HEAD # Nil
<1>1. HEAD \in Nat /\ HEAD \in Commits
  BY DEF GitOK, HEAD, Commits, Ready
<1>2. PICK line \in Lines : line = Line(event, task, count)
  BY <1>1 DEF Line, Lines
<1>3. line.event = event /\ line.head = HEAD
  BY <1>2 DEF Line
<1>4. PICK h \in Seq(Lines) : h = old.history
  BY DEF Ready, BatchOK, BatchJournals
<1>5. f.history = Append(h, line)
  BY <1>2, <1>4 DEF Wrote
<1>6. Told(f.history) = Replay(old.tasks, line)
  <2>1. Told(f.history) = More({old.tasks}, line)
    BY <1>4, <1>5, ToldOfOneMore DEF Ready
  <2>2. QED
    BY <2>1 DEF More
<1>7. event # "task" => Keeps(old, f)
  BY <1>3, <1>4, <1>5, SinceStays DEF Keeps
<1>8. Since(f.history, event, HEAD)
  BY <1>3, <1>5, SinceNow
<1>9. QED
  BY <1>1, <1>2, <1>3, <1>4, <1>6, <1>7, <1>8, ConstantsAssumption DEF Wrote

\* What is shown of each event: the next journal may be read, or the branch was
\* reset below the seed.
Good(f) == BatchOK(f) /\ (LoadableBatch(f) \/ OffSeed(f))

\* An event that is no task leaves the tasks, and what they stand on.
LEMMA NotATask ==
  ASSUME NEW old, Ready(old), NEW g, NEW event \in ToSet(Events) \ {"task"}, NEW task \in Ids, NEW count \in Nat,
         NEW f, Wrote(old, g, Line(event, task, count), f), g.tasks = old.tasks
  PROVE  Told(f.history) = {f.tasks}
<1>1. Replay(old.tasks, Line(event, task, count)) = {old.tasks}
  BY DEF Replay, Line
<1>2. Told(f.history) = Replay(old.tasks, Line(event, task, count))
  BY WroteIs
<1>3. f.tasks = g.tasks
  BY DEF Wrote
<1>4. QED
  BY <1>1, <1>2, <1>3

\* The seed is a commit on the start, so whatever stands on it knows it.
LEMMA SeedGood ==
  ASSUME NEW old, Ready(old), NEW f \in Logged(old, "seed", Nil, 0, Seeded(old))
  PROVE  Good(f)
<1>1. ASSUME NEW g \in Seeded(old)
      PROVE  /\ SaysOf(old, g) /\ old.seed = Nil /\ g.seed \in Commits /\ commits[g.seed].anc = {Start, g.seed}
             /\ g.tasks = old.tasks /\ g.review = old.review /\ g.final = old.final
             /\ g.prHead = old.prHead /\ g.ci = old.ci /\ g.merge = old.merge
  <2>1. PICK s \in Commits : g = [old EXCEPT !.seed = s] /\ old.seed = Nil /\ SeedVerified(s, s # HEAD)
    BY DEF Seeded
  <2>2. s \in Nat
    BY DEF Commits
  <2>3. QED
    BY <2>1, <2>2 DEF SaysOf, Ready, BatchOK, BatchJournals, SeedVerified
<1>2. "seed" \in ToSet(Events) \ {"task"} /\ Nil \in Ids /\ 0 \in Nat
  BY EventsAre DEF Ids
<1>3. PICK g \in Seeded(old) : Wrote(old, g, Line("seed", Nil, 0), f) /\ old.merge = Nil
  BY <1>1, <1>2, LoggedIs
<1>4. Told(f.history) = {f.tasks}
  BY <1>1, <1>2, <1>3, NotATask
<1>5. f \in BatchJournals /\ MergeTold(f) /\ HEAD \in Commits /\ Keeps(old, f)
  BY <1>2, <1>3, WroteIs
<1>6. FieldsOK(f) /\ ReviewOK(f)
  BY <1>1, <1>3 DEF Wrote, Ready, FieldsOK, ReviewOK, OnSeed, BatchOK, BatchJournals
<1>7. Fresh(f)
  BY <1>1, <1>3, <1>5 DEF Wrote, Ready, BatchOK, Fresh, Keeps
<1>8. Known(f)
  BY <1>1, <1>3, <1>5 DEF Wrote, Ready, BatchOK, Known
<1>9. LoadableBatch(f)
  BY <1>3, <1>4, <1>5, <1>6, LoadableParts DEF Wrote, Ready
<1>10. QED
  BY <1>5, <1>7, <1>8, <1>9 DEF Good, BatchOK

\* Most events leave the tasks and the seed, and log something else than a task.
LEMMA QuietGood ==
  ASSUME NEW old, Ready(old), NEW event \in {"review", "final_local", "pr", "ci", "merge"}, NEW g,
         SaysOf(old, g), g.seed = old.seed, g.tasks = old.tasks,
         NEW f, Wrote(old, g, Line(event, Nil, 0), f)
  PROVE  /\ f \in BatchJournals /\ HEAD \in Commits /\ HEAD # Nil /\ Keeps(old, f) /\ Since(f.history, event, HEAD)
         /\ event # "merge" => MergeTold(f)
         /\ FieldsOK(f) /\ ReviewOK(f) => LoadableBatch(f)
<1>1. event \in ToSet(Events) \ {"task"} /\ event \in ToSet(Events) /\ Nil \in Ids /\ 0 \in Nat
  BY EventsAre DEF Ids
<1>2. Told(f.history) = {f.tasks}
  BY <1>1, NotATask
<1>3. /\ f \in BatchJournals /\ HEAD \in Commits /\ HEAD # Nil /\ Keeps(old, f) /\ Since(f.history, event, HEAD)
      /\ event # "merge" => MergeTold(f)
  BY <1>1, WroteIs
<1>4. HistoryOK(f) /\ OrderOK /\ manifest \in Manifests
  BY DEF Wrote, Ready
<1>5. QED
  BY <1>2, <1>3, <1>4, LoadableParts

\* A review comes after the last task; nothing else was proved yet.
LEMMA ReviewGood ==
  ASSUME NEW old, Ready(old), NEW f \in Logged(old, "review", Nil, 0, Reviewed(old))
  PROVE  Good(f)
<1>0. HEAD \in Nat
  BY DEF GitOK, HEAD, Commits, Ready
<1>1. ASSUME NEW g \in Reviewed(old)
      PROVE  /\ SaysOf(old, g) /\ Len(old.tasks) = Len(Order) /\ old.review = Nil
             /\ g.tasks = old.tasks /\ g.seed = old.seed /\ g.review = HEAD /\ g.final = old.final
             /\ g.prHead = old.prHead /\ g.ci = old.ci /\ g.merge = old.merge
  BY <1>0 DEF Reviewed, SaysOf, Ready, BatchOK, BatchJournals
<1>2. "review" \in ToSet(Events) /\ Nil \in Ids /\ 0 \in Nat
  BY EventsAre DEF Ids
<1>3. PICK g \in Reviewed(old) : Wrote(old, g, Line("review", Nil, 0), f) /\ old.merge = Nil
  BY <1>1, <1>2, LoggedIs
<1>4. SaysOf(old, g) /\ g.seed = old.seed /\ g.tasks = old.tasks
  BY <1>1
<1>5. /\ f \in BatchJournals /\ HEAD \in Commits /\ HEAD # Nil /\ Keeps(old, f) /\ Since(f.history, "review", HEAD)
      /\ MergeTold(f)
      /\ FieldsOK(f) /\ ReviewOK(f) => LoadableBatch(f)
  BY <1>3, <1>4, QuietGood
<1>6. FieldsOK(f)
  BY <1>1, <1>3, <1>5 DEF Wrote, Ready, FieldsOK, OnSeed
<1>7. old.final = Nil /\ old.prHead = Nil /\ old.ci = Nil
  BY <1>1 DEF Ready, FieldsOK
<1>8. Fresh(f)
  BY <1>1, <1>3, <1>5, <1>7 DEF Wrote, Fresh
<1>9. Known(f)
  BY <1>1, <1>3, <1>5 DEF Wrote, Ready, BatchOK, Known
<1>10. ReviewOK(f) \/ OffSeed(f)
  <2>1. CASE Ancestor(old.seed, HEAD)
    BY <2>1, <1>1, <1>3, <1>5, <1>7 DEF Wrote, ReviewOK, OnSeed, Ancestor
  <2>2. CASE ~ Ancestor(old.seed, HEAD)
    <3>1. PICK h \in Seq(Lines) : h = old.history
      BY DEF Ready, BatchOK, BatchJournals
    <3>2. HEAD \in Nat /\ Line("review", Nil, 0) \in Lines
      BY <1>2, <1>5 DEF GitOK, Line, Lines, Commits
    <3>3. Last(f.history).event = "review"
      BY <3>1, <3>2, <1>3 DEF Wrote, Last, Line
    <3>4. QED
      BY <2>2, <3>3, <1>1, <1>3 DEF OffSeed, Wrote, Ready
  <2>3. QED
    BY <2>1, <2>2
<1>11. QED
  BY <1>5, <1>6, <1>8, <1>9, <1>10 DEF Good, BatchOK

\* The local verification comes after the review.
LEMMA FinalGood ==
  ASSUME NEW old, Ready(old), NEW f \in Logged(old, "final_local", Nil, 0, FinalLocal(old))
  PROVE  Good(f)
<1>0. HEAD \in Nat
  BY DEF GitOK, HEAD, Commits, Ready
<1>1. ASSUME NEW g \in FinalLocal(old)
      PROVE  /\ SaysOf(old, g) /\ old.review # Nil /\ old.final = Nil
             /\ g.tasks = old.tasks /\ g.seed = old.seed /\ g.review = old.review /\ g.final = HEAD
             /\ g.prHead = old.prHead /\ g.ci = old.ci /\ g.merge = old.merge
  BY <1>0 DEF FinalLocal, SaysOf, Ready, BatchOK, BatchJournals
<1>2. "final_local" \in ToSet(Events) /\ Nil \in Ids /\ 0 \in Nat
  BY EventsAre DEF Ids
<1>3. PICK g \in FinalLocal(old) : Wrote(old, g, Line("final_local", Nil, 0), f) /\ old.merge = Nil
  BY <1>1, <1>2, LoggedIs
<1>4. SaysOf(old, g) /\ g.seed = old.seed /\ g.tasks = old.tasks
  BY <1>1
<1>5. /\ f \in BatchJournals /\ HEAD \in Commits /\ HEAD # Nil /\ Keeps(old, f) /\ Since(f.history, "final_local", HEAD)
      /\ MergeTold(f)
      /\ FieldsOK(f) /\ ReviewOK(f) => LoadableBatch(f)
  BY <1>3, <1>4, QuietGood
<1>7. old.prHead = Nil /\ old.ci = Nil
  BY <1>1 DEF Ready, FieldsOK
<1>6. FieldsOK(f)
  BY <1>1, <1>3, <1>5, <1>7 DEF Wrote, Ready, FieldsOK, OnSeed
<1>8. Fresh(f)
  BY <1>1, <1>3, <1>5, <1>7 DEF Wrote, Fresh, Ready, BatchOK, Keeps
<1>9. Known(f)
  BY <1>1, <1>3, <1>5 DEF Wrote, Ready, BatchOK, Known
<1>10. ReviewOK(f) \/ OffSeed(f)
  <2>1. CASE Ancestor(old.seed, HEAD)
    BY <2>1, <1>1, <1>3, <1>5, <1>7 DEF Wrote, ReviewOK, OnSeed, Ancestor, Ready
  <2>2. CASE ~ Ancestor(old.seed, HEAD)
    <3>1. PICK h \in Seq(Lines) : h = old.history
      BY DEF Ready, BatchOK, BatchJournals
    <3>2. HEAD \in Nat /\ Line("final_local", Nil, 0) \in Lines
      BY <1>2, <1>5 DEF GitOK, Line, Lines, Commits
    <3>3. Last(f.history).event = "final_local"
      BY <3>1, <3>2, <1>3 DEF Wrote, Last, Line
    <3>4. QED
      BY <2>2, <3>3, <1>1, <1>3 DEF OffSeed, Wrote, Ready
  <2>3. QED
    BY <2>1, <2>2
<1>11. QED
  BY <1>5, <1>6, <1>8, <1>9, <1>10 DEF Good, BatchOK

\* A PR is of the commit that was verified locally.
LEMMA PrGood ==
  ASSUME NEW old, Ready(old), NEW f \in Logged(old, "pr", Nil, 0, PrOpened(old))
  PROVE  Good(f)
<1>0. HEAD \in Nat
  BY DEF GitOK, HEAD, Commits, Ready
<1>1. ASSUME NEW g \in PrOpened(old)
      PROVE  /\ SaysOf(old, g) /\ old.final = HEAD /\ old.prHead = Nil
             /\ g.tasks = old.tasks /\ g.seed = old.seed /\ g.review = old.review /\ g.final = old.final
             /\ g.prHead = HEAD /\ g.ci = Nil /\ g.merge = Nil
  BY <1>0 DEF PrOpened, SaysOf, Ready, BatchOK, BatchJournals
<1>2. "pr" \in ToSet(Events) /\ Nil \in Ids /\ 0 \in Nat
  BY EventsAre DEF Ids
<1>3. PICK g \in PrOpened(old) : Wrote(old, g, Line("pr", Nil, 0), f) /\ old.merge = Nil
  BY <1>1, <1>2, LoggedIs
<1>4. SaysOf(old, g) /\ g.seed = old.seed /\ g.tasks = old.tasks
  BY <1>1
<1>5. /\ f \in BatchJournals /\ HEAD \in Commits /\ HEAD # Nil /\ Keeps(old, f) /\ Since(f.history, "pr", HEAD)
      /\ MergeTold(f)
      /\ FieldsOK(f) /\ ReviewOK(f) => LoadableBatch(f)
  BY <1>3, <1>4, QuietGood
<1>6. FieldsOK(f) /\ ReviewOK(f)
  BY <1>1, <1>3, <1>5, SMTT(30) DEF Wrote, Ready, FieldsOK, ReviewOK, OnSeed
<1>8. Fresh(f)
  BY <1>1, <1>3, <1>5 DEF Wrote, Fresh, Ready, BatchOK, Keeps
<1>9. Known(f)
  BY <1>1, <1>3, <1>5 DEF Wrote, Ready, BatchOK, Known
<1>10. QED
  BY <1>5, <1>6, <1>8, <1>9 DEF Good, BatchOK

\* CI is of the commit of the PR.
LEMMA CiGood ==
  ASSUME NEW old, Ready(old), NEW f \in Logged(old, "ci", Nil, 0, CiGreen(old))
  PROVE  Good(f)
<1>0. HEAD \in Nat
  BY DEF GitOK, HEAD, Commits, Ready
<1>1. ASSUME NEW g \in CiGreen(old)
      PROVE  /\ SaysOf(old, g) /\ old.ci = Nil /\ old.prHead = HEAD
             /\ g.tasks = old.tasks /\ g.seed = old.seed /\ g.review = old.review /\ g.final = old.final
             /\ g.prHead = old.prHead /\ g.ci = HEAD /\ g.merge = old.merge
  BY <1>0 DEF CiGreen, SaysOf, Ready, BatchOK, BatchJournals
<1>2. "ci" \in ToSet(Events) /\ Nil \in Ids /\ 0 \in Nat
  BY EventsAre DEF Ids
<1>3. PICK g \in CiGreen(old) : Wrote(old, g, Line("ci", Nil, 0), f) /\ old.merge = Nil
  BY <1>1, <1>2, LoggedIs
<1>4. SaysOf(old, g) /\ g.seed = old.seed /\ g.tasks = old.tasks
  BY <1>1
<1>5. /\ f \in BatchJournals /\ HEAD \in Commits /\ HEAD # Nil /\ Keeps(old, f) /\ Since(f.history, "ci", HEAD)
      /\ MergeTold(f)
      /\ FieldsOK(f) /\ ReviewOK(f) => LoadableBatch(f)
  BY <1>3, <1>4, QuietGood
<1>6. FieldsOK(f) /\ ReviewOK(f)
  BY <1>1, <1>3, <1>5 DEF Wrote, Ready, FieldsOK, ReviewOK, OnSeed
<1>8. Fresh(f)
  BY <1>1, <1>3, <1>5 DEF Wrote, Fresh, Ready, BatchOK, Keeps
<1>9. Known(f)
  BY <1>1, <1>3, <1>5 DEF Wrote, Ready, BatchOK, Known
<1>10. QED
  BY <1>5, <1>6, <1>8, <1>9 DEF Good, BatchOK

\* CI is of the commit of the PR, if neither is nothing, and the merge has it.
LEMMA MergeGood ==
  ASSUME NEW old, Ready(old), NEW f \in Logged(old, "merge", Nil, 0, Merged(old))
  PROVE  Good(f)
<1>0. HEAD \in Nat
  BY DEF GitOK, HEAD, Commits, Ready
<1>1. ASSUME NEW g \in Merged(old)
      PROVE  /\ SaysOf(old, g) /\ old.ci = old.prHead /\ Ancestor(old.ci, HEAD)
             /\ g.tasks = old.tasks /\ g.seed = old.seed /\ g.review = old.review /\ g.final = old.final
             /\ g.prHead = old.prHead /\ g.ci = old.ci /\ g.merge = HEAD
  BY <1>0 DEF Merged, SaysOf, Ready, BatchOK, BatchJournals
<1>2. "merge" \in ToSet(Events) /\ Nil \in Ids /\ 0 \in Nat
  BY EventsAre DEF Ids
<1>3. PICK g \in Merged(old) : Wrote(old, g, Line("merge", Nil, 0), f) /\ old.merge = Nil
  BY <1>1, <1>2, LoggedIs
<1>4. SaysOf(old, g) /\ g.seed = old.seed /\ g.tasks = old.tasks
  BY <1>1
<1>5. /\ f \in BatchJournals /\ HEAD \in Commits /\ HEAD # Nil /\ Keeps(old, f)
      /\ FieldsOK(f) /\ ReviewOK(f) => LoadableBatch(f)
  BY <1>3, <1>4, QuietGood
<1>6. FieldsOK(f) /\ ReviewOK(f)
  <2>1. /\ f.tasks = old.tasks /\ f.seed = old.seed /\ f.review = old.review /\ f.final = old.final
        /\ f.prHead = old.prHead /\ f.ci = old.ci /\ f.merge = HEAD
    BY <1>1, <1>3 DEF Wrote
  <2>2. f.ci # Nil /\ Ancestor(f.ci, f.merge)
    BY <1>1, <2>1 DEF Ancestor
  <2>3. QED
    BY <2>1, <2>2 DEF Ready, FieldsOK, ReviewOK, OnSeed
<1>7. MergeTold(f)
  BY <1>1, <1>3, <1>5 DEF Wrote, Line
<1>8. Fresh(f)
  BY <1>1, <1>3, <1>5 DEF Wrote, Fresh, Ready, BatchOK, Keeps
<1>9. Known(f)
  BY <1>1, <1>3, <1>5 DEF Wrote, Ready, BatchOK, Known
<1>10. QED
  BY <1>5, <1>6, <1>7, <1>8, <1>9 DEF Good, BatchOK

\* With a task to come nothing was proved yet.
LEMMA TaskGood ==
  ASSUME NEW old, Ready(old), NEW t \in ToSet(Order), NEW f \in Logged(old, "task", t, 0, TaskDone(old, t))
  PROVE  Good(f)
<1>0. HEAD \in Nat /\ Len(Order) \in Nat
  BY OrderIsSeq DEF GitOK, HEAD, Commits, Ready
<1> DEFINE fact == [id |-> t, head |-> HEAD, count |-> 0]
<1>f. fact \in Facts /\ fact.id = t /\ fact.head = HEAD
  BY <1>0 DEF Facts, Ids
<1>n. PICK n \in Nat : n = Len(old.tasks) /\ old.tasks \in Seq(Facts) /\ DOMAIN old.tasks = 1 .. n
  BY DEF Ready, BatchOK, BatchJournals
<1>a. /\ Append(old.tasks, fact) \in Seq(Facts) /\ Len(Append(old.tasks, fact)) = n + 1
      /\ Append(old.tasks, fact)[n + 1] = fact /\ \A k \in 1 .. n : Append(old.tasks, fact)[k] = old.tasks[k]
  <2> HIDE DEF fact
  <2>1. QED
    BY <1>f, <1>n
<1>1. ASSUME NEW g \in TaskDone(old, t)
      PROVE  /\ SaysOf(old, g) /\ old.seed # Nil /\ Ancestor(old.seed, HEAD)
             /\ n < Len(Order) /\ t = Order[n + 1]
             /\ g.tasks = Append(old.tasks, fact) /\ g.seed = old.seed /\ g.review = old.review /\ g.final = old.final
             /\ g.prHead = old.prHead /\ g.ci = old.ci /\ g.merge = old.merge
  <2>1. /\ old.seed # Nil /\ Ancestor(old.seed, HEAD) /\ n < Len(Order) /\ t = Order[n + 1]
        /\ g = [old EXCEPT !.tasks = Append(old.tasks, fact)]
    BY <1>n DEF TaskDone
  <2> HIDE DEF fact
  <2>2. QED
    BY <2>1, <1>a DEF SaysOf, Ready, BatchOK, BatchJournals
<1>2. "task" \in ToSet(Events) /\ t \in Ids /\ 0 \in Nat
  BY EventsAre DEF Ids
<1>3. PICK g \in TaskDone(old, t) : Wrote(old, g, Line("task", t, 0), f) /\ old.merge = Nil
  BY <1>1, <1>2, LoggedIs
<1>4. f \in BatchJournals /\ MergeTold(f) /\ HEAD \in Commits /\ HEAD # Nil
  BY <1>2, <1>3, WroteIs
<1>5. Told(f.history) = {f.tasks}
  <2>1. Told(f.history) = Replay(old.tasks, Line("task", t, 0))
    BY <1>2, <1>3, WroteIs
  <2>3. Replay(old.tasks, Line("task", t, 0)) = {Append(old.tasks, fact)}
    BY <1>1, <1>3, <1>n DEF Replay, Line
  <2>4. QED
    BY <2>1, <2>3, <1>1, <1>3 DEF Wrote
<1>6. old.review = Nil /\ old.final = Nil /\ old.prHead = Nil /\ old.ci = Nil
  BY <1>1, <1>3, <1>n, <1>0 DEF Ready, FieldsOK
<1>7. f.tasks = Append(old.tasks, fact) /\ f.seed = old.seed
      /\ f.review = Nil /\ f.final = Nil /\ f.prHead = Nil /\ f.ci = Nil /\ f.merge = Nil /\ f.head = HEAD
  BY <1>1, <1>3, <1>6 DEF Wrote
<1>8. \A k \in 1 .. n + 1 : k \in 1 .. n \/ k = n + 1
  OBVIOUS
<1> HIDE DEF fact
<1>9. FieldsOK(f) /\ ReviewOK(f)
  <2>1. Len(f.tasks) = n + 1 /\ n + 1 <= Len(Order)
    BY <1>0, <1>1, <1>3, <1>7, <1>a
  <2>2. \A k \in 1 .. n + 1 : f.tasks[k].id = Order[k] /\ OnSeed(f, f.tasks[k].head)
    BY <1>1, <1>3, <1>7, <1>8, <1>a, <1>f, <1>n DEF Ready, FieldsOK, OnSeed
  <2>3. QED
    BY <2>1, <2>2, <1>7 DEF Ready, FieldsOK, ReviewOK
<1>10. Fresh(f)
  BY <1>7 DEF Fresh
<1>11. Known(f)
  <2>1. \A k \in 1 .. n + 1 : f.tasks[k].head \in Commits
    BY <1>4, <1>7, <1>8, <1>a, <1>f, <1>n DEF Ready, BatchOK, Known
  <2>2. Len(f.tasks) = n + 1
    BY <1>7, <1>a
  <2>3. QED
    BY <2>1, <2>2, <1>4, <1>7 DEF Ready, BatchOK, Known
<1>12. LoadableBatch(f)
  BY <1>3, <1>4, <1>5, <1>9, LoadableParts DEF Wrote, Ready
<1>13. QED
  BY <1>4, <1>10, <1>11, <1>12 DEF Good, BatchOK

\* A correction voids what was proved.
LEMMA CorrectionGood ==
  ASSUME NEW old, Ready(old), NEW t \in ToSet(Order), NEW m \in Nat,
         NEW f \in Logged(old, "task", t, m, Corrected(old, t, m))
  PROVE  Good(f)
<1>0. HEAD \in Nat
  BY DEF GitOK, HEAD, Commits, Ready
<1> DEFINE fact == [id |-> t, head |-> HEAD, count |-> m]
<1>f. fact \in Facts /\ fact.id = t /\ fact.head = HEAD
  BY <1>0 DEF Facts, Ids
<1>n. PICK n \in Nat : n = Len(old.tasks) /\ old.tasks \in Seq(Facts) /\ DOMAIN old.tasks = 1 .. n
  BY DEF Ready, BatchOK, BatchJournals
<1>c. ASSUME MayCorrect(old, t, m)
      PROVE  /\ old.seed # Nil /\ Ancestor(old.seed, HEAD) /\ n \in 1 .. n
             /\ t = old.tasks[n].id /\ m = old.tasks[n].count + 1 /\ old.tasks[n] \in Facts
  <2>1. old.seed # Nil /\ Ancestor(old.seed, HEAD) /\ old.tasks # << >>
        /\ t = old.tasks[n].id /\ m = old.tasks[n].count + 1
    BY <1>c, <1>n DEF MayCorrect, Last
  <2>2. n \in 1 .. n
    BY <2>1, <1>n
  <2>3. QED
    BY <2>1, <2>2, <1>n
<1>a. ASSUME MayCorrect(old, t, m)
      PROVE  /\ [old.tasks EXCEPT ![n] = fact] \in Seq(Facts) /\ Len([old.tasks EXCEPT ![n] = fact]) = n
             /\ [old.tasks EXCEPT ![n] = fact][n] = fact
             /\ \A k \in 1 .. n : k # n => [old.tasks EXCEPT ![n] = fact][k] = old.tasks[k]
  <2> HIDE DEF fact
  <2>1. QED
    BY <1>a, <1>c, <1>f, <1>n
<1>1. ASSUME NEW g \in Corrected(old, t, m)
      PROVE  /\ SaysOf(old, g) /\ MayCorrect(old, t, m)
             /\ g.tasks = [old.tasks EXCEPT ![n] = fact] /\ g.seed = old.seed /\ g.review = Nil /\ g.final = Nil
             /\ g.prHead = Nil /\ g.ci = Nil /\ g.merge = Nil
  <2>1. MayCorrect(old, t, m)
    BY DEF Corrected
  <2>2. g = [old EXCEPT !.tasks = [old.tasks EXCEPT ![n] = fact],
                        !.review = Nil, !.final = Nil, !.prHead = Nil, !.ci = Nil, !.merge = Nil]
    BY <2>1, <1>n DEF Corrected, Ready, BatchOK, BatchJournals
  <2> DEFINE tasks == [old.tasks EXCEPT ![n] = fact]
  <2>3. tasks \in Seq(Facts)
    BY <2>1, <1>a
  <2> HIDE DEF fact, tasks
  <2>4. g = [old EXCEPT !.tasks = tasks,
                        !.review = Nil, !.final = Nil, !.prHead = Nil, !.ci = Nil, !.merge = Nil]
    BY <2>2 DEF tasks
  <2>5. g \in BatchJournals
    BY <2>3, <2>4 DEF Ready, BatchOK, BatchJournals
  <2>6. /\ g.tasks = tasks /\ g.seed = old.seed /\ g.review = Nil /\ g.final = Nil
        /\ g.prHead = Nil /\ g.ci = Nil /\ g.merge = Nil /\ g.history = old.history /\ g.highest = old.highest
    BY <2>4 DEF Ready, BatchOK, BatchJournals
  <2>7. QED
    BY <2>1, <2>5, <2>6 DEF SaysOf, tasks
<1>2. "task" \in ToSet(Events) /\ t \in Ids /\ m \in Nat
  BY EventsAre DEF Ids
<1>3. PICK g \in Corrected(old, t, m) : Wrote(old, g, Line("task", t, m), f) /\ old.merge = Nil
  BY <1>1, <1>2, LoggedIs
<1>4. f \in BatchJournals /\ MergeTold(f) /\ HEAD \in Commits /\ HEAD # Nil
  BY <1>2, <1>3, WroteIs
<1>d. MayCorrect(old, t, m)
  BY <1>1
<1>5. Told(f.history) = {f.tasks}
  <2>1. Told(f.history) = Replay(old.tasks, Line("task", t, m))
    BY <1>2, <1>3, WroteIs
  <2>2. m # 0 /\ old.tasks # << >>
    BY <1>c, <1>d, <1>n DEF Facts
  <2>3. Replay(old.tasks, Line("task", t, m)) = {[old.tasks EXCEPT ![n] = fact]}
    BY <2>2, <1>c, <1>d, <1>n DEF Replay, Line, Last
  <2>4. QED
    BY <2>1, <2>3, <1>1, <1>3 DEF Wrote
<1>7. f.tasks = [old.tasks EXCEPT ![n] = fact] /\ f.seed = old.seed
      /\ f.review = Nil /\ f.final = Nil /\ f.prHead = Nil /\ f.ci = Nil /\ f.merge = Nil /\ f.head = HEAD
  BY <1>1, <1>3 DEF Wrote
<1>8. /\ Len(f.tasks) = n /\ f.tasks[n].id = t /\ f.tasks[n].head = HEAD
      /\ \A k \in 1 .. n : k # n => f.tasks[k] = old.tasks[k]
  BY <1>7, <1>a, <1>d, <1>f
<1> HIDE DEF fact
<1>9. FieldsOK(f) /\ ReviewOK(f)
  <2>1. \A k \in 1 .. n : f.tasks[k].id = Order[k] /\ OnSeed(f, f.tasks[k].head)
    BY <1>7, <1>8, <1>c, <1>d, <1>n DEF Ready, FieldsOK, OnSeed
  <2>2. n <= Len(Order) /\ (old.seed # Nil => commits[old.seed].anc = {Start, old.seed})
    BY <1>n DEF Ready, FieldsOK
  <2>3. QED
    BY <2>1, <2>2, <1>7, <1>8 DEF FieldsOK, ReviewOK
<1>10. Fresh(f)
  BY <1>7 DEF Fresh
<1>11. Known(f)
  <2>1. \A k \in 1 .. n : f.tasks[k].head \in Commits
    BY <1>4, <1>8, <1>n DEF Ready, BatchOK, Known
  <2>2. QED
    BY <2>1, <1>4, <1>7, <1>8 DEF Ready, BatchOK, Known
<1>12. LoadableBatch(f)
  BY <1>3, <1>4, <1>5, <1>9, LoadableParts DEF Wrote, Ready
<1>13. QED
  BY <1>4, <1>10, <1>11, <1>12 DEF Good, BatchOK

\* The first line.
LEMMA PreflightGood ==
  ASSUME GitOK, manifest \in Manifests, OrderOK, NEW f \in Preflight
  PROVE  Good(f)
<1> DEFINE line == Line("preflight", Nil, 0)
<1>1. HEAD = Start /\ HEAD \in Nat /\ HEAD \in Commits /\ branch \in Branches
  BY DEF GitOK, HEAD, Commits, Preflight
<1>2. line \in Lines /\ line.event = "preflight"
  BY <1>1, EventsAre DEF Line, Lines, Ids
<1>3. PICK empty \in Seq(Facts) : empty = << >>
  <2>1. << >> \in Seq(Facts)
    OBVIOUS
  <2>2. QED
    BY <2>1
<1>4. PICK hist \in Seq(Lines) : hist = <<line>>
  <2> HIDE DEF line
  <2>1. <<line>> \in Seq(Lines)
    BY <1>2
  <2>2. QED
    BY <2>1
<1>5. PICK high \in ToSet(Events) : high = "preflight"
  BY EventsAre
<1>6. f = [head |-> HEAD, at |-> branch, highest |-> high, seed |-> Nil, tasks |-> empty,
           review |-> Nil, final |-> Nil, prHead |-> Nil, ci |-> Nil, merge |-> Nil, history |-> hist]
  BY <1>1, <1>3, <1>4, <1>5 DEF Preflight, Line
<1>7. f \in BatchJournals
  BY <1>1, <1>6 DEF BatchJournals
<1>8. /\ f.head = HEAD /\ f.highest = high /\ f.seed = Nil /\ f.tasks = empty /\ f.review = Nil
      /\ f.final = Nil /\ f.prHead = Nil /\ f.ci = Nil /\ f.merge = Nil /\ f.history = hist
  BY <1>6
<1>9. Len(hist) = 1 /\ hist[1] = line /\ DOMAIN hist = {1} /\ hist # << >> /\ Len(empty) = 0
  BY <1>3, <1>4
<1>10. Told(hist) = {empty}
  <2>1. PICK none \in Seq(Lines) : none = << >>
    <3>1. << >> \in Seq(Lines)
      OBVIOUS
    <3>2. QED
      BY <3>1
  <2>2. hist = Append(none, line)
    BY <1>4, <2>1
  <2>3. Told(hist) = More(Told(none), line)
    BY <1>2, <2>1, <2>2, ToldOfOneMore
  <2>4. Replay(<< >>, line) = {<< >>}
    BY <1>2 DEF Replay
  <2>5. QED
    BY <1>3, <2>1, <2>3, <2>4, ToldOfNothing DEF More
<1>11. EventRank(high) \in Nat
  BY EventsAre
<1> HIDE DEF line
<1>12. HistoryOK(f)
  BY <1>2, <1>5, <1>8, <1>9, <1>11 DEF HistoryOK
<1>13. FieldsOK(f) /\ ReviewOK(f)
  <2>1. Len(Order) \in Nat /\ 0 <= Len(Order)
    BY OrderIsSeq
  <2>2. QED
    BY <2>1, <1>8, <1>9 DEF FieldsOK, ReviewOK
<1>14. Fresh(f) /\ MergeTold(f) /\ Known(f)
  BY <1>1, <1>2, <1>8, <1>9 DEF Fresh, MergeTold, Known
<1>15. QED
  BY <1>7, <1>8, <1>10, <1>12, <1>13, <1>14, LoadableParts DEF Good, BatchOK

\* All events.
LEMMA BatchWritesOK ==
  ASSUME mode \in Modes, mode = "batch", GitOK, manifest \in Manifests,
         NEW old, old # Nil => BatchOK(old) /\ LoadableBatch(old),
         NEW f \in BatchWrites(old)
  PROVE  Parsed(manifest) /\ Good(f)
<1>1. Parsed(manifest)
  BY DEF BatchWrites
<1>2. OrderOK
  <2>1. manifest.ordered # << >> /\ DOMAIN Order = DOMAIN manifest.ordered /\ IsInjective(Order)
    BY <1>1 DEF Parsed, Order
  <2>2. manifest.ordered \in Seq(ToSet(manifest.ordered))
    BY ConstantsAssumption
  <2>3. 1 \in DOMAIN manifest.ordered
    BY <2>1, <2>2
  <2>4. QED
    BY <2>1, <2>3 DEF OrderOK
<1>3. CASE old = Nil
  BY <1>1, <1>2, <1>3, PreflightGood DEF BatchWrites
<1>4. CASE old # Nil
  <2>1. Ready(old)
    BY <1>4, ReadyIs
  <2>2. MaxEvents[mode] \in Nat
    BY ConstantsAssumption
  <2>3. ASSUME NEW t \in ToSet(Order), NEW m \in 0 .. MaxEvents[mode],
               f \in Logged(old, "task", t, m, Corrected(old, t, m))
        PROVE  Good(f)
    BY <2>1, <2>2, <2>3, CorrectionGood
  <2>4. ASSUME NEW t \in ToSet(Order), f \in Logged(old, "task", t, 0, TaskDone(old, t))
        PROVE  Good(f)
    BY <2>1, <2>4, TaskGood
  <2>5. \/ f \in Logged(old, "seed", Nil, 0, Seeded(old))
        \/ \E t \in ToSet(Order) : f \in Logged(old, "task", t, 0, TaskDone(old, t))
        \/ \E t \in ToSet(Order), m \in 0 .. MaxEvents[mode] : f \in Logged(old, "task", t, m, Corrected(old, t, m))
        \/ f \in Logged(old, "review", Nil, 0, Reviewed(old))
        \/ f \in Logged(old, "final_local", Nil, 0, FinalLocal(old))
        \/ f \in Logged(old, "pr", Nil, 0, PrOpened(old))
        \/ f \in Logged(old, "ci", Nil, 0, CiGreen(old))
        \/ f \in Logged(old, "merge", Nil, 0, Merged(old))
    <3> DEFINE tasks == UNION {Logged(old, "task", t, 0, TaskDone(old, t)) : t \in ToSet(Order)}
               again == UNION {Logged(old, "task", t, n, Corrected(old, t, n)) :
                                 t \in ToSet(Order), n \in 0 .. MaxEvents[mode]}
               all == Logged(old, "seed", Nil, 0, Seeded(old)) \cup tasks \cup again
                  \cup Logged(old, "review", Nil, 0, Reviewed(old))
                  \cup Logged(old, "final_local", Nil, 0, FinalLocal(old))
                  \cup Logged(old, "pr", Nil, 0, PrOpened(old))
                  \cup Logged(old, "ci", Nil, 0, CiGreen(old))
                  \cup Logged(old, "merge", Nil, 0, Merged(old))
    <3>1. f \in all
      <4>1. f \in IF ~Parsed(manifest) THEN {} ELSE IF old = Nil THEN Preflight ELSE all
        BY DEF BatchWrites
      <4> HIDE DEF all
      <4>2. QED
        BY <4>1, <1>1, <1>4
    <3>2. f \in tasks => \E t \in ToSet(Order) : f \in Logged(old, "task", t, 0, TaskDone(old, t))
      OBVIOUS
    <3>3. f \in again => \E t \in ToSet(Order), m \in 0 .. MaxEvents[mode] :
                            f \in Logged(old, "task", t, m, Corrected(old, t, m))
      OBVIOUS
    <3> HIDE DEF tasks, again
    <3>4. QED
      BY <3>1, <3>2, <3>3
  <2>6. QED
    BY <1>1, <2>1, <2>3, <2>4, <2>5, SeedGood, ReviewGood, FinalGood, PrGood, CiGood, MergeGood
<1>5. QED
  BY <1>3, <1>4

-----------------------------------------------------------------------------
(* The journal of a task *)

Names == ToSet(Phases)
Steps == [phase : Names, iteration : Nat, head : Nat]
Corrections == [from : Names, phase : Names, head : Nat]
TaskJournals ==
  [phase : Names, iteration : Nat, head : Nat, at : Branches, pr : BOOLEAN,
   prHead : Nat \cup {Nil}, merge : Nat \cup {Nil}, highest : Names,
   history : Seq(Steps), corrections : Seq(Corrections)]

Turns(h) == {k \in 2 .. Len(h) : h[k].iteration = h[k - 1].iteration + 1}

\* One line after another, and the line of a correction.
Follows(before, line) ==
  /\ line.iteration \in {before.iteration, before.iteration + 1}
  /\ before.phase = "merged" => line.phase = "merged"
  /\ Rank(line.phase) < Rank(before.phase) => line.iteration = before.iteration + 1

Counted(f) ==
  LET h == f.history IN
  /\ h # << >> /\ h[1].iteration = 0
  /\ \A k \in 2 .. Len(h) : Follows(h[k - 1], h[k])
  /\ Last(h) = [phase |-> f.phase, iteration |-> f.iteration, head |-> f.head]

Ranked(f) ==
  /\ \E k \in DOMAIN f.history : f.history[k].phase = f.highest
  /\ \A k \in DOMAIN f.history : Rank(f.history[k].phase) <= Rank(f.highest)

Proved(f) ==
  /\ Rank(f.phase) >= Rank("pr_open") => f.pr /\ f.prHead = f.head
  /\ (f.phase = "merged") <=> (f.merge # Nil)

\* A correction of the journal for each turn of the history.
TurnsTold(h, corrections) ==
  \A k \in Turns(h) : corrections[h[k].iteration] =
    [from |-> h[k - 1].phase, phase |-> h[k].phase, head |-> h[k].head]

Corresponds(f) ==
  /\ Len(f.corrections) = f.iteration /\ Cardinality(Turns(f.history)) = f.iteration
  /\ TurnsTold(f.history, f.corrections)

\* LoadableTask in parts.
LEMMA TaskParts ==
  ASSUME NEW f \in TaskJournals
  PROVE  LoadableTask(f) <=> Counted(f) /\ Ranked(f) /\ Proved(f) /\ Corresponds(f)
<1>1. PICK h \in Seq(Steps) : h = f.history
  BY DEF TaskJournals
<1>2. ASSUME NEW k \in 2 .. Len(h)
      PROVE  h[k - 1].iteration \in Nat /\ h[k].iteration \in Nat
  <2>1. h[k - 1] \in Steps /\ h[k] \in Steps
    BY <1>1
  <2>2. QED
    BY <2>1 DEF Steps
<1>3. ASSUME NEW k \in 2 .. Len(h)
      PROVE  (/\ h[k].iteration # h[k - 1].iteration => k \in Turns(h)
              /\ h[k - 1].phase = "merged" => h[k].phase = "merged"
              /\ Rank(h[k].phase) < Rank(h[k - 1].phase) => k \in Turns(h)) <=> Follows(h[k - 1], h[k])
  BY <1>2 DEF Turns, Follows
<1>4. LoadableTask(f) <=>
        /\ h # << >> /\ h[1].iteration = 0
        /\ \A k \in 2 .. Len(h) :
             /\ h[k].iteration # h[k - 1].iteration => k \in Turns(h)
             /\ h[k - 1].phase = "merged" => h[k].phase = "merged"
             /\ Rank(h[k].phase) < Rank(h[k - 1].phase) => k \in Turns(h)
        /\ Ranked(f)
        /\ Last(h) = [phase |-> f.phase, iteration |-> f.iteration, head |-> f.head]
        /\ Proved(f)
        /\ Corresponds(f)
  BY <1>1 DEF LoadableTask, Turns, Ranked, Proved, Corresponds, TurnsTold
<1>5. QED
  BY <1>1, <1>3, <1>4 DEF Counted

\* Iterations only grow.
TaskOK(f) ==
  /\ f \in TaskJournals /\ LoadableTask(f)
  /\ \A k \in DOMAIN f.history : f.history[k].iteration <= f.iteration

LEMMA RanksAre ==
  /\ {"implementation_ready", "pr_open", "merged"} \subseteq Names
  /\ \A p \in Names : Rank(p) \in Nat
<1>1. {"implementation_ready", "pr_open", "merged"} \subseteq Names
  BY ConstantsAssumption DEF Names
<1>2. PICK n \in Nat : DOMAIN Phases = 1 .. n
  BY ConstantsAssumption
<1>3. ASSUME NEW p \in Names PROVE Rank(p) \in Nat
  <2>1. \E k \in DOMAIN Phases : Phases[k] = p
    BY DEF Names, ToSet
  <2>2. Rank(p) \in DOMAIN Phases
    BY <2>1 DEF Rank
  <2>3. QED
    BY <1>2, <2>2
<1>4. QED
  BY <1>1, <1>3

\* A turn more, or the same.
LEMMA OneMoreTurn ==
  ASSUME NEW h \in Seq(Steps), h # << >>, NEW line \in Steps, NEW n \in Nat, n = Len(h),
         Cardinality(Turns(h)) \in Nat
  PROVE  /\ line.iteration = h[n].iteration + 1 =>
              /\ Turns(Append(h, line)) = Turns(h) \cup {n + 1}
              /\ Cardinality(Turns(Append(h, line))) = Cardinality(Turns(h)) + 1
         /\ line.iteration = h[n].iteration => Turns(Append(h, line)) = Turns(h)
<1>1. PICK i \in Seq(Steps) : i = Append(h, line)
  <2>1. Append(h, line) \in Seq(Steps)
    OBVIOUS
  <2>2. QED
    BY <2>1
<1>2. /\ Len(i) = n + 1 /\ n # 0 /\ i[n + 1] = line
      /\ \A k \in 1 .. n : i[k] = h[k]
  BY <1>1
<1>3. \A k \in 2 .. n : k \in 1 .. n /\ k - 1 \in 1 .. n
  OBVIOUS
<1>4. 2 .. n + 1 = 2 .. n \cup {n + 1} /\ n + 1 \notin 2 .. n /\ n \in 1 .. n /\ (n + 1) - 1 = n
  BY <1>2
<1>5. \A k \in 2 .. n : k \in Turns(i) <=> k \in Turns(h)
  BY <1>2, <1>3, <1>4 DEF Turns
<1>6. n + 1 \in Turns(i) <=> line.iteration = h[n].iteration + 1
  BY <1>2, <1>4 DEF Turns
<1>7. Turns(h) \subseteq 2 .. n /\ Turns(i) \subseteq 2 .. n + 1
  BY <1>2 DEF Turns
<1>8. IsFiniteSet(Turns(h))
  <2>1. IsFiniteSet(2 .. n)
    BY FS_Interval
  <2>2. QED
    BY <1>7, <2>1, FS_Subset
<1>9. CASE line.iteration = h[n].iteration + 1
  <2>1. Turns(i) = Turns(h) \cup {n + 1} /\ n + 1 \notin Turns(h)
    BY <1>4, <1>5, <1>6, <1>7, <1>9
  <2>2. Cardinality(Turns(i)) = Cardinality(Turns(h)) + 1
    BY <1>8, <2>1, FS_AddElement
  <2>3. h[n].iteration \in Nat
    <3>1. h[n] \in Steps
      BY <1>4
    <3>2. QED
      BY <3>1 DEF Steps
  <2>4. QED
    BY <1>1, <1>9, <2>1, <2>2, <2>3
<1>10. CASE line.iteration = h[n].iteration
  <2>1. h[n].iteration \in Nat
    <3>1. h[n] \in Steps
      BY <1>4
    <3>2. QED
      BY <3>1 DEF Steps
  <2>2. n + 1 \notin Turns(i)
    BY <1>6, <1>10, <2>1
  <2>3. Turns(i) = Turns(h)
    BY <1>4, <1>5, <1>7, <2>2
  <2>4. QED
    BY <1>1, <1>10, <2>1, <2>3
<1>11. QED
  BY <1>9, <1>10

\* What write_checkpoint writes first.
LEMMA FirstOK ==
  ASSUME GitOK, NEW phase \in Names, NEW step \in 0 .. 2, NEW newPr \in BOOLEAN,
         NEW newPrHead \in {Nil, HEAD}, NEW merge \in {Nil, HEAD},
         NEW f \in TaskStep(Nil, phase, step, newPr, newPrHead, merge)
  PROVE  TaskOK(f)
<1>1. HEAD \in Nat /\ HEAD # Nil /\ branch \in Branches
  BY ConstantsAssumption DEF GitOK, HEAD, Commits
<1>2. PICK event \in Steps : event = [phase |-> phase, iteration |-> 0, head |-> HEAD]
  BY <1>1 DEF Steps
<1>3. PICK hist \in Seq(Steps) : hist = <<event>>
  <2>1. <<event>> \in Seq(Steps)
    OBVIOUS
  <2>2. QED
    BY <2>1
<1>4. PICK none \in Seq(Corrections) : none = << >>
  <2>1. << >> \in Seq(Corrections)
    OBVIOUS
  <2>2. QED
    BY <2>1
<1>5. /\ PrFacts(phase, newPr, newPrHead, merge)
      /\ f = [phase |-> phase, iteration |-> 0, head |-> HEAD, at |-> branch,
              pr |-> newPr, prHead |-> newPrHead, merge |-> merge, highest |-> phase,
              history |-> hist, corrections |-> none]
  BY <1>2, <1>3, <1>4 DEF TaskStep
<1>6. f \in TaskJournals
  BY <1>1, <1>5 DEF TaskJournals
<1>7. /\ f.phase = phase /\ f.iteration = 0 /\ f.head = HEAD /\ f.pr = newPr /\ f.prHead = newPrHead
      /\ f.merge = merge /\ f.highest = phase /\ f.history = hist /\ f.corrections = none
  BY <1>5
<1>8. Len(hist) = 1 /\ DOMAIN hist = {1} /\ hist[1] = event /\ hist # << >> /\ Len(none) = 0
  BY <1>3, <1>4
<1>9. event.iteration = 0 /\ event.phase = phase /\ Last(hist) = event
  BY <1>2, <1>8 DEF Last
<1>10. Counted(f)
  BY <1>2, <1>7, <1>8, <1>9 DEF Counted
<1>11. Ranked(f)
  BY <1>7, <1>8, <1>9, RanksAre DEF Ranked
<1>12. Proved(f)
  BY <1>5, <1>7 DEF Proved, PrFacts
<1>13. Corresponds(f)
  <2>1. Turns(hist) = {}
    BY <1>8 DEF Turns
  <2>2. QED
    BY <2>1, <1>7, <1>8, FS_EmptySet DEF Corresponds, TurnsTold
<1>14. QED
  BY <1>6, <1>7, <1>8, <1>9, <1>10, <1>11, <1>12, <1>13, TaskParts DEF TaskOK

\* And on what it has read.
LEMMA AdvanceOK ==
  ASSUME GitOK, NEW old, old # Nil, TaskOK(old),
         NEW phase \in Names, NEW step \in 0 .. 2, NEW newPr \in BOOLEAN,
         NEW newPrHead \in {Nil, HEAD}, NEW merge \in {Nil, HEAD},
         NEW f \in TaskStep(old, phase, step, newPr, newPrHead, merge)
  PROVE  TaskOK(f)
<1>1. HEAD \in Nat /\ HEAD # Nil /\ branch \in Branches
  BY ConstantsAssumption DEF GitOK, HEAD, Commits
<1>2. MayAdvance(old, phase, step)
  BY DEF TaskStep
<1>3. /\ old \in TaskJournals /\ Counted(old) /\ Ranked(old) /\ Proved(old) /\ Corresponds(old)
      /\ \A k \in DOMAIN old.history : old.history[k].iteration <= old.iteration
  BY TaskParts DEF TaskOK
<1>4. step \in {0, 1}
  BY <1>2 DEF MayAdvance
<1> DEFINE pr == newPr \/ old.pr
           prHead == IF newPrHead # Nil THEN newPrHead ELSE old.prHead
           high == Higher(phase, old.highest)
<1>5. PICK iteration \in Nat : iteration = old.iteration + step
  BY <1>3, <1>4 DEF TaskJournals
<1>6. PICK event \in Steps : event = [phase |-> phase, iteration |-> iteration, head |-> HEAD]
  BY <1>1 DEF Steps
<1>7. PICK turn \in Corrections : turn = [from |-> old.phase, phase |-> phase, head |-> HEAD]
  BY <1>1, <1>3 DEF Corrections, TaskJournals
<1>8. old.history \in Seq(Steps) /\ old.corrections \in Seq(Corrections) /\ old.iteration \in Nat
      /\ old.phase \in Names /\ old.highest \in Names /\ old.pr \in BOOLEAN /\ old.prHead \in Nat \cup {Nil}
      /\ old.head \in Nat
  BY <1>3 DEF TaskJournals
<1>9. PICK hist \in Seq(Steps) : hist = Append(old.history, event)
  <2>1. Append(old.history, event) \in Seq(Steps)
    BY <1>8
  <2>2. QED
    BY <2>1
<1>10. PICK turns \in Seq(Corrections) :
         turns = IF step = 1 THEN Append(old.corrections, turn) ELSE old.corrections
  <2>1. Append(old.corrections, turn) \in Seq(Corrections)
    BY <1>8
  <2>2. QED
    BY <2>1, <1>8
<1>11. /\ PrFacts(phase, pr, prHead, merge)
       /\ f = [phase |-> phase, iteration |-> iteration, head |-> HEAD, at |-> branch,
               pr |-> pr, prHead |-> prHead, merge |-> merge, highest |-> high,
               history |-> hist, corrections |-> turns]
  BY <1>5, <1>6, <1>7, <1>9, <1>10 DEF TaskStep
<1>12. pr \in BOOLEAN /\ prHead \in Nat \cup {Nil} /\ high \in Names /\ merge \in Nat \cup {Nil}
  BY <1>1, <1>8 DEF Higher
<1> HIDE DEF pr, prHead, high
<1>13. f \in TaskJournals
  BY <1>1, <1>11, <1>12 DEF TaskJournals
<1>14. /\ f.phase = phase /\ f.iteration = iteration /\ f.head = HEAD /\ f.pr = pr /\ f.prHead = prHead
       /\ f.merge = merge /\ f.highest = high /\ f.history = hist /\ f.corrections = turns
  BY <1>11
<1>15. PICK n \in Nat : n = Len(old.history) /\ n # 0
  BY <1>3, <1>8 DEF Counted
<1>16. /\ Len(hist) = n + 1 /\ hist # << >> /\ hist[n + 1] = event /\ DOMAIN hist = 1 .. n + 1
       /\ DOMAIN old.history = 1 .. n /\ \A k \in 1 .. n : hist[k] = old.history[k]
  BY <1>8, <1>9, <1>15
<1>17. /\ event.phase = phase /\ event.iteration = iteration /\ event.head = HEAD
       /\ old.history[n].phase = old.phase /\ old.history[n].iteration = old.iteration
  <2>1. old.history[n] = [phase |-> old.phase, iteration |-> old.iteration, head |-> old.head]
    BY <1>3, <1>15 DEF Counted, Last
  <2>2. QED
    BY <2>1, <1>6
<1>18. Follows(old.history[n], event)
  <2>1. event.iteration = old.iteration + step
    BY <1>5, <1>17
  <2>2. /\ old.phase = "merged" => phase = "merged"
        /\ Rank(phase) < Rank(old.phase) => step = 1
    BY <1>2 DEF MayAdvance
  <2>3. QED
    BY <2>1, <2>2, <1>4, <1>8, <1>17 DEF Follows
<1>19. /\ 1 .. n + 1 = 1 .. n \cup {n + 1} /\ 2 .. n + 1 = 2 .. n \cup {n + 1} /\ n \in 1 .. n /\ 1 \in 1 .. n
       /\ (n + 1) - 1 = n /\ \A k \in 2 .. n : k \in 1 .. n /\ k - 1 \in 1 .. n
  BY <1>15
<1>20. Counted(f)
  <2>1. hist[1].iteration = 0
    BY <1>3, <1>16, <1>19 DEF Counted
  <2>2. ASSUME NEW k \in 2 .. n + 1 PROVE Follows(hist[k - 1], hist[k])
    <3>1. CASE k \in 2 .. n
      <4>1. hist[k] = old.history[k] /\ hist[k - 1] = old.history[k - 1]
        BY <3>1, <1>16, <1>19
      <4>2. Follows(old.history[k - 1], old.history[k])
        BY <3>1, <1>3, <1>15 DEF Counted
      <4>3. QED
        BY <4>1, <4>2
    <3>2. CASE k = n + 1
      BY <3>2, <1>16, <1>18, <1>19
    <3>3. QED
      BY <3>1, <3>2, <1>19
  <2>3. Last(hist) = event
    BY <1>16 DEF Last
  <2>4. QED
    BY <2>1, <2>2, <2>3, <1>6, <1>14, <1>16 DEF Counted
<1>21. Ranked(f)
  <2>1. Rank(phase) \in Nat /\ Rank(old.highest) \in Nat
    BY <1>8, RanksAre
  <2>2. high \in {phase, old.highest} /\ Rank(phase) <= Rank(high) /\ Rank(old.highest) <= Rank(high) /\ Rank(high) \in Nat
    BY <2>1 DEF high, Higher
  <2>3. \E k \in DOMAIN hist : hist[k].phase = high
    <3>1. PICK k \in 1 .. n : old.history[k].phase = old.highest
      BY <1>3, <1>16 DEF Ranked
    <3>2. QED
      BY <2>2, <3>1, <1>16, <1>17, <1>19
  <2>4. ASSUME NEW k \in 1 .. n PROVE Rank(hist[k].phase) <= Rank(high)
    <3>1. old.history[k] \in Steps
      BY <1>8, <1>15
    <3>2. Rank(old.history[k].phase) \in Nat
      BY <3>1, RanksAre DEF Steps
    <3>3. Rank(old.history[k].phase) <= Rank(old.highest)
      BY <1>3, <1>16 DEF Ranked
    <3>4. Rank(old.history[k].phase) <= Rank(high)
      BY <2>1, <2>2, <3>2, <3>3
    <3>5. QED
      BY <3>4, <1>16
  <2>5. QED
    BY <2>2, <2>3, <2>4, <1>14, <1>16, <1>17, <1>19 DEF Ranked
<1>22. Proved(f)
  BY <1>11, <1>14 DEF Proved, PrFacts
<1>23. \A k \in DOMAIN hist : hist[k].iteration <= iteration
  <2>1. ASSUME NEW k \in 1 .. n PROVE hist[k].iteration <= iteration
    <3>1. old.history[k] \in Steps
      BY <1>8, <1>15
    <3>2. old.history[k].iteration \in Nat /\ old.history[k].iteration <= old.iteration
      BY <3>1, <1>3, <1>16 DEF Steps
    <3>3. old.iteration <= iteration
      BY <1>4, <1>5, <1>8
    <3>4. old.history[k].iteration <= iteration
      BY <3>2, <3>3, <1>8
    <3>5. QED
      BY <3>4, <1>16
  <2>2. QED
    BY <2>1, <1>16, <1>17, <1>19
<1>24. Corresponds(f)
  <2>1. Len(old.corrections) = old.iteration /\ Cardinality(Turns(old.history)) = old.iteration
        /\ TurnsTold(old.history, old.corrections) /\ old.history # << >>
    BY <1>3 DEF Corresponds, Counted
  <2>2. ASSUME NEW k \in Turns(old.history)
        PROVE  /\ hist[k] = old.history[k] /\ hist[k - 1] = old.history[k - 1]
               /\ old.history[k].iteration \in 1 .. old.iteration
    <3>1. k \in 2 .. n /\ old.history[k].iteration = old.history[k - 1].iteration + 1
      BY <1>15 DEF Turns
    <3>2. k \in 1 .. n /\ k - 1 \in 1 .. n
      BY <3>1
    <3>3. old.history[k] \in Steps /\ old.history[k - 1] \in Steps
      BY <3>2, <1>8, <1>15, SMTT(30)
    <3>4. old.history[k].iteration \in Nat /\ old.history[k - 1].iteration \in Nat
          /\ old.history[k].iteration <= old.iteration
      BY <3>2, <3>3, <1>3, <1>16 DEF Steps
    <3>5. QED
      BY <3>1, <3>2, <3>4, <1>8, <1>16
  <2>3. CASE step = 0
    <3>1. Turns(hist) = Turns(old.history) /\ turns = old.corrections /\ iteration = old.iteration
      <4>1. event.iteration = old.history[n].iteration
        BY <2>3, <1>5, <1>8, <1>17
      <4>2. QED
        BY <4>1, <2>1, <2>3, <1>5, <1>8, <1>9, <1>10, <1>15, OneMoreTurn
    <3>2. TurnsTold(hist, turns)
      BY <3>1, <2>1, <2>2 DEF TurnsTold
    <3>3. QED
      BY <2>1, <3>1, <3>2, <1>14 DEF Corresponds
  <2>4. CASE step = 1
    <3>1. /\ Turns(hist) = Turns(old.history) \cup {n + 1}
          /\ Cardinality(Turns(hist)) = old.iteration + 1 /\ iteration = old.iteration + 1
      <4>1. event.iteration = old.history[n].iteration + 1
        BY <2>4, <1>5, <1>8, <1>17
      <4>2. QED
        BY <4>1, <2>1, <2>4, <1>5, <1>8, <1>9, <1>15, OneMoreTurn
    <3>2. /\ Len(turns) = old.iteration + 1 /\ turns[old.iteration + 1] = turn
          /\ \A k \in 1 .. old.iteration : turns[k] = old.corrections[k]
      <4>1. turns = Append(old.corrections, turn)
        BY <1>10, <2>4
      <4>2. QED
        BY <4>1, <2>1, <1>8
    <3>3. ASSUME NEW k \in Turns(old.history)
          PROVE  turns[hist[k].iteration] = [from |-> hist[k - 1].phase, phase |-> hist[k].phase, head |-> hist[k].head]
      <4>1. PICK i \in 1 .. old.iteration : i = old.history[k].iteration
        BY <2>2
      <4>2. old.corrections[i] =
              [from |-> old.history[k - 1].phase, phase |-> old.history[k].phase, head |-> old.history[k].head]
        BY <4>1, <2>1 DEF TurnsTold
      <4>3. turns[i] = old.corrections[i]
        BY <3>2
      <4>4. hist[k].iteration = i
        BY <4>1, <2>2
      <4>5. QED
        BY <4>2, <4>3, <4>4, <2>2
    <3>4. turns[hist[n + 1].iteration] =
            [from |-> hist[(n + 1) - 1].phase, phase |-> hist[n + 1].phase, head |-> hist[n + 1].head]
      <4>1. hist[n + 1].iteration = old.iteration + 1 /\ hist[n + 1].phase = phase /\ hist[n + 1].head = HEAD
        BY <3>1, <1>16, <1>17
      <4>2. hist[(n + 1) - 1].phase = old.phase
        BY <1>16, <1>17, <1>19
      <4>3. QED
        BY <4>1, <4>2, <3>2, <1>7
    <3>5. TurnsTold(hist, turns)
      <4>1. \A k \in Turns(hist) : k \in Turns(old.history) \/ k = n + 1
        BY <3>1
      <4>2. QED
        BY <4>1, <3>3, <3>4 DEF TurnsTold
    <3>6. QED
      BY <3>1, <3>2, <3>5, <1>14 DEF Corresponds
  <2>5. QED
    BY <1>4, <2>3, <2>4
<1>25. QED
  BY <1>13, <1>14, <1>20, <1>21, <1>22, <1>23, <1>24, TaskParts DEF TaskOK

\* All that write_checkpoint may write.
LEMMA TaskWritesOK ==
  ASSUME GitOK, NEW old, old # Nil => TaskOK(old), NEW f \in TaskWrites(old)
  PROVE  TaskOK(f)
<1>1. PICK phase \in Names, step \in 0 .. 2, newPr \in BOOLEAN, newPrHead \in {Nil, HEAD}, merge \in {Nil, HEAD} :
        f \in TaskStep(old, phase, step, newPr, newPrHead, merge)
  BY DEF TaskWrites, Names
<1>2. QED
  BY <1>1, FirstOK, AdvanceOK

-----------------------------------------------------------------------------
(* The invariant *)

\* What a command reads, and what one is about to write.
FileOK(f) ==
  f # Nil => IF mode = "task" THEN TaskOK(f) ELSE Parsed(manifest) /\ BatchOK(f) /\ LoadableBatch(f)
CmdOK(f) ==
  f # Nil => IF mode = "task" THEN TaskOK(f) ELSE Parsed(manifest) /\ Good(f)

FileInv == \A f : f = file => FileOK(f)
CmdInv == \A f : f = cmd => CmdOK(f)

ModeOK == mode \in Modes /\ mode \in {"task", "batch"} /\ (mode = "batch" => manifest \in Manifests)

IInv == GitOK /\ ModeOK /\ FileInv /\ CmdInv

PartsAreAll ==
  \A f : (manifest \in Manifests /\ f \in BatchJournals) =>
          (LoadableBatch(f) <=>
             OrderOK /\ FieldsOK(f) /\ ReviewOK(f) /\ HistoryOK(f) /\ Told(f.history) = {f.tasks})

LEMMA PartsSuffice == PartsAreAll
  BY LoadableParts DEF PartsAreAll

\* The facts of a journal stay true of the repository.
LEMMA BatchGrows ==
  ASSUME GitOK, GitGrows, manifest \in Manifests, UNCHANGED <<mode, manifest>>, NEW f, BatchOK(f)
  PROVE  /\ BatchOK(f)'
         /\ LoadableBatch(f) => LoadableBatch(f)'
         /\ OffSeed(f) => OffSeed(f)'
<1>1. Order' = Order /\ Commits \subseteq Commits'
  BY DEF Order, GitGrows
<1>2. BatchJournals' = BatchJournals
  BY <1>1 DEF BatchJournals, Lines, Facts, Ids
<1>3. f \in BatchJournals /\ Known(f)
  BY DEF BatchOK
<1>4. \A c \in Commits : commits'[c].anc = commits[c].anc
  BY DEF GitGrows
<1>5. \A c \in Commits : \A a : Ancestor(a, c)' <=> Ancestor(a, c)
  BY <1>4 DEF Ancestor
<1>6. Known(f)'
  BY <1>1, <1>3 DEF Known
<1>7. BatchOK(f)'
  BY <1>2, <1>3, <1>6 DEF BatchOK, Fresh, MergeTold, Since
<1>8. ASSUME LoadableBatch(f) PROVE LoadableBatch(f)'
  <2>1. OrderOK /\ FieldsOK(f) /\ ReviewOK(f) /\ HistoryOK(f) /\ Told(f.history) = {f.tasks}
    BY <1>3, <1>8, LoadableParts
  <2>2. OrderOK' /\ HistoryOK(f)' /\ (Told(f.history) = {f.tasks})'
    BY <1>1, <2>1, ToldStays DEF OrderOK, HistoryOK
  <2>3. (\A k \in 1 .. Len(f.tasks) : OnSeed(f, f.tasks[k].head))'
    BY <1>3, <1>5, <2>1 DEF FieldsOK, OnSeed, Known
  <2>4. (f.merge # Nil => f.ci # Nil /\ Ancestor(f.ci, f.merge))'
    BY <1>3, <1>5, <2>1 DEF FieldsOK, Known
  <2>5. (f.seed # Nil => commits[f.seed].anc = {Start, f.seed})'
    BY <1>3, <1>4, <2>1 DEF FieldsOK, Known
  <2>6. FieldsOK(f)'
    BY <1>1, <2>1, <2>3, <2>4, <2>5 DEF FieldsOK
  <2>7. ReviewOK(f)'
    BY <1>3, <1>5, <2>1 DEF ReviewOK, OnSeed, Known
  <2>8. (f \in BatchJournals /\ manifest \in Manifests)'
    BY <1>2, <1>3
  <2>9. PartsAreAll'
    BY PartsSuffice, PTL
  <2>10. QED
    BY <2>2, <2>6, <2>7, <2>8, <2>9 DEF PartsAreAll
<1>9. ASSUME OffSeed(f) PROVE OffSeed(f)'
  <2>1. f.head \in Commits
    BY <1>3, ConstantsAssumption DEF Known, BatchJournals
  <2>2. QED
    BY <1>5, <1>9, <2>1 DEF OffSeed
<1>10. QED
  BY <1>7, <1>8, <1>9

LEMMA FileGrows ==
  ASSUME GitOK, ModeOK, GitGrows, UNCHANGED <<mode, manifest>>, NEW f
  PROVE  /\ FileOK(f) => FileOK(f)'
         /\ CmdOK(f) => CmdOK(f)'
<1>1. CASE mode = "task"
  <2>1. TaskOK(f)' <=> TaskOK(f)
    BY DEF TaskOK, TaskJournals, LoadableTask
  <2>2. QED
    BY <1>1, <2>1 DEF FileOK, CmdOK
<1>2. CASE mode = "batch"
  <2>1. Parsed(manifest)' <=> Parsed(manifest)
    BY DEF Parsed, Order
  <2>2. BatchOK(f) => BatchOK(f)' /\ (LoadableBatch(f) => LoadableBatch(f)') /\ (OffSeed(f) => OffSeed(f)')
    BY <1>2, BatchGrows DEF ModeOK
  <2>3. QED
    BY <1>2, <2>1, <2>2 DEF FileOK, CmdOK, Good
<1>3. QED
  BY <1>1, <1>2 DEF ModeOK

LEMMA FileIs ==
  ASSUME NEW f, FileOK(f)', file' = f
  PROVE  FileInv'
  BY DEF FileInv

LEMMA CmdIs ==
  ASSUME NEW f, CmdOK(f)', cmd' = f
  PROVE  CmdInv'
  BY DEF CmdInv

LEMMA InvInit == Init => IInv
<1> SUFFICES ASSUME Init PROVE IInv
  OBVIOUS
<1> DEFINE C == [anc : SUBSET Nat, material : BOOLEAN]
<1>1. PICK first \in C : first = [anc |-> {Start}, material |-> FALSE]
  <2>1. {Start} \in SUBSET Nat
    BY DEF Start
  <2>2. QED
    BY <2>1
<1>2. commits = <<first>> /\ first.anc = {Start}
  BY <1>1 DEF Init
<1> HIDE DEF C
<1>3. commits \in Seq(C) /\ Len(commits) = 1 /\ commits[1] = first
  BY <1>1, <1>2
<1>4. Commits = {1} /\ Start = 1
  BY <1>3 DEF Commits, Start
<1>5. GitOK
  BY <1>2, <1>3, <1>4 DEF GitOK, Init, C
<1>6. ModeOK /\ FileInv /\ CmdInv
  BY ConstantsAssumption DEF Init, ModeOK, FileInv, CmdInv, FileOK, CmdOK
<1>7. QED
  BY <1>5, <1>6 DEF IInv

\* Whatever a command decides upon may be written.
LEMMA WritesOK ==
  ASSUME IInv, MayWrite, NEW f \in Writes
  PROVE  CmdOK(f)
<1>1. PICK old : old = file
  OBVIOUS
<1>2. FileOK(old)
  BY <1>1 DEF IInv, FileInv
<1>3. CASE mode = "task"
  <2>1. f \in TaskWrites(old) /\ (old # Nil => TaskOK(old))
    BY <1>1, <1>2, <1>3 DEF Writes, FileOK
  <2>2. QED
    BY <1>3, <2>1, TaskWritesOK DEF IInv, CmdOK
<1>4. CASE mode = "batch"
  <2>1. f \in BatchWrites(old) /\ (old # Nil => BatchOK(old) /\ LoadableBatch(old))
    BY <1>1, <1>2, <1>4 DEF Writes, FileOK
  <2>2. QED
    BY <1>4, <2>1, BatchWritesOK DEF IInv, ModeOK, CmdOK
<1>5. QED
  BY <1>3, <1>4 DEF IInv, ModeOK

\* What is written may be read.
LEMMA WrittenOK ==
  ASSUME IInv, NEW f, CmdOK(f)
  PROVE  FileOK(Written(f))
<1>1. PICK old : old = file /\ FileOK(old)
  BY DEF IInv, FileInv
<1>2. CASE mode = "batch" /\ ~ LoadableBatch(f)
  BY <1>1, <1>2 DEF Written
<1>3. CASE ~ (mode = "batch" /\ ~ LoadableBatch(f))
  <2>1. Written(f) = f
    BY <1>3 DEF Written
  <2>2. FileOK(f)
    BY <1>3 DEF CmdOK, FileOK, Good, IInv, ModeOK
  <2>3. QED
    BY <2>1, <2>2
<1>4. QED
  BY <1>2, <1>3

LEMMA InvStep == IInv /\ [Next]_vars => IInv'
<1> SUFFICES ASSUME IInv, [Next]_vars PROVE IInv'
  OBVIOUS
<1>1. GitOK' /\ GitGrows
  BY GitStep DEF IInv
<1>2. ModeOK' /\ UNCHANGED <<mode, manifest>>
  BY DEF IInv, ModeOK, Next, Commit, Merge, Reset, Checkout, NewCommit, GitOnly, Look, Replace, Fail, Overtake, vars
<1>3. PICK f, c : f = file /\ c = cmd
  OBVIOUS
<1>4. FileOK(f) /\ CmdOK(c)
  BY <1>3 DEF IInv, FileInv, CmdInv
<1>5. FileOK(f)' /\ CmdOK(c)'
  BY <1>1, <1>2, <1>4, FileGrows DEF IInv
<1>6. CASE UNCHANGED <<file, cmd>>
  <2>1. file' = f /\ cmd' = c
    BY <1>3, <1>6
  <2>2. QED
    BY <1>1, <1>2, <1>5, <2>1, FileIs, CmdIs DEF IInv
<1>7. CASE Look
  <2>1. PICK d \in Writes : cmd' = d
    BY <1>7 DEF Look
  <2>2. CmdOK(d)'
    BY <1>1, <1>2, <1>7, <2>1, WritesOK, FileGrows DEF Look, IInv
  <2>3. file' = f
    BY <1>3, <1>7 DEF Look
  <2>4. QED
    BY <1>1, <1>2, <1>5, <2>1, <2>2, <2>3, FileIs, CmdIs DEF IInv
<1>8. CASE Replace
  <2>1. PICK g : g = Written(c)
    OBVIOUS
  <2>2. FileOK(g)
    BY <1>3, <1>4, <1>8, <2>1, WrittenOK DEF Replace
  <2>3. FileOK(g)' /\ file' = g
    BY <1>1, <1>2, <1>3, <1>8, <2>1, <2>2, FileGrows DEF IInv, Replace
  <2>4. CmdInv'
    BY <1>8 DEF Replace, CmdInv, CmdOK
  <2>5. QED
    BY <1>1, <1>2, <2>3, <2>4, FileIs DEF IInv
<1>9. CASE Fail
  <2>1. CmdInv'
    BY <1>9 DEF Fail, CmdInv, CmdOK
  <2>2. file' = f
    BY <1>3, <1>9 DEF Fail
  <2>3. QED
    BY <1>1, <1>2, <1>5, <2>1, <2>2, FileIs DEF IInv
<1>10. CASE Overtake
  <2>1. PICK d \in Writes : file' = Written(d)
    BY <1>10 DEF Overtake
  <2>2. PICK g : g = Written(d)
    OBVIOUS
  <2>3. CmdOK(d)
    BY <1>10, WritesOK DEF Overtake
  <2>4. FileOK(g)
    BY <2>2, <2>3, <1>4, WrittenOK
  <2>5. FileOK(g)' /\ file' = g /\ cmd' = c
    BY <1>1, <1>2, <1>3, <1>10, <2>1, <2>2, <2>4, FileGrows DEF IInv, Overtake
  <2>6. QED
    BY <1>1, <1>2, <1>5, <2>5, FileIs, CmdIs DEF IInv
<1>11. QED
  BY <1>6, <1>7, <1>8, <1>9, <1>10 DEF Next, Commit, Merge, Reset, Checkout, NewCommit, GitOnly, vars

-----------------------------------------------------------------------------
(* What follows *)

LEMMA ReadableInv == IInv => AlwaysReadable
<1> SUFFICES ASSUME IInv PROVE AlwaysReadable
  OBVIOUS
<1>1. FileOK(file) /\ CmdOK(cmd)
  BY DEF IInv, FileInv, CmdInv
<1>2. CASE mode = "task"
  BY <1>1, <1>2 DEF AlwaysReadable, TaskStatus, Reported, Loadable, FileOK, CmdOK, TaskOK
<1>3. CASE mode = "batch"
  BY <1>1, <1>3 DEF AlwaysReadable, BatchStatus, Reported, Loadable, FileOK, CmdOK, Good
<1>4. QED
  BY <1>2, <1>3 DEF IInv, ModeOK

\* The facts of a merged journal follow from what LoadableBatch relates: the
\* merge has the commit of CI, which is that of the PR and of the local
\* verification and stands on the seed.
LEMMA FreshInv == IInv => EvidenceIsFresh
<1> SUFFICES ASSUME IInv, mode = "batch", file # Nil PROVE EvidenceIsFresh
  BY DEF EvidenceIsFresh
<1>1. PICK f : f = file
  OBVIOUS
<1>2. BatchOK(f) /\ LoadableBatch(f) /\ manifest \in Manifests /\ f \in BatchJournals
  BY <1>1 DEF IInv, FileInv, FileOK, ModeOK, BatchOK
<1>3. FieldsOK(f) /\ ReviewOK(f) /\ Known(f) /\ Fresh(f)
  BY <1>2, LoadableParts DEF BatchOK
<1>4. ASSUME f.merge # Nil
      PROVE  /\ [k \in DOMAIN f.tasks |-> f.tasks[k].id] = Order
             /\ {f.seed, f.ci} \subseteq commits[f.merge].anc
             /\ \A d \in {f.final, f.prHead, f.ci} : d = f.ci /\ Ancestor(f.seed, d)
  <2>1. /\ f.ci # Nil /\ f.ci = f.prHead /\ f.prHead = f.final /\ f.review # Nil
        /\ Len(f.tasks) = Len(Order) /\ Ancestor(f.ci, f.merge)
    BY <1>3, <1>4 DEF FieldsOK
  <2>2. f.seed # Nil /\ Ancestor(f.seed, f.ci)
    BY <1>3, <2>1 DEF ReviewOK, OnSeed
  <2>3. f.ci \in Commits /\ f.merge \in Commits
    BY <1>3, <1>4, <2>1 DEF Known
  <2>4. {f.seed, f.ci} \subseteq commits[f.merge].anc
    BY <2>1, <2>2, <2>3 DEF IInv, GitOK, Ancestor
  <2>5. DOMAIN f.tasks = 1 .. Len(Order) /\ DOMAIN Order = 1 .. Len(Order)
    BY <1>2, <2>1, OrderIsSeq DEF BatchJournals
  <2>6. \A k \in 1 .. Len(Order) : f.tasks[k].id = Order[k]
    BY <1>3, <2>1 DEF FieldsOK
  <2>7. Order = [k \in 1 .. Len(Order) |-> Order[k]]
    BY <2>5 DEF Order
  <2>8. QED
    BY <2>1, <2>2, <2>4, <2>5, <2>6, <2>7
<1>5. QED
  BY <1>1, <1>3, <1>4 DEF EvidenceIsFresh, Fresh

(***************************************************************************)
(* No command leaves a journal that the next one refuses, and none that    *)
(* the rules for writing admit is refused before it is written, unless the *)
(* branch was reset below the seed: what write_checkpoint and              *)
(* write_batch_checkpoint may write satisfies _validate_checkpoint and     *)
(* _validate_batch_checkpoint, for any journal they may have read, two     *)
(* commands at once included.                                              *)
(***************************************************************************)
THEOREM JournalsAreReadable == Spec => []AlwaysReadable
  BY InvInit, InvStep, ReadableInv, PTL DEF Spec

(***************************************************************************)
(* What the journal of a batch says of review, local verification, PR and  *)
(* CI was recorded after the last task or correction, and a merge has the  *)
(* commit of PR and CI and the seed below it (write_batch_checkpoint),     *)
(* whatever is committed, reset or written over meanwhile.                 *)
(***************************************************************************)
THEOREM EvidenceStaysFresh == Spec => []EvidenceIsFresh
  BY InvInit, InvStep, FreshInv, PTL DEF Spec

-----------------------------------------------------------------------------
(* The wait for the checks *)

States == {"absent", "pending", "green", "red", "strange"}
Verdicts == {"none", "success", "failed", "head_changed", "checks_not_registered", "timed_out",
             "gh_error", "malformed_response", "state_error"}
Observations == {"none", "success", "failed", "checks_not_registered", "in_progress"}

\* Only check runs are in a state that the waiter does not know.
Plausible(state) ==
  \A c \in DOMAIN state : state[c] \in States /\ (state[c] = "strange" => c \in CheckRuns)

WaitTypeOK ==
  /\ DOMAIN checks = Checks /\ checks = [c \in Checks |-> checks[c]] /\ Plausible(checks)
  /\ expected \in BOOLEAN /\ away \in BOOLEAN
  /\ clock \in Nat
  /\ pc \in Requests \cup {"poll", "judge", "sleep", "ended"}
  /\ status \in Verdicts /\ summary \in Verdicts /\ journal \in Observations

Asking == Requests \cup {"judge"}

\* The history of the poll has the present in it.
PresentInv ==
  pc \in Asking => Truth(checks) \subseteq shown /\ (expected \/ away)

\* What an answer says was so.
ShownInv ==
  pc \in Asking =>
    /\ DOMAIN seen \subseteq Checks /\ Plausible(seen)
    /\ \A c \in DOMAIN seen : seen[c] # "absent" /\ Was(c, seen[c])

\* What an answer leaves out was not there.
Missed(names) == \A c \in names \ DOMAIN seen : Was(c, "absent")
MissedInv ==
  /\ pc \in {"statuses", "pull again", "judge"} => Missed(CheckRuns)
  /\ pc \in {"pull again", "judge"} => Missed(Statuses)

\* The verdict is the last thing.
LastInv == status # "none" \/ summary # "none" => pc = "ended"

WaitInv == WaitTypeOK /\ PresentInv /\ ShownInv /\ MissedInv /\ LastInv /\ VerdictIsTrue

-----------------------------------------------------------------------------
(* One lemma for each kind of step *)

LEMMA WaitConstantsAre == Checks = CheckRuns \cup Statuses /\ Timeout \in Nat /\ Interval \in Nat /\ Grace \in Nat
  BY WaitConstants DEF Checks

LEMMA TypeStep == WaitInv /\ [WaitNext]_waitVars => WaitTypeOK'
<1> SUFFICES ASSUME WaitInv, [WaitNext]_waitVars PROVE WaitTypeOK'
  OBVIOUS
<1> USE DEF WaitInv, WaitTypeOK
<1>1. DOMAIN checks' = Checks /\ checks' = [c \in Checks |-> checks'[c]] /\ Plausible(checks)'
  <2>1. CASE UNCHANGED checks
    BY <2>1 DEF Plausible
  <2>2. ASSUME NEW c \in Checks, NEW to \in {"pending", "green", "red", "strange"},
               checks' = [checks EXCEPT ![c] = to], to = "strange" => c \in CheckRuns
        PROVE  DOMAIN checks' = Checks /\ checks' = [d \in Checks |-> checks'[d]] /\ Plausible(checks)'
    BY <2>2 DEF Plausible, States
  <2>3. CASE GitHub
    BY <2>1, <2>2, <2>3 DEF GitHub, Move
  <2>4. QED
    BY <2>1, <2>3 DEF WaitNext, Waiter, Tick, Poll, Unanswered, Pull, AskRuns, AskStatuses, PullAgain,
       Answered, Judge, Sleep, Killed, Quiet, github, waitVars
<1>2. expected' \in BOOLEAN /\ away' \in BOOLEAN
  BY DEF WaitNext, GitHub, Move, Waiter, Tick, Poll, Unanswered, Pull, AskRuns, AskStatuses, PullAgain,
       Answered, Judge, Sleep, Killed, Quiet, github, history, waitVars
<1>3. clock' \in Nat
  <2>1. clock + 1 \in Nat /\ clock + Interval \in Nat
    BY WaitConstantsAre
  <2>2. CASE Tick \/ Sleep
    BY <2>1, <2>2, WaitConstantsAre DEF Tick, Sleep
  <2>3. CASE ~Tick /\ ~Sleep
    BY <2>3 DEF WaitNext, GitHub, Waiter, Poll, Unanswered, Pull, AskRuns, AskStatuses, PullAgain,
       Answered, Judge, Killed, Quiet, waitVars
  <2>4. QED
    BY <2>2, <2>3
<1>4. pc' \in Requests \cup {"poll", "judge", "sleep", "ended"}
  BY DEF WaitNext, GitHub, Waiter, Tick, Poll, Unanswered, Pull, AskRuns, AskStatuses, PullAgain,
       HeadIs, GoOn, Finish, Judge, Sleep, Killed, waitVars, Requests
<1>5. status' \in Verdicts /\ summary' \in Verdicts /\ journal' \in Observations
  <2>1. Classify \in Verdicts \cup {"in_progress"} /\ (Classify # "malformed_response" => Classify \in Observations)
    BY DEF Classify, Verdicts, Observations
  <2>2. CASE Judge
    BY <2>1, <2>2 DEF Judge, Finish, Summarised, Recorded, GoOn, Verdicts
  <2>3. CASE ~Judge
    BY <2>3 DEF WaitNext, GitHub, Waiter, Tick, Poll, Unanswered, Pull, AskRuns, AskStatuses,
       PullAgain, Answered, HeadIs, GoOn, Finish, Summarised, Sleep, Killed, waitVars, Verdicts
  <2>4. QED
    BY <2>2, <2>3
<1>6. QED
  BY <1>1, <1>2, <1>3, <1>4, <1>5

\* Within a poll, what was so stays in its history, and the present is put there.
LEMMA HistoryStep ==
  ASSUME WaitInv, [WaitNext]_waitVars
  PROVE  /\ pc # "poll" => shown \subseteq shown' /\ (away => away')
         /\ PresentInv'
<1> USE DEF WaitInv
<1>1. CASE GitHub
  BY <1>1, TypeStep DEF GitHub, PresentInv, WaitTypeOK
<1>2. CASE Poll
  BY <1>2, TypeStep DEF Poll, PresentInv, Quiet, github, history, Finish, GoOn, Asking, WaitTypeOK, Requests
<1>3. CASE ~GitHub /\ ~Poll
  <2>1. UNCHANGED <<checks, expected, shown, away>>
    BY <1>3 DEF WaitNext, Waiter, Tick, Unanswered, Pull, AskRuns, AskStatuses, PullAgain,
       Answered, Judge, Sleep, Killed, Quiet, github, history, waitVars
  <2>2. pc' \in Asking => pc \in Asking
    BY <1>3 DEF WaitNext, Waiter, Tick, Unanswered, Pull, AskRuns, AskStatuses, PullAgain, HeadIs,
       Answered, GoOn, Finish, Judge, Sleep, Killed, waitVars, Asking, Requests
  <2>3. QED
    BY <2>1, <2>2 DEF PresentInv, Truth
<1>4. QED
  BY <1>1, <1>2, <1>3

LEMMA AnswersStep ==
  ASSUME WaitInv, [WaitNext]_waitVars
  PROVE  ShownInv' /\ MissedInv'
<1> USE DEF WaitInv
<1>1. CASE AskRuns
  <2>1. /\ pc = "runs" /\ pc' = "statuses" /\ UNCHANGED <<checks, shown>>
        /\ DOMAIN seen' = Registered(CheckRuns) /\ \A c \in DOMAIN seen' : seen'[c] = checks[c]
    BY <1>1 DEF AskRuns, Answered, GoOn, RunsNow, Quiet, github, history
  <2>2. \A c \in Checks : <<c, checks[c]>> \in shown
    BY <2>1 DEF PresentInv, Truth, Asking, Requests
  <2>3. QED
    BY <2>1, <2>2, WaitConstantsAre DEF Registered, ShownInv, MissedInv, Missed, Was, WaitTypeOK, Plausible
<1>2. CASE AskStatuses
  <2>1. /\ pc = "statuses" /\ pc' = "pull again" /\ UNCHANGED <<checks, shown>>
        /\ DOMAIN seen' = DOMAIN seen \cup Registered(Statuses)
        /\ \A c \in DOMAIN seen' : seen'[c] = IF c \in DOMAIN seen THEN seen[c] ELSE checks[c]
    BY <1>2 DEF AskStatuses, Answered, GoOn, StatusesNow, Quiet, github, history
  <2>2. \A c \in Checks : <<c, checks[c]>> \in shown
    BY <2>1 DEF PresentInv, Truth, Asking, Requests
  <2>3. pc \in Asking
    BY <2>1 DEF Asking, Requests
  <2>4. QED
    BY <2>1, <2>2, <2>3, WaitConstantsAre DEF Registered, ShownInv, MissedInv, Missed, Was, WaitTypeOK, Plausible
<1>3. CASE Poll
  <2>1. pc' = "ended" \/ (pc' = "pull" /\ DOMAIN seen' = {})
    BY <1>3 DEF Poll, GoOn, Finish
  <2>2. QED
    BY <2>1 DEF ShownInv, MissedInv, Plausible, Asking, Requests
<1>4. CASE ~AskRuns /\ ~AskStatuses /\ ~Poll
  <2>1. UNCHANGED seen
    BY <1>4 DEF WaitNext, GitHub, Waiter, Tick, Unanswered, Pull, PullAgain, Judge, Sleep, Killed, waitVars
  <2>2. /\ pc' \in Asking => pc \in Asking
        /\ pc' \in {"statuses", "pull again", "judge"} => pc \in {"statuses", "pull again", "judge"}
        /\ pc' \in {"pull again", "judge"} => pc \in {"pull again", "judge"}
    BY <1>4 DEF WaitNext, GitHub, Waiter, Tick, Unanswered, Pull, PullAgain, HeadIs,
       Answered, GoOn, Finish, Judge, Sleep, Killed, waitVars, Asking, Requests
  <2>3. pc \in Asking => shown \subseteq shown'
    BY HistoryStep DEF Asking, Requests
  <2>4. QED
    BY <2>1, <2>2, <2>3 DEF ShownInv, MissedInv, Missed, Was, Plausible, Asking, Requests
<1>5. QED
  BY <1>1, <1>2, <1>3, <1>4

-----------------------------------------------------------------------------
(* The verdict *)

\* What the classification says of the poll.
LEMMA Classified ==
  ASSUME WaitInv, pc = "judge"
  PROVE  /\ Classify = "success" =>
              /\ \E c \in Checks : Was(c, "green")
              /\ \A c \in RegisteredBefore : Was(c, "green")
         /\ Classify = "failed" => \E c \in Checks : Was(c, "red")
         /\ Classify = "checks_not_registered" => \A c \in Checks : Was(c, "absent")
<1> USE DEF WaitInv
<1>1. /\ DOMAIN seen \subseteq Checks /\ Plausible(seen)
      /\ \A c \in DOMAIN seen : seen[c] # "absent" /\ Was(c, seen[c])
      /\ \A c \in Checks \ DOMAIN seen : Was(c, "absent")
  BY WaitConstantsAre DEF ShownInv, MissedInv, Missed, Asking
<1>2. ASSUME Classify = "success" PROVE DOMAIN seen # {} /\ \A c \in DOMAIN seen : seen[c] = "green"
  <2>1. /\ DOMAIN seen # {} /\ ~Some(CheckRuns, "strange")
        /\ ~Some(Checks, "red") /\ ~Some(Checks, "pending")
    BY <1>2 DEF Classify
  <2>2. QED
    BY <1>1, <2>1, WaitConstantsAre DEF Some, Plausible, States
<1>3. Classify = "failed" => \E c \in Checks : Was(c, "red")
  BY <1>1, WaitConstantsAre DEF Classify, Some
<1>4. Classify = "checks_not_registered" => \A c \in Checks : Was(c, "absent")
  BY <1>1 DEF Classify
<1>5. QED
  BY <1>1, <1>2, <1>3, <1>4 DEF RegisteredBefore

LEMMA VerdictStep ==
  ASSUME WaitInv, [WaitNext]_waitVars
  PROVE  LastInv' /\ VerdictIsTrue'
<1> USE DEF WaitInv
<1>1. CASE pc = "ended"
  <2>1. UNCHANGED <<pc, clock, status, journal, summary>>
    BY <1>1 DEF WaitNext, GitHub, Waiter, Tick, Poll, Unanswered, Pull, PullAgain, AskRuns, AskStatuses,
       Answered, Judge, Sleep, Killed, waitVars, Requests
  <2>2. shown \subseteq shown' /\ (away => away')
    BY <1>1, HistoryStep
  <2>3. QED
    BY <2>1, <2>2 DEF LastInv, VerdictIsTrue, RegisteredBefore, Was
<1>2. CASE pc # "ended"
  <2>1. status = "none" /\ summary = "none"
    BY <1>2 DEF LastInv
  <2>2. CASE UNCHANGED <<status, summary>>
    BY <2>1, <2>2 DEF LastInv, VerdictIsTrue
  <2>3. CASE Judge
    <3>1. UNCHANGED <<shown, clock>> /\ pc = "judge"
      BY <2>3 DEF Judge, Quiet, history
    <3>2. CASE Classify = "malformed_response" \/ GoOn("ended")
      <4>1. CASE GoOn("ended")
        BY <2>2, <4>1 DEF GoOn
      <4>2. CASE Finish("malformed_response")
        BY <2>1, <4>2 DEF Finish, Summarised, LastInv, VerdictIsTrue
      <4>3. QED
        BY <2>3, <3>2, <4>1, <4>2 DEF Judge
    <3>3. CASE Classify # "malformed_response" /\ ~GoOn("ended")
      <4>1. /\ journal' = Classify
            /\ \/ Finish("timed_out") \/ GoOn("sleep")
               \/ Finish(Classify) /\ (Classify = "checks_not_registered" => clock >= Grace)
                  /\ Classify \in {"success", "failed", "checks_not_registered"}
        BY <2>3, <3>3 DEF Judge, Recorded
      <4>2. CASE Finish("timed_out") \/ GoOn("sleep")
        BY <2>1, <4>2 DEF Finish, GoOn, Summarised, LastInv, VerdictIsTrue
      <4>3. CASE Finish(Classify) /\ (Classify = "checks_not_registered" => clock >= Grace)
                 /\ Classify \in {"success", "failed", "checks_not_registered"}
        <5>1. pc' = "ended" /\ status' \in {Classify, "state_error"} /\ summary' \in {"none", Classify}
          BY <2>1, <4>3 DEF Finish, Summarised
        <5>2. RegisteredBefore' = RegisteredBefore /\ \A c, state : Was(c, state)' <=> Was(c, state)
          BY <3>1 DEF RegisteredBefore, Was
        <5>3. QED
          BY <3>1, <4>1, <4>3, <5>1, <5>2, Classified DEF LastInv, VerdictIsTrue
      <4>4. QED
        BY <4>1, <4>2, <4>3
    <3>4. QED
      BY <3>2, <3>3
  <2>4. CASE Pull \/ PullAgain
    <3>1. PresentInv /\ pc \in Asking /\ UNCHANGED <<expected, away, shown, journal>>
      BY <2>4 DEF Pull, PullAgain, Answered, Asking, Requests, Quiet, github, history
    <3>2. CASE expected
      BY <2>2, <2>4, <3>2 DEF Pull, PullAgain, HeadIs, GoOn
    <3>3. CASE ~expected
      BY <2>1, <2>4, <3>1, <3>3 DEF Pull, PullAgain, HeadIs, Finish, Summarised, PresentInv,
         LastInv, VerdictIsTrue
    <3>4. QED
      BY <3>2, <3>3
  <2>5. CASE Unanswered \/ Poll
    BY <2>1, <2>2, <2>5 DEF Unanswered, Poll, GoOn, Finish, Summarised, LastInv, VerdictIsTrue
  <2>6. CASE GitHub \/ Tick \/ AskRuns \/ AskStatuses \/ Sleep \/ Killed \/ UNCHANGED waitVars
    BY <2>2, <2>6 DEF GitHub, Tick, AskRuns, AskStatuses, Sleep, Killed, GoOn, waitVars
  <2>7. QED
    BY <2>3, <2>4, <2>5, <2>6 DEF WaitNext, Waiter
<1>3. QED
  BY <1>1, <1>2

-----------------------------------------------------------------------------
(* Theorems *)

LEMMA WaitInvInit == WaitInit => WaitInv
<1> SUFFICES ASSUME WaitInit PROVE WaitInv
  OBVIOUS
<1>1. WaitTypeOK
  BY DEF WaitInit, WaitTypeOK, Plausible, States, Requests, Verdicts, Observations
<1>2. PresentInv /\ ShownInv /\ MissedInv /\ LastInv /\ VerdictIsTrue
  BY DEF WaitInit, PresentInv, ShownInv, MissedInv, LastInv, VerdictIsTrue, Asking, Requests
<1>3. QED
  BY <1>1, <1>2 DEF WaitInv

LEMMA WaitInvStep == WaitInv /\ [WaitNext]_waitVars => WaitInv'
  BY TypeStep, HistoryStep, AnswersStep, VerdictStep DEF WaitInv

LEMMA WaitInvHolds == WaitSpec => []WaitInv
  BY WaitInvInit, WaitInvStep, PTL DEF WaitSpec

(***************************************************************************)
(* Success, failure, a changed head and missing checks are reported only   *)
(* when GitHub was so during the poll, in whatever order checks and        *)
(* commits change between its requests; a summary of success or failure    *)
(* has its observation in the journal (wait_for_checks, _classify).        *)
(***************************************************************************)
THEOREM VerdictsAreTrue == WaitSpec => []VerdictIsTrue
<1>1. WaitInv => VerdictIsTrue
  BY DEF WaitInv
<1>2. QED
  BY <1>1, WaitInvHolds, PTL
=============================================================================
