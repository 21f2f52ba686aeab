----------------------- MODULE TelegramPollingProofs -----------------------
(***************************************************************************)
(* Proofs about the poller and the operator's recoveries, for any numbers  *)
(* of updates, recovery attempts and faults.                               *)
(***************************************************************************)
EXTENDS TelegramPolling, TLAPS

\* The first n attempts of an update are known, and only the last may be done.
Lineage(u, n) ==
  \A a \in 0 .. MaxAttempts :
    /\ outcome[<<u, a>>] # "new" <=> a < n
    /\ outcome[<<u, a>>] = "done" => a + 1 = n

LineageInv == \A u \in Updates : \E n \in 0 .. MaxAttempts + 1 : Lineage(u, n)

\* A turn is applied in the step that completes its key.
AppliedInv == \A k \in Keys : applied[k] # {} <=> outcome[k] = "done"

\* The poller has got to the update at hand, and what is left of the batch
\* follows without a gap.
QueueInv ==
  /\ current # 0 => current >= nextOffset /\ (current = 1 \/ current - 1 < nextOffset)
  /\ \E last \in 0 .. Len(sent) : batch = {u \in 1 .. last : u >= nextOffset /\ u > current}

OrderInv == \A u \in Updates : Attempts(u) # {} => u - 1 < nextOffset \/ u = 1

\* What the user was told of an update is enough to pass it.
Answered(u) ==
  /\ sent[u] = "text" =>
       \/ "result" \in told[u] /\ Done(u)
       \/ outcome[Original(u)] = "failed" /\ told[u] \cap NoticeKinds # {}
  /\ sent[u] = "view" => "view" \in told[u]

NoticesInv == \A u \in Updates : notices[u] # "none" => told[u] \cap NoticeKinds # {}

Between == {"down", "poll", "batch"}
TextStages == {"judge", "execute", "turn", "raised", "bind", "reply", "notice", "mark"}

\* What is true of the update at hand at each stage.
StageInv ==
  /\ pc \in Between <=> current = 0
  /\ pc \in TextStages => sent[current] = "text"
  /\ pc \in {"view", "button"} => sent[current] = pc
  /\ pc = "execute" => outcome[Original(current)] \in {"new", "done"}
  /\ pc = "turn" => outcome[Original(current)] = "open" /\ Lineage(current, 1)
  /\ pc \in {"bind", "reply"} => Done(current)
  /\ pc \in {"notice", "mark"} =>
       notice \in NoticeKinds /\ (notice = "no_mutation" => ProvenFailure(current))
  /\ pc = "mark" => told[current] \cap NoticeKinds # {}
  /\ pc = "ack" => Answered(current)

\* A recovery command executes the latest attempt, and no poller runs.
OperatorInv ==
  operator # Idle =>
    pc = "down" /\ outcome[operator] = "open" /\ Lineage(operator[1], operator[2] + 1)

IInv ==
  /\ TypeOK /\ LineageInv /\ AppliedInv /\ QueueInv /\ OrderInv /\ NoticesInv
  /\ StageInv /\ OperatorInv /\ CheckpointAfterAnswer

-----------------------------------------------------------------------------
(* Keys, and how the ledger moves                                          *)

LEMMA KeyFacts ==
  /\ \A u \in Updates : Original(u) \in Keys /\ Original(u)[1] = u /\ Original(u)[2] = 0
  /\ \A u \in Updates, a \in 0 .. MaxAttempts :
       <<u, a>> \in Keys /\ <<u, a>>[1] = u /\ <<u, a>>[2] = a
  /\ \A k \in Keys : k[1] \in Updates /\ k[2] \in 0 .. MaxAttempts /\ k = <<k[1], k[2]>>
BY BoundsAssumption DEF Keys, Original, Updates

Opens(k) == k \in Keys /\ Gate!Open(k)
Settles(k) == k \in Keys /\ (Gate!CompleteWith(k, Turn) \/ Gate!Fail(k))

\* The update at hand, when there is one, is an update.
LEMMA AtHand ==
  ASSUME TypeOK, StageInv, pc \notin Between
  PROVE  current \in 1 .. Len(sent) /\ current \in Updates
BY BoundsAssumption DEF TypeOK, StageInv, Updates

LEMMA SentLength == TypeOK => Len(sent) \in Nat /\ 0 \in 0 .. Len(sent)
BY DEF TypeOK

-----------------------------------------------------------------------------
(* Types                                                                   *)

LEMMA ServerTypes == TypeOK /\ (UserSends \/ Poll \/ PollLost) => TypeOK'
<1> SUFFICES ASSUME TypeOK, UserSends \/ Poll \/ PollLost PROVE TypeOK'
  OBVIOUS
<1> USE BoundsAssumption
<1>1. CASE UserSends
  <2>1. PICK kind \in Kinds : sent' = Append(sent, kind)
    BY <1>1 DEF UserSends
  <2>2. sent' \in Seq(Kinds) /\ Len(sent') = Len(sent) + 1 /\ Len(sent') <= MaxUpdates
    BY <1>1, <2>1 DEF UserSends, TypeOK
  <2>3. QED
    BY <1>1, <2>2 DEF UserSends, TypeOK, ledger, tables, locals, unit
<1>2. CASE Poll
  BY <1>2 DEF Poll, Fetched, Goto, Stages, TypeOK, ledger, tables, locals, unit
<1>3. CASE PollLost
  BY <1>3 DEF PollLost, TypeOK, ledger, tables, locals, unit
<1>4. QED
  BY <1>1, <1>2, <1>3

\* What is left of a poll that is given up.
LEMMA Abandoned ==
  ASSUME NEW stage, Abandon(stage)
  PROVE  /\ pc' = stage /\ batch' = {} /\ current' = 0 /\ notice' = "none"
         /\ conversation' \in BOOLEAN
BY DEF Abandon, Goto

\* Where Take leads.
LEMMA TakeStage ==
  ASSUME TypeOK, NEW u \in 1 .. Len(sent)
  PROVE  /\ sent[u] \in Kinds
         /\ (CASE sent[u] = "text" -> "judge"
              [] sent[u] \in {"view", "button"} -> sent[u]
              [] sent[u] = "ignored" -> "ack") \in {"judge", "view", "button", "ack"}
BY DEF TypeOK, Kinds

LEMMA ProcessTypes == TypeOK /\ StageInv /\ Process => TypeOK'
<1> SUFFICES ASSUME TypeOK, StageInv, Process PROVE TypeOK'
  OBVIOUS
<1> USE BoundsAssumption DEF TypeOK, Goto, Stages, server, ledger, tables, locals, unit
<1>1. CASE Take
  <2> DEFINE left == {u \in batch : u >= nextOffset}
  <2>1. CASE left = {}
    BY <1>1, <2>1, SentLength, Abandoned DEF Take
  <2>2. CASE left # {}
    <3>1. PICK u \in left :
            /\ current' = u /\ batch' = left \ {u} /\ UNCHANGED <<conversation, notice>>
            /\ pc' = (CASE sent[u] = "text" -> "judge"
                      [] sent[u] \in {"view", "button"} -> sent[u]
                      [] sent[u] = "ignored" -> "ack")
      BY <1>1, <2>2 DEF Take
    <3>2. u \in 1 .. Len(sent) /\ batch' \subseteq 1 .. Len(sent)
      BY <3>1
    <3>3. pc' \in {"judge", "view", "button", "ack"}
      BY <3>1, <3>2, TakeStage
    <3>4. current' \in 0 .. Len(sent) /\ conversation' \in BOOLEAN /\ UNCHANGED notice
      BY <3>1, <3>2
    <3>5. QED
      BY <1>1, <3>2, <3>3, <3>4 DEF Take
  <2>3. QED
    BY <2>1, <2>2
<1>2. CASE Judge
  BY <1>2, AtHand DEF Judge, GiveNotice, NoticeKinds, Between
<1>3. CASE Execute
  BY <1>3 DEF Execute, Gate!Open
<1>4. CASE ExecuteRaises
  BY <1>4 DEF ExecuteRaises, Gate!Open, Fault
<1>5. CASE TurnCompletes
  BY <1>5 DEF TurnCompletes, Gate!CompleteWith
<1>6. CASE TurnFails
  BY <1>6 DEF TurnFails, Gate!Fail
<1>7. CASE TurnRaises
  BY <1>7 DEF TurnRaises, Gate!CompleteWith, Fault
<1>8. CASE Raised
  BY <1>8 DEF Raised, GiveNotice, NoticeKinds
<1>9. CASE ProofFails
  BY <1>9 DEF ProofFails, GiveNotice, NoticeKinds, Fault
<1>10. CASE Bind
  BY <1>10 DEF Bind
<1>11. CASE Button
  BY <1>11 DEF Button, Edited, Tell, Screens
<1>12. QED
  BY <1>1, <1>2, <1>3, <1>4, <1>5, <1>6, <1>7, <1>8, <1>9, <1>10, <1>11 DEF Process

LEMMA DeliverTypes == TypeOK /\ StageInv /\ Deliver => TypeOK'
<1> SUFFICES ASSUME TypeOK, StageInv, Deliver PROVE TypeOK'
  OBVIOUS
<1> USE BoundsAssumption DEF TypeOK, Goto, Stages, server, ledger, tables, locals, unit
<1>1. CASE AnswerSent
  BY <1>1 DEF AnswerSent, Tell, Answer
<1>2. CASE AnswerLost
  BY <1>2, SentLength, Abandoned DEF AnswerLost, TellPerhaps, Tell, Answer
<1>3. CASE NoticeSkipped
  BY <1>3, SentLength, Abandoned DEF NoticeSkipped, Noticed, Halt
<1>4. CASE NoticeSent
  BY <1>4, AtHand DEF NoticeSent, Tell, StageInv, NoticeKinds
<1>5. CASE NoticeLost
  BY <1>5, AtHand, SentLength, Abandoned DEF NoticeLost, Tell, StageInv, NoticeKinds
<1>6. CASE NoticeRepeated
  <2>1. current \in Updates /\ notice \in NoticeKinds
    BY <1>6, AtHand DEF NoticeRepeated, StageInv, Between
  <2>2. QED
    BY <1>6, <2>1 DEF NoticeRepeated, Tell, Fault
<1>7. CASE Mark
  BY <1>7, SentLength, Abandoned DEF Mark, Noticed, Halt
<1>8. CASE Acknowledge
  <2>1. current \in 1 .. Len(sent)
    BY <1>8, AtHand DEF Acknowledge, Between
  <2>2. nextOffset' \in 0 .. Len(sent) + 1 /\ nextOffset' >= nextOffset
    BY <1>8, <2>1 DEF Acknowledge
  <2>3. conversation' \in BOOLEAN
    BY <1>8 DEF Acknowledge
  <2>4. QED
    BY <1>8, <2>2, <2>3, SentLength DEF Acknowledge
<1>9. QED
  BY <1>1, <1>2, <1>3, <1>4, <1>5, <1>6, <1>7, <1>8 DEF Deliver

LEMMA LifecycleTypes == TypeOK /\ Lifecycle => TypeOK'
<1> SUFFICES ASSUME TypeOK, Lifecycle PROVE TypeOK'
  OBVIOUS
<1> USE BoundsAssumption DEF TypeOK, Goto, Stages, server, ledger, tables, locals, unit
<1>1. CASE Crash
  BY <1>1, SentLength, Abandoned DEF Crash, Fault
<1>2. CASE Rejected
  BY <1>2, SentLength, Abandoned DEF Rejected, Halt, Fault
<1>3. CASE Start
  BY <1>3 DEF Start
<1>4. CASE StartRefused
  BY <1>4 DEF StartRefused, Fault
<1>5. CASE OperatorStarts
  BY <1>5 DEF OperatorStarts
<1>6. CASE Recover
  BY <1>6 DEF Recover, Gate!Open
<1>7. CASE RecoverEnds
  BY <1>7 DEF RecoverEnds, Gate!CompleteWith, Gate!Fail
<1>8. QED
  BY <1>1, <1>2, <1>3, <1>4, <1>5, <1>6, <1>7 DEF Lifecycle

LEMMA TypeStep == TypeOK /\ StageInv /\ [Next]_vars => TypeOK'
<1>1. TypeOK /\ UNCHANGED vars => TypeOK'
  BY DEF TypeOK, vars, server, ledger, tables, locals, unit
<1>2. QED
  BY <1>1, ServerTypes, ProcessTypes, DeliverTypes, LifecycleTypes DEF Next

-----------------------------------------------------------------------------
(* Attempts                                                                *)

LEMMA AttemptsAre ==
  ASSUME NEW u \in Updates, NEW n \in 0 .. MaxAttempts + 1, Lineage(u, n)
  PROVE  /\ \A a \in 0 .. MaxAttempts : <<u, a>> \in Attempts(u) <=> a < n
         /\ \A k \in Attempts(u) : k = <<u, k[2]>> /\ k[2] \in 0 .. MaxAttempts /\ k[2] < n
BY KeyFacts DEF Lineage, Attempts

LEMMA LastAttemptIs ==
  ASSUME NEW u \in Updates, NEW n \in 1 .. MaxAttempts + 1, Lineage(u, n)
  PROVE  LastAttempt(u) = <<u, n - 1>>
<1> USE BoundsAssumption
<1> DEFINE last == <<u, n - 1>>
<1>1. n - 1 \in 0 .. MaxAttempts /\ n - 1 < n
  OBVIOUS
<1>2. last \in Attempts(u) /\ last[2] = n - 1
  BY <1>1, AttemptsAre
<1>3. \A k \in Attempts(u) : k = <<u, k[2]>> /\ k[2] \in 0 .. MaxAttempts /\ k[2] <= n - 1
  BY AttemptsAre
<1>4. \A k \in Attempts(u) : (\A j \in Attempts(u) : j[2] <= k[2]) => k = last
  <2> SUFFICES ASSUME NEW k \in Attempts(u), \A j \in Attempts(u) : j[2] <= k[2]
               PROVE  k = last
    OBVIOUS
  <2>1. k[2] = n - 1
    BY <1>2, <1>3
  <2>2. QED
    BY <2>1, <1>3
<1>5. QED
  BY <1>2, <1>3, <1>4 DEF LastAttempt

\* A key is opened after the last attempt, none of which is done.
LEMMA OpenedLineage ==
  ASSUME TypeOK, LineageInv, NEW u \in Updates, NEW n \in 0 .. MaxAttempts, Lineage(u, n),
         \A a \in 0 .. MaxAttempts : outcome[<<u, a>>] # "done",
         Gate!Open(<<u, n>>)
  PROVE  LineageInv' /\ Lineage(u, n + 1)'
<1> USE BoundsAssumption
<1>1. <<u, n>> \in Keys /\ outcome' = [outcome EXCEPT ![<<u, n>>] = "open"]
  BY KeyFacts DEF Gate!Open
<1>2. \A v \in Updates, a \in 0 .. MaxAttempts :
        outcome'[<<v, a>>] = IF v = u /\ a = n THEN "open" ELSE outcome[<<v, a>>]
  BY <1>1, KeyFacts DEF TypeOK
<1>3. Lineage(u, n + 1)'
  BY <1>2 DEF Lineage
<1>4. \A v \in Updates \ {u}, m \in 0 .. MaxAttempts + 1 : Lineage(v, m) => Lineage(v, m)'
  BY <1>2 DEF Lineage
<1>5. QED
  BY <1>3, <1>4 DEF LineageInv

\* The last attempt is settled.
LEMMA SettledLineage ==
  ASSUME TypeOK, LineageInv, NEW u \in Updates, NEW a \in 0 .. MaxAttempts, Lineage(u, a + 1),
         outcome[<<u, a>>] = "open",
         outcome' = [outcome EXCEPT ![<<u, a>>] = "done"]
         \/ outcome' = [outcome EXCEPT ![<<u, a>>] = "failed"]
  PROVE  LineageInv' /\ Lineage(u, a + 1)'
<1> USE BoundsAssumption
<1>1. /\ \A v \in Updates, b \in 0 .. MaxAttempts :
           v # u \/ b # a => outcome'[<<v, b>>] = outcome[<<v, b>>]
      /\ outcome'[<<u, a>>] \in {"done", "failed"}
  BY KeyFacts DEF TypeOK
<1>2. Lineage(u, a + 1)'
  BY <1>1 DEF Lineage
<1>3. \A v \in Updates \ {u}, m \in 0 .. MaxAttempts + 1 : Lineage(v, m) => Lineage(v, m)'
  BY <1>1 DEF Lineage
<1>4. QED
  BY <1>2, <1>3 DEF LineageInv

LEMMA KeptLineage ==
  ASSUME UNCHANGED outcome
  PROVE  /\ LineageInv => LineageInv'
         /\ \A u \in Updates, n \in 0 .. MaxAttempts + 1 : Lineage(u, n) => Lineage(u, n)'
BY DEF LineageInv, Lineage

-----------------------------------------------------------------------------
(* The ledger                                                              *)

OpensOriginal == pc = "execute" /\ Gate!Open(Original(current))

OpensRecovery ==
  \E u \in Updates :
    /\ SingletonFree
    /\ outcome[Original(u)] \in {"open", "failed"} /\ outcome[LastAttempt(u)] # "done"
    /\ LET k == <<u, LastAttempt(u)[2] + 1>> IN k \in Keys /\ Gate!Open(k) /\ operator' = k

Settle(k) == Gate!CompleteWith(k, Turn) \/ Gate!Fail(k)
SettlesTurn == pc = "turn" /\ Settle(Original(current))
SettlesRecovery == operator # Idle /\ Settle(operator)

LEMMA LedgerCases ==
  ASSUME [Next]_vars
  PROVE  UNCHANGED ledger \/ OpensOriginal \/ OpensRecovery \/ SettlesTurn \/ SettlesRecovery
<1>1. CASE UserSends \/ Poll \/ PollLost
  BY <1>1 DEF UserSends, Poll, PollLost
<1>2. CASE Process
  BY <1>2 DEF Process, Take, Judge, Execute, ExecuteRaises, TurnCompletes, TurnFails, TurnRaises,
              Raised, ProofFails, Bind, Button, OpensOriginal, SettlesTurn, Settle, ledger
<1>3. CASE Deliver
  BY <1>3 DEF Deliver, AnswerSent, AnswerLost, NoticeSkipped, NoticeSent, NoticeLost,
              NoticeRepeated, Mark, Acknowledge
<1>4. CASE Lifecycle
  BY <1>4 DEF Lifecycle, Crash, Rejected, Start, StartRefused, OperatorStarts, Recover,
              RecoverEnds, OpensRecovery, SettlesRecovery, Settle
<1>5. QED
  BY <1>1, <1>2, <1>3, <1>4 DEF Next, vars

\* The number of attempts that a recovery finds, and that there is one.
LEMMA Recovered ==
  ASSUME TypeOK, LineageInv, NEW u \in Updates, outcome[Original(u)] # "new"
  PROVE  \E n \in 1 .. MaxAttempts + 1 : Lineage(u, n) /\ LastAttempt(u) = <<u, n - 1>>
<1> USE BoundsAssumption
<1>1. PICK n \in 0 .. MaxAttempts + 1 : Lineage(u, n)
  BY DEF LineageInv
<1>2. n # 0
  BY <1>1 DEF Lineage, Original
<1>3. QED
  BY <1>1, <1>2, LastAttemptIs

LEMMA LineageStep ==
  ASSUME IInv, [Next]_vars
  PROVE  LineageInv'
<1> USE BoundsAssumption DEF IInv
<1>1. CASE UNCHANGED ledger
  BY <1>1, KeptLineage DEF ledger
<1>2. CASE OpensOriginal
  <2>1. current \in Updates /\ outcome[Original(current)] = "new"
    BY <1>2, AtHand DEF OpensOriginal, Between, Gate!Open
  <2>2. PICK n \in 0 .. MaxAttempts + 1 : Lineage(current, n)
    BY <2>1 DEF LineageInv
  <2>3. n = 0
    BY <2>1, <2>2 DEF Lineage, Original
  <2>4. QED
    BY <1>2, <2>1, <2>2, <2>3, OpenedLineage DEF OpensOriginal, Original, Lineage
<1>3. CASE OpensRecovery
  <2>1. PICK u \in Updates :
          /\ outcome[Original(u)] # "new" /\ outcome[LastAttempt(u)] # "done"
          /\ LET k == <<u, LastAttempt(u)[2] + 1>> IN k \in Keys /\ Gate!Open(k)
    BY <1>3 DEF OpensRecovery
  <2>2. PICK n \in 1 .. MaxAttempts + 1 : Lineage(u, n) /\ LastAttempt(u) = <<u, n - 1>>
    BY <2>1, Recovered
  <2>3. <<u, n>> \in Keys /\ Gate!Open(<<u, n>>)
    BY <2>1, <2>2
  <2>4. n \in 0 .. MaxAttempts
    BY <2>3 DEF Keys
  <2>5. \A a \in 0 .. MaxAttempts : outcome[<<u, a>>] # "done"
    BY <2>1, <2>2 DEF Lineage
  <2>6. QED
    BY <2>2, <2>3, <2>4, <2>5, OpenedLineage
<1>4. CASE SettlesTurn
  <2>1. current \in Updates /\ outcome[Original(current)] = "open" /\ Lineage(current, 1)
    BY <1>4, AtHand DEF SettlesTurn, Between, StageInv
  <2>2. QED
    BY <1>4, <2>1, SettledLineage
       DEF SettlesTurn, Settle, Original, Gate!CompleteWith, Gate!Fail
<1>5. CASE SettlesRecovery
  <2>1. operator \in Keys /\ Lineage(operator[1], operator[2] + 1)
    BY <1>5 DEF SettlesRecovery, OperatorInv, TypeOK
  <2>2. QED
    BY <1>5, <2>1, KeyFacts, SettledLineage
       DEF SettlesRecovery, Settle, Gate!CompleteWith, Gate!Fail
<1>6. QED
  BY <1>1, <1>2, <1>3, <1>4, <1>5, LedgerCases

\* The key that a step moves, if any, and how.
LEMMA LedgerMoves ==
  ASSUME IInv, [Next]_vars
  PROVE  UNCHANGED ledger \/ \E k \in Keys : Gate!Open(k) \/ Settle(k)
BY LedgerCases, AtHand, KeyFacts
   DEF IInv, OpensOriginal, OpensRecovery, SettlesTurn, SettlesRecovery, StageInv, TypeOK, Between

LEMMA AppliedStep ==
  ASSUME IInv, [Next]_vars
  PROVE  AppliedInv'
<1> USE DEF IInv, AppliedInv, TypeOK
<1>1. CASE UNCHANGED ledger
  BY <1>1 DEF ledger
<1>2. CASE \E k \in Keys : Gate!Open(k) \/ Settle(k)
  <2>1. PICK k \in Keys : Gate!Open(k) \/ Settle(k)
    BY <1>2
  <2>2. CASE Gate!Open(k)
    BY <2>2 DEF Gate!Open
  <2>3. CASE Gate!CompleteWith(k, Turn)
    <3>1. /\ outcome'[k] = "done" /\ applied'[k] = {Turn}
          /\ \A j \in Keys \ {k} : outcome'[j] = outcome[j] /\ applied'[j] = applied[j]
      BY <2>3 DEF Gate!CompleteWith
    <3>2. QED
      BY <3>1
  <2>4. CASE Gate!Fail(k)
    BY <2>4 DEF Gate!Fail
  <2>5. QED
    BY <2>1, <2>2, <2>3, <2>4 DEF Settle
<1>3. QED
  BY <1>1, <1>2, LedgerMoves

\* What is settled stays.
LEMMA Settled ==
  ASSUME IInv, [Next]_vars
  PROVE  /\ \A k \in Keys : outcome[k] \in {"done", "failed"} => outcome'[k] = outcome[k]
         /\ \A u \in Updates : Done(u) => Done(u)'
<1>1. \A k \in Keys : outcome[k] \in {"done", "failed"} => outcome'[k] = outcome[k]
  <2>1. CASE UNCHANGED ledger
    BY <2>1 DEF ledger
  <2>2. CASE \E k \in Keys : Gate!Open(k) \/ Settle(k)
    BY <2>2 DEF IInv, TypeOK, Gate!Open, Settle, Gate!CompleteWith, Gate!Fail
  <2>3. QED
    BY <2>1, <2>2, LedgerMoves
<1>2. QED
  BY <1>1 DEF Done, Attempts

-----------------------------------------------------------------------------
(* The queue                                                               *)

LEMMA SentGrows ==
  ASSUME TypeOK, [Next]_vars
  PROVE  /\ Len(sent) <= Len(sent') /\ \A u \in 1 .. Len(sent) : sent'[u] = sent[u]
<1>1. CASE UserSends
  BY <1>1 DEF UserSends, TypeOK
<1>2. CASE UNCHANGED sent
  BY <1>2, SentLength
<1>3. CASE ~UserSends
  BY <1>2, <1>3 DEF Next, vars, server, Poll, PollLost, Process, Take, Judge, Execute, ExecuteRaises,
     TurnCompletes, TurnFails, TurnRaises, Raised, ProofFails, Bind, Button, Deliver, AnswerSent,
     AnswerLost, NoticeSkipped, NoticeSent, NoticeLost, NoticeRepeated, Mark, Acknowledge, Lifecycle,
     Crash, Rejected, Start, StartRefused, OperatorStarts, Recover, RecoverEnds
<1>4. QED
  BY <1>1, <1>3

\* The batch and the checkpoint change in these steps only.
LEMMA QueueCases ==
  ASSUME [Next]_vars
  PROVE  \/ UNCHANGED <<batch, current, nextOffset>>
         \/ batch' = {} /\ current' = 0 /\ UNCHANGED nextOffset
         \/ Poll \/ Take \/ Acknowledge
<1>1. CASE UserSends \/ PollLost
  BY <1>1 DEF UserSends, PollLost, locals, tables
<1>2. CASE Process
  BY <1>2 DEF Process, Judge, Execute, ExecuteRaises, TurnCompletes, TurnFails, TurnRaises,
              Raised, ProofFails, Bind, Button, GiveNotice, locals, tables
<1>3. CASE Deliver
  BY <1>3, Abandoned DEF Deliver, AnswerSent, AnswerLost, NoticeSkipped, NoticeSent, NoticeLost,
              NoticeRepeated, Mark, Noticed, Halt, locals, tables
<1>4. CASE Lifecycle
  BY <1>4, Abandoned DEF Lifecycle, Crash, Rejected, Halt, Start, StartRefused, OperatorStarts,
              Recover, RecoverEnds, locals, tables
<1>5. CASE UNCHANGED vars
  BY <1>5 DEF vars, locals, tables
<1>6. QED
  BY <1>1, <1>2, <1>3, <1>4, <1>5 DEF Next

LEMMA QueueStep ==
  ASSUME IInv, [Next]_vars
  PROVE  QueueInv'
<1> USE DEF IInv, TypeOK
<1>0. Len(sent) \in Nat /\ Len(sent') \in Nat /\ Len(sent) <= Len(sent')
  BY SentGrows, SentLength, TypeStep
<1>1. PICK last \in 0 .. Len(sent) : batch = {u \in 1 .. last : u >= nextOffset /\ u > current}
  BY DEF QueueInv
<1>2. CASE UNCHANGED <<batch, current, nextOffset>>
  BY <1>0, <1>1, <1>2 DEF QueueInv
<1>3. CASE batch' = {} /\ current' = 0
  <2>1. 0 \in 0 .. Len(sent') /\ batch' = {u \in 1 .. 0 : u >= nextOffset' /\ u > current'}
    BY <1>0, <1>3
  <2>2. QED
    BY <1>3, <2>1 DEF QueueInv
<1>4. CASE Poll
  <2>1. current' = 0 /\ UNCHANGED <<sent, nextOffset>>
    BY <1>4 DEF Poll, StageInv, Between, tables
  <2>2. PICK e \in 0 .. Len(sent) : batch' = {u \in 1 .. e : u >= nextOffset}
    <3>1. CASE batch' = {}
      BY <3>1, <1>0
    <3>2. CASE batch' # {}
      <4>1. PICK e \in 1 .. Len(sent) : batch' = {u \in {v \in 1 .. Len(sent) : v >= nextOffset} : u <= e}
        BY <1>4, <3>2 DEF Poll, Fetched
      <4>2. batch' = {u \in 1 .. e : u >= nextOffset}
        BY <4>1, <1>0
      <4>3. QED
        BY <4>2
    <3>3. QED
      BY <3>1, <3>2
  <2>3. QED
    BY <2>1, <2>2 DEF QueueInv
<1>5. CASE Take
  <2> DEFINE left == {u \in batch : u >= nextOffset}
  <2>1. current = 0 /\ UNCHANGED <<sent, nextOffset>>
    BY <1>5 DEF Take, StageInv, Between, server, tables
  <2>2. CASE left = {}
    BY <1>3, <1>5, <2>2, Abandoned DEF Take
  <2>3. CASE left # {}
    <3>1. PICK u \in left : (\A v \in left : u <= v) /\ current' = u /\ batch' = left \ {u}
      BY <1>5, <2>3 DEF Take
    <3>2. u \in 1 .. last /\ u >= nextOffset
      BY <3>1, <1>1
    <3>3. u = 1 \/ u - 1 < nextOffset
      <4>1. SUFFICES ASSUME u # 1, u - 1 >= nextOffset PROVE FALSE
        BY <3>2
      <4>2. u - 1 \in left
        BY <4>1, <3>2, <1>1, <2>1
      <4>3. QED
        BY <4>2, <3>1, <3>2
    <3>4. batch' = {v \in 1 .. last : v >= nextOffset /\ v > u}
      BY <3>1, <3>2, <1>1, <2>1
    <3>5. QED
      BY <1>0, <2>1, <3>1, <3>2, <3>3, <3>4 DEF QueueInv
  <2>4. QED
    BY <2>2, <2>3
<1>6. CASE Acknowledge
  <2>1. current \in 1 .. Len(sent) /\ current >= nextOffset
    BY <1>6, AtHand DEF Acknowledge, QueueInv, Between
  <2>2. nextOffset' = current + 1 /\ current' = 0 /\ batch' = batch
    BY <1>6, <2>1 DEF Acknowledge
  <2>3. batch' = {v \in 1 .. last : v >= nextOffset' /\ v > current'}
    BY <1>1, <2>1, <2>2
  <2>4. QED
    BY <1>0, <2>2, <2>3 DEF QueueInv
<1>7. QED
  BY <1>2, <1>3, <1>4, <1>5, <1>6, QueueCases

LEMMA OffsetGrows ==
  ASSUME IInv, [Next]_vars
  PROVE  nextOffset \in Nat /\ nextOffset' \in Nat /\ nextOffset <= nextOffset'
<1>1. nextOffset \in Nat
  BY SentLength DEF IInv, TypeOK
<1>2. CASE Acknowledge
  BY <1>1, <1>2, AtHand DEF Acknowledge, Between, IInv, TypeOK
<1>3. CASE Poll \/ Take
  BY <1>1, <1>3 DEF Poll, Take, tables
<1>4. QED
  BY <1>1, <1>2, <1>3, QueueCases

LEMMA OrderStep ==
  ASSUME IInv, [Next]_vars
  PROVE  OrderInv'
<1> USE DEF IInv
<1> SUFFICES ASSUME NEW u \in Updates, Attempts(u)' # {} PROVE u - 1 < nextOffset' \/ u = 1
  BY DEF OrderInv
<1>0. u \in Nat /\ nextOffset \in Nat /\ nextOffset' \in Nat /\ nextOffset <= nextOffset'
  BY OffsetGrows DEF Updates
<1>1. SUFFICES Attempts(u) # {} \/ u - 1 < nextOffset \/ u = 1
  BY <1>0 DEF OrderInv
<1>2. CASE UNCHANGED ledger
  BY <1>2 DEF Attempts, ledger
<1>3. CASE OpensOriginal
  <2>1. CASE u = current
    BY <1>0, <1>3, <2>1 DEF OpensOriginal, QueueInv, StageInv, Between
  <2>2. CASE u # current
    <3>1. \A k \in Keys : k[1] = u => outcome'[k] = outcome[k]
      BY <1>3, <2>2, AtHand, KeyFacts DEF OpensOriginal, Gate!Open, TypeOK, Between
    <3>2. QED
      BY <3>1 DEF Attempts
  <2>3. QED
    BY <2>1, <2>2
<1>4. CASE OpensRecovery
  <2>1. PICK v \in Updates : /\ outcome[Original(v)] # "new"
                              /\ LET k == <<v, LastAttempt(v)[2] + 1>> IN k \in Keys /\ Gate!Open(k)
    BY <1>4 DEF OpensRecovery
  <2>2. PICK n \in 1 .. MaxAttempts + 1 : LastAttempt(v) = <<v, n - 1>>
    BY <2>1, Recovered
  <2>3. <<v, n>> \in Keys /\ Gate!Open(<<v, n>>)
    BY <2>1, <2>2, BoundsAssumption
  <2>4. CASE u = v
    BY <2>1, <2>4, KeyFacts DEF Attempts
  <2>5. CASE u # v
    <3>1. \A k \in Keys : k[1] = u => outcome'[k] = outcome[k]
      BY <2>3, <2>5, KeyFacts DEF Gate!Open, TypeOK
    <3>2. QED
      BY <3>1 DEF Attempts
  <2>6. QED
    BY <2>4, <2>5
<1>5. CASE SettlesTurn \/ SettlesRecovery
  <2>1. PICK k \in Keys : Settle(k)
    BY <1>5, AtHand, KeyFacts DEF SettlesTurn, SettlesRecovery, TypeOK, Between
  <2>2. \A j \in Keys : outcome'[j] # "new" => outcome[j] # "new"
    BY <2>1 DEF Settle, Gate!CompleteWith, Gate!Fail, TypeOK
  <2>3. QED
    BY <2>2 DEF Attempts
<1>6. QED
  BY <1>2, <1>3, <1>4, <1>5, LedgerCases

-----------------------------------------------------------------------------
(* What the user is told                                                   *)

\* A message is about the update at hand.
LEMMA ToldCases ==
  ASSUME [Next]_vars
  PROVE  UNCHANGED told \/ \E message : Tell(message)
<1>1. CASE UserSends \/ Poll \/ PollLost
  BY <1>1 DEF UserSends, Poll, PollLost
<1>2. CASE Process
  BY <1>2 DEF Process, Take, Judge, Execute, ExecuteRaises, TurnCompletes, TurnFails, TurnRaises,
              Raised, ProofFails, Bind, Button, Edited
<1>3. CASE Deliver
  BY <1>3 DEF Deliver, AnswerSent, AnswerLost, TellPerhaps, NoticeSkipped, NoticeSent, NoticeLost,
              NoticeRepeated, Mark, Acknowledge
<1>4. CASE Lifecycle
  BY <1>4 DEF Lifecycle, Crash, Rejected, Start, StartRefused, OperatorStarts, Recover, RecoverEnds
<1>5. QED
  BY <1>1, <1>2, <1>3, <1>4 DEF Next, vars

LEMMA ToldGrows ==
  ASSUME TypeOK, [Next]_vars
  PROVE  \A u \in Updates : told[u] \subseteq told'[u]
BY ToldCases DEF TypeOK, Tell

LEMMA AnsweredStays ==
  ASSUME IInv, [Next]_vars, NEW u \in 1 .. Len(sent), Answered(u)
  PROVE  Answered(u)'
<1>1. u \in Updates /\ Original(u) \in Keys
  BY KeyFacts, SentLength, BoundsAssumption DEF IInv, TypeOK, Updates
<1>2. sent'[u] = sent[u] /\ told[u] \subseteq told'[u]
  BY <1>1, SentGrows, ToldGrows DEF IInv
<1>3. /\ Done(u) => Done(u)'
      /\ outcome[Original(u)] = "failed" => outcome'[Original(u)] = "failed"
  BY <1>1, Settled
<1>4. QED
  BY <1>2, <1>3 DEF Answered, Original

LEMMA NoticesStep ==
  ASSUME IInv, [Next]_vars
  PROVE  NoticesInv'
<1> USE DEF IInv
<1>1. CASE Mark
  <2>1. current \in Updates /\ told[current] \cap NoticeKinds # {}
    BY <1>1, AtHand DEF Mark, StageInv, Between
  <2>2. \A u \in Updates \ {current} : notices'[u] = notices[u]
    BY <1>1 DEF Mark, TypeOK
  <2>3. QED
    BY <2>1, <2>2, ToldGrows DEF NoticesInv
<1>2. CASE ~Mark
  <2>1. UNCHANGED notices
    <3>1. CASE UserSends \/ Poll \/ PollLost
      BY <3>1 DEF UserSends, Poll, PollLost, tables
    <3>2. CASE Process
      BY <3>2 DEF Process, Take, Judge, Execute, ExecuteRaises, TurnCompletes, TurnFails,
                  TurnRaises, Raised, ProofFails, Bind, Button, tables
    <3>3. CASE Deliver
      BY <1>2, <3>3 DEF Deliver, AnswerSent, AnswerLost, NoticeSkipped, NoticeSent, NoticeLost,
                        NoticeRepeated, Acknowledge, tables
    <3>4. CASE Lifecycle
      BY <3>4 DEF Lifecycle, Crash, Rejected, Start, StartRefused, OperatorStarts, Recover,
                  RecoverEnds, tables
    <3>5. QED
      BY <3>1, <3>2, <3>3, <3>4 DEF Next, vars, tables
  <2>2. QED
    BY <2>1, ToldGrows DEF NoticesInv
<1>3. QED
  BY <1>1, <1>2

-----------------------------------------------------------------------------
(* The update at hand                                                      *)

LEMMA StageKept ==
  ASSUME StageInv, UNCHANGED <<pc, current, notice, outcome, told>>,
         current # 0 => sent'[current] = sent[current]
  PROVE  StageInv'
BY DEF StageInv, Between, TextStages, Original, Lineage, Done, Attempts, ProvenFailure, Answered

LEMMA StageLeft ==
  ASSUME pc' \in Between, current' = 0
  PROVE  StageInv'
BY DEF StageInv, Between, TextStages

\* A proof that nothing has changed covers the original request.
LEMMA ProvenOriginal ==
  ASSUME TypeOK, LineageInv, NEW u \in Updates, ProvenFailure(u)
  PROVE  outcome[Original(u)] = "failed"
<1>1. PICK n \in 0 .. MaxAttempts + 1 : Lineage(u, n)
  BY DEF LineageInv
<1>2. n > 0
  BY <1>1, AttemptsAre DEF ProvenFailure
<1>3. Original(u) \in Attempts(u)
  BY <1>1, <1>2, AttemptsAre, BoundsAssumption DEF Original
<1>4. QED
  BY <1>3 DEF ProvenFailure

\* The poller goes on with the same update.
LEMMA StageProcess ==
  ASSUME IInv, Process
  PROVE  StageInv'
<1> USE DEF IInv
<1>1. CASE Take
  <2> DEFINE left == {u \in batch : u >= nextOffset}
  <2>1. CASE left = {}
    BY <1>1, <2>1, Abandoned, StageLeft DEF Take, Between
  <2>2. CASE left # {}
    <3>1. PICK u \in left :
            /\ current' = u
            /\ pc' = (CASE sent[u] = "text" -> "judge"
                      [] sent[u] \in {"view", "button"} -> sent[u]
                      [] sent[u] = "ignored" -> "ack")
      BY <1>1, <2>2 DEF Take, Goto
    <3>2. u \in 1 .. Len(sent) /\ sent[u] \in Kinds /\ UNCHANGED sent
      BY <1>1, <3>1 DEF Take, TypeOK, server
    <3>3. \/ sent[u] = "text" /\ pc' = "judge"
          \/ sent[u] \in {"view", "button"} /\ pc' = sent[u]
          \/ sent[u] = "ignored" /\ pc' = "ack"
      BY <3>1, <3>2 DEF Kinds
    <3>4. QED
      BY <3>1, <3>2, <3>3 DEF StageInv, Between, TextStages, Answered
  <2>3. QED
    BY <2>1, <2>2
<1>2. CASE ~Take
  <2>0. /\ current \in 1 .. Len(sent) /\ current \in Updates /\ current # 0
        /\ pc \notin Between /\ UNCHANGED <<current, sent>>
    BY <1>2, AtHand DEF Process, Judge, Execute, ExecuteRaises, TurnCompletes, TurnFails, TurnRaises,
       Raised, ProofFails, Bind, Button, GiveNotice, Between, server, locals
  <2> USE DEF Goto
  <2>1. CASE Judge
    <3>0. sent[current] = "text" /\ UNCHANGED <<outcome, told>>
      BY <2>1 DEF Judge, StageInv, TextStages, ledger
    <3>1. CASE pc' = "bind"
      <4>1. outcome[Original(current)] # "new" /\ outcome[LastAttempt(current)] = "done"
        BY <2>1, <3>1 DEF Judge, GiveNotice
      <4>2. PICK n \in 1 .. MaxAttempts + 1 :
              Lineage(current, n) /\ LastAttempt(current) = <<current, n - 1>>
        BY <2>0, <4>1, Recovered
      <4>3. LastAttempt(current) \in Attempts(current)
        BY <2>0, <4>2, AttemptsAre, BoundsAssumption
      <4>4. Done(current)'
        BY <2>0, <3>0, <4>1, <4>3 DEF Done, Attempts
      <4>5. QED
        BY <2>0, <3>0, <3>1, <4>4 DEF StageInv, Between, TextStages
    <3>2. CASE pc' = "notice"
      <4>1. notice' \in NoticeKinds /\ (notice' = "no_mutation" => ProvenFailure(current))
        BY <2>1, <3>2 DEF Judge, GiveNotice, NoticeKinds
      <4>2. QED
        BY <2>0, <3>0, <3>2, <4>1 DEF StageInv, Between, TextStages, ProvenFailure, Attempts
    <3>3. CASE pc' = "execute"
      <4>1. outcome[Original(current)] \in {"new", "done"}
        BY <2>0, <2>1, <3>3, KeyFacts DEF Judge, GiveNotice, TypeOK
      <4>2. QED
        BY <2>0, <3>0, <3>3, <4>1 DEF StageInv, Between, TextStages, Original
    <3>4. QED
      BY <2>1, <3>1, <3>2, <3>3 DEF Judge, GiveNotice
  <2>2. CASE Execute
    <3>0. sent[current] = "text" /\ outcome[Original(current)] \in {"new", "done"}
      BY <2>2 DEF Execute, StageInv, TextStages
    <3>1. CASE outcome[Original(current)] = "new"
      <4>1. PICK n \in 0 .. MaxAttempts + 1 : Lineage(current, n)
        BY <2>0 DEF LineageInv
      <4>2. n = 0
        BY <3>1, <4>1, BoundsAssumption DEF Lineage, Original
      <4>3. Gate!Open(<<current, 0>>) /\ pc' = "turn"
        BY <2>2, <3>1 DEF Execute, Original
      <4>4. Lineage(current, 1)'
        <5>1. Lineage(current, 0) /\ 0 \in 0 .. MaxAttempts
          BY <4>1, <4>2, BoundsAssumption
        <5>2. \A a \in 0 .. MaxAttempts : outcome[<<current, a>>] # "done"
          BY <5>1, BoundsAssumption DEF Lineage
        <5>3. Lineage(current, 0 + 1)'
          BY <2>0, <4>3, <5>1, <5>2, OpenedLineage
        <5>4. QED
          BY <5>3
      <4>5. outcome'[Original(current)] = "open"
        BY <2>0, <4>3, KeyFacts DEF Gate!Open, Original, TypeOK
      <4>6. QED
        BY <2>0, <3>0, <4>3, <4>4, <4>5 DEF StageInv, Between, TextStages, Original, Lineage
    <3>2. CASE outcome[Original(current)] = "done"
      <4>1. Original(current) \in Attempts(current) /\ UNCHANGED outcome
        BY <2>0, <2>2, <3>2, KeyFacts DEF Execute, Attempts, ledger
      <4>2. Done(current)' /\ pc' \in {"bind", "raised"}
        BY <2>0, <2>2, <3>2, <4>1 DEF Execute, Done, Attempts, Original
      <4>3. QED
        BY <2>0, <3>0, <4>2 DEF StageInv, Between, TextStages
    <3>3. QED
      BY <3>0, <3>1, <3>2
  <2>3. CASE ExecuteRaises \/ TurnFails \/ TurnRaises
    BY <2>0, <2>3 DEF ExecuteRaises, TurnFails, TurnRaises, StageInv, Between, TextStages
  <2>4. CASE TurnCompletes
    <3>1. outcome'[Original(current)] = "done"
      BY <2>0, <2>4, KeyFacts DEF TurnCompletes, Gate!CompleteWith, TypeOK
    <3>2. Done(current)'
      BY <2>0, <3>1, KeyFacts DEF Done, Attempts, Original
    <3>3. QED
      BY <2>0, <2>4, <3>2 DEF TurnCompletes, StageInv, Between, TextStages
  <2>5. CASE Raised \/ ProofFails
    <3>1. /\ sent[current] = "text" /\ UNCHANGED outcome /\ pc' = "notice"
          /\ notice' \in NoticeKinds /\ (notice' = "no_mutation" => ProvenFailure(current))
      BY <2>5 DEF Raised, ProofFails, GiveNotice, NoticeKinds, StageInv, TextStages, ledger
    <3>2. QED
      BY <2>0, <3>1 DEF StageInv, Between, TextStages, ProvenFailure, Attempts
  <2>6. CASE Bind
    BY <2>0, <2>6 DEF Bind, StageInv, Between, TextStages, Done, Attempts, ledger
  <2>7. CASE Button
    BY <2>0, <2>7 DEF Button, StageInv, Between, TextStages, Answered
  <2>8. QED
    BY <1>2, <2>1, <2>2, <2>3, <2>4, <2>5, <2>6, <2>7 DEF Process
<1>3. QED
  BY <1>1, <1>2

LEMMA StageDeliver ==
  ASSUME IInv, Deliver
  PROVE  StageInv'
<1> USE DEF IInv, Goto
<1>0. /\ current \in 1 .. Len(sent) /\ current \in Updates /\ current # 0
      /\ pc \notin Between /\ UNCHANGED <<sent, outcome>>
  BY AtHand DEF Deliver, AnswerSent, AnswerLost, NoticeSkipped, NoticeSent, NoticeLost,
     NoticeRepeated, Mark, Acknowledge, Between, server, ledger
<1>1. CASE AnswerSent
  <2>1. told'[current] = told[current] \cup {Answer} /\ UNCHANGED current /\ pc' = "ack"
    BY <1>0, <1>1 DEF AnswerSent, Tell, TypeOK, locals
  <2>2. CASE pc = "view"
    <3>1. sent[current] = "view" /\ "view" \in told'[current]
      BY <2>1, <2>2 DEF Answer, StageInv
    <3>2. QED
      BY <1>0, <2>1, <3>1 DEF StageInv, Between, TextStages, Answered
  <2>3. CASE pc = "reply"
    <3>1. sent[current] = "text" /\ "result" \in told'[current] /\ Done(current)
      BY <2>1, <2>3 DEF Answer, StageInv, TextStages
    <3>2. Done(current)'
      BY <1>0, <2>1, <3>1 DEF Done, Attempts
    <3>3. QED
      BY <1>0, <2>1, <3>1, <3>2 DEF StageInv, Between, TextStages, Answered
  <2>4. QED
    BY <1>1, <2>2, <2>3 DEF AnswerSent
<1>2. CASE AnswerLost \/ NoticeLost
  BY <1>2, Abandoned, StageLeft DEF AnswerLost, NoticeLost, Between
<1>3. CASE NoticeSent \/ NoticeRepeated
  <2>1. pc = "notice" /\ pc' = "mark" /\ UNCHANGED <<current, notice>>
    BY <1>3 DEF NoticeSent, NoticeRepeated, locals
  <2>2. /\ sent[current] = "text" /\ notice \in NoticeKinds
        /\ (notice = "no_mutation" => ProvenFailure(current))
    BY <2>1 DEF StageInv, TextStages
  <2>3. notice \in told'[current]
    BY <1>0, <1>3 DEF NoticeSent, NoticeRepeated, Tell, TypeOK
  <2>4. QED
    BY <1>0, <2>1, <2>2, <2>3 DEF StageInv, Between, TextStages, ProvenFailure, Attempts
<1>4. CASE NoticeSkipped \/ Mark
  <2>1. CASE notice = "no_mutation"
    <3>1. /\ sent[current] = "text" /\ ProvenFailure(current) /\ told[current] \cap NoticeKinds # {}
          /\ pc' = "ack" /\ UNCHANGED <<current, told>>
      BY <1>0, <1>4, <2>1 DEF NoticeSkipped, Mark, Noticed, StageInv, TextStages, NoticesInv, locals
    <3>2. outcome[Original(current)] = "failed"
      BY <1>0, <3>1, ProvenOriginal
    <3>3. QED
      BY <1>0, <3>1, <3>2 DEF StageInv, Between, TextStages, Answered, Original
  <2>2. CASE notice # "no_mutation"
    BY <1>4, <2>2, Abandoned, StageLeft DEF NoticeSkipped, Mark, Noticed, Halt, Between
  <2>3. QED
    BY <2>1, <2>2
<1>5. CASE Acknowledge
  BY <1>5, StageLeft DEF Acknowledge, Between
<1>6. QED
  BY <1>1, <1>2, <1>3, <1>4, <1>5 DEF Deliver

LEMMA StageStep ==
  ASSUME IInv, [Next]_vars
  PROVE  StageInv'
<1> USE DEF IInv
<1>1. CASE UserSends \/ PollLost \/ UNCHANGED vars
  <2>1. UNCHANGED <<pc, current, notice, outcome, told>>
    BY <1>1 DEF UserSends, PollLost, vars, ledger, locals
  <2>2. current # 0 => sent'[current] = sent[current]
    BY SentGrows, SentLength DEF TypeOK
  <2>3. QED
    BY <2>1, <2>2, StageKept
<1>2. CASE Poll
  BY <1>2, StageLeft DEF Poll, StageInv, Goto, Between
<1>3. CASE Lifecycle
  <2>1. CASE Crash \/ Rejected
    BY <2>1, Abandoned, StageLeft DEF Crash, Rejected, Halt, Between
  <2>2. CASE Start
    BY <2>2, StageLeft DEF Start, StageInv, Goto, Between, locals
  <2>3. CASE StartRefused \/ Recover \/ RecoverEnds
    <3>1. pc = "down" /\ UNCHANGED <<pc, current>>
      BY <2>3 DEF StartRefused, Recover, RecoverEnds, SingletonFree, OperatorInv, locals
    <3>2. QED
      BY <3>1, StageLeft DEF StageInv, Between
  <2>4. CASE OperatorStarts
    BY <2>4, StageKept DEF OperatorStarts, server, ledger, locals
  <2>5. QED
    BY <1>3, <2>1, <2>2, <2>3, <2>4 DEF Lifecycle
<1>4. QED
  BY <1>1, <1>2, <1>3, StageProcess, StageDeliver DEF Next

-----------------------------------------------------------------------------
(* Recoveries                                                              *)

LEMMA OperatorStep ==
  ASSUME IInv, [Next]_vars
  PROVE  OperatorInv'
<1> USE DEF IInv
<1>1. CASE Recover
  <2>1. PICK u \in Updates :
          /\ outcome[Original(u)] # "new" /\ outcome[LastAttempt(u)] # "done"
          /\ LET k == <<u, LastAttempt(u)[2] + 1>> IN k \in Keys /\ Gate!Open(k) /\ operator' = k
    BY <1>1 DEF Recover
  <2>2. PICK n \in 1 .. MaxAttempts + 1 : Lineage(u, n) /\ LastAttempt(u) = <<u, n - 1>>
    BY <2>1, Recovered
  <2>3. <<u, n>> \in Keys /\ Gate!Open(<<u, n>>) /\ operator' = <<u, n>>
    BY <2>1, <2>2, BoundsAssumption
  <2>4. n \in 0 .. MaxAttempts
    BY <2>3 DEF Keys
  <2>5. \A a \in 0 .. MaxAttempts : outcome[<<u, a>>] # "done"
    BY <2>1, <2>2, BoundsAssumption DEF Lineage
  <2>6. Lineage(u, n + 1)'
    BY <2>2, <2>3, <2>4, <2>5, OpenedLineage
  <2>7. outcome'[<<u, n>>] = "open" /\ pc' = "down"
    BY <1>1, <2>3 DEF Recover, SingletonFree, Gate!Open, TypeOK
  <2>8. QED
    BY <2>3, <2>4, <2>6, <2>7, KeyFacts DEF OperatorInv
<1>2. CASE RecoverEnds
  BY <1>2 DEF RecoverEnds, OperatorInv
<1>3. CASE ~Recover /\ ~RecoverEnds
  <2>1. UNCHANGED operator
    <3>1. CASE UserSends \/ Poll \/ PollLost
      BY <3>1 DEF UserSends, Poll, PollLost, unit
    <3>2. CASE Process
      BY <3>2 DEF Process, Take, Judge, Execute, ExecuteRaises, TurnCompletes, TurnFails,
                  TurnRaises, Raised, ProofFails, Bind, Button, unit
    <3>3. CASE Deliver
      BY <3>3 DEF Deliver, AnswerSent, AnswerLost, NoticeSkipped, NoticeSent, NoticeLost,
                  NoticeRepeated, Mark, Noticed, Halt, Acknowledge, unit
    <3>4. CASE Lifecycle
      BY <1>3, <3>4 DEF Lifecycle, Crash, Rejected, Halt, Start, StartRefused, OperatorStarts
    <3>5. QED
      BY <3>1, <3>2, <3>3, <3>4 DEF Next, vars, unit
  <2>2. SUFFICES ASSUME operator # Idle PROVE OperatorInv'
    BY <2>1 DEF OperatorInv
  <2>3. pc = "down" /\ operator \in Keys
    BY <2>2 DEF OperatorInv, TypeOK
  <2>4. UNCHANGED outcome /\ pc' = "down"
    <3>1. CASE UserSends
      BY <2>3, <3>1 DEF UserSends, ledger
    <3>2. CASE Poll \/ PollLost \/ Process \/ Deliver
      BY <2>3, <3>2 DEF Poll, PollLost, Process, Take, Judge, Execute, ExecuteRaises, TurnCompletes,
         TurnFails, TurnRaises, Raised, ProofFails, Bind, Button, Deliver, AnswerSent, AnswerLost,
         NoticeSkipped, NoticeSent, NoticeLost, NoticeRepeated, Mark, Acknowledge
    <3>3. CASE Lifecycle
      BY <1>3, <2>2, <2>3, <3>3 DEF Lifecycle, Crash, Rejected, Start, StartRefused, OperatorStarts,
         SingletonFree, ledger
    <3>4. CASE UNCHANGED vars
      BY <2>3, <3>4 DEF vars, ledger
    <3>5. QED
      BY <3>1, <3>2, <3>3, <3>4 DEF Next
  <2>5. QED
    BY <2>1, <2>2, <2>3, <2>4 DEF OperatorInv, Lineage
<1>4. QED
  BY <1>1, <1>2, <1>3

-----------------------------------------------------------------------------
(* The checkpoint                                                          *)

LEMMA CheckpointStep ==
  ASSUME IInv, [Next]_vars
  PROVE  CheckpointAfterAnswer'
<1> USE DEF IInv
<1>0. \A u \in 1 .. Len(sent) : u < nextOffset => Answered(u)
  BY DEF CheckpointAfterAnswer, Acknowledged, Answered
<1> SUFFICES ASSUME NEW u \in 1 .. Len(sent'), u < nextOffset' PROVE Answered(u)'
  BY DEF CheckpointAfterAnswer, Acknowledged, Answered
<1>1. u \in 1 .. Len(sent) /\ Answered(u)
  <2>1. CASE Acknowledge
    <3>1. /\ current \in 1 .. Len(sent) /\ Answered(current) /\ UNCHANGED sent
          /\ current >= nextOffset /\ (current = 1 \/ current - 1 < nextOffset)
      BY <2>1, AtHand DEF Acknowledge, StageInv, QueueInv, Between, server
    <3>2. nextOffset' = current + 1
      BY <2>1, <3>1, OffsetGrows DEF Acknowledge
    <3>3. u < nextOffset \/ u = current
      BY <3>1, <3>2, OffsetGrows
    <3>4. QED
      BY <1>0, <3>1, <3>3
  <2>2. CASE UNCHANGED nextOffset
    <3>1. Len(sent) \in Nat /\ Len(sent') \in Nat
      BY SentLength, TypeStep
    <3>2. CASE u \in 1 .. Len(sent)
      BY <1>0, <2>2, <3>2
    <3>3. CASE u \notin 1 .. Len(sent)
      <4>1. nextOffset <= Len(sent) + 1 /\ nextOffset \in Nat
        BY <3>1 DEF TypeOK
      <4>2. QED
        BY <2>2, <3>1, <3>3, <4>1
    <3>4. QED
      BY <3>2, <3>3
  <2>3. QED
    BY <2>1, <2>2, QueueCases DEF Poll, Take, tables
<1>2. QED
  BY <1>1, AnsweredStays

-----------------------------------------------------------------------------
(* Theorems                                                                *)

LEMMA Initially == Init => IInv
<1> SUFFICES ASSUME Init PROVE IInv
  OBVIOUS
<1> USE BoundsAssumption DEF Init
<1>1. TypeOK
  <2>1. sent \in Seq(Kinds) /\ Len(sent) = 0 /\ 0 \in 0 .. Len(sent) /\ 0 \in 0 .. Len(sent) + 1
    OBVIOUS
  <2>2. applied \in [Keys -> SUBSET {Turn}] /\ outcome \in [Keys -> {"new", "open", "done", "failed"}]
    OBVIOUS
  <2>3. /\ confirmed \in 0 .. nextOffset /\ nextOffset \in 0 .. Len(sent) + 1
        /\ batch \subseteq 1 .. Len(sent) /\ current \in 0 .. Len(sent)
    BY <2>1
  <2>4. /\ told \in [Updates -> SUBSET (NoticeKinds \cup Screens \cup {"result", "part", "view"})]
        /\ notices \in [Updates -> NoticeKinds \cup {"none"}]
        /\ requested \in [Updates -> BOOLEAN]
    OBVIOUS
  <2>5. pc \in Stages /\ notice \in NoticeKinds \cup {"none"} /\ operator \in Keys \cup {Idle}
    BY DEF Stages
  <2>6. Len(sent) <= MaxUpdates /\ faults \in 0 .. MaxFaults
    BY <2>1
  <2>7. binding \in BOOLEAN /\ conversation \in BOOLEAN /\ stopped \in BOOLEAN
    OBVIOUS
  <2>8. QED
    BY <2>1, <2>2, <2>3, <2>4, <2>5, <2>6, <2>7 DEF TypeOK
<1>2. \A u \in Updates : Attempts(u) = {} /\ Lineage(u, 0)
  BY KeyFacts DEF Attempts, Lineage
<1>3. QueueInv
  <2>1. 0 \in 0 .. Len(sent) /\ batch = {u \in 1 .. 0 : u >= nextOffset /\ u > current}
    OBVIOUS
  <2>2. QED
    BY <2>1 DEF QueueInv
<1>4. LineageInv /\ OrderInv /\ NoticesInv /\ AppliedInv
  BY <1>2 DEF LineageInv, OrderInv, NoticesInv, AppliedInv
<1>5. StageInv /\ OperatorInv /\ CheckpointAfterAnswer
  BY DEF StageInv, Between, TextStages, OperatorInv, CheckpointAfterAnswer, Acknowledged
<1>6. QED
  BY <1>1, <1>3, <1>4, <1>5 DEF IInv

LEMMA Inductive == IInv /\ [Next]_vars => IInv'
<1> SUFFICES ASSUME IInv, [Next]_vars PROVE IInv'
  OBVIOUS
<1>1. TypeOK'
  BY TypeStep DEF IInv
<1>2. QED
  BY <1>1, LineageStep, AppliedStep, QueueStep, OrderStep, NoticesStep, StageStep, OperatorStep,
     CheckpointStep DEF IInv

LEMMA Invariant == Spec => []IInv
<1>1. QED
  BY Initially, Inductive, PTL DEF Spec

(***************************************************************************)
(* However often updates are delivered, retried or recovered, an update is *)
(* applied once at most, is never attempted again after that, and waits    *)
(* for the one before it (process_update, recover_update).                 *)
(***************************************************************************)
THEOREM UpdatesAreAppliedOnce == Spec => []OneTurnPerUpdate
<1>1. IInv => OneTurnPerUpdate
  <2> SUFFICES ASSUME IInv, NEW u \in Updates, NEW k \in Attempts(u)
               PROVE  /\ \A j \in Attempts(u) : applied[j] # {} => k[2] <= j[2]
                      /\ u - 1 < nextOffset \/ u = 1
    BY DEF OneTurnPerUpdate, IInv
  <2>1. PICK n \in 0 .. MaxAttempts + 1 : Lineage(u, n)
    BY DEF IInv, LineageInv
  <2>2. k[2] \in 0 .. MaxAttempts /\ k[2] < n
    BY <2>1, AttemptsAre
  <2>3. ASSUME NEW j \in Attempts(u), applied[j] # {} PROVE k[2] <= j[2]
    <3>1. outcome[j] = "done"
      BY <2>3 DEF IInv, AppliedInv, Attempts
    <3>2. j = <<u, j[2]>> /\ j[2] \in 0 .. MaxAttempts
      BY <2>1, AttemptsAre
    <3>3. j[2] + 1 = n
      BY <2>1, <3>1, <3>2 DEF Lineage
    <3>4. QED
      BY <2>2, <3>2, <3>3, BoundsAssumption
  <2>4. QED
    BY <2>3 DEF IInv, OrderInv
<1>2. QED
  BY <1>1, Invariant, PTL

(***************************************************************************)
(* next_offset passes a text only when its whole result has been           *)
(* delivered, or its request has failed for good and the user was told     *)
(* (run_once, record_failure_notice).                                      *)
(***************************************************************************)
THEOREM CheckpointsFollowAnswers == Spec => []CheckpointAfterAnswer
<1>1. IInv => CheckpointAfterAnswer
  BY DEF IInv
<1>2. QED
  BY <1>1, Invariant, PTL

(***************************************************************************)
(* The message that nothing has changed is true when it is sent: every     *)
(* request of the update has failed, and none was applied                  *)
(* (_proven_no_mutation_failure, _notify_failure).                         *)
(***************************************************************************)
THEOREM NothingChangedIsProven == Spec => NothingChangedIsTrue
<1>1. IInv /\ [Next]_vars =>
        [\A u \in Updates : "no_mutation" \in told'[u] \ told[u] =>
           /\ Attempts(u) # {}
           /\ \A k \in Attempts(u) : outcome[k] = "failed" /\ applied[k] = {}]_vars
  <2> SUFFICES ASSUME IInv, Next, NEW u \in Updates, "no_mutation" \in told'[u], "no_mutation" \notin told[u]
               PROVE  /\ Attempts(u) # {}
                      /\ \A k \in Attempts(u) : outcome[k] = "failed" /\ applied[k] = {}
    BY DEF vars
  <2>1. pc = "notice" /\ notice = "no_mutation" /\ u = current
    <3>1. CASE \E message : Tell(message) /\ message # "no_mutation"
      BY <3>1 DEF Tell, IInv, TypeOK
    <3>2. CASE UNCHANGED told
      BY <3>2
    <3>3. CASE pc = "notice" /\ Tell(notice)
      BY <3>3 DEF Tell, IInv, TypeOK
    <3>4. CASE UserSends \/ Poll \/ PollLost \/ Process
      BY <3>1, <3>2, <3>4 DEF UserSends, Poll, PollLost, Process, Take, Judge, Execute,
         ExecuteRaises, TurnCompletes, TurnFails, TurnRaises, Raised, ProofFails, Bind, Button,
         Edited, Screens
    <3>5. CASE Deliver
      BY <3>1, <3>2, <3>3, <3>5 DEF Deliver, AnswerSent, AnswerLost, TellPerhaps, Answer,
         NoticeSkipped, NoticeSent, NoticeLost, NoticeRepeated, Mark, Acknowledge
    <3>6. CASE Lifecycle
      BY <3>2, <3>6 DEF Lifecycle, Crash, Rejected, Start, StartRefused, OperatorStarts, Recover,
         RecoverEnds
    <3>7. QED
      BY <3>4, <3>5, <3>6 DEF Next
  <2>2. ProvenFailure(u)
    BY <2>1 DEF IInv, StageInv
  <2>3. QED
    BY <2>2 DEF ProvenFailure, IInv, AppliedInv, Attempts
<1>2. QED
  BY <1>1, Invariant, PTL DEF Spec, NothingChangedIsTrue

=============================================================================
