---------------------------- MODULE RemoteCalls ----------------------------
(***************************************************************************)
(* The calls a turn waits for: one completion of a model over HTTP         *)
(* (agent/chatgpt_codex.py, agent/openai_compatible.py, agent/gemini.py),  *)
(* one by a Codex process (agent/codex_exec.py), and one method of the Bot *)
(* API (telegram/client.py).                                               *)
(*                                                                         *)
(* Servers fail at every stage and take as long as they like; a process    *)
(* writes what it likes, and starts helpers.  A response is the number of  *)
(* pieces of its text and whether it asks for a tool; the arguments of the *)
(* tool come in two pieces, of which the first alone is not JSON.          *)
(***************************************************************************)
EXTENDS Naturals, Sequences, FiniteSets, SequencesExt

CONSTANTS
  Models,      \* clients of models, a subset of AllModels
  MaxRetries, Timeout,
  MaxText,     \* bound on the pieces of a text
  MaxOutput,   \* bound on the events a Codex process writes
  None, Failed

AllModels == {"codex", "openai", "gemini", "exec"}

ASSUME RemoteAssumption ==
  /\ Models \subseteq AllModels
  /\ {MaxRetries, MaxText, MaxOutput} \subseteq Nat /\ Timeout \in Nat \ {0}

VARIABLES
  client,    \* who calls: one of Models, or "telegram"
  stage,     \* where the call stands; "over" without one
  attempt,
  clock,     \* since the call began; Timeout for all of the time after it
  answer,    \* None, Failed, or the response that the call returns
  response,  \* the response that the server is sending, with what it has sent
  parsed,    \* what the client has made of it
  leader, helper,  \* the Codex process, and one that it has started
  output, read     \* the events written, and how many of them are read

http == <<attempt, response, parsed>>
process == <<leader, helper, output, read>>
remoteVars == <<client, stage, attempt, clock, answer, response, parsed, process>>

At(s) == stage = s
Goto(s) == stage' = s /\ UNCHANGED answer
Return(value) == stage' = "over" /\ answer' = value

\* The clients that look at the time.
Timed == client \in {"codex", "exec"}
Overdue == clock >= Timeout

Tick ==
  /\ ~At("over") /\ Timed /\ ~Overdue
  /\ clock' = clock + 1
  /\ UNCHANGED <<client, stage, http, answer, process>>

-----------------------------------------------------------------------------
(* A call begins; the attempts of an HTTP client                           *)

BeginCall(c) ==
  /\ At("over")
  /\ client' = c /\ clock' = 0 /\ attempt' = 0
  /\ stage' = (IF c = "exec" THEN "spawn" ELSE "attempt") /\ answer' = None
  /\ response' = None /\ parsed' = None
  /\ leader' = "none" /\ helper' = "none" /\ output' = << >> /\ read' = 0

InTime == UNCHANGED <<client, clock>>

\* The token is read again for every attempt; a file that Codex has not written
\* to its end is not tried again.
ReadCredentials == IF client = "codex" THEN {TRUE, FALSE} ELSE {TRUE}

\* Only the Codex client has a deadline for all of the call.
Attempt ==
  /\ At("attempt")
  /\ IF client = "codex" /\ Overdue
     THEN Return(Failed)
     ELSE \E valid \in ReadCredentials : IF valid THEN Goto("sent") ELSE Return(Failed)
  /\ InTime /\ UNCHANGED <<http, process>>

Again == IF attempt < MaxRetries THEN Goto("sleep") ELSE Return(Failed)

\* What is tried again, by client.
Transient(status) ==
  status \in IF client = "gemini" THEN {503} ELSE {429, 503}

\* No connection, or no answer in time.
Unreached ==
  /\ At("sent")
  /\ Again
  /\ InTime /\ UNCHANGED <<http, process>>

\* The Codex client reads the error until its deadline.
ErrorRead == ~(client = "codex" /\ Overdue)

Refused ==
  /\ At("sent")
  /\ \E status \in {400, 429, 503} :
       IF Transient(status) /\ ErrorRead THEN Again ELSE Return(Failed)
  /\ InTime /\ UNCHANGED <<http, process>>

\* The backoff, or what Retry-After says: for Codex up to two seconds, for
\* Telegram up to thirty, for the others whatever it is, but not less than the
\* backoff.
Delayed == clock' \in IF Timed THEN clock .. Timeout ELSE {clock}

Sleep ==
  /\ At("sleep")
  /\ Delayed
  /\ attempt' = attempt + 1
  /\ Goto("attempt")
  /\ UNCHANGED <<client, response, parsed, process>>

Accepted ==
  /\ At("sent")
  /\ \E text \in 0 .. MaxText, tool \in BOOLEAN :
       response' = [text |-> text, tool |-> tool, texts |-> 0, events |-> << >>]
  /\ parsed' = [texts |-> 0, named |-> FALSE, pieces |-> 0, completed |-> None]
  /\ Goto("body")
  /\ InTime /\ UNCHANGED <<attempt, process>>

-----------------------------------------------------------------------------
(* The stream of the Codex backend                                         *)

ToolEvents == <<"added", "piece", "piece", "arguments", "item">>

\* What is sent of the tool call is in this order; the arguments may come whole
\* at once, and the item is always sent when it is complete.
MayFollow(events, e) ==
  LET sent == Len(events)
      rank(x) == CHOOSE k \in DOMAIN ToolEvents : ToolEvents[k] = x
  IN
  /\ IF sent = 0 THEN e = "added" ELSE rank(Last(events)) <= rank(e)
  /\ e = "piece" => Cardinality({k \in 1 .. sent : events[k] = "piece"}) < 2
  /\ e # "piece" => ~ Contains(events, e)

\* dispatch: one event of the stream.
Dispatched(p, e) ==
  CASE e = "text" -> [p EXCEPT !.texts = @ + 1]
    [] e = "added" -> [p EXCEPT !.named = TRUE, !.pieces = 0]
    [] e = "piece" -> [p EXCEPT !.pieces = @ + 1]
    [] e = "arguments" -> [p EXCEPT !.pieces = 2]
    [] e = "item" -> [p EXCEPT !.named = TRUE, !.pieces = 2]

\* Between two chunks the deadline is looked at.
Chunk ==
  /\ At("body") /\ client = "codex" /\ ~Overdue
  /\ \/ /\ response.texts < response.text
        /\ response' = [response EXCEPT !.texts = @ + 1]
        /\ parsed' = Dispatched(parsed, "text")
     \/ \E e \in ToSet(ToolEvents) :
          /\ response.tool /\ MayFollow(response.events, e)
          /\ response' = [response EXCEPT !.events = Append(@, e)]
          /\ parsed' = Dispatched(parsed, e)
  /\ InTime /\ UNCHANGED <<stage, attempt, answer, process>>

\* response.completed repeats the output, or leaves it out.
Completed ==
  /\ At("body") /\ client = "codex" /\ ~Overdue
  /\ response.texts = response.text
  /\ response.tool => Contains(response.events, "item")
  /\ parsed.completed = None
  /\ \E repeated \in BOOLEAN : parsed' = [parsed EXCEPT !.completed = repeated]
  /\ InTime /\ UNCHANGED <<stage, attempt, answer, response, process>>

\* _decode_function_call, whose arguments have to be JSON.
Decodes == parsed.named /\ parsed.pieces = 2
InStream == parsed.named \/ parsed.pieces > 0

\* Fault: a stream that has ended is taken for a complete one.
ParsedToTheEnd ==
  LET repeated == parsed.completed = TRUE
      text == IF repeated /\ response.text > 0 THEN response.text ELSE parsed.texts
      tool == repeated /\ response.tool
  IN IF ~tool /\ InStream /\ ~Decodes
     THEN Failed
     ELSE [text |-> text, tool |-> tool \/ InStream]

\* The end of parse_responses_sse: what the output does not have is taken from
\* the stream.
Parsed ==
  LET repeated == parsed.completed = TRUE
      text == IF repeated /\ response.text > 0 THEN response.text ELSE parsed.texts
      tool == repeated /\ response.tool
  IN IF parsed.completed = None \/ (~tool /\ InStream /\ ~Decodes)
     THEN Failed
     ELSE [text |-> text, tool |-> tool \/ InStream]

\* The stream ends, at its end or not; a tool that was not offered is an error.
StreamEnds ==
  /\ At("body") /\ client = "codex"
  /\ Return(Parsed) \/ Return(Failed)
  /\ InTime /\ UNCHANGED <<http, process>>

\* The deadline, at the next chunk or when none comes.
StreamIsOverdue ==
  /\ At("body") /\ client = "codex" /\ Overdue
  /\ Return(Failed)
  /\ InTime /\ UNCHANGED <<http, process>>

-----------------------------------------------------------------------------
(* The other clients read the body at once                                 *)

Body(c) ==
  /\ At("body") /\ client = c
  /\ InTime /\ UNCHANGED <<http, process>>

Whole == [text |-> response.text, tool |-> response.tool]

\* A malformed answer is not tried again, a transport error in it is.
ChatCompletion == Body("openai") /\ (Return(Whole) \/ Return(Failed) \/ Again)

\* The same; a connection that breaks is an exception of another kind here.
Candidate == Body("gemini") /\ (Return(Whole) \/ Return(Failed) \/ Again)

BotResult == Body("telegram") /\ (Return(Whole) \/ Return(Failed) \/ Again)

-----------------------------------------------------------------------------
(* The Codex process: it writes, starts a helper in its process group, which *)
(* may leave the group and keeps the output open, and ends.                  *)

Spawn ==
  /\ At("spawn")
  /\ \/ Return(Failed) /\ UNCHANGED process    \* no executable, too long a prompt
     \/ /\ Goto("watch")
        /\ leader' = "running" /\ UNCHANGED <<helper, output, read>>
  /\ InTime /\ UNCHANGED http

OnlyProcess == UNCHANGED <<client, stage, clock, answer, http>>

Alive == leader = "running" \/ helper \in {"group", "away"}

\* A tool also stands for more than max_output_bytes; an error for a line that is
\* not JSON, an unknown event and a failed turn.
WriteOutput ==
  /\ ~At("over") /\ Alive /\ Len(output) < MaxOutput
  /\ \E e \in {"message", "tool", "completed", "error"} : output' = Append(output, e)
  /\ OnlyProcess /\ UNCHANGED <<leader, helper, read>>

Helper ==
  /\ \/ leader = "running" /\ helper = "none" /\ helper' = "group"
     \/ helper = "group" /\ helper' \in {"away", "gone"}
     \/ helper = "away" /\ helper' = "gone"
  /\ OnlyProcess /\ UNCHANGED <<leader, output, read>>

LeaderExits ==
  /\ leader = "running" /\ leader' \in {"ok", "failed"}
  /\ OnlyProcess /\ UNCHANGED <<helper, output, read>>

Drain ==
  /\ At("watch") \/ At("join")
  /\ read < Len(output) /\ read' = read + 1
  /\ OnlyProcess /\ UNCHANGED <<leader, helper, output>>

Seen(events) == \E k \in 1 .. read : output[k] \in events

\* _terminate_process_group
KillGroup ==
  /\ leader' = IF leader = "running" THEN "failed" ELSE leader
  /\ helper' = IF helper = "group" THEN "gone" ELSE helper

Watch ==
  /\ At("watch")
  /\ \/ leader # "running" /\ Goto("reap") /\ UNCHANGED <<leader, helper>>
     \/ leader = "running" /\ Seen({"tool"}) /\ KillGroup /\ Goto("reap")
     \/ leader = "running" /\ ~Seen({"tool"}) /\ Overdue /\ KillGroup /\ Return(Failed)
  /\ InTime /\ UNCHANGED <<http, output, read>>

\* Fault: helpers of a process that has ended are left alone.
ReapNothing ==
  /\ At("reap") /\ Goto("join")
  /\ UNCHANGED <<leader, helper>>
  /\ InTime /\ UNCHANGED <<http, output, read>>

\* Helpers may outlive the process.
Reap ==
  /\ At("reap") /\ Goto("join")
  /\ KillGroup
  /\ InTime /\ UNCHANGED <<http, output, read>>

\* parse_codex_exec_jsonl, after the exit status.
Judged ==
  IF leader = "ok" /\ Seen({"message"}) /\ Seen({"completed"})
     /\ ~Seen({"tool", "error"})
  THEN [text |-> 1, tool |-> FALSE] ELSE Failed

\* _decode_structured_result: the message is the answer in the form that was
\* asked for, with calls of tools that were offered, or it is none.
Decoded(message) ==
  {Failed} \cup (IF message = Failed THEN {} ELSE [text : {message.text}, tool : BOOLEAN])

\* A helper that has left keeps the output open: the readers are not waited for
\* any longer.
Join ==
  /\ At("join")
  /\ read = Len(output) \/ helper = "away"
  /\ \E result \in Decoded(Judged) : Return(result)
  /\ InTime /\ UNCHANGED <<http, process>>

-----------------------------------------------------------------------------
CallInit ==
  /\ client = None /\ stage = "over" /\ attempt = 0 /\ clock = 0 /\ answer = None
  /\ response = None /\ parsed = None
  /\ leader = "none" /\ helper = "none" /\ output = << >> /\ read = 0

\* What the caller does by itself: of a request, that it gives up waiting for an
\* answer; of a body, only the Codex client.
Caller ==
  \/ Attempt \/ Unreached \/ Sleep \/ StreamIsOverdue
  \/ Spawn \/ Drain \/ Watch \/ Reap \/ Join

World ==
  \/ Refused \/ Accepted \/ Chunk \/ Completed \/ StreamEnds
  \/ ChatCompletion \/ Candidate \/ BotResult
  \/ WriteOutput \/ Helper \/ LeaderExits

CallNext == Tick \/ Caller \/ World

-----------------------------------------------------------------------------
(* Properties *)

\* Wherever the server stops, whatever is lost of its stream or tried again, and
\* whatever the process wrote: what a call returns is one response, with all of
\* its text and its tool call, or the message of a turn that a process with no
\* failure completed and during which it used no tool (parse_responses_sse,
\* parse_codex_exec_jsonl).
AnswersAreWhole ==
  answer \notin {None, Failed} =>
    IF client = "exec"
    THEN \E k \in DOMAIN output :
           output[k] = "completed" /\ \A j \in 1 .. k : output[j] \notin {"tool", "error"}
    ELSE answer = [text |-> response.text, tool |-> response.tool]

\* When a call has returned, nothing of the process group that it started runs,
\* be it that the process ended, was stopped or took too long (_run_process).
NothingLeftRunning == At("over") => leader # "running" /\ helper # "group"
=============================================================================
