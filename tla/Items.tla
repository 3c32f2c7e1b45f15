-------------------------------- MODULE Items --------------------------------
(***************************************************************************)
(* One item of a thread, of any kind: what codex says of it while it runs, *)
(* the timeline entry the runtime makes of that, the entry a page keeps,   *)
(* and the card it shows of the entry (timeline-helpers.ts).               *)
(*                                                                         *)
(* Timeline models how messages overtake each other on their way; here it  *)
(* is enough that the answer of a read may come later than what codex says *)
(* after it.  A text is the sequence of its chunks, and a field of an item *)
(* is its name: what matters is whether the card shows it.                 *)
(***************************************************************************)
EXTENDS Naturals, Sequences, SequencesExt, FiniteSets

CONSTANTS
  MaxText,    \* bound: chunks of an item, at most 3
  MaxReads,   \* bound: reads of the thread by the page
  MaxLosses   \* bound: times the page loses its socket

VARIABLES
  kind,     \* the kind of the item
  phase,    \* codex: "none", "running" or how the item ended
  written,  \* codex: chunks written
  past,     \* history: phase and written after each thing codex said
  ws,       \* messages on their way to the page
  held,     \* answers of reads, which wait for the workspace catalogue in the server
  online,   \* the page has its socket
  entry,    \* page: the item in the view of the thread
  pending,  \* page: the delta the dispatcher keeps for the next frame; <<>> is no delta
  at,       \* history: how much of past the entry reflects; 0: parts are missing
  reads, losses  \* counters of the bounds

vars == <<kind, phase, written, past, ws, held, online, entry, pending, at, reads, losses>>

\* Items that are written bit by bit; that run and end; that are said once; that the runtime
\* makes up for a notification of another sort; parts of a model's raw response.
Written == {"agentMessage", "plan", "reasoning"}
Runs == {"commandExecution", "fileChange", "mcpToolCall", "dynamicToolCall",
         "collabAgentToolCall", "webSearch", "imageGeneration"}
Streams == Written \cup {"commandExecution", "fileChange", "mcpToolCall"}
Once == {"userMessage", "imageView", "enteredReviewMode", "exitedReviewMode",
         "contextCompaction", "anotherKind"}
Raw == {"message", "reasoning-summary", "local_shell_call", "function_call",
        "function_call_output", "custom_tool_call", "web_search_call", "image_generation_call",
        "ghost_snapshot", "compaction", "other"}
Internal == Raw \cup {"commandExecutionInteraction"}
Kinds == Written \cup Runs \cup Once \cup Internal

Text(n) == [i \in 1..n |-> <<"c1", "c2", "c3">>[i]]
Ended == {"completed", "failed", "declined"}
NoEntry == [there |-> FALSE, fields |-> {}, status |-> "null", output |-> <<>>, body |-> <<>>]

-----------------------------------------------------------------------------
(* codex *)

\* The fields of an item that are not null.
Fields(k, p) ==
  CASE k = "commandExecution" ->
         {"command", "cwd"} \cup IF p \in {"completed", "failed"}
                                 THEN {"exitCode", "durationMs", "aggregatedOutput"} ELSE {}
    [] k = "fileChange" -> {"changes"}
    [] k = "mcpToolCall" ->
         {"server", "tool", "arguments"} \cup CASE p = "completed" -> {"result", "durationMs"}
                                                [] p = "failed" -> {"error", "durationMs"}
                                                [] OTHER -> {}
    [] k = "dynamicToolCall" ->
         {"tool", "arguments"} \cup IF p \in Ended THEN {"contentItems", "success", "durationMs"}
                                    ELSE {}
    [] k = "collabAgentToolCall" -> {"tool", "prompt", "receiverThreadIds"}
    [] k = "webSearch" -> {"query"} \cup IF p \in Ended THEN {"queries"} ELSE {}
    [] k = "imageGeneration" -> IF p \in Ended THEN {"revisedPrompt", "result"} ELSE {}
    [] k = "imageView" -> {"path"}
    [] k \in {"enteredReviewMode", "exitedReviewMode"} -> {"review"}
    [] k = "userMessage" -> {"content"}
    [] k = "anotherKind" -> {"json"}
    [] k = "commandExecutionInteraction" -> {"processId", "stdin"}
    [] k = "message" -> {"role", "content"}
    [] k = "reasoning-summary" -> {"summary", "content"}
    [] k = "local_shell_call" -> {"command", "working_directory", "status"}
    [] k = "function_call" -> {"name", "arguments"}
    [] k \in {"function_call_output", "custom_tool_call_output"} -> {"output"}
    [] k = "custom_tool_call" -> {"name", "input"}
    [] k = "web_search_call" -> {"action"}
    [] k = "image_generation_call" -> {"revised_prompt", "result"}
    [] k = "ghost_snapshot" -> {"ghost_commit"}
    [] k = "compaction" -> {"encrypted_content"}
    [] k = "other" -> {"json"}
    [] OTHER -> {}

Outcomes(k) ==
  CASE k \in {"commandExecution", "fileChange"} -> Ended
    [] k \in {"mcpToolCall", "dynamicToolCall", "collabAgentToolCall", "imageGeneration"} ->
         {"completed", "failed"}
    [] OTHER -> {"completed"}

-----------------------------------------------------------------------------
(* the runtime: entries of the timeline *)

\* describeRawResponseItemBody()
RawBody(k) ==
  CASE k = "message" -> <<"content">>
    [] k = "reasoning-summary" -> <<"summary", "content">>
    [] k = "local_shell_call" -> <<"command">>
    [] k = "function_call" -> <<"arguments">>
    [] k = "custom_tool_call" -> <<"input">>
    [] k = "image_generation_call" -> <<"revised_prompt", "result">>
    [] OTHER -> SetToSeq(Fields(k, "completed"))

\* normalizeItem(): what the body is made of.
Body(k, p, n) ==
  CASE k \in Written -> Text(n)
    [] k = "commandExecution" -> IF "aggregatedOutput" \in Fields(k, p) THEN Text(n) ELSE <<>>
    [] k = "mcpToolCall" -> IF "result" \in Fields(k, p) THEN <<"result">> ELSE <<>>
    [] k = "dynamicToolCall" -> IF "contentItems" \in Fields(k, p) THEN <<"contentItems">> ELSE <<>>
    [] k = "collabAgentToolCall" -> <<"prompt">>
    [] k = "webSearch" -> <<"query">>
    [] k = "imageGeneration" -> IF p \in Ended THEN <<"revisedPrompt", "result">> ELSE <<>>
    [] k = "commandExecutionInteraction" -> <<"stdin">>
    [] k \in Raw -> RawBody(k)
    [] OTHER -> SetToSeq(Fields(k, p))

\* An entry carries the item of codex beside the body made of it.
Entry(k, p, n) ==
  [there |-> TRUE, fields |-> Fields(k, p), status |-> p,
   output |-> IF "aggregatedOutput" \in Fields(k, p) THEN Text(n) ELSE <<>>,
   body |-> Body(k, p, n)]

\* The messages to the page; rev is the last thing codex had said.
TimelineItem(k, p, n, rev) ==
  [type |-> "item", entry |-> Entry(k, p, n), delta |-> <<>>, rev |-> rev]
TimelineDelta(c, rev) == [type |-> "delta", entry |-> NoEntry, delta |-> <<c>>, rev |-> rev]
Answer(e, rev) == [type |-> "answer", entry |-> e, delta |-> <<>>, rev |-> rev]

-----------------------------------------------------------------------------
Init ==
  /\ kind \in Kinds
  /\ phase = "none" /\ written = 0 /\ past = <<>>
  /\ ws = <<>> /\ held = <<>> /\ online = TRUE
  /\ entry = NoEntry /\ pending = <<>> /\ at = 0
  /\ reads = 0 /\ losses = 0

\* Every thing codex says is a line of stdout, handled at once; a page that is offline misses it.
Says(p, n, message) ==
  /\ phase' = p /\ written' = n
  /\ past' = Append(past, [phase |-> p, written |-> n])
  /\ ws' = IF online THEN Append(ws, message) ELSE ws
  /\ UNCHANGED <<kind, held, online, entry, pending, at, reads, losses>>

\* item/started; what the runtime makes up is complete at once.
CodexStarts ==
  /\ phase = "none"
  /\ LET p == IF kind \in Internal THEN "completed" ELSE "running"
     IN Says(p, 0, TimelineItem(kind, p, 0, 1))

\* item/*/delta, item/mcpToolCall/progress
CodexWrites ==
  /\ kind \in Streams /\ phase = "running" /\ written < MaxText
  /\ Says(phase, written + 1, TimelineDelta(Text(written + 1)[written + 1], Len(past) + 1))

\* item/completed
CodexEnds ==
  /\ phase = "running"
  /\ \E p \in Outcomes(kind) : Says(p, written, TimelineItem(kind, p, written, Len(past) + 1))

\* The thread as it is stored: an item that runs is in it as far as it has come, or it is not in
\* it at all; so are the kinds that codex does not store.
CodexReads ==
  /\ online /\ reads < MaxReads /\ reads' = reads + 1
  /\ \/ held' = Append(held, Answer(NoEntry, 0))
     \/ phase # "none" /\ kind \notin Internal
        /\ held' = Append(held, Answer(Entry(kind, phase, written), Len(past)))
  /\ UNCHANGED <<kind, phase, written, past, ws, online, entry, pending, at, losses>>

ServerAnswers ==
  /\ held # <<>> /\ held' = Tail(held)
  /\ ws' = Append(ws, Head(held))
  /\ UNCHANGED <<kind, phase, written, past, online, entry, pending, at, reads, losses>>

-----------------------------------------------------------------------------
(* the page *)

\* buildPlaceholderItem()
Placeholder == [NoEntry EXCEPT !.there = TRUE]

\* Mutation: a delta takes the place of the body.
ReplaceBody(e, delta) ==
  IF delta = <<>> THEN e ELSE [(IF e.there THEN e ELSE Placeholder) EXCEPT !.body = delta]

\* applyDeltaEntries(); the line break between two deltas of a reasoning is left out.
AppendDelta(e, delta) ==
  IF delta = <<>> THEN e
  ELSE [(IF e.there THEN e ELSE Placeholder) EXCEPT !.body = @ \o delta]

Flushed == AppendDelta(entry, pending)

\* Mutation: the longer body is kept.
KeepLongerBody(e) ==
  /\ entry' = [e EXCEPT !.body = IF Len(Flushed.body) > Len(@) THEN Flushed.body ELSE @]
  /\ pending' = <<>>

\* applyTimelineItem(), after the dispatcher has flushed what it kept.
ApplyTimelineItem(e) == entry' = e /\ pending' = <<>>

\* hydrateThread(): the answer takes the place of what the page had, and what the dispatcher
\* keeps comes on top of it.
HydrateThread(e) == entry' = e /\ UNCHANGED pending

\* An answer has all that codex had said, but what it streams of an item that is not text.
Whole(m) ==
  /\ m.rev # 0 /\ pending = <<>>
  /\ kind \in Streams \ Written =>
       past[m.rev].phase # "running" \/ past[m.rev].written = 0

PageReceives ==
  /\ ws # <<>> /\ ws' = Tail(ws)
  /\ LET m == Head(ws)
     IN \/ m.type = "item" /\ ApplyTimelineItem(m.entry) /\ at' = m.rev
        \/ /\ m.type = "delta"
           /\ pending' = pending \o m.delta
           /\ at' = IF at # 0 /\ m.rev = at + 1 THEN m.rev ELSE 0
           /\ UNCHANGED entry
        \/ m.type = "answer" /\ HydrateThread(m.entry) /\ at' = IF Whole(m) THEN m.rev ELSE 0
  /\ UNCHANGED <<kind, phase, written, past, held, online, reads, losses>>

Frame ==
  /\ pending # <<>>
  /\ entry' = Flushed /\ pending' = <<>>
  /\ UNCHANGED <<kind, phase, written, past, ws, held, online, at, reads, losses>>

LoseSocket ==
  /\ online /\ losses < MaxLosses /\ losses' = losses + 1
  /\ online' = FALSE /\ ws' = <<>> /\ held' = <<>>
  /\ at' = IF ws = <<>> THEN at ELSE 0
  /\ UNCHANGED <<kind, phase, written, past, entry, pending, reads>>

Reconnect ==
  /\ ~online /\ online' = TRUE
  /\ UNCHANGED <<kind, phase, written, past, ws, held, entry, pending, at, reads, losses>>

Next ==
  \/ CodexStarts \/ CodexWrites \/ CodexEnds \/ CodexReads \/ ServerAnswers
  \/ PageReceives \/ Frame \/ LoseSocket \/ Reconnect

Spec == Init /\ [][Next]_vars

-----------------------------------------------------------------------------
(* the card of an entry *)

isMessageEntry(k) == k \in {"userMessage", "agentMessage"}

\* describeExecutionStatus(): what is not known to have ended runs.
ExecutionStatus(e) == IF e.status \in Ended THEN e.status ELSE "running"

\* describeActivitySummary(): the fields it shows, and the status.
Summary(k, e) ==
  [status |-> IF k \in Runs \ {"webSearch"} THEN ExecutionStatus(e) ELSE "none",
   shows |-> e.fields \cap
     CASE k = "commandExecution" -> {"command"}
       [] k = "fileChange" -> {"changes"}
       [] k = "mcpToolCall" -> {"server", "tool"}
       [] k \in {"dynamicToolCall", "collabAgentToolCall"} -> {"tool"}
       [] k = "webSearch" -> {"query"}
       [] k = "imageView" -> {"path"}
       [] k = "commandExecutionInteraction" -> {"stdin"}
       [] k \in {"function_call", "custom_tool_call"} -> {"name"}
       [] OTHER -> {}]

\* describeRawResponseDetails(): the parts of a response, the body when there is none.
RawDetails(k, e) ==
  e.fields \cap
    CASE k = "message" -> {"role", "content"}
      [] k = "reasoning-summary" -> {"summary", "content"}
      [] k = "local_shell_call" -> {"command", "working_directory", "status"}
      [] k = "function_call" -> {"arguments"}
      [] k \in {"function_call_output", "custom_tool_call_output"} -> {"output"}
      [] k = "custom_tool_call" -> {"input"}
      [] k = "web_search_call" -> {"action"}
      [] k = "image_generation_call" -> {"revised_prompt", "result"}
      [] k = "ghost_snapshot" -> {"ghost_commit"}
      [] k = "compaction" -> {"encrypted_content"}
      [] OTHER -> {"json"}

\* Mutation: the progress of a tool call hides its error.
DetailFieldsUnlessBody(k, e) ==
  IF k = "mcpToolCall" /\ e.body # <<>> THEN {} ELSE
  e.fields \cap {"cwd", "exitCode", "durationMs", "arguments", "error"}

\* describeActivityDetails(): the fields it shows beside the text.
DetailFields(k, e) ==
  e.fields \cap
    CASE k = "commandExecution" -> {"cwd", "exitCode", "durationMs"}
      [] k = "fileChange" -> {"changes"}
      [] k = "mcpToolCall" -> {"arguments", "result", "error", "durationMs"}
      [] k = "dynamicToolCall" -> {"arguments", "contentItems", "success", "durationMs"}
      [] k = "collabAgentToolCall" -> {"prompt", "receiverThreadIds"}
      [] k = "webSearch" -> {"queries"}
      [] k = "imageGeneration" -> {"revisedPrompt", "result"}
      [] k \in {"enteredReviewMode", "exitedReviewMode"} -> {"review"}
      [] k = "commandExecutionInteraction" -> {"processId"}
      [] k \in Raw -> RawDetails(k, e)
      [] OTHER -> {}

\* The text: the output codex collected if there is any, otherwise the body, which some kinds
\* show only as long as nothing better has come.
DetailText(k, e) ==
  CASE k = "commandExecution" /\ "aggregatedOutput" \in e.fields -> e.output
    [] k = "fileChange" /\ "changes" \in e.fields -> <<>>
    [] k = "mcpToolCall" /\ "result" \in e.fields -> <<>>
    [] k = "dynamicToolCall" /\ "contentItems" \in e.fields -> <<>>
    [] k = "webSearch" /\ "queries" \in e.fields -> <<>>
    [] k \in {"collabAgentToolCall", "imageGeneration", "enteredReviewMode", "exitedReviewMode"} -> <<>>
    [] k \in Raw -> IF RawDetails(k, e) = {} THEN e.body ELSE <<>>
    [] OTHER -> e.body

Card(k, e) ==
  IF isMessageEntry(k)
  THEN [status |-> "none", shows |-> {}, text |-> e.body]
  ELSE [status |-> Summary(k, e).status,
        shows |-> Summary(k, e).shows \cup DetailFields(k, e),
        text |-> DetailText(k, e)]

-----------------------------------------------------------------------------
Shown == Card(kind, Flushed)

\* What the card of a page that has missed nothing shows, with what its dispatcher keeps, is what
\* a read of the thread would have shown when codex said the last thing the page has heard, with
\* the chunks a running item has written.  And the card of an item that has ended tells all of
\* it: every field and every chunk, but for the output of a file change.
CardIsTrue ==
  at # 0 =>
    LET codex == past[at]
        read == Entry(kind, codex.phase, codex.written)
        streamed == IF codex.phase = "running" /\ kind \in Streams \ Written
                    THEN [read EXCEPT !.body = @ \o Text(codex.written)] ELSE read
    IN /\ Shown = Card(kind, streamed)
       /\ codex.phase \in Ended =>
            /\ read.fields \ {"aggregatedOutput"} \subseteq Shown.shows \cup ToSet(Shown.text)
            /\ kind \in Streams \ {"fileChange", "mcpToolCall"} /\ codex.phase # "declined"
               => Shown.text = Text(codex.written)

=============================================================================
