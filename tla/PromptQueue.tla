----------------------------- MODULE PromptQueue -----------------------------
(***************************************************************************)
(* The prompts of one thread on a page: what is typed while a turn runs    *)
(* waits in queuedPrompts, and an effect sends the first of them when the  *)
(* store shows no running turn.                                            *)
(*                                                                         *)
(* The effect runs in the render that follows a change of queuedPrompts or *)
(* hydratedThreads, so it is part of every step that changes one of them,  *)
(* and of no other.  React 19 renders the updates of an answer in one      *)
(* microtask, before the finally() that clears the dispatching flag.       *)
(* A queue entry is its number (a UUID in the code), a turn the place of   *)
(* its prompt in what codex took.                                          *)
(***************************************************************************)
EXTENDS Naturals, FiniteSets, Sequences, SequencesExt

CONSTANTS MaxSends, MaxTurns, MaxDrops, MaxLeaves, MaxExits,  \* bounds
          MaxTroubles, \* bound: of these and of others together
          MaxOthers    \* bound: prompts of other pages

VARIABLES
  queue,        \* page: queuedPrompts[thread], entry numbers
  dispatching,  \* page: queuedDispatchingThreadsRef has the thread
  hasView,      \* page: hydratedThreads[thread] is there
  running,      \* page: turns the view shows in progress
  loaded,       \* page: the summary's status is not "notLoaded"
  open,         \* page: activeThreadId is the thread
  failed,       \* history: a dispatch failed, and the effect has not run since
  pending,      \* page: calls nobody has answered
  sends, entries, calls,  \* counters: prompts sent, entries and calls made
  online,       \* the socket
  unsent,       \* calls that wait for the socket
  out,          \* calls on their way to codex, or waiting for its turn
  took,         \* codex: the entry of each prompt it took; 0 for one that was never queued
  live,         \* codex: the turn that runs, 0 for none
  answers,      \* answers whose promise job has not run in the server
  ws,           \* messages on their way to the page
  drops, leaves, exits, others  \* counters of the bounds

composerVars == <<open, loaded, sends, entries>>
threadVars == <<queue, dispatching, hasView, running, failed>>
callVars == <<pending, calls, unsent, out>>
codexVars == <<took, live>>
bounds == <<drops, leaves, exits, others>>
vars == <<composerVars, threadVars, callVars, codexVars, online, answers, ws, bounds>>

MayHappen == drops + leaves + exits + others < MaxTroubles

Call(id, kind, entry) == [id |-> id, kind |-> kind, entry |-> entry]

TypeOK ==
  /\ queue \in Seq(1..MaxSends)
  /\ {dispatching, hasView, loaded, open, failed, online} \subseteq BOOLEAN
  /\ running \subseteq 1..MaxTurns /\ (~hasView => running = {})
  /\ \A c \in pending : c.kind \in {"queued", "direct", "resume", "read"} /\ c.id \in 1..calls
  /\ entries \in 0..sends /\ sends \in 0..MaxSends
  /\ live \in 0..Len(took) /\ Len(took) <= MaxTurns
  /\ ToSet(out) \cap ToSet(unsent) = {} /\ (online => unsent = <<>>)
  /\ drops \in 0..MaxDrops /\ leaves \in 0..MaxLeaves /\ exits \in 0..MaxExits
  /\ others \in 0..MaxOthers

\* A thread the page has read; codex may have to load it first.
Init ==
  /\ queue = <<>> /\ dispatching = FALSE /\ hasView = TRUE /\ running = {} /\ failed = FALSE
  /\ loaded \in BOOLEAN /\ open = TRUE /\ sends = 0 /\ entries = 0
  /\ pending = {} /\ calls = 0 /\ unsent = <<>> /\ out = <<>>
  /\ took = <<>> /\ live = 0
  /\ online = TRUE /\ answers = {} /\ ws = <<>>
  /\ drops = 0 /\ leaves = 0 /\ exits = 0 /\ others = 0

-----------------------------------------------------------------------------
(* The page. *)

\* Mutation: nothing remembers that the first prompt is on its way.
DispatchesAgain(q, v, r, busy) == q # <<>> /\ v /\ r = {}

\* The effect sends the first prompt of a thread whose view shows no running turn.
Dispatches(q, v, r, busy) == q # <<>> /\ ~busy /\ v /\ r = {}

\* codexClient.call(): a call made without a socket waits for one.  rest are the
\* other calls that are pending.
Makes(new, rest) ==
  /\ calls' = calls + Len(new)
  /\ pending' = rest \cup ToSet(new)
  /\ IF online THEN out' = out \o new /\ UNCHANGED unsent
               ELSE unsent' = unsent \o new /\ UNCHANGED out

\* A step that renders leaves queue q, view v and running turns r; kind is that of
\* a call the page makes besides, "none" for none.
Renders(q, v, r, kind, rest) ==
  LET busy == dispatching
      first == IF Dispatches(q, v, r, busy) THEN <<Call(calls + 1, "queued", Head(q))>> ELSE <<>>
      second == IF kind = "none" THEN <<>> ELSE <<Call(calls + Len(first) + 1, kind, 0)>>
  IN /\ queue' = q /\ hasView' = v /\ running' = r /\ failed' = FALSE
     /\ dispatching' = (busy \/ first # <<>>)
     /\ Makes(first \o second, rest)

AppendQueuedPrompt(q, e) == Append(q, e)

\* handleSendMessage(): queued behind a running turn or other prompts.
Enqueue ==
  /\ open /\ sends < MaxSends
  /\ running # {} \/ queue # <<>>
  /\ sends' = sends + 1 /\ entries' = entries + 1
  /\ Renders(AppendQueuedPrompt(queue, entries + 1), hasView, running, "none", pending)
  /\ UNCHANGED <<open, loaded, codexVars, online, answers, ws, bounds>>

\* Otherwise directly, after thread.resume when the thread is not loaded.  The
\* composer is emptied only by the answer, so the same text can be sent twice.
SendDirectly ==
  /\ open /\ sends < MaxSends
  /\ running = {} /\ queue = <<>>
  /\ sends' = sends + 1
  /\ Makes(<<Call(calls + 1, IF loaded THEN "direct" ELSE "resume", 0)>>, pending)
  /\ UNCHANGED <<open, loaded, entries, threadVars, codexVars, online, answers, ws, bounds>>

\* Mutation: the prompt leaves the queue whatever became of it.
RemoveAlways(q, c, ok) == RemoveFirst(q, c.entry)

\* Mutation: the prompt stays in the queue.
KeepQueuedPrompt(q, c, ok) == q

\* removeQueuedPrompt() in then(), which a rejection skips.  No number is in a queue twice.
RemoveQueuedPrompt(q, c, ok) == IF ok THEN RemoveFirst(q, c.entry) ELSE q

\* Mutation: the flag is cleared on success only.
ClearOnSuccess(busy, c, ok) == busy /\ ~(c.kind = "queued" /\ ok)

\* finally()
ClearDispatching(busy, c, ok) == busy /\ c.kind # "queued"

\* turn.start has answered.  The render comes before finally(), so the effect
\* skips the thread (and the turn of the answer runs).
HandleTurn(c, n) ==
  /\ queue' = IF c.kind = "queued" THEN RemoveQueuedPrompt(queue, c, TRUE) ELSE queue
  /\ hasView' = TRUE /\ running' = running \cup {n}
  /\ dispatching' = ClearDispatching(dispatching, c, TRUE)
  /\ pending' = pending \ {c}
  /\ UNCHANGED <<composerVars, failed, calls, unsent, out>>

\* hydrateThread(); a resumed thread gets the prompt, whatever the queue is by now.
HandleThread(c, n) ==
  /\ Renders(queue, TRUE, IF n = 0 THEN {} ELSE {n}, IF c.kind = "resume" THEN "direct" ELSE "none",
             pending \ {c})
  /\ loaded' = (loaded \/ c.kind = "resume")
  /\ UNCHANGED <<open, sends, entries>>

\* catch() and finally() of every call in cs: an error is shown, nothing is
\* rendered that the effect looks at.  At most one of the calls is a dispatch.
Reject(cs) ==
  LET dispatched == {c \in cs : c.kind = "queued"}
  IN /\ queue' = IF dispatched = {} THEN queue
                 ELSE RemoveQueuedPrompt(queue, CHOOSE c \in dispatched : TRUE, FALSE)
     /\ dispatching' = (dispatching /\ \A c \in cs : ClearDispatching(TRUE, c, FALSE))
     /\ failed' = (failed \/ dispatched # {})
     /\ pending' = pending \ cs

\* A message: an answer, or a turn's start or end (and the thread's status) that
\* the store applies.
PageReceives ==
  /\ ws # <<>> /\ ws' = Tail(ws)
  /\ LET m == Head(ws)
         cs == {c \in pending : c.id = m.id}
     IN \/ /\ m.kind = "turn"
           /\ Renders(queue, TRUE, IF m.ok THEN running \cup {m.turn} ELSE running \ {m.turn}, "none",
                      pending)
           /\ loaded' = TRUE
           /\ UNCHANGED <<open, sends, entries>>
        \/ \E c \in cs :
             /\ m.kind = "answer"
             /\ \/ m.ok /\ c.kind \in {"queued", "direct"} /\ HandleTurn(c, m.turn)
                \/ m.ok /\ c.kind \in {"resume", "read"} /\ HandleThread(c, m.turn)
                \/ ~m.ok /\ Reject({c}) /\ UNCHANGED <<composerVars, hasView, running, calls, unsent, out>>
  /\ UNCHANGED <<codexVars, online, answers, bounds>>

\* Another thread's view changes: hydratedThreads does too, so the effect runs.
OtherThreadChanges ==
  /\ Dispatches(queue, hasView, running, dispatching) \/ failed
  /\ Renders(queue, hasView, running, "none", pending)
  /\ UNCHANGED <<composerVars, codexVars, online, answers, ws, bounds>>

\* The user opens another thread.
Leave ==
  /\ open /\ MayHappen /\ leaves < MaxLeaves
  /\ open' = FALSE /\ leaves' = leaves + 1
  /\ UNCHANGED <<loaded, sends, entries, threadVars, callVars, codexVars, online, answers, ws, drops, exits, others>>

\* sweepHydratedThreads(), after others were opened: no queue pins a view.
SweepHydratedThreads ==
  /\ ~open /\ hasView /\ running = {}
  /\ Renders(queue, FALSE, {}, "none", pending)
  /\ UNCHANGED <<composerVars, codexVars, online, answers, ws, bounds>>

\* handleResumeThread(): a thread without a view is read.
Reopen ==
  /\ ~open /\ open' = TRUE
  /\ Makes(IF hasView THEN <<>> ELSE <<Call(calls + 1, "read", 0)>>, pending)
  /\ UNCHANGED <<loaded, sends, entries, threadVars, codexVars, online, answers, ws, bounds>>

-----------------------------------------------------------------------------
(* Codex, the server and the network. *)

Turn(n, started) == [kind |-> "turn", id |-> 0, turn |-> n, ok |-> started]
Answer(c, n, ok) == [kind |-> "answer", id |-> c.id, turn |-> n, ok |-> ok]

\* Notifications reach a page that is connected.
Sends(m) == IF online THEN Append(ws, m) ELSE ws

\* What the server will answer to a call: nothing when its socket has gone.
Due(c, n, ok) == IF c \in pending THEN {Answer(c, n, ok)} ELSE {}

\* A line with a notification and one with an answer: the notification goes out
\* first, what waits for the answer goes on later.
CodexTakesPrompt ==
  /\ live = 0 /\ Len(took) < MaxTurns
  /\ \E i \in DOMAIN out :
       /\ out[i].kind \in {"queued", "direct"}
       /\ \A j \in 1..(i - 1) : out[j].kind \in {"resume", "read"}
       /\ took' = Append(took, out[i].entry) /\ live' = Len(took')
       /\ answers' = answers \cup Due(out[i], live', TRUE)
       /\ out' = RemoveAt(out, i)
       /\ ws' = Sends(Turn(live', TRUE))
  /\ UNCHANGED <<composerVars, threadVars, pending, calls, unsent, online, bounds>>

\* A prompt of another page.
CodexTakesAnother ==
  /\ live = 0 /\ Len(took) < MaxTurns /\ MayHappen /\ others < MaxOthers /\ others' = others + 1
  /\ took' = Append(took, 0) /\ live' = Len(took')
  /\ ws' = Sends(Turn(live', TRUE))
  /\ UNCHANGED <<composerVars, threadVars, callVars, online, answers, drops, leaves, exits>>

CodexEndsTurn ==
  /\ live # 0 /\ live' = 0
  /\ ws' = Sends(Turn(live, FALSE))
  /\ UNCHANGED <<composerVars, threadVars, callVars, took, online, answers, bounds>>

CodexReads ==
  /\ \E i \in DOMAIN out :
       /\ out[i].kind \in {"resume", "read"}
       /\ \A j \in 1..(i - 1) : out[j].kind \notin {"resume", "read"}
       /\ answers' = answers \cup Due(out[i], live, TRUE)
       /\ out' = RemoveAt(out, i)
  /\ UNCHANGED <<composerVars, threadVars, pending, calls, unsent, codexVars, online, ws, bounds>>

\* Codex exits with k calls before it; a turn that ran has no end.
CodexExits ==
  /\ MayHappen /\ exits < MaxExits /\ exits' = exits + 1
  /\ \E k \in 0..Len(out) :
       /\ answers' = answers \cup UNION {Due(out[i], 0, FALSE) : i \in 1..k}
       /\ out' = SubSeq(out, k + 1, Len(out))
  /\ live' = 0
  /\ UNCHANGED <<composerVars, threadVars, pending, calls, unsent, took, online, ws, drops, leaves, others>>

\* The continuation of the call in the server.
ServerAnswers ==
  /\ \E a \in answers : answers' = answers \ {a} /\ ws' = Sends(a)
  /\ UNCHANGED <<composerVars, threadVars, callVars, codexVars, online, bounds>>

\* The socket goes, or the attempt to open one fails: every call is rejected.  Some
\* of those sent have reached the server.
Drop ==
  /\ MayHappen /\ drops < MaxDrops /\ drops' = drops + 1
  /\ online' = FALSE /\ ws' = <<>> /\ unsent' = <<>>
  /\ IF online THEN \E k \in 0..Len(out) : out' = SubSeq(out, 1, k) ELSE UNCHANGED out
  /\ Reject(pending) /\ answers' = {}
  /\ UNCHANGED <<composerVars, hasView, running, calls, codexVars, leaves, exits, others>>

Reconnect ==
  /\ ~online /\ online' = TRUE
  /\ out' = out \o unsent /\ unsent' = <<>>
  /\ UNCHANGED <<composerVars, threadVars, pending, calls, codexVars, answers, ws, bounds>>

Next ==
  \/ Enqueue \/ SendDirectly \/ PageReceives \/ OtherThreadChanges
  \/ Leave \/ SweepHydratedThreads \/ Reopen
  \/ CodexTakesPrompt \/ CodexTakesAnother \/ CodexEndsTurn \/ CodexReads \/ CodexExits
  \/ ServerAnswers \/ Drop \/ Reconnect

Spec == Init /\ [][Next]_vars

-----------------------------------------------------------------------------
Occurrences(e) == {i \in DOMAIN took : took[i] = e}
Dispatched == {c \in pending : c.kind = "queued"}

\* The first prompt of the queue, and no other, is on its way exactly while the
\* thread is marked as dispatching (queuedDispatchingThreadsRef): the finally() of
\* one dispatch and the effect that makes the next never overlap.
OneDispatch ==
  /\ Cardinality(Dispatched) = IF dispatching THEN 1 ELSE 0
  /\ \A c \in Dispatched : queue # <<>> /\ c.entry = Head(queue)

\* A queued prompt is in the queue until codex has it (then() and catch() of the
\* effect): no lost answer, exit or sweep loses one.
NoPromptLost == \A e \in 1..entries : e \in ToSet(queue) \/ Occurrences(e) # {}

\* Codex gets a queued prompt a second time only where an answer was lost, with the
\* socket or with codex.
AgainOnlyAfterLoss == \A e \in 1..entries : Cardinality(Occurrences(e)) <= 1 + drops + exits

\* Every queued prompt reaches codex, once but for lost answers, and the first before
\* the next: the then() of the effect removes it when, and only when, its turn.start
\* was answered.
PromptsReachCodex == NoPromptLost /\ AgainOnlyAfterLoss /\ OneDispatch

\* A queue has something that will move it: its first prompt is on its way, a turn
\* is shown as running, or its view is gone or its dispatch failed - the two cases in
\* which the effect waits for a step that has nothing to do with the queue.
QueueIsDue == queue # <<>> => (Dispatched # {} \/ running # {} \/ ~hasView \/ failed)

=============================================================================
