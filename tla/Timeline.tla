------------------------------ MODULE Timeline ------------------------------
(***************************************************************************)
(* One thread on its way from codex to a page: what codex streams, what    *)
(* the server forwards, and what the page makes of it.                     *)
(*                                                                         *)
(* Three places reorder or hold back.  The runtime handles all the lines   *)
(* of a chunk of stdout before the promises those lines resolved go on, so *)
(* a response overtakes nothing and notifications overtake it.  The        *)
(* dispatcher of the page (event-router.ts) keeps deltas until the next    *)
(* frame.  And the response of a call reaches the store of the page        *)
(* without passing the dispatcher at all.                                  *)
(*                                                                         *)
(* A turn has one streamed item; text is the sequence of the numbers of    *)
(* its chunks, so that a lost, doubled or misplaced chunk can be seen.     *)
(***************************************************************************)
EXTENDS Naturals, Sequences, SequencesExt

CONSTANTS Turns,      \* turns codex may run, one at a time
          MaxText,    \* bound: chunks of an item
          MaxReads,   \* bound: thread.read calls of the page
          MaxLeaves   \* bound: times the page selects another thread

ASSUME BoundsAssumption == {MaxText, MaxReads, MaxLeaves} \subseteq Nat

VARIABLES
  turn,      \* codex: status of each turn
  written,   \* codex: chunks of the item of each turn
  finished,  \* codex: turns whose item is complete
  asks,      \* thread/read requests on their way to codex
  prompt,    \* the turn.start of the page
  stdout,    \* lines codex has written
  jobs,      \* responses whose promise jobs are due
  held,      \* responses whose hydrateRuntimeThread() awaits the catalogue
  ws,        \* messages on their way to the page
  deltas,    \* page: pendingDeltas of the dispatcher
  frame,     \* page: frameId of the dispatcher is set
  view,      \* page: hydratedThreads[thread]
  active,    \* page: the summary of the thread says it runs (its status comes with turns)
  open,      \* page: it is the active thread
  asked,     \* page: restoredThreadIdRef is the thread
  reads, leaves  \* counters of the bounds

codexVars == <<turn, written, finished>>
serverVars == <<stdout, jobs, held>>
pageVars == <<deltas, frame, view, active, open, asked, leaves>>
vars == <<codexVars, asks, prompt, serverVars, ws, pageVars, reads>>

Chunks == 1..MaxText
Text(n) == [i \in 1..n |-> i]

\* A turn that is not in turnOrder has status "none".
TurnView == [status : {"none", "inProgress", "ended"}, text : Seq(Chunks)]
NoTurn == [status |-> "none", text |-> <<>>]
Empty(v) == \A t \in Turns : v[t].status = "none"

\* Also: what is not in turnOrder is not in turns.
TypeOK ==
  /\ turn \in [Turns -> {"none", "inProgress", "ended"}]
  /\ written \in [Turns -> 0..MaxText]
  /\ finished \subseteq Turns
  /\ asks \in 0..MaxReads
  /\ prompt \in {"none", "sent", "taken"}
  /\ deltas \in [Turns -> Seq(Chunks)]
  /\ frame \in BOOLEAN /\ active \in BOOLEAN /\ open \in BOOLEAN /\ asked \in BOOLEAN
  /\ view \in [Turns -> TurnView]
  /\ \A t \in Turns : view[t].status = "none" => view[t].text = <<>>
  /\ reads \in 0..MaxReads /\ leaves \in 0..MaxLeaves

\* thread.open has answered: the page has hydrated the new thread and selected
\* it, and the effect that restores empty threads has run.
Init ==
  /\ turn = [t \in Turns |-> "none"]
  /\ written = [t \in Turns |-> 0]
  /\ finished = {}
  /\ reads \in {0, 1} \cap 0..MaxReads
  /\ asks = reads
  /\ prompt = "none"
  /\ stdout = <<>> /\ jobs = <<>> /\ held = <<>> /\ ws = <<>>
  /\ deltas = [t \in Turns |-> <<>>]
  /\ frame = FALSE
  /\ view = [t \in Turns |-> NoTurn]
  /\ active = FALSE
  /\ open = TRUE /\ asked = TRUE
  /\ leaves = 0

-----------------------------------------------------------------------------
(* Codex. *)

TurnUpdated(t, s) == [kind |-> "turn", turn |-> t, status |-> s]
TimelineItem(t, x) == [kind |-> "item", turn |-> t, text |-> x]
TimelineDelta(t, c) == [kind |-> "delta", turn |-> t, text |-> <<c>>]
TurnStarted(t) == [kind |-> "started", turn |-> t]
ThreadRead(v) == [kind |-> "thread", view |-> v]

\* A turn starts for the prompt of this page, which is answered, or for another
\* client.
CodexStarts(t) ==
  /\ turn[t] = "none"
  /\ \A u \in Turns : turn[u] # "inProgress"
  /\ turn' = [turn EXCEPT ![t] = "inProgress"]
  /\ \/ /\ prompt = "sent"
        /\ prompt' = "taken"
        /\ \/ stdout' = Append(Append(stdout, TurnStarted(t)), TurnUpdated(t, "inProgress"))
           \/ stdout' = Append(Append(stdout, TurnUpdated(t, "inProgress")), TurnStarted(t))
     \/ /\ stdout' = Append(stdout, TurnUpdated(t, "inProgress"))
        /\ UNCHANGED prompt
  /\ UNCHANGED <<written, finished, asks, jobs, held, ws, pageVars, reads>>

\* item/started comes with the first chunk.
CodexWrites(t) ==
  /\ turn[t] = "inProgress" /\ t \notin finished /\ written[t] < MaxText
  /\ written' = [written EXCEPT ![t] = @ + 1]
  /\ stdout' = Append(IF written[t] = 0 THEN Append(stdout, TimelineItem(t, <<>>)) ELSE stdout,
                      TimelineDelta(t, written[t] + 1))
  /\ UNCHANGED <<turn, finished, asks, prompt, jobs, held, ws, pageVars, reads>>

CodexFinishesItem(t) ==
  /\ turn[t] = "inProgress" /\ t \notin finished /\ written[t] > 0
  /\ finished' = finished \cup {t}
  /\ stdout' = Append(stdout, TimelineItem(t, Text(written[t])))
  /\ UNCHANGED <<turn, written, asks, prompt, jobs, held, ws, pageVars, reads>>

\* Completed, failed or interrupted, with or without an item.
CodexEnds(t) ==
  /\ turn[t] = "inProgress" /\ (t \in finished \/ written[t] = 0)
  /\ turn' = [turn EXCEPT ![t] = "ended"]
  /\ stdout' = Append(stdout, TurnUpdated(t, "ended"))
  /\ UNCHANGED <<written, finished, asks, prompt, jobs, held, ws, pageVars, reads>>

\* The turns of the thread; of an unfinished item, nothing or what there is.
CodexReads ==
  /\ asks > 0
  /\ asks' = asks - 1
  /\ \E partial \in BOOLEAN :
       LET known(t) == IF t \in finished \/ partial THEN Text(written[t]) ELSE <<>>
       IN  stdout' = Append(stdout, ThreadRead(
                       [t \in Turns |-> [status |-> turn[t], text |-> known(t)]]))
  /\ UNCHANGED <<codexVars, prompt, jobs, held, ws, pageVars, reads>>

-----------------------------------------------------------------------------
(* The server. *)

Notification(m) == m.kind \in {"turn", "item", "delta"}

\* A line of stdout: a notification is broadcast at once; an answer resolves the
\* promise of its call, whose job waits until the lines of the chunk are done.
ServerReadsLine ==
  /\ stdout # <<>>
  /\ stdout' = Tail(stdout)
  /\ IF Notification(Head(stdout))
     THEN ws' = Append(ws, Head(stdout)) /\ UNCHANGED jobs
     ELSE jobs' = Append(jobs, Head(stdout)) /\ UNCHANGED ws
  /\ UNCHANGED <<codexVars, asks, prompt, held, pageVars, reads>>

\* The call goes on.  The chunk may have ended at any line after the answer, so
\* any number of notifications may have passed it; a read waits once more.
ServerResponds ==
  /\ jobs # <<>>
  /\ jobs' = Tail(jobs)
  /\ \/ Head(jobs).kind = "started" /\ ws' = Append(ws, Head(jobs)) /\ UNCHANGED held
     \/ Head(jobs).kind = "thread" /\ held' = Append(held, Head(jobs)) /\ UNCHANGED ws
  /\ UNCHANGED <<codexVars, asks, prompt, stdout, pageVars, reads>>

\* A read has got the workspace catalogue, which may take requests of its own.
ServerHydrates ==
  /\ held # <<>>
  /\ ws' = Append(ws, Head(held))
  /\ held' = Tail(held)
  /\ UNCHANGED <<codexVars, asks, prompt, stdout, jobs, pageVars, reads>>

-----------------------------------------------------------------------------
(* The store of the page. *)

Known(s) == IF s = "none" THEN "inProgress" ELSE s

\* applyDeltaEntries(): a turn that is not known yet is made.
AppendDelta(tv, d) ==
  IF d = <<>> THEN tv ELSE [status |-> Known(tv.status), text |-> tv.text \o d]

\* Mutation: the incoming turn replaces the one there is.
ReplaceTurn(tv, s) == [status |-> s, text |-> <<>>]

\* applyTurn(): mergeTurn() keeps the items; Turn.items is empty everywhere but in
\* the response of a read.
ApplyTurn(tv, s) == [tv EXCEPT !.status = s]

\* applyTimelineItem()
ApplyTimelineItem(tv, x) == [status |-> Known(tv.status), text |-> x]

Flushed == [t \in Turns |-> AppendDelta(view[t], deltas[t])]

\* Mutation: the reference is never reset.
RestoreOnce ==
  /\ asked' = (asked \/ (open' /\ Empty(view')))
  /\ LET more == IF asked' /\ ~asked THEN 1 ELSE 0
     IN  reads + more <= MaxReads /\ reads' = reads + more /\ asks' = asks + more

\* The effect that follows every change of the store: it reads an active thread
\* that has no turns, once, until the thread has some or is left.
Restore ==
  /\ asked' = (open' /\ Empty(view'))
  /\ LET more == IF asked' /\ ~asked THEN 1 ELSE 0
     IN  reads + more <= MaxReads /\ reads' = reads + more /\ asks' = asks + more

-----------------------------------------------------------------------------
(* The dispatcher and the calls of the page. *)

\* Mutation: what is pending is not flushed before other notifications.
DispatchUnflushed(m) ==
  /\ view' = IF m.kind = "turn"
             THEN [view EXCEPT ![m.turn] = ApplyTurn(@, m.status)]
             ELSE [view EXCEPT ![m.turn] = ApplyTimelineItem(@, m.text)]
  /\ UNCHANGED deltas

\* A notification other than a delta: flush() comes first.
Dispatch(m) ==
  /\ view' = IF m.kind = "turn"
             THEN [Flushed EXCEPT ![m.turn] = ApplyTurn(@, m.status)]
             ELSE [Flushed EXCEPT ![m.turn] = ApplyTimelineItem(@, m.text)]
  /\ deltas' = [t \in Turns |-> <<>>]

\* Mutation: a second delta takes the place of the first.
DispatchDeltaOverwriting(m) ==
  /\ deltas' = [deltas EXCEPT ![m.turn] = m.text]
  /\ frame' = TRUE
  /\ UNCHANGED view

DispatchDelta(m) ==
  /\ deltas' = [deltas EXCEPT ![m.turn] = @ \o m.text]
  /\ frame' = TRUE
  /\ UNCHANGED view

\* A response settles a promise, whose continuation writes to the store at once.
Respond(m) ==
  /\ view' = IF m.kind = "started"
             THEN [view EXCEPT ![m.turn] = ApplyTurn(@, "inProgress")]
             ELSE m.view
  /\ UNCHANGED deltas

PageReceives ==
  /\ ws # <<>>
  /\ LET m == Head(ws)
     IN  /\ \/ m.kind = "delta" /\ DispatchDelta(m)
            \/ m.kind \in {"turn", "item"} /\ Dispatch(m) /\ UNCHANGED frame
            \/ m.kind \in {"started", "thread"} /\ Respond(m) /\ UNCHANGED frame
         /\ active' = CASE m.kind = "turn" -> m.status = "inProgress"
                        [] m.kind = "thread" ->
                             \E t \in Turns : m.view[t].status = "inProgress"
                        [] OTHER -> active
         /\ prompt' = IF m.kind = "started" THEN "none" ELSE prompt
  /\ ws' = Tail(ws)
  /\ UNCHANGED <<codexVars, serverVars, open, leaves>>
  /\ Restore

Frame ==
  /\ frame
  /\ frame' = FALSE
  /\ view' = Flushed
  /\ deltas' = [t \in Turns |-> <<>>]
  /\ UNCHANGED <<active, open, leaves, codexVars, serverVars, prompt, ws>>
  /\ Restore

\* findActiveTurn(): with one, prompts are queued.
SendPrompt ==
  /\ open /\ prompt = "none"
  /\ \A t \in Turns : view[t].status # "inProgress"
  /\ prompt' = "sent"
  /\ UNCHANGED <<codexVars, asks, serverVars, ws, pageVars, reads>>

\* The page selects another thread.
Leave ==
  /\ open /\ leaves < MaxLeaves
  /\ leaves' = leaves + 1
  /\ open' = FALSE
  /\ UNCHANGED <<deltas, frame, view, active, codexVars, serverVars, prompt, ws>>
  /\ Restore

\* sweepHydratedThreads(): other threads were used more recently.
Sweep ==
  /\ ~open /\ ~active
  /\ view' = [t \in Turns |-> NoTurn]
  /\ UNCHANGED <<deltas, frame, active, open, leaves, codexVars, serverVars, prompt, ws>>
  /\ Restore

\* handleResumeThread(): a thread without turns is read here, and again by the
\* effect.
Reopen ==
  /\ ~open
  /\ open' = TRUE
  /\ asked' = Empty(view)
  /\ LET more == IF Empty(view) THEN 2 ELSE 0
     IN  reads + more <= MaxReads /\ reads' = reads + more /\ asks' = asks + more
  /\ UNCHANGED <<deltas, frame, view, active, leaves, codexVars, serverVars, prompt, ws>>

Next ==
  \/ \E t \in Turns :
       CodexStarts(t) \/ CodexWrites(t) \/ CodexFinishesItem(t) \/ CodexEnds(t)
  \/ CodexReads
  \/ ServerReadsLine
  \/ ServerResponds
  \/ ServerHydrates
  \/ PageReceives
  \/ Frame
  \/ SendPrompt
  \/ Leave
  \/ Sweep
  \/ Reopen

Spec == Init /\ [][Next]_vars

-----------------------------------------------------------------------------
(* Safety. *)

\* The page has followed the thread from its start: an older view of a thread.read
\* replaces what it has, and a view that was swept is read again.
Followed == reads = 0 /\ leaves = 0

\* What a page shows of an item, with what its dispatcher keeps, is what codex
\* has written of it so far: nothing is doubled, lost or misplaced, although
\* deltas wait for a frame and whole items do not.
TextIsPrefix ==
  Followed => \A t \in Turns : IsPrefix(view[t].text \o deltas[t], Text(written[t]))

\* docs/wave1-release-checklist.md, line 59: "Confirm streaming output grows
\* continuously without disappearing and reappearing."
StreamGrows ==
  [][Followed' => \A t \in Turns : IsPrefix(view[t].text, view'[t].text)]_vars

Quiet == stdout = <<>> /\ jobs = <<>> /\ held = <<>> /\ ws = <<>> /\ asks = 0 /\ ~frame

\* An active thread is not left blank: if it has ended turns, the page shows some
\* when everything has arrived, whichever read or notification came last.
OpenIsNotBlank ==
  open /\ Quiet /\ (\E t \in Turns : turn[t] = "ended") => ~Empty(view)

-----------------------------------------------------------------------------
(* Liveness: the server reads its pipe, sockets deliver and browsers paint.    *)
(* Codex and the user may stop at any time.                                    *)

FairSpec ==
  /\ Spec
  /\ WF_vars(ServerReadsLine) /\ WF_vars(ServerResponds) /\ WF_vars(ServerHydrates)
  /\ WF_vars(PageReceives) /\ WF_vars(Frame)

\* What codex has written is shown, although it may write nothing more.
WrittenIsShown ==
  \A t \in Turns : \A n \in Chunks :
    written[t] >= n ~> (Followed => Len(view[t].text) >= n)

\* docs/e2e-test-plan.md, line 118: "Response stops, turn marked as interrupted".
\* A turn that ended is shown as ended.
TurnEnds == \A t \in Turns : turn[t] = "ended" ~> view[t].status = "ended"

=============================================================================
