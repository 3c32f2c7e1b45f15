------------------------------ MODULE ThreadViews ------------------------------
(***************************************************************************)
(* What of the threads one page holds and shows: the active thread, the    *)
(* views of the few threads it keeps (hydratedThreads), the effects of     *)
(* WorkbenchScreen that read the active thread, sweep the other views and  *)
(* mark threads that completed in the background, and the actions of the   *)
(* user that open, fork, roll back and leave threads.                      *)
(*                                                                         *)
(* A view is the set of the turns it shows.  Every change of the store is  *)
(* rendered and its effects have run before the next message is handled    *)
(* (Commit); MaxEvents bounds what users and codex do and what fails.      *)
(***************************************************************************)
EXTENDS Integers, Sequences, FiniteSets, FiniteSetsExt, SequencesExt, Functions

CONSTANTS Threads, Existing,  \* all threads; those there are at first
          None,               \* no active thread
          Kept,               \* MAX_HYDRATED_THREADS
          MaxEvents

VARIABLES
  history,      \* codex: thread |-> its turns; its domain are the threads there are
  codexStatus,  \* codex: thread |-> "notLoaded", "idle" or "active"
  turns,        \* codex: turns started so far
  online, inbox,\* the page's socket, and what is on its way to the page
  calls,        \* calls of the page codex has not answered
  due,          \* answers of codex the server has not passed on
  resync,       \* the bootstrap query is to be fetched
  bootstrapped, \* it has data
  active,       \* store: activeThreadId
  status,       \* store: thread |-> status in threadSummaries, or "none"
  views, order, \* store: hydratedThreads, hydratedOrder
  cards,        \* store: threads in pendingApprovals
  restored,     \* restoredThreadIdRef
  marks,        \* completedThreadMarks
  partial,      \* history: views a notification made
  stale,        \* history: views put back by an older answer, or that missed a notification
  failed,       \* history: threads without a view, the last read of which failed
  ended,        \* history: threads a turn of which ended and was not looked at since
  misled,       \* history: threads with a status that was lost or out of date
  events

codexVars == <<history, codexStatus, turns>>
wireVars == <<online, inbox, due, resync, bootstrapped>>
storeVars == <<active, status, cards>>
vars == <<codexVars, wireVars, storeVars, calls, views, order, restored, marks,
          partial, stale, failed, ended, misled, events>>

Statuses == {"notLoaded", "idle", "active"}
Kinds == {"read", "resume", "rollback", "open", "fork"}

TypeOK ==
  /\ Existing \subseteq DOMAIN history /\ DOMAIN history \subseteq Threads
  /\ \A t \in DOMAIN history : history[t] \subseteq 0..turns
  /\ codexStatus \in [DOMAIN history -> Statuses]
  /\ active \in Threads \cup {None} /\ restored \in Threads \cup {None}
  /\ status \in [Threads -> Statuses \cup {"none"}]
  /\ DOMAIN views \subseteq Threads /\ ToSet(order) \subseteq Threads /\ IsInjective(order)
  /\ \A c \in ToSet(calls) : c.kind \in Kinds /\ c.thread \in Threads \cup {None}
  /\ cards \subseteq Threads /\ marks \subseteq Threads
  /\ partial \cup stale \subseteq DOMAIN views
  /\ ~online => inbox = <<>>

Init ==
  /\ history = [t \in Existing |-> {0}]
  /\ codexStatus = [t \in Existing |-> "notLoaded"]
  /\ turns = 0
  /\ online = TRUE /\ inbox = <<>> /\ calls = <<>> /\ due = <<>>
  /\ resync = TRUE /\ bootstrapped = FALSE
  /\ active \in Existing \cup {None}
  /\ status = [t \in Threads |-> "none"]
  /\ views = <<>> /\ order = <<>> /\ cards = {} /\ restored = None /\ marks = {}
  /\ partial = {} /\ stale = {} /\ failed = {} /\ ended = {} /\ misled = {}
  /\ events = 0

Event == events < MaxEvents /\ events' = events + 1

View(t) == IF t \in DOMAIN views THEN views[t] ELSE {}
Touch(ids, t) == <<t>> \o Remove(ids, t)
Put(f, t, v) == [u \in DOMAIN f \cup {t} |-> IF u = t THEN v ELSE f[u]]
StartIsDue(t) == \E m \in ToSet(inbox') : m.thread = t /\ m.kind # "turn" /\ m.status = "active"

-----------------------------------------------------------------------------
(* The effects that follow a change of the store. *)

\* Mutation: the sweep is not told which thread is active.
PinnedInBackground(act, st, asking) ==
  {t \in Threads : st[t] = "active" \/ (st[t] # "none" /\ t \in asking)}

\* Threads whose view the sweep keeps at any rate.
Pinned(act, st, asking) ==
  {t \in Threads : t = act \/ st[t] = "active" \/ (st[t] # "none" /\ t \in asking)}

\* Pinned threads count although they may have no view.
Keeps(v, o) ==
  LET pinned == Pinned(active', status', cards')
      others == SelectSeq(o, LAMBDA t : t \in DOMAIN v \ pinned)
      room == Max({Kept, Cardinality(pinned)}) - Cardinality(pinned)
  IN pinned \cup {others[i] : i \in DOMAIN others \cap (1..room)}

\* The active thread is read once, if its view shows no turn.
Restores(v) ==
  /\ bootstrapped' /\ active' # None /\ status'[active'] # "none"
  /\ ~(active' \in DOMAIN v /\ v[active'] # {})
  /\ restored # active'

RestoredId(v) ==
  IF ~bootstrapped' \/ active' = None \/ (active' \in DOMAIN v /\ v[active'] # {}) THEN None
  ELSE IF Restores(v) THEN active' ELSE restored

\* Mutation: the thread on screen is marked too.
MarksAll ==
  {t \in Threads : /\ status'[t] \notin {"none", "active"}
                   /\ t \in marks \/ status[t] = "active"}

Marks ==
  {t \in Threads : /\ status'[t] \notin {"none", "active"} /\ active' # t
                   /\ t \in marks \/ status[t] = "active"}

\* The store holds the views v in the order o, the page has made the calls made; fresh:
\* hydratedThreads is a new object, so that the sweep runs.
Commit(v, o, made, fresh) ==
  LET touched == IF active' = None THEN o ELSE Touch(o, active')
      sweeps == fresh \/ active' # active \/ cards' # cards
      kept == IF sweeps THEN Keeps(v, touched) ELSE Threads
  IN /\ restored' = RestoredId(v)
     /\ calls' = made \o (IF Restores(v) THEN <<[kind |-> "read", thread |-> active']>> ELSE <<>>)
     /\ marks' = Marks
     /\ views' = Restrict(v, DOMAIN v \cap kept)
     /\ order' = SelectSeq(IF sweeps THEN touched ELSE o, LAMBDA t : t \in kept)
     /\ ended' = {t \in ended : ~(active' = t /\ status'[t] # "active" /\ ~StartIsDue(t))}

-----------------------------------------------------------------------------
(* The user. *)

\* handleResumeThread(): a click on a thread in the sidebar.
Click(t) ==
  /\ Event /\ status[t] # "none"
  /\ active' = t
  /\ UNCHANGED <<status, cards, wireVars, codexVars, misled>>
  /\ Commit(views, order,
            IF View(t) # {} THEN calls ELSE Append(calls, [kind |-> "read", thread |-> t]), FALSE)
  /\ failed' = failed \ {t}
  /\ partial' = partial \cap DOMAIN views' /\ stale' = stale \cap DOMAIN views'

\* "New thread" in the palette: the thread is opened when its first prompt is sent.
LeaveThread ==
  /\ Event /\ active # None
  /\ active' = None
  /\ UNCHANGED <<status, cards, wireVars, codexVars, misled, failed>>
  /\ Commit(views, order, calls, FALSE)
  /\ partial' = partial \cap DOMAIN views' /\ stale' = stale \cap DOMAIN views'

\* What the user asks of codex changes nothing before the answer comes.
Ask(kind, t) ==
  /\ Event
  /\ calls' = Append(calls, [kind |-> kind, thread |-> t])
  /\ UNCHANGED <<storeVars, wireVars, codexVars, views, order, restored, marks,
                 partial, stale, failed, ended, misled>>

OpenThread == Ask("open", None)
ForkThread(t) == status[t] # "none" /\ Ask("fork", t)
RollbackThread(t) == active = t /\ status[t] # "none" /\ Ask("rollback", t)

\* ensureLoadedThread(), before a prompt is sent.
EnsureLoadedThread(t) == active = t /\ status[t] = "notLoaded" /\ Ask("resume", t)

-----------------------------------------------------------------------------
(* Codex and the server. *)

Sent(ms) == inbox' = IF online THEN inbox \o ms ELSE inbox
StatusMessage(t, s) == [kind |-> "status", thread |-> t, status |-> s]
TurnMessage(t, n) == [kind |-> "turn", thread |-> t, turn |-> n]

PageRests == UNCHANGED <<storeVars, views, order, restored, marks, calls, partial, failed>>

\* A turn of any page starts, ends, or asks.
CodexStarts(t) ==
  /\ Event /\ codexStatus[t] # "active"
  /\ turns' = turns + 1
  /\ history' = [history EXCEPT ![t] = @ \cup {turns + 1}]
  /\ codexStatus' = [codexStatus EXCEPT ![t] = "active"]
  /\ Sent(<<StatusMessage(t, "active"), TurnMessage(t, turns + 1)>>)
  /\ stale' = IF online THEN stale ELSE stale \cup ({t} \cap DOMAIN views)
  /\ misled' = IF online THEN misled ELSE misled \cup {t}
  /\ PageRests /\ UNCHANGED <<online, due, resync, bootstrapped, ended>>

CodexEnds(t) ==
  /\ codexStatus[t] = "active"
  /\ codexStatus' = [codexStatus EXCEPT ![t] = "idle"]
  /\ Sent(<<TurnMessage(t, Max(history[t])), StatusMessage(t, "idle")>>)
  /\ ended' = ended \cup {t}
  /\ PageRests /\ UNCHANGED <<history, turns, online, due, resync, bootstrapped, stale, misled, events>>

\* Codex carries out the call c; a new thread is opened or forked off.
Answer(c, t) == [kind |-> c.kind, thread |-> t, turns |-> history'[t], status |-> codexStatus'[t]]

CodexReads(c) ==
  /\ c.kind \in {"read", "resume"}
  /\ codexStatus' = IF c.kind = "resume" /\ codexStatus[c.thread] = "notLoaded"
                      THEN [codexStatus EXCEPT ![c.thread] = "idle"] ELSE codexStatus
  /\ UNCHANGED history
  /\ due' = Append(due, Answer(c, c.thread))

CodexRollsBack(c) ==
  /\ c.kind = "rollback" /\ codexStatus[c.thread] = "idle" /\ history[c.thread] # {}
  /\ history' = [history EXCEPT ![c.thread] = @ \ {Max(@)}]
  /\ UNCHANGED codexStatus
  /\ due' = Append(due, Answer(c, c.thread))

CodexMakesThread(c) ==
  /\ c.kind \in {"open", "fork"}
  /\ \E t \in Threads \ DOMAIN history :
       /\ history' = Put(history, t, IF c.kind = "fork" THEN history[c.thread] ELSE {})
       /\ codexStatus' = Put(codexStatus, t, "idle")
       /\ due' = Append(due, Answer(c, t))

CodexAnswers(i) ==
  /\ online
  /\ CodexReads(calls[i]) \/ CodexRollsBack(calls[i]) \/ CodexMakesThread(calls[i])
  /\ calls' = RemoveAt(calls, i)
  /\ UNCHANGED <<storeVars, views, order, restored, marks, partial, stale, failed, ended, misled,
                 turns, online, inbox, resync, bootstrapped, events>>

\* The server goes on in a promise job and awaits the catalogue; it broadcasts the
\* summary and then answers, with what codex said before.
ServerAnswers(j) ==
  LET a == due[j]
  IN /\ inbox' = Append(inbox, [kind |-> a.kind, thread |-> a.thread, turns |-> a.turns, status |-> a.status,
                                old |-> a.turns # history[a.thread] \/ a.status # codexStatus[a.thread]])
     /\ due' = RemoveAt(due, j)
     /\ PageRests
     /\ UNCHANGED <<codexVars, online, resync, bootstrapped, stale, ended, misled, events>>

Fail(fails) ==
  failed \cup {c.thread : c \in {d \in fails : d.kind = "read" /\ View(d.thread) = {}}}

CallFails(i) ==
  /\ Event
  /\ calls' = RemoveAt(calls, i)
  /\ failed' = Fail({calls[i]})
  /\ UNCHANGED <<codexVars, wireVars, storeVars, views, order, restored, marks, partial, stale,
                 ended, misled>>

\* The socket is lost, with what was on it and every call.
SocketCloses ==
  /\ Event /\ online
  /\ online' = FALSE /\ inbox' = <<>> /\ calls' = <<>> /\ due' = <<>>
  /\ failed' = Fail(ToSet(calls) \cup ToSet(due) \cup ToSet(inbox))
  /\ stale' = stale \cup {t \in DOMAIN views : \E m \in ToSet(inbox) \cup ToSet(due) :
                                                m.thread = t /\ m.kind # "status"}
  /\ misled' = misled \cup {t \in Threads : \E m \in ToSet(inbox) : m.thread = t /\ m.kind # "turn"}
  /\ UNCHANGED <<codexVars, storeVars, views, order, restored, marks, partial, ended,
                 resync, bootstrapped>>

SocketOpens ==
  /\ ~online /\ online' = TRUE /\ resync' = TRUE
  /\ UNCHANGED <<codexVars, storeVars, calls, views, order, restored, marks, partial, stale, failed,
                 ended, misled, inbox, due, bootstrapped, events>>

-----------------------------------------------------------------------------
(* The page. *)

\* syncBootstrapActiveThreads(): the bootstrap query has data, of every thread there is.
Bootstrap ==
  /\ resync /\ resync' = FALSE /\ bootstrapped' = TRUE
  /\ status' = [t \in Threads |-> IF t \in DOMAIN history THEN codexStatus[t] ELSE status[t]]
  /\ UNCHANGED <<active, cards, codexVars, online, inbox, due, failed, events>>
  /\ Commit(views, order, calls, TRUE)
  /\ misled' = {t \in misled : status'[t] # "active"}
  /\ partial' = partial \cap DOMAIN views' /\ stale' = stale \cap DOMAIN views'

\* Mutation: the view is changed in place.
HandleStatusInPlace(m) ==
  /\ m.kind = "status"
  /\ status' = [status EXCEPT ![m.thread] = m.status]
  /\ UNCHANGED <<active, cards, failed, misled>>
  /\ Commit(views, order, calls, FALSE)
  /\ partial' = partial \cap DOMAIN views' /\ stale' = stale \cap DOMAIN views'

\* upsertThread(): hydratedThreads is replaced only where it has the thread.
HandleStatus(m) ==
  /\ m.kind = "status"
  /\ status' = [status EXCEPT ![m.thread] = m.status]
  /\ UNCHANGED <<active, cards, failed, misled>>
  /\ Commit(views, order, calls, m.thread \in DOMAIN views)
  /\ partial' = partial \cap DOMAIN views' /\ stale' = stale \cap DOMAIN views'

\* applyTurn(), applyTimelineItem(), applyDeltaEntries(): a thread without a view gets one.
HandleTurn(m) ==
  /\ m.kind = "turn"
  /\ UNCHANGED <<storeVars, failed, misled>>
  /\ Commit(Put(views, m.thread, View(m.thread) \cup {m.turn}), Touch(order, m.thread), calls, TRUE)
  /\ partial' = DOMAIN views' \cap
                  (IF m.thread \in DOMAIN views THEN partial ELSE partial \cup {m.thread})
  /\ stale' = stale \cap DOMAIN views'

\* Mutation: the turns of the answer are added to those of the view.
HandleAnswerMerged(m) ==
  /\ m.kind \in Kinds
  /\ status' = [status EXCEPT ![m.thread] = m.status]
  /\ active' = IF m.kind \in {"open", "fork"} THEN m.thread ELSE active
  /\ UNCHANGED cards
  /\ Commit(Put(views, m.thread, View(m.thread) \cup m.turns), Touch(order, m.thread), calls, TRUE)
  /\ failed' = failed \ {m.thread}
  /\ partial' = DOMAIN views' \cap (partial \ {m.thread})
  /\ stale' = DOMAIN views' \cap (IF m.old THEN stale \cup {m.thread} ELSE stale \ {m.thread})
  /\ misled' = IF m.old THEN misled \cup {m.thread} ELSE misled

\* hydrateThread(), and for a new thread setActiveThread(), whatever is active by now.
HandleAnswer(m) ==
  /\ m.kind \in Kinds
  /\ status' = [status EXCEPT ![m.thread] = m.status]
  /\ active' = IF m.kind \in {"open", "fork"} THEN m.thread ELSE active
  /\ UNCHANGED cards
  /\ Commit(Put(views, m.thread, m.turns), Touch(order, m.thread), calls, TRUE)
  /\ failed' = failed \ {m.thread}
  /\ partial' = DOMAIN views' \cap (partial \ {m.thread})
  /\ stale' = DOMAIN views' \cap (IF m.old THEN stale \cup {m.thread} ELSE stale \ {m.thread})
  /\ misled' = IF m.old THEN misled \cup {m.thread} ELSE misled

Receive ==
  /\ inbox # <<>> /\ inbox' = Tail(inbox)
  /\ UNCHANGED <<codexVars, online, due, resync, bootstrapped, events>>
  /\ HandleStatus(Head(inbox)) \/ HandleTurn(Head(inbox)) \/ HandleAnswer(Head(inbox))

\* queueApproval() and resolveApproval().
Card(t) ==
  /\ Event
  /\ cards' = IF t \in cards THEN cards \ {t} ELSE cards \cup {t}
  /\ UNCHANGED <<active, status, wireVars, codexVars, failed, misled>>
  /\ Commit(views, order, calls, FALSE)
  /\ partial' = partial \cap DOMAIN views' /\ stale' = stale \cap DOMAIN views'

Next ==
  \/ \E t \in Threads : \/ Click(t) \/ ForkThread(t) \/ RollbackThread(t) \/ EnsureLoadedThread(t)
                        \/ Card(t)
  \/ \E t \in DOMAIN history : CodexStarts(t) \/ CodexEnds(t)
  \/ \E i \in DOMAIN calls : CodexAnswers(i) \/ CallFails(i)
  \/ \E j \in DOMAIN due : ServerAnswers(j)
  \/ LeaveThread \/ OpenThread \/ SocketCloses \/ SocketOpens \/ Bootstrap \/ Receive

Spec == Init /\ [][Next]_vars

-----------------------------------------------------------------------------
\* The active thread shows what codex has of it: otherwise an answer or a notification
\* that will tell is under way, its read failed and was not asked for again, its view
\* was made by a notification alone, or it missed one or was put back by an older answer.
ActiveIsWhole ==
  (bootstrapped /\ active # None /\ status[active] # "none" /\ View(active) # history[active]) =>
    \/ \E c \in ToSet(calls) \cup ToSet(due) : c.thread = active
    \/ \E m \in ToSet(inbox) : m.thread = active /\ m.kind # "status"
    \/ active \in failed \cup partial \cup stale

\* A thread has a completion mark exactly when a turn of it ended in the background and
\* the user has not opened it since, as far as no status of it was lost or out of date.
MarkIsTrue ==
  \A t \in DOMAIN history \ misled :
    (bootstrapped /\ status[t] = codexStatus[t]
      /\ ~\E m \in ToSet(inbox) \cup ToSet(due) : m.thread = t /\ m.kind # "turn")
    => (t \in marks <=> t \in ended /\ active # t /\ status[t] # "active")

\* The page keeps two views, or those of the threads that are active, run or ask if they
\* are more, although the effect that sweeps does not depend on the statuses.
ViewsAreBounded ==
  Cardinality(DOMAIN views) <= Max({Kept, Cardinality(Pinned(active, status, cards))})

\* The sweep and the reads keep what is needed and no more: the whole view of the active
\* thread, and few of the others.
ViewsAreKept == ActiveIsWhole /\ ViewsAreBounded

=============================================================================
