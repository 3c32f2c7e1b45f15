------------------------------ MODULE ThreadList ------------------------------
(***************************************************************************)
(* The list of threads a page shows, and its connection badge.  Three      *)
(* sources write them: the notifications of the socket, the bootstrap      *)
(* query (HTTP, outside the order of the socket) and the thread.list query *)
(* (over the socket); both queries are kept by react-query, whose data     *)
(* reaches the store in an effect after the next render.                   *)
(*                                                                         *)
(* The server's cache is refreshed in one step here; how a refresh and     *)
(* notifications interleave inside it is the subject of ThreadCache.       *)
(* Workspaces, names, times and archivedThreadCount are left out.          *)
(***************************************************************************)
EXTENDS Naturals, FiniteSets, Sequences, SequencesExt

CONSTANTS Threads, Listed,  \* threads of codex; those it has at the start
          PageSize,         \* most items of a thread.list answer (200)
          None,             \* data a query does not have yet
          MaxEvents         \* bound: changes and reads of threads, exits of codex, lost
                            \* sockets, failed fetches and openings of History

VARIABLES
  codex,       \* codex: thread |-> "none", "idle", "busy" or "archived"
  status,      \* server: RuntimeStatus
  cache,       \* server: threadSummaries, of the values of codex
  cold,        \* server: ~summaryCacheInitialized
  warmup,      \* server: a warm-up is under way
  online,      \* the socket is open
  inbox,       \* what the server has sent over it
  http,        \* bootstrap fetch: "idle", "asked" or "answered"
  answer,      \* the bootstrap answer on its way, or None
  bootstrap,   \* page: data of the bootstrap query, or None
  bootDue,     \* page: bootstrap changed since the effect last ran
  listFetch,   \* page: the thread.list query is being fetched
  list,        \* page: its data, or None
  listInvalid, listDue,
  connection,  \* page: store.connection
  shown,       \* page: store.threadSummaries
  historyOpen, historyFetch, history, historyStale, historyDue,  \* page: Settings, History
  old, statusOld, lost, \* history variables: see SummaryIsDue and ConnectionIsDue
  events       \* counts up to MaxEvents

serverVars == <<codex, status, cache, cold, warmup>>
bootVars == <<http, answer, bootstrap, bootDue>>
listVars == <<listFetch, list, listInvalid, listDue>>
historyVars == <<historyOpen, historyFetch, history, historyStale, historyDue>>
storeVars == <<connection, shown>>
pageVars == <<bootVars, listVars, historyVars, storeVars, old, statusOld, lost>>
vars == <<serverVars, online, inbox, pageVars, events>>

States == {"none", "idle", "busy", "archived"}
Status == [connected : BOOLEAN, restartCount : 0..MaxEvents]

TypeOK ==
  /\ codex \in [Threads -> States] /\ cache \in [Threads -> States]
  /\ shown \in [Threads -> States]
  /\ status \in Status /\ connection \in Status
  /\ (answer # None) <=> (http = "answered")
  /\ ~online => inbox = <<>> /\ ~listFetch /\ ~historyFetch
  /\ bootDue => bootstrap # None
  /\ listDue => list # None
  /\ historyDue => history # None

Down == [connected |-> FALSE, restartCount |-> 0]

Init ==
  /\ codex = [t \in Threads |-> IF t \in Listed THEN "idle" ELSE "none"]
  /\ status = Down /\ cache = [t \in Threads |-> "none"] /\ cold = TRUE /\ warmup = FALSE
  /\ online = FALSE /\ inbox = <<>>
  /\ http = "asked" /\ answer = None /\ bootstrap = None /\ bootDue = FALSE
  /\ listFetch = FALSE /\ list = None /\ listInvalid = FALSE /\ listDue = FALSE
  /\ connection = Down /\ shown = [t \in Threads |-> "none"]
  /\ historyOpen = FALSE /\ historyFetch = FALSE /\ history = None /\ historyStale = FALSE
  /\ historyDue = FALSE
  /\ old = {} /\ statusOld = FALSE /\ lost = FALSE
  /\ events = 0

-----------------------------------------------------------------------------
(* The server. *)

\* The active threads of a cache, as a list shows them.
Active(c) == [t \in Threads |-> IF c[t] = "archived" THEN "none" ELSE c[t]]
Archived(c) == {t \in Threads : c[t] = "archived"}

StatusMessage(s) == [kind |-> "status", status |-> s]
Updated(t, s) == [kind |-> "updated", thread |-> t, state |-> s]
Closed(t) == [kind |-> "closed", thread |-> t]

Broadcast(messages) == inbox' = IF online THEN inbox \o messages ELSE inbox

\* What a call finds once ensureThreadSummaryCache() has run.
Ensured == IF cold THEN codex ELSE cache

Event == events < MaxEvents /\ events' = events + 1

\* thread/started of a new thread.
ThreadStarted(t) ==
  /\ status.connected /\ codex[t] = "none" /\ Event
  /\ codex' = [codex EXCEPT ![t] = "idle"]
  /\ cache' = [Ensured EXCEPT ![t] = "idle"] /\ cold' = FALSE
  /\ Broadcast(<<Updated(t, "idle")>>)
  /\ UNCHANGED <<status, warmup, online, pageVars>>

\* Patches of a summary the cache does not have are dropped; what goes out before and
\* after the announcement goes out at any rate.
Patches(t, s, before, after) ==
  /\ status.connected /\ Event
  /\ codex' = [codex EXCEPT ![t] = s]
  /\ IF cache[t] = "none" THEN UNCHANGED cache /\ Broadcast(before \o after)
     ELSE cache' = [cache EXCEPT ![t] = s] /\ Broadcast(before \o <<Updated(t, s)>> \o after)
  /\ UNCHANGED <<status, cold, warmup, online, pageVars>>

StatusChanged(t, s) ==
  /\ {codex[t], s} = {"idle", "busy"}
  /\ Patches(t, s, <<>>, <<>>)

ThreadClosed(t) ==
  /\ codex[t] \in {"idle", "busy"}
  /\ Patches(t, "idle", <<>>, <<Closed(t)>>)

\* Another client archives the thread; or this page does, which shows it, and codex
\* answers the call and announces the change, in either order.
Archive(t) ==
  /\ codex[t] \in {"idle", "busy"}
  /\ LET mine == <<[kind |-> "answer", thread |-> t, state |-> "archived"]>>
     IN \/ Patches(t, "archived", <<>>, <<>>)
        \/ /\ online /\ shown[t] \in {"idle", "busy"}
           /\ Patches(t, "archived", mine, <<>>) \/ Patches(t, "archived", <<>>, mine)

Unarchive(t) ==
  /\ codex[t] = "archived"
  /\ Patches(t, "idle", <<>>, <<>>)

\* An answer that carries a thread (read, resume, open, unarchive, ...).
ReadThread(t) ==
  /\ online /\ status.connected /\ codex[t] # "none" /\ Event
  /\ cache' = [Ensured EXCEPT ![t] = codex[t]] /\ cold' = FALSE
  /\ Broadcast(<<[kind |-> "answer", thread |-> t, state |-> codex[t]]>>)
  /\ UNCHANGED <<codex, status, warmup, online, pageVars>>

RuntimeConnects ==
  /\ ~status.connected
  /\ status' = [status EXCEPT !.connected = TRUE]
  /\ cold' = TRUE /\ warmup' = TRUE
  /\ Broadcast(<<StatusMessage(status')>>)
  /\ UNCHANGED <<codex, cache, online, pageVars, events>>

\* An attempt that finds no thread is made again, five times at most.
WarmupEnds ==
  /\ warmup
  /\ IF status.connected
     THEN /\ cache' = codex
          /\ cold' = (\A t \in Threads : codex[t] = "none")
          /\ warmup' \in {FALSE, cold'}
          /\ IF cold' THEN UNCHANGED inbox ELSE Broadcast(<<StatusMessage(status)>>)
     ELSE warmup' = FALSE /\ UNCHANGED <<cache, cold, inbox>>
  /\ UNCHANGED <<codex, status, online, pageVars, events>>

RuntimeExits ==
  /\ status.connected /\ Event
  /\ status' = [connected |-> FALSE, restartCount |-> status.restartCount + 1]
  /\ codex' = [t \in Threads |-> IF codex[t] = "busy" THEN "idle" ELSE codex[t]]
  /\ Broadcast(<<StatusMessage(status')>>)
  /\ UNCHANGED <<cache, cold, warmup, online, pageVars>>

-----------------------------------------------------------------------------
(* The queries of the page (react-query). *)

About(t, messages) ==
  \E i \in DOMAIN messages :
    messages[i].kind \in {"updated", "closed", "answer"} /\ messages[i].thread = t
HasStatus(messages) == \E i \in DOMAIN messages : messages[i].kind = "status"

\* An archived thread need not be in the store.
SameTo(s, c) == s = c \/ {s, c} \subseteq {"none", "archived"}

\* Threads of which a list says something else than the server, with nothing in
\* the inbox that will put it right: a notification has overtaken the list.
Overtaken(l) ==
  {t \in Threads : l[t] # Active(Ensured)[t] /\ \A i \in DOMAIN inbox :
                      ~(inbox[i].kind = "updated" /\ inbox[i].thread = t)}

\* invalidateQueries(): a fetch under way is cancelled and made again, except the
\* first one, which has no data to go back to and is joined.
Invalidates(query) == IF query = None /\ http # "idle" THEN http ELSE "asked"
InvalidateBootstrap ==
  /\ http' = Invalidates(bootstrap)
  /\ answer' = IF http' = "asked" THEN None ELSE answer
  /\ lost' = FALSE

BootstrapAnswers ==
  /\ http = "asked" /\ status.connected
  /\ cache' = Ensured /\ cold' = FALSE
  /\ http' = "answered"
  /\ answer' = [runtime |-> status, active |-> Active(cache')]
  /\ UNCHANGED <<codex, status, warmup, online, inbox, bootstrap, bootDue, listVars, historyVars,
                 storeVars, old, statusOld, lost, events>>

\* All four attempts have failed; the data stays.
BootstrapFails ==
  /\ http = "asked" /\ Event
  /\ http' = "idle" /\ lost' = TRUE
  /\ UNCHANGED <<serverVars, online, inbox, answer, bootstrap, bootDue, listVars, historyVars,
                 storeVars, old, statusOld>>

\* The same data again makes no effect run (structural sharing); the times and
\* names that are left out here may still make it new data.
BootstrapArrives ==
  /\ http = "answered"
  /\ http' = "idle" /\ answer' = None
  /\ bootstrap' = answer
  /\ bootDue' \in {TRUE, bootDue \/ bootstrap # answer}
  /\ old' = IF bootDue' THEN Overtaken(answer.active)
            ELSE old \cup {t \in Threads : Active(shown)[t] # answer.active[t]}
  /\ statusOld' = IF bootDue' THEN answer.runtime # status /\ ~HasStatus(inbox) ELSE statusOld
  /\ UNCHANGED <<serverVars, online, inbox, listVars, historyVars, storeVars, lost, events>>

\* The list query is enabled while the page believes it is connected.
FetchList ==
  /\ connection.connected /\ online /\ ~listFetch /\ (list = None \/ listInvalid)
  /\ listFetch' = TRUE /\ listInvalid' = FALSE
  /\ UNCHANGED <<serverVars, online, inbox, bootVars, list, listDue, historyVars, storeVars, old,
                 statusOld, lost, events>>

\* The page asks for 500 items and reads no further page.
CutTo(n, l) ==
  LET found == {t \in Threads : l[t] # "none"}
  IN {[t \in Threads |-> IF t \in kept THEN l[t] ELSE "none"] :
        kept \in {k \in SUBSET found : Cardinality(k) = n \/ (k = found /\ Cardinality(k) <= n)}}

ListAnswers ==
  /\ listFetch /\ status.connected
  /\ \A i \in DOMAIN inbox : inbox[i].kind # "list"
  /\ cache' = Ensured /\ cold' = FALSE
  /\ \E l \in CutTo(PageSize, Active(cache')) : Broadcast(<<[kind |-> "list", list |-> l]>>)
  /\ UNCHANGED <<codex, status, warmup, online, pageVars, events>>

HistoryAnswers ==
  /\ historyFetch /\ status.connected
  /\ \A i \in DOMAIN inbox : inbox[i].kind # "history"
  /\ cache' = Ensured /\ cold' = FALSE
  /\ Broadcast(<<[kind |-> "history", items |-> Archived(cache')]>>)
  /\ UNCHANGED <<codex, status, warmup, online, pageVars, events>>

-----------------------------------------------------------------------------
(* Messages. *)

\* setQueryData() of the bootstrap data.
PatchBootstrap(b) ==
  IF bootstrap = None THEN UNCHANGED <<bootstrap, bootDue>>
  ELSE bootstrap' = b /\ bootDue' = (bootDue \/ b # bootstrap)

\* A fetch of a query that has data is cancelled, with its answer.
Cancelled(query, data, messages) ==
  LET own == {i \in DOMAIN messages : messages[i].kind = query}
  IN IF data = None \/ own = {} THEN messages ELSE RemoveAt(messages, CHOOSE i \in own : TRUE)

\* Mutation: the bootstrap query is not fetched again.
PatchStatusOnly(s, rest) ==
  /\ connection' = s
  /\ PatchBootstrap(IF bootstrap = None THEN None ELSE [bootstrap EXCEPT !.runtime = s])
  /\ statusOld' = FALSE /\ inbox' = rest
  /\ UNCHANGED <<http, answer, lost, listVars, historyVars, shown, old>>

\* Mutation: the data of the bootstrap query keeps its old status.
StatusInStoreOnly(s, rest) ==
  /\ connection' = s
  /\ UNCHANGED <<bootstrap, bootDue>>
  /\ statusOld' = FALSE /\ inbox' = rest
  /\ UNCHANGED <<http, answer, lost, listVars, historyVars, shown, old>>

\* runtime.statusChanged.  What was asked before is cancelled, so its answers
\* are not waited for.
HandleStatus(s, rest) ==
  LET refresh == /\ s.connected /\ bootstrap # None
                 /\ \/ ~connection.connected
                    \/ connection.restartCount # s.restartCount
                    \/ \A t \in Threads : bootstrap.active[t] = "none"
  IN /\ connection' = s
     /\ PatchBootstrap(IF bootstrap = None THEN None ELSE [bootstrap EXCEPT !.runtime = s])
     /\ statusOld' = FALSE
     /\ IF refresh
        THEN /\ InvalidateBootstrap
             /\ listInvalid' = TRUE /\ historyStale' = TRUE
             /\ listFetch' = (listFetch /\ list = None)
             /\ historyFetch' = (historyFetch /\ history = None)
             /\ inbox' = Cancelled("list", list, Cancelled("history", history, rest))
        ELSE /\ inbox' = rest
             /\ UNCHANGED <<http, answer, lost, listInvalid, historyStale, listFetch,
                            historyFetch>>
     /\ UNCHANGED <<list, listDue, historyOpen, history, historyDue, shown, old>>

\* Mutation: the query data is not patched.
StoreOnly(t, s) ==
  /\ shown' = [shown EXCEPT ![t] = s]
  /\ old' = old \ {t}
  /\ UNCHANGED <<bootstrap, bootDue>>

\* thread.updated: patchBootstrapThreadSummary() and upsertThread().
HandleUpdated(t, s) ==
  /\ PatchBootstrap(IF bootstrap = None THEN None
                    ELSE [bootstrap EXCEPT !.active[t] = IF s = "archived" THEN "none" ELSE s])
  /\ shown' = [shown EXCEPT ![t] = s]
  /\ old' = old \ {t}

\* thread.closed: markThreadClosed().  It may be older than the data shown.
MarkClosed(t) ==
  /\ shown' = [shown EXCEPT ![t] = IF @ = "busy" THEN "idle" ELSE @]
  /\ old' = IF shown[t] = "busy" /\ Ensured[t] = "busy" THEN old \cup {t} ELSE old
  /\ UNCHANGED <<bootstrap, bootDue>>

\* hydrateThread(), or markThreadArchived(), which needs a summary; also older than
\* the data shown, perhaps.
HandleAnswer(t, s) ==
  /\ shown' = [shown EXCEPT ![t] = IF s = "archived" /\ @ = "none" THEN @ ELSE s]
  /\ old' = IF SameTo(shown'[t], Ensured[t]) THEN old ELSE old \cup {t}
  /\ UNCHANGED <<bootstrap, bootDue>>

HandleThread(m) ==
  /\ \/ m.kind = "updated" /\ HandleUpdated(m.thread, m.state)
     \/ m.kind = "closed" /\ MarkClosed(m.thread)
     \/ m.kind = "answer" /\ HandleAnswer(m.thread, m.state)
  /\ UNCHANGED <<http, answer, listVars, historyVars, connection, statusOld, lost>>

\* Answers of the two list queries.
HandleList(m) ==
  /\ \/ /\ m.kind = "list"
        /\ list' = m.list /\ listFetch' = FALSE
        /\ listDue' \in {TRUE, listDue \/ list # m.list}
        /\ UNCHANGED <<listInvalid, historyVars>>
     \/ /\ m.kind = "history"
        /\ history' = m.items /\ historyFetch' = FALSE /\ historyStale' = FALSE
        /\ historyDue' \in {TRUE, historyDue \/ history # m.items}
        /\ UNCHANGED <<historyOpen, listVars>>
  /\ UNCHANGED <<bootVars, connection, shown, old, statusOld, lost>>

Receive ==
  /\ online /\ inbox # <<>>
  /\ LET m == Head(inbox)
         rest == Tail(inbox)
     IN IF m.kind = "status" THEN HandleStatus(m.status, rest)
        ELSE /\ inbox' = rest
             /\ IF m.kind \in {"list", "history"} THEN HandleList(m) ELSE HandleThread(m)
  /\ UNCHANGED <<serverVars, online, events>>

\* syncBootstrapActiveThreads(): what is not in the list is archived.
Sync(l, s) ==
  [t \in Threads |-> IF l[t] # "none" THEN l[t]
                     ELSE IF s[t] = "none" THEN "none" ELSE "archived"]

\* The effects after a render: the bootstrap data first, then the list, then the
\* archived threads, which are upserted.
Commit ==
  /\ bootDue \/ listDue \/ historyDue
  /\ LET afterBoot == IF bootDue THEN Sync(bootstrap.active, shown) ELSE shown
         afterList == IF listDue THEN Sync(list, afterBoot) ELSE afterBoot
     IN shown' = [t \in Threads |-> IF historyDue /\ t \in history THEN "archived"
                                   ELSE afterList[t]]
  /\ connection' = IF bootDue THEN bootstrap.runtime ELSE connection
  /\ old' = (IF listDue THEN old \cup Overtaken(list) ELSE old)
              \cup (IF historyDue THEN history \ Archived(Ensured) ELSE {})
  /\ bootDue' = FALSE /\ listDue' = FALSE /\ historyDue' = FALSE
  /\ UNCHANGED <<serverVars, online, inbox, http, answer, bootstrap, listFetch, list, listInvalid,
                 historyOpen, historyFetch, history, historyStale, statusOld, lost, events>>

-----------------------------------------------------------------------------
(* The socket. *)

\* Mutation: a new socket invalidates nothing.
OpenOnly == UNCHANGED <<http, answer, lost>>

\* onConnectionChange(true)
Reconnected == InvalidateBootstrap

\* The server replays the session's own status and then sends the runtime's.
SocketOpens ==
  /\ ~online
  /\ online' = TRUE
  /\ inbox' = <<StatusMessage([connected |-> TRUE, restartCount |-> 0]), StatusMessage(status)>>
  /\ connection' = [connection EXCEPT !.connected = TRUE]
  /\ Reconnected
  /\ UNCHANGED <<serverVars, bootstrap, bootDue, listVars, historyVars, shown, old, statusOld,
                 events>>

\* onConnectionChange(false); the calls under way are rejected.
SocketCloses ==
  /\ online /\ Event
  /\ online' = FALSE /\ inbox' = <<>>
  /\ connection' = [connection EXCEPT !.connected = FALSE]
  /\ listFetch' = FALSE /\ listInvalid' = (listInvalid \/ listFetch)
  /\ historyFetch' = FALSE
  /\ UNCHANGED <<serverVars, bootVars, list, listDue, historyOpen, history, historyStale,
                 historyDue, shown, old, statusOld, lost>>

-----------------------------------------------------------------------------
(* Settings, History. *)

\* The query is enabled while the tab is open, and looks then whether its data
\* is older than 60 seconds.
OpenHistory ==
  /\ ~historyOpen /\ connection.connected /\ online /\ Event
  /\ historyOpen' = TRUE
  /\ historyFetch' = (historyFetch \/ history = None \/ historyStale)
  /\ UNCHANGED <<serverVars, online, inbox, bootVars, listVars, history, historyStale, historyDue, storeVars,
                 old, statusOld, lost>>

RefetchHistory ==
  /\ historyOpen /\ connection.connected /\ online /\ ~historyFetch
  /\ history = None \/ historyStale
  /\ historyFetch' = TRUE
  /\ UNCHANGED <<serverVars, online, inbox, bootVars, listVars, historyOpen, history,
                 historyStale, historyDue, storeVars, old, statusOld, lost, events>>

CloseHistory ==
  /\ historyOpen
  /\ historyOpen' = FALSE
  /\ UNCHANGED <<serverVars, online, inbox, bootVars, listVars, historyFetch, history,
                 historyStale, historyDue, storeVars, old, statusOld, lost, events>>

HistoryAges ==
  /\ history # None /\ ~historyStale /\ ~historyOpen
  /\ historyStale' = TRUE
  /\ UNCHANGED <<serverVars, online, inbox, bootVars, listVars, historyOpen, historyFetch,
                 history, historyDue, storeVars, old, statusOld, lost, events>>

Next ==
  \/ \E t \in Threads :
       \/ ThreadStarted(t) \/ ThreadClosed(t) \/ Archive(t) \/ Unarchive(t) \/ ReadThread(t)
       \/ \E s \in States : StatusChanged(t, s)
  \/ RuntimeConnects \/ WarmupEnds \/ RuntimeExits
  \/ BootstrapAnswers \/ BootstrapFails \/ BootstrapArrives
  \/ FetchList \/ ListAnswers \/ HistoryAnswers
  \/ Receive \/ Commit
  \/ SocketOpens \/ SocketCloses
  \/ OpenHistory \/ RefetchHistory \/ CloseHistory \/ HistoryAges

Spec == Init /\ [][Next]_vars

-----------------------------------------------------------------------------
(* Properties. *)

\* The page will hear the thread's present state: a message about it ends with
\* it, or a bootstrap answer is awaited, or has come and says so.
OnItsWay(t) ==
  \/ About(t, inbox) \/ HasStatus(inbox)
  \/ http # "idle"
  \/ bootDue /\ SameTo(bootstrap.active[t], Ensured[t])

\* While codex runs, what the page shows of a thread is what the server knows of
\* it, or the news is on its way.  Only what arrived out of order or unchanged (old)
\* and a bootstrap request that failed four times (lost) leave something else.
SummaryIsDue ==
  online /\ status.connected /\ ~lost =>
    \A t \in Threads : SameTo(shown[t], Ensured[t]) \/ t \in old \/ OnItsWay(t)

\* While the socket is open the badge shows whether codex is connected, or a
\* status is on its way; only an overtaken bootstrap answer makes it lie.
ConnectionIsDue ==
  online /\ ~statusOld =>
    \/ connection = status
    \/ HasStatus(inbox)
    \/ bootDue /\ bootstrap.runtime = status

=============================================================================
