---------------------------- MODULE ActiveClient ----------------------------
(***************************************************************************)
(* How a tab gets its session: useActiveClient() looks up the one that the *)
(* tabs of a browser keep in localStorage, or makes one, and connects to   *)
(* it; SessionManager remembers the threads and processes of each session; *)
(* SessionProcess replays to a new connection what the session has told.   *)
(*                                                                         *)
(* How a socket is opened again is the subject of SessionClient, who gets  *)
(* the output of a command that of Sessions.  The one message a session    *)
(* tells is that it was created: a runtime status of its own making.       *)
(***************************************************************************)
EXTENDS Naturals, Sequences, FiniteSets, SequencesExt, Functions

CONSTANTS Tabs, SessionIds, Threads, Procs,
          NoSession, NoThread,
          CreatedStatus,  \* the status transitionTo() makes up
          MaxStatus,      \* bound: changes of codex's status
          MaxBound,       \* bound: threads and processes bound at once
          MaxMishaps      \* bound: reloads, remounts, deletions, lost requests and sockets

VARIABLES
  stored,           \* localStorage["webcli.activeSessionId"]
  page,             \* tab |-> how far initSession() is, its client, socket and subscription
  flights,          \* requests of initSession()
  made,             \* session ids used
  sessions,         \* SessionManager.sessions: id |-> _threadId and _history
  threadToSession, processToSession,
  status,           \* codex's status, a number that grows
  inbox, connection,     \* tab |-> statuses on their way to it; the one it shows
  late,             \* history: tabs that got a message of their socket before they subscribed
  parted,           \* history: something made a tab leave the session of the others
  shared,           \* history: threads that two sessions had
  mishaps           \* counter of the bound

tabVars == <<stored, page, flights, inbox, connection, late, parted>>
managerVars == <<made, sessions, threadToSession, processToSession, shared>>
vars == <<tabVars, managerVars, status, mishaps>>

Closed == [stage |-> "closed", sid |-> NoSession, socket |-> "none", subscribed |-> FALSE]

TypeOK ==
  /\ stored \in made \cup {NoSession} /\ made \subseteq SessionIds
  /\ page \in [Tabs -> [stage : {"closed", "starting", "ready", "failed"},
                        sid : made \cup {NoSession},
                        socket : {"none", "connecting", "open"}, subscribed : BOOLEAN]]
  /\ DOMAIN sessions \subseteq made
  /\ DOMAIN threadToSession \subseteq Threads /\ DOMAIN processToSession \subseteq Procs
  /\ connection \in [Tabs -> 0..MaxStatus \cup {CreatedStatus, NoSession}]
  /\ mishaps \in 0..MaxMishaps

Init ==
  /\ stored = NoSession
  /\ page = [t \in Tabs |-> Closed] /\ flights = <<>>
  /\ made = {} /\ sessions = <<>> /\ threadToSession = <<>> /\ processToSession = <<>>
  /\ status = 0
  /\ inbox = [t \in Tabs |-> <<>>] /\ connection = [t \in Tabs |-> NoSession]
  /\ late = {} /\ parted = FALSE /\ shared = {}
  /\ mishaps = 0

Without(f, x) == Restrict(f, DOMAIN f \ {x})
With(f, x, v) == [y \in DOMAIN f \cup {x} |-> IF y = x THEN v ELSE f[y]]

Mishap == mishaps < MaxMishaps /\ mishaps' = mishaps + 1

-----------------------------------------------------------------------------
(* initSession()                                                           *)

\* of: the tab is there ("live"), its effect was cleaned up ("cancelled"), it is gone ("gone")
Flight(t, kind, sid) == [tab |-> t, kind |-> kind, sid |-> sid, of |-> "live", answer |-> "none"]

Starting(t) == \E k \in DOMAIN flights : flights[k].tab = t /\ flights[k].of = "live"

\* The flights of t that are left behind, and the one with which a new initSession() starts.
Restarted(t, of) ==
  Append([k \in DOMAIN flights |->
            IF flights[k].tab = t /\ flights[k].of = "live" THEN [flights[k] EXCEPT !.of = of]
            ELSE flights[k]],
         IF stored # NoSession THEN Flight(t, "get", stored) ELSE Flight(t, "post", NoSession))

Mount(t, of) ==
  /\ page' = [page EXCEPT ![t] = [Closed EXCEPT !.stage = "starting"]]
  /\ flights' = Restarted(t, of)
  /\ inbox' = [inbox EXCEPT ![t] = <<>>]
  /\ late' = late \ {t}
  /\ parted' = (parted \/ \E u \in Tabs \ {t} : Starting(u))
  /\ UNCHANGED <<stored, managerVars, status>>

Load(t) ==
  /\ page[t].stage = "closed"
  /\ Mount(t, "live")
  /\ UNCHANGED <<connection, mishaps>>

\* The tab is loaded anew: what its script was waiting for, nothing waits for any more.
Reload(t) ==
  /\ page[t].stage # "closed" /\ Mishap
  /\ Mount(t, "gone")
  /\ connection' = [connection EXCEPT ![t] = NoSession]

\* The effect is cleaned up and run again (StrictMode): the store stays, the client is disposed.
Remount(t) ==
  /\ page[t].stage # "closed" /\ Mishap
  /\ Mount(t, "cancelled")
  /\ UNCHANGED connection

Done(k) == flights' = RemoveAt(flights, k)

\* The continuation with a session id: nothing of it happens when the effect was cleaned up.
Found(k, sid) ==
  LET t == flights[k].tab IN
  /\ Done(k)
  /\ IF flights[k].of = "live"
     THEN /\ stored' = sid
          /\ page' = [page EXCEPT ![t] = [stage |-> "ready", sid |-> sid, socket |-> "connecting",
                                          subscribed |-> FALSE]]
     ELSE UNCHANGED <<stored, page>>
  /\ UNCHANGED parted

\* getSession() failed, whatever the reason: another session is made.
NotFound(k) ==
  /\ flights' = [flights EXCEPT ![k] = [@ EXCEPT !.kind = "post", !.answer = "none"]]
  /\ parted' = TRUE
  /\ UNCHANGED <<stored, page>>

\* createSession() failed: the tab stays without a client.
NotCreated(k) ==
  /\ Done(k)
  /\ page' = IF flights[k].of = "live" THEN [page EXCEPT ![flights[k].tab].stage = "failed"] ELSE page
  /\ UNCHANGED <<stored, parted>>

Answer(k) ==
  /\ flights[k].answer # "none"
  /\ IF flights[k].of = "gone" THEN Done(k) /\ UNCHANGED <<stored, page, parted>>
     ELSE IF flights[k].answer = "ok" THEN Found(k, flights[k].sid) ELSE NotFound(k)
  /\ UNCHANGED <<managerVars, inbox, connection, late, status, mishaps>>

Fail(k) ==
  /\ Mishap
  /\ IF flights[k].of = "gone" THEN Done(k) /\ UNCHANGED <<stored, page, parted>>
     ELSE IF flights[k].kind = "get" THEN NotFound(k) ELSE NotCreated(k)
  /\ UNCHANGED <<managerVars, inbox, connection, late, status>>

-----------------------------------------------------------------------------
(* The server.                                                             *)

\* GET /api/sessions/:id
ServeGet(k) ==
  /\ flights[k].kind = "get"
  /\ flights' = [flights EXCEPT ![k].answer =
                   IF flights[k].sid \in DOMAIN sessions THEN "ok" ELSE "not found"]
  /\ UNCHANGED managerVars

\* POST /api/sessions: the new session tells that it is idle, to nobody yet.
CreateSession(k) ==
  \E id \in SessionIds \ made :
    /\ flights[k].kind = "post"
    /\ made' = made \cup {id}
    /\ sessions' = With(sessions, id, [threadId |-> NoThread, history |-> <<CreatedStatus>>])
    /\ flights' = [flights EXCEPT ![k] = [@ EXCEPT !.answer = "ok", !.sid = id]]
    /\ UNCHANGED <<threadToSession, processToSession, shared>>

Serve(k) ==
  /\ flights[k].answer = "none"
  /\ ServeGet(k) \/ CreateSession(k)
  /\ UNCHANGED <<stored, page, inbox, connection, late, parted, status, mishaps>>

\* DELETE /api/sessions/:id, which no page of the repository asks for.
DeleteSession(s) ==
  /\ s \in DOMAIN sessions /\ Mishap
  /\ threadToSession' = Without(threadToSession, sessions[s].threadId)
  /\ processToSession' = Restrict(processToSession,
                            {p \in DOMAIN processToSession : processToSession[p] # s})
  /\ sessions' = Without(sessions, s)
  /\ UNCHANGED <<tabVars, made, shared, status>>

StatusFirst(s) == <<status>> \o sessions[s].history
Greeting(s) == sessions[s].history \o <<status>>

\* The socket is registered in SessionManager, which replays the history, then in the service,
\* which tells codex's status.  Of a session that is not there it is closed (4004), to be tried again.
Opens(t) ==
  LET s == page[t].sid IN
  /\ page[t].socket = "connecting" /\ s \in DOMAIN sessions
  /\ page' = [page EXCEPT ![t].socket = "open"]
  /\ inbox' = [inbox EXCEPT ![t] = Greeting(s)]
  /\ late' = late \ {t}
  /\ UNCHANGED <<stored, flights, connection, parted, managerVars, status, mishaps>>

Drops(t) ==
  /\ page[t].socket = "open" /\ Mishap
  /\ page' = [page EXCEPT ![t].socket = "connecting"]
  /\ inbox' = [inbox EXCEPT ![t] = <<>>]
  /\ UNCHANGED <<stored, flights, connection, late, parted, managerVars, status>>

\* status.changed: the service tells every connection, also those of deleted sessions.
StatusChanges ==
  /\ status < MaxStatus /\ status' = status + 1
  /\ inbox' = [t \in Tabs |-> IF page[t].socket = "open" THEN Append(inbox[t], status') ELSE inbox[t]]
  /\ UNCHANGED <<stored, page, flights, connection, late, parted, managerVars, mishaps>>

Bindable(threads, procs) == Cardinality(threads) + Cardinality(procs) <= MaxBound

\* A call over the socket answered with a thread: bindThread()
BindThread(t, th) ==
  LET s == page[t].sid IN
  /\ page[t].socket = "open"
  /\ Bindable(DOMAIN threadToSession \cup {th}, DOMAIN processToSession)
  /\ s \in DOMAIN sessions
  /\ sessions' = [sessions EXCEPT ![s].threadId = th]
  /\ threadToSession' = With(threadToSession, th, s)
  /\ shared' = shared \cup {x \in {th} : x \in DOMAIN threadToSession /\ threadToSession[x] # s}
  /\ UNCHANGED <<tabVars, made, processToSession, status, mishaps>>

\* command.start was answered: bindProcess(), which does not look whether the session is there
BindProcess(t, p) ==
  /\ page[t].socket = "open" /\ p \notin DOMAIN processToSession
  /\ Bindable(DOMAIN threadToSession, DOMAIN processToSession \cup {p})
  /\ processToSession' = With(processToSession, p, page[t].sid)
  /\ UNCHANGED <<tabVars, made, sessions, threadToSession, shared, status, mishaps>>

-----------------------------------------------------------------------------
(* The page.                                                               *)

\* The effect of WorkbenchScreen subscribes when it runs for the sessionId of a client.
Subscribe(t) ==
  /\ page[t].stage = "ready" /\ ~page[t].subscribed
  /\ page' = [page EXCEPT ![t].subscribed = TRUE]
  /\ UNCHANGED <<stored, flights, inbox, connection, late, parted, managerVars, status, mishaps>>

\* runtime.statusChanged
Receive(t) ==
  /\ inbox[t] # <<>> /\ inbox' = [inbox EXCEPT ![t] = Tail(@)]
  /\ IF page[t].subscribed
       THEN connection' = [connection EXCEPT ![t] = Head(inbox[t])] /\ UNCHANGED late
       ELSE late' = late \cup {t} /\ UNCHANGED connection
  /\ UNCHANGED <<stored, page, flights, parted, managerVars, status, mishaps>>

Next ==
  \/ \E t \in Tabs :
       \/ Load(t) \/ Reload(t) \/ Remount(t)
       \/ Opens(t) \/ Drops(t) \/ Subscribe(t) \/ Receive(t)
       \/ \E th \in Threads : BindThread(t, th)
       \/ \E p \in Procs : BindProcess(t, p)
  \/ \E k \in DOMAIN flights : Serve(k) \/ Answer(k) \/ Fail(k)
  \/ \E s \in SessionIds : DeleteSession(s)
  \/ StatusChanges

Spec == Init /\ [][Next]_vars

-----------------------------------------------------------------------------
(* A tab whose socket is open and that has received everything shows the status codex has, though *)
(* each connection is first told the status its session was created with, which says that codex is *)
(* connected: what SessionProcess replays comes before what WorkbenchService tells.               *)
StatusIsTrue ==
  \A t \in Tabs : page[t].socket = "open" /\ inbox[t] = <<>> /\ t \notin late => connection[t] = status

(* The tabs of a browser share one session, the one in localStorage, unless two of them started at *)
(* the same time, or the session was not found (useActiveClient).                                 *)
TabsShareSession ==
  ~parted => \A t \in Tabs : page[t].stage = "ready" => page[t].sid = stored

(* The session that has a thread is found for it, if no other session had this thread             *)
(* (SessionManager.bindThread, getSessionByThreadId).                                             *)
ThreadsAreFound ==
  \A s \in DOMAIN sessions :
    sessions[s].threadId \in Threads \ shared =>
      /\ sessions[s].threadId \in DOMAIN threadToSession
      /\ threadToSession[sessions[s].threadId] = s

ClientsAreServed == StatusIsTrue /\ TabsShareSession /\ ThreadsAreFound
=============================================================================
