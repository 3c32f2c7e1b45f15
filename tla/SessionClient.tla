--------------------------- MODULE SessionClient ---------------------------
(***************************************************************************)
(* The WebSocket client of a page (apps/web/src/shared/workbench/          *)
(* session-ws-client.ts) against the server it reconnects to.              *)
(*                                                                         *)
(* The browser owns the sockets: it opens, fails and closes them and runs  *)
(* the listeners later, one task at a time.  Each connect() may create a   *)
(* socket of its own while an older one has not yet fired its "close", and *)
(* the listeners of all of them write the same fields of the client.       *)
(*                                                                         *)
(* The server knows the sessions it has created since it was started.  It  *)
(* accepts a socket for an unknown one and closes it with code 4004.       *)
(***************************************************************************)
EXTENDS Naturals, FiniteSets

CONSTANTS Calls,       \* calls the page makes
          Sockets,     \* bound: sockets that may exist at one time
          NoSocket,    \* null
          MaxDelay,    \* bound: steps of the backoff, 1s to 30s
          MaxDrops,    \* bound: connections the network or the server drops
          MaxRestarts  \* bound: restarts of the server

ASSUME NoSocketAssumption == NoSocket \notin Sockets
ASSUME BoundsAssumption == MaxDelay \in Nat /\ MaxDrops \in Nat /\ MaxRestarts \in Nat

VARIABLES
  sock,            \* readyState of each socket, and what the server makes of it
  socket,          \* this.socket
  connectPromise,  \* this.connectPromise, the socket it waits for
  reconnectTimer,  \* this.reconnectTimer is set
  delay,           \* this.reconnectDelay, counted in doublings
  state,           \* this._state
  disposed,        \* this.disposed
  pending,         \* keys of this.pending
  phase,           \* the promise of each call
  via,             \* the socket a call waits for or was sent on
  up,              \* the server runs
  known,           \* ... and knows the session
  drops, restarts  \* counters of the bounds

clientVars == <<socket, connectPromise, reconnectTimer, delay, state, disposed>>
callVars == <<pending, phase, via>>
serverVars == <<up, known, drops, restarts>>
vars == <<sock, clientVars, callVars, serverVars>>

\* none: never made, or closed for good.  refused: open, but the server is about
\* to close it with 4004.  dead: open to the browser, gone at the other end.
\* closing: its "close" event is due, be it that it never opened.
Open == {"open", "refused", "dead"}

Settled == {"ok", "failed"}

TypeOK ==
  /\ sock \in [Sockets -> {"none", "connecting", "closing"} \cup Open]
  /\ socket \in Sockets \cup {NoSocket}
  /\ connectPromise \in Sockets \cup {NoSocket}
  /\ reconnectTimer \in BOOLEAN
  /\ delay \in 0..MaxDelay
  /\ state \in {"disconnected", "connecting", "connected"}
  /\ disposed \in BOOLEAN
  /\ pending \subseteq Calls
  /\ phase \in [Calls -> {"idle", "waiting", "sent"} \cup Settled]
  /\ via \in [Calls -> Sockets \cup {NoSocket}]
  /\ up \in BOOLEAN /\ known \in BOOLEAN
  /\ drops \in 0..MaxDrops /\ restarts \in 0..MaxRestarts

\* useActiveClient() has found or made a session and calls connect().
Init ==
  \E k \in Sockets :
    /\ sock = [l \in Sockets |-> IF l = k THEN "connecting" ELSE "none"]
    /\ socket = k
    /\ connectPromise = k
    /\ reconnectTimer = FALSE
    /\ delay = 0
    /\ state = "connecting"
    /\ disposed = FALSE
    /\ pending = {}
    /\ phase = [c \in Calls |-> "idle"]
    /\ via = [c \in Calls |-> NoSocket]
    /\ up = TRUE /\ known = TRUE
    /\ drops = 0 /\ restarts = 0

-----------------------------------------------------------------------------
(* connect() and call(). *)

IsOpen(k) == k \in {l \in Sockets : sock[l] \in Open}

\* connect() would return without a new socket.
MustConnect == ~disposed /\ ~IsOpen(socket) /\ connectPromise = NoSocket

\* The new socket takes the place of one that is still closing.
NewSocket(k) ==
  /\ sock[k] = "none"
  /\ sock' = [sock EXCEPT ![k] = "connecting"]
  /\ socket' = k
  /\ connectPromise' = k
  /\ state' = "connecting"
  /\ UNCHANGED <<reconnectTimer, delay, disposed>>

\* call() on a client whose connect() returns at once: the message is sent, or
\* send() throws and the entry is taken back.
CallNow(c) ==
  /\ disposed \/ IsOpen(socket)
  /\ IF IsOpen(socket)
     THEN /\ pending' = pending \cup {c}
          /\ phase' = [phase EXCEPT ![c] = "sent"]
          /\ via' = [via EXCEPT ![c] = socket]
     ELSE /\ phase' = [phase EXCEPT ![c] = "failed"]
          /\ UNCHANGED <<pending, via>>
  /\ UNCHANGED <<sock, clientVars>>

\* call() awaits the socket of the promise, which it may have to make.
CallLater(c) ==
  /\ ~disposed /\ ~IsOpen(socket)
  /\ \/ /\ MustConnect
        /\ \E k \in Sockets : NewSocket(k)
     \/ /\ ~MustConnect
        /\ UNCHANGED <<sock, clientVars>>
  /\ phase' = [phase EXCEPT ![c] = "waiting"]
  /\ via' = [via EXCEPT ![c] = connectPromise']
  /\ UNCHANGED pending

Call(c) ==
  /\ phase[c] = "idle"
  /\ CallNow(c) \/ CallLater(c)
  /\ UNCHANGED serverVars

-----------------------------------------------------------------------------
(* Listeners of a socket. *)

\* Mutation: only calls made while connected are resumed.
ResumeWaitersIfCurrent(k) ==
  IF k = socket
  THEN /\ pending' = pending \cup {c \in Calls : phase[c] = "waiting" /\ via[c] = k}
       /\ phase' = [c \in Calls |->
                      IF phase[c] = "waiting" /\ via[c] = k THEN "sent" ELSE phase[c]]
       /\ UNCHANGED via
  ELSE UNCHANGED callVars

\* The calls that awaited socket k go on, in promise jobs of the same task: they
\* write to this.socket, whichever that is by now.
ResumeWaiters(k) ==
  LET waiters  == {c \in Calls : phase[c] = "waiting" /\ via[c] = k}
      sendable == socket = k \/ IsOpen(socket)
  IN  /\ pending' = pending \cup (IF sendable THEN waiters ELSE {})
      /\ phase' = [c \in Calls |->
                     IF c \notin waiters THEN phase[c]
                     ELSE IF sendable THEN "sent" ELSE "failed"]
      /\ via' = [c \in Calls |-> IF c \in waiters THEN socket ELSE via[c]]

\* "open": the server accepts the socket, of whatever session.
SocketOpens(k) ==
  /\ sock[k] = "connecting" /\ up
  /\ sock' = [sock EXCEPT ![k] = IF known THEN "open" ELSE "refused"]
  /\ state' = "connected"
  /\ delay' = 0
  /\ connectPromise' = NoSocket
  /\ ResumeWaiters(k)
  /\ UNCHANGED <<socket, reconnectTimer, disposed, serverVars>>

\* A response: one whose id has left the map is dropped.
Response(c) ==
  /\ phase[c] = "sent" /\ c \in pending /\ sock[via[c]] = "open"
  /\ pending' = pending \ {c}
  /\ \E r \in Settled : phase' = [phase EXCEPT ![c] = r]
  /\ UNCHANGED <<sock, clientVars, via, serverVars>>

\* Mutation: the calls of the present socket are spared.
RejectPendingOf(k) ==
  LET lost == {c \in pending : via[c] # k}
      late == {c \in Calls : phase[c] = "waiting" /\ via[c] = k}
  IN  /\ pending' = pending \ lost
      /\ phase' = [c \in Calls |-> IF c \in lost \cup late THEN "failed" ELSE phase[c]]
      /\ UNCHANGED via

\* rejectPending(), and the rejection of the connect promise of a socket that
\* never opened.
RejectPending(k) ==
  LET late == {c \in Calls : phase[c] = "waiting" /\ via[c] = k}
  IN  /\ pending' = {}
      /\ phase' = [c \in Calls |-> IF c \in pending \cup late THEN "failed" ELSE phase[c]]
      /\ UNCHANGED via

\* Mutation: a client that has a socket leaves reconnecting to it.
ScheduleReconnectUnlessConnecting ==
  IF disposed \/ reconnectTimer \/ state = "connecting"
  THEN UNCHANGED <<reconnectTimer, delay>>
  ELSE /\ reconnectTimer' = TRUE
       /\ delay' = IF delay < MaxDelay THEN delay + 1 ELSE delay

\* scheduleReconnect()
ScheduleReconnect ==
  IF disposed \/ reconnectTimer
  THEN UNCHANGED <<reconnectTimer, delay>>
  ELSE /\ reconnectTimer' = TRUE
       /\ delay' = IF delay < MaxDelay THEN delay + 1 ELSE delay

\* "close", of any socket the client ever made; for one that never opened the
\* "error" event runs just before it, in the same task.
SocketCloses(k) ==
  /\ \/ sock[k] \in {"closing", "dead"}
     \/ sock[k] = "connecting" /\ ~up
  /\ sock' = [sock EXCEPT ![k] = "none"]
  /\ state' = "disconnected"
  /\ socket' = NoSocket
  /\ connectPromise' = NoSocket
  /\ RejectPending(k)
  /\ ScheduleReconnect
  /\ UNCHANGED <<disposed, serverVars>>

\* The timer of scheduleReconnect(): void this.connect().
ReconnectTimerFires ==
  /\ reconnectTimer
  /\ \/ /\ MustConnect
        /\ \E k \in Sockets :
             /\ sock[k] = "none"
             /\ sock' = [sock EXCEPT ![k] = "connecting"]
             /\ socket' = k
             /\ connectPromise' = k
             /\ state' = "connecting"
     \/ /\ ~MustConnect
        /\ UNCHANGED <<sock, socket, connectPromise, state>>
  /\ reconnectTimer' = FALSE
  /\ UNCHANGED <<delay, disposed, callVars, serverVars>>

\* dispose(), on unmount: the socket is told to close and forgotten.
Dispose ==
  /\ ~disposed
  /\ disposed' = TRUE
  /\ reconnectTimer' = FALSE
  /\ sock' = [k \in Sockets |->
                IF k = socket /\ sock[k] # "none" THEN "closing" ELSE sock[k]]
  /\ socket' = NoSocket
  /\ state' = "disconnected"
  /\ pending' = {}
  /\ phase' = [c \in Calls |-> IF c \in pending THEN "failed" ELSE phase[c]]
  /\ UNCHANGED <<connectPromise, delay, via, serverVars>>

-----------------------------------------------------------------------------
(* The server and the network. *)

\* A close frame arrives: readyState is CLOSING until the "close" event.
ServerCloses(k) ==
  /\ \/ sock[k] = "refused" /\ UNCHANGED drops          \* 4004
     \/ sock[k] = "open" /\ drops < MaxDrops /\ drops' = drops + 1
  /\ sock' = [sock EXCEPT ![k] = "closing"]
  /\ UNCHANGED <<clientVars, callVars, up, known, restarts>>

\* The connection breaks without a frame, or is never made.
NetworkDrops(k) ==
  /\ drops < MaxDrops
  /\ drops' = drops + 1
  /\ \/ sock[k] = "open" /\ sock' = [sock EXCEPT ![k] = "dead"]
     \/ sock[k] = "connecting" /\ sock' = [sock EXCEPT ![k] = "closing"]
  /\ UNCHANGED <<clientVars, callVars, up, known, restarts>>

\* The server ends.  Sessions live in its memory.
ServerStops ==
  /\ up /\ restarts < MaxRestarts
  /\ restarts' = restarts + 1
  /\ up' = FALSE
  /\ known' = FALSE
  /\ sock' = [k \in Sockets |-> IF IsOpen(k) THEN "dead" ELSE sock[k]]
  /\ UNCHANGED <<clientVars, callVars, drops>>

ServerStarts ==
  /\ ~up
  /\ up' = TRUE
  /\ UNCHANGED <<sock, clientVars, callVars, known, drops, restarts>>

Next ==
  \/ \E c \in Calls : Call(c) \/ Response(c)
  \/ \E k \in Sockets :
       \/ SocketOpens(k) \/ SocketCloses(k) \/ ServerCloses(k) \/ NetworkDrops(k)
  \/ ReconnectTimerFires
  \/ Dispose
  \/ ServerStops
  \/ ServerStarts

Spec == Init /\ [][Next]_vars

-----------------------------------------------------------------------------
(* Safety. *)

\* Until it is disposed of, the client is never left without a next event: it
\* has a socket that will open or close, or its timer is armed, although "close"
\* events of older sockets null this.socket and the promise at any time.
NeverStranded ==
  ~disposed => reconnectTimer \/ (socket # NoSocket /\ sock[socket] # "none")

\* A call in `pending` was sent on a socket whose answer or whose "close" is yet
\* to come; a call that awaits a socket awaits one that will open or fail.
NoLostCall ==
  \A c \in Calls :
    /\ phase[c] = "sent" => c \in pending /\ via[c] \in {k \in Sockets : sock[k] # "none"}
    /\ phase[c] = "waiting" =>
         via[c] \in {k \in Sockets : sock[k] \in {"connecting", "closing"}}

\* Neither the client nor a call waits for something that cannot happen.
NothingIsStranded == NeverStranded /\ NoLostCall

-----------------------------------------------------------------------------
(* Liveness: browsers run the listeners and timers that are due; a server that *)
(* runs answers calls, refuses unknown sessions and, once stopped, is started  *)
(* again.  Drops, stops and dispose() are owed to nobody.                      *)

Fairness ==
  /\ \A k \in Sockets :
       /\ WF_vars(SocketOpens(k))
       /\ WF_vars(SocketCloses(k))
       /\ WF_vars(sock[k] = "refused" /\ ServerCloses(k))
  /\ \A c \in Calls : WF_vars(Response(c))
  /\ WF_vars(ReconnectTimerFires)
  /\ WF_vars(ServerStarts)

FairSpec == Spec /\ Fairness

\* Every call of the page settles, whatever becomes of its socket.
CallsSettle == \A c \in Calls : phase[c] \in {"waiting", "sent"} ~> phase[c] \in Settled

\* A client whose session the server still knows ends up on an open socket for
\* good, although the "close" events of older sockets undo its state meanwhile.
ReconnectsToItsSession ==
  []known => <>[](disposed \/ (IsOpen(socket) /\ sock[socket] = "open"))

\* docs/e2e-test-plan.md, lines 281 and 282: after "server restart or network drop"
\* the "Client reconnects automatically with backoff".
Reconnects == <>[](disposed \/ (IsOpen(socket) /\ sock[socket] = "open"))

=============================================================================
