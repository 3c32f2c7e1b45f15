------------------------------ MODULE Sessions ------------------------------
(***************************************************************************)
(* Sessions of the server, the connections of pages to them, which         *)
(* SessionManager and WorkbenchService both register, and the commands     *)
(* that pages run, whose output goes to the pages of a session.            *)
(*                                                                         *)
(* command.output carries the whole snapshot, so a page shows a command as *)
(* the last message about it did.  What was written is a number of chunks. *)
(* handleCommandStart() waits for the catalogue; what follows that wait,   *)
(* up to the answer on the socket, is one run of promise jobs.             *)
(* The bindings of threads and processes in SessionManager are left out:   *)
(* what reads them has no caller.                                          *)
(***************************************************************************)
EXTENDS Naturals, FiniteSets, Sequences, SequencesExt, Functions

CONSTANTS SessionIds, Connections, Pages, Procs,  \* ids, each used once; pages
          MaxChunks, MaxExits                     \* bounds: output of a command, exits of codex

ASSUME SessionsAssumption == {MaxChunks, MaxExits} \subseteq Nat

VARIABLES
  created,              \* session ids used
  sessions,             \* SessionManager.sessions
  connectionToSession,  \* SessionManager: connection |-> session
  sessionProcess,       \* SessionProcess._connections of each session
  connections,          \* WorkbenchService: connection |-> session
  sessionConnections,   \* WorkbenchService: session |-> set of connections
  socket,               \* connection |-> its page and session; of those opened so far
  alive,                \* connections whose page holds the socket
  closing,              \* connections whose close event is due in the server
  starts,               \* process |-> connection and session of its command.start, waiting
  commandSessions,      \* CommandService: process |-> snapshot
  processOwners,        \* ApprovalBroker: process |-> session
  exec,                 \* CodexRuntime.startCommand() of each process
  connected, serverUp,  \* codex is there; the server is
  inbox,                \* connection |-> messages on their way
  shown,                \* page |-> process |-> snapshot in the store
  missed,               \* history: page and process of a message the page did not get
  exits                 \* counter of the bound

registryVars == <<created, sessions, connectionToSession, sessionProcess, connections,
                  sessionConnections>>
socketVars == <<socket, alive, closing>>
commandVars == <<commandSessions, processOwners, exec>>
vars == <<registryVars, socketVars, starts, commandVars, connected, serverUp, inbox, shown, missed,
          exits>>

Snapshot(status, out) == [status |-> status, out |-> out]
Only(x, v) == [y \in {x} |-> v]
Without(f, x) == Restrict(f, DOMAIN f \ {x})
With(f, x, v) == [y \in DOMAIN f \cup {x} |-> IF y = x THEN v ELSE f[y]]

Snapshots == [status : {"running", "completed", "failed"}, out : 0..MaxChunks]

TypeOK ==
  /\ sessions \subseteq created /\ created \subseteq SessionIds
  /\ \A c \in DOMAIN connectionToSession : connectionToSession[c] \in sessions
  /\ \A s \in SessionIds : sessionProcess[s] # {} => s \in sessions
  /\ \A s \in DOMAIN sessionConnections : sessionConnections[s] # {}
  /\ DOMAIN connections \subseteq DOMAIN socket
  /\ alive \subseteq DOMAIN socket /\ closing \subseteq DOMAIN socket /\ alive \cap closing = {}
  /\ \A p \in DOMAIN commandSessions : commandSessions[p] \in Snapshots
  /\ DOMAIN processOwners = DOMAIN commandSessions
  /\ \A g \in Pages, p \in Procs : p \in DOMAIN shown[g] => shown[g][p] \in Snapshots
  /\ exits \in 0..MaxExits

Init ==
  /\ created = {} /\ sessions = {}
  /\ connectionToSession = <<>> /\ connections = <<>> /\ sessionConnections = <<>>
  /\ sessionProcess = [s \in SessionIds |-> {}]
  /\ socket = <<>> /\ alive = {} /\ closing = {}
  /\ starts = <<>> /\ commandSessions = <<>> /\ processOwners = <<>>
  /\ exec = [p \in Procs |-> "none"]
  /\ connected = FALSE /\ serverUp = TRUE
  /\ inbox = [c \in Connections |-> <<>>]
  /\ shown = [g \in Pages |-> <<>>]
  /\ missed = {} /\ exits = 0

\* Mutation: the connections of SessionManager are served.
ServesSession(s) == sessionProcess[s]

\* notifySession(): the connections that WorkbenchService has for the session.
Served(s) == IF s \in DOMAIN sessionConnections THEN sessionConnections[s] ELSE {}

-----------------------------------------------------------------------------
(* Sessions and connections. *)

\* POST /api/sessions
CreateSession(s) ==
  /\ serverUp /\ s \notin created
  /\ created' = created \cup {s} /\ sessions' = sessions \cup {s}
  /\ UNCHANGED <<connectionToSession, sessionProcess, connections, sessionConnections, socketVars,
                 starts, commandVars, connected, serverUp, inbox, shown, missed, exits>>

\* The reverse lookups of a session that goes.
CleanUp(s) == Restrict(connectionToSession,
                       {c \in DOMAIN connectionToSession : connectionToSession[c] # s})

\* DELETE /api/sessions/:id.  Sockets stay open and WorkbenchService keeps them.
DeleteSession(s) ==
  /\ serverUp /\ s \in sessions
  /\ sessions' = sessions \ {s}
  /\ connectionToSession' = CleanUp(s)
  /\ sessionProcess' = [sessionProcess EXCEPT ![s] = {}]
  /\ UNCHANGED <<created, connections, sessionConnections, socketVars, starts, commandVars, connected,
                 serverUp, inbox, shown, missed, exits>>

\* A page opens a socket to a session it knows; one that is gone is closed (4004).
OpenSocket(g, c, s) ==
  /\ serverUp /\ s \in created
  /\ c \notin DOMAIN socket /\ \A d \in alive : socket[d].page # g
  /\ socket' = With(socket, c, [page |-> g, session |-> s])
  /\ IF s \in sessions
     THEN /\ alive' = alive \cup {c}
          /\ connectionToSession' = With(connectionToSession, c, s)
          /\ sessionProcess' = [sessionProcess EXCEPT ![s] = @ \cup {c}]
          /\ connections' = With(connections, c, s)
          /\ sessionConnections' =
               With(sessionConnections, s,
                    {c} \cup (IF s \in DOMAIN sessionConnections THEN sessionConnections[s] ELSE {}))
     ELSE UNCHANGED <<alive, connectionToSession, sessionProcess, connections, sessionConnections>>
  /\ UNCHANGED <<created, sessions, closing, starts, commandVars, connected, serverUp, inbox, shown,
                 missed, exits>>

\* The network or the page ends it; what was on its way is lost.
LoseSocket(c) ==
  /\ serverUp /\ c \in alive
  /\ alive' = alive \ {c} /\ closing' = closing \cup {c}
  /\ inbox' = [inbox EXCEPT ![c] = <<>>]
  /\ missed' = missed \cup {<<socket[c].page, inbox[c][i].proc>> : i \in DOMAIN inbox[c]}
  /\ UNCHANGED <<registryVars, socket, starts, commandVars, connected, serverUp, shown, exits>>

\* SessionManager.unregisterConnection()
UnregisterConnection(c) ==
  /\ IF c \in DOMAIN connectionToSession
     THEN sessionProcess' = [sessionProcess EXCEPT ![connectionToSession[c]] = @ \ {c}]
     ELSE UNCHANGED sessionProcess
  /\ connectionToSession' = Without(connectionToSession, c)

\* Mutation: only a connection that SessionManager knows is taken out.
ForgetMapped(c) ==
  IF c \in DOMAIN connectionToSession
  THEN /\ connections' = Without(connections, c)
       /\ sessionConnections' = [s \in {t \in DOMAIN sessionConnections : Served(t) # {c}} |->
                                   sessionConnections[s] \ {c}]
  ELSE UNCHANGED <<connections, sessionConnections>>

\* WorkbenchService.unregisterConnection()
UnregisterFromService(c) ==
  IF c \in DOMAIN connections
  THEN LET s == connections[c]
           rest == sessionConnections[s] \ {c}
       IN /\ connections' = Without(connections, c)
          /\ sessionConnections' = IF rest = {} THEN Without(sessionConnections, s)
                                   ELSE [sessionConnections EXCEPT ![s] = rest]
  ELSE UNCHANGED <<connections, sessionConnections>>

\* The close event; an error event before it (more) does the same.
SocketCloses(c, more) ==
  /\ serverUp /\ c \in closing
  /\ closing' = IF more THEN closing ELSE closing \ {c}
  /\ UnregisterConnection(c) /\ UnregisterFromService(c)
  /\ UNCHANGED <<created, sessions, socket, alive, starts, commandVars, connected, serverUp, inbox,
                 shown, missed, exits>>

-----------------------------------------------------------------------------
(* Commands. *)

Message(p, snapshot) == [proc |-> p, snapshot |-> snapshot]

Open(s) == {c \in alive : socket[c].session = s}

\* snapshots of some processes go to connections: sent[p] are those of p.  A page
\* misses one when it holds none of the sockets due[p].
Deliver(sent, due, snapshots) ==
  LET news(c) == {p \in DOMAIN sent : c \in sent[p] \cap alive}
      told(p) == {socket[c].page : c \in due[p]}
  IN /\ inbox' = [c \in Connections |->
                    inbox[c] \o SetToSeq({Message(p, snapshots[p]) : p \in news(c)})]
     /\ missed' = {m \in missed \cup (Pages \X DOMAIN sent) :
                     m[2] \in DOMAIN sent => m[1] \notin told(m[2])}

\* What becomes of the snapshots of ps is told to the pages of their owners.
Tell(ps, snapshots) ==
  /\ commandSessions' = [q \in DOMAIN commandSessions |-> IF q \in ps THEN snapshots[q]
                                                          ELSE commandSessions[q]]
  /\ Deliver([q \in ps |-> Served(processOwners[q])], [q \in ps |-> Open(processOwners[q])],
             snapshots)

\* command.start arrives; the workspace is looked up.
StartCommand(c, p) ==
  /\ serverUp /\ c \in alive
  /\ p \notin DOMAIN starts \cup DOMAIN commandSessions
  /\ starts' = With(starts, p, [connection |-> c, session |-> socket[c].session])
  /\ UNCHANGED <<registryVars, socketVars, commandVars, connected, serverUp, inbox, shown, missed,
                 exits>>

\* The rest of handleCommandStart() with runtime.startCommand(), and the answer.
CommandStarts(p) ==
  /\ serverUp /\ p \in DOMAIN starts
  /\ LET s == Snapshot("running", 0)
     IN /\ commandSessions' = With(commandSessions, p, s)
        /\ Deliver(Only(p, {starts[p].connection}), Only(p, {starts[p].connection} \cap alive), Only(p, s))
  /\ processOwners' = With(processOwners, p, starts[p].session)
  /\ exec' = [exec EXCEPT ![p] = IF connected THEN "sent" ELSE "starting"]
  /\ starts' = Without(starts, p)
  /\ UNCHANGED <<registryVars, socketVars, connected, serverUp, shown, exits>>

\* Codex is up: what waited for that is sent.
CodexStarts ==
  /\ serverUp /\ ~connected /\ connected' = TRUE
  /\ exec' = [p \in Procs |-> IF exec[p] = "starting" THEN "sent" ELSE exec[p]]
  /\ UNCHANGED <<registryVars, socketVars, starts, commandSessions, processOwners, serverUp, inbox,
                 shown, missed, exits>>

\* Nobody handles the rejection of startCommand(): Node ends the server.
StartFails ==
  /\ serverUp /\ ~connected /\ \E p \in Procs : exec[p] = "starting"
  /\ serverUp' = FALSE
  /\ UNCHANGED <<registryVars, socketVars, starts, commandVars, connected, inbox, shown, missed, exits>>

AppendOutput(s) == Snapshot(s.status, s.out + 1)

Complete(s, status) == Snapshot(status, s.out)

\* A line of output; "late" ones were in the pipe when codex exited.
CommandOutput(p) ==
  /\ serverUp /\ exec[p] \in {"sent", "late"}
  /\ commandSessions[p].out < MaxChunks
  /\ Tell({p}, Only(p, AppendOutput(commandSessions[p])))
  /\ UNCHANGED <<registryVars, socketVars, starts, processOwners, exec, connected, serverUp, shown,
                 exits>>

\* The answer to command/exec.
CommandCompleted(p, status) ==
  /\ serverUp /\ connected /\ exec[p] = "sent"
  /\ exec' = [exec EXCEPT ![p] = "done"]
  /\ Tell({p}, Only(p, Complete(commandSessions[p], status)))
  /\ UNCHANGED <<registryVars, socketVars, starts, processOwners, connected, serverUp, shown, exits>>

\* Mutation: calls under way are forgotten.
NoneFail == {}

\* The calls that the exit of codex rejects.
Failing == {p \in Procs : exec[p] = "sent"}

CodexExits ==
  /\ serverUp /\ connected /\ exits < MaxExits
  /\ connected' = FALSE /\ exits' = exits + 1
  /\ exec' = [p \in Procs |-> IF exec[p] = "sent" THEN "late" ELSE exec[p]]
  /\ Tell(Failing, [p \in Failing |-> Complete(commandSessions[p], "failed")])
  /\ UNCHANGED <<registryVars, socketVars, starts, processOwners, serverUp, shown>>

\* setCommandSession()
PageReceives(c) ==
  /\ c \in alive /\ inbox[c] # <<>>
  /\ inbox' = [inbox EXCEPT ![c] = Tail(@)]
  /\ LET m == Head(inbox[c])
     IN shown' = [shown EXCEPT ![socket[c].page] = With(@, m.proc, m.snapshot)]
  /\ UNCHANGED <<registryVars, socketVars, starts, commandVars, connected, serverUp, missed, exits>>

Next ==
  \/ \E s \in SessionIds : CreateSession(s) \/ DeleteSession(s)
  \/ \E g \in Pages, c \in Connections, s \in SessionIds : OpenSocket(g, c, s)
  \/ \E c \in Connections : LoseSocket(c) \/ PageReceives(c)
  \/ \E c \in Connections, more \in BOOLEAN : SocketCloses(c, more)
  \/ \E c \in Connections, p \in Procs : StartCommand(c, p)
  \/ \E p \in Procs : CommandStarts(p) \/ CommandOutput(p)
  \/ \E p \in Procs, status \in {"completed", "failed"} : CommandCompleted(p, status)
  \/ CodexStarts \/ StartFails \/ CodexExits

Spec == Init /\ [][Next]_vars

-----------------------------------------------------------------------------
\* Both registries speak of the same connections: what SessionManager maps to a
\* session is a connection of that SessionProcess and, in WorkbenchService, of that
\* session; what only WorkbenchService has is of a session that was deleted (app.ts:163).
\* Every socket a page holds is registered, and a registered one is held or has its
\* close event to come: none stays after its events.
RegistriesAgree ==
  /\ \A c \in DOMAIN connectionToSession :
        /\ c \in sessionProcess[connectionToSession[c]]
        /\ c \in DOMAIN connections /\ connections[c] = connectionToSession[c]
  /\ \A s \in SessionIds : \A c \in sessionProcess[s] :
        c \in DOMAIN connectionToSession /\ connectionToSession[c] = s
  /\ \A c \in DOMAIN connections :
        c \in DOMAIN connectionToSession \/ connections[c] \notin sessions
  /\ \A s \in SessionIds : Served(s) = {c \in DOMAIN connections : connections[c] = s}
  /\ alive \subseteq DOMAIN connections /\ DOMAIN connections \subseteq alive \cup closing

\* Where in the inbox of c the messages about p are.
Due(c, p) == {i \in DOMAIN inbox[c] : inbox[c][i].proc = p}

\* The last message a page got about a command, or will get, is what CommandService
\* has: messages about it pass neither each other nor the answer of command.start.
\* Only a page that lost one is behind.
CommandIsShown ==
  \A c \in alive : \A p \in DOMAIN commandSessions :
    LET g == socket[c].page IN
    /\ \A i \in Due(c, p) :
          (\A j \in Due(c, p) : j <= i) => inbox[c][i].snapshot = commandSessions[p]
    /\ Due(c, p) = {} /\ p \in DOMAIN shown[g] /\ <<g, p>> \notin missed =>
          shown[g][p] = commandSessions[p]

\* A command that is shown as running has something that will end it: a call to codex
\* that is pending or that waits for codex.
CommandIsDue ==
  \A p \in DOMAIN commandSessions :
    commandSessions[p].status = "running" => exec[p] \in {"starting", "sent"}

\* A page shows of its commands what they have done, and none is left running.
CommandsAreShown == CommandIsShown /\ CommandIsDue

\* Every page is served by its session, and told what its commands do.
PagesAreServed == RegistriesAgree /\ CommandsAreShown

=============================================================================
