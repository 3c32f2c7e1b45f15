--------------------------- MODULE SessionsProofs ---------------------------
(***************************************************************************)
(* Theorems about Sessions, for any pages, connections, sessions and       *)
(* commands and any bounds.  The registries are an invariant of their own  *)
(* (RegistryInv).  That pages show what commands have done needs it: the   *)
(* connections WorkbenchService has for a session are those pages hold, so *)
(* what is told to the session reaches every page that holds one, and a    *)
(* message on its way is of the session that owns the command.  A page     *)
(* without a socket is described too (SeenIsNew): it may open one again.   *)
(***************************************************************************)
EXTENDS Sessions, SequenceLemmas

-----------------------------------------------------------------------------
(* The helpers of the module. *)

\* Setting one entry of a function, as Map.set() does.
LEMMA WithIs ==
  ASSUME NEW f, NEW x, NEW v
  PROVE  /\ DOMAIN With(f, x, v) = DOMAIN f \cup {x}
         /\ With(f, x, v)[x] = v
         /\ \A y \in DOMAIN f \ {x} : With(f, x, v)[y] = f[y]
BY DEF With

\* Removing one, as Map.delete() does.
LEMMA WithoutIs ==
  ASSUME NEW f, NEW x
  PROVE  /\ DOMAIN Without(f, x) = DOMAIN f \ {x}
         /\ \A y \in DOMAIN f \ {x} : Without(f, x)[y] = f[y]
BY DEF Without, Restrict

\* w is a with the elements of b after it.
Continues(w, a, b) ==
  /\ \A i \in DOMAIN a : i \in DOMAIN w /\ w[i] = a[i]
  /\ \A i \in DOMAIN w \ DOMAIN a :
        (\A j \in DOMAIN a : j < i) /\ \E j \in DOMAIN b : w[i] = b[j]
  /\ \A j \in DOMAIN b : \E i \in DOMAIN w \ DOMAIN a : w[i] = b[j]

\* What is appended to a sequence comes after what was there.
LEMMA ConcatIs ==
  ASSUME NEW T, NEW a \in Seq(T), NEW b \in Seq(T)
  PROVE  a \o b \in Seq(T) /\ Continues(a \o b, a, b)
<1>. DEFINE w == a \o b
<1>1. /\ w \in Seq(T) /\ Len(w) = Len(a) + Len(b)
      /\ \A i \in 1 .. Len(a) + Len(b) : w[i] = IF i <= Len(a) THEN a[i] ELSE b[i - Len(a)]
  BY ConcatProperties
<1>. HIDE DEF w
<1>2. PICK m \in Nat, n \in Nat :
        Len(a) = m /\ DOMAIN a = 1..m /\ Len(b) = n /\ DOMAIN b = 1..n /\ DOMAIN w = 1..m + n
  BY <1>1, LenProperties
<1>3. \A i \in 1..m : i \in 1..m + n /\ w[i] = a[i]
  BY <1>1, <1>2
<1>4. \A j \in 1..n : j + m \in (1..m + n) \ (1..m) /\ w[j + m] = b[j]
  BY <1>1, <1>2
<1>5. \A i \in (1..m + n) \ (1..m) : (\A j \in 1..m : j < i) /\ i - m \in 1..n /\ w[i] = b[i - m]
  BY <1>1, <1>2
<1>6. \A j \in DOMAIN b : \E i \in DOMAIN w \ DOMAIN a : w[i] = b[j]
  BY <1>2, <1>4
<1>7. \A i \in DOMAIN w \ DOMAIN a :
        (\A j \in DOMAIN a : j < i) /\ \E j \in DOMAIN b : w[i] = b[j]
  BY <1>2, <1>5
<1>8. Continues(w, a, b)
  BY <1>2, <1>3, <1>6, <1>7 DEF Continues
<1>. QED
  BY <1>1, <1>8 DEF w

-----------------------------------------------------------------------------
(* The registries. *)

\* Types; a connection is registered for the session its socket was opened for.
Registered ==
  /\ sessions \subseteq created /\ created \subseteq SessionIds
  /\ DOMAIN connections \subseteq DOMAIN socket
  /\ alive \cup closing \subseteq DOMAIN socket /\ alive \cap closing = {}
  /\ DOMAIN sessionProcess = SessionIds
  /\ \A c \in DOMAIN connectionToSession : connectionToSession[c] \in sessions
  /\ \A c \in DOMAIN connections :
        connections[c] \in created /\ connections[c] = socket[c].session
  /\ \A s \in DOMAIN sessionConnections : s \in SessionIds /\ sessionConnections[s] # {}

RegistryInv == Registered /\ RegistriesAgree

LEMMA InitRegistry == Init => RegistryInv
BY DEF Init, RegistryInv, Registered, RegistriesAgree, Served

LEMMA CreateSessionRegistry ==
  ASSUME RegistryInv, NEW s \in SessionIds, CreateSession(s) PROVE RegistryInv'
BY DEF CreateSession, RegistryInv, Registered, RegistriesAgree, Served, socketVars

LEMMA DeleteSessionRegistry ==
  ASSUME RegistryInv, NEW s \in SessionIds, DeleteSession(s) PROVE RegistryInv'
BY DEF DeleteSession, CleanUp, Restrict, RegistryInv, Registered, RegistriesAgree, Served, socketVars

LEMMA LoseSocketRegistry ==
  ASSUME RegistryInv, NEW c \in Connections, LoseSocket(c) PROVE RegistryInv'
BY DEF LoseSocket, RegistryInv, Registered, RegistriesAgree, Served, registryVars

LEMMA OpenSocketRegistry ==
  ASSUME RegistryInv, NEW g \in Pages, NEW c \in Connections, NEW s \in SessionIds,
         OpenSocket(g, c, s)
  PROVE  RegistryInv'
<1>1. CASE s \notin sessions
  BY <1>1 DEF OpenSocket, RegistryInv, Registered, RegistriesAgree, Served, With
<1>2. CASE s \in sessions
  <2>1. /\ c \notin DOMAIN connections /\ c \notin DOMAIN connectionToSession
        /\ c \notin DOMAIN socket
    BY DEF OpenSocket, RegistryInv, Registered, RegistriesAgree
  <2>2. /\ connections' = With(connections, c, s)
        /\ connectionToSession' = With(connectionToSession, c, s)
        /\ sessionProcess' = [sessionProcess EXCEPT ![s] = @ \cup {c}]
        /\ sessionConnections' = With(sessionConnections, s, {c} \cup Served(s))
        /\ alive' = alive \cup {c} /\ closing' = closing
        /\ socket' = With(socket, c, [page |-> g, session |-> s])
        /\ created' = created /\ sessions' = sessions
    BY <1>2 DEF OpenSocket, Served
  <2>3. Registered'
    BY <1>2, <2>1, <2>2 DEF RegistryInv, Registered, With
  <2>4. \A t \in SessionIds : Served(t)' = IF t = s THEN Served(t) \cup {c} ELSE Served(t)
    BY <2>2 DEF Served, With
  <2>5. RegistriesAgree'
    BY <1>2, <2>1, <2>2, <2>4 DEF RegistryInv, Registered, RegistriesAgree, With
  <2>. QED
    BY <2>3, <2>5 DEF RegistryInv
<1>. QED
  BY <1>1, <1>2

LEMMA SocketClosesRegistry ==
  ASSUME RegistryInv, NEW c \in Connections, NEW more \in BOOLEAN, SocketCloses(c, more)
  PROVE  RegistryInv'
<1>1. /\ c \notin alive /\ c \in closing
      /\ alive' = alive /\ created' = created /\ sessions' = sessions /\ socket' = socket
      /\ closing \ {c} \subseteq closing' /\ closing' \subseteq closing
  BY DEF SocketCloses, RegistryInv, Registered
<1>2. connectionToSession' = Without(connectionToSession, c)
  BY DEF SocketCloses, UnregisterConnection
<1>3. /\ DOMAIN sessionProcess' = SessionIds
      /\ \A s \in SessionIds : sessionProcess'[s] = sessionProcess[s] \ {c}
  BY DEF SocketCloses, UnregisterConnection, RegistryInv, Registered, RegistriesAgree
<1>4. /\ DOMAIN connections' = DOMAIN connections \ {c}
      /\ \A d \in DOMAIN connections \ {c} : connections'[d] = connections[d]
  BY DEF SocketCloses, UnregisterFromService, Without, Restrict
<1>5. \A s \in SessionIds : Served(s)' = Served(s) \ {c}
  <2>1. CASE c \notin DOMAIN connections
    BY <2>1 DEF SocketCloses, UnregisterFromService, RegistryInv, RegistriesAgree, Served
  <2>2. CASE c \in DOMAIN connections
    <3>. DEFINE t == connections[c]
    <3>1. t \in SessionIds /\ c \in Served(t)
      BY <2>2 DEF RegistryInv, Registered, RegistriesAgree
    <3>2. t \in DOMAIN sessionConnections /\ Served(t) = sessionConnections[t]
      BY <3>1 DEF Served
    <3>3. sessionConnections' = IF Served(t) \ {c} = {} THEN Without(sessionConnections, t)
                                ELSE [sessionConnections EXCEPT ![t] = Served(t) \ {c}]
      BY <2>2, <3>2 DEF SocketCloses, UnregisterFromService
    <3>4. \A s \in SessionIds : s # t => c \notin Served(s)
      BY DEF RegistryInv, RegistriesAgree
    <3>. QED
      BY <3>1, <3>2, <3>3, <3>4 DEF Served, Without, Restrict
  <2>. QED
    BY <2>1, <2>2
<1>8. \A s \in DOMAIN sessionConnections' : s \in SessionIds /\ sessionConnections'[s] # {}
  BY DEF SocketCloses, UnregisterFromService, RegistryInv, Registered, Without, Restrict
<1>6. Registered'
  BY <1>1, <1>2, <1>3, <1>4, <1>8 DEF RegistryInv, Registered, Without, Restrict
<1>7. RegistriesAgree'
  BY <1>1, <1>2, <1>3, <1>4, <1>5 DEF RegistryInv, Registered, RegistriesAgree, Without, Restrict
<1>. QED
  BY <1>6, <1>7 DEF RegistryInv

LEMMA StepRegistry == RegistryInv /\ [Next]_vars => RegistryInv'
<1>. SUFFICES ASSUME RegistryInv, [Next]_vars PROVE RegistryInv'
  OBVIOUS
<1>1. ASSUME NEW s \in SessionIds, CreateSession(s) \/ DeleteSession(s) PROVE RegistryInv'
  BY <1>1, CreateSessionRegistry, DeleteSessionRegistry
<1>2. ASSUME NEW g \in Pages, NEW c \in Connections, NEW s \in SessionIds, OpenSocket(g, c, s)
      PROVE  RegistryInv'
  BY <1>2, OpenSocketRegistry
<1>4. ASSUME NEW c \in Connections, NEW more \in BOOLEAN, SocketCloses(c, more) PROVE RegistryInv'
  BY <1>4, SocketClosesRegistry
<1>5. ASSUME UNCHANGED <<registryVars, socketVars>> PROVE RegistryInv'
  BY <1>5 DEF registryVars, socketVars, RegistryInv, Registered, RegistriesAgree, Served
<1>3. ASSUME NEW c \in Connections, LoseSocket(c) \/ PageReceives(c) PROVE RegistryInv'
  BY <1>3, <1>5, LoseSocketRegistry DEF PageReceives
<1>6. ASSUME NEW c \in Connections, NEW p \in Procs, StartCommand(c, p)
      PROVE  RegistryInv'
  BY <1>5, <1>6 DEF StartCommand
<1>10. ASSUME NEW p \in Procs, CommandStarts(p) \/ CommandOutput(p) PROVE RegistryInv'
  BY <1>5, <1>10 DEF CommandStarts, CommandOutput
<1>7. ASSUME NEW p \in Procs, NEW status \in {"completed", "failed"}, CommandCompleted(p, status)
      PROVE  RegistryInv'
  BY <1>5, <1>7 DEF CommandCompleted
<1>8. ASSUME CodexStarts \/ StartFails \/ CodexExits PROVE RegistryInv'
  BY <1>5, <1>8 DEF CodexStarts, StartFails, CodexExits
<1>9. CASE UNCHANGED vars
  BY <1>5, <1>9 DEF vars
<1>. QED
  BY <1>1, <1>2, <1>3, <1>4, <1>6, <1>7, <1>8, <1>9, <1>10 DEF Next

\* SessionManager and WorkbenchService never disagree about a connection, except that
\* WorkbenchService keeps those of a deleted session, and none stays after its events.
THEOREM RegistriesAlwaysAgree == Spec => []RegistriesAgree
<1>1. RegistryInv => RegistriesAgree
  BY DEF RegistryInv
<1>. QED
  BY InitRegistry, StepRegistry, <1>1, PTL DEF Spec

-----------------------------------------------------------------------------
(* Commands: the invariant. *)

Messages == [proc : Procs, snapshot : Snapshots]

CommandTypes ==
  /\ commandSessions \in [DOMAIN commandSessions -> Snapshots]
  /\ DOMAIN commandSessions \subseteq Procs /\ IsFiniteSet(DOMAIN commandSessions)
  /\ DOMAIN processOwners = DOMAIN commandSessions
  /\ DOMAIN exec = Procs
  /\ \A p \in Procs : exec[p] # "none" => p \in DOMAIN commandSessions
  /\ DOMAIN starts \subseteq Procs \ DOMAIN commandSessions
  /\ \A p \in DOMAIN starts :
        /\ starts[p].connection \in DOMAIN socket
        /\ starts[p].session = socket[starts[p].connection].session
  /\ DOMAIN socket \subseteq Connections
  /\ \A c \in DOMAIN socket : socket[c].page \in Pages
  /\ DOMAIN shown = Pages
  /\ \A g \in Pages : \A p \in DOMAIN shown[g] : shown[g][p] \in Snapshots
  /\ DOMAIN inbox = Connections
  /\ exits \in 0..MaxExits

\* A page holds one socket.
OneSocket == \A c, d \in alive : socket[c].page = socket[d].page => c = d

\* What is on its way is about commands of the session of its connection.
MessagesOfOwner ==
  \A c \in Connections :
    /\ inbox[c] \in Seq(Messages)
    /\ c \notin alive => inbox[c] = <<>>
    /\ \A i \in DOMAIN inbox[c] :
          /\ inbox[c][i].proc \in DOMAIN commandSessions
          /\ processOwners[inbox[c][i].proc] = socket[c].session

\* The last message on its way about a command is what the command is.
LastIsNew ==
  \A c \in alive : \A p \in DOMAIN commandSessions : \A i \in Due(c, p) :
    (\A j \in Due(c, p) : j <= i) => inbox[c][i].snapshot = commandSessions[p]

\* Nothing about the command is on its way to the page.
Quiet(g, p) == \A c \in alive : socket[c].page = g => Due(c, p) = {}

\* Then a page that missed nothing shows what the command is, with a socket or without.
SeenIsNew ==
  \A g \in Pages : \A p \in DOMAIN shown[g] :
    /\ p \in DOMAIN commandSessions
    /\ <<g, p>> \notin missed /\ Quiet(g, p) => shown[g][p] = commandSessions[p]

CommandInv ==
  CommandTypes /\ OneSocket /\ MessagesOfOwner /\ LastIsNew /\ SeenIsNew /\ CommandIsDue

-----------------------------------------------------------------------------
(* Commands: what a delivery does. *)

\* An inbox grows from old to new by what is sent to the connection c.
Delivered(old, new, c, sent, snapshots) ==
  /\ \A i \in DOMAIN old : i \in DOMAIN new /\ new[i] = old[i]
  /\ \A i \in DOMAIN new \ DOMAIN old : \A j \in DOMAIN old : j < i
  /\ \A i \in DOMAIN new \ DOMAIN old : \E p \in DOMAIN sent :
        c \in sent[p] \cap alive /\ new[i] = Message(p, snapshots[p])
  /\ \A p \in DOMAIN sent : c \in sent[p] \cap alive =>
        \E i \in DOMAIN new \ DOMAIN old : new[i] = Message(p, snapshots[p])

\* Deliver() appends to the inbox of each connection what is sent to it.
LEMMA DeliverIs ==
  ASSUME NEW sent, NEW due, NEW snapshots,
         \A c \in Connections : inbox[c] \in Seq(Messages),
         DOMAIN sent \subseteq Procs, IsFiniteSet(DOMAIN sent),
         \A p \in DOMAIN sent : snapshots[p] \in Snapshots,
         Deliver(sent, due, snapshots)
  PROVE  /\ DOMAIN inbox' = Connections
         /\ \A c \in Connections :
               /\ inbox'[c] \in Seq(Messages)
               /\ Delivered(inbox[c], inbox'[c], c, sent, snapshots)
<1>. DEFINE news(c) == {p \in DOMAIN sent : c \in sent[p] \cap alive}
            S(c) == {Message(p, snapshots[p]) : p \in news(c)}
            new(c) == SetToSeq(S(c))
<1>1. inbox' = [c \in Connections |-> inbox[c] \o new(c)]
  BY Zenon DEF Deliver
<1>. SUFFICES ASSUME NEW c \in Connections
     PROVE  inbox'[c] \in Seq(Messages) /\ Delivered(inbox[c], inbox'[c], c, sent, snapshots)
  BY <1>1
<1>2. IsFiniteSet(S(c))
  <2>1. IsFiniteSet(news(c))
    BY FS_Subset
  <2>. DEFINE f == [p \in news(c) |-> Message(p, snapshots[p])]
  <2>2. f \in Bijection(news(c), S(c))
    BY DEF Bijection, Injection, Surjection, IsInjective, Message
  <2>. QED
    BY <2>1, <2>2, FS_Bijection DEF ExistsBijection
<1>3. S(c) \subseteq Messages
  BY DEF Messages, Message
<1>. HIDE DEF S
<1>4. /\ new(c) \in Seq(S(c))
      /\ \A x \in S(c) : \E i \in DOMAIN new(c) : new(c)[i] = x
  BY <1>2, SetToSeqIs
<1>. HIDE DEF new
<1>5. PICK a \in Seq(Messages), b \in Seq(Messages), w \in Seq(Messages) :
        a = inbox[c] /\ b = new(c) /\ w = inbox'[c] /\ w = a \o b
  BY <1>1, <1>3, <1>4, SeqMonotonic, ConcatIs
<1>6. w \in Seq(Messages) /\ Continues(w, a, b)
  BY <1>5, ConcatIs
<1>7. \A j \in DOMAIN b : b[j] \in S(c)
  BY <1>4, <1>5, LenProperties, ElementOfSeq
<1>8. \A i \in DOMAIN w \ DOMAIN a : w[i] \in S(c)
  BY <1>6, <1>7 DEF Continues
<1>9. \A x \in S(c) : \E i \in DOMAIN w \ DOMAIN a : w[i] = x
  <2>. SUFFICES ASSUME NEW x \in S(c) PROVE \E i \in DOMAIN w \ DOMAIN a : w[i] = x
    OBVIOUS
  <2>1. PICK j \in DOMAIN b : b[j] = x
    BY <1>4, <1>5
  <2>2. PICK i \in DOMAIN w \ DOMAIN a : w[i] = b[j]
    BY <1>6 DEF Continues
  <2>. QED
    BY <2>1, <2>2
<1>10. \A i \in DOMAIN w \ DOMAIN a :
         \E p \in DOMAIN sent : c \in sent[p] \cap alive /\ w[i] = Message(p, snapshots[p])
  BY <1>8 DEF S
<1>11. \A p \in DOMAIN sent : c \in sent[p] \cap alive =>
         \E i \in DOMAIN w \ DOMAIN a : w[i] = Message(p, snapshots[p])
  <2>. SUFFICES ASSUME NEW p \in DOMAIN sent, c \in sent[p] \cap alive
       PROVE  \E i \in DOMAIN w \ DOMAIN a : w[i] = Message(p, snapshots[p])
    OBVIOUS
  <2>1. Message(p, snapshots[p]) \in S(c)
    BY DEF S
  <2>. QED
    BY <1>9, <2>1
<1>12. /\ \A i \in DOMAIN a : i \in DOMAIN w /\ w[i] = a[i]
       /\ \A i \in DOMAIN w \ DOMAIN a : \A j \in DOMAIN a : j < i
  BY <1>6 DEF Continues
<1>13. Delivered(a, w, c, sent, snapshots)
  BY <1>10, <1>11, <1>12 DEF Delivered
<1>. QED
  BY <1>5, <1>6, <1>13

\* A delivery of all that changes, to all sockets of the pages that are not counted as
\* missing it, keeps the pages' part of the invariant.
LEMMA DeliverShown ==
  ASSUME CommandTypes, OneSocket, MessagesOfOwner, LastIsNew, SeenIsNew, alive \subseteq DOMAIN socket,
         NEW sent, NEW due, NEW snapshots, Deliver(sent, due, snapshots),
         DOMAIN sent \subseteq Procs, IsFiniteSet(DOMAIN sent),
         \A p \in DOMAIN sent : snapshots[p] \in Snapshots,
         \A p \in DOMAIN sent : due[p] = sent[p] \cap alive,
         \A p \in DOMAIN sent : \A c \in alive \ sent[p] : Due(c, p) = {},
         UNCHANGED <<alive, socket, shown>>,
         DOMAIN commandSessions' = DOMAIN commandSessions \cup DOMAIN sent,
         \A p \in DOMAIN commandSessions' :
            commandSessions'[p] = IF p \in DOMAIN sent THEN snapshots[p] ELSE commandSessions[p],
         \A p \in DOMAIN commandSessions : processOwners'[p] = processOwners[p],
         \A p \in DOMAIN sent : \A c \in sent[p] \cap alive : processOwners'[p] = socket[c].session
  PROVE  DOMAIN inbox' = Connections /\ MessagesOfOwner' /\ LastIsNew' /\ SeenIsNew'
<1>1. /\ DOMAIN inbox' = Connections
      /\ \A c \in Connections :
            inbox'[c] \in Seq(Messages) /\ Delivered(inbox[c], inbox'[c], c, sent, snapshots)
  BY DeliverIs DEF MessagesOfOwner
<1>2. alive \subseteq Connections
  BY DEF CommandTypes
<1>3. MessagesOfOwner'
  <2>. SUFFICES ASSUME NEW c \in Connections
       PROVE  /\ c \notin alive => inbox'[c] = <<>>
              /\ \A i \in DOMAIN inbox'[c] :
                    /\ inbox'[c][i].proc \in DOMAIN commandSessions'
                    /\ processOwners'[inbox'[c][i].proc] = socket[c].session
    BY <1>1 DEF MessagesOfOwner
  <2>1. ASSUME c \notin alive PROVE inbox'[c] = <<>>
    <3>1. DOMAIN inbox'[c] = DOMAIN inbox[c] /\ inbox[c] = <<>>
      BY <1>1, <2>1 DEF Delivered, MessagesOfOwner
    <3>2. DOMAIN inbox'[c] = {}
      BY <3>1
    <3>3. Len(inbox'[c]) \in Nat /\ DOMAIN inbox'[c] = 1..Len(inbox'[c])
      BY <1>1, LenProperties
    <3>4. Len(inbox'[c]) # 0 => 1 \in DOMAIN inbox'[c]
      BY <3>3
    <3>. QED
      BY <1>1, <3>2, <3>3, <3>4, EmptySeq
  <2>2. ASSUME NEW i \in DOMAIN inbox[c]
        PROVE  /\ inbox'[c][i].proc \in DOMAIN commandSessions'
               /\ processOwners'[inbox'[c][i].proc] = socket[c].session
    <3>1. inbox'[c][i] = inbox[c][i]
      BY <1>1, <2>2 DEF Delivered
    <3>2. /\ inbox[c][i].proc \in DOMAIN commandSessions
          /\ processOwners[inbox[c][i].proc] = socket[c].session
      BY <2>2 DEF MessagesOfOwner
    <3>. QED
      BY <3>1, <3>2
  <2>3. ASSUME NEW i \in DOMAIN inbox'[c] \ DOMAIN inbox[c]
        PROVE  /\ inbox'[c][i].proc \in DOMAIN commandSessions'
               /\ processOwners'[inbox'[c][i].proc] = socket[c].session
    BY <1>1, <2>3 DEF Delivered, Message
  <2>. QED
    BY <2>1, <2>2, <2>3
<1>4. ASSUME NEW c \in alive, NEW p \in DOMAIN sent, c \in sent[p]
      PROVE  /\ Due(c, p)' # {}
             /\ \A i \in Due(c, p)' :
                   (\A j \in Due(c, p)' : j <= i) => inbox'[c][i].snapshot = snapshots[p]
  <2>1. PICK k \in DOMAIN inbox'[c] \ DOMAIN inbox[c] : inbox'[c][k] = Message(p, snapshots[p])
    BY <1>1, <1>2, <1>4 DEF Delivered
  <2>2. k \in Due(c, p)'
    BY <2>1 DEF Due, Message
  <2>3. ASSUME NEW i \in Due(c, p)', \A j \in Due(c, p)' : j <= i
        PROVE  inbox'[c][i].snapshot = snapshots[p]
    <3>1. i \in DOMAIN inbox'[c] /\ inbox'[c][i].proc = p /\ k <= i
      BY <2>2, <2>3 DEF Due
    <3>2. i \notin DOMAIN inbox[c]
      <4>1. i \in Nat /\ k \in Nat
        BY <1>1, <1>2, <2>1, <3>1, LenProperties
      <4>2. i \in DOMAIN inbox[c] => i < k
        BY <1>1, <1>2, <2>1 DEF Delivered
      <4>. QED
        BY <3>1, <4>1, <4>2
    <3>3. PICK q \in DOMAIN sent : inbox'[c][i] = Message(q, snapshots[q])
      BY <1>1, <1>2, <3>1, <3>2 DEF Delivered
    <3>. QED
      BY <3>1, <3>3 DEF Message
  <2>. QED
    BY <2>2, <2>3
<1>5. ASSUME NEW c \in alive, NEW p, p \notin DOMAIN sent \/ c \notin sent[p]
      PROVE  /\ Due(c, p)' = Due(c, p)
             /\ \A i \in Due(c, p) : inbox'[c][i] = inbox[c][i]
  BY <1>1, <1>2, <1>5 DEF Due, Delivered, Message
<1>6. LastIsNew'
  <2>. SUFFICES ASSUME NEW c \in alive, NEW p \in DOMAIN commandSessions', NEW i \in Due(c, p)',
                       \A j \in Due(c, p)' : j <= i
       PROVE  inbox'[c][i].snapshot = commandSessions'[p]
    BY DEF LastIsNew
  <2>1. CASE p \in DOMAIN sent /\ c \in sent[p]
    BY <1>4, <2>1
  <2>2. CASE p \in DOMAIN sent /\ c \notin sent[p]
    BY <1>5, <2>2
  <2>3. CASE p \notin DOMAIN sent
    BY <1>5, <2>3 DEF LastIsNew
  <2>. QED
    BY <2>1, <2>2, <2>3
<1>7. SeenIsNew'
  <2>. SUFFICES ASSUME NEW g \in Pages, NEW p \in DOMAIN shown[g]
       PROVE  /\ p \in DOMAIN commandSessions'
              /\ <<g, p>> \notin missed' /\ Quiet(g, p)' => shown[g][p] = commandSessions'[p]
    BY DEF SeenIsNew
  <2>. SUFFICES ASSUME <<g, p>> \notin missed', Quiet(g, p)'
       PROVE  shown[g][p] = commandSessions'[p]
    BY DEF SeenIsNew
  <2>1. CASE p \in DOMAIN sent
    <3>1. PICK c \in due[p] : socket[c].page = g
      BY <2>1 DEF Deliver
    <3>2. c \in alive /\ c \in sent[p]
      BY <2>1, <3>1
    <3>3. Due(c, p)' # {}
      BY <1>4, <2>1, <3>2
    <3>. QED
      BY <3>1, <3>2, <3>3 DEF Quiet
  <2>2. CASE p \notin DOMAIN sent
    <3>1. <<g, p>> \notin missed
      BY <2>2 DEF Deliver
    <3>2. Quiet(g, p)
      BY <1>5, <2>2 DEF Quiet
    <3>. QED
      BY <2>2, <3>1, <3>2 DEF SeenIsNew
  <2>. QED
    BY <2>1, <2>2
<1>. QED
  BY <1>1, <1>3, <1>6, <1>7

-----------------------------------------------------------------------------
(* Commands: the steps. *)

LEMMA InitCommands == Init => CommandInv
<1>. SUFFICES ASSUME Init PROVE CommandInv
  OBVIOUS
<1>1. CommandTypes
  BY SessionsAssumption, FS_EmptySet DEF Init, CommandTypes
<1>2. OneSocket /\ LastIsNew /\ SeenIsNew /\ CommandIsDue
  BY DEF Init, OneSocket, LastIsNew, SeenIsNew, CommandIsDue
<1>3. MessagesOfOwner
  BY EmptySeq DEF Init, MessagesOfOwner
<1>. QED
  BY <1>1, <1>2, <1>3 DEF CommandInv

\* Tell() gives all pages with a socket of the owner's session the snapshot.
LEMMA TellShown ==
  ASSUME RegistryInv, CommandInv,
         NEW ps \in SUBSET DOMAIN commandSessions, NEW snapshots,
         \A p \in ps : snapshots[p] \in Snapshots,
         Tell(ps, snapshots), UNCHANGED <<alive, socket, shown, processOwners>>
  PROVE  /\ commandSessions' \in [DOMAIN commandSessions -> Snapshots]
         /\ DOMAIN commandSessions' = DOMAIN commandSessions
         /\ \A p \in DOMAIN commandSessions :
               commandSessions'[p] = IF p \in ps THEN snapshots[p] ELSE commandSessions[p]
         /\ DOMAIN inbox' = Connections /\ MessagesOfOwner' /\ LastIsNew' /\ SeenIsNew'
<1>. DEFINE sent == [q \in ps |-> Served(processOwners[q])]
            due == [q \in ps |-> Open(processOwners[q])]
<1>1. /\ commandSessions' \in [DOMAIN commandSessions -> Snapshots]
      /\ DOMAIN commandSessions' = DOMAIN commandSessions
      /\ \A p \in DOMAIN commandSessions :
            commandSessions'[p] = IF p \in ps THEN snapshots[p] ELSE commandSessions[p]
  BY DEF Tell, CommandInv, CommandTypes
<1>2. Deliver(sent, due, snapshots)
  BY DEF Tell
<1>3. DOMAIN sent = ps /\ IsFiniteSet(ps) /\ ps \subseteq Procs
  BY FS_Subset DEF CommandInv, CommandTypes
<1>4. \A c \in alive : c \in Served(socket[c].session)
  BY DEF RegistryInv, Registered, RegistriesAgree
<1>5. \A s : \A c \in Served(s) \cap alive : socket[c].session = s
  <2>. SUFFICES ASSUME NEW s, NEW c \in Served(s) \cap alive PROVE socket[c].session = s
    OBVIOUS
  <2>1. s \in DOMAIN sessionConnections
    BY DEF Served
  <2>. QED
    BY <2>1 DEF RegistryInv, Registered, RegistriesAgree
<1>6. \A p \in ps : due[p] = sent[p] \cap alive
  BY <1>4, <1>5 DEF Open
<1>7. \A p \in ps : \A c \in alive \ sent[p] : Due(c, p) = {}
  BY <1>4 DEF Due, CommandInv, CommandTypes, MessagesOfOwner, RegistryInv, Registered
<1>8. \A p \in ps : \A c \in sent[p] \cap alive : processOwners'[p] = socket[c].session
  BY <1>5
<1>. HIDE DEF sent, due
<1>9. alive \subseteq DOMAIN socket
  BY DEF RegistryInv, Registered
<1>10. DOMAIN inbox' = Connections /\ MessagesOfOwner' /\ LastIsNew' /\ SeenIsNew'
  BY <1>1, <1>2, <1>3, <1>6, <1>7, <1>8, <1>9, DeliverShown DEF CommandInv
<1>. QED
  BY <1>1, <1>10

LEMMA CommandStartsInv ==
  ASSUME RegistryInv, CommandInv, NEW p \in Procs, CommandStarts(p) PROVE CommandInv'
<1>. DEFINE c == starts[p].connection
            snap == Snapshot("running", 0)
            sent == Only(p, {c})
            due == Only(p, {c} \cap alive)
            snapshots == Only(p, snap)
<1>1. /\ p \in DOMAIN starts /\ p \notin DOMAIN commandSessions
      /\ c \in DOMAIN socket /\ starts[p].session = socket[c].session
  BY DEF CommandStarts, CommandInv, CommandTypes
<1>2. snap \in Snapshots
  BY SessionsAssumption DEF Snapshot, Snapshots
<1>3. DOMAIN sent = {p} /\ sent[p] = {c} /\ due[p] = {c} \cap alive /\ snapshots[p] = snap
  BY DEF Only
<1>4. commandSessions' = With(commandSessions, p, snap) /\ Deliver(sent, due, snapshots)
  BY DEF CommandStarts
<1>5. /\ processOwners' = With(processOwners, p, socket[c].session)
      /\ exec' = [exec EXCEPT ![p] = IF connected THEN "sent" ELSE "starting"]
      /\ starts' = Without(starts, p)
      /\ UNCHANGED <<alive, socket, shown, exits>>
  BY <1>1 DEF CommandStarts, socketVars
<1>. HIDE DEF sent, due, snapshots, snap, c
<1>6. /\ commandSessions' \in [DOMAIN commandSessions' -> Snapshots]
      /\ DOMAIN commandSessions' = DOMAIN commandSessions \cup {p}
      /\ commandSessions'[p] = snap
      /\ \A q \in DOMAIN commandSessions : commandSessions'[q] = commandSessions[q]
  BY <1>1, <1>2, <1>4 DEF With, CommandInv, CommandTypes
<1>7. \A d \in alive : Due(d, p) = {}
  BY <1>1 DEF Due, CommandInv, CommandTypes, MessagesOfOwner, RegistryInv, Registered
<1>8. IsFiniteSet({p}) /\ IsFiniteSet(DOMAIN commandSessions')
  <2>1. IsFiniteSet(DOMAIN commandSessions \cup {p})
    BY FS_AddElement DEF CommandInv, CommandTypes
  <2>2. IsFiniteSet({p})
    BY FS_Singleton
  <2>. QED
    BY <1>6, <2>1, <2>2
<1>9. alive \subseteq DOMAIN socket
  BY DEF RegistryInv, Registered
<1>10. /\ DOMAIN processOwners' = DOMAIN commandSessions \cup {p}
       /\ processOwners'[p] = socket[c].session
       /\ \A q \in DOMAIN commandSessions : processOwners'[q] = processOwners[q]
  BY <1>1, <1>5 DEF With, CommandInv, CommandTypes
<1>11. DOMAIN inbox' = Connections /\ MessagesOfOwner' /\ LastIsNew' /\ SeenIsNew'
  BY <1>1, <1>2, <1>3, <1>4, <1>5, <1>6, <1>7, <1>8, <1>9, <1>10, DeliverShown DEF CommandInv
<1>12. /\ DOMAIN starts' = DOMAIN starts \ {p}
       /\ \A q \in DOMAIN starts' : starts'[q] = starts[q]
  BY <1>5, WithoutIs
<1>13. CommandTypes'
  BY <1>5, <1>6, <1>8, <1>10, <1>11, <1>12 DEF CommandInv, CommandTypes
<1>14. OneSocket'
  BY <1>5 DEF CommandInv, OneSocket
<1>15. CommandIsDue'
  BY <1>1, <1>5, <1>6 DEF CommandInv, CommandTypes, CommandIsDue
<1>. QED
  BY <1>11, <1>13, <1>14, <1>15 DEF CommandInv

LEMMA CommandOutputInv ==
  ASSUME RegistryInv, CommandInv, NEW p \in Procs, CommandOutput(p) PROVE CommandInv'
<1>. DEFINE snap == AppendOutput(commandSessions[p])
            snapshots == Only(p, snap)
<1>1. p \in DOMAIN commandSessions /\ commandSessions[p].out < MaxChunks
  BY DEF CommandOutput, CommandInv, CommandTypes
<1>2. commandSessions[p] \in Snapshots
  BY <1>1 DEF CommandInv, CommandTypes
<1>3. snap \in Snapshots /\ snap.status = commandSessions[p].status
  BY <1>1, <1>2, SessionsAssumption DEF AppendOutput, Snapshot, Snapshots
<1>4. snapshots[p] = snap /\ Tell({p}, snapshots)
  BY DEF CommandOutput, Only
<1>5. UNCHANGED <<alive, socket, shown, processOwners, exec, starts, exits>>
  BY DEF CommandOutput, socketVars
<1>. HIDE DEF snap, snapshots
<1>6. /\ commandSessions' \in [DOMAIN commandSessions -> Snapshots]
      /\ DOMAIN commandSessions' = DOMAIN commandSessions
      /\ \A q \in DOMAIN commandSessions :
            commandSessions'[q] = IF q \in {p} THEN snapshots[q] ELSE commandSessions[q]
      /\ DOMAIN inbox' = Connections /\ MessagesOfOwner' /\ LastIsNew' /\ SeenIsNew'
  BY <1>1, <1>3, <1>4, <1>5, TellShown
<1>7. CommandTypes' /\ OneSocket'
  BY <1>5, <1>6 DEF CommandInv, CommandTypes, OneSocket
<1>8. CommandIsDue'
  BY <1>3, <1>4, <1>5, <1>6 DEF CommandInv, CommandIsDue
<1>. QED
  BY <1>6, <1>7, <1>8 DEF CommandInv

LEMMA CommandCompletedInv ==
  ASSUME RegistryInv, CommandInv, NEW p \in Procs, NEW status \in {"completed", "failed"},
         CommandCompleted(p, status)
  PROVE  CommandInv'
<1>. DEFINE snap == Complete(commandSessions[p], status)
            snapshots == Only(p, snap)
<1>1. p \in DOMAIN commandSessions
  BY DEF CommandCompleted, CommandInv, CommandTypes
<1>2. commandSessions[p] \in Snapshots
  BY <1>1 DEF CommandInv, CommandTypes
<1>3. snap \in Snapshots /\ snap.status # "running"
  BY <1>2 DEF Complete, Snapshot, Snapshots
<1>4. snapshots[p] = snap /\ Tell({p}, snapshots)
  BY DEF CommandCompleted, Only
<1>5. /\ UNCHANGED <<alive, socket, shown, processOwners, starts, exits>>
      /\ exec' = [exec EXCEPT ![p] = "done"]
  BY DEF CommandCompleted, socketVars
<1>. HIDE DEF snap, snapshots
<1>6. /\ commandSessions' \in [DOMAIN commandSessions -> Snapshots]
      /\ DOMAIN commandSessions' = DOMAIN commandSessions
      /\ \A q \in DOMAIN commandSessions :
            commandSessions'[q] = IF q \in {p} THEN snapshots[q] ELSE commandSessions[q]
      /\ DOMAIN inbox' = Connections /\ MessagesOfOwner' /\ LastIsNew' /\ SeenIsNew'
  BY <1>1, <1>3, <1>4, <1>5, TellShown
<1>7. CommandTypes' /\ OneSocket'
  BY <1>1, <1>5, <1>6 DEF CommandInv, CommandTypes, OneSocket
<1>8. CommandIsDue'
  BY <1>3, <1>4, <1>5, <1>6 DEF CommandInv, CommandTypes, CommandIsDue
<1>. QED
  BY <1>6, <1>7, <1>8 DEF CommandInv

LEMMA CodexExitsInv ==
  ASSUME RegistryInv, CommandInv, CodexExits PROVE CommandInv'
<1>. DEFINE snapshots == [p \in Failing |-> Complete(commandSessions[p], "failed")]
<1>1. Failing \subseteq DOMAIN commandSessions
  BY DEF Failing, CommandInv, CommandTypes
<1>2. \A p \in Failing : snapshots[p] \in Snapshots /\ snapshots[p].status = "failed"
  BY <1>1 DEF CommandInv, CommandTypes, Complete, Snapshot, Snapshots
<1>3. Tell(Failing, snapshots)
  BY DEF CodexExits
<1>4. /\ UNCHANGED <<alive, socket, shown, processOwners, starts>>
      /\ exec' = [p \in Procs |-> IF exec[p] = "sent" THEN "late" ELSE exec[p]]
      /\ exits < MaxExits /\ exits' = exits + 1
  BY DEF CodexExits, socketVars
<1>. HIDE DEF snapshots
<1>5. /\ commandSessions' \in [DOMAIN commandSessions -> Snapshots]
      /\ DOMAIN commandSessions' = DOMAIN commandSessions
      /\ \A q \in DOMAIN commandSessions :
            commandSessions'[q] = IF q \in Failing THEN snapshots[q] ELSE commandSessions[q]
      /\ DOMAIN inbox' = Connections /\ MessagesOfOwner' /\ LastIsNew' /\ SeenIsNew'
  BY <1>1, <1>2, <1>3, <1>4, TellShown
<1>6. CommandTypes'
  BY <1>4, <1>5, SessionsAssumption DEF CommandInv, CommandTypes
<1>7. OneSocket'
  BY <1>4 DEF CommandInv, OneSocket
<1>8. CommandIsDue'
  BY <1>1, <1>2, <1>4, <1>5 DEF CommandInv, CommandTypes, CommandIsDue, Failing
<1>. QED
  BY <1>5, <1>6, <1>7, <1>8 DEF CommandInv

LEMMA OpenSocketInv ==
  ASSUME RegistryInv, CommandInv, NEW g \in Pages, NEW c \in Connections, NEW s \in SessionIds,
         OpenSocket(g, c, s)
  PROVE  CommandInv'
<1>1. /\ c \notin DOMAIN socket /\ c \notin alive /\ \A d \in alive : socket[d].page # g
      /\ socket' = With(socket, c, [page |-> g, session |-> s])
      /\ alive' \in {alive, alive \cup {c}}
      /\ UNCHANGED <<starts, commandSessions, processOwners, exec, inbox, shown, missed, exits>>
  BY DEF OpenSocket, commandVars, RegistryInv, Registered
<1>2. /\ DOMAIN socket' = DOMAIN socket \cup {c}
      /\ \A d \in DOMAIN socket : socket'[d] = socket[d]
      /\ socket'[c].page = g
  BY <1>1 DEF With
<1>3. alive \subseteq DOMAIN socket
  BY DEF RegistryInv, Registered
<1>4. inbox[c] = <<>> /\ \A p : Due(c, p) = {}
  BY <1>1 DEF CommandInv, MessagesOfOwner, Due
<1>5. CommandTypes'
  BY <1>1, <1>2 DEF CommandInv, CommandTypes
<1>6. OneSocket'
  BY <1>1, <1>2, <1>3 DEF CommandInv, OneSocket
<1>7. MessagesOfOwner'
  <2>. SUFFICES ASSUME NEW d \in Connections
       PROVE  /\ inbox[d] \in Seq(Messages)
              /\ d \notin alive' => inbox[d] = <<>>
              /\ \A i \in DOMAIN inbox[d] :
                    /\ inbox[d][i].proc \in DOMAIN commandSessions
                    /\ processOwners[inbox[d][i].proc] = socket'[d].session
    BY <1>1 DEF MessagesOfOwner
  <2>1. inbox[d] # <<>> => d \in DOMAIN socket
    BY <1>3 DEF CommandInv, MessagesOfOwner
  <2>. QED
    BY <1>1, <1>2, <1>3, <1>4, <2>1 DEF CommandInv, MessagesOfOwner
<1>8. LastIsNew'
  BY <1>1, <1>4 DEF CommandInv, LastIsNew, Due
<1>9. SeenIsNew'
  <2>1. \A h, p : Quiet(h, p)' => Quiet(h, p)
    BY <1>1, <1>2, <1>3 DEF Quiet, Due
  <2>. QED
    BY <1>1, <2>1 DEF CommandInv, SeenIsNew
<1>10. CommandIsDue'
  BY <1>1 DEF CommandInv, CommandIsDue
<1>. QED
  BY <1>5, <1>6, <1>7, <1>8, <1>9, <1>10 DEF CommandInv

LEMMA LoseSocketInv ==
  ASSUME RegistryInv, CommandInv, NEW c \in Connections, LoseSocket(c) PROVE CommandInv'
<1>1. /\ c \in alive /\ alive' = alive \ {c}
      /\ inbox' = [inbox EXCEPT ![c] = <<>>]
      /\ missed' = missed \cup {<<socket[c].page, inbox[c][i].proc>> : i \in DOMAIN inbox[c]}
      /\ UNCHANGED <<socket, starts, commandSessions, processOwners, exec, shown, exits>>
  BY DEF LoseSocket, commandVars
<1>2. CommandTypes'
  BY <1>1 DEF CommandInv, CommandTypes
<1>3. OneSocket'
  BY <1>1 DEF CommandInv, OneSocket
<1>4. \A d \in Connections \ {c} : inbox'[d] = inbox[d] /\ \A p : Due(d, p)' = Due(d, p)
  BY <1>1 DEF CommandInv, CommandTypes, Due
<1>5. MessagesOfOwner'
  BY <1>1, <1>4, EmptySeq DEF CommandInv, CommandTypes, MessagesOfOwner
<1>6. LastIsNew'
  BY <1>1, <1>4 DEF CommandInv, CommandTypes, LastIsNew, RegistryInv, Registered
<1>7. SeenIsNew'
  <2>. SUFFICES ASSUME NEW g \in Pages, NEW p \in DOMAIN shown[g], <<g, p>> \notin missed', Quiet(g, p)'
       PROVE  Quiet(g, p)
    BY <1>1 DEF CommandInv, SeenIsNew
  <2>1. \A d \in alive \ {c} : socket[d].page = g => Due(d, p) = {}
    BY <1>1, <1>4 DEF Quiet, CommandInv, CommandTypes, RegistryInv, Registered
  <2>2. socket[c].page = g => Due(c, p) = {}
    BY <1>1 DEF Due
  <2>. QED
    BY <2>1, <2>2 DEF Quiet
<1>8. CommandIsDue'
  BY <1>1 DEF CommandInv, CommandIsDue
<1>. QED
  BY <1>2, <1>3, <1>5, <1>6, <1>7, <1>8 DEF CommandInv

LEMMA PageReceivesInv ==
  ASSUME RegistryInv, CommandInv, NEW c \in Connections, PageReceives(c) PROVE CommandInv'
<1>. DEFINE m == Head(inbox[c])
            g == socket[c].page
<1>1. /\ c \in alive /\ inbox[c] # <<>>
      /\ inbox' = [inbox EXCEPT ![c] = Tail(@)]
      /\ shown' = [shown EXCEPT ![g] = With(@, m.proc, m.snapshot)]
      /\ UNCHANGED <<alive, socket, starts, commandSessions, processOwners, exec, missed, exits>>
  BY DEF PageReceives, commandVars, socketVars
<1>2. g \in Pages
  BY <1>1 DEF CommandInv, CommandTypes, RegistryInv, Registered
<1>3. PICK n \in Nat : Len(inbox[c]) = n + 1
  <2>1. Len(inbox[c]) \in Nat \ {0}
    BY <1>1, EmptySeq DEF CommandInv, MessagesOfOwner
  <2>2. Len(inbox[c]) - 1 \in Nat /\ Len(inbox[c]) = (Len(inbox[c]) - 1) + 1
    BY <2>1
  <2>. QED
    BY <2>2
<1>4. /\ inbox[c] \in Seq(Messages) /\ DOMAIN inbox[c] = 1..n + 1
      /\ m = inbox[c][1] /\ m \in Messages
      /\ Tail(inbox[c]) \in Seq(Messages) /\ DOMAIN Tail(inbox[c]) = 1..n
      /\ \A i \in 1..n : Tail(inbox[c])[i] = inbox[c][i + 1]
  BY <1>1, <1>3, HeadTailProperties, LenProperties DEF CommandInv, MessagesOfOwner
<1>5. /\ DOMAIN inbox' = Connections
      /\ inbox'[c] = Tail(inbox[c])
      /\ \A d \in Connections \ {c} : inbox'[d] = inbox[d] /\ \A p : Due(d, p)' = Due(d, p)
  BY <1>1 DEF CommandInv, CommandTypes, Due
<1>6. \A p : Due(c, p)' = {i \in 1..n : i + 1 \in Due(c, p)}
  BY <1>4, <1>5 DEF Due
<1>7. \A p : 1 \in Due(c, p) <=> p = m.proc
  BY <1>4 DEF Due
<1>8. \A p : Due(c, p) \subseteq 1..n + 1
  BY <1>4 DEF Due
<1>9. /\ DOMAIN shown' = Pages
      /\ DOMAIN shown'[g] = DOMAIN shown[g] \cup {m.proc}
      /\ shown'[g][m.proc] = m.snapshot
      /\ \A p \in DOMAIN shown[g] \ {m.proc} : shown'[g][p] = shown[g][p]
      /\ \A h \in Pages \ {g} : shown'[h] = shown[h]
  <2>1. DOMAIN shown' = Pages /\ shown'[g] = With(shown[g], m.proc, m.snapshot)
    BY <1>1, <1>2 DEF CommandInv, CommandTypes
  <2>2. \A h \in Pages \ {g} : shown'[h] = shown[h]
    BY <1>1 DEF CommandInv, CommandTypes
  <2>. QED
    BY <2>1, <2>2 DEF With
<1>. HIDE DEF m
<1>10. CommandTypes'
  BY <1>1, <1>4, <1>5, <1>9 DEF CommandInv, CommandTypes, Messages
<1>11. OneSocket'
  BY <1>1 DEF CommandInv, OneSocket
<1>12. MessagesOfOwner'
  BY <1>1, <1>4, <1>5 DEF CommandInv, MessagesOfOwner
<1>13. LastIsNew'
  <2>. SUFFICES ASSUME NEW d \in alive, NEW p \in DOMAIN commandSessions, NEW i \in Due(d, p)',
                       \A j \in Due(d, p)' : j <= i
       PROVE  inbox'[d][i].snapshot = commandSessions[p]
    <3>1. alive' = alive /\ commandSessions' = commandSessions
      BY <1>1
    <3>. QED
      BY <3>1 DEF LastIsNew
  <2>1. d \in Connections
    BY DEF CommandInv, CommandTypes, RegistryInv, Registered
  <2>2. CASE d # c
    BY <1>5, <2>1, <2>2 DEF CommandInv, LastIsNew
  <2>3. CASE d = c
    <3>1. i \in 1..n /\ i + 1 \in Due(c, p)
      BY <1>6, <2>3
    <3>2. \A j \in Due(c, p) : j <= i + 1
      <4>. TAKE j \in Due(c, p)
      <4>1. CASE j = 1
        BY <3>1, <4>1
      <4>2. CASE j # 1
        <5>1. j - 1 \in Due(c, p)'
          BY <1>6, <1>8, <4>2
        <5>. QED
          BY <1>8, <2>3, <3>1, <5>1
      <4>. QED
        BY <4>1, <4>2
    <3>3. inbox[c][i + 1].snapshot = commandSessions[p]
      BY <1>1, <3>1, <3>2 DEF CommandInv, LastIsNew
    <3>. QED
      BY <1>4, <1>5, <2>3, <3>1, <3>3
  <2>. QED
    BY <2>2, <2>3
<1>14. SeenIsNew'
  <2>. SUFFICES ASSUME NEW h \in Pages, NEW p \in DOMAIN shown'[h]
       PROVE  /\ p \in DOMAIN commandSessions
              /\ <<h, p>> \notin missed /\ Quiet(h, p)' => shown'[h][p] = commandSessions[p]
    BY <1>1 DEF SeenIsNew
  <2>1. CASE h # g
    <3>1. Quiet(h, p)' => Quiet(h, p)
      BY <1>1, <1>5, <2>1 DEF Quiet, CommandInv, CommandTypes, RegistryInv, Registered
    <3>. QED
      BY <1>9, <2>1, <3>1 DEF CommandInv, SeenIsNew
  <2>2. CASE h = g /\ p # m.proc
    <3>1. p \in DOMAIN shown[g] /\ shown'[g][p] = shown[g][p]
      BY <1>9, <2>2
    <3>2. Due(c, p)' = {} => Due(c, p) = {}
      <4>. SUFFICES ASSUME NEW j \in Due(c, p) PROVE j - 1 \in Due(c, p)'
        BY <1>8
      <4>. QED
        BY <1>6, <1>7, <1>8, <2>2
    <3>3. Quiet(h, p)' => Quiet(h, p)
      BY <1>1, <1>5, <2>2, <3>2 DEF Quiet, CommandInv, CommandTypes, RegistryInv, Registered
    <3>. QED
      BY <2>2, <3>1, <3>3 DEF CommandInv, SeenIsNew
  <2>3. CASE h = g /\ p = m.proc
    <3>1. p \in DOMAIN commandSessions
      BY <1>4, <2>3 DEF CommandInv, MessagesOfOwner
    <3>2. ASSUME Quiet(h, p)' PROVE m.snapshot = commandSessions[p]
      <4>1. Due(c, p)' = {}
        BY <1>1, <2>3, <3>2 DEF Quiet
      <4>2. \A j \in Due(c, p) : j <= 1
        <5>. SUFFICES ASSUME NEW j \in Due(c, p), j # 1 PROVE j - 1 \in Due(c, p)'
          BY <1>8, <4>1
        <5>. QED
          BY <1>6, <1>8
      <4>. QED
        BY <1>1, <1>4, <1>7, <2>3, <3>1, <4>2 DEF CommandInv, LastIsNew
    <3>. QED
      BY <1>9, <2>3, <3>1, <3>2
  <2>. QED
    BY <2>1, <2>2, <2>3
<1>15. CommandIsDue'
  BY <1>1 DEF CommandInv, CommandIsDue
<1>. QED
  BY <1>10, <1>11, <1>12, <1>13, <1>14, <1>15 DEF CommandInv

LEMMA OtherStepsInv ==
  ASSUME RegistryInv, CommandInv,
         \/ \E s \in SessionIds : CreateSession(s) \/ DeleteSession(s)
         \/ \E c \in Connections, more \in BOOLEAN : SocketCloses(c, more)
         \/ StartFails
         \/ UNCHANGED vars
  PROVE  CommandInv'
<1>1. UNCHANGED <<socket, alive, starts, commandSessions, processOwners, exec, inbox, shown, missed,
                  exits>>
  BY DEF CreateSession, DeleteSession, SocketCloses, StartFails, vars, registryVars, socketVars,
         commandVars
<1>2. CommandTypes'
  BY <1>1 DEF CommandInv, CommandTypes
<1>3. OneSocket' /\ MessagesOfOwner' /\ CommandIsDue'
  BY <1>1 DEF CommandInv, OneSocket, MessagesOfOwner, CommandIsDue
<1>4. LastIsNew' /\ SeenIsNew'
  BY <1>1 DEF CommandInv, LastIsNew, SeenIsNew, Quiet, Due
<1>. QED
  BY <1>2, <1>3, <1>4 DEF CommandInv

LEMMA StartCommandInv ==
  ASSUME RegistryInv, CommandInv, NEW c \in Connections, NEW p \in Procs, StartCommand(c, p)
  PROVE  CommandInv'
<1>1. /\ c \in DOMAIN socket /\ p \notin DOMAIN commandSessions
      /\ DOMAIN starts' = DOMAIN starts \cup {p}
      /\ starts'[p] = [connection |-> c, session |-> socket[c].session]
      /\ \A q \in DOMAIN starts \ {p} : starts'[q] = starts[q]
      /\ UNCHANGED <<socket, alive, commandSessions, processOwners, exec, inbox, shown, missed, exits>>
  BY DEF StartCommand, With, socketVars, commandVars, RegistryInv, Registered
<1>2. CommandTypes'
  BY <1>1 DEF CommandInv, CommandTypes
<1>3. OneSocket' /\ MessagesOfOwner' /\ CommandIsDue'
  BY <1>1 DEF CommandInv, OneSocket, MessagesOfOwner, CommandIsDue
<1>4. LastIsNew' /\ SeenIsNew'
  BY <1>1 DEF CommandInv, LastIsNew, SeenIsNew, Quiet, Due
<1>. QED
  BY <1>2, <1>3, <1>4 DEF CommandInv

LEMMA CodexStartsInv ==
  ASSUME RegistryInv, CommandInv, CodexStarts PROVE CommandInv'
<1>1. /\ exec' = [p \in Procs |-> IF exec[p] = "starting" THEN "sent" ELSE exec[p]]
      /\ UNCHANGED <<socket, alive, starts, commandSessions, processOwners, inbox, shown, missed, exits>>
  BY DEF CodexStarts, socketVars
<1>2. CommandTypes'
  BY <1>1 DEF CommandInv, CommandTypes
<1>3. OneSocket' /\ MessagesOfOwner'
  BY <1>1 DEF CommandInv, OneSocket, MessagesOfOwner
<1>4. CommandIsDue'
  BY <1>1 DEF CommandInv, CommandTypes, CommandIsDue
<1>5. LastIsNew' /\ SeenIsNew'
  BY <1>1 DEF CommandInv, LastIsNew, SeenIsNew, Quiet, Due
<1>. QED
  BY <1>2, <1>3, <1>4, <1>5 DEF CommandInv

LEMMA StepCommands == RegistryInv /\ CommandInv /\ [Next]_vars => CommandInv'
<1>. SUFFICES ASSUME RegistryInv, CommandInv, [Next]_vars PROVE CommandInv'
  OBVIOUS
<1>1. ASSUME NEW g \in Pages, NEW c \in Connections, NEW s \in SessionIds, OpenSocket(g, c, s)
      PROVE  CommandInv'
  BY <1>1, OpenSocketInv
<1>2. ASSUME NEW c \in Connections, LoseSocket(c) \/ PageReceives(c) PROVE CommandInv'
  BY <1>2, LoseSocketInv, PageReceivesInv
<1>3. ASSUME NEW c \in Connections, NEW p \in Procs, StartCommand(c, p) PROVE CommandInv'
  BY <1>3, StartCommandInv
<1>4. ASSUME NEW p \in Procs, CommandStarts(p) \/ CommandOutput(p) PROVE CommandInv'
  BY <1>4, CommandStartsInv, CommandOutputInv
<1>5. ASSUME NEW p \in Procs, NEW status \in {"completed", "failed"}, CommandCompleted(p, status)
      PROVE  CommandInv'
  BY <1>5, CommandCompletedInv
<1>6. CASE CodexStarts \/ CodexExits
  BY <1>6, CodexStartsInv, CodexExitsInv
<1>7. CASE \/ \E s \in SessionIds : CreateSession(s) \/ DeleteSession(s)
           \/ \E c \in Connections, more \in BOOLEAN : SocketCloses(c, more)
           \/ StartFails
           \/ UNCHANGED vars
  BY <1>7, OtherStepsInv
<1>. QED
  BY <1>1, <1>2, <1>3, <1>4, <1>5, <1>6, <1>7 DEF Next

LEMMA Invariants == Spec => [](RegistryInv /\ CommandInv)
BY InitRegistry, InitCommands, StepRegistry, StepCommands, PTL DEF Spec

\* The registries, commands and stores keep their types; a session that is gone has no
\* connection left in SessionManager.
THEOREM TypeCorrect == Spec => []TypeOK
<1>1. RegistryInv /\ CommandInv => TypeOK
  BY DEF RegistryInv, Registered, RegistriesAgree, CommandInv, CommandTypes, TypeOK
<1>. QED
  BY <1>1, Invariants, PTL

\* A page that lost no message shows a command, or has on its way, what CommandService
\* has of it, and a command shown as running has a call to codex that will end it.
THEOREM CommandsAreAlwaysShown == Spec => []CommandsAreShown
<1>1. RegistryInv /\ CommandInv => CommandsAreShown
  <2>. SUFFICES ASSUME RegistryInv, CommandInv, NEW c \in alive, NEW p \in DOMAIN commandSessions,
                       Due(c, p) = {}, p \in DOMAIN shown[socket[c].page],
                       <<socket[c].page, p>> \notin missed
       PROVE  shown[socket[c].page][p] = commandSessions[p]
    BY DEF CommandInv, LastIsNew, CommandsAreShown, CommandIsShown
  <2>1. socket[c].page \in Pages
    BY DEF RegistryInv, Registered, CommandInv, CommandTypes
  <2>2. Quiet(socket[c].page, p)
    BY DEF Quiet, CommandInv, OneSocket
  <2>. QED
    BY <2>1, <2>2 DEF CommandInv, SeenIsNew
<1>. QED
  BY <1>1, Invariants, PTL

\* So a page is registered as long as it holds a socket, and told what its commands do.
THEOREM PagesAreAlwaysServed == Spec => []PagesAreServed
<1>1. RegistriesAgree /\ CommandsAreShown => PagesAreServed
  BY DEF PagesAreServed
<1>. QED
  BY RegistriesAlwaysAgree, CommandsAreAlwaysShown, <1>1, PTL

=============================================================================
