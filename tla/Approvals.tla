----------------------------- MODULE Approvals -----------------------------
(***************************************************************************)
(* Requests that codex makes of the user (approvals, questions), from the  *)
(* line on its stdout to the card in a browser and back:                   *)
(*                                                                         *)
(*   CodexRuntime      pendingServerRequests, resolveServerRequest()       *)
(*   WorkbenchService  the handler of approval.* events, registerConnection*)
(*   ApprovalBroker    pendingById, threadOwners                           *)
(*   workbench store   pendingApprovals of each page ("cards")             *)
(*                                                                         *)
(* The runtime is the one of CodexRuntime: its steps are steps of this     *)
(* module, and a reply can be written only to the process it has.          *)
(*                                                                         *)
(* A request is identified by a JSON-RPC id, which codex chooses: an id is *)
(* used once by one process, but a restarted process may use it again, for *)
(* a request of another kind (Decisions has the kinds).                    *)
(*                                                                         *)
(* approval.* and serverRequest.* notifications travel in pairs and do the *)
(* same to the store, so one message stands for both; the response of a    *)
(* successful resolution follows the notifications on the same socket and  *)
(* removes the same card once more, so it is left out.                     *)
(***************************************************************************)
EXTENDS CodexRuntime, SequencesExt

CONSTANTS Ids,        \* JSON-RPC ids of codex's requests
          Threads,    \* threads that may own a request
          Sessions,   \* server sessions
          NoSession,  \* null, of a thread without an owner
          Clients,    \* browser pages
          SessionOf,  \* the session each page is connected to
          PagesAt     \* bound: the pages there are in a behaviour with so many
                      \* processes

ASSUME SessionOfAssumption == SessionOf \in [Clients -> Sessions]
ASSUME NoSessionAssumption == NoSession \notin Sessions
ASSUME PagesAtAssumption == PagesAt \in [0..MaxSpawn -> SUBSET Clients]

Questions == Gens \X Ids
Cards     == [id : Ids, from : Gens]
Entries   == [id : Ids, from : Gens, session : Sessions]
Messages  == [kind : {"requested", "resolved"}, id : Ids, from : Gens]

VARIABLES
  question,              \* codex's side of each request
  replies,               \* how often each request has been replied to
  pendingServerRequests, \* of the runtime: a card per id at most
  pendingById,           \* of the broker: an entry per id at most
  crossed,               \* history: requests a refused decision has mixed up with
                         \* those of another process
  threadOwners,          \* of the broker
  online,                \* pages whose socket is open and registered
  inbox,                 \* notifications on their way to each page
  outbox,                \* resolutions on their way from each page
  cards,                 \* pendingApprovals in the store of each page
  missed                 \* pages that lost a socket since they were loaded

askVars == <<question, replies, pendingServerRequests, pendingById, crossed,
             threadOwners>>
pageVars == <<online, inbox, outbox, cards, missed>>
vars == <<rtVars, askVars, pageVars>>

AskTypeOK ==
  /\ question \in [Questions -> {"unasked", "open", "answered", "closed"}]
  /\ replies \in [Questions -> Nat]
  /\ pendingServerRequests \subseteq Cards
  /\ pendingById \subseteq Entries
  /\ crossed \subseteq Questions
  /\ threadOwners \in [Threads -> Sessions \cup {NoSession}]

ApprovalsTypeOK ==
  /\ AskTypeOK
  /\ online \subseteq Clients
  /\ inbox \in [Clients -> Seq(Messages)]
  /\ outbox \in [Clients -> SUBSET Cards]
  /\ cards \in [Clients -> SUBSET Cards]
  /\ missed \subseteq Clients

ApprovalsInit ==
  /\ Init
  /\ question = [q \in Questions |-> "unasked"]
  /\ replies = [q \in Questions |-> 0]
  /\ pendingServerRequests = {}
  /\ pendingById = {}
  /\ crossed = {}
  /\ threadOwners = [t \in Threads |-> NoSession]
  /\ online = {}
  /\ inbox = [c \in Clients |-> <<>>]
  /\ outbox = [c \in Clients |-> {}]
  /\ cards = [c \in Clients |-> {}]
  /\ missed = {}

-----------------------------------------------------------------------------
(* Notifications. *)

Requested(card) == [kind |-> "requested", id |-> card.id, from |-> card.from]
Resolved(card)  == [kind |-> "resolved", id |-> card.id, from |-> card.from]

\* Mutation: a session is taken to have one connection.
NotifyOne(to, m) ==
  LET one == CHOOSE d \in to : TRUE
  IN  inbox' = [c \in Clients |->
                  IF c \in to /\ c = one THEN Append(inbox[c], m) ELSE inbox[c]]

\* notifySession() and broadcast(): the same message to each connection.
Notify(to, m) ==
  inbox' = [c \in Clients |-> IF c \in to THEN Append(inbox[c], m) ELSE inbox[c]]

\* The connections of a session.
Members(s) == {c \in online : SessionOf[c] = s}

\* A Map without the entry of an id.
Without(map, id) == {e \in map : e.id # id}
Has(map, id) == \E e \in map : e.id = id

-----------------------------------------------------------------------------
(* Lines from codex.  A line written before the process ended may be read     *)
(* after Node has seen the exit.                                             *)

Asks(g) == serverUp /\ attempt[g] \in {"refreshing", "resolved"}

\* What the broker may answer for the thread of a request: not every request
\* has a thread, and not every thread was opened through this server.
Owners == {NoSession} \cup {threadOwners[t] : t \in Threads}

\* The "approval.requested" case of the service: a request whose thread has no
\* owner goes no further.
QueueApproval(card, s) ==
  IF s = NoSession
  THEN UNCHANGED <<pendingById, inbox>>
  ELSE /\ pendingById' = Without(pendingById, card.id)
            \cup {[id |-> card.id, from |-> card.from, session |-> s]}
       /\ Notify(Members(s), Requested(card))

\* The "approval.resolved" case, and the end of a resolution.
SettleApproval(card) ==
  /\ pendingById' = Without(pendingById, card.id)
  /\ Notify(online, Resolved(card))

\* handleServerRequest(), and in the same stretch the service's handler of the
\* event it emits.
HandleServerRequest(g, id, s) ==
  LET card == [id |-> id, from |-> g] IN
  /\ Asks(g) /\ question[<<g, id>>] = "unasked"
  /\ question' = [question EXCEPT ![<<g, id>>] = "open"]
  /\ pendingServerRequests' = Without(pendingServerRequests, id) \cup {card}
  /\ QueueApproval(card, s)
  /\ UNCHANGED <<rtVars, replies, crossed, threadOwners, online, outbox, cards,
                 missed>>

\* "serverRequest/resolved": codex confirms a reply, or withdraws a request of
\* a turn that has ended.  The runtime's own map is left as it is.
HandleRequestResolved(g, id) ==
  /\ Asks(g) /\ question[<<g, id>>] \in {"open", "answered"}
  /\ question' = [question EXCEPT ![<<g, id>>] = "closed"]
  /\ SettleApproval([id |-> id, from |-> g])
  /\ UNCHANGED <<rtVars, replies, pendingServerRequests, crossed, threadOwners,
                 online, outbox, cards, missed>>

-----------------------------------------------------------------------------
(* Calls from the pages. *)

\* The continuation of thread.open, resume, fork, unarchive and rollback.
RememberThreadOwner(t, s) ==
  /\ Listening
  /\ threadOwners' = [threadOwners EXCEPT ![t] = s]
  /\ UNCHANGED <<rtVars, question, replies, pendingServerRequests, pendingById,
                 crossed, pageVars>>

\* A user decides on a card; the call sets out.
Submit(c, card) ==
  /\ c \in online /\ card \in cards[c]
  /\ outbox' = [outbox EXCEPT ![c] = @ \cup {card}]
  /\ UNCHANGED <<rtVars, askVars, online, inbox, cards, missed>>

\* The reply goes to the process the runtime has now, whichever asked.
Reply(asked) ==
  /\ MayWrite
  /\ replies' = [replies EXCEPT ![<<asked.from, asked.id>>] = @ + 1]
  /\ question' = [question EXCEPT ![<<asked.from, asked.id>>] =
                    IF @ = "open" /\ child = asked.from THEN "answered" ELSE @]

\* mapServerRequestResolution() refuses unless the card, the broker's entry and
\* the runtime's are of one kind.  Those of one process are one request; those
\* of several may be of any kind.
MayMismatch(card, entry, asked) == ~(card.from = entry.from /\ entry.from = asked.from)

\* The step after the delete throws: broker and pages keep what they have.
Mismatch(card, entry, asked) ==
  /\ MayMismatch(card, entry, asked)
  /\ crossed' = crossed \cup {<<card.from, card.id>>, <<entry.from, entry.id>>}
  /\ UNCHANGED <<replies, question, pendingById, inbox>>

\* Mutation: runtime, broker and pages all wait for codex to confirm.
ResolveServerRequestUnconfirmed(card, entry, asked) ==
  /\ Reply(asked)
  /\ UNCHANGED <<pendingServerRequests, pendingById, crossed, inbox>>

\* Mutation: only the runtime acts; codex's confirmation is to do the rest.
ResolveServerRequestSilently(card, entry, asked) ==
  /\ pendingServerRequests' = pendingServerRequests \ {asked}
  /\ \/ Reply(asked) /\ UNCHANGED <<pendingById, crossed, inbox>>
     \/ MayThrow /\ UNCHANGED <<replies, question, pendingById, crossed, inbox>>
     \/ Mismatch(card, entry, asked)

\* resolveServerRequest() and what the service does after it: the entry is
\* deleted, the decision is matched with the request, then the reply is written.
ResolveServerRequest(card, entry, asked) ==
  /\ pendingServerRequests' = pendingServerRequests \ {asked}
  /\ \/ Reply(asked) /\ SettleApproval(asked) /\ UNCHANGED crossed
     \/ MayThrow /\ UNCHANGED <<replies, question, pendingById, crossed, inbox>>
     \/ Mismatch(card, entry, asked)

\* handleServerRequestResolve() and handleApprovalResolve().  A promise job runs
\* between the two halves but no callback, so they are one step.
HandleResolve(c, card) ==
  /\ serverUp /\ Quiet /\ card \in outbox[c]
  /\ outbox' = [outbox EXCEPT ![c] = @ \ {card}]
  /\ IF Has(pendingById, card.id) /\ Has(pendingServerRequests, card.id)
     THEN \E entry \in pendingById, asked \in pendingServerRequests :
            /\ entry.id = card.id /\ asked.id = card.id
            /\ ResolveServerRequest(card, entry, asked)
     ELSE UNCHANGED <<question, replies, pendingServerRequests, pendingById,
                      crossed, inbox>>       \* "Approval no longer pending"
  /\ UNCHANGED <<rtVars, threadOwners, online, cards, missed>>

-----------------------------------------------------------------------------
(* Pages and their sockets. *)

\* What registerConnection() sends.
Replay(c) ==
  LET mine == {e \in pendingById : e.session = SessionOf[c]}
  IN  SetToSeq({Requested(e) : e \in mine})

\* Mutation: only notifications of the future are sent.
ConnectWithoutReplay(c) ==
  /\ Listening /\ c \notin online
  /\ online' = online \cup {c}
  /\ inbox' = [inbox EXCEPT ![c] = <<>>]

\* registerConnection() of a new socket.
Connect(c) ==
  /\ Listening /\ c \notin online
  /\ online' = online \cup {c}
  /\ inbox' = [inbox EXCEPT ![c] = Replay(c)]

\* A page is loaded: its store is empty.
Load(c) ==
  /\ c \in PagesAt[spawned]
  /\ Connect(c)
  /\ cards' = [cards EXCEPT ![c] = {}]
  /\ missed' = missed \ {c}
  /\ UNCHANGED <<rtVars, askVars, outbox>>

\* A page reconnects: its store is what it was.
Reconnect(c) ==
  /\ c \in missed
  /\ Connect(c)
  /\ UNCHANGED <<rtVars, askVars, outbox, cards, missed>>

\* unregisterConnection(): what is under way is lost, in both directions.
Disconnect(c) ==
  /\ c \in online
  /\ online' = online \ {c}
  /\ inbox' = [inbox EXCEPT ![c] = <<>>]
  /\ outbox' = [outbox EXCEPT ![c] = {}]
  /\ missed' = missed \cup {c}
  /\ UNCHANGED <<rtVars, askVars, cards>>

\* queueApproval() keeps a card that is there; resolveApproval() goes by the id.
Apply(shown, m) ==
  IF m.kind = "resolved" THEN Without(shown, m.id)
  ELSE IF Has(shown, m.id) THEN shown
  ELSE shown \cup {[id |-> m.id, from |-> m.from]}

\* The next notification reaches the page.
Deliver(c) ==
  /\ c \in online /\ inbox[c] # <<>>
  /\ cards' = [cards EXCEPT ![c] = Apply(@, Head(inbox[c]))]
  /\ inbox' = [inbox EXCEPT ![c] = Tail(@)]
  /\ UNCHANGED <<rtVars, askVars, online, outbox, missed>>

\* The end of the server's process closes its sockets.
SocketsClose ==
  /\ online' = {}
  /\ inbox' = [c \in Clients |-> <<>>]
  /\ outbox' = [c \in Clients |-> {}]
  /\ missed' = missed \cup online
  /\ UNCHANGED cards

\* A step of the runtime, within the bound.
Runs(step) ==
  /\ step
  /\ online \cup missed \subseteq PagesAt[spawned']
  /\ UNCHANGED askVars
  /\ IF serverUp' THEN UNCHANGED pageVars ELSE SocketsClose

RuntimeStep == Runs(Next)

ApprovalsNext ==
  \/ RuntimeStep
  \/ \E g \in Gens, id \in Ids :
       \/ \E s \in Owners : HandleServerRequest(g, id, s)
       \/ HandleRequestResolved(g, id)
  \/ \E t \in Threads, s \in Sessions : RememberThreadOwner(t, s)
  \/ \E c \in Clients :
       \/ Load(c) \/ Reconnect(c) \/ Disconnect(c) \/ Deliver(c)
       \/ \E card \in Cards : Submit(c, card) \/ HandleResolve(c, card)

ApprovalsSpec == ApprovalsInit /\ [][ApprovalsNext]_vars

-----------------------------------------------------------------------------
(* Safety. *)

\* The messages about an id.
About(messages, id) == {i \in DOMAIN messages : messages[i].id = id}

\* What messages make of cards, for an id: the last one about it decides, if there is one.
Leave(messages, shown, id) ==
  \/ About(messages, id) = {} /\ Has(shown, id)
  \/ \E last \in About(messages, id) : /\ messages[last].kind = "requested"
                                      /\ \A i \in About(messages, id) : i <= last

\* A page shows a request once everything sent to it has arrived.
WillShow(c, id) == Leave(inbox[c], cards[c], id)

\* A request of codex is replied to once at most, however many pages show its
\* card, submit it together, or submit a card of an earlier process.
RepliedOnce == \A q \in Questions : replies[q] <= 1

\* A request the broker holds is shown, or about to be, by every page of its
\* session, whenever the page connected: registerConnection() and
\* notifySession() leave no gap between them.
PendingIsShown ==
  \A e \in pendingById : \A c \in Members(e.session) : WillShow(c, e.id)

\* A page that has not lost its socket shows no request that is settled, once
\* the messages on their way are read.
NoGhostCard ==
  \A c \in online \ missed, id \in Ids : WillShow(c, id) => Has(pendingById, id)

\* A page's cards are the requests that await an answer.
CardsArePending == PendingIsShown /\ NoGhostCard

\* What a running codex asks can be answered as long as the broker holds it:
\* the runtime has it too, so a click is not in vain.  Only a decision that
\* mixes it up with a request of another process, of the same id and another
\* kind, takes it from the runtime alone (crossed).
PendingIsAnswerable ==
  \A e \in pendingById :
    proc[e.from] = "running" =>
      Has(pendingServerRequests, e.id) \/ <<e.from, e.id>> \in crossed

\* A page shows the requests that await an answer, and a running codex gets the answer.
CardsAreAnswerable == CardsArePending /\ PendingIsAnswerable

-----------------------------------------------------------------------------
(* Liveness: the sockets deliver and the server handles what arrives.  Users *)
(* are free to submit or not, codex to withdraw or not.                      *)

PagesProgress ==
  \A c \in Clients :
    /\ WF_vars(Deliver(c))
    /\ \A card \in Cards : WF_vars(HandleResolve(c, card))

\* The jobs of settled promises run; a call is handled only between them (Quiet).
JobsRun ==
  WF_vars(Runs((\E c \in Callers : Resume(c)) \/ (\E g \in Gens : FinishStart(g))))

ApprovalsFairSpec == ApprovalsSpec /\ PagesProgress /\ JobsRun

\* A card of a codex that lives and knows which request is meant.
Live(card) == proc[card.from] = "running" /\ <<card.from, card.id>> \notin crossed

\* A card that a user submits leaves the page, as long as the page keeps its
\* socket and codex lives, whoever else resolves or withdraws the request; unless
\* a decision mixes the request up with one of another process.
SubmittedClearsWhileCodexLives ==
  \A c \in Clients, id \in Ids :
    (c \notin missed /\ \E card \in outbox[c] : card.id = id /\ Live(card))
      ~> (c \in missed \/ ~serverUp
            \/ \A card \in cards[c] : card.id = id => ~Live(card))

=============================================================================
