----------------------------- MODULE Decisions -----------------------------
(***************************************************************************)
(* What a user decides on a card, and what codex is told: the nine kinds   *)
(* of requests, the forms of their cards, and the two checks the answer    *)
(* passes on its way (the service's by id, the runtime's by kind and       *)
(* method).  Approvals has the same path with its pages, sockets and       *)
(* faults, and no contents.                                                *)
(*                                                                         *)
(* A request is known by its number; its JSON-RPC id is used again by a    *)
(* codex that was restarted.  A value of a form is Empty, Typed, or the    *)
(* number of the request that offered it.  `rich` says that a request      *)
(* offers what its kind may offer: acceptForSession, options, a form to    *)
(* fill in (else a URL), an account.                                       *)
(***************************************************************************)
EXTENDS Integers, Sequences, SequencesExt, Functions, FiniteSets

CONSTANTS Kinds,                 \* the kinds codex asks; a subset of AllKinds
          Ids,                   \* JSON-RPC ids
          MaxAsked, MaxRestarts  \* bounds

VARIABLES
  asked,                 \* requests, in the order codex made them
  run,                   \* number of codex's run
  pendingServerRequests, \* CodexRuntime: id |-> request
  pendingById,           \* ApprovalBroker: id |-> request
  inbox,                 \* notifications on their way to the page
  cards,                 \* requests the page shows
  form,                  \* the state of each card's form
  outbox,                \* decisions on their way to the server
  replies                \* what codex was told

vars == <<asked, run, pendingServerRequests, pendingById, inbox, cards, form, outbox, replies>>

Approval == {"commandExecutionApproval", "fileChangeApproval"}
Review   == {"applyPatchApproval", "execCommandApproval"}
AllKinds == Approval \cup Review \cup
  {"requestUserInput", "mcpServerElicitation", "permissionsApproval", "dynamicToolCall",
   "chatgptAuthTokensRefresh"}

Empty == 0
Typed == -1
Requests == 1..MaxAsked
Values == Requests \cup {Empty, Typed}
Given(v) == v # Empty

\* The fields of a card, and what they hold when it appears.
InitialForm(r) ==
  LET offer == IF asked[r].rich THEN r ELSE Empty
  IN CASE asked[r].kind = "requestUserInput" -> [selected |-> offer, other |-> Empty]
       [] asked[r].kind = "mcpServerElicitation" /\ asked[r].rich ->
            [field |-> r, choice |-> Empty]
       [] asked[r].kind = "dynamicToolCall" -> [response |-> Empty]
       [] asked[r].kind = "chatgptAuthTokensRefresh" ->
            [accessToken |-> Empty, account |-> offer, plan |-> Empty]
       [] OTHER -> <<>>

Filled(f) == {v \in {f[x] : x \in DOMAIN f} : Given(v)}

\* The buttons of a card.
Buttons(r) ==
  CASE asked[r].kind = "commandExecutionApproval" ->
         {"accept", "decline"} \cup (IF asked[r].rich THEN {"acceptForSession"} ELSE {})
    [] asked[r].kind = "mcpServerElicitation" -> {"accept", "decline", "cancel"}
    [] asked[r].kind = "chatgptAuthTokensRefresh" ->
         IF Given(form[r].accessToken) /\ Given(form[r].account) THEN {"accept"} ELSE {}
    [] OTHER -> {"accept", "decline"}

\* The resolution that a button of the card of r makes with the form f.
Resolution(r, button, f) ==
  LET yes == button # "decline" /\ button # "cancel"
  IN [decision |->
        CASE asked[r].kind \in Approval \cup {"mcpServerElicitation"} -> button
          [] asked[r].kind \in Review -> IF yes THEN "approved" ELSE "denied"
          [] asked[r].kind = "requestUserInput" -> "answers"
          [] asked[r].kind = "permissionsApproval" -> "permissions"
          [] asked[r].kind = "dynamicToolCall" -> IF yes THEN "success" ELSE "failure"
          [] asked[r].kind = "chatgptAuthTokensRefresh" -> "tokens",
      content |-> IF ~yes THEN {}
                  ELSE IF asked[r].kind = "permissionsApproval" THEN {r} ELSE Filled(f)]

\* buildDefaultServerRequestResolveInput(): of tokens there is none; of a form it takes the first
\* choice where there is no default, which the card leaves open.
HasDefault(r) == asked[r].kind # "chatgptAuthTokensRefresh"
Default(r, button) ==
  Resolution(r, button, [x \in DOMAIN InitialForm(r) |->
                           IF x = "choice" THEN r ELSE InitialForm(r)[x]])

TypeOK ==
  /\ asked \in Seq([id : Ids, kind : Kinds, rich : BOOLEAN, run : 1..(MaxRestarts + 1)])
  /\ \A id \in DOMAIN pendingServerRequests : asked[pendingServerRequests[id]].id = id
  /\ \A id \in DOMAIN pendingById : asked[pendingById[id]].id = id
  /\ cards \subseteq DOMAIN asked /\ DOMAIN form = cards
  /\ \A r \in cards : \A x \in DOMAIN form[r] : form[r][x] \in Values

Init ==
  /\ asked = <<>> /\ run = 1
  /\ pendingServerRequests = <<>> /\ pendingById = <<>>
  /\ inbox = <<>> /\ cards = {} /\ form = <<>>
  /\ outbox = {} /\ replies = {}

Put(f, x, v) == [y \in DOMAIN f \cup {x} |-> IF y = x THEN v ELSE f[y]]
Drop(f, x) == Restrict(f, DOMAIN f \ {x})

-----------------------------------------------------------------------------
\* Codex.

\* mapPendingServerRequest(); one whose thread has no owner goes no further than the runtime.
HandleServerRequest(id, kind, rich, owned) ==
  /\ Len(asked) < MaxAsked
  /\ \A r \in DOMAIN asked : asked[r].id = id => asked[r].run < run
  /\ LET r == Len(asked) + 1
     IN /\ asked' = Append(asked, [id |-> id, kind |-> kind, rich |-> rich, run |-> run])
        /\ pendingServerRequests' = Put(pendingServerRequests, id, r)
        /\ IF owned
           THEN /\ pendingById' = Put(pendingById, id, r)
                /\ inbox' = Append(inbox, [kind |-> "requested", request |-> r])
           ELSE UNCHANGED <<pendingById, inbox>>
  /\ UNCHANGED <<run, cards, form, outbox, replies>>

Settle(id, r) ==
  /\ pendingById' = Drop(pendingById, id)
  /\ inbox' = Append(inbox, [kind |-> "resolved", request |-> r])

\* "serverRequest/resolved": codex withdraws what it asked.
HandleRequestResolved(r) ==
  /\ asked[r].run = run
  /\ Settle(asked[r].id, r)
  /\ asked[r].id \in DOMAIN pendingById
  /\ UNCHANGED <<asked, run, pendingServerRequests, cards, form, outbox, replies>>

\* Codex exits and is started again: it counts from the first id.
Restart ==
  /\ run <= MaxRestarts
  /\ run' = run + 1
  /\ UNCHANGED <<asked, pendingServerRequests, pendingById, inbox, cards, form, outbox, replies>>

-----------------------------------------------------------------------------
\* The page.

SameId(q, r) == asked[q].id = asked[r].id

\* queueApproval() keeps the card that has the id; resolveApproval() goes by the id.
Deliver ==
  /\ inbox # <<>>
  /\ inbox' = Tail(inbox)
  /\ LET r == Head(inbox).request
         left == {c \in cards : ~SameId(c, r)}
     IN IF Head(inbox).kind = "resolved"
        THEN cards' = left /\ form' = Restrict(form, left)
        ELSE IF left # cards
        THEN UNCHANGED <<cards, form>>
        ELSE cards' = cards \cup {r} /\ form' = Put(form, r, InitialForm(r))
  /\ UNCHANGED <<asked, run, pendingServerRequests, pendingById, outbox, replies>>

\* A field is filled in or cleared.
Edit(r, x, v) ==
  /\ form' = [form EXCEPT ![r][x] = v]
  /\ UNCHANGED <<asked, run, pendingServerRequests, pendingById, inbox, cards, outbox, replies>>

\* A button: serverRequest.resolve.  (Approvals has a second click before the first is handled.)
Submit(r, button) ==
  /\ button \in Buttons(r)
  /\ \A op \in outbox : op.card # r
  /\ outbox' = outbox \cup {[card |-> r, button |-> button, resolution |-> Resolution(r, button, form[r])]}
  /\ UNCHANGED <<asked, run, pendingServerRequests, pendingById, inbox, cards, form, replies>>

-----------------------------------------------------------------------------
\* The server.

\* Mutation: whatever has the id is answered.
MatchesId(request, pending, card) == SameId(request, card)

\* mapServerRequestResolution(): the kinds agree, and so does the method that is waiting.
Matches(request, pending, card) ==
  /\ SameId(request, card)
  /\ asked[request].kind = asked[card].kind
  /\ asked[pending].kind = asked[card].kind

\* resolveServerRequest(): the entry goes first.  Codex ignores an id it has not asked.
ResolveServerRequest(id, card, button, resolution) ==
  IF id \notin DOMAIN pendingServerRequests
  THEN UNCHANGED <<pendingServerRequests, pendingById, inbox, replies>>
  ELSE LET pending == pendingServerRequests[id] IN
       /\ pendingServerRequests' = Drop(pendingServerRequests, id)
       /\ IF Matches(pendingById[id], pending, card)
          THEN /\ Settle(id, pendingById[id])
               /\ replies' = IF asked[pending].run # run THEN replies
                             ELSE replies \cup {[to |-> pending, card |-> card, button |-> button,
                                                 resolution |-> resolution]}
          ELSE UNCHANGED <<pendingById, inbox, replies>>

\* handleServerRequestResolve()
HandleResolve(op) ==
  /\ outbox' = outbox \ {op}
  /\ IF asked[op.card].id \in DOMAIN pendingById
     THEN ResolveServerRequest(asked[op.card].id, op.card, op.button, op.resolution)
     ELSE UNCHANGED <<pendingServerRequests, pendingById, inbox, replies>>
  /\ UNCHANGED <<asked, run, cards, form>>

\* handleApprovalResolve(), and a resolution in the older form: only an id and a decision.
HandleApprovalResolve(id, button) ==
  /\ id \in DOMAIN pendingById /\ HasDefault(pendingById[id])
  /\ ResolveServerRequest(id, pendingById[id], button, Default(pendingById[id], button))
  /\ UNCHANGED <<asked, run, cards, form, outbox>>

Next ==
  \/ \E id \in Ids, k \in Kinds, rich, owned \in BOOLEAN : HandleServerRequest(id, k, rich, owned)
  \/ \E r \in DOMAIN asked : HandleRequestResolved(r)
  \/ Restart
  \/ Deliver
  \/ \E r \in cards :
       \/ \E x \in DOMAIN form[r], v \in {Empty, Typed} : Edit(r, x, v)
       \/ \E b \in {"accept", "acceptForSession", "decline", "cancel"} : Submit(r, b)
  \/ \E op \in outbox : HandleResolve(op)
  \/ \E id \in Ids, b \in {"accept", "decline"} : HandleApprovalResolve(id, b)

Spec == Init /\ [][Next]_vars

-----------------------------------------------------------------------------
\* What codex takes as an answer to each kind of request.
Protocol(kind) ==
  CASE kind \in Review -> {"approved", "denied"}
    [] kind = "commandExecutionApproval" -> {"accept", "acceptForSession", "decline"}
    [] kind = "fileChangeApproval" -> {"accept", "decline"}
    [] kind = "mcpServerElicitation" -> {"accept", "decline", "cancel"}
    [] kind = "requestUserInput" -> {"answers"}
    [] kind = "permissionsApproval" -> {"permissions"}
    [] kind = "dynamicToolCall" -> {"success", "failure"}
    [] kind = "chatgptAuthTokensRefresh" -> {"tokens"}

Grants(resolution) ==
  \/ resolution.decision \in {"accept", "acceptForSession", "approved", "success", "tokens"}
  \/ resolution.content # {}

(* Codex is told what a user decided, in the terms of what it asked: the answer is one its method *)
(* takes, it grants something only if the user did, and it holds what the user typed or the card  *)
(* offered.  The card was that of the request; or else, after a restart, of an earlier one with    *)
(* its id and kind (mapServerRequestResolution() checks no more).                                  *)
RepliesAreMeant ==
  \A reply \in replies :
    LET resolution == reply.resolution IN
    /\ resolution.decision \in Protocol(asked[reply.to].kind)
    /\ Grants(resolution) => reply.button \notin {"decline", "cancel"}
    /\ resolution.content \subseteq {Typed, reply.card}
    /\ reply.card # reply.to =>
         /\ SameId(reply.card, reply.to) /\ asked[reply.card].kind = asked[reply.to].kind
         /\ asked[reply.card].run < asked[reply.to].run

(* As long as codex has not been restarted, what the broker holds can be answered: no decision is *)
(* refused after the runtime has forgotten the request.                                           *)
NoneIsForgotten == run = 1 => DOMAIN pendingById \subseteq DOMAIN pendingServerRequests

DecisionsAreMeant == RepliesAreMeant /\ NoneIsForgotten
=============================================================================
