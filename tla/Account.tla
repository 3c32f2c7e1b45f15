------------------------------ MODULE Account -------------------------------
(***************************************************************************)
(* Who the user is: the account as codex knows it, as CodexRuntime caches  *)
(* it and as a page shows it, and the device-code logins, each a child     *)
(* process `codex login --device-auth' beside the app-server.              *)
(*                                                                         *)
(* refreshAccountSummary() asks codex two things.  call() applies the      *)
(* answer to account/read where it arrives, and the refresh applies it     *)
(* again when both answers are there; several refreshes may be under way.  *)
(* A refresh, with what waits for it, is an operation of `ops'.            *)
(*                                                                         *)
(* The socket of the page is FIFO and never lost here: what the server     *)
(* sends is applied when it is sent.  What codex does with logins and how  *)
(* a child exits is outside the code.                                      *)
(***************************************************************************)
EXTENDS Naturals, FiniteSets, Functions

CONSTANTS LoginIds,         \* device-code logins, each started once
          Keys, NoAccount,  \* accounts logged in by key; none
          NoLogin,          \* the page shows no login
          MaxOps,           \* bound: operations the page starts overlap up to this number
          MaxExits          \* bound: exits of codex

ASSUME AccountAssumption ==
  /\ {MaxOps, MaxExits} \subseteq Nat
  /\ NoAccount \notin Keys \cup LoginIds /\ NoLogin \notin LoginIds /\ Keys \cap LoginIds = {}

VARIABLES
  truth,                     \* whom codex is logged in as
  connected,                 \* CodexRuntime.status.connected
  account,                   \* CodexRuntime.account
  ops,                       \* operation |-> [pc, value]
  child,                     \* state of the process of each login
  settled,                   \* what startDeviceCodeLogin()'s promise came to
  startupTimer,              \* logins whose start-up timer is armed
  pendingDeviceCodeLogins,
  canceledDeviceCodeLogins,
  loginState,                \* the page's accountLoginState
  pageAccount,               \* the account in the page's bootstrap data
  exits, stops,              \* counters of the bounds
  \* History: the account is an answer that a change of login overtook; logins that
  \* succeeded while they were killed; the page shows an overtaken account, or was not
  \* told of a change because it no longer listened.
  overtaken, unseen, pageOvertaken

codexVars == <<truth, connected, exits, stops>>
childVars == <<child, settled, startupTimer, pendingDeviceCodeLogins, canceledDeviceCodeLogins>>
pageVars == <<loginState, pageAccount, pageOvertaken>>
vars == <<codexVars, account, ops, childVars, pageVars, overtaken, unseen>>

\* An operation: its kind, and the login or account it is about.
Op(kind, about) == [kind |-> kind, about |-> about]

Emitting == {"note", "exit", "set"}                  \* end with account.updated
Calls == {"login", "reread", "cancel", "poll", "ignored", "bootstrap"}
                                                     \* end with an answer to the page

NoState == [login |-> NoLogin, expires |-> FALSE, phase |-> "none"]

Init ==
  /\ truth \in Keys \cup {NoAccount} /\ connected = FALSE /\ account = NoAccount
  /\ ops = <<>>
  /\ child = [l \in LoginIds |-> "none"] /\ settled = [l \in LoginIds |-> "no"]
  /\ startupTimer = {} /\ pendingDeviceCodeLogins = {} /\ canceledDeviceCodeLogins = {}
  /\ loginState = NoState /\ pageAccount = NoAccount
  /\ exits = 0 /\ stops = 0
  /\ overtaken = FALSE /\ unseen = {} /\ pageOvertaken = FALSE

Active(op) == op \in DOMAIN ops
End(op) == Restrict(ops, DOMAIN ops \ {op})
At(op, pc, value) == [o \in DOMAIN ops \cup {op} |-> IF o = op THEN [pc |-> pc, value |-> value]
                                                     ELSE ops[o]]

\* No promise job is due: calls that failed are settled before anything else happens.
Quiet == \A op \in DOMAIN ops : ops[op].pc # "failed"

Booting == Active(Op("boot", NoLogin))

\* Where a refresh begins: its calls are sent, or wait for start().
Ask == IF connected THEN "asked" ELSE "due"

Begin(op) == ops' = At(op, Ask, NoAccount)

\* The page starts operations on its own up to the bound.
MayCall(op) == Quiet /\ ~Active(op) /\ Cardinality(DOMAIN ops) < MaxOps

-----------------------------------------------------------------------------
(* Refreshes. *)

\* account/read is answered: who codex is logged in as.
Read(op) ==
  /\ Quiet /\ connected /\ Active(op) /\ ops[op].pc = "asked"
  /\ account' = truth /\ overtaken' = FALSE
  /\ ops' = At(op, "half", truth)
  /\ UNCHANGED <<codexVars, childVars, pageVars, unseen>>

\* Mutation: the exit of a login is not told to the page.
EmitsUnlessExit(op) == op.kind \in {"note", "set"}

Emits(op) == op.kind \in Emitting

\* What waited for the refresh goes on: the calls that wait for start(), a second
\* refresh for the answer, the bootstrap that the page reads when codex is up, and the
\* rest of a call, which asks codex for more.
Continue(op, value) ==
  CASE op.kind = "boot" ->
         ops' = [o \in (DOMAIN ops \ {op}) \cup {Op("bootstrap", NoLogin)} |->
                   IF ~Active(o) \/ ops[o].pc = "due"
                   THEN [pc |-> "asked", value |-> NoAccount] ELSE ops[o]]
    [] op.kind = "set" ->
         ops' = [o \in (DOMAIN ops \ {op}) \cup {Op("reread", NoLogin)} |->
                   IF Active(o) THEN ops[o] ELSE [pc |-> Ask, value |-> NoAccount]]
    [] op.kind \in Calls -> ops' = At(op, "answering", value)
    [] OTHER -> ops' = End(op)

\* Both calls are settled: by codex, or because it has exited, and then there is no
\* account when account/read was not answered.
Settle(op) ==
  /\ Active(op)
  /\ \/ Quiet /\ connected /\ ops[op].pc = "half"
     \/ ops[op].pc = "failed"
  /\ account' = ops[op].value
  /\ overtaken' = (account' # truth)
  /\ IF ops[op].pc = "failed" /\ op.kind \notin {"set", "note", "exit"}
     THEN ops' = End(op) ELSE Continue(op, account')
  /\ IF Emits(op)
     THEN pageAccount' = account' /\ pageOvertaken' = FALSE
     ELSE UNCHANGED <<pageAccount, pageOvertaken>>
  /\ UNCHANGED <<codexVars, childVars, loginState, unseen>>

\* codex app-server is up (also for the first time): start() refreshes before those
\* who wait for it go on.
Connect ==
  /\ Quiet /\ ~connected /\ connected' = TRUE
  /\ ops' = At(Op("boot", NoLogin), "asked", NoAccount)
  /\ UNCHANGED <<truth, exits, stops, account, childVars, pageVars, overtaken, unseen>>

\* It exits, or a start fails: calls under way or waiting are rejected.
Fail(o) == IF o.pc = "half" THEN [pc |-> "failed", value |-> o.value]
           ELSE [pc |-> "failed", value |-> NoAccount]

Rejected == {op \in DOMAIN ops : ops[op].pc \in {"calling", "answering"}}

CodexExits ==
  /\ Quiet /\ exits < MaxExits
  /\ exits' = exits + 1 /\ connected' = FALSE
  /\ ops' = [op \in DOMAIN ops \ Rejected |->
               IF ops[op].pc \in {"asked", "half", "due"} THEN Fail(ops[op]) ELSE ops[op]]
  /\ UNCHANGED <<truth, stops, account, childVars, pageVars, overtaken, unseen>>

\* account/updated and account/login/completed
Notified ==
  /\ Quiet /\ connected /\ MayCall(Op("note", NoLogin))
  /\ Begin(Op("note", NoLogin))
  /\ UNCHANGED <<codexVars, account, childVars, pageVars, overtaken, unseen>>

-----------------------------------------------------------------------------
(* Login by key and logout: a call, a refresh, and a second one for the answer. *)

SetAccount(a) ==
  /\ MayCall(Op("set", a)) /\ (a \in Keys => loginState.phase # "pending")
  /\ \A op \in DOMAIN ops : op.kind \notin {"set", "reread"}
  /\ ops' = At(Op("set", a), "calling", NoAccount)
  /\ UNCHANGED <<codexVars, account, childVars, pageVars, overtaken, unseen>>

CodexSets(a) ==
  /\ Quiet /\ connected /\ ~Booting
  /\ Active(Op("set", a)) /\ ops[Op("set", a)].pc = "calling"
  /\ truth' = a /\ overtaken' = FALSE
  /\ Begin(Op("set", a))
  /\ UNCHANGED <<connected, exits, stops, account, childVars, pageVars, unseen>>

-----------------------------------------------------------------------------
(* Device-code logins. *)

StartDeviceCodeLogin(l) ==
  /\ MayCall(Op("login", l)) /\ loginState.phase # "pending" /\ child[l] = "none"
  /\ child' = [child EXCEPT ![l] = "running"]
  /\ startupTimer' = startupTimer \cup {l}
  /\ pendingDeviceCodeLogins' = pendingDeviceCodeLogins \cup {l}
  /\ ops' = At(Op("login", l), "waiting", NoAccount)
  /\ UNCHANGED <<codexVars, account, settled, canceledDeviceCodeLogins, pageVars, overtaken, unseen>>

Printing(l) == Quiet /\ child[l] \in {"running", "killed"} /\ settled[l] = "no"

\* Mutation: any output disarms the timer.
DisarmAlways(l, complete) == startupTimer \ {l}

Disarm(l, complete) == IF complete THEN startupTimer \ {l} ELSE startupTimer

\* A chunk of output.  The promise resolves with the first one that completes URL and
\* code; the time they expire is known only if it has come by then.
Output(l, complete, expires) ==
  /\ Printing(l)
  /\ startupTimer' = Disarm(l, complete)
  /\ IF complete
     THEN /\ settled' = [settled EXCEPT ![l] = IF expires THEN "expires" ELSE "shown"]
          /\ Begin(Op("login", l))
     ELSE UNCHANGED <<settled, ops>>
  /\ UNCHANGED <<codexVars, account, child, pendingDeviceCodeLogins, canceledDeviceCodeLogins,
                 pageVars, overtaken, unseen>>

Kill(l) == IF child[l] = "running" THEN [child EXCEPT ![l] = "killed"] ELSE child

\* Mutation: the child goes on.
RejectOnly(l) == child

GiveUp(l) == Kill(l)

StartupTimerFires(l) ==
  /\ Quiet /\ l \in startupTimer
  /\ startupTimer' = startupTimer \ {l}
  /\ settled' = [settled EXCEPT ![l] = "rejected"]
  /\ pendingDeviceCodeLogins' = pendingDeviceCodeLogins \ {l}
  /\ child' = GiveUp(l)
  /\ ops' = End(Op("login", l))
  /\ UNCHANGED <<codexVars, account, canceledDeviceCodeLogins, pageVars, overtaken, unseen>>

\* The child cannot be spawned.
ChildError(l) ==
  /\ Quiet /\ child[l] = "running" /\ settled[l] = "no"
  /\ child' = [child EXCEPT ![l] = "exited"]
  /\ startupTimer' = startupTimer \ {l}
  /\ pendingDeviceCodeLogins' = pendingDeviceCodeLogins \ {l}
  /\ settled' = [settled EXCEPT ![l] = "rejected"]
  /\ ops' = End(Op("login", l))
  /\ UNCHANGED <<codexVars, account, canceledDeviceCodeLogins, pageVars, overtaken, unseen>>

\* The user has entered the code: a child that is being killed may still log in.
ChildLogsIn(l) ==
  /\ child[l] \in {"running", "killed"} /\ settled[l] \in {"shown", "expires"}
  /\ ~Active(Op("login", l))
  /\ child' = [child EXCEPT ![l] = "loggedIn"]
  /\ truth' = l /\ overtaken' = FALSE
  /\ unseen' = IF l \in canceledDeviceCodeLogins THEN unseen \cup {l} ELSE unseen
  /\ UNCHANGED <<connected, exits, stops, account, ops, settled, startupTimer,
                 pendingDeviceCodeLogins, canceledDeviceCodeLogins, pageVars>>

\* Mutation: a login that stop() or the page ended needs no refresh.
ExitIfPending(l) ==
  IF l \notin pendingDeviceCodeLogins THEN UNCHANGED ops
  ELSE IF settled[l] = "no" THEN ops' = End(Op("login", l))
  ELSE Begin(Op("exit", l))

\* handleDeviceCodeLoginExit()
HandleDeviceCodeLoginExit(l) ==
  IF l \in canceledDeviceCodeLogins THEN UNCHANGED ops
  ELSE IF settled[l] = "no" THEN ops' = End(Op("login", l))
  ELSE Begin(Op("exit", l))

ChildExits(l) ==
  /\ Quiet /\ child[l] \in {"running", "killed", "loggedIn"}
  /\ child' = [child EXCEPT ![l] = "exited"]
  /\ startupTimer' = startupTimer \ {l}
  /\ HandleDeviceCodeLoginExit(l)
  /\ pendingDeviceCodeLogins' = pendingDeviceCodeLogins \ {l}
  /\ canceledDeviceCodeLogins' = canceledDeviceCodeLogins \ {l}
  /\ UNCHANGED <<codexVars, account, settled, pageVars, overtaken, unseen>>

\* cancelAccountLogin(): the child is killed, or codex is asked.
Cancel ==
  LET l == loginState.login
      op == Op("cancel", NoLogin)
  IN /\ MayCall(op) /\ loginState.phase = "pending"
     /\ IF l \in pendingDeviceCodeLogins
        THEN /\ canceledDeviceCodeLogins' = canceledDeviceCodeLogins \cup {l}
             /\ pendingDeviceCodeLogins' = pendingDeviceCodeLogins \ {l}
             /\ child' = Kill(l)
             /\ unseen' = IF child[l] = "loggedIn" THEN unseen \cup {l} ELSE unseen
             /\ Begin(op)
        ELSE /\ ops' = At(op, "calling", NoAccount)
             /\ UNCHANGED <<canceledDeviceCodeLogins, pendingDeviceCodeLogins, child, unseen>>
     /\ UNCHANGED <<codexVars, account, settled, startupTimer, pageVars, overtaken>>

\* account/login/cancel of a login codex does not know
CodexCancels ==
  LET op == Op("cancel", NoLogin)
  IN /\ Quiet /\ connected /\ ~Booting /\ Active(op) /\ ops[op].pc = "calling"
     /\ Begin(op)
     /\ UNCHANGED <<codexVars, account, childVars, pageVars, overtaken, unseen>>

\* CodexRuntime.stop(): the next call starts codex again.
Stop ==
  /\ Quiet /\ stops = 0 /\ stops' = 1
  /\ child' = [l \in LoginIds |-> IF l \in pendingDeviceCodeLogins THEN Kill(l)[l] ELSE child[l]]
  /\ pendingDeviceCodeLogins' = {} /\ canceledDeviceCodeLogins' = {}
  /\ UNCHANGED <<truth, connected, exits, account, ops, settled, startupTimer, pageVars, overtaken,
                 unseen>>

-----------------------------------------------------------------------------
(* The page. *)

\* When the login changes, the effect of the poll is cancelled and its answer ignored.
Ignore(fs) ==
  LET poll == Op("poll", NoLogin)
  IN IF poll \in DOMAIN fs
     THEN [o \in (DOMAIN fs \ {poll}) \cup {Op("ignored", NoLogin)} |->
             IF o.kind = "ignored" THEN fs[poll] ELSE fs[o]]
     ELSE fs

\* Every 2.5 seconds while a login is pending.
Poll ==
  /\ loginState.phase = "pending"
  /\ MayCall(Op("poll", NoLogin)) /\ ~Active(Op("ignored", NoLogin))
  /\ Begin(Op("poll", NoLogin))
  /\ UNCHANGED <<codexVars, account, childVars, pageVars, overtaken, unseen>>

Expire ==
  /\ loginState.phase = "pending" /\ loginState.expires
  /\ loginState' = [loginState EXCEPT !.phase = "failed"]
  /\ ops' = Ignore(ops)
  /\ UNCHANGED <<codexVars, account, childVars, pageAccount, pageOvertaken, overtaken, unseen>>

\* What the page makes of an answer.
NextLoginState(op) ==
  CASE op.kind = "login" ->
         [login |-> op.about, expires |-> settled[op.about] = "expires", phase |-> "pending"]
    [] op.kind \in {"reread", "cancel"} -> NoState
    [] op.kind = "poll" /\ ops[op].value # NoAccount -> NoState
    [] OTHER -> loginState

\* applyAccountResult() with the account the answer was made with, unless ignored.
Answer(op) ==
  /\ Quiet /\ connected /\ Active(op) /\ ops[op].pc = "answering"
  /\ loginState' = NextLoginState(op)
  /\ pageAccount' = IF op.kind = "ignored" THEN pageAccount ELSE ops[op].value
  /\ pageOvertaken' = (pageAccount' # account)
  /\ ops' = IF loginState' = loginState THEN End(op) ELSE Ignore(End(op))
  /\ UNCHANGED <<codexVars, account, childVars, overtaken, unseen>>

Next ==
  \/ \E op \in DOMAIN ops : Read(op) \/ Settle(op) \/ Answer(op)
  \/ Connect \/ CodexExits \/ Notified \/ Stop
  \/ \E a \in Keys \cup {NoAccount} : SetAccount(a) \/ CodexSets(a)
  \/ \E l \in LoginIds, complete, expires \in BOOLEAN : Output(l, complete, expires)
  \/ \E l \in LoginIds : \/ StartDeviceCodeLogin(l) \/ StartupTimerFires(l) \/ ChildError(l)
                         \/ ChildLogsIn(l) \/ ChildExits(l)
  \/ Cancel \/ CodexCancels \/ Poll \/ Expire

Spec == Init /\ [][Next]_vars

-----------------------------------------------------------------------------
\* A login child that nobody has told to end can be told: it is among the pending
\* ones, which cancelAccountLogin() and stop() kill (codex-runtime.ts:262, 225).
NoForgottenChild == \A l \in LoginIds : child[l] = "running" => l \in pendingDeviceCodeLogins

\* A page that waits for the login to start will hear: the timer is armed, whatever
\* the child has printed (codex-runtime.ts:1788).
LoginIsDue ==
  \A op \in DOMAIN ops :
    ops[op].pc = "waiting" => settled[op.about] = "no" /\ op.about \in startupTimer

\* Both ends of a login are held: its child by the runtime, which can kill it, and the
\* page that waits for it by the start-up timer.
LoginsAreHeld == NoForgottenChild /\ LoginIsDue

\* Every change of the login is followed by a refresh that reads it: when the cached
\* account differs, a refresh is due, or codex is down, or an older refresh was applied
\* last, or a login succeeded after it was cancelled.
RefreshIsDue ==
  account # truth =>
    \/ ~connected \/ overtaken \/ truth \in unseen
    \/ \E op \in DOMAIN ops : ops[op].pc \in {"asked", "due"}
    \/ \E l \in LoginIds : child[l] = "loggedIn"

\* The page hears of every change of the cached account: when it shows another, an
\* operation that tells it is under way, or codex is down, or it applied an answer made
\* before the change, or it ignored the answer of the poll that brought the change.
PageIsTold ==
  pageAccount # account =>
    \/ ~connected \/ pageOvertaken
    \/ \E op \in DOMAIN ops : ops[op].pc \in {"asked", "due", "half", "answering"}

\* A change of the login reaches the page: the server reads it again, and the page is told.
AccountReachesPage == RefreshIsDue /\ PageIsTold

=============================================================================
