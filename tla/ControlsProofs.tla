--------------------------- MODULE ControlsProofs ---------------------------
(***************************************************************************)
(* Proofs about the parts of MCControls, for any logins, keys, kinds of    *)
(* requests and ids and any bounds, and for two places of lists.           *)
(*                                                                         *)
(* Account: LoginsAreHeld needs what a login's child, timer, promise and   *)
(* call agree on (LoginInv).  AccountReachesPage is not inductive: that a  *)
(* login which codex knows is read again holds because the child of that   *)
(* very login has still to exit (TruthIsDue), and exits with a refresh     *)
(* unless it was cancelled (CanceledIsUnseen); that the page hears of it   *)
(* holds because a rejected refresh finds codex down (FailedIsDown) and    *)
(* because a poll whose answer is ignored is the only one (OnePoll).       *)
(*                                                                         *)
(* Decisions: an answer is meant for the request it reaches because two    *)
(* requests with one id were made in different runs (RequestsAre), because *)
(* both tables have a request under its id (TablesAre) and because a card  *)
(* holds nothing of another request (CardsAre).                            *)
(*                                                                         *)
(* Settings: what is promised when nothing is under way holds because of   *)
(* what every request will still do.  An answer that no write has          *)
(* overtaken is what codex has (RequestIs); a copy that differs from it    *)
(* has such an answer to come (CopiesAreDue); while no save was composed   *)
(* from an old copy there is one at a time, and it has the user's choices  *)
(* (ChoicesAreDue).  A control that shows another value than the copies    *)
(* waits for a request that changes what its effect depends on             *)
(* (Recomputes): a save that gives the bootstrap the value, the last       *)
(* write, or the bootstrap query that follows the overlay's save.          *)
(*                                                                         *)
(* Integrations: what will tell of a list that is not right is on its way  *)
(* (Told), or a fetch is.  An answer that equals the data of the place is  *)
(* not copied, so what that data has right the store has, or will be told  *)
(* of (SharedIsTold); that is so because a notification is newer than all  *)
(* data and than the answers it follows on the socket (NewsIsNew).         *)
(***************************************************************************)
EXTENDS MCControls, SequenceLemmas

-----------------------------------------------------------------------------
(* The inductive invariants. *)

\* The operations there can be.
Ops == [kind : Emitting \cup Calls \cup {"boot"},
        about : LoginIds \cup Keys \cup {NoAccount, NoLogin}]

\* What startDeviceCodeLogin()'s promise comes to when URL and code are printed.
Shown == {"shown", "expires"}

\* The types, with what an operation is about: device-code calls have a login, and a
\* poll that is ignored has none.
Types ==
  /\ DOMAIN ops \subseteq Ops
  /\ \A op \in DOMAIN ops :
        /\ op.kind = "login" => op.about \in LoginIds
        /\ op.kind = "ignored" => op = Op("ignored", NoLogin)
        /\ ops[op].pc \in {"due", "asked", "half", "failed", "answering", "calling", "waiting"}
  /\ child \in [LoginIds -> {"none", "running", "killed", "loggedIn", "exited"}]
  /\ settled \in [LoginIds -> Shown \cup {"no", "rejected"}]
  /\ startupTimer \subseteq LoginIds
  /\ pendingDeviceCodeLogins \subseteq LoginIds /\ canceledDeviceCodeLogins \subseteq LoginIds
  /\ loginState \in [login : LoginIds \cup {NoLogin}, expires : BOOLEAN,
                     phase : {"none", "pending", "failed"}]

\* How far a login is, told by its child, its timer, its promise and the page's call,
\* which agree: a page that shows a login has been told of it.
LoginSteps ==
  /\ \A op \in DOMAIN ops :
       /\ ops[op].pc = "waiting" => op.kind = "login" /\ settled[op.about] = "no"
       /\ ops[op].pc = "calling" => op.kind \in {"set", "cancel"}
       /\ ops[op].pc # "waiting" /\ op.kind = "login" => settled[op.about] \in Shown
  /\ \A l \in startupTimer : settled[l] = "no" /\ child[l] # "none"
  /\ \A l \in LoginIds : /\ child[l] = "none" => settled[l] = "no"
                         /\ child[l] = "loggedIn" => settled[l] \in Shown
  /\ \A l \in canceledDeviceCodeLogins : settled[l] \in Shown
  /\ loginState.phase = "pending" =>
       loginState.login \in LoginIds /\ settled[loginState.login] \in Shown

\* The invariant that LoginsAreHeld needs.
LoginInv == Types /\ LoginSteps /\ LoginsAreHeld

\* What RefreshIsDue says, with the child named that still has to exit: the one of the
\* login that codex has now.
TruthIsDue ==
  account # truth =>
    \/ ~connected \/ overtaken \/ truth \in unseen
    \/ \E op \in DOMAIN ops : ops[op].pc \in {"asked", "due"}
    \/ truth \in LoginIds /\ child[truth] = "loggedIn"

\* A child that the page cancelled exits without a refresh; if it has logged in, nobody
\* was told.
CanceledIsUnseen == \A l \in canceledDeviceCodeLogins : child[l] = "loggedIn" => l \in unseen

\* The page asks again only when the answer it ignores has come.
OnePoll == ~(Active(Op("poll", NoLogin)) /\ Active(Op("ignored", NoLogin)))

\* Calls fail when codex is down, and are settled before it is up again.
FailedIsDown == ~Quiet => ~connected

\* The invariant that AccountReachesPage needs, beside LoginInv.
AccountInv == TruthIsDue /\ CanceledIsUnseen /\ OnePoll /\ FailedIsDown /\ PageIsTold

-----------------------------------------------------------------------------
(* What the steps keep.  <action>Login: the invariant of logins, which needs no other. *)
(* <action>Account: that of the account, which needs both.                             *)

\* Ignoring the answer of a poll renames its operation, and loses none.
LEMMA IgnoreKeeps ==
  ASSUME NEW fs, ~(Op("poll", NoLogin) \in DOMAIN fs /\ Op("ignored", NoLogin) \in DOMAIN fs),
         \A o \in DOMAIN fs : o.kind = "ignored" => o = Op("ignored", NoLogin),
         NEW PCs, NEW op \in DOMAIN fs, fs[op].pc \in PCs
  PROVE  \E o \in DOMAIN Ignore(fs) : Ignore(fs)[o].pc \in PCs
<1>1. CASE Op("poll", NoLogin) \notin DOMAIN fs
  BY <1>1 DEF Ignore
<1>2. CASE Op("poll", NoLogin) \in DOMAIN fs
  <2>1. CASE op = Op("poll", NoLogin)
    <3>1. Op("ignored", NoLogin).kind = "ignored"
      BY DEF Op
    <3>2. Op("ignored", NoLogin) \in DOMAIN Ignore(fs)
      BY <1>2 DEF Ignore
    <3>3. Ignore(fs)[Op("ignored", NoLogin)] = fs[op]
      BY <1>2, <2>1, <3>1 DEF Ignore
    <3>. QED
      BY <3>2, <3>3
  <2>2. CASE op # Op("poll", NoLogin)
    <3>1. op \in DOMAIN Ignore(fs)
      BY <1>2, <2>2 DEF Ignore
    <3>2. op.kind # "ignored"
      BY <1>2
    <3>3. Ignore(fs)[op] = fs[op]
      BY <1>2, <2>2, <3>2 DEF Ignore
    <3>. QED
      BY <3>1, <3>3
  <2>. QED
    BY <2>1, <2>2
<1>. QED
  BY <1>1, <1>2

\* A step of the page alone that keeps refreshes going.
LEMMA TruthStaysDue ==
  ASSUME TruthIsDue, UNCHANGED <<truth, connected, account, child, overtaken, unseen>>,
         \A o \in DOMAIN ops : ops[o].pc \in {"asked", "due"} =>
           \E p \in DOMAIN ops' : ops'[p].pc \in {"asked", "due"}
  PROVE  TruthIsDue'
BY DEF TruthIsDue

LEMMA ReadLogin ==
  ASSUME LoginInv, NEW op \in DOMAIN ops, Read(op)
  PROVE  LoginInv'
<1>. USE DEF LoginInv, Types, Read, Active, At, codexVars, childVars, pageVars
<1>1. Types'
  BY AccountAssumption DEF Ops, Op, Emitting, Calls
<1>2. LoginSteps'
  BY AccountAssumption DEF LoginSteps, Ops, Op, Shown
<1>3. LoginsAreHeld'
  BY AccountAssumption DEF LoginSteps, LoginsAreHeld, NoForgottenChild, LoginIsDue, Ops, Op,
         Shown
<1>. QED
  BY <1>1, <1>2, <1>3

LEMMA ReadAccount ==
  ASSUME LoginInv, AccountInv, NEW op \in DOMAIN ops, Read(op)
  PROVE  AccountInv'
<1>. USE DEF Types, Read, Active, At, codexVars, childVars, pageVars
<1>1. TruthIsDue'
  BY AccountAssumption DEF AccountInv, LoginInv, LoginSteps, Ops, Shown, TruthIsDue,
         CanceledIsUnseen, OnePoll, Op
<1>2. CanceledIsUnseen' /\ OnePoll' /\ FailedIsDown'
  BY AccountAssumption DEF AccountInv, LoginInv, LoginSteps, Ops, Shown, CanceledIsUnseen,
         OnePoll, FailedIsDown, Quiet, Op
<1>3. PageIsTold'
  BY AccountAssumption DEF AccountInv, LoginInv, LoginSteps, PageIsTold, Ops, Op, Shown,
         OnePoll, FailedIsDown, Quiet
<1>. QED
  BY <1>1, <1>2, <1>3 DEF AccountInv

LEMMA SettleLogin ==
  ASSUME LoginInv, NEW op \in DOMAIN ops, Settle(op)
  PROVE  LoginInv'
<1>. USE DEF LoginInv, Types, Settle, Active, End, Continue, Op, Ask, Calls, At, Emits,
             Emitting, codexVars, childVars, Restrict
<1>1. Types'
  BY AccountAssumption DEF Ops
<1>2. LoginSteps'
  BY AccountAssumption DEF LoginSteps, Ops, Shown
<1>3. LoginsAreHeld'
  BY AccountAssumption DEF LoginSteps, LoginsAreHeld, NoForgottenChild, LoginIsDue, Ops,
         Shown
<1>. QED
  BY <1>1, <1>2, <1>3

LEMMA SettleAccount ==
  ASSUME LoginInv, AccountInv, NEW op \in DOMAIN ops, Settle(op)
  PROVE  AccountInv'
<1>. USE DEF Types, Settle, Active, End, Continue, Op, Ask, Calls, At, Emits, Emitting,
             codexVars, childVars, Restrict
<1>1. TruthIsDue'
  BY AccountAssumption DEF AccountInv, LoginInv, LoginSteps, Ops, Shown, TruthIsDue,
         CanceledIsUnseen, OnePoll
<1>2. CanceledIsUnseen' /\ OnePoll' /\ FailedIsDown'
  BY AccountAssumption DEF AccountInv, LoginInv, LoginSteps, Ops, Shown, CanceledIsUnseen,
         OnePoll, FailedIsDown, Quiet
<1>3. PageIsTold'
  <2>1. CASE Emits(op)
    BY <2>1 DEF PageIsTold
  <2>2. CASE ~Emits(op) /\ ops[op].pc = "failed"
    BY <2>2 DEF AccountInv, FailedIsDown, Quiet, PageIsTold
  <2>3. CASE op.kind = "boot" /\ ops[op].pc # "failed"
    <3>1. Op("bootstrap", NoLogin) \in DOMAIN ops'
      BY <2>3
    <3>2. Op("bootstrap", NoLogin).kind = "bootstrap"
      BY DEF Op
    <3>3. ops'[Op("bootstrap", NoLogin)].pc \in {"asked", "due", "half", "answering"}
      <4>1. CASE Active(Op("bootstrap", NoLogin)) /\ ops[Op("bootstrap", NoLogin)].pc # "due"
        <5>1. ops[Op("bootstrap", NoLogin)].pc \in {"asked", "half", "answering"}
          BY <2>3, <3>2, <4>1 DEF LoginInv, LoginSteps, Quiet
        <5>. QED
          BY <2>3, <4>1, <5>1
      <4>2. CASE ~Active(Op("bootstrap", NoLogin)) \/ ops[Op("bootstrap", NoLogin)].pc = "due"
        BY <2>3, <4>2
      <4>. QED
        BY <4>1, <4>2
    <3>. QED
      BY <3>1, <3>3 DEF PageIsTold
  <2>4. CASE ~Emits(op) /\ op.kind # "boot" /\ ops[op].pc # "failed"
    <3>1. op.kind \in Calls
      BY <2>4 DEF LoginInv, Ops
    <3>2. op \in DOMAIN ops' /\ ops'[op].pc = "answering"
      BY <2>4, <3>1
    <3>. QED
      BY <3>2 DEF PageIsTold
  <2>. QED
    BY <2>1, <2>2, <2>3, <2>4
<1>. QED
  BY <1>1, <1>2, <1>3 DEF AccountInv

LEMMA AnswerLogin ==
  ASSUME LoginInv, NEW op \in DOMAIN ops, Answer(op)
  PROVE  LoginInv'
<1>. USE DEF LoginInv, Types, Answer, Active, NextLoginState, NoState, End, Ignore, Op,
             codexVars, childVars, Restrict
<1>1. Types'
  BY AccountAssumption DEF Ops, Emitting, Calls
<1>2. LoginSteps'
  BY AccountAssumption DEF LoginSteps, Ops, Shown
<1>3. LoginsAreHeld'
  BY AccountAssumption DEF LoginSteps, LoginsAreHeld, NoForgottenChild, LoginIsDue, Ops,
         Shown
<1>. QED
  BY <1>1, <1>2, <1>3

LEMMA AnswerAccount ==
  ASSUME LoginInv, AccountInv, NEW op \in DOMAIN ops, Answer(op)
  PROVE  AccountInv'
<1>. USE DEF Types, Answer, Active, NextLoginState, NoState, End, Ignore, Op, codexVars,
             childVars, Restrict
<1>1. TruthIsDue'
  <2>. DEFINE ended == End(op)
  <2>1. /\ ops' = ended \/ ops' = Ignore(ended)
        /\ UNCHANGED <<account, truth, connected, overtaken, unseen, child>>
    OBVIOUS
  <2>2. ~(Op("poll", NoLogin) \in DOMAIN ended /\ Op("ignored", NoLogin) \in DOMAIN ended)
    BY DEF AccountInv, OnePoll, Active
  <2>3. \A o \in DOMAIN ended : o.kind = "ignored" => o = Op("ignored", NoLogin)
    BY DEF LoginInv
  <2>4. ASSUME NEW o \in DOMAIN ops, ops[o].pc \in {"asked", "due"}
        PROVE  \E p \in DOMAIN ops' : ops'[p].pc \in {"asked", "due"}
    <3>1. o \in DOMAIN ended /\ ended[o].pc \in {"asked", "due"}
      BY <2>4
    <3>. HIDE DEF Ignore, Op, ended
    <3>. QED
      BY <2>1, <2>2, <2>3, <3>1, IgnoreKeeps
  <2>. HIDE DEF Ignore, Op, ended
  <2>. QED
    BY <2>1, <2>4, TruthStaysDue DEF AccountInv
<1>2. CanceledIsUnseen' /\ OnePoll' /\ FailedIsDown'
  BY AccountAssumption DEF AccountInv, LoginInv, LoginSteps, Ops, Shown, CanceledIsUnseen,
         OnePoll, FailedIsDown, Quiet
<1>3. PageIsTold'
  BY AccountAssumption DEF AccountInv, LoginInv, LoginSteps, PageIsTold, Ops, Shown,
         OnePoll, FailedIsDown, Quiet
<1>. QED
  BY <1>1, <1>2, <1>3 DEF AccountInv

LEMMA ConnectLogin ==
  ASSUME LoginInv, Connect
  PROVE  LoginInv'
<1>. USE DEF LoginInv, Types, Connect, At, Op, childVars, pageVars
<1>1. Types'
  BY AccountAssumption DEF Ops, Emitting, Calls
<1>2. LoginSteps'
  BY AccountAssumption DEF LoginSteps, Ops, Shown
<1>3. LoginsAreHeld'
  BY AccountAssumption DEF LoginSteps, LoginsAreHeld, NoForgottenChild, LoginIsDue, Ops,
         Shown
<1>. QED
  BY <1>1, <1>2, <1>3

LEMMA ConnectAccount ==
  ASSUME LoginInv, AccountInv, Connect
  PROVE  AccountInv'
<1>. USE DEF Types, Connect, At, Op, childVars, pageVars
<1>1. TruthIsDue'
  BY AccountAssumption DEF AccountInv, LoginInv, LoginSteps, Ops, Shown, TruthIsDue,
         CanceledIsUnseen, OnePoll, Active
<1>2. CanceledIsUnseen' /\ OnePoll' /\ FailedIsDown'
  BY AccountAssumption DEF AccountInv, LoginInv, LoginSteps, Ops, Shown, CanceledIsUnseen,
         OnePoll, FailedIsDown, Quiet, Active
<1>3. PageIsTold'
  BY AccountAssumption DEF AccountInv, LoginInv, LoginSteps, PageIsTold, Ops, Active, Shown,
         OnePoll, FailedIsDown, Quiet
<1>. QED
  BY <1>1, <1>2, <1>3 DEF AccountInv

LEMMA CodexExitsLogin ==
  ASSUME LoginInv, CodexExits
  PROVE  LoginInv'
<1>. USE DEF LoginInv, Types, CodexExits, Rejected, Fail, childVars, pageVars
<1>1. Types'
  BY AccountAssumption DEF Ops, Op, Emitting, Calls
<1>2. LoginSteps'
  BY AccountAssumption DEF LoginSteps, Ops, Op, Shown
<1>3. LoginsAreHeld'
  BY AccountAssumption DEF LoginSteps, LoginsAreHeld, NoForgottenChild, LoginIsDue, Ops, Op,
         Shown
<1>. QED
  BY <1>1, <1>2, <1>3

LEMMA CodexExitsAccount ==
  ASSUME LoginInv, AccountInv, CodexExits
  PROVE  AccountInv'
<1>. USE DEF Types, CodexExits, Rejected, Fail, childVars, pageVars
<1>1. TruthIsDue'
  BY AccountAssumption DEF AccountInv, LoginInv, LoginSteps, Ops, Shown, TruthIsDue,
         CanceledIsUnseen, OnePoll, Active, Op
<1>2. CanceledIsUnseen' /\ OnePoll' /\ FailedIsDown'
  BY AccountAssumption DEF AccountInv, LoginInv, LoginSteps, Ops, Shown, CanceledIsUnseen,
         OnePoll, FailedIsDown, Quiet, Active, Op
<1>3. PageIsTold'
  BY AccountAssumption DEF AccountInv, LoginInv, LoginSteps, PageIsTold, Ops, Op, Active,
         Shown, OnePoll, FailedIsDown, Quiet
<1>. QED
  BY <1>1, <1>2, <1>3 DEF AccountInv

LEMMA NotifiedLogin ==
  ASSUME LoginInv, Notified
  PROVE  LoginInv'
<1>. USE DEF LoginInv, Types, Notified, MayCall, Active, Op, Begin, At, Ask, codexVars,
             childVars, pageVars
<1>1. Types'
  BY AccountAssumption DEF Ops, Emitting, Calls
<1>2. LoginSteps'
  BY AccountAssumption DEF LoginSteps, Ops, Shown
<1>3. LoginsAreHeld'
  BY AccountAssumption DEF LoginSteps, LoginsAreHeld, NoForgottenChild, LoginIsDue, Ops,
         Shown
<1>. QED
  BY <1>1, <1>2, <1>3

LEMMA NotifiedAccount ==
  ASSUME LoginInv, AccountInv, Notified
  PROVE  AccountInv'
<1>. USE DEF Types, Notified, MayCall, Active, Op, Begin, At, Ask, codexVars, childVars,
             pageVars
<1>1. TruthIsDue'
  BY AccountAssumption DEF AccountInv, LoginInv, LoginSteps, Ops, Shown, TruthIsDue,
         CanceledIsUnseen, OnePoll
<1>2. CanceledIsUnseen' /\ OnePoll' /\ FailedIsDown'
  BY AccountAssumption DEF AccountInv, LoginInv, LoginSteps, Ops, Shown, CanceledIsUnseen,
         OnePoll, FailedIsDown, Quiet
<1>3. PageIsTold'
  BY AccountAssumption DEF AccountInv, LoginInv, LoginSteps, PageIsTold, Ops, Shown,
         OnePoll, FailedIsDown, Quiet
<1>. QED
  BY <1>1, <1>2, <1>3 DEF AccountInv

LEMMA StopLogin ==
  ASSUME LoginInv, Stop
  PROVE  LoginInv'
<1>. USE DEF LoginInv, Types, Stop, Kill, pageVars
<1>1. Types'
  BY AccountAssumption DEF Ops, Op, Emitting, Calls
<1>2. LoginSteps'
  BY AccountAssumption DEF LoginSteps, Ops, Op, Shown
<1>3. LoginsAreHeld'
  BY AccountAssumption DEF LoginSteps, LoginsAreHeld, NoForgottenChild, LoginIsDue, Ops, Op,
         Shown
<1>. QED
  BY <1>1, <1>2, <1>3

LEMMA StopAccount ==
  ASSUME LoginInv, AccountInv, Stop
  PROVE  AccountInv'
<1>. USE DEF Types, Stop, Kill, pageVars
<1>1. TruthIsDue'
  BY AccountAssumption DEF AccountInv, LoginInv, LoginSteps, Ops, Shown, TruthIsDue,
         CanceledIsUnseen, OnePoll, Active, Op
<1>2. CanceledIsUnseen' /\ OnePoll' /\ FailedIsDown'
  BY AccountAssumption DEF AccountInv, LoginInv, LoginSteps, Ops, Shown, CanceledIsUnseen,
         OnePoll, FailedIsDown, Quiet, Active, Op
<1>3. PageIsTold'
  BY AccountAssumption DEF AccountInv, LoginInv, LoginSteps, PageIsTold, Ops, Op, Active,
         Shown, OnePoll, FailedIsDown, Quiet
<1>. QED
  BY <1>1, <1>2, <1>3 DEF AccountInv

LEMMA SetAccountLogin ==
  ASSUME LoginInv, NEW a \in Keys \cup {NoAccount}, SetAccount(a)
  PROVE  LoginInv'
<1>. USE DEF LoginInv, Types, SetAccount, MayCall, Active, Op, At, codexVars, childVars,
             pageVars
<1>1. Types'
  BY AccountAssumption DEF Ops, Emitting, Calls
<1>2. LoginSteps'
  BY AccountAssumption DEF LoginSteps, Ops, Shown
<1>3. LoginsAreHeld'
  BY AccountAssumption DEF LoginSteps, LoginsAreHeld, NoForgottenChild, LoginIsDue, Ops,
         Shown
<1>. QED
  BY <1>1, <1>2, <1>3

LEMMA SetAccountAccount ==
  ASSUME LoginInv, AccountInv, NEW a \in Keys \cup {NoAccount}, SetAccount(a)
  PROVE  AccountInv'
<1>. USE DEF Types, SetAccount, MayCall, Active, Op, At, codexVars, childVars, pageVars
<1>1. TruthIsDue'
  BY AccountAssumption DEF AccountInv, LoginInv, LoginSteps, Ops, Shown, TruthIsDue,
         CanceledIsUnseen, OnePoll
<1>2. CanceledIsUnseen' /\ OnePoll' /\ FailedIsDown'
  BY AccountAssumption DEF AccountInv, LoginInv, LoginSteps, Ops, Shown, CanceledIsUnseen,
         OnePoll, FailedIsDown, Quiet
<1>3. PageIsTold'
  BY AccountAssumption DEF AccountInv, LoginInv, LoginSteps, PageIsTold, Ops, Shown,
         OnePoll, FailedIsDown, Quiet
<1>. QED
  BY <1>1, <1>2, <1>3 DEF AccountInv

LEMMA CodexSetsLogin ==
  ASSUME LoginInv, NEW a \in Keys \cup {NoAccount}, CodexSets(a)
  PROVE  LoginInv'
<1>. USE DEF LoginInv, Types, CodexSets, Booting, Active, Op, Begin, At, Ask, childVars,
             pageVars
<1>1. Types'
  BY AccountAssumption DEF Ops, Emitting, Calls
<1>2. LoginSteps'
  BY AccountAssumption DEF LoginSteps, Ops, Shown
<1>3. LoginsAreHeld'
  BY AccountAssumption DEF LoginSteps, LoginsAreHeld, NoForgottenChild, LoginIsDue, Ops,
         Shown
<1>. QED
  BY <1>1, <1>2, <1>3

LEMMA CodexSetsAccount ==
  ASSUME LoginInv, AccountInv, NEW a \in Keys \cup {NoAccount}, CodexSets(a)
  PROVE  AccountInv'
<1>. USE DEF Types, CodexSets, Booting, Active, Op, Begin, At, Ask, childVars, pageVars
<1>1. TruthIsDue'
  BY AccountAssumption DEF AccountInv, LoginInv, LoginSteps, Ops, Shown, TruthIsDue,
         CanceledIsUnseen, OnePoll
<1>2. CanceledIsUnseen' /\ OnePoll' /\ FailedIsDown'
  BY AccountAssumption DEF AccountInv, LoginInv, LoginSteps, Ops, Shown, CanceledIsUnseen,
         OnePoll, FailedIsDown, Quiet
<1>3. PageIsTold'
  BY AccountAssumption DEF AccountInv, LoginInv, LoginSteps, PageIsTold, Ops, Shown,
         OnePoll, FailedIsDown, Quiet
<1>. QED
  BY <1>1, <1>2, <1>3 DEF AccountInv

LEMMA OutputLogin ==
  ASSUME LoginInv, NEW l \in LoginIds, NEW complete \in BOOLEAN, NEW expires \in BOOLEAN,
         Output(l, complete, expires)
  PROVE  LoginInv'
<1>. USE DEF LoginInv, Types, Output, Printing, Disarm, Begin, At, Ask, Op, codexVars,
             pageVars
<1>1. Types'
  <2>1. CASE complete
    <3>1. DOMAIN ops' \subseteq Ops /\ ops'[Op("login", l)].pc \in {"asked", "due"}
      BY <2>1 DEF Ops, Op, Emitting, Calls
    <3>2. \A o \in DOMAIN ops' : (o \in DOMAIN ops /\ ops'[o] = ops[o]) \/ o = Op("login", l)
      BY <2>1
    <3>3. settled' \in [LoginIds -> Shown \cup {"no", "rejected"}]
      BY <2>1 DEF Shown
    <3>4. Op("login", l).kind = "login" /\ Op("login", l).about = l
      BY DEF Op
    <3>. QED
      BY <2>1, <3>1, <3>2, <3>3, <3>4
  <2>2. CASE ~complete
    BY <2>2
  <2>. QED
    BY <2>1, <2>2
<1>2. LoginSteps'
  BY AccountAssumption DEF LoginSteps, Ops, Shown
<1>3. LoginsAreHeld'
  BY AccountAssumption DEF LoginSteps, LoginsAreHeld, NoForgottenChild, LoginIsDue, Ops,
         Shown
<1>. QED
  BY <1>1, <1>2, <1>3

LEMMA OutputAccount ==
  ASSUME LoginInv, AccountInv, NEW l \in LoginIds, NEW complete \in BOOLEAN, NEW expires \in
         BOOLEAN, Output(l, complete, expires)
  PROVE  AccountInv'
<1>. USE DEF Types, Output, Printing, Disarm, Begin, At, Ask, Op, codexVars, pageVars
<1>1. TruthIsDue'
  BY AccountAssumption DEF AccountInv, LoginInv, LoginSteps, Ops, Shown, TruthIsDue,
         CanceledIsUnseen, OnePoll, Active
<1>2. CanceledIsUnseen' /\ OnePoll' /\ FailedIsDown'
  BY AccountAssumption DEF AccountInv, LoginInv, LoginSteps, Ops, Shown, CanceledIsUnseen,
         OnePoll, FailedIsDown, Quiet, Active
<1>3. PageIsTold'
  BY AccountAssumption DEF AccountInv, LoginInv, LoginSteps, PageIsTold, Ops, Active, Shown,
         OnePoll, FailedIsDown, Quiet
<1>. QED
  BY <1>1, <1>2, <1>3 DEF AccountInv

LEMMA StartDeviceCodeLoginLogin ==
  ASSUME LoginInv, NEW l \in LoginIds, StartDeviceCodeLogin(l)
  PROVE  LoginInv'
<1>. USE DEF LoginInv, Types, StartDeviceCodeLogin, MayCall, Active, Op, At, codexVars,
             pageVars
<1>1. Types'
  BY AccountAssumption DEF Ops, Emitting, Calls
<1>2. LoginSteps'
  BY AccountAssumption DEF LoginSteps, Ops, Shown
<1>3. LoginsAreHeld'
  BY AccountAssumption DEF LoginSteps, LoginsAreHeld, NoForgottenChild, LoginIsDue, Ops,
         Shown
<1>. QED
  BY <1>1, <1>2, <1>3

LEMMA StartDeviceCodeLoginAccount ==
  ASSUME LoginInv, AccountInv, NEW l \in LoginIds, StartDeviceCodeLogin(l)
  PROVE  AccountInv'
<1>. USE DEF Types, StartDeviceCodeLogin, MayCall, Active, Op, At, codexVars, pageVars
<1>1. TruthIsDue'
  BY AccountAssumption DEF AccountInv, LoginInv, LoginSteps, Ops, Shown, TruthIsDue,
         CanceledIsUnseen, OnePoll
<1>2. CanceledIsUnseen' /\ OnePoll' /\ FailedIsDown'
  BY AccountAssumption DEF AccountInv, LoginInv, LoginSteps, Ops, Shown, CanceledIsUnseen,
         OnePoll, FailedIsDown, Quiet
<1>3. PageIsTold'
  BY AccountAssumption DEF AccountInv, LoginInv, LoginSteps, PageIsTold, Ops, Shown,
         OnePoll, FailedIsDown, Quiet
<1>. QED
  BY <1>1, <1>2, <1>3 DEF AccountInv

LEMMA StartupTimerFiresLogin ==
  ASSUME LoginInv, NEW l \in LoginIds, StartupTimerFires(l)
  PROVE  LoginInv'
<1>. USE DEF LoginInv, Types, StartupTimerFires, GiveUp, Kill, End, Op, codexVars, pageVars,
             Restrict
<1>1. Types'
  BY AccountAssumption DEF Ops, Emitting, Calls
<1>2. LoginSteps'
  <2>1. /\ l \in startupTimer /\ settled[l] = "no"
        /\ \A k \in LoginIds \ {l} : settled'[k] = settled[k] /\ child'[k] = child[k]
        /\ settled'[l] = "rejected" /\ child'[l] \notin {"none", "loggedIn"}
    BY DEF LoginInv, LoginSteps, Shown
  <2>2. \A o \in DOMAIN ops' : /\ o \in DOMAIN ops /\ ops'[o] = ops[o]
                               /\ o.kind = "login" => o.about \in LoginIds \ {l}
    <3>1. \A o \in DOMAIN ops' : o \in DOMAIN ops /\ ops'[o] = ops[o] /\ o # Op("login", l)
      OBVIOUS
    <3>2. \A o \in Ops : o.kind = "login" /\ o.about = l => o = Op("login", l)
      BY DEF Ops, Op
    <3>. QED
      BY <3>1, <3>2
  <2>3. \A o \in DOMAIN ops' :
          /\ ops'[o].pc = "waiting" => o.kind = "login" /\ settled'[o.about] = "no"
          /\ ops'[o].pc = "calling" => o.kind \in {"set", "cancel"}
          /\ ops'[o].pc # "waiting" /\ o.kind = "login" => settled'[o.about] \in Shown
    BY <2>1, <2>2 DEF LoginInv, LoginSteps
  <2>4. canceledDeviceCodeLogins' = canceledDeviceCodeLogins /\ loginState' = loginState
    OBVIOUS
  <2>5. \A k \in startupTimer' : settled'[k] = "no" /\ child'[k] # "none"
    BY <2>1 DEF LoginInv, LoginSteps
  <2>6. \A k \in LoginIds : /\ child'[k] = "none" => settled'[k] = "no"
                            /\ child'[k] = "loggedIn" => settled'[k] \in Shown
    BY <2>1 DEF LoginInv, LoginSteps
  <2>7. /\ \A k \in canceledDeviceCodeLogins' : settled'[k] \in Shown
        /\ loginState'.phase = "pending" =>
             loginState'.login \in LoginIds /\ settled'[loginState'.login] \in Shown
    BY <2>1, <2>4 DEF LoginInv, LoginSteps, Shown
  <2>. HIDE DEF StartupTimerFires, LoginInv, Types
  <2>. QED
    BY <2>3, <2>5, <2>6, <2>7 DEF LoginSteps, Shown
<1>3. LoginsAreHeld'
  BY AccountAssumption DEF LoginSteps, LoginsAreHeld, NoForgottenChild, LoginIsDue, Ops,
         Shown
<1>. QED
  BY <1>1, <1>2, <1>3

LEMMA StartupTimerFiresAccount ==
  ASSUME LoginInv, AccountInv, NEW l \in LoginIds, StartupTimerFires(l)
  PROVE  AccountInv'
<1>. USE DEF Types, StartupTimerFires, GiveUp, Kill, End, Op, codexVars, pageVars, Restrict
<1>1. TruthIsDue'
  BY AccountAssumption DEF AccountInv, LoginInv, LoginSteps, Ops, Shown, TruthIsDue,
         CanceledIsUnseen, OnePoll, Active
<1>2. CanceledIsUnseen' /\ OnePoll' /\ FailedIsDown'
  BY AccountAssumption DEF AccountInv, LoginInv, LoginSteps, Ops, Shown, CanceledIsUnseen,
         OnePoll, FailedIsDown, Quiet, Active
<1>3. PageIsTold'
  BY AccountAssumption DEF AccountInv, LoginInv, LoginSteps, PageIsTold, Ops, Active, Shown,
         OnePoll, FailedIsDown, Quiet
<1>. QED
  BY <1>1, <1>2, <1>3 DEF AccountInv

LEMMA ChildErrorLogin ==
  ASSUME LoginInv, NEW l \in LoginIds, ChildError(l)
  PROVE  LoginInv'
<1>. USE DEF LoginInv, Types, ChildError, End, Op, codexVars, pageVars, Restrict
<1>1. Types'
  BY AccountAssumption DEF Ops, Emitting, Calls
<1>2. LoginSteps'
  BY AccountAssumption DEF LoginSteps, Ops, Shown
<1>3. LoginsAreHeld'
  BY AccountAssumption DEF LoginSteps, LoginsAreHeld, NoForgottenChild, LoginIsDue, Ops,
         Shown
<1>. QED
  BY <1>1, <1>2, <1>3

LEMMA ChildErrorAccount ==
  ASSUME LoginInv, AccountInv, NEW l \in LoginIds, ChildError(l)
  PROVE  AccountInv'
<1>. USE DEF Types, ChildError, End, Op, codexVars, pageVars, Restrict
<1>1. TruthIsDue'
  BY AccountAssumption DEF AccountInv, LoginInv, LoginSteps, Ops, Shown, TruthIsDue,
         CanceledIsUnseen, OnePoll, Active
<1>2. CanceledIsUnseen' /\ OnePoll' /\ FailedIsDown'
  BY AccountAssumption DEF AccountInv, LoginInv, LoginSteps, Ops, Shown, CanceledIsUnseen,
         OnePoll, FailedIsDown, Quiet, Active
<1>3. PageIsTold'
  BY AccountAssumption DEF AccountInv, LoginInv, LoginSteps, PageIsTold, Ops, Active, Shown,
         OnePoll, FailedIsDown, Quiet
<1>. QED
  BY <1>1, <1>2, <1>3 DEF AccountInv

LEMMA ChildLogsInLogin ==
  ASSUME LoginInv, NEW l \in LoginIds, ChildLogsIn(l)
  PROVE  LoginInv'
<1>. USE DEF LoginInv, Types, ChildLogsIn, Active, Op, pageVars
<1>1. Types'
  BY AccountAssumption DEF Ops, Emitting, Calls
<1>2. LoginSteps'
  BY AccountAssumption DEF LoginSteps, Ops, Shown
<1>3. LoginsAreHeld'
  BY AccountAssumption DEF LoginSteps, LoginsAreHeld, NoForgottenChild, LoginIsDue, Ops,
         Shown
<1>. QED
  BY <1>1, <1>2, <1>3

LEMMA ChildLogsInAccount ==
  ASSUME LoginInv, AccountInv, NEW l \in LoginIds, ChildLogsIn(l)
  PROVE  AccountInv'
<1>. USE DEF Types, ChildLogsIn, Active, Op, pageVars
<1>1. TruthIsDue'
  BY AccountAssumption DEF AccountInv, LoginInv, LoginSteps, Ops, Shown, TruthIsDue,
         CanceledIsUnseen, OnePoll
<1>2. CanceledIsUnseen' /\ OnePoll' /\ FailedIsDown'
  BY AccountAssumption DEF AccountInv, LoginInv, LoginSteps, Ops, Shown, CanceledIsUnseen,
         OnePoll, FailedIsDown, Quiet
<1>3. PageIsTold'
  BY AccountAssumption DEF AccountInv, LoginInv, LoginSteps, PageIsTold, Ops, Shown,
         OnePoll, FailedIsDown, Quiet
<1>. QED
  BY <1>1, <1>2, <1>3 DEF AccountInv

LEMMA ChildExitsLogin ==
  ASSUME LoginInv, NEW l \in LoginIds, ChildExits(l)
  PROVE  LoginInv'
<1>. USE DEF LoginInv, Types, ChildExits, HandleDeviceCodeLoginExit, End, Op, Begin, At,
             Ask, codexVars, pageVars, Restrict
<1>1. Types'
  BY AccountAssumption DEF Ops, Emitting, Calls
<1>2. LoginSteps'
  BY AccountAssumption DEF LoginSteps, Ops, Shown
<1>3. LoginsAreHeld'
  BY AccountAssumption DEF LoginSteps, LoginsAreHeld, NoForgottenChild, LoginIsDue, Ops,
         Shown
<1>. QED
  BY <1>1, <1>2, <1>3

LEMMA ChildExitsAccount ==
  ASSUME LoginInv, AccountInv, NEW l \in LoginIds, ChildExits(l)
  PROVE  AccountInv'
<1>. USE DEF Types, ChildExits, HandleDeviceCodeLoginExit, End, Op, Begin, At, Ask,
             codexVars, pageVars, Restrict
<1>1. TruthIsDue'
  <2>1. CASE truth = l /\ child[l] = "loggedIn"
    <3>1. CASE l \in canceledDeviceCodeLogins
      BY <2>1, <3>1 DEF AccountInv, CanceledIsUnseen, TruthIsDue
    <3>2. CASE l \notin canceledDeviceCodeLogins
      <4>1. settled[l] # "no"
        BY <2>1 DEF LoginInv, LoginSteps, Shown
      <4>2. Op("exit", l) \in DOMAIN ops' /\ ops'[Op("exit", l)].pc \in {"asked", "due"}
        BY <3>2, <4>1
      <4>. QED
        BY <4>2 DEF TruthIsDue
    <3>. QED
      BY <3>1, <3>2
  <2>2. CASE ~(truth = l /\ child[l] = "loggedIn")
    <3>1. \A o \in DOMAIN ops : ops[o].pc \in {"asked", "due"} =>
            \E p \in DOMAIN ops' : ops'[p].pc \in {"asked", "due"}
      <4>1. CASE l \in canceledDeviceCodeLogins
        BY <4>1
      <4>2. CASE l \notin canceledDeviceCodeLogins /\ settled[l] = "no"
        BY <4>2 DEF LoginInv, LoginSteps, Shown, Op
      <4>3. CASE l \notin canceledDeviceCodeLogins /\ settled[l] # "no"
        BY <4>3
      <4>. QED
        BY <4>1, <4>2, <4>3
    <3>2. truth \in LoginIds /\ child[truth] = "loggedIn" => child'[truth] = "loggedIn"
      BY <2>2
    <3>. QED
      BY <3>1, <3>2 DEF AccountInv, TruthIsDue
  <2>. QED
    BY <2>1, <2>2
<1>2. CanceledIsUnseen' /\ OnePoll' /\ FailedIsDown'
  BY AccountAssumption DEF AccountInv, LoginInv, LoginSteps, Ops, Shown, CanceledIsUnseen,
         OnePoll, FailedIsDown, Quiet, Active
<1>3. PageIsTold'
  BY AccountAssumption DEF AccountInv, LoginInv, LoginSteps, PageIsTold, Ops, Active, Shown,
         OnePoll, FailedIsDown, Quiet
<1>. QED
  BY <1>1, <1>2, <1>3 DEF AccountInv

LEMMA CancelLogin ==
  ASSUME LoginInv, Cancel
  PROVE  LoginInv'
<1>. USE DEF LoginInv, Types, Cancel, Op, MayCall, Active, Kill, Begin, At, Ask, codexVars,
             pageVars
<1>1. Types'
  BY AccountAssumption DEF Ops, Emitting, Calls
<1>2. LoginSteps'
  BY AccountAssumption DEF LoginSteps, Ops, Shown
<1>3. LoginsAreHeld'
  BY AccountAssumption DEF LoginSteps, LoginsAreHeld, NoForgottenChild, LoginIsDue, Ops,
         Shown
<1>. QED
  BY <1>1, <1>2, <1>3

LEMMA CancelAccount ==
  ASSUME LoginInv, AccountInv, Cancel
  PROVE  AccountInv'
<1>. USE DEF Types, Cancel, Op, MayCall, Active, Kill, Begin, At, Ask, codexVars, pageVars
<1>1. TruthIsDue'
  BY AccountAssumption DEF AccountInv, LoginInv, LoginSteps, Ops, Shown, TruthIsDue,
         CanceledIsUnseen, OnePoll
<1>2. CanceledIsUnseen' /\ OnePoll' /\ FailedIsDown'
  BY AccountAssumption DEF AccountInv, LoginInv, LoginSteps, Ops, Shown, CanceledIsUnseen,
         OnePoll, FailedIsDown, Quiet
<1>3. PageIsTold'
  BY AccountAssumption DEF AccountInv, LoginInv, LoginSteps, PageIsTold, Ops, Shown,
         OnePoll, FailedIsDown, Quiet
<1>. QED
  BY <1>1, <1>2, <1>3 DEF AccountInv

LEMMA CodexCancelsLogin ==
  ASSUME LoginInv, CodexCancels
  PROVE  LoginInv'
<1>. USE DEF LoginInv, Types, CodexCancels, Op, Booting, Active, Begin, At, Ask, codexVars,
             childVars, pageVars
<1>1. Types'
  BY AccountAssumption DEF Ops, Emitting, Calls
<1>2. LoginSteps'
  BY AccountAssumption DEF LoginSteps, Ops, Shown
<1>3. LoginsAreHeld'
  BY AccountAssumption DEF LoginSteps, LoginsAreHeld, NoForgottenChild, LoginIsDue, Ops,
         Shown
<1>. QED
  BY <1>1, <1>2, <1>3

LEMMA CodexCancelsAccount ==
  ASSUME LoginInv, AccountInv, CodexCancels
  PROVE  AccountInv'
<1>. USE DEF Types, CodexCancels, Op, Booting, Active, Begin, At, Ask, codexVars, childVars,
             pageVars
<1>1. TruthIsDue'
  BY AccountAssumption DEF AccountInv, LoginInv, LoginSteps, Ops, Shown, TruthIsDue,
         CanceledIsUnseen, OnePoll
<1>2. CanceledIsUnseen' /\ OnePoll' /\ FailedIsDown'
  BY AccountAssumption DEF AccountInv, LoginInv, LoginSteps, Ops, Shown, CanceledIsUnseen,
         OnePoll, FailedIsDown, Quiet
<1>3. PageIsTold'
  BY AccountAssumption DEF AccountInv, LoginInv, LoginSteps, PageIsTold, Ops, Shown,
         OnePoll, FailedIsDown, Quiet
<1>. QED
  BY <1>1, <1>2, <1>3 DEF AccountInv

LEMMA PollLogin ==
  ASSUME LoginInv, Poll
  PROVE  LoginInv'
<1>. USE DEF LoginInv, Types, Poll, MayCall, Active, Op, Begin, At, Ask, codexVars,
             childVars, pageVars
<1>1. Types'
  BY AccountAssumption DEF Ops, Emitting, Calls
<1>2. LoginSteps'
  BY AccountAssumption DEF LoginSteps, Ops, Shown
<1>3. LoginsAreHeld'
  BY AccountAssumption DEF LoginSteps, LoginsAreHeld, NoForgottenChild, LoginIsDue, Ops,
         Shown
<1>. QED
  BY <1>1, <1>2, <1>3

LEMMA PollAccount ==
  ASSUME LoginInv, AccountInv, Poll
  PROVE  AccountInv'
<1>. USE DEF Types, Poll, MayCall, Active, Op, Begin, At, Ask, codexVars, childVars,
             pageVars
<1>1. TruthIsDue'
  BY AccountAssumption DEF AccountInv, LoginInv, LoginSteps, Ops, Shown, TruthIsDue,
         CanceledIsUnseen, OnePoll
<1>2. CanceledIsUnseen' /\ OnePoll' /\ FailedIsDown'
  BY AccountAssumption DEF AccountInv, LoginInv, LoginSteps, Ops, Shown, CanceledIsUnseen,
         OnePoll, FailedIsDown, Quiet
<1>3. PageIsTold'
  BY AccountAssumption DEF AccountInv, LoginInv, LoginSteps, PageIsTold, Ops, Shown,
         OnePoll, FailedIsDown, Quiet
<1>. QED
  BY <1>1, <1>2, <1>3 DEF AccountInv

LEMMA ExpireLogin ==
  ASSUME LoginInv, Expire
  PROVE  LoginInv'
<1>. USE DEF LoginInv, Types, Expire, Ignore, Op, codexVars, childVars
<1>1. Types'
  BY AccountAssumption DEF Ops, Emitting, Calls
<1>2. LoginSteps'
  BY AccountAssumption DEF LoginSteps, Ops, Shown
<1>3. LoginsAreHeld'
  BY AccountAssumption DEF LoginSteps, LoginsAreHeld, NoForgottenChild, LoginIsDue, Ops,
         Shown
<1>. QED
  BY <1>1, <1>2, <1>3

LEMMA ExpireAccount ==
  ASSUME LoginInv, AccountInv, Expire
  PROVE  AccountInv'
<1>. USE DEF Types, Expire, Ignore, Op, codexVars, childVars
<1>1. TruthIsDue'
  <2>1. ops' = Ignore(ops) /\ UNCHANGED <<account, truth, connected, overtaken, unseen, child>>
    OBVIOUS
  <2>2. ~(Op("poll", NoLogin) \in DOMAIN ops /\ Op("ignored", NoLogin) \in DOMAIN ops)
    BY DEF AccountInv, OnePoll, Active
  <2>3. \A o \in DOMAIN ops : o.kind = "ignored" => o = Op("ignored", NoLogin)
    BY DEF LoginInv
  <2>4. ASSUME NEW o \in DOMAIN ops, ops[o].pc \in {"asked", "due"}
        PROVE  \E p \in DOMAIN ops' : ops'[p].pc \in {"asked", "due"}
    <3>. HIDE DEF Ignore, Op
    <3>. QED
      BY <2>1, <2>2, <2>3, <2>4, IgnoreKeeps
  <2>. HIDE DEF Ignore, Op
  <2>. QED
    BY <2>1, <2>4, TruthStaysDue DEF AccountInv
<1>2. CanceledIsUnseen' /\ OnePoll' /\ FailedIsDown'
  BY AccountAssumption DEF AccountInv, LoginInv, LoginSteps, Ops, Shown, CanceledIsUnseen,
         OnePoll, FailedIsDown, Quiet, Active
<1>3. PageIsTold'
  <2>1. ops' = Ignore(ops) /\ UNCHANGED <<pageAccount, account, connected, pageOvertaken>>
    OBVIOUS
  <2>2. ~(Op("poll", NoLogin) \in DOMAIN ops /\ Op("ignored", NoLogin) \in DOMAIN ops)
    BY DEF AccountInv, OnePoll, Active
  <2>3. \A o \in DOMAIN ops : o.kind = "ignored" => o = Op("ignored", NoLogin)
    BY DEF LoginInv
  <2>4. ASSUME NEW o \in DOMAIN ops, ops[o].pc \in {"asked", "due", "half", "answering"}
        PROVE  \E p \in DOMAIN ops' : ops'[p].pc \in {"asked", "due", "half", "answering"}
    <3>. HIDE DEF Ignore, Op
    <3>. QED
      BY <2>1, <2>2, <2>3, <2>4, IgnoreKeeps
  <2>. HIDE DEF Ignore, Op
  <2>. QED
    BY <2>1, <2>4 DEF AccountInv, PageIsTold
<1>. QED
  BY <1>1, <1>2, <1>3 DEF AccountInv

-----------------------------------------------------------------------------
(* The theorems. *)

LEMMA InitLogin == Init => LoginInv
BY AccountAssumption DEF Init, LoginInv, Types, LoginSteps, LoginsAreHeld, NoForgottenChild,
   LoginIsDue, NoState

LEMMA InitAccount == Init => AccountInv
BY DEF Init, AccountInv, TruthIsDue, CanceledIsUnseen, OnePoll, FailedIsDown, PageIsTold, Active,
   Quiet

LEMMA StepLogin == LoginInv /\ [Next]_vars => LoginInv'
<1>. SUFFICES ASSUME LoginInv, [Next]_vars PROVE LoginInv'
  OBVIOUS
<1>1. ASSUME NEW op \in DOMAIN ops, Read(op) \/ Settle(op) \/ Answer(op) PROVE LoginInv'
  BY <1>1, ReadLogin, SettleLogin, AnswerLogin
<1>2. CASE Connect \/ CodexExits \/ Notified \/ Stop
  BY <1>2, ConnectLogin, CodexExitsLogin, NotifiedLogin, StopLogin
<1>3. ASSUME NEW a \in Keys \cup {NoAccount}, SetAccount(a) \/ CodexSets(a) PROVE LoginInv'
  BY <1>3, SetAccountLogin, CodexSetsLogin
<1>4. ASSUME NEW l \in LoginIds, NEW complete \in BOOLEAN, NEW expires \in BOOLEAN,
             Output(l, complete, expires)
      PROVE  LoginInv'
  BY <1>4, OutputLogin
<1>5. ASSUME NEW l \in LoginIds,
             \/ StartDeviceCodeLogin(l) \/ StartupTimerFires(l) \/ ChildError(l)
             \/ ChildLogsIn(l) \/ ChildExits(l)
      PROVE  LoginInv'
  BY <1>5, StartDeviceCodeLoginLogin, StartupTimerFiresLogin, ChildErrorLogin,
     ChildLogsInLogin, ChildExitsLogin
<1>6. CASE Cancel \/ CodexCancels \/ Poll \/ Expire
  BY <1>6, CancelLogin, CodexCancelsLogin, PollLogin, ExpireLogin
<1>7. CASE UNCHANGED vars
  BY <1>7 DEF LoginInv, Types, LoginSteps, LoginsAreHeld, NoForgottenChild, LoginIsDue, vars,
              codexVars, childVars, pageVars
<1>. QED
  BY <1>1, <1>2, <1>3, <1>4, <1>5, <1>6, <1>7 DEF Next

LEMMA StepAccount == LoginInv /\ AccountInv /\ [Next]_vars => AccountInv'
<1>. SUFFICES ASSUME LoginInv, AccountInv, [Next]_vars PROVE AccountInv'
  OBVIOUS
<1>1. ASSUME NEW op \in DOMAIN ops, Read(op) \/ Settle(op) \/ Answer(op) PROVE AccountInv'
  BY <1>1, ReadAccount, SettleAccount, AnswerAccount
<1>2. CASE Connect \/ CodexExits \/ Notified \/ Stop
  BY <1>2, ConnectAccount, CodexExitsAccount, NotifiedAccount, StopAccount
<1>3. ASSUME NEW a \in Keys \cup {NoAccount}, SetAccount(a) \/ CodexSets(a) PROVE AccountInv'
  BY <1>3, SetAccountAccount, CodexSetsAccount
<1>4. ASSUME NEW l \in LoginIds, NEW complete \in BOOLEAN, NEW expires \in BOOLEAN,
             Output(l, complete, expires)
      PROVE  AccountInv'
  BY <1>4, OutputAccount
<1>5. ASSUME NEW l \in LoginIds,
             \/ StartDeviceCodeLogin(l) \/ StartupTimerFires(l) \/ ChildError(l)
             \/ ChildLogsIn(l) \/ ChildExits(l)
      PROVE  AccountInv'
  BY <1>5, StartDeviceCodeLoginAccount, StartupTimerFiresAccount, ChildErrorAccount,
     ChildLogsInAccount, ChildExitsAccount
<1>6. CASE Cancel \/ CodexCancels \/ Poll \/ Expire
  BY <1>6, CancelAccount, CodexCancelsAccount, PollAccount, ExpireAccount
<1>7. CASE UNCHANGED vars
  BY <1>7 DEF LoginInv, Types, LoginSteps, LoginsAreHeld, NoForgottenChild, LoginIsDue, vars,
              codexVars, childVars, pageVars, AccountInv, TruthIsDue, CanceledIsUnseen, OnePoll,
              FailedIsDown, PageIsTold, Active, Quiet
<1>. QED
  BY <1>1, <1>2, <1>3, <1>4, <1>5, <1>6, <1>7 DEF Next

LEMMA Invariants == Spec => [](LoginInv /\ AccountInv)
BY InitLogin, InitAccount, StepLogin, StepAccount, PTL DEF Spec

\* A child `codex login' that nobody has told to end is among those that the page or
\* stop() can end, and a page that waits for a login to start has a timer that answers.
THEOREM LoginsAreAlwaysHeld == Spec => []LoginsAreHeld
<1>1. LoginInv => LoginsAreHeld
  BY DEF LoginInv
<1>. QED
  BY <1>1, Invariants, PTL

\* Every change of the login is read again, and every change of the cached account is told
\* to the page, unless codex is down or an older answer was applied last.
THEOREM AccountIsAlwaysDue == Spec => []AccountReachesPage
<1>1. LoginInv /\ AccountInv => AccountReachesPage
  BY DEF AccountInv, TruthIsDue, AccountReachesPage, RefreshIsDue, PageIsTold
<1>. QED
  BY <1>1, Invariants, PTL

-----------------------------------------------------------------------------
(* Decisions. *)

Known == DOMAIN asked
Asks == [id : Ids, kind : Kinds, rich : BOOLEAN, run : Nat]

\* Of two requests with one id the later was made in a later run.
RequestsAre ==
  /\ asked \in Seq(Asks) /\ run \in Nat \ {0}
  /\ \A r \in Known : 1 <= asked[r].run /\ asked[r].run <= run
  /\ \A q, r \in Known : q < r /\ Answers!SameId(q, r) => asked[q].run < asked[r].run

\* The two tables have a request under its id.
Tabled(table) == \A id \in DOMAIN table : table[id] \in Known /\ asked[table[id]].id = id
TablesAre == Tabled(pendingServerRequests) /\ Tabled(pendingById)

MessagesAre ==
  /\ inbox \in Seq([kind : {"requested", "resolved"}, request : Nat])
  /\ \A i \in DOMAIN inbox : inbox[i].request \in Known

\* A form holds what the user typed or what its request offered.
Filling(r) == {Answers!Empty, Answers!Typed, r}
CardsAre ==
  /\ cards \subseteq Known /\ DOMAIN form = cards
  /\ \A r \in cards : form[r] \in [DOMAIN form[r] -> Filling(r)]

\* A resolution of the card of r says what the button said.
Means(r, button, resolution) ==
  /\ resolution.decision \in Answers!Protocol(asked[r].kind)
  /\ Answers!Grants(resolution) => button \notin {"decline", "cancel"}
  /\ resolution.content \subseteq {Answers!Typed, r}

OutboxIs == \A op \in outbox : op.card \in Known /\ Means(op.card, op.button, op.resolution)

RepliesAre ==
  \A reply \in replies :
    /\ reply.to \in Known /\ reply.card \in Known
    /\ Means(reply.card, reply.button, reply.resolution)
    /\ asked[reply.to].kind = asked[reply.card].kind
    /\ reply.card # reply.to =>
         Answers!SameId(reply.card, reply.to) /\ asked[reply.card].run < asked[reply.to].run

DecisionInv ==
  /\ RequestsAre /\ TablesAre /\ MessagesAre /\ CardsAre /\ OutboxIs /\ RepliesAre
  /\ Answers!NoneIsForgotten

LEMMA DropIs ==
  ASSUME NEW f, NEW x
  PROVE  /\ DOMAIN Answers!Drop(f, x) = DOMAIN f \ {x}
         /\ \A y \in DOMAIN f \ {x} : Answers!Drop(f, x)[y] = f[y]
BY DEF Answers!Drop, Answers!Restrict

LEMMA DropKeepsTable ==
  ASSUME NEW table, NEW id, Tabled(table)
  PROVE  Tabled(Answers!Drop(table, id))
<1>1. ASSUME NEW y \in DOMAIN Answers!Drop(table, id)
      PROVE  y \in DOMAIN table /\ Answers!Drop(table, id)[y] = table[y]
  BY <1>1, DropIs
<1>. QED
  BY <1>1 DEF Tabled

LEMMA KnownAre ==
  ASSUME RequestsAre, NEW r \in Known
  PROVE  /\ r \in Nat \ {0} /\ r <= Len(asked) /\ Known = 1..Len(asked) /\ Len(asked) \in Nat
         /\ asked[r] \in Asks /\ asked[r].kind \in Kinds /\ asked[r].run \in Nat
         /\ asked[r].kind \in Answers!AllKinds
<1>1. asked \in Seq(Asks)
  BY DEF RequestsAre
<1>2. r \in Nat \ {0} /\ r <= Len(asked) /\ Known = 1..Len(asked) /\ asked[r] \in Asks /\ Len(asked) \in Nat
  BY <1>1 DEF Known
<1>. QED
  BY <1>2, ControlsAssumption DEF Asks

\* Two requests with one id that are not the same were made in different runs.
LEMMA RunsDiffer ==
  ASSUME RequestsAre, NEW q \in Known, NEW r \in Known, q # r, asked[q].id = asked[r].id
  PROVE  asked[q].run < asked[r].run \/ asked[r].run < asked[q].run
<1>1. q < r \/ r < q
  BY KnownAre
<1>. QED
  BY <1>1 DEF RequestsAre, Answers!SameId

\* What the buttons of a card make of a form.
LEMMA ResolutionMeans ==
  ASSUME NEW r, NEW button, NEW f, asked[r].kind \in Answers!AllKinds,
         \A x \in DOMAIN f : f[x] \in Filling(r),
         asked[r].kind \in Answers!Approval \cup {"mcpServerElicitation"} =>
           button \in Answers!Protocol(asked[r].kind),
         asked[r].kind = "chatgptAuthTokensRefresh" => button = "accept"
  PROVE  Means(r, button, Answers!Resolution(r, button, f))
<1>. DEFINE R == Answers!Resolution(r, button, f)
            yes == button # "decline" /\ button # "cancel"
            k == asked[r].kind
<1>1. R.content = IF ~yes THEN {} ELSE IF k = "permissionsApproval" THEN {r} ELSE Answers!Filled(f)
  BY DEF Answers!Resolution
<1>2. R.content \subseteq {Answers!Typed, r}
  BY <1>1 DEF Answers!Filled, Answers!Given, Filling
<1>3. ~yes => R.content = {}
  BY <1>1
<1>4. CASE k \in Answers!Approval \cup {"mcpServerElicitation"}
  <2>1. R.decision = button
    BY <1>4 DEF Answers!Resolution, Answers!Approval, Answers!Review
  <2>. QED
    BY <1>2, <1>3, <1>4, <2>1 DEF Means, Answers!Grants
<1>5. CASE k \in Answers!Review
  <2>1. R.decision = IF yes THEN "approved" ELSE "denied"
    BY <1>5 DEF Answers!Resolution, Answers!Approval, Answers!Review
  <2>2. R.decision \in Answers!Protocol(k)
    BY <1>5, <2>1 DEF Answers!Protocol, Answers!Review
  <2>. QED
    BY <1>2, <1>3, <2>1, <2>2 DEF Means, Answers!Grants
<1>6. CASE k = "requestUserInput"
  <2>1. R.decision = "answers" /\ R.decision \in Answers!Protocol(k)
    BY <1>6 DEF Answers!Resolution, Answers!Protocol, Answers!Approval, Answers!Review
  <2>. QED
    BY <1>2, <1>3, <2>1 DEF Means, Answers!Grants
<1>7. CASE k = "permissionsApproval"
  <2>1. R.decision = "permissions" /\ R.decision \in Answers!Protocol(k)
    BY <1>7 DEF Answers!Resolution, Answers!Protocol, Answers!Approval, Answers!Review
  <2>. QED
    BY <1>2, <1>3, <2>1 DEF Means, Answers!Grants
<1>8. CASE k = "dynamicToolCall"
  <2>1. R.decision = (IF yes THEN "success" ELSE "failure") /\ R.decision \in Answers!Protocol(k)
    BY <1>8 DEF Answers!Resolution, Answers!Protocol, Answers!Approval, Answers!Review
  <2>. QED
    BY <1>2, <1>3, <2>1 DEF Means, Answers!Grants
<1>9. CASE k = "chatgptAuthTokensRefresh"
  <2>1. R.decision = "tokens" /\ R.decision \in Answers!Protocol(k)
    BY <1>9 DEF Answers!Resolution, Answers!Protocol, Answers!Approval, Answers!Review
  <2>. QED
    BY <1>2, <1>9, <2>1 DEF Means, Answers!Grants
<1>. QED
  BY <1>4, <1>5, <1>6, <1>7, <1>8, <1>9 DEF Answers!AllKinds

\* A form that appears holds what its request offers.
LEMMA InitialFormIs ==
  ASSUME NEW r
  PROVE  /\ Answers!InitialForm(r) \in [DOMAIN Answers!InitialForm(r) -> Filling(r)]
         /\ \A x \in DOMAIN Answers!InitialForm(r) : Answers!InitialForm(r)[x] \in Filling(r)
<1>. DEFINE f == Answers!InitialForm(r)
            offer == IF asked[r].rich THEN r ELSE Answers!Empty
<1>0. offer \in Filling(r) /\ Answers!Empty \in Filling(r) /\ r \in Filling(r)
  BY DEF Filling
<1>1. CASE asked[r].kind = "requestUserInput"
  <2>1. f = [selected |-> offer, other |-> Answers!Empty]
    BY <1>1 DEF Answers!InitialForm
  <2>. QED
    BY <1>0, <2>1
<1>2. CASE asked[r].kind = "mcpServerElicitation" /\ asked[r].rich
  <2>1. f = [field |-> r, choice |-> Answers!Empty]
    BY <1>2 DEF Answers!InitialForm
  <2>. QED
    BY <1>0, <2>1
<1>3. CASE asked[r].kind = "dynamicToolCall"
  <2>1. f = [response |-> Answers!Empty]
    BY <1>3 DEF Answers!InitialForm
  <2>. QED
    BY <1>0, <2>1
<1>4. CASE asked[r].kind = "chatgptAuthTokensRefresh"
  <2>1. f = [accessToken |-> Answers!Empty, account |-> offer, plan |-> Answers!Empty]
    BY <1>4 DEF Answers!InitialForm
  <2>. QED
    BY <1>0, <2>1
<1>5. CASE /\ asked[r].kind \notin {"requestUserInput", "dynamicToolCall", "chatgptAuthTokensRefresh"}
           /\ ~(asked[r].kind = "mcpServerElicitation" /\ asked[r].rich)
  <2>1. f = <<>>
    BY <1>5 DEF Answers!InitialForm
  <2>. QED
    BY <2>1
<1>. QED
  BY <1>1, <1>2, <1>3, <1>4, <1>5

-----------------------------------------------------------------------------

\* What stays when no request is made: the facts about requests are as they were.
LEMMA AskedKeeps ==
  ASSUME RequestsAre, UNCHANGED <<asked, run>>
  PROVE  RequestsAre' /\ Known' = Known
BY DEF RequestsAre, Known, Asks, Answers!SameId

LEMMA OutboxKeeps ==
  ASSUME OutboxIs, UNCHANGED asked, outbox' \subseteq outbox
  PROVE  OutboxIs'
BY DEF OutboxIs, Means, Known

LEMMA RepliesKeep ==
  ASSUME RepliesAre, UNCHANGED <<asked, replies>>
  PROVE  RepliesAre'
BY DEF RepliesAre, Means, Known, Answers!SameId

LEMMA CardsKeep ==
  ASSUME CardsAre, UNCHANGED <<asked, cards, form>>
  PROVE  CardsAre'
BY DEF CardsAre, Known, Filling

LEMMA MessageKeeps ==
  ASSUME MessagesAre, Known \subseteq Known', NEW kind \in {"requested", "resolved"}, NEW r \in Nat,
         r \in Known', inbox' = Append(inbox, [kind |-> kind, request |-> r]) \/ inbox' = inbox
  PROVE  MessagesAre'
<1>. DEFINE M == [kind : {"requested", "resolved"}, request : Nat]
            m == [kind |-> kind, request |-> r]
<1>1. /\ inbox \in Seq(M) /\ (\A i \in DOMAIN inbox : inbox[i].request \in Known)
      /\ m \in M /\ m.request = r
  BY DEF MessagesAre
<1>2. inbox' \in Seq(M) /\ \A i \in DOMAIN inbox' : inbox'[i].request \in Known'
  <2>. HIDE DEF M
  <2>1. CASE inbox' = inbox
    BY <2>1, <1>1
  <2>2. CASE inbox' = Append(inbox, m)
    <3>. HIDE DEF m
    <3>1. /\ inbox' \in Seq(M) /\ Len(inbox) \in Nat /\ DOMAIN inbox = 1..Len(inbox)
          /\ DOMAIN inbox' = 1..(Len(inbox) + 1)
          /\ \A i \in DOMAIN inbox : inbox'[i] = inbox[i]
          /\ inbox'[Len(inbox) + 1] = m
      BY <2>2, <1>1, AppendIs
    <3>2. ASSUME NEW i \in DOMAIN inbox'
          PROVE  inbox'[i].request \in Known'
      <4>1. i \in DOMAIN inbox \/ i = Len(inbox) + 1
        BY <3>1
      <4>. QED
        BY <4>1, <3>1, <1>1
    <3>. QED
      BY <3>1, <3>2
  <2>. QED
    BY <2>1, <2>2
<1>. QED
  BY <1>2 DEF MessagesAre

LEMMA RequestKeeps ==
  ASSUME DecisionInv, NEW id \in Ids, NEW k \in Kinds, NEW rich \in BOOLEAN, NEW owned \in BOOLEAN,
         Answers!HandleServerRequest(id, k, rich, owned)
  PROVE  DecisionInv'
<1>. DEFINE r == Len(asked) + 1
            new == [id |-> id, kind |-> k, rich |-> rich, run |-> run]
<1>0. RequestsAre /\ asked \in Seq(Asks) /\ run \in Nat \ {0}
  BY DEF DecisionInv, RequestsAre
<1>1. /\ asked' = Append(asked, new)
      /\ \A q \in Known : asked[q].id = id => asked[q].run < run
      /\ pendingServerRequests' = Answers!Put(pendingServerRequests, id, r)
      /\ \/ /\ pendingById' = Answers!Put(pendingById, id, r)
            /\ inbox' = Append(inbox, [kind |-> "requested", request |-> r])
         \/ UNCHANGED <<pendingById, inbox>>
      /\ UNCHANGED <<run, cards, form, outbox, replies>>
  BY DEF Answers!HandleServerRequest, Known
<1>2. new \in Asks /\ new.id = id /\ new.run = run
  BY <1>0 DEF Asks
<1>. HIDE DEF new
<1>3. /\ asked' \in Seq(Asks) /\ Known' = Known \cup {r} /\ r \notin Known /\ asked'[r] = new
      /\ \A q \in Known : asked'[q] = asked[q]
      /\ \A q \in Known : q < r /\ q \in Nat /\ ~(r < q)
      /\ r \in Nat
  BY <1>0, <1>1, <1>2, AppendIs DEF Known
<1>. HIDE DEF r
<1>4. RequestsAre'
  <2>1. \A q \in Known' : 1 <= asked'[q].run /\ asked'[q].run <= run'
    <3>1. 1 <= run /\ run <= run
      BY <1>0
    <3>. QED
      BY <1>0, <1>1, <1>2, <1>3, <3>1 DEF RequestsAre
  <2>2. ASSUME NEW p \in Known', NEW q \in Known', p < q, asked'[p].id = asked'[q].id
        PROVE  asked'[p].run < asked'[q].run
    <3>1. CASE q = r
      <4>1. p \in Known
        BY <3>1, <2>2, <1>3
      <4>. QED
        BY <4>1, <3>1, <2>2, <1>1, <1>2, <1>3
    <3>2. CASE q \in Known
      <4>1. p \in Known
        BY <3>2, <2>2, <1>3
      <4>. QED
        BY <4>1, <3>2, <2>2, <1>0, <1>3 DEF RequestsAre, Answers!SameId
    <3>. QED
      BY <3>1, <3>2, <1>3
  <2>. QED
    BY <2>1, <2>2, <1>0, <1>1, <1>3 DEF RequestsAre, Answers!SameId, Asks
<1>5. TablesAre'
  <2>1. ASSUME NEW f, Tabled(f), NEW x \in DOMAIN f
        PROVE  f[x] \in Known' /\ asked'[f[x]].id = x
    BY <2>1, <1>3 DEF Tabled
  <2>2. ASSUME NEW f, Tabled(f), NEW x \in DOMAIN Answers!Put(f, id, r)
        PROVE  /\ Answers!Put(f, id, r)[x] \in Known'
               /\ asked'[Answers!Put(f, id, r)[x]].id = x
    <3>1. CASE x = id
      BY <3>1, <1>2, <1>3 DEF Answers!Put
    <3>2. CASE x # id
      <4>1. x \in DOMAIN f /\ Answers!Put(f, id, r)[x] = f[x]
        BY <3>2, <2>2 DEF Answers!Put
      <4>. QED
        BY <4>1, <2>1, <2>2
    <3>. QED
      BY <3>1, <3>2
  <2>3. Tabled(pendingServerRequests) /\ Tabled(pendingById)
    BY DEF DecisionInv, TablesAre
  <2>4. Tabled(pendingServerRequests)'
    BY <2>2, <2>3, <1>1 DEF Tabled
  <2>5. Tabled(pendingById)'
    <3>1. CASE pendingById' = Answers!Put(pendingById, id, r)
      BY <2>2, <2>3, <3>1 DEF Tabled
    <3>2. CASE pendingById' = pendingById
      BY <2>1, <2>3, <3>2 DEF Tabled
    <3>. QED
      BY <3>1, <3>2, <1>1
  <2>. QED
    BY <2>4, <2>5 DEF TablesAre
<1>6. MessagesAre'
  <2>1. MessagesAre /\ Known \subseteq Known' /\ r \in Known'
    BY <1>3 DEF DecisionInv
  <2>. QED
    BY <2>1, <1>1, <1>3, MessageKeeps DEF MessagesAre
<1>7. CardsAre'
  BY <1>1, <1>3 DEF DecisionInv, CardsAre, Filling
<1>8. \A q \in Known : \A b, res : Means(q, b, res) => Means(q, b, res)'
  BY <1>3 DEF Means
<1>9. OutboxIs'
  BY <1>1, <1>3, <1>8 DEF DecisionInv, OutboxIs
<1>10. RepliesAre'
  BY <1>1, <1>3, <1>8 DEF DecisionInv, RepliesAre, Answers!SameId
<1>11. Answers!NoneIsForgotten'
  <2>1. /\ DOMAIN pendingServerRequests' = DOMAIN pendingServerRequests \cup {id}
        /\ DOMAIN pendingById' \subseteq DOMAIN pendingById \cup {id}
    BY <1>1 DEF Answers!Put
  <2>. QED
    BY <2>1, <1>1 DEF DecisionInv, Answers!NoneIsForgotten
<1>. QED
  BY <1>1, <1>4, <1>5, <1>6, <1>7, <1>9, <1>10, <1>11 DEF DecisionInv

LEMMA WithdrawKeeps ==
  ASSUME DecisionInv, NEW r \in Known, Answers!HandleRequestResolved(r)
  PROVE  DecisionInv'
<1>1. /\ pendingById' = Answers!Drop(pendingById, asked[r].id)
      /\ inbox' = Append(inbox, [kind |-> "resolved", request |-> r])
      /\ UNCHANGED <<asked, run, pendingServerRequests, cards, form, outbox, replies>>
  BY DEF Answers!HandleRequestResolved, Answers!Settle
<1>2. RequestsAre' /\ Known' = Known /\ r \in Nat
  BY <1>1, AskedKeeps, KnownAre DEF DecisionInv
<1>3. TablesAre'
  <2>1. Tabled(Answers!Drop(pendingById, asked[r].id)) /\ Tabled(pendingServerRequests)
    BY DropKeepsTable DEF DecisionInv, TablesAre
  <2>. QED
    BY <2>1, <1>1, <1>2 DEF Tabled, TablesAre
<1>4. MessagesAre'
  <2>1. MessagesAre /\ Known \subseteq Known' /\ r \in Known'
    BY <1>2 DEF DecisionInv
  <2>. QED
    BY <2>1, <1>1, <1>2, MessageKeeps
<1>5. CardsAre' /\ OutboxIs' /\ RepliesAre'
  BY <1>1, CardsKeep, OutboxKeeps, RepliesKeep DEF DecisionInv
<1>6. Answers!NoneIsForgotten'
  <2>1. DOMAIN pendingById' \subseteq DOMAIN pendingById
    BY <1>1 DEF Answers!Drop, Answers!Restrict
  <2>. QED
    BY <2>1, <1>1 DEF DecisionInv, Answers!NoneIsForgotten
<1>. QED
  BY <1>2, <1>3, <1>4, <1>5, <1>6 DEF DecisionInv

LEMMA RestartKeeps ==
  ASSUME DecisionInv, Answers!Restart
  PROVE  DecisionInv'
<1>1. /\ run' = run + 1 /\ run \in Nat \ {0}
      /\ UNCHANGED <<asked, pendingServerRequests, pendingById, inbox, cards, form, outbox, replies>>
  BY DEF Answers!Restart, DecisionInv, RequestsAre
<1>2. Known' = Known
  BY <1>1 DEF Known
<1>3. RequestsAre'
  <2>1. \A r \in Known : asked[r].run \in Nat
    BY KnownAre DEF DecisionInv
  <2>2. asked' \in Seq(Asks) /\ run' \in Nat \ {0}
    BY <1>1 DEF DecisionInv, RequestsAre
  <2>3. \A r \in Known : 1 <= asked[r].run /\ asked[r].run <= run + 1
    BY <2>1, <1>1 DEF DecisionInv, RequestsAre
  <2>. QED
    BY <2>2, <2>3, <1>1, <1>2 DEF DecisionInv, RequestsAre, Answers!SameId, Asks
<1>4. TablesAre' /\ MessagesAre'
  BY <1>1, <1>2 DEF DecisionInv, TablesAre, Tabled, MessagesAre
<1>5. CardsAre' /\ OutboxIs' /\ RepliesAre'
  BY <1>1, CardsKeep, OutboxKeeps, RepliesKeep DEF DecisionInv
<1>6. Answers!NoneIsForgotten'
  BY <1>1 DEF Answers!NoneIsForgotten
<1>. QED
  BY <1>3, <1>4, <1>5, <1>6 DEF DecisionInv

\* A step of the page alone.
LEMMA PageStepKeeps ==
  ASSUME DecisionInv, UNCHANGED <<asked, run, pendingServerRequests, pendingById, replies>>,
         MessagesAre', CardsAre', OutboxIs'
  PROVE  DecisionInv'
<1>1. RequestsAre' /\ Known' = Known /\ RepliesAre'
  BY AskedKeeps, RepliesKeep DEF DecisionInv
<1>2. TablesAre'
  BY <1>1 DEF DecisionInv, TablesAre, Tabled
<1>3. Answers!NoneIsForgotten'
  BY DEF DecisionInv, Answers!NoneIsForgotten
<1>. QED
  BY <1>1, <1>2, <1>3 DEF DecisionInv

LEMMA DeliverKeeps ==
  ASSUME DecisionInv, Answers!Deliver
  PROVE  DecisionInv'
<1>. DEFINE M == [kind : {"requested", "resolved"}, request : Nat]
            r == Head(inbox).request
            left == {c \in cards : ~Answers!SameId(c, r)}
<1>1. /\ inbox # <<>> /\ inbox' = Tail(inbox)
      /\ \/ cards' = left /\ form' = Restrict(form, left)
         \/ UNCHANGED <<cards, form>>
         \/ /\ cards' = cards \cup {r}
            /\ form' = Answers!Put(form, r, Answers!InitialForm(r))
      /\ UNCHANGED <<asked, run, pendingServerRequests, pendingById, outbox, replies>>
  BY DEF Answers!Deliver, Restrict, Answers!Restrict
<1>2. /\ inbox \in Seq(M) /\ \A i \in DOMAIN inbox : inbox[i].request \in Known
  BY DEF DecisionInv, MessagesAre
<1>3. /\ Head(inbox) = inbox[1] /\ 1 \in DOMAIN inbox
      /\ Tail(inbox) \in Seq(M)
      /\ \A i \in DOMAIN Tail(inbox) : i + 1 \in DOMAIN inbox /\ Tail(inbox)[i] = inbox[i + 1]
  <2>. HIDE DEF M
  <2>. QED
    BY <1>1, <1>2, TailIs
<1>4. r \in Known /\ Known' = Known
  BY <1>1, <1>2, <1>3 DEF Known
<1>5. MessagesAre'
  BY <1>1, <1>2, <1>3, <1>4 DEF MessagesAre
<1>6. cards \subseteq Known /\ DOMAIN form = cards /\ \A c \in cards : form[c] \in [DOMAIN form[c] -> Filling(c)]
  BY DEF DecisionInv, CardsAre
<1>. HIDE DEF r
<1>7. CardsAre'
  <2>1. CASE cards' = left /\ form' = Restrict(form, left)
    <3>1. cards' \subseteq cards /\ DOMAIN form' = cards' /\ \A c \in cards' : form'[c] = form[c]
      BY <2>1 DEF Restrict
    <3>. QED
      BY <3>1, <1>4, <1>6 DEF CardsAre, Filling
  <2>2. CASE UNCHANGED <<cards, form>>
    BY <2>2, <1>4, <1>6 DEF CardsAre, Filling
  <2>3. CASE /\ cards' = cards \cup {r}
             /\ form' = Answers!Put(form, r, Answers!InitialForm(r))
    <3>. DEFINE f == Answers!InitialForm(r)
    <3>0. f \in [DOMAIN f -> Filling(r)]
      BY InitialFormIs
    <3>. HIDE DEF f
    <3>1. /\ DOMAIN form' = cards' /\ form'[r] = f
          /\ \A c \in cards' \ {r} : c \in cards /\ form'[c] = form[c]
      BY <2>3, <1>6 DEF Answers!Put, f
    <3>2. ASSUME NEW c \in cards'
          PROVE  form'[c] \in [DOMAIN form'[c] -> Filling(c)]
      BY <3>0, <3>1, <1>6
    <3>. QED
      BY <2>3, <3>1, <3>2, <1>4, <1>6 DEF CardsAre, Filling
  <2>. QED
    BY <1>1, <2>1, <2>2, <2>3
<1>8. OutboxIs'
  BY <1>1, OutboxKeeps DEF DecisionInv
<1>. QED
  BY <1>1, <1>5, <1>7, <1>8, PageStepKeeps

LEMMA EditKeeps ==
  ASSUME DecisionInv, NEW r \in cards, NEW x \in DOMAIN form[r],
         NEW v \in {Answers!Empty, Answers!Typed}, Answers!Edit(r, x, v)
  PROVE  DecisionInv'
<1>1. /\ form' = [form EXCEPT ![r][x] = v]
      /\ UNCHANGED <<asked, run, pendingServerRequests, pendingById, inbox, cards, outbox, replies>>
  BY DEF Answers!Edit
<1>2. cards \subseteq Known /\ DOMAIN form = cards /\ \A c \in cards : form[c] \in [DOMAIN form[c] -> Filling(c)]
  BY DEF DecisionInv, CardsAre
<1>3. v \in Filling(r)
  BY DEF Filling
<1>4. /\ DOMAIN form' = cards /\ form'[r] = [form[r] EXCEPT ![x] = v]
      /\ \A c \in cards \ {r} : form'[c] = form[c]
  BY <1>1, <1>2
<1>5. form'[r] \in [DOMAIN form'[r] -> Filling(r)]
  BY <1>2, <1>3, <1>4
<1>6. CardsAre'
  BY <1>1, <1>2, <1>4, <1>5 DEF CardsAre, Known, Filling
<1>7. MessagesAre' /\ OutboxIs'
  BY <1>1, OutboxKeeps DEF DecisionInv, MessagesAre, Known
<1>. QED
  BY <1>1, <1>6, <1>7, PageStepKeeps

LEMMA SubmitKeeps ==
  ASSUME DecisionInv, NEW r \in cards,
         NEW b \in {"accept", "acceptForSession", "decline", "cancel"}, Answers!Submit(r, b)
  PROVE  DecisionInv'
<1>. DEFINE op == [card |-> r, button |-> b, resolution |-> Answers!Resolution(r, b, form[r])]
<1>1. /\ b \in Answers!Buttons(r)
      /\ outbox' = outbox \cup {op}
      /\ UNCHANGED <<asked, run, pendingServerRequests, pendingById, inbox, cards, form, replies>>
  BY DEF Answers!Submit
<1>2. /\ r \in Known /\ asked[r].kind \in Answers!AllKinds
      /\ \A x \in DOMAIN form[r] : form[r][x] \in Filling(r)
  BY KnownAre DEF DecisionInv, CardsAre
<1>3. asked[r].kind \in Answers!Approval \cup {"mcpServerElicitation"} =>
        b \in Answers!Protocol(asked[r].kind)
  BY <1>1 DEF Answers!Buttons, Answers!Protocol, Answers!Approval, Answers!Review
<1>4. asked[r].kind = "chatgptAuthTokensRefresh" => b = "accept"
  BY <1>1 DEF Answers!Buttons
<1>5. Means(r, b, Answers!Resolution(r, b, form[r]))
  BY <1>2, <1>3, <1>4, ResolutionMeans
<1>6. OutboxIs'
  <2>1. op.card = r /\ op.button = b /\ Means(r, b, op.resolution)
    BY <1>5
  <2>. HIDE DEF op
  <2>. QED
    BY <1>1, <1>2, <2>1 DEF DecisionInv, OutboxIs, Means, Known
<1>7. MessagesAre' /\ CardsAre'
  BY <1>1, CardsKeep DEF DecisionInv, MessagesAre, Known
<1>. QED
  BY <1>1, <1>6, <1>7, PageStepKeeps

\* The two checks of an answer: what codex is told was meant for its request.
LEMMA ResolveKeeps ==
  ASSUME DecisionInv, NEW id \in DOMAIN pendingById, NEW card \in Known, NEW b, NEW resolution,
         asked[card].id = id, Means(card, b, resolution),
         Answers!ResolveServerRequest(id, card, b, resolution),
         UNCHANGED <<asked, run, cards, form>>, outbox' \subseteq outbox
  PROVE  DecisionInv'
<1>1. RequestsAre' /\ Known' = Known /\ CardsAre' /\ OutboxIs'
  BY AskedKeeps, CardsKeep, OutboxKeeps DEF DecisionInv
<1>2. CASE id \notin DOMAIN pendingServerRequests
  <2>1. UNCHANGED <<pendingServerRequests, pendingById, inbox, replies>>
    BY <1>2 DEF Answers!ResolveServerRequest
  <2>2. TablesAre' /\ MessagesAre' /\ RepliesAre' /\ Answers!NoneIsForgotten'
    BY <2>1, <1>1, RepliesKeep DEF DecisionInv, TablesAre, Tabled, MessagesAre, Answers!NoneIsForgotten
  <2>. QED
    BY <1>1, <2>2 DEF DecisionInv
<1>3. CASE id \in DOMAIN pendingServerRequests
  <2>. DEFINE pending == pendingServerRequests[id]
              request == pendingById[id]
              reply == [to |-> pending, card |-> card, button |-> b, resolution |-> resolution]
  <2>1. /\ pending \in Known /\ request \in Known
        /\ asked[pending].id = id /\ asked[request].id = id
    BY <1>3 DEF DecisionInv, TablesAre, Tabled
  <2>2. pendingServerRequests' = Answers!Drop(pendingServerRequests, id)
    BY <1>3 DEF Answers!ResolveServerRequest
  <2>3. \/ /\ asked[request].kind = asked[card].kind /\ asked[pending].kind = asked[card].kind
           /\ pendingById' = Answers!Drop(pendingById, id)
           /\ inbox' = Append(inbox, [kind |-> "resolved", request |-> request])
           /\ replies' = replies \/ (asked[pending].run = run /\ replies' = replies \cup {reply})
        \/ /\ ~Answers!Matches(request, pending, card)
           /\ UNCHANGED <<pendingById, inbox, replies>>
    BY <1>3 DEF Answers!ResolveServerRequest, Answers!Matches, Answers!Settle
  <2>. HIDE DEF pending, request
  <2>4. TablesAre'
    <3>1. /\ Tabled(Answers!Drop(pendingServerRequests, id)) /\ Tabled(Answers!Drop(pendingById, id))
          /\ Tabled(pendingById)
      BY DropKeepsTable DEF DecisionInv, TablesAre
    <3>2. Tabled(pendingServerRequests)'
      BY <3>1, <2>2, <1>1 DEF Tabled
    <3>3. Tabled(pendingById)'
      BY <3>1, <2>3, <1>1 DEF Tabled
    <3>. QED
      BY <3>2, <3>3 DEF TablesAre
  <2>5. MessagesAre'
    <3>1. MessagesAre /\ Known \subseteq Known' /\ request \in Known' /\ request \in Nat
      BY <1>1, <2>1, KnownAre DEF DecisionInv
    <3>. QED
      BY <3>1, <2>3, MessageKeeps
  <2>6. RepliesAre'
    <3>1. CASE replies' = replies
      BY <3>1, RepliesKeep DEF DecisionInv
    <3>2. CASE /\ asked[request].kind = asked[card].kind /\ asked[pending].kind = asked[card].kind
               /\ asked[pending].run = run /\ replies' = replies \cup {reply}
      <4>1. reply.to = pending /\ reply.card = card /\ reply.button = b /\ reply.resolution = resolution
        OBVIOUS
      <4>2. card # pending => asked[card].run < asked[pending].run
        <5>. SUFFICES ASSUME card # pending
                      PROVE  asked[card].run < asked[pending].run
          OBVIOUS
        <5>1. asked[card].run < asked[pending].run \/ asked[pending].run < asked[card].run
          BY <2>1, RunsDiffer DEF DecisionInv
        <5>2. asked[card].run \in Nat /\ asked[pending].run \in Nat /\ asked[card].run <= run
          BY <2>1, KnownAre DEF DecisionInv, RequestsAre
        <5>. QED
          BY <5>1, <5>2, <3>2
      <4>. HIDE DEF reply
      <4>3. \A q \in replies' : q \in replies \/ q = reply
        BY <3>2
      <4>4. Means(card, b, resolution)'
        BY DEF Means
      <4>5. \A q \in replies : Means(q.card, q.button, q.resolution) => Means(q.card, q.button, q.resolution)'
        BY DEF Means
      <4>. QED
        BY <4>1, <4>2, <4>3, <4>4, <4>5, <3>2, <2>1, <1>1 DEF DecisionInv, RepliesAre, Answers!SameId
    <3>. QED
      BY <3>1, <3>2, <2>3
  <2>7. Answers!NoneIsForgotten'
    <3>. SUFFICES ASSUME run = 1
                  PROVE  DOMAIN pendingById' \subseteq DOMAIN pendingServerRequests'
      BY DEF Answers!NoneIsForgotten
    <3>1. \A q \in Known : asked[q].id = id => q = card
      <4>. SUFFICES ASSUME NEW q \in Known, asked[q].id = id, q # card
                    PROVE  FALSE
        OBVIOUS
      <4>1. asked[q].run < asked[card].run \/ asked[card].run < asked[q].run
        BY RunsDiffer DEF DecisionInv
      <4>2. /\ asked[q].run \in Nat /\ asked[card].run \in Nat
            /\ 1 <= asked[q].run /\ asked[q].run <= run /\ 1 <= asked[card].run /\ asked[card].run <= run
        BY KnownAre DEF DecisionInv, RequestsAre
      <4>. QED
        BY <4>1, <4>2
    <3>2. request = card /\ pending = card
      BY <3>1, <2>1
    <3>3. Answers!Matches(request, pending, card)
      BY <3>2 DEF Answers!Matches, Answers!SameId
    <3>4. pendingById' = Answers!Drop(pendingById, id)
      BY <3>3, <2>3
    <3>5. DOMAIN pendingById \subseteq DOMAIN pendingServerRequests
      BY DEF DecisionInv, Answers!NoneIsForgotten
    <3>. QED
      BY <3>4, <3>5, <2>2 DEF Answers!Drop, Answers!Restrict
  <2>. QED
    BY <1>1, <2>4, <2>5, <2>6, <2>7 DEF DecisionInv
<1>. QED
  BY <1>2, <1>3

LEMMA AnswerKeeps ==
  ASSUME DecisionInv, NEW op \in outbox, Answers!HandleResolve(op)
  PROVE  DecisionInv'
<1>1. /\ op.card \in Known /\ Means(op.card, op.button, op.resolution)
  BY DEF DecisionInv, OutboxIs
<1>2. UNCHANGED <<asked, run, cards, form>> /\ outbox' \subseteq outbox
  BY DEF Answers!HandleResolve
<1>3. CASE asked[op.card].id \in DOMAIN pendingById
  <2>1. Answers!ResolveServerRequest(asked[op.card].id, op.card, op.button, op.resolution)
    BY <1>3 DEF Answers!HandleResolve
  <2>. QED
    BY <2>1, <1>1, <1>2, <1>3, ResolveKeeps
<1>4. CASE asked[op.card].id \notin DOMAIN pendingById
  <2>1. UNCHANGED <<pendingServerRequests, pendingById, inbox, replies>>
    BY <1>4 DEF Answers!HandleResolve
  <2>2. MessagesAre' /\ CardsAre' /\ OutboxIs'
    BY <2>1, <1>2, CardsKeep, OutboxKeeps DEF DecisionInv, MessagesAre, Known
  <2>. QED
    BY <2>1, <2>2, <1>2, PageStepKeeps
<1>. QED
  BY <1>3, <1>4

LEMMA DefaultKeeps ==
  ASSUME DecisionInv, NEW id \in Ids, NEW b \in {"accept", "decline"},
         Answers!HandleApprovalResolve(id, b)
  PROVE  DecisionInv'
<1>. DEFINE r == pendingById[id]
            f == [x \in DOMAIN Answers!InitialForm(r) |->
                    IF x = "choice" THEN r ELSE Answers!InitialForm(r)[x]]
<1>1. /\ id \in DOMAIN pendingById /\ Answers!HasDefault(r)
      /\ Answers!ResolveServerRequest(id, r, b, Answers!Resolution(r, b, f))
      /\ UNCHANGED <<asked, run, cards, form, outbox>>
  BY DEF Answers!HandleApprovalResolve, Answers!Default
<1>2. r \in Known /\ asked[r].id = id /\ asked[r].kind \in Answers!AllKinds
  BY <1>1, KnownAre DEF DecisionInv, TablesAre, Tabled
<1>. HIDE DEF r
<1>3. \A x \in DOMAIN f : f[x] \in Filling(r)
  BY InitialFormIs DEF Filling
<1>4. /\ asked[r].kind \in Answers!Approval \cup {"mcpServerElicitation"} =>
           b \in Answers!Protocol(asked[r].kind)
      /\ asked[r].kind = "chatgptAuthTokensRefresh" => b = "accept"
  BY <1>1 DEF Answers!HasDefault, Answers!Protocol, Answers!Approval, Answers!Review
<1>. HIDE DEF f
<1>5. Means(r, b, Answers!Resolution(r, b, f))
  BY <1>2, <1>3, <1>4, ResolutionMeans
<1>. QED
  BY <1>1, <1>2, <1>5, ResolveKeeps

LEMMA SpecDecisions == ControlsSpec => []DecisionInv
<1>1. ControlsInit => DecisionInv
  <2>. SUFFICES ASSUME Answers!Init
                PROVE  DecisionInv
    BY DEF ControlsInit
  <2>1. /\ asked = <<>> /\ run = 1 /\ pendingServerRequests = <<>> /\ pendingById = <<>>
        /\ inbox = <<>> /\ cards = {} /\ form = <<>> /\ outbox = {} /\ replies = {}
    BY DEF Answers!Init
  <2>2. Known = {} /\ asked \in Seq(Asks)
    BY <2>1 DEF Known
  <2>3. inbox \in Seq([kind : {"requested", "resolved"}, request : Nat])
    BY <2>1
  <2>4. DOMAIN inbox = {} /\ DOMAIN form = {} /\ DOMAIN pendingById = {} /\ DOMAIN pendingServerRequests = {}
    BY <2>1
  <2>. QED
    BY <2>1, <2>2, <2>3, <2>4 DEF DecisionInv, RequestsAre, TablesAre, Tabled, MessagesAre, CardsAre,
       OutboxIs, RepliesAre, Answers!NoneIsForgotten
<1>2. DecisionInv /\ [ControlsNext]_<<part, vars, settingsVars, decisionVars, shelfVars>> => DecisionInv'
  <2>. SUFFICES ASSUME DecisionInv, [ControlsNext]_<<part, vars, settingsVars, decisionVars, shelfVars>>
                PROVE  DecisionInv'
    OBVIOUS
  <2>1. CASE Answers!Next
    <3>1. ASSUME NEW id \in Ids, NEW k \in Kinds, NEW rich \in BOOLEAN, NEW owned \in BOOLEAN,
                 Answers!HandleServerRequest(id, k, rich, owned)
          PROVE  DecisionInv'
      BY <3>1, RequestKeeps
    <3>2. ASSUME NEW r \in cards, NEW x \in DOMAIN form[r], NEW v \in {Answers!Empty, Answers!Typed},
                 Answers!Edit(r, x, v)
          PROVE  DecisionInv'
      BY <3>2, EditKeeps
    <3>3. ASSUME NEW r \in cards, NEW b \in {"accept", "acceptForSession", "decline", "cancel"},
                 Answers!Submit(r, b)
          PROVE  DecisionInv'
      BY <3>3, SubmitKeeps
    <3>4. ASSUME NEW id \in Ids, NEW b \in {"accept", "decline"}, Answers!HandleApprovalResolve(id, b)
          PROVE  DecisionInv'
      BY <3>4, DefaultKeeps
    <3>5. ASSUME NEW r \in Known, Answers!HandleRequestResolved(r)
          PROVE  DecisionInv'
      BY <3>5, WithdrawKeeps
    <3>6. ASSUME NEW op \in outbox, Answers!HandleResolve(op)
          PROVE  DecisionInv'
      BY <3>6, AnswerKeeps
    <3>. QED
      BY <2>1, <3>1, <3>2, <3>3, <3>4, <3>5, <3>6, RestartKeeps, DeliverKeeps DEF Answers!Next, Known
  <2>2. CASE UNCHANGED decisionVars
    <3>1. UNCHANGED <<asked, run, pendingServerRequests, pendingById, inbox, cards, form, outbox, replies>>
      BY <2>2 DEF decisionVars
    <3>2. MessagesAre' /\ CardsAre' /\ OutboxIs'
      BY <3>1, CardsKeep, OutboxKeeps DEF DecisionInv, MessagesAre, Known
    <3>. QED
      BY <3>1, <3>2, PageStepKeeps
  <2>. QED
    BY <2>1, <2>2 DEF ControlsNext
<1>. QED
  BY <1>1, <1>2, PTL DEF ControlsSpec

\* Codex is told what a user decided, in the terms of what it asked: an answer its method
\* takes, that grants something only if the user did, with nothing in it but what the user
\* typed or the card offered; and until codex is restarted no decision is refused after
\* the runtime forgot the request (mapServerRequestResolution, resolveServerRequest).
THEOREM DecisionsAreAlwaysMeant == ControlsSpec => []DecisionsAreMeant
<1>1. DecisionInv => DecisionsAreMeant
  <2>. SUFFICES ASSUME DecisionInv
                PROVE  Answers!RepliesAreMeant
    BY DEF DecisionsAreMeant, Answers!DecisionsAreMeant, DecisionInv
  <2>. QED
    BY DEF DecisionInv, RepliesAre, Means, Answers!RepliesAreMeant
<1>. QED
  BY SpecDecisions, <1>1, PTL

-----------------------------------------------------------------------------
(* The settings. *)

Writes == {"save", "defaults"}
Requests == [kind : Writes \cup {"refresh", "bootstrap", "patch"},
             payload : Options!Configs \cup {NoCopy}, stage : {"sent", "written", "read"},
             read : Options!Configs \cup {NoCopy}, old : BOOLEAN, late : BOOLEAN,
             model : Models \cup {NoCopy}]

\* What codex has still to write.
Unwritten(op) == op.kind \in Writes /\ op.stage = "sent"
AllWritten(s) == \A k \in DOMAIN s : ~Unwritten(s[k])

\* A request, while codex has c: an answer that no write has overtaken is c.
RequestIs(op, c) ==
  /\ op.kind \in Writes => op.payload \in Options!Configs
  /\ op.stage = "read" => op.read \in Options!Configs
  /\ op.stage = "sent" => ~op.late /\ ~op.old
  /\ op.stage = "written" => op.kind \in Writes
  /\ op.kind = "patch" => op.model \in Models /\ op.stage = "sent"
  /\ op.kind \in Writes /\ op.stage # "sent" /\ ~op.late => op.payload = c
  /\ op.kind \in Writes /\ op.old => op.late
  /\ op.stage = "read" /\ ~op.old => op.read = c

\* Only a page with a workspace writes its model.
ModelIs(op, w) ==
  /\ w = NoCopy => op.model = NoCopy
  /\ w # NoCopy /\ op.kind = "bootstrap" /\ op.stage = "read" => op.model \in Models

\* Codex writes in the order of the requests; there is one query of the bootstrap.
RequestsFit(s, c, w) ==
  /\ s \in Seq(Requests)
  /\ \A k \in DOMAIN s : RequestIs(s[k], c) /\ ModelIs(s[k], w)
  /\ \A j, k \in DOMAIN s : j < k /\ Unwritten(s[j]) /\ s[k].kind \in Writes => Unwritten(s[k])
  /\ \A j, k \in DOMAIN s : s[j].kind = "bootstrap" /\ s[k].kind = "bootstrap" => j = k

\* The types of the copies.
CopiesAre ==
  /\ config \in Options!Configs /\ draft \in Options!Configs
  /\ workspace \in Models \cup {NoCopy}
  /\ bootstrap \in [config : Options!Configs, workspace : Models \cup {NoCopy}]
  /\ integrations \in Options!Configs \cup {NoCopy}
  /\ composer \in [model : Models, effort : Options!Efforts]
  /\ composer.effort \in Options!Supports(composer.model)
  /\ edits \subseteq {"tier", "policy"} /\ chosen \in Options!Chosen
  /\ spoiled \subseteq {"bootstrap", "integrations"}
  /\ failed \in BOOLEAN /\ blind \in BOOLEAN
  /\ workspace = NoCopy <=> bootstrap.workspace = NoCopy

\* A request after which the bootstrap is asked for, or which asks for it.
Saves(op) == op.kind \in Writes \cup {"bootstrap"}

\* A copy that differs from what codex has is spoiled or has an answer to come.
CopiesAreDue ==
  ~failed =>
    /\ \/ bootstrap.config = config \/ "bootstrap" \in spoiled
       \/ \E k \in DOMAIN requests : Saves(requests[k])
    /\ \/ integrations \in {NoCopy, config} \/ "integrations" \in spoiled
       \/ \E k \in DOMAIN requests : requests[k].kind \in Writes

\* A field of the overlay that was not edited is the copy's.
DraftIs ==
  LET c == IF integrations = NoCopy THEN Options!Unset ELSE integrations
  IN /\ "tier" \notin edits => draft.tier = c.tier
     /\ "policy" \notin edits => draft.policy = c.policy

\* While no save was blind, there is one at a time, and it has the choices.
Has(c, p) == c.tier = p.tier /\ c.policy = p.policy
ChoicesAreDue ==
  ~failed /\ ~blind =>
    /\ \A j, k \in DOMAIN requests : Saves(requests[j]) /\ Saves(requests[k]) => j = k
    /\ \A k \in DOMAIN requests : Unwritten(requests[k]) => Has(requests[k].payload, chosen)
    /\ AllWritten(requests) => Has(config, chosen)

\* The model or the effort of a configuration.
Of(c, field) == IF field = "model" THEN c.model ELSE c.effort

\* No other write follows that of request k.
LastWriter(s, k) ==
  /\ s[k].kind \in Writes /\ ~s[k].late
  /\ \A j \in DOMAIN s : j > k => ~Unwritten(s[j])

\* The answer of request k changes what the composer shows of a field, which is v, or has
\* another request do so: codex has c, and the bootstrap the value b of the field.
Recomputes(s, k, c, b, field, v) ==
  \/ b # v /\ s[k].kind = "save" /\ Of(s[k].payload, field) = v
  \/ b = v /\ LastWriter(s, k) /\ (Of(s[k].payload, field) = v \/ s[k].kind = "defaults")
  \/ /\ b = v /\ Of(c, field) # v /\ AllWritten(s)
     /\ s[k].kind = "bootstrap" /\ (s[k].stage = "sent" \/ s[k].read = c)
Due(s, c, b, field, v) == \E k \in DOMAIN s : Recomputes(s, k, c, b, field, v)

ModelAgrees == composer.model = Options!ShownModel(bootstrap, integrations)
ModelIsDue ==
  ~failed =>
    \/ ModelAgrees
    \/ /\ workspace # NoCopy
       /\ \E k \in DOMAIN requests : /\ requests[k].model = composer.model
                                     /\ requests[k].kind \in {"save", "patch"}
    \/ workspace = NoCopy /\ Due(requests, config, bootstrap.config.model, "model", composer.model)

EffortAgrees == composer.effort \in {Options!Shown(bootstrap, integrations).effort, "high"}
EffortIsDue ==
  ~failed => EffortAgrees \/ Due(requests, config, bootstrap.config.effort, "effort", composer.effort)

SettingsInv ==
  /\ CopiesAre /\ RequestsFit(requests, config, workspace)
  /\ CopiesAreDue /\ DraftIs /\ ChoicesAreDue /\ ModelIsDue /\ EffortIsDue

-----------------------------------------------------------------------------
\* A request that is kept, but for what a patch does to an answer of the bootstrap query.
Same(op, kept) ==
  kept = op \/ (op.kind = "bootstrap" /\ op.stage = "read" /\ kept = [op EXCEPT !.old = TRUE])

\* t is s without the requests at the places in gone; at tells where they were.
Kept(s, t, gone, at) ==
  /\ at \in [DOMAIN t -> DOMAIN s \ gone]
  /\ \A j \in DOMAIN t : Same(s[at[j]], t[j])
  /\ \A i, j \in DOMAIN t : i < j => at[i] < at[j]
  /\ \A k \in DOMAIN s \ gone : \E j \in DOMAIN t : at[j] = k

\* What the constants are.
LEMMA SettingsConstants ==
  /\ NoCopy \notin Models /\ NoCopy \notin Options!Configs
  /\ DefaultModel \in Models /\ Options!Unset \in Options!Configs
<1>1. NoCopy \notin Models \cup Options!Configs /\ DefaultModel \in Models
  BY ControlsAssumption
<1>2. Options!Unset \in Options!Configs
  BY <1>1 DEF Options!Unset, Options!Configs, Options!Efforts
<1>. QED
  BY <1>1, <1>2

\* A request that is kept is the same but for its old mark.
LEMMA SameIs ==
  ASSUME NEW op \in Requests, NEW kept, Same(op, kept)
  PROVE  /\ kept \in Requests
         /\ kept.kind = op.kind /\ kept.payload = op.payload /\ kept.stage = op.stage
         /\ kept.read = op.read /\ kept.late = op.late /\ kept.model = op.model
         /\ kept.old = op.old \/ (kept.old /\ op.kind = "bootstrap" /\ op.stage = "read")
BY DEF Same, Requests

\* One request less.
LEMMA RemovedIs ==
  ASSUME NEW s \in Seq(Requests), NEW k \in DOMAIN s
  PROVE  /\ RemoveAt(s, k) \in Seq(Requests)
         /\ \E at : Kept(s, RemoveAt(s, k), {k}, at)
<1>. DEFINE t == RemoveAt(s, k)
            at == [j \in 1..(Len(s) - 1) |-> IF j < k THEN j ELSE j + 1]
<1>1. /\ t \in Seq(Requests) /\ Len(s) \in Nat \ {0} /\ DOMAIN s = 1..Len(s)
      /\ DOMAIN t = 1..(Len(s) - 1)
      /\ \A j \in 1..(Len(s) - 1) : t[j] = s[IF j < k THEN j ELSE j + 1]
  BY RemoveAtIs
<1>. HIDE DEF t
<1>2. at \in [DOMAIN t -> DOMAIN s \ {k}]
  BY <1>1
<1>3. \A j \in DOMAIN t : t[j] = s[at[j]]
  BY <1>1
<1>4. \A i, j \in DOMAIN t : i < j => at[i] < at[j]
  BY <1>1
<1>5. \A m \in DOMAIN s \ {k} : \E j \in DOMAIN t : at[j] = m
  <2>. SUFFICES ASSUME NEW m \in DOMAIN s \ {k}
                PROVE  \E j \in DOMAIN t : at[j] = m
    OBVIOUS
  <2>1. CASE m < k
    BY <1>1, <2>1
  <2>2. CASE m > k
    <3>1. m - 1 \in DOMAIN t /\ at[m - 1] = m
      BY <1>1, <2>2
    <3>. QED
      BY <3>1
  <2>. QED
    BY <1>1, <2>1, <2>2
<1>. HIDE DEF at
<1>6. Kept(s, t, {k}, at)
  BY <1>2, <1>3, <1>4, <1>5 DEF Kept, Same
<1>. QED
  BY <1>1, <1>6 DEF t

\* Two requests less, one after the other.
LEMMA KeptTwice ==
  ASSUME NEW s \in Seq(Requests), NEW t \in Seq(Requests), NEW u \in Seq(Requests),
         NEW k \in DOMAIN s, NEW at, Kept(s, t, {k}, at),
         NEW l \in DOMAIN t, NEW by, Kept(t, u, {l}, by)
  PROVE  \E through : Kept(s, u, {k, at[l]}, through)
<1>. DEFINE through == [j \in DOMAIN u |-> at[by[j]]]
<1>1. /\ DOMAIN s \subseteq Nat /\ DOMAIN t \subseteq Nat /\ DOMAIN u \subseteq Nat
      /\ \A j \in DOMAIN s : s[j] \in Requests
  OBVIOUS
<1>2. through \in [DOMAIN u -> DOMAIN s \ {k, at[l]}]
  <2>. SUFFICES ASSUME NEW j \in DOMAIN u
                PROVE  at[by[j]] \in DOMAIN s \ {k, at[l]}
    OBVIOUS
  <2>1. by[j] \in DOMAIN t \ {l} /\ at[by[j]] \in DOMAIN s \ {k}
    BY DEF Kept
  <2>2. at[by[j]] # at[l]
    <3>1. by[j] < l \/ l < by[j]
      BY <2>1, <1>1
    <3>2. at[by[j]] < at[l] \/ at[l] < at[by[j]]
      BY <2>1, <3>1 DEF Kept
    <3>3. at[by[j]] \in Nat /\ at[l] \in Nat
      BY <1>1, <2>1 DEF Kept
    <3>. QED
      BY <3>2, <3>3
  <2>. QED
    BY <2>1, <2>2
<1>3. \A j \in DOMAIN u : Same(s[through[j]], u[j])
  <2>. SUFFICES ASSUME NEW j \in DOMAIN u
                PROVE  Same(s[at[by[j]]], u[j])
    OBVIOUS
  <2>1. Same(t[by[j]], u[j]) /\ Same(s[at[by[j]]], t[by[j]]) /\ s[at[by[j]]] \in Requests
    BY <1>1 DEF Kept
  <2>. QED
    BY <2>1 DEF Same, Requests
<1>4. \A i, j \in DOMAIN u : i < j => through[i] < through[j]
  BY DEF Kept
<1>5. \A m \in DOMAIN s \ {k, at[l]} : \E j \in DOMAIN u : through[j] = m
  <2>. SUFFICES ASSUME NEW m \in DOMAIN s \ {k, at[l]}
                PROVE  \E j \in DOMAIN u : at[by[j]] = m
    OBVIOUS
  <2>1. PICK i \in DOMAIN t : at[i] = m
    BY DEF Kept
  <2>2. i # l
    BY <2>1
  <2>3. PICK j \in DOMAIN u : by[j] = i
    BY <2>2 DEF Kept
  <2>. QED
    BY <2>1, <2>3
<1>. HIDE DEF through
<1>. QED
  BY <1>2, <1>3, <1>4, <1>5 DEF Kept

\* Fewer requests fit as well.
LEMMA KeptRequests ==
  ASSUME NEW s, NEW c, NEW w, RequestsFit(s, c, w), NEW t \in Seq(Requests), NEW gone, NEW at,
         Kept(s, t, gone, at), NEW v, v = NoCopy <=> w = NoCopy
  PROVE  RequestsFit(t, c, v)
<1>1. \A j \in DOMAIN t : at[j] \in DOMAIN s /\ s[at[j]] \in Requests /\ Same(s[at[j]], t[j])
  BY DEF RequestsFit, Kept
<1>2. \A j \in DOMAIN t : RequestIs(t[j], c) /\ ModelIs(t[j], v)
  <2>. SUFFICES ASSUME NEW j \in DOMAIN t
                PROVE  RequestIs(t[j], c) /\ ModelIs(t[j], v)
    OBVIOUS
  <2>1. RequestIs(s[at[j]], c) /\ ModelIs(s[at[j]], w)
    BY <1>1 DEF RequestsFit
  <2>2. s[at[j]] \in Requests /\ Same(s[at[j]], t[j])
    BY <1>1
  <2>3. /\ t[j].kind = s[at[j]].kind /\ t[j].payload = s[at[j]].payload
        /\ t[j].stage = s[at[j]].stage /\ t[j].read = s[at[j]].read
        /\ t[j].late = s[at[j]].late /\ t[j].model = s[at[j]].model
        /\ t[j].old = s[at[j]].old \/ (t[j].old /\ s[at[j]].kind = "bootstrap" /\ s[at[j]].stage = "read")
    BY <2>2, SameIs
  <2>. QED
    BY <2>1, <2>3 DEF RequestIs, ModelIs, Writes
<1>3. \A j \in DOMAIN t : /\ t[j].kind = s[at[j]].kind
                          /\ Unwritten(t[j]) <=> Unwritten(s[at[j]])
  BY <1>1, SameIs DEF Unwritten
<1>4. \A i, j \in DOMAIN t : i < j /\ Unwritten(t[i]) /\ t[j].kind \in Writes => Unwritten(t[j])
  BY <1>1, <1>3 DEF RequestsFit, Kept
<1>5. \A i, j \in DOMAIN t : t[i].kind = "bootstrap" /\ t[j].kind = "bootstrap" => i = j
  <2>. SUFFICES ASSUME NEW i \in DOMAIN t, NEW j \in DOMAIN t, t[i].kind = "bootstrap",
                       t[j].kind = "bootstrap", i < j \/ j < i
                PROVE  FALSE
    OBVIOUS
  <2>1. at[i] = at[j]
    BY <1>1, <1>3 DEF RequestsFit
  <2>3. at[i] \in Nat
    BY <1>1 DEF RequestsFit
  <2>2. at[i] < at[j] \/ at[j] < at[i]
    BY DEF Kept
  <2>. QED
    BY <2>1, <2>2, <2>3
<1>. QED
  BY <1>2, <1>4, <1>5 DEF RequestsFit

\* One request more fits if it is no second query of the bootstrap.
LEMMA AppendedRequests ==
  ASSUME NEW t, NEW c, NEW w, RequestsFit(t, c, w), NEW op \in Requests,
         RequestIs(op, c), ModelIs(op, w), op.stage = "sent",
         op.kind = "bootstrap" => \A k \in DOMAIN t : t[k].kind # "bootstrap"
  PROVE  RequestsFit(Append(t, op), c, w)
<1>. DEFINE u == Append(t, op)
<1>1. /\ u \in Seq(Requests) /\ DOMAIN t = 1..Len(t) /\ DOMAIN u = 1..(Len(t) + 1) /\ Len(t) \in Nat
      /\ \A k \in DOMAIN t : u[k] = t[k]
      /\ u[Len(t) + 1] = op
  BY AppendIs DEF RequestsFit
<1>. HIDE DEF u
<1>2. \A k \in DOMAIN u : k \in DOMAIN t \/ k = Len(t) + 1
  BY <1>1
<1>3. \A k \in DOMAIN u : RequestIs(u[k], c) /\ ModelIs(u[k], w)
  BY <1>1, <1>2 DEF RequestsFit
<1>4. \A j, k \in DOMAIN u : j < k /\ Unwritten(u[j]) /\ u[k].kind \in Writes => Unwritten(u[k])
  <2>. SUFFICES ASSUME NEW j \in DOMAIN u, NEW k \in DOMAIN u, j < k, Unwritten(u[j]),
                       u[k].kind \in Writes
                PROVE  Unwritten(u[k])
    OBVIOUS
  <2>1. CASE k = Len(t) + 1
    BY <1>1, <2>1 DEF Unwritten
  <2>2. CASE k \in DOMAIN t
    BY <1>1, <2>2 DEF RequestsFit
  <2>. QED
    BY <1>2, <2>1, <2>2
<1>5. \A j, k \in DOMAIN u : u[j].kind = "bootstrap" /\ u[k].kind = "bootstrap" => j = k
  BY <1>1, <1>2 DEF RequestsFit
<1>. QED
  BY <1>1, <1>3, <1>4, <1>5 DEF RequestsFit, u

\* What a field of the composer waits for stays, if its request does.
LEMMA KeptDue ==
  ASSUME NEW s, NEW c, NEW w, RequestsFit(s, c, w), NEW t \in Seq(Requests), NEW gone, NEW at,
         Kept(s, t, gone, at), NEW b, NEW field, NEW v, Due(s, c, b, field, v),
         \A k \in DOMAIN s \cap gone : ~Recomputes(s, k, c, b, field, v)
  PROVE  Due(t, c, b, field, v)
<1>1. PICK k \in DOMAIN s : Recomputes(s, k, c, b, field, v)
  BY DEF Due
<1>2. PICK j \in DOMAIN t : at[j] = k
  BY <1>1 DEF Kept
<1>3. \A i \in DOMAIN t : /\ at[i] \in DOMAIN s
                          /\ t[i].kind = s[at[i]].kind /\ t[i].payload = s[at[i]].payload
                          /\ t[i].stage = s[at[i]].stage /\ t[i].read = s[at[i]].read
                          /\ t[i].late = s[at[i]].late
                          /\ Unwritten(t[i]) <=> Unwritten(s[at[i]])
  BY SameIs DEF RequestsFit, Kept, Unwritten
<1>4. \A i \in DOMAIN t : j < i => at[j] < at[i]
  BY DEF Kept
<1>5. LastWriter(s, k) => LastWriter(t, j)
  BY <1>2, <1>3, <1>4 DEF LastWriter
<1>6. AllWritten(s) => AllWritten(t)
  BY <1>3 DEF AllWritten
<1>7. Recomputes(t, j, c, b, field, v)
  BY <1>1, <1>2, <1>3, <1>5, <1>6 DEF Recomputes
<1>. QED
  BY <1>7 DEF Due

\* A request that writes nothing, or that writes what the composer shows.
LEMMA AppendedDue ==
  ASSUME NEW t \in Seq(Requests), NEW c, NEW b, NEW field, NEW v, NEW op \in Requests, ~op.late,
         \/ op.kind \notin Writes /\ Due(t, c, b, field, v)
         \/ op.kind = "defaults" /\ Due(t, c, b, field, v)
         \/ op.kind = "save" /\ Of(op.payload, field) = v
         \/ op.kind = "save" /\ Of(op.payload, field) = b /\ Due(t, c, b, field, v)
         \/ op.kind = "bootstrap" /\ op.stage = "sent" /\ b = v /\ Of(c, field) # v /\ AllWritten(t)
  PROVE  Due(Append(t, op), c, b, field, v)
<1>. DEFINE u == Append(t, op)
<1>1. /\ DOMAIN t = 1..Len(t) /\ DOMAIN u = 1..(Len(t) + 1) /\ Len(t) \in Nat
      /\ \A k \in DOMAIN t : u[k] = t[k]
      /\ u[Len(t) + 1] = op
  BY AppendIs
<1>. HIDE DEF u
<1>2. \A k \in DOMAIN u : k \in DOMAIN t \/ k = Len(t) + 1
  BY <1>1
<1>3. op.kind \in Writes => LastWriter(u, Len(t) + 1)
  BY <1>1 DEF LastWriter
<1>4. ASSUME op.kind \notin Writes
      PROVE  /\ \A k \in DOMAIN t : LastWriter(t, k) => LastWriter(u, k)
             /\ AllWritten(t) => AllWritten(u)
  BY <1>1, <1>2, <1>4 DEF LastWriter, AllWritten, Unwritten
<1>5. ASSUME NEW k \in DOMAIN t, Recomputes(t, k, c, b, field, v), b # v \/ op.kind \notin Writes
      PROVE  Recomputes(u, k, c, b, field, v)
  BY <1>1, <1>4, <1>5 DEF Recomputes
<1>6. Len(t) + 1 \in DOMAIN u /\ DOMAIN t \subseteq DOMAIN u
  BY <1>1
<1>7. CASE Due(t, c, b, field, v) /\ (b # v \/ op.kind \notin Writes)
  BY <1>5, <1>6, <1>7 DEF Due, u
<1>8. CASE b = v /\ (op.kind = "defaults" \/ (op.kind = "save" /\ Of(op.payload, field) = v))
  <2>1. Recomputes(u, Len(t) + 1, c, b, field, v)
    BY <1>1, <1>3, <1>8 DEF Recomputes, Writes
  <2>. QED
    BY <1>6, <2>1 DEF Due, u
<1>9. CASE b # v /\ op.kind = "save" /\ Of(op.payload, field) = v
  <2>1. Recomputes(u, Len(t) + 1, c, b, field, v)
    BY <1>1, <1>9 DEF Recomputes
  <2>. QED
    BY <1>6, <2>1 DEF Due, u
<1>10. CASE op.kind = "bootstrap" /\ op.stage = "sent" /\ b = v /\ Of(c, field) # v /\ AllWritten(t)
  <2>1. op.kind \notin Writes
    BY <1>10 DEF Writes
  <2>2. Recomputes(u, Len(t) + 1, c, b, field, v)
    BY <1>1, <1>4, <1>10, <2>1 DEF Recomputes
  <2>. QED
    BY <1>6, <2>2 DEF Due, u
<1>. QED
  BY <1>7, <1>8, <1>9, <1>10 DEF Writes


\* A request that is sent.
LEMMA OpIs ==
  ASSUME NEW kind1 \in Writes \cup {"refresh", "bootstrap", "patch"},
         NEW c1 \in Options!Configs \cup {NoCopy}, kind1 \in Writes => c1 \in Options!Configs,
         NEW m1 \in Models \cup {NoCopy}, kind1 = "patch" => m1 \in Models,
         NEW op, op = [Options!Op(kind1, c1) EXCEPT !.model = m1] \/ (m1 = NoCopy /\ op = Options!Op(kind1, c1))
  PROVE  /\ op \in Requests /\ RequestIs(op, config)
         /\ op.kind = kind1 /\ op.payload = c1 /\ op.stage = "sent" /\ op.model = m1 /\ ~op.late /\ ~op.old
<1>1. op = [kind |-> kind1, payload |-> c1, stage |-> "sent", read |-> NoCopy, old |-> FALSE,
            late |-> FALSE, model |-> m1]
  BY DEF Options!Op
<1>2. /\ op.kind = kind1 /\ op.payload = c1 /\ op.stage = "sent" /\ op.model = m1
      /\ op.late = FALSE /\ op.old = FALSE
  BY <1>1
<1>3. op \in Requests
  BY <1>1 DEF Requests
<1>4. RequestIs(op, config)
  BY <1>2 DEF RequestIs, Writes
<1>. QED
  BY <1>2, <1>3, <1>4

\* The requests with one more.
LEMMA SentIs ==
  ASSUME NEW s \in Seq(Requests), NEW op \in Requests
  PROVE  /\ Append(s, op) \in Seq(Requests)
         /\ \A k \in DOMAIN s : k \in DOMAIN Append(s, op) /\ Append(s, op)[k] = s[k]
         /\ \E l \in DOMAIN Append(s, op) : /\ Append(s, op)[l] = op /\ l \notin DOMAIN s
                                            /\ \A k \in DOMAIN Append(s, op) : k \in DOMAIN s \/ k = l
<1>1. /\ Append(s, op) \in Seq(Requests)
      /\ Len(s) \in Nat /\ DOMAIN s = 1..Len(s) /\ DOMAIN Append(s, op) = 1..(Len(s) + 1)
      /\ \A i \in DOMAIN s : i \in DOMAIN Append(s, op) /\ Append(s, op)[i] = s[i]
      /\ Append(s, op)[Len(s) + 1] = op
  BY AppendIs
<1>2. /\ Len(s) + 1 \in DOMAIN Append(s, op) /\ Len(s) + 1 \notin DOMAIN s
      /\ \A k \in DOMAIN Append(s, op) : k \in DOMAIN s \/ k = Len(s) + 1
  BY <1>1
<1>. QED
  BY <1>1, <1>2

\* What is kept of the requests that are about the copies.
LEMMA KeptAre ==
  ASSUME NEW s \in Seq(Requests), NEW t \in Seq(Requests), NEW gone, NEW at, Kept(s, t, gone, at)
  PROVE  /\ \A k \in DOMAIN s : \/ k \in gone
                                \/ \E j \in DOMAIN t : /\ at[j] = k /\ t[j].kind = s[k].kind
                                                       /\ t[j].model = s[k].model
                                                       /\ Unwritten(t[j]) <=> Unwritten(s[k])
         /\ \A j \in DOMAIN t : /\ at[j] \in DOMAIN s \ gone
                                /\ t[j].kind = s[at[j]].kind /\ t[j].payload = s[at[j]].payload
                                /\ t[j].model = s[at[j]].model
                                /\ Unwritten(t[j]) <=> Unwritten(s[at[j]])
         /\ \A i, j \in DOMAIN t : at[i] = at[j] => i = j
<1>1. \A j \in DOMAIN t : /\ at[j] \in DOMAIN s \ gone
                          /\ t[j].kind = s[at[j]].kind /\ t[j].payload = s[at[j]].payload
                          /\ t[j].model = s[at[j]].model /\ t[j].stage = s[at[j]].stage
  BY SameIs DEF Kept
<1>2. \A k \in DOMAIN s : k \notin gone => \E j \in DOMAIN t : at[j] = k
  BY DEF Kept
<1>3. ASSUME NEW i \in DOMAIN t, NEW j \in DOMAIN t, at[i] = at[j]
      PROVE  i = j
  <2>1. i \in Nat /\ j \in Nat /\ at[i] \in Nat
    BY <1>1
  <2>2. /\ i < j => at[i] < at[j]
        /\ j < i => at[j] < at[i]
    BY DEF Kept
  <2>. QED
    BY <1>3, <2>1, <2>2
<1>. QED
  BY <1>1, <1>2, <1>3 DEF Unwritten

\* The requests that save stay one at a time, if a request that saves is added only when
\* there is none.
LEMMA KeptChoices ==
  ASSUME NEW s \in Seq(Requests), NEW t \in Seq(Requests), NEW gone, NEW at, Kept(s, t, gone, at),
         \A j, k \in DOMAIN s : Saves(s[j]) /\ Saves(s[k]) => j = k,
         \A k \in DOMAIN s \cap gone : ~Unwritten(s[k])
  PROVE  /\ \A j, k \in DOMAIN t : Saves(t[j]) /\ Saves(t[k]) => j = k
         /\ \A j \in DOMAIN t : Unwritten(t[j]) =>
              \E k \in DOMAIN s : Unwritten(s[k]) /\ t[j].payload = s[k].payload
         /\ AllWritten(t) => AllWritten(s)
<1>1. \A j, k \in DOMAIN t : Saves(t[j]) /\ Saves(t[k]) => j = k
  BY KeptAre DEF Saves
<1>2. \A j \in DOMAIN t : Unwritten(t[j]) =>
              \E k \in DOMAIN s : Unwritten(s[k]) /\ t[j].payload = s[k].payload
  BY KeptAre
<1>3. AllWritten(t) => AllWritten(s)
  <2>. SUFFICES ASSUME AllWritten(t), NEW k \in DOMAIN s, k \notin gone
                PROVE  ~Unwritten(s[k])
    BY DEF AllWritten
  <2>1. PICK j \in DOMAIN t : Unwritten(t[j]) <=> Unwritten(s[k])
    BY KeptAre
  <2>. QED
    BY <2>1 DEF AllWritten
<1>. QED
  BY <1>1, <1>2, <1>3

\* What the composer shows after the copies changed.
LEMMA CommitIs ==
  ASSUME CopiesAre, NEW b \in [config : Options!Configs, workspace : Models \cup {NoCopy}],
         NEW i \in Options!Configs \cup {NoCopy}, Options!Commit(b, i)
  PROVE  /\ bootstrap' = b /\ integrations' = i
         /\ composer' \in [model : Models, effort : Options!Efforts]
         /\ composer'.effort \in Options!Supports(composer'.model)
         /\ \/ ModelAgrees'
            \/ /\ ~ModelAgrees /\ composer'.model = composer.model
               /\ b.workspace = bootstrap.workspace /\ b.config.model = bootstrap.config.model
               /\ i = NoCopy <=> integrations = NoCopy
               /\ Options!Shown(b, i).model = Options!Shown(bootstrap, integrations).model
         /\ \/ EffortAgrees'
            \/ /\ ~EffortAgrees /\ composer'.effort = composer.effort
               /\ b.config.effort = bootstrap.config.effort
               /\ i = NoCopy <=> integrations = NoCopy
               /\ Options!Shown(b, i).effort = Options!Shown(bootstrap, integrations).effort
<1>. DEFINE m == IF Options!ModelDeps(b, i) # Options!ModelDeps(bootstrap, integrations)
                   THEN Options!ShownModel(b, i) ELSE composer.model
            e == IF Options!EffortDeps(b, i) # Options!EffortDeps(bootstrap, integrations)
                   THEN Options!Shown(b, i).effort ELSE composer.effort
<1>1. /\ bootstrap' = b /\ integrations' = i
      /\ composer' = [model |-> m, effort |-> Options!ResolveEffort(e, m)]
  BY DEF Options!Commit
<1>2. Options!Shown(b, i) \in Options!Configs
  BY DEF Options!Shown
<1>3. m \in Models /\ e \in Options!Efforts
  <2>1. Options!Shown(b, i).model \in Models /\ Options!Shown(b, i).effort \in Options!Efforts
    BY <1>2 DEF Options!Configs
  <2>. QED
    BY <2>1 DEF Options!ShownModel, CopiesAre
<1>4. /\ Options!ResolveEffort(e, m) \in Options!Supports(m)
      /\ Options!ResolveEffort(e, m) \in {e, "high"} /\ Options!ResolveEffort(e, m) \in Options!Efforts
  BY <1>3 DEF Options!ResolveEffort, Options!Supports, Options!Efforts
<1>5. /\ composer' \in [model : Models, effort : Options!Efforts]
      /\ composer'.model = m /\ composer'.effort = Options!ResolveEffort(e, m)
  BY <1>1, <1>3, <1>4
<1>6. /\ ModelAgrees' <=> m = Options!ShownModel(b, i)
      /\ EffortAgrees' <=> composer'.effort \in {Options!Shown(b, i).effort, "high"}
  BY <1>1, <1>5 DEF ModelAgrees, EffortAgrees, Options!ShownModel, Options!Shown
<1>7. ASSUME Options!ModelDeps(b, i) = Options!ModelDeps(bootstrap, integrations)
      PROVE  \/ ModelAgrees'
             \/ /\ ~ModelAgrees /\ composer'.model = composer.model
                /\ b.workspace = bootstrap.workspace /\ b.config.model = bootstrap.config.model
                /\ i = NoCopy <=> integrations = NoCopy
                /\ Options!Shown(b, i).model = Options!Shown(bootstrap, integrations).model
  <2>1. /\ b.workspace = bootstrap.workspace /\ b.config.model = bootstrap.config.model
        /\ i = NoCopy <=> integrations = NoCopy
        /\ Options!Shown(b, i).model = Options!Shown(bootstrap, integrations).model
    BY <1>7 DEF Options!ModelDeps
  <2>2. Options!ShownModel(b, i) = Options!ShownModel(bootstrap, integrations)
    BY <2>1 DEF Options!ShownModel
  <2>3. m = composer.model
    BY <1>7
  <2>. HIDE DEF m
  <2>. QED
    BY <1>5, <1>6, <2>1, <2>2, <2>3 DEF ModelAgrees
<1>8. ASSUME Options!ModelDeps(b, i) # Options!ModelDeps(bootstrap, integrations)
      PROVE  ModelAgrees'
  BY <1>6, <1>8
<1>9. ASSUME Options!EffortDeps(b, i) = Options!EffortDeps(bootstrap, integrations)
      PROVE  \/ EffortAgrees'
             \/ /\ ~EffortAgrees /\ composer'.effort = composer.effort
                /\ b.config.effort = bootstrap.config.effort
                /\ i = NoCopy <=> integrations = NoCopy
                /\ Options!Shown(b, i).effort = Options!Shown(bootstrap, integrations).effort
  <2>1. /\ b.config.effort = bootstrap.config.effort
        /\ i = NoCopy <=> integrations = NoCopy
        /\ Options!Shown(b, i).effort = Options!Shown(bootstrap, integrations).effort
    BY <1>9 DEF Options!EffortDeps
  <2>2. e = composer.effort
    BY <1>9
  <2>. HIDE DEF m, e
  <2>. QED
    BY <1>4, <1>5, <1>6, <2>1, <2>2 DEF EffortAgrees
<1>10. ASSUME Options!EffortDeps(b, i) # Options!EffortDeps(bootstrap, integrations)
       PROVE  EffortAgrees'
  <2>1. e = Options!Shown(b, i).effort
    BY <1>10
  <2>. HIDE DEF m, e
  <2>. QED
    BY <1>4, <1>5, <1>6, <2>1
<1>. HIDE DEF m, e
<1>11. composer'.effort \in Options!Supports(composer'.model)
  BY <1>4, <1>5
<1>12. \/ ModelAgrees'
       \/ /\ ~ModelAgrees /\ composer'.model = composer.model
          /\ b.workspace = bootstrap.workspace /\ b.config.model = bootstrap.config.model
          /\ i = NoCopy <=> integrations = NoCopy
          /\ Options!Shown(b, i).model = Options!Shown(bootstrap, integrations).model
  BY <1>7, <1>8
<1>13. \/ EffortAgrees'
       \/ /\ ~EffortAgrees /\ composer'.effort = composer.effort
          /\ b.config.effort = bootstrap.config.effort
          /\ i = NoCopy <=> integrations = NoCopy
          /\ Options!Shown(b, i).effort = Options!Shown(bootstrap, integrations).effort
  BY <1>9, <1>10
<1>. QED
  BY <1>1, <1>5, <1>11, <1>12, <1>13

\* An answer that leaves what the composer shows of a field behind leaves, too, a request
\* that will change it.
LEMMA CommitDue ==
  ASSUME SettingsInv, NEW b \in [config : Options!Configs, workspace : Models \cup {NoCopy}],
         NEW i \in Options!Configs \cup {NoCopy}, Options!Commit(b, i),
         workspace' = NoCopy <=> workspace = NoCopy, UNCHANGED <<config, failed>>,
         b.workspace = NoCopy <=> bootstrap.workspace = NoCopy,
         \A field \in {"model", "effort"} : \A v :
           /\ Of(b.config, field) = Of(bootstrap.config, field)
           /\ i = NoCopy <=> integrations = NoCopy
           /\ Of(Options!Shown(b, i), field) = Of(Options!Shown(bootstrap, integrations), field)
           /\ Of(Options!Shown(b, i), field) # v
           /\ Due(requests, config, Of(bootstrap.config, field), field, v)
           => Due(requests', config, Of(b.config, field), field, v),
         \A v \in Models :
           /\ b.workspace = bootstrap.workspace /\ bootstrap.workspace # v
           /\ \E k \in DOMAIN requests : /\ requests[k].model = v
                                         /\ requests[k].kind \in {"save", "patch"}
           => \E k \in DOMAIN requests' : /\ requests'[k].model = v
                                          /\ requests'[k].kind \in {"save", "patch"}
  PROVE  ModelIsDue' /\ EffortIsDue'
<1>1. /\ CopiesAre /\ bootstrap' = b /\ integrations' = i
      /\ workspace = NoCopy <=> bootstrap.workspace = NoCopy
  BY CommitIs DEF SettingsInv, CopiesAre
<1>2. ASSUME ~failed, ~ModelAgrees'
      PROVE  \/ /\ workspace' # NoCopy
                /\ \E k \in DOMAIN requests' : /\ requests'[k].model = composer'.model
                                               /\ requests'[k].kind \in {"save", "patch"}
             \/ /\ workspace' = NoCopy
                /\ Due(requests', config', bootstrap'.config.model, "model", composer'.model)
  <2>1. /\ ~ModelAgrees /\ composer'.model = composer.model
        /\ b.workspace = bootstrap.workspace /\ b.config.model = bootstrap.config.model
        /\ i = NoCopy <=> integrations = NoCopy
        /\ Options!Shown(b, i).model = Options!Shown(bootstrap, integrations).model
    BY <1>1, <1>2, CommitIs
  <2>2. CASE workspace # NoCopy
    <3>1. bootstrap.workspace # composer.model
      BY <1>1, <2>1, <2>2 DEF ModelAgrees, Options!ShownModel
    <3>2. \E k \in DOMAIN requests : /\ requests[k].model = composer.model
                                     /\ requests[k].kind \in {"save", "patch"}
      BY <1>2, <2>1, <2>2 DEF SettingsInv, ModelIsDue
    <3>3. composer.model \in Models
      BY <1>1 DEF CopiesAre
    <3>. QED
      BY <2>1, <2>2, <3>1, <3>2, <3>3
  <2>3. CASE workspace = NoCopy
    <3>1. Options!Shown(b, i).model # composer.model
      BY <1>1, <2>1, <2>3 DEF ModelAgrees, Options!ShownModel
    <3>2. Due(requests, config, bootstrap.config.model, "model", composer.model)
      BY <1>2, <2>1, <2>3 DEF SettingsInv, ModelIsDue
    <3>3. \A c : Of(c, "model") = c.model
      BY DEF Of
    <3>4. Due(requests', config, b.config.model, "model", composer.model)
      BY <2>1, <3>1, <3>2, <3>3
    <3>. QED
      BY <1>1, <2>1, <2>3, <3>4
  <2>. QED
    BY <2>2, <2>3
<1>3. ASSUME ~failed, ~EffortAgrees'
      PROVE  Due(requests', config', bootstrap'.config.effort, "effort", composer'.effort)
  <2>1. /\ ~EffortAgrees /\ composer'.effort = composer.effort
        /\ b.config.effort = bootstrap.config.effort
        /\ i = NoCopy <=> integrations = NoCopy
        /\ Options!Shown(b, i).effort = Options!Shown(bootstrap, integrations).effort
    BY <1>1, <1>3, CommitIs
  <2>2. Options!Shown(b, i).effort # composer.effort
    BY <2>1 DEF EffortAgrees
  <2>3. Due(requests, config, bootstrap.config.effort, "effort", composer.effort)
    BY <1>3, <2>1 DEF SettingsInv, EffortIsDue
  <2>4. \A c : Of(c, "effort") = c.effort
    BY DEF Of
  <2>5. Due(requests', config, b.config.effort, "effort", composer.effort)
    BY <2>1, <2>2, <2>3, <2>4
  <2>. QED
    BY <1>1, <2>1, <2>5
<1>4. failed' = failed
  OBVIOUS
<1>. QED
  BY <1>2, <1>3, <1>4 DEF ModelIsDue, EffortIsDue


\* The page starts with what codex has.
LEMMA InitSettings == Options!Init => SettingsInv
<1>. SUFFICES ASSUME Options!Init
              PROVE  SettingsInv
  OBVIOUS
<1>1. PICK m \in Models : config = [Options!Unset EXCEPT !.model = m]
  BY DEF Options!Init
<1>2. config \in Options!Configs /\ config.model = m /\ config.effort = "high"
  BY <1>1, SettingsConstants DEF Options!Unset, Options!Configs, Options!Efforts
<1>3. /\ workspace \in {NoCopy, config.model}
      /\ bootstrap = [config |-> config, workspace |-> workspace]
      /\ integrations = NoCopy /\ composer = [model |-> config.model, effort |-> config.effort]
      /\ draft = Options!Unset /\ edits = {} /\ requests = <<>>
      /\ chosen = [tier |-> config.tier, policy |-> config.policy]
      /\ spoiled = {} /\ failed = FALSE /\ blind = FALSE
  BY DEF Options!Init
<1>4. CopiesAre
  <2>1. "high" \in Options!Supports(composer.model) /\ "high" \in Options!Efforts
    BY DEF Options!Supports, Options!Efforts
  <2>2. chosen \in Options!Chosen
    BY <1>2, <1>3 DEF Options!Configs, Options!Chosen
  <2>. QED
    BY <1>2, <1>3, <2>1, <2>2, SettingsConstants DEF CopiesAre
<1>5. requests \in Seq(Requests) /\ DOMAIN requests = {}
  BY <1>3
<1>6. RequestsFit(requests, config, workspace)
  BY <1>5 DEF RequestsFit
<1>7. CopiesAreDue /\ DraftIs /\ ChoicesAreDue
  BY <1>3, <1>5 DEF CopiesAreDue, DraftIs, ChoicesAreDue, Has, AllWritten
<1>8. ModelIsDue /\ EffortIsDue
  BY <1>2, <1>3 DEF ModelIsDue, EffortIsDue, ModelAgrees, EffortAgrees, Options!ShownModel, Options!Shown
<1>. QED
  BY <1>4, <1>6, <1>7, <1>8 DEF SettingsInv

-----------------------------------------------------------------------------
\* A save of the composer writes what it shows of a field or what the bootstrap has of it.
LEMMA SaveKeepsSettings ==
  ASSUME SettingsInv, NEW c \in Options!Configs, NEW shown, NEW m \in Models \cup {NoCopy}, NEW picked,
         Options!Save(c, shown, m, picked), picked \in Options!Chosen,
         shown \in [model : Models, effort : Options!Efforts],
         shown.effort \in Options!Supports(shown.model),
         c.model = shown.model \/ (shown.model = composer.model /\ c.model = bootstrap.config.model),
         c.effort = shown.effort \/ (shown.effort = composer.effort /\ c.effort = bootstrap.config.effort),
         shown.model = composer.model \/ m = shown.model,
         c.tier = picked.tier \/ (picked.tier = chosen.tier /\ c.tier = bootstrap.config.tier),
         c.policy = picked.policy \/ (picked.policy = chosen.policy /\ c.policy = bootstrap.config.policy)
  PROVE  SettingsInv'
<1>. DEFINE m1 == IF bootstrap.workspace = NoCopy THEN NoCopy ELSE m
            op == [Options!Op("save", c) EXCEPT !.model = m1]
<1>1. /\ requests' = Append(requests, op) /\ composer' = shown /\ chosen' = picked
      /\ blind' = (blind \/ Options!Saving \/ "bootstrap" \in spoiled \/ failed)
      /\ UNCHANGED <<config, workspace, bootstrap, integrations, draft, edits, spoiled, failed>>
  BY DEF Options!Save, Options!Send
<1>2. /\ op \in Requests /\ RequestIs(op, config)
      /\ op.kind = "save" /\ op.payload = c /\ op.stage = "sent" /\ op.model = m1 /\ ~op.late /\ ~op.old
  <2>1. m1 \in Models \cup {NoCopy} /\ "save" \in Writes
    BY DEF Writes
  <2>. HIDE DEF m1
  <2>. QED
    BY <2>1, OpIs
<1>. HIDE DEF op
<1>3. CopiesAre /\ RequestsFit(requests, config, workspace) /\ requests \in Seq(Requests)
  BY DEF SettingsInv, RequestsFit
<1>4. ModelIs(op, workspace)
  BY <1>2, <1>3 DEF ModelIs, CopiesAre
<1>5. RequestsFit(requests', config', workspace')
  BY <1>1, <1>2, <1>3, <1>4, AppendedRequests
<1>6. CopiesAre'
  BY <1>1, <1>3 DEF CopiesAre
<1>7. /\ \A k \in DOMAIN requests : k \in DOMAIN requests' /\ requests'[k] = requests[k]
      /\ \E l \in DOMAIN requests' : /\ requests'[l] = op /\ l \notin DOMAIN requests
                                     /\ \A k \in DOMAIN requests' : k \in DOMAIN requests \/ k = l
  BY <1>1, <1>2, <1>3, SentIs
<1>8. CopiesAreDue'
  BY <1>2, <1>7 DEF CopiesAreDue, Writes, Saves
<1>9. DraftIs'
  BY <1>1 DEF SettingsInv, DraftIs
<1>10. ChoicesAreDue'
  <2>. SUFFICES ASSUME ~failed, ~blind'
                PROVE  /\ \A j, k \in DOMAIN requests' : Saves(requests'[j]) /\ Saves(requests'[k]) => j = k
                       /\ \A k \in DOMAIN requests' : Unwritten(requests'[k]) => Has(requests'[k].payload, picked)
                       /\ AllWritten(requests') => Has(config, picked)
    BY <1>1 DEF ChoicesAreDue
  <2>1. ~blind /\ "bootstrap" \notin spoiled /\ ~Options!Saving
    BY <1>1
  <2>2. \A k \in DOMAIN requests : ~Saves(requests[k])
    BY <2>1 DEF Options!Saving, Writes, Saves
  <2>3. bootstrap.config = config
    BY <2>1, <2>2 DEF SettingsInv, CopiesAreDue
  <2>4. config.tier = chosen.tier /\ config.policy = chosen.policy
    BY <2>1, <2>2 DEF SettingsInv, ChoicesAreDue, AllWritten, Unwritten, Has, Saves
  <2>5. \E k \in DOMAIN requests' : Unwritten(requests'[k])
    BY <1>2, <1>7 DEF Unwritten, Writes
  <2>6. ~AllWritten(requests')
    BY <2>5 DEF AllWritten
  <2>7. c.tier = picked.tier /\ c.policy = picked.policy
    BY <2>3, <2>4
  <2>8. \A k \in DOMAIN requests' : Unwritten(requests'[k]) => Has(requests'[k].payload, picked)
    BY <1>1, <1>2, <1>7, <2>2, <2>7 DEF Has, Unwritten, Saves
  <2>9. \A j \in DOMAIN requests' : Saves(requests'[j]) => j \notin DOMAIN requests
    BY <1>7, <2>2
  <2>10. \A j, k \in DOMAIN requests' : Saves(requests'[j]) /\ Saves(requests'[k]) => j = k
    BY <1>7, <2>9
  <2>. QED
    BY <2>6, <2>8, <2>10
<1>11. ModelIsDue'
  <2>. SUFFICES ASSUME ~failed
                PROVE  \/ ModelAgrees'
                       \/ /\ workspace # NoCopy
                          /\ \E k \in DOMAIN requests' : /\ requests'[k].model = shown.model
                                                         /\ requests'[k].kind \in {"save", "patch"}
                       \/ /\ workspace = NoCopy
                          /\ Due(requests', config, bootstrap.config.model, "model", shown.model)
    BY <1>1 DEF ModelIsDue
  <2>1. ModelAgrees' <=> shown.model = Options!ShownModel(bootstrap, integrations)
    BY <1>1 DEF ModelAgrees
  <2>2. ModelAgrees <=> composer.model = Options!ShownModel(bootstrap, integrations)
    BY DEF ModelAgrees
  <2>3. CASE workspace # NoCopy
    <3>1. CASE shown.model = composer.model
      BY <1>7, <2>1, <2>2, <2>3, <3>1 DEF SettingsInv, ModelIsDue
    <3>2. CASE m = shown.model
      <4>1. op.model = shown.model
        BY <1>2, <1>3, <2>3, <3>2 DEF CopiesAre
      <4>. QED
        BY <1>2, <1>7, <2>3, <4>1
    <3>. QED
      BY <3>1, <3>2
  <2>4. CASE workspace = NoCopy
    <3>. SUFFICES ASSUME ~ModelAgrees'
                  PROVE  Due(requests', config, bootstrap.config.model, "model", shown.model)
      BY <2>4
    <3>1. Of(op.payload, "model") = c.model
      BY <1>2 DEF Of
    <3>2. CASE c.model = shown.model
      BY <1>1, <1>2, <1>3, <3>1, <3>2, AppendedDue
    <3>3. CASE shown.model = composer.model /\ c.model = bootstrap.config.model
      <4>1. Due(requests, config, bootstrap.config.model, "model", shown.model)
        BY <2>1, <2>2, <2>4, <3>3 DEF SettingsInv, ModelIsDue
      <4>. QED
        BY <1>1, <1>2, <1>3, <3>1, <3>3, <4>1, AppendedDue
    <3>. QED
      BY <3>2, <3>3
  <2>. QED
    BY <2>3, <2>4
<1>12. EffortIsDue'
  <2>. SUFFICES ASSUME ~failed, ~EffortAgrees'
                PROVE  Due(requests', config, bootstrap.config.effort, "effort", shown.effort)
    BY <1>1 DEF EffortIsDue
  <2>1. shown.effort \notin {Options!Shown(bootstrap, integrations).effort, "high"}
    BY <1>1 DEF EffortAgrees
  <2>2. Of(op.payload, "effort") = c.effort
    BY <1>2 DEF Of
  <2>3. CASE c.effort = shown.effort
    BY <1>1, <1>2, <1>3, <2>2, <2>3, AppendedDue
  <2>4. CASE shown.effort = composer.effort /\ c.effort = bootstrap.config.effort
    <3>1. ~EffortAgrees
      BY <2>1, <2>4 DEF EffortAgrees
    <3>2. Due(requests, config, bootstrap.config.effort, "effort", shown.effort)
      BY <2>4, <3>1 DEF SettingsInv, EffortIsDue
    <3>. QED
      BY <1>1, <1>2, <1>3, <2>2, <2>4, <3>2, AppendedDue
  <2>. QED
    BY <2>3, <2>4
<1>. QED
  BY <1>5, <1>6, <1>8, <1>9, <1>10, <1>11, <1>12 DEF SettingsInv

\* The four controls of the composer.
LEMMA ControlKeepsSettings ==
  ASSUME SettingsInv,
         \/ \E m \in Models : Options!ChooseModel(m)
         \/ Options!ToggleSpeed
         \/ \E e \in Options!Efforts : Options!ChooseEffort(e)
         \/ \E p \in {"ask", "never"} : Options!ChoosePolicy(p)
  PROVE  SettingsInv'
<1>. DEFINE base == bootstrap.config
<1>1. /\ base \in Options!Configs /\ chosen \in Options!Chosen
      /\ composer \in [model : Models, effort : Options!Efforts]
      /\ composer.effort \in Options!Supports(composer.model)
  BY DEF SettingsInv, CopiesAre
<1>2. Options!Base = base
  BY DEF Options!Base
<1>. HIDE DEF base
<1>3. ASSUME NEW m \in Models, Options!ChooseModel(m)
      PROVE  SettingsInv'
  <2>. DEFINE e == Options!ResolveEffort(base.effort, m)
              c == [base EXCEPT !.model = m, !.effort = e]
              shown == [model |-> m, effort |-> e]
  <2>1. Options!Save(c, shown, m, chosen)
    BY <1>2, <1>3 DEF Options!ChooseModel
  <2>2. e \in Options!Efforts /\ e \in Options!Supports(m)
    BY <1>1 DEF Options!ResolveEffort, Options!Supports, Options!Efforts, Options!Configs
  <2>. HIDE DEF e
  <2>3. /\ c \in Options!Configs /\ c.model = m /\ c.effort = e
        /\ c.tier = base.tier /\ c.policy = base.policy
    BY <1>1, <2>2 DEF Options!Configs
  <2>4. /\ shown \in [model : Models, effort : Options!Efforts]
        /\ shown.model = m /\ shown.effort = e
    BY <2>2
  <2>. HIDE DEF c, shown
  <2>. QED
    BY <1>1, <2>1, <2>2, <2>3, <2>4, SaveKeepsSettings DEF base
<1>4. ASSUME Options!ToggleSpeed
      PROVE  SettingsInv'
  <2>. DEFINE t == IF Options!Fast THEN "standard" ELSE "fast"
              c == [base EXCEPT !.model = composer.model, !.effort = composer.effort, !.tier = t]
              picked == [chosen EXCEPT !.tier = t]
  <2>1. Options!Save(c, composer, composer.model, picked)
    BY <1>2, <1>4 DEF Options!ToggleSpeed
  <2>2. t \in {"standard", "fast"}
    OBVIOUS
  <2>. HIDE DEF t
  <2>3. /\ c \in Options!Configs /\ c.model = composer.model /\ c.effort = composer.effort
        /\ c.tier = t /\ c.policy = base.policy
    BY <1>1, <2>2 DEF Options!Configs
  <2>4. picked \in Options!Chosen /\ picked.tier = t /\ picked.policy = chosen.policy
    BY <1>1, <2>2 DEF Options!Chosen
  <2>. HIDE DEF c, picked
  <2>. QED
    BY <1>1, <2>1, <2>3, <2>4, SaveKeepsSettings DEF base
<1>5. ASSUME NEW e \in Options!Efforts, Options!ChooseEffort(e)
      PROVE  SettingsInv'
  <2>. DEFINE c == [base EXCEPT !.effort = e]
              shown == [composer EXCEPT !.effort = e]
  <2>1. Options!Save(c, shown, NoCopy, chosen) /\ e \in Options!Supports(composer.model)
    BY <1>2, <1>5 DEF Options!ChooseEffort
  <2>2. /\ c \in Options!Configs /\ c.model = base.model /\ c.effort = e
        /\ c.tier = base.tier /\ c.policy = base.policy
    BY <1>1 DEF Options!Configs
  <2>3. /\ shown \in [model : Models, effort : Options!Efforts]
        /\ shown.model = composer.model /\ shown.effort = e
    BY <1>1
  <2>. HIDE DEF c, shown
  <2>. QED
    BY <1>1, <2>1, <2>2, <2>3, SaveKeepsSettings DEF base
<1>6. ASSUME NEW p \in {"ask", "never"}, Options!ChoosePolicy(p)
      PROVE  SettingsInv'
  <2>. DEFINE c == [base EXCEPT !.policy = p]
              picked == [chosen EXCEPT !.policy = p]
  <2>1. Options!Save(c, composer, NoCopy, picked)
    BY <1>2, <1>6 DEF Options!ChoosePolicy
  <2>2. /\ c \in Options!Configs /\ c.model = base.model /\ c.effort = base.effort
        /\ c.tier = base.tier /\ c.policy = p
    BY <1>1 DEF Options!Configs
  <2>3. picked \in Options!Chosen /\ picked.tier = chosen.tier /\ picked.policy = p
    BY <1>1 DEF Options!Chosen
  <2>. HIDE DEF c, picked
  <2>. QED
    BY <1>1, <2>1, <2>2, <2>3, SaveKeepsSettings DEF base
<1>. QED
  BY <1>3, <1>4, <1>5, <1>6


\* What the model and the effort wait for after a request was sent that does not touch them.
LEMMA SentDue ==
  ASSUME SettingsInv, NEW op \in Requests, ~op.late, op.kind \in {"refresh", "defaults"},
         requests' = Append(requests, op),
         UNCHANGED <<config, workspace, bootstrap, integrations, composer, failed>>
  PROVE  ModelIsDue' /\ EffortIsDue'
<1>1. requests \in Seq(Requests)
  BY DEF SettingsInv, RequestsFit
<1>2. \A b, field, v : Due(requests, config, b, field, v) => Due(requests', config, b, field, v)
  BY <1>1, AppendedDue DEF Writes
<1>3. \A k \in DOMAIN requests : k \in DOMAIN requests' /\ requests'[k] = requests[k]
  BY <1>1, SentIs
<1>4. /\ ModelAgrees' <=> ModelAgrees
      /\ EffortAgrees' <=> EffortAgrees
  BY DEF ModelAgrees, EffortAgrees
<1>5. ModelIsDue'
  <2>1. CASE failed \/ ModelAgrees
    BY <1>4, <2>1 DEF ModelIsDue
  <2>2. CASE /\ workspace # NoCopy
             /\ \E k \in DOMAIN requests : /\ requests[k].model = composer.model
                                           /\ requests[k].kind \in {"save", "patch"}
    <3>1. \E k \in DOMAIN requests' : /\ requests'[k].model = composer.model
                                      /\ requests'[k].kind \in {"save", "patch"}
      BY <1>3, <2>2
    <3>. QED
      BY <2>2, <3>1 DEF ModelIsDue
  <2>3. CASE workspace = NoCopy /\ Due(requests, config, bootstrap.config.model, "model", composer.model)
    <3>1. Due(requests', config, bootstrap.config.model, "model", composer.model)
      BY <1>2, <2>3
    <3>. QED
      BY <2>3, <3>1 DEF ModelIsDue
  <2>. QED
    BY <2>1, <2>2, <2>3 DEF SettingsInv, ModelIsDue
<1>6. EffortIsDue'
  <2>1. CASE failed \/ EffortAgrees
    BY <1>4, <2>1 DEF EffortIsDue
  <2>2. CASE Due(requests, config, bootstrap.config.effort, "effort", composer.effort)
    <3>1. Due(requests', config, bootstrap.config.effort, "effort", composer.effort)
      BY <1>2, <2>2
    <3>. QED
      BY <3>1 DEF EffortIsDue
  <2>. QED
    BY <2>1, <2>2 DEF SettingsInv, EffortIsDue
<1>. QED
  BY <1>5, <1>6

\* Opening the overlay asks for the integrations.
LEMMA OpenKeepsSettings ==
  ASSUME SettingsInv, Options!OpenSettings
  PROVE  SettingsInv'
<1>. DEFINE op == Options!Op("refresh", NoCopy)
<1>1. /\ requests' = Append(requests, op) /\ edits' = {}
      /\ draft' = IF integrations = NoCopy THEN Options!Unset ELSE integrations
      /\ UNCHANGED <<config, workspace, bootstrap, integrations, composer, chosen, spoiled, failed, blind>>
  BY DEF Options!OpenSettings, Options!Send, Options!SetDraft
<1>2. /\ op \in Requests /\ RequestIs(op, config)
      /\ op.kind = "refresh" /\ op.stage = "sent" /\ op.model = NoCopy /\ ~op.late
  <2>1. "refresh" \notin Writes
    BY DEF Writes
  <2>. QED
    BY <2>1, OpIs
<1>. HIDE DEF op
<1>3. CopiesAre /\ RequestsFit(requests, config, workspace) /\ requests \in Seq(Requests)
  BY DEF SettingsInv, RequestsFit
<1>4. ModelIs(op, workspace)
  BY <1>2 DEF ModelIs
<1>5. RequestsFit(requests', config', workspace')
  BY <1>1, <1>2, <1>3, <1>4, AppendedRequests
<1>6. CopiesAre' /\ DraftIs'
  BY <1>1, <1>3, SettingsConstants DEF CopiesAre, DraftIs
<1>7. /\ \A k \in DOMAIN requests : k \in DOMAIN requests' /\ requests'[k] = requests[k]
      /\ \E l \in DOMAIN requests' : /\ requests'[l] = op /\ l \notin DOMAIN requests
                                     /\ \A k \in DOMAIN requests' : k \in DOMAIN requests \/ k = l
  BY <1>1, <1>2, <1>3, SentIs
<1>8. CopiesAreDue'
  BY <1>1, <1>7 DEF SettingsInv, CopiesAreDue
<1>9. ChoicesAreDue'
  <2>1. \A k \in DOMAIN requests' : k \in DOMAIN requests \/ requests'[k].kind = "refresh"
    BY <1>2, <1>7
  <2>2. \A op1 : op1.kind = "refresh" => ~Saves(op1) /\ ~Unwritten(op1)
    BY DEF Writes, Saves, Unwritten
  <2>3. AllWritten(requests') => AllWritten(requests)
    BY <1>7 DEF AllWritten
  <2>. QED
    BY <1>1, <1>7, <2>1, <2>2, <2>3 DEF SettingsInv, ChoicesAreDue
<1>10. ModelIsDue' /\ EffortIsDue'
  BY <1>1, <1>2, SentDue
<1>. QED
  BY <1>5, <1>6, <1>8, <1>9, <1>10 DEF SettingsInv

\* Saving the overlay writes its fields, which are the copies' but for the edits.
LEMMA DefaultsKeepSettings ==
  ASSUME SettingsInv, Options!SaveDefaults
  PROVE  SettingsInv'
<1>. DEFINE op == Options!Op("defaults", draft)
<1>1. /\ requests' = Append(requests, op)
      /\ chosen' = [f \in DOMAIN chosen |-> IF f \in edits THEN draft[f] ELSE chosen[f]]
      /\ blind' = (blind \/ Options!Saving \/ integrations = NoCopy \/ "integrations" \in spoiled \/ failed)
      /\ UNCHANGED <<config, workspace, bootstrap, integrations, composer, draft, edits, spoiled, failed>>
  BY DEF Options!SaveDefaults, Options!Send
<1>2. CopiesAre /\ RequestsFit(requests, config, workspace) /\ requests \in Seq(Requests)
  BY DEF SettingsInv, RequestsFit
<1>3. /\ op \in Requests /\ RequestIs(op, config)
      /\ op.kind = "defaults" /\ op.payload = draft /\ op.stage = "sent" /\ op.model = NoCopy /\ ~op.late
  <2>1. "defaults" \in Writes /\ draft \in Options!Configs
    BY <1>2 DEF Writes, CopiesAre
  <2>. QED
    BY <2>1, OpIs
<1>. HIDE DEF op
<1>4. ModelIs(op, workspace)
  BY <1>3 DEF ModelIs
<1>5. RequestsFit(requests', config', workspace')
  BY <1>1, <1>3, <1>2, <1>4, AppendedRequests
<1>6. /\ chosen' \in Options!Chosen
      /\ chosen'.tier = IF "tier" \in edits THEN draft.tier ELSE chosen.tier
      /\ chosen'.policy = IF "policy" \in edits THEN draft.policy ELSE chosen.policy
  <2>1. /\ chosen.tier \in {"standard", "fast"} /\ chosen.policy \in {"ask", "never"}
        /\ draft.tier \in {"standard", "fast"} /\ draft.policy \in {"ask", "never"}
        /\ DOMAIN chosen = {"tier", "policy"}
    BY <1>2 DEF CopiesAre, Options!Chosen, Options!Configs
  <2>2. chosen' = [f \in {"tier", "policy"} |-> IF f \in edits THEN draft[f] ELSE chosen[f]]
    BY <1>1, <2>1
  <2>3. /\ chosen'.tier = IF "tier" \in edits THEN draft.tier ELSE chosen.tier
        /\ chosen'.policy = IF "policy" \in edits THEN draft.policy ELSE chosen.policy
    BY <2>2
  <2>4. chosen' = [tier |-> chosen'.tier, policy |-> chosen'.policy]
    BY <2>2
  <2>. QED
    BY <2>1, <2>3, <2>4 DEF Options!Chosen
<1>7. CopiesAre' /\ DraftIs'
  <2>1. CopiesAre'
    BY <1>1, <1>2, <1>6 DEF CopiesAre
  <2>2. DraftIs'
    BY <1>1 DEF SettingsInv, DraftIs
  <2>. QED
    BY <2>1, <2>2
<1>8. /\ \A k \in DOMAIN requests : k \in DOMAIN requests' /\ requests'[k] = requests[k]
      /\ \E l \in DOMAIN requests' : /\ requests'[l] = op /\ l \notin DOMAIN requests
                                     /\ \A k \in DOMAIN requests' : k \in DOMAIN requests \/ k = l
  BY <1>1, <1>3, <1>2, SentIs
<1>9. CopiesAreDue'
  BY <1>3, <1>8 DEF CopiesAreDue, Writes, Saves
<1>10. ChoicesAreDue'
  <2>. SUFFICES ASSUME ~failed, ~blind'
                PROVE  /\ \A j, k \in DOMAIN requests' : Saves(requests'[j]) /\ Saves(requests'[k]) => j = k
                       /\ \A k \in DOMAIN requests' : Unwritten(requests'[k]) => Has(requests'[k].payload, chosen')
                       /\ AllWritten(requests') => Has(config, chosen')
    BY <1>1 DEF ChoicesAreDue
  <2>1. ~blind /\ "integrations" \notin spoiled /\ integrations # NoCopy /\ ~Options!Saving
    BY <1>1
  <2>2. \A k \in DOMAIN requests : ~Saves(requests[k])
    BY <2>1 DEF Options!Saving, Writes, Saves
  <2>3. integrations = config
    BY <2>1, <2>2 DEF SettingsInv, CopiesAreDue, Saves
  <2>4. config.tier = chosen.tier /\ config.policy = chosen.policy
    BY <2>1, <2>2 DEF SettingsInv, ChoicesAreDue, AllWritten, Unwritten, Has, Saves
  <2>5. \E k \in DOMAIN requests' : Unwritten(requests'[k])
    BY <1>3, <1>8 DEF Unwritten, Writes
  <2>6. ~AllWritten(requests')
    BY <2>5 DEF AllWritten
  <2>7. draft.tier = chosen'.tier /\ draft.policy = chosen'.policy
    <3>1. /\ "tier" \notin edits => draft.tier = config.tier
          /\ "policy" \notin edits => draft.policy = config.policy
      BY <2>1, <2>3 DEF SettingsInv, DraftIs
    <3>. QED
      BY <1>6, <2>4, <3>1
  <2>8. \A k \in DOMAIN requests' : Unwritten(requests'[k]) => Has(requests'[k].payload, chosen')
    BY <1>3, <1>8, <2>2, <2>7 DEF Has, Unwritten, Saves
  <2>9. \A j \in DOMAIN requests' : Saves(requests'[j]) => j \notin DOMAIN requests
    BY <1>8, <2>2
  <2>10. \A j, k \in DOMAIN requests' : Saves(requests'[j]) /\ Saves(requests'[k]) => j = k
    BY <1>8, <2>9
  <2>. QED
    BY <2>6, <2>8, <2>10
<1>11. ModelIsDue' /\ EffortIsDue'
  BY <1>1, <1>3, SentDue
<1>. QED
  BY <1>5, <1>7, <1>9, <1>10, <1>11 DEF SettingsInv

\* Nothing but the overlay changes.
LEMMA OverlayKeepsSettings ==
  ASSUME SettingsInv, draft' \in Options!Configs, edits' \subseteq {"tier", "policy"}, DraftIs',
         UNCHANGED <<config, workspace, bootstrap, integrations, composer, requests, chosen, spoiled,
                     failed, blind>>
  PROVE  SettingsInv'
<1>1. CopiesAre'
  BY DEF SettingsInv, CopiesAre
<1>2. RequestsFit(requests', config', workspace')
  BY DEF SettingsInv
<1>3. CopiesAreDue'
  BY DEF SettingsInv, CopiesAreDue
<1>4. ChoicesAreDue'
  BY DEF SettingsInv, ChoicesAreDue
<1>5. /\ ModelAgrees' <=> ModelAgrees
      /\ EffortAgrees' <=> EffortAgrees
  BY DEF ModelAgrees, EffortAgrees
<1>6. ModelIsDue' /\ EffortIsDue'
  BY <1>5 DEF SettingsInv, ModelIsDue, EffortIsDue
<1>. QED
  BY <1>1, <1>2, <1>3, <1>4, <1>6 DEF SettingsInv

\* An edit of the overlay.
LEMMA EditKeepsSettings ==
  ASSUME SettingsInv, NEW f \in {"tier", "policy"}, NEW v,
         (f = "tier" /\ v \in {"standard", "fast"}) \/ (f = "policy" /\ v \in {"ask", "never"}),
         Options!EditDraft(f, v)
  PROVE  SettingsInv'
<1>1. /\ draft' = [draft EXCEPT ![f] = v] /\ edits' = edits \cup {f}
      /\ UNCHANGED <<config, workspace, bootstrap, integrations, composer, requests, chosen, spoiled,
                     failed, blind>>
  BY DEF Options!EditDraft
<1>2. draft \in Options!Configs /\ edits \subseteq {"tier", "policy"}
  BY DEF SettingsInv, CopiesAre
<1>3. CASE f = "tier"
  <2>1. /\ draft' \in Options!Configs /\ draft'.policy = draft.policy
        /\ "tier" \in edits' /\ ("policy" \in edits' <=> "policy" \in edits)
    BY <1>1, <1>2, <1>3 DEF Options!Configs
  <2>2. DraftIs'
    BY <1>1, <2>1 DEF SettingsInv, DraftIs
  <2>. QED
    BY <1>1, <1>2, <2>1, <2>2, OverlayKeepsSettings
<1>4. CASE f = "policy"
  <2>1. /\ draft' \in Options!Configs /\ draft'.tier = draft.tier
        /\ "policy" \in edits' /\ ("tier" \in edits' <=> "tier" \in edits)
    BY <1>1, <1>2, <1>4 DEF Options!Configs
  <2>2. DraftIs'
    BY <1>1, <2>1 DEF SettingsInv, DraftIs
  <2>. QED
    BY <1>1, <1>2, <2>1, <2>2, OverlayKeepsSettings
<1>. QED
  BY <1>3, <1>4


\* Steps of a request that stays: what the model and the effort wait for is not about its stage.
LEMMA StagedDue ==
  ASSUME SettingsInv, DOMAIN requests' = DOMAIN requests,
         \A j \in DOMAIN requests : /\ requests'[j].kind = requests[j].kind
                                    /\ requests[j].kind \in {"save", "patch"} =>
                                         requests'[j].model = requests[j].model,
         \A b, field, v : Due(requests, config, b, field, v) => Due(requests', config', b, field, v),
         UNCHANGED <<workspace, bootstrap, integrations, composer, failed>>
  PROVE  ModelIsDue' /\ EffortIsDue'
<1>1. /\ ModelAgrees' <=> ModelAgrees
      /\ EffortAgrees' <=> EffortAgrees
  BY DEF ModelAgrees, EffortAgrees
<1>2. ModelIsDue'
  <2>1. CASE failed \/ ModelAgrees
    BY <1>1, <2>1 DEF ModelIsDue
  <2>2. CASE /\ workspace # NoCopy
             /\ \E k \in DOMAIN requests : /\ requests[k].model = composer.model
                                           /\ requests[k].kind \in {"save", "patch"}
    <3>1. \E k \in DOMAIN requests' : /\ requests'[k].model = composer.model
                                      /\ requests'[k].kind \in {"save", "patch"}
      BY <2>2
    <3>. QED
      BY <2>2, <3>1 DEF ModelIsDue
  <2>3. CASE workspace = NoCopy /\ Due(requests, config, bootstrap.config.model, "model", composer.model)
    <3>1. Due(requests', config', bootstrap.config.model, "model", composer.model)
      BY <2>3
    <3>. QED
      BY <2>3, <3>1 DEF ModelIsDue
  <2>. QED
    BY <2>1, <2>2, <2>3 DEF SettingsInv, ModelIsDue
<1>3. EffortIsDue'
  <2>1. CASE failed \/ EffortAgrees
    BY <1>1, <2>1 DEF EffortIsDue
  <2>2. CASE Due(requests, config, bootstrap.config.effort, "effort", composer.effort)
    <3>1. Due(requests', config', bootstrap.config.effort, "effort", composer.effort)
      BY <2>2
    <3>. QED
      BY <3>1 DEF EffortIsDue
  <2>. QED
    BY <2>1, <2>2 DEF SettingsInv, EffortIsDue
<1>. QED
  BY <1>2, <1>3

\* Codex writes: answers under way become late, the one written is the last so far.
LEMMA WriteKeepsSettings ==
  ASSUME SettingsInv, NEW k \in DOMAIN requests, Options!Write(k)
  PROVE  SettingsInv'
<1>. DEFINE aged(j) == [requests[j] EXCEPT !.late = @ \/ requests[j].stage \in {"written", "read"},
                                           !.old = @ \/ requests[j].stage = "read"]
<1>1. /\ Unwritten(requests[k])
      /\ \A j \in 1..(k - 1) : ~Unwritten(requests[j])
      /\ config' = requests[k].payload
      /\ requests' = [j \in DOMAIN requests |->
                        IF j = k THEN [requests[j] EXCEPT !.stage = "written"] ELSE aged(j)]
      /\ UNCHANGED <<workspace, bootstrap, integrations, composer, draft, edits, chosen, spoiled,
                     failed, blind>>
  BY DEF Options!Write, Unwritten, Writes
<1>2. /\ CopiesAre /\ RequestsFit(requests, config, workspace)
      /\ requests \in Seq(Requests) /\ DOMAIN requests = 1..Len(requests) /\ Len(requests) \in Nat
      /\ \A j \in DOMAIN requests : requests[j] \in Requests
  BY DEF SettingsInv, RequestsFit
<1>3. \A j \in DOMAIN requests : j # k =>
        /\ requests'[j] \in Requests
        /\ requests'[j].kind = requests[j].kind /\ requests'[j].payload = requests[j].payload
        /\ requests'[j].stage = requests[j].stage /\ requests'[j].read = requests[j].read
        /\ requests'[j].model = requests[j].model
        /\ requests'[j].late <=> (requests[j].late \/ requests[j].stage \in {"written", "read"})
        /\ requests'[j].old <=> (requests[j].old \/ requests[j].stage = "read")
  BY <1>1, <1>2 DEF Requests
<1>4. /\ requests'[k] \in Requests
      /\ requests'[k].kind = requests[k].kind /\ requests'[k].payload = requests[k].payload
      /\ requests'[k].stage = "written" /\ requests'[k].read = requests[k].read
      /\ requests'[k].model = requests[k].model
      /\ requests'[k].late = requests[k].late /\ requests'[k].old = requests[k].old
  BY <1>1, <1>2 DEF Requests
<1>5. DOMAIN requests' = DOMAIN requests /\ requests' \in Seq(Requests)
  <2>1. requests' \in [1..Len(requests) -> Requests]
    <3>1. \A j \in DOMAIN requests : requests'[j] \in Requests
      BY <1>3, <1>4
    <3>2. requests' = [j \in 1..Len(requests) |-> requests'[j]]
      BY <1>1, <1>2
    <3>. QED
      BY <1>2, <3>1, <3>2
  <2>. QED
    BY <1>2, <2>1, SeqDef
<1>. HIDE DEF aged
<1>6. \A j \in DOMAIN requests :
        Unwritten(requests'[j]) <=> Unwritten(requests[j]) /\ j # k
  BY <1>3, <1>4 DEF Unwritten
<1>7. RequestsFit(requests', config', workspace')
  <2>1. \A j \in DOMAIN requests : RequestIs(requests'[j], config') /\ ModelIs(requests'[j], workspace')
    <3>. SUFFICES ASSUME NEW j \in DOMAIN requests
                  PROVE  RequestIs(requests'[j], config') /\ ModelIs(requests'[j], workspace')
      OBVIOUS
    <3>1. RequestIs(requests[j], config) /\ ModelIs(requests[j], workspace)
      BY <1>2 DEF RequestsFit
    <3>2. CASE j = k
      BY <1>1, <1>4, <3>1, <3>2 DEF RequestIs, ModelIs, Unwritten, Writes
    <3>3. CASE j # k
      <4>1. requests[j].stage \in {"sent", "written", "read"}
        BY <1>2 DEF Requests
      <4>. QED
        BY <1>1, <1>3, <3>1, <3>3, <4>1 DEF RequestIs, ModelIs
    <3>. QED
      BY <3>2, <3>3
  <2>2. \A i, j \in DOMAIN requests : i < j /\ Unwritten(requests'[i]) /\ requests'[j].kind \in Writes
                                        => Unwritten(requests'[j])
    <3>. SUFFICES ASSUME NEW i \in DOMAIN requests, NEW j \in DOMAIN requests, i < j,
                         Unwritten(requests'[i]), requests'[j].kind \in Writes
                  PROVE  Unwritten(requests'[j])
      OBVIOUS
    <3>1. Unwritten(requests[i]) /\ requests[j].kind \in Writes
      BY <1>3, <1>4, <1>6
    <3>2. Unwritten(requests[j])
      BY <1>2, <3>1 DEF RequestsFit
    <3>3. j # k
      BY <1>1, <1>2, <3>1
    <3>. QED
      BY <1>6, <3>2, <3>3
  <2>3. \A i, j \in DOMAIN requests : requests'[i].kind = "bootstrap" /\ requests'[j].kind = "bootstrap" => i = j
    BY <1>2, <1>3, <1>4 DEF RequestsFit
  <2>. QED
    BY <1>5, <2>1, <2>2, <2>3 DEF RequestsFit
<1>8. CopiesAre'
  <2>1. config' \in Options!Configs
    BY <1>1, <1>2 DEF RequestsFit, RequestIs, Unwritten
  <2>. QED
    BY <1>1, <1>2, <2>1 DEF CopiesAre
<1>9. CopiesAreDue'
  BY <1>1, <1>4, <1>5 DEF CopiesAreDue, Unwritten, Saves
<1>10. DraftIs'
  BY <1>1 DEF SettingsInv, DraftIs
<1>11. ChoicesAreDue'
  <2>1. \A j \in DOMAIN requests : /\ Saves(requests'[j]) <=> Saves(requests[j])
                                   /\ requests'[j].payload = requests[j].payload
    BY <1>3, <1>4 DEF Saves
  <2>. QED
    BY <1>1, <1>5, <1>6, <2>1 DEF SettingsInv, ChoicesAreDue
<1>12. ModelIsDue' /\ EffortIsDue'
  <2>1. ASSUME NEW b, NEW field, NEW v, Due(requests, config, b, field, v)
        PROVE  Due(requests', config', b, field, v)
    <3>1. PICK j \in DOMAIN requests : Recomputes(requests, j, config, b, field, v)
      BY <2>1 DEF Due
    <3>2. LastWriter(requests, j) => LastWriter(requests', j)
      <4>. SUFFICES ASSUME LastWriter(requests, j)
                    PROVE  LastWriter(requests', j)
        OBVIOUS
      <4>1. \A i \in DOMAIN requests' : i > j => ~Unwritten(requests'[i])
        BY <1>5, <1>6 DEF LastWriter
      <4>2. ~requests'[j].late
        <5>1. CASE j = k
          BY <1>4, <5>1 DEF LastWriter
        <5>2. CASE j # k
          <6>1. ~(k > j)
            BY <1>1 DEF LastWriter
          <6>2. k < j
            BY <1>2, <5>2, <6>1
          <6>3. Unwritten(requests[j])
            BY <1>1, <1>2, <6>2 DEF RequestsFit, LastWriter
          <6>. QED
            BY <1>3, <5>2, <6>3 DEF LastWriter, Unwritten
        <5>. QED
          BY <5>1, <5>2
      <4>. QED
        BY <1>3, <1>4, <4>1, <4>2 DEF LastWriter
    <3>3. ~AllWritten(requests)
      BY <1>1 DEF AllWritten
    <3>4. Recomputes(requests', j, config', b, field, v)
      BY <1>3, <1>4, <3>1, <3>2, <3>3 DEF Recomputes
    <3>. QED
      BY <1>5, <3>4 DEF Due
  <2>. QED
    BY <1>1, <1>3, <1>4, <1>5, <2>1, StagedDue
<1>. QED
  BY <1>7, <1>8, <1>9, <1>10, <1>11, <1>12 DEF SettingsInv

\* Codex is read for an answer.
LEMMA ReadKeepsSettings ==
  ASSUME SettingsInv, NEW k \in DOMAIN requests, Options!Read(k)
  PROVE  SettingsInv'
<1>1. /\ \/ requests[k].kind \in Writes /\ requests[k].stage = "written"
         \/ requests[k].kind \in {"refresh", "bootstrap"} /\ requests[k].stage = "sent"
      /\ requests' = [requests EXCEPT ![k].stage = "read", ![k].read = config, ![k].model =
                        IF requests[k].kind = "bootstrap" THEN workspace ELSE @]
      /\ UNCHANGED <<config, workspace, bootstrap, integrations, composer, draft, edits, chosen, spoiled,
                     failed, blind>>
  BY DEF Options!Read, Writes
<1>2. /\ CopiesAre /\ RequestsFit(requests, config, workspace)
      /\ requests \in Seq(Requests) /\ DOMAIN requests = 1..Len(requests) /\ Len(requests) \in Nat
      /\ \A j \in DOMAIN requests : requests[j] \in Requests
      /\ config \in Options!Configs /\ workspace \in Models \cup {NoCopy}
  BY DEF SettingsInv, RequestsFit, CopiesAre
<1>3. \A j \in DOMAIN requests : j # k => requests'[j] = requests[j]
  BY <1>1
<1>4. /\ requests'[k] \in Requests
      /\ requests'[k].kind = requests[k].kind /\ requests'[k].payload = requests[k].payload
      /\ requests'[k].stage = "read" /\ requests'[k].read = config
      /\ requests'[k].model = IF requests[k].kind = "bootstrap" THEN workspace ELSE requests[k].model
      /\ requests'[k].late = requests[k].late /\ requests'[k].old = requests[k].old
  BY <1>1, <1>2 DEF Requests
<1>5. DOMAIN requests' = DOMAIN requests /\ requests' \in Seq(Requests)
  <2>1. requests' \in [1..Len(requests) -> Requests]
    <3>1. \A j \in DOMAIN requests : requests'[j] \in Requests
      BY <1>2, <1>3, <1>4
    <3>2. requests' = [j \in 1..Len(requests) |-> requests'[j]]
      BY <1>1, <1>2
    <3>. QED
      BY <1>2, <3>1, <3>2
  <2>. QED
    BY <1>2, <2>1, SeqDef
<1>6. \A j \in DOMAIN requests : Unwritten(requests'[j]) <=> Unwritten(requests[j])
  BY <1>1, <1>3, <1>4 DEF Unwritten, Writes
<1>7. RequestsFit(requests', config', workspace')
  <2>1. \A j \in DOMAIN requests : RequestIs(requests'[j], config') /\ ModelIs(requests'[j], workspace')
    <3>. SUFFICES ASSUME NEW j \in DOMAIN requests
                  PROVE  RequestIs(requests'[j], config') /\ ModelIs(requests'[j], workspace')
      OBVIOUS
    <3>1. RequestIs(requests[j], config) /\ ModelIs(requests[j], workspace)
      BY <1>2 DEF RequestsFit
    <3>2. CASE j = k
      BY <1>1, <1>2, <1>4, <3>1, <3>2 DEF RequestIs, ModelIs, Writes
    <3>3. CASE j # k
      BY <1>1, <1>3, <3>1, <3>3
    <3>. QED
      BY <3>2, <3>3
  <2>2. \A i, j \in DOMAIN requests : i < j /\ Unwritten(requests'[i]) /\ requests'[j].kind \in Writes
                                        => Unwritten(requests'[j])
    BY <1>2, <1>3, <1>4, <1>6 DEF RequestsFit
  <2>3. \A i, j \in DOMAIN requests : requests'[i].kind = "bootstrap" /\ requests'[j].kind = "bootstrap" => i = j
    BY <1>2, <1>3, <1>4 DEF RequestsFit
  <2>. QED
    BY <1>5, <2>1, <2>2, <2>3 DEF RequestsFit
<1>8. CopiesAre'
  BY <1>1, <1>2 DEF CopiesAre
<1>9. \A j \in DOMAIN requests : /\ requests'[j].kind = requests[j].kind
                                  /\ requests'[j].payload = requests[j].payload
                                  /\ requests'[j].late = requests[j].late
  BY <1>3, <1>4
<1>10. CopiesAreDue'
  BY <1>1, <1>5, <1>9 DEF SettingsInv, CopiesAreDue, Saves
<1>11. DraftIs'
  BY <1>1 DEF SettingsInv, DraftIs
<1>12. AllWritten(requests') <=> AllWritten(requests)
  BY <1>5, <1>6 DEF AllWritten
<1>13. ChoicesAreDue'
  <2>1. \A j \in DOMAIN requests : Saves(requests'[j]) <=> Saves(requests[j])
    BY <1>9 DEF Saves
  <2>. QED
    BY <1>1, <1>5, <1>6, <1>9, <1>12, <2>1 DEF SettingsInv, ChoicesAreDue
<1>14. ModelIsDue' /\ EffortIsDue'
  <2>1. ASSUME NEW b, NEW field, NEW v, Due(requests, config, b, field, v)
        PROVE  Due(requests', config', b, field, v)
    <3>1. PICK j \in DOMAIN requests : Recomputes(requests, j, config, b, field, v)
      BY <2>1 DEF Due
    <3>2. LastWriter(requests, j) => LastWriter(requests', j)
      BY <1>5, <1>6, <1>9 DEF LastWriter
    <3>3. requests'[j].stage = "sent" \/ requests'[j].read = config
          \/ ~(requests[j].stage = "sent" \/ requests[j].read = config)
      BY <1>3, <1>4
    <3>4. Recomputes(requests', j, config', b, field, v)
      BY <1>1, <1>9, <1>12, <3>1, <3>2, <3>3 DEF Recomputes
    <3>. QED
      BY <1>5, <3>4 DEF Due
  <2>. QED
    BY <1>1, <1>3, <1>4, <1>5, <2>1, StagedDue
<1>. QED
  BY <1>7, <1>8, <1>10, <1>11, <1>13, <1>14 DEF SettingsInv


\* The requests without one that ended.
LEMMA EndedIs ==
  ASSUME SettingsInv, NEW k \in DOMAIN requests
  PROVE  /\ requests \in Seq(Requests) /\ RemoveAt(requests, k) \in Seq(Requests)
         /\ RequestsFit(RemoveAt(requests, k), config, workspace)
         /\ requests[k] \in Requests /\ RequestIs(requests[k], config) /\ ModelIs(requests[k], workspace)
         /\ \E at : Kept(requests, RemoveAt(requests, k), {k}, at)
<1>1. /\ requests \in Seq(Requests) /\ RequestsFit(requests, config, workspace)
      /\ RequestIs(requests[k], config) /\ ModelIs(requests[k], workspace)
  BY DEF SettingsInv, RequestsFit
<1>2. requests[k] \in Requests
  BY <1>1
<1>3. /\ RemoveAt(requests, k) \in Seq(Requests)
      /\ \E at : Kept(requests, RemoveAt(requests, k), {k}, at)
  BY <1>1, RemovedIs
<1>4. RequestsFit(RemoveAt(requests, k), config, workspace)
  BY <1>1, <1>3, KeptRequests
<1>. QED
  BY <1>1, <1>2, <1>3, <1>4

\* The choices, when requests end that have nothing to write.
LEMMA EndedChoices ==
  ASSUME SettingsInv, NEW t \in Seq(Requests), NEW gone, NEW at, Kept(requests, t, gone, at),
         \A k \in DOMAIN requests \cap gone : ~Unwritten(requests[k]), ~failed, ~blind
  PROVE  /\ \A j, k \in DOMAIN t : Saves(t[j]) /\ Saves(t[k]) => j = k
         /\ \A j \in DOMAIN t : Unwritten(t[j]) => Has(t[j].payload, chosen)
         /\ AllWritten(t) => Has(config, chosen)
<1>1. requests \in Seq(Requests)
  BY DEF SettingsInv, RequestsFit
<1>2. /\ \A j, k \in DOMAIN requests : Saves(requests[j]) /\ Saves(requests[k]) => j = k
      /\ \A j \in DOMAIN requests : Unwritten(requests[j]) => Has(requests[j].payload, chosen)
      /\ AllWritten(requests) => Has(config, chosen)
  BY DEF SettingsInv, ChoicesAreDue
<1>3. /\ \A j, k \in DOMAIN t : Saves(t[j]) /\ Saves(t[k]) => j = k
      /\ \A j \in DOMAIN t : Unwritten(t[j]) =>
           \E k \in DOMAIN requests : Unwritten(requests[k]) /\ t[j].payload = requests[k].payload
      /\ AllWritten(t) => AllWritten(requests)
  BY <1>1, <1>2, KeptChoices
<1>. QED
  BY <1>2, <1>3

\* The requests with one more that is not a write, and saves only if no other does.
LEMMA FollowedChoices ==
  ASSUME NEW t \in Seq(Requests), NEW op \in Requests, op.kind \notin Writes,
         \A j, k \in DOMAIN t : Saves(t[j]) /\ Saves(t[k]) => j = k,
         Saves(op) => \A j \in DOMAIN t : ~Saves(t[j]),
         \A j \in DOMAIN t : Unwritten(t[j]) => Has(t[j].payload, chosen),
         AllWritten(t) => Has(config, chosen)
  PROVE  /\ \A j, k \in DOMAIN Append(t, op) : Saves(Append(t, op)[j]) /\ Saves(Append(t, op)[k]) => j = k
         /\ \A j \in DOMAIN Append(t, op) :
              Unwritten(Append(t, op)[j]) => Has(Append(t, op)[j].payload, chosen)
         /\ AllWritten(Append(t, op)) => Has(config, chosen)
<1>. DEFINE u == Append(t, op)
<1>1. /\ \A j \in DOMAIN t : j \in DOMAIN u /\ u[j] = t[j]
      /\ \E l \in DOMAIN u : u[l] = op /\ l \notin DOMAIN t /\ \A j \in DOMAIN u : j \in DOMAIN t \/ j = l
  BY SentIs
<1>. HIDE DEF u
<1>2. ~Unwritten(op)
  BY DEF Unwritten
<1>3. \A j, k \in DOMAIN u : Saves(u[j]) /\ Saves(u[k]) => j = k
  BY <1>1
<1>4. \A j \in DOMAIN u : Unwritten(u[j]) => Has(u[j].payload, chosen)
  BY <1>1, <1>2
<1>5. AllWritten(u) => AllWritten(t)
  BY <1>1 DEF AllWritten
<1>. QED
  BY <1>3, <1>4, <1>5 DEF u

\* An answer that leaves a field of the composer behind was not the one it waits for.
LEMMA AnsweredIs ==
  ASSUME SettingsInv, NEW k \in DOMAIN requests, requests[k].stage = "read",
         NEW b, NEW field, NEW v, Recomputes(requests, k, config, b, field, v)
  PROVE  /\ requests[k].kind \in Writes \cup {"bootstrap"}
         /\ requests[k].kind = "save" => Of(requests[k].payload, field) # b \/ Of(requests[k].read, field) = v
         /\ requests[k].kind = "bootstrap" => Of(requests[k].read, field) # b
         /\ requests[k].kind = "defaults" =>
              \/ Of(requests[k].read, field) = v
              \/ b = v /\ Of(config, field) # v /\ AllWritten(requests)
<1>1. RequestIs(requests[k], config)
  BY EndedIs
<1>2. LastWriter(requests, k) => requests[k].payload = config /\ requests[k].read = config
  BY <1>1 DEF LastWriter, RequestIs
<1>3. LastWriter(requests, k) => AllWritten(requests)
  <2>. SUFFICES ASSUME LastWriter(requests, k), NEW j \in DOMAIN requests, Unwritten(requests[j])
                PROVE  FALSE
    BY DEF AllWritten
  <2>1. ~(j > k) /\ requests[k].kind \in Writes
    BY DEF LastWriter
  <2>2. ~Unwritten(requests[k])
    BY DEF Unwritten
  <2>3. j \in Nat /\ k \in Nat
    BY DEF SettingsInv, RequestsFit
  <2>4. j < k
    BY <2>1, <2>2, <2>3
  <2>. QED
    BY <2>1, <2>2, <2>4 DEF SettingsInv, RequestsFit
<1>4. requests[k].kind = "bootstrap" => ~LastWriter(requests, k)
  BY DEF LastWriter, Writes
<1>5. LastWriter(requests, k) => requests[k].kind \in Writes
  BY DEF LastWriter
<1>6. requests[k].kind = "save" => Of(requests[k].payload, field) # b \/ Of(requests[k].read, field) = v
  BY <1>2 DEF Recomputes
<1>7. requests[k].kind = "bootstrap" => Of(requests[k].read, field) # b
  BY <1>4 DEF Recomputes
<1>8. requests[k].kind = "defaults" =>
        \/ Of(requests[k].read, field) = v
        \/ b = v /\ Of(config, field) # v /\ AllWritten(requests)
  BY <1>2, <1>3 DEF Recomputes
<1>9. requests[k].kind \in Writes \cup {"bootstrap"}
  BY <1>5 DEF Recomputes, Writes
<1>. QED
  BY <1>6, <1>7, <1>8, <1>9

-----------------------------------------------------------------------------
\* A request fails; only that of a refresh goes unmarked.
LEMMA FailKeepsSettings ==
  ASSUME SettingsInv, NEW k \in DOMAIN requests, Options!Fail(k)
  PROVE  SettingsInv'
<1>1. /\ requests' = RemoveAt(requests, k)
      /\ failed' = (failed \/ requests[k].kind # "refresh")
      /\ UNCHANGED <<config, workspace, bootstrap, integrations, composer, draft, edits, chosen, spoiled, blind>>
  BY DEF Options!Fail, Options!RemoveAt, RemoveAt
<1>2. PICK at : Kept(requests, requests', {k}, at)
  BY <1>1, EndedIs
<1>3. /\ requests \in Seq(Requests) /\ requests' \in Seq(Requests)
      /\ RequestsFit(requests', config', workspace')
      /\ RequestsFit(requests, config, workspace)
  BY <1>1, EndedIs DEF SettingsInv
<1>4. CopiesAre'
  <2>1. failed' \in BOOLEAN
    BY <1>1
  <2>. QED
    BY <1>1, <2>1 DEF SettingsInv, CopiesAre
<1>5. DraftIs'
  BY <1>1 DEF SettingsInv, DraftIs
<1>6. CASE failed'
  BY <1>3, <1>4, <1>5, <1>6 DEF SettingsInv, CopiesAreDue, ChoicesAreDue, ModelIsDue, EffortIsDue
<1>7. CASE ~failed'
  <2>1. ~failed /\ requests[k].kind = "refresh"
    BY <1>1, <1>7
  <2>2. ~Saves(requests[k]) /\ ~Unwritten(requests[k])
    BY <2>1 DEF Saves, Unwritten, Writes
  <2>3. \A j \in DOMAIN requests : \/ j = k
          \/ \E l \in DOMAIN requests' : /\ requests'[l].kind = requests[j].kind
                                         /\ requests'[l].model = requests[j].model
    BY <1>2, <1>3, KeptAre
  <2>4. CopiesAreDue'
    BY <1>1, <2>1, <2>2, <2>3 DEF SettingsInv, CopiesAreDue, Saves
  <2>5. ChoicesAreDue'
    <3>. SUFFICES ASSUME ~blind
                  PROVE  ChoicesAreDue'
      BY <1>1 DEF ChoicesAreDue
    <3>. QED
      BY <1>1, <1>2, <1>3, <2>1, <2>2, EndedChoices DEF ChoicesAreDue
  <2>6. \A b, field, v : ~Recomputes(requests, k, config, b, field, v)
    BY <2>1 DEF Recomputes, LastWriter, Writes
  <2>7. \A b, field, v : Due(requests, config, b, field, v) => Due(requests', config, b, field, v)
    BY <1>2, <1>3, <2>6, KeptDue
  <2>8. /\ ModelAgrees' <=> ModelAgrees
        /\ EffortAgrees' <=> EffortAgrees
    BY <1>1 DEF ModelAgrees, EffortAgrees
  <2>9. ModelIsDue'
    <3>1. CASE ModelAgrees
      BY <2>8, <3>1 DEF ModelIsDue
    <3>2. CASE /\ workspace # NoCopy
               /\ \E j \in DOMAIN requests : /\ requests[j].model = composer.model
                                             /\ requests[j].kind \in {"save", "patch"}
      <4>1. \E j \in DOMAIN requests' : /\ requests'[j].model = composer.model
                                        /\ requests'[j].kind \in {"save", "patch"}
        BY <2>1, <2>3, <3>2
      <4>. QED
        BY <1>1, <3>2, <4>1 DEF ModelIsDue
    <3>3. CASE workspace = NoCopy /\ Due(requests, config, bootstrap.config.model, "model", composer.model)
      <4>1. Due(requests', config, bootstrap.config.model, "model", composer.model)
        BY <2>7, <3>3
      <4>. QED
        BY <1>1, <3>3, <4>1 DEF ModelIsDue
    <3>. QED
      BY <2>1, <3>1, <3>2, <3>3 DEF SettingsInv, ModelIsDue
  <2>10. EffortIsDue'
    <3>1. CASE EffortAgrees
      BY <2>8, <3>1 DEF EffortIsDue
    <3>2. CASE Due(requests, config, bootstrap.config.effort, "effort", composer.effort)
      <4>1. Due(requests', config, bootstrap.config.effort, "effort", composer.effort)
        BY <2>7, <3>2
      <4>. QED
        BY <1>1, <4>1 DEF EffortIsDue
    <3>. QED
      BY <2>1, <3>1, <3>2 DEF SettingsInv, EffortIsDue
  <2>. QED
    BY <1>3, <1>4, <1>5, <2>4, <2>5, <2>9, <2>10 DEF SettingsInv
<1>. QED
  BY <1>6, <1>7

\* The answer of a refresh.
LEMMA RefreshKeepsSettings ==
  ASSUME SettingsInv, NEW k \in DOMAIN requests, Options!RefreshAnswered(k)
  PROVE  SettingsInv'
<1>. DEFINE op == requests[k]
<1>1. /\ op.kind = "refresh" /\ op.stage = "read"
      /\ Options!Commit(bootstrap, op.read)
      /\ \/ op.read = integrations /\ UNCHANGED <<draft, edits>>
         \/ draft' = (IF op.read = NoCopy THEN Options!Unset ELSE op.read) /\ edits' = {}
      /\ requests' = RemoveAt(requests, k)
      /\ spoiled' = IF op.old THEN spoiled \cup {"integrations"} ELSE spoiled \ {"integrations"}
      /\ UNCHANGED <<config, workspace, chosen, failed, blind>>
  BY DEF Options!RefreshAnswered, Options!SetDraft, Options!Spoil, Options!RemoveAt, RemoveAt
<1>2. PICK at : Kept(requests, requests', {k}, at)
  BY <1>1, EndedIs
<1>3. /\ requests \in Seq(Requests) /\ requests' \in Seq(Requests)
      /\ RequestsFit(requests', config', workspace')
      /\ RequestsFit(requests, config, workspace) /\ CopiesAre
      /\ op.read \in Options!Configs /\ op.read # NoCopy /\ (op.old \/ op.read = config)
  BY <1>1, EndedIs, SettingsConstants DEF SettingsInv, RequestIs
<1>4. bootstrap \in [config : Options!Configs, workspace : Models \cup {NoCopy}]
  BY <1>3 DEF CopiesAre
<1>5. /\ bootstrap' = bootstrap /\ integrations' = op.read
      /\ composer' \in [model : Models, effort : Options!Efforts]
      /\ composer'.effort \in Options!Supports(composer'.model)
  BY <1>1, <1>3, <1>4, CommitIs
<1>. HIDE DEF op
<1>6. CopiesAre'
  <2>1. draft' \in Options!Configs /\ edits' \subseteq {"tier", "policy"}
    BY <1>1, <1>3 DEF CopiesAre
  <2>. QED
    BY <1>1, <1>3, <1>5, <2>1 DEF CopiesAre
<1>7. DraftIs'
  BY <1>1, <1>3, <1>5 DEF SettingsInv, DraftIs
<1>8. ~Saves(requests[k]) /\ ~Unwritten(requests[k])
  BY <1>1 DEF Saves, Unwritten, Writes, op
<1>9. \A j \in DOMAIN requests : \/ j = k
        \/ \E l \in DOMAIN requests' : /\ requests'[l].kind = requests[j].kind
                                       /\ requests'[l].model = requests[j].model
  BY <1>2, <1>3, KeptAre
<1>10. CopiesAreDue'
  <2>1. "bootstrap" \in spoiled' <=> "bootstrap" \in spoiled
    BY <1>1
  <2>2. "integrations" \in spoiled' <=> op.old
    BY <1>1
  <2>. QED
    BY <1>1, <1>3, <1>5, <1>8, <1>9, <2>1, <2>2 DEF SettingsInv, CopiesAreDue, Saves
<1>11. ChoicesAreDue'
  <2>. SUFFICES ASSUME ~failed, ~blind
                PROVE  ChoicesAreDue'
    BY <1>1 DEF ChoicesAreDue
  <2>. QED
    BY <1>1, <1>2, <1>3, <1>8, EndedChoices DEF ChoicesAreDue
<1>12. \A b, field, v : Due(requests, config, b, field, v) => Due(requests', config, b, field, v)
  <2>1. \A b, field, v : ~Recomputes(requests, k, config, b, field, v)
    BY <1>1 DEF Recomputes, LastWriter, Writes, op
  <2>. QED
    BY <1>2, <1>3, <2>1, KeptDue
<1>13. \A v : (\E j \in DOMAIN requests : /\ requests[j].model = v
                                          /\ requests[j].kind \in {"save", "patch"})
                => \E j \in DOMAIN requests' : /\ requests'[j].model = v
                                               /\ requests'[j].kind \in {"save", "patch"}
  BY <1>1, <1>9 DEF op
<1>14. ModelIsDue' /\ EffortIsDue'
  BY <1>1, <1>3, <1>4, <1>12, <1>13, CommitDue
<1>. QED
  BY <1>3, <1>6, <1>7, <1>10, <1>11, <1>14 DEF SettingsInv

\* The answer of the bootstrap query.
LEMMA BootstrapKeepsSettings ==
  ASSUME SettingsInv, NEW k \in DOMAIN requests, Options!BootstrapAnswered(k)
  PROVE  SettingsInv'
<1>. DEFINE op == requests[k]
            b1 == [config |-> op.read, workspace |-> op.model]
<1>1. /\ op.kind = "bootstrap" /\ op.stage = "read"
      /\ Options!Commit(b1, integrations)
      /\ requests' = RemoveAt(requests, k)
      /\ spoiled' = IF op.old THEN spoiled \cup {"bootstrap"} ELSE spoiled \ {"bootstrap"}
      /\ UNCHANGED <<config, workspace, draft, edits, chosen, failed, blind>>
  BY DEF Options!BootstrapAnswered, Options!Spoil, Options!RemoveAt, RemoveAt
<1>2. PICK at : Kept(requests, requests', {k}, at)
  BY <1>1, EndedIs
<1>3. /\ requests \in Seq(Requests) /\ requests' \in Seq(Requests)
      /\ RequestsFit(requests', config', workspace')
      /\ RequestsFit(requests, config, workspace) /\ CopiesAre
      /\ op.read \in Options!Configs /\ (op.old \/ op.read = config)
      /\ op.model \in Models \cup {NoCopy} /\ (op.model = NoCopy <=> workspace = NoCopy)
  <2>1. /\ requests \in Seq(Requests) /\ RemoveAt(requests, k) \in Seq(Requests)
        /\ RequestsFit(RemoveAt(requests, k), config, workspace)
        /\ op \in Requests /\ RequestIs(op, config) /\ ModelIs(op, workspace)
    BY EndedIs
  <2>2. RequestsFit(requests, config, workspace) /\ CopiesAre
    BY DEF SettingsInv
  <2>3. op.model \in Models \cup {NoCopy}
    BY <2>1 DEF Requests
  <2>. HIDE DEF op
  <2>4. op.model = NoCopy <=> workspace = NoCopy
    BY <1>1, <2>1, SettingsConstants DEF ModelIs
  <2>5. op.read \in Options!Configs /\ (op.old \/ op.read = config)
    BY <1>1, <2>1 DEF RequestIs
  <2>. QED
    BY <1>1, <2>1, <2>2, <2>3, <2>4, <2>5
<1>4. /\ b1 \in [config : Options!Configs, workspace : Models \cup {NoCopy}]
      /\ b1.config = op.read /\ b1.workspace = op.model
      /\ integrations \in Options!Configs \cup {NoCopy}
  BY <1>3 DEF CopiesAre
<1>. HIDE DEF op, b1
<1>5. /\ bootstrap' = b1 /\ integrations' = integrations
      /\ composer' \in [model : Models, effort : Options!Efforts]
      /\ composer'.effort \in Options!Supports(composer'.model)
  BY <1>1, <1>3, <1>4, CommitIs
<1>6. CopiesAre'
  BY <1>1, <1>3, <1>4, <1>5 DEF CopiesAre
<1>7. DraftIs'
  BY <1>1, <1>5 DEF SettingsInv, DraftIs
<1>8. requests[k].kind \notin Writes /\ ~Unwritten(requests[k])
  BY <1>1 DEF Unwritten, Writes, op
<1>9. \A j \in DOMAIN requests : \/ j = k
        \/ \E l \in DOMAIN requests' : /\ requests'[l].kind = requests[j].kind
                                       /\ requests'[l].model = requests[j].model
  BY <1>2, <1>3, KeptAre
<1>10. CopiesAreDue'
  <2>1. "integrations" \in spoiled' <=> "integrations" \in spoiled
    BY <1>1
  <2>2. "bootstrap" \in spoiled' <=> op.old
    BY <1>1
  <2>3. (\E j \in DOMAIN requests : requests[j].kind \in Writes)
          => \E j \in DOMAIN requests' : requests'[j].kind \in Writes
    BY <1>8, <1>9
  <2>. QED
    BY <1>1, <1>3, <1>4, <1>5, <2>1, <2>2, <2>3 DEF SettingsInv, CopiesAreDue
<1>11. ChoicesAreDue'
  <2>. SUFFICES ASSUME ~failed, ~blind
                PROVE  ChoicesAreDue'
    BY <1>1 DEF ChoicesAreDue
  <2>. QED
    BY <1>1, <1>2, <1>3, <1>8, EndedChoices DEF ChoicesAreDue
<1>12. ASSUME NEW field, NEW v, Of(b1.config, field) = Of(bootstrap.config, field),
              Due(requests, config, Of(bootstrap.config, field), field, v)
       PROVE  Due(requests', config, Of(b1.config, field), field, v)
  <2>1. ~Recomputes(requests, k, config, Of(bootstrap.config, field), field, v)
    BY <1>1, <1>4, <1>12, AnsweredIs DEF op
  <2>. QED
    BY <1>2, <1>3, <1>12, <2>1, KeptDue
<1>13. \A v : (\E j \in DOMAIN requests : /\ requests[j].model = v
                                          /\ requests[j].kind \in {"save", "patch"})
                => \E j \in DOMAIN requests' : /\ requests'[j].model = v
                                               /\ requests'[j].kind \in {"save", "patch"}
  BY <1>1, <1>9 DEF op
<1>14. b1.workspace = NoCopy <=> bootstrap.workspace = NoCopy
  BY <1>3, <1>4 DEF CopiesAre
<1>15. ModelIsDue' /\ EffortIsDue'
  BY <1>1, <1>4, <1>12, <1>13, <1>14, CommitDue
<1>. QED
  BY <1>3, <1>6, <1>7, <1>10, <1>11, <1>15 DEF SettingsInv


\* The answer of a save, which a patch of the workspace may follow.
LEMMA AnswerKeepsSettings ==
  ASSUME SettingsInv, NEW k \in DOMAIN requests, Options!SaveAnswered(k)
  PROVE  SettingsInv'
<1>. DEFINE op == requests[k]
            b1 == [bootstrap EXCEPT !.config = op.payload]
            t == RemoveAt(requests, k)
            patch == [Options!Op("patch", NoCopy) EXCEPT !.model = op.model]
<1>1. /\ op.kind = "save" /\ op.stage = "read"
      /\ Options!Commit(b1, op.read)
      /\ draft' = (IF op.read = NoCopy THEN Options!Unset ELSE op.read) /\ edits' = {}
      /\ \/ op.model = NoCopy /\ requests' = t
         \/ op.model # NoCopy /\ requests' = Append(t, patch)
      /\ spoiled' = (IF op.late THEN {"bootstrap"} ELSE {}) \cup (IF op.old THEN {"integrations"} ELSE {})
      /\ UNCHANGED <<config, workspace, chosen, failed, blind>>
  BY DEF Options!SaveAnswered, Options!SetDraft, Options!RemoveAt, RemoveAt
<1>2. PICK at : Kept(requests, t, {k}, at)
  BY EndedIs
<1>3. /\ requests \in Seq(Requests) /\ t \in Seq(Requests)
      /\ RequestsFit(t, config, workspace)
      /\ RequestsFit(requests, config, workspace) /\ CopiesAre
      /\ op \in Requests /\ RequestIs(op, config) /\ ModelIs(op, workspace)
  BY EndedIs DEF SettingsInv
<1>. HIDE DEF t
<1>4. /\ op.read \in Options!Configs /\ op.read # NoCopy /\ op.payload \in Options!Configs
      /\ op.old \/ op.read = config
      /\ op.late \/ op.payload = config
      /\ op.model \in Models \cup {NoCopy} /\ (workspace = NoCopy => op.model = NoCopy)
  <2>1. op.model \in Models \cup {NoCopy}
    BY <1>3 DEF Requests
  <2>. QED
    BY <1>1, <1>3, <2>1, SettingsConstants DEF RequestIs, ModelIs, Writes
<1>5. /\ b1 \in [config : Options!Configs, workspace : Models \cup {NoCopy}]
      /\ b1.config = op.payload /\ b1.workspace = bootstrap.workspace
  BY <1>3, <1>4 DEF CopiesAre
<1>6. op.model # NoCopy =>
        /\ patch \in Requests /\ RequestIs(patch, config) /\ ModelIs(patch, workspace)
        /\ patch.kind = "patch" /\ patch.stage = "sent" /\ patch.model = op.model /\ ~patch.late
  <2>. SUFFICES ASSUME op.model # NoCopy
                PROVE  /\ patch \in Requests /\ RequestIs(patch, config) /\ ModelIs(patch, workspace)
                       /\ patch.kind = "patch" /\ patch.stage = "sent" /\ patch.model = op.model
                       /\ ~patch.late
    OBVIOUS
  <2>1. op.model \in Models /\ workspace # NoCopy /\ "patch" \notin Writes
    BY <1>4 DEF Writes
  <2>. HIDE DEF op
  <2>2. /\ patch \in Requests /\ RequestIs(patch, config)
        /\ patch.kind = "patch" /\ patch.stage = "sent" /\ patch.model = op.model /\ ~patch.late
    <3>1. PICK m1 \in Models : m1 = op.model
      BY <2>1
    <3>7. patch = [Options!Op("patch", NoCopy) EXCEPT !.model = m1]
      BY <3>1
    <3>. HIDE DEF patch
    <3>2. patch = [kind |-> "patch", payload |-> NoCopy, stage |-> "sent", read |-> NoCopy,
                   old |-> FALSE, late |-> FALSE, model |-> m1]
      BY <3>7 DEF Options!Op
    <3>3. /\ patch.kind = "patch" /\ patch.stage = "sent" /\ patch.model = m1
          /\ patch.late = FALSE /\ patch.old = FALSE
      BY <3>2
    <3>4. patch \in Requests
      BY <3>2 DEF Requests
    <3>5. RequestIs(patch, config)
      BY <2>1, <3>3 DEF RequestIs
    <3>. QED
      BY <3>1, <3>3, <3>4, <3>5
  <2>. HIDE DEF patch
  <2>. QED
    BY <2>1, <2>2 DEF ModelIs
<1>. HIDE DEF op, b1, patch
<1>7. /\ bootstrap' = b1 /\ integrations' = op.read
      /\ composer' \in [model : Models, effort : Options!Efforts]
      /\ composer'.effort \in Options!Supports(composer'.model)
  BY <1>1, <1>3, <1>4, <1>5, CommitIs
<1>8. RequestsFit(requests', config', workspace')
  BY <1>1, <1>3, <1>6, AppendedRequests
<1>9. CopiesAre'
  <2>1. spoiled' \subseteq {"bootstrap", "integrations"}
    BY <1>1
  <2>2. draft' \in Options!Configs /\ edits' \subseteq {"tier", "policy"}
    BY <1>1, <1>4
  <2>. QED
    BY <1>1, <1>3, <1>4, <1>5, <1>7, <2>1, <2>2 DEF CopiesAre
<1>10. DraftIs'
  BY <1>1, <1>4, <1>7 DEF DraftIs
<1>11. CopiesAreDue'
  <2>1. "bootstrap" \in spoiled' <=> op.late
    BY <1>1
  <2>2. "integrations" \in spoiled' <=> op.old
    BY <1>1
  <2>. QED
    BY <1>1, <1>4, <1>5, <1>7, <2>1, <2>2 DEF CopiesAreDue
<1>12. ~Unwritten(requests[k])
  BY <1>1 DEF Unwritten, op
<1>13. ChoicesAreDue'
  <2>. SUFFICES ASSUME ~failed, ~blind
                PROVE  ChoicesAreDue'
    BY <1>1 DEF ChoicesAreDue
  <2>1. /\ \A i, j \in DOMAIN t : Saves(t[i]) /\ Saves(t[j]) => i = j
        /\ \A j \in DOMAIN t : Unwritten(t[j]) => Has(t[j].payload, chosen)
        /\ AllWritten(t) => Has(config, chosen)
    BY <1>2, <1>3, <1>12, EndedChoices
  <2>2. op.model # NoCopy => patch.kind \notin Writes /\ ~Saves(patch)
    BY <1>6 DEF Writes, Saves
  <2>. QED
    BY <1>1, <1>3, <1>6, <2>1, <2>2, FollowedChoices DEF ChoicesAreDue
<1>14. ASSUME NEW field, NEW v, Of(b1.config, field) = Of(bootstrap.config, field),
              Of(op.read, field) # v, Due(requests, config, Of(bootstrap.config, field), field, v)
       PROVE  Due(requests', config, Of(b1.config, field), field, v)
  <2>1. ~Recomputes(requests, k, config, Of(bootstrap.config, field), field, v)
    BY <1>1, <1>5, <1>14, AnsweredIs DEF op
  <2>2. Due(t, config, Of(b1.config, field), field, v)
    BY <1>2, <1>3, <1>14, <2>1, KeptDue
  <2>3. op.model # NoCopy => patch.kind \notin Writes
    BY <1>6 DEF Writes
  <2>. QED
    BY <1>1, <1>3, <1>6, <2>2, <2>3, AppendedDue
<1>15. \A v : (\E j \in DOMAIN requests : /\ requests[j].model = v
                                          /\ requests[j].kind \in {"save", "patch"})
                => \/ v = NoCopy
                   \/ \E j \in DOMAIN requests' : /\ requests'[j].model = v
                                                  /\ requests'[j].kind \in {"save", "patch"}
  <2>. SUFFICES ASSUME NEW j \in DOMAIN requests, requests[j].model # NoCopy,
                       requests[j].kind \in {"save", "patch"}
                PROVE  \E l \in DOMAIN requests' : /\ requests'[l].model = requests[j].model
                                                   /\ requests'[l].kind \in {"save", "patch"}
    OBVIOUS
  <2>1. requests' = Append(t, patch) =>
          /\ \A l \in DOMAIN t : l \in DOMAIN requests' /\ requests'[l] = t[l]
          /\ op.model # NoCopy => \E l \in DOMAIN requests' : requests'[l] = patch
    BY <1>3, <1>6, SentIs, <1>1
  <2>2. CASE j = k
    BY <1>1, <1>6, <2>1, <2>2 DEF op
  <2>3. CASE j # k
    <3>1. PICK l \in DOMAIN t : t[l].kind = requests[j].kind /\ t[l].model = requests[j].model
      BY <1>2, <1>3, <2>3, KeptAre
    <3>. QED
      BY <1>1, <2>1, <3>1
  <2>. QED
    BY <2>2, <2>3
<1>16. b1.workspace = NoCopy <=> bootstrap.workspace = NoCopy
  BY <1>5
<1>17. ModelIsDue' /\ EffortIsDue'
  <2>1. Options!Shown(b1, op.read) = op.read
    BY <1>4 DEF Options!Shown
  <2>2. \A v : (\E j \in DOMAIN requests : /\ requests[j].model = v
                                           /\ requests[j].kind \in {"save", "patch"})
                 /\ v \in Models
                => \E j \in DOMAIN requests' : /\ requests'[j].model = v
                                               /\ requests'[j].kind \in {"save", "patch"}
    BY <1>15, SettingsConstants
  <2>. QED
    BY <1>1, <1>4, <1>5, <1>14, <1>16, <2>1, <2>2, CommitDue
<1>. QED
  BY <1>8, <1>9, <1>10, <1>11, <1>13, <1>17 DEF SettingsInv


\* The requests when the bootstrap query starts anew.
LEMMA RefetchedIs ==
  ASSUME NEW s \in Seq(Requests), NEW t \in Seq(Requests), NEW k \in DOMAIN s, NEW at, Kept(s, t, {k}, at),
         RequestsFit(t, config, workspace)
  PROVE  \E u \in Seq(Requests) : \E gone : \E by :
           /\ Options!Refetched(t) = Append(u, Options!Op("bootstrap", NoCopy))
           /\ Kept(s, u, gone, by) /\ k \in gone
           /\ \A l \in DOMAIN s \cap gone : l = k \/ s[l].kind = "bootstrap"
           /\ \A l \in DOMAIN u : u[l].kind # "bootstrap"
<1>. DEFINE under == {j \in DOMAIN t : t[j].kind = "bootstrap"}
            new == Options!Op("bootstrap", NoCopy)
<1>1. CASE under = {}
  <2>1. Options!Refetched(t) = Append(t, new)
    BY <1>1 DEF Options!Refetched
  <2>2. \A l \in DOMAIN t : t[l].kind # "bootstrap"
    BY <1>1
  <2>. HIDE DEF new, under
  <2>. QED
    BY <2>1, <2>2 DEF new
<1>2. CASE under # {}
  <2>. DEFINE l == CHOOSE j \in under : TRUE
              u == RemoveAt(t, l)
  <2>1. l \in under
    BY <1>2
  <2>2. Options!Refetched(t) = Append(u, new)
    BY <1>2 DEF Options!Refetched, Options!RemoveAt, RemoveAt
  <2>. HIDE DEF l
  <2>3. l \in DOMAIN t /\ t[l].kind = "bootstrap"
    BY <2>1
  <2>4. /\ u \in Seq(Requests)
        /\ \E by : Kept(t, u, {l}, by)
    BY <2>3, RemovedIs
  <2>. HIDE DEF u, new, under
  <2>5. PICK by : Kept(t, u, {l}, by)
    BY <2>4
  <2>6. PICK through : Kept(s, u, {k, at[l]}, through)
    BY <2>3, <2>4, <2>5, KeptTwice
  <2>7. s[at[l]].kind = "bootstrap"
    BY <2>3, KeptAre
  <2>8. \A j \in DOMAIN u : u[j].kind # "bootstrap"
    <3>. SUFFICES ASSUME NEW j \in DOMAIN u, u[j].kind = "bootstrap"
                  PROVE  FALSE
      OBVIOUS
    <3>1. by[j] \in DOMAIN t \ {l} /\ t[by[j]].kind = "bootstrap"
      BY <2>4, <2>5, KeptAre
    <3>. QED
      BY <2>3, <3>1 DEF RequestsFit
  <2>9. \A j \in DOMAIN s \cap {k, at[l]} : j = k \/ s[j].kind = "bootstrap"
    BY <2>7
  <2>. QED
    BY <2>2, <2>4, <2>6, <2>8, <2>9 DEF new
<1>. QED
  BY <1>1, <1>2

\* The answer of a save of the overlay, which the bootstrap query follows.
LEMMA AnsweredDefaultsKeepSettings ==
  ASSUME SettingsInv, NEW k \in DOMAIN requests, Options!DefaultsAnswered(k)
  PROVE  SettingsInv'
<1>. DEFINE op == requests[k]
            t == RemoveAt(requests, k)
            new == Options!Op("bootstrap", NoCopy)
<1>1. /\ op.kind = "defaults" /\ op.stage = "read"
      /\ Options!Commit(bootstrap, op.read)
      /\ draft' = (IF op.read = NoCopy THEN Options!Unset ELSE op.read) /\ edits' = {}
      /\ requests' = Options!Refetched(t)
      /\ spoiled' = IF op.old THEN spoiled \cup {"integrations"} ELSE spoiled \ {"integrations"}
      /\ UNCHANGED <<config, workspace, chosen, failed, blind>>
  BY DEF Options!DefaultsAnswered, Options!SetDraft, Options!Spoil, Options!RemoveAt, RemoveAt
<1>2. PICK at1 : Kept(requests, t, {k}, at1)
  BY EndedIs
<1>3. /\ requests \in Seq(Requests) /\ t \in Seq(Requests)
      /\ RequestsFit(t, config, workspace)
      /\ RequestsFit(requests, config, workspace) /\ CopiesAre
      /\ op \in Requests /\ RequestIs(op, config) /\ ModelIs(op, workspace)
  BY EndedIs DEF SettingsInv
<1>. HIDE DEF t
<1>4. /\ op.read \in Options!Configs /\ op.read # NoCopy /\ (op.old \/ op.read = config)
  BY <1>1, <1>3, SettingsConstants DEF RequestIs
<1>. HIDE DEF op
<1>5. PICK u \in Seq(Requests) : \E gone : \E at :
           /\ requests' = Append(u, new)
           /\ Kept(requests, u, gone, at) /\ k \in gone
           /\ \A l \in DOMAIN requests \cap gone : l = k \/ requests[l].kind = "bootstrap"
           /\ \A l \in DOMAIN u : u[l].kind # "bootstrap"
  BY <1>1, <1>2, <1>3, RefetchedIs
<1>6. PICK gone, at :
           /\ requests' = Append(u, new)
           /\ Kept(requests, u, gone, at) /\ k \in gone
           /\ \A l \in DOMAIN requests \cap gone : l = k \/ requests[l].kind = "bootstrap"
           /\ \A l \in DOMAIN u : u[l].kind # "bootstrap"
  BY <1>5
<1>7. /\ new \in Requests /\ RequestIs(new, config) /\ ModelIs(new, workspace)
      /\ new.kind = "bootstrap" /\ new.stage = "sent" /\ ~new.late
      /\ new.kind \notin Writes
  <2>1. new = [kind |-> "bootstrap", payload |-> NoCopy, stage |-> "sent", read |-> NoCopy,
               old |-> FALSE, late |-> FALSE, model |-> NoCopy]
    BY DEF Options!Op
  <2>. HIDE DEF new
  <2>2. /\ new.kind = "bootstrap" /\ new.stage = "sent" /\ new.late = FALSE /\ new.old = FALSE
        /\ new.model = NoCopy
    BY <2>1
  <2>3. new \in Requests
    BY <2>1 DEF Requests
  <2>4. RequestIs(new, config) /\ ModelIs(new, workspace) /\ new.kind \notin Writes
    BY <2>2 DEF RequestIs, ModelIs, Writes
  <2>. QED
    BY <2>2, <2>3, <2>4
<1>. HIDE DEF new
<1>8. RequestsFit(u, config, workspace)
  BY <1>3, <1>6, KeptRequests
<1>9. RequestsFit(requests', config', workspace')
  BY <1>1, <1>6, <1>7, <1>8, AppendedRequests
<1>10. bootstrap \in [config : Options!Configs, workspace : Models \cup {NoCopy}]
  BY <1>3 DEF CopiesAre
<1>11. /\ bootstrap' = bootstrap /\ integrations' = op.read
       /\ composer' \in [model : Models, effort : Options!Efforts]
       /\ composer'.effort \in Options!Supports(composer'.model)
  BY <1>1, <1>3, <1>4, <1>10, CommitIs
<1>12. CopiesAre'
  <2>1. draft' \in Options!Configs /\ edits' \subseteq {"tier", "policy"}
    BY <1>1, <1>4
  <2>. QED
    BY <1>1, <1>3, <1>4, <1>11, <2>1 DEF CopiesAre
<1>13. DraftIs'
  BY <1>1, <1>4, <1>11 DEF DraftIs
<1>14. /\ \A j \in DOMAIN u : j \in DOMAIN requests' /\ requests'[j] = u[j]
       /\ \E l \in DOMAIN requests' : requests'[l] = new
  BY <1>6, <1>7, SentIs
<1>15. CopiesAreDue'
  <2>1. \E l \in DOMAIN requests' : Saves(requests'[l])
    BY <1>7, <1>14 DEF Saves
  <2>2. "integrations" \in spoiled' <=> op.old
    BY <1>1
  <2>. QED
    BY <1>4, <1>11, <1>1, <2>1, <2>2 DEF CopiesAreDue
<1>16. \A l \in DOMAIN requests \cap gone : Saves(requests[l]) /\ ~Unwritten(requests[l])
  BY <1>1, <1>6 DEF Saves, Unwritten, Writes, op
<1>17. ChoicesAreDue'
  <2>. SUFFICES ASSUME ~failed, ~blind
                PROVE  ChoicesAreDue'
    BY <1>1 DEF ChoicesAreDue
  <2>1. /\ \A i, j \in DOMAIN u : Saves(u[i]) /\ Saves(u[j]) => i = j
        /\ \A j \in DOMAIN u : Unwritten(u[j]) => Has(u[j].payload, chosen)
        /\ AllWritten(u) => Has(config, chosen)
    BY <1>6, <1>16, EndedChoices
  <2>2. \A j \in DOMAIN u : ~Saves(u[j])
    <3>. SUFFICES ASSUME NEW j \in DOMAIN u, Saves(u[j])
                  PROVE  FALSE
      OBVIOUS
    <3>1. at[j] \in DOMAIN requests \ gone /\ Saves(requests[at[j]])
      BY <1>3, <1>6, KeptAre DEF Saves
    <3>2. Saves(requests[k])
      BY <1>6, <1>16
    <3>3. at[j] = k
      BY <1>1, <3>1, <3>2 DEF SettingsInv, ChoicesAreDue
    <3>. QED
      BY <1>6, <3>1, <3>3
  <2>. QED
    BY <1>1, <1>6, <1>7, <2>1, <2>2, FollowedChoices DEF ChoicesAreDue
<1>18. ASSUME NEW field, NEW v, Of(op.read, field) # v,
              Due(requests, config, Of(bootstrap.config, field), field, v)
       PROVE  Due(requests', config, Of(bootstrap.config, field), field, v)
  <2>. DEFINE b == Of(bootstrap.config, field)
  <2>1. CASE \A l \in DOMAIN requests \cap gone : ~Recomputes(requests, l, config, b, field, v)
    <3>1. Due(u, config, b, field, v)
      BY <1>3, <1>6, <1>18, <2>1, KeptDue
    <3>. QED
      BY <1>6, <1>7, <3>1, AppendedDue
  <2>2. ASSUME NEW l \in DOMAIN requests \cap gone, Recomputes(requests, l, config, b, field, v)
        PROVE  Due(requests', config, b, field, v)
    <3>1. b = v /\ Of(config, field) # v /\ AllWritten(requests)
      <4>1. CASE l = k
        <5>1. requests[k].kind = "defaults" /\ requests[k].stage = "read"
              /\ Of(requests[k].read, field) # v
          BY <1>1, <1>18 DEF op
        <5>. HIDE DEF b
        <5>. QED
          BY <2>2, <4>1, <5>1, AnsweredIs
      <4>2. CASE requests[l].kind = "bootstrap"
        <5>. HIDE DEF b
        <5>. QED
          BY <2>2, <4>2 DEF Recomputes, LastWriter, Writes
      <4>. QED
        BY <1>6, <4>1, <4>2
    <3>. HIDE DEF b
    <3>2. AllWritten(u)
      <4>1. \A j \in DOMAIN u : ~Unwritten(u[j])
        BY <1>3, <1>6, <3>1, KeptAre DEF AllWritten
      <4>. QED
        BY <4>1 DEF AllWritten
    <3>. QED
      BY <1>6, <1>7, <3>1, <3>2, AppendedDue
  <2>. QED
    BY <2>1, <2>2
<1>19. \A v : (\E j \in DOMAIN requests : /\ requests[j].model = v
                                          /\ requests[j].kind \in {"save", "patch"})
                => \E j \in DOMAIN requests' : /\ requests'[j].model = v
                                               /\ requests'[j].kind \in {"save", "patch"}
  <2>. SUFFICES ASSUME NEW j \in DOMAIN requests, requests[j].kind \in {"save", "patch"}
                PROVE  \E l \in DOMAIN requests' : /\ requests'[l].model = requests[j].model
                                                   /\ requests'[l].kind \in {"save", "patch"}
    OBVIOUS
  <2>1. j \notin gone
    BY <1>1, <1>6 DEF op
  <2>2. PICK l \in DOMAIN u : u[l].kind = requests[j].kind /\ u[l].model = requests[j].model
    BY <1>3, <1>6, <2>1, KeptAre
  <2>. QED
    BY <1>14, <2>2
<1>20. ModelIsDue' /\ EffortIsDue'
  <2>1. Options!Shown(bootstrap, op.read) = op.read
    BY <1>4 DEF Options!Shown
  <2>. QED
    BY <1>1, <1>4, <1>10, <1>18, <1>19, <2>1, CommitDue
<1>. QED
  BY <1>9, <1>12, <1>13, <1>15, <1>17, <1>20 DEF SettingsInv


\* The answer of a patch of the workspace.
LEMMA PatchKeepsSettings ==
  ASSUME SettingsInv, NEW k \in DOMAIN requests, Options!PatchAnswered(k)
  PROVE  SettingsInv'
<1>. DEFINE op == requests[k]
            t == RemoveAt(requests, k)
            b1 == [bootstrap EXCEPT !.workspace = op.model]
            aged(o) == [o EXCEPT !.old = @ \/ (o.kind = "bootstrap" /\ o.stage = "read")]
<1>1. /\ op.kind = "patch" /\ workspace' = op.model
      /\ Options!Commit(b1, integrations)
      /\ requests' = [j \in 1..(Len(requests) - 1) |-> aged(t[j])]
      /\ UNCHANGED <<config, draft, edits, chosen, spoiled, failed, blind>>
  BY DEF Options!PatchAnswered, Options!RemoveAt, RemoveAt
<1>2. PICK at : Kept(requests, t, {k}, at)
  BY EndedIs
<1>3. /\ requests \in Seq(Requests) /\ t \in Seq(Requests)
      /\ RequestsFit(t, config, workspace)
      /\ RequestsFit(requests, config, workspace) /\ CopiesAre
      /\ op \in Requests /\ RequestIs(op, config) /\ ModelIs(op, workspace)
  BY EndedIs DEF SettingsInv
<1>4. DOMAIN t = 1..(Len(requests) - 1) /\ Len(requests) \in Nat \ {0}
  BY <1>3, RemoveAtIs
<1>. HIDE DEF t
<1>5. op.model \in Models /\ op.model # NoCopy /\ workspace # NoCopy
  BY <1>1, <1>3, SettingsConstants DEF RequestIs, ModelIs
<1>. HIDE DEF op
<1>6. /\ b1 \in [config : Options!Configs, workspace : Models \cup {NoCopy}]
      /\ b1.config = bootstrap.config /\ b1.workspace = op.model
      /\ integrations \in Options!Configs \cup {NoCopy}
  BY <1>3, <1>5 DEF CopiesAre
<1>. HIDE DEF b1
<1>7. \A o \in Requests : aged(o) \in Requests /\ Same(o, aged(o))
  <2>. SUFFICES ASSUME NEW o \in Requests
                PROVE  aged(o) \in Requests /\ Same(o, aged(o))
    OBVIOUS
  <2>1. CASE o.kind = "bootstrap" /\ o.stage = "read"
    <3>1. aged(o) = [o EXCEPT !.old = TRUE]
      BY <2>1 DEF Requests
    <3>. HIDE DEF aged
    <3>. QED
      BY <2>1, <3>1 DEF Same, Requests
  <2>2. CASE ~(o.kind = "bootstrap" /\ o.stage = "read")
    <3>1. aged(o) = o
      BY <2>2 DEF Requests
    <3>. HIDE DEF aged
    <3>. QED
      BY <3>1 DEF Same
  <2>. QED
    BY <2>1, <2>2
<1>. HIDE DEF aged
<1>8. DOMAIN requests' = DOMAIN t /\ \A j \in DOMAIN t : requests'[j] = aged(t[j]) /\ t[j] \in Requests
  BY <1>1, <1>3, <1>4
<1>9. requests' \in Seq(Requests)
  <2>1. requests' \in [1..(Len(requests) - 1) -> Requests]
    <3>1. \A j \in 1..(Len(requests) - 1) : aged(t[j]) \in Requests
      BY <1>4, <1>7, <1>8
    <3>. QED
      BY <1>1, <3>1
  <2>2. Len(requests) - 1 \in Nat
    BY <1>4
  <2>. QED
    BY <2>1, <2>2, SeqDef
<1>10. Kept(requests, requests', {k}, at)
  <2>1. \A j \in DOMAIN t : t[j] \in Requests /\ Same(t[j], requests'[j])
    BY <1>7, <1>8
  <2>2. \A j \in DOMAIN t : Same(requests[at[j]], t[j]) /\ requests[at[j]] \in Requests
    BY <1>2, <1>3 DEF Kept
  <2>3. \A j \in DOMAIN t : Same(requests[at[j]], requests'[j])
    <3>. SUFFICES ASSUME NEW j \in DOMAIN t
                  PROVE  Same(requests[at[j]], requests'[j])
      OBVIOUS
    <3>1. Same(t[j], requests'[j]) /\ Same(requests[at[j]], t[j]) /\ requests[at[j]] \in Requests
      BY <2>1, <2>2
    <3>. QED
      BY <3>1 DEF Same, Requests
  <2>. QED
    BY <1>2, <1>8, <2>3 DEF Kept
<1>11. RequestsFit(requests', config', workspace')
  <2>1. workspace' = NoCopy <=> workspace = NoCopy
    BY <1>1, <1>5
  <2>. QED
    BY <1>1, <1>3, <1>9, <1>10, <2>1, KeptRequests
<1>12. /\ bootstrap' = b1 /\ integrations' = integrations
       /\ composer' \in [model : Models, effort : Options!Efforts]
       /\ composer'.effort \in Options!Supports(composer'.model)
  BY <1>1, <1>3, <1>6, CommitIs
<1>13. CopiesAre'
  BY <1>1, <1>3, <1>5, <1>6, <1>12 DEF CopiesAre
<1>14. DraftIs'
  BY <1>1, <1>12 DEF SettingsInv, DraftIs
<1>15. ~Saves(requests[k]) /\ ~Unwritten(requests[k])
  BY <1>1 DEF Saves, Unwritten, Writes, op
<1>16. \A j \in DOMAIN requests : \/ j = k
        \/ \E l \in DOMAIN requests' : /\ requests'[l].kind = requests[j].kind
                                       /\ requests'[l].model = requests[j].model
  BY <1>3, <1>9, <1>10, KeptAre
<1>17. CopiesAreDue'
  BY <1>1, <1>6, <1>12, <1>15, <1>16 DEF SettingsInv, CopiesAreDue, Saves
<1>18. ChoicesAreDue'
  <2>. SUFFICES ASSUME ~failed, ~blind
                PROVE  ChoicesAreDue'
    BY <1>1 DEF ChoicesAreDue
  <2>. QED
    BY <1>1, <1>9, <1>10, <1>15, EndedChoices DEF ChoicesAreDue
<1>19. \A b, field, v : Due(requests, config, b, field, v) => Due(requests', config, b, field, v)
  <2>1. \A b, field, v : ~Recomputes(requests, k, config, b, field, v)
    BY <1>1 DEF Recomputes, LastWriter, Writes, op
  <2>. QED
    BY <1>3, <1>9, <1>10, <2>1, KeptDue
<1>20. \A v : op.model # v /\ (\E j \in DOMAIN requests : /\ requests[j].model = v
                                                          /\ requests[j].kind \in {"save", "patch"})
                => \E j \in DOMAIN requests' : /\ requests'[j].model = v
                                               /\ requests'[j].kind \in {"save", "patch"}
  BY <1>16 DEF op
<1>21. ModelIsDue' /\ EffortIsDue'
  <2>1. /\ workspace' = NoCopy <=> workspace = NoCopy
        /\ b1.workspace = NoCopy <=> bootstrap.workspace = NoCopy
    BY <1>1, <1>3, <1>5, <1>6 DEF CopiesAre
  <2>. QED
    BY <1>1, <1>6, <1>19, <1>20, <2>1, CommitDue
<1>. QED
  BY <1>11, <1>13, <1>14, <1>17, <1>18, <1>21 DEF SettingsInv

-----------------------------------------------------------------------------
\* Every state keeps the invariant.
LEMMA SpecSettings == ControlsSpec => []SettingsInv
<1>1. ControlsInit => SettingsInv
  BY InitSettings DEF ControlsInit
<1>2. SettingsInv /\ [ControlsNext]_<<part, vars, settingsVars, decisionVars, shelfVars>> => SettingsInv'
  <2>. SUFFICES ASSUME SettingsInv, [ControlsNext]_<<part, vars, settingsVars, decisionVars, shelfVars>>
                PROVE  SettingsInv'
    OBVIOUS
  <2>1. CASE Options!Next
    <3>1. CASE Options!Choose
      <4>1. CASE Options!CloseSettings
        <5>1. UNCHANGED <<config, workspace, bootstrap, integrations, composer, requests, chosen,
                          spoiled, failed, blind, draft, edits>>
          BY <4>1 DEF Options!CloseSettings
        <5>2. draft' \in Options!Configs /\ edits' \subseteq {"tier", "policy"} /\ DraftIs'
          BY <5>1 DEF SettingsInv, CopiesAre, DraftIs
        <5>. QED
          BY <5>1, <5>2, OverlayKeepsSettings
      <4>2. ASSUME NEW v \in {"standard", "fast"}, Options!EditDraft("tier", v)
            PROVE  SettingsInv'
        BY <4>2, EditKeepsSettings
      <4>3. ASSUME NEW p \in {"ask", "never"}, Options!EditDraft("policy", p)
            PROVE  SettingsInv'
        BY <4>3, EditKeepsSettings
      <4>. QED
        BY <3>1, <4>1, <4>2, <4>3, ControlKeepsSettings, OpenKeepsSettings, DefaultsKeepSettings
           DEF Options!Choose
    <3>2. ASSUME NEW k \in DOMAIN requests,
                 \/ Options!Write(k) \/ Options!Read(k) \/ Options!Fail(k) \/ Options!SaveAnswered(k)
                 \/ Options!DefaultsAnswered(k) \/ Options!RefreshAnswered(k)
                 \/ Options!BootstrapAnswered(k) \/ Options!PatchAnswered(k)
          PROVE  SettingsInv'
      BY <3>2, WriteKeepsSettings, ReadKeepsSettings, FailKeepsSettings, AnswerKeepsSettings,
         AnsweredDefaultsKeepSettings, RefreshKeepsSettings, BootstrapKeepsSettings, PatchKeepsSettings
    <3>. QED
      BY <2>1, <3>1, <3>2 DEF Options!Next
  <2>2. CASE UNCHANGED settingsVars
    <3>1. UNCHANGED <<config, workspace, bootstrap, integrations, composer, requests, chosen,
                      spoiled, failed, blind, draft, edits>>
      BY <2>2 DEF settingsVars
    <3>2. draft' \in Options!Configs /\ edits' \subseteq {"tier", "policy"} /\ DraftIs'
      BY <3>1 DEF SettingsInv, CopiesAre, DraftIs
    <3>. QED
      BY <3>1, <3>2, OverlayKeepsSettings
  <2>. QED
    BY <2>1, <2>2 DEF ControlsNext
<1>. QED
  BY <1>1, <1>2, PTL DEF ControlsSpec

\* When nothing is under way and no save failed, every copy of codex's configuration that no
\* write has overtaken is what codex has, the composer shows it, and what a user chose last
\* is in it (setIntegrationSnapshot(), patchBootstrapCache(), invalidateBootstrap()).
THEOREM SettingsAlwaysAgree == ControlsSpec => []SettingsAgree
<1>1. SettingsInv => SettingsAgree
  <2>. SUFFICES ASSUME SettingsInv, requests = <<>>, ~failed
                PROVE  SettingsAgree
    BY DEF SettingsAgree, Options!SettingsAgree, Options!CopiesAgree, Options!ComposerAgrees,
           Options!ChoicesSurvive, Options!Quiet
  <2>1. DOMAIN requests = {} /\ CopiesAre
    BY DEF SettingsInv
  <2>2. Options!CopiesAgree
    BY <2>1 DEF SettingsInv, CopiesAreDue, Options!CopiesAgree
  <2>3. ModelAgrees /\ EffortAgrees
    BY <2>1 DEF SettingsInv, ModelIsDue, EffortIsDue, Due
  <2>4. Options!ComposerAgrees
    BY <2>1, <2>3 DEF ModelAgrees, EffortAgrees, CopiesAre, Options!ComposerAgrees
  <2>5. Options!ChoicesSurvive
    <3>. SUFFICES ASSUME ~blind
                  PROVE  chosen = [f \in DOMAIN chosen |-> config[f]]
      BY DEF Options!ChoicesSurvive
    <3>1. config.tier = chosen.tier /\ config.policy = chosen.policy
      BY <2>1 DEF SettingsInv, ChoicesAreDue, AllWritten, Has
    <3>2. chosen \in Options!Chosen /\ config \in Options!Configs
      BY <2>1 DEF CopiesAre
    <3>. QED
      BY <3>1, <3>2 DEF Options!Chosen, Options!Configs
  <2>. QED
    BY <2>2, <2>4, <2>5 DEF SettingsAgree, Options!SettingsAgree
<1>. QED
  BY SpecSettings, <1>1, PTL

-----------------------------------------------------------------------------
(* The lists of the overlay. *)

ShelfPlaces == {w1, w2}
ShelfLists == [of : {w1, w2, Nowhere}, rev : Nat]
Maps == UNION {[d -> ShelfLists] : d \in SUBSET Shelves!Parts}
Queries == [query : BOOLEAN, at : {w1, w2, Nowhere}, changes : SUBSET Shelves!Parts,
            reads : SUBSET Shelves!Parts, written : BOOLEAN, got : Maps \cup {<<>>}]
News == [query : BOOLEAN, at : {w1, w2, Nowhere}, news : Shelves!Parts \cup {Absent},
         changes : SUBSET Shelves!Parts, lists : Maps \cup {<<>>}]

\* Lists made for a place are no newer than what codex has.
MadeFor(lists, at, newest) ==
  \A p \in DOMAIN lists : /\ lists[p].of = IF p = "servers" THEN Nowhere ELSE at
                          /\ lists[p].rev <= newest[p]

\* A query changes nothing and reads every list; another call answers with what it changes.
CallIs(r, newest) ==
  /\ r.query => r.at \in ShelfPlaces /\ r.changes = {} /\ r.reads \in {Shelves!Parts, {}}
  /\ ~r.query => r.changes \subseteq r.reads /\ r.reads # {}
  /\ r.got # <<>> /\ r.reads # {} => DOMAIN r.got = r.reads /\ MadeFor(r.got, r.at, newest)

\* An answer to a query has every list; a notification has at most the one it is about, and
\* none of the skills.
MessageIs(m, newest) ==
  /\ m.query => m.at \in ShelfPlaces /\ m.changes = {} /\ DOMAIN m.lists = Shelves!Parts
  /\ m.news = Absent => MadeFor(m.lists, m.at, newest) /\ m.changes \subseteq DOMAIN m.lists
  /\ m.news # Absent => ~m.query /\ m.changes = {} /\ DOMAIN m.lists = {m.news} \ {"skills"}

ShelvesAre ==
  /\ revision \in [Shelves!Parts -> Nat] /\ place \in ShelfPlaces
  /\ DOMAIN data = ShelfPlaces
  /\ \A q \in ShelfPlaces : data[q] # Absent =>
       data[q] \in [Shelves!Parts -> ShelfLists] /\ MadeFor(data[q], q, revision)
  /\ DOMAIN store = Shelves!Parts
  /\ calls \in Seq(Queries) /\ \A k \in DOMAIN calls : CallIs(calls[k], revision)
  /\ arriving \in Seq(News) /\ \A i \in DOMAIN arriving : MessageIs(arriving[i], revision)

\* The store has codex's list of the selected place, or what will say that it has not is on
\* its way: a notification, or a change some call has made and is still to answer.
Told(p) ==
  \/ store[p] = Shelves!Listed(p, place)
  \/ Shelves!Announced(p, arriving)
  \/ \E i \in DOMAIN arriving : p \in arriving[i].changes
  \/ \E k \in DOMAIN calls : calls[k].written /\ p \in calls[k].changes

OverlayIsDue ==
  overlay => \A p \in Shelves!Parts \ misled : Told(p) \/ Shelves!Fetching(place)

\* An answer that equals the data is not copied to the store.  So what the data of the
\* selected place has right, the store has too.
SharedIsTold ==
  data[place] # Absent =>
    \A p \in Shelves!Parts \ misled : data[place][p].rev = revision[p] => Told(p)

\* A notification about skills is newer than all data and than the answers in front of it.
NewsIsNew ==
  \A i \in DOMAIN arriving : arriving[i].news = "skills" =>
    /\ \A q \in ShelfPlaces : data[q] # Absent => data[q]["skills"].rev < revision["skills"]
    /\ \A j \in 1..(i - 1) : arriving[j].query => arriving[j].lists["skills"].rev < revision["skills"]

ShelfInv == ShelvesAre /\ OverlayIsDue /\ SharedIsTold /\ NewsIsNew

-----------------------------------------------------------------------------
(* Sequences of calls and messages. *)

\* A call more.
LEMMA AskedIs ==
  ASSUME ShelvesAre, NEW r \in Queries, CallIs(r, revision)
  PROVE  LET s == Append(calls, r) IN
         /\ s \in Seq(Queries) /\ \A k \in DOMAIN s : CallIs(s[k], revision)
         /\ \A k \in DOMAIN calls : k \in DOMAIN s /\ s[k] = calls[k]
         /\ \E k \in DOMAIN s : s[k] = r
<1>. DEFINE s == Append(calls, r)
<1>1. calls \in Seq(Queries) /\ \A k \in DOMAIN calls : CallIs(calls[k], revision)
  BY DEF ShelvesAre
<1>2. /\ s \in Seq(Queries) /\ Len(calls) \in Nat /\ DOMAIN calls = 1..Len(calls)
      /\ DOMAIN s = 1..(Len(calls) + 1) /\ s[Len(calls) + 1] = r
      /\ \A k \in DOMAIN calls : k \in DOMAIN s /\ s[k] = calls[k]
  BY <1>1, AppendIs
<1>3. ASSUME NEW k \in DOMAIN s
      PROVE  CallIs(s[k], revision)
  <2>1. k \in DOMAIN calls \/ k = Len(calls) + 1
    BY <1>2
  <2>. QED
    BY <1>1, <1>2, <2>1
<1>. QED
  BY <1>2, <1>3

\* A query of the place q, with nothing yet.
LEMMA QueryIs ==
  ASSUME ShelvesAre, NEW q \in ShelfPlaces
  PROVE  LET r == Shelves!Request("query", q) IN
         r \in Queries /\ CallIs(r, revision) /\ Shelves!IsQuery(r, q)
<1>1. Shelves!Requests["query"].changes = {} /\ Shelves!Requests["query"].reads = Shelves!Parts
  BY DEF Shelves!Requests
<1>2. PICK b \in BOOLEAN : b = TRUE
  OBVIOUS
<1>3. "query" \notin Shelves!Placeless
  BY DEF Shelves!Placeless
<1>4. Shelves!Request("query", q) = [query |-> b, at |-> q, changes |-> {}, reads |-> Shelves!Parts,
                                     written |-> b, got |-> <<>>]
  BY <1>1, <1>2, <1>3 DEF Shelves!Request
<1>. DEFINE r == Shelves!Request("query", q)
<1>5. r.query = b /\ r.at = q /\ r.changes = {} /\ r.reads = Shelves!Parts /\ r.got = <<>>
  BY <1>4
<1>6. r \in Queries
  <2>1. q \in {w1, w2, Nowhere}
    BY DEF ShelfPlaces
  <2>2. PICK g \in Maps \cup {<<>>} : g = <<>>
    OBVIOUS
  <2>3. PICK none \in SUBSET Shelves!Parts : none = {}
    OBVIOUS
  <2>4. PICK all \in SUBSET Shelves!Parts : all = Shelves!Parts
    OBVIOUS
  <2>5. r = [query |-> b, at |-> q, changes |-> none, reads |-> all, written |-> b, got |-> g]
    BY <1>4, <2>2, <2>3, <2>4
  <2>. HIDE DEF r
  <2>. QED
    BY <1>2, <2>1, <2>2, <2>3, <2>4, <2>5 DEF Queries
<1>7. CallIs(r, revision)
  BY <1>2, <1>5 DEF CallIs
<1>8. Shelves!IsQuery(r, q)
  BY <1>2, <1>5 DEF Shelves!IsQuery
<1>. QED
  BY <1>6, <1>7, <1>8

\* A fetch joins or is made, and nothing else changes.
LEMMA FetchIs ==
  ASSUME NEW s \in Seq(Queries), \A k \in DOMAIN s : CallIs(s[k], revision), ShelvesAre,
         NEW q \in ShelfPlaces
  PROVE  LET f == Shelves!Fetch(q, s) IN
         /\ f \in Seq(Queries) /\ \A k \in DOMAIN f : CallIs(f[k], revision)
         /\ \A k \in DOMAIN s : k \in DOMAIN f /\ f[k] = s[k]
         /\ \E k \in DOMAIN f : Shelves!IsQuery(f[k], q)
<1>. DEFINE r == Shelves!Request("query", q)
<1>1. r \in Queries /\ CallIs(r, revision) /\ Shelves!IsQuery(r, q)
  BY QueryIs
<1>. HIDE DEF r
<1>2. CASE \E k \in DOMAIN s : Shelves!IsQuery(s[k], q)
  BY <1>2 DEF Shelves!Fetch
<1>3. CASE ~\E k \in DOMAIN s : Shelves!IsQuery(s[k], q)
  <2>1. Shelves!Fetch(q, s) = Append(s, r)
    BY <1>3 DEF Shelves!Fetch, r
  <2>2. /\ Append(s, r) \in Seq(Queries) /\ Len(s) \in Nat /\ DOMAIN s = 1..Len(s)
        /\ DOMAIN Append(s, r) = 1..(Len(s) + 1) /\ Append(s, r)[Len(s) + 1] = r
        /\ \A k \in DOMAIN s : k \in DOMAIN Append(s, r) /\ Append(s, r)[k] = s[k]
    BY <1>1, AppendIs
  <2>3. ASSUME NEW k \in DOMAIN Append(s, r)
        PROVE  CallIs(Append(s, r)[k], revision)
    <3>1. k \in DOMAIN s \/ k = Len(s) + 1
      BY <2>2
    <3>. QED
      BY <1>1, <2>2, <3>1
  <2>4. Len(s) + 1 \in DOMAIN Append(s, r)
    BY <2>2
  <2>. QED
    BY <1>1, <2>1, <2>2, <2>3, <2>4
<1>. QED
  BY <1>2, <1>3

\* What Without leaves: queries of q may go, nothing else does, and the order stays.
Thinned(q, s, f) ==
  /\ \A k \in DOMAIN f : \E j \in DOMAIN s : f[k] = s[j] /\ k <= j
  /\ \A j, l \in DOMAIN f : j < l => \E m, n \in DOMAIN s : m < n /\ f[j] = s[m] /\ f[l] = s[n]
  /\ \A j \in DOMAIN s : Shelves!IsQuery(s[j], q) \/ \E k \in DOMAIN f : f[k] = s[j]

LEMMA WithoutIs ==
  ASSUME NEW S, NEW s \in Seq(S), NEW q
  PROVE  Shelves!Without(q, s) \in Seq(S) /\ Thinned(q, s, Shelves!Without(q, s))
<1>. DEFINE own == {k \in DOMAIN s : Shelves!IsQuery(s[k], q)}
<1>0. Len(s) \in Nat /\ DOMAIN s = 1..Len(s)
  OBVIOUS
<1>1. CASE own = {}
  BY <1>0, <1>1 DEF Shelves!Without, Thinned
<1>2. CASE own # {}
  <2>1. PICK k : k = CHOOSE c \in own : TRUE
    OBVIOUS
  <2>2. k \in DOMAIN s /\ Shelves!IsQuery(s[k], q)
    BY <1>2, <2>1
  <2>3. PICK f : f = RemoveAt(s, k)
    OBVIOUS
  <2>4. Shelves!Without(q, s) = f
    BY <1>2, <2>1, <2>3 DEF Shelves!Without, Shelves!RemoveAt, RemoveAt
  <2>5. /\ f \in Seq(S) /\ Len(s) \in Nat \ {0} /\ DOMAIN f = 1..(Len(s) - 1)
        /\ \A j \in 1..(Len(s) - 1) : f[j] = s[IF j < k THEN j ELSE j + 1]
    BY <2>2, <2>3, RemoveAtIs
  <2>6. k \in 1..Len(s)
    BY <1>0, <2>2
  <2>7. ASSUME NEW j \in DOMAIN f
        PROVE  \E i \in DOMAIN s : f[j] = s[i] /\ j <= i
    <3>. DEFINE i == IF j < k THEN j ELSE j + 1
    <3>1. i \in DOMAIN s /\ j <= i
      BY <1>0, <2>5, <2>6
    <3>. QED
      BY <2>5, <3>1
  <2>8. ASSUME NEW j \in DOMAIN f, NEW l \in DOMAIN f, j < l
        PROVE  \E m, n \in DOMAIN s : m < n /\ f[j] = s[m] /\ f[l] = s[n]
    <3>. DEFINE m == IF j < k THEN j ELSE j + 1
                n == IF l < k THEN l ELSE l + 1
    <3>1. m \in DOMAIN s /\ n \in DOMAIN s /\ m < n
      BY <1>0, <2>5, <2>6, <2>8
    <3>. QED
      BY <2>5, <3>1
  <2>9. ASSUME NEW j \in DOMAIN s, ~Shelves!IsQuery(s[j], q)
        PROVE  \E i \in DOMAIN f : f[i] = s[j]
    <3>1. j # k
      BY <2>2, <2>9
    <3>. DEFINE i == IF j < k THEN j ELSE j - 1
    <3>2. i \in 1..(Len(s) - 1) /\ (IF i < k THEN i ELSE i + 1) = j
      BY <1>0, <2>5, <2>6, <3>1
    <3>. QED
      BY <2>5, <3>2
  <2>. QED
    BY <2>4, <2>5, <2>7, <2>8, <2>9 DEF Thinned
<1>. QED
  BY <1>1, <1>2

-----------------------------------------------------------------------------
(* What the steps keep. *)

\* A call goes on: it is of the same query or has made the same change.
GoesOn(s, t) ==
  \A k \in DOMAIN s : \E j \in DOMAIN t : /\ t[j].query = s[k].query /\ t[j].at = s[k].at
                                          /\ t[j].changes = s[k].changes /\ t[j].written = s[k].written

LEMMA GoesOnIs ==
  ASSUME NEW s, NEW t, GoesOn(s, t)
  PROVE  /\ \A q : (\E k \in DOMAIN s : Shelves!IsQuery(s[k], q))
                     => \E k \in DOMAIN t : Shelves!IsQuery(t[k], q)
         /\ \A p : (\E k \in DOMAIN s : s[k].written /\ p \in s[k].changes)
                     => \E k \in DOMAIN t : t[k].written /\ p \in t[k].changes
BY DEF GoesOn, Shelves!IsQuery

\* Calls are made or go on, and the overlay opens with a fetch.
LEMMA CallsKeepShelf ==
  ASSUME ShelfInv, UNCHANGED <<revision, place, data, store, arriving, misled>>,
         calls' \in Seq(Queries), \A k \in DOMAIN calls' : CallIs(calls'[k], revision), GoesOn(calls, calls'),
         overlay' => overlay \/ \E k \in DOMAIN calls' : Shelves!IsQuery(calls'[k], place)
  PROVE  ShelfInv'
<1>1. /\ ShelvesAre /\ OverlayIsDue /\ SharedIsTold /\ NewsIsNew
      /\ revision' = revision /\ place' = place /\ data' = data /\ store' = store
      /\ arriving' = arriving /\ misled' = misled
  BY DEF ShelfInv
<1>2. ShelvesAre'
  BY <1>1 DEF ShelvesAre, CallIs, MessageIs, MadeFor
<1>3. ASSUME NEW p, Told(p)
      PROVE  Told(p)'
  BY <1>1, <1>3, GoesOnIs DEF Told, Shelves!Listed, Shelves!Announced
<1>4. Shelves!Fetching(place) => Shelves!Fetching(place)'
  BY <1>1, GoesOnIs DEF Shelves!Fetching
<1>5. OverlayIsDue'
  <2>1. overlay' /\ ~overlay => Shelves!Fetching(place)'
    BY <1>1 DEF Shelves!Fetching
  <2>. QED
    BY <1>1, <1>3, <1>4, <2>1 DEF OverlayIsDue
<1>6. SharedIsTold'
  BY <1>1, <1>3 DEF SharedIsTold
<1>7. NewsIsNew'
  BY <1>1 DEF NewsIsNew
<1>. QED
  BY <1>2, <1>5, <1>6, <1>7 DEF ShelfInv

\* The overlay is opened, the window is focused.
LEMMA OpenKeepsShelf ==
  ASSUME ShelfInv, Shelves!OpenOverlay \/ Shelves!Refocus
  PROVE  ShelfInv'
<1>1. ShelvesAre /\ calls \in Seq(Queries) /\ (\A k \in DOMAIN calls : CallIs(calls[k], revision)) /\ place \in ShelfPlaces
  BY DEF ShelfInv, ShelvesAre
<1>2. calls' = Shelves!Fetch(place, calls) /\ UNCHANGED <<revision, place, data, store, arriving, misled>>
  BY DEF Shelves!OpenOverlay, Shelves!Refocus
<1>3. /\ calls' \in Seq(Queries) /\ \A k \in DOMAIN calls' : CallIs(calls'[k], revision)
      /\ \A k \in DOMAIN calls : k \in DOMAIN calls' /\ calls'[k] = calls[k]
      /\ \E k \in DOMAIN calls' : Shelves!IsQuery(calls'[k], place)
  BY <1>1, <1>2, FetchIs
<1>4. GoesOn(calls, calls')
  BY <1>3 DEF GoesOn
<1>. QED
  BY <1>2, <1>3, <1>4, CallsKeepShelf

LEMMA CloseKeepsShelf ==
  ASSUME ShelfInv, Shelves!CloseOverlay
  PROVE  ShelfInv'
<1>1. UNCHANGED <<revision, place, data, store, calls, arriving, misled>> /\ (overlay' => overlay)
  BY DEF Shelves!CloseOverlay
<1>2. /\ calls' \in Seq(Queries) /\ \A k \in DOMAIN calls' : CallIs(calls'[k], revision)
      /\ GoesOn(calls, calls')
  BY <1>1 DEF ShelfInv, ShelvesAre, GoesOn
<1>. QED
  BY <1>1, <1>2, CallsKeepShelf

\* A button is pressed.
LEMMA PressKeepsShelf ==
  ASSUME ShelfInv, NEW kind \in DOMAIN Shelves!Requests, Shelves!Press(kind)
  PROVE  ShelfInv'
<1>. DEFINE r == Shelves!Request(kind, place)
<1>1. ShelvesAre /\ place \in ShelfPlaces
  BY DEF ShelfInv, ShelvesAre
<1>2. kind # "query" /\ calls' = Append(calls, r) /\ UNCHANGED <<revision, place, overlay, data, store, arriving, misled>>
  BY DEF Shelves!Press
<1>3. /\ Shelves!Requests[kind].changes \in SUBSET Shelves!Parts
      /\ Shelves!Requests[kind].reads \in SUBSET Shelves!Parts
      /\ Shelves!Requests[kind].changes \subseteq Shelves!Requests[kind].reads
      /\ Shelves!Requests[kind].reads # {}
  BY DEF Shelves!Requests, Shelves!Parts
<1>4. r \in Queries /\ CallIs(r, revision)
  <2>1. PICK b \in BOOLEAN : b = (kind = "query")
    OBVIOUS
  <2>2. PICK c \in BOOLEAN : c = (Shelves!Requests[kind].changes = {})
    OBVIOUS
  <2>3. PICK at \in {w1, w2, Nowhere} : at = IF kind \in Shelves!Placeless THEN Nowhere ELSE place
    BY <1>1 DEF ShelfPlaces
  <2>4. PICK g \in Maps \cup {<<>>} : g = <<>>
    OBVIOUS
  <2>5. PICK d \in SUBSET Shelves!Parts, e \in SUBSET Shelves!Parts :
          d = Shelves!Requests[kind].changes /\ e = Shelves!Requests[kind].reads
    BY <1>3
  <2>6. r = [query |-> b, at |-> at, changes |-> d, reads |-> e, written |-> c, got |-> g]
    BY <2>1, <2>2, <2>3, <2>4, <2>5 DEF Shelves!Request
  <2>. HIDE DEF r
  <2>7. r \in Queries
    BY <2>1, <2>2, <2>3, <2>4, <2>5, <2>6 DEF Queries
  <2>8. ~r.query /\ r.changes = d /\ r.reads = e /\ r.got = <<>>
    BY <1>2, <2>1, <2>4, <2>6
  <2>. QED
    BY <1>3, <2>5, <2>7, <2>8 DEF CallIs
<1>. HIDE DEF r
<1>5. /\ calls' \in Seq(Queries) /\ \A k \in DOMAIN calls' : CallIs(calls'[k], revision)
      /\ \A k \in DOMAIN calls : k \in DOMAIN calls' /\ calls'[k] = calls[k]
  BY <1>1, <1>2, <1>4, AskedIs
<1>6. GoesOn(calls, calls')
  BY <1>5 DEF GoesOn
<1>. QED
  BY <1>2, <1>5, <1>6, CallsKeepShelf

\* Codex reads the lists.
LEMMA ReadKeepsShelf ==
  ASSUME ShelfInv, NEW k \in DOMAIN calls, Shelves!Read(k)
  PROVE  ShelfInv'
<1>1. /\ ShelvesAre /\ calls \in Seq(Queries) /\ \A j \in DOMAIN calls : CallIs(calls[j], revision)
      /\ calls[k] \in Queries /\ revision \in [Shelves!Parts -> Nat]
  BY DEF ShelfInv, ShelvesAre
<1>2. PICK g : g = [p \in calls[k].reads |-> Shelves!Listed(p, calls[k].at)]
  OBVIOUS
<1>3. /\ calls' = [calls EXCEPT ![k].got = g]
      /\ UNCHANGED <<revision, place, overlay, data, store, arriving, misled>>
  BY <1>2 DEF Shelves!Read
<1>4. calls[k].reads \in SUBSET Shelves!Parts /\ calls[k].at \in {w1, w2, Nowhere}
  BY <1>1 DEF Queries
<1>5. \A p \in calls[k].reads : /\ g[p] \in ShelfLists /\ g[p].rev <= revision[p]
                                /\ g[p].of = IF p = "servers" THEN Nowhere ELSE calls[k].at
  <2>. SUFFICES ASSUME NEW p \in calls[k].reads
                PROVE  /\ g[p] \in ShelfLists /\ g[p].rev <= revision[p]
                       /\ g[p].of = IF p = "servers" THEN Nowhere ELSE calls[k].at
    OBVIOUS
  <2>1. revision[p] \in Nat
    BY <1>1, <1>4
  <2>2. g[p] = [of |-> IF p = "servers" THEN Nowhere ELSE calls[k].at, rev |-> revision[p]]
    BY <1>2 DEF Shelves!Listed
  <2>. QED
    BY <1>4, <2>1, <2>2 DEF ShelfLists
<1>6. g \in Maps \cup {<<>>} /\ DOMAIN g = calls[k].reads
  <2>1. g \in [calls[k].reads -> ShelfLists]
    BY <1>2, <1>5
  <2>. QED
    BY <1>4, <2>1 DEF Maps
<1>7. PICK r : r = [calls[k] EXCEPT !.got = g]
  OBVIOUS
<1>8. /\ r \in Queries /\ r.query = calls[k].query /\ r.at = calls[k].at /\ r.changes = calls[k].changes
      /\ r.written = calls[k].written /\ r.reads = calls[k].reads /\ r.got = g
  BY <1>1, <1>6, <1>7 DEF Queries
<1>9. CallIs(r, revision)
  BY <1>1, <1>5, <1>6, <1>8 DEF CallIs, MadeFor
<1>10. calls' = [calls EXCEPT ![k] = r]
  BY <1>3, <1>7
<1>11. /\ calls' \in Seq(Queries) /\ DOMAIN calls' = DOMAIN calls /\ calls'[k] = r
       /\ \A j \in DOMAIN calls : j # k => calls'[j] = calls[j]
  BY <1>1, <1>8, <1>10
<1>12. \A j \in DOMAIN calls' : CallIs(calls'[j], revision)
  BY <1>1, <1>9, <1>11
<1>13. GoesOn(calls, calls')
  BY <1>8, <1>11 DEF GoesOn
<1>. QED
  BY <1>3, <1>11, <1>12, <1>13, CallsKeepShelf

\* A list made for a place that is as new as codex's is codex's.
LEMMA FreshIs ==
  ASSUME NEW lists \in Maps \cup {<<>>}, NEW at, MadeFor(lists, at, revision), NEW p \in DOMAIN lists,
         lists[p].rev = revision[p]
  PROVE  lists[p] = Shelves!Listed(p, at)
<1>1. lists[p] \in ShelfLists
  <2>1. lists \in Maps
    OBVIOUS
  <2>2. PICK d \in SUBSET Shelves!Parts : lists \in [d -> ShelfLists]
    BY <2>1 DEF Maps
  <2>. QED
    BY <2>2
<1>. QED
  BY <1>1 DEF ShelfLists, MadeFor, Shelves!Listed

\* Revisions grow: what was made for a place before is.
LEMMA StillMade ==
  ASSUME ShelvesAre, revision' \in [Shelves!Parts -> Nat],
         \A p \in Shelves!Parts : revision[p] <= revision'[p]
  PROVE  /\ \A q \in ShelfPlaces : data[q] # Absent =>
              MadeFor(data[q], q, revision')
         /\ \A r \in Queries : CallIs(r, revision) => CallIs(r, revision')
         /\ \A m \in News : MessageIs(m, revision) => MessageIs(m, revision')
<1>1. revision \in [Shelves!Parts -> Nat]
  BY DEF ShelvesAre
<1>2. ASSUME NEW lists \in Maps \cup {<<>>}, NEW at, MadeFor(lists, at, revision)
      PROVE  MadeFor(lists, at, revision')
  <2>. SUFFICES ASSUME NEW p \in DOMAIN lists
                PROVE  /\ lists[p].of = IF p = "servers" THEN Nowhere ELSE at
                       /\ lists[p].rev <= revision'[p]
    BY DEF MadeFor
  <2>1. lists \in Maps
    OBVIOUS
  <2>2. PICK d \in SUBSET Shelves!Parts : lists \in [d -> ShelfLists]
    BY <2>1 DEF Maps
  <2>3. p \in Shelves!Parts /\ lists[p].rev \in Nat
    BY <2>2 DEF ShelfLists
  <2>. QED
    BY <1>1, <1>2, <2>3 DEF MadeFor
<1>3. ASSUME NEW q \in ShelfPlaces, data[q] # Absent
      PROVE  MadeFor(data[q], q, revision')
  <2>1. data[q] \in [Shelves!Parts -> ShelfLists] /\ MadeFor(data[q], q, revision)
    BY <1>3 DEF ShelvesAre
  <2>2. data[q] \in Maps \cup {<<>>}
    BY <2>1 DEF Maps
  <2>. QED
    BY <1>2, <2>1, <2>2
<1>4. ASSUME NEW r \in Queries, CallIs(r, revision)
      PROVE  CallIs(r, revision')
  <2>1. r.got \in Maps \cup {<<>>}
    BY DEF Queries
  <2>2. MadeFor(r.got, r.at, revision) => MadeFor(r.got, r.at, revision')
    BY <1>2, <2>1
  <2>. QED
    BY <1>4, <2>2 DEF CallIs
<1>5. ASSUME NEW m \in News, MessageIs(m, revision)
      PROVE  MessageIs(m, revision')
  <2>1. m.lists \in Maps \cup {<<>>}
    BY DEF News
  <2>2. MadeFor(m.lists, m.at, revision) => MadeFor(m.lists, m.at, revision')
    BY <1>2, <2>1
  <2>. QED
    BY <1>5, <2>2 DEF MessageIs
<1>. QED
  BY <1>3, <1>4, <1>5

\* Another place is selected: its data is copied, or there is none.
LEMMA SelectKeepsShelf ==
  ASSUME ControlsAssumption, ShelfInv, NEW p \in ShelfPlaces, Shelves!Select(p)
  PROVE  ShelfInv'
<1>1. /\ ShelvesAre /\ NewsIsNew /\ calls \in Seq(Queries) /\ (\A k \in DOMAIN calls : CallIs(calls[k], revision))
      /\ place \in ShelfPlaces /\ DOMAIN store = Shelves!Parts
  BY DEF ShelfInv, ShelvesAre
<1>2. /\ p # place /\ Shelves!MoveQuery(p) /\ Shelves!Commit(data, p, arriving)
      /\ UNCHANGED <<revision, overlay, arriving>>
  BY DEF Shelves!Select
<1>3. data' = data /\ place' = p /\ revision' = revision /\ overlay' = overlay /\ arriving' = arriving
  BY <1>2 DEF Shelves!Commit
<1>4. /\ calls' \in Seq(Queries) /\ \A k \in DOMAIN calls' : CallIs(calls'[k], revision)
      /\ overlay => \E k \in DOMAIN calls' : Shelves!IsQuery(calls'[k], p)
  BY <1>1, <1>2, FetchIs DEF Shelves!MoveQuery
<1>5. ASSUME data[p] # Absent
      PROVE  /\ DOMAIN store' = Shelves!Parts
             /\ \A q \in Shelves!Parts : data[p][q].rev = revision[q] => store'[q] = Shelves!Listed(q, p)
  <2>1. data[p] \in [Shelves!Parts -> ShelfLists] /\ MadeFor(data[p], p, revision)
    BY <1>1, <1>5 DEF ShelvesAre
  <2>2. data[place] # data[p]
    <3>1. ASSUME data[place] # Absent
          PROVE  data[place]["skills"].of = place
      <4>1. data[place] \in [Shelves!Parts -> ShelfLists] /\ MadeFor(data[place], place, revision)
        BY <1>1, <3>1 DEF ShelvesAre
      <4>. QED
        BY <4>1 DEF MadeFor, Shelves!Parts
    <3>2. data[p]["skills"].of = p
      BY <2>1 DEF MadeFor, Shelves!Parts
    <3>. QED
      BY <1>2, <1>5, <3>1, <3>2
  <2>3. Shelves!Put(data[p])
    BY <1>2, <1>5, <2>2 DEF Shelves!Commit
  <2>4. data[p] \in Maps \cup {<<>>}
    BY <2>1 DEF Maps
  <2>. QED
    BY <2>1, <2>3, <2>4, FreshIs DEF Shelves!Put
<1>6. DOMAIN store' = Shelves!Parts
  <2>1. CASE data[p] = Absent
    BY <1>1, <1>2, <2>1 DEF Shelves!Commit
  <2>. QED
    BY <1>5, <2>1
<1>7. ShelvesAre'
  BY <1>1, <1>3, <1>4, <1>6 DEF ShelvesAre, CallIs, MessageIs, MadeFor
<1>8. OverlayIsDue'
  BY <1>3, <1>4 DEF OverlayIsDue, Shelves!Fetching
<1>9. SharedIsTold'
  BY <1>3, <1>5 DEF SharedIsTold, Told, Shelves!Listed
<1>10. NewsIsNew'
  BY <1>1, <1>3 DEF NewsIsNew
<1>. QED
  BY <1>7, <1>8, <1>9, <1>10 DEF ShelfInv

\* Data of another place is forgotten.
LEMMA CollectKeepsShelf ==
  ASSUME ShelfInv, NEW p \in ShelfPlaces, Shelves!Collect(p)
  PROVE  ShelfInv'
<1>1. ShelvesAre /\ OverlayIsDue /\ SharedIsTold /\ NewsIsNew /\ DOMAIN data = ShelfPlaces /\ place \in ShelfPlaces
  BY DEF ShelfInv, ShelvesAre
<1>2. /\ p # place /\ data' = [data EXCEPT ![p] = Absent]
      /\ revision' = revision /\ place' = place /\ overlay' = overlay /\ store' = store
      /\ calls' = calls /\ arriving' = arriving /\ misled' = misled
  BY DEF Shelves!Collect
<1>3. /\ DOMAIN data' = ShelfPlaces /\ data'[place] = data[place]
      /\ \A q \in ShelfPlaces : data'[q] # Absent => data'[q] = data[q]
  BY <1>1, <1>2
<1>4. ShelvesAre'
  BY <1>1, <1>2, <1>3 DEF ShelvesAre, CallIs, MessageIs, MadeFor
<1>5. \A q : Told(q) => Told(q)'
  BY <1>2 DEF Told, Shelves!Listed, Shelves!Announced
<1>6. OverlayIsDue'
  BY <1>1, <1>2, <1>5 DEF OverlayIsDue, Shelves!Fetching
<1>7. SharedIsTold'
  BY <1>1, <1>2, <1>3, <1>5 DEF SharedIsTold
<1>8. NewsIsNew'
  BY <1>1, <1>2, <1>3 DEF NewsIsNew
<1>. QED
  BY <1>4, <1>6, <1>7, <1>8 DEF ShelfInv

\* A call makes its change.
LEMMA ChangeKeepsShelf ==
  ASSUME ShelfInv, NEW k \in DOMAIN calls, Shelves!Change(k)
  PROVE  ShelfInv'
<1>1. /\ ShelvesAre /\ OverlayIsDue /\ SharedIsTold /\ NewsIsNew /\ place \in ShelfPlaces
      /\ calls \in Seq(Queries) /\ calls[k] \in Queries /\ \A j \in DOMAIN calls : CallIs(calls[j], revision)
      /\ arriving \in Seq(News) /\ \A i \in DOMAIN arriving : MessageIs(arriving[i], revision)
      /\ revision \in [Shelves!Parts -> Nat]
  BY DEF ShelfInv, ShelvesAre
<1>2. PICK b \in BOOLEAN : b = TRUE
  OBVIOUS
<1>3. /\ revision' = [p \in Shelves!Parts |-> IF p \in calls[k].changes THEN revision[p] + 1 ELSE revision[p]]
      /\ calls' = [calls EXCEPT ![k].written = b]
      /\ place' = place /\ overlay' = overlay /\ data' = data /\ store' = store
      /\ arriving' = arriving /\ misled' = misled
  BY <1>2 DEF Shelves!Change
<1>4. /\ revision' \in [Shelves!Parts -> Nat]
      /\ \A p \in Shelves!Parts : /\ revision[p] <= revision'[p]
                                  /\ p \notin calls[k].changes => revision'[p] = revision[p]
  BY <1>1, <1>3
<1>5. PICK r : r = [calls[k] EXCEPT !.written = b]
  OBVIOUS
<1>6. /\ r \in Queries /\ r.query = calls[k].query /\ r.at = calls[k].at /\ r.changes = calls[k].changes
      /\ r.written = b /\ r.reads = calls[k].reads /\ r.got = calls[k].got
  BY <1>1, <1>5 DEF Queries
<1>7. CallIs(r, revision)
  BY <1>1, <1>6 DEF CallIs
<1>8. calls' = [calls EXCEPT ![k] = r]
  BY <1>3, <1>5
<1>9. /\ calls' \in Seq(Queries) /\ DOMAIN calls' = DOMAIN calls /\ calls'[k] = r
      /\ \A j \in DOMAIN calls : j # k => calls'[j] = calls[j]
  BY <1>1, <1>6, <1>8
<1>10. \A j \in DOMAIN calls' : calls'[j] \in Queries /\ CallIs(calls'[j], revision)
  BY <1>1, <1>6, <1>7, <1>9
<1>11. ShelvesAre'
  <2>1. \A j \in DOMAIN calls' : CallIs(calls'[j], revision')
    BY <1>1, <1>4, <1>10, StillMade
  <2>2. \A i \in DOMAIN arriving : arriving[i] \in News /\ MessageIs(arriving[i], revision')
    BY <1>1, <1>4, StillMade
  <2>3. \A q \in ShelfPlaces : data[q] # Absent => MadeFor(data[q], q, revision')
    BY <1>1, <1>4, StillMade
  <2>. QED
    BY <1>1, <1>3, <1>4, <1>9, <2>1, <2>2, <2>3 DEF ShelvesAre
<1>12. ASSUME NEW p \in Shelves!Parts, Told(p) \/ p \in calls[k].changes
       PROVE  Told(p)'
  <2>1. CASE p \in calls[k].changes
    BY <1>2, <1>6, <1>9, <2>1 DEF Told
  <2>2. CASE p \notin calls[k].changes /\ Told(p)
    <3>1. revision'[p] = revision[p]
      BY <1>4, <2>2
    <3>2. \A j \in DOMAIN calls : calls[j].written /\ p \in calls[j].changes
             => calls'[j].written /\ p \in calls'[j].changes
      BY <1>2, <1>6, <1>9
    <3>. QED
      BY <1>3, <1>9, <2>2, <3>1, <3>2 DEF Told, Shelves!Listed, Shelves!Announced
  <2>. QED
    BY <1>12, <2>1, <2>2
<1>13. Shelves!Fetching(place) => Shelves!Fetching(place)'
  BY <1>3, <1>6, <1>9 DEF Shelves!Fetching, Shelves!IsQuery
<1>14. OverlayIsDue'
  BY <1>1, <1>3, <1>12, <1>13 DEF OverlayIsDue
<1>15. SharedIsTold'
  BY <1>1, <1>3, <1>4, <1>12 DEF SharedIsTold
<1>16. NewsIsNew'
  <2>1. "skills" \in Shelves!Parts
    BY DEF Shelves!Parts
  <2>2. revision["skills"] \in Nat /\ revision'["skills"] \in Nat /\ revision["skills"] <= revision'["skills"]
    BY <1>1, <1>4, <2>1
  <2>. SUFFICES ASSUME NEW i \in DOMAIN arriving, arriving[i].news = "skills"
                PROVE  /\ \A q \in ShelfPlaces : data[q] # Absent => data[q]["skills"].rev < revision'["skills"]
                       /\ \A j \in 1..(i - 1) : arriving[j].query
                            => arriving[j].lists["skills"].rev < revision'["skills"]
    BY <1>3 DEF NewsIsNew
  <2>3. ASSUME NEW q \in ShelfPlaces, data[q] # Absent
        PROVE  data[q]["skills"].rev < revision'["skills"]
    <3>1. data[q]["skills"].rev < revision["skills"] /\ data[q]["skills"].rev \in Nat
      BY <1>1, <2>1, <2>3 DEF NewsIsNew, ShelvesAre, ShelfLists
    <3>. QED
      BY <2>2, <3>1
  <2>4. ASSUME NEW j \in 1..(i - 1), arriving[j].query
        PROVE  arriving[j].lists["skills"].rev < revision'["skills"]
    <3>1. j \in DOMAIN arriving
      BY <1>1
    <3>2. arriving[j] \in News /\ MessageIs(arriving[j], revision)
      BY <1>1, <3>1
    <3>3. arriving[j].lists \in Maps \cup {<<>>} /\ "skills" \in DOMAIN arriving[j].lists
      BY <2>1, <2>4, <3>2 DEF News, MessageIs
    <3>4. arriving[j].lists \in Maps
      BY <3>3
    <3>5. PICK d \in SUBSET Shelves!Parts : arriving[j].lists \in [d -> ShelfLists]
      BY <3>4 DEF Maps
    <3>6. arriving[j].lists["skills"].rev \in Nat
      BY <3>3, <3>5 DEF ShelfLists
    <3>7. arriving[j].lists["skills"].rev < revision["skills"]
      BY <1>1, <2>4 DEF NewsIsNew
    <3>. QED
      BY <2>2, <3>6, <3>7
  <2>. QED
    BY <2>3, <2>4
<1>. QED
  BY <1>11, <1>14, <1>15, <1>16 DEF ShelfInv

\* The skills the page has, or that an answer to a query brings.
LEMMA SkillsAre ==
  ASSUME ShelvesAre
  PROVE  /\ revision["skills"] \in Nat
         /\ \A q \in ShelfPlaces : data[q] # Absent =>
              data[q]["skills"].rev \in Nat /\ data[q]["skills"].rev <= revision["skills"]
         /\ \A j \in DOMAIN arriving : arriving[j].query =>
              /\ arriving[j].lists["skills"].rev \in Nat
              /\ arriving[j].lists["skills"].rev <= revision["skills"]
<1>1. "skills" \in Shelves!Parts
  BY DEF Shelves!Parts
<1>2. revision["skills"] \in Nat
  BY <1>1 DEF ShelvesAre
<1>3. ASSUME NEW q \in ShelfPlaces, data[q] # Absent
      PROVE  data[q]["skills"].rev \in Nat /\ data[q]["skills"].rev <= revision["skills"]
  <2>1. data[q] \in [Shelves!Parts -> ShelfLists] /\ MadeFor(data[q], q, revision)
    BY <1>3 DEF ShelvesAre
  <2>. QED
    BY <1>1, <2>1 DEF MadeFor, ShelfLists
<1>4. ASSUME NEW j \in DOMAIN arriving, arriving[j].query
      PROVE  /\ arriving[j].lists["skills"].rev \in Nat
             /\ arriving[j].lists["skills"].rev <= revision["skills"]
  <2>1. arriving[j] \in News /\ MessageIs(arriving[j], revision)
    BY DEF ShelvesAre
  <2>2. arriving[j].lists \in Maps \cup {<<>>} /\ "skills" \in DOMAIN arriving[j].lists
    BY <1>1, <1>4, <2>1 DEF News, MessageIs
  <2>3. arriving[j].lists \in Maps
    BY <2>2
  <2>4. PICK d \in SUBSET Shelves!Parts : arriving[j].lists \in [d -> ShelfLists]
    BY <2>3 DEF Maps
  <2>5. arriving[j].news = Absent
    BY <1>4, <2>1 DEF MessageIs
  <2>6. MadeFor(arriving[j].lists, arriving[j].at, revision)
    BY <2>1, <2>5 DEF MessageIs
  <2>. QED
    BY <2>2, <2>4, <2>6 DEF MadeFor, ShelfLists
<1>. QED
  BY <1>2, <1>3, <1>4

\* A message more, that is no notification about skills.
LEMMA OtherNews ==
  ASSUME ShelvesAre, NewsIsNew, NEW m \in News, m.news # "skills",
         arriving' = Append(arriving, m), data' = data, revision'["skills"] \in Nat,
         revision["skills"] <= revision'["skills"]
  PROVE  NewsIsNew'
<1>1. /\ arriving' \in Seq(News) /\ Len(arriving) \in Nat /\ DOMAIN arriving = 1..Len(arriving)
      /\ DOMAIN arriving' = 1..(Len(arriving) + 1) /\ arriving'[Len(arriving) + 1] = m
      /\ \A i \in DOMAIN arriving : arriving'[i] = arriving[i]
  BY AppendIs DEF ShelvesAre
<1>. SUFFICES ASSUME NEW i \in DOMAIN arriving', arriving'[i].news = "skills"
              PROVE  /\ \A q \in ShelfPlaces : data[q] # Absent => data[q]["skills"].rev < revision'["skills"]
                     /\ \A j \in 1..(i - 1) : arriving'[j].query
                          => arriving'[j].lists["skills"].rev < revision'["skills"]
  BY DEF NewsIsNew
<1>2. i \in DOMAIN arriving /\ arriving[i].news = "skills"
  BY <1>1
<1>3. \A q \in ShelfPlaces : data[q] # Absent => data[q]["skills"].rev < revision["skills"]
  BY <1>2 DEF NewsIsNew
<1>4. ASSUME NEW j \in 1..(i - 1), arriving'[j].query
      PROVE  arriving'[j].lists["skills"].rev < revision'["skills"]
  <2>1. j \in DOMAIN arriving /\ arriving'[j] = arriving[j]
    BY <1>1, <1>2
  <2>2. arriving[j].lists["skills"].rev < revision["skills"]
    BY <1>2, <1>4, <2>1 DEF NewsIsNew
  <2>. QED
    BY <1>4, <2>1, <2>2, SkillsAre
<1>. QED
  BY <1>3, <1>4, SkillsAre

\* The server answers.
LEMMA RespondKeepsShelf ==
  ASSUME ControlsAssumption, ShelfInv, NEW k \in DOMAIN calls, Shelves!Respond(k)
  PROVE  ShelfInv'
<1>1. /\ ShelvesAre /\ OverlayIsDue /\ SharedIsTold /\ NewsIsNew
      /\ calls \in Seq(Queries) /\ calls[k] \in Queries /\ \A j \in DOMAIN calls : CallIs(calls[j], revision)
      /\ arriving \in Seq(News) /\ \A i \in DOMAIN arriving : MessageIs(arriving[i], revision)
  BY DEF ShelfInv, ShelvesAre
<1>2. PICK m : m = [query |-> calls[k].query, at |-> calls[k].at, news |-> Absent,
                    lists |-> calls[k].got, changes |-> calls[k].changes]
  OBVIOUS
<1>3. /\ calls[k].got # <<>> /\ calls[k].reads # {}
      /\ arriving' = Append(arriving, m)
      /\ calls' = IF calls[k].query THEN [calls EXCEPT ![k].reads = {}] ELSE RemoveAt(calls, k)
      /\ revision' = revision /\ place' = place /\ overlay' = overlay /\ data' = data
      /\ store' = store /\ misled' = misled
  BY <1>2 DEF Shelves!Respond, Shelves!RemoveAt, RemoveAt
<1>4. m \in News /\ MessageIs(m, revision) /\ m.news = Absent /\ m.changes = calls[k].changes
  <2>1. m \in News
    BY <1>1, <1>2 DEF News, Queries
  <2>2. /\ m.query = calls[k].query /\ m.at = calls[k].at /\ m.news = Absent /\ m.lists = calls[k].got
        /\ m.changes = calls[k].changes
    BY <1>2
  <2>3. CallIs(calls[k], revision) /\ calls[k].query \in BOOLEAN
    BY <1>1 DEF Queries
  <2>4. DOMAIN m.lists = calls[k].reads /\ MadeFor(m.lists, m.at, revision)
    BY <1>3, <2>2, <2>3 DEF CallIs
  <2>5. m.query => m.at \in ShelfPlaces /\ m.changes = {} /\ DOMAIN m.lists = Shelves!Parts
    BY <1>3, <2>2, <2>3, <2>4 DEF CallIs
  <2>6. m.changes \subseteq DOMAIN m.lists
    BY <2>2, <2>3, <2>4 DEF CallIs
  <2>. QED
    BY <2>1, <2>2, <2>4, <2>5, <2>6 DEF MessageIs
<1>5. /\ arriving' \in Seq(News) /\ Len(arriving) \in Nat /\ DOMAIN arriving = 1..Len(arriving)
      /\ DOMAIN arriving' = 1..(Len(arriving) + 1) /\ arriving'[Len(arriving) + 1] = m
      /\ \A i \in DOMAIN arriving : i \in DOMAIN arriving' /\ arriving'[i] = arriving[i]
  BY <1>1, <1>3, <1>4, AppendIs
<1>6. \A i \in DOMAIN arriving' : MessageIs(arriving'[i], revision)
  <2>. SUFFICES ASSUME NEW i \in DOMAIN arriving'
                PROVE  MessageIs(arriving'[i], revision)
    OBVIOUS
  <2>1. i \in DOMAIN arriving \/ i = Len(arriving) + 1
    BY <1>5
  <2>. QED
    BY <1>1, <1>4, <1>5, <2>1
<1>7. /\ calls' \in Seq(Queries) /\ \A j \in DOMAIN calls' : CallIs(calls'[j], revision)
      /\ \A j \in DOMAIN calls : \/ j = k /\ ~calls[k].query
                                 \/ \E l \in DOMAIN calls' : /\ calls'[l].query = calls[j].query
                                                             /\ calls'[l].at = calls[j].at
                                                             /\ calls'[l].changes = calls[j].changes
                                                             /\ calls'[l].written = calls[j].written
  <2>1. CASE calls[k].query
    <3>1. PICK none \in SUBSET Shelves!Parts : none = {}
      OBVIOUS
    <3>2. PICK r : r = [calls[k] EXCEPT !.reads = none]
      OBVIOUS
    <3>3. /\ r \in Queries /\ r.query = calls[k].query /\ r.at = calls[k].at /\ r.changes = calls[k].changes
          /\ r.written = calls[k].written /\ r.reads = none /\ r.got = calls[k].got
      BY <1>1, <3>2 DEF Queries
    <3>4. CallIs(r, revision)
      BY <1>1, <2>1, <3>1, <3>3 DEF CallIs
    <3>5. calls' = [calls EXCEPT ![k] = r]
      BY <1>3, <2>1, <3>1, <3>2
    <3>6. /\ calls' \in Seq(Queries) /\ DOMAIN calls' = DOMAIN calls /\ calls'[k] = r
          /\ \A j \in DOMAIN calls : j # k => calls'[j] = calls[j]
      BY <1>1, <3>3, <3>5
    <3>7. \A j \in DOMAIN calls' : CallIs(calls'[j], revision)
      BY <1>1, <3>4, <3>6
    <3>8. \A j \in DOMAIN calls : /\ j \in DOMAIN calls'
                                  /\ calls'[j].query = calls[j].query /\ calls'[j].at = calls[j].at
                                  /\ calls'[j].changes = calls[j].changes
                                  /\ calls'[j].written = calls[j].written
      BY <3>3, <3>6
    <3>. QED
      BY <3>6, <3>7, <3>8
  <2>2. CASE ~calls[k].query
    <3>1. /\ calls' \in Seq(Queries) /\ Len(calls) \in Nat \ {0} /\ DOMAIN calls = 1..Len(calls)
          /\ DOMAIN calls' = 1..(Len(calls) - 1)
          /\ \A j \in 1..(Len(calls) - 1) : calls'[j] = calls[IF j < k THEN j ELSE j + 1]
      BY <1>1, <1>3, <2>2, RemoveAtIs
    <3>2. \A j \in DOMAIN calls' : CallIs(calls'[j], revision)
      BY <1>1, <3>1
    <3>3. ASSUME NEW j \in DOMAIN calls, j # k
          PROVE  \E l \in DOMAIN calls' : calls'[l] = calls[j]
      <4>. DEFINE l == IF j < k THEN j ELSE j - 1
      <4>1. l \in 1..(Len(calls) - 1) /\ (IF l < k THEN l ELSE l + 1) = j
        BY <3>1, <3>3
      <4>. QED
        BY <3>1, <4>1
    <3>. QED
      BY <2>2, <3>1, <3>2, <3>3
  <2>. QED
    BY <2>1, <2>2
<1>8. ShelvesAre'
  BY <1>1, <1>3, <1>5, <1>6, <1>7 DEF ShelvesAre
<1>9. ASSUME NEW p \in Shelves!Parts, Told(p)
      PROVE  Told(p)'
  <2>1. CASE store[p] = Shelves!Listed(p, place)
    BY <1>3, <2>1 DEF Told, Shelves!Listed
  <2>2. CASE Shelves!Announced(p, arriving)
    BY <1>5, <2>2 DEF Told, Shelves!Announced
  <2>3. CASE \E i \in DOMAIN arriving : p \in arriving[i].changes
    BY <1>5, <2>3 DEF Told
  <2>4. CASE \E j \in DOMAIN calls : calls[j].written /\ p \in calls[j].changes
    <3>1. PICK j \in DOMAIN calls : calls[j].written /\ p \in calls[j].changes
      BY <2>4
    <3>2. CASE j = k
      <4>1. Len(arriving) + 1 \in DOMAIN arriving'
        BY <1>5
      <4>. QED
        BY <1>4, <1>5, <3>1, <3>2, <4>1 DEF Told
    <3>3. CASE j # k
      BY <1>7, <3>1, <3>3 DEF Told
    <3>. QED
      BY <3>2, <3>3
  <2>. QED
    BY <1>9, <2>1, <2>2, <2>3, <2>4 DEF Told
<1>10. Shelves!Fetching(place) => Shelves!Fetching(place)'
  BY <1>3, <1>7 DEF Shelves!Fetching, Shelves!IsQuery
<1>11. OverlayIsDue'
  BY <1>1, <1>3, <1>9, <1>10 DEF OverlayIsDue
<1>12. SharedIsTold'
  BY <1>1, <1>3, <1>9 DEF SharedIsTold
<1>13. NewsIsNew'
  <2>1. m.news # "skills"
    BY <1>4 DEF ControlsAssumption, Shelves!Parts
  <2>. QED
    BY <1>1, <1>3, <1>4, <2>1, OtherNews, SkillsAre
<1>. QED
  BY <1>8, <1>11, <1>12, <1>13 DEF ShelfInv

\* Codex changes a list and tells.
LEMMA CodexChangesKeepsShelf ==
  ASSUME ControlsAssumption, ShelfInv, NEW p \in Shelves!Parts, NEW again \in BOOLEAN,
         Shelves!CodexChanges(p, again)
  PROVE  ShelfInv'
<1>1. /\ ShelvesAre /\ OverlayIsDue /\ SharedIsTold /\ NewsIsNew /\ revision \in [Shelves!Parts -> Nat]
      /\ arriving \in Seq(News) /\ \A i \in DOMAIN arriving : arriving[i] \in News /\ MessageIs(arriving[i], revision)
      /\ calls \in Seq(Queries) /\ \A j \in DOMAIN calls : calls[j] \in Queries /\ CallIs(calls[j], revision)
  BY DEF ShelfInv, ShelvesAre
<1>2. PICK lists : lists = IF p = "skills" THEN <<>>
                           ELSE [q \in {p} |-> [of |-> Nowhere, rev |-> revision'[p]]]
  OBVIOUS
<1>3. PICK b \in BOOLEAN : b = FALSE
  OBVIOUS
<1>4. PICK m : m = [query |-> b, at |-> Nowhere, news |-> p, changes |-> {}, lists |-> lists]
  OBVIOUS
<1>5. /\ p \in {"skills", "apps"} /\ (again => p = "apps")
      /\ revision' = IF again THEN revision ELSE [revision EXCEPT ![p] = @ + 1]
      /\ arriving' = Append(arriving, m)
      /\ place' = place /\ overlay' = overlay /\ data' = data /\ store' = store
      /\ calls' = calls /\ misled' = misled
  BY <1>2, <1>3, <1>4 DEF Shelves!CodexChanges
<1>6. /\ revision' \in [Shelves!Parts -> Nat]
      /\ \A q \in Shelves!Parts : revision[q] <= revision'[q] /\ (q # p => revision'[q] = revision[q])
      /\ p = "skills" => revision'["skills"] = revision["skills"] + 1
  <2>1. CASE again
    <3>1. revision' = revision /\ p # "skills"
      BY <1>5, <2>1
    <3>2. \A q \in Shelves!Parts : revision[q] \in Nat
      BY <1>1
    <3>. QED
      BY <1>1, <3>1, <3>2
  <2>2. CASE ~again
    BY <1>1, <1>5, <2>2
  <2>. QED
    BY <2>1, <2>2
<1>7. m \in News /\ MessageIs(m, revision') /\ m.news = p /\ ~m.query
  <2>1. CASE p = "skills"
    <3>1. PICK g \in Maps \cup {<<>>} : g = <<>>
      OBVIOUS
    <3>2. PICK none \in SUBSET Shelves!Parts : none = {}
      OBVIOUS
    <3>3. m = [query |-> b, at |-> Nowhere, news |-> p, changes |-> none, lists |-> g]
      BY <1>2, <1>4, <2>1, <3>1, <3>2
    <3>4. m \in News
      BY <1>3, <3>1, <3>2, <3>3 DEF News
    <3>5. ~m.query /\ m.news = p /\ m.changes = {} /\ DOMAIN m.lists = {}
      BY <1>3, <3>1, <3>2, <3>3
    <3>. QED
      BY <2>1, <3>4, <3>5 DEF MessageIs, ControlsAssumption
  <2>2. CASE p # "skills"
    <3>1. lists = [q \in {p} |-> [of |-> Nowhere, rev |-> revision'[p]]] /\ revision'[p] \in Nat
      BY <1>2, <1>6, <2>2
    <3>2. [of |-> Nowhere, rev |-> revision'[p]] \in ShelfLists
      BY <3>1 DEF ShelfLists
    <3>3. lists \in [{p} -> ShelfLists] /\ DOMAIN lists = {p}
      BY <3>1, <3>2
    <3>4. lists \in Maps
      BY <3>3 DEF Maps
    <3>5. PICK none \in SUBSET Shelves!Parts : none = {}
      OBVIOUS
    <3>6. m = [query |-> b, at |-> Nowhere, news |-> p, changes |-> none, lists |-> lists]
      BY <1>4, <3>5
    <3>7. m \in News
      BY <1>3, <3>4, <3>5, <3>6 DEF News
    <3>8. ~m.query /\ m.news = p /\ m.changes = {} /\ DOMAIN m.lists = {p}
      BY <1>3, <3>3, <3>5, <3>6
    <3>9. {p} \ {"skills"} = {p} /\ p # Absent
      BY <2>2 DEF ControlsAssumption
    <3>. QED
      BY <3>7, <3>8, <3>9 DEF MessageIs
  <2>. QED
    BY <2>1, <2>2
<1>8. /\ arriving' \in Seq(News) /\ Len(arriving) \in Nat /\ DOMAIN arriving = 1..Len(arriving)
      /\ DOMAIN arriving' = 1..(Len(arriving) + 1) /\ arriving'[Len(arriving) + 1] = m
      /\ \A i \in DOMAIN arriving : i \in DOMAIN arriving' /\ arriving'[i] = arriving[i]
  BY <1>1, <1>5, <1>7, AppendIs
<1>9. ShelvesAre'
  <2>1. \A j \in DOMAIN calls : CallIs(calls[j], revision')
    BY <1>1, <1>6, StillMade
  <2>2. \A i \in DOMAIN arriving : MessageIs(arriving[i], revision')
    BY <1>1, <1>6, StillMade
  <2>3. \A q \in ShelfPlaces : data[q] # Absent => MadeFor(data[q], q, revision')
    BY <1>1, <1>6, StillMade
  <2>4. \A i \in DOMAIN arriving' : MessageIs(arriving'[i], revision')
    <3>. SUFFICES ASSUME NEW i \in DOMAIN arriving'
                  PROVE  MessageIs(arriving'[i], revision')
      OBVIOUS
    <3>1. i \in DOMAIN arriving \/ i = Len(arriving) + 1
      BY <1>8
    <3>. QED
      BY <1>7, <1>8, <2>2, <3>1
  <2>. QED
    BY <1>1, <1>5, <1>6, <1>8, <2>1, <2>3, <2>4 DEF ShelvesAre
<1>10. ASSUME NEW q \in Shelves!Parts, Told(q) \/ q = p
       PROVE  Told(q)'
  <2>1. CASE q = p
    <3>1. Len(arriving) + 1 \in DOMAIN arriving'
      BY <1>8
    <3>. QED
      BY <1>7, <1>8, <2>1, <3>1 DEF Told, Shelves!Announced
  <2>2. CASE q # p /\ Told(q)
    <3>1. revision'[q] = revision[q]
      BY <1>6, <2>2
    <3>. QED
      BY <1>5, <1>8, <2>2, <3>1 DEF Told, Shelves!Listed, Shelves!Announced
  <2>. QED
    BY <1>10, <2>1, <2>2
<1>11. OverlayIsDue'
  BY <1>1, <1>5, <1>10 DEF OverlayIsDue, Shelves!Fetching
<1>12. SharedIsTold'
  BY <1>1, <1>5, <1>6, <1>10 DEF SharedIsTold
<1>13. NewsIsNew'
  <2>1. CASE p # "skills"
    <3>1. "skills" \in Shelves!Parts
      BY DEF Shelves!Parts
    <3>. QED
      BY <1>1, <1>5, <1>6, <1>7, <2>1, <3>1, OtherNews
  <2>2. CASE p = "skills"
    <3>1. revision'["skills"] = revision["skills"] + 1
      BY <1>6, <2>2
    <3>2. \A q \in ShelfPlaces : data[q] # Absent => data[q]["skills"].rev < revision'["skills"]
      BY <1>1, <3>1, SkillsAre
    <3>3. ASSUME NEW i \in DOMAIN arriving', NEW j \in 1..(i - 1), arriving'[j].query
          PROVE  arriving'[j].lists["skills"].rev < revision'["skills"]
      <4>1. j \in DOMAIN arriving /\ arriving'[j] = arriving[j]
        BY <1>8
      <4>. QED
        BY <1>1, <3>1, <3>3, <4>1, SkillsAre
    <3>. QED
      BY <1>5, <3>2, <3>3 DEF NewsIsNew
  <2>. QED
    BY <2>1, <2>2
<1>. QED
  BY <1>9, <1>11, <1>12, <1>13 DEF ShelfInv

\* A call is refused: what it has changed is excepted, and everything if it is the query of
\* the selected place.
LEMMA RefusedKeepsShelf ==
  ASSUME ShelfInv, NEW k \in DOMAIN calls, Shelves!Refused(k)
  PROVE  ShelfInv'
<1>1. /\ ShelvesAre /\ OverlayIsDue /\ SharedIsTold /\ NewsIsNew
      /\ calls \in Seq(Queries) /\ \A j \in DOMAIN calls : CallIs(calls[j], revision)
  BY DEF ShelfInv, ShelvesAre
<1>2. /\ calls' = RemoveAt(calls, k)
      /\ misled' = misled \cup (IF Shelves!IsQuery(calls[k], place) THEN Shelves!Parts
                                ELSE IF calls[k].written THEN calls[k].changes ELSE {})
      /\ revision' = revision /\ place' = place /\ overlay' = overlay /\ data' = data
      /\ store' = store /\ arriving' = arriving
  BY DEF Shelves!Refused, Shelves!RemoveAt, RemoveAt
<1>3. /\ calls' \in Seq(Queries) /\ Len(calls) \in Nat \ {0} /\ DOMAIN calls = 1..Len(calls)
      /\ DOMAIN calls' = 1..(Len(calls) - 1)
      /\ \A j \in 1..(Len(calls) - 1) : calls'[j] = calls[IF j < k THEN j ELSE j + 1]
  BY <1>1, <1>2, RemoveAtIs
<1>4. \A j \in DOMAIN calls' : CallIs(calls'[j], revision)
  BY <1>1, <1>3
<1>5. ASSUME NEW j \in DOMAIN calls, j # k
      PROVE  \E l \in DOMAIN calls' : calls'[l] = calls[j]
  <2>. DEFINE l == IF j < k THEN j ELSE j - 1
  <2>1. l \in 1..(Len(calls) - 1) /\ (IF l < k THEN l ELSE l + 1) = j
    BY <1>3, <1>5
  <2>. QED
    BY <1>3, <2>1
<1>6. ShelvesAre'
  BY <1>1, <1>2, <1>3, <1>4 DEF ShelvesAre
<1>7. ASSUME NEW p \in Shelves!Parts \ misled', Told(p)
      PROVE  Told(p)'
  <2>1. ~(calls[k].written /\ p \in calls[k].changes)
    BY <1>2, <1>7
  <2>2. (\E j \in DOMAIN calls : calls[j].written /\ p \in calls[j].changes)
          => \E j \in DOMAIN calls' : calls'[j].written /\ p \in calls'[j].changes
    BY <1>5, <2>1
  <2>. QED
    BY <1>2, <1>7, <2>2 DEF Told, Shelves!Listed, Shelves!Announced
<1>8. Shelves!Fetching(place) /\ (\E p \in Shelves!Parts : p \notin misled') => Shelves!Fetching(place)'
  <2>. SUFFICES ASSUME Shelves!Fetching(place), NEW p \in Shelves!Parts, p \notin misled'
                PROVE  Shelves!Fetching(place)'
    OBVIOUS
  <2>1. ~Shelves!IsQuery(calls[k], place)
    BY <1>2
  <2>. QED
    BY <1>2, <1>5, <2>1 DEF Shelves!Fetching
<1>9. OverlayIsDue'
  BY <1>1, <1>2, <1>7, <1>8 DEF OverlayIsDue
<1>10. SharedIsTold'
  BY <1>1, <1>2, <1>7 DEF SharedIsTold
<1>11. NewsIsNew'
  BY <1>1, <1>2 DEF NewsIsNew
<1>. QED
  BY <1>6, <1>9, <1>10, <1>11 DEF ShelfInv

\* The socket is lost: queries are made again, and what else would have told is excepted.
LEMMA LossKeepsShelf ==
  ASSUME ShelfInv, Shelves!LoseSocket
  PROVE  ShelfInv'
<1>1. /\ ShelvesAre /\ OverlayIsDue /\ SharedIsTold /\ NewsIsNew
      /\ calls \in Seq(Queries) /\ \A j \in DOMAIN calls : CallIs(calls[j], revision)
      /\ arriving \in Seq(News)
  BY DEF ShelfInv, ShelvesAre
<1>. DEFINE again == {Shelves!Request("query", r.at) : r \in {q \in Range(calls) : q.query}}
            wrote == {q \in Range(calls) : q.written}
            undone == UNION {r.changes : r \in wrote}
<1>2. /\ calls' = SetToSeq(again)
      /\ misled' = misled \cup {p \in Shelves!Parts : Shelves!Announced(p, arriving)}
                     \cup (UNION {m.changes : m \in Range(arriving)})
                     \cup undone
      /\ arriving' = <<>>
      /\ revision' = revision /\ place' = place /\ overlay' = overlay /\ data' = data
      /\ store' = store
  BY DEF Shelves!LoseSocket, Shelves!SetToSeq, SetToSeq, Shelves!Range, Range,
         Shelves!Cardinality, Cardinality, Shelves!IsInjective, IsInjective
<1>3. again \subseteq {Shelves!Request("query", w1), Shelves!Request("query", w2)}
  BY <1>1 DEF Range, CallIs, ShelfPlaces
<1>4. IsFiniteSet(again)
  <2>1. IsFiniteSet({Shelves!Request("query", w1), Shelves!Request("query", w2)})
    <3>1. IsFiniteSet({Shelves!Request("query", w1)})
      BY FS_Singleton
    <3>2. IsFiniteSet({Shelves!Request("query", w1)} \cup {Shelves!Request("query", w2)})
      BY <3>1, FS_AddElement
    <3>3. {Shelves!Request("query", w1)} \cup {Shelves!Request("query", w2)}
            = {Shelves!Request("query", w1), Shelves!Request("query", w2)}
      OBVIOUS
    <3>. QED
      BY <3>2, <3>3
  <2>. QED
    BY <1>3, <2>1, FS_Subset
<1>5. /\ calls' \in Seq(again) /\ \A x \in again : \E i \in DOMAIN calls' : calls'[i] = x
  BY <1>2, <1>4, SetToSeqIs
<1>6. \A x \in again : x \in Queries /\ CallIs(x, revision)
  BY <1>1, <1>3, QueryIs DEF ShelfPlaces
<1>7. calls' \in Seq(Queries) /\ \A j \in DOMAIN calls' : CallIs(calls'[j], revision)
  <2>1. again \subseteq Queries
    BY <1>6
  <2>. HIDE DEF again
  <2>2. Len(calls') \in Nat /\ DOMAIN calls' = 1..Len(calls') /\ \A j \in DOMAIN calls' : calls'[j] \in again
    BY <1>5
  <2>3. calls' \in [1..Len(calls') -> again]
    BY <1>5
  <2>. QED
    BY <1>6, <2>1, <2>2, <2>3, SeqDef
<1>8. arriving' \in Seq(News) /\ DOMAIN arriving' = {}
  BY <1>2
<1>9. ShelvesAre'
  BY <1>1, <1>2, <1>7, <1>8 DEF ShelvesAre
<1>10. ASSUME NEW p \in Shelves!Parts \ misled', Told(p)
       PROVE  Told(p)'
  <2>1. ~Shelves!Announced(p, arriving)
    BY <1>2, <1>10
  <2>2. ASSUME NEW i \in DOMAIN arriving, p \in arriving[i].changes
        PROVE  FALSE
    <3>1. arriving[i] \in Range(arriving)
      BY DEF Range
    <3>. QED
      BY <1>2, <1>10, <2>2, <3>1
  <2>3. ASSUME NEW k \in DOMAIN calls, calls[k].written, p \in calls[k].changes
        PROVE  FALSE
    <3>1. calls[k] \in wrote
      BY <2>3 DEF Range
    <3>. HIDE DEF wrote
    <3>2. p \in undone
      BY <2>3, <3>1
    <3>. HIDE DEF undone
    <3>. QED
      BY <1>2, <1>10, <3>2
  <2>4. store[p] = Shelves!Listed(p, place)
    BY <1>10, <2>1, <2>2, <2>3 DEF Told
  <2>. QED
    BY <1>2, <2>4 DEF Told, Shelves!Listed
<1>11. Shelves!Fetching(place) => Shelves!Fetching(place)'
  <2>. SUFFICES ASSUME NEW k \in DOMAIN calls, Shelves!IsQuery(calls[k], place)
                PROVE  \E j \in DOMAIN calls' : Shelves!IsQuery(calls'[j], place)
    BY <1>2 DEF Shelves!Fetching
  <2>1. calls[k].query /\ calls[k].at = place /\ calls[k] \in Range(calls)
    BY DEF Shelves!IsQuery, Range
  <2>2. Shelves!Request("query", place) \in again
    BY <2>1
  <2>3. place \in ShelfPlaces
    BY <1>1 DEF ShelvesAre
  <2>4. Shelves!IsQuery(Shelves!Request("query", place), place)
    BY <1>1, <2>3, QueryIs
  <2>. QED
    BY <1>5, <2>2, <2>4
<1>12. OverlayIsDue'
  BY <1>1, <1>2, <1>10, <1>11 DEF OverlayIsDue
<1>13. SharedIsTold'
  BY <1>1, <1>2, <1>10 DEF SharedIsTold
<1>14. NewsIsNew'
  BY <1>8 DEF NewsIsNew
<1>. QED
  BY <1>9, <1>12, <1>13, <1>14 DEF ShelfInv

-----------------------------------------------------------------------------
(* Messages reach the page. *)

\* What is on its way when the first message has been taken, and perhaps queries of the
\* place q are cancelled with their answers.
LEMMA TakenIs ==
  ASSUME ControlsAssumption, ShelfInv, arriving # <<>>, NEW q,
         arriving' \in {Tail(arriving), Shelves!Without(q, Tail(arriving))}
  PROVE  /\ Head(arriving) \in News /\ MessageIs(Head(arriving), revision)
         /\ arriving' \in Seq(News)
         /\ \A i \in DOMAIN arriving' : \E j \in DOMAIN arriving : arriving'[i] = arriving[j] /\ i < j
         /\ \A i, j \in DOMAIN arriving' : i < j => \E m, n \in DOMAIN arriving :
               m < n /\ arriving'[i] = arriving[m] /\ arriving'[j] = arriving[n]
         /\ \A j \in DOMAIN arriving : \/ arriving[j] = Head(arriving) \/ arriving[j].query
                                       \/ \E i \in DOMAIN arriving' : arriving'[i] = arriving[j]
<1>1. arriving \in Seq(News) /\ \A i \in DOMAIN arriving : MessageIs(arriving[i], revision)
  BY DEF ShelfInv, ShelvesAre
<1>2. PICK t : t = Tail(arriving)
  OBVIOUS
<1>3. /\ Head(arriving) \in News /\ Head(arriving) = arriving[1] /\ t \in Seq(News)
      /\ Len(arriving) \in Nat \ {0} /\ DOMAIN arriving = 1..Len(arriving)
      /\ DOMAIN t = 1..(Len(arriving) - 1)
      /\ \A i \in DOMAIN t : i + 1 \in DOMAIN arriving /\ t[i] = arriving[i + 1]
  BY <1>1, <1>2, TailIs
<1>4. MessageIs(Head(arriving), revision)
  BY <1>1, <1>3
<1>5. /\ \A i \in DOMAIN t : \E j \in DOMAIN arriving : t[i] = arriving[j] /\ i < j
      /\ \A i, j \in DOMAIN t : i < j => \E m, n \in DOMAIN arriving :
            m < n /\ t[i] = arriving[m] /\ t[j] = arriving[n]
  <2>1. ASSUME NEW i \in DOMAIN t
        PROVE  \E j \in DOMAIN arriving : t[i] = arriving[j] /\ i < j
    <3>1. i + 1 \in DOMAIN arriving /\ t[i] = arriving[i + 1] /\ i < i + 1
      BY <1>3
    <3>. QED
      BY <3>1
  <2>2. ASSUME NEW i \in DOMAIN t, NEW j \in DOMAIN t, i < j
        PROVE  \E m, n \in DOMAIN arriving : m < n /\ t[i] = arriving[m] /\ t[j] = arriving[n]
    <3>1. i + 1 < j + 1 /\ i + 1 \in DOMAIN arriving /\ j + 1 \in DOMAIN arriving
      BY <1>3, <2>2
    <3>. QED
      BY <1>3, <3>1
  <2>. QED
    BY <2>1, <2>2
<1>6. ASSUME NEW j \in DOMAIN arriving, arriving[j] # Head(arriving)
      PROVE  \E i \in DOMAIN t : t[i] = arriving[j]
  <2>1. j # 1
    BY <1>3, <1>6
  <2>2. j - 1 \in DOMAIN t /\ (j - 1) + 1 = j
    BY <1>3, <2>1
  <2>. QED
    BY <1>3, <2>2
<1>7. CASE arriving' = t
  BY <1>3, <1>4, <1>5, <1>6, <1>7
<1>8. CASE arriving' = Shelves!Without(q, t)
  <2>1. arriving' \in Seq(News) /\ Thinned(q, t, arriving')
    BY <1>3, <1>8, WithoutIs
  <2>2. DOMAIN arriving' \subseteq Nat /\ DOMAIN t \subseteq Nat /\ DOMAIN arriving \subseteq Nat
    BY <1>3, <2>1
  <2>3. ASSUME NEW i \in DOMAIN arriving'
        PROVE  \E j \in DOMAIN arriving : arriving'[i] = arriving[j] /\ i < j
    <3>1. PICK l \in DOMAIN t : arriving'[i] = t[l] /\ i <= l
      BY <2>1 DEF Thinned
    <3>2. PICK j \in DOMAIN arriving : t[l] = arriving[j] /\ l < j
      BY <1>5
    <3>3. i < j
      BY <2>2, <3>1, <3>2
    <3>. QED
      BY <3>1, <3>2, <3>3
  <2>4. ASSUME NEW i \in DOMAIN arriving', NEW j \in DOMAIN arriving', i < j
        PROVE  \E m, n \in DOMAIN arriving : m < n /\ arriving'[i] = arriving[m] /\ arriving'[j] = arriving[n]
    <3>1. PICK a \in DOMAIN t, b \in DOMAIN t : a < b /\ arriving'[i] = t[a] /\ arriving'[j] = t[b]
      BY <2>1, <2>4 DEF Thinned
    <3>. QED
      BY <1>5, <3>1
  <2>5. ASSUME NEW j \in DOMAIN arriving, arriving[j] # Head(arriving), ~arriving[j].query
        PROVE  \E i \in DOMAIN arriving' : arriving'[i] = arriving[j]
    <3>1. PICK l \in DOMAIN t : t[l] = arriving[j]
      BY <1>6, <2>5
    <3>2. ~Shelves!IsQuery(t[l], q)
      BY <2>5, <3>1 DEF Shelves!IsQuery
    <3>. QED
      BY <2>1, <3>1, <3>2 DEF Thinned
  <2>. QED
    BY <1>3, <1>4, <2>1, <2>3, <2>4, <2>5
<1>. QED
  BY <1>2, <1>7, <1>8

\* Calls of which queries of the place q are cancelled.
LEMMA CallsWithout ==
  ASSUME ShelvesAre, NEW q
  PROVE  LET t == Shelves!Without(q, calls) IN
         /\ t \in Seq(Queries) /\ \A k \in DOMAIN t : CallIs(t[k], revision)
         /\ \A p : (\E k \in DOMAIN calls : calls[k].written /\ p \in calls[k].changes)
              => \E k \in DOMAIN t : t[k].written /\ p \in t[k].changes
         /\ q # place /\ Shelves!Fetching(place) => \E k \in DOMAIN t : Shelves!IsQuery(t[k], place)
<1>1. calls \in Seq(Queries) /\ \A k \in DOMAIN calls : CallIs(calls[k], revision)
  BY DEF ShelvesAre
<1>2. PICK t : t = Shelves!Without(q, calls)
  OBVIOUS
<1>3. t \in Seq(Queries) /\ Thinned(q, calls, t)
  BY <1>1, <1>2, WithoutIs
<1>4. \A k \in DOMAIN t : CallIs(t[k], revision)
  BY <1>1, <1>3 DEF Thinned
<1>5. ASSUME NEW p, NEW k \in DOMAIN calls, calls[k].written, p \in calls[k].changes
      PROVE  \E j \in DOMAIN t : t[j].written /\ p \in t[j].changes
  <2>1. ~Shelves!IsQuery(calls[k], q)
    BY <1>1, <1>5 DEF Shelves!IsQuery, CallIs
  <2>. QED
    BY <1>3, <1>5, <2>1 DEF Thinned
<1>6. ASSUME q # place, NEW k \in DOMAIN calls, Shelves!IsQuery(calls[k], place)
      PROVE  \E j \in DOMAIN t : Shelves!IsQuery(t[j], place)
  <2>1. ~Shelves!IsQuery(calls[k], q)
    BY <1>6 DEF Shelves!IsQuery
  <2>. QED
    BY <1>3, <1>6, <2>1 DEF Thinned
<1>. QED
  BY <1>2, <1>3, <1>4, <1>5, <1>6 DEF Shelves!Fetching

\* Notifications about skills stay newer than the data, also than an answer that becomes data.
LEMMA NewsStaysNew ==
  ASSUME ControlsAssumption, ShelfInv, arriving # <<>>, NEW q,
         arriving' \in {Tail(arriving), Shelves!Without(q, Tail(arriving))},
         revision' = revision,
         \A r \in ShelfPlaces : \/ data'[r] = data[r]
                                \/ Head(arriving).query /\ data'[r] = Head(arriving).lists
  PROVE  NewsIsNew'
<1>1. /\ arriving' \in Seq(News)
      /\ \A i \in DOMAIN arriving' : \E j \in DOMAIN arriving : arriving'[i] = arriving[j] /\ i < j
      /\ \A i, j \in DOMAIN arriving' : i < j => \E m, n \in DOMAIN arriving :
            m < n /\ arriving'[i] = arriving[m] /\ arriving'[j] = arriving[n]
  BY TakenIs
<1>2. NewsIsNew /\ arriving \in Seq(News)
  BY DEF ShelfInv, ShelvesAre
<1>3. Head(arriving) = arriving[1] /\ Len(arriving) \in Nat /\ DOMAIN arriving = 1..Len(arriving)
  BY <1>2, TailIs
<1>4. Len(arriving') \in Nat /\ DOMAIN arriving' = 1..Len(arriving')
  BY <1>1
<1>. SUFFICES ASSUME NEW i \in DOMAIN arriving', arriving'[i].news = "skills"
              PROVE  /\ \A r \in ShelfPlaces : data'[r] # Absent => data'[r]["skills"].rev < revision["skills"]
                     /\ \A j \in 1..(i - 1) : arriving'[j].query
                          => arriving'[j].lists["skills"].rev < revision["skills"]
  BY DEF NewsIsNew
<1>5. ASSUME NEW r \in ShelfPlaces, data'[r] # Absent
      PROVE  data'[r]["skills"].rev < revision["skills"]
  <2>1. PICK n \in DOMAIN arriving : arriving'[i] = arriving[n] /\ i < n
    BY <1>1
  <2>2. 1 \in 1..(n - 1)
    <3>1. i \in Nat /\ i >= 1
      BY <1>4
    <3>2. n \in Nat
      BY <1>3
    <3>. QED
      BY <2>1, <3>1, <3>2
  <2>3. arriving[n].news = "skills"
    BY <2>1
  <2>4. arriving[1].query => arriving[1].lists["skills"].rev < revision["skills"]
    BY <1>2, <2>2, <2>3 DEF NewsIsNew
  <2>5. data[r] # Absent => data[r]["skills"].rev < revision["skills"]
    BY <1>2, <2>3 DEF NewsIsNew
  <2>. QED
    BY <1>3, <1>5, <2>4, <2>5
<1>6. ASSUME NEW j \in 1..(i - 1), arriving'[j].query
      PROVE  arriving'[j].lists["skills"].rev < revision["skills"]
  <2>1. j \in DOMAIN arriving' /\ j < i
    BY <1>4
  <2>2. PICK m \in DOMAIN arriving, n \in DOMAIN arriving :
          m < n /\ arriving'[j] = arriving[m] /\ arriving'[i] = arriving[n]
    BY <1>1, <2>1
  <2>3. m \in 1..(n - 1) /\ arriving[n].news = "skills" /\ arriving[m].query
    BY <1>3, <1>6, <2>2
  <2>. QED
    BY <1>2, <2>2, <2>3 DEF NewsIsNew
<1>. QED
  BY <1>5, <1>6

\* An answer of a query arrives.
LEMMA QueryKeepsShelf ==
  ASSUME ControlsAssumption, ShelfInv, arriving # <<>>, Head(arriving).query,
         Shelves!QueryAnswered(Head(arriving), Tail(arriving)), UNCHANGED <<revision, overlay>>
  PROVE  ShelfInv'
<1>. DEFINE m == Head(arriving)
<1>1. /\ ShelvesAre /\ OverlayIsDue /\ SharedIsTold /\ place \in ShelfPlaces
      /\ DOMAIN data = ShelfPlaces /\ DOMAIN store = Shelves!Parts
      /\ \A i \in DOMAIN arriving : MessageIs(arriving[i], revision)
  BY DEF ShelfInv, ShelvesAre
<1>2. calls' = Shelves!Without(m.at, calls) /\ arriving' = Tail(arriving) /\ revision' = revision /\ overlay' = overlay
  BY DEF Shelves!QueryAnswered
<1>3. /\ m \in News /\ MessageIs(m, revision) /\ arriving' \in Seq(News)
      /\ \A i \in DOMAIN arriving' : \E j \in DOMAIN arriving : arriving'[i] = arriving[j] /\ i < j
      /\ \A j \in DOMAIN arriving : \/ arriving[j] = m \/ arriving[j].query
                                    \/ \E i \in DOMAIN arriving' : arriving'[i] = arriving[j]
  BY <1>2, TakenIs
<1>4. /\ m.at \in ShelfPlaces /\ m.changes = {} /\ m.news = Absent
      /\ m.lists \in Maps \cup {<<>>} /\ DOMAIN m.lists = Shelves!Parts
      /\ MadeFor(m.lists, m.at, revision)
  BY <1>3 DEF MessageIs, News
<1>. HIDE DEF m
<1>5. m.lists \in [Shelves!Parts -> ShelfLists] /\ m.lists # Absent
  <2>1. "skills" \in DOMAIN m.lists
    BY <1>4 DEF Shelves!Parts
  <2>2. m.lists \in Maps
    BY <1>4, <2>1
  <2>3. PICK d \in SUBSET Shelves!Parts : m.lists \in [d -> ShelfLists]
    BY <2>2 DEF Maps
  <2>4. m.lists \in [Shelves!Parts -> ShelfLists]
    BY <1>4, <2>3
  <2>. QED
    BY <2>4 DEF ControlsAssumption, ShelfLists
<1>6. /\ calls' \in Seq(Queries) /\ \A k \in DOMAIN calls' : CallIs(calls'[k], revision)
      /\ \A p : (\E k \in DOMAIN calls : calls[k].written /\ p \in calls[k].changes)
           => \E k \in DOMAIN calls' : calls'[k].written /\ p \in calls'[k].changes
      /\ m.at # place /\ Shelves!Fetching(place)
           => \E k \in DOMAIN calls' : Shelves!IsQuery(calls'[k], place)
  BY <1>1, <1>2, CallsWithout
<1>7. \A i \in DOMAIN arriving' : MessageIs(arriving'[i], revision)
  BY <1>1, <1>3
<1>8. ASSUME place' = place, store' = store, NEW p \in Shelves!Parts, Told(p)
      PROVE  Told(p)'
  <2>1. Shelves!Announced(p, arriving) => Shelves!Announced(p, arriving')
    <3>1. p # Absent
      BY DEF ControlsAssumption
    <3>2. \A j \in DOMAIN arriving : arriving[j].query => arriving[j].news = Absent
      BY <1>1 DEF MessageIs
    <3>. QED
      BY <1>3, <1>4, <3>1, <3>2 DEF Shelves!Announced
  <2>2. (\E i \in DOMAIN arriving : p \in arriving[i].changes)
          => \E i \in DOMAIN arriving' : p \in arriving'[i].changes
    <3>1. \A j \in DOMAIN arriving : arriving[j].query => arriving[j].changes = {}
      BY <1>1 DEF MessageIs
    <3>. QED
      BY <1>3, <1>4, <3>1
  <2>. QED
    BY <1>2, <1>6, <1>8, <2>1, <2>2 DEF Told, Shelves!Listed, Shelves!Announced
<1>9. CASE m.at = place /\ m.lists = data[place]
  <2>1. /\ misled' = misled \cup {p \in Shelves!Behind(m.lists, arriving') : store[p] # Shelves!Listed(p, place)}
        /\ data' = data /\ place' = place /\ store' = store
    BY <1>2, <1>9 DEF Shelves!QueryAnswered, m
  <2>2. ShelvesAre'
    BY <1>1, <1>2, <1>3, <1>6, <1>7, <2>1 DEF ShelvesAre
  <2>3. ASSUME NEW p \in Shelves!Parts \ misled'
        PROVE  Told(p)'
    <3>1. CASE m.lists[p].rev = revision[p]
      BY <1>1, <1>5, <1>8, <1>9, <2>1, <2>3, <3>1 DEF SharedIsTold
    <3>2. CASE m.lists[p].rev # revision[p]
      <4>1. CASE Shelves!Announced(p, arriving')
        BY <4>1 DEF Told, Shelves!Announced
      <4>2. CASE ~Shelves!Announced(p, arriving')
        <5>1. p \in Shelves!Behind(m.lists, arriving')
          BY <1>4, <3>2, <4>2 DEF Shelves!Behind
        <5>2. store[p] = Shelves!Listed(p, place)
          BY <2>1, <2>3, <5>1
        <5>. QED
          BY <1>2, <2>1, <5>2 DEF Told, Shelves!Listed
      <4>. QED
        BY <4>1, <4>2
    <3>. QED
      BY <3>1, <3>2
  <2>4. NewsIsNew'
    BY <1>2, <2>1, NewsStaysNew
  <2>. QED
    BY <2>2, <2>3, <2>4 DEF ShelfInv, OverlayIsDue, SharedIsTold
<1>10. CASE m.at = place /\ m.lists # data[place]
  <2>1. PICK d : d = [data EXCEPT ![m.at] = m.lists]
    OBVIOUS
  <2>2. d[place] = m.lists /\ DOMAIN d = ShelfPlaces /\ \A r \in ShelfPlaces : r # place => d[r] = data[r]
    BY <1>1, <1>10, <2>1
  <2>3. Shelves!Commit(d, place, arriving')
    BY <1>2, <1>10, <2>1 DEF Shelves!QueryAnswered, m
  <2>4. /\ data' = d /\ place' = place /\ Shelves!Put(m.lists)
        /\ misled' = Shelves!Behind(m.lists, arriving')
    BY <1>5, <1>10, <2>2, <2>3 DEF Shelves!Commit
  <2>5. DOMAIN store' = Shelves!Parts /\ \A p \in Shelves!Parts : store'[p] = m.lists[p]
    BY <1>4, <2>4 DEF Shelves!Put
  <2>6. ShelvesAre'
    BY <1>1, <1>2, <1>3, <1>4, <1>5, <1>6, <1>7, <1>10, <2>2, <2>4, <2>5 DEF ShelvesAre
  <2>7. ASSUME NEW p \in Shelves!Parts \ misled'
        PROVE  Told(p)'
    <3>1. CASE m.lists[p].rev = revision[p]
      <4>1. m.lists[p] = Shelves!Listed(p, place)
        BY <1>4, <1>10, <3>1, FreshIs
      <4>. QED
        BY <1>2, <2>4, <2>5, <4>1 DEF Told, Shelves!Listed
    <3>2. CASE m.lists[p].rev # revision[p]
      <4>1. Shelves!Announced(p, arriving')
        BY <1>4, <2>4, <2>7, <3>2 DEF Shelves!Behind
      <4>. QED
        BY <4>1 DEF Told, Shelves!Announced
    <3>. QED
      BY <3>1, <3>2
  <2>8. NewsIsNew'
    BY <1>2, <1>10, <2>2, <2>4, NewsStaysNew DEF m
  <2>. QED
    BY <2>6, <2>7, <2>8 DEF ShelfInv, OverlayIsDue, SharedIsTold
<1>11. CASE m.at # place
  <2>1. PICK d : d = [data EXCEPT ![m.at] = m.lists]
    OBVIOUS
  <2>2. /\ d[place] = data[place] /\ d[m.at] = m.lists /\ DOMAIN d = ShelfPlaces
        /\ \A r \in ShelfPlaces : r # m.at => d[r] = data[r]
    BY <1>1, <1>4, <1>11, <2>1
  <2>3. Shelves!Commit(d, place, arriving')
    BY <1>2, <1>11, <2>1 DEF Shelves!QueryAnswered, m
  <2>4. data' = d /\ place' = place /\ store' = store /\ misled' = misled
    BY <2>2, <2>3 DEF Shelves!Commit
  <2>5. ShelvesAre'
    BY <1>1, <1>2, <1>3, <1>4, <1>5, <1>6, <1>7, <2>2, <2>4 DEF ShelvesAre
  <2>6. Shelves!Fetching(place) => Shelves!Fetching(place)'
    BY <1>6, <1>11, <2>4 DEF Shelves!Fetching
  <2>7. OverlayIsDue'
    BY <1>1, <1>2, <1>8, <2>4, <2>6 DEF OverlayIsDue
  <2>8. SharedIsTold'
    BY <1>1, <1>2, <1>8, <2>2, <2>4 DEF SharedIsTold
  <2>9. NewsIsNew'
    BY <1>2, <1>4, <2>2, <2>4, NewsStaysNew DEF m
  <2>. QED
    BY <2>5, <2>7, <2>8, <2>9 DEF ShelfInv
<1>. QED
  BY <1>9, <1>10, <1>11

\* The answer of a button, of a save or of a reload arrives.
LEMMA ListsKeepShelf ==
  ASSUME ControlsAssumption, ShelfInv, arriving # <<>>, ~Head(arriving).query,
         Head(arriving).news = Absent,
         Shelves!ListsArrive(Head(arriving), Tail(arriving)), UNCHANGED <<revision, overlay>>
  PROVE  ShelfInv'
<1>. DEFINE m == Head(arriving)
<1>1. /\ ShelvesAre /\ OverlayIsDue /\ SharedIsTold
      /\ \A i \in DOMAIN arriving : MessageIs(arriving[i], revision)
  BY DEF ShelfInv, ShelvesAre
<1>2. /\ Shelves!Put(m.lists) /\ arriving' = Tail(arriving)
      /\ misled' = (misled \ DOMAIN m.lists) \cup Shelves!Behind(m.lists, arriving')
                     \cup (IF m.at = place THEN {} ELSE DOMAIN m.lists \ {"servers"})
      /\ revision' = revision /\ overlay' = overlay /\ calls' = calls /\ data' = data /\ place' = place
  BY DEF Shelves!ListsArrive
<1>3. /\ m \in News /\ MessageIs(m, revision) /\ arriving' \in Seq(News)
      /\ \A i \in DOMAIN arriving' : \E j \in DOMAIN arriving : arriving'[i] = arriving[j] /\ i < j
      /\ \A j \in DOMAIN arriving : \/ arriving[j] = m \/ arriving[j].query
                                    \/ \E i \in DOMAIN arriving' : arriving'[i] = arriving[j]
  BY <1>2, TakenIs
<1>4. /\ m.changes \subseteq DOMAIN m.lists /\ m.news = Absent
      /\ m.lists \in Maps \cup {<<>>} /\ MadeFor(m.lists, m.at, revision)
  BY <1>3 DEF MessageIs, News
<1>. HIDE DEF m
<1>5. \A i \in DOMAIN arriving' : MessageIs(arriving'[i], revision)
  BY <1>1, <1>3
<1>6. /\ DOMAIN store' = Shelves!Parts
      /\ \A p \in Shelves!Parts : store'[p] = IF p \in DOMAIN m.lists THEN m.lists[p] ELSE store[p]
  BY <1>2 DEF Shelves!Put
<1>7. ShelvesAre'
  BY <1>1, <1>2, <1>3, <1>5, <1>6 DEF ShelvesAre
<1>8. ASSUME NEW p \in Shelves!Parts \ misled', p \in DOMAIN m.lists
      PROVE  Told(p)'
  <2>1. CASE Shelves!Announced(p, arriving')
    BY <2>1 DEF Told, Shelves!Announced
  <2>2. CASE ~Shelves!Announced(p, arriving')
    <3>1. m.lists[p].rev = revision[p]
      BY <1>2, <1>8, <2>2 DEF Shelves!Behind
    <3>2. m.lists[p] = Shelves!Listed(p, m.at)
      BY <1>4, <1>8, <3>1, FreshIs
    <3>3. m.at = place \/ p = "servers"
      BY <1>2, <1>8
    <3>. QED
      BY <1>2, <1>6, <1>8, <3>2, <3>3 DEF Told, Shelves!Listed
  <2>. QED
    BY <2>1, <2>2
<1>9. ASSUME NEW p \in Shelves!Parts, p \notin DOMAIN m.lists, Told(p)
      PROVE  Told(p)'
  <2>1. Shelves!Announced(p, arriving) => Shelves!Announced(p, arriving')
    <3>1. p # Absent
      BY DEF ControlsAssumption
    <3>2. \A j \in DOMAIN arriving : arriving[j].query => arriving[j].news = Absent
      BY <1>1 DEF MessageIs
    <3>. QED
      BY <1>3, <1>4, <3>1, <3>2 DEF Shelves!Announced
  <2>2. (\E i \in DOMAIN arriving : p \in arriving[i].changes)
          => \E i \in DOMAIN arriving' : p \in arriving'[i].changes
    <3>1. \A j \in DOMAIN arriving : arriving[j].query => arriving[j].changes = {}
      BY <1>1 DEF MessageIs
    <3>. QED
      BY <1>3, <1>4, <1>9, <3>1
  <2>. QED
    BY <1>2, <1>6, <1>9, <2>1, <2>2 DEF Told, Shelves!Listed, Shelves!Announced
<1>10. \A p \in Shelves!Parts \ misled' : p \in DOMAIN m.lists \/ p \notin misled
  BY <1>2
<1>11. OverlayIsDue'
  BY <1>1, <1>2, <1>8, <1>9, <1>10 DEF OverlayIsDue, Shelves!Fetching
<1>12. SharedIsTold'
  BY <1>1, <1>2, <1>8, <1>9, <1>10 DEF SharedIsTold
<1>13. NewsIsNew'
  BY <1>2, NewsStaysNew
<1>. QED
  BY <1>7, <1>11, <1>12, <1>13 DEF ShelfInv

\* A notification arrives: the query of the selected place is fetched again.
LEMMA NewsKeepsShelf ==
  ASSUME ControlsAssumption, ShelfInv, arriving # <<>>, Head(arriving).news # Absent,
         Shelves!Changed(Head(arriving), Tail(arriving)), UNCHANGED <<revision, overlay>>
  PROVE  ShelfInv'
<1>. DEFINE m == Head(arriving)
            rest == Tail(arriving)
<1>1. /\ ShelvesAre /\ OverlayIsDue /\ SharedIsTold /\ NewsIsNew /\ place \in ShelfPlaces
      /\ calls \in Seq(Queries) /\ arriving \in Seq(News)
      /\ \A i \in DOMAIN arriving : MessageIs(arriving[i], revision)
      /\ \A k \in DOMAIN calls : CallIs(calls[k], revision)
  BY DEF ShelfInv, ShelvesAre
<1>2. /\ Shelves!Put(m.lists) /\ misled' = misled \cup DOMAIN m.lists
      /\ Shelves!Invalidate(place, rest)
      /\ revision' = revision /\ overlay' = overlay /\ data' = data /\ place' = place
  BY DEF Shelves!Changed
<1>3. arriving' \in {rest, Shelves!Without(place, rest)}
  BY <1>2 DEF Shelves!Invalidate
<1>4. /\ m \in News /\ MessageIs(m, revision) /\ arriving' \in Seq(News)
      /\ \A i \in DOMAIN arriving' : \E j \in DOMAIN arriving : arriving'[i] = arriving[j] /\ i < j
      /\ \A j \in DOMAIN arriving : \/ arriving[j] = m \/ arriving[j].query
                                    \/ \E i \in DOMAIN arriving' : arriving'[i] = arriving[j]
  BY <1>3, TakenIs
<1>5. m.changes = {} /\ DOMAIN m.lists = {m.news} \ {"skills"}
  BY <1>4 DEF MessageIs
<1>6. m.news = "skills" => data[place] = Absent \/ data[place]["skills"].rev # revision["skills"]
  <2>1. arriving[1] = m /\ 1 \in DOMAIN arriving
    BY <1>1, TailIs
  <2>2. m.news = "skills" /\ data[place] # Absent => data[place]["skills"].rev < revision["skills"]
    BY <1>1, <2>1 DEF NewsIsNew
  <2>. QED
    BY <1>1, <2>2, SkillsAre
<1>. HIDE DEF m, rest
<1>7. /\ calls' \in Seq(Queries) /\ \A k \in DOMAIN calls' : CallIs(calls'[k], revision)
      /\ \A p : (\E k \in DOMAIN calls : calls[k].written /\ p \in calls[k].changes)
           => \E k \in DOMAIN calls' : calls'[k].written /\ p \in calls'[k].changes
      /\ overlay => \E k \in DOMAIN calls' : Shelves!IsQuery(calls'[k], place)
  <2>1. CASE ~overlay
    BY <1>1, <1>2, <2>1 DEF Shelves!Invalidate
  <2>2. ASSUME NEW s \in Seq(Queries), \A k \in DOMAIN s : CallIs(s[k], revision),
               \A p : (\E k \in DOMAIN calls : calls[k].written /\ p \in calls[k].changes)
                 => \E k \in DOMAIN s : s[k].written /\ p \in s[k].changes,
               calls' = Shelves!Fetch(place, s)
        PROVE  /\ calls' \in Seq(Queries) /\ \A k \in DOMAIN calls' : CallIs(calls'[k], revision)
               /\ \A p : (\E k \in DOMAIN calls : calls[k].written /\ p \in calls[k].changes)
                    => \E k \in DOMAIN calls' : calls'[k].written /\ p \in calls'[k].changes
               /\ \E k \in DOMAIN calls' : Shelves!IsQuery(calls'[k], place)
    <3>1. /\ calls' \in Seq(Queries) /\ \A k \in DOMAIN calls' : CallIs(calls'[k], revision)
          /\ \A k \in DOMAIN s : k \in DOMAIN calls' /\ calls'[k] = s[k]
          /\ \E k \in DOMAIN calls' : Shelves!IsQuery(calls'[k], place)
      BY <1>1, <2>2, FetchIs
    <3>2. ASSUME NEW p, \E k \in DOMAIN calls : calls[k].written /\ p \in calls[k].changes
          PROVE  \E k \in DOMAIN calls' : calls'[k].written /\ p \in calls'[k].changes
      <4>1. PICK k \in DOMAIN s : s[k].written /\ p \in s[k].changes
        BY <2>2, <3>2
      <4>. QED
        BY <3>1, <4>1
    <3>. QED
      BY <3>1, <3>2
  <2>3. CASE overlay /\ data[place] = Absent
    <3>1. calls' = Shelves!Fetch(place, calls)
      BY <1>2, <2>3 DEF Shelves!Invalidate
    <3>. QED
      BY <1>1, <2>2, <3>1
  <2>4. CASE overlay /\ data[place] # Absent
    <3>1. PICK t : t = Shelves!Without(place, calls)
      OBVIOUS
    <3>2. calls' = Shelves!Fetch(place, t)
      BY <1>2, <2>4, <3>1 DEF Shelves!Invalidate
    <3>3. /\ t \in Seq(Queries) /\ \A k \in DOMAIN t : CallIs(t[k], revision)
          /\ \A p : (\E k \in DOMAIN calls : calls[k].written /\ p \in calls[k].changes)
               => \E k \in DOMAIN t : t[k].written /\ p \in t[k].changes
      BY <1>1, <3>1, CallsWithout
    <3>. QED
      BY <2>2, <3>2, <3>3
  <2>. QED
    BY <2>1, <2>3, <2>4
<1>8. \A i \in DOMAIN arriving' : MessageIs(arriving'[i], revision)
  BY <1>1, <1>4
<1>9. /\ DOMAIN store' = Shelves!Parts
      /\ \A p \in Shelves!Parts \ misled' : store'[p] = store[p]
  BY <1>2 DEF Shelves!Put
<1>10. ShelvesAre'
  BY <1>1, <1>2, <1>4, <1>7, <1>8, <1>9 DEF ShelvesAre
<1>11. ASSUME NEW p \in Shelves!Parts \ misled', Told(p), p # "skills" \/ m.news # "skills"
       PROVE  Told(p)'
  <2>1. p # m.news
    BY <1>2, <1>5, <1>11
  <2>2. p # Absent /\ \A j \in DOMAIN arriving : arriving[j].query => arriving[j].news = Absent
    BY <1>1 DEF ControlsAssumption, MessageIs
  <2>3. Shelves!Announced(p, arriving) => Shelves!Announced(p, arriving')
    BY <1>4, <2>1, <2>2 DEF Shelves!Announced
  <2>4. (\E i \in DOMAIN arriving : p \in arriving[i].changes)
          => \E i \in DOMAIN arriving' : p \in arriving'[i].changes
    <3>1. \A j \in DOMAIN arriving : arriving[j].query => arriving[j].changes = {}
      BY <1>1 DEF MessageIs
    <3>. QED
      BY <1>4, <1>5, <3>1
  <2>. QED
    BY <1>2, <1>7, <1>9, <1>11, <2>3, <2>4 DEF Told, Shelves!Listed, Shelves!Announced
<1>12. OverlayIsDue'
  BY <1>2, <1>7 DEF OverlayIsDue, Shelves!Fetching
<1>13. SharedIsTold'
  <2>. SUFFICES ASSUME data[place] # Absent, NEW p \in Shelves!Parts \ misled',
                       data[place][p].rev = revision[p]
                PROVE  Told(p)'
    BY <1>2 DEF SharedIsTold
  <2>1. p \notin misled
    BY <1>2
  <2>2. Told(p)
    BY <1>1, <2>1 DEF SharedIsTold
  <2>3. p # "skills" \/ m.news # "skills"
    BY <1>6
  <2>. QED
    BY <1>11, <2>2, <2>3
<1>14. NewsIsNew'
  BY <1>2, <1>3, NewsStaysNew DEF rest
<1>. QED
  BY <1>10, <1>12, <1>13, <1>14 DEF ShelfInv

-----------------------------------------------------------------------------
\* At first the overlay is closed and nothing is known.
LEMMA ShelfInit == Shelves!Init => ShelfInv
<1>. SUFFICES ASSUME Shelves!Init
              PROVE  ShelfInv
  OBVIOUS
<1>1. /\ revision = [p \in Shelves!Parts |-> 0] /\ place \in ShelfPlaces /\ ~overlay
      /\ data = [p \in ShelfPlaces |-> Absent] /\ store = [p \in Shelves!Parts |-> Absent]
      /\ calls = <<>> /\ arriving = <<>>
  BY DEF Shelves!Init, ShelfPlaces
<1>2. revision \in [Shelves!Parts -> Nat] /\ calls \in Seq(Queries) /\ arriving \in Seq(News)
  BY <1>1
<1>3. DOMAIN calls = {} /\ DOMAIN arriving = {}
  BY <1>1
<1>4. ShelvesAre
  BY <1>1, <1>2, <1>3 DEF ShelvesAre
<1>5. OverlayIsDue /\ SharedIsTold /\ NewsIsNew
  BY <1>1, <1>3 DEF OverlayIsDue, SharedIsTold, NewsIsNew
<1>. QED
  BY <1>4, <1>5 DEF ShelfInv

LEMMA ReceiveKeepsShelf ==
  ASSUME ControlsAssumption, ShelfInv, Shelves!Receive
  PROVE  ShelfInv'
<1>. DEFINE m == Head(arriving)
            rest == Tail(arriving)
<1>1. /\ arriving # <<>> /\ UNCHANGED <<revision, overlay>>
      /\ \/ m.query /\ Shelves!QueryAnswered(m, rest)
         \/ m.news # Absent /\ Shelves!Changed(m, rest)
         \/ ~m.query /\ m.news = Absent /\ Shelves!ListsArrive(m, rest)
  BY DEF Shelves!Receive
<1>. QED
  BY <1>1, QueryKeepsShelf, ListsKeepShelf, NewsKeepsShelf

LEMMA ShelfStep ==
  ASSUME ControlsAssumption, ShelfInv, Shelves!Next
  PROVE  ShelfInv'
<1>1. CASE Shelves!OpenOverlay \/ Shelves!CloseOverlay \/ Shelves!Refocus \/ Shelves!Receive \/ Shelves!LoseSocket
  BY <1>1, OpenKeepsShelf, CloseKeepsShelf, ReceiveKeepsShelf, LossKeepsShelf
<1>2. ASSUME NEW p \in {w1, w2}, Shelves!Select(p) \/ Shelves!Collect(p)
      PROVE  ShelfInv'
  BY <1>2, SelectKeepsShelf, CollectKeepsShelf DEF ShelfPlaces
<1>3. ASSUME NEW kind \in DOMAIN Shelves!Requests, Shelves!Press(kind)
      PROVE  ShelfInv'
  BY <1>3, PressKeepsShelf
<1>4. ASSUME NEW k \in DOMAIN calls,
             Shelves!Change(k) \/ Shelves!Read(k) \/ Shelves!Respond(k) \/ Shelves!Refused(k)
      PROVE  ShelfInv'
  BY <1>4, ChangeKeepsShelf, ReadKeepsShelf, RespondKeepsShelf, RefusedKeepsShelf
<1>5. ASSUME NEW p \in Shelves!Parts, NEW again \in BOOLEAN, Shelves!CodexChanges(p, again)
      PROVE  ShelfInv'
  BY <1>5, CodexChangesKeepsShelf
<1>. QED
  BY <1>1, <1>2, <1>3, <1>4, <1>5 DEF Shelves!Next

\* While the overlay is open and nothing is on its way, every list in the store is codex's of
\* the selected place, but for those that misled: what moves the selection or changes a list is
\* followed by what shows it (useQuery() of the integrations, invalidateQueries(), setIntegrations()).
THEOREM ListsAreAlwaysDue == ControlsSpec => []ListsAreDue
<1>1. ControlsInit => ShelfInv
  BY ShelfInit DEF ControlsInit
<1>2. ShelfInv /\ [ControlsNext]_<<part, vars, settingsVars, decisionVars, shelfVars>> => ShelfInv'
  <2>. SUFFICES ASSUME ShelfInv, [ControlsNext]_<<part, vars, settingsVars, decisionVars, shelfVars>>
                PROVE  ShelfInv'
    OBVIOUS
  <2>1. CASE Shelves!Next
    BY <2>1, ShelfStep, ControlsAssumption
  <2>2. CASE UNCHANGED shelfVars
    <3>1. UNCHANGED <<revision, place, overlay, data, store, calls, arriving, misled>>
      BY <2>2 DEF shelfVars
    <3>2. /\ calls' \in Seq(Queries) /\ \A k \in DOMAIN calls' : CallIs(calls'[k], revision)
          /\ GoesOn(calls, calls')
      BY <3>1 DEF ShelfInv, ShelvesAre, GoesOn
    <3>. QED
      BY <3>1, <3>2, CallsKeepShelf
  <2>. QED
    BY <2>1, <2>2 DEF ControlsNext
<1>3. ShelfInv => ListsAreDue
  <2>. SUFFICES ASSUME ShelfInv, overlay, calls = <<>>, arriving = <<>>,
                       NEW p \in Shelves!Parts \ misled
                PROVE  store[p] = Shelves!Listed(p, place)
    BY DEF ListsAreDue, Shelves!ListsAreDue
  <2>1. Told(p) \/ Shelves!Fetching(place)
    BY DEF ShelfInv, OverlayIsDue
  <2>2. DOMAIN calls = {} /\ DOMAIN arriving = {}
    OBVIOUS
  <2>. QED
    BY <2>1, <2>2 DEF Told, Shelves!Announced, Shelves!Fetching
<1>. QED
  BY <1>1, <1>2, <1>3, PTL DEF ControlsSpec

=============================================================================
