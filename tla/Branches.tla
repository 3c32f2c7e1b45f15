------------------------------- MODULE Branches -------------------------------
(***************************************************************************)
(* The branches of a workspace in the menu of the composer.  The branch    *)
(* comes with the snapshots of git, which are answered and broadcast, the  *)
(* list of branches only with the answers to the effect of the page and to *)
(* a switch.  Others switch, make and delete branches, too.                *)
(*                                                                         *)
(* The effect asks for the snapshot and the list in two calls and sets     *)
(* neither before both have come.  What a snapshot holds besides the       *)
(* branch is in GitReview; the order of the list and a git that fails,     *)
(* except in a switch, are left out.  A branch is chosen while connected.  *)
(***************************************************************************)
EXTENDS Naturals, Functions

CONSTANTS Branch,       \* names of branches
          Detached,     \* "HEAD", the name git gives to no branch
          NoBranch,     \* null: before the first commit there is none
          BranchCalls,  \* bound: calls under way, each id is used again
          NoEffect,     \* the effect has no call under way
          MaxSpent      \* bound: what users, others and the network do

VARIABLES
  repo,        \* the repository
  version,     \* number of the changes of its branches
  joined,      \* connection.connected
  branchCalls, \* call |-> how far it is
  effect,      \* the call of the effect that is not cancelled
  branchOf,    \* the snapshot of the page, as far as it is modelled
  branchList,  \* gitBranchesByWorkspaceId
  gitBranchSwitchPending,
  owed,        \* history: the versions the page is to know
  outrun,      \* history: an older snapshot, or list, replaced a younger one
  spent        \* counter of the bound

vars == <<repo, version, joined, branchCalls, effect, branchOf, branchList,
          gitBranchSwitchPending, owed, outrun, spent>>
shownVars == <<branchOf, branchList, outrun>>

Repos ==
  {[git |-> FALSE, head |-> NoBranch, names |-> {}]}
    \cup {r \in [git : {TRUE}, head : Branch \cup {Detached, NoBranch}, names : SUBSET Branch] :
            r.head \in r.names \cup {Detached, NoBranch}}

\* What git tells of it: rev-parse --abbrev-ref HEAD, and for-each-ref refs/heads.
Snapshot == [git |-> repo.git, branch |-> repo.head, at |-> version]

Listed == [names |-> repo.names \cup ({repo.head} \ {NoBranch}), at |-> version]

NoSnapshot == [git |-> FALSE, branch |-> NoBranch, at |-> 0]
NoList == [names |-> {}, at |-> 0]

Menu == (branchList.names \cup {branchOf.branch}) \ {NoBranch}

Put(f, x, v) == [y \in DOMAIN f \cup {x} |-> IF y = x THEN v ELSE f[y]]
Without(c) == Restrict(branchCalls, DOMAIN branchCalls \ {c})

\* A call, or a refresh for an event: how far its snapshot and its list are.
Call(kind, target) ==
  [kind |-> kind, target |-> target, lost |-> FALSE,
   pc |-> IF kind = "switch" THEN "switching" ELSE "wanted", snapshot |-> NoSnapshot,
   listed |-> FALSE, list |-> NoList]

Init ==
  /\ repo \in Repos /\ version = 1 /\ joined = FALSE
  /\ branchCalls = <<>> /\ effect = NoEffect
  /\ branchOf = NoSnapshot /\ branchList = NoList /\ gitBranchSwitchPending = FALSE
  /\ owed = [snapshot |-> 0, list |-> 0] /\ outrun = [snapshot |-> FALSE, list |-> FALSE]
  /\ spent = 0

Spend == spent < MaxSpent /\ spent' = spent + 1

-----------------------------------------------------------------------------
(* The page and its surroundings.                                          *)

\* Mutation: the effect asks for nothing it has.
AskOnce(c) ==
  /\ c \notin DOMAIN branchCalls
  /\ IF branchOf.at > 0 THEN UNCHANGED branchCalls /\ effect' = NoEffect
     ELSE branchCalls' = Put(branchCalls, c, Call("effect", NoBranch)) /\ effect' = c
  /\ owed' = [snapshot |-> version, list |-> version]

\* The effect runs: what it asked for before is cancelled.
Ask(c) ==
  /\ c \notin DOMAIN branchCalls
  /\ branchCalls' = Put(branchCalls, c, Call("effect", NoBranch)) /\ effect' = c
  /\ owed' = [snapshot |-> version, list |-> version]

Connects(c) ==
  /\ ~joined /\ joined' = TRUE /\ Ask(c)
  /\ UNCHANGED <<repo, version, shownVars, gitBranchSwitchPending, spent>>

\* codex is started anew, or the workspace is left and selected again.
RunsAgain(c) ==
  /\ joined /\ Ask(c) /\ Spend
  /\ UNCHANGED <<repo, version, joined, shownVars, gitBranchSwitchPending>>

\* Calls are rejected; the server goes on with them.
Disconnects ==
  /\ joined /\ joined' = FALSE /\ Spend
  /\ branchCalls' = [c \in DOMAIN branchCalls |-> [branchCalls[c] EXCEPT !.lost = TRUE]]
  /\ effect' = NoEffect /\ gitBranchSwitchPending' = FALSE
  /\ UNCHANGED <<repo, version, shownVars, owed>>

HandleGitBranchChange(c, b) ==
  /\ joined /\ c \notin DOMAIN branchCalls /\ ~gitBranchSwitchPending
  /\ branchOf.git /\ branchOf.branch # NoBranch /\ b \in Menu \ {branchOf.branch}
  /\ branchCalls' = Put(branchCalls, c, Call("switch", b)) /\ gitBranchSwitchPending' = TRUE
  /\ Spend
  /\ UNCHANGED <<repo, version, joined, effect, shownVars, owed>>

\* Another page, a terminal or codex.
OthersChange ==
  /\ \E r \in Repos \ {repo} : repo' = r
  /\ version' = version + 1 /\ Spend
  /\ UNCHANGED <<joined, branchCalls, effect, shownVars, gitBranchSwitchPending, owed>>

\* The server refreshes the snapshot for an event of a thread.
RefreshForEvent(c) ==
  /\ c \notin DOMAIN branchCalls /\ branchCalls' = Put(branchCalls, c, Call("event", NoBranch))
  /\ Spend
  /\ UNCHANGED <<repo, version, joined, effect, shownVars, gitBranchSwitchPending, owed>>

-----------------------------------------------------------------------------
(* The server.                                                             *)

\* git switch: a name that is no branch fails, and so may any other.
SwitchGitBranch(c) ==
  /\ branchCalls[c].pc = "switching"
  /\ \/ /\ repo.git /\ branchCalls[c].target \in repo.names
        /\ repo' = [repo EXCEPT !.head = branchCalls[c].target] /\ version' = version + 1
        /\ owed' = [snapshot |-> version',
                    list |-> IF branchCalls[c].lost THEN owed.list ELSE version']
        /\ branchCalls' = [branchCalls EXCEPT ![c].pc = "wanted"]
     \/ /\ branchCalls' = [branchCalls EXCEPT ![c].pc = "failed"]
        /\ UNCHANGED <<repo, version, owed>>
  /\ UNCHANGED <<joined, effect, shownVars, gitBranchSwitchPending, spent>>

ReadSnapshot(c) ==
  /\ branchCalls[c].pc = "wanted"
  /\ branchCalls' = [branchCalls EXCEPT ![c].pc = "read", ![c].snapshot = Snapshot]
  /\ UNCHANGED <<repo, version, joined, effect, shownVars, gitBranchSwitchPending, owed, spent>>

\* A switch reads the list last, the effect's second call when it comes to it.
MayList(call) == call.kind = "effect" \/ (call.kind = "switch" /\ call.pc = "told")

ReadGitBranches(c) ==
  /\ MayList(branchCalls[c]) /\ ~branchCalls[c].listed
  /\ branchCalls' = [branchCalls EXCEPT ![c].listed = TRUE, ![c].list = Listed]
  /\ UNCHANGED <<repo, version, joined, effect, shownVars, gitBranchSwitchPending, owed, spent>>

ShowSnapshot(s) ==
  /\ branchOf' = s
  /\ outrun' = [outrun EXCEPT !.snapshot = s.at < branchOf.at \/ (@ /\ s.at < owed.snapshot)]

\* Every connection is told.
Broadcast(c) ==
  /\ branchCalls[c].pc = "read"
  /\ branchCalls' = IF branchCalls[c].kind = "event" THEN Without(c)
                    ELSE [branchCalls EXCEPT ![c].pc = "told"]
  /\ IF joined THEN ShowSnapshot(branchCalls[c].snapshot) ELSE UNCHANGED <<branchOf, outrun>>
  /\ UNCHANGED <<repo, version, joined, effect, branchList, gitBranchSwitchPending, owed, spent>>

-----------------------------------------------------------------------------
(* Answers at the page.                                                    *)

SetBoth(call) ==
  /\ branchOf' = call.snapshot /\ branchList' = call.list
  /\ outrun' = [snapshot |-> \/ call.snapshot.at < branchOf.at
                             \/ outrun.snapshot /\ call.snapshot.at < owed.snapshot,
                list |-> \/ call.list.at < branchList.at
                         \/ outrun.list /\ call.list.at < owed.list]

Answered(c) ==
  /\ branchCalls[c].pc = "told" /\ branchCalls[c].listed
  /\ IF ~branchCalls[c].lost /\ (branchCalls[c].kind = "switch" \/ c = effect)
     THEN SetBoth(branchCalls[c]) ELSE UNCHANGED shownVars
  /\ effect' = IF c = effect THEN NoEffect ELSE effect
  /\ gitBranchSwitchPending' =
       (gitBranchSwitchPending /\ (branchCalls[c].kind # "switch" \/ branchCalls[c].lost))
  /\ branchCalls' = Without(c)
  /\ UNCHANGED <<repo, version, joined, owed, spent>>

SwitchFails(c) ==
  /\ branchCalls[c].pc = "failed" /\ branchCalls' = Without(c)
  /\ gitBranchSwitchPending' = (gitBranchSwitchPending /\ branchCalls[c].lost)
  /\ UNCHANGED <<repo, version, joined, effect, shownVars, owed, spent>>

Next ==
  \/ Disconnects \/ OthersChange
  \/ \E c \in BranchCalls : \/ Connects(c) \/ RunsAgain(c) \/ RefreshForEvent(c)
                            \/ \E b \in Branch \cup {Detached} : HandleGitBranchChange(c, b)
  \/ \E c \in DOMAIN branchCalls :
       \/ SwitchGitBranch(c) \/ ReadSnapshot(c) \/ ReadGitBranches(c) \/ Broadcast(c)
       \/ Answered(c) \/ SwitchFails(c)

Spec == Init /\ [][Next]_vars

-----------------------------------------------------------------------------
\* A switch of the page, and what it asks for, reaches its branch unless an older snapshot
\* was shown after a younger one.
BranchIsDue ==
  joined /\ branchOf.at < owed.snapshot =>
    \/ outrun.snapshot
    \/ \E c \in DOMAIN branchCalls :
         \/ branchCalls[c].pc = "wanted"
         \/ branchCalls[c].pc = "read" /\ branchCalls[c].snapshot.at >= owed.snapshot

ListIsOwed ==
  joined /\ branchList.at < owed.list =>
    \/ outrun.list
    \/ \E c \in DOMAIN branchCalls :
         LET call == branchCalls[c]
         IN /\ ~call.lost
            /\ \/ c = effect
               \/ call.kind = "switch" /\ call.pc \in {"wanted", "read", "told"}
            /\ call.listed => call.list.at >= owed.list

(* The menu of branches shows what the repository holds: after a switch, after a        *)
(* connection was lost, and whatever the order of the answers, the branch and the list  *)
(* are at least as new as the last time the page asked or switched, unless an older     *)
(* answer overtook them (WorkbenchScreen.tsx:1465, workbench-service.ts:941); and the   *)
(* menu is locked exactly while a switch is under way.                                  *)
BranchesAreTrue ==
  /\ BranchIsDue /\ ListIsOwed
  /\ (branchOf.at = version /\ branchList.at = version) =>
        Menu = (repo.names \cup {repo.head}) \ {NoBranch}
  /\ gitBranchSwitchPending <=>
        \E c \in DOMAIN branchCalls : branchCalls[c].kind = "switch" /\ ~branchCalls[c].lost
=============================================================================
