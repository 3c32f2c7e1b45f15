------------------------------ MODULE MCServer ------------------------------
(***************************************************************************)
(* What the server remembers of codex's threads (ThreadCache) and a page   *)
(* holds of them (ThreadViews), the scripted runtime that end-to-end tests *)
(* put in the place of codex (FakeRuntime) and the script that keeps the   *)
(* worktrees of tasks (TaskWorkflow).  None writes state of another, so a  *)
(* behaviour moves the part it starts with and leaves the others at their  *)
(* start.                                                                  *)
(*                                                                         *)
(* Of the threads one is in a directory below home, one in home itself.    *)
(***************************************************************************)
EXTENDS ThreadCache

CONSTANTS
  t1, t2,
  Turns, Processes, MaxCalls,              \* FakeRuntime
  Slugs, Patches, MaxRewrites, MaxVersion, \* TaskWorkflow
  Viewed, Existing, None, Kept, MaxSteps   \* ThreadViews

ASSUME ServerAssumption ==
  /\ {MaxCalls, MaxRewrites, MaxVersion, MaxSteps} \subseteq Nat
  /\ Existing \subseteq Viewed /\ None \notin Viewed /\ Kept \in Nat \ {0}

VARIABLES
  part,  \* the part that moves
  threads, timers, owner, pendingApprovals, asked, commands, reported, ended, noisy, stopped,
  calls,
  main, remote, prs, seenMain, seenRemote, head, ready, branches, local, base, upstream, tree,
  dirty, job, made, late,
  history, codexStatus, turns, online, viewInbox, viewCalls, viewDue, resync, bootstrapped, active,
  statusShown, hydratedThreads, hydratedOrder, cards, restored, marks, partial, stale, unread, unseen,
  misled, steps

MCHome == <<"home">>
MCPaths == {MCHome, <<"home", "a">>}
MCCwd == [t \in Threads |-> IF t = t1 THEN <<"home", "a">> ELSE MCHome]

Fake == INSTANCE FakeRuntime WITH Seeded <- Listed
Task == INSTANCE TaskWorkflow
Views == INSTANCE ThreadViews
  WITH Threads <- Viewed, MaxEvents <- MaxSteps, inbox <- viewInbox, calls <- viewCalls,
       due <- viewDue, status <- statusShown, views <- hydratedThreads, order <- hydratedOrder, failed <- unread,
       ended <- unseen, events <- steps

fakeVars == <<threads, timers, owner, pendingApprovals, asked, commands, reported, ended, noisy,
              stopped, calls>>
taskVars == <<main, remote, prs, seenMain, seenRemote, head, ready, branches, local, base,
              upstream, tree, dirty, job, made, late>>
viewVars == <<history, codexStatus, turns, online, viewInbox, viewCalls, viewDue, resync,
              bootstrapped, active, statusShown, hydratedThreads, hydratedOrder, cards, restored,
              marks, partial, stale, unread, unseen, misled, steps>>

ServerInit ==
  /\ part \in {"cache", "fake", "task", "views"}
  /\ Init /\ Fake!Init /\ Task!Init /\ Views!Init
  /\ part # "task" => \A s \in Slugs : tree[s] = "none"
  /\ part # "views" => active = None

ServerNext ==
  /\ UNCHANGED part
  /\ \/ part = "cache" /\ Next /\ UNCHANGED <<fakeVars, taskVars, viewVars>>
     \/ part = "fake" /\ Fake!Next /\ UNCHANGED <<vars, taskVars, viewVars>>
     \/ part = "task" /\ Task!Next /\ UNCHANGED <<vars, fakeVars, viewVars>>
     \/ part = "views" /\ Views!Next /\ UNCHANGED <<vars, fakeVars, taskVars>>

ServerSpec == ServerInit /\ [][ServerNext]_<<part, vars, fakeVars, taskVars, viewVars>>

\* What FakeRuntime, TaskWorkflow and ThreadViews promise: the last, that a view is whole or about to
\* be, and that completion marks tell the truth (hydratedThreads, completedThreadMarks).
FakeSettles == Fake!FakeSettles
WorkIsKept == Task!WorkIsKept
ViewsAreTrue == Views!ViewsAreKept /\ Views!MarkIsTrue

=============================================================================
