---------------------------- MODULE TaskWorkflow ----------------------------
(***************************************************************************)
(* scripts/task-workflow.mjs: one worktree and one local branch per task,  *)
(* started from, rebased onto and finished against origin/main.  The       *)
(* script is sequential, but developers, git and GitHub act between its    *)
(* git calls.  A branch is the set of its own commits; main is what it     *)
(* contains, seen in three ways: commits reachable from it, patches that   *)
(* git cherry recognises, and work that is in it in any form (a squash of  *)
(* several commits is in it, though no patch of theirs is).  git and gh    *)
(* are external: they do what git 2.39 does when the script calls them.    *)
(***************************************************************************)
EXTENDS Naturals, FiniteSets

CONSTANTS
  Slugs,        \* names of tasks, normalised: branch and worktree path follow from the name
  Patches,      \* pieces of work a developer may commit, each once
  MaxRewrites,  \* bound: how often a commit is rewritten by a rebase
  MaxVersion    \* bound: how often origin's main advances

VARIABLES
  main,       \* origin's main: commits reachable, patches, work, and how often it advanced
  remote,     \* origin's branch of a task: the set of its commits, {} when there is none
  prs,        \* tasks under whose branch name a pull request has been merged
  seenMain,   \* origin/main in this repository, as of the last fetch
  seenRemote, \* origin/codex/<slug> in this repository
  head,       \* commits of the local main, which is checked out in the primary checkout
  ready,      \* the primary checkout is on main and clean
  branches,   \* tasks that have a local branch
  local,      \* commits of a local branch that are its own
  base,       \* the version of main a branch sits on
  upstream,   \* what a local branch tracks: "main" or "own"
  tree,       \* the worktree directory of a task
  dirty,      \* worktrees with uncommitted changes
  job,        \* the finish under way: [pc, slug]
  made, late  \* history: patches committed; those no merged pull request of their branch held
vars == <<main, remote, prs, seenMain, seenRemote, head, ready, branches, local, base,
          upstream, tree, dirty, job, made, late>>
origin == <<main, remote, prs>>
trees == <<tree, dirty>>
history == <<made, late>>

Commits == [patch : Patches, version : 0..MaxRewrites]
\* "on": checked out; "other": switched to another branch; "rebasing": a rebase stopped at a
\* conflict, the branch detached; "gone": the directory was deleted, git still lists it;
\* "foreign": the path is taken by something git does not know.
Trees == {"none", "on", "other", "rebasing", "gone", "foreign"}
Mains == [ids : SUBSET Commits, patches : SUBSET Patches, work : SUBSET Patches,
          version : 0..MaxVersion]
Idle == [pc |-> "idle"]
PatchesOf(commits) == {c.patch : c \in commits}

TypeOK ==
  /\ main \in Mains /\ seenMain \in Mains /\ head \in SUBSET Commits
  /\ remote \in [Slugs -> SUBSET Commits] /\ seenRemote \in [Slugs -> SUBSET Commits]
  /\ prs \in SUBSET Slugs /\ branches \in SUBSET Slugs /\ dirty \in SUBSET Slugs
  /\ ready \in BOOLEAN
  /\ local \in [Slugs -> SUBSET Commits] /\ base \in [Slugs -> 0..MaxVersion]
  /\ upstream \in [Slugs -> {"main", "own"}] /\ tree \in [Slugs -> Trees]
  /\ job \in {Idle} \cup [pc : {"fetched", "checked", "removed"}, slug : Slugs]
  /\ made \in SUBSET Patches /\ late \in SUBSET Patches

Init ==
  /\ main = [ids |-> {}, patches |-> {}, work |-> {}, version |-> 0]
  /\ seenMain = main /\ head = {}
  /\ remote = [s \in Slugs |-> {}] /\ seenRemote = remote
  /\ prs = {} /\ branches = {} /\ dirty = {} /\ ready = TRUE
  /\ local = [s \in Slugs |-> {}] /\ base = [s \in Slugs |-> 0]
  /\ upstream = [s \in Slugs |-> "main"]
  /\ tree \in [Slugs -> {"none", "foreign"}]
  /\ job = Idle /\ made = {} /\ late = {}

-----------------------------------------------------------------------------
(* git, as the script uses it *)

\* git fetch origin --prune
FetchOrigin == seenMain' = main /\ seenRemote' = remote
NoFetch == UNCHANGED <<seenMain, seenRemote>>

\* git worktree list --porcelain names a branch only where one is checked out.
ListedWithBranch(s) == tree[s] \in {"on", "gone"}
Registered(s) == tree[s] \in {"on", "other", "rebasing", "gone"}

\* git merge-base --is-ancestor
HasAncestorMerge(s) == local[s] \subseteq seenMain.ids

\* Mutation: one line without + is enough.
SomeChangeApplied(s) == \E c \in local[s] : c \in seenMain.ids \/ c.patch \in seenMain.patches

\* git cherry marks with + what neither is reachable nor has an equivalent patch.
ChangesApplied(s) == \A c \in local[s] : c \in seenMain.ids \/ c.patch \in seenMain.patches

RemoteBranchExists(s) == remote[s] # {}

\* gh answers whether a pull request of that branch name was ever merged, or fails; only
\* then do origin's branches and the patches decide.
MergedIntoMain(s, ghWorks) ==
  \/ HasAncestorMerge(s)
  \/ IF ghWorks THEN s \in prs ELSE ~RemoteBranchExists(s) /\ ChangesApplied(s)

\* git branch -d asks for the commits to be in the upstream or, when that is gone, in HEAD.
DeletesMerged(s) ==
  local[s] \subseteq CASE upstream[s] = "main" -> seenMain.ids
                       [] upstream[s] = "own" /\ seenRemote[s] # {} -> seenRemote[s]
                       [] OTHER -> head

\* git branch -d / -D refuse a branch that is checked out or being rebased in a worktree.
Deletable(s) ==
  /\ tree[s] \notin {"on", "rebasing", "gone"}
  /\ HasAncestorMerge(s) => DeletesMerged(s)

-----------------------------------------------------------------------------
(* what the commands ask of the checkout they run in *)

PrimaryMainCheckout == ready
LinkedTaskWorktree(s) == tree[s] = "on"
CleanWorkingTree(s) == s \notin dirty

-----------------------------------------------------------------------------
(* startTask, from the primary checkout *)

\* A listed worktree is reused, whatever its directory holds by now.
StartReuses(s) ==
  /\ PrimaryMainCheckout /\ Registered(s) /\ FetchOrigin
  /\ UNCHANGED <<origin, head, ready, branches, local, base, upstream, trees, job, history>>

StartCreates(s) ==
  /\ PrimaryMainCheckout /\ tree[s] = "none" /\ FetchOrigin
  /\ branches' = branches \cup {s}
  /\ base' = IF s \in branches THEN base ELSE [base EXCEPT ![s] = main.version]
  /\ upstream' = IF s \in branches THEN upstream ELSE [upstream EXCEPT ![s] = "main"]
  /\ tree' = [tree EXCEPT ![s] = "on"]
  /\ UNCHANGED <<origin, head, ready, local, dirty, job, history>>

\* The target path exists: refused after the fetch.
StartRefused(s) ==
  /\ PrimaryMainCheckout /\ tree[s] = "foreign" /\ FetchOrigin
  /\ UNCHANGED <<origin, head, ready, branches, local, base, upstream, trees, job, history>>

Start(s) == StartReuses(s) \/ StartCreates(s) \/ StartRefused(s)

-----------------------------------------------------------------------------
(* syncTask, from the task's worktree *)

\* git rebase leaves out what is reachable or has an equivalent patch, drops what turns out
\* empty because main holds the work in another form, and rewrites the rest.
Rebased(s, m, empty) ==
  {[c EXCEPT !.version = @ + 1] :
     c \in {d \in local[s] : d \notin m.ids /\ d.patch \notin m.patches \cup empty}}

Rebase(s, m) ==
  \E empty \in SUBSET m.work :
    /\ \A c \in local[s] : c.version < MaxRewrites
    /\ local' = [local EXCEPT ![s] = Rebased(s, m, empty)]
    /\ base' = [base EXCEPT ![s] = m.version]

Sync(s) ==
  /\ LinkedTaskWorktree(s) /\ CleanWorkingTree(s)
  /\ FetchOrigin
  /\ \/ main.version = base[s] /\ UNCHANGED <<local, base, tree, dirty>>
     \/ main.version > base[s] /\ Rebase(s, main) /\ UNCHANGED <<tree, dirty>>
     \/ \* A conflict: git fails and the worktree stays in the middle of the rebase.
        /\ main.version > base[s] /\ local[s] # {}
        /\ tree' = [tree EXCEPT ![s] = "rebasing"] /\ dirty' = dirty \cup {s}
        /\ UNCHANGED <<local, base>>
  /\ UNCHANGED <<origin, head, ready, branches, upstream, job, history>>

\* The developer resolves the conflict, or gives up.
EndRebase(s) ==
  /\ tree[s] = "rebasing"
  /\ tree' = [tree EXCEPT ![s] = "on"] /\ dirty' = dirty \ {s}
  /\ Rebase(s, seenMain) \/ UNCHANGED <<local, base>>
  /\ NoFetch
  /\ UNCHANGED <<origin, head, ready, branches, upstream, job, history>>

-----------------------------------------------------------------------------
(* finishTask, from the primary checkout *)

FinishFetch(s) ==
  /\ job = Idle /\ PrimaryMainCheckout
  /\ FetchOrigin
  /\ job' = [pc |-> "fetched", slug |-> s]
  /\ UNCHANGED <<origin, head, ready, branches, local, base, upstream, trees, history>>

\* Mutation: a clean worktree is enough.
MayFinishClean(s, ghWorks) ==
  s \in branches /\ (ListedWithBranch(s) => tree[s] = "on" /\ CleanWorkingTree(s))

\* The branch exists and is merged; its worktree, if git lists one with it, exists and is
\* clean.  Otherwise an error ends the command.
MayFinish(s, ghWorks) ==
  /\ s \in branches /\ MergedIntoMain(s, ghWorks)
  /\ ListedWithBranch(s) => tree[s] = "on" /\ CleanWorkingTree(s)

FinishCheck ==
  /\ job.pc = "fetched"
  /\ \E ghWorks \in BOOLEAN :
       job' = IF MayFinish(job.slug, ghWorks)
              THEN [job EXCEPT !.pc = IF ListedWithBranch(job.slug) THEN "checked" ELSE "removed"]
              ELSE Idle
  /\ NoFetch
  /\ UNCHANGED <<origin, head, ready, branches, local, base, upstream, trees, history>>

\* git worktree remove, which refuses a worktree that is dirty by now.
FinishRemove ==
  /\ job.pc = "checked"
  /\ LET s == job.slug
     IN IF s \in dirty
        THEN job' = Idle /\ UNCHANGED tree
        ELSE job' = [job EXCEPT !.pc = "removed"] /\ tree' = [tree EXCEPT ![s] = "none"]
  /\ NoFetch
  /\ UNCHANGED <<origin, head, ready, branches, local, base, upstream, dirty, history>>

\* git branch -d or -D; when it refuses, the worktree is gone and the branch stays.
FinishDelete ==
  /\ job.pc = "removed"
  /\ LET s == job.slug
     IN IF s \in branches /\ Deletable(s)
        THEN branches' = branches \ {s} /\ local' = [local EXCEPT ![s] = {}]
        ELSE UNCHANGED <<branches, local>>
  /\ job' = Idle /\ NoFetch
  /\ UNCHANGED <<origin, head, ready, base, upstream, trees, history>>

-----------------------------------------------------------------------------
(* developers and GitHub *)

Edit(s) ==
  /\ tree[s] \in {"on", "other"}
  /\ dirty' = IF s \in dirty THEN dirty \ {s} ELSE dirty \cup {s}
  /\ NoFetch
  /\ UNCHANGED <<origin, head, ready, branches, local, base, upstream, tree, job, history>>

\* A commit is late when a pull request of its branch name has been merged before, or when a
\* finish of its branch is already past its check.
Commit(s, p) ==
  /\ tree[s] = "on" /\ s \in dirty /\ p \notin made
  /\ local' = [local EXCEPT ![s] = @ \cup {[patch |-> p, version |-> 0]}]
  /\ dirty' = dirty \ {s}
  /\ made' = made \cup {p}
  /\ late' = IF s \in prs \/ (job.pc \in {"checked", "removed"} /\ job.slug = s)
             THEN late \cup {p} ELSE late
  /\ NoFetch
  /\ UNCHANGED <<origin, head, ready, branches, base, upstream, tree, job>>

Push(s) ==
  /\ tree[s] = "on" /\ local[s] # {} /\ remote[s] # local[s]
  /\ remote' = [remote EXCEPT ![s] = local[s]]
  /\ seenRemote' = [seenRemote EXCEPT ![s] = local[s]]
  /\ upstream' = [upstream EXCEPT ![s] = "own"]
  /\ UNCHANGED <<main, prs, seenMain, head, ready, branches, local, base, trees, job, history>>

\* Main takes over commits as one squash, one by one, or as they are.
Landed(m, commits, how) ==
  [ids |-> IF how = "merge" THEN m.ids \cup commits ELSE m.ids,
   patches |-> IF how # "squash" \/ Cardinality(commits) = 1
               THEN m.patches \cup PatchesOf(commits) ELSE m.patches,
   work |-> m.work \cup PatchesOf(commits),
   version |-> m.version + 1]

\* GitHub merges a pull request and, as the repository is set up, deletes its branch.
MergePullRequest(s, how) ==
  /\ remote[s] # {} /\ main.version < MaxVersion
  /\ main' = Landed(main, remote[s], how)
  /\ prs' = prs \cup {s}
  /\ remote' \in {remote, [remote EXCEPT ![s] = {}]}
  /\ late' = late \cup (PatchesOf(local[s]) \ PatchesOf(remote[s]))
  /\ NoFetch
  /\ UNCHANGED <<head, ready, branches, local, base, upstream, trees, job, made>>

\* A merge in the primary checkout that is pushed, as scripts/task-workflow.test.mjs does it.
MergeLocally(s, how) ==
  /\ ready /\ local[s] # {} /\ main.version < MaxVersion
  /\ main' = Landed(main, local[s], how)
  /\ head' = main'.ids /\ seenMain' = main'
  /\ UNCHANGED <<remote, prs, seenRemote, ready, branches, local, base, upstream, trees, job,
                 history>>

OthersAdvance ==
  /\ main.version < MaxVersion
  /\ main' = [main EXCEPT !.version = @ + 1]
  /\ NoFetch
  /\ UNCHANGED <<remote, prs, head, ready, branches, local, base, upstream, trees, job, history>>

\* git pull in the primary checkout; the checkout becoming unfit for the script, and fit again.
UsePrimary ==
  /\ \/ ready /\ FetchOrigin /\ head' = main.ids /\ UNCHANGED ready
     \/ NoFetch /\ ready' = ~ready /\ UNCHANGED head
  /\ UNCHANGED <<origin, branches, local, base, upstream, trees, job, history>>

\* The worktree is switched to another branch and back, or its directory is deleted by hand.
UseTree(s) ==
  /\ \/ tree[s] = "on" /\ tree' = [tree EXCEPT ![s] = "other"] /\ UNCHANGED dirty
     \/ tree[s] = "other" /\ s \in branches /\ tree' = [tree EXCEPT ![s] = "on"] /\ UNCHANGED dirty
     \/ tree[s] \in {"on", "other"} /\ tree' = [tree EXCEPT ![s] = "gone"] /\ dirty' = dirty \ {s}
     \/ tree[s] \in {"gone", "foreign"} /\ tree' = [tree EXCEPT ![s] = "none"] /\ UNCHANGED dirty
  /\ NoFetch
  /\ UNCHANGED <<origin, head, ready, branches, local, base, upstream, job, history>>

Next ==
  \/ \E s \in Slugs :
       \/ Start(s) \/ Sync(s) \/ EndRebase(s) \/ FinishFetch(s)
       \/ Edit(s) \/ Push(s) \/ UseTree(s)
       \/ \E p \in Patches : Commit(s, p)
       \/ \E how \in {"squash", "rebase", "merge"} : MergePullRequest(s, how) \/ MergeLocally(s, how)
  \/ FinishCheck \/ FinishRemove \/ FinishDelete
  \/ OthersAdvance \/ UsePrimary

Spec == Init /\ [][Next]_vars

-----------------------------------------------------------------------------
\* No command of the script loses committed work: every commit is in a local branch, in a
\* branch of origin, or its work is in main.  The exceptions are what the code lets happen:
\* gh is asked by branch name alone (githubPullRequestMerged), so commits that no merged pull
\* request of that name held go with the branch, and so do those made while a finish runs.
WorkIsKept ==
  \A p \in made \ late :
    \/ p \in main.work
    \/ \E s \in Slugs : p \in PatchesOf(local[s]) \cup PatchesOf(remote[s])

=============================================================================
