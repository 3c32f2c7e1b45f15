----------------------------- MODULE GitReview -----------------------------
(***************************************************************************)
(* The git snapshot of a workspace, from `git status' to the review panel  *)
(* of a page, for one path.                                                *)
(*                                                                         *)
(* The working tree is changed by others at any time.  A refresh reads the *)
(* status, then patches (left out), and then replaces what the server has; *)
(* refreshes run side by side.  The panel reads the detail of the selected *)
(* file, with the status that the server's snapshot has for it.            *)
(*                                                                         *)
(* The socket is FIFO and never lost here: what the server sends is        *)
(* applied when it is sent.  Two snapshots have not the same generatedAt.  *)
(***************************************************************************)
EXTENDS Naturals, Functions, Sequences

CONSTANTS Texts, Absent,     \* what a version of the file may hold; it does not exist
          Refreshes,         \* bound: refreshes under way, each id is used again
          DetailReads,       \* bound: reads of the detail under way, cancelled ones too
          NoRead, NoDetail,
          MaxChanges         \* bound: changes of the tree

ASSUME GitAssumption ==
  MaxChanges \in Nat /\ Absent \notin Texts /\ NoRead \notin DetailReads /\ "" \notin Texts

VARIABLES
  tree,          \* the path in HEAD, in the index and in the working tree
  changes,       \* number of changes of the tree
  asked,         \* history: its value at the last refresh that was asked for
  refreshes,     \* refresh |-> what it is for and has read
  snapshot,      \* WorkbenchService.workspaceGitSnapshots of the workspace
  pageSnapshot,  \* gitSnapshotsByWorkspaceId of the page
  detailReads,   \* detail read |-> how far it is
  current,       \* the read the panel's effect has not cancelled
  detail,        \* detailByPath of the path
  detailError,
  late           \* history: a snapshot replaced a younger one in the server

serverVars == <<refreshes, snapshot, late>>
panelVars == <<detailReads, current, detail, detailError>>
treeVars == <<tree, changes>>
vars == <<treeVars, asked, serverVars, pageSnapshot, panelVars>>

-----------------------------------------------------------------------------
(* What git says of the path, and what the code makes of it. *)

\* The letters of `git status --porcelain': index against HEAD, then work against index.
Letter(old, new) ==
  IF old = new THEN " " ELSE IF old = Absent THEN "A" ELSE IF new = Absent THEN "D" ELSE "M"

\* An untracked file is a line of its own, after the lines of what is tracked.
StatusLines(t) ==
  LET x == Letter(t.head, t.index)
      y == IF t.index = Absent THEN " " ELSE Letter(t.index, t.work)
  IN (IF x # " " \/ y # " " THEN <<[x |-> x, y |-> y]>> ELSE <<>>)
     \o (IF t.index = Absent /\ t.work # Absent THEN <<[x |-> "?", y |-> "?"]>> ELSE <<>>)

\* Mutation: only the letter of the index counts.
DeriveFromIndex(line) ==
  IF line.x = "?" THEN "untracked"
  ELSE IF line.x = "D" THEN "deleted"
  ELSE IF line.x = "A" THEN "added" ELSE "modified"

DeriveStatus(line) ==
  IF line.x = "?" THEN "untracked"
  ELSE IF "D" \in {line.x, line.y} THEN "deleted"
  ELSE IF "A" \in {line.x, line.y} THEN "added" ELSE "modified"

\* The files of a snapshot, in the order of their lines: they are sorted by path.
Files(t) == [i \in DOMAIN StatusLines(t) |-> DeriveStatus(StatusLines(t)[i])]

Text(content) == IF content = Absent THEN "" ELSE content

Unavailable == [mode |-> "unavailable", original |-> "", modified |-> ""]

\* buildGitFileReviewDetail(): reading what does not exist fails.
FileDetail(t, status) ==
  LET fromHead == status \in {"deleted", "modified"}
      fromWork == status # "deleted"
  IN IF (fromHead /\ t.head = Absent) \/ (fromWork /\ t.work = Absent) THEN Unavailable
     ELSE [mode |-> "inline-diff",
           original |-> IF fromHead THEN Text(t.head) ELSE "",
           modified |-> IF fromWork THEN Text(t.work) ELSE ""]

-----------------------------------------------------------------------------
NoSnapshot == [files |-> <<>>, version |-> 0, known |-> FALSE]

Snapshot(version, files) == [files |-> files, version |-> version, known |-> TRUE]

Init ==
  /\ \E content \in Texts \cup {Absent} :
        tree = [head |-> content, index |-> content, work |-> content]
  /\ changes = 0 /\ asked = 0
  /\ refreshes = <<>> /\ snapshot = NoSnapshot /\ late = FALSE
  /\ pageSnapshot = NoSnapshot
  /\ detailReads = <<>> /\ current = NoRead /\ detail = NoDetail /\ detailError = FALSE

Put(f, x, v) == [y \in DOMAIN f \cup {x} |-> IF y = x THEN v ELSE f[y]]
Drop(f, x) == Restrict(f, DOMAIN f \ {x})

(* The tree: edits, git add, git rm --cached, git commit, git switch. *)

ChangeTree(t) ==
  /\ changes < MaxChanges /\ t # tree
  /\ tree' = t /\ changes' = changes + 1

Edit == \E content \in Texts \cup {Absent} : ChangeTree([tree EXCEPT !.work = content])
Stage == ChangeTree([tree EXCEPT !.index = tree.work])
Untrack == ChangeTree([tree EXCEPT !.index = Absent])
Commit == ChangeTree([tree EXCEPT !.head = tree.index])

TreeChanges ==
  /\ Edit \/ Stage \/ Untrack \/ Commit
  /\ UNCHANGED <<asked, serverVars, pageSnapshot, panelVars>>

-----------------------------------------------------------------------------
(* The panel: its effects run when the snapshot or a render changes what   *)
(* they depend on; every render of the screen passes a new function.       *)

Cancel == NoRead

\* A read asked for by the effect; `fresh' ones are of the snapshot shown.
NewRead == [pc |-> "asked", status |-> "none", version |-> 0, seen |-> tree, fresh |-> TRUE,
            result |-> Unavailable]

Stale(reads) == [d \in DOMAIN reads |-> [reads[d] EXCEPT !.fresh = FALSE]]

\* The detail effect with what the panel shows after the step: it cancels the read
\* it made and makes another unless there is a detail, or no file.
RunDetailEffect(reads, shown, known, error) ==
  IF known = NoDetail /\ shown.files # <<>>
  THEN \E d \in DetailReads \ DOMAIN reads :
         /\ detailReads' = Put(reads, d, NewRead) /\ current' = d /\ detailError' = FALSE
  ELSE detailReads' = reads /\ current' = Cancel /\ detailError' = error

\* A snapshot with another generatedAt clears what the panel has read.
ShowSnapshot(s) ==
  /\ pageSnapshot' = s /\ detail' = NoDetail
  /\ RunDetailEffect(Stale(detailReads), s, NoDetail, FALSE)

\* The screen renders: for a delta, a summary, anything.
Renders ==
  /\ detail = NoDetail /\ pageSnapshot.files # <<>>
  /\ RunDetailEffect(detailReads, pageSnapshot, detail, detailError)
  /\ UNCHANGED <<treeVars, asked, serverVars, pageSnapshot, detail>>

-----------------------------------------------------------------------------
(* Refreshes: for an event (a turn or command has ended, a diff, the page's  *)
(* button), for the effect of the page that asks for the branches too, and   *)
(* for a switch of branches.                                                 *)

Kinds == {"event", "page"}

\* Mutation: one refresh at a time, others are skipped.
SkipIfRefreshing == refreshes = <<>>

MayRefresh == TRUE

Refresh(r, kind) ==
  /\ r \notin DOMAIN refreshes
  /\ asked' = changes
  /\ IF MayRefresh
     THEN refreshes' = Put(refreshes, r, [kind |-> kind, pc |-> "asked", snapshot |-> NoSnapshot])
     ELSE UNCHANGED refreshes
  /\ UNCHANGED <<treeVars, snapshot, late, pageSnapshot, panelVars>>

\* workspace.git.branch.switch: git switch, here of a clean path, then a refresh.
SwitchBranch(r) ==
  /\ r \notin DOMAIN refreshes /\ tree.index = tree.head
  /\ \E content \in (Texts \cup {Absent}) \ {tree.head} :
        /\ tree.work = tree.head
        /\ ChangeTree([head |-> content, index |-> content, work |-> content])
  /\ asked' = changes'
  /\ refreshes' = Put(refreshes, r, [kind |-> "page", pc |-> "asked", snapshot |-> NoSnapshot])
  /\ UNCHANGED <<snapshot, late, pageSnapshot, panelVars>>

ReadStatus(r) ==
  /\ r \in DOMAIN refreshes /\ refreshes[r].pc = "asked"
  /\ refreshes' = [refreshes EXCEPT ![r].pc = "read",
                                    ![r].snapshot = Snapshot(changes, Files(tree))]
  /\ UNCHANGED <<treeVars, asked, snapshot, late, pageSnapshot, panelVars>>

Store(s) == snapshot' = s /\ late' = (s.version < snapshot.version \/ (late /\ s.version < asked))

\* The page shows another snapshot now than the ones whose answer is still to come.
Outshone(rs) == [r \in DOMAIN rs |-> [rs[r] EXCEPT !.pc = IF @ = "shown" THEN "outshone" ELSE @]]

\* refreshWorkspaceGitSnapshot() ends: stored and broadcast.  What else the page asked
\* for is still to come.
RefreshEnds(r) ==
  /\ r \in DOMAIN refreshes /\ refreshes[r].pc = "read"
  /\ Store(refreshes[r].snapshot)
  /\ refreshes' = IF refreshes[r].kind = "event" THEN Drop(Outshone(refreshes), r)
                  ELSE [Outshone(refreshes) EXCEPT ![r].pc = "shown"]
  /\ ShowSnapshot(refreshes[r].snapshot)
  /\ UNCHANGED <<treeVars, asked>>

\* The page sets the snapshot of the answer after the branches have come.  The one it
\* has already keeps its detail; only the object is another.
AnswerWithBranches(r) ==
  /\ r \in DOMAIN refreshes
  /\ \/ /\ refreshes[r].pc = "outshone" /\ refreshes' = Drop(Outshone(refreshes), r)
        /\ ShowSnapshot(refreshes[r].snapshot)
     \/ /\ refreshes[r].pc = "shown" /\ refreshes' = Drop(refreshes, r)
        /\ RunDetailEffect(detailReads, pageSnapshot, detail, detailError)
        /\ UNCHANGED <<pageSnapshot, detail>>
  /\ UNCHANGED <<treeVars, asked, snapshot, late>>

-----------------------------------------------------------------------------
(* handleWorkspaceGitFileRead() *)

\* The first file with the path; without one the server reads a snapshot of its own.
FindFile(d) ==
  /\ d \in DOMAIN detailReads /\ detailReads[d].pc = "asked"
  /\ detailReads' =
       IF snapshot.files # <<>>
       THEN [detailReads EXCEPT ![d].pc = "found", ![d].status = Head(snapshot.files),
                                ![d].version = snapshot.version]
       ELSE [detailReads EXCEPT ![d].pc = "missing"]
  /\ UNCHANGED <<treeVars, asked, serverVars, pageSnapshot, current, detail, detailError>>

\* That one is stored, but nobody is told.
ReadMissing(d) ==
  /\ d \in DOMAIN detailReads /\ detailReads[d].pc = "missing"
  /\ LET s == Snapshot(changes, Files(tree))
     IN /\ Store(s)
        /\ detailReads' =
             IF s.files # <<>>
             THEN [detailReads EXCEPT ![d].pc = "found", ![d].status = Head(s.files),
                                      ![d].version = s.version]
             ELSE [detailReads EXCEPT ![d].pc = "failed"]
  /\ UNCHANGED <<treeVars, asked, refreshes, pageSnapshot, current, detail, detailError>>

ReadDetail(d) ==
  /\ d \in DOMAIN detailReads /\ detailReads[d].pc = "found"
  /\ detailReads' = [detailReads EXCEPT ![d].pc = "answered", ![d].seen = tree,
                                        ![d].result = FileDetail(tree, detailReads[d].status)]
  /\ UNCHANGED <<treeVars, asked, serverVars, pageSnapshot, current, detail, detailError>>

\* Mutation: the panel takes the answer of a read it has cancelled.
TakesAll(d) == TRUE

Takes(d) == d = current

\* The answer at the panel.
ReceiveDetail(d) ==
  /\ d \in DOMAIN detailReads /\ detailReads[d].pc \in {"answered", "failed"}
  /\ IF Takes(d)
     THEN /\ detail' = IF detailReads[d].pc = "answered" THEN detailReads[d] ELSE detail
          /\ detailError' = (detailReads[d].pc = "failed")
     ELSE UNCHANGED <<detail, detailError>>
  /\ current' = IF d = current THEN Cancel ELSE current
  /\ detailReads' = Drop(detailReads, d)
  /\ UNCHANGED <<treeVars, asked, serverVars, pageSnapshot>>

Next ==
  \/ TreeChanges \/ Renders
  \/ \E r \in Refreshes : \/ \E kind \in Kinds : Refresh(r, kind)
                          \/ SwitchBranch(r) \/ ReadStatus(r)
                          \/ RefreshEnds(r) \/ AnswerWithBranches(r)
  \/ \E d \in DetailReads : FindFile(d) \/ ReadMissing(d) \/ ReadDetail(d) \/ ReceiveDetail(d)

Spec == Init /\ [][Next]_vars

-----------------------------------------------------------------------------
\* What was asked for after a change is in the snapshot of the server, or a refresh that
\* will read it is under way, or an older refresh ended last (workbench-service.ts:1408).
SnapshotIsDue ==
  snapshot.version < asked =>
    \/ late
    \/ \E r \in DOMAIN refreshes : \/ refreshes[r].pc = "asked"
                                   \/ refreshes[r].pc = "read" /\ refreshes[r].snapshot.version >= asked

\* A detail that is shown was asked for with the snapshot that is shown: answers of
\* reads made for an earlier one are ignored, and where a file is shown without its
\* detail, the read of it is under way or has failed (git-review-panel.tsx:191).
DetailIsOfSnapshot ==
  /\ detail # NoDetail => detail.fresh
  /\ (detail = NoDetail /\ pageSnapshot.files # <<>>) =>
        detailError \/ (current \in DOMAIN detailReads /\ detailReads[current].fresh)

\* The detail shows what HEAD and the working tree hold when nothing has changed since
\* the status was read, but for a file added and then deleted, which cannot be read,
\* and a file that is in the working tree though it was removed from the index, which
\* is shown as deleted.
DetailIsOfTree ==
  \A d \in DOMAIN detailReads :
    LET read == detailReads[d]
        lines == StatusLines(read.seen)
    IN (read.pc = "answered" /\ Files(read.seen) # <<>> /\ read.status = Head(Files(read.seen))) =>
         \/ read.result = [mode |-> "inline-diff", original |-> Text(read.seen.head),
                           modified |-> Text(read.seen.work)]
         \/ Len(lines) = 2
         \/ lines[1] = [x |-> "A", y |-> "D"]

\* The detail beside a file is the one of the snapshot on screen, and true of the tree.
DetailIsTrue == DetailIsOfSnapshot /\ DetailIsOfTree

(* A file of the workspace is shown as it is, from git status to its detail. *)
ReviewIsTrue == SnapshotIsDue /\ DetailIsTrue

=============================================================================
