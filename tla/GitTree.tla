------------------------------ MODULE GitTree ------------------------------
(***************************************************************************)
(* The panel that shows what changed in a workspace                        *)
(* (git-review-panel.tsx, git-review-helpers.ts): its groups and tree of   *)
(* files, which of them is selected, what is expanded, and the diff to the *)
(* remote in place of a file's.  How the detail of a file is read is in    *)
(* GitReview.                                                              *)
(*                                                                         *)
(* The store changes at once, the panel at the next Commit: React's render *)
(* and the panel's effects in their order, each run when what it depends   *)
(* on has changed.  The user acts on a page that has settled.              *)
(***************************************************************************)
EXTENDS Naturals, Sequences

CONSTANTS
  Workspaces,
  PathOrder,     \* the paths as localeCompare orders them, each a sequence of names
  Listings,      \* what git may say of a tree: sets of [path, status, staged, unstaged]
  Queries,       \* what a user may type into the filter: the set of paths it matches
  NoQuery,       \* the filter is empty
  None,
  MaxEvents      \* bound: snapshots, acts of the user, renders of the page

VARIABLES
  workspace,     \* currentGitWorkspaceId
  snapshots,     \* gitSnapshotsByWorkspaceId: [git, files, generated, stamp], or None
  selected,      \* selectedGitFileByWorkspaceId
  filter,        \* gitTreeFilterByWorkspaceId
  open,          \* gitWorkbenchExpanded: the panel is mounted
  due,           \* what must be rendered: "none", the "panel", or the "page" around it too
  drawn,         \* what the effects of the last render depended on, None before the first
  groupsOpen, dirsOpen,        \* expandedGroupIds, expandedDirectoryKeys
  mode,          \* diffMode
  diff,          \* remoteDiff: the workspace it was read of
  loading, failed,             \* remoteDiffLoading, remoteDiffError
  read,          \* the read of a remote diff that no cleanup has cancelled
  folded,        \* history: the user has closed a group or a directory since they last opened
  events         \* counter of the bound, and the number of the next snapshot

store == <<workspace, snapshots, selected, filter>>
tree == <<groupsOpen, dirsOpen, folded>>
remote == <<mode, diff, loading, failed, read>>
vars == <<store, open, due, drawn, tree, remote, events>>

-----------------------------------------------------------------------------
(* git-review-helpers.ts *)

GroupOrder == <<"conflicted", "staged-unstaged", "staged", "unstaged", "untracked">>

Classify(file) ==
  IF file.status = "conflicted" THEN "conflicted"
  ELSE IF file.staged THEN IF file.unstaged THEN "staged-unstaged" ELSE "staged"
  ELSE IF file.status = "untracked" THEN "untracked" ELSE "unstaged"

Query(w) == IF w = None THEN NoQuery ELSE filter[w]
Selected(w) == IF w = None THEN None ELSE selected[w]

\* buildGitReviewGroups: the files that the filter lets through, each in its group.
Rows(w) ==
  IF w = None \/ snapshots[w] = None THEN {}
  ELSE {[group |-> Classify(f), path |-> f.path] :
          f \in {g \in snapshots[w].files : Query(w) = NoQuery \/ g.path \in Query(w)}}
Groups(w) == {r.group : r \in Rows(w)}

\* Group by group, and in a group as localeCompare has it.
Position(seq, x) == CHOOSE i \in DOMAIN seq : seq[i] = x
Precedes(r, s) ==
  LET i == Position(GroupOrder, r.group)
      j == Position(GroupOrder, s.group)
  IN i < j \/ (i = j /\ Position(PathOrder, r.path) <= Position(PathOrder, s.path))

\* resolvePreferredGitReviewFile
Preferred(w) ==
  IF \E r \in Rows(w) : r.path = Selected(w) THEN Selected(w)
  ELSE IF Rows(w) = {} THEN None
  ELSE (CHOOSE r \in Rows(w) : \A s \in Rows(w) : Precedes(r, s)).path

Ancestors(path) == {SubSeq(path, 1, n) : n \in 1..(Len(path) - 1)}
Directories(rows) == UNION {{[group |-> r.group, dir |-> d] : d \in Ancestors(r.path)} : r \in rows}

\* Mutation: the way to the selected file stays closed.
ExpandTop(w) == {k \in Directories(Rows(w)) : Len(k.dir) = 1}

\* collectAutoExpandedDirectoryKeys: the top, the way to the selected file, all when filtered.
AutoExpanded(w) ==
  LET rows == Rows(w)
  IN {k \in Directories(rows) : Len(k.dir) = 1}
     \cup Directories({r \in rows : r.path = Preferred(w)})
     \cup (IF Query(w) = NoQuery THEN {} ELSE Directories(rows))

-----------------------------------------------------------------------------
Act == events < MaxEvents /\ events' = events + 1
Settled == due = "none"

Unmounted ==
  /\ drawn' = None /\ groupsOpen' = {} /\ dirsOpen' = {} /\ folded' = FALSE
  /\ mode' = "working-tree" /\ diff' = None /\ loading' = FALSE /\ failed' = FALSE /\ read' = None

Init ==
  /\ workspace \in Workspaces
  /\ snapshots = [w \in Workspaces |-> None]
  /\ selected = [w \in Workspaces |-> None]
  /\ filter = [w \in Workspaces |-> NoQuery]
  /\ open = FALSE /\ due = "none" /\ drawn = None
  /\ groupsOpen = {} /\ dirsOpen = {} /\ folded = FALSE
  /\ mode = "working-tree" /\ diff = None /\ loading = FALSE /\ failed = FALSE /\ read = None
  /\ events = 0

-----------------------------------------------------------------------------
(* the store *)

\* setWorkspaceGitSnapshot: a selection that the snapshot lacks is dropped.
SetSnapshot(w, snapshot) ==
  /\ snapshots' = [snapshots EXCEPT ![w] = snapshot]
  /\ selected' = [selected EXCEPT ![w] =
       IF \E f \in snapshot.files : f.path = @ THEN @ ELSE None]
  /\ due' = IF open THEN "page" ELSE due
  /\ UNCHANGED <<workspace, filter, open, drawn, tree, remote>>

NewSnapshot(w, git, files) ==
  /\ Act
  /\ SetSnapshot(w, [git |-> git, files |-> IF git THEN files ELSE {},
                     generated |-> events + 1, stamp |-> events + 1])

\* A snapshot comes twice, as the answer to a request and as the notification of it: the
\* store copies its files each time.
SnapshotAgain(w) ==
  /\ Act
  /\ snapshots[w] # None /\ SetSnapshot(w, [snapshots[w] EXCEPT !.stamp = events + 1])

\* The user goes to another workspace or thread, or to no workspace at all.
SelectWorkspace(w) ==
  /\ Act
  /\ w # workspace /\ workspace' = w
  /\ due' = IF open THEN "page" ELSE due
  /\ UNCHANGED <<snapshots, selected, filter, open, drawn, tree, remote>>

-----------------------------------------------------------------------------
(* the user, in the panel *)

OpenReview ==
  /\ Act
  /\ ~open /\ workspace # None
  /\ open' = TRUE /\ due' = "page"
  /\ UNCHANGED <<store, drawn, tree, remote>>

\* Back to the conversation, by the button or the Escape key.
Close ==
  /\ Act
  /\ open /\ open' = FALSE /\ due' = "none"
  /\ Unmounted
  /\ UNCHANGED store

InPanel == Act /\ open /\ Settled /\ UNCHANGED <<workspace, snapshots, open, drawn>>

Expanded(row) ==
  /\ row.group \in groupsOpen
  /\ \A d \in Ancestors(row.path) : [group |-> row.group, dir |-> d] \in dirsOpen

\* handleSelectFile, from a row of the tree.
SelectFile(row) ==
  /\ InPanel
  /\ row \in Rows(workspace) /\ Expanded(row)
  /\ mode' = "working-tree"
  /\ selected' = [selected EXCEPT ![workspace] = row.path]
  /\ due' = "page"
  /\ UNCHANGED <<filter, tree, diff, loading, failed, read>>

Toggle(set, x) == IF x \in set THEN set \ {x} ELSE set \cup {x}

ToggleGroup(group) ==
  /\ InPanel
  /\ group \in Groups(workspace)
  /\ groupsOpen' = Toggle(groupsOpen, group)
  /\ folded' = (folded \/ group \in groupsOpen)
  /\ UNCHANGED <<selected, filter, dirsOpen, remote, due>>

\* The rows of a directory are there when the group and the directories around it are open.
ToggleDirectory(key) ==
  /\ InPanel
  /\ key \in Directories(Rows(workspace)) /\ Expanded([group |-> key.group, path |-> key.dir])
  /\ dirsOpen' = Toggle(dirsOpen, key)
  /\ folded' = (folded \/ key \in dirsOpen)
  /\ UNCHANGED <<selected, filter, groupsOpen, remote, due>>

SetFilter(query) ==
  /\ InPanel
  /\ query # filter[workspace]
  /\ filter' = [filter EXCEPT ![workspace] = query]
  /\ due' = "page"
  /\ UNCHANGED <<selected, tree, remote>>

\* The snapshot that is asked for comes later, as any other.
PressRefresh ==
  /\ InPanel
  /\ diff' = None /\ failed' = FALSE
  /\ due' = "page"
  /\ UNCHANGED <<selected, filter, tree, mode, loading, read>>

PressRemoteDiff ==
  /\ InPanel
  /\ snapshots[workspace] # None /\ snapshots[workspace].git
  /\ mode' = IF mode = "remote" THEN "working-tree" ELSE "remote"
  /\ due' = "panel"
  /\ UNCHANGED <<selected, filter, tree, diff, loading, failed, read>>

-----------------------------------------------------------------------------
(* the page *)

\* WorkbenchScreen renders for another reason and passes new callbacks.
PageRenders ==
  /\ Act
  /\ open /\ due' = "page"
  /\ UNCHANGED <<store, open, drawn, tree, remote>>

GroupsChanged(d) == drawn = None \/ d.stamp # drawn.stamp \/ d.filter # drawn.filter
ViewChanged(d) == GroupsChanged(d) \/ d.visible # drawn.visible
Identity(w) == IF w = None \/ snapshots[w] = None THEN 0 ELSE snapshots[w].generated
IdentityChanged(d) == drawn = None \/ d.identity # drawn.identity
RemoteChanged(d) ==
  drawn = None \/ due = "page" \/ d.mode # drawn.mode \/ d.diff # drawn.diff \/ d.stamp # drawn.stamp

Drawing ==
  [stamp |-> IF workspace = None \/ snapshots[workspace] = None THEN 0
             ELSE snapshots[workspace].stamp,
   identity |-> Identity(workspace), filter |-> Query(workspace),
   visible |-> Preferred(workspace), mode |-> mode, diff |-> diff]

\* The first effect selects what is shown.
ShowSelection(d) ==
  IF d.visible # Selected(workspace)
  THEN selected' = [selected EXCEPT ![workspace] = d.visible]
  ELSE UNCHANGED selected

\* The next two open every group, and the directories that are to be open by themselves.
OpenTree(d) ==
  /\ groupsOpen' = IF GroupsChanged(d) THEN Groups(workspace) ELSE groupsOpen
  /\ dirsOpen' = IF ViewChanged(d)
                 THEN (dirsOpen \cap Directories(Rows(workspace))) \cup AutoExpanded(workspace)
                 ELSE dirsOpen
  /\ folded' = (folded /\ ~ViewChanged(d))

\* Mutation: only a new panel starts with the working tree.
ForgetsOnce(d) == drawn = None

\* The last two: another snapshot ends the view of the remote diff, and the diff is read when
\* the render that is on the screen shows it and has none.
Forgets(d) == IdentityChanged(d)
ReadsRemote(d) ==
  /\ workspace # None /\ snapshots[workspace] # None /\ snapshots[workspace].git
  /\ d.mode = "remote" /\ d.diff = None
RunRemoteEffects(d) ==
  /\ mode' = IF Forgets(d) \/ d.visible # Selected(workspace) THEN "working-tree" ELSE mode
  /\ diff' = IF Forgets(d) THEN None ELSE diff
  /\ IF RemoteChanged(d) /\ ReadsRemote(d)
     THEN read' = workspace /\ loading' = TRUE /\ failed' = FALSE
     ELSE /\ read' = IF RemoteChanged(d) THEN None ELSE read
          /\ loading' = (loading /\ ~Forgets(d)) /\ failed' = (failed /\ ~Forgets(d))

\* Without a workspace the page closes the panel.
Commit ==
  /\ open /\ ~Settled
  /\ IF workspace = None
     THEN open' = FALSE /\ due' = "none" /\ Unmounted /\ UNCHANGED selected
     ELSE LET d == Drawing
          IN /\ ShowSelection(d) /\ OpenTree(d) /\ RunRemoteEffects(d)
             /\ drawn' = d
             /\ due' = IF selected' # selected THEN "page"
                       ELSE IF mode' # mode \/ diff' # diff THEN "panel" ELSE "none"
             /\ UNCHANGED open
  /\ UNCHANGED <<workspace, snapshots, filter, events>>

\* git.diffToRemote answers a read that is not cancelled.
ReadEnds(ok) ==
  /\ read # None
  /\ read' = None /\ loading' = FALSE
  /\ IF ok THEN diff' = read /\ UNCHANGED failed ELSE failed' = TRUE /\ UNCHANGED diff
  /\ due' = IF Settled THEN "panel" ELSE due
  /\ UNCHANGED <<store, open, drawn, tree, mode, events>>

Next ==
  \/ \E w \in Workspaces : SnapshotAgain(w) \/ NewSnapshot(w, FALSE, {})
  \/ \E w \in Workspaces, files \in Listings : NewSnapshot(w, TRUE, files)
  \/ \E w \in Workspaces \cup {None} : SelectWorkspace(w)
  \/ OpenReview \/ Close
  \/ \E row \in Rows(workspace) : SelectFile(row)
  \/ \E g \in Groups(workspace) : ToggleGroup(g)
  \/ \E k \in Directories(Rows(workspace)) : ToggleDirectory(k)
  \/ \E q \in Queries \cup {NoQuery} : SetFilter(q)
  \/ PressRefresh \/ PressRemoteDiff
  \/ PageRenders \/ Commit
  \/ \E ok \in BOOLEAN : ReadEnds(ok)

Spec == Init /\ [][Next]_vars

-----------------------------------------------------------------------------
\* When the panel has settled: the file that is stored as selected is one the tree has, the
\* first if the last one is gone; its row can be seen unless the user closed something since;
\* and the remote diff that is shown is one of this workspace, or is being read, or failed.
TreeIsTrue ==
  open /\ Settled /\ workspace # None =>
    /\ selected[workspace] = Preferred(workspace)
    /\ selected[workspace] # None /\ ~folded =>
         \E row \in Rows(workspace) : row.path = selected[workspace] /\ Expanded(row)
    /\ mode = "remote" => /\ snapshots[workspace].git
                          /\ diff = workspace \/ (read = workspace /\ loading) \/ failed

=============================================================================
