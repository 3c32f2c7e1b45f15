------------------------------ MODULE Projects ------------------------------
(***************************************************************************)
(* The workspaces as a page has them: the list of its bootstrap, the one   *)
(* that is selected, the form in which one is made, changed or removed,    *)
(* the requests of that form to the tables of the server, and the calls    *)
(* that open or fork a thread, whose answers select its workspace.         *)
(*                                                                         *)
(* One page, logged in, so that the tables change by its requests only.    *)
(* The order of the list is left out but for saved workspaces before       *)
(* derived ones, as are names, models and policies, and what a form says   *)
(* of an error.                                                            *)
(***************************************************************************)
EXTENDS Workspaces

CONSTANTS Cwds,        \* directories of the threads codex has; bound: none starts elsewhere
          Directories, \* the paths that are directories
          All,         \* the selection "all"
          NoEditor,    \* the form is of no workspace
          MaxAsked,    \* bound: requests of the form
          MaxFailed,   \* bound: requests that fail on the way
          MaxOpening   \* bound: calls that open a thread at once

VARIABLES
  bootstrap,         \* ["bootstrap"]: workspaces
  fetch,             \* the request that gets it anew
  threaded,          \* derived workspaces of which the page knows an active thread
  activeWorkspaceId,
  modal,             \* workspaceModalOpen and workspaceEditor
  field,             \* the path in the open form, which another workspace's form does not reset
  pending,           \* workspaceMutationPending
  requests,          \* of the form, in the order they were sent
  opening,           \* the workspaces of calls that open a thread, in the order they were made
  autoOpened,        \* autoOpenedWorkspaceModalRef
  picked,            \* history: what the user selected, until something else selects
  asked, lost        \* history: requests of the form, those that failed on the way

pageVars == <<bootstrap, fetch, threaded, activeWorkspaceId, modal, field, pending, requests,
              opening, autoOpened, picked, asked, lost>>
vars == <<tables, pageVars>>

Catalogue == buildWorkspaceCatalog(Cwds)
IdsOf(entries) == {e.id : e \in entries}

\* visibleSidebarWorkspaces
Visible(b, t) == {e \in b : e.id \in Ids \cup t}
FirstOf(entries) ==
  IF \E e \in entries : e.id \in Ids THEN {e \in entries : e.id \in Ids} ELSE entries

Idle == [stage |-> "none", entries |-> {}]

TypeOK ==
  /\ TablesTypeOK
  /\ threaded \subseteq Cwds
  /\ activeWorkspaceId \in Ids \cup Paths \cup {All}
  /\ fetch.stage \in {"none", "sent", "read"}
  /\ \A k \in DOMAIN requests : requests[k].kind \in {"check", "post", "patch", "delete", "dismiss"}
  /\ opening \in Seq(Ids \cup Paths) /\ Len(opening) <= MaxOpening
  /\ {modal.open, pending, autoOpened} \subseteq BOOLEAN /\ field \in Paths
  /\ asked \in 0..MaxAsked /\ lost \in 0..MaxFailed

Init ==
  /\ TablesInit
  /\ bootstrap = Catalogue /\ fetch = Idle
  /\ threaded \in SUBSET Cwds
  /\ activeWorkspaceId \in IF Visible(bootstrap, threaded) = {} THEN {All}
                           ELSE IdsOf(Visible(bootstrap, threaded))
  /\ modal = [open |-> bootstrap = {}, editor |-> NoEditor]
  /\ autoOpened = modal.open
  /\ field = Home
  /\ pending = FALSE /\ requests = <<>> /\ opening = <<>>
  /\ picked = NoWorkspace /\ asked = 0 /\ lost = 0

-----------------------------------------------------------------------------
(* Rendering.                                                              *)

\* The selection a stands while the list has it; if not, an effect selects the first that is shown.
Selected(b, t, a) ==
  /\ bootstrap' = b /\ threaded' = t
  /\ activeWorkspaceId' \in
       IF a \in IdsOf(b) THEN {a}
       ELSE IF Visible(b, t) = {} THEN {All} ELSE IdsOf(FirstOf(Visible(b, t)))

\* setWorkspaceEditor(e), setWorkspaceModalOpen(open): only a form that is mounted takes its
\* fields from e.
Stored(e) == e # NoEditor /\ e.id \in Ids
PathOf(e) == IF e = NoEditor THEN Home ELSE e.absPath
ShowForm(open, e) ==
  /\ modal' = [open |-> open, editor |-> e]
  /\ field' = IF open /\ modal.open THEN field ELSE PathOf(e)

\* closeWorkspaceModal() of the handlers, and the effect that opens the form once for an empty list.
CloseForm(b) ==
  LET opens == b = {} /\ ~autoOpened IN
  /\ autoOpened' = (autoOpened \/ opens)
  /\ modal' = [open |-> opens, editor |-> NoEditor]
  /\ field' = Home

\* The same effect where the handler leaves the form alone.
AutoOpen(b) ==
  IF b = {} /\ ~autoOpened /\ ~modal.open
    THEN ShowForm(TRUE, NoEditor) /\ autoOpened' = TRUE
    ELSE UNCHANGED <<modal, field, autoOpened>>

-----------------------------------------------------------------------------
(* The user.                                                               *)

\* handleWorkspaceSelect(): a row of the list, a thread of its group, or "all"
Select(id) ==
  /\ id \in IdsOf(Visible(bootstrap, threaded)) \cup {All}
  /\ Selected(bootstrap, threaded, id)
  /\ picked' = id
  /\ UNCHANGED <<tables, fetch, modal, field, pending, requests, opening, autoOpened, asked,
                 lost>>

\* openCreateWorkspaceModal() and openEditWorkspaceModal(): the overlay lets clicks through.
OpenForm(e) ==
  /\ e \in {NoEditor} \cup Visible(bootstrap, threaded)
  /\ ShowForm(TRUE, e)
  /\ UNCHANGED <<tables, bootstrap, fetch, threaded, activeWorkspaceId, pending, requests, opening,
                 autoOpened, picked, asked, lost>>

\* closeWorkspaceModal()
Close ==
  /\ modal.open
  /\ CloseForm(bootstrap)
  /\ pending' = FALSE
  /\ UNCHANGED <<tables, bootstrap, fetch, threaded, activeWorkspaceId, requests, opening, picked,
                 asked, lost>>

\* The path of a derived workspace is not edited.
TypePath(p) ==
  /\ modal.open /\ (modal.editor = NoEditor \/ Stored(modal.editor))
  /\ p # field /\ field' = p
  /\ UNCHANGED <<tables, bootstrap, fetch, threaded, activeWorkspaceId, modal, pending, requests,
                 opening, autoOpened, picked, asked, lost>>

\* A handler goes by the list, the editor and the selection of the moment it was called.
Twins(p, e) == {t \in bootstrap : t.absPath = p /\ (e # NoEditor => t.id # e.id)}
Request(kind, path) ==
  [kind |-> kind, path |-> path, answer |-> "none",
   target |-> IF Stored(modal.editor) THEN modal.editor.id ELSE NoWorkspace,
   twins |-> IF kind = "check" THEN IdsOf(Twins(path, modal.editor)) ELSE {},
   deselects |-> kind # "check" /\ activeWorkspaceId = modal.editor.id]

Ask(request) ==
  /\ modal.open /\ ~pending
  /\ asked < MaxAsked /\ asked' = asked + 1
  /\ requests' = Append(requests, request)
  /\ UNCHANGED <<tables, bootstrap, fetch, threaded, activeWorkspaceId, modal, field, opening,
                 autoOpened, picked, lost>>

\* handleWorkspaceSubmit(): until the path is checked the buttons stay enabled
Submit == Ask(Request("check", field)) /\ UNCHANGED pending

\* handleDeleteWorkspace()
RemoveWorkspace ==
  /\ modal.editor # NoEditor
  /\ Ask(Request(IF Stored(modal.editor) THEN "delete" ELSE "dismiss", modal.editor.absPath))
  /\ pending' = TRUE

-----------------------------------------------------------------------------
(* The server.  Requests of a page may overtake each other.                *)

Answered(k, answer) == requests' = [requests EXCEPT ![k].answer = answer]

\* home-paths.ts
ensureHomeScopedPath(p) == isBoundaryPrefix(Home, p)
ensureHomeScopedDirectory(p) == ensureHomeScopedPath(p) /\ p \in Directories

\* validateWorkspaceInput()
Valid(p) == ensureHomeScopedDirectory(p)

\* GET /api/workspace-path-suggestions
ServeCheck(k) ==
  /\ requests[k].kind = "check"
  /\ Answered(k, IF Valid(requests[k].path) THEN "ok" ELSE "refused")
  /\ UNCHANGED tables

\* POST /api/workspaces; the answer is the id of the new row
ServePost(k) ==
  LET p == requests[k].path IN
  /\ requests[k].kind = "post"
  /\ IF ~Valid(p) THEN Answered(k, "refused") /\ UNCHANGED tables
     ELSE \E id \in Ids : CreateRow(id, p) /\ Answered(k, IF Taken(p, id) THEN "taken" ELSE id)

\* PATCH /api/workspaces/:id
ServePatch(k) ==
  LET p == requests[k].path
      id == requests[k].target IN
  /\ requests[k].kind = "patch"
  /\ IF ~Valid(p) \/ id \notin DOMAIN workspaces THEN Answered(k, "refused") /\ UNCHANGED tables
     ELSE UpdateRow(id, p) /\ Answered(k, IF Taken(p, id) THEN "taken" ELSE id)

\* DELETE /api/workspaces/:id
ServeDelete(k) ==
  LET id == requests[k].target IN
  /\ requests[k].kind = "delete"
  /\ IF id \notin DOMAIN workspaces THEN Answered(k, "refused") /\ UNCHANGED tables
     ELSE DeleteRow(id) /\ Answered(k, "ok")

\* POST /api/workspaces/dismiss
ServeDismiss(k) ==
  /\ requests[k].kind = "dismiss"
  /\ ignorePath(requests[k].path) /\ UNCHANGED workspaces
  /\ Answered(k, "ok")

Serve(k) ==
  /\ requests[k].answer = "none"
  /\ ServeCheck(k) \/ ServePost(k) \/ ServePatch(k) \/ ServeDelete(k) \/ ServeDismiss(k)
  /\ UNCHANGED <<bootstrap, fetch, threaded, activeWorkspaceId, modal, field, pending, opening,
                 autoOpened, picked, asked, lost>>

\* getBootstrap()
ServeFetch ==
  /\ fetch.stage = "sent"
  /\ fetch' = [stage |-> "read", entries |-> Catalogue]
  /\ UNCHANGED <<tables, bootstrap, threaded, activeWorkspaceId, modal, field, pending, requests,
                 opening, autoOpened, picked, asked, lost>>

-----------------------------------------------------------------------------
(* Answers reach the page.                                                 *)

Done(k) == requests' = RemoveAt(requests, k)

RefetchIfIdle == fetch' = IF fetch = Idle THEN [fetch EXCEPT !.stage = "sent"] ELSE fetch
\* invalidateBootstrap(): the list is fetched anew, a fetch under way is given up.
Refetch == fetch' = [stage |-> "sent", entries |-> {}]

\* An error is shown in the form; `finally` ends the submission.
Refused(k) ==
  /\ requests[k].answer = "refused"
  /\ Done(k) /\ pending' = FALSE
  /\ UNCHANGED <<tables, bootstrap, fetch, threaded, activeWorkspaceId, modal, field, opening,
                 autoOpened, picked, asked, lost>>

\* The path is fit for a workspace: another that has it is selected, or the fields are sent.
Checked(k) ==
  LET r == requests[k] IN
     /\ r.kind = "check" /\ r.answer = "ok"
     /\ IF r.twins # {}
        THEN /\ \E id \in r.twins : Selected(bootstrap, threaded, id)
             /\ CloseForm(bootstrap)
             /\ Done(k) /\ pending' = FALSE
             /\ picked' = NoWorkspace
        ELSE /\ requests' = Append(RemoveAt(requests, k),
                  [r EXCEPT !.answer = "none", !.kind = 
                     IF r.target # NoWorkspace THEN "patch" ELSE "post"])
             /\ pending' = TRUE
             /\ UNCHANGED <<bootstrap, threaded, activeWorkspaceId, modal, field, autoOpened,
                            picked>>
     /\ UNCHANGED <<tables, fetch, opening, asked, lost>>

\* The workspace is saved, or its path was taken by a row the page did not know.
SaveAnswered(k) ==
  LET r == requests[k] IN
  /\ r.kind \in {"post", "patch"} /\ r.answer \in Ids \cup {"taken"}
  /\ IF r.answer = "taken" THEN UNCHANGED <<bootstrap, threaded, activeWorkspaceId, picked>>
     ELSE Selected(bootstrap, threaded, r.answer) /\ picked' = NoWorkspace
  /\ CloseForm(bootstrap)
  /\ Refetch
  /\ Done(k) /\ pending' = FALSE
  /\ UNCHANGED <<tables, opening, asked, lost>>

\* handleDeleteWorkspace() goes by the selection it was called with.
RemoveAnswered(k) ==
  LET r == requests[k] IN
  /\ r.kind \in {"delete", "dismiss"} /\ r.answer = "ok"
  /\ IF r.deselects THEN Selected(bootstrap, threaded, All) /\ picked' = NoWorkspace
     ELSE UNCHANGED <<bootstrap, threaded, activeWorkspaceId, picked>>
  /\ CloseForm(bootstrap)
  /\ Refetch
  /\ Done(k) /\ pending' = FALSE
  /\ UNCHANGED <<tables, opening, asked, lost>>

\* A request or its answer is lost: the handler reports an error.
Lost(k) ==
  /\ lost < MaxFailed /\ lost' = lost + 1
  /\ Done(k) /\ pending' = FALSE
  /\ UNCHANGED <<tables, bootstrap, fetch, threaded, activeWorkspaceId, modal, field, opening,
                 autoOpened, picked, asked>>

Fetched ==
  /\ fetch.stage = "read" /\ fetch' = Idle
  /\ Selected(fetch.entries, threaded, activeWorkspaceId)
  /\ AutoOpen(fetch.entries)
  /\ picked' = IF picked \in IdsOf(fetch.entries) \cup {All} THEN picked ELSE NoWorkspace
  /\ UNCHANGED <<tables, pending, requests, opening, asked, lost>>

\* Threads of the page start or are archived.
ThreadsChange(t) ==
  /\ t # threaded
  /\ Selected(bootstrap, t, activeWorkspaceId)
  /\ UNCHANGED <<tables, fetch, modal, field, pending, requests, opening, autoOpened, picked,
                 asked, lost>>

-----------------------------------------------------------------------------
(* Threads bring the workspace they are in, whatever is selected by then.  *)

\* setActiveWorkspace(w) of a handler or an effect; a workspace that is no longer listed gives way
\* to the first that is shown.
Follow(w, t) ==
  /\ Selected(bootstrap, t, w)
  /\ picked' = NoWorkspace
  /\ UNCHANGED <<tables, fetch, modal, field, pending, requests, autoOpened, asked, lost>>

\* openThread(), of a group's button or the selection, and ensureThreadForPrompt()
OpenThread(e) ==
  /\ e \in bootstrap /\ e.absPath \in Cwds
  /\ Len(opening) < MaxOpening
  /\ opening' = Append(opening, e.id)
  /\ UNCHANGED <<tables, bootstrap, fetch, threaded, activeWorkspaceId, modal, field, pending, requests,
                 autoOpened, picked, asked, lost>>

\* The thread may be in another workspace by now, if one was saved while codex started it.
ThreadOpened(k) ==
  /\ \E t \in {threaded, threaded \cup ({opening[k]} \cap Cwds)} : Follow(opening[k], t)
  /\ opening' = RemoveAt(opening, k)

\* The workspace is unknown to the server, codex refuses, or the call is lost.
ThreadRefused(k) ==
  /\ opening' = RemoveAt(opening, k)
  /\ UNCHANGED <<tables, bootstrap, fetch, threaded, activeWorkspaceId, modal, field, pending, requests,
                 autoOpened, picked, asked, lost>>

\* The answer to handleForkThread(); the call itself changes nothing.  The workspace may be one the
\* page does not know yet, or one that is gone.
ThreadForked(w) == Follow(w, threaded \cup ({w} \cap Cwds)) /\ UNCHANGED opening

\* The effect that reads an active thread of which the page has no turn: its summary may be older
\* than the list.
ThreadRestored(w) == Follow(w, threaded) /\ UNCHANGED opening

Use ==
  \/ \E id \in Ids \cup Cwds \cup {All} : Select(id)
  \/ \E e \in {NoEditor} \cup bootstrap : OpenForm(e)
  \/ Close \/ Submit \/ RemoveWorkspace
  \/ \E e \in bootstrap : OpenThread(e)
  \/ \E p \in Paths : TypePath(p)

Next ==
  \/ Use
  \/ \E k \in DOMAIN requests :
       \/ Serve(k) \/ Lost(k)
       \/ Refused(k) \/ Checked(k) \/ SaveAnswered(k) \/ RemoveAnswered(k)
  \/ ServeFetch \/ Fetched
  \/ \E t \in SUBSET Cwds : ThreadsChange(t)
  \/ \E k \in DOMAIN opening : ThreadOpened(k) \/ ThreadRefused(k)
  \/ \E w \in Ids \cup Cwds : ThreadForked(w) \/ ThreadRestored(w)

Spec == Init /\ [][Next]_vars

-----------------------------------------------------------------------------
Quiet == requests = <<>> /\ fetch = Idle

(* Once no request is under way and none failed on the way, the page lists exactly the workspaces *)
(* the server has, and the one that is selected is among them: each handler that may have changed *)
(* the tables fetches the list again, also when its own request was refused by them               *)
(* ("workspaces.abs_path" in handleWorkspaceSubmit()).                                            *)
ListIsTrue ==
  Quiet /\ lost = 0 =>
    /\ bootstrap = Catalogue
    /\ activeWorkspaceId \in IdsOf(Catalogue) \cup {All}
    /\ activeWorkspaceId = All => workspaces = <<>>

(* A workspace the user selected stays selected while the list has it, whatever happens to the    *)
(* threads and to other workspaces, and whichever requests fail (the effect that chooses a        *)
(* selection), until a form that was sent selects another or a thread brings its own: one that    *)
(* was opened or forked, also by a call the user made before, or an active one without turns      *)
(* (openThread(), ensureThreadForPrompt(), handleForkThread(), the effect that restores).         *)
PickStays == picked \in Ids \cup Paths => activeWorkspaceId = picked

ProjectsAgree == ListIsTrue /\ PickStays
=============================================================================
