----------------------------- MODULE Workspaces -----------------------------
(***************************************************************************)
(* The two tables of WorkspaceRepo and the catalogue that is computed from *)
(* them and from the directories of threads (WorkspaceCatalogService).     *)
(*                                                                         *)
(* A path is the sequence of its segments, so that a boundary prefix is a  *)
(* prefix, and the longer of two prefixes of a path has more segments.     *)
(* The order of a catalogue, names, models and policies are left out.      *)
(***************************************************************************)
EXTENDS Naturals, FiniteSets, Sequences, SequencesExt, Functions

CONSTANTS Ids,          \* ids of saved workspaces (random UUIDs)
          Paths,        \* directories a workspace may be made of
          Home,         \* the home directory
          NoWorkspace   \* null

ASSUME PathsAssumption ==
  /\ Home \in Paths /\ NoWorkspace \notin Ids \cup Paths
  /\ \A p \in Paths : p \in Seq(Range(p))

VARIABLES workspaces,         \* table: id |-> abs_path
          ignored_workspaces  \* table: the set of abs_path

tables == <<workspaces, ignored_workspaces>>

SavedPaths == Range(workspaces)

\* Every row has its id; UNIQUE(abs_path) is kept by sqlite.
TablesTypeOK ==
  /\ workspaces \in UNION {[D -> Paths] : D \in SUBSET Ids}
  /\ ignored_workspaces \subseteq Paths

TablesInit == workspaces = <<>> /\ ignored_workspaces = {}

-----------------------------------------------------------------------------
(* WorkspaceCatalogService.  A derived entry has its path for an id. *)

Entry(id, path) == [id |-> id, absPath |-> path]
Saved == {Entry(i, workspaces[i]) : i \in DOMAIN workspaces}

isBoundaryPrefix(prefix, candidate) == IsPrefix(prefix, candidate)

\* The entry with the longest path above cwd.
matchWorkspaceForPath(entries, cwd) ==
  LET above == {e \in entries : isBoundaryPrefix(e.absPath, cwd)}
  IN IF above = {} THEN NoWorkspace
     ELSE (CHOOSE e \in above : \A f \in above : Len(f.absPath) <= Len(e.absPath)).id

\* Threads below an ignored path or a saved workspace other than home derive none.
Derives(cwd) ==
  /\ \A p \in ignored_workspaces : ~isBoundaryPrefix(p, cwd)
  /\ cwd \notin SavedPaths
  /\ LET id == matchWorkspaceForPath(Saved, cwd)
     IN id = NoWorkspace \/ workspaces[id] = Home

buildWorkspaceCatalog(cwds) == Saved \cup {Entry(c, c) : c \in {d \in cwds : Derives(d)}}

-----------------------------------------------------------------------------
(* WorkspaceRepo.  Each statement commits by itself: what is done before one *)
(* that fails stays done.                                                    *)

unignorePath(p) == ignored_workspaces' = ignored_workspaces \ {p}
ignorePath(p) == ignored_workspaces' = ignored_workspaces \cup {p}

Taken(p, id) == \E i \in DOMAIN workspaces \ {id} : workspaces[i] = p

\* INSERT; the path is no longer ignored, whether it fails or not.
CreateRow(id, p) ==
  /\ id \notin DOMAIN workspaces
  /\ unignorePath(p)
  /\ IF Taken(p, id) THEN UNCHANGED workspaces
     ELSE workspaces' = [i \in DOMAIN workspaces \cup {id} |->
                           IF i = id THEN p ELSE workspaces[i]]

UpdateRow(id, p) ==
  /\ id \in DOMAIN workspaces
  /\ unignorePath(p)
  /\ IF Taken(p, id) THEN UNCHANGED workspaces
     ELSE workspaces' = [workspaces EXCEPT ![id] = p]

DeleteRow(id) ==
  /\ id \in DOMAIN workspaces
  /\ workspaces' = Restrict(workspaces, DOMAIN workspaces \ {id})
  /\ ignorePath(workspaces[id])
=============================================================================
