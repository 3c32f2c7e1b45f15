------------------------------- MODULE MCShell -------------------------------
(***************************************************************************)
(* What surrounds the threads in a page: the workspaces (Projects), the    *)
(* file search of the palette (FileSearch), the preview of a file          *)
(* (Preview), and how a tab comes by its session (ActiveClient).  None     *)
(* writes state of another, so as in MCPage a behaviour moves the part it  *)
(* starts with.                                                            *)
(***************************************************************************)
EXTENDS Naturals, Sequences, FiniteSets, TLC

CONSTANTS i1, i2, NoWorkspace, All, NoEditor,                     \* Projects
          MaxAsked, MaxLost, MaxOpening,
          Places, NoPlace, Queries, Blank, Nothing, MaxCalls,      \* FileSearch
          Files, Lines, MaxDialogs, MaxEdits, MaxFailed,           \* Preview
          Tabs, SessionIds, Threads, Procs, NoSession, NoThread,   \* ActiveClient
          CreatedStatus, MaxStatus, MaxBound, MaxMishaps

Home == <<"u">>

\* A path outside home is a legal text of the form; codex has a thread in p.
WorkspacePaths == {Home, <<"u", "p">>, <<"x">>}
Cwds == {<<"u", "p">>}
Directories == {Home, <<"u", "p">>}
Ids == {i1, i2}

VARIABLES
  part,  \* the part that moves
  workspaces, ignored_workspaces, bootstrap, fetch, threaded, activeWorkspaceId, modal, field,
  saving, requests, opening, autoOpened, picked, asked, lost,
  open, text, selected, ofThread, fuzzySearch, timer, calls, unanswered,
  disk, codePreview, visible, clearTimer, query, dialog, models, editor, disposals, hurried,
  relined, refused, failed,
  stored, page, flights, made, sessions, threadToSession, processToSession, status, inbox,
  connection, late, parted, shared, mishaps

Shelf == INSTANCE Projects WITH Paths <- WorkspacePaths, MaxFailed <- MaxLost, pending <- saving
Palette == INSTANCE FileSearch
Dialog == INSTANCE Preview
Client == INSTANCE ActiveClient

ASSUME ShellAssumption ==
  /\ Home \in WorkspacePaths /\ Cwds \cup Directories \subseteq WorkspacePaths
  /\ {NoWorkspace, All} \cap (Ids \cup WorkspacePaths) = {}
  /\ {"none", "refused"} \cap Ids = {}
  /\ NoEditor \notin {[id |-> e, absPath |-> p] : e \in Ids \cup WorkspacePaths, p \in WorkspacePaths}
  /\ NoPlace \notin Places /\ Blank \notin Queries
  /\ Nothing \notin Files \cup Lines \cup Places \cup Queries \cup Nat
  /\ Nothing \notin [file : Files, line : Lines]
  /\ NoSession \notin SessionIds /\ NoThread \notin Threads
  /\ {NoSession, CreatedStatus} \cap Nat = {}
  /\ {MaxAsked, MaxLost, MaxOpening, MaxCalls, MaxDialogs, MaxEdits, MaxFailed, MaxStatus, MaxBound,
      MaxMishaps} \subseteq Nat

projectVars == <<workspaces, ignored_workspaces, bootstrap, fetch, threaded, activeWorkspaceId,
                 modal, field, saving, requests, opening, autoOpened, picked, asked, lost>>
paletteVars == <<open, text, selected, ofThread, fuzzySearch, timer, calls, unanswered>>
dialogVars == <<disk, codePreview, visible, clearTimer, query, dialog, models, editor, disposals,
                hurried, relined, refused, failed>>
tabVars == <<stored, page, flights, made, sessions, threadToSession, processToSession, status,
                inbox, connection, late, parted, shared, mishaps>>

ShellInit ==
  /\ part \in {"projects", "palette", "dialog", "client"}
  /\ Shelf!Init /\ Palette!Init /\ Dialog!Init /\ Client!Init
  /\ part # "projects" => threaded = {}
  /\ part # "palette" => selected = NoPlace /\ ofThread = NoPlace

ShellNext ==
  /\ UNCHANGED part
  /\ \/ /\ part = "projects" /\ Shelf!Next
        /\ UNCHANGED <<paletteVars, dialogVars, tabVars>>
     \/ /\ part = "palette" /\ Palette!Next
        /\ UNCHANGED <<projectVars, dialogVars, tabVars>>
     \/ /\ part = "dialog" /\ Dialog!Next
        /\ UNCHANGED <<projectVars, paletteVars, tabVars>>
     \/ /\ part = "client" /\ Client!Next
        /\ UNCHANGED <<projectVars, paletteVars, dialogVars>>

ShellSpec ==
  ShellInit /\ [][ShellNext]_<<part, projectVars, paletteVars, dialogVars, tabVars>>

\* Each part compares its model values only; parts share them, so that one set of permutations
\* serves files, tabs, ids of workspaces and places, another lines, sessions and texts.
Symmetry == Permutations(Files) \cup Permutations(Lines) \cup Permutations(Threads)

\* What the parts promise.
ProjectsAgree == Shelf!ProjectsAgree
ResultsAreMeant == Palette!ResultsAreMeant
PreviewIsTrue == Dialog!PreviewIsTrue
ClientsAreServed == Client!ClientsAreServed
=============================================================================
