-------------------------------- MODULE MCDesk --------------------------------
(***************************************************************************)
(* The desk a page is: what surrounds its threads (MCShell) and the tools  *)
(* that keep a place, a width or a branch: the field for the path of a     *)
(* workspace (PathField), the links of an answer (CodeLinks), whose files  *)
(* the server finds as PathField says, the panes beside the conversation   *)
(* (Panes) and the branches of the composer (Branches).  A behaviour uses  *)
(* the tool it starts with, as in MCShell.                                 *)
(***************************************************************************)
EXTENDS MCShell, Integers

CONSTANTS NoAnswer, MaxTyped,                                           \* PathField
          Viewports, Positions, Key, StoredWidths, NoDrag,              \* Panes
          Branch, Detached, NoBranch, BranchCalls, NoEffect, MaxSpent,  \* Branches
          NoCwd, NoLink                                                 \* CodeLinks

\* Home is /u.  It has the directories p and pro, and so has the root one of the name p.
HomeDirectory == <<"u">>
Tree == {<<>>, HomeDirectory, <<"u", "p">>, <<"u", "pro">>, <<"u", "pro", "p">>, <<"p">>}
Starts == {<<"p", "pro">>}
Pieces == {"", ".", "..", "~", "u", "p", "pro"}
Texts == {<<a>> : a \in Pieces} \cup (Pieces \X Pieces) \cup (Pieces \X Pieces \X Pieces)
           \cup {<<"", "u", a, b>> : a, b \in Pieces}

\* Texts of links: every path of two pieces, and those of three that start at the root, at home,
\* above the thread's directory or in it, with a position after a name, or a hash.
LinkNames == {"u", "a.ts", "t.png", "Makefile"}
LinkPieces == {"", ".", "..", "~"} \cup LinkNames
LinkPaths == {<<a>> : a \in LinkPieces} \cup (LinkPieces \X LinkPieces)
               \cup ({"", "~", "..", "u"} \X LinkPieces \X LinkPieces)
LinkTexts ==
  {t \in [kind : {"local"}, path : [pieces : LinkPaths, suffix : {<<>>, <<3>>, <<3, 5>>, <<0, 5>>}],
          hash : {<<>>, <<7, 2>>, <<0, 2>>}] :
     t.path.suffix # <<>> => t.path.pieces[Len(t.path.pieces)] \in LinkNames}
    \cup {[kind |-> "web", path |-> [pieces |-> <<"a.ts">>, suffix |-> <<>>], hash |-> <<>>]}
LinkCwds == {NoCwd, <<"", "">>, <<"", "u", "p">>, <<"", "u", "a.ts", "">>}

VARIABLES
  tool,  \* the part that moves
  dirs, absPath, response, entered, typed,
  pane, viewport, width, drag, live, frame, painted, storedWidth, outgrown, strayed, undrawn,
  repo, version, joined, branchCalls, effect, branchOf, branchList, gitBranchSwitchPending, owed,
  outrun, spent,
  link

Field == INSTANCE PathField WITH Home <- HomeDirectory
Pane == INSTANCE Panes
Repo == INSTANCE Branches
Served(t) == Field!resolveWorkspacePath(t)
Resolved(from, t) == Field!resolve(from, t)
Link == INSTANCE CodeLinks WITH Roots <- {"u"}, Code <- {"a.ts"}, Extended <- {"a.ts", "t.png"},
                                Makefiles <- {"Makefile"}

ASSUME DeskAssumption ==
  /\ HomeDirectory \in Tree /\ HomeDirectory # <<>>
  /\ \A d \in Tree \ {<<>>} : SubSeq(d, 1, Len(d) - 1) \in Tree
  /\ \A t \in Texts : t # <<>>
  /\ Viewports \subseteq Nat /\ Positions \cup StoredWidths \subseteq Int /\ Key \in Nat
  /\ NoDrag \notin [startX : Int, startWidth : Int]
  /\ {Detached, NoBranch} \cap Branch = {} /\ Detached # NoBranch /\ NoEffect \notin BranchCalls
  /\ {MaxTyped, MaxSpent} \subseteq Nat

shellVars == <<part, projectVars, paletteVars, dialogVars, tabVars>>
fieldVars == <<dirs, absPath, response, entered, typed>>
paneVars == <<pane, viewport, width, drag, live, frame, painted, storedWidth, outgrown, strayed,
              undrawn>>
branchVars == <<repo, version, joined, branchCalls, effect, branchOf, branchList,
                gitBranchSwitchPending, owed, outrun, spent>>

DeskInit ==
  /\ tool \in {"shell", "field", "pane", "branch", "link"}
  /\ tool # "shell" => part = "client"
  /\ tool # "field" => dirs = {<<>>, HomeDirectory} /\ absPath = <<"~", "">>
  /\ tool # "pane" => pane = "sidebar" /\ viewport = 12 /\ width = 2
  /\ tool # "branch" => repo = CHOOSE r \in Repo!Repos : ~r.git
  /\ ShellInit /\ Field!Init /\ Pane!Init /\ Repo!Init /\ Link!Init

DeskNext ==
  /\ UNCHANGED tool
  /\ \/ tool = "shell" /\ ShellNext /\ UNCHANGED <<fieldVars, paneVars, branchVars, link>>
     \/ tool = "field" /\ Field!Next /\ UNCHANGED <<shellVars, paneVars, branchVars, link>>
     \/ tool = "pane" /\ Pane!Next /\ UNCHANGED <<shellVars, fieldVars, branchVars, link>>
     \/ tool = "branch" /\ Repo!Next /\ UNCHANGED <<shellVars, fieldVars, paneVars, link>>
     \/ tool = "link" /\ Link!Next /\ UNCHANGED <<shellVars, fieldVars, paneVars, branchVars>>

DeskSpec == DeskInit /\ [][DeskNext]_<<tool, shellVars, fieldVars, paneVars, branchVars, link>>

\* What the tools promise: a path, typed or in a link, means one place to page and server.
PlacesAgree == Field!PathsAgree /\ Link!LinksAreTrue
PaneIsKept == Pane!PaneIsKept
BranchesAreTrue == Repo!BranchesAreTrue
=============================================================================
