------------------------------- MODULE MCPane -------------------------------
(***************************************************************************)
(* What the middle of the page shows: a conversation (Conversation) and    *)
(* each item of it (Items) or, in its place, what changed in the           *)
(* workspace: the files (GitTree) and one file from `git status' to its    *)
(* detail (GitReview).  None writes state of another, so as in MCPage a    *)
(* behaviour moves the part it starts with.                                *)
(***************************************************************************)
EXTENDS GitReview, TLC

CONSTANTS
  a, b, d1, d2, r1, r2,
  Workspaces, PathOrder, Listings, Queries, NoQuery, None, MaxActs,   \* GitTree
  Threads, InitialWindow, BatchSize, MaxEntries, MaxEvents,     \* Conversation
  NoRestore,
  MaxText, MaxReads, MaxLosses                                  \* Items

ASSUME PaneAssumption ==
  /\ {InitialWindow, BatchSize} \subseteq Nat \ {0}
  /\ {MaxActs, MaxEntries, MaxEvents, MaxText, MaxReads, MaxLosses} \subseteq Nat
  /\ NoDetail \notin
       [pc : {"answered"}, status : {"none", "untracked", "deleted", "added", "modified"},
        version : Nat, fresh : BOOLEAN,
        seen : [head : Texts \cup {Absent}, index : Texts \cup {Absent}, work : Texts \cup {Absent}],
        result : [mode : {"unavailable", "inline-diff"},
                  original : Texts \cup {""}, modified : Texts \cup {""}]]
  /\ NoRestore \notin [height : Nat, top : Nat]
  /\ DOMAIN PathOrder \subseteq Nat
  /\ \A files \in Listings : \A f \in files : \E i \in DOMAIN PathOrder : PathOrder[i] = f.path
  /\ None \notin Workspaces \cup {PathOrder[i] : i \in DOMAIN PathOrder}
  /\ None \notin [git : BOOLEAN, files : SUBSET UNION Listings, generated : Nat, stamp : Nat]
  /\ None \notin [stamp : Nat, identity : Nat, filter : Queries \cup {NoQuery},
                  visible : {PathOrder[i] : i \in DOMAIN PathOrder} \cup {None},
                  mode : {"working-tree", "remote"}, diff : Workspaces \cup {None}]

VARIABLES
  part,  \* the part that moves
  workspace, snapshots, selected, filter, open, due, drawn, groupsOpen, dirsOpen, mode, diff,
  loading, failed, read, folded, acts,
  total, grown, marking, active, pane, visible, plain, shown, moved, counted, top, scrolled,
  frame, reset, older, restore, follow, activeRef, previousRef, timers, lapsed, events,
  kind, phase, written, past, ws, held, online, entry, pending, at, reads, losses

\* Three paths at three depths, and four listings of them that have every group.
Deep == <<"a", "b", "f">>
Mid == <<"a", "c">>
Top == <<"d">>
File(path, status, staged, unstaged) ==
  [path |-> path, status |-> status, staged |-> staged, unstaged |-> unstaged]
MCListings ==
  {{}, {File(Deep, "modified", FALSE, TRUE)},
   {File(Deep, "modified", TRUE, TRUE), File(Mid, "added", TRUE, FALSE)},
   {File(Mid, "deleted", TRUE, FALSE), File(Mid, "untracked", FALSE, FALSE),
    File(Top, "conflicted", TRUE, TRUE)}}

MCPathOrder == <<Deep, Mid, Top>>
MCQueries == {{Deep}}

Panel == INSTANCE GitTree WITH MaxEvents <- MaxActs, events <- acts
Talk  == INSTANCE Conversation WITH drawn <- shown, loading <- older
Line  == INSTANCE Items

filesVars == <<workspace, snapshots, selected, filter, open, due, drawn, groupsOpen, dirsOpen,
               mode, diff, loading, failed, read, folded, acts>>
talkVars == <<total, grown, marking, active, pane, visible, plain, shown, moved, counted, top,
              scrolled, frame, reset, older, restore, follow, activeRef, previousRef, timers,
              lapsed, events>>
itemVars == <<kind, phase, written, past, ws, held, online, entry, pending, at, reads, losses>>

Symmetry == Permutations({a, b}) \cup Permutations({d1, d2}) \cup Permutations({r1, r2})

PaneInit ==
  /\ part \in {"file", "files", "talk", "item"}
  /\ Init /\ Panel!Init /\ Talk!Init /\ Line!Init
  /\ part # "files" => workspace = CHOOSE w \in Workspaces : TRUE
  /\ part # "talk" => total = [t \in Threads |-> 0] /\ active = CHOOSE t \in Threads : TRUE
  /\ part # "item" => kind = "message"
  /\ part # "file" => tree.head = Absent

PaneNext ==
  /\ UNCHANGED part
  /\ \/ part = "file" /\ Next /\ UNCHANGED <<filesVars, talkVars, itemVars>>
     \/ part = "files" /\ Panel!Next /\ UNCHANGED <<vars, talkVars, itemVars>>
     \/ part = "talk" /\ Talk!Next /\ UNCHANGED <<vars, filesVars, itemVars>>
     \/ part = "item" /\ Line!Next /\ UNCHANGED <<vars, filesVars, talkVars>>

PaneSpec == PaneInit /\ [][PaneNext]_<<part, vars, filesVars, talkVars, itemVars>>

\* What GitTree, Conversation and Items promise.
TreeIsTrue == Panel!TreeIsTrue
ConversationSettles == Talk!ConversationSettles
CardIsTrue == Line!CardIsTrue

=============================================================================
