----------------------------- MODULE FileSearch -----------------------------
(***************************************************************************)
(* The search for files in the command palette: an effect of the page      *)
(* keeps one search for the text, the workspace and the palette there are, *)
(* which waits 160 ms and then calls codex.  A search that was replaced    *)
(* goes on; its answer is dropped.                                         *)
(*                                                                         *)
(* What is found is the workspace and the query it was found for.  Of the  *)
(* palette's actions only the effect on the search is kept.                *)
(***************************************************************************)
EXTENDS Naturals, Sequences, SequencesExt

CONSTANTS Places, NoPlace,  \* workspaces
          Queries, Blank,   \* texts without the blanks around them; the empty one
          Nothing,          \* no results
          MaxCalls          \* bound: calls under way

VARIABLES
  open, text,          \* paletteOpen, paletteQuery
  selected, ofThread,  \* selectedWorkspace; the workspace of the active thread
  fuzzySearch,         \* integrations.fuzzySearch
  timer,               \* the search that waits, or Nothing
  calls,               \* workspace.searchFiles under way
  unanswered           \* history: the call of the search there is failed

vars == <<open, text, selected, ofThread, fuzzySearch, timer, calls, unanswered>>

Search(place, query) == [place |-> place, query |-> query]
Searches == {Search(p, q) : p \in Places, q \in Queries}
Texts == [query : Queries \cup {Blank}, padded : BOOLEAN]
Empty == [query |-> Blank, padded |-> FALSE]

\* resetFuzzySearchState()
Idle == [query |-> Blank, status |-> "idle", results |-> Nothing]

TypeOK ==
  /\ open \in BOOLEAN /\ unanswered \in BOOLEAN /\ text \in Texts
  /\ {selected, ofThread} \subseteq Places \cup {NoPlace}
  /\ fuzzySearch \in [query : Queries \cup {Blank}, status : {"idle", "loading", "completed"},
                      results : Searches \cup {Nothing}]
  /\ timer \in Searches \cup {Nothing}
  /\ Len(calls) <= MaxCalls
  /\ \A k \in DOMAIN calls : calls[k] \in [search : Searches, cancelled : BOOLEAN,
                                           answer : {"none", "found", "failed"}]

searchableWorkspace(s, o) == IF s # NoPlace THEN s ELSE o
Here == searchableWorkspace(selected, ofThread)

Init ==
  /\ open = FALSE /\ text = Empty
  /\ selected \in Places \cup {NoPlace} /\ ofThread \in Places \cup {NoPlace}
  /\ fuzzySearch = Idle /\ timer = Nothing /\ calls = <<>> /\ unanswered = FALSE

-----------------------------------------------------------------------------
(* The effect on paletteOpen, paletteQuery and searchableWorkspace: its    *)
(* cleanup, then its body.                                                 *)

NotCancelled(cs) == cs
Cancelled(cs) == [k \in DOMAIN cs |-> [cs[k] EXCEPT !.cancelled = TRUE]]

Effect(o, t, place) ==
  /\ calls' = Cancelled(calls)
  /\ unanswered' = FALSE
  /\ IF ~o \/ place = NoPlace THEN timer' = Nothing /\ UNCHANGED fuzzySearch
     ELSE IF t.query = Blank THEN timer' = Nothing /\ fuzzySearch' = Idle
     ELSE /\ timer' = Search(place, t.query)
          /\ fuzzySearch' = [query |-> t.query, status |-> "loading", results |-> Nothing]

\* The effect runs for the values after a step when they differ from those before it.
Set(o, t, s, w) ==
  /\ open' = o /\ text' = t /\ selected' = s /\ ofThread' = w
  /\ IF <<o, t, searchableWorkspace(s, w)>> # <<open, text, Here>>
       THEN Effect(o, t, searchableWorkspace(s, w))
       ELSE UNCHANGED <<calls, unanswered, timer, fuzzySearch>>

\* Ctrl+K
OpenPalette == ~open /\ Set(TRUE, text, selected, ofThread)

Type(t) == open /\ Set(TRUE, t, selected, ofThread)

\* Escape, the close button, a file, and every action but those below
ClosePalette == open /\ Set(FALSE, Empty, selected, ofThread)

\* The action "new-thread" leaves the thread.
NewThread == open /\ Set(FALSE, Empty, selected, NoPlace)

\* Another workspace or thread is chosen: the palette lets clicks through.
Choose(s, w) == Set(open, text, s, w)

\* The record of the workspace is another one after the bootstrap was fetched.
Renew ==
  /\ Here # NoPlace
  /\ Effect(open, text, Here)
  /\ UNCHANGED <<open, text, selected, ofThread>>

\* After 160 ms
TimerFires ==
  /\ timer # Nothing /\ timer' = Nothing
  /\ Len(calls) < MaxCalls
  /\ calls' = Append(calls, [search |-> timer, cancelled |-> FALSE, answer |-> "none"])
  /\ UNCHANGED <<open, text, selected, ofThread, fuzzySearch, unanswered>>

-----------------------------------------------------------------------------
\* handleWorkspaceSearch(): the workspace may be gone, or codex not there.
Serve(k) ==
  /\ calls[k].answer = "none"
  /\ \E answer \in {"found", "failed"} : calls' = [calls EXCEPT ![k].answer = answer]
  /\ UNCHANGED <<open, text, selected, ofThread, fuzzySearch, timer, unanswered>>

\* searchFiles() answers with the query and what codex found; an error leaves "loading".
Arrives(k) ==
  /\ calls[k].answer # "none"
  /\ calls' = RemoveAt(calls, k)
  /\ IF calls[k].cancelled \/ calls[k].answer = "failed" THEN UNCHANGED fuzzySearch
     ELSE fuzzySearch' = [query |-> calls[k].search.query, status |-> "completed",
                          results |-> calls[k].search]
  /\ unanswered' = (unanswered \/ (~calls[k].cancelled /\ calls[k].answer = "failed"))
  /\ UNCHANGED <<open, text, selected, ofThread, timer>>

Next ==
  \/ OpenPalette \/ ClosePalette \/ NewThread \/ Renew \/ TimerFires
  \/ \E t \in Texts : Type(t)
  \/ \E s, w \in Places \cup {NoPlace} : Choose(s, w)
  \/ \E k \in DOMAIN calls : Serve(k) \/ Arrives(k)

Spec == Init /\ [][Next]_vars

-----------------------------------------------------------------------------
\* What was found, listed below the path of a workspace.
adaptFileResults(results, root) ==
  IF results = Nothing THEN Nothing ELSE [found |-> results, root |-> root]

\* The page lists it below the workspace there is.
fileResults == adaptFileResults(fuzzySearch.results, Here)

(* With a workspace to search, the open palette lists files that were found for its text in this  *)
(* workspace, or none; and while it says that it searches, a search is under way, unless it failed *)
(* (the effect with its timer and `cancelled`, paletteFileResults).                               *)
ResultsAreMeant ==
  open /\ Here # NoPlace =>
    /\ fuzzySearch.query = text.query
    /\ fileResults # Nothing => fileResults.found = Search(fileResults.root, text.query)
    /\ fuzzySearch.status = "loading" /\ ~unanswered =>
         \/ timer = Search(Here, text.query)
         \/ \E k \in DOMAIN calls : ~calls[k].cancelled /\ calls[k].search = Search(Here, text.query)
    /\ text.query = Blank => fuzzySearch.status = "idle"
=============================================================================
