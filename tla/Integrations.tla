---------------------------- MODULE Integrations ----------------------------
(***************************************************************************)
(* What the settings overlay lists of codex: skills, plugins, apps and MCP *)
(* servers.  All but the servers are those of a place: the workspace and   *)
(* the thread that are selected.  The store has one copy of each list and  *)
(* many writers: a query by place whose data an effect copies, buttons     *)
(* that ask for one list, calls whose answer has the lists of no place     *)
(* (Nowhere), and notifications.                                           *)
(*                                                                         *)
(* A list is the place it was made for and a revision.  The configuration, *)
(* which travels with them, is the subject of Settings; remote skills are  *)
(* left out.                                                               *)
(***************************************************************************)
EXTENDS Naturals, FiniteSets, Sequences, SequencesExt

CONSTANTS Places, Nowhere,  \* places; that of a call that names none
          Absent,           \* no data yet
          MaxAsked,         \* bound: requests made by buttons and other pages
          MaxTurned         \* bound: changes of codex, moves of the user, losses

VARIABLES
  revision,  \* codex: the revision of each list
  place,     \* activeWorkspaceId and activeThreadId
  overlay,   \* integrations.settingsOpen
  data,      \* ["integrations", place]: the query's data by place
  store,     \* store: integrations
  calls,     \* requests under way
  arriving,  \* what the server has sent to the page
  misled,    \* history: see ListsAreDue
  counts     \* counters of the bounds

vars == <<revision, place, overlay, data, store, calls, arriving, misled, counts>>

Parts == {"skills", "plugins", "apps", "servers"}

\* What a request changes in codex, and the lists it then reads.
Requests ==
  [query   |-> [changes |-> {}, reads |-> Parts],            \* integrations.refresh of the query
   refresh |-> [changes |-> {}, reads |-> Parts],            \* ... of its button
   save    |-> [changes |-> {}, reads |-> Parts],            \* settings.save; account.*, also of another page
   reload  |-> [changes |-> {"servers"}, reads |-> Parts],   \* integrations.mcp.reload
   skills  |-> [changes |-> {}, reads |-> {"skills"}],       \* skills.list
   toggle  |-> [changes |-> {"skills"}, reads |-> {"skills"}], \* skills.config.write, remote.export
   apps    |-> [changes |-> {}, reads |-> {"apps"}],         \* app.list
   plugins |-> [changes |-> {}, reads |-> {"plugins"}],      \* plugin.list
   install |-> [changes |-> {"plugins"}, reads |-> {"plugins", "apps"}], \* plugin.(un)install
   servers |-> [changes |-> {}, reads |-> {"servers"}]]      \* mcpServerStatus.list

Placeless == {"save", "reload"}

\* A list as codex has it, all its pages, for the cwd or the thread that is named.
Listed(p, at) == [of |-> IF p = "servers" THEN Nowhere ELSE at, rev |-> revision[p]]

Rev == 0..(MaxAsked + MaxTurned)
Lists == [of : Places \cup {Nowhere}, rev : Rev]

TypeOK ==
  /\ revision \in [Parts -> Rev] /\ place \in Places
  /\ \A p \in Places : data[p] # Absent => data[p] \in [Parts -> Lists]
  /\ \A p \in Parts : store[p] # Absent => store[p] \in Lists
  /\ \A p \in Places : Cardinality({k \in DOMAIN calls : calls[k].query /\ calls[k].at = p}) <= 1
  /\ misled \subseteq Parts

Init ==
  /\ revision = [p \in Parts |-> 0]
  /\ place \in Places /\ overlay = FALSE
  /\ data = [p \in Places |-> Absent]
  /\ store = [p \in Parts |-> Absent]
  /\ calls = <<>> /\ arriving = <<>>
  /\ misled = {}
  /\ counts = [asked |-> 0, turned |-> 0]

Ask == counts.asked < MaxAsked /\ counts' = [counts EXCEPT !.asked = @ + 1]
Turn == counts.turned < MaxTurned /\ counts' = [counts EXCEPT !.turned = @ + 1]

-----------------------------------------------------------------------------
(* The query. *)

Request(kind, at) ==
  [query |-> kind = "query", at |-> IF kind \in Placeless THEN Nowhere ELSE at,
   changes |-> Requests[kind].changes, reads |-> Requests[kind].reads,
   written |-> Requests[kind].changes = {}, got |-> <<>>]

\* The query whose key is the place p.
IsQuery(r, p) == r.query /\ r.at = p
Fetching(p) == \E k \in DOMAIN calls : IsQuery(calls[k], p)

\* A fetch that is under way is joined.
Fetch(p, requests) ==
  IF \E k \in DOMAIN requests : IsQuery(requests[k], p)
  THEN requests ELSE Append(requests, Request("query", p))

\* There is one fetch by key at a time, so one answer of it.
Without(p, s) ==
  LET own == {k \in DOMAIN s : IsQuery(s[k], p)}
  IN IF own = {} THEN s ELSE RemoveAt(s, CHOOSE k \in own : TRUE)

\* invalidateQueries(): an enabled query is fetched again; a fetch under way is cancelled,
\* with its answer, except the first one, which has no data to go back to.
Invalidate(p, rest) ==
  IF ~overlay THEN UNCHANGED calls /\ arriving' = rest
  ELSE IF data[p] = Absent THEN calls' = Fetch(p, calls) /\ arriving' = rest
  ELSE calls' = Fetch(p, Without(p, calls)) /\ arriving' = Without(p, rest)

\* A list the store gets is behind what codex has, and nothing on its way says so.
Announced(p, messages) ==
  \E i \in DOMAIN messages : p = messages[i].news
Behind(lists, messages) ==
  {p \in DOMAIN lists : lists[p].rev # revision[p] /\ ~Announced(p, messages)}

\* setIntegrations() and setIntegrationSnapshot(): what comes replaces what is there.
Put(lists) == store' = [p \in Parts |-> IF p \in DOMAIN lists THEN lists[p] ELSE store[p]]

\* The page renders with the data d at the place p: the effect copies data that is new.  An
\* answer equal to the data is not (structural sharing).
Commit(d, p, messages) ==
  /\ data' = d /\ place' = p
  /\ IF d[p] \in {data[place], Absent} THEN UNCHANGED <<store, misled>>
     ELSE Put(d[p]) /\ misled' = Behind(d[p], messages)

-----------------------------------------------------------------------------
(* The user. *)

\* useQuery() is enabled: its data is stale at once, so it fetches.
OpenOverlay ==
  /\ ~overlay /\ Turn
  /\ overlay' = TRUE /\ calls' = Fetch(place, calls)
  /\ UNCHANGED <<revision, place, data, store, arriving, misled>>

CloseOverlay ==
  /\ overlay /\ overlay' = FALSE
  /\ UNCHANGED <<revision, place, data, store, calls, arriving, misled, counts>>

\* The window is focused.
Refocus ==
  /\ overlay /\ ~Fetching(place) /\ Turn
  /\ calls' = Fetch(place, calls)
  /\ UNCHANGED <<revision, place, overlay, data, store, arriving, misled>>

\* Mutation: the key does not change with the place.
MoveOnly(p) == UNCHANGED calls
\* The key is another one.
MoveQuery(p) == calls' = IF overlay THEN Fetch(p, calls) ELSE calls

\* Another thread or workspace is selected, by the user or by an answer.
Select(p) ==
  /\ p # place /\ Turn
  /\ MoveQuery(p)
  /\ Commit(data, p, arriving)
  /\ UNCHANGED <<revision, overlay, arriving>>

\* The buttons of the overlay, and the calls of other parts whose answers have the lists.
Press(kind) ==
  /\ kind # "query"
  /\ overlay \/ kind = "save"
  /\ Ask
  /\ calls' = Append(calls, Request(kind, place))
  /\ UNCHANGED <<revision, place, overlay, data, store, arriving, misled>>

\* Data nobody observes goes after five minutes.
Collect(p) ==
  /\ p # place /\ data[p] # Absent /\ ~Fetching(p)
  /\ data' = [data EXCEPT ![p] = Absent]
  /\ UNCHANGED <<revision, place, overlay, store, calls, arriving, misled, counts>>

-----------------------------------------------------------------------------
(* The server and codex. *)

\* The change a request asks for is made; the lists are asked for after it.
Change(k) ==
  /\ ~calls[k].written
  /\ revision' = [p \in Parts |-> IF p \in calls[k].changes THEN revision[p] + 1 ELSE revision[p]]
  /\ calls' = [calls EXCEPT ![k].written = TRUE]
  /\ UNCHANGED <<place, overlay, data, store, arriving, misled, counts>>

\* Codex reads the lists that are asked for at once.  What happens between two of them is the
\* same to each as what happens before or after both.
Read(k) ==
  /\ calls[k].written /\ calls[k].got = <<>>
  /\ calls' = [calls EXCEPT ![k].got = [p \in calls[k].reads |-> Listed(p, calls[k].at)]]
  /\ UNCHANGED <<revision, place, overlay, data, store, arriving, misled, counts>>

\* The last list has come and the server answers.  A query waits on until the answer is here.
Respond(k) ==
  LET r == calls[k] IN
  /\ r.got # <<>> /\ r.reads # {}
  /\ arriving' = Append(arriving, [query |-> r.query, at |-> r.at, news |-> Absent, lists |-> r.got,
                                  changes |-> r.changes])
  /\ calls' = IF r.query THEN [calls EXCEPT ![k].reads = {}] ELSE RemoveAt(calls, k)
  /\ UNCHANGED <<revision, place, overlay, data, store, misled, counts>>

\* skills/changed, or app/list/updated with the apps of no thread, perhaps the same ones.
CodexChanges(p, again) ==
  /\ p \in {"skills", "apps"} /\ Turn
  /\ again => p = "apps"
  /\ revision' = IF again THEN revision ELSE [revision EXCEPT ![p] = @ + 1]
  /\ arriving' = Append(arriving,
       [query |-> FALSE, at |-> Nowhere, news |-> p, changes |-> {},
        lists |-> IF p = "skills" THEN <<>>
                  ELSE [q \in {p} |-> [of |-> Nowhere, rev |-> revision'[p]]]])
  /\ UNCHANGED <<place, overlay, data, store, calls, misled>>

\* A call is refused, or one list of it is; a query has then been tried four times.
\* A change that was made before that is shown by nothing.
Refused(k) ==
  /\ Turn /\ calls[k].reads # {}
  /\ calls' = RemoveAt(calls, k)
  /\ misled' = misled \cup (IF IsQuery(calls[k], place) THEN Parts
                            ELSE IF calls[k].written THEN calls[k].changes ELSE {})
  /\ UNCHANGED <<revision, place, overlay, data, store, arriving>>

-----------------------------------------------------------------------------
(* Messages reach the page. *)

\* An answer equal to the data writes nothing, even one that is older than a change which
\* was announced while the overlay was closed.
QueryAnswered(m, rest) ==
  /\ calls' = Without(m.at, calls) /\ arriving' = rest
  /\ IF m.at = place /\ m.lists = data[place]
     THEN /\ misled' = misled \cup {p \in Behind(m.lists, rest) : store[p] # Listed(p, place)}
          /\ UNCHANGED <<data, place, store>>
     ELSE Commit([data EXCEPT ![m.at] = m.lists], place, rest)

\* The handlers of the buttons, of account.* and of integrations.updated.  What they
\* bring is of the place they were asked at, or of none.
ListsArrive(m, rest) ==
  /\ Put(m.lists) /\ arriving' = rest
  /\ misled' = (misled \ DOMAIN m.lists) \cup Behind(m.lists, rest)
                 \cup (IF m.at = place THEN {} ELSE DOMAIN m.lists \ {"servers"})
  /\ UNCHANGED <<calls, data, place>>

\* Mutation: nothing is fetched again.
PutOnly(m, rest) ==
  /\ Put(m.lists) /\ arriving' = rest
  /\ misled' = misled \cup DOMAIN m.lists
  /\ UNCHANGED <<calls, data, place>>

\* skills.changed and app.listUpdated
Changed(m, rest) ==
  /\ Put(m.lists)
  /\ misled' = misled \cup DOMAIN m.lists
  /\ Invalidate(place, rest)
  /\ UNCHANGED <<data, place>>

Receive ==
  /\ arriving # <<>>
  /\ LET m == Head(arriving) IN
       CASE m.query -> QueryAnswered(m, Tail(arriving))
         [] m.news # Absent -> Changed(m, Tail(arriving))
         [] OTHER -> ListsArrive(m, Tail(arriving))
  /\ UNCHANGED <<revision, overlay, counts>>

\* The socket is lost and opened again: what was on its way is lost, every call fails
\* and no query but the bootstrap is fetched again; a query under way tries again.
LoseSocket ==
  /\ Turn
  /\ calls' = SetToSeq({Request("query", r.at) : r \in {q \in Range(calls) : q.query}})
  /\ misled' = misled \cup {p \in Parts : Announced(p, arriving)}
                 \cup (UNION {m.changes : m \in Range(arriving)})
                 \cup (UNION {r.changes : r \in {q \in Range(calls) : q.written}})
  /\ arriving' = <<>>
  /\ UNCHANGED <<revision, place, overlay, data, store>>

Next ==
  \/ OpenOverlay \/ CloseOverlay \/ Refocus \/ Receive \/ LoseSocket
  \/ \E p \in Places : Select(p) \/ Collect(p)
  \/ \E kind \in DOMAIN Requests : Press(kind)
  \/ \E k \in DOMAIN calls : Change(k) \/ Read(k) \/ Respond(k) \/ Refused(k)
  \/ \E p \in Parts, again \in BOOLEAN : CodexChanges(p, again)

Spec == Init /\ [][Next]_vars

-----------------------------------------------------------------------------
(* While the overlay is open every list in the store is the one codex has for the selected place, *)
(* or a fetch or an answer is on its way: a change of the selection, of codex or of the list by a *)
(* button is followed by what shows it.  Excepted (`misled') is a list whose last writer was an   *)
(* answer for no place or another one, an answer older than a change (which writes nothing if it  *)
(* equals the data), or that nothing announced.                                                   *)
ListsAreDue ==
  overlay /\ calls = <<>> /\ arriving = <<>> =>
    \A p \in Parts \ misled : store[p] = Listed(p, place)
=============================================================================
