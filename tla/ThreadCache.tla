----------------------------- MODULE ThreadCache -----------------------------
(***************************************************************************)
(* What WorkbenchService remembers of codex's threads: summaries, views    *)
(* (of which only the latest diff, plan and review are ever read again)    *)
(* and the workspace catalogue made from the summaries.                    *)
(*                                                                         *)
(* Codex's changes and the lines that announce them are one step, because  *)
(* stdout keeps the order of notifications and answers.  What an answer    *)
(* resolves goes on later, as a promise job: other lines of the same chunk *)
(* come in between, but no call, timer, exit or connection (NoJobs).       *)
(* A list has one page.                                                    *)
(***************************************************************************)
EXTENDS Workspaces

CONSTANTS Threads, Listed,  \* threads of codex; those it has at the start
          Cwd,              \* directory of each thread
          Asked,            \* threads with a request pending in the broker (see Approvals)
          Calls, Warmup,    \* calls of pages under way at a time; the warm-up
          MaxRetained,      \* MAX_RETAINED_THREAD_VIEWS (5)
          MaxAttempts,      \* MAX_THREAD_SUMMARY_WARMUP_ATTEMPTS (5)
          MaxChanges, MaxExits, MaxSaves,  \* bounds: changes of threads, exits of codex, repo calls
          MaxEvents         \* bound: all of these together

ASSUME CacheAssumption ==
  /\ IsFiniteSet(Threads) /\ Listed \subseteq Threads /\ Asked \subseteq Threads
  /\ Cwd \in [Threads -> Paths]
  /\ Warmup \notin Calls \cup Threads /\ Calls \cap Threads = {}
  /\ MaxRetained \in Nat \ {0} /\ MaxAttempts \in Nat \ {0}
  /\ {MaxChanges, MaxExits, MaxSaves, MaxEvents} \subseteq Nat

VARIABLES
  connected, serverUp,
  known,                   \* codex: threads it has
  announced,               \* codex: threads whose thread/started is out
  running, archived, diff, \* codex: of each thread
  threadSummaries,         \* thread |-> its summary
  threadViews,             \* sequence in the order of the Map: thread and latestDiff
  summaryCacheInitialized,
  cachedWorkspaceCatalog,  \* a set of entries, or {NoWorkspace} for null
  warmupTimer, warmupAttempt,
  op,                      \* what is under way: calls, the warm-up, the handlers of thread.updated
  changes, exits, saves    \* counters of the bounds

counters == <<changes, exits, saves>>
MayHappen == changes + exits + saves < MaxEvents
codexVars == <<known, announced, running, archived, diff>>
cacheVars == <<threadSummaries, threadViews, summaryCacheInitialized, cachedWorkspaceCatalog>>
warmupVars == <<warmupTimer, warmupAttempt>>
vars == <<tables, connected, serverUp, codexVars, cacheVars, warmupVars, op, counters>>

null == {NoWorkspace}
Ops == Calls \cup {Warmup} \cup Threads   \* a thread names its thread.updated handler

\* pc "asked": codex owes the answer; "answered": a job is due; "lists": the lists
\* in waits are out, those in act and arc have come.  archived is what the call
\* captured before it asked, running what codex answered, diff the existingView.
Idle == [kind |-> "list", thread |-> CHOOSE t \in Threads : TRUE, pc |-> "idle", archived |-> FALSE,
         running |-> FALSE, diff |-> 0, waits |-> {}, act |-> <<>>, arc |-> <<>>]

Summary(t, r, a, entries) ==
  [running |-> r, archived |-> a, workspaceId |-> matchWorkspaceForPath(entries, Cwd[t])]

TypeOK ==
  /\ TablesTypeOK
  /\ DOMAIN threadSummaries \subseteq Threads
  /\ \A t \in DOMAIN threadSummaries :
        /\ threadSummaries[t].running \in BOOLEAN /\ threadSummaries[t].archived \in BOOLEAN
        /\ threadSummaries[t].workspaceId \in Ids \cup Paths \cup {NoWorkspace}
  /\ \A i, j \in DOMAIN threadViews :
        i # j => threadViews[i].thread # threadViews[j].thread
  /\ \A o \in Ops : op[o].pc = "idle" => op[o] = Idle
  /\ ~connected => op[Warmup] = Idle /\ \A t \in Threads : op[t] = Idle
  /\ known \subseteq Threads /\ announced \subseteq known
  /\ warmupAttempt \in 0..MaxAttempts
  /\ changes \in 0..MaxChanges /\ exits \in 0..MaxExits /\ saves \in 0..MaxSaves

Init ==
  /\ TablesInit
  /\ connected = FALSE /\ serverUp = TRUE
  /\ known = Listed /\ announced = Listed
  /\ running = [t \in Threads |-> FALSE]
  /\ archived = [t \in Threads |-> FALSE]
  /\ diff = [t \in Threads |-> 0]
  /\ threadSummaries = <<>> /\ threadViews = <<>>
  /\ summaryCacheInitialized = FALSE /\ cachedWorkspaceCatalog = null
  /\ warmupTimer = FALSE /\ warmupAttempt = 0
  /\ op = [o \in Ops |-> Idle]
  /\ changes = 0 /\ exits = 0 /\ saves = 0

-----------------------------------------------------------------------------
(* The maps. *)

CwdsOf(s) == {Cwd[t] : t \in DOMAIN s}

\* threadSummaries.set()
SetSummary(s, t, x) == [u \in DOMAIN s \cup {t} |-> IF u = t THEN x ELSE s[u]]

Pinned(s) == Asked \cup {t \in DOMAIN s : s[t].running}

\* Mutation: what is pinned is not looked at.
PruneOldest(v, s) ==
  IF Len(v) <= MaxRetained THEN v ELSE SubSeq(v, Len(v) - MaxRetained + 1, Len(v))

\* The oldest views that nothing pins go, until MaxRetained are left.
Prune(v, s) ==
  LET excess == Len(v) - MaxRetained
      loose(i) == v[i].thread \notin Pinned(s)
      keep == {i \in DOMAIN v : loose(i) => Cardinality({j \in 1..i : loose(j)}) > excess}
  IN IF Len(v) <= MaxRetained THEN v
     ELSE [n \in 1..Cardinality(keep) |->
             v[CHOOSE i \in keep : Cardinality({j \in keep : j <= i}) = n]]

HasView(v, t) == \E i \in DOMAIN v : v[i].thread = t
DiffOf(v, t) == IF HasView(v, t) THEN (CHOOSE x \in ToSet(v) : x.thread = t).diff ELSE 0

\* setThreadView() moves the view to the end of the Map.
SetView(v, t, d, s) ==
  LET own == {i \in DOMAIN v : v[i].thread = t}
      rest == IF own = {} THEN v ELSE RemoveAt(v, CHOOSE i \in own : TRUE)
  IN Prune(Append(rest, [thread |-> t, diff |-> d]), s)
TouchView(t, s) ==
  IF HasView(threadViews, t) THEN SetView(threadViews, t, DiffOf(threadViews, t), s)
  ELSE threadViews

\* The lists replace the cache: first the active threads, then the archived ones.
Refreshed(o, entries) ==
  [t \in DOMAIN op[o].act \cup DOMAIN op[o].arc |->
     IF t \in DOMAIN op[o].arc THEN Summary(t, op[o].arc[t], TRUE, entries)
     ELSE Summary(t, op[o].act[t], FALSE, entries)]

reproject(s, entries) ==
  [t \in DOMAIN s |-> [s[t] EXCEPT !.workspaceId = matchWorkspaceForPath(entries, Cwd[t])]]

-----------------------------------------------------------------------------
(* Jobs. *)

Due(o) == op[o].pc = "answered" \/ (op[o].pc = "lists" /\ op[o].waits = {})
NoJobs == \A o \in Ops : ~Due(o)
Free(o) == op[o].pc = "idle"
Ends(o) == op' = [op EXCEPT ![o] = Idle]
Lists == [Idle EXCEPT !.pc = "lists", !.waits = {"active", "archived"}]

\* The existingView of the call, looked up when codex has answered.
ExistingDiff(o) ==
  IF op[o].kind = "open" THEN 0
  ELSE IF op[o].pc = "answered" THEN DiffOf(threadViews, op[o].thread) ELSE op[o].diff

\* Mutation: the archived flag of the call is not passed on.
HydrateUnarchived(o, s) ==
  LET t == op[o].thread
      entries == buildWorkspaceCatalog(CwdsOf(s) \cup {Cwd[t]})
  IN /\ threadViews' = SetView(threadViews, t, ExistingDiff(o), s)
     /\ threadSummaries' = SetSummary(s, t, Summary(t, op[o].running, FALSE, entries))
     /\ cachedWorkspaceCatalog' = null

\* Mutation: the catalogue is not invalidated.
HydrateOnly(o, s) ==
  LET t == op[o].thread
      entries == buildWorkspaceCatalog(CwdsOf(s) \cup {Cwd[t]})
  IN /\ threadViews' = SetView(threadViews, t, ExistingDiff(o), s)
     /\ threadSummaries' = SetSummary(s, t, Summary(t, op[o].running, op[o].archived, entries))
     /\ UNCHANGED cachedWorkspaceCatalog

\* hydrateRuntimeThread(): the view before the summary.
Hydrate(o, s) ==
  LET t == op[o].thread
      entries == buildWorkspaceCatalog(CwdsOf(s) \cup {Cwd[t]})
  IN /\ threadViews' = SetView(threadViews, t, ExistingDiff(o), s)
     /\ threadSummaries' = SetSummary(s, t, Summary(t, op[o].running, op[o].archived, entries))
     /\ cachedWorkspaceCatalog' = null

\* The end of the thread.updated handler: the summary before the view, which is
\* looked up after the await.
StoreUpdated(o, s) ==
  LET t == op[o].thread
      entries == buildWorkspaceCatalog(CwdsOf(s) \cup {Cwd[t]})
      s2 == SetSummary(s, t, Summary(t, op[o].running, FALSE, entries))
  IN /\ threadSummaries' = s2
     /\ threadViews' = TouchView(t, s2)
     /\ cachedWorkspaceCatalog' = null

\* listThreadSummaries() and the end of getBootstrap(): getWorkspaceCatalog(), and
\* the views of summaries that got another workspace move to the end.
ListAnswer(s, catalog) ==
  LET entries == IF catalog = null THEN buildWorkspaceCatalog(CwdsOf(s)) ELSE catalog
      s2 == reproject(s, entries)
      moved == {t \in DOMAIN s : s2[t] # s[t]}
      move(v, t) == IF HasView(v, t) THEN SetView(v, t, DiffOf(v, t), s2) ELSE v
  IN /\ threadSummaries' = s2
     /\ cachedWorkspaceCatalog' = entries
     /\ \E order \in SetToSeqs(moved) :
          LET after[n \in 0..Len(order)] ==
                IF n = 0 THEN threadViews ELSE move(after[n - 1], order[n])
          IN threadViews' = after[Len(order)]

applyThreadClosed(t) ==
  IF t \in DOMAIN threadSummaries
  THEN /\ threadSummaries' = [threadSummaries EXCEPT ![t].running = FALSE]
       /\ threadViews' = TouchView(t, threadSummaries')
  ELSE UNCHANGED <<threadSummaries, threadViews>>

\* What the operation does when the cache is there, which is s and catalog.
Continue(o, s, catalog) ==
  CASE op[o].kind \in {"read", "open", "unarchive"} -> Hydrate(o, s)
    [] op[o].kind = "updated" -> StoreUpdated(o, s)
    [] op[o].kind = "list" -> ListAnswer(s, catalog)
    [] op[o].kind \in {"warmup", "bootstrap"} ->
         threadSummaries' = s /\ cachedWorkspaceCatalog' = catalog /\ UNCHANGED threadViews

\* getBootstrap() asks codex for account, models and configuration in between.
Successor(o) ==
  IF op[o].kind = "bootstrap" THEN [Idle EXCEPT !.pc = "asked"] ELSE Idle

\* runThreadSummaryWarmup() after its refresh: nothing found is tried again.
Retries(s) == s = <<>> /\ warmupAttempt < MaxAttempts

\* refreshThreadSummaryCache() when both lists have come, and what awaited it.
RefreshEnds(o) ==
  /\ op[o].pc = "lists" /\ op[o].waits = {}
  /\ LET entries == buildWorkspaceCatalog({Cwd[t] : t \in DOMAIN op[o].act \cup DOMAIN op[o].arc})
         s == Refreshed(o, entries)
         again == op[o].kind = "warmup" /\ Retries(s)
     IN /\ Continue(o, s, entries)
        /\ summaryCacheInitialized' = ~again
        /\ warmupTimer' = (warmupTimer \/ again)
  /\ op' = [op EXCEPT ![o] = Successor(o)]
  /\ UNCHANGED <<tables, connected, serverUp, codexVars, warmupAttempt, counters>>

\* The job of an answer: the catalogue, and before it perhaps a refresh.
AnswerGoesOn(o) ==
  /\ op[o].pc = "answered" /\ op[o].kind # "unsubscribe"
  /\ IF summaryCacheInitialized
     THEN /\ Continue(o, threadSummaries, cachedWorkspaceCatalog)
          /\ Ends(o)
     ELSE /\ op' = [op EXCEPT ![o].pc = "lists", ![o].waits = {"active", "archived"},
                              ![o].diff = ExistingDiff(o)]
          /\ UNCHANGED <<threadSummaries, threadViews, cachedWorkspaceCatalog>>
  /\ UNCHANGED <<tables, connected, serverUp, codexVars, summaryCacheInitialized, warmupVars,
                 counters>>

UnsubscribeGoesOn(o) ==
  /\ op[o].pc = "answered" /\ op[o].kind = "unsubscribe"
  /\ applyThreadClosed(op[o].thread)
  /\ Ends(o)
  /\ UNCHANGED <<tables, connected, serverUp, codexVars, summaryCacheInitialized,
                 cachedWorkspaceCatalog, warmupVars, counters>>

-----------------------------------------------------------------------------
(* Codex: answers, and changes with the notification that announces them. *)

CodexAnswers(o) ==
  /\ connected /\ op[o].pc = "asked"
  /\ LET t == op[o].thread
     IN /\ op[o].kind \in {"read", "unarchive", "unsubscribe"} => t \in known
        /\ op[o].kind = "unarchive" => ~archived[t]
        /\ known' = IF op[o].kind = "open" THEN known \cup {t} ELSE known
        /\ op' = [op EXCEPT ![o].pc = "answered",
                            ![o].running = op[o].kind \notin {"list", "unsubscribe"} /\ running[t]]
  /\ UNCHANGED <<tables, connected, serverUp, announced, running, archived, diff, cacheVars,
                 warmupVars, counters>>

\* An error answer; the call of the page is rejected.
CodexRefuses(o) ==
  /\ connected /\ op[o].pc = "asked" /\ op[o].kind # "list"
  /\ Ends(o)
  /\ UNCHANGED <<tables, connected, serverUp, codexVars, cacheVars, warmupVars, counters>>

CodexLists(o, which) ==
  /\ connected /\ op[o].pc = "lists" /\ which \in op[o].waits
  /\ LET found == {t \in known : archived[t] = (which = "archived")}
         list == [t \in found |-> running[t]]
     IN op' = [op EXCEPT ![o].waits = @ \ {which},
                         ![o].act = IF which = "active" THEN list ELSE @,
                         ![o].arc = IF which = "archived" THEN list ELSE @]
  /\ UNCHANGED <<tables, connected, serverUp, codexVars, cacheVars, warmupVars, counters>>

\* thread/started of a new thread; its handler awaits the catalogue.
ThreadStarted(t) ==
  /\ connected /\ t \notin announced
  /\ known' = known \cup {t} /\ announced' = announced \cup {t}
  /\ op' = [op EXCEPT ![t] = [Idle EXCEPT !.kind = "updated", !.thread = t, !.pc = "answered",
                                          !.running = running[t]]]
  /\ UNCHANGED <<tables, connected, serverUp, running, archived, diff, cacheVars, warmupVars,
                 counters>>

Patch(t, s) ==
  IF t \in DOMAIN threadSummaries
  THEN /\ threadSummaries' = SetSummary(threadSummaries, t, s)
       /\ threadViews' = TouchView(t, threadSummaries')
  ELSE UNCHANGED <<threadSummaries, threadViews>>

Changes(t) ==
  /\ connected /\ t \in known /\ changes < MaxChanges /\ MayHappen
  /\ changes' = changes + 1 /\ UNCHANGED <<exits, saves>>

StatusChanged(t) ==
  /\ Changes(t)
  /\ running' = [running EXCEPT ![t] = ~@]
  /\ Patch(t, [threadSummaries[t] EXCEPT !.running = running'[t]])
  /\ UNCHANGED <<tables, connected, serverUp, known, announced, archived, diff,
                 summaryCacheInitialized, cachedWorkspaceCatalog, warmupVars, op>>

ArchiveChanged(t) ==
  /\ Changes(t)
  /\ archived' = [archived EXCEPT ![t] = ~@]
  /\ Patch(t, [threadSummaries[t] EXCEPT !.archived = archived'[t]])
  /\ UNCHANGED <<tables, connected, serverUp, known, announced, running, diff,
                 summaryCacheInitialized, cachedWorkspaceCatalog, warmupVars, op>>

ThreadClosed(t) ==
  /\ Changes(t)
  /\ running' = [running EXCEPT ![t] = FALSE]
  /\ applyThreadClosed(t)
  /\ UNCHANGED <<tables, connected, serverUp, known, announced, archived, diff,
                 summaryCacheInitialized, cachedWorkspaceCatalog, warmupVars, op>>

\* diff.updated, plan.updated, review.updated
DiffUpdated(t) ==
  /\ Changes(t)
  /\ diff' = [diff EXCEPT ![t] = @ + 1]
  /\ threadViews' = IF HasView(threadViews, t)
                    THEN SetView(threadViews, t, diff'[t], threadSummaries) ELSE threadViews
  /\ UNCHANGED <<tables, connected, serverUp, known, announced, running, archived,
                 threadSummaries, summaryCacheInitialized, cachedWorkspaceCatalog, warmupVars,
                 op>>

\* turn.updated, timeline.item, timeline.delta, token usage, and the answers of
\* turn.start and review.start: the view moves to the end.
TurnUpdated(t) ==
  /\ connected /\ t \in known
  /\ threadViews' = TouchView(t, threadSummaries)
  /\ UNCHANGED <<tables, connected, serverUp, codexVars, threadSummaries,
                 summaryCacheInitialized, cachedWorkspaceCatalog, warmupVars, op, counters>>

-----------------------------------------------------------------------------
(* Calls of pages. *)

Ask(o, t, kind, a) ==
  op' = [op EXCEPT ![o] = [Idle EXCEPT !.kind = kind, !.thread = t, !.pc = "asked",
                                       !.archived = a]]

\* thread.read, metadata.update, resume and rollback keep the archived flag the
\* summary has now.
ReadThread(o, t) ==
  /\ NoJobs /\ Free(o)
  /\ Ask(o, t, "read", t \in DOMAIN threadSummaries /\ threadSummaries[t].archived)
  /\ UNCHANGED <<tables, connected, serverUp, codexVars, cacheVars, warmupVars, counters>>

\* thread.open of a saved workspace, thread.fork of a listed thread: t is new.
OpenThread(o, t) ==
  /\ NoJobs /\ Free(o) /\ t \notin known
  /\ \A p \in Ops : ~(op[p].pc = "asked" /\ op[p].kind = "open" /\ op[p].thread = t)
  /\ Ask(o, t, "open", FALSE)
  /\ UNCHANGED <<tables, connected, serverUp, codexVars, cacheVars, warmupVars, counters>>

UnarchiveThread(o, t) ==
  /\ NoJobs /\ Free(o)
  /\ Ask(o, t, "unarchive", FALSE)
  /\ UNCHANGED <<tables, connected, serverUp, codexVars, cacheVars, warmupVars, counters>>

UnsubscribeThread(o, t) ==
  /\ NoJobs /\ Free(o)
  /\ Ask(o, t, "unsubscribe", FALSE)
  /\ UNCHANGED <<tables, connected, serverUp, codexVars, cacheVars, warmupVars, counters>>

\* thread.list, and what ensures the cache before it asks codex (getBootstrap).
ListThreads(o, kind) ==
  /\ NoJobs /\ Free(o) /\ kind \in {"list", "bootstrap"}
  /\ IF summaryCacheInitialized
     THEN IF kind = "list"
          THEN ListAnswer(threadSummaries, cachedWorkspaceCatalog) /\ UNCHANGED op
          ELSE /\ op' = [op EXCEPT ![o] = [Idle EXCEPT !.pc = "asked"]]
               /\ UNCHANGED <<threadSummaries, threadViews, cachedWorkspaceCatalog>>
     ELSE /\ op' = [op EXCEPT ![o] = [Lists EXCEPT !.kind = kind]]
          /\ UNCHANGED <<threadSummaries, threadViews, cachedWorkspaceCatalog>>
  /\ UNCHANGED <<tables, connected, serverUp, codexVars, summaryCacheInitialized, warmupVars,
                 counters>>

\* A repo call; when its statement throws the catalogue is not invalidated.
SaveWorkspaces ==
  /\ NoJobs /\ saves < MaxSaves /\ MayHappen
  /\ saves' = saves + 1 /\ UNCHANGED <<changes, exits>>
  /\ \/ \E i \in Ids, p \in Paths :
          /\ CreateRow(i, p) \/ UpdateRow(i, p)
          /\ cachedWorkspaceCatalog' = IF Taken(p, i) THEN cachedWorkspaceCatalog ELSE null
     \/ /\ \E i \in Ids : DeleteRow(i)
        /\ cachedWorkspaceCatalog' = null
     \/ /\ \E p \in Paths : ignorePath(p)
        /\ UNCHANGED workspaces
        /\ cachedWorkspaceCatalog' = null
  /\ UNCHANGED <<connected, serverUp, codexVars, threadSummaries, threadViews,
                 summaryCacheInitialized, warmupVars, op>>

-----------------------------------------------------------------------------
(* Codex comes and goes. *)

\* Mutation: a warm-up for the first connection only.
WarmUpOnce ==
  /\ ~connected /\ NoJobs
  /\ connected' = TRUE
  /\ summaryCacheInitialized' = FALSE /\ cachedWorkspaceCatalog' = null
  /\ warmupTimer' = FALSE /\ warmupAttempt' = 1
  /\ op' = IF exits = 0 THEN [op EXCEPT ![Warmup] = [Lists EXCEPT !.kind = "warmup"]] ELSE op
  /\ UNCHANGED <<tables, serverUp, codexVars, threadSummaries, threadViews, counters>>

\* status.changed: resetThreadSummaryCache() and scheduleThreadSummaryWarmup().
RuntimeConnects ==
  /\ ~connected /\ NoJobs
  /\ connected' = TRUE
  /\ summaryCacheInitialized' = FALSE /\ cachedWorkspaceCatalog' = null
  /\ warmupTimer' = FALSE /\ warmupAttempt' = 1
  /\ op' = [op EXCEPT ![Warmup] = [Lists EXCEPT !.kind = "warmup"]]
  /\ UNCHANGED <<tables, serverUp, codexVars, threadSummaries, threadViews, counters>>

WarmupTimer ==
  /\ warmupTimer /\ NoJobs
  /\ warmupTimer' = FALSE
  /\ IF connected
     THEN /\ warmupAttempt' = warmupAttempt + 1
          /\ op' = [op EXCEPT ![Warmup] = [Lists EXCEPT !.kind = "warmup"]]
     ELSE UNCHANGED <<warmupAttempt, op>>
  /\ UNCHANGED <<tables, connected, serverUp, codexVars, cacheVars, counters>>

\* Every request is rejected.  A call of a page passes that on; nobody handles
\* the rejection of a warm-up or of the thread.updated handler, which ends Node.
Unhandled == \E o \in Ops : op[o].pc = "lists" /\ op[o].kind \in {"warmup", "updated"}

RuntimeExits ==
  /\ connected /\ NoJobs /\ exits < MaxExits /\ MayHappen
  /\ connected' = FALSE
  /\ serverUp' = ~Unhandled
  /\ running' = [t \in Threads |-> FALSE]
  /\ op' = [o \in Ops |-> Idle]
  /\ exits' = exits + 1 /\ UNCHANGED <<changes, saves>>
  /\ UNCHANGED <<tables, known, announced, archived, diff, cacheVars, warmupVars>>

Next ==
  /\ serverUp
  /\ \/ \E o \in Ops :
          \/ RefreshEnds(o) \/ AnswerGoesOn(o) \/ UnsubscribeGoesOn(o)
          \/ CodexAnswers(o) \/ CodexRefuses(o)
          \/ \E which \in {"active", "archived"} : CodexLists(o, which)
     \/ \E o \in Calls :
          \/ \E t \in Threads :
               \/ ReadThread(o, t) \/ OpenThread(o, t)
               \/ UnarchiveThread(o, t) \/ UnsubscribeThread(o, t)
          \/ \E kind \in {"list", "bootstrap"} : ListThreads(o, kind)
     \/ RuntimeConnects \/ WarmupTimer
     \/ \E t \in Threads :
          \/ ThreadStarted(t) \/ StatusChanged(t) \/ ArchiveChanged(t) \/ ThreadClosed(t)
          \/ DiffUpdated(t) \/ TurnUpdated(t)
     \/ SaveWorkspaces
     \/ RuntimeExits

Spec == Init /\ [][Next]_vars

-----------------------------------------------------------------------------
(* Properties. *)

\* The cached catalogue shows what the tables and the cached threads say now
\* (invalidateWorkspaceCatalog() after everything that changes one of them).  A
\* repo call that fails after un-ignoring a path invalidates nothing; that can
\* only hide entries, and only while home itself is saved.
CatalogIsFresh ==
  cachedWorkspaceCatalog # null =>
    LET now == buildWorkspaceCatalog(CwdsOf(threadSummaries))
    IN /\ cachedWorkspaceCatalog \subseteq now
       /\ Home \notin SavedPaths => cachedWorkspaceCatalog = now

Current(t) ==
  /\ t \in DOMAIN threadSummaries
  /\ threadSummaries[t].running = running[t] /\ threadSummaries[t].archived = archived[t]

\* What an operation that ends in this step brings about a thread is not what
\* codex says of it.
BringsStale(o, t) ==
  \/ /\ op[o].pc = "answered" /\ op[o].thread = t
     /\ \/ op[o].kind = "unsubscribe"
        \/ <<op[o].running, op[o].archived>> # <<running[t], archived[t]>>
  \/ /\ op[o].pc = "lists"
     /\ LET list == IF archived[t] THEN op[o].arc ELSE op[o].act
        IN \/ op[o].kind \in {"read", "open", "unarchive", "updated"} /\ op[o].thread = t
           \/ t \notin DOMAIN list \/ list[t] # running[t]
           \/ ~archived[t] /\ t \in DOMAIN op[o].arc

\* A summary that says what codex says goes on to do so: notifications keep it
\* up, and a read, a list or an event that is no older than it does not spoil it.
\* Only an answer codex has overtaken, or the exit of codex, does.
OnlyOvertakenAnswersSpoil ==
  [][\A t \in Threads :
       Current(t) /\ ~Current(t)'
         => \/ ~connected'
            \/ \E o \in Ops : Due(o) /\ op'[o] # op[o] /\ BringsStale(o, t)]_vars

\* The view of a thread that runs or has a request pending is not pruned, so its
\* diff survives until the page reads it.  But hydrateRuntimeThread() sets the view
\* before the summary: a thread that codex ran when it answered, and that the lists
\* the answer waited for do not have running, is not pinned in between.
PinnedViewStays ==
  [][\A t \in Threads :
       HasView(threadViews, t) /\ ~HasView(threadViews', t)
         => \/ t \notin Pinned(threadSummaries) \/ t \notin Pinned(threadSummaries')
            \/ \E o \in Ops : /\ op[o].pc = "lists" /\ op'[o] # op[o] /\ op[o].thread = t
                            /\ op[o].kind \in {"read", "open", "unarchive"}
                            /\ t \notin Pinned(Refreshed(o, {}))]_vars

\* The cache is never given up: while codex is connected it has been read, or it
\* is being read, or a retry is due; and the retries are bounded.
RecoveryIsDue ==
  /\ connected /\ serverUp /\ ~summaryCacheInitialized => warmupTimer \/ op[Warmup] # Idle
  /\ warmupTimer => warmupAttempt < MaxAttempts

\* What the cache holds is given to pages only as the tables have it now, and it is filled.
CacheIsDue == CatalogIsFresh /\ RecoveryIsDue
=============================================================================
