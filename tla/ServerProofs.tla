---------------------------- MODULE ServerProofs ----------------------------
(***************************************************************************)
(* Proofs about the parts of MCServer, for any threads, calls, workspaces, *)
(* turns, commands, tasks and patches.                                     *)
(*                                                                         *)
(* ThreadCache: the warm-up is never given up, the cached catalogue is     *)
(* fresh, only an answer that codex has overtaken spoils a summary, and    *)
(* the view of a thread that runs or waits for an answer is kept.          *)
(* FakeRuntime: what the tests take for granted of codex.  TaskWorkflow:   *)
(* no command of the script loses committed work.                          *)
(***************************************************************************)
EXTENDS MCServer, SequenceLemmas

-----------------------------------------------------------------------------
(* The server's summaries. *)

Fields == {"kind", "thread", "pc", "archived", "running", "waits", "act", "arc"}
Hydrating == {"read", "open", "unarchive", "updated"}
Listing == {"list", "bootstrap", "warmup"}

\* What an operation keeps.
OpIs(o, x) ==
  /\ Fields \subseteq DOMAIN x
  /\ x.kind \in Hydrating \cup Listing \cup {"unsubscribe"}
  /\ x.pc = "lists" => x.kind # "unsubscribe"
  /\ x.kind \in Hydrating => x.thread \in Threads
  /\ x.kind = "updated" => x.archived = FALSE
  /\ x.kind = "warmup" => o = Warmup
  /\ o = Warmup => x.pc = "idle" \/ (x.pc = "lists" /\ x.kind = "warmup")
  /\ DOMAIN x.act \subseteq Threads /\ DOMAIN x.arc \subseteq Threads

OpsAre == op = [o \in Ops |-> op[o]] /\ \A o \in Ops : OpIs(o, op[o])

CodexTypes ==
  /\ known \subseteq Threads
  /\ running \in [Threads -> BOOLEAN] /\ archived \in [Threads -> BOOLEAN]

SummariesAre(s) ==
  /\ DOMAIN s \subseteq Threads
  /\ \A t \in DOMAIN s : {"running", "archived", "workspaceId"} \subseteq DOMAIN s[t]

FlagTypes ==
  /\ connected \in BOOLEAN /\ serverUp \in BOOLEAN /\ summaryCacheInitialized \in BOOLEAN
  /\ warmupTimer \in BOOLEAN /\ warmupAttempt \in Nat

\* The retry is due as long as the lists of the warm-up are out.
WarmupGoesOn ==
  /\ connected /\ ~summaryCacheInitialized => warmupTimer \/ op[Warmup].pc = "lists"
  /\ warmupTimer => warmupAttempt < MaxAttempts

-----------------------------------------------------------------------------
(* Operations. *)

LEMMA IdleIs ==
  /\ Idle.kind = "list" /\ Idle.pc = "idle" /\ Idle.archived = FALSE /\ Idle.running = FALSE
  /\ Idle.waits = {} /\ Idle.act = <<>> /\ Idle.arc = <<>>
  /\ Fields \subseteq DOMAIN Idle
  /\ \A o \in Ops : OpIs(o, Idle)
<1>1. /\ Idle.kind = "list" /\ Idle.pc = "idle" /\ Idle.archived = FALSE /\ Idle.running = FALSE
      /\ Idle.waits = {} /\ Idle.act = <<>> /\ Idle.arc = <<>>
      /\ Fields \subseteq DOMAIN Idle
  BY DEF Idle, Fields
<1>2. DOMAIN Idle.act = {} /\ DOMAIN Idle.arc = {}
  BY <1>1
<1>3. \A o \in Ops : OpIs(o, Idle)
  <2>. SUFFICES ASSUME NEW o \in Ops
                PROVE  OpIs(o, Idle)
    OBVIOUS
  <2>1. Idle.kind \notin Hydrating /\ Idle.kind \in Listing /\ Idle.kind # "updated" /\ Idle.kind # "warmup"
    BY <1>1 DEF Hydrating, Listing
  <2>2. DOMAIN Idle.act \subseteq Threads /\ DOMAIN Idle.arc \subseteq Threads
    BY <1>2
  <2>. QED
    BY <1>1, <2>1, <2>2 DEF OpIs
<1>. QED
  BY <1>1, <1>3

\* One operation goes on, the others stay.
LEMMA OneOp ==
  ASSUME OpsAre, NEW o \in Ops, NEW x, op' = [op EXCEPT ![o] = x], OpIs(o, x)
  PROVE  /\ OpsAre' /\ op'[o] = x
         /\ \A p \in Ops : p # o => op'[p] = op[p]
<1>1. DOMAIN op = Ops
  BY DEF OpsAre
<1>2. /\ op' = [p \in Ops |-> op'[p]]
      /\ \A p \in Ops : op'[p] = IF p = o THEN x ELSE op[p]
  BY <1>1
<1>3. \A p \in Ops : OpIs(p, op'[p])
  BY <1>2 DEF OpsAre
<1>. QED
  BY <1>2, <1>3 DEF OpsAre

LEMMA InitOps == Init => OpsAre
BY IdleIs DEF Init, OpsAre

LEMMA ListsIs ==
  ASSUME NEW kind \in {"list", "bootstrap", "warmup"}, NEW o \in Ops, kind = "warmup" <=> o = Warmup
  PROVE  /\ OpIs(o, [Lists EXCEPT !.kind = kind])
         /\ [Lists EXCEPT !.kind = kind].pc = "lists" /\ [Lists EXCEPT !.kind = kind].kind = kind
BY DEF Lists, Idle, Fields, OpIs, Hydrating, Listing

LEMMA OpsStep ==
  ASSUME OpsAre, CodexTypes, Next
  PROVE  OpsAre'
<1>. USE DEF Ops
<1>0. DOMAIN op = Ops /\ \A o \in Ops : OpIs(o, op[o])
  BY DEF OpsAre
<1>1. ASSUME NEW o \in Ops, RefreshEnds(o)
      PROVE  OpsAre'
  <2>1. op' = [op EXCEPT ![o] = Successor(o)]
    BY <1>1 DEF RefreshEnds
  <2>2. OpIs(o, Successor(o))
    <3>1. CASE op[o].kind = "bootstrap"
      <4>1. o # Warmup
        BY <3>1, <1>0, <1>1 DEF OpIs, RefreshEnds
      <4>. QED
        BY <3>1, <4>1, IdleIs DEF Successor, OpIs, Fields, Hydrating, Listing
    <3>2. CASE op[o].kind # "bootstrap"
      BY <3>2, IdleIs DEF Successor
    <3>. QED
      BY <3>1, <3>2
  <2>. QED
    BY <2>1, <2>2, OneOp
<1>2. ASSUME NEW o \in Ops, AnswerGoesOn(o)
      PROVE  OpsAre'
  <2>1. \E d : op' \in {[op EXCEPT ![o] = Idle],
                  [op EXCEPT ![o] = [op[o] EXCEPT !.pc = "lists", !.waits = {"active", "archived"},
                                                  !.diff = d]]}
    BY <1>0, <1>2 DEF AnswerGoesOn, Ends
  <2>2. PICK d : op' = [op EXCEPT ![o] = Idle] \/
            op' = [op EXCEPT ![o] = [op[o] EXCEPT !.pc = "lists", !.waits = {"active", "archived"},
                                                  !.diff = d]]
    BY <2>1
  <2>3. o # Warmup /\ op[o].kind # "unsubscribe"
    BY <1>0, <1>2 DEF OpIs, AnswerGoesOn
  <2>4. OpIs(o, [op[o] EXCEPT !.pc = "lists", !.waits = {"active", "archived"}, !.diff = d])
    BY <1>0, <2>3 DEF OpIs, Fields, Hydrating, Listing
  <2>. QED
    BY <2>2, <2>4, IdleIs, OneOp
<1>3. ASSUME NEW o \in Ops, UnsubscribeGoesOn(o) \/ CodexRefuses(o)
      PROVE  OpsAre'
  BY <1>3, IdleIs, OneOp DEF UnsubscribeGoesOn, CodexRefuses, Ends
<1>4. ASSUME NEW o \in Ops, CodexAnswers(o)
      PROVE  OpsAre'
  <2>1. PICK r : op' = [op EXCEPT ![o] = [op[o] EXCEPT !.pc = "answered", !.running = r]]
    BY <1>0, <1>4 DEF CodexAnswers
  <2>2. o # Warmup
    BY <1>0, <1>4 DEF OpIs, CodexAnswers
  <2>3. OpIs(o, [op[o] EXCEPT !.pc = "answered", !.running = r])
    BY <1>0, <2>2 DEF OpIs, Fields, Hydrating, Listing
  <2>. QED
    BY <2>1, <2>3, OneOp
<1>5. ASSUME NEW o \in Ops, NEW which \in {"active", "archived"}, CodexLists(o, which)
      PROVE  OpsAre'
  <2>. DEFINE found == {t \in known : archived[t] = (which = "archived")}
              list == [t \in found |-> running[t]]
              x == [op[o] EXCEPT !.waits = @ \ {which},
                         !.act = IF which = "active" THEN list ELSE @,
                         !.arc = IF which = "archived" THEN list ELSE @]
  <2>1. op' = [op EXCEPT ![o] = x]
    BY <1>0, <1>5 DEF CodexLists
  <2>2. DOMAIN list \subseteq Threads
    BY DEF CodexTypes
  <2>. HIDE DEF list
  <2>3. OpIs(o, x)
    BY <1>0, <2>2 DEF OpIs, Fields, Hydrating, Listing
  <2>. QED
    BY <2>1, <2>3, OneOp
<1>6. ASSUME NEW t \in Threads, ThreadStarted(t)
      PROVE  OpsAre'
  <2>1. t # Warmup
    BY CacheAssumption
  <2>2. OpIs(t, [Idle EXCEPT !.kind = "updated", !.thread = t, !.pc = "answered",
                             !.running = running[t]])
    BY <2>1, IdleIs DEF OpIs, Fields, Hydrating, Listing
  <2>. QED
    BY <1>6, <2>2, OneOp DEF ThreadStarted
<1>7. ASSUME NEW o \in Calls, NEW t \in Threads,
             \/ ReadThread(o, t) \/ OpenThread(o, t)
             \/ UnarchiveThread(o, t) \/ UnsubscribeThread(o, t)
      PROVE  OpsAre'
  <2>1. PICK a, kind : /\ kind \in {"read", "open", "unarchive", "unsubscribe"}
                       /\ op' = [op EXCEPT ![o] = [Idle EXCEPT !.kind = kind, !.thread = t,
                                                       !.pc = "asked", !.archived = a]]
    BY <1>7 DEF ReadThread, OpenThread, UnarchiveThread, UnsubscribeThread, Ask
  <2>2. o # Warmup
    BY CacheAssumption
  <2>3. OpIs(o, [Idle EXCEPT !.kind = kind, !.thread = t, !.pc = "asked", !.archived = a])
    BY <2>1, <2>2, IdleIs DEF OpIs, Fields, Hydrating, Listing
  <2>. QED
    BY <2>1, <2>3, OneOp
<1>8. ASSUME NEW o \in Calls, NEW kind \in {"list", "bootstrap"}, ListThreads(o, kind)
      PROVE  OpsAre'
  <2>1. o # Warmup
    BY CacheAssumption
  <2>2. OpIs(o, [Idle EXCEPT !.pc = "asked"]) /\ OpIs(o, [Lists EXCEPT !.kind = kind])
    BY <2>1, IdleIs, ListsIs DEF OpIs, Fields, Hydrating, Listing
  <2>3. \/ op' = op \/ op' = [op EXCEPT ![o] = [Idle EXCEPT !.pc = "asked"]]
        \/ op' = [op EXCEPT ![o] = [Lists EXCEPT !.kind = kind]]
    BY <1>8 DEF ListThreads
  <2>. QED
    BY <2>2, <2>3, OneOp DEF OpsAre
<1>9. ASSUME RuntimeConnects \/ WarmupTimer
      PROVE  OpsAre'
  <2>1. op' = op \/ op' = [op EXCEPT ![Warmup] = [Lists EXCEPT !.kind = "warmup"]]
    BY <1>9 DEF RuntimeConnects, WarmupTimer
  <2>2. OpIs(Warmup, [Lists EXCEPT !.kind = "warmup"])
    BY ListsIs
  <2>. QED
    BY <2>1, <2>2, OneOp DEF OpsAre
<1>10. ASSUME UNCHANGED op
       PROVE  OpsAre'
  BY <1>10 DEF OpsAre
<1>11. ASSUME RuntimeExits
       PROVE  OpsAre'
  BY <1>11, IdleIs DEF RuntimeExits, OpsAre
<1>12. ASSUME NEW t \in Threads,
              \/ StatusChanged(t) \/ ArchiveChanged(t) \/ ThreadClosed(t)
              \/ DiffUpdated(t) \/ TurnUpdated(t)
       PROVE  UNCHANGED op
  BY <1>12 DEF StatusChanged, ArchiveChanged, ThreadClosed, DiffUpdated, TurnUpdated
<1>13. ASSUME SaveWorkspaces
       PROVE  UNCHANGED op
  BY <1>13 DEF SaveWorkspaces
<1>. HIDE DEF Ops
<1>. QED
  BY <1>1, <1>2, <1>3, <1>4, <1>5, <1>6, <1>7, <1>8, <1>9, <1>10, <1>11, <1>12, <1>13 DEF Next

-----------------------------------------------------------------------------
(* The warm-up. *)

RecoveryInv == FlagTypes /\ WarmupGoesOn

LEMMA InitRecovery == Init => RecoveryInv
<1>. SUFFICES ASSUME Init
              PROVE  RecoveryInv
  OBVIOUS
<1>1. FlagTypes
  BY DEF Init, FlagTypes
<1>2. connected = FALSE /\ warmupTimer = FALSE
  BY DEF Init
<1>. QED
  BY <1>1, <1>2 DEF RecoveryInv, WarmupGoesOn

LEMMA RecoveryStep ==
  ASSUME OpsAre, RecoveryInv, Next
  PROVE  RecoveryInv'
<1>. USE DEF RecoveryInv, FlagTypes, WarmupGoesOn
<1>0. /\ DOMAIN op = Ops /\ \A o \in Ops : OpIs(o, op[o])
      /\ Warmup \in Ops
  BY DEF OpsAre, Ops
<1>1. ASSUME NEW o \in Ops, RefreshEnds(o)
      PROVE  RecoveryInv'
  <2>1. PICK again \in BOOLEAN :
          /\ again = (op[o].kind = "warmup" /\ Retries(Refreshed(o, buildWorkspaceCatalog(
                       {Cwd[t] : t \in DOMAIN op[o].act \cup DOMAIN op[o].arc}))))
          /\ summaryCacheInitialized' = ~again
          /\ warmupTimer' = (warmupTimer \/ again)
    BY <1>1 DEF RefreshEnds
  <2>2. /\ UNCHANGED <<connected, serverUp, warmupAttempt>>
        /\ again => warmupAttempt < MaxAttempts
    BY <1>1, <2>1 DEF RefreshEnds, Retries
  <2>. QED
    BY <2>1, <2>2
<1>2. ASSUME NEW o \in Ops,
             \/ AnswerGoesOn(o) \/ UnsubscribeGoesOn(o) \/ CodexAnswers(o) \/ CodexRefuses(o)
      PROVE  RecoveryInv'
  <2>1. o # Warmup
    BY <1>0, <1>2 DEF OpIs, AnswerGoesOn, UnsubscribeGoesOn, CodexAnswers, CodexRefuses
  <2>2. op'[Warmup] = op[Warmup]
    BY <1>0, <1>2, <2>1 DEF AnswerGoesOn, UnsubscribeGoesOn, CodexAnswers, CodexRefuses, Ends
  <2>3. UNCHANGED <<connected, serverUp, summaryCacheInitialized, warmupVars>>
    BY <1>2 DEF AnswerGoesOn, UnsubscribeGoesOn, CodexAnswers, CodexRefuses, cacheVars
  <2>. QED
    BY <2>2, <2>3 DEF warmupVars
<1>3. ASSUME NEW o \in Ops, NEW which \in {"active", "archived"}, CodexLists(o, which)
      PROVE  RecoveryInv'
  <2>1. UNCHANGED <<connected, serverUp, summaryCacheInitialized, warmupVars>>
    BY <1>3 DEF CodexLists, cacheVars
  <2>2. op'[Warmup].pc = op[Warmup].pc
    <3>1. \E w, x, y : op' = [op EXCEPT ![o] = [op[o] EXCEPT !.waits = w, !.act = x, !.arc = y]]
      BY <1>0, <1>3 DEF CodexLists
    <3>. QED
      BY <1>0, <3>1 DEF OpIs, Fields
  <2>. QED
    BY <2>1, <2>2 DEF warmupVars
<1>4. ASSUME NEW t \in Threads, ThreadStarted(t)
      PROVE  RecoveryInv'
  <2>1. t # Warmup /\ t \in Ops
    BY CacheAssumption DEF Ops
  <2>. QED
    BY <1>0, <1>4, <2>1 DEF ThreadStarted, cacheVars, warmupVars
<1>5. ASSUME NEW o \in Calls, NEW t \in Threads,
             \/ ReadThread(o, t) \/ OpenThread(o, t)
             \/ UnarchiveThread(o, t) \/ UnsubscribeThread(o, t)
      PROVE  RecoveryInv'
  <2>1. o # Warmup /\ o \in Ops
    BY CacheAssumption DEF Ops
  <2>2. op'[Warmup] = op[Warmup] /\ UNCHANGED <<connected, serverUp, cacheVars, warmupVars>>
    BY <1>0, <1>5, <2>1
       DEF ReadThread, OpenThread, UnarchiveThread, UnsubscribeThread, Ask
  <2>. QED
    BY <2>2 DEF cacheVars, warmupVars
<1>6. ASSUME NEW o \in Calls, NEW kind \in {"list", "bootstrap"}, ListThreads(o, kind)
      PROVE  RecoveryInv'
  <2>1. o # Warmup /\ o \in Ops
    BY CacheAssumption DEF Ops
  <2>2. /\ op'[Warmup] = op[Warmup]
        /\ UNCHANGED <<connected, serverUp, summaryCacheInitialized, warmupVars>>
    BY <1>0, <1>6, <2>1 DEF ListThreads
  <2>. QED
    BY <2>2 DEF warmupVars
<1>7. ASSUME RuntimeConnects
      PROVE  RecoveryInv'
  <2>1. op'[Warmup].pc = "lists"
    BY <1>0, <1>7, ListsIs DEF RuntimeConnects
  <2>. QED
    BY <1>7, <2>1 DEF RuntimeConnects
<1>8. ASSUME WarmupTimer
      PROVE  RecoveryInv'
  <2>1. connected => op'[Warmup].pc = "lists"
    BY <1>0, <1>8, ListsIs DEF WarmupTimer
  <2>2. /\ warmupTimer' = FALSE /\ UNCHANGED <<connected, serverUp, summaryCacheInitialized>>
        /\ warmupAttempt' = warmupAttempt \/ warmupAttempt' = warmupAttempt + 1
    BY <1>8 DEF WarmupTimer, cacheVars
  <2>3. warmupAttempt' \in Nat
    BY <2>2
  <2>4. connected' = connected /\ (connected => op'[Warmup].pc = "lists")
    BY <2>1, <2>2
  <2>5. FlagTypes'
    BY <2>2, <2>3
  <2>6. (connected => op[Warmup].pc = "lists")' /\ ~warmupTimer'
    BY <2>2, <2>4
  <2>7. WarmupGoesOn'
    BY <2>6
  <2>. QED
    BY <2>5, <2>7
<1>9. ASSUME RuntimeExits
      PROVE  RecoveryInv'
  BY <1>9 DEF RuntimeExits, cacheVars, warmupVars
<1>10. ASSUME \/ SaveWorkspaces
              \/ \E t \in Threads :
                   \/ StatusChanged(t) \/ ArchiveChanged(t) \/ ThreadClosed(t)
                   \/ DiffUpdated(t) \/ TurnUpdated(t)
       PROVE  RecoveryInv'
  <2>1. UNCHANGED <<connected, serverUp, summaryCacheInitialized, warmupVars, op>>
    BY <1>10 DEF SaveWorkspaces, StatusChanged, ArchiveChanged, ThreadClosed, DiffUpdated,
                 TurnUpdated
  <2>. QED
    BY <2>1 DEF warmupVars
<1>. QED
  BY <1>1, <1>2, <1>3, <1>4, <1>5, <1>6, <1>7, <1>8, <1>9, <1>10 DEF Next

-----------------------------------------------------------------------------
(* The types of summaries. *)

LEMMA CodexTypesStep ==
  ASSUME OpsAre, CodexTypes, Next
  PROVE  CodexTypes'
<1>. USE DEF CodexTypes
<1>1. ASSUME NEW o \in Ops, CodexAnswers(o)
      PROVE  CodexTypes'
  BY <1>1 DEF CodexAnswers, OpsAre, OpIs, Hydrating, Listing
<1>2. ASSUME NEW t \in Threads,
             \/ ThreadStarted(t) \/ StatusChanged(t) \/ ArchiveChanged(t) \/ ThreadClosed(t)
             \/ DiffUpdated(t) \/ TurnUpdated(t)
      PROVE  CodexTypes'
  BY <1>2 DEF ThreadStarted, StatusChanged, ArchiveChanged, ThreadClosed, DiffUpdated, TurnUpdated,
              codexVars
<1>3. ASSUME RuntimeExits
      PROVE  CodexTypes'
  BY <1>3 DEF RuntimeExits
<1>4. ASSUME \/ RuntimeConnects \/ WarmupTimer \/ SaveWorkspaces
             \/ \E o \in Ops : \/ RefreshEnds(o) \/ AnswerGoesOn(o) \/ UnsubscribeGoesOn(o)
                               \/ CodexRefuses(o)
                               \/ \E which \in {"active", "archived"} : CodexLists(o, which)
             \/ \E o \in Calls :
                  \/ \E t \in Threads :
                       \/ ReadThread(o, t) \/ OpenThread(o, t)
                       \/ UnarchiveThread(o, t) \/ UnsubscribeThread(o, t)
                  \/ \E kind \in {"list", "bootstrap"} : ListThreads(o, kind)
      PROVE  CodexTypes'
  <2>1. UNCHANGED codexVars
    BY <1>4 DEF RuntimeConnects, WarmupTimer, SaveWorkspaces, RefreshEnds, AnswerGoesOn,
         UnsubscribeGoesOn, CodexRefuses, CodexLists, ReadThread, OpenThread, UnarchiveThread,
         UnsubscribeThread, ListThreads
  <2>. QED
    BY <2>1 DEF codexVars
<1>. QED
  BY <1>1, <1>2, <1>3, <1>4 DEF Next

-----------------------------------------------------------------------------
(* What a job does to summaries and catalogue. *)

\* The summary of t says that it runs (r) and is archived (a).
Says(s, t, r, a) == t \in DOMAIN s /\ s[t].running = r /\ s[t].archived = a

LEMMA SetSummaryIs ==
  ASSUME NEW s, SummariesAre(s), NEW t \in Threads, NEW r, NEW a, NEW e,
         NEW w, w = SetSummary(s, t, Summary(t, r, a, e))
  PROVE  /\ SummariesAre(w) /\ Says(w, t, r, a)
         /\ \A u \in DOMAIN s : u # t => Says(w, u, s[u].running, s[u].archived)
<1>. DEFINE x == Summary(t, r, a, e)
<1>1. /\ {"running", "archived", "workspaceId"} \subseteq DOMAIN x
      /\ x.running = r /\ x.archived = a
  BY DEF Summary
<1>. HIDE DEF x
<1>2. DOMAIN w = DOMAIN s \cup {t} /\ \A u \in DOMAIN w : w[u] = IF u = t THEN x ELSE s[u]
  BY DEF SetSummary, x
<1>3. SummariesAre(w)
  BY <1>1, <1>2 DEF SummariesAre
<1>4. Says(w, t, r, a)
  BY <1>1, <1>2 DEF Says
<1>5. \A u \in DOMAIN s : u # t => Says(w, u, s[u].running, s[u].archived)
  BY <1>2 DEF Says
<1>. QED
  BY <1>3, <1>4, <1>5

LEMMA ReprojectIs ==
  ASSUME NEW s, SummariesAre(s), NEW entries
  PROVE  LET w == reproject(s, entries)
         IN  /\ SummariesAre(w) /\ DOMAIN w = DOMAIN s
             /\ \A t \in DOMAIN s : w[t].running = s[t].running /\ w[t].archived = s[t].archived
<1>. DEFINE w == reproject(s, entries)
<1>1. DOMAIN w = DOMAIN s
  BY DEF reproject
<1>2. ASSUME NEW t \in DOMAIN s
      PROVE  /\ {"running", "archived", "workspaceId"} \subseteq DOMAIN w[t]
             /\ w[t].running = s[t].running /\ w[t].archived = s[t].archived
  <2>1. {"running", "archived", "workspaceId"} \subseteq DOMAIN s[t]
    BY DEF SummariesAre
  <2>2. w[t] = [s[t] EXCEPT !.workspaceId = matchWorkspaceForPath(entries, Cwd[t])]
    BY DEF reproject
  <2>. HIDE DEF w
  <2>. QED
    BY <2>1, <2>2
<1>. HIDE DEF w
<1>3. SummariesAre(w)
  BY <1>1, <1>2 DEF SummariesAre
<1>. QED
  BY <1>1, <1>2, <1>3 DEF w

\* The catalogue after a job is null or made of the directories the summaries have.
Follows(s, catalog) ==
  \/ cachedWorkspaceCatalog' = null
  \/ /\ DOMAIN threadSummaries' = DOMAIN s
     /\ \/ cachedWorkspaceCatalog' = catalog
        \/ cachedWorkspaceCatalog' = buildWorkspaceCatalog(CwdsOf(s))

LEMMA ListAnswerDoes ==
  ASSUME NEW s, SummariesAre(s), NEW catalog, ListAnswer(s, catalog)
  PROVE  /\ SummariesAre(threadSummaries') /\ Follows(s, catalog)
         /\ \A t \in DOMAIN s : Says(threadSummaries', t, s[t].running, s[t].archived)
<1>1. PICK e : /\ threadSummaries' = reproject(s, e) /\ cachedWorkspaceCatalog' = e
               /\ e = catalog \/ e = buildWorkspaceCatalog(CwdsOf(s))
  BY DEF ListAnswer
<1>. QED
  BY <1>1, ReprojectIs DEF Follows, Says

LEMMA ContinueDoes ==
  ASSUME NEW o \in Ops, OpIs(o, op[o]), op[o].kind # "unsubscribe",
         NEW s, SummariesAre(s), NEW catalog, Continue(o, s, catalog)
  PROVE  /\ SummariesAre(threadSummaries') /\ Follows(s, catalog)
         /\ \A t \in DOMAIN s :
              op[o].kind \notin Hydrating \/ t # op[o].thread =>
                Says(threadSummaries', t, s[t].running, s[t].archived)
         /\ op[o].kind \in Hydrating =>
              Says(threadSummaries', op[o].thread, op[o].running, op[o].archived)
<1>1. CASE op[o].kind \in {"read", "open", "unarchive"}
  <2>1. op[o].thread \in Threads
    BY <1>1 DEF OpIs, Hydrating
  <2>2. PICK e : /\ threadSummaries' = SetSummary(s, op[o].thread,
                        Summary(op[o].thread, op[o].running, op[o].archived, e))
                 /\ cachedWorkspaceCatalog' = null
    BY <1>1 DEF Continue, Hydrate
  <2>3. /\ SummariesAre(threadSummaries')
        /\ Says(threadSummaries', op[o].thread, op[o].running, op[o].archived)
        /\ \A u \in DOMAIN s : u # op[o].thread =>
             Says(threadSummaries', u, s[u].running, s[u].archived)
    BY <2>1, <2>2, SetSummaryIs
  <2>. QED
    BY <1>1, <2>2, <2>3 DEF Follows, Hydrating
<1>2. CASE op[o].kind = "updated"
  <2>1. op[o].thread \in Threads /\ op[o].archived = FALSE
    BY <1>2 DEF OpIs, Hydrating
  <2>2. PICK e : /\ threadSummaries' = SetSummary(s, op[o].thread,
                        Summary(op[o].thread, op[o].running, FALSE, e))
                 /\ cachedWorkspaceCatalog' = null
    BY <1>2 DEF Continue, StoreUpdated
  <2>3. /\ SummariesAre(threadSummaries')
        /\ Says(threadSummaries', op[o].thread, op[o].running, FALSE)
        /\ \A u \in DOMAIN s : u # op[o].thread =>
             Says(threadSummaries', u, s[u].running, s[u].archived)
    BY <2>1, <2>2, SetSummaryIs
  <2>. QED
    BY <1>2, <2>1, <2>2, <2>3 DEF Follows, Hydrating
<1>3. CASE op[o].kind = "list"
  BY <1>3, ListAnswerDoes DEF Continue, Hydrating
<1>4. CASE op[o].kind \in {"warmup", "bootstrap"}
  <2>1. threadSummaries' = s /\ cachedWorkspaceCatalog' = catalog
    BY <1>4 DEF Continue
  <2>. QED
    BY <1>4, <2>1 DEF Follows, Says, Hydrating
<1>. QED
  BY <1>1, <1>2, <1>3, <1>4 DEF OpIs, Hydrating, Listing

\* The lists that have come, as summaries.
LEMMA RefreshedIs ==
  ASSUME NEW o \in Ops, OpIs(o, op[o]), NEW entries
  PROVE  LET s == Refreshed(o, entries)
             cwds == {Cwd[t] : t \in DOMAIN op[o].act \cup DOMAIN op[o].arc}
         IN  /\ SummariesAre(s) /\ CwdsOf(s) = cwds
             /\ \A t \in DOMAIN op[o].arc : Says(s, t, op[o].arc[t], TRUE)
             /\ \A t \in DOMAIN op[o].act \ DOMAIN op[o].arc : Says(s, t, op[o].act[t], FALSE)
<1>. DEFINE s == Refreshed(o, entries)
            D == DOMAIN op[o].act \cup DOMAIN op[o].arc
<1>1. /\ DOMAIN s = D
      /\ \A t \in D : s[t] = IF t \in DOMAIN op[o].arc
                             THEN Summary(t, op[o].arc[t], TRUE, entries)
                             ELSE Summary(t, op[o].act[t], FALSE, entries)
  BY DEF Refreshed
<1>. HIDE DEF s
<1>2. SummariesAre(s)
  BY <1>1 DEF SummariesAre, Summary, OpIs
<1>3. CwdsOf(s) = {Cwd[t] : t \in D}
  BY <1>1 DEF CwdsOf
<1>4. /\ \A t \in DOMAIN op[o].arc : Says(s, t, op[o].arc[t], TRUE)
      /\ \A t \in DOMAIN op[o].act \ DOMAIN op[o].arc : Says(s, t, op[o].act[t], FALSE)
  <2>1. ASSUME NEW t \in DOMAIN op[o].arc
        PROVE  Says(s, t, op[o].arc[t], TRUE)
    <3>1. t \in DOMAIN s /\ s[t] = Summary(t, op[o].arc[t], TRUE, entries)
      BY <1>1
    <3>2. s[t].running = op[o].arc[t] /\ s[t].archived = TRUE
      BY <3>1 DEF Summary
    <3>. QED
      BY <3>1, <3>2 DEF Says
  <2>2. ASSUME NEW t \in DOMAIN op[o].act \ DOMAIN op[o].arc
        PROVE  Says(s, t, op[o].act[t], FALSE)
    <3>1. t \in DOMAIN s /\ s[t] = Summary(t, op[o].act[t], FALSE, entries)
      BY <1>1
    <3>2. s[t].running = op[o].act[t] /\ s[t].archived = FALSE
      BY <3>1 DEF Summary
    <3>. QED
      BY <3>1, <3>2 DEF Says
  <2>. QED
    BY <2>1, <2>2
<1>. QED
  BY <1>2, <1>3, <1>4 DEF s

-----------------------------------------------------------------------------
(* The catalogue. *)

Fresh(catalog, cwds) ==
  catalog # null =>
    /\ catalog \subseteq buildWorkspaceCatalog(cwds)
    /\ Home \notin SavedPaths => catalog = buildWorkspaceCatalog(cwds)

LEMMA FreshIs == CatalogIsFresh <=> Fresh(cachedWorkspaceCatalog, CwdsOf(threadSummaries))
BY DEF CatalogIsFresh, Fresh

LEMMA SameTables ==
  ASSUME UNCHANGED tables, NEW cwds
  PROVE  /\ buildWorkspaceCatalog(cwds)' = buildWorkspaceCatalog(cwds)
         /\ SavedPaths' = SavedPaths
BY DEF tables, buildWorkspaceCatalog, Derives, Saved, SavedPaths, matchWorkspaceForPath

\* While the tables stay, a catalogue made of the directories of the summaries is fresh.
LEMMA FreshStays ==
  ASSUME UNCHANGED tables, NEW s, NEW catalog, Fresh(catalog, CwdsOf(s)), Follows(s, catalog)
  PROVE  CatalogIsFresh'
<1>1. CASE cachedWorkspaceCatalog' = null
  BY <1>1 DEF CatalogIsFresh
<1>2. CASE /\ DOMAIN threadSummaries' = DOMAIN s
           /\ \/ cachedWorkspaceCatalog' = catalog
              \/ cachedWorkspaceCatalog' = buildWorkspaceCatalog(CwdsOf(s))
  <2>1. CwdsOf(threadSummaries') = CwdsOf(s)
    BY <1>2 DEF CwdsOf
  <2>2. PICK cwds : cwds = CwdsOf(s)
    OBVIOUS
  <2>3. Fresh(cachedWorkspaceCatalog', cwds)
    BY <1>2, <2>2 DEF Fresh
  <2>4. /\ buildWorkspaceCatalog(cwds)' = buildWorkspaceCatalog(cwds)
        /\ SavedPaths' = SavedPaths
    BY SameTables
  <2>5. Fresh(cachedWorkspaceCatalog, cwds)'
    BY <2>3, <2>4 DEF Fresh
  <2>. QED
    BY <2>1, <2>2, <2>5 DEF Fresh, CatalogIsFresh
<1>. QED
  BY <1>1, <1>2 DEF Follows

\* The longest path above a directory exists: paths above it are no longer.
LEMMA MatchIs ==
  ASSUME NEW entries, NEW cwd \in Paths, NEW e \in entries, isBoundaryPrefix(e.absPath, cwd),
         \A f \in entries : f.absPath \in Paths
  PROVE  \E f \in entries : matchWorkspaceForPath(entries, cwd) = f.id
<1>. DEFINE above == {f \in entries : isBoundaryPrefix(f.absPath, cwd)}
            lengths == {Len(f.absPath) + 1 : f \in above}
<1>1. \A p \in Paths : Len(p) \in Nat
  BY PathsAssumption
<1>2. \A f \in above : Len(f.absPath) \in Nat /\ Len(f.absPath) <= Len(cwd)
  BY <1>1 DEF isBoundaryPrefix, IsPrefix
<1>3. lengths \in SUBSET (1..(Len(cwd) + 1)) /\ lengths # {} /\ Len(cwd) + 1 \in Nat
  BY <1>1, <1>2
<1>4. PICK n \in lengths : \A m \in lengths : m <= n
  BY <1>3, GreatestIs
<1>5. PICK g \in above : Len(g.absPath) + 1 = n
  OBVIOUS
<1>6. \A f \in above : Len(f.absPath) <= Len(g.absPath)
  <2>1. \A f \in above : Len(f.absPath) + 1 <= Len(g.absPath) + 1
    BY <1>4, <1>5
  <2>. QED
    BY <1>2, <2>1
<1>7. (CHOOSE x \in above : \A f \in above : Len(f.absPath) <= Len(x.absPath)) \in above
  BY <1>5, <1>6
<1>8. above # {}
  OBVIOUS
<1>9. matchWorkspaceForPath(entries, cwd) =
        (CHOOSE x \in above : \A f \in above : Len(f.absPath) <= Len(x.absPath)).id
  BY <1>8 DEF matchWorkspaceForPath
<1>. QED
  BY <1>7, <1>9

\* A path that is saved already is un-ignored and nothing else: what the catalogue
\* shows, it still shows; and it shows no more, unless home is saved.
LEMMA FreshUnignored ==
  ASSUME TablesTypeOK, CatalogIsFresh, SummariesAre(threadSummaries), NEW p \in SavedPaths,
         unignorePath(p), UNCHANGED <<workspaces, threadSummaries, cachedWorkspaceCatalog>>
  PROVE  CatalogIsFresh'
<1>1. ignored_workspaces' \subseteq ignored_workspaces
      /\ \A q \in ignored_workspaces \ ignored_workspaces' : q = p
  BY DEF unignorePath
<1>2. Saved' = Saved /\ SavedPaths' = SavedPaths
  BY DEF Saved, SavedPaths
<1>3. \A c : matchWorkspaceForPath(Saved', c) = matchWorkspaceForPath(Saved, c)
  BY <1>2
<1>4. \A c : Derives(c) => Derives(c)'
  BY <1>1, <1>2, <1>3 DEF Derives
<1>5. CwdsOf(threadSummaries') = CwdsOf(threadSummaries)
  OBVIOUS
<1>6. buildWorkspaceCatalog(CwdsOf(threadSummaries)) \subseteq
        buildWorkspaceCatalog(CwdsOf(threadSummaries))'
  BY <1>2, <1>4 DEF buildWorkspaceCatalog, CwdsOf
<1>7. ASSUME Home \notin SavedPaths, NEW c \in CwdsOf(threadSummaries), Derives(c)'
      PROVE  Derives(c)
  <2>1. c \in Paths
    BY CacheAssumption DEF CwdsOf, SummariesAre
  <2>2. PICK i \in DOMAIN workspaces : workspaces[i] = p
    BY DEF SavedPaths, Range
  <2>3. Entry(i, p) \in Saved /\ Entry(i, p).absPath = p
    BY <2>2 DEF Saved, Entry
  <2>4. ASSUME isBoundaryPrefix(p, c)
        PROVE  FALSE
    <3>1. /\ DOMAIN workspaces \subseteq Ids
          /\ \A j \in DOMAIN workspaces : workspaces[j] \in Paths
      BY DEF TablesTypeOK
    <3>2. \A f \in Saved : f.absPath \in Paths /\ f.id \in DOMAIN workspaces
      BY <3>1 DEF Saved, Entry
    <3>3. PICK f \in Saved : matchWorkspaceForPath(Saved, c) = f.id
      BY <2>1, <2>3, <2>4, <3>2, MatchIs
    <3>4. workspaces[f.id] = Home /\ f.id \in DOMAIN workspaces
      BY <1>2, <1>7, <3>1, <3>2, <3>3, PathsAssumption DEF Derives
    <3>. QED
      BY <1>7, <3>4 DEF SavedPaths, Range
  <2>5. \A q \in ignored_workspaces : ~isBoundaryPrefix(q, c)
    BY <1>1, <1>7, <2>4 DEF Derives
  <2>. QED
    BY <1>2, <1>3, <1>7, <2>5 DEF Derives
<1>8. Home \notin SavedPaths => buildWorkspaceCatalog(CwdsOf(threadSummaries))' =
                                  buildWorkspaceCatalog(CwdsOf(threadSummaries))
  BY <1>2, <1>4, <1>5, <1>7 DEF buildWorkspaceCatalog, CwdsOf
<1>. QED
  BY <1>2, <1>6, <1>8 DEF CatalogIsFresh

-----------------------------------------------------------------------------
(* Every step keeps the summaries and the catalogue. *)

LEMMA TablesStep ==
  ASSUME TablesTypeOK,
         \/ UNCHANGED tables
         \/ \E i \in Ids, p \in Paths : CreateRow(i, p) \/ UpdateRow(i, p)
         \/ \E i \in Ids : DeleteRow(i)
         \/ \E p \in Paths : ignorePath(p) /\ UNCHANGED workspaces
  PROVE  TablesTypeOK'
<1>1. /\ workspaces = [i \in DOMAIN workspaces |-> workspaces[i]]
      /\ DOMAIN workspaces \subseteq Ids
      /\ \A i \in DOMAIN workspaces : workspaces[i] \in Paths
      /\ ignored_workspaces \subseteq Paths
  BY DEF TablesTypeOK
<1>2. ASSUME NEW D \in SUBSET Ids, workspaces' \in [D -> Paths],
             ignored_workspaces' \subseteq Paths
      PROVE  TablesTypeOK'
  BY <1>2 DEF TablesTypeOK
<1>3. CASE UNCHANGED tables
  BY <1>3 DEF tables, TablesTypeOK
<1>4. ASSUME NEW i \in Ids, NEW p \in Paths, CreateRow(i, p)
      PROVE  TablesTypeOK'
  <2>1. ignored_workspaces' \subseteq Paths
    BY <1>1, <1>4 DEF CreateRow, unignorePath
  <2>2. \/ workspaces' \in [DOMAIN workspaces -> Paths]
        \/ workspaces' \in [DOMAIN workspaces \cup {i} -> Paths]
    BY <1>1, <1>4 DEF CreateRow
  <2>3. DOMAIN workspaces \in SUBSET Ids /\ DOMAIN workspaces \cup {i} \in SUBSET Ids
    BY <1>1
  <2>. QED
    BY <1>2, <2>1, <2>2, <2>3
<1>5. ASSUME NEW i \in Ids, NEW p \in Paths, UpdateRow(i, p)
      PROVE  TablesTypeOK'
  <2>1. ignored_workspaces' \subseteq Paths
    BY <1>1, <1>5 DEF UpdateRow, unignorePath
  <2>2. workspaces' \in [DOMAIN workspaces -> Paths]
    BY <1>1, <1>5 DEF UpdateRow
  <2>. QED
    BY <1>1, <1>2, <2>1, <2>2
<1>6. ASSUME NEW i \in Ids, DeleteRow(i)
      PROVE  TablesTypeOK'
  <2>1. ignored_workspaces' \subseteq Paths
    BY <1>1, <1>6 DEF DeleteRow, ignorePath
  <2>2. workspaces' \in [DOMAIN workspaces \ {i} -> Paths]
    BY <1>1, <1>6 DEF DeleteRow, Restrict
  <2>3. DOMAIN workspaces \ {i} \in SUBSET Ids
    BY <1>1
  <2>. QED
    BY <1>2, <2>1, <2>2, <2>3
<1>7. ASSUME NEW p \in Paths, ignorePath(p), UNCHANGED workspaces
      PROVE  TablesTypeOK'
  BY <1>7 DEF ignorePath, TablesTypeOK
<1>. QED
  BY <1>3, <1>4, <1>5, <1>6, <1>7

\* Notifications that patch a summary keep the threads there are.
LEMMA PatchIs ==
  ASSUME SummariesAre(threadSummaries), NEW t \in Threads, NEW x,
         {"running", "archived", "workspaceId"} \subseteq DOMAIN x, Patch(t, x)
  PROVE  /\ SummariesAre(threadSummaries')
         /\ DOMAIN threadSummaries' = DOMAIN threadSummaries
         /\ \A u \in DOMAIN threadSummaries :
              threadSummaries'[u] = IF u = t THEN x ELSE threadSummaries[u]
<1>1. CASE t \in DOMAIN threadSummaries
  <2>1. threadSummaries' = [u \in DOMAIN threadSummaries \cup {t} |->
                              IF u = t THEN x ELSE threadSummaries[u]]
    BY <1>1 DEF Patch, SetSummary
  <2>. QED
    BY <1>1, <2>1 DEF SummariesAre
<1>2. CASE t \notin DOMAIN threadSummaries
  <2>1. threadSummaries' = threadSummaries
    BY <1>2 DEF Patch
  <2>. QED
    BY <1>2, <2>1
<1>. QED
  BY <1>1, <1>2

LEMMA ClosedIs ==
  ASSUME SummariesAre(threadSummaries), NEW t, applyThreadClosed(t)
  PROVE  /\ SummariesAre(threadSummaries')
         /\ DOMAIN threadSummaries' = DOMAIN threadSummaries
         /\ \A u \in DOMAIN threadSummaries :
              Says(threadSummaries', u, IF u = t THEN FALSE ELSE threadSummaries[u].running,
                   threadSummaries[u].archived)
<1>1. CASE t \in DOMAIN threadSummaries
  <2>. DEFINE x == [threadSummaries[t] EXCEPT !.running = FALSE]
  <2>1. /\ {"running", "archived", "workspaceId"} \subseteq DOMAIN threadSummaries[t]
        /\ \A u \in DOMAIN threadSummaries :
             {"running", "archived", "workspaceId"} \subseteq DOMAIN threadSummaries[u]
        /\ DOMAIN threadSummaries \subseteq Threads
    BY <1>1 DEF SummariesAre
  <2>2. /\ {"running", "archived", "workspaceId"} \subseteq DOMAIN x
        /\ x.running = FALSE /\ x.archived = threadSummaries[t].archived
    BY <2>1
  <2>3. threadSummaries' = [threadSummaries EXCEPT ![t] = x]
    BY <1>1 DEF applyThreadClosed
  <2>. HIDE DEF x
  <2>4. /\ DOMAIN threadSummaries' = DOMAIN threadSummaries
        /\ \A u \in DOMAIN threadSummaries :
             threadSummaries'[u] = IF u = t THEN x ELSE threadSummaries[u]
    BY <1>1, <2>3
  <2>. QED
    BY <2>1, <2>2, <2>4 DEF SummariesAre, Says
<1>2. CASE t \notin DOMAIN threadSummaries
  <2>1. threadSummaries' = threadSummaries
    BY <1>2 DEF applyThreadClosed
  <2>. QED
    BY <1>2, <2>1 DEF Says
<1>. QED
  BY <1>1, <1>2

CacheInv ==
  /\ TablesTypeOK /\ CodexTypes /\ OpsAre
  /\ SummariesAre(threadSummaries)
  /\ RecoveryInv
  /\ CatalogIsFresh

\* The summaries have other threads only where the catalogue is remade.
Keeps == SummariesAre(threadSummaries') /\ CatalogIsFresh'

LEMMA RefreshKeeps ==
  ASSUME CacheInv, NEW o \in Ops, RefreshEnds(o)
  PROVE  Keeps
<1>. DEFINE cwds == {Cwd[t] : t \in DOMAIN op[o].act \cup DOMAIN op[o].arc}
            entries == buildWorkspaceCatalog(cwds)
            s == Refreshed(o, entries)
<1>1. OpIs(o, op[o]) /\ op[o].kind # "unsubscribe"
  BY DEF CacheInv, OpsAre, OpIs, RefreshEnds
<1>2. Continue(o, s, entries) /\ UNCHANGED tables
  BY DEF RefreshEnds
<1>3. SummariesAre(s) /\ CwdsOf(s) = cwds
  BY <1>1, RefreshedIs
<1>4. Fresh(entries, CwdsOf(s))
  BY <1>3 DEF Fresh
<1>. HIDE DEF s, entries
<1>5. SummariesAre(threadSummaries') /\ Follows(s, entries)
  BY <1>1, <1>2, <1>3, ContinueDoes
<1>. QED
  BY <1>2, <1>4, <1>5, FreshStays DEF Keeps

LEMMA AnswerKeeps ==
  ASSUME CacheInv, NEW o \in Ops, AnswerGoesOn(o)
  PROVE  Keeps
<1>1. OpIs(o, op[o]) /\ op[o].kind # "unsubscribe" /\ UNCHANGED tables
  BY DEF CacheInv, OpsAre, AnswerGoesOn
<1>2. SummariesAre(threadSummaries) /\ Fresh(cachedWorkspaceCatalog, CwdsOf(threadSummaries))
  BY FreshIs DEF CacheInv
<1>3. CASE Continue(o, threadSummaries, cachedWorkspaceCatalog)
  BY <1>1, <1>2, <1>3, ContinueDoes, FreshStays DEF Keeps
<1>4. CASE UNCHANGED <<threadSummaries, cachedWorkspaceCatalog>>
  BY <1>1, <1>2, <1>4, FreshStays DEF Keeps, Follows
<1>. QED
  BY <1>3, <1>4 DEF AnswerGoesOn

LEMMA SaveKeeps ==
  ASSUME CacheInv, SaveWorkspaces
  PROVE  Keeps
<1>1. SummariesAre(threadSummaries') /\ UNCHANGED threadSummaries
  BY DEF CacheInv, SaveWorkspaces
<1>2. CASE cachedWorkspaceCatalog' = null
  BY <1>1, <1>2 DEF Keeps, CatalogIsFresh
<1>3. CASE cachedWorkspaceCatalog' # null
  <2>1. PICK i \in Ids, p \in Paths :
          /\ CreateRow(i, p) \/ UpdateRow(i, p)
          /\ cachedWorkspaceCatalog' = IF Taken(p, i) THEN cachedWorkspaceCatalog ELSE null
    BY <1>3 DEF SaveWorkspaces
  <2>2. Taken(p, i) /\ cachedWorkspaceCatalog' = cachedWorkspaceCatalog
    BY <1>3, <2>1
  <2>3. UNCHANGED workspaces /\ unignorePath(p) /\ p \in SavedPaths
    BY <2>1, <2>2 DEF CreateRow, UpdateRow, Taken, SavedPaths, Range
  <2>. QED
    BY <1>1, <2>2, <2>3, FreshUnignored DEF CacheInv, Keeps
<1>. QED
  BY <1>2, <1>3

\* The threads of the summaries stay, and so does the catalogue or it is null.
LEMMA SameKeeps ==
  ASSUME CacheInv, UNCHANGED tables, SummariesAre(threadSummaries'),
         DOMAIN threadSummaries' = DOMAIN threadSummaries,
         cachedWorkspaceCatalog' = cachedWorkspaceCatalog \/ cachedWorkspaceCatalog' = null
  PROVE  Keeps
<1>1. Follows(threadSummaries, cachedWorkspaceCatalog)
  BY DEF Follows
<1>2. Fresh(cachedWorkspaceCatalog, CwdsOf(threadSummaries))
  BY FreshIs DEF CacheInv
<1>. QED
  BY <1>1, <1>2, FreshStays DEF Keeps

LEMMA NextKeeps ==
  ASSUME CacheInv, Next
  PROVE  Keeps
<1>0. SummariesAre(threadSummaries)
  BY DEF CacheInv
<1>1. ASSUME NEW o \in Calls, NEW kind \in {"list", "bootstrap"}, ListThreads(o, kind)
      PROVE  Keeps
  <2>1. UNCHANGED tables
    BY <1>1 DEF ListThreads
  <2>2. CASE ListAnswer(threadSummaries, cachedWorkspaceCatalog)
    <3>1. Fresh(cachedWorkspaceCatalog, CwdsOf(threadSummaries))
      BY FreshIs DEF CacheInv
    <3>. QED
      BY <1>0, <2>1, <2>2, <3>1, ListAnswerDoes, FreshStays DEF Keeps
  <2>3. CASE UNCHANGED <<threadSummaries, cachedWorkspaceCatalog>>
    BY <1>0, <2>1, <2>3, SameKeeps
  <2>. QED
    BY <1>1, <2>2, <2>3 DEF ListThreads
<1>2. ASSUME NEW t \in Threads, StatusChanged(t) \/ ArchiveChanged(t)
      PROVE  Keeps
  <2>1. /\ UNCHANGED <<tables, cachedWorkspaceCatalog>>
        /\ \/ Patch(t, [threadSummaries[t] EXCEPT !.running = running'[t]])
           \/ Patch(t, [threadSummaries[t] EXCEPT !.archived = archived'[t]])
    BY <1>2 DEF StatusChanged, ArchiveChanged
  <2>2. CASE t \in DOMAIN threadSummaries
    <3>1. {"running", "archived", "workspaceId"} \subseteq DOMAIN threadSummaries[t]
      BY <1>0, <2>2 DEF SummariesAre
    <3>2. \A v : /\ {"running", "archived", "workspaceId"} \subseteq
                      DOMAIN [threadSummaries[t] EXCEPT !.running = v]
                 /\ {"running", "archived", "workspaceId"} \subseteq
                      DOMAIN [threadSummaries[t] EXCEPT !.archived = v]
      BY <3>1
    <3>3. PICK x : /\ {"running", "archived", "workspaceId"} \subseteq DOMAIN x
                   /\ Patch(t, x)
      BY <2>1, <3>2
    <3>4. SummariesAre(threadSummaries') /\ DOMAIN threadSummaries' = DOMAIN threadSummaries
      BY <1>0, <3>3, PatchIs
    <3>. QED
      BY <2>1, <3>4, SameKeeps
  <2>3. CASE t \notin DOMAIN threadSummaries
    <3>1. threadSummaries' = threadSummaries
      BY <2>1, <2>3 DEF Patch
    <3>. QED
      BY <1>0, <2>1, <3>1, SameKeeps
  <2>. QED
    BY <2>2, <2>3
<1>3. ASSUME \/ \E o \in Ops : UnsubscribeGoesOn(o)
             \/ \E t \in Threads : ThreadClosed(t)
      PROVE  Keeps
  <2>1. UNCHANGED <<tables, cachedWorkspaceCatalog>> /\ \E t : applyThreadClosed(t)
    BY <1>3 DEF UnsubscribeGoesOn, ThreadClosed
  <2>2. SummariesAre(threadSummaries') /\ DOMAIN threadSummaries' = DOMAIN threadSummaries
    BY <1>0, <2>1, ClosedIs
  <2>. QED
    BY <2>1, <2>2, SameKeeps
<1>4. ASSUME \/ RuntimeConnects \/ WarmupTimer \/ RuntimeExits
             \/ \E o \in Ops : \/ CodexAnswers(o) \/ CodexRefuses(o)
                               \/ \E which \in {"active", "archived"} : CodexLists(o, which)
             \/ \E o \in Calls : \E t \in Threads :
                  \/ ReadThread(o, t) \/ OpenThread(o, t)
                  \/ UnarchiveThread(o, t) \/ UnsubscribeThread(o, t)
             \/ \E t \in Threads : ThreadStarted(t) \/ DiffUpdated(t) \/ TurnUpdated(t)
      PROVE  Keeps
  <2>1. /\ UNCHANGED <<tables, threadSummaries>>
        /\ cachedWorkspaceCatalog' = cachedWorkspaceCatalog \/ cachedWorkspaceCatalog' = null
    BY <1>4 DEF RuntimeConnects, WarmupTimer, RuntimeExits, CodexAnswers, CodexRefuses, CodexLists,
         ReadThread, OpenThread, UnarchiveThread, UnsubscribeThread, ThreadStarted, DiffUpdated,
         TurnUpdated, cacheVars
  <2>. QED
    BY <1>0, <2>1, SameKeeps
<1>. QED
  BY <1>1, <1>2, <1>3, <1>4, RefreshKeeps, AnswerKeeps, SaveKeeps DEF Next

LEMMA NextTables ==
  ASSUME TablesTypeOK, Next
  PROVE  TablesTypeOK'
<1>1. SaveWorkspaces =>
        \/ \E i \in Ids, p \in Paths : CreateRow(i, p) \/ UpdateRow(i, p)
        \/ \E i \in Ids : DeleteRow(i)
        \/ \E p \in Paths : ignorePath(p) /\ UNCHANGED workspaces
  BY DEF SaveWorkspaces
<1>2. ~SaveWorkspaces => UNCHANGED tables
  BY DEF Next, RefreshEnds, AnswerGoesOn, UnsubscribeGoesOn, CodexAnswers, CodexRefuses,
         CodexLists, ReadThread, OpenThread, UnarchiveThread, UnsubscribeThread, ListThreads,
         RuntimeConnects, WarmupTimer, RuntimeExits, ThreadStarted, StatusChanged,
         ArchiveChanged, ThreadClosed, DiffUpdated, TurnUpdated
<1>. QED
  BY <1>1, <1>2, TablesStep

LEMMA SpecCache == Spec => []CacheInv
<1>1. Init => CacheInv
  <2>. SUFFICES ASSUME Init
                PROVE  CacheInv
    OBVIOUS
  <2>1. TablesTypeOK
    <3>1. <<>> \in [{} -> Paths] /\ {} \in SUBSET Ids
      OBVIOUS
    <3>. QED
      BY <3>1 DEF Init, TablesInit, TablesTypeOK
  <2>2. CodexTypes
    BY CacheAssumption DEF Init, CodexTypes
  <2>3. SummariesAre(threadSummaries) /\ CatalogIsFresh
    BY DEF Init, SummariesAre, CatalogIsFresh
  <2>. QED
    BY <2>1, <2>2, <2>3, InitOps, InitRecovery DEF CacheInv
<1>2. ASSUME CacheInv, [Next]_vars
      PROVE  CacheInv'
  <2>1. CASE Next
    BY <1>2, <2>1, NextTables, CodexTypesStep, OpsStep, RecoveryStep, NextKeeps
       DEF CacheInv, Keeps
  <2>2. CASE UNCHANGED vars
    <3>1. TablesTypeOK'
      BY <1>2, <2>2 DEF CacheInv, TablesTypeOK, vars, tables
    <3>2. CodexTypes' /\ OpsAre' /\ SummariesAre(threadSummaries')
      BY <1>2, <2>2 DEF CacheInv, CodexTypes, OpsAre, vars, codexVars, cacheVars
    <3>3. RecoveryInv'
      BY <1>2, <2>2 DEF CacheInv, RecoveryInv, FlagTypes, WarmupGoesOn, vars, cacheVars, warmupVars
    <3>4. CatalogIsFresh'
      BY <1>2, <2>2, SameKeeps DEF CacheInv, Keeps, vars, cacheVars
    <3>. QED
      BY <3>1, <3>2, <3>3, <3>4 DEF CacheInv
  <2>. QED
    BY <1>2, <2>1, <2>2
<1>. QED
  BY <1>1, <1>2, PTL DEF Spec

-----------------------------------------------------------------------------
(* Summaries that say what codex says. *)

Spoils(t) ==
  Current(t) /\ ~Current(t)' =>
    \/ ~connected'
    \/ \E o \in Ops : Due(o) /\ op'[o] # op[o] /\ BringsStale(o, t)

LEMMA CurrentIs ==
  ASSUME NEW t
  PROVE  Current(t) <=> Says(threadSummaries, t, running[t], archived[t])
BY DEF Current, Says

\* A list that is no older than the summary says the same of t.
LEMMA ListSays ==
  ASSUME CacheInv, NEW o \in Ops, op[o].pc = "lists", NEW t \in Threads, ~BringsStale(o, t),
         NEW entries
  PROVE  Says(Refreshed(o, entries), t, running[t], archived[t])
<1>1. OpIs(o, op[o]) /\ archived[t] \in BOOLEAN
  BY DEF CacheInv, OpsAre, CodexTypes
<1>2. CASE archived[t]
  <2>1. t \in DOMAIN op[o].arc /\ op[o].arc[t] = running[t]
    BY <1>2 DEF BringsStale
  <2>2. Says(Refreshed(o, entries), t, op[o].arc[t], TRUE)
    BY <1>1, <2>1, RefreshedIs
  <2>3. archived[t] = TRUE
    BY <1>1, <1>2
  <2>. QED
    BY <2>1, <2>2, <2>3
<1>3. CASE ~archived[t]
  <2>1. t \in DOMAIN op[o].act \ DOMAIN op[o].arc /\ op[o].act[t] = running[t]
    BY <1>3 DEF BringsStale
  <2>2. Says(Refreshed(o, entries), t, op[o].act[t], FALSE)
    BY <1>1, <2>1, RefreshedIs
  <2>3. archived[t] = FALSE
    BY <1>1, <1>3
  <2>. QED
    BY <2>1, <2>2, <2>3
<1>. QED
  BY <1>2, <1>3

LEMMA RefreshSpoils ==
  ASSUME CacheInv, NEW o \in Ops, RefreshEnds(o), NEW t \in Threads
  PROVE  Spoils(t)
<1>. DEFINE entries == buildWorkspaceCatalog({Cwd[u] : u \in DOMAIN op[o].act \cup DOMAIN op[o].arc})
            s == Refreshed(o, entries)
<1>1. OpIs(o, op[o]) /\ op[o].kind # "unsubscribe" /\ op[o].pc = "lists"
  BY DEF CacheInv, OpsAre, OpIs, RefreshEnds
<1>2. Continue(o, s, entries) /\ UNCHANGED <<running, archived>>
  BY DEF RefreshEnds, codexVars
<1>3. SummariesAre(s)
  BY <1>1, RefreshedIs
<1>4. Due(o) /\ op'[o] # op[o]
  <2>1. op' = [op EXCEPT ![o] = Successor(o)] /\ Due(o)
    BY DEF RefreshEnds, Due
  <2>2. op'[o] = Successor(o)
    BY <2>1 DEF CacheInv, OpsAre
  <2>3. Successor(o).pc # "lists"
    BY IdleIs DEF Successor, Fields
  <2>. QED
    BY <1>1, <2>1, <2>2, <2>3
<1>5. ASSUME ~BringsStale(o, t)
      PROVE  Current(t)'
  <2>1. Says(s, t, running[t], archived[t])
    BY <1>1, <1>5, ListSays
  <2>2. op[o].kind \notin Hydrating \/ t # op[o].thread
    BY <1>1, <1>5 DEF BringsStale, Hydrating
  <2>. HIDE DEF s, entries
  <2>3. Says(threadSummaries', t, s[t].running, s[t].archived)
    BY <1>1, <1>2, <1>3, <2>1, <2>2, ContinueDoes DEF Says
  <2>4. Says(threadSummaries', t, running'[t], archived'[t])
    BY <1>2, <2>1, <2>3 DEF Says
  <2>. QED
    BY <2>4 DEF Current, Says
<1>. QED
  BY <1>4, <1>5 DEF Spoils

LEMMA AnswerSpoils ==
  ASSUME CacheInv, NEW o \in Ops, AnswerGoesOn(o), NEW t \in Threads
  PROVE  Spoils(t)
<1>1. /\ OpIs(o, op[o]) /\ op[o].kind # "unsubscribe" /\ op[o].pc = "answered"
      /\ UNCHANGED <<running, archived>> /\ SummariesAre(threadSummaries)
  BY DEF CacheInv, OpsAre, AnswerGoesOn, codexVars
<1>2. CASE Continue(o, threadSummaries, cachedWorkspaceCatalog) /\ Ends(o)
  <2>1. Due(o) /\ op'[o] # op[o]
    <3>1. op'[o] = Idle
      BY <1>2 DEF CacheInv, OpsAre, Ends
    <3>. QED
      BY <1>1, <3>1, IdleIs DEF Due
  <2>2. ASSUME Current(t), ~BringsStale(o, t)
        PROVE  Current(t)'
    <3>1. CASE op[o].kind \notin Hydrating \/ t # op[o].thread
      <4>1. Says(threadSummaries', t, threadSummaries[t].running, threadSummaries[t].archived)
        BY <1>1, <1>2, <2>2, <3>1, ContinueDoes DEF Current
      <4>. QED
        BY <1>1, <2>2, <4>1 DEF Current, Says
    <3>2. CASE op[o].kind \in Hydrating /\ t = op[o].thread
      <4>1. Says(threadSummaries', t, op[o].running, op[o].archived)
        BY <1>1, <1>2, <3>2, ContinueDoes
      <4>2. op[o].running = running[t] /\ op[o].archived = archived[t]
        BY <1>1, <2>2, <3>2 DEF BringsStale
      <4>. QED
        BY <1>1, <4>1, <4>2 DEF Current, Says
    <3>. QED
      BY <3>1, <3>2
  <2>. QED
    BY <2>1, <2>2 DEF Spoils
<1>3. CASE UNCHANGED threadSummaries
  BY <1>1, <1>3 DEF Spoils, Current
<1>. QED
  BY <1>2, <1>3 DEF AnswerGoesOn

LEMMA UnsubscribeSpoils ==
  ASSUME CacheInv, NEW o \in Ops, UnsubscribeGoesOn(o), NEW t \in Threads
  PROVE  Spoils(t)
<1>1. /\ op[o].pc = "answered" /\ op[o].kind = "unsubscribe" /\ UNCHANGED <<running, archived>>
      /\ applyThreadClosed(op[o].thread) /\ SummariesAre(threadSummaries)
  BY DEF CacheInv, UnsubscribeGoesOn, codexVars
<1>2. Due(o) /\ op'[o] # op[o]
  <2>1. op'[o] = Idle
    BY DEF CacheInv, OpsAre, Ends, UnsubscribeGoesOn
  <2>. QED
    BY <1>1, <2>1, IdleIs DEF Due
<1>3. CASE t = op[o].thread
  BY <1>1, <1>2, <1>3 DEF Spoils, BringsStale
<1>4. ASSUME t # op[o].thread, Current(t)
      PROVE  Current(t)'
  <2>1. t \in DOMAIN threadSummaries
    BY <1>4 DEF Current
  <2>2. Says(threadSummaries', t, threadSummaries[t].running, threadSummaries[t].archived)
    BY <1>1, <1>4, <2>1, ClosedIs
  <2>. QED
    BY <1>1, <1>4, <2>2 DEF Current, Says
<1>. QED
  BY <1>3, <1>4 DEF Spoils

\* A notification says of its thread what codex does, and of no other thread.
LEMMA NotificationKeepsCurrent ==
  ASSUME CacheInv, NEW u \in Threads, StatusChanged(u) \/ ArchiveChanged(u) \/ ThreadClosed(u),
         NEW t \in Threads, Current(t)
  PROVE  Current(t)'
<1>1. /\ SummariesAre(threadSummaries)
      /\ running \in [Threads -> BOOLEAN] /\ archived \in [Threads -> BOOLEAN]
      /\ t \in DOMAIN threadSummaries
      /\ threadSummaries[t].running = running[t] /\ threadSummaries[t].archived = archived[t]
      /\ {"running", "archived", "workspaceId"} \subseteq DOMAIN threadSummaries[t]
  BY DEF CacheInv, CodexTypes, Current, SummariesAre
<1>2. CASE t # u
  <2>1. running'[t] = running[t] /\ archived'[t] = archived[t]
    BY <1>1, <1>2 DEF StatusChanged, ArchiveChanged, ThreadClosed
  <2>2. CASE u \in DOMAIN threadSummaries
    <3>1. threadSummaries'[t] = threadSummaries[t] /\ t \in DOMAIN threadSummaries'
      BY <1>1, <1>2, <2>2
         DEF StatusChanged, ArchiveChanged, ThreadClosed, Patch, SetSummary, applyThreadClosed
    <3>. QED
      BY <1>1, <2>1, <3>1 DEF Current
  <2>3. CASE u \notin DOMAIN threadSummaries
    <3>1. threadSummaries' = threadSummaries
      BY <2>3 DEF StatusChanged, ArchiveChanged, ThreadClosed, Patch, applyThreadClosed
    <3>. QED
      BY <1>1, <2>1, <3>1 DEF Current
  <2>. QED
    BY <2>2, <2>3
<1>3. CASE t = u
  <2>1. CASE StatusChanged(t)
    <3>1. /\ threadSummaries'[t] = [threadSummaries[t] EXCEPT !.running = running'[t]]
          /\ t \in DOMAIN threadSummaries' /\ archived' = archived
      BY <1>1, <2>1 DEF StatusChanged, Patch, SetSummary
    <3>. QED
      BY <1>1, <3>1 DEF Current
  <2>2. CASE ArchiveChanged(t)
    <3>1. /\ threadSummaries'[t] = [threadSummaries[t] EXCEPT !.archived = archived'[t]]
          /\ t \in DOMAIN threadSummaries' /\ running' = running
      BY <1>1, <2>2 DEF ArchiveChanged, Patch, SetSummary
    <3>. QED
      BY <1>1, <3>1 DEF Current
  <2>3. CASE ThreadClosed(t)
    <3>1. /\ threadSummaries'[t] = [threadSummaries[t] EXCEPT !.running = FALSE]
          /\ t \in DOMAIN threadSummaries' /\ running'[t] = FALSE /\ archived' = archived
      BY <1>1, <2>3 DEF ThreadClosed, applyThreadClosed
    <3>. QED
      BY <1>1, <3>1 DEF Current
  <2>. QED
    BY <1>3, <2>1, <2>2, <2>3
<1>. QED
  BY <1>2, <1>3

LEMMA NextSpoils ==
  ASSUME CacheInv, Next, NEW t \in Threads
  PROVE  Spoils(t)
<1>1. ASSUME NEW o \in Calls, NEW kind \in {"list", "bootstrap"}, ListThreads(o, kind), Current(t)
      PROVE  Current(t)'
  <2>1. UNCHANGED <<running, archived>>
    BY <1>1 DEF ListThreads, codexVars
  <2>2. CASE ListAnswer(threadSummaries, cachedWorkspaceCatalog)
    <3>1. Says(threadSummaries', t, threadSummaries[t].running, threadSummaries[t].archived)
      BY <1>1, <2>2, ListAnswerDoes DEF CacheInv, Current
    <3>. QED
      BY <1>1, <2>1, <3>1 DEF Current, Says
  <2>3. CASE UNCHANGED threadSummaries
    BY <1>1, <2>1, <2>3 DEF Current
  <2>. QED
    BY <1>1, <2>2, <2>3 DEF ListThreads
<1>2. ASSUME RuntimeExits
      PROVE  ~connected'
  BY <1>2 DEF RuntimeExits
<1>3. ASSUME \/ RuntimeConnects \/ WarmupTimer \/ SaveWorkspaces
             \/ \E o \in Ops : \/ CodexAnswers(o) \/ CodexRefuses(o)
                               \/ \E which \in {"active", "archived"} : CodexLists(o, which)
             \/ \E o \in Calls : \E u \in Threads :
                  \/ ReadThread(o, u) \/ OpenThread(o, u)
                  \/ UnarchiveThread(o, u) \/ UnsubscribeThread(o, u)
             \/ \E u \in Threads : ThreadStarted(u) \/ DiffUpdated(u) \/ TurnUpdated(u),
             Current(t)
      PROVE  Current(t)'
  <2>1. UNCHANGED <<threadSummaries, running, archived>>
    BY <1>3 DEF RuntimeConnects, WarmupTimer, SaveWorkspaces, CodexAnswers, CodexRefuses, CodexLists,
         ReadThread, OpenThread, UnarchiveThread, UnsubscribeThread, ThreadStarted, DiffUpdated,
         TurnUpdated, cacheVars, codexVars
  <2>. QED
    BY <1>3, <2>1 DEF Current
<1>4. CASE \E o \in Ops : RefreshEnds(o) \/ AnswerGoesOn(o) \/ UnsubscribeGoesOn(o)
  BY <1>4, RefreshSpoils, AnswerSpoils, UnsubscribeSpoils
<1>5. CASE \E u \in Threads : StatusChanged(u) \/ ArchiveChanged(u) \/ ThreadClosed(u)
  BY <1>5, NotificationKeepsCurrent DEF Spoils
<1>. QED
  BY <1>1, <1>2, <1>3, <1>4, <1>5 DEF Next, Spoils

-----------------------------------------------------------------------------

\* The cache of summaries is never given up: while codex is connected it has been
\* read, or it is being read, or a retry is due; and retries are bounded
\* (WorkbenchService.runThreadSummaryWarmup).
THEOREM RecoveryIsAlwaysDue == Spec => []RecoveryIsDue
<1>1. CacheInv => RecoveryIsDue
  <2>. SUFFICES ASSUME CacheInv
                PROVE  RecoveryIsDue
    OBVIOUS
  <2>1. op[Warmup].pc = "lists" => op[Warmup] # Idle
    BY IdleIs
  <2>. QED
    BY <2>1 DEF CacheInv, RecoveryInv, WarmupGoesOn, RecoveryIsDue
<1>. QED
  BY SpecCache, <1>1, PTL

\* The workspace catalogue the server has cached is the one its tables and summaries
\* make now (WorkbenchService.invalidateWorkspaceCatalog).
THEOREM CatalogIsAlwaysFresh == Spec => []CatalogIsFresh
BY SpecCache, PTL DEF CacheInv

\* So the cache is filled or about to be, and never holds a catalogue of the past.
THEOREM CacheIsAlwaysDue == Spec => []CacheIsDue
<1>1. CatalogIsFresh /\ RecoveryIsDue => CacheIsDue
  BY DEF CacheIsDue
<1>. QED
  BY CatalogIsAlwaysFresh, RecoveryIsAlwaysDue, <1>1, PTL

\* A summary that says what codex says goes on to do so, unless codex exits or an
\* answer comes to its end that codex has overtaken.
THEOREM OnlyOvertakenAnswersEverSpoil == Spec => OnlyOvertakenAnswersSpoil
<1>1. CacheInv /\ [Next]_vars =>
        [\A t \in Threads :
           Current(t) /\ ~Current(t)'
             => \/ ~connected'
                \/ \E o \in Ops : Due(o) /\ op'[o] # op[o] /\ BringsStale(o, t)]_vars
  BY NextSpoils DEF Spoils
<1>. QED
  BY SpecCache, <1>1, PTL DEF Spec, OnlyOvertakenAnswersSpoil

-----------------------------------------------------------------------------
(* The views that are kept.  An index of a set of numbers is found again by    *)
(* how many are not above it.                                                  *)

Rank(K, i) == Cardinality({j \in K : j <= i})

LEMMA RankIs ==
  ASSUME NEW n \in Nat, NEW K \in SUBSET (1..n)
  PROVE  /\ IsFiniteSet(K) /\ Cardinality(K) \in Nat
         /\ \A i \in K : Rank(K, i) \in 1..Cardinality(K)
         /\ \A i, j \in K : Rank(K, i) = Rank(K, j) => i = j
         /\ \A m \in 1..Cardinality(K) : \E i \in K : Rank(K, i) = m
<1>1. IsFiniteSet(K) /\ Cardinality(K) \in Nat
  <2>1. 1 \in Int /\ n \in Int
    OBVIOUS
  <2>2. IsFiniteSet(1..n)
    BY <2>1, FS_Interval
  <2>3. IsFiniteSet(K)
    BY <2>2, FS_Subset
  <2>. QED
    BY <2>3, FS_CardinalityType
<1>2. \A i \in K : /\ {j \in K : j <= i} \in SUBSET K /\ IsFiniteSet({j \in K : j <= i})
                   /\ Rank(K, i) \in 1..Cardinality(K)
  <2>. TAKE i \in K
  <2>. DEFINE B == {j \in K : j <= i}
  <2>1. B \in SUBSET K /\ i \in B
    OBVIOUS
  <2>. HIDE DEF B
  <2>2. IsFiniteSet(B) /\ Cardinality(B) <= Cardinality(K) /\ Cardinality(B) \in Nat
    BY <1>1, <2>1, FS_Subset, FS_CardinalityType
  <2>3. Cardinality(B) # 0
    BY <2>1, <2>2, FS_EmptySet
  <2>. QED
    BY <1>1, <2>1, <2>2, <2>3 DEF B, Rank
<1>3. \A i, j \in K : i < j => Rank(K, i) < Rank(K, j)
  <2>. SUFFICES ASSUME NEW i \in K, NEW j \in K, i < j
                PROVE  Rank(K, i) < Rank(K, j)
    OBVIOUS
  <2>. DEFINE A == {x \in K : x <= i}
              B == {x \in K : x <= j}
  <2>1. A \in SUBSET B /\ j \in B /\ j \notin A
    <3>1. \A x \in K : x \in Int
      OBVIOUS
    <3>2. i \in Int /\ j \in Int /\ ~(j <= i)
      BY <3>1
    <3>3. \A x \in Int : x <= i => x <= j
      BY <3>2
    <3>4. \A x : x \in A => x \in B
      BY <3>1, <3>3
    <3>5. j \in B /\ j \notin A
      BY <3>2
    <3>. HIDE DEF A, B
    <3>. QED
      BY <3>4, <3>5
  <2>2. IsFiniteSet(B)
    BY <1>2
  <2>. HIDE DEF A, B
  <2>3. Cardinality(A) <= Cardinality(B) /\ Cardinality(A) # Cardinality(B)
    BY <2>1, <2>2, FS_Subset
  <2>4. Cardinality(A) \in Nat /\ Cardinality(B) \in Nat
    BY <2>1, <2>2, FS_Subset, FS_CardinalityType
  <2>5. Cardinality(A) < Cardinality(B)
    BY <2>3, <2>4
  <2>. QED
    BY <2>5 DEF A, B, Rank
<1>4. \A i, j \in K : Rank(K, i) = Rank(K, j) => i = j
  <2>. SUFFICES ASSUME NEW i \in K, NEW j \in K, Rank(K, i) = Rank(K, j), i # j
                PROVE  FALSE
    OBVIOUS
  <2>1. i < j \/ j < i
    OBVIOUS
  <2>2. Rank(K, i) \in Nat /\ Rank(K, j) \in Nat
    <3>1. Rank(K, i) \in 1..Cardinality(K) /\ Rank(K, j) \in 1..Cardinality(K)
      BY <1>2
    <3>. QED
      BY <3>1
  <2>3. Rank(K, i) < Rank(K, j) \/ Rank(K, j) < Rank(K, i)
    BY <1>3, <2>1
  <2>. QED
    BY <2>2, <2>3
<1>5. \A m \in 1..Cardinality(K) : \E i \in K : Rank(K, i) = m
  <2>. SUFFICES ASSUME NEW m \in 1..Cardinality(K), \A i \in K : Rank(K, i) # m
                PROVE  FALSE
    OBVIOUS
  <2>. DEFINE T == (1..Cardinality(K)) \ {m}
              f == [i \in K |-> Rank(K, i)]
  <2>1. IsFiniteSet(1..Cardinality(K)) /\ Cardinality(1..Cardinality(K)) = Cardinality(K)
    <3>1. 1 \in Int /\ Cardinality(K) \in Int
      BY <1>1
    <3>. QED
      BY <1>1, <3>1, FS_Interval
  <2>2. IsFiniteSet(T) /\ Cardinality(T) = Cardinality(K) - 1
    BY <2>1, FS_RemoveElement
  <2>3. f \in [K -> T]
    BY <1>2
  <2>4. \A i \in K : f[i] = Rank(K, i)
    OBVIOUS
  <2>. HIDE DEF T, f
  <2>5. Cardinality(T) < Cardinality(K)
    BY <1>1, <2>2
  <2>6. \E x, y \in K : x # y /\ f[x] = f[y]
    BY <1>1, <2>2, <2>3, <2>5, FS_PigeonHole
  <2>. QED
    BY <1>4, <2>4, <2>6
<1>. QED
  BY <1>1, <1>2, <1>4, <1>5

\* Views of threads, with diffs of D.
ViewsOf(D) == [thread : Threads, diff : D]

LEMMA PruneIs ==
  ASSUME NEW S, NEW v \in Seq(S), NEW s
  PROVE  /\ Prune(v, s) \in Seq(S)
         /\ \A t \in Pinned(s) : HasView(v, t) => HasView(Prune(v, s), t)
<1>. DEFINE excess == Len(v) - MaxRetained
            loose(i) == v[i].thread \notin Pinned(s)
            keep == {i \in DOMAIN v : loose(i) => Cardinality({j \in 1..i : loose(j)}) > excess}
            out == [n \in 1..Cardinality(keep) |-> v[CHOOSE i \in keep : Rank(keep, i) = n]]
<1>1. CASE Len(v) <= MaxRetained
  BY <1>1 DEF Prune
<1>2. CASE ~(Len(v) <= MaxRetained)
  <2>1. Prune(v, s) = out
    BY <1>2 DEF Prune, Rank
  <2>2. Len(v) \in Nat /\ DOMAIN v = 1..Len(v) /\ \A i \in DOMAIN v : v[i] \in S
    OBVIOUS
  <2>3. keep \in SUBSET (1..Len(v))
    BY <2>2
  <2>4. \A i \in DOMAIN v : v[i].thread \in Pinned(s) => i \in keep
    OBVIOUS
  <2>. HIDE DEF keep
  <2>5. /\ Cardinality(keep) \in Nat
        /\ \A i \in keep : Rank(keep, i) \in 1..Cardinality(keep)
        /\ \A i, j \in keep : Rank(keep, i) = Rank(keep, j) => i = j
        /\ \A m \in 1..Cardinality(keep) : \E i \in keep : Rank(keep, i) = m
    BY <2>2, <2>3, RankIs
  <2>6. \A n \in 1..Cardinality(keep) : out[n] \in S
    <3>. TAKE n \in 1..Cardinality(keep)
    <3>1. (CHOOSE i \in keep : Rank(keep, i) = n) \in keep
      BY <2>5
    <3>. QED
      BY <2>2, <2>3, <3>1
  <2>7. out \in Seq(S) /\ DOMAIN out = 1..Cardinality(keep)
    <3>1. out \in [1..Cardinality(keep) -> S]
      BY <2>6
    <3>. HIDE DEF out
    <3>. QED
      BY <2>5, <3>1, SeqDef
  <2>8. \A i \in keep : \E n \in DOMAIN out : out[n] = v[i]
    <3>. TAKE i \in keep
    <3>1. (CHOOSE j \in keep : Rank(keep, j) = Rank(keep, i)) = i
      BY <2>5
    <3>2. Rank(keep, i) \in 1..Cardinality(keep)
      BY <2>5
    <3>3. out[Rank(keep, i)] = v[CHOOSE j \in keep : Rank(keep, j) = Rank(keep, i)]
      BY <3>2
    <3>. QED
      BY <2>7, <3>1, <3>2, <3>3
  <2>. HIDE DEF out
  <2>9. \A t \in Pinned(s) : HasView(v, t) => HasView(out, t)
    BY <2>4, <2>8 DEF HasView
  <2>. QED
    BY <2>1, <2>7, <2>9
<1>3. Len(v) \in Nat
  OBVIOUS
<1>. QED
  BY <1>1, <1>2

\* A view is moved to the end; the views of other threads stay unless they are pruned.
LEMMA SetViewIs ==
  ASSUME NEW D, NEW v \in Seq(ViewsOf(D)), NEW t \in Threads, NEW d \in D, NEW s
  PROVE  /\ SetView(v, t, d, s) \in Seq(ViewsOf(D))
         /\ \A u \in Pinned(s) : HasView(v, u) => HasView(SetView(v, t, d, s), u)
<1>. DEFINE own == {i \in DOMAIN v : v[i].thread = t}
            k == CHOOSE i \in own : TRUE
            rest == IF own = {} THEN v ELSE RemoveAt(v, k)
            new == [thread |-> t, diff |-> d]
            longer == Append(rest, new)
<1>1. new \in ViewsOf(D) /\ new.thread = t
  BY DEF ViewsOf
<1>2. rest \in Seq(ViewsOf(D)) /\ \A u : u # t /\ HasView(v, u) => HasView(rest, u)
  <2>1. CASE own = {}
    BY <2>1
  <2>2. CASE own # {}
    <3>1. k \in DOMAIN v /\ v[k].thread = t
      BY <2>2
    <3>2. rest = RemoveAt(v, k)
      BY <2>2
    <3>. HIDE DEF k, rest, own
    <3>3. /\ rest \in Seq(ViewsOf(D)) /\ Len(v) \in Nat \ {0} /\ DOMAIN v = 1..Len(v)
          /\ DOMAIN rest = 1..(Len(v) - 1)
          /\ \A j \in 1..(Len(v) - 1) : rest[j] = v[IF j < k THEN j ELSE j + 1]
      BY <3>1, <3>2, RemoveAtIs
    <3>4. ASSUME NEW i \in DOMAIN v, i # k
          PROVE  \E j \in DOMAIN rest : rest[j] = v[i]
      <4>1. k \in 1..Len(v) /\ i \in 1..Len(v)
        BY <3>1, <3>3
      <4>2. CASE i < k
        BY <3>3, <4>1, <4>2
      <4>3. CASE i > k
        <5>1. i - 1 \in 1..(Len(v) - 1) /\ ~(i - 1 < k) /\ (i - 1) + 1 = i
          BY <3>3, <4>1, <4>3
        <5>. QED
          BY <3>3, <5>1
      <4>. QED
        BY <3>4, <4>1, <4>2, <4>3
    <3>. QED
      BY <3>1, <3>3, <3>4 DEF HasView
  <2>. QED
    BY <2>1, <2>2
<1>. HIDE DEF rest, new
<1>3. /\ longer \in Seq(ViewsOf(D)) /\ Len(rest) \in Nat /\ DOMAIN rest = 1..Len(rest)
      /\ DOMAIN longer = 1..(Len(rest) + 1) /\ longer[Len(rest) + 1] = new
      /\ \A i \in DOMAIN rest : i \in DOMAIN longer /\ longer[i] = rest[i]
  BY <1>1, <1>2, AppendIs
<1>4. \A u : HasView(v, u) => HasView(longer, u)
  <2>. SUFFICES ASSUME NEW u, HasView(v, u) PROVE HasView(longer, u)
    OBVIOUS
  <2>1. CASE u = t
    BY <1>1, <1>3, <2>1 DEF HasView
  <2>2. CASE u # t
    BY <1>2, <1>3, <2>2 DEF HasView
  <2>. QED
    BY <2>1, <2>2
<1>5. SetView(v, t, d, s) = Prune(longer, s)
  BY DEF SetView, rest, new
<1>. HIDE DEF longer
<1>. QED
  BY <1>3, <1>4, <1>5, PruneIs

\* Steps that are taken one after the other.
Walk(f, L, X, x0, step) ==
  /\ f \in [0..L -> X] /\ f[0] = x0 /\ \A n \in 1..L : f[n] = step[<<f[n - 1], n>>]

LEMMA Iteration ==
  ASSUME NEW L \in Nat, NEW X, NEW x0 \in X, NEW step, \A x \in X, n \in 1..L : step[<<x, n>>] \in X
  PROVE  \E f : Walk(f, L, X, x0, step)
<1>. DEFINE Up(m, f) == f \in [0..m -> X] /\ f[0] = x0 /\ \A n \in 1..m : f[n] = step[<<f[n - 1], n>>]
            Bad == {m \in 0..L : ~\E f : Up(m, f)}
<1>1. CASE Bad = {}
  <2>. HIDE DEF Up
  <2>1. \E f : Up(L, f)
    BY <1>1
  <2>. QED
    BY <2>1 DEF Walk, Up
<1>2. CASE Bad # {}
  <2>1. PICK m \in Bad : \A k \in Bad : m <= k
    <3>1. Bad \in SUBSET Nat
      OBVIOUS
    <3>. HIDE DEF Bad
    <3>. QED
      BY <1>2, <3>1, LeastIs
  <2>2. CASE m = 0
    <3>. DEFINE f == [n \in 0..0 |-> x0]
    <3>1. f \in [0..0 -> X] /\ f[0] = x0
      OBVIOUS
    <3>. HIDE DEF f
    <3>2. Up(0, f)
      BY <3>1
    <3>. QED
      BY <2>1, <2>2, <3>2
  <2>3. CASE m # 0
    <3>1. m \in 1..L /\ m - 1 \in 0..L /\ ~(m <= m - 1)
      BY <2>1, <2>3
    <3>2. PICK f : Up(m - 1, f)
      BY <2>1, <3>1
    <3>. DEFINE g == [n \in 0..m |-> IF n = m THEN step[<<f[m - 1], m>>] ELSE f[n]]
    <3>3. f \in [0..(m - 1) -> X] /\ f[0] = x0 /\ \A n \in 1..(m - 1) : f[n] = step[<<f[n - 1], n>>]
      BY <3>2
    <3>4. f[m - 1] \in X /\ step[<<f[m - 1], m>>] \in X
      BY <3>1, <3>3
    <3>5. \A n \in 0..m : n # m => n \in 0..(m - 1)
      BY <3>1
    <3>6. /\ g \in [0..m -> X] /\ g[m] = step[<<f[m - 1], m>>]
          /\ \A n \in 0..m : n # m => g[n] = f[n]
      BY <3>1, <3>3, <3>4, <3>5
    <3>. HIDE DEF g
    <3>7. g[0] = x0
      BY <3>1, <3>3, <3>6
    <3>8. \A n \in 1..m : g[n] = step[<<g[n - 1], n>>]
      <4>. TAKE n \in 1..m
      <4>1. n - 1 \in 0..m /\ n - 1 # m /\ g[n - 1] = f[n - 1] /\ n \in 0..m
        BY <3>1, <3>6
      <4>2. CASE n = m
        BY <3>6, <4>1, <4>2
      <4>3. CASE n # m
        <5>1. n \in 1..(m - 1)
          BY <3>1, <4>3
        <5>. QED
          BY <3>3, <3>6, <4>1, <4>3, <5>1
      <4>. QED
        BY <4>2, <4>3
    <3>9. Up(m, g)
      BY <3>6, <3>7, <3>8
    <3>. QED
      BY <2>1, <3>9
  <2>. QED
    BY <2>2, <2>3
<1>. QED
  BY <1>1, <1>2

\* The views of the threads that move are set one after the other.
LEMMA ListAnswerViews ==
  ASSUME NEW s, SummariesAre(s), NEW catalog, ListAnswer(s, catalog),
         NEW D, 0 \in D, threadViews \in Seq(ViewsOf(D))
  PROVE  /\ threadViews' \in Seq(ViewsOf(D))
         /\ \A u \in Pinned(s) : HasView(threadViews, u) => HasView(threadViews', u)
<1>. DEFINE X == Seq(ViewsOf(D))
<1>. DEFINE e == IF catalog = null THEN buildWorkspaceCatalog(CwdsOf(s)) ELSE catalog
<1>. DEFINE s2 == reproject(s, e)
            moved == {t \in DOMAIN s : s2[t] # s[t]}
            move(v, t) == IF HasView(v, t) THEN SetView(v, t, DiffOf(v, t), s2) ELSE v
<1>2. Pinned(s) = Pinned(s2)
  BY ReprojectIs DEF Pinned
<1>3. \A v \in X, t \in Threads : DiffOf(v, t) \in D
  <2>. SUFFICES ASSUME NEW v \in X, NEW t \in Threads, HasView(v, t)
                PROVE  (CHOOSE x \in ToSet(v) : x.thread = t).diff \in D
    BY DEF DiffOf
  <2>1. \E x \in ToSet(v) : x.thread = t
    BY DEF HasView, ToSet
  <2>2. \A x \in ToSet(v) : x \in ViewsOf(D)
    BY DEF ToSet
  <2>. QED
    BY <2>1, <2>2 DEF ViewsOf
<1>. HIDE DEF e, s2
<1>4. \A v \in X, t \in Threads :
        /\ move(v, t) \in X
        /\ \A u \in Pinned(s2) : HasView(v, u) => HasView(move(v, t), u)
  BY <1>3, SetViewIs
<1>5. PICK order \in SetToSeqs(moved) :
        LET after[n \in 0..Len(order)] ==
              IF n = 0 THEN threadViews ELSE move(after[n - 1], order[n])
        IN threadViews' = after[Len(order)]
  BY DEF ListAnswer, s2, e
<1>6. moved \subseteq Threads
  BY DEF SummariesAre
<1>. HIDE DEF move, moved
<1>7. Len(order) \in Nat /\ \A n \in 1..Len(order) : order[n] \in Threads
  <2>1. IsFiniteSet(moved) /\ Cardinality(moved) \in Nat
    BY CacheAssumption, <1>6, FS_Subset, FS_CardinalityType
  <2>2. order \in [1..Cardinality(moved) -> moved]
    BY DEF SetToSeqs
  <2>3. order \in Seq(moved) /\ Len(order) = Cardinality(moved)
    BY <2>1, <2>2, SeqDef
  <2>. QED
    BY <1>6, <2>1, <2>2, <2>3
<1>. DEFINE L == Len(order)
            Rule(f) == f = [n \in 0..L |-> IF n = 0 THEN threadViews ELSE move(f[n - 1], order[n])]
            step == [p \in X \X (1..L) |-> move(p[1], order[p[2]])]
<1>8. step \in [X \X (1..L) -> X]
  BY <1>4, <1>7
<1>9. \E f : Rule(f)
  <2>. HIDE DEF step
  <2>1. PICK f \in [0..L -> X] : f[0] = threadViews /\ \A n \in 1..L : f[n] = step[<<f[n - 1], n>>]
    <3>1. threadViews \in X /\ L \in Nat
      BY <1>7
    <3>2. \A x \in X, n \in 1..L : step[<<x, n>>] \in X
      BY <1>8
    <3>. HIDE DEF X, L
    <3>3. PICK f : Walk(f, L, X, threadViews, step)
      BY <3>1, <3>2, Iteration
    <3>. QED
      BY <3>3 DEF Walk
  <2>2. \A n \in 1..L : f[n] = move(f[n - 1], order[n])
    <3>. TAKE n \in 1..L
    <3>1. n - 1 \in 0..L
      BY <1>7
    <3>2. f[n - 1] \in X
      BY <3>1
    <3>3. step[<<f[n - 1], n>>] = move(f[n - 1], order[n])
      BY <3>2 DEF step
    <3>. QED
      BY <2>1, <3>3
  <2>3. \A n \in 0..L : f[n] = IF n = 0 THEN threadViews ELSE move(f[n - 1], order[n])
    BY <1>7, <2>1, <2>2
  <2>. QED
    BY <2>3
<1>10. PICK f : Rule(f) /\ threadViews' = f[L]
  <2>1. threadViews' = (CHOOSE f : Rule(f))[L]
    BY <1>5
  <2>2. Rule(CHOOSE f : Rule(f))
    BY <1>9
  <2>. QED
    BY <2>1, <2>2
<1>11. f[0] = threadViews /\ \A n \in 1..L : f[n] = move(f[n - 1], order[n])
  BY <1>7, <1>10
<1>. DEFINE Fine(n) == /\ f[n] \in X
                       /\ \A u \in Pinned(s2) : HasView(threadViews, u) => HasView(f[n], u)
            Bad == {n \in 0..L : ~Fine(n)}
<1>12. Bad = {}
  <2>. SUFFICES ASSUME Bad # {} PROVE FALSE
    OBVIOUS
  <2>1. PICK n \in Bad : \A k \in Bad : n <= k
    <3>1. Bad \in SUBSET Nat
      BY <1>7
    <3>. HIDE DEF Bad
    <3>. QED
      BY <3>1, LeastIs
  <2>2. n # 0
    BY <1>11, <2>1
  <2>3. n \in 1..L /\ n - 1 \in 0..L /\ ~(n <= n - 1)
    BY <1>7, <2>1, <2>2
  <2>4. Fine(n - 1)
    BY <2>1, <2>3
  <2>5. f[n] = move(f[n - 1], order[n]) /\ order[n] \in Threads
    BY <1>7, <1>11, <2>3
  <2>. QED
    BY <1>4, <2>1, <2>4, <2>5
<1>13. Fine(L)
  <2>1. L \in 0..L
    BY <1>7
  <2>. HIDE DEF Fine
  <2>. QED
    BY <1>12, <2>1
<1>. QED
  BY <1>2, <1>10, <1>13

ViewsAre == \E D : 0 \in D /\ threadViews \in Seq(ViewsOf(D))

\* The step keeps the views of what s pins.
KeptBy(s) ==
  /\ ViewsAre'
  /\ \A u \in Pinned(s) : HasView(threadViews, u) => HasView(threadViews', u)

LEMMA SameKeepsViews ==
  ASSUME ViewsAre, UNCHANGED threadViews, NEW s
  PROVE  KeptBy(s)
<1>1. ViewsAre'
  BY DEF ViewsAre
<1>. QED
  BY <1>1 DEF KeptBy

LEMMA SetViewKeeps ==
  ASSUME ViewsAre, NEW t \in Threads, NEW d, NEW s, threadViews' = SetView(threadViews, t, d, s)
  PROVE  KeptBy(s)
<1>1. PICK D : 0 \in D /\ threadViews \in Seq(ViewsOf(D))
  BY DEF ViewsAre
<1>. DEFINE C == D \cup {d}
<1>2. ViewsOf(D) \subseteq ViewsOf(C)
  BY DEF ViewsOf
<1>3. 0 \in C /\ d \in C /\ threadViews \in Seq(ViewsOf(C))
  BY <1>1, <1>2, SeqMonotonic
<1>. HIDE DEF C
<1>4. /\ threadViews' \in Seq(ViewsOf(C))
      /\ \A u \in Pinned(s) : HasView(threadViews, u) => HasView(threadViews', u)
  BY <1>3, SetViewIs
<1>5. ViewsAre'
  BY <1>3, <1>4 DEF ViewsAre
<1>. QED
  BY <1>4, <1>5 DEF KeptBy

LEMMA TouchKeeps ==
  ASSUME ViewsAre, NEW t \in Threads, NEW s, threadViews' = TouchView(t, s)
  PROVE  KeptBy(s)
<1>1. CASE threadViews' = SetView(threadViews, t, DiffOf(threadViews, t), s)
  BY <1>1, SetViewKeeps
<1>2. CASE UNCHANGED threadViews
  BY <1>2, SameKeepsViews
<1>. QED
  BY <1>1, <1>2 DEF TouchView

LEMMA ListKeeps ==
  ASSUME ViewsAre, NEW s, SummariesAre(s), NEW catalog, ListAnswer(s, catalog)
  PROVE  KeptBy(s)
<1>1. PICK D : 0 \in D /\ threadViews \in Seq(ViewsOf(D))
  BY DEF ViewsAre
<1>2. /\ threadViews' \in Seq(ViewsOf(D))
      /\ \A u \in Pinned(s) : HasView(threadViews, u) => HasView(threadViews', u)
  BY <1>1, ListAnswerViews
<1>3. ViewsAre'
  BY <1>1, <1>2 DEF ViewsAre
<1>. QED
  BY <1>2, <1>3 DEF KeptBy

\* What the job of an answer keeps, and what its summary pins.
LEMMA ContinueKeeps ==
  ASSUME CacheInv, ViewsAre, NEW o \in Ops, op[o].kind # "unsubscribe", NEW s, SummariesAre(s),
         NEW catalog, Continue(o, s, catalog)
  PROVE  /\ op[o].kind = "updated" => KeptBy(threadSummaries')
         /\ op[o].kind # "updated" => KeptBy(s)
         /\ \A u \in Pinned(threadSummaries') :
              \/ u \in Pinned(s) \/ op[o].kind = "updated"
              \/ op[o].kind \in {"read", "open", "unarchive"} /\ op[o].thread = u
<1>1. OpIs(o, op[o])
  BY DEF CacheInv, OpsAre
<1>2. CASE op[o].kind \in {"read", "open", "unarchive"}
  <2>1. op[o].thread \in Threads
    BY <1>1, <1>2 DEF OpIs, Hydrating
  <2>2. PICK e : /\ threadViews' = SetView(threadViews, op[o].thread, ExistingDiff(o), s)
                 /\ threadSummaries' = SetSummary(s, op[o].thread,
                        Summary(op[o].thread, op[o].running, op[o].archived, e))
    BY <1>2 DEF Continue, Hydrate
  <2>3. KeptBy(s)
    BY <2>1, <2>2, SetViewKeeps
  <2>4. \A u \in Pinned(threadSummaries') : u \in Pinned(s) \/ u = op[o].thread
    BY <2>2 DEF SetSummary, Pinned
  <2>. QED
    BY <1>2, <2>3, <2>4
<1>3. CASE op[o].kind = "updated"
  <2>1. op[o].thread \in Threads
    BY <1>1, <1>3 DEF OpIs, Hydrating
  <2>2. threadViews' = TouchView(op[o].thread, threadSummaries')
    BY <1>3 DEF Continue, StoreUpdated
  <2>3. KeptBy(threadSummaries')
    BY <2>1, <2>2, TouchKeeps
  <2>. QED
    BY <1>3, <2>3
<1>4. CASE op[o].kind = "list"
  <2>1. ListAnswer(s, catalog)
    BY <1>4 DEF Continue
  <2>2. KeptBy(s)
    BY <2>1, ListKeeps
  <2>3. PICK e : threadSummaries' = reproject(s, e)
    BY <2>1 DEF ListAnswer
  <2>4. Pinned(threadSummaries') = Pinned(s)
    BY <2>3, ReprojectIs DEF Pinned
  <2>. QED
    BY <1>4, <2>2, <2>4
<1>5. CASE op[o].kind \in {"warmup", "bootstrap"}
  <2>1. threadSummaries' = s /\ UNCHANGED threadViews
    BY <1>5 DEF Continue
  <2>. QED
    BY <1>5, <2>1, SameKeepsViews
<1>. QED
  BY <1>1, <1>2, <1>3, <1>4, <1>5 DEF OpIs, Hydrating, Listing

\* The exception: in the middle of its own hydration the lists do not have it running.
NotListed(t) ==
  \E o \in Ops : /\ op[o].pc = "lists" /\ op'[o] # op[o] /\ op[o].thread = t
                 /\ op[o].kind \in {"read", "open", "unarchive"}
                 /\ t \notin Pinned(Refreshed(o, {}))

Stays ==
  /\ ViewsAre'
  /\ \A t \in Threads :
       HasView(threadViews, t) /\ ~HasView(threadViews', t)
         => \/ t \notin Pinned(threadSummaries) \/ t \notin Pinned(threadSummaries')
            \/ NotListed(t)

LEMMA RefreshStays ==
  ASSUME CacheInv, ViewsAre, NEW o \in Ops, RefreshEnds(o)
  PROVE  Stays
<1>. DEFINE entries == buildWorkspaceCatalog({Cwd[t] : t \in DOMAIN op[o].act \cup DOMAIN op[o].arc})
            s == Refreshed(o, entries)
<1>1. op[o].pc = "lists" /\ Continue(o, s, entries) /\ op' = [op EXCEPT ![o] = Successor(o)]
  BY DEF RefreshEnds
<1>2. OpIs(o, op[o]) /\ op = [p \in Ops |-> op[p]]
  BY DEF CacheInv, OpsAre
<1>3. op[o].kind # "unsubscribe"
  BY <1>1, <1>2 DEF OpIs
<1>4. op'[o] # op[o]
  <2>1. Successor(o).pc # "lists"
    BY IdleIs DEF Successor, Fields
  <2>2. op'[o] = Successor(o)
    BY <1>1, <1>2
  <2>. QED
    BY <1>1, <2>1, <2>2
<1>5. Pinned(s) = Pinned(Refreshed(o, {}))
  <2>1. \A e : /\ DOMAIN Refreshed(o, e) = DOMAIN op[o].act \cup DOMAIN op[o].arc
               /\ \A t \in DOMAIN Refreshed(o, e) : Refreshed(o, e)[t].running =
                    IF t \in DOMAIN op[o].arc THEN op[o].arc[t] ELSE op[o].act[t]
    BY DEF Refreshed, Summary
  <2>. HIDE DEF entries
  <2>. QED
    BY <2>1 DEF Pinned
<1>6. SummariesAre(s)
  BY <1>2, RefreshedIs
<1>. HIDE DEF s, entries
<1>7. /\ op[o].kind = "updated" => KeptBy(threadSummaries')
      /\ op[o].kind # "updated" => KeptBy(s)
      /\ \A u \in Pinned(threadSummaries') :
           \/ u \in Pinned(s) \/ op[o].kind = "updated"
           \/ op[o].kind \in {"read", "open", "unarchive"} /\ op[o].thread = u
  BY <1>1, <1>3, <1>6, ContinueKeeps
<1>. QED
  BY <1>1, <1>4, <1>5, <1>7 DEF Stays, KeptBy, NotListed

LEMMA AnswerStays ==
  ASSUME CacheInv, ViewsAre, NEW o \in Ops, AnswerGoesOn(o)
  PROVE  Stays
<1>1. op[o].kind # "unsubscribe" /\ SummariesAre(threadSummaries)
  BY DEF AnswerGoesOn, CacheInv
<1>2. CASE Continue(o, threadSummaries, cachedWorkspaceCatalog)
  BY <1>1, <1>2, ContinueKeeps DEF Stays, KeptBy
<1>3. CASE UNCHANGED threadViews
  BY <1>3, SameKeepsViews DEF Stays, KeptBy
<1>. QED
  BY <1>2, <1>3 DEF AnswerGoesOn

LEMMA NextStays ==
  ASSUME CacheInv, ViewsAre, Next
  PROVE  Stays
<1>1. SummariesAre(threadSummaries)
  BY DEF CacheInv
<1>2. ASSUME NEW s, KeptBy(s), s = threadSummaries \/ s = threadSummaries'
      PROVE  Stays
  BY <1>2 DEF Stays, KeptBy
<1>3. ASSUME NEW t, applyThreadClosed(t)
      PROVE  Stays
  <2>1. CASE t \in DOMAIN threadSummaries
    <3>1. t \in Threads /\ threadViews' = TouchView(t, threadSummaries')
      BY <1>1, <1>3, <2>1 DEF applyThreadClosed, SummariesAre
    <3>2. KeptBy(threadSummaries')
      BY <3>1, TouchKeeps
    <3>. QED
      BY <1>2, <3>2
  <2>2. CASE UNCHANGED threadViews
    BY <1>2, <2>2, SameKeepsViews
  <2>. QED
    BY <1>3, <2>1, <2>2 DEF applyThreadClosed
<1>4. ASSUME NEW t \in Threads, NEW x, Patch(t, x)
      PROVE  Stays
  <2>1. CASE threadViews' = TouchView(t, threadSummaries')
    BY <1>2, <2>1, TouchKeeps
  <2>2. CASE UNCHANGED threadViews
    BY <1>2, <2>2, SameKeepsViews
  <2>. QED
    BY <1>4, <2>1, <2>2 DEF Patch
<1>5. ASSUME NEW t \in Threads, DiffUpdated(t) \/ TurnUpdated(t)
      PROVE  Stays
  <2>1. CASE \E d : threadViews' = SetView(threadViews, t, d, threadSummaries)
    BY <1>2, <2>1, SetViewKeeps
  <2>2. CASE threadViews' = TouchView(t, threadSummaries)
    BY <1>2, <2>2, TouchKeeps
  <2>3. CASE UNCHANGED threadViews
    BY <1>2, <2>3, SameKeepsViews
  <2>. QED
    BY <1>5, <2>1, <2>2, <2>3 DEF DiffUpdated, TurnUpdated
<1>6. ASSUME NEW o \in Calls, NEW kind \in {"list", "bootstrap"}, ListThreads(o, kind)
      PROVE  Stays
  <2>1. CASE ListAnswer(threadSummaries, cachedWorkspaceCatalog)
    BY <1>1, <1>2, <2>1, ListKeeps
  <2>2. CASE UNCHANGED threadViews
    BY <1>2, <2>2, SameKeepsViews
  <2>. QED
    BY <1>6, <2>1, <2>2 DEF ListThreads
<1>7. ASSUME \/ RuntimeConnects \/ WarmupTimer \/ SaveWorkspaces \/ RuntimeExits
             \/ \E o \in Ops : \/ CodexAnswers(o) \/ CodexRefuses(o)
                               \/ \E which \in {"active", "archived"} : CodexLists(o, which)
             \/ \E o \in Calls : \E u \in Threads :
                  \/ ReadThread(o, u) \/ OpenThread(o, u)
                  \/ UnarchiveThread(o, u) \/ UnsubscribeThread(o, u)
             \/ \E u \in Threads : ThreadStarted(u)
      PROVE  Stays
  <2>1. UNCHANGED threadViews
    BY <1>7 DEF RuntimeConnects, WarmupTimer, SaveWorkspaces, RuntimeExits, CodexAnswers,
         CodexRefuses, CodexLists, ReadThread, OpenThread, UnarchiveThread, UnsubscribeThread,
         ThreadStarted, cacheVars
  <2>. QED
    BY <1>2, <2>1, SameKeepsViews
<1>8. ASSUME NEW o \in Ops, RefreshEnds(o) \/ AnswerGoesOn(o) \/ UnsubscribeGoesOn(o)
      PROVE  Stays
  BY <1>3, <1>8, RefreshStays, AnswerStays DEF UnsubscribeGoesOn
<1>9. ASSUME NEW t \in Threads, StatusChanged(t) \/ ArchiveChanged(t) \/ ThreadClosed(t)
      PROVE  Stays
  BY <1>3, <1>4, <1>9 DEF StatusChanged, ArchiveChanged, ThreadClosed
<1>. QED
  BY <1>5, <1>6, <1>7, <1>8, <1>9 DEF Next

\* The view of a thread that runs or has a request pending is not pruned, but for a thread in the
\* middle of its own hydration (WorkbenchService.pruneThreadViews, hydrateRuntimeThread).
THEOREM PinnedViewsStay == Spec => PinnedViewStays
<1>1. Init => ViewsAre
  <2>1. <<>> \in Seq(ViewsOf({0})) /\ 0 \in {0}
    OBVIOUS
  <2>. QED
    BY <2>1 DEF Init, ViewsAre
<1>2. ASSUME CacheInv, ViewsAre, [Next]_vars
      PROVE  ViewsAre'
  <2>1. CASE Next
    BY <1>2, <2>1, NextStays DEF Stays
  <2>2. CASE UNCHANGED vars
    BY <1>2, <2>2, SameKeepsViews DEF vars, cacheVars, KeptBy
  <2>. QED
    BY <1>2, <2>1, <2>2
<1>3. CacheInv /\ ViewsAre /\ [Next]_vars =>
        [\A t \in Threads :
           HasView(threadViews, t) /\ ~HasView(threadViews', t)
             => \/ t \notin Pinned(threadSummaries) \/ t \notin Pinned(threadSummaries')
                \/ \E o \in Ops : /\ op[o].pc = "lists" /\ op'[o] # op[o] /\ op[o].thread = t
                                /\ op[o].kind \in {"read", "open", "unarchive"}
                                /\ t \notin Pinned(Refreshed(o, {}))]_vars
  BY NextStays DEF Stays, NotListed
<1>. QED
  BY SpecCache, <1>1, <1>2, <1>3, PTL DEF Spec, PinnedViewStays

-----------------------------------------------------------------------------
(* The scripted runtime. *)

Events == {"item", "delta", "realtime", "audio", "review", "ask", "closed"}

\* A turn asks at the end of its script, if it does.
Asks(s) == s # <<>> /\ s[Len(s)] = "ask"
Closes(s) == s # <<>> /\ s[Len(s)] = "closed"
AsksLast(s) == \A i \in DOMAIN s : s[i] \in {"ask", "closed"} => i = Len(s)

\* A turn that can still tell that its thread is idle.
Settling(turn) == turn \in asked \/ Asks(timers[turn]) \/ Closes(timers[turn])

TurnsAre ==
  /\ DOMAIN timers = DOMAIN owner /\ DOMAIN reported = Threads /\ asked \subseteq DOMAIN timers
  /\ \A turn \in DOMAIN timers : timers[turn] \in Seq(Events) /\ AsksLast(timers[turn])

ApprovalsAre ==
  /\ asked \subseteq pendingApprovals
  /\ \A turn \in DOMAIN timers : Asks(timers[turn]) => turn \in pendingApprovals \ asked

CommandsAre ==
  /\ noisy = {}
  /\ \A p \in DOMAIN commands :
       p \notin ended /\ commands[p] \in {<<"output", "complete">>, <<"complete">>}

ActiveSettles ==
  \A t \in Threads : reported[t] = "active" =>
    \E turn \in DOMAIN owner : owner[turn] = t /\ Settling(turn)

FakeInv ==
  /\ TurnsAre
  /\ stopped \in BOOLEAN
  /\ ~stopped => ApprovalsAre /\ CommandsAre /\ ActiveSettles

LEMMA EmptyIs == <<>> \in Seq(Events) /\ AsksLast(<<>>) /\ ~Asks(<<>>) /\ ~Closes(<<>>)
BY DEF AsksLast, Asks, Closes

LEMMA ScriptIs ==
  ASSUME NEW prompt
  PROVE  /\ Fake!Script(prompt) \in Seq(Events) /\ AsksLast(Fake!Script(prompt))
         /\ Asks(Fake!Script(prompt)) \/ Closes(Fake!Script(prompt))
<1>1. CASE prompt = "realtime-smoke:"
  <2>1. Fake!Script(prompt) =
          <<"item", "item", "realtime", "realtime", "audio", "realtime", "audio", "closed">>
    BY <1>1 DEF Fake!Script
  <2>. QED
    BY <2>1 DEF Events, AsksLast, Asks, Closes
<1>2. CASE prompt = "timeline-parity:"
  <2>1. Fake!Script(prompt) =
          <<"item", "item", "item", "delta", "item", "item", "delta", "delta", "ask">>
    BY <1>2 DEF Fake!Script
  <2>. QED
    BY <2>1 DEF Events, AsksLast, Asks, Closes
<1>3. CASE prompt # "realtime-smoke:" /\ prompt # "timeline-parity:"
  <2>1. Fake!Script(prompt) = <<"item", "item", "delta", "delta", "delta", "ask">>
    BY <1>3 DEF Fake!Script
  <2>. QED
    BY <2>1 DEF Events, AsksLast, Asks, Closes
<1>. QED
  BY <1>1, <1>2, <1>3

LEMMA ReviewIs ==
  /\ <<"review">> \in Seq(Events) /\ AsksLast(<<"review">>)
  /\ ~Asks(<<"review">>) /\ ~Closes(<<"review">>)
BY DEF Events, AsksLast, Asks, Closes

\* What a turn still has to tell, when one timer has fired.
LEMMA TimerTail ==
  ASSUME NEW s \in Seq(Events), s # <<>>, AsksLast(s)
  PROVE  /\ Tail(s) \in Seq(Events) /\ AsksLast(Tail(s))
         /\ Head(s) = "ask" => Asks(s)
         /\ Head(s) \in {"ask", "closed"} => ~Asks(Tail(s)) /\ ~Closes(Tail(s))
         /\ Head(s) # "ask" => (Asks(s) <=> Asks(Tail(s)))
         /\ Head(s) # "closed" => (Closes(s) <=> Closes(Tail(s)))
<1>1. /\ Head(s) = s[1] /\ Tail(s) \in Seq(Events)
      /\ Len(s) \in Nat \ {0} /\ DOMAIN s = 1..Len(s) /\ DOMAIN Tail(s) = 1..(Len(s) - 1)
      /\ \A i \in DOMAIN Tail(s) : Tail(s)[i] = s[i + 1]
  BY TailIs
<1>2. Len(Tail(s)) = Len(s) - 1
  OBVIOUS
<1>3. AsksLast(Tail(s))
  BY <1>1, <1>2 DEF AsksLast
<1>4. CASE Len(s) = 1
  <2>1. Tail(s) = <<>>
    BY <1>2, <1>1, <1>4
  <2>. QED
    BY <2>1, <1>1, <1>3, <1>4 DEF Asks, Closes
<1>5. CASE Len(s) # 1
  <2>1. Tail(s) # <<>> /\ Tail(s)[Len(Tail(s))] = s[Len(s)]
    <3>1. Len(s) - 1 \in DOMAIN Tail(s) /\ (Len(s) - 1) + 1 = Len(s)
      BY <1>1, <1>5
    <3>2. Tail(s)[Len(s) - 1] = s[Len(s)]
      BY <3>1, <1>1
    <3>3. Tail(s) # <<>>
      <4>1. Len(Tail(s)) # 0 /\ Len(<<>>) = 0
        BY <1>1, <1>2, <1>5
      <4>. QED
        BY <4>1
    <3>. QED
      BY <3>2, <3>3, <1>2
  <2>2. Head(s) \notin {"ask", "closed"}
    BY <1>1, <1>5 DEF AsksLast
  <2>. QED
    BY <2>1, <2>2, <1>1, <1>3 DEF Asks, Closes
<1>. QED
  BY <1>4, <1>5

LEMMA CommandTail ==
  /\ Head(<<"output", "complete">>) = "output"
  /\ Tail(<<"output", "complete">>) = <<"complete">>
  /\ Head(<<"complete">>) = "complete"
  /\ <<"output", "complete">> # <<>> /\ <<"complete">> # <<>>
OBVIOUS

\* What is kept when no turn, no approval and no command changes, and no thread is
\* reported to be active.
LEMMA QuietKeeps ==
  ASSUME FakeInv, UNCHANGED <<timers, owner, pendingApprovals, asked, commands, ended, noisy, stopped>>,
         DOMAIN reported' = Threads,
         \A t \in Threads : reported'[t] = "active" => reported[t] = "active"
  PROVE  FakeInv'
<1>1. TurnsAre'
  BY DEF FakeInv, TurnsAre
<1>2. ASSUME ~stopped
      PROVE  ApprovalsAre' /\ CommandsAre' /\ ActiveSettles'
  <2>1. ApprovalsAre'
    BY <1>2 DEF FakeInv, ApprovalsAre
  <2>2. CommandsAre'
    BY <1>2 DEF FakeInv, CommandsAre
  <2>3. ActiveSettles'
    BY <1>2 DEF FakeInv, ActiveSettles, Settling
  <2>. QED
    BY <2>1, <2>2, <2>3
<1>. QED
  BY <1>1, <1>2 DEF FakeInv

LEMMA ReportIs ==
  ASSUME DOMAIN reported = Threads, NEW t, NEW status, Fake!Report(t, status)
  PROVE  /\ DOMAIN reported' = Threads
         /\ \A u \in Threads : reported'[u] = IF u = t THEN status ELSE reported[u]
BY DEF Fake!Report

\* The script of a new turn.

LEMMA StartTurnKeeps ==
  ASSUME FakeInv, NEW turn \in Turns, NEW t \in Threads, NEW prompt, Fake!StartTurn(turn, t, prompt)
  PROVE  FakeInv'
<1>. DEFINE s == Fake!Script(prompt)
<1>1. s \in Seq(Events) /\ AsksLast(s) /\ (Asks(s) \/ Closes(s))
  BY ScriptIs
<1>2. /\ turn \notin DOMAIN timers
      /\ timers' = [y \in DOMAIN timers \cup {turn} |-> IF y = turn THEN s ELSE timers[y]]
      /\ owner' = [y \in DOMAIN owner \cup {turn} |-> IF y = turn THEN t ELSE owner[y]]
      /\ pendingApprovals' = pendingApprovals \cup {turn}
      /\ UNCHANGED <<asked, commands, ended, noisy, stopped>>
      /\ Fake!Report(t, "active")
  BY DEF Fake!StartTurn, Fake!Put, Fake!commandVars
<1>. HIDE DEF s
<1>3. /\ DOMAIN reported' = Threads
      /\ \A u \in Threads : reported'[u] = IF u = t THEN "active" ELSE reported[u]
  BY <1>2, ReportIs DEF FakeInv, TurnsAre
<1>4. TurnsAre'
  BY <1>1, <1>2, <1>3 DEF FakeInv, TurnsAre
<1>5. ASSUME ~stopped
      PROVE  ApprovalsAre' /\ CommandsAre' /\ ActiveSettles'
  <2>1. ApprovalsAre'
    BY <1>2, <1>5 DEF FakeInv, TurnsAre, ApprovalsAre
  <2>2. CommandsAre'
    BY <1>2, <1>5 DEF FakeInv, CommandsAre
  <2>3. ActiveSettles'
    <3>. SUFFICES ASSUME NEW u \in Threads, reported'[u] = "active"
                  PROVE  \E x \in DOMAIN owner' : owner'[x] = u /\ Settling(x)'
      BY DEF ActiveSettles
    <3>1. CASE u = t
      <4>1. turn \in DOMAIN owner' /\ owner'[turn] = t /\ timers'[turn] = s
        BY <1>2
      <4>. QED
        BY <4>1, <3>1, <1>1 DEF Settling
    <3>2. CASE u # t
      <4>1. PICK x \in DOMAIN owner : owner[x] = u /\ Settling(x)
        BY <3>2, <1>3, <1>5 DEF FakeInv, ActiveSettles
      <4>2. x # turn
        BY <1>2 DEF FakeInv, TurnsAre
      <4>3. x \in DOMAIN owner' /\ owner'[x] = u /\ timers'[x] = timers[x] /\ asked' = asked
        BY <4>1, <4>2, <1>2 DEF FakeInv, TurnsAre
      <4>. QED
        BY <4>1, <4>3 DEF Settling
    <3>. QED
      BY <3>1, <3>2
  <2>. QED
    BY <2>1, <2>2, <2>3
<1>. QED
  BY <1>2, <1>4, <1>5 DEF FakeInv

LEMMA StartReviewKeeps ==
  ASSUME FakeInv, NEW turn \in Turns, NEW t \in Threads, Fake!StartReview(turn, t)
  PROVE  FakeInv'
<1>. DEFINE s == <<"review">>
<1>1. s \in Seq(Events) /\ AsksLast(s) /\ ~Asks(s) /\ ~Closes(s)
  BY ReviewIs
<1>2. /\ turn \notin DOMAIN timers
      /\ timers' = [y \in DOMAIN timers \cup {turn} |-> IF y = turn THEN s ELSE timers[y]]
      /\ owner' = [y \in DOMAIN owner \cup {turn} |-> IF y = turn THEN t ELSE owner[y]]
      /\ UNCHANGED <<pendingApprovals, asked, commands, ended, noisy, reported, stopped>>
  BY DEF Fake!StartReview, Fake!Put, Fake!commandVars
<1>. HIDE DEF s
<1>3. TurnsAre'
  BY <1>1, <1>2 DEF FakeInv, TurnsAre
<1>4. ASSUME ~stopped
      PROVE  ApprovalsAre' /\ CommandsAre' /\ ActiveSettles'
  <2>1. ApprovalsAre'
    BY <1>1, <1>2, <1>4 DEF FakeInv, TurnsAre, ApprovalsAre
  <2>2. CommandsAre'
    BY <1>2, <1>4 DEF FakeInv, CommandsAre
  <2>3. ActiveSettles'
    <3>. SUFFICES ASSUME NEW u \in Threads, reported'[u] = "active"
                  PROVE  \E x \in DOMAIN owner' : owner'[x] = u /\ Settling(x)'
      BY DEF ActiveSettles
    <3>1. PICK x \in DOMAIN owner : owner[x] = u /\ Settling(x)
      BY <1>2, <1>4 DEF FakeInv, ActiveSettles
    <3>2. x # turn
      BY <1>2 DEF FakeInv, TurnsAre
    <3>3. x \in DOMAIN owner' /\ owner'[x] = u /\ timers'[x] = timers[x] /\ asked' = asked
      BY <3>1, <3>2, <1>2 DEF FakeInv, TurnsAre
    <3>. QED
      BY <3>1, <3>3 DEF Settling
  <2>. QED
    BY <2>1, <2>2, <2>3
<1>. QED
  BY <1>2, <1>3, <1>4 DEF FakeInv

LEMMA TurnTimerKeeps ==
  ASSUME FakeInv, NEW turn \in Turns, Fake!TurnTimer(turn)
  PROVE  FakeInv'
<1>. DEFINE s == timers[turn]
<1>1. s \in Seq(Events) /\ s # <<>> /\ AsksLast(s) /\ turn \in DOMAIN timers
  BY DEF Fake!TurnTimer, FakeInv, TurnsAre
<1>2. /\ Tail(s) \in Seq(Events) /\ AsksLast(Tail(s))
      /\ Head(s) = "ask" => Asks(s)
      /\ Head(s) \in {"ask", "closed"} => ~Asks(Tail(s)) /\ ~Closes(Tail(s))
      /\ Head(s) # "ask" => (Asks(s) <=> Asks(Tail(s)))
      /\ Head(s) # "closed" => (Closes(s) <=> Closes(Tail(s)))
  <2>. HIDE DEF s
  <2>. QED
    BY <1>1, TimerTail
<1>3. /\ timers' = [timers EXCEPT ![turn] = Tail(s)]
      /\ asked' = IF Head(s) = "ask" THEN asked \cup {turn} ELSE asked
      /\ IF Head(s) = "closed" THEN Fake!Report(owner[turn], "idle") ELSE UNCHANGED reported
      /\ UNCHANGED <<owner, pendingApprovals, commands, ended, noisy, stopped>>
  BY DEF Fake!TurnTimer, Fake!EndsWith, Fake!commandVars
<1>4. /\ DOMAIN timers' = DOMAIN timers /\ timers'[turn] = Tail(s)
      /\ \A x \in DOMAIN timers \ {turn} : timers'[x] = timers[x]
  BY <1>1, <1>3
<1>5. /\ DOMAIN reported' = Threads
      /\ \A u \in Threads : reported'[u] =
           IF Head(s) = "closed" /\ u = owner[turn] THEN "idle" ELSE reported[u]
  BY <1>3, ReportIs DEF FakeInv, TurnsAre
<1>6. TurnsAre'
  BY <1>1, <1>2, <1>3, <1>4, <1>5 DEF FakeInv, TurnsAre
<1>7. ASSUME ~stopped
      PROVE  ApprovalsAre' /\ CommandsAre' /\ ActiveSettles'
  <2>0. /\ ApprovalsAre /\ ActiveSettles
        /\ Asks(s) => turn \in pendingApprovals \ asked
    BY <1>7, <1>1 DEF FakeInv, ApprovalsAre
  <2>. HIDE DEF s
  <2>1. ApprovalsAre'
    <3>1. asked' \subseteq pendingApprovals'
      BY <2>0, <1>2, <1>3 DEF ApprovalsAre
    <3>2. ASSUME NEW x \in DOMAIN timers', Asks(timers'[x])
          PROVE  x \in pendingApprovals' \ asked'
      <4>1. CASE x = turn
        BY <4>1, <3>2, <2>0, <1>2, <1>3, <1>4
      <4>2. CASE x # turn
        BY <4>2, <3>2, <2>0, <1>3, <1>4 DEF ApprovalsAre
      <4>. QED
        BY <4>1, <4>2
    <3>. QED
      BY <3>1, <3>2 DEF ApprovalsAre
  <2>2. CommandsAre'
    BY <1>3, <1>7 DEF FakeInv, CommandsAre
  <2>3. ActiveSettles'
    <3>. SUFFICES ASSUME NEW u \in Threads, reported'[u] = "active"
                  PROVE  \E x \in DOMAIN owner' : owner'[x] = u /\ Settling(x)'
      BY DEF ActiveSettles
    <3>1. PICK x \in DOMAIN owner : owner[x] = u /\ Settling(x)
      BY <1>5, <2>0 DEF ActiveSettles
    <3>2. x \in DOMAIN timers /\ x \in DOMAIN owner' /\ owner'[x] = u
      BY <3>1, <1>3 DEF FakeInv, TurnsAre
    <3>3. CASE x # turn
      BY <3>1, <3>2, <3>3, <1>3, <1>4 DEF Settling
    <3>4. CASE x = turn /\ Head(s) = "ask"
      BY <3>2, <3>4, <1>3 DEF Settling
    <3>5. CASE x = turn /\ Head(s) = "closed"
      BY <3>1, <3>5, <1>5
    <3>6. CASE x = turn /\ Head(s) \notin {"ask", "closed"}
      <4>1. Settling(turn) => turn \in asked \/ Asks(s) \/ Closes(s)
        BY DEF Settling, s
      <4>. QED
        BY <4>1, <3>1, <3>2, <3>6, <1>2, <1>3, <1>4 DEF Settling
    <3>. QED
      BY <3>3, <3>4, <3>5, <3>6
  <2>. QED
    BY <2>1, <2>2, <2>3
<1>. QED
  BY <1>3, <1>6, <1>7 DEF FakeInv

LEMMA ResolveKeeps ==
  ASSUME FakeInv, NEW turn \in Turns, Fake!ResolveServerRequest(turn)
  PROVE  FakeInv'
<1>1. /\ turn \in asked /\ turn \in DOMAIN timers
      /\ asked' = asked \ {turn} /\ pendingApprovals' = pendingApprovals \ {turn}
      /\ Fake!Report(owner[turn], "idle")
      /\ UNCHANGED <<timers, owner, commands, ended, noisy, stopped>>
  BY DEF Fake!ResolveServerRequest, Fake!commandVars, FakeInv, TurnsAre
<1>2. /\ DOMAIN reported' = Threads
      /\ \A u \in Threads : reported'[u] = IF u = owner[turn] THEN "idle" ELSE reported[u]
  BY <1>1, ReportIs DEF FakeInv, TurnsAre
<1>3. TurnsAre'
  BY <1>1, <1>2 DEF FakeInv, TurnsAre
<1>4. ASSUME ~stopped
      PROVE  ApprovalsAre' /\ CommandsAre' /\ ActiveSettles'
  <2>1. ApprovalsAre'
    BY <1>1, <1>4 DEF FakeInv, ApprovalsAre
  <2>2. CommandsAre'
    BY <1>1, <1>4 DEF FakeInv, CommandsAre
  <2>3. ActiveSettles'
    BY <1>1, <1>2, <1>4 DEF FakeInv, ActiveSettles, Settling
  <2>. QED
    BY <2>1, <2>2, <2>3
<1>. QED
  BY <1>1, <1>3, <1>4 DEF FakeInv

\* A command changes nothing of a turn.
LEMMA CommandKeeps ==
  ASSUME FakeInv, UNCHANGED <<timers, owner, pendingApprovals, asked, reported, stopped>>,
         ~stopped => CommandsAre'
  PROVE  FakeInv'
<1>1. TurnsAre'
  BY DEF FakeInv, TurnsAre
<1>2. ~stopped => ApprovalsAre' /\ ActiveSettles'
  BY DEF FakeInv, ApprovalsAre, ActiveSettles, Settling
<1>. QED
  BY <1>1, <1>2 DEF FakeInv

LEMMA CompleteCommandKeeps ==
  ASSUME CommandsAre, NEW p, Fake!CompleteCommand(p)
  PROVE  CommandsAre'
<1>1. CASE p \in DOMAIN commands
  <2>1. /\ noisy' = IF p \in ended THEN noisy \cup {p} ELSE noisy
        /\ ended' = ended \cup {p}
        /\ commands' = [q \in DOMAIN commands \ {p} |-> commands[q]]
    BY <1>1 DEF Fake!CompleteCommand
  <2>2. p \notin ended /\ noisy = {}
    BY <1>1 DEF CommandsAre
  <2>3. \A q \in DOMAIN commands' : q \notin ended' /\ commands'[q] = commands[q]
    BY <2>1 DEF CommandsAre
  <2>. QED
    BY <2>1, <2>2, <2>3 DEF CommandsAre
<1>2. CASE p \notin DOMAIN commands
  BY <1>2 DEF Fake!CompleteCommand, Fake!commandVars, CommandsAre
<1>. QED
  BY <1>1, <1>2

LEMMA CommandStepsKeep ==
  ASSUME FakeInv, NEW p \in Processes,
         \/ Fake!StartCommand(p) \/ Fake!CommandTimer(p) \/ Fake!WriteCommand(p)
         \/ Fake!StopCommand(p)
  PROVE  FakeInv'
<1>1. UNCHANGED <<timers, owner, pendingApprovals, asked, reported, stopped>>
  BY DEF Fake!StartCommand, Fake!CommandTimer, Fake!WriteCommand, Fake!StopCommand, Fake!turnVars
<1>2. ASSUME ~stopped
      PROVE  CommandsAre'
  <2>0. CommandsAre
    BY <1>2 DEF FakeInv
  <2>1. CASE Fake!StartCommand(p)
    <3>1. /\ p \notin DOMAIN commands /\ p \notin ended
          /\ commands' = [y \in DOMAIN commands \cup {p} |->
                            IF y = p THEN <<"output", "complete">> ELSE commands[y]]
          /\ ended' = ended /\ noisy' = noisy
      BY <2>1 DEF Fake!StartCommand, Fake!Put
    <3>. QED
      BY <3>1, <2>0 DEF CommandsAre
  <2>2. CASE Fake!CommandTimer(p)
    <3>1. p \in DOMAIN commands /\ p \notin ended
      BY <2>2, <2>0 DEF Fake!CommandTimer, CommandsAre
    <3>2. CASE commands[p] = <<"output", "complete">>
      <4>1. /\ Fake!Output(p) /\ ended' = ended
            /\ commands' = [commands EXCEPT ![p] = <<"complete">>]
        BY <2>2, <3>2, CommandTail DEF Fake!CommandTimer
      <4>2. noisy' = noisy
        BY <4>1, <3>1 DEF Fake!Output
      <4>. QED
        BY <4>1, <4>2, <3>1, <2>0 DEF CommandsAre
    <3>3. CASE commands[p] = <<"complete">>
      <4>1. Fake!CompleteCommand(p)
        BY <2>2, <3>3, CommandTail DEF Fake!CommandTimer
      <4>. QED
        BY <4>1, <2>0, CompleteCommandKeeps
    <3>. QED
      BY <3>1, <3>2, <3>3, <2>0 DEF CommandsAre
  <2>3. CASE Fake!WriteCommand(p)
    BY <2>3, <2>0 DEF Fake!WriteCommand, Fake!Output, CommandsAre
  <2>4. CASE Fake!StopCommand(p)
    BY <2>4, <2>0, CompleteCommandKeeps DEF Fake!StopCommand
  <2>. QED
    BY <2>1, <2>2, <2>3, <2>4
<1>. QED
  BY <1>1, <1>2, CommandKeeps

LEMMA ThreadStepsKeep ==
  ASSUME FakeInv, NEW t \in Threads,
         \/ \E b \in Threads : Fake!OpenThread(t, b)
         \/ \E x \in BOOLEAN : Fake!SetArchived(t, x)
         \/ Fake!UnsubscribeThread(t) \/ Fake!InterruptTurn(t)
  PROVE  FakeInv'
<1>1. UNCHANGED <<timers, owner, pendingApprovals, asked, commands, ended, noisy, stopped>>
  BY DEF Fake!OpenThread, Fake!SetArchived, Fake!UnsubscribeThread, Fake!InterruptTurn,
         Fake!turnVars, Fake!commandVars
<1>2. reported' = reported \/ Fake!Report(t, "closed") \/ Fake!Report(t, "idle")
  BY DEF Fake!OpenThread, Fake!SetArchived, Fake!UnsubscribeThread, Fake!InterruptTurn
<1>3. DOMAIN reported = Threads
  BY DEF FakeInv, TurnsAre
<1>4. DOMAIN reported' = Threads /\ \A u \in Threads : reported'[u] = "active" => reported[u] = "active"
  BY <1>2, <1>3, ReportIs
<1>. QED
  BY <1>1, <1>4, QuietKeeps

LEMMA StopKeeps ==
  ASSUME FakeInv, Fake!Stop
  PROVE  FakeInv'
<1>1. /\ stopped' = TRUE /\ timers' = [turn \in DOMAIN timers |-> <<>>]
      /\ owner' = owner /\ asked' = asked /\ reported' = reported
  BY DEF Fake!Stop
<1>2. TurnsAre'
  BY <1>1, EmptyIs DEF FakeInv, TurnsAre
<1>. QED
  BY <1>1, <1>2 DEF FakeInv

LEMMA SpecFake == ServerSpec => []FakeInv
<1>1. ServerInit => FakeInv
  <2>. SUFFICES ASSUME Fake!Init
                PROVE  FakeInv
    BY DEF ServerInit
  <2>1. /\ DOMAIN timers = {} /\ DOMAIN owner = {} /\ DOMAIN commands = {} /\ DOMAIN reported = Threads
        /\ asked = {} /\ noisy = {} /\ stopped = FALSE
        /\ \A t \in Threads : reported[t] = "idle"
    BY DEF Fake!Init
  <2>. QED
    BY <2>1 DEF FakeInv, TurnsAre, ApprovalsAre, CommandsAre, ActiveSettles
<1>2. FakeInv /\ [ServerNext]_<<part, vars, fakeVars, taskVars, viewVars>> => FakeInv'
  <2>. SUFFICES ASSUME FakeInv, [ServerNext]_<<part, vars, fakeVars, taskVars, viewVars>>
                PROVE  FakeInv'
    OBVIOUS
  <2>1. CASE Fake!Next
    <3>1. CASE \E t \in Threads, turn \in Turns : Fake!StartReview(turn, t)
      BY <3>1, StartReviewKeeps
    <3>2. CASE \E t \in Threads, turn \in Turns, prompt \in {"realtime-smoke:", "timeline-parity:", "other"} :
                 Fake!StartTurn(turn, t, prompt)
      BY <3>2, StartTurnKeeps
    <3>3. CASE \E turn \in Turns : Fake!TurnTimer(turn) \/ Fake!ResolveServerRequest(turn)
      BY <3>3, TurnTimerKeeps, ResolveKeeps
    <3>. QED
      BY <2>1, <3>1, <3>2, <3>3, ThreadStepsKeep, CommandStepsKeep, StopKeeps DEF Fake!Next
  <2>2. CASE UNCHANGED fakeVars
    <3>1. UNCHANGED <<timers, owner, pendingApprovals, asked, commands, ended, noisy, stopped, reported>>
      BY <2>2 DEF fakeVars
    <3>2. DOMAIN reported = Threads
      BY DEF FakeInv, TurnsAre
    <3>. QED
      BY <3>1, <3>2, QuietKeeps
  <2>. QED
    BY <2>1, <2>2 DEF ServerNext
<1>. QED
  BY <1>1, <1>2, PTL DEF ServerSpec

\* A thread of the scripted runtime that is reported to be active has a turn that has
\* more to say or waits for an answer, what is asked can be answered, and a command
\* ends once, by a timer, with no output after its end (FakeRuntime.startTurn,
\* resolveServerRequest, startCommand).
THEOREM FakeAlwaysSettles == ServerSpec => []FakeSettles
<1>1. FakeInv => FakeSettles
  <2>. SUFFICES ASSUME FakeInv, ~stopped
                PROVE  FakeSettles
    BY DEF FakeSettles, Fake!FakeSettles
  <2>1. \A turn \in DOMAIN owner : Settling(turn) => timers[turn] # <<>> \/ turn \in asked
    BY DEF Settling, Asks, Closes
  <2>2. \A t \in Threads : reported[t] = "active" =>
          \E turn \in DOMAIN owner : owner[turn] = t /\ (timers[turn] # <<>> \/ turn \in asked)
    BY <2>1 DEF FakeInv, ActiveSettles
  <2>3. asked \subseteq pendingApprovals /\ noisy = {}
    BY DEF FakeInv, ApprovalsAre, CommandsAre
  <2>4. \A p \in DOMAIN commands : commands[p] # <<>>
    BY CommandTail DEF FakeInv, CommandsAre
  <2>. QED
    BY <2>2, <2>3, <2>4 DEF FakeSettles, Fake!FakeSettles
<1>. QED
  BY SpecFake, <1>1, PTL

-----------------------------------------------------------------------------
(* The script that keeps the worktrees of tasks. *)

AnyCommits == [patch : Patches, version : Nat]
MainStates == [ids : SUBSET AnyCommits, patches : SUBSET Patches, work : SUBSET Patches,
               version : Nat]

TaskTypes ==
  /\ main \in MainStates /\ seenMain \in MainStates
  /\ local \in [Slugs -> SUBSET AnyCommits] /\ remote \in [Slugs -> SUBSET AnyCommits]
  /\ job \in {Task!Idle} \cup [pc : {"fetched", "checked", "removed"}, slug : Slugs]

\* What main is seen to contain is work that it contains.
Holds(m) == Task!PatchesOf(m.ids) \cup m.patches \subseteq m.work
MainHolds == Holds(main) /\ Holds(seenMain) /\ seenMain.work \subseteq main.work

\* The commits whose branch may be deleted: all but the late ones are in main.
Landing(s) == Task!PatchesOf(local[s]) \ late \subseteq main.work

\* What origin's branch of a task holds is in the local branch, or in main.
RemoteIsHeld(s) ==
  Task!PatchesOf(remote[s]) \ late \subseteq Task!PatchesOf(local[s]) \cup main.work

FinishLands == job.pc \in {"checked", "removed"} => Landing(job.slug)

TaskInv ==
  /\ TaskTypes
  /\ MainHolds
  /\ \A s \in Slugs : RemoteIsHeld(s)
  /\ \A s \in prs \cap Slugs : Landing(s)
  /\ FinishLands
  /\ WorkIsKept

LEMMA PatchesAre ==
  ASSUME NEW C \in SUBSET AnyCommits, NEW D \in SUBSET AnyCommits
  PROVE  /\ Task!PatchesOf(C) \subseteq Patches
         /\ Task!PatchesOf(C \cup D) = Task!PatchesOf(C) \cup Task!PatchesOf(D)
         /\ C \subseteq D => Task!PatchesOf(C) \subseteq Task!PatchesOf(D)
         /\ Task!PatchesOf({}) = {}
BY DEF Task!PatchesOf, AnyCommits

\* What keeps the invariant is that only landed work leaves a branch, and that a finish
\* goes on only with a branch whose work has landed.
LEMMA LandedKeeps ==
  ASSUME TaskInv, TaskTypes', MainHolds',
         main.work \subseteq main'.work, UNCHANGED <<remote, prs, made, late>>,
         \A s \in Slugs :
           /\ Task!PatchesOf(local[s]) \ late \subseteq Task!PatchesOf(local'[s]) \cup main'.work
           /\ Task!PatchesOf(local'[s]) \subseteq Task!PatchesOf(local[s]),
         FinishLands'
  PROVE  TaskInv'
<1>1. ASSUME NEW s \in Slugs
      PROVE  RemoteIsHeld(s)'
  BY <1>1 DEF TaskInv, RemoteIsHeld
<1>2. ASSUME NEW s \in prs \cap Slugs
      PROVE  Landing(s)'
  BY <1>2 DEF TaskInv, Landing
<1>3. WorkIsKept'
  <2>. SUFFICES ASSUME NEW p \in made' \ late', p \notin main'.work
                PROVE  \E s \in Slugs : p \in Task!PatchesOf(local'[s]) \cup Task!PatchesOf(remote'[s])
    BY DEF WorkIsKept, Task!WorkIsKept
  <2>1. PICK s \in Slugs : p \in Task!PatchesOf(local[s]) \cup Task!PatchesOf(remote[s])
    BY DEF TaskInv, WorkIsKept, Task!WorkIsKept
  <2>. QED
    BY <2>1
<1>. QED
  BY <1>1, <1>2, <1>3 DEF TaskInv

\* A step that only fetches, or does not even do that.
LEMMA FetchKeeps ==
  ASSUME TaskInv, Task!FetchOrigin \/ seenMain' = seenMain,
         UNCHANGED <<main, remote, prs, local, made, late>>,
         \/ job' = job \/ job' = Task!Idle
         \/ \E s \in Slugs : job' = [pc |-> "fetched", slug |-> s]
  PROVE  TaskInv'
<1>1. seenMain' = main \/ seenMain' = seenMain
  BY DEF Task!FetchOrigin
<1>2. TaskTypes'
  BY <1>1 DEF TaskInv, TaskTypes
<1>3. MainHolds'
  BY <1>1 DEF TaskInv, MainHolds, Holds
<1>4. FinishLands'
  <2>1. job' = job => FinishLands'
    BY DEF TaskInv, FinishLands, Landing
  <2>2. job' # job => job'.pc \notin {"checked", "removed"}
    BY DEF Task!Idle
  <2>. QED
    BY <2>1, <2>2 DEF FinishLands
<1>. QED
  BY <1>2, <1>3, <1>4, LandedKeeps

\* A rebase leaves out only what is in main.
LEMMA RebaseIs ==
  ASSUME TaskInv, NEW s \in Slugs, NEW m \in {main, seenMain}, Task!Rebase(s, m)
  PROVE  /\ local' \in [Slugs -> SUBSET AnyCommits]
         /\ \A x \in Slugs :
              /\ Task!PatchesOf(local[x]) \subseteq Task!PatchesOf(local'[x]) \cup main.work
              /\ Task!PatchesOf(local'[x]) \subseteq Task!PatchesOf(local[x])
<1>1. PICK empty \in SUBSET m.work : local' = [local EXCEPT ![s] = Task!Rebased(s, m, empty)]
  BY DEF Task!Rebase
<1>2. local \in [Slugs -> SUBSET AnyCommits] /\ local[s] \in SUBSET AnyCommits
  BY DEF TaskInv, TaskTypes
<1>3. \A c \in AnyCommits :
        /\ [c EXCEPT !.version = @ + 1] \in AnyCommits
        /\ [c EXCEPT !.version = @ + 1].patch = c.patch
  BY DEF AnyCommits
<1>. DEFINE D == {d \in local[s] : d \notin m.ids /\ d.patch \notin m.patches \cup empty}
<1>4. Task!Rebased(s, m, empty) = {[c EXCEPT !.version = @ + 1] : c \in D}
  BY DEF Task!Rebased
<1>5. Task!Rebased(s, m, empty) \in SUBSET AnyCommits
  BY <1>2, <1>3, <1>4
<1>6. Task!PatchesOf(Task!Rebased(s, m, empty)) \subseteq Task!PatchesOf(local[s])
  <2>1. \A c \in D : c \in AnyCommits /\ c \in local[s]
    BY <1>2
  <2>2. \A x \in Task!Rebased(s, m, empty) : \E c \in D : x.patch = c.patch
    BY <2>1, <1>3, <1>4
  <2>. QED
    BY <2>1, <2>2 DEF Task!PatchesOf
<1>7. Task!PatchesOf(local[s]) \subseteq Task!PatchesOf(Task!Rebased(s, m, empty)) \cup main.work
  <2>. SUFFICES ASSUME NEW c \in local[s], c.patch \notin main.work
                PROVE  c.patch \in Task!PatchesOf(Task!Rebased(s, m, empty))
    BY DEF Task!PatchesOf
  <2>1. m.work \subseteq main.work /\ Holds(m)
    BY DEF TaskInv, MainHolds
  <2>2. c \notin m.ids
    BY <2>1 DEF Holds, Task!PatchesOf
  <2>3. c \in D
    BY <2>1, <2>2 DEF Holds
  <2>. QED
    BY <2>3, <1>2, <1>3, <1>4 DEF Task!PatchesOf
<1>8. local'[s] = Task!Rebased(s, m, empty) /\ \A x \in Slugs \ {s} : local'[x] = local[x]
  BY <1>1, <1>2
<1>9. local' \in [Slugs -> SUBSET AnyCommits]
  BY <1>1, <1>2, <1>5
<1>. QED
  BY <1>6, <1>7, <1>8, <1>9

LEMMA RebaseStepsKeep ==
  ASSUME TaskInv, NEW s \in Slugs, Task!Sync(s) \/ Task!EndRebase(s)
  PROVE  TaskInv'
<1>1. /\ UNCHANGED <<main, remote, prs, made, late, job>>
      /\ seenMain' = main \/ seenMain' = seenMain
      /\ \/ local' = local
         \/ Task!Rebase(s, main) \/ Task!Rebase(s, seenMain)
  BY DEF Task!Sync, Task!EndRebase, Task!FetchOrigin, Task!NoFetch, Task!origin, Task!history
<1>2. /\ local' \in [Slugs -> SUBSET AnyCommits]
      /\ \A x \in Slugs :
           /\ Task!PatchesOf(local[x]) \subseteq Task!PatchesOf(local'[x]) \cup main.work
           /\ Task!PatchesOf(local'[x]) \subseteq Task!PatchesOf(local[x])
  <2>1. CASE local' = local
    BY <2>1 DEF TaskInv, TaskTypes
  <2>. QED
    BY <1>1, <2>1, RebaseIs
<1>3. TaskTypes'
  BY <1>1, <1>2 DEF TaskInv, TaskTypes
<1>4. MainHolds'
  BY <1>1 DEF TaskInv, MainHolds, Holds
<1>5. FinishLands'
  <2>1. job.pc \in {"checked", "removed"} => job.slug \in Slugs
    BY DEF TaskInv, TaskTypes, Task!Idle
  <2>. QED
    BY <2>1, <1>1, <1>2 DEF TaskInv, Landing, FinishLands
<1>. QED
  BY <1>1, <1>2, <1>3, <1>4, <1>5, LandedKeeps

\* What the check of a finish finds merged has landed.
LEMMA MergedHasLanded ==
  ASSUME TaskInv, NEW s \in Slugs, NEW ghWorks \in BOOLEAN, Task!MergedIntoMain(s, ghWorks)
  PROVE  Landing(s)
<1>1. Holds(seenMain) /\ seenMain.work \subseteq main.work
  BY DEF TaskInv, MainHolds
<1>2. CASE Task!HasAncestorMerge(s)
  BY <1>1, <1>2 DEF Task!HasAncestorMerge, Landing, Holds, Task!PatchesOf
<1>3. CASE s \in prs
  BY <1>3 DEF TaskInv
<1>4. CASE Task!ChangesApplied(s)
  BY <1>1, <1>4 DEF Task!ChangesApplied, Landing, Holds, Task!PatchesOf
<1>. QED
  BY <1>2, <1>3, <1>4 DEF Task!MergedIntoMain

LEMMA FinishStepsKeep ==
  ASSUME TaskInv, Task!FinishCheck \/ Task!FinishRemove \/ Task!FinishDelete
  PROVE  TaskInv'
<1>1. /\ job \in [pc : {"fetched", "checked", "removed"}, slug : Slugs]
      /\ job.slug \in Slugs
      /\ UNCHANGED <<main, seenMain, remote, prs, made, late>>
  <2>1. job.pc # "idle"
    BY DEF Task!FinishCheck, Task!FinishRemove, Task!FinishDelete
  <2>. QED
    BY <2>1 DEF Task!FinishCheck, Task!FinishRemove, Task!FinishDelete, Task!origin, Task!history,
                Task!NoFetch, TaskInv, TaskTypes, Task!Idle
<1>2. MainHolds'
  BY <1>1 DEF TaskInv, MainHolds, Holds
<1>3. CASE Task!FinishCheck
  <2>1. PICK ghWorks \in BOOLEAN :
          job' = IF Task!MayFinish(job.slug, ghWorks)
                 THEN [job EXCEPT !.pc = IF Task!ListedWithBranch(job.slug) THEN "checked" ELSE "removed"]
                 ELSE Task!Idle
    BY <1>3 DEF Task!FinishCheck
  <2>2. local' = local
    BY <1>3 DEF Task!FinishCheck
  <2>3. job' \in {Task!Idle} \cup [pc : {"fetched", "checked", "removed"}, slug : Slugs]
    BY <2>1, <1>1
  <2>4. job'.pc \in {"checked", "removed"} => job'.slug = job.slug /\ Task!MayFinish(job.slug, ghWorks)
    BY <2>1, <1>1 DEF Task!Idle
  <2>5. FinishLands'
    BY <2>2, <2>4, <1>1, MergedHasLanded DEF Task!MayFinish, Landing, FinishLands
  <2>6. TaskTypes'
    BY <1>1, <2>2, <2>3 DEF TaskInv, TaskTypes
  <2>. QED
    BY <1>1, <1>2, <2>2, <2>5, <2>6, LandedKeeps
<1>4. CASE Task!FinishRemove
  <2>1. local' = local /\ job.pc = "checked"
    BY <1>4 DEF Task!FinishRemove
  <2>2. job' = Task!Idle \/ job' = [job EXCEPT !.pc = "removed"]
    BY <1>4 DEF Task!FinishRemove
  <2>3. TaskTypes'
    BY <1>1, <2>1, <2>2 DEF TaskInv, TaskTypes
  <2>4. job'.pc \in {"checked", "removed"} => job'.slug = job.slug
    BY <2>2, <1>1 DEF Task!Idle
  <2>5. FinishLands'
    BY <2>1, <2>4, <1>1 DEF TaskInv, Landing, FinishLands
  <2>. QED
    BY <1>1, <1>2, <2>1, <2>3, <2>5, LandedKeeps
<1>5. CASE Task!FinishDelete
  <2>1. /\ job.pc = "removed" /\ job' = Task!Idle
        /\ local' = local \/ local' = [local EXCEPT ![job.slug] = {}]
    BY <1>5 DEF Task!FinishDelete
  <2>2. local \in [Slugs -> SUBSET AnyCommits]
    BY DEF TaskInv, TaskTypes
  <2>3. Task!PatchesOf({}) = {}
    BY DEF Task!PatchesOf
  <2>4. Landing(job.slug)
    BY <2>1 DEF TaskInv, FinishLands
  <2>5. \A x \in Slugs : local'[x] = local[x] \/ (x = job.slug /\ local'[x] = {})
    BY <2>1, <2>2
  <2>6. \A x \in Slugs :
          /\ Task!PatchesOf(local[x]) \ late \subseteq Task!PatchesOf(local'[x]) \cup main.work
          /\ Task!PatchesOf(local'[x]) \subseteq Task!PatchesOf(local[x])
    BY <2>3, <2>4, <2>5 DEF Landing
  <2>7. TaskTypes'
    BY <1>1, <2>1, <2>2 DEF TaskInv, TaskTypes
  <2>8. FinishLands'
    BY <2>1 DEF Task!Idle, FinishLands
  <2>. QED
    BY <1>1, <1>2, <2>6, <2>7, <2>8, LandedKeeps
<1>. QED
  BY <1>3, <1>4, <1>5

LEMMA CommitKeeps ==
  ASSUME TaskInv, NEW s \in Slugs, NEW p \in Patches, Task!Commit(s, p)
  PROVE  TaskInv'
<1>. DEFINE new == [patch |-> p, version |-> 0]
<1>1. /\ local' = [local EXCEPT ![s] = @ \cup {new}]
      /\ made' = made \cup {p}
      /\ late' = IF s \in prs \/ (job.pc \in {"checked", "removed"} /\ job.slug = s)
                 THEN late \cup {p} ELSE late
      /\ UNCHANGED <<main, seenMain, remote, prs, job>>
  BY DEF Task!Commit, Task!NoFetch, Task!origin
<1>2. new \in AnyCommits /\ local \in [Slugs -> SUBSET AnyCommits]
  BY DEF AnyCommits, TaskInv, TaskTypes
<1>3. /\ local' \in [Slugs -> SUBSET AnyCommits]
      /\ local'[s] = local[s] \cup {new} /\ \A x \in Slugs \ {s} : local'[x] = local[x]
  <2>. HIDE DEF new
  <2>. QED
    BY <1>1, <1>2
<1>4. Task!PatchesOf(local'[s]) = Task!PatchesOf(local[s]) \cup {p}
  <2>1. Task!PatchesOf({new}) = {p}
    BY DEF Task!PatchesOf
  <2>. HIDE DEF new
  <2>. QED
    BY <2>1, <1>2, <1>3, PatchesAre
<1>5. late \subseteq late' /\ \A x \in Slugs : Task!PatchesOf(local[x]) \subseteq Task!PatchesOf(local'[x])
  BY <1>1, <1>3, <1>4
<1>6. TaskTypes'
  BY <1>1, <1>3 DEF TaskInv, TaskTypes
<1>7. MainHolds'
  BY <1>1 DEF TaskInv, MainHolds, Holds
<1>8. \A x \in Slugs : RemoteIsHeld(x)'
  BY <1>1, <1>5 DEF TaskInv, RemoteIsHeld
<1>9. ASSUME NEW x \in Slugs, Landing(x), x = s => p \in late'
      PROVE  Landing(x)'
  BY <1>9, <1>1, <1>3, <1>4, <1>5 DEF Landing
<1>10. \A x \in prs' \cap Slugs : Landing(x)'
  BY <1>1, <1>9 DEF TaskInv
<1>11. FinishLands'
  <2>1. job.pc \in {"checked", "removed"} => job.slug \in Slugs
    BY DEF TaskInv, TaskTypes, Task!Idle
  <2>. QED
    BY <2>1, <1>1, <1>9 DEF TaskInv, FinishLands
<1>12. WorkIsKept'
  <2>. SUFFICES ASSUME NEW q \in made' \ late', q \notin main'.work
                PROVE  \E x \in Slugs : q \in Task!PatchesOf(local'[x]) \cup Task!PatchesOf(remote'[x])
    BY DEF WorkIsKept, Task!WorkIsKept
  <2>1. CASE q = p
    BY <2>1, <1>4
  <2>2. CASE q # p
    <3>1. PICK x \in Slugs : q \in Task!PatchesOf(local[x]) \cup Task!PatchesOf(remote[x])
      BY <2>2, <1>1, <1>5 DEF TaskInv, WorkIsKept, Task!WorkIsKept
    <3>. QED
      BY <3>1, <1>1, <1>5
  <2>. QED
    BY <2>1, <2>2
<1>. QED
  BY <1>6, <1>7, <1>8, <1>10, <1>11, <1>12 DEF TaskInv

\* A push takes from origin's branch only what the local branch or main holds.
LEMMA PushKeeps ==
  ASSUME TaskInv, NEW s \in Slugs, Task!Push(s)
  PROVE  TaskInv'
<1>1. /\ remote' = [remote EXCEPT ![s] = local[s]]
      /\ UNCHANGED <<main, seenMain, prs, local, job, made, late>>
  BY DEF Task!Push, Task!history
<1>2. /\ remote' \in [Slugs -> SUBSET AnyCommits]
      /\ remote'[s] = local[s] /\ \A x \in Slugs \ {s} : remote'[x] = remote[x]
  BY <1>1 DEF TaskInv, TaskTypes
<1>3. TaskTypes'
  BY <1>1, <1>2 DEF TaskInv, TaskTypes
<1>4. MainHolds' /\ \A x \in prs' \cap Slugs : Landing(x)'
  BY <1>1 DEF TaskInv, MainHolds, Holds, Landing
<1>5. FinishLands'
  BY <1>1 DEF TaskInv, Landing, FinishLands
<1>6. \A x \in Slugs : RemoteIsHeld(x)'
  BY <1>1, <1>2 DEF TaskInv, RemoteIsHeld
<1>7. WorkIsKept'
  <2>. SUFFICES ASSUME NEW q \in made \ late, q \notin main.work
                PROVE  \E x \in Slugs : q \in Task!PatchesOf(local[x]) \cup Task!PatchesOf(remote'[x])
    BY <1>1 DEF WorkIsKept, Task!WorkIsKept
  <2>1. PICK x \in Slugs : q \in Task!PatchesOf(local[x]) \cup Task!PatchesOf(remote[x])
    BY DEF TaskInv, WorkIsKept, Task!WorkIsKept
  <2>2. q \in Task!PatchesOf(local[x])
    BY <2>1 DEF TaskInv, RemoteIsHeld
  <2>. QED
    BY <2>2
<1>. QED
  BY <1>3, <1>4, <1>5, <1>6, <1>7 DEF TaskInv

\* What main becomes when commits land.
LEMMA LandedIs ==
  ASSUME TaskInv, NEW C \in SUBSET AnyCommits, NEW how
  PROVE  /\ Task!Landed(main, C, how) \in MainStates
         /\ Task!Landed(main, C, how).work = main.work \cup Task!PatchesOf(C)
         /\ Holds(Task!Landed(main, C, how))
<1>. DEFINE m == Task!Landed(main, C, how)
<1>1. /\ m.work = main.work \cup Task!PatchesOf(C)
      /\ m.ids \in {main.ids, main.ids \cup C}
      /\ m.patches \in {main.patches, main.patches \cup Task!PatchesOf(C)}
      /\ m.version = main.version + 1
      /\ m = [ids |-> m.ids, patches |-> m.patches, work |-> m.work, version |-> m.version]
  BY DEF Task!Landed
<1>. HIDE DEF m
<1>2. /\ main.ids \in SUBSET AnyCommits /\ main.patches \in SUBSET Patches
      /\ main.work \in SUBSET Patches /\ main.version \in Nat /\ Holds(main)
  BY DEF TaskInv, TaskTypes, MainStates, MainHolds
<1>3. Task!PatchesOf(C) \subseteq Patches
  BY PatchesAre
<1>4. Task!PatchesOf(main.ids \cup C) = Task!PatchesOf(main.ids) \cup Task!PatchesOf(C)
  BY <1>2, PatchesAre
<1>5. Holds(m)
  BY <1>1, <1>2, <1>4 DEF Holds
<1>6. m.ids \in SUBSET AnyCommits /\ m.patches \in SUBSET Patches /\ m.work \in SUBSET Patches
  BY <1>1, <1>2, <1>3
<1>7. m \in MainStates
  BY <1>1, <1>2, <1>6 DEF MainStates
<1>. QED
  BY <1>1, <1>5, <1>7 DEF m

\* A merged pull request: all of the branch that it does not hold is late from now on.
LEMMA MergePullRequestKeeps ==
  ASSUME TaskInv, NEW s \in Slugs, NEW how, Task!MergePullRequest(s, how)
  PROVE  TaskInv'
<1>1. /\ main' = Task!Landed(main, remote[s], how)
      /\ prs' = prs \cup {s}
      /\ remote' \in {remote, [remote EXCEPT ![s] = {}]}
      /\ late' = late \cup (Task!PatchesOf(local[s]) \ Task!PatchesOf(remote[s]))
      /\ UNCHANGED <<seenMain, local, job, made>>
  BY DEF Task!MergePullRequest, Task!NoFetch
<1>2. remote \in [Slugs -> SUBSET AnyCommits] /\ remote[s] \in SUBSET AnyCommits
  BY DEF TaskInv, TaskTypes
<1>3. /\ main' \in MainStates /\ main'.work = main.work \cup Task!PatchesOf(remote[s])
      /\ Holds(main)'
  <2>1. Holds(main)' <=> Holds(main')
    BY DEF Holds
  <2>. QED
    BY <2>1, <1>1, <1>2, LandedIs
<1>4. /\ remote' \in [Slugs -> SUBSET AnyCommits]
      /\ \A x \in Slugs : remote'[x] = remote[x] \/ (x = s /\ remote'[x] = {})
  BY <1>1, <1>2
<1>5. Task!PatchesOf({}) = {}
  BY DEF Task!PatchesOf
<1>6. TaskTypes'
  BY <1>1, <1>3, <1>4 DEF TaskInv, TaskTypes
<1>7. MainHolds'
  BY <1>1, <1>3 DEF TaskInv, MainHolds, Holds
<1>8. \A x \in Slugs : RemoteIsHeld(x)'
  BY <1>1, <1>3, <1>4, <1>5 DEF TaskInv, RemoteIsHeld
<1>9. \A x : Landing(x) => Landing(x)'
  BY <1>1, <1>3 DEF Landing
<1>10. Landing(s)'
  BY <1>1, <1>3 DEF Landing
<1>11. \A x \in prs' \cap Slugs : Landing(x)'
  BY <1>1, <1>9, <1>10 DEF TaskInv
<1>12. FinishLands'
  <2>1. job'.pc \in {"checked", "removed"} => Landing(job.slug)
    BY <1>1 DEF TaskInv, FinishLands
  <2>. QED
    BY <2>1, <1>1, <1>3 DEF Landing, FinishLands
<1>13. WorkIsKept'
  <2>. SUFFICES ASSUME NEW q \in made \ late', q \notin main'.work
                PROVE  \E x \in Slugs : q \in Task!PatchesOf(local[x]) \cup Task!PatchesOf(remote'[x])
    BY <1>1 DEF WorkIsKept, Task!WorkIsKept
  <2>1. PICK x \in Slugs : q \in Task!PatchesOf(local[x]) \cup Task!PatchesOf(remote[x])
    BY <1>1, <1>3 DEF TaskInv, WorkIsKept, Task!WorkIsKept
  <2>2. q \notin Task!PatchesOf(remote[s])
    BY <1>3
  <2>. QED
    BY <2>1, <2>2, <1>4
<1>. QED
  BY <1>6, <1>7, <1>8, <1>11, <1>12, <1>13 DEF TaskInv

LEMMA MainStepsKeep ==
  ASSUME TaskInv, \/ \E s \in Slugs, how \in {"squash", "rebase", "merge"} : Task!MergeLocally(s, how)
                  \/ Task!OthersAdvance
  PROVE  TaskInv'
<1>1. /\ main' \in MainStates /\ main.work \subseteq main'.work /\ Holds(main)'
      /\ seenMain' = main' \/ seenMain' = seenMain
      /\ UNCHANGED <<remote, prs, local, job, made, late>>
  <2>1. ASSUME NEW s \in Slugs, NEW how, Task!MergeLocally(s, how)
        PROVE  /\ main' \in MainStates /\ main.work \subseteq main'.work /\ Holds(main)'
               /\ seenMain' = main' \/ seenMain' = seenMain
               /\ UNCHANGED <<remote, prs, local, job, made, late>>
    <3>1. /\ main' = Task!Landed(main, local[s], how) /\ seenMain' = main'
          /\ UNCHANGED <<remote, prs, local, job, made, late>>
      BY <2>1 DEF Task!MergeLocally, Task!history
    <3>2. local[s] \in SUBSET AnyCommits
      BY DEF TaskInv, TaskTypes
    <3>3. Holds(main)' <=> Holds(main')
      BY DEF Holds
    <3>. QED
      BY <3>1, <3>2, <3>3, LandedIs
  <2>2. CASE Task!OthersAdvance
    <3>1. /\ main' = [main EXCEPT !.version = @ + 1] /\ seenMain' = seenMain
          /\ UNCHANGED <<remote, prs, local, job, made, late>>
      BY <2>2 DEF Task!OthersAdvance, Task!NoFetch, Task!history
    <3>2. main \in MainStates /\ Holds(main)
      BY DEF TaskInv, TaskTypes, MainHolds
    <3>3. /\ main' \in MainStates /\ main'.ids = main.ids /\ main'.patches = main.patches
          /\ main'.work = main.work
      BY <3>1, <3>2 DEF MainStates
    <3>. QED
      BY <3>1, <3>2, <3>3 DEF Holds
  <2>. QED
    BY <2>1, <2>2
<1>2. TaskTypes'
  BY <1>1 DEF TaskInv, TaskTypes
<1>3. MainHolds'
  BY <1>1 DEF TaskInv, MainHolds, Holds
<1>4. FinishLands'
  BY <1>1 DEF TaskInv, Landing, FinishLands
<1>. QED
  BY <1>1, <1>2, <1>3, <1>4, LandedKeeps

LEMMA SpecTask == ServerSpec => []TaskInv
<1>1. ServerInit => TaskInv
  <2>. SUFFICES ASSUME Task!Init
                PROVE  TaskInv
    BY DEF ServerInit
  <2>1. /\ main = [ids |-> {}, patches |-> {}, work |-> {}, version |-> 0] /\ seenMain = main
        /\ remote = [s \in Slugs |-> {}] /\ local = [s \in Slugs |-> {}]
        /\ prs = {} /\ job = Task!Idle /\ made = {}
    BY DEF Task!Init
  <2>2. Task!PatchesOf({}) = {}
    BY DEF Task!PatchesOf
  <2>3. TaskTypes
    BY <2>1 DEF TaskTypes, MainStates
  <2>4. MainHolds
    BY <2>1, <2>2 DEF MainHolds, Holds
  <2>5. \A s \in Slugs : RemoteIsHeld(s)
    BY <2>1, <2>2 DEF RemoteIsHeld
  <2>6. FinishLands
    BY <2>1 DEF FinishLands, Task!Idle
  <2>7. WorkIsKept
    BY <2>1 DEF WorkIsKept, Task!WorkIsKept
  <2>. QED
    BY <2>1, <2>3, <2>4, <2>5, <2>6, <2>7 DEF TaskInv
<1>2. TaskInv /\ [ServerNext]_<<part, vars, fakeVars, taskVars, viewVars>> => TaskInv'
  <2>. SUFFICES ASSUME TaskInv, [ServerNext]_<<part, vars, fakeVars, taskVars, viewVars>>
                PROVE  TaskInv'
    OBVIOUS
  <2>1. CASE Task!Next
    <3>1. ASSUME NEW s \in Slugs, Task!Start(s) \/ Task!FinishFetch(s) \/ Task!Edit(s) \/ Task!UseTree(s)
          PROVE  TaskInv'
      <4>1. /\ Task!FetchOrigin \/ seenMain' = seenMain
            /\ UNCHANGED <<main, remote, prs, local, made, late>>
            /\ job' = job \/ job' = [pc |-> "fetched", slug |-> s]
        BY <3>1 DEF Task!Start, Task!StartReuses, Task!StartCreates, Task!StartRefused,
                    Task!FinishFetch, Task!Edit, Task!UseTree, Task!NoFetch, Task!origin, Task!history
      <4>. QED
        BY <4>1, FetchKeeps
    <3>2. ASSUME Task!UsePrimary
          PROVE  TaskInv'
      <4>1. /\ Task!FetchOrigin \/ seenMain' = seenMain
            /\ UNCHANGED <<main, remote, prs, local, made, late, job>>
        BY <3>2 DEF Task!UsePrimary, Task!NoFetch, Task!origin, Task!history
      <4>. QED
        BY <4>1, FetchKeeps
    <3>3. ASSUME NEW s \in Slugs, \E p \in Patches : Task!Commit(s, p)
          PROVE  TaskInv'
      BY <3>3, CommitKeeps
    <3>4. ASSUME NEW s \in Slugs, NEW how \in {"squash", "rebase", "merge"},
                 Task!MergePullRequest(s, how) \/ Task!MergeLocally(s, how)
          PROVE  TaskInv'
      BY <3>4, MergePullRequestKeeps, MainStepsKeep
    <3>. QED
      BY <2>1, <3>1, <3>2, <3>3, <3>4, RebaseStepsKeep, PushKeeps, FinishStepsKeep, MainStepsKeep
         DEF Task!Next
  <2>2. CASE UNCHANGED taskVars
    <3>1. UNCHANGED <<main, seenMain, remote, prs, local, made, late, job>>
      BY <2>2 DEF taskVars
    <3>. QED
      BY <3>1, FetchKeeps
  <2>. QED
    BY <2>1, <2>2 DEF ServerNext
<1>. QED
  BY <1>1, <1>2, PTL DEF ServerSpec

\* No command of the task script loses a commit: it stays in a local branch, in a branch
\* of origin, or its work is in main, but for those no merged pull request of that branch
\* name held and those made while a finish runs (task-workflow.mjs, finishTask, syncTask).
THEOREM WorkIsAlwaysKept == ServerSpec => []WorkIsKept
<1>1. TaskInv => WorkIsKept
  BY DEF TaskInv
<1>. QED
  BY SpecTask, <1>1, PTL

=============================================================================
