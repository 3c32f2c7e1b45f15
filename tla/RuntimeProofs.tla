---------------------------- MODULE RuntimeProofs ----------------------------
(***************************************************************************)
(* Theorems about CodexRuntime and about Approvals, which composes it with *)
(* what codex asks of the user, for any calls, ids, threads, sessions,     *)
(* pages and any number of restarts.                                       *)
(*                                                                         *)
(* The runtime never runs two processes and never loses a call (IInv).     *)
(* The invariant of requests (AskInv) is of what codex, the runtime and    *)
(* the broker hold, and covers whatever the pages do; that of the cards    *)
(* (CardsInv) is of the pages and what is on its way to them.  What is     *)
(* proved of the runtime is used in both as it stands.                     *)
(***************************************************************************)
EXTENDS Approvals, SequenceLemmas

-----------------------------------------------------------------------------
(* The runtime. *)

(* The inductive invariant.  Its heart is that this.child and                *)
(* this.startPromise are set in one synchronous stretch and cleared in       *)
(* another, so that the promise start() looks at stands for the process.     *)

FlagsOK ==
  /\ connected \in BOOLEAN
  /\ stopRequested \in BOOLEAN
  /\ serverUp \in BOOLEAN

DataOK ==
  /\ spawned \in 0..MaxSpawn
  /\ proc \in [Gens -> {"unborn", "running", "dead", "exited"}]
  /\ killed \subseteq Gens
  /\ child \in 0..MaxSpawn
  /\ startPromise \in 0..MaxSpawn
  /\ attempt \in [Gens -> {"none", "initializing", "refreshing",
                           "resolved", "rejected"}]
  /\ restartTimer \in 0..MaxSpawn
  /\ timers \subseteq Gens
  /\ restartCount \in Nat
  /\ pendingRequests \subseteq Callers
  /\ phase \in [Callers -> {"idle", "waiting", "sent"} \cup Settled]
  /\ gen \in [Callers -> 0..MaxSpawn]
  /\ fatal \subseteq Gens

PromiseIsChild == startPromise = child

ChildIsRunning ==
  child # NoGen => /\ proc[child] \in {"running", "dead"}
                   /\ attempt[child] # "none"

RunningIsChild ==
  \A g \in Gens : proc[g] \in {"running", "dead"} => g = child

FutureIsBlank ==
  /\ child <= spawned
  /\ \A g \in Gens : g > spawned => proc[g] = "unborn" /\ attempt[g] = "none"

InitializingIsChild ==
  \A g \in Gens : attempt[g] = "initializing" => g = child

ConnectedChild ==
  connected => /\ child # NoGen
               /\ attempt[child] \in {"refreshing", "resolved"}

SentToChild ==
  \A c \in Callers :
    phase[c] = "sent" => c \in pendingRequests /\ gen[c] = child /\ child # NoGen

WaitsForAttempt ==
  \A c \in Callers :
    phase[c] = "waiting" => gen[c] \in Gens /\ attempt[gen[c]] # "none"

RefreshNeverWaits == \A g \in Gens : phase[g] # "waiting"

IInv ==
  /\ FlagsOK
  /\ DataOK
  /\ PromiseIsChild
  /\ ChildIsRunning
  /\ RunningIsChild
  /\ FutureIsBlank
  /\ InitializingIsChild
  /\ ConnectedChild
  /\ SentToChild
  /\ WaitsForAttempt
  /\ RefreshNeverWaits

LEMMA InitIInv == Init => IInv
<1> SUFFICES ASSUME Init PROVE IInv
  OBVIOUS
<1> USE MaxSpawnAssumption DEF Init, Gens, NoGen, Callers, Settled
<1>1. FlagsOK
  BY DEF FlagsOK
<1>2. DataOK
  BY DEF DataOK
<1>3. PromiseIsChild
  BY DEF PromiseIsChild
<1>4. ChildIsRunning
  BY DEF ChildIsRunning
<1>5. RunningIsChild
  BY DEF RunningIsChild
<1>6. FutureIsBlank
  BY DEF FutureIsBlank
<1>7. InitializingIsChild
  BY DEF InitializingIsChild
<1>8. ConnectedChild
  BY DEF ConnectedChild
<1>9. SentToChild
  BY DEF SentToChild
<1>10. WaitsForAttempt
  BY DEF WaitsForAttempt
<1>11. RefreshNeverWaits
  BY DEF RefreshNeverWaits
<1>. QED
  BY <1>1, <1>2, <1>3, <1>4, <1>5, <1>6, <1>7, <1>8, <1>9, <1>10, <1>11 DEF IInv

(* What the shared pieces do to the data. *)

LEMMA StartData ==
  ASSUME DataOK, Start
  PROVE  /\ spawned' \in 0..MaxSpawn
         /\ proc' \in [Gens -> {"unborn", "running", "dead", "exited"}]
         /\ child' \in 0..MaxSpawn
         /\ startPromise' \in Gens
         /\ attempt' \in [Gens -> {"none", "initializing", "refreshing",
                                   "resolved", "rejected"}]
<1> USE MaxSpawnAssumption DEF DataOK, Start, Gens, NoGen
<1>1. CASE startPromise # NoGen
  BY <1>1
<1>2. CASE startPromise = NoGen
  <2>1. spawned + 1 \in Gens /\ Spawn
    BY <1>2 DEF Spawn
  <2>2. /\ proc' = [proc EXCEPT ![spawned + 1] = "running"]
        /\ attempt' = [attempt EXCEPT ![spawned + 1] = "initializing"]
        /\ spawned' = spawned + 1
        /\ child' = spawned + 1
        /\ startPromise' = spawned + 1
    BY <2>1 DEF Spawn
  <2>. QED
    BY <2>1, <2>2
<1>. QED
  BY <1>1, <1>2

LEMMA IssueData ==
  ASSUME DataOK, NEW c \in Callers, Issue(c)
  PROVE  /\ pendingRequests' \subseteq Callers
         /\ phase' \in [Callers -> {"idle", "waiting", "sent"} \cup Settled]
         /\ gen' \in [Callers -> 0..MaxSpawn]
BY DEF DataOK, Issue, Settled

LEMMA AwaitData ==
  ASSUME DataOK, NEW c \in Callers, NEW g \in 0..MaxSpawn, Await(c, g)
  PROVE  /\ pendingRequests' \subseteq Callers
         /\ phase' \in [Callers -> {"idle", "waiting", "sent"} \cup Settled]
         /\ gen' \in [Callers -> 0..MaxSpawn]
BY DEF DataOK, Await, Settled

LEMMA StepIInv == IInv /\ [Next]_rtVars => IInv'
<1> SUFFICES ASSUME IInv, [Next]_rtVars PROVE IInv'
  OBVIOUS
<1> USE MaxSpawnAssumption, CallsAssumption
    DEF Gens, NoGen, Callers, Settled
<1>0. /\ FlagsOK /\ DataOK /\ PromiseIsChild /\ ChildIsRunning /\ RunningIsChild
      /\ FutureIsBlank /\ InitializingIsChild /\ ConnectedChild /\ SentToChild
      /\ WaitsForAttempt /\ RefreshNeverWaits
  BY DEF IInv
<1>1. CASE Boot
  <2>1. FlagsOK'
    BY <1>0, <1>1 DEF DataOK, FlagsOK,
           Boot, Start, Spawn
  <2>2. DataOK'
    <3>1. DataOK /\ Start
      BY <1>0, <1>1 DEF Boot
    <3>. QED
      BY <1>1, <3>1, StartData DEF DataOK, Boot
  <2>3. PromiseIsChild'
    BY <1>0, <1>1 DEF DataOK, PromiseIsChild,
           Boot, Start, Spawn
  <2>4. ChildIsRunning'
    BY <1>0, <1>1 DEF DataOK, ChildIsRunning, PromiseIsChild, RunningIsChild, InitializingIsChild,
           Boot, Start, Spawn
  <2>5. RunningIsChild'
    BY <1>0, <1>1 DEF DataOK, RunningIsChild, PromiseIsChild, ChildIsRunning,
           Boot, Start, Spawn
  <2>6. FutureIsBlank'
    BY <1>0, <1>1 DEF DataOK, FutureIsBlank, ChildIsRunning,
           Boot, Start, Spawn
  <2>7. InitializingIsChild'
    BY <1>0, <1>1 DEF DataOK, InitializingIsChild, PromiseIsChild, RunningIsChild,
           Boot, Start, Spawn
  <2>8. ConnectedChild'
    BY <1>0, <1>1 DEF DataOK, ConnectedChild, InitializingIsChild, PromiseIsChild, ChildIsRunning,
           Boot, Start, Spawn
  <2>9. SentToChild'
    BY <1>0, <1>1 DEF DataOK, SentToChild, PromiseIsChild, RunningIsChild,
           Boot, Start, Spawn
  <2>10. WaitsForAttempt'
    BY <1>0, <1>1 DEF DataOK, WaitsForAttempt, PromiseIsChild, ChildIsRunning,
           Boot, Start, Spawn
  <2>11. RefreshNeverWaits'
    BY <1>0, <1>1 DEF DataOK, RefreshNeverWaits,
           Boot, Start, Spawn
  <2>. QED
    BY <2>1, <2>2, <2>3, <2>4, <2>5, <2>6, <2>7, <2>8, <2>9, <2>10, <2>11 DEF IInv
<1>2. CASE Stop
  BY <1>2, <1>0
  DEF FlagsOK, DataOK, PromiseIsChild, ChildIsRunning, RunningIsChild, FutureIsBlank,
      InitializingIsChild, ConnectedChild, SentToChild, WaitsForAttempt, RefreshNeverWaits, IInv,
      Stop
<1>3. ASSUME NEW c \in Calls, Call(c) PROVE IInv'
  <2>1. FlagsOK'
    BY <1>0, <1>3 DEF DataOK, FlagsOK,
           Call, Start, Spawn, EnsureStarted, Issue, Await,
           MayWrite, MayThrow
  <2>2. DataOK'
    <3>1. CASE startPromise # NoGen \/ (child # NoGen /\ connected)
      <4>1. Issue(c) \/ Await(c, startPromise)
        BY <1>3, <3>1 DEF Call, EnsureStarted
      <4>2. /\ pendingRequests' \subseteq Callers
            /\ phase' \in [Callers -> {"idle", "waiting", "sent"} \cup Settled]
            /\ gen' \in [Callers -> 0..MaxSpawn]
        BY <1>0, <4>1, IssueData, AwaitData DEF DataOK
      <4>. QED
        BY <1>0, <1>3, <3>1, <4>2 DEF DataOK, Call
    <3>2. CASE ~(startPromise # NoGen \/ (child # NoGen /\ connected))
      <4>1. Start /\ Await(c, startPromise')
        BY <1>3, <3>2 DEF Call
      <4>2. startPromise' \in 0..MaxSpawn
        BY <1>0, <4>1, StartData
      <4>. QED
        BY <1>0, <1>3, <4>1, <4>2, StartData, AwaitData DEF DataOK, Call
    <3>. QED
      BY <3>1, <3>2
  <2>3. PromiseIsChild'
    BY <1>0, <1>3 DEF DataOK, PromiseIsChild,
           Call, Start, Spawn, EnsureStarted, Issue, Await,
           MayWrite, MayThrow
  <2>4. ChildIsRunning'
    BY <1>0, <1>3 DEF DataOK, ChildIsRunning, PromiseIsChild, RunningIsChild, InitializingIsChild,
           Call, Start, Spawn, EnsureStarted, Issue, Await,
           MayWrite, MayThrow
  <2>5. RunningIsChild'
    BY <1>0, <1>3 DEF DataOK, RunningIsChild, PromiseIsChild, ChildIsRunning,
           Call, Start, Spawn, EnsureStarted, Issue, Await,
           MayWrite, MayThrow
  <2>6. FutureIsBlank'
    BY <1>0, <1>3 DEF DataOK, FutureIsBlank, ChildIsRunning,
           Call, Start, Spawn, EnsureStarted, Issue, Await,
           MayWrite, MayThrow
  <2>7. InitializingIsChild'
    BY <1>0, <1>3 DEF DataOK, InitializingIsChild, PromiseIsChild, RunningIsChild,
           Call, Start, Spawn, EnsureStarted, Issue, Await,
           MayWrite, MayThrow
  <2>8. ConnectedChild'
    BY <1>0, <1>3 DEF DataOK, ConnectedChild, InitializingIsChild, PromiseIsChild, ChildIsRunning,
           Call, Start, Spawn, EnsureStarted, Issue, Await,
           MayWrite, MayThrow
  <2>9. SentToChild'
    BY <1>0, <1>3 DEF DataOK, SentToChild, PromiseIsChild, RunningIsChild,
           Call, Start, Spawn, EnsureStarted, Issue, Await,
           MayWrite, MayThrow
  <2>10. WaitsForAttempt'
    BY <1>0, <1>3 DEF DataOK, WaitsForAttempt, PromiseIsChild, ChildIsRunning,
           Call, Start, Spawn, EnsureStarted, Issue, Await,
           MayWrite, MayThrow
  <2>11. RefreshNeverWaits'
    <3>1. \A g \in Gens : g # c
      OBVIOUS
    <3>2. \E v : phase' = [phase EXCEPT ![c] = v]
      BY <1>3 DEF Call, EnsureStarted, Issue, Await
    <3>. QED
      BY <1>0, <3>1, <3>2 DEF DataOK, RefreshNeverWaits
  <2>. QED
    BY <2>1, <2>2, <2>3, <2>4, <2>5, <2>6, <2>7, <2>8, <2>9, <2>10, <2>11 DEF IInv
<1>4. ASSUME NEW c \in Callers, Resume(c) PROVE IInv'
  <2>1. FlagsOK'
    BY <1>0, <1>4 DEF DataOK, FlagsOK,
           Resume, Issue, MayWrite, MayThrow
  <2>2. DataOK'
    <3>1. CASE Issue(c)
      BY <1>0, <1>4, <3>1, IssueData DEF DataOK, Resume
    <3>2. CASE ~Issue(c)
      BY <1>0, <1>4, <3>2 DEF DataOK, Resume
    <3>. QED
      BY <3>1, <3>2
  <2>3. PromiseIsChild'
    BY <1>0, <1>4 DEF DataOK, PromiseIsChild,
           Resume, Issue, MayWrite, MayThrow
  <2>4. ChildIsRunning'
    BY <1>0, <1>4 DEF DataOK, ChildIsRunning, PromiseIsChild, RunningIsChild, InitializingIsChild,
           Resume, Issue, MayWrite, MayThrow
  <2>5. RunningIsChild'
    BY <1>0, <1>4 DEF DataOK, RunningIsChild, PromiseIsChild, ChildIsRunning,
           Resume, Issue, MayWrite, MayThrow
  <2>6. FutureIsBlank'
    BY <1>0, <1>4 DEF DataOK, FutureIsBlank, ChildIsRunning,
           Resume, Issue, MayWrite, MayThrow
  <2>7. InitializingIsChild'
    BY <1>0, <1>4 DEF DataOK, InitializingIsChild, PromiseIsChild, RunningIsChild,
           Resume, Issue, MayWrite, MayThrow
  <2>8. ConnectedChild'
    BY <1>0, <1>4 DEF DataOK, ConnectedChild, InitializingIsChild, PromiseIsChild, ChildIsRunning,
           Resume, Issue, MayWrite, MayThrow
  <2>9. SentToChild'
    BY <1>0, <1>4 DEF DataOK, SentToChild, PromiseIsChild, RunningIsChild,
           Resume, Issue, MayWrite, MayThrow
  <2>10. WaitsForAttempt'
    BY <1>0, <1>4 DEF DataOK, WaitsForAttempt, PromiseIsChild, ChildIsRunning,
           Resume, Issue, MayWrite, MayThrow
  <2>11. RefreshNeverWaits'
    BY <1>0, <1>4 DEF DataOK, RefreshNeverWaits,
           Resume, Issue, MayWrite, MayThrow
  <2>. QED
    BY <2>1, <2>2, <2>3, <2>4, <2>5, <2>6, <2>7, <2>8, <2>9, <2>10, <2>11 DEF IInv
<1>5. ASSUME NEW c \in Callers, HandleResponse(c) PROVE IInv'
  BY <1>5, <1>0
  DEF FlagsOK, DataOK, PromiseIsChild, ChildIsRunning, RunningIsChild, FutureIsBlank,
      InitializingIsChild, ConnectedChild, SentToChild, WaitsForAttempt, RefreshNeverWaits, IInv,
      HandleResponse
<1>6. ASSUME NEW g \in Gens, HandleInitialized(g) PROVE IInv'
  <2>0. child = g /\ g \in Gens /\ Issue(g)
    <3>1. child = g /\ child # NoGen
      BY <1>0, <1>6 DEF InitializingIsChild, HandleInitialized
    <3>2. connected'
      BY <1>6 DEF HandleInitialized
    <3>. QED
      BY <1>6, <3>1, <3>2 DEF HandleInitialized, EnsureStarted
  <2>1. FlagsOK'
    BY <1>0, <1>6 DEF DataOK, FlagsOK,
           HandleInitialized, EnsureStarted, Issue,
           MayWrite, MayThrow
  <2>2. DataOK'
    BY <1>0, <1>6, <2>0, IssueData DEF DataOK, HandleInitialized
  <2>3. PromiseIsChild'
    BY <1>0, <1>6 DEF DataOK, PromiseIsChild,
           HandleInitialized, EnsureStarted, Issue,
           MayWrite, MayThrow
  <2>4. ChildIsRunning'
    BY <1>0, <1>6 DEF DataOK, ChildIsRunning, PromiseIsChild, RunningIsChild, InitializingIsChild,
           HandleInitialized, EnsureStarted, Issue,
           MayWrite, MayThrow
  <2>5. RunningIsChild'
    BY <1>0, <1>6 DEF DataOK, RunningIsChild, PromiseIsChild, ChildIsRunning,
           HandleInitialized, EnsureStarted, Issue,
           MayWrite, MayThrow
  <2>6. FutureIsBlank'
    BY <1>0, <1>6 DEF DataOK, FutureIsBlank, ChildIsRunning,
           HandleInitialized, EnsureStarted, Issue,
           MayWrite, MayThrow
  <2>7. InitializingIsChild'
    BY <1>0, <1>6 DEF DataOK, InitializingIsChild, PromiseIsChild, RunningIsChild,
           HandleInitialized, EnsureStarted, Issue,
           MayWrite, MayThrow
  <2>8. ConnectedChild'
    BY <1>0, <1>6 DEF DataOK, ConnectedChild, InitializingIsChild, PromiseIsChild, ChildIsRunning,
           HandleInitialized, EnsureStarted, Issue,
           MayWrite, MayThrow
  <2>9. SentToChild'
    BY <1>0, <1>6, <2>0
    DEF DataOK, SentToChild, HandleInitialized, Issue, MayWrite
  <2>10. WaitsForAttempt'
    BY <1>0, <1>6, <2>0
    DEF DataOK, WaitsForAttempt, HandleInitialized, Issue
  <2>11. RefreshNeverWaits'
    BY <1>0, <1>6, <2>0
    DEF DataOK, RefreshNeverWaits, HandleInitialized, Issue
  <2>. QED
    BY <2>1, <2>2, <2>3, <2>4, <2>5, <2>6, <2>7, <2>8, <2>9, <2>10, <2>11 DEF IInv
<1>7. ASSUME NEW g \in Gens, HandleInitializeError(g) PROVE IInv'
  BY <1>7, <1>0
  DEF FlagsOK, DataOK, PromiseIsChild, ChildIsRunning, RunningIsChild, FutureIsBlank,
      InitializingIsChild, ConnectedChild, SentToChild, WaitsForAttempt, RefreshNeverWaits, IInv,
      HandleInitializeError, Reject
<1>8. ASSUME NEW g \in Gens, FinishStart(g) PROVE IInv'
  BY <1>8, <1>0
  DEF FlagsOK, DataOK, PromiseIsChild, ChildIsRunning, RunningIsChild, FutureIsBlank,
      InitializingIsChild, ConnectedChild, SentToChild, WaitsForAttempt, RefreshNeverWaits, IInv,
      FinishStart
<1>9. ASSUME NEW g \in Gens, Die(g) PROVE IInv'
  BY <1>9, <1>0
  DEF FlagsOK, DataOK, PromiseIsChild, ChildIsRunning, RunningIsChild, FutureIsBlank,
      InitializingIsChild, ConnectedChild, SentToChild, WaitsForAttempt, RefreshNeverWaits, IInv,
      Die
<1>10. ASSUME NEW g \in Gens, ChildExit(g) PROVE IInv'
  <2>1. FlagsOK'
    BY <1>0, <1>10 DEF DataOK, FlagsOK,
           ChildExit, RejectPendingRequests, Reject, ScheduleRestart
  <2>2. DataOK'
    <3>1. attempt' \in [Gens -> {"none", "initializing", "refreshing",
                              "resolved", "rejected"}]
      BY <1>0, <1>10 DEF DataOK, ChildExit, Reject
    <3>2. phase' \in [Callers -> {"idle", "waiting", "sent"} \cup Settled]
      BY <1>0, <1>10 DEF DataOK, ChildExit, RejectPendingRequests
    <3>3. /\ restartTimer' \in 0..MaxSpawn
          /\ timers' \subseteq Gens
          /\ restartCount' \in Nat
      <4>1. CASE stopRequested
        BY <1>0, <1>10, <4>1 DEF DataOK, ChildExit, ScheduleRestart
      <4>2. CASE ~stopRequested
        <5>1. /\ restartTimer' = g
              /\ timers' = timers \cup {g}
              /\ restartCount' = restartCount + 1
          BY <1>10, <4>2 DEF ChildExit, ScheduleRestart
        <5>. QED
          BY <1>0, <5>1 DEF DataOK
      <4>. QED
        BY <4>1, <4>2
    <3>. QED
      BY <1>0, <1>10, <3>1, <3>2, <3>3
      DEF DataOK, ChildExit, RejectPendingRequests
  <2>3. PromiseIsChild'
    BY <1>0, <1>10 DEF DataOK, PromiseIsChild,
           ChildExit, RejectPendingRequests, Reject, ScheduleRestart
  <2>4. ChildIsRunning'
    BY <1>0, <1>10 DEF DataOK, ChildIsRunning, PromiseIsChild, RunningIsChild, InitializingIsChild,
           ChildExit, RejectPendingRequests, Reject, ScheduleRestart
  <2>5. RunningIsChild'
    BY <1>0, <1>10 DEF DataOK, RunningIsChild, PromiseIsChild, ChildIsRunning,
           ChildExit, RejectPendingRequests, Reject, ScheduleRestart
  <2>6. FutureIsBlank'
    <3>1. ~(g > spawned)
      BY <1>0, <1>10 DEF FutureIsBlank, ChildExit
    <3>2. \A h \in Gens : h > spawned => proc'[h] = proc[h] /\ attempt'[h] = attempt[h]
      BY <1>0, <1>10, <3>1 DEF DataOK, ChildExit, Reject
    <3>. QED
      BY <1>0, <1>10, <3>2 DEF DataOK, FutureIsBlank, ChildExit
  <2>7. InitializingIsChild'
    BY <1>0, <1>10 DEF DataOK, InitializingIsChild, PromiseIsChild, RunningIsChild,
           ChildExit, RejectPendingRequests, Reject, ScheduleRestart
  <2>8. ConnectedChild'
    BY <1>0, <1>10 DEF DataOK, ConnectedChild, InitializingIsChild, PromiseIsChild, ChildIsRunning,
           ChildExit, RejectPendingRequests, Reject, ScheduleRestart
  <2>9. SentToChild'
    BY <1>0, <1>10 DEF DataOK, SentToChild, PromiseIsChild, RunningIsChild,
           ChildExit, RejectPendingRequests, Reject, ScheduleRestart
  <2>10. WaitsForAttempt'
    BY <1>0, <1>10 DEF DataOK, WaitsForAttempt, PromiseIsChild, ChildIsRunning,
           ChildExit, RejectPendingRequests, Reject, ScheduleRestart
  <2>11. RefreshNeverWaits'
    BY <1>0, <1>10 DEF DataOK, RefreshNeverWaits,
           ChildExit, RejectPendingRequests, Reject, ScheduleRestart
  <2>. QED
    BY <2>1, <2>2, <2>3, <2>4, <2>5, <2>6, <2>7, <2>8, <2>9, <2>10, <2>11 DEF IInv
<1>11. ASSUME NEW t \in Gens, TimerFires(t) PROVE IInv'
  <2>1. FlagsOK'
    BY <1>0, <1>11 DEF DataOK, FlagsOK,
           TimerFires, Start, Spawn
  <2>2. DataOK'
    <3>1. DataOK /\ Start
      BY <1>0, <1>11 DEF TimerFires
    <3>2. startPromise' \in Gens
      BY <3>1, StartData
    <3>3. fatal' \subseteq Gens
      BY <1>11, <3>1, <3>2 DEF DataOK, TimerFires
    <3>. QED
      BY <1>11, <3>1, <3>3, StartData DEF DataOK, TimerFires
  <2>3. PromiseIsChild'
    BY <1>0, <1>11 DEF DataOK, PromiseIsChild,
           TimerFires, Start, Spawn
  <2>4. ChildIsRunning'
    BY <1>0, <1>11 DEF DataOK, ChildIsRunning, PromiseIsChild, RunningIsChild, InitializingIsChild,
           TimerFires, Start, Spawn
  <2>5. RunningIsChild'
    BY <1>0, <1>11 DEF DataOK, RunningIsChild, PromiseIsChild, ChildIsRunning,
           TimerFires, Start, Spawn
  <2>6. FutureIsBlank'
    BY <1>0, <1>11 DEF DataOK, FutureIsBlank, ChildIsRunning,
           TimerFires, Start, Spawn
  <2>7. InitializingIsChild'
    BY <1>0, <1>11 DEF DataOK, InitializingIsChild, PromiseIsChild, RunningIsChild,
           TimerFires, Start, Spawn
  <2>8. ConnectedChild'
    BY <1>0, <1>11 DEF DataOK, ConnectedChild, InitializingIsChild, PromiseIsChild, ChildIsRunning,
           TimerFires, Start, Spawn
  <2>9. SentToChild'
    BY <1>0, <1>11 DEF DataOK, SentToChild, PromiseIsChild, RunningIsChild,
           TimerFires, Start, Spawn
  <2>10. WaitsForAttempt'
    BY <1>0, <1>11 DEF DataOK, WaitsForAttempt, PromiseIsChild, ChildIsRunning,
           TimerFires, Start, Spawn
  <2>11. RefreshNeverWaits'
    BY <1>0, <1>11 DEF DataOK, RefreshNeverWaits,
           TimerFires, Start, Spawn
  <2>. QED
    BY <2>1, <2>2, <2>3, <2>4, <2>5, <2>6, <2>7, <2>8, <2>9, <2>10, <2>11 DEF IInv
<1>12. ASSUME NEW g \in Gens, PipeError(g) PROVE IInv'
  <2>1. FlagsOK'
    BY <1>0, <1>12 DEF FlagsOK, PipeError
  <2>. QED
    BY <1>0, <1>12, <2>1
    DEF DataOK, PromiseIsChild, ChildIsRunning, RunningIsChild, FutureIsBlank,
        InitializingIsChild, ConnectedChild, SentToChild, WaitsForAttempt,
        RefreshNeverWaits, IInv, PipeError
<1>13. CASE UNCHANGED rtVars
  BY <1>13, <1>0
  DEF FlagsOK, DataOK, PromiseIsChild, ChildIsRunning, RunningIsChild, FutureIsBlank,
      InitializingIsChild, ConnectedChild, SentToChild, WaitsForAttempt, RefreshNeverWaits, IInv,
      rtVars
<1>. QED
  BY <1>1, <1>2, <1>3, <1>4, <1>5, <1>6, <1>7, <1>8, <1>9, <1>10, <1>11, <1>12, <1>13 DEF Next

LEMMA SpecIInv == Spec => []IInv
  BY InitIInv, StepIInv, PTL DEF Spec

LEMMA IInvTypeOK == IInv => TypeOK
  BY DEF IInv, FlagsOK, DataOK, TypeOK

\* The variables keep their types: in particular no step uses a process, an
\* attempt or a timer that does not exist.
THEOREM TypeCorrect == Spec => []TypeOK
  BY SpecIInv, IInvTypeOK, PTL

\* However starts, stops, exits, calls and restart timers interleave, only one
\* app-server runs, the one this.child refers to.
THEOREM OneProcess == Spec => []AtMostOneProcess
<1>1. IInv => AtMostOneProcess
  BY DEF IInv, RunningIsChild, AtMostOneProcess, Running
<1>. QED
  BY <1>1, SpecIInv, PTL

\* status.connected is true only of a process that has been initialised and
\* whose exit has not been handled.
THEOREM ConnectedIsInitialized == Spec => []ConnectedToInitialized
<1>1. IInv => ConnectedToInitialized
  BY DEF IInv, DataOK, ConnectedChild, ChildIsRunning, ConnectedToInitialized,
         Running, Gens, NoGen
<1>. QED
  BY <1>1, SpecIInv, PTL

\* So a runtime that says it is connected has one app-server, initialised and not known to have
\* exited (start(), handleChildExit()).
THEOREM AlwaysConnectedToOneProcess == Spec => []ConnectedToOneProcess
<1>1. AtMostOneProcess /\ ConnectedToInitialized => ConnectedToOneProcess
  BY DEF ConnectedToOneProcess
<1>. QED
  BY OneProcess, ConnectedIsInitialized, <1>1, PTL

\* A call that awaits its answer is in pendingRequests and was written to the
\* process that runs now: its answer or its exit will settle the promise.
THEOREM NoCallIsOrphaned == Spec => []NoOrphanedCall
<1>1. IInv => NoOrphanedCall
  BY DEF IInv, DataOK, SentToChild, ChildIsRunning, NoOrphanedCall, Running,
         Gens, NoGen
<1>. QED
  BY <1>1, SpecIInv, PTL

\* A call that awaits a start attempt awaits one that will settle; above all,
\* an attempt never waits, through its own account refresh, for itself.
THEOREM NoWaiterIsStranded == Spec => []NoStrandedWaiter
<1>1. IInv => NoStrandedWaiter
  BY DEF IInv, WaitsForAttempt, InitializingIsChild, RefreshNeverWaits,
         NoStrandedWaiter
<1>. QED
  BY <1>1, SpecIInv, PTL

\* Every call that waits is held by what will settle it (call(), ensureStarted() and the
\* exit handler of a child), for any calls and any number of processes.
THEOREM EveryCallIsHeld == Spec => []CallsAreHeld
<1>1. NoOrphanedCall /\ NoStrandedWaiter => CallsAreHeld
  BY DEF CallsAreHeld
<1>. QED
  BY <1>1, NoCallIsOrphaned, NoWaiterIsStranded, PTL

-----------------------------------------------------------------------------
(* The steps of RpcContract: a step settles calls, and a program that has ended does *)
(* nothing for them.  That it settles every call is liveness, and stays with TLC.    *)

\* What a step may make of the phase of a call.
Moves(p) ==
  CASE p = "idle"    -> {"idle", "waiting", "sent", "failed"}
    [] p = "waiting" -> {"waiting", "sent", "failed"}
    [] p = "sent"    -> {"sent"} \cup Settled
    [] OTHER         -> {p}

\* One callback takes each call one step on, if any: of the calls that codex, a start or
\* an exit settles, none was settled before.
LEMMA StepMoves ==
  ASSUME IInv, Next, NEW c \in Calls
  PROVE  phase'[c] \in Moves(phase[c])
<1> USE DEF Moves, Settled, Callers
<1>0. DataOK /\ c \in Callers
  BY DEF IInv
<1>1. CASE Boot \/ Stop
  BY <1>0, <1>1 DEF DataOK, Boot, Stop
<1>2. ASSUME NEW d \in Calls, Call(d)
      PROVE  phase'[c] \in Moves(phase[c])
  BY <1>0, <1>2 DEF DataOK, Call, EnsureStarted, Issue, Await
<1>3. ASSUME NEW d \in Callers, Resume(d) \/ HandleResponse(d)
      PROVE  phase'[c] \in Moves(phase[c])
  BY <1>0, <1>3 DEF DataOK, Resume, HandleResponse, Issue
<1>4. ASSUME NEW g \in Gens, HandleInitialized(g)
      PROVE  phase'[c] \in Moves(phase[c])
  <2>1. c # g
    BY CallsAssumption, MaxSpawnAssumption DEF Gens
  <2>. QED
    BY <1>0, <1>4, <2>1 DEF DataOK, HandleInitialized, EnsureStarted, Issue, Await
<1>5. ASSUME NEW g \in Gens, ChildExit(g)
      PROVE  phase'[c] \in Moves(phase[c])
  BY <1>0, <1>5 DEF DataOK, ChildExit, RejectPendingRequests
<1>6. ASSUME NEW g \in Gens,
             HandleInitializeError(g) \/ FinishStart(g) \/ PipeError(g) \/ TimerFires(g)
      PROVE  phase' = phase
  BY <1>6 DEF HandleInitializeError, FinishStart, PipeError, TimerFires
<1>7. ASSUME NEW g \in Gens, Die(g)
      PROVE  phase' = phase
  BY <1>7 DEF Die
<1>8. phase' = phase => phase'[c] \in Moves(phase[c])
  BY <1>0 DEF DataOK
<1>. QED
  BY <1>1, <1>2, <1>3, <1>4, <1>5, <1>6, <1>7, <1>8 DEF Next, Boot, Stop

\* Every step is one of the contract, or changes nothing that callers see.
LEMMA StepContract == IInv /\ IInv' /\ [Next]_rtVars => [Contract!Progress]_Contract!vars
<1>. SUFFICES ASSUME IInv, IInv', [Next]_rtVars PROVE [Contract!Progress]_Contract!vars
  OBVIOUS
<1>1. CASE UNCHANGED rtVars
  BY <1>1 DEF rtVars, Contract!vars
<1>2. CASE Next /\ ~serverUp
  <2>1. UNCHANGED <<phase, serverUp>>
    BY <1>2 DEF Next, Boot, Stop, Call, Listening, Resume, HandleResponse,
       HandleInitialized, HandleInitializeError, FinishStart, Die, PipeError, ChildExit,
       TimerFires
  <2>. QED
    BY <2>1 DEF Contract!vars
<1>3. CASE Next /\ serverUp
  <2>1. /\ \A c \in Calls : phase'[c] \in Moves(phase[c])
        /\ phase \in [Callers -> {"idle", "waiting", "sent"} \cup Settled]
        /\ phase' \in [Callers -> {"idle", "waiting", "sent"} \cup Settled]
        /\ serverUp' \in BOOLEAN
    BY <1>3, StepMoves DEF IInv, DataOK, FlagsOK
  <2>. QED
    BY <1>3, <2>1 DEF Contract!Progress, Contract!Successors, Moves, Settled, Callers
<1>. QED
  BY <1>1, <1>2, <1>3

\* CodexRuntime keeps the contract of SessionRuntime, but for what must happen in the end:
\* each call runs idle, open, settled, through starts, exits and restarts in any order, and
\* settles once.
THEOREM CallsFollowContract == Spec => Contract!Init /\ [][Contract!Progress]_Contract!vars
<1>1. Init => Contract!Init
  BY DEF Init, Contract!Init, Callers
<1>. QED
  BY <1>1, StepContract, SpecIInv, PTL DEF Spec

-----------------------------------------------------------------------------
(* The runtime inside this system behaves as CodexRuntime says.              *)

LEMMA ApprovalsRefineRuntime == ApprovalsNext => [Next]_rtVars
  BY DEF ApprovalsNext, RuntimeStep, Runs, HandleServerRequest,
         HandleRequestResolved, RememberThreadOwner, Load, Reconnect,
         Disconnect, Deliver, Submit, HandleResolve

LEMMA RuntimeInv == ApprovalsSpec => []IInv
<1>1. ApprovalsInit => IInv
  BY InitIInv DEF ApprovalsInit
<1>2. IInv /\ [ApprovalsNext]_vars => IInv'
  <2>1. CASE ApprovalsNext
    BY <2>1, ApprovalsRefineRuntime, StepIInv
  <2>2. CASE UNCHANGED vars
    BY <2>2, StepIInv DEF vars
  <2>. QED
    BY <2>1, <2>2
<1>. QED
  BY <1>1, <1>2, PTL DEF ApprovalsSpec

-----------------------------------------------------------------------------
(* The invariant of requests and replies.                                    *)

\* What the runtime holds has been asked and not been replied to.
HeldIsOpen ==
  \A p \in pendingServerRequests :
    question[<<p.from, p.id>>] # "unasked" /\ replies[<<p.from, p.id>>] = 0

UnaskedIsUnreplied ==
  \A q \in Questions : question[q] = "unasked" => replies[q] = 0

\* A process that asked has been spawned, so no step of the runtime will make
\* it run again.
AskerIsSpawned == \A e \in pendingById : e.from <= spawned

\* The broker's table is a Map.
OneEntryPerId == \A e, f \in pendingById : e.id = f.id => e = f

AskInv ==
  /\ AskTypeOK
  /\ OneEntryPerId
  /\ HeldIsOpen
  /\ UnaskedIsUnreplied
  /\ AskerIsSpawned
  /\ RepliedOnce
  /\ PendingIsAnswerable

LEMMA InitAskInv == ApprovalsInit => AskInv
  BY DEF ApprovalsInit, AskInv, AskTypeOK, OneEntryPerId, HeldIsOpen, UnaskedIsUnreplied,
         AskerIsSpawned, RepliedOnce, PendingIsAnswerable

NoRevival ==
  /\ spawned' >= spawned
  /\ \A g \in Gens :
       g <= spawned /\ proc'[g] = "running" => proc[g] = "running"

LEMMA StartIsNoRevival == ASSUME DataOK, Start PROVE NoRevival
<1>1. spawned \in Nat /\ Gens \subseteq Nat
  BY MaxSpawnAssumption DEF DataOK, Gens
<1>2. CASE spawned' = spawned /\ proc' = proc
  BY <1>1, <1>2 DEF NoRevival
<1>3. CASE Spawn
  <2>1. spawned' = spawned + 1 /\ proc' = [proc EXCEPT ![spawned + 1] = "running"]
    BY <1>3 DEF Spawn
  <2>2. spawned' >= spawned
    BY <1>1, <2>1
  <2>3. \A g \in Gens : g <= spawned => g # spawned + 1
    BY <1>1
  <2>4. proc \in [Gens -> {"unborn", "running", "dead", "exited"}]
    BY DEF DataOK
  <2>5. \A g \in Gens : g <= spawned => proc'[g] = proc[g]
    BY <2>1, <2>3, <2>4
  <2>. QED
    BY <2>2, <2>5 DEF NoRevival
<1>. QED
  BY <1>2, <1>3 DEF Start

\* A step of the runtime starts no process twice.
LEMMA RuntimeIsNoRevival == ASSUME IInv, Next PROVE NoRevival
<1>1. DataOK /\ spawned \in Nat
  BY MaxSpawnAssumption DEF IInv, DataOK
<1>2. CASE Start
  BY <1>1, <1>2, StartIsNoRevival
<1>3. CASE spawned' = spawned /\ proc' = proc
  BY <1>1, <1>3 DEF NoRevival
<1>4. ASSUME NEW g \in Gens, Die(g) \/ ChildExit(g) PROVE NoRevival
  <2>1. \E v \in {"dead", "exited"} : proc' = [proc EXCEPT ![g] = v]
    BY <1>4 DEF Die, ChildExit
  <2>2. spawned' = spawned
    BY <1>4 DEF Die, ChildExit
  <2>. QED
    BY <1>1, <2>1, <2>2 DEF NoRevival, DataOK
<1>5. ASSUME NEW c \in Calls, Call(c) PROVE Start \/ (spawned' = spawned /\ proc' = proc)
  BY <1>5 DEF Call
<1>6. ASSUME NEW c \in Callers, Resume(c) \/ HandleResponse(c)
      PROVE  spawned' = spawned /\ proc' = proc
  BY <1>6 DEF Resume, HandleResponse
<1>7. ASSUME NEW g \in Gens,
             \/ HandleInitialized(g) \/ HandleInitializeError(g)
             \/ FinishStart(g) \/ PipeError(g)
      PROVE  spawned' = spawned /\ proc' = proc
  BY <1>7 DEF HandleInitialized, HandleInitializeError, FinishStart, PipeError
<1>8. ASSUME Boot \/ \E t \in Gens : TimerFires(t) PROVE Start
  BY <1>8 DEF Boot, TimerFires
<1>9. ASSUME Stop PROVE spawned' = spawned /\ proc' = proc
  BY <1>9 DEF Stop
<1>. QED
  BY <1>2, <1>3, <1>4, <1>5, <1>6, <1>7, <1>8, <1>9 DEF Next

LEMMA StepAskInv == IInv /\ AskInv /\ [ApprovalsNext]_vars => AskInv'
<1>. SUFFICES ASSUME IInv, AskInv, [ApprovalsNext]_vars PROVE AskInv'
  OBVIOUS
<1>0. spawned \in Nat /\ Gens \subseteq Nat /\ DataOK
  BY MaxSpawnAssumption DEF IInv, DataOK, Gens
<1>1. CASE RuntimeStep
  <2>1. UNCHANGED askVars /\ Next
    BY <1>1 DEF RuntimeStep, Runs
  <2>2. AskTypeOK' /\ OneEntryPerId' /\ HeldIsOpen' /\ UnaskedIsUnreplied' /\ RepliedOnce'
    BY <2>1 DEF askVars, AskInv, AskTypeOK, OneEntryPerId, HeldIsOpen, UnaskedIsUnreplied,
                RepliedOnce
  <2>3. \A e \in pendingById : e.from \in Gens
    BY DEF AskInv, AskTypeOK, Entries
  <2>4. spawned' \in Nat
    BY <2>1, StepIInv, MaxSpawnAssumption DEF IInv, DataOK
  <2>5. NoRevival
    BY <2>1, RuntimeIsNoRevival
  <2>6. AskerIsSpawned'
    <3>1. \A e \in pendingById' : e.from \in Nat /\ e.from <= spawned
      BY <1>0, <2>1, <2>3 DEF askVars, AskInv, AskerIsSpawned
    <3>2. spawned' >= spawned
      BY <2>5 DEF NoRevival
    <3>. QED
      BY <1>0, <2>4, <3>1, <3>2 DEF AskerIsSpawned
  <2>7. PendingIsAnswerable'
    BY <2>1, <2>3, <2>5
    DEF NoRevival, askVars, AskInv, AskerIsSpawned, PendingIsAnswerable, Has
  <2>. QED
    BY <2>2, <2>6, <2>7 DEF AskInv
<1>2. ASSUME NEW g \in Gens, NEW id \in Ids, NEW s \in Owners,
             HandleServerRequest(g, id, s)
      PROVE  AskInv'
  <2>. DEFINE card == [id |-> id, from |-> g]
             q == <<g, id>>
  <2>1. /\ question[q] = "unasked"
        /\ question' = [question EXCEPT ![q] = "open"]
        /\ pendingServerRequests' = Without(pendingServerRequests, id) \cup {card}
        /\ UNCHANGED <<rtVars, replies, crossed, threadOwners>>
    BY <1>2 DEF HandleServerRequest
  <2>2. /\ q \in Questions
        /\ card \in Cards
        /\ s \in Sessions \cup {NoSession}
    BY DEF Questions, Cards, Owners, AskInv, AskTypeOK
  <2>3. \/ s = NoSession /\ pendingById' = pendingById
        \/ s # NoSession /\ pendingById' = Without(pendingById, id)
                 \cup {[id |-> id, from |-> g, session |-> s]}
    BY <1>2 DEF HandleServerRequest, QueueApproval
  <2>4. AskTypeOK' /\ OneEntryPerId'
    BY <2>1, <2>2, <2>3 DEF AskInv, AskTypeOK, OneEntryPerId, Without, Entries
  <2>5. HeldIsOpen'
    <3>1. replies[q] = 0
      BY <2>1, <2>2 DEF AskInv, UnaskedIsUnreplied
    <3>2. question'[q] = "open" /\ \A r \in Questions : r # q => question'[r] = question[r]
      BY <2>1, <2>2 DEF AskInv, AskTypeOK
    <3>3. \A p \in pendingServerRequests : <<p.from, p.id>> \in Questions
      BY DEF AskInv, AskTypeOK, Cards, Questions
    <3>4. \A p \in pendingServerRequests :
            question'[<<p.from, p.id>>] # "unasked" /\ replies[<<p.from, p.id>>] = 0
      <4>1. ASSUME NEW p \in pendingServerRequests
            PROVE  /\ question'[<<p.from, p.id>>] # "unasked"
                   /\ replies[<<p.from, p.id>>] = 0
        <5>1. question[<<p.from, p.id>>] # "unasked" /\ replies[<<p.from, p.id>>] = 0
          BY DEF AskInv, HeldIsOpen
        <5>2. <<p.from, p.id>> \in Questions
          BY <3>3
        <5>. QED
          BY <3>2, <5>1, <5>2
      <4>. QED
        BY <4>1
    <3>. QED
      <4>1. \A p \in pendingServerRequests' : p \in pendingServerRequests \/ p = card
        BY <2>1 DEF Without
      <4>2. <<card.from, card.id>> = q
        OBVIOUS
      <4>3. replies' = replies
        BY <2>1
      <4>4. question'[q] # "unasked"
        BY <3>2
      <4>. QED
        BY <3>1, <3>4, <4>1, <4>2, <4>3, <4>4 DEF HeldIsOpen
  <2>6. UnaskedIsUnreplied' /\ RepliedOnce'
    BY <2>1, <2>2 DEF AskInv, AskTypeOK, UnaskedIsUnreplied, RepliedOnce
  <2>7. g <= spawned
    BY <1>0, <1>2 DEF HandleServerRequest, Asks, IInv, FutureIsBlank
  <2>8. AskerIsSpawned'
    BY <2>1, <2>3, <2>7 DEF AskInv, AskerIsSpawned, Without, rtVars
  <2>9. PendingIsAnswerable'
    <3>1. ASSUME NEW i, Has(pendingServerRequests, i) \/ i = id
          PROVE  Has(pendingServerRequests', i)
      <4>1. CASE i = id
        <5>1. card \in pendingServerRequests' /\ card.id = i
          BY <2>1, <4>1
        <5>. QED
          BY <5>1 DEF Has
      <4>2. CASE i # id
        <5>1. PICK p \in pendingServerRequests : p.id = i
          BY <3>1, <4>2 DEF Has
        <5>2. p \in pendingServerRequests'
          BY <2>1, <4>2, <5>1 DEF Without
        <5>. QED
          BY <5>1, <5>2 DEF Has
      <4>. QED
        BY <4>1, <4>2
    <3>2. proc' = proc
      BY <2>1 DEF rtVars
    <3>3. \A e \in pendingById' : e \in pendingById \/ e.id = id
      BY <2>3 DEF Without
    <3>. QED
      <4>1. \A e \in pendingById :
              proc[e.from] = "running" =>
                Has(pendingServerRequests, e.id) \/ <<e.from, e.id>> \in crossed
        BY DEF AskInv, PendingIsAnswerable
      <4>2. \A e \in pendingById' :
              proc[e.from] = "running" =>
                Has(pendingServerRequests', e.id) \/ <<e.from, e.id>> \in crossed
        BY <3>1, <3>3, <4>1
      <4>3. PendingIsAnswerable' =
              \A e \in pendingById' :
                proc'[e.from] = "running" =>
                  Has(pendingServerRequests', e.id) \/ <<e.from, e.id>> \in crossed'
        BY DEF PendingIsAnswerable, Has
      <4>4. crossed' = crossed
        BY <2>1
      <4>. QED
        BY <3>2, <4>2, <4>3, <4>4
  <2>. QED
    BY <2>4, <2>5, <2>6, <2>8, <2>9 DEF AskInv
<1>3. ASSUME NEW g \in Gens, NEW id \in Ids, HandleRequestResolved(g, id)
      PROVE  AskInv'
  <2>1. /\ question' = [question EXCEPT ![<<g, id>>] = "closed"]
        /\ question[<<g, id>>] # "unasked"
        /\ pendingById' = Without(pendingById, id)
        /\ UNCHANGED <<rtVars, replies, pendingServerRequests, crossed, threadOwners>>
    BY <1>3 DEF HandleRequestResolved, SettleApproval
  <2>2. AskTypeOK' /\ OneEntryPerId'
    BY <2>1 DEF AskInv, AskTypeOK, OneEntryPerId, Without
  <2>3. HeldIsOpen' /\ UnaskedIsUnreplied' /\ RepliedOnce'
    BY <2>1 DEF AskInv, AskTypeOK, HeldIsOpen, UnaskedIsUnreplied, RepliedOnce,
                Questions, Cards
  <2>4. AskerIsSpawned' /\ PendingIsAnswerable'
    BY <2>1 DEF AskInv, AskerIsSpawned, PendingIsAnswerable, Without, Has, rtVars
  <2>. QED
    BY <2>2, <2>3, <2>4 DEF AskInv
<1>4. ASSUME NEW c \in Clients, NEW card \in Cards, HandleResolve(c, card)
      PROVE  AskInv'
  <2>1. CASE UNCHANGED askVars
    BY <1>4, <2>1 DEF HandleResolve, askVars, rtVars, AskInv, AskTypeOK,
         OneEntryPerId, HeldIsOpen, UnaskedIsUnreplied, RepliedOnce, AskerIsSpawned,
         PendingIsAnswerable, Has
  <2>2. ASSUME NEW entry \in pendingById, NEW asked \in pendingServerRequests,
               entry.id = asked.id, ResolveServerRequest(card, entry, asked),
               UNCHANGED <<rtVars, threadOwners>>
        PROVE  AskInv'
    <3>. DEFINE q == <<asked.from, asked.id>>
    <3>1. /\ q \in Questions
          /\ replies[q] = 0
          /\ question[q] # "unasked"
      BY DEF AskInv, AskTypeOK, HeldIsOpen, Questions, Cards
    <3>2. pendingServerRequests' = pendingServerRequests \ {asked}
      BY <2>2 DEF ResolveServerRequest
    <3>3. \A p \in pendingServerRequests' : <<p.from, p.id>> # q
      BY <3>2 DEF AskInv, AskTypeOK, Cards
    <3>4. CASE /\ Reply(asked) /\ pendingById' = Without(pendingById, asked.id)
               /\ UNCHANGED crossed
      <4>1. /\ replies' = [replies EXCEPT ![q] = @ + 1]
            /\ question' = [question EXCEPT ![q] =
                  IF @ = "open" /\ child = asked.from THEN "answered" ELSE @]
        BY <3>4 DEF Reply
      <4>2. AskTypeOK' /\ OneEntryPerId'
        BY <2>2, <3>1, <3>2, <3>4, <4>1 DEF AskInv, AskTypeOK, OneEntryPerId, Without
      <4>3. HeldIsOpen'
        BY <3>1, <3>2, <3>3, <4>1
        DEF AskInv, AskTypeOK, HeldIsOpen, Questions, Cards
      <4>4. UnaskedIsUnreplied' /\ RepliedOnce'
        BY <3>1, <4>1 DEF AskInv, AskTypeOK, UnaskedIsUnreplied, RepliedOnce
      <4>5. AskerIsSpawned'
        BY <2>2, <3>4 DEF AskInv, AskerIsSpawned, Without, rtVars
      <4>6. PendingIsAnswerable'
        BY <2>2, <3>2, <3>4
        DEF AskInv, PendingIsAnswerable, Without, Has, rtVars
      <4>. QED
        BY <4>2, <4>3, <4>4, <4>5, <4>6 DEF AskInv
    <3>5. ASSUME UNCHANGED <<replies, question, pendingById>>,
                 crossed' \subseteq Questions
          PROVE  /\ AskTypeOK' /\ OneEntryPerId' /\ HeldIsOpen' /\ UnaskedIsUnreplied'
                 /\ RepliedOnce' /\ AskerIsSpawned'
      BY <2>2, <3>2, <3>5 DEF AskInv, AskTypeOK, OneEntryPerId, HeldIsOpen,
         UnaskedIsUnreplied, RepliedOnce, AskerIsSpawned, rtVars
    <3>6. CASE MayThrow /\ UNCHANGED <<replies, question, pendingById, crossed>>
      <4>1. \A g \in Gens : proc[g] # "running"
        BY <3>6 DEF MayThrow, IInv, RunningIsChild
      <4>2. PendingIsAnswerable'
        BY <2>2, <3>6, <4>1 DEF PendingIsAnswerable, AskInv, AskTypeOK, Entries, rtVars
      <4>. QED
        BY <3>5, <3>6, <4>2 DEF AskInv, AskTypeOK
    <3>7. CASE Mismatch(card, entry, asked)
      <4>1. /\ UNCHANGED <<replies, question, pendingById>>
            /\ crossed' = crossed \cup {<<card.from, card.id>>, <<entry.from, entry.id>>}
        BY <3>7 DEF Mismatch
      <4>2. crossed' \subseteq Questions
        BY <4>1 DEF AskInv, AskTypeOK, Questions, Cards, Entries
      <4>3. ASSUME NEW e \in pendingById', proc'[e.from] = "running"
            PROVE  Has(pendingServerRequests', e.id) \/ <<e.from, e.id>> \in crossed'
        <5>1. CASE e.id = asked.id
          <6>1. e = entry
            BY <2>2, <4>1, <5>1 DEF AskInv, OneEntryPerId
          <6>. QED
            BY <4>1, <6>1
        <5>2. CASE e.id # asked.id
          <6>1. Has(pendingServerRequests, e.id) \/ <<e.from, e.id>> \in crossed
            BY <2>2, <4>1, <4>3 DEF AskInv, PendingIsAnswerable, rtVars
          <6>2. Has(pendingServerRequests, e.id) => Has(pendingServerRequests', e.id)
            BY <3>2, <5>2 DEF Has
          <6>. QED
            BY <4>1, <6>1, <6>2
        <5>. QED
          BY <5>1, <5>2
      <4>4. PendingIsAnswerable'
        BY <4>3 DEF PendingIsAnswerable, Has
      <4>. QED
        BY <3>5, <4>1, <4>2, <4>4 DEF AskInv
    <3>. QED
      BY <2>2, <3>4, <3>6, <3>7 DEF ResolveServerRequest, SettleApproval
  <2>3. CASE \E entry \in pendingById, asked \in pendingServerRequests :
               /\ entry.id = card.id /\ asked.id = card.id
               /\ ResolveServerRequest(card, entry, asked)
    <3>1. PICK entry \in pendingById, asked \in pendingServerRequests :
            /\ entry.id = asked.id
            /\ ResolveServerRequest(card, entry, asked)
      BY <2>3
    <3>2. UNCHANGED <<rtVars, threadOwners>>
      BY <1>4 DEF HandleResolve
    <3>. QED
      BY <2>2, <3>1, <3>2
  <2>. QED
    BY <1>4, <2>1, <2>3 DEF HandleResolve, askVars
<1>5. CASE \E t \in Threads, s \in Sessions : RememberThreadOwner(t, s)
  <2>1. PICK t \in Threads, s \in Sessions : RememberThreadOwner(t, s)
    BY <1>5
  <2>2. AskTypeOK' /\ OneEntryPerId'
    BY <2>1 DEF RememberThreadOwner, AskInv, AskTypeOK, OneEntryPerId
  <2>. QED
    BY <2>1, <2>2 DEF RememberThreadOwner, rtVars, AskInv, HeldIsOpen,
         UnaskedIsUnreplied, RepliedOnce, AskerIsSpawned, PendingIsAnswerable, Has
<1>6. CASE UNCHANGED <<rtVars, askVars>>
  BY <1>6 DEF rtVars, askVars, AskInv, AskTypeOK, OneEntryPerId, HeldIsOpen,
       UnaskedIsUnreplied, RepliedOnce, AskerIsSpawned, PendingIsAnswerable, Has
<1>7. ASSUME NEW c \in Clients,
             \/ Load(c) \/ Reconnect(c) \/ Disconnect(c) \/ Deliver(c)
             \/ \E card \in Cards : Submit(c, card)
      PROVE  UNCHANGED <<rtVars, askVars>>
  BY <1>7 DEF Load, Reconnect, Disconnect, Deliver, Submit
<1>8. CASE UNCHANGED vars
  BY <1>6, <1>8 DEF vars
<1>9. CASE ApprovalsNext
  BY <1>1, <1>2, <1>3, <1>4, <1>5, <1>6, <1>7, <1>9 DEF ApprovalsNext
<1>. QED
  BY <1>8, <1>9

LEMMA SpecAskInv == ApprovalsSpec => []AskInv
<1>1. ApprovalsSpec => [][ApprovalsNext]_vars
  BY DEF ApprovalsSpec
<1>2. ApprovalsSpec => AskInv
  BY InitAskInv DEF ApprovalsSpec
<1>. QED
  BY <1>1, <1>2, RuntimeInv, StepAskInv, PTL

-----------------------------------------------------------------------------

\* No request of codex is replied to twice, whatever pages, restarts, failed
\* writes and reused ids do: the runtime deletes its entry in the stretch that
\* writes the reply.
THEOREM NoSecondReply == ApprovalsSpec => []RepliedOnce
  BY SpecAskInv, PTL DEF AskInv

\* A card whose request a running codex still awaits can be answered: an entry
\* of the broker that the runtime lacks belongs to a process that is gone, or a
\* decision mixed it up with the request of another.  It rests on the runtime
\* having one process: a write can throw only when none runs.
THEOREM LivePendingIsAnswerable == ApprovalsSpec => []PendingIsAnswerable
  BY SpecAskInv, PTL DEF AskInv

-----------------------------------------------------------------------------
(* What messages on their way to a page make of its cards.                   *)

\* A message that is sent decides what is shown of its id, and of no other.
LEMMA LeaveAppend ==
  ASSUME NEW q \in Seq(Messages), NEW m \in Messages, NEW shown, NEW id
  PROVE  Leave(Append(q, m), shown, id) <=> IF m.id = id THEN m.kind = "requested"
                                            ELSE Leave(q, shown, id)
<1>. DEFINE n == Len(q) + 1
            a == Append(q, m)
<1>1. /\ Len(q) \in Nat /\ DOMAIN q = 1..Len(q) /\ DOMAIN a = 1..n
      /\ \A i \in DOMAIN q : a[i] = q[i]
      /\ a[n] = m
  BY AppendIs
<1>2. n \in DOMAIN a /\ \A i \in DOMAIN a : i = n \/ i \in DOMAIN q
  BY <1>1
<1>. HIDE DEF a
<1>3. ASSUME m.id = id PROVE Leave(a, shown, id) <=> m.kind = "requested"
  <2>1. n \in About(a, id) /\ \A i \in About(a, id) : i <= n
    BY <1>1, <1>2, <1>3 DEF About
  <2>2. \A i \in About(a, id) : (\A j \in About(a, id) : j <= i) => i = n
    BY <1>1, <2>1 DEF About
  <2>. QED
    BY <1>1, <1>3, <2>1, <2>2 DEF Leave
<1>4. ASSUME m.id # id PROVE Leave(a, shown, id) <=> Leave(q, shown, id)
  <2>1. About(a, id) = About(q, id)
    BY <1>1, <1>2, <1>4 DEF About
  <2>2. \A i \in About(q, id) : a[i] = q[i]
    BY <1>1 DEF About
  <2>. QED
    BY <1>4, <2>1, <2>2 DEF Leave
<1>. QED
  BY <1>3, <1>4 DEF a

\* Applying the first message, as queueApproval() and resolveApproval() do, changes
\* nothing of what is shown in the end.
LEMMA LeaveTail ==
  ASSUME NEW q \in Seq(Messages), q # <<>>, NEW shown \in SUBSET Cards, NEW id
  PROVE  Leave(Tail(q), Apply(shown, Head(q)), id) <=> Leave(q, shown, id)
<1>. DEFINE t == Tail(q)
            next == Apply(shown, Head(q))
<1>1. /\ Head(q) \in Messages /\ Head(q) = q[1]
      /\ Len(q) \in Nat \ {0} /\ DOMAIN q = 1..Len(q) /\ DOMAIN t = 1..(Len(q) - 1)
      /\ \A i \in DOMAIN t : i + 1 \in DOMAIN q /\ t[i] = q[i + 1]
  BY TailIs
<1>2. Has(next, id) <=> IF q[1].id = id THEN q[1].kind = "requested" ELSE Has(shown, id)
  <2>1. Head(q).kind \in {"requested", "resolved"}
    BY <1>1 DEF Messages
  <2>2. CASE Head(q).kind = "resolved"
    BY <1>1, <2>2 DEF Apply, Without, Has
  <2>3. CASE Head(q).kind = "requested" /\ Has(shown, Head(q).id)
    BY <1>1, <2>3 DEF Apply, Has
  <2>4. CASE Head(q).kind = "requested" /\ ~Has(shown, Head(q).id)
    <3>. DEFINE card == [id |-> Head(q).id, from |-> Head(q).from]
    <3>1. next = shown \cup {card} /\ card.id = Head(q).id
      BY <2>4 DEF Apply
    <3>. QED
      BY <1>1, <2>4, <3>1 DEF Has
  <2>. QED
    BY <2>1, <2>2, <2>3, <2>4
<1>. HIDE DEF t, next
<1>3. \A i \in DOMAIN q : i = 1 \/ i - 1 \in DOMAIN t
  BY <1>1
<1>4. \A i \in DOMAIN t : i \in About(t, id) <=> i + 1 \in About(q, id)
  BY <1>1 DEF About
<1>5. ASSUME About(t, id) = {} PROVE Leave(t, next, id) <=> Leave(q, shown, id)
  <2>1. \A i \in About(q, id) : i = 1
    BY <1>1, <1>3, <1>4, <1>5 DEF About
  <2>2. Leave(t, next, id) <=> Has(next, id)
    BY <1>5 DEF Leave
  <2>3. 1 \in About(q, id) <=> q[1].id = id
    BY <1>1 DEF About
  <2>4. CASE q[1].id = id
    <3>1. 1 \in About(q, id) /\ \A i \in About(q, id) : i <= 1
      BY <2>1, <2>3, <2>4
    <3>. QED
      BY <1>2, <2>1, <2>2, <2>4, <3>1 DEF Leave
  <2>5. CASE q[1].id # id
    <3>1. About(q, id) = {}
      BY <2>1, <2>3, <2>5
    <3>. QED
      BY <1>2, <2>2, <2>5, <3>1 DEF Leave
  <2>. QED
    BY <2>4, <2>5
<1>6. ASSUME About(t, id) # {} PROVE Leave(t, next, id) <=> Leave(q, shown, id)
  <2>1. About(q, id) # {} /\ \A i \in About(q, id) : i \in Nat
    BY <1>1, <1>4, <1>6 DEF About
  <2>2. ASSUME NEW i \in About(t, id), t[i].kind = "requested", \A j \in About(t, id) : j <= i
        PROVE  Leave(q, shown, id)
    <3>1. i \in Nat /\ i + 1 \in About(q, id) /\ q[i + 1].kind = "requested"
      BY <1>1, <1>4, <2>2 DEF About
    <3>2. \A j \in About(q, id) : j <= i + 1
      <4>1. ASSUME NEW j \in About(q, id) PROVE j <= i + 1
        <5>1. j = 1 \/ (j - 1 \in DOMAIN t /\ j \in Nat)
          BY <1>1, <1>3 DEF About
        <5>2. CASE j - 1 \in DOMAIN t /\ j \in Nat
          <6>1. j - 1 \in About(t, id)
            BY <1>4, <5>2
          <6>. QED
            BY <2>2, <3>1, <5>2, <6>1
        <5>. QED
          BY <3>1, <5>1, <5>2
      <4>. QED
        BY <4>1
    <3>. QED
      BY <3>1, <3>2 DEF Leave
  <2>3. ASSUME NEW i \in About(q, id), q[i].kind = "requested", \A j \in About(q, id) : j <= i
        PROVE  Leave(t, next, id)
    <3>1. PICK k \in About(t, id) : TRUE
      BY <1>6
    <3>2. k \in Nat \ {0} /\ k + 1 <= i
      BY <1>1, <1>4, <2>3, <3>1 DEF About
    <3>3. i \in Nat /\ i # 1
      <4>1. i \in Nat
        BY <2>1, <2>3
      <4>. QED
        BY <3>2, <4>1
    <3>4. i - 1 \in About(t, id) /\ t[i - 1].kind = "requested"
      BY <1>1, <1>3, <1>4, <2>3, <3>3 DEF About
    <3>5. \A j \in About(t, id) : j <= i - 1
      BY <1>1, <1>4, <2>3, <3>3 DEF About
    <3>. QED
      BY <3>4, <3>5 DEF Leave
  <2>. QED
    BY <1>6, <2>1, <2>2, <2>3 DEF Leave
<1>. QED
  BY <1>5, <1>6 DEF t, next

\* What registerConnection() sends leaves a card for each request of the session, and in
\* an empty store no other.
LEMMA LeaveReplay ==
  ASSUME NEW c \in Clients, IsFiniteSet(pendingById), pendingById \subseteq Entries
  PROVE  /\ Replay(c) \in Seq(Messages)
         /\ \A e \in pendingById : \A shown :
              e.session = SessionOf[c] => Leave(Replay(c), shown, e.id)
         /\ \A id : Leave(Replay(c), {}, id) => Has(pendingById, id)
<1>. DEFINE mine == {e \in pendingById : e.session = SessionOf[c]}
            S == {Requested(e) : e \in mine}
            q == Replay(c)
<1>1. IsFiniteSet(S)
  <2>1. IsFiniteSet(mine)
    BY FS_Subset
  <2>2. [e \in mine |-> Requested(e)] \in Surjection(mine, S)
    BY DEF Surjection
  <2>. QED
    BY <2>1, <2>2, FS_Surjection
<1>2. S \subseteq Messages /\ \A m \in S : m.kind = "requested"
  BY DEF Requested, Messages, Entries
<1>3. q = SetToSeq(S)
  BY DEF Replay
<1>4. /\ q \in Seq(S) /\ q \in Seq(Messages)
      /\ \A m \in S : \E i \in DOMAIN q : q[i] = m
  <2>1. q \in Seq(S) /\ \A m \in S : \E i \in DOMAIN q : q[i] = m
    BY <1>1, <1>3, SetToSeqIs
  <2>2. q \in Seq(Messages)
    <3>. HIDE DEF S, q
    <3>. QED
      BY <1>2, <2>1
  <2>. QED
    BY <2>1, <2>2
<1>5. /\ \A i \in DOMAIN q : q[i] \in S /\ q[i].kind = "requested"
      /\ Len(q) \in Nat /\ DOMAIN q = 1..Len(q)
  <2>. HIDE DEF S, q
  <2>. QED
    BY <1>2, <1>4
<1>6. ASSUME NEW e \in pendingById, NEW shown, e.session = SessionOf[c]
      PROVE  Leave(q, shown, e.id)
  <2>1. Requested(e) \in S /\ Requested(e).id = e.id
    BY <1>6 DEF Requested
  <2>2. About(q, e.id) # {} /\ About(q, e.id) \subseteq 1..Len(q)
    BY <1>4, <1>5, <2>1 DEF About
  <2>3. \E last \in About(q, e.id) : \A i \in About(q, e.id) : i <= last
    <3>. HIDE DEF S, q
    <3>. QED
      BY <1>5, <2>2, GreatestIs
  <2>. QED
    BY <1>5, <2>3 DEF Leave, About
<1>7. ASSUME NEW id, Leave(q, {}, id) PROVE Has(pendingById, id)
  <2>1. PICK i \in DOMAIN q : q[i].id = id
    BY <1>7 DEF Leave, Has, About
  <2>2. PICK e \in mine : q[i] = Requested(e)
    BY <1>5
  <2>. QED
    BY <2>1, <2>2 DEF Requested, Has
<1>. QED
  BY <1>4, <1>6, <1>7

-----------------------------------------------------------------------------
(* The invariant of cards.                                                   *)

\* The broker holds finitely many requests: they are sent one by one.
CardsTypes ==
  /\ online \subseteq Clients
  /\ inbox \in [Clients -> Seq(Messages)]
  /\ cards \in [Clients -> SUBSET Cards]
  /\ IsFiniteSet(pendingById)

\* What the pages will show, with the types, is inductive.
CardsInv == CardsTypes /\ CardsArePending

\* What notifySession() and broadcast() do to every page.
LEMMA NotifyShows ==
  ASSUME CardsTypes, NEW to, NEW m \in Messages, Notify(to, m), UNCHANGED cards
  PROVE  /\ inbox' \in [Clients -> Seq(Messages)]
         /\ \A c \in Clients : \A id :
              WillShow(c, id)' <=> IF c \in to /\ m.id = id THEN m.kind = "requested"
                                   ELSE WillShow(c, id)
<1>1. ASSUME NEW c \in Clients, NEW id
      PROVE  /\ inbox'[c] \in Seq(Messages)
             /\ WillShow(c, id)' <=> IF c \in to /\ m.id = id THEN m.kind = "requested"
                                     ELSE WillShow(c, id)
  <2>1. inbox[c] \in Seq(Messages)
    BY DEF CardsTypes
  <2>2. CASE c \in to
    <3>1. inbox'[c] = Append(inbox[c], m) /\ cards'[c] = cards[c]
      BY <2>2 DEF Notify
    <3>2. inbox'[c] \in Seq(Messages)
      BY <2>1, <3>1
    <3>3. Leave(inbox'[c], cards'[c], id) <=> IF m.id = id THEN m.kind = "requested"
                                              ELSE Leave(inbox[c], cards[c], id)
      BY <2>1, <3>1, LeaveAppend
    <3>. QED
      BY <2>2, <3>2, <3>3 DEF WillShow
  <2>3. CASE c \notin to
    <3>1. inbox'[c] = inbox[c] /\ cards'[c] = cards[c]
      BY <2>3 DEF Notify
    <3>. QED
      BY <2>1, <2>3, <3>1 DEF WillShow
  <2>. QED
    BY <2>2, <2>3
<1>2. inbox' = [c \in Clients |-> IF c \in to THEN Append(inbox[c], m) ELSE inbox[c]]
  BY DEF Notify
<1>. QED
  BY <1>1, <1>2

\* A request that is settled leaves the broker, and every page that is connected hears.
LEMMA SettleKeepsCards ==
  ASSUME CardsInv, NEW card \in Cards, SettleApproval(card), UNCHANGED <<online, cards, missed>>
  PROVE  CardsInv'
<1>1. /\ pendingById' = Without(pendingById, card.id)
      /\ Notify(online, Resolved(card))
  BY DEF SettleApproval
<1>2. /\ Resolved(card) \in Messages
      /\ Resolved(card).id = card.id /\ Resolved(card).kind = "resolved"
  BY DEF Resolved, Messages, Cards
<1>3. /\ inbox' \in [Clients -> Seq(Messages)]
      /\ \A c \in Clients : \A id :
           WillShow(c, id)' <=> IF c \in online /\ card.id = id THEN FALSE ELSE WillShow(c, id)
  BY <1>1, <1>2, NotifyShows DEF CardsInv
<1>4. CardsTypes'
  <2>1. IsFiniteSet(pendingById')
    BY <1>1, FS_Subset DEF CardsInv, CardsTypes, Without
  <2>. QED
    BY <1>3, <2>1 DEF CardsInv, CardsTypes
<1>5. PendingIsShown'
  <2>1. \A e \in pendingById' : e \in pendingById /\ e.id # card.id
    BY <1>1 DEF Without
  <2>2. \A e \in pendingById' : \A c \in Members(e.session) : WillShow(c, e.id)'
    BY <1>3, <2>1 DEF CardsInv, CardsTypes, CardsArePending, PendingIsShown, Members
  <2>3. \A x : Members(x)' = Members(x)
    BY DEF Members
  <2>. QED
    BY <2>2, <2>3 DEF PendingIsShown
<1>6. NoGhostCard'
  <2>1. \A id : Has(pendingById, id) /\ id # card.id => Has(pendingById, id)'
    BY <1>1 DEF Without, Has
  <2>2. \A c \in online \ missed, id \in Ids : WillShow(c, id)' => id # card.id /\ WillShow(c, id)
    BY <1>3 DEF CardsInv, CardsTypes
  <2>3. \A c \in online \ missed, id \in Ids : WillShow(c, id)' => Has(pendingById, id)'
    BY <2>1, <2>2 DEF CardsInv, CardsArePending, NoGhostCard
  <2>. QED
    BY <2>3 DEF NoGhostCard
<1>. QED
  BY <1>4, <1>5, <1>6 DEF CardsInv, CardsArePending

\* A request that comes in: every page of its session hears.  An older request with its id
\* leaves the broker with it, and its card stays, for the new one.
LEMMA QueueKeepsCards ==
  ASSUME CardsInv, NEW card \in Cards, NEW s \in Sessions \cup {NoSession}, QueueApproval(card, s),
         UNCHANGED <<online, cards, missed>>
  PROVE  CardsInv'
<1>1. CASE s = NoSession
  <2>1. UNCHANGED <<pendingById, inbox, online, cards, missed>>
    BY <1>1 DEF QueueApproval
  <2>. QED
    BY <2>1 DEF CardsInv, CardsTypes, CardsArePending, PendingIsShown, NoGhostCard, Members,
       WillShow, Has
<1>2. CASE s # NoSession
  <2>. DEFINE entry == [id |-> card.id, from |-> card.from, session |-> s]
  <2>1. /\ pendingById' = Without(pendingById, card.id) \cup {entry}
        /\ Notify(Members(s), Requested(card))
    BY <1>2 DEF QueueApproval
  <2>2. /\ Requested(card) \in Messages
        /\ Requested(card).id = card.id /\ Requested(card).kind = "requested"
    BY DEF Requested, Messages, Cards
  <2>3. /\ inbox' \in [Clients -> Seq(Messages)]
        /\ \A c \in Clients : \A id :
             WillShow(c, id)' <=> IF c \in Members(s) /\ card.id = id THEN TRUE ELSE WillShow(c, id)
    BY <2>1, <2>2, NotifyShows DEF CardsInv
  <2>4. CardsTypes'
    <3>1. IsFiniteSet(Without(pendingById, card.id))
      BY FS_Subset DEF CardsInv, CardsTypes, Without
    <3>2. IsFiniteSet(pendingById')
      BY <2>1, <3>1, FS_AddElement
    <3>. QED
      BY <2>3, <3>2 DEF CardsInv, CardsTypes
  <2>5. PendingIsShown'
    <3>1. \A e \in pendingById' : e = entry \/ e \in pendingById
      BY <2>1 DEF Without
    <3>2. entry.id = card.id /\ entry.session = s
      OBVIOUS
    <3>3. \A e \in pendingById' : \A c \in Members(e.session) : WillShow(c, e.id)'
      BY <2>3, <3>1, <3>2 DEF CardsInv, CardsTypes, CardsArePending, PendingIsShown, Members
    <3>4. \A x : Members(x)' = Members(x)
      BY DEF Members
    <3>. QED
      BY <3>3, <3>4 DEF PendingIsShown
  <2>6. NoGhostCard'
    <3>1. \A id : Has(pendingById, id) \/ id = card.id => Has(pendingById, id)'
      <4>1. entry \in pendingById' /\ entry.id = card.id
        BY <2>1
      <4>. QED
        BY <2>1, <4>1 DEF Without, Has
    <3>2. \A c \in online \ missed, id \in Ids : WillShow(c, id)' => id = card.id \/ WillShow(c, id)
      BY <2>3 DEF CardsInv, CardsTypes
    <3>3. \A c \in online \ missed, id \in Ids : WillShow(c, id)' => Has(pendingById, id)'
      BY <3>1, <3>2 DEF CardsInv, CardsArePending, NoGhostCard
    <3>. QED
      BY <3>3 DEF NoGhostCard
  <2>. QED
    BY <2>4, <2>5, <2>6 DEF CardsInv, CardsArePending
<1>. QED
  BY <1>1, <1>2

\* A page that connects is sent what there is; one that was connected before keeps cards.
LEMMA ConnectKeepsCards ==
  ASSUME CardsInv, AskInv, NEW c \in Clients, Load(c) \/ Reconnect(c)
  PROVE  CardsInv'
<1>1. /\ c \notin online /\ online' = online \cup {c} /\ inbox' = [inbox EXCEPT ![c] = Replay(c)]
      /\ cards' \in [Clients -> SUBSET Cards] /\ \A d \in Clients \ {c} : cards'[d] = cards[d]
      /\ missed' \subseteq missed /\ \A d \in missed \ missed' : d = c
      /\ (cards'[c] = {} \/ c \in missed')
      /\ pendingById' = pendingById
  BY DEF Load, Reconnect, Connect, CardsInv, CardsTypes, askVars
<1>2. /\ Replay(c) \in Seq(Messages)
      /\ \A e \in pendingById : \A shown : e.session = SessionOf[c] => Leave(Replay(c), shown, e.id)
      /\ \A id : Leave(Replay(c), {}, id) => Has(pendingById, id)
  BY LeaveReplay DEF AskInv, AskTypeOK, CardsInv, CardsTypes
<1>3. /\ inbox'[c] = Replay(c) /\ \A d \in Clients \ {c} : inbox'[d] = inbox[d]
      /\ CardsTypes'
  BY <1>1, <1>2 DEF CardsInv, CardsTypes
<1>4. \A d \in Clients \ {c} : \A id : WillShow(d, id)' <=> WillShow(d, id)
  BY <1>1, <1>3 DEF WillShow
<1>5. PendingIsShown'
  <2>1. \A e \in pendingById : e.session = SessionOf[c] => WillShow(c, e.id)'
    BY <1>2, <1>3 DEF WillShow
  <2>2. \A e \in pendingById, d \in online : SessionOf[d] = e.session => WillShow(d, e.id)
    BY DEF CardsInv, CardsArePending, PendingIsShown, Members
  <2>3. \A e \in pendingById, d \in online' : SessionOf[d] = e.session => WillShow(d, e.id)'
    BY <1>1, <1>4, <2>1, <2>2 DEF CardsInv, CardsTypes
  <2>. QED
    BY <1>1, <2>3 DEF PendingIsShown, Members
<1>6. NoGhostCard'
  <2>1. c \notin missed' => \A id : WillShow(c, id)' => Has(pendingById, id)
    BY <1>1, <1>2, <1>3 DEF WillShow
  <2>2. \A d \in online' \ missed', id \in Ids : WillShow(d, id)' => Has(pendingById, id)
    BY <1>1, <1>4, <2>1 DEF CardsInv, CardsTypes, CardsArePending, NoGhostCard
  <2>. QED
    BY <1>1, <2>2 DEF NoGhostCard, Has
<1>. QED
  BY <1>3, <1>5, <1>6 DEF CardsInv, CardsArePending

\* A page that loses its socket loses what was on its way, and counts as one that missed it.
LEMMA DisconnectKeepsCards ==
  ASSUME CardsInv, NEW c \in Clients, Disconnect(c)
  PROVE  CardsInv'
<1>1. /\ online' = online \ {c} /\ inbox' = [inbox EXCEPT ![c] = <<>>] /\ cards' = cards
      /\ missed' = missed \cup {c} /\ pendingById' = pendingById
  BY DEF Disconnect, askVars
<1>2. \A d \in online' : \A id : WillShow(d, id)' <=> WillShow(d, id)
  BY <1>1 DEF WillShow, CardsInv, CardsTypes
<1>3. CardsTypes'
  BY <1>1 DEF CardsInv, CardsTypes
<1>4. PendingIsShown'
  BY <1>1, <1>2 DEF CardsInv, CardsArePending, PendingIsShown, Members
<1>5. NoGhostCard'
  BY <1>1, <1>2 DEF CardsInv, CardsArePending, NoGhostCard, Has
<1>. QED
  BY <1>3, <1>4, <1>5 DEF CardsInv, CardsArePending

\* What is sent need only arrive.
LEMMA DeliverKeepsCards ==
  ASSUME CardsInv, NEW c \in Clients, Deliver(c)
  PROVE  CardsInv'
<1>1. /\ inbox[c] \in Seq(Messages) /\ inbox[c] # <<>> /\ cards[c] \in SUBSET Cards
      /\ inbox' = [inbox EXCEPT ![c] = Tail(inbox[c])]
      /\ cards' = [cards EXCEPT ![c] = Apply(cards[c], Head(inbox[c]))]
      /\ UNCHANGED <<online, missed, pendingById>>
  BY DEF Deliver, CardsInv, CardsTypes, askVars
<1>2. Tail(inbox[c]) \in Seq(Messages) /\ Head(inbox[c]) \in Messages
  BY <1>1, TailIs
<1>3. Apply(cards[c], Head(inbox[c])) \in SUBSET Cards
  BY <1>1, <1>2 DEF Apply, Without, Messages, Cards
<1>4. CardsTypes'
  BY <1>1, <1>2, <1>3 DEF CardsInv, CardsTypes
<1>5. \A d \in Clients : \A id : WillShow(d, id)' <=> WillShow(d, id)
  <2>1. \A id : WillShow(c, id)' <=> WillShow(c, id)
    BY <1>1, LeaveTail DEF WillShow, CardsInv, CardsTypes
  <2>2. \A d \in Clients \ {c} : \A id : WillShow(d, id)' <=> WillShow(d, id)
    BY <1>1 DEF WillShow, CardsInv, CardsTypes
  <2>. QED
    BY <2>1, <2>2
<1>6. PendingIsShown'
  BY <1>1, <1>5 DEF CardsInv, CardsTypes, CardsArePending, PendingIsShown, Members
<1>7. NoGhostCard'
  BY <1>1, <1>5 DEF CardsInv, CardsTypes, CardsArePending, NoGhostCard, Has
<1>. QED
  BY <1>4, <1>6, <1>7 DEF CardsInv, CardsArePending

LEMMA StepCardsInv == AskInv /\ CardsInv /\ [ApprovalsNext]_vars => CardsInv'
<1>. SUFFICES ASSUME AskInv, CardsInv, [ApprovalsNext]_vars PROVE CardsInv'
  OBVIOUS
<1>1. CASE UNCHANGED <<pendingById, inbox, online, cards, missed>>
  BY <1>1 DEF CardsInv, CardsTypes, CardsArePending, PendingIsShown, NoGhostCard, Members,
     WillShow, Has
<1>2. ASSUME NEW g \in Gens, NEW id \in Ids, NEW s \in Owners, HandleServerRequest(g, id, s)
      PROVE  CardsInv'
  <2>1. s \in Sessions \cup {NoSession}
    BY DEF Owners, AskInv, AskTypeOK
  <2>2. [id |-> id, from |-> g] \in Cards
    BY DEF Cards
  <2>3. /\ QueueApproval([id |-> id, from |-> g], s)
        /\ UNCHANGED <<online, cards, missed>>
    BY <1>2 DEF HandleServerRequest
  <2>. QED
    BY <2>1, <2>2, <2>3, QueueKeepsCards
<1>3. ASSUME NEW g \in Gens, NEW id \in Ids, HandleRequestResolved(g, id)
      PROVE  CardsInv'
  <2>1. [id |-> id, from |-> g] \in Cards
    BY DEF Cards
  <2>. QED
    BY <1>3, <2>1, SettleKeepsCards DEF HandleRequestResolved
<1>4. ASSUME NEW c \in Clients, NEW card \in Cards, HandleResolve(c, card)
      PROVE  CardsInv'
  <2>1. UNCHANGED <<online, cards, missed>>
    BY <1>4 DEF HandleResolve
  <2>2. ASSUME NEW entry \in pendingById, NEW asked \in pendingServerRequests,
               ResolveServerRequest(card, entry, asked)
        PROVE  CardsInv'
    <3>1. asked \in Cards
      BY DEF AskInv, AskTypeOK
    <3>2. SettleApproval(asked) \/ UNCHANGED <<pendingById, inbox>>
      BY <2>2 DEF ResolveServerRequest, Mismatch
    <3>. QED
      BY <1>1, <2>1, <3>1, <3>2, SettleKeepsCards
  <2>3. CASE UNCHANGED <<pendingById, inbox>>
    BY <1>1, <2>1, <2>3
  <2>. QED
    BY <1>4, <2>2, <2>3 DEF HandleResolve
<1>5. ASSUME NEW c \in Clients, Load(c) \/ Reconnect(c) \/ Disconnect(c) \/ Deliver(c)
      PROVE  CardsInv'
  BY <1>5, ConnectKeepsCards, DisconnectKeepsCards, DeliverKeepsCards
<1>6. ASSUME NEW c \in Clients, NEW card \in Cards, Submit(c, card)
      PROVE  UNCHANGED <<pendingById, inbox, online, cards, missed>>
  BY <1>6 DEF Submit, askVars
<1>7. ASSUME \/ RuntimeStep /\ serverUp'
             \/ \E t \in Threads, s \in Sessions : RememberThreadOwner(t, s)
      PROVE  UNCHANGED <<pendingById, inbox, online, cards, missed>>
  BY <1>7 DEF RuntimeStep, Runs, RememberThreadOwner, askVars, pageVars
<1>10. CASE RuntimeStep /\ ~serverUp'
  <2>1. SocketsClose /\ UNCHANGED pendingById
    BY <1>10 DEF RuntimeStep, Runs, askVars
  <2>2. CardsTypes'
    <3>1. <<>> \in Seq(Messages)
      OBVIOUS
    <3>. QED
      BY <2>1, <3>1 DEF SocketsClose, CardsInv, CardsTypes
  <2>3. PendingIsShown' /\ NoGhostCard'
    BY <2>1 DEF SocketsClose, PendingIsShown, NoGhostCard, Members
  <2>. QED
    BY <2>2, <2>3 DEF CardsInv, CardsArePending
<1>8. CASE UNCHANGED vars
  BY <1>1, <1>8 DEF vars, askVars, pageVars
<1>9. CASE ApprovalsNext
  BY <1>1, <1>2, <1>3, <1>4, <1>5, <1>6, <1>7, <1>10, <1>9 DEF ApprovalsNext
<1>. QED
  BY <1>8, <1>9

LEMMA InitCardsInv == ApprovalsInit => CardsInv
  BY FS_EmptySet DEF ApprovalsInit, CardsInv, CardsTypes, CardsArePending, PendingIsShown,
     NoGhostCard

-----------------------------------------------------------------------------

\* Every page of a session shows each request that its broker entry holds, or will when
\* the messages on their way arrive, and a page that kept its socket shows no other:
\* registerConnection(), notifySession() and broadcast() leave no gap between them, for any
\* number of pages, loads and reconnects.
THEOREM CardsAreAlwaysPending == ApprovalsSpec => []CardsArePending
<1>1. ApprovalsSpec => [][ApprovalsNext]_vars /\ CardsInv
  BY InitCardsInv DEF ApprovalsSpec
<1>2. CardsInv => CardsArePending
  BY DEF CardsInv
<1>. QED
  BY <1>1, <1>2, SpecAskInv, StepCardsInv, PTL

\* Hence what a page shows awaits an answer, all that awaits one is shown or will be, and the
\* answer finds its request in the runtime as long as the codex that asked runs,
\* unless a decision mixed it up with a request of another run of codex.
THEOREM CardsAreAlwaysAnswerable == ApprovalsSpec => []CardsAreAnswerable
<1>1. CardsArePending /\ PendingIsAnswerable => CardsAreAnswerable
  BY DEF CardsAreAnswerable
<1>. QED
  BY CardsAreAlwaysPending, LivePendingIsAnswerable, <1>1, PTL

=============================================================================
