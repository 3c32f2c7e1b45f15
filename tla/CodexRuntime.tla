---------------------------- MODULE CodexRuntime ----------------------------
(***************************************************************************)
(* The lifecycle of the codex app-server child process and of the JSON-RPC *)
(* calls made over its stdio, as CodexRuntime runs them                    *)
(* (packages/runtime-codex/src/codex-runtime.ts).                          *)
(*                                                                         *)
(* Everything runs on one Node event loop, so a step of this module is one *)
(* callback: a synchronous stretch of code between two awaits.  The child  *)
(* process runs beside it: it may die at any time, and Node learns of it   *)
(* later, in the "exit" callback.                                          *)
(*                                                                         *)
(* A spawned process is named by the number of the spawn (its generation). *)
(* start() creates the start promise and the process in one synchronous    *)
(* stretch, so a start attempt has the name of the process it spawns.      *)
(***************************************************************************)
EXTENDS Naturals, FiniteSets

CONSTANTS Calls,     \* the calls the service makes through CodexRuntime.call
          MaxSpawn   \* bound: how many processes a behaviour may spawn

ASSUME CallsAssumption == Calls \cap Nat = {}
ASSUME MaxSpawnAssumption == MaxSpawn \in Nat \ {0}

Gens    == 1..MaxSpawn
NoGen   == 0                  \* null: no child, no start promise, no timer
Callers == Calls \cup Gens    \* g \in Gens is the account refresh of attempt g

Settled == {"ok", "failed"}

VARIABLES
  spawned,         \* how many processes have been spawned
  proc,            \* the operating system's view: unborn, running, dead, exited
  killed,          \* processes that have been sent SIGTERM by stop()
  child,           \* this.child
  connected,       \* this.status.connected
  startPromise,    \* this.startPromise, the attempt it belongs to
  attempt,         \* how far spawnProcess() of each attempt has come
  stopRequested,   \* this.stopRequested
  restartTimer,    \* this.restartTimer, the exit that armed it
  timers,          \* the restart timers the event loop holds
  restartCount,    \* this.status.restartCount
  pendingRequests, \* keys of this.pendingRequests, "initialize" left out: it
                   \* is there exactly while the attempt is "initializing"
  phase,           \* the promise of each call
  gen,             \* the attempt a waiting call awaits, the process a sent one
                   \* was written to
  fatal,           \* attempts whose rejection nothing handles
  serverUp         \* the Node process runs

rtVars == <<spawned, proc, killed, child, connected, startPromise, attempt,
            stopRequested, restartTimer, timers, restartCount,
            pendingRequests, phase, gen, fatal, serverUp>>

TypeOK ==
  /\ spawned \in 0..MaxSpawn
  /\ proc \in [Gens -> {"unborn", "running", "dead", "exited"}]
  /\ killed \subseteq Gens
  /\ child \in 0..MaxSpawn
  /\ connected \in BOOLEAN
  /\ startPromise \in 0..MaxSpawn
  /\ attempt \in [Gens -> {"none", "initializing", "refreshing",
                           "resolved", "rejected"}]
  /\ stopRequested \in BOOLEAN
  /\ restartTimer \in 0..MaxSpawn
  /\ timers \subseteq Gens
  /\ restartCount \in Nat
  /\ pendingRequests \subseteq Callers
  /\ phase \in [Callers -> {"idle", "waiting", "sent"} \cup Settled]
  /\ gen \in [Callers -> 0..MaxSpawn]
  /\ fatal \subseteq Gens
  /\ serverUp \in BOOLEAN

Init ==
  /\ spawned = 0
  /\ proc = [g \in Gens |-> "unborn"]
  /\ killed = {}
  /\ child = NoGen
  /\ connected = FALSE
  /\ startPromise = NoGen
  /\ attempt = [g \in Gens |-> "none"]
  /\ stopRequested = FALSE
  /\ restartTimer = NoGen
  /\ timers = {}
  /\ restartCount = 0
  /\ pendingRequests = {}
  /\ phase = [c \in Callers |-> "idle"]
  /\ gen = [c \in Callers |-> NoGen]
  /\ fatal = {}
  /\ serverUp = TRUE

-----------------------------------------------------------------------------
(* Pieces the handlers share. *)

\* Mutation: the process counts as connected from the moment it is spawned.
SpawnConnected ==
  LET g == spawned + 1 IN
  /\ spawned < MaxSpawn
  /\ spawned' = g
  /\ proc' = [proc EXCEPT ![g] = "running"]
  /\ child' = g
  /\ connected' = TRUE
  /\ startPromise' = g
  /\ attempt' = [attempt EXCEPT ![g] = "initializing"]
  /\ stopRequested' = FALSE

\* spawnProcess() up to its first await: the process is created, this.child is
\* set and "initialize" is written.  start() has stored the promise.
Spawn ==
  LET g == spawned + 1 IN
  /\ spawned < MaxSpawn
  /\ spawned' = g
  /\ proc' = [proc EXCEPT ![g] = "running"]
  /\ child' = g
  /\ connected' = FALSE
  /\ startPromise' = g
  /\ attempt' = [attempt EXCEPT ![g] = "initializing"]
  /\ stopRequested' = FALSE

\* Mutation: start() asks whether it is connected, not whether it has begun.
StartUnlessConnected ==
  IF connected
  THEN UNCHANGED <<spawned, proc, child, connected, startPromise, attempt,
                   stopRequested>>
  ELSE Spawn

\* start(): a promise that is there is returned before stopRequested is reset.
Start ==
  IF startPromise # NoGen
  THEN UNCHANGED <<spawned, proc, child, connected, startPromise, attempt,
                   stopRequested>>
  ELSE Spawn

\* writeMessage(): stdin of a live process is writable; whether Node already
\* knows that the pipe of a dead one is gone is a matter of timing.
MayWrite == child # NoGen
MayThrow == child \notin {g \in Gens : proc[g] = "running"}

\* The tail of call(): the pending entry is stored before the write, so a
\* write that throws rejects the promise and leaves the entry behind.
Issue(c) ==
  /\ pendingRequests' = pendingRequests \cup {c}
  /\ \/ /\ MayWrite
        /\ phase' = [phase EXCEPT ![c] = "sent"]
        /\ gen' = [gen EXCEPT ![c] = child]
     \/ /\ MayThrow
        /\ phase' = [phase EXCEPT ![c] = "failed"]
        /\ UNCHANGED gen

\* call() parked on the promise that ensureStarted() found or made.
Await(c, g) ==
  /\ phase' = [phase EXCEPT ![c] = "waiting"]
  /\ gen' = [gen EXCEPT ![c] = g]
  /\ UNCHANGED pendingRequests

\* ensureStarted() without its own start(), for a caller that sees `up` as the
\* value of this.status.connected.
EnsureStarted(c, up) ==
  IF child # NoGen /\ up
  THEN Issue(c)
  ELSE Await(c, startPromise)

\* A rejected attempt brings the Node process down when `void this.start()` of
\* the restart timer consumes it; calls and the boot sequence handle it.
Reject(g) ==
  /\ attempt' = [attempt EXCEPT ![g] = "rejected"]
  /\ serverUp' = (g \notin fatal)

\* No continuation of a settled promise is due.  Promise jobs run before the
\* next callback of a timer, of a process or of a socket; only the lines of one
\* chunk of stdout are handled back to back, without a pause for them.
Quiet ==
  /\ \A g \in Gens : ~(attempt[g] = "refreshing" /\ phase[g] \in Settled)
  /\ \A c \in Callers :
       ~(phase[c] = "waiting" /\ attempt[gen[c]] \in {"resolved", "rejected"})

-----------------------------------------------------------------------------
(* Entry points of the service. *)

\* WorkbenchService.start() neither awaits runtime.start() nor lets it fail:
\* createApp() goes on to listen, whatever becomes of the first attempt.
Boot ==
  /\ serverUp /\ spawned = 0
  /\ Start
  /\ UNCHANGED <<killed, restartTimer, timers, restartCount,
                 pendingRequests, phase, gen, fatal, serverUp>>

\* The server accepts calls, and can be closed.
Listening == serverUp /\ spawned > 0

\* call(): three ways through ensureStarted().
Call(c) ==
  /\ Listening /\ phase[c] = "idle"
  /\ IF startPromise # NoGen \/ (child # NoGen /\ connected)
     THEN /\ EnsureStarted(c, connected)
          /\ UNCHANGED <<spawned, proc, child, connected, startPromise,
                         attempt, stopRequested>>
     ELSE /\ Start
          /\ Await(c, startPromise')
  /\ UNCHANGED <<killed, restartTimer, timers, restartCount, fatal, serverUp>>

\* The continuation of a call whose start promise has settled.
Resume(c) ==
  /\ serverUp /\ phase[c] = "waiting"
  /\ \/ /\ attempt[gen[c]] = "resolved"
        /\ Issue(c)
     \/ /\ attempt[gen[c]] = "rejected"
        /\ phase' = [phase EXCEPT ![c] = "failed"]
        /\ UNCHANGED <<pendingRequests, gen>>
  /\ UNCHANGED <<spawned, proc, killed, child, connected, startPromise,
                 attempt, stopRequested, restartTimer, timers, restartCount,
                 fatal, serverUp>>

\* stop(): only the timer the field names is cleared; the child is signalled.
Stop ==
  /\ Listening /\ Quiet
  /\ stopRequested' = TRUE
  /\ timers' = timers \ {restartTimer}
  /\ restartTimer' = NoGen
  /\ killed' = killed \cup ({child} \ {NoGen})
  /\ UNCHANGED <<spawned, proc, child, connected, startPromise, attempt,
                 restartCount, pendingRequests, phase, gen, fatal, serverUp>>

-----------------------------------------------------------------------------
(* Lines from the child. *)

\* Mutation: "connected" is set only after the account refresh has been called.
HandleInitializedLate(g) ==
  /\ serverUp /\ attempt[g] = "initializing"
  /\ connected' = TRUE
  /\ attempt' = [attempt EXCEPT ![g] = "refreshing"]
  /\ EnsureStarted(g, connected)
  /\ UNCHANGED <<spawned, proc, killed, child, startPromise, stopRequested,
                 restartTimer, timers, restartCount, fatal, serverUp>>

\* handleResponse() for "initialize", and initializeChild() up to its second
\* await: the account refresh is a call() of its own.
HandleInitialized(g) ==
  /\ serverUp /\ attempt[g] = "initializing"
  /\ connected' = TRUE
  /\ attempt' = [attempt EXCEPT ![g] = "refreshing"]
  /\ EnsureStarted(g, connected')
  /\ UNCHANGED <<spawned, proc, killed, child, startPromise, stopRequested,
                 restartTimer, timers, restartCount, fatal, serverUp>>

\* handleResponse() for an "initialize" that codex answers with an error: the
\* process stays, and so does the rejected start promise.
HandleInitializeError(g) ==
  /\ serverUp /\ attempt[g] = "initializing"
  /\ Reject(g)
  /\ UNCHANGED <<spawned, proc, killed, child, connected, startPromise,
                 stopRequested, restartTimer, timers, restartCount,
                 pendingRequests, phase, gen, fatal>>

\* refreshAccountSummary() is allSettled: either outcome finishes the attempt.
FinishStart(g) ==
  /\ serverUp /\ attempt[g] = "refreshing" /\ phase[g] \in Settled
  /\ attempt' = [attempt EXCEPT ![g] = "resolved"]
  /\ UNCHANGED <<spawned, proc, killed, child, connected, startPromise,
                 stopRequested, restartTimer, timers, restartCount,
                 pendingRequests, phase, gen, fatal, serverUp>>

\* handleResponse() for a call: a result or an error.  A line whose id has left
\* the map is dropped, so it is no step.
HandleResponse(c) ==
  /\ serverUp /\ phase[c] = "sent" /\ c \in pendingRequests
  /\ pendingRequests' = pendingRequests \ {c}
  /\ \E r \in Settled : phase' = [phase EXCEPT ![c] = r]
  /\ UNCHANGED <<spawned, proc, killed, child, connected, startPromise,
                 attempt, stopRequested, restartTimer, timers, restartCount,
                 gen, fatal, serverUp>>

-----------------------------------------------------------------------------
(* The process and the timers. *)

\* The process ends: by itself, or because it was told to.
Die(g) ==
  /\ proc[g] = "running"
  /\ proc' = [proc EXCEPT ![g] = "dead"]
  /\ UNCHANGED <<spawned, killed, child, connected, startPromise, attempt,
                 stopRequested, restartTimer, timers, restartCount,
                 pendingRequests, phase, gen, fatal, serverUp>>

\* What was written to a process that did not live to read it: the pipe fails,
\* the "error" event of child.stdin has no listener, and Node ends the program.
\* Or the write was in time, or the event is not raised: no step.
PipeError(g) ==
  /\ serverUp /\ proc[g] = "dead"
  /\ serverUp' = FALSE
  /\ UNCHANGED <<spawned, proc, killed, child, connected, startPromise, attempt,
                 stopRequested, restartTimer, timers, restartCount,
                 pendingRequests, phase, gen, fatal>>

\* Mutation: the map is emptied and nobody is told.
ForgetPendingRequests ==
  /\ pendingRequests' = {}
  /\ UNCHANGED <<phase, gen>>

\* Mutation: the calls of the dead process are handed back, to be made anew.
RequeuePendingRequests ==
  /\ pendingRequests' = {}
  /\ phase' = [c \in Callers |->
                 IF c \in pendingRequests THEN "idle" ELSE phase[c]]
  /\ UNCHANGED gen

\* rejectPendingRequests(): rejecting a promise that has settled does nothing.
RejectPendingRequests ==
  /\ pendingRequests' = {}
  /\ phase' = [c \in Callers |->
                 IF c \in pendingRequests /\ phase[c] = "sent"
                 THEN "failed" ELSE phase[c]]
  /\ UNCHANGED gen

\* Mutation: only a process that had been connected is worth restarting.
RestartIfConnected(g) ==
  IF stopRequested \/ ~connected
  THEN UNCHANGED <<restartTimer, timers, restartCount>>
  ELSE /\ restartCount' = restartCount + 1
       /\ restartTimer' = g
       /\ timers' = timers \cup {g}

\* The end of the "exit" callback: a restart unless stop() was asked for.
ScheduleRestart(g) ==
  IF stopRequested
  THEN UNCHANGED <<restartTimer, timers, restartCount>>
  ELSE /\ restartCount' = restartCount + 1
       /\ restartTimer' = g
       /\ timers' = timers \cup {g}

\* The "exit" callback of process g.
ChildExit(g) ==
  /\ serverUp /\ Quiet /\ proc[g] = "dead"
  /\ proc' = [proc EXCEPT ![g] = "exited"]
  /\ child' = NoGen
  /\ connected' = FALSE
  /\ RejectPendingRequests
  /\ startPromise' = NoGen
  /\ IF attempt[g] = "initializing"
     THEN Reject(g)
     ELSE UNCHANGED <<attempt, serverUp>>
  /\ ScheduleRestart(g)
  /\ UNCHANGED <<spawned, killed, stopRequested, fatal>>

\* One second later: void this.start().  The promise it returns follows the
\* start promise, one that has been rejected already included.
TimerFires(t) ==
  /\ serverUp /\ Quiet /\ t \in timers
  /\ timers' = timers \ {t}
  /\ Start
  /\ fatal' = fatal \cup {startPromise'}
  /\ serverUp' = (attempt'[startPromise'] # "rejected")
  /\ UNCHANGED <<killed, restartTimer, restartCount, pendingRequests, phase,
                 gen>>

Next ==
  \/ Boot
  \/ Stop
  \/ \E c \in Calls : Call(c)
  \/ \E c \in Callers : Resume(c) \/ HandleResponse(c)
  \/ \E g \in Gens : \/ HandleInitialized(g)
                     \/ HandleInitializeError(g)
                     \/ FinishStart(g)
                     \/ Die(g)
                     \/ PipeError(g)
                     \/ ChildExit(g)
                     \/ TimerFires(g)

Spec == Init /\ [][Next]_rtVars

-----------------------------------------------------------------------------
(* Safety. *)

Running == {g \in Gens : proc[g] \in {"running", "dead"}}

\* Two app-servers never run side by side: start() reuses the start promise
\* until the "exit" callback of the process behind it has run, whatever stop(),
\* calls and several restart timers do in between.
AtMostOneProcess == Running \subseteq {child}

\* "Connected" is never shown for a process that has not been initialised or
\* whose exit Node has seen: call() would write to nothing.
ConnectedToInitialized ==
  connected => /\ child \in Running
               /\ attempt[child] \in {"refreshing", "resolved"}

\* Whoever is told that codex is connected talks to the only app-server there is.
ConnectedToOneProcess == AtMostOneProcess /\ ConnectedToInitialized

\* A call whose answer is still awaited sits in pendingRequests and was written
\* to the present child, so that the child's answer or its exit settles it.
NoOrphanedCall ==
  \A c \in Callers :
    phase[c] = "sent" => /\ c \in pendingRequests
                         /\ gen[c] = child
                         /\ child \in Running

\* A call parked on a start attempt is parked on one that can still settle: the
\* attempt is over, or its process is the present child.
NoStrandedWaiter ==
  \A c \in Callers :
    phase[c] = "waiting" =>
      /\ attempt[gen[c]] # "none"
      /\ attempt[gen[c]] = "initializing" => gen[c] = child
      /\ attempt[gen[c]] = "refreshing" => phase[gen[c]] # "waiting"

\* Whatever a call waits for, its answer or the start of codex, will settle it.
CallsAreHeld == NoOrphanedCall /\ NoStrandedWaiter

-----------------------------------------------------------------------------
(* Liveness.  The event loop runs every callback that is due.  That codex      *)
(* answers each request or dies, and dies on SIGTERM, is assumed of it.  Users *)
(* and crashes are owed nothing.                                              *)

EventLoop ==
  /\ \A c \in Callers : WF_rtVars(Resume(c))
  /\ \A g \in Gens : /\ WF_rtVars(FinishStart(g))
                     /\ WF_rtVars(ChildExit(g))
                     /\ WF_rtVars(TimerFires(g))

CodexAnswers ==
  /\ \A c \in Callers : WF_rtVars(HandleResponse(c))
  /\ \A g \in Gens : /\ WF_rtVars(HandleInitialized(g) \/ HandleInitializeError(g))
                     /\ WF_rtVars(g \in killed /\ Die(g))

FairSpec == Spec /\ EventLoop /\ CodexAnswers

\* A child that exits unasked is replaced (unless stop() comes, the failed
\* restart ends the program, or the bound of the model is reached).
ChildIsReplaced ==
  \A g \in Gens :
    (child = g /\ proc[g] = "dead" /\ ~stopRequested)
      ~> (child \notin {g, NoGen} \/ stopRequested \/ ~serverUp
            \/ spawned = MaxSpawn)

-----------------------------------------------------------------------------
(* What callers are promised: the abstract specification of RpcContract. *)

Contract ==
  INSTANCE RpcContract
    WITH up <- serverUp,
         outcome <- [c \in Calls |->
                       CASE phase[c] = "idle" -> "idle"
                         [] phase[c] \in {"waiting", "sent"} -> "open"
                         [] OTHER -> phase[c]]

\* Each call runs idle, open, settled, settles once and, while the program
\* runs, does settle, through starts, exits, restarts and stops in any order:
\* call() never waits on itself, on a lost start attempt or on a process that
\* is gone.
ImplementsContract == Contract!Spec

=============================================================================
