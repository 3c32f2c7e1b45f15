---------------------------- MODULE FakeRuntime ----------------------------
(***************************************************************************)
(* The scripted runtime that end-to-end tests run the server against       *)
(* (fake-runtime.ts) in place of codex.  It keeps threads and commands and *)
(* plays the events of a turn from timers.                                 *)
(*                                                                         *)
(* A turn's timers are set together and fire in the order of their delays; *)
(* turns and commands started at different times interleave.  The server   *)
(* calls, and answers a request only when it was asked (see Approvals).    *)
(***************************************************************************)
EXTENDS Naturals, Sequences, FiniteSets

CONSTANTS
  Threads,     \* ids of threads, seeded, opened or forked
  Seeded,      \* the thread of WEBCLI_FAKE_EXTERNAL_THREAD_CWD, if it is set
  Turns,       \* bound: turns
  Processes,   \* bound: commands
  MaxCalls     \* bound: calls other than turn.start, command.start and answers

VARIABLES
  threads,     \* thread |-> what is stored: archived, loaded, turns
  timers,      \* turn |-> what its timers will still emit, in order
  owner,       \* turn |-> its thread
  pendingApprovals,  \* turns whose approval is stored
  asked,       \* turns whose approval was emitted and is not answered
  commands,    \* process |-> the timers of a command that runs
  reported,    \* history: the status a listener last heard of a thread
  ended,       \* history: processes that were reported to be complete
  noisy,       \* history: processes that had output, or ended again, after that
  stopped,     \* stop() was called
  calls        \* counter of the bound

turnVars == <<timers, owner, pendingApprovals, asked>>
commandVars == <<commands, ended, noisy>>
vars == <<threads, turnVars, commandVars, reported, stopped, calls>>

Put(f, x, v) == [y \in DOMAIN f \cup {x} |-> IF y = x THEN v ELSE f[y]]
Known == DOMAIN threads
Thread == [archived |-> FALSE, loaded |-> TRUE, turns |-> {}]

Init ==
  /\ threads = [t \in Seeded |-> Thread]
  /\ timers = <<>> /\ owner = <<>> /\ pendingApprovals = {} /\ asked = {}
  /\ commands = <<>> /\ ended = {} /\ noisy = {}
  /\ reported = [t \in Threads |-> "idle"]
  /\ stopped = FALSE /\ calls = 0

Call == calls < MaxCalls /\ calls' = calls + 1
Report(t, status) == reported' = [reported EXCEPT ![t] = status]

-----------------------------------------------------------------------------
(* threads *)

\* A fork copies what the base has; an opened thread has no turn.
OpenThread(t, base) ==
  /\ Call
  /\ t \notin Known
  /\ threads' = Put(threads, t,
       IF base \in Known THEN [threads[base] EXCEPT !.archived = FALSE] ELSE Thread)
  /\ UNCHANGED <<turnVars, commandVars, reported, stopped>>

SetArchived(t, archived) ==
  /\ Call
  /\ t \in Known
  /\ threads' = [threads EXCEPT ![t].archived = archived]
  /\ UNCHANGED <<turnVars, commandVars, reported, stopped>>

\* Nothing loads the thread again: resumeThread gives back what is stored.
UnsubscribeThread(t) ==
  /\ Call
  /\ t \in Known
  /\ IF threads[t].loaded
     THEN threads' = [threads EXCEPT ![t].loaded = FALSE] /\ Report(t, "closed")
     ELSE UNCHANGED <<threads, reported>>
  /\ UNCHANGED <<turnVars, commandVars, stopped>>

-----------------------------------------------------------------------------
(* turns *)

\* What the timers of a turn emit, by the prefix of its prompt.
Script(prompt) ==
  CASE prompt = "realtime-smoke:" ->
         <<"item", "item", "realtime", "realtime", "audio", "realtime", "audio", "closed">>
    [] prompt = "timeline-parity:" ->
         <<"item", "item", "item", "delta", "item", "item", "delta", "delta", "ask">>
    [] OTHER -> <<"item", "item", "delta", "delta", "delta", "ask">>

\* The approval is stored at once, for a realtime turn too, which never asks.
StartTurn(turn, t, prompt) ==
  /\ turn \notin DOMAIN timers /\ t \in Known
  /\ threads' = [threads EXCEPT ![t].turns = @ \cup {turn}]
  /\ timers' = Put(timers, turn, Script(prompt))
  /\ owner' = Put(owner, turn, t)
  /\ pendingApprovals' = pendingApprovals \cup {turn}
  /\ Report(t, "active")
  /\ UNCHANGED <<asked, commandVars, stopped, calls>>

StartReview(turn, t) ==
  /\ turn \notin DOMAIN timers /\ t \in Known
  /\ threads' = [threads EXCEPT ![t].turns = @ \cup {turn}]
  /\ timers' = Put(timers, turn, <<"review">>)
  /\ owner' = Put(owner, turn, t)
  /\ UNCHANGED <<pendingApprovals, asked, commandVars, reported, stopped, calls>>

\* Mutation: the end of a realtime session is all that is said.
LastEventOnly(turn, event) == UNCHANGED reported

\* The end of a realtime session ends the turn; an approval leaves it to the answer.
EndsWith(turn, event) ==
  IF event = "closed" THEN Report(owner[turn], "idle") ELSE UNCHANGED reported

TurnTimer(turn) ==
  /\ turn \in DOMAIN timers /\ timers[turn] # <<>>
  /\ timers' = [timers EXCEPT ![turn] = Tail(@)]
  /\ asked' = IF Head(timers[turn]) = "ask" THEN asked \cup {turn} ELSE asked
  /\ EndsWith(turn, Head(timers[turn]))
  /\ UNCHANGED <<threads, owner, pendingApprovals, commandVars, stopped, calls>>

\* The timers of the turn run on.
InterruptTurn(t) ==
  /\ Call
  /\ Report(t, "idle")
  /\ UNCHANGED <<threads, turnVars, commandVars, stopped>>

ResolveServerRequest(turn) ==
  /\ turn \in asked
  /\ asked' = asked \ {turn} /\ pendingApprovals' = pendingApprovals \ {turn}
  /\ Report(owner[turn], "idle")
  /\ UNCHANGED <<threads, timers, owner, commandVars, stopped, calls>>

-----------------------------------------------------------------------------
(* commands *)

StartCommand(p) ==
  /\ p \notin DOMAIN commands \cup ended
  /\ commands' = Put(commands, p, <<"output", "complete">>)
  /\ UNCHANGED <<threads, turnVars, ended, noisy, reported, stopped, calls>>

Output(p) == noisy' = IF p \in ended THEN noisy \cup {p} ELSE noisy

\* Mutation: the timers of a command that is stopped run on.
CompleteOnly(p) ==
  /\ noisy' = IF p \in ended THEN noisy \cup {p} ELSE noisy
  /\ ended' = ended \cup {p}
  /\ commands' = IF p \in DOMAIN commands THEN [commands EXCEPT ![p] = Tail(@)] ELSE commands

\* A command that is unknown or complete is left alone.
CompleteCommand(p) ==
  IF p \in DOMAIN commands
  THEN /\ noisy' = IF p \in ended THEN noisy \cup {p} ELSE noisy
       /\ ended' = ended \cup {p}
       /\ commands' = [q \in DOMAIN commands \ {p} |-> commands[q]]
  ELSE UNCHANGED commandVars

CommandTimer(p) ==
  /\ p \in DOMAIN commands /\ commands[p] # <<>>
  /\ IF Head(commands[p]) = "output"
     THEN Output(p) /\ commands' = [commands EXCEPT ![p] = Tail(@)] /\ UNCHANGED ended
     ELSE CompleteCommand(p)
  /\ UNCHANGED <<threads, turnVars, reported, stopped, calls>>

WriteCommand(p) ==
  /\ Call
  /\ IF p \in DOMAIN commands THEN Output(p) ELSE UNCHANGED noisy
  /\ UNCHANGED <<threads, turnVars, commands, ended, reported, stopped>>

StopCommand(p) ==
  /\ Call
  /\ CompleteCommand(p)
  /\ UNCHANGED <<threads, turnVars, reported, stopped>>

-----------------------------------------------------------------------------
\* stop(), when the server closes: no timer is left, and nothing is told.
Stop ==
  /\ ~stopped /\ stopped' = TRUE
  /\ timers' = [turn \in DOMAIN timers |-> <<>>]
  /\ commands' = <<>> /\ pendingApprovals' = {}
  /\ UNCHANGED <<threads, owner, asked, ended, noisy, reported, calls>>

Next ==
  \/ \E t \in Threads :
       \/ \E base \in Threads : OpenThread(t, base)
       \/ \E archived \in BOOLEAN : SetArchived(t, archived)
       \/ UnsubscribeThread(t) \/ InterruptTurn(t)
       \/ \E turn \in Turns :
            \/ StartReview(turn, t)
            \/ \E prompt \in {"realtime-smoke:", "timeline-parity:", "other"} :
                 StartTurn(turn, t, prompt)
  \/ \E turn \in Turns : TurnTimer(turn) \/ ResolveServerRequest(turn)
  \/ \E p \in Processes : StartCommand(p) \/ CommandTimer(p) \/ WriteCommand(p) \/ StopCommand(p)
  \/ Stop

Spec == Init /\ [][Next]_vars

-----------------------------------------------------------------------------
\* What the server's end-to-end tests take for granted of codex: a thread that is reported to
\* be active has a turn that has more to say or waits for an answer; what is asked can be
\* answered; and a command ends once, with no output after its end and, unless it has ended,
\* a timer that will end it.  All of this until stop().
FakeSettles ==
  ~stopped =>
    /\ \A t \in Threads : reported[t] = "active" =>
         \E turn \in DOMAIN owner : owner[turn] = t /\ (timers[turn] # <<>> \/ turn \in asked)
    /\ asked \subseteq pendingApprovals
    /\ noisy = {} /\ \A p \in DOMAIN commands : commands[p] # <<>>

=============================================================================
