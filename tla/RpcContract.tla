---------------------------- MODULE RpcContract ----------------------------
(***************************************************************************)
(* What SessionRuntime (packages/core/src/runtime.ts) owes the service for *)
(* each request method: a promise that settles exactly once, with a result *)
(* or an error, as long as the program runs.  No process, no start, no     *)
(* pipe.                                                                   *)
(***************************************************************************)
EXTENDS Naturals

CONSTANT Calls

VARIABLES outcome,   \* of each call
          up         \* the program runs

vars == <<outcome, up>>

Init == outcome = [c \in Calls |-> "idle"] /\ up = TRUE

\* What may become of a call in one step: a promise may be refused at once.
Successors(o) ==
  CASE o = "idle" -> {"idle", "open", "failed"}
    [] o = "open" -> {"open", "ok", "failed"}
    [] OTHER -> {o}

\* One event may settle any number of calls.
Progress ==
  /\ up
  /\ outcome' \in [Calls -> {"idle", "open", "ok", "failed"}]
  /\ \A c \in Calls : outcome'[c] \in Successors(outcome[c])
  /\ up' \in BOOLEAN

Settle(c) == Progress /\ outcome[c] = "open" /\ outcome'[c] # "open"

Spec ==
  /\ Init /\ [][Progress]_vars
  /\ \A c \in Calls : WF_vars(Settle(c))

=============================================================================
