------------------------------- MODULE MCPage -------------------------------
(***************************************************************************)
(* Four parts of a page that write no state of one another: a timeline     *)
(* that is read, left and swept (Timeline), the list of threads            *)
(* (ThreadList), realtime sessions (Realtime) and the queue of prompts     *)
(* (PromptQueue).  A step of one leaves the others alone, so in their      *)
(* product each has the states it has by itself: a behaviour moves one     *)
(* part, the one it starts with.                                           *)
(***************************************************************************)
EXTENDS Timeline

CONSTANTS Threads, Listed, PageSize, None, MaxEvents,              \* ThreadList
          Rates, MaxSent, MaxCloses,                               \* Realtime
          MaxSends, MaxTurns, MaxDrops, MaxExits, MaxTroubles,     \* PromptQueue
          MaxOthers

VARIABLES
  part,  \* the part that moves
  codex, status, cache, cold, warmup, online, inbox, http, answer, bootstrap, bootDue,
  listFetch, list, listInvalid, listDue, connection, shown, historyOpen, historyFetch,
  history, historyStale, historyDue, old, statusOld, lost, events,
  source, rate, sent, arriving, connected, closes, sessions, timers, urls, made, missed,
  queue, dispatching, hasView, running, loaded, chosen, failed, pending, sends, entries,
  calls, socket, unsent, out, took, live, answers, wire, drops, left, exits, others

List  == INSTANCE ThreadList
Voice == INSTANCE Realtime WITH codex <- source, inbox <- arriving, online <- connected
Queue == INSTANCE PromptQueue WITH online <- socket, ws <- wire, open <- chosen, leaves <- left

ASSUME PageAssumption ==
  /\ Listed \subseteq Threads /\ PageSize \in Nat \ {0} /\ Rates \subseteq Nat \ {0}
  /\ {MaxEvents, MaxSent, MaxCloses} \subseteq Nat
  /\ {MaxSends, MaxTurns, MaxDrops, MaxExits, MaxTroubles, MaxOthers} \subseteq Nat
  /\ None \notin Nat \cup Voice!Session

listVars == <<codex, status, cache, cold, warmup, online, inbox, http, answer, bootstrap,
              bootDue, listFetch, list, listInvalid, listDue, connection, shown, historyOpen,
              historyFetch, history, historyStale, historyDue, old, statusOld, lost, events>>
voiceVars == <<source, rate, sent, arriving, connected, closes, sessions, timers, urls, made,
               missed>>
queueVars == <<queue, dispatching, hasView, running, loaded, chosen, failed, pending, sends,
               entries, calls, socket, unsent, out, took, live, answers, wire, drops, left,
               exits, others>>

PageInit ==
  /\ part \in {"line", "list", "voice", "queue"}
  /\ Init /\ List!Init /\ Voice!Init /\ Queue!Init
  /\ part # "line" => reads = 0
  /\ part # "queue" => loaded

PageNext ==
  /\ UNCHANGED part
  /\ \/ part = "line" /\ Next /\ UNCHANGED <<listVars, voiceVars, queueVars>>
     \/ part = "list" /\ List!Next /\ UNCHANGED <<vars, voiceVars, queueVars>>
     \/ part = "voice" /\ Voice!Next /\ UNCHANGED <<vars, listVars, queueVars>>
     \/ part = "queue" /\ Queue!Next /\ UNCHANGED <<vars, listVars, voiceVars>>

PageSpec == PageInit /\ [][PageNext]_<<part, vars, listVars, voiceVars, queueVars>>

\* What ThreadList, Realtime and PromptQueue promise; the queue keeps and sends its prompts, and
\* is about to send.
ListIsDue == List!SummaryIsDue /\ List!ConnectionIsDue
RealtimeIsTrue == Voice!AudioIsDue /\ Voice!PartsOfOneSession
PromptsAreDue == Queue!PromptsReachCodex /\ Queue!QueueIsDue

=============================================================================
