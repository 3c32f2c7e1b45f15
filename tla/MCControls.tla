----------------------------- MODULE MCControls -----------------------------
(***************************************************************************)
(* What a user controls beside the threads: who codex is logged in as      *)
(* (Account), its configuration (Settings), what is installed in it        *)
(* (Integrations) and the answers to what codex asks (Decisions).  None    *)
(* writes state of another, so as in MCPage a behaviour moves the part it  *)
(* starts with.                                                            *)
(***************************************************************************)
EXTENDS Account

CONSTANTS Models, Wide, DefaultModel, NoCopy, MaxRequests,  \* Settings
          Kinds, Ids, MaxAsked, MaxRestarts,           \* Decisions
          w1, w2, Nowhere, Absent, MaxPressed, MaxTurned    \* Integrations

VARIABLES
  part,  \* the part that moves
  config, workspace, bootstrap, integrations, composer, draft, edits, settingsOpen, requests,
  chosen, spoiled, failed, blind, count,
  asked, run, pendingServerRequests, pendingById, inbox, cards, form, outbox, replies,
  revision, place, overlay, data, store, calls, arriving, misled, counts

Options == INSTANCE Settings WITH ops <- requests, MaxOps <- MaxRequests
Answers == INSTANCE Decisions
Shelves == INSTANCE Integrations WITH Places <- {w1, w2}, MaxAsked <- MaxPressed

ASSUME ControlsAssumption ==
  /\ Wide \subseteq Models /\ DefaultModel \in Models /\ NoCopy \notin Models \cup Options!Configs
  /\ Kinds \subseteq Answers!AllKinds
  /\ Absent \notin Shelves!Parts
  /\ Absent \notin [Shelves!Parts -> [of : {w1, w2, Nowhere}, rev : Nat]]
  /\ {MaxRequests, MaxAsked, MaxRestarts, MaxPressed, MaxTurned} \subseteq Nat

settingsVars == <<config, workspace, bootstrap, integrations, composer, draft, edits, settingsOpen,
                  requests, chosen, spoiled, failed, blind, count>>
decisionVars == <<asked, run, pendingServerRequests, pendingById, inbox, cards, form, outbox,
                  replies>>
shelfVars == <<revision, place, overlay, data, store, calls, arriving, misled, counts>>

ControlsInit ==
  /\ part \in {"account", "settings", "decisions", "shelves"}
  /\ Init /\ Options!Init /\ Answers!Init /\ Shelves!Init
  /\ part # "account" => truth = NoAccount
  /\ part # "settings" => config.model = DefaultModel /\ workspace = NoCopy
  /\ part # "shelves" => place = w1

ControlsNext ==
  /\ UNCHANGED part
  /\ \/ part = "account" /\ Next /\ UNCHANGED <<settingsVars, decisionVars, shelfVars>>
     \/ part = "settings" /\ Options!Next /\ UNCHANGED <<vars, decisionVars, shelfVars>>
     \/ part = "decisions" /\ Answers!Next /\ UNCHANGED <<vars, settingsVars, shelfVars>>
     \/ part = "shelves" /\ Shelves!Next /\ UNCHANGED <<vars, settingsVars, decisionVars>>

ControlsSpec == ControlsInit /\ [][ControlsNext]_<<part, vars, settingsVars, decisionVars, shelfVars>>

\* What Settings, Decisions and Integrations promise.
SettingsAgree == Options!SettingsAgree
DecisionsAreMeant == Answers!DecisionsAreMeant
ListsAreDue == Shelves!ListsAreDue
=============================================================================
