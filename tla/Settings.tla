------------------------------ MODULE Settings ------------------------------
(***************************************************************************)
(* The configuration of codex and the copies a page has of it: in the      *)
(* bootstrap (query cache), in the integrations snapshot (store), in the   *)
(* controls of the composer and in the form of the settings overlay.       *)
(*                                                                         *)
(* Every save writes all fields: the one that was chosen, and the others   *)
(* as the page's copy has them.  A field is a model (with the reasoning    *)
(* efforts it supports), an effort, the service tier, and `policy`, which  *)
(* stands for the approval policy and the sandbox mode; one that is unset  *)
(* counts as its default.                                                  *)
(***************************************************************************)
EXTENDS Naturals, Sequences, SequencesExt, FiniteSets

CONSTANTS Models, Wide,  \* models; those that support every effort
          DefaultModel,  \* the model with isDefault
          NoCopy,        \* no copy yet
          MaxOps         \* bound: requests a user causes

VARIABLES
  config,       \* config.toml as codex has it
  workspace,    \* default_model of the saved workspace in the table
  bootstrap,    \* ["bootstrap"]: settings.config and the workspace's default model
  integrations, \* store: integrations.config
  composer,     \* composerModel and composerReasoningEffort
  draft, edits, \* fields of the settings overlay; those edited since they were last set
  settingsOpen,
  ops,          \* requests under way, in the order they were sent
  chosen,       \* history: the tier and the policy last chosen
  spoiled,      \* history: copies whose last answer a write had overtaken
  failed,       \* history: a save failed, wholly or after it wrote
  blind,        \* history: a save was composed from a copy known to be behind, or from none
  count         \* counter of the bound

vars == <<config, workspace, bootstrap, integrations, composer, draft, edits, settingsOpen, ops,
          chosen, spoiled, failed, blind, count>>

Efforts == {"high", "xhigh"}
Chosen == [tier : {"standard", "fast"}, policy : {"ask", "never"}]
Configs == [model : Models, effort : Efforts, tier : {"standard", "fast"}, policy : {"ask", "never"}]
Unset == [model |-> DefaultModel, effort |-> "high", tier |-> "standard", policy |-> "ask"]

\* supportedReasoningEfforts; "high" is the default of every model.
Supports(m) == IF m \in Wide THEN Efforts ELSE {"high"}
ResolveEffort(e, m) == IF e \in Supports(m) THEN e ELSE "high"

\* What the composer shows of the copies b and i, and what the effects that show it depend on.
Shown(b, i) == IF i = NoCopy THEN b.config ELSE i
ShownModel(b, i) == IF b.workspace # NoCopy THEN b.workspace ELSE Shown(b, i).model
ModelDeps(b, i) == <<b.workspace, b.config.model, i = NoCopy, Shown(b, i).model>>
EffortDeps(b, i) == <<b.config.effort, i = NoCopy, Shown(b, i).effort>>
Fast == bootstrap.config.tier = "fast" \/ Shown(bootstrap, integrations).tier = "fast"

TypeOK ==
  /\ config \in Configs /\ bootstrap.config \in Configs /\ draft \in Configs
  /\ {workspace, bootstrap.workspace} \subseteq Models \cup {NoCopy}
  /\ integrations \in Configs \cup {NoCopy}
  /\ composer.model \in Models /\ composer.effort \in Supports(composer.model)
  /\ edits \subseteq {"tier", "policy"} /\ chosen \in Chosen
  /\ \A k \in DOMAIN ops : ops[k].kind \in {"save", "defaults", "refresh", "bootstrap", "patch"}
  /\ spoiled \subseteq {"bootstrap", "integrations"}
  /\ count \in 0..MaxOps

Init ==
  /\ config \in {[Unset EXCEPT !.model = m] : m \in Models}
  /\ workspace \in {NoCopy, config.model}
  /\ bootstrap = [config |-> config, workspace |-> workspace]
  /\ integrations = NoCopy
  /\ composer = [model |-> config.model, effort |-> config.effort]
  /\ draft = Unset /\ edits = {} /\ settingsOpen = FALSE
  /\ ops = <<>>
  /\ chosen = [tier |-> config.tier, policy |-> config.policy]
  /\ spoiled = {} /\ failed = FALSE /\ blind = FALSE
  /\ count = 0

\* The copies become b and i, and the page renders; an effect runs when what it depends on changed.
Commit(b, i) ==
  LET m == IF ModelDeps(b, i) # ModelDeps(bootstrap, integrations)
             THEN ShownModel(b, i) ELSE composer.model
      e == IF EffortDeps(b, i) # EffortDeps(bootstrap, integrations)
             THEN Shown(b, i).effort ELSE composer.effort
  IN /\ bootstrap' = b /\ integrations' = i
     /\ composer' = [model |-> m, effort |-> ResolveEffort(e, m)]

\* props.config is a new object: the fields are set from it.
SetDraft(c) == draft' = (IF c = NoCopy THEN Unset ELSE c) /\ edits' = {}

-----------------------------------------------------------------------------
\* What the user asks for.

Op(kind, payload) ==
  [kind |-> kind, payload |-> payload, stage |-> "sent", read |-> NoCopy, old |-> FALSE,
   late |-> FALSE, model |-> NoCopy]

Send(op) ==
  /\ count < MaxOps /\ count' = count + 1
  /\ ops' = Append(ops, op)

Saving == \E k \in DOMAIN ops : ops[k].kind \in {"save", "defaults", "bootstrap"}

\* A control of the composer, with which the user chose `picked`: c is what its handler writes, m
\* the workspace's new default model.
Save(c, shown, m, picked) ==
  /\ ~settingsOpen
  /\ Send([Op("save", c) EXCEPT !.model = IF bootstrap.workspace = NoCopy THEN NoCopy ELSE m])
  /\ composer' = shown
  /\ chosen' = picked
  /\ blind' = (blind \/ Saving \/ "bootstrap" \in spoiled \/ failed)
  /\ UNCHANGED <<config, workspace, bootstrap, integrations, draft, edits, settingsOpen, spoiled,
                 failed>>

\* Mutation: the other fields are written as if they were unset.
BaseUnset == Unset

\* baseConfig of the handlers.
Base == bootstrap.config

\* handleComposerModelChange()
ChooseModel(m) ==
  LET e == ResolveEffort(Base.effort, m)
  IN Save([Base EXCEPT !.model = m, !.effort = e], [model |-> m, effort |-> e], m, chosen)

\* handleComposerSpeedChange() writes the model and the effort that are shown
ToggleSpeed ==
  LET t == IF Fast THEN "standard" ELSE "fast"
  IN Save([Base EXCEPT !.model = composer.model, !.effort = composer.effort, !.tier = t],
          composer, composer.model, [chosen EXCEPT !.tier = t])

\* handleComposerReasoningEffortChange()
ChooseEffort(e) ==
  /\ e \in Supports(composer.model)
  /\ Save([Base EXCEPT !.effort = e], [composer EXCEPT !.effort = e], NoCopy, chosen)

\* handleComposerApprovalPolicyChange() and handleComposerSandboxModeChange()
ChoosePolicy(p) ==
  Save([Base EXCEPT !.policy = p], composer, NoCopy, [chosen EXCEPT !.policy = p])

\* The overlay is opened: its query asks for the integrations.
OpenSettings ==
  /\ ~settingsOpen /\ settingsOpen' = TRUE
  /\ Send(Op("refresh", NoCopy))
  /\ SetDraft(integrations)
  /\ UNCHANGED <<config, workspace, bootstrap, integrations, composer, chosen, spoiled, failed,
                 blind>>

CloseSettings ==
  /\ settingsOpen /\ settingsOpen' = FALSE
  /\ UNCHANGED <<config, workspace, bootstrap, integrations, composer, draft, edits, ops, chosen,
                 spoiled, failed, blind, count>>

EditDraft(field, value) ==
  /\ settingsOpen /\ draft[field] # value
  /\ draft' = [draft EXCEPT ![field] = value]
  /\ edits' = edits \cup {field}
  /\ UNCHANGED <<config, workspace, bootstrap, integrations, composer, settingsOpen, ops, chosen,
                 spoiled, failed, blind, count>>

\* handleConfigSave()
SaveDefaults ==
  /\ settingsOpen
  /\ Send(Op("defaults", draft))
  /\ chosen' = [f \in DOMAIN chosen |-> IF f \in edits THEN draft[f] ELSE chosen[f]]
  /\ blind' = (blind \/ Saving \/ integrations = NoCopy \/ "integrations" \in spoiled \/ failed)
  /\ UNCHANGED <<config, workspace, bootstrap, integrations, composer, draft, edits, settingsOpen,
                 spoiled, failed>>

-----------------------------------------------------------------------------
\* The server and codex.

\* config/batchWrite: codex takes the writes in the order they were sent.
Write(k) ==
  /\ ops[k].kind \in {"save", "defaults"} /\ ops[k].stage = "sent"
  /\ \A j \in 1..(k - 1) : ops[j].kind \in {"save", "defaults"} => ops[j].stage # "sent"
  /\ config' = ops[k].payload
  /\ ops' = [j \in DOMAIN ops |->
               IF j = k THEN [ops[j] EXCEPT !.stage = "written"]
               ELSE [ops[j] EXCEPT !.late = @ \/ ops[j].stage \in {"written", "read"},
                                   !.old = @ \/ ops[j].stage = "read"]]
  /\ UNCHANGED <<workspace, bootstrap, integrations, composer, draft, edits, settingsOpen, chosen,
                 spoiled, failed, blind, count>>

\* config/read: of refreshIntegrations() or of getBootstrap(), which reads the workspaces too.
Read(k) ==
  /\ \/ ops[k].kind \in {"save", "defaults"} /\ ops[k].stage = "written"
     \/ ops[k].kind \in {"refresh", "bootstrap"} /\ ops[k].stage = "sent"
  /\ ops' = [ops EXCEPT ![k].stage = "read", ![k].read = config, ![k].model =
               IF ops[k].kind = "bootstrap" THEN workspace ELSE @]
  /\ UNCHANGED <<config, workspace, bootstrap, integrations, composer, draft, edits, settingsOpen,
                 chosen, spoiled, failed, blind, count>>

\* A save is refused, or a list of the snapshot fails after it was written; a refresh fails.
Fail(k) ==
  /\ ops' = RemoveAt(ops, k)
  /\ failed' = (failed \/ ops[k].kind # "refresh")
  /\ UNCHANGED <<config, workspace, bootstrap, integrations, composer, draft, edits, settingsOpen,
                 chosen, spoiled, blind, count>>

-----------------------------------------------------------------------------
\* Answers reach the page.

Spoil(copy, old) == IF old THEN spoiled \cup {copy} ELSE spoiled \ {copy}

\* A save of the composer: setIntegrationSnapshot() and patchBootstrapCache(), then the PATCH.
SaveAnswered(k) ==
  LET op == ops[k] IN
  /\ op.kind = "save" /\ op.stage = "read"
  /\ Commit([bootstrap EXCEPT !.config = op.payload], op.read)
  /\ SetDraft(op.read)
  /\ ops' = IF op.model = NoCopy THEN RemoveAt(ops, k)
            ELSE Append(RemoveAt(ops, k), [Op("patch", NoCopy) EXCEPT !.model = op.model])
  /\ spoiled' = (IF op.late THEN {"bootstrap"} ELSE {}) \cup (IF op.old THEN {"integrations"} ELSE {})
  /\ UNCHANGED <<config, workspace, settingsOpen, chosen, failed, blind, count>>

\* invalidateBootstrap(): the bootstrap query starts anew; one that is under way is given up.
Refetched(requests) ==
  LET under == {j \in DOMAIN requests : requests[j].kind = "bootstrap"}
  IN Append(IF under = {} THEN requests ELSE RemoveAt(requests, CHOOSE j \in under : TRUE),
            Op("bootstrap", NoCopy))

\* handleConfigSave() after its answer
DefaultsAnswered(k) ==
  LET op == ops[k] IN
  /\ op.kind = "defaults" /\ op.stage = "read"
  /\ Commit(bootstrap, op.read)
  /\ SetDraft(op.read)
  /\ ops' = Refetched(RemoveAt(ops, k))
  /\ spoiled' = Spoil("integrations", op.old)
  /\ UNCHANGED <<config, workspace, settingsOpen, chosen, failed, blind, count>>

\* The effect of the integrations query.
RefreshAnswered(k) ==
  LET op == ops[k] IN
  /\ op.kind = "refresh" /\ op.stage = "read"
  /\ Commit(bootstrap, op.read)
  /\ IF op.read = integrations THEN UNCHANGED <<draft, edits>> ELSE SetDraft(op.read)
  /\ ops' = RemoveAt(ops, k)
  /\ spoiled' = Spoil("integrations", op.old)
  /\ UNCHANGED <<config, workspace, settingsOpen, chosen, failed, blind, count>>

BootstrapAnswered(k) ==
  LET op == ops[k] IN
  /\ op.kind = "bootstrap" /\ op.stage = "read"
  /\ Commit([config |-> op.read, workspace |-> op.model], integrations)
  /\ ops' = RemoveAt(ops, k)
  /\ spoiled' = Spoil("bootstrap", op.old)
  /\ UNCHANGED <<config, workspace, draft, edits, settingsOpen, chosen, failed, blind, count>>

\* PATCH /api/workspaces/:id and its answer
PatchAnswered(k) ==
  LET op == ops[k] IN
  /\ op.kind = "patch"
  /\ workspace' = op.model
  /\ Commit([bootstrap EXCEPT !.workspace = op.model], integrations)
  /\ ops' = [j \in 1..(Len(ops) - 1) |->
               LET o == RemoveAt(ops, k)[j]
               IN [o EXCEPT !.old = @ \/ (o.kind = "bootstrap" /\ o.stage = "read")]]
  /\ UNCHANGED <<config, draft, edits, settingsOpen, chosen, spoiled, failed, blind, count>>

Choose ==
  \/ \E m \in Models : ChooseModel(m)
  \/ ToggleSpeed
  \/ \E e \in Efforts : ChooseEffort(e)
  \/ \E p \in {"ask", "never"} : ChoosePolicy(p)
  \/ OpenSettings \/ CloseSettings \/ SaveDefaults
  \/ \E t \in {"standard", "fast"} : EditDraft("tier", t)
  \/ \E p \in {"ask", "never"} : EditDraft("policy", p)

Next ==
  \/ Choose
  \/ \E k \in DOMAIN ops :
       \/ Write(k) \/ Read(k) \/ Fail(k)
       \/ SaveAnswered(k) \/ DefaultsAnswered(k) \/ RefreshAnswered(k) \/ BootstrapAnswered(k)
       \/ PatchAnswered(k)

Spec == Init /\ [][Next]_vars

-----------------------------------------------------------------------------
Quiet == ops = <<>>

(* When nothing is under way and no save failed, a copy of the configuration differs from what    *)
(* codex has only if the last answer applied to it was older than a later write                   *)
(* (setIntegrationSnapshot() and patchBootstrapCache() of the handlers, invalidateBootstrap()).    *)
CopiesAgree ==
  Quiet /\ ~failed =>
    /\ "bootstrap" \notin spoiled => bootstrap.config = config
    /\ "integrations" \notin spoiled => integrations \in {NoCopy, config}

(* The composer then shows the model and the effort that the copies stand for: no control keeps   *)
(* a value that only the handler which asked for it believes in.  (An effort that was corrected    *)
(* for a model stays corrected when the model changes back.)                                       *)
ComposerAgrees ==
  Quiet /\ ~failed =>
    /\ composer.model = ShownModel(bootstrap, integrations)
    /\ composer.effort \in {Shown(bootstrap, integrations).effort, "high"} \cap Supports(composer.model)

(* The tier and the policy a user chose last are what codex has, whatever other field was saved   *)
(* after it, if no save was composed from a copy that was behind.                                  *)
ChoicesSurvive == Quiet /\ ~failed /\ ~blind => chosen = [f \in DOMAIN chosen |-> config[f]]

SettingsAgree == CopiesAgree /\ ComposerAgrees /\ ChoicesSurvive
=============================================================================
