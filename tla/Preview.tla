------------------------------- MODULE Preview -------------------------------
(***************************************************************************)
(* The preview of a file behind a link of the conversation: the dialog,    *)
(* the query for the text (react-query, by path), and the editor, whose    *)
(* models outlive it and are disposed by timers of 0 ms.                   *)
(*                                                                         *)
(* A text is a version of the file.  Monaco is external: an editor that is *)
(* mounted takes the model there is for its path, or makes one of the text *)
(* it is given, and passes a changed text on to it.  Each dialog has a     *)
(* scope of its own for the paths of its models.                           *)
(***************************************************************************)
EXTENDS Naturals, FiniteSets

CONSTANTS Files, Lines, Nothing,
          MaxDialogs,  \* bound: dialogs that are opened
          MaxEdits,    \* bound: changes of a file
          MaxFailed    \* bound: reads that fail

VARIABLES
  disk,                 \* file |-> version
  codePreview, visible, \* the reference; codePreviewVisible
  clearTimer,           \* codePreviewClearTimerRef is set
  query,                \* file |-> the query of its text
  dialog,               \* number of the dialog that is mounted, or of the last one
  models,               \* Monaco: <<dialog, file>> |-> version
  editor,               \* the editor that is mounted: its file, the line it revealed
  disposals,            \* timers that dispose a model
  hurried,              \* history: an editor took a model that was about to be disposed
  relined,              \* history: the file in the open dialog was opened at another line
  refused,              \* history: files of which a later read failed
  failed                \* counter of the bound

dialogVars == <<codePreview, visible, clearTimer, dialog, disposals>>
historyVars == <<hurried, relined, refused, failed>>
vars == <<disk, dialogVars, query, models, editor, historyVars>>

Versions == 0..MaxEdits
References == [file : Files, line : Lines]
NoQuery == [stage |-> "idle", got |-> Nothing, data |-> Nothing, error |-> FALSE]

TypeOK ==
  /\ disk \in [Files -> Versions]
  /\ codePreview \in References \cup {Nothing}
  /\ {visible, clearTimer, hurried, relined} \subseteq BOOLEAN
  /\ query \in [Files -> [stage : {"idle", "asked", "read"}, got : Versions \cup {Nothing},
                          data : Versions \cup {Nothing}, error : BOOLEAN]]
  /\ dialog \in 0..MaxDialogs
  /\ DOMAIN models \subseteq (1..dialog) \X Files
  /\ editor \in References \cup {Nothing}
  /\ disposals \subseteq (1..dialog) \X Files /\ refused \subseteq Files
  /\ failed \in 0..MaxFailed

Init ==
  /\ disk = [f \in Files |-> 0]
  /\ codePreview = Nothing /\ visible = FALSE /\ clearTimer = FALSE
  /\ query = [f \in Files |-> NoQuery]
  /\ dialog = 0 /\ models = <<>> /\ editor = Nothing /\ disposals = {}
  /\ hurried = FALSE /\ relined = FALSE /\ refused = {} /\ failed = 0

-----------------------------------------------------------------------------
(* The query ["code-preview", path], enabled while the dialog is visible.  *)

\* An observer of a text that is there and stale, or of none, asks for it.
Observed(f) ==
  \/ query' = [query EXCEPT ![f].stage = IF @ = "idle" THEN "asked" ELSE @]
  \/ query[f].data # Nothing /\ UNCHANGED query

\* GET /api/resource
ReadFile(f) ==
  /\ query[f].stage = "asked"
  /\ query' = [query EXCEPT ![f] = [@ EXCEPT !.stage = "read", !.got = disk[f]]]
  /\ UNCHANGED <<disk, dialogVars, models, editor, historyVars>>

\* The dialog shows the editor when there is a text and no error.
Shows(f, q) == q[f].data # Nothing /\ ~q[f].error

\* The editor that is mounted gets the new text, or is unmounted.
Rendered(q) ==
  IF editor = Nothing THEN UNCHANGED <<models, editor>>
  ELSE IF ~Shows(editor.file, q) THEN editor' = Nothing /\ UNCHANGED models
  ELSE /\ UNCHANGED editor
       /\ models' = [m \in DOMAIN models |->
                       IF m = <<dialog, editor.file>> /\ q[editor.file].data # query[editor.file].data
                       THEN q[editor.file].data ELSE models[m]]

TextArrives(f) ==
  /\ query[f].stage = "read"
  /\ query' = [query EXCEPT ![f] = [NoQuery EXCEPT !.data = query[f].got]]
  /\ Rendered(query')
  /\ UNCHANGED <<disk, dialogVars, historyVars>>

\* Outside the home directory and all roots, not a file, or no answer
ReadFails(f) ==
  /\ query[f].stage # "idle" /\ failed < MaxFailed
  /\ query' = [query EXCEPT ![f] = [NoQuery EXCEPT !.data = query[f].data, !.error = TRUE]]
  /\ Rendered(query')
  /\ refused' = refused \cup {f} /\ failed' = failed + 1
  /\ UNCHANGED <<disk, dialogVars, hurried, relined>>

\* The window is focused.
Refocus ==
  /\ visible
  /\ Observed(codePreview.file)
  /\ UNCHANGED <<disk, dialogVars, models, editor, historyVars>>

-----------------------------------------------------------------------------
(* The dialog.                                                             *)

Forget == UNCHANGED disposals
\* The cleanup of the effect on modelPath: nothing is disposed where Monaco was never there.
Cleanup == disposals' = disposals \cup ({<<dialog, codePreview.file>>} \cap DOMAIN models)

\* openCodePreview(): a link in the conversation, also beside the open dialog
OpenCodePreview(f, l) ==
  /\ clearTimer' = FALSE
  /\ codePreview' = [file |-> f, line |-> l] /\ visible' = TRUE
  /\ IF ~visible
     THEN /\ dialog < MaxDialogs /\ dialog' = dialog + 1
          /\ relined' = FALSE /\ Observed(f) /\ UNCHANGED <<editor, disposals>>
     ELSE /\ UNCHANGED dialog
          /\ IF f = codePreview.file
             THEN /\ relined' = (relined \/ (editor # Nothing /\ l # editor.line))
                  /\ UNCHANGED <<query, editor, disposals>>
             ELSE /\ relined' = FALSE /\ Observed(f) /\ Cleanup /\ editor' = Nothing
  /\ UNCHANGED <<disk, models, hurried, refused, failed>>

\* The editor of a path is mounted, and reveals the line.
EditorMounts ==
  LET f == codePreview.file
      m == <<dialog, f>> IN
  /\ visible /\ editor = Nothing /\ Shows(f, query)
  /\ editor' = codePreview
  /\ models' = [x \in DOMAIN models \cup {m} |->
                  IF x \in DOMAIN models THEN models[x] ELSE query[f].data]
  /\ hurried' = (hurried \/ m \in disposals)
  /\ UNCHANGED <<disk, dialogVars, query, relined, refused, failed>>

\* closeCodePreview()
CloseCodePreview ==
  /\ visible /\ visible' = FALSE
  /\ clearTimer' = TRUE
  /\ editor' = Nothing /\ Cleanup
  /\ UNCHANGED <<disk, codePreview, query, dialog, models, historyVars>>

ClearTimerFires ==
  /\ clearTimer /\ clearTimer' = FALSE /\ codePreview' = Nothing
  /\ UNCHANGED <<disk, visible, query, dialog, models, editor, disposals, historyVars>>

\* disposeMonacoModel()
Dispose(m) ==
  /\ m \in disposals /\ disposals' = disposals \ {m}
  /\ models' = [x \in DOMAIN models \ {m} |-> models[x]]
  /\ UNCHANGED <<disk, codePreview, visible, clearTimer, query, dialog, editor, historyVars>>

FileChanges(f) ==
  /\ disk[f] < MaxEdits /\ disk' = [disk EXCEPT ![f] = @ + 1]
  /\ UNCHANGED <<dialogVars, query, models, editor, historyVars>>

Next ==
  \/ \E f \in Files : \/ ReadFile(f) \/ TextArrives(f) \/ ReadFails(f) \/ FileChanges(f)
                      \/ \E l \in Lines : OpenCodePreview(f, l)
  \/ Refocus \/ EditorMounts \/ CloseCodePreview \/ ClearTimerFires
  \/ \E m \in disposals : Dispose(m)

Spec == Init /\ [][Next]_vars

-----------------------------------------------------------------------------
Model == <<dialog, editor.file>>

(* The editor of the dialog shows the file and the line of its heading, and the text that was read *)
(* last: unless the file was opened anew before the timer that disposes its model, or at another  *)
(* line in the open dialog, or a read after the first failed (keepCurrentModel, `key`, onMount).  *)
EditorIsTrue ==
  editor # Nothing =>
    /\ visible /\ editor.file = codePreview.file
    /\ ~relined => editor.line = codePreview.line
    /\ ~hurried => Model \in DOMAIN models
    /\ ~hurried /\ editor.file \notin refused => models[Model] = query[editor.file].data

(* No model is left when the dialog is closed and its timers have fired, and the reference is     *)
(* cleared unless the dialog was opened again.                                                    *)
NothingIsLeft ==
  /\ ~visible /\ disposals = {} => models = <<>>
  /\ ~visible /\ ~clearTimer => codePreview = Nothing
  /\ visible => codePreview # Nothing

PreviewIsTrue == EditorIsTrue /\ NothingIsLeft
=============================================================================
