---------------------------- MODULE Conversation ----------------------------
(***************************************************************************)
(* The conversation of the page (conversation-pane.tsx and its effects in  *)
(* WorkbenchScreen.tsx): the window on the newest entries of the active    *)
(* thread, older entries loaded on top of it, following the newest entry,  *)
(* and items shown as plain text while they stream.                        *)
(*                                                                         *)
(* Every entry is one row, a grown newest entry two; the viewport shows    *)
(* one row.  The store changes at once, the page at the next Commit, which *)
(* is React's render and its layout effects; the effect on the active      *)
(* thread is passive and comes later (Reset), but before the next render   *)
(* and before the next act of the user.  Scroll events are delivered right *)
(* before animation frames (Paint).                                        *)
(***************************************************************************)
EXTENDS Naturals

CONSTANTS
  Threads,
  InitialWindow,  \* INITIAL_TIMELINE_WINDOW_SIZE, positive
  BatchSize,      \* TIMELINE_WINDOW_BATCH_SIZE, positive
  MaxEntries,     \* bound: entries of a thread
  MaxEvents,      \* bound: changes of the store and acts of the user
  NoRestore

VARIABLES
  total,     \* entries of the view of each thread
  grown,     \* threads whose newest entry has grown
  marking,   \* threads whose newest entry is an agentMessage or reasoning
  active,    \* activeThreadId
  pane,      \* the conversation is shown, not the git workbench in its place
  visible,   \* visibleTimelineCount
  plain,     \* streamingPlainItems: threads, one item each
  drawn,     \* what the last render showed
  moved,     \* newest entry, delta version or running turn differ from the last render
  counted,   \* timelineDeltaVersion is not 0
  top,       \* scrollTop of the body
  scrolled,  \* a scroll event is due
  frame,     \* an animation frame that scrolls to the end is requested
  reset,     \* the effect on activeThreadId is due
  loading, restore, follow, activeRef, previousRef,  \* the refs
  timers,    \* streamingPlainItemTimersRef
  lapsed,    \* history: what the effects have missed, "follow" or "older"
  events     \* counter of the bound
store == <<total, grown, marking>>
state == <<active, pane, visible, plain, moved, counted>>
dom == <<drawn, top, scrolled, frame, reset>>
refs == <<loading, restore, follow, activeRef, previousRef, timers>>
vars == <<store, state, dom, refs, lapsed, events>>

Least(a, b) == IF a <= b THEN a ELSE b

\* countTimelineEntries, selectTimelineWindow: the newest entries, as many as are visible.
WindowLength(count, limit) == Least(count, limit)

Drawn == [thread |-> active, total |-> total[active], limit |-> visible,
          length |-> WindowLength(total[active], visible),
          grown |-> active \in grown, pane |-> pane]
Hidden == drawn.total - drawn.length
ScrollHeight(d) == d.length + IF d.grown THEN 1 ELSE 0
LastTop(d) == IF ScrollHeight(d) = 0 THEN 0 ELSE ScrollHeight(d) - 1
IsNearBottom == top = LastTop(drawn)

TypeOK ==
  /\ total \in [Threads -> 0..MaxEntries]
  /\ grown \subseteq Threads /\ marking \subseteq Threads
  /\ plain \subseteq Threads /\ timers \subseteq Threads
  /\ {active, activeRef, previousRef} \subseteq Threads
  /\ {pane, moved, counted, scrolled, frame, reset, loading, follow} \subseteq BOOLEAN
  /\ visible \in 0..(MaxEntries + InitialWindow) /\ top \in 0..(MaxEntries + 1)
  /\ drawn.thread \in Threads /\ drawn.length <= drawn.total
  /\ restore = NoRestore \/ restore \in [height : Nat, top : Nat]
  /\ lapsed \subseteq {"follow", "older"} /\ events \in 0..MaxEvents

\* A thread is open and followed; the others have whatever views they have.
Init ==
  /\ total \in [Threads -> 0..MaxEntries]
  /\ grown = {} /\ marking = Threads /\ plain = {} /\ timers = {}
  /\ active \in Threads /\ activeRef = active /\ previousRef = active
  /\ pane = TRUE /\ visible = InitialWindow
  /\ moved = FALSE /\ counted = FALSE
  /\ drawn = Drawn /\ top = LastTop(drawn)
  /\ scrolled = FALSE /\ frame = FALSE /\ reset = FALSE
  /\ loading = FALSE /\ restore = NoRestore /\ follow = TRUE
  /\ lapsed = {} /\ events = 0

Event == events < MaxEvents /\ events' = events + 1

-----------------------------------------------------------------------------
(* the store and the user *)

\* A new entry: an item, a turn, or the answer of a read.
Append(t, marks) ==
  /\ Event
  /\ total[t] < MaxEntries
  /\ total' = [total EXCEPT ![t] = @ + 1]
  /\ grown' = grown \ {t}
  /\ marking' = IF marks THEN marking \cup {t} ELSE marking \ {t}
  /\ moved' = (moved \/ t = active)
  /\ UNCHANGED <<active, pane, visible, plain, counted, dom, refs, lapsed>>

\* A rollback, a read that lacks entries, or the sweep of the views.
Shrink(t, n) ==
  /\ Event
  /\ total' = [total EXCEPT ![t] = n]
  /\ grown' = grown \ {t}
  /\ marking' = marking \cup {t}
  /\ moved' = (moved \/ t = active)
  /\ UNCHANGED <<active, pane, visible, plain, counted, dom, refs, lapsed>>

\* Deltas reach the store; only those of messages and reasoning are marked.
Delta(t) ==
  /\ Event
  /\ total[t] > 0
  /\ grown' = grown \cup {t}
  /\ IF t = activeRef /\ t \in marking
     THEN /\ plain' = plain \cup {t} /\ timers' = timers \cup {t}
          /\ moved' = TRUE /\ counted' = TRUE
     ELSE UNCHANGED <<plain, timers, moved, counted>>
  /\ UNCHANGED <<total, marking, active, pane, visible, dom, loading, restore, follow,
                 activeRef, previousRef, lapsed>>

\* An item is replaced by a longer one.
Replace(t) ==
  /\ Event
  /\ total[t] > 0 /\ t \notin grown
  /\ grown' = grown \cup {t}
  /\ UNCHANGED <<total, marking, state, dom, refs, lapsed>>

\* The running turn starts, ends or changes.
TurnChanges ==
  /\ Event
  /\ moved' = TRUE
  /\ UNCHANGED <<store, active, pane, visible, plain, counted, dom, refs, lapsed>>

SelectThread(t) ==
  /\ Event
  /\ t # active /\ active' = t
  /\ UNCHANGED <<store, pane, visible, plain, moved, counted, dom, refs, lapsed>>

\* The git workbench replaces the conversation, and gives it back.
TogglePane ==
  /\ Event
  /\ pane' = ~pane
  /\ UNCHANGED <<store, active, visible, plain, moved, counted, dom, refs, lapsed>>

UserScrolls(n) ==
  /\ Event
  /\ ~reset /\ drawn.pane /\ n # top /\ n <= LastTop(drawn)
  /\ top' = n /\ scrolled' = TRUE
  /\ UNCHANGED <<store, state, drawn, frame, reset, refs, lapsed>>

-----------------------------------------------------------------------------
(* what the page does *)

\* Mutation: asks for more when nothing is hidden.
LoadsAnyway == drawn.pane /\ ~loading

\* loadOlderTimelineEntries, with the numbers of the last render.  A window that Reset has set
\* back is rendered first (React would render the older entries, then set the window back).
LoadsOlder == drawn.pane /\ Hidden > 0 /\ ~loading
LoadOlder(yes) ==
  IF yes
  THEN /\ loading' = TRUE
       /\ restore' = [height |-> ScrollHeight(drawn), top |-> top]
       /\ visible' = Least(drawn.total, visible + BatchSize)
  ELSE UNCHANGED <<loading, restore, visible>>

\* The button over the oldest entry.
PressLoadOlder ==
  /\ Event
  /\ ~reset /\ LoadsOlder /\ visible = drawn.limit /\ LoadOlder(TRUE)
  /\ UNCHANGED <<store, active, pane, plain, moved, counted, dom, follow, activeRef,
                 previousRef, timers, lapsed>>

\* handleConversationScroll, then the frame.
Paint ==
  /\ scrolled \/ frame
  /\ scrolled /\ top = 0 /\ LoadsOlder => visible = drawn.limit
  /\ follow' = IF scrolled /\ drawn.pane THEN IsNearBottom ELSE follow
  /\ LoadOlder(scrolled /\ top = 0 /\ LoadsOlder)
  /\ top' = IF frame /\ drawn.pane THEN LastTop(drawn) ELSE top
  /\ scrolled' = (top' # top)
  /\ frame' = FALSE
  /\ lapsed' = IF frame /\ drawn.pane THEN lapsed \ {"follow"} ELSE lapsed
  /\ UNCHANGED <<store, active, pane, plain, moved, counted, drawn, reset, activeRef,
                 previousRef, timers, events>>

\* The effect on timeline.length puts back the place the reader had.
Restores(d) == restore # NoRestore /\ d.pane /\ d.length # drawn.length
RestoredTop(d) ==
  IF restore.top + ScrollHeight(d) <= restore.height THEN 0
  ELSE Least(restore.top + ScrollHeight(d) - restore.height, LastTop(d))

\* The effect that follows; its cleanup cancels the frame of its last run.
DependsOnChange(d) == moved \/ d.thread # drawn.thread \/ d.length # drawn.length

\* Mutation: a thread that is opened is treated as the last one.
FollowsAsBefore(d) == d.pane /\ follow

Follows(d) == d.pane /\ (previousRef # active \/ follow)

Due == drawn # Drawn \/ moved
Commit ==
  /\ Due /\ ~reset
  /\ LET d == Drawn
         remounted == d.pane /\ ~drawn.pane
         kept == IF remounted THEN 0 ELSE Least(top, LastTop(d))
         swelled == ScrollHeight(d) > ScrollHeight(drawn)
     IN /\ drawn' = d
        /\ top' = IF Restores(d) THEN RestoredTop(d) ELSE kept
        /\ scrolled' = (d.pane /\ ((scrolled /\ ~remounted) \/ top' # IF remounted THEN 0 ELSE top))
        /\ IF Restores(d)
           THEN loading' = FALSE /\ restore' = NoRestore
           ELSE UNCHANGED <<loading, restore>>
        /\ frame' = IF DependsOnChange(d) THEN Follows(d) ELSE frame
        /\ previousRef' = IF DependsOnChange(d) /\ d.pane THEN active ELSE previousRef
        /\ reset' = (reset \/ d.thread # drawn.thread)
        /\ lapsed' = lapsed
             \cup (IF remounted \/ (swelled /\ ~DependsOnChange(d)) THEN {"follow"} ELSE {})
             \cup (IF restore # NoRestore /\ ~Restores(d) THEN {"older"} ELSE {})
  /\ moved' = FALSE
  /\ UNCHANGED <<store, active, pane, visible, plain, counted, follow, activeRef, timers, events>>

\* The passive effect on activeThreadId.
Reset ==
  /\ reset /\ reset' = FALSE
  /\ visible' = InitialWindow
  /\ restore' = NoRestore /\ loading' = FALSE /\ follow' = TRUE
  /\ activeRef' = drawn.thread
  /\ plain' = {} /\ timers' = {}
  /\ moved' = (moved \/ counted) /\ counted' = FALSE
  /\ lapsed' = lapsed \ {"older"}
  /\ UNCHANGED <<store, active, pane, drawn, top, scrolled, frame, previousRef, events>>

\* 220 ms after the last delta of an item.
PlainTimer(t) ==
  /\ t \in timers
  /\ timers' = timers \ {t} /\ plain' = plain \ {t}
  /\ UNCHANGED <<store, active, pane, visible, moved, counted, dom, loading, restore, follow,
                 activeRef, previousRef, lapsed, events>>

Next ==
  \/ \E t \in Threads :
       \/ \E marks \in BOOLEAN : Append(t, marks)
       \/ \E n \in 0..(total[t] - 1) : Shrink(t, n)
       \/ Delta(t) \/ Replace(t) \/ SelectThread(t) \/ PlainTimer(t)
  \/ \E n \in 0..LastTop(drawn) : UserScrolls(n)
  \/ TurnChanges \/ TogglePane \/ PressLoadOlder
  \/ Paint \/ Commit \/ Reset

Spec == Init /\ [][Next]_vars

-----------------------------------------------------------------------------
\* When nothing is due any more: a reader who follows sees the newest entry, and a batch that
\* is being loaded is never waited for; and an item is plain only while its timer runs.  The
\* exceptions are the code's: a conversation that comes back from the git workbench starts at
\* its top though it follows, growth that changes no dependency of the effect is not followed,
\* and a batch whose render finds no conversation or a window of the same length leaves
\* timelineWindowLoadingRef set, so that nothing older can be loaded.
Settled == ~Due /\ ~scrolled /\ ~frame /\ ~reset
ConversationSettles ==
  /\ plain \subseteq timers
  /\ Settled /\ drawn.pane /\ follow /\ "follow" \notin lapsed => IsNearBottom
  /\ Settled /\ loading => "older" \in lapsed

=============================================================================
