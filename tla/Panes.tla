-------------------------------- MODULE Panes --------------------------------
(***************************************************************************)
(* The width of a pane beside the conversation: the sidebar, or the tree   *)
(* of the review.  The pointer or the keys change it, it stays within a    *)
(* sixth and a third of the window, it is stored, and it is painted        *)
(* through a CSS variable, in a frame of its own while a pointer drags.    *)
(*                                                                         *)
(* Both panes run the same code, with the sign of the drag turned round    *)
(* and, for the sidebar alone, a paint when a drag starts.  A handler and  *)
(* the render and effects after it are one step.                           *)
(***************************************************************************)
EXTENDS Integers

CONSTANTS Viewports,    \* widths of the window
          Positions,    \* where a pointer may be, across the window
          Key,          \* what an arrow key adds: 18 in the code
          StoredWidths, \* what localStorage may hold, and the default
          NoDrag

VARIABLES
  pane,       \* "sidebar" or "inspector"
  viewport,   \* window.innerWidth
  width,      \* sidebarWidth
  drag,       \* sidebarResizeStateRef: where and at which width the drag started
  live,       \* liveSidebarWidthRef
  frame,      \* sidebarResizeFrameRef: a frame is asked for
  painted,    \* the CSS variable that lays the pane out
  storedWidth,\* localStorage
  outgrown,   \* history: the window has changed since live was computed in it
  strayed,    \* history: a drag ended with such a width
  undrawn     \* history: a drag ended where it had started, or another took its place,
              \* and its paint was not undone

vars == <<pane, viewport, width, drag, live, frame, painted, storedWidth,
          outgrown, strayed, undrawn>>
dragVars == <<drag, frame>>

-----------------------------------------------------------------------------
\* Math.round() of v / 6 and of v / 3.
Bounds(v) == [min |-> (v + 3) \div 6, max |-> (2 * v + 3) \div 6]

ClampTo(w, b) == IF w < b.min THEN b.min ELSE IF w > b.max THEN b.max ELSE w
Clamp(w, v) == ClampTo(w, Bounds(v))

Fits(w, v) == w \in Bounds(v).min..Bounds(v).max

Init ==
  /\ pane \in {"sidebar", "inspector"} /\ viewport \in Viewports
  /\ \E before \in StoredWidths : width = Clamp(before, viewport)
  /\ live = width /\ painted = width /\ storedWidth = width
  /\ drag = NoDrag /\ frame = FALSE
  /\ outgrown = FALSE /\ strayed = FALSE /\ undrawn = FALSE

\* The render and the effect of a width: they do nothing when it stays the same.
Commit(w) ==
  /\ width' = w
  /\ IF w = width THEN UNCHANGED <<live, painted, storedWidth, undrawn>>
     ELSE live' = w /\ painted' = w /\ storedWidth' = w /\ undrawn' = FALSE

-----------------------------------------------------------------------------
\* The live width of a drag is not clamped again unless the width changes.
ResizeWindow(v) ==
  /\ v # viewport /\ viewport' = v
  /\ Commit(Clamp(width, v))
  /\ outgrown' = (drag # NoDrag /\ width' = width) /\ strayed' = FALSE
  /\ UNCHANGED <<pane, dragVars>>

PressKey(delta) ==
  /\ Commit(Clamp(width + delta, viewport))
  /\ outgrown' = (outgrown /\ width' = width) /\ strayed' = FALSE
  /\ UNCHANGED <<pane, viewport, dragVars>>

\* A second pointer may start anew.
StartDrag(x) ==
  /\ drag' = [startX |-> x, startWidth |-> width]
  /\ live' = width /\ outgrown' = strayed
  /\ IF pane = "sidebar" THEN painted' = width /\ undrawn' = FALSE
     ELSE undrawn' = (undrawn \/ drag # NoDrag) /\ UNCHANGED painted
  /\ UNCHANGED <<pane, viewport, width, frame, storedWidth, strayed>>

\* The width a pointer at x asks for.  Mutation: whatever the bounds.
Asked(x) == drag.startWidth + (IF pane = "sidebar" THEN x - drag.startX ELSE drag.startX - x)

Followed(x) == Clamp(Asked(x), viewport)

MovePointer(x) ==
  /\ drag # NoDrag
  /\ live' = Followed(x) /\ frame' = TRUE /\ outgrown' = FALSE
  /\ UNCHANGED <<pane, viewport, width, drag, painted, storedWidth, strayed, undrawn>>

PaintFrame ==
  /\ frame /\ frame' = FALSE /\ painted' = live /\ undrawn' = FALSE
  /\ UNCHANGED <<pane, viewport, width, drag, live, storedWidth, outgrown, strayed>>

\* The pointer is released: the frame that is asked for is called off.
StopDrag ==
  /\ drag # NoDrag /\ drag' = NoDrag /\ frame' = FALSE
  /\ width' = live /\ strayed' = outgrown
  /\ IF live = width THEN undrawn' = TRUE /\ UNCHANGED <<painted, storedWidth>>
     ELSE painted' = live /\ storedWidth' = live /\ undrawn' = FALSE
  /\ UNCHANGED <<pane, viewport, live, outgrown>>

Next ==
  \/ \E v \in Viewports : ResizeWindow(v)
  \/ \E delta \in {Key, -Key} : PressKey(delta)
  \/ \E x \in Positions : StartDrag(x) \/ MovePointer(x)
  \/ PaintFrame \/ StopDrag

Spec == Init /\ [][Next]_vars

-----------------------------------------------------------------------------
(* A pane is as wide as the window allows, unless the window changed under a drag that   *)
(* then ended without another move; the next page finds the width it has; and it is      *)
(* painted with that width, or while it is dragged with the one the pointer is at, once   *)
(* the frame has come.  A drag that ends where it started leaves what was painted last,   *)
(* and so does a second pointer on the tree (WorkbenchScreen.tsx:868, 914, 1764).         *)
PaneIsKept ==
  /\ Fits(width, viewport) \/ strayed
  /\ storedWidth = width
  /\ frame => drag # NoDrag
  /\ undrawn \/ (IF drag = NoDrag THEN painted = width ELSE frame \/ painted = live)
=============================================================================
