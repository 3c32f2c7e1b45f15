---------------------------- MODULE ShellProofs ----------------------------
(***************************************************************************)
(* Theorems about what surrounds the threads in a page, for any sizes: the *)
(* client of its socket (SessionClient), the panes and the branches        *)
(* (MCDesk), the file search, the preview and the sessions of tabs         *)
(* (MCShell).  What makes NeverStranded and NoLostCall inductive is that   *)
(* the promise a client holds is always the one of its present socket,     *)
(* whose "open" or "close" is still to come (PromiseOfSocket); each of the *)
(* other parts opens with what makes its property inductive.               *)
(***************************************************************************)
EXTENDS SessionClient, MCDesk, SequenceLemmas

\* Until it is disposed of, a client that holds a connect promise has the socket
\* of that promise, and it has not opened.
PromiseOfSocket ==
  ~disposed /\ connectPromise # NoSocket =>
    /\ socket = connectPromise
    /\ sock[socket] \in {"connecting", "closing"}

Inv ==
  /\ TypeOK
  /\ PromiseOfSocket
  /\ NeverStranded
  /\ NoLostCall

LEMMA InitInv == Init => Inv
<1>. SUFFICES ASSUME Init PROVE Inv
  OBVIOUS
<1>. USE NoSocketAssumption, BoundsAssumption
<1>1. PICK k \in Sockets :
        /\ sock = [l \in Sockets |-> IF l = k THEN "connecting" ELSE "none"]
        /\ socket = k
        /\ connectPromise = k
  BY DEF Init
<1>2. sock \in [Sockets -> {"none", "connecting", "closing"} \cup Open]
  BY <1>1
<1>3. TypeOK
  <2>1. delay \in 0..MaxDelay /\ drops \in 0..MaxDrops /\ restarts \in 0..MaxRestarts
    BY DEF Init
  <2>2. reconnectTimer \in BOOLEAN /\ disposed \in BOOLEAN
    BY DEF Init
  <2>3. up \in BOOLEAN /\ known \in BOOLEAN
    BY DEF Init
  <2>4. state \in {"disconnected", "connecting", "connected"}
    BY DEF Init
  <2>5. /\ pending \subseteq Calls
        /\ phase \in [Calls -> {"idle", "waiting", "sent"} \cup Settled]
        /\ via \in [Calls -> Sockets \cup {NoSocket}]
    BY DEF Init
  <2>. QED
    BY <1>1, <1>2, <2>1, <2>2, <2>3, <2>4, <2>5 DEF TypeOK
<1>4. PromiseOfSocket /\ NeverStranded
  BY <1>1 DEF PromiseOfSocket, NeverStranded
<1>5. NoLostCall
  BY DEF Init, NoLostCall
<1>. QED
  BY <1>3, <1>4, <1>5 DEF Inv

-----------------------------------------------------------------------------
(* Types.                                                                    *)

LEMMA StepTypeOK == TypeOK /\ [Next]_vars => TypeOK'
<1>. SUFFICES ASSUME TypeOK, [Next]_vars PROVE TypeOK'
  OBVIOUS
<1>. USE NoSocketAssumption, BoundsAssumption
<1>1. ASSUME NEW c \in Calls, Call(c) PROVE TypeOK'
  <2>1. CASE CallNow(c)
    BY <1>1, <2>1 DEF TypeOK, Call, CallNow, IsOpen, Settled, clientVars, serverVars
  <2>2. CASE CallLater(c)
    BY <1>1, <2>2 DEF TypeOK, Call, CallLater, NewSocket, clientVars, serverVars
  <2>. QED
    BY <1>1, <2>1, <2>2 DEF Call
<1>2. ASSUME NEW c \in Calls, Response(c) PROVE TypeOK'
  BY <1>2 DEF TypeOK, Response, Settled, clientVars, serverVars
<1>3. ASSUME NEW k \in Sockets, SocketOpens(k) PROVE TypeOK'
  BY <1>3 DEF TypeOK, SocketOpens, ResumeWaiters, Open, Settled, serverVars
<1>4. ASSUME NEW k \in Sockets, SocketCloses(k) PROVE TypeOK'
  <2>1. sock' \in [Sockets -> {"none", "connecting", "closing"} \cup Open]
    BY <1>4 DEF TypeOK, SocketCloses
  <2>2. /\ phase' \in [Calls -> {"idle", "waiting", "sent"} \cup Settled]
        /\ pending' \subseteq Calls
        /\ via' = via
    BY <1>4 DEF TypeOK, SocketCloses, RejectPending, Settled
  <2>3. reconnectTimer' \in BOOLEAN /\ delay' \in 0..MaxDelay
    <3>1. CASE disposed \/ reconnectTimer
      BY <1>4, <3>1 DEF TypeOK, SocketCloses, ScheduleReconnect
    <3>2. CASE ~(disposed \/ reconnectTimer)
      <4>1. /\ reconnectTimer' = TRUE
            /\ delay' = IF delay < MaxDelay THEN delay + 1 ELSE delay
        BY <1>4, <3>2 DEF SocketCloses, ScheduleReconnect
      <4>2. delay' \in 0..MaxDelay
        BY <4>1 DEF TypeOK
      <4>. QED
        BY <4>1, <4>2
    <3>. QED
      BY <3>1, <3>2
  <2>. QED
    BY <1>4, <2>1, <2>2, <2>3 DEF TypeOK, SocketCloses, serverVars
<1>5. ASSUME NEW k \in Sockets, ServerCloses(k) PROVE TypeOK'
  BY <1>5 DEF TypeOK, ServerCloses, clientVars, callVars
<1>6. ASSUME NEW k \in Sockets, NetworkDrops(k) PROVE TypeOK'
  BY <1>6 DEF TypeOK, NetworkDrops, Open, clientVars, callVars
<1>7. CASE ReconnectTimerFires
  BY <1>7 DEF TypeOK, ReconnectTimerFires, callVars, serverVars
<1>8. CASE Dispose
  BY <1>8 DEF TypeOK, Dispose, Settled, serverVars
<1>9. CASE ServerStops
  <2>1. sock' \in [Sockets -> {"none", "connecting", "closing"} \cup Open]
    BY <1>9 DEF TypeOK, ServerStops, Open
  <2>2. up' \in BOOLEAN /\ known' \in BOOLEAN
    BY <1>9 DEF ServerStops
  <2>3. restarts' \in 0..MaxRestarts /\ drops' = drops
    BY <1>9 DEF TypeOK, ServerStops
  <2>. QED
    BY <1>9, <2>1, <2>2, <2>3 DEF TypeOK, ServerStops, clientVars, callVars
<1>10. CASE ServerStarts
  BY <1>10 DEF TypeOK, ServerStarts, clientVars, callVars
<1>11. CASE UNCHANGED vars
  BY <1>11 DEF TypeOK, vars, clientVars, callVars, serverVars
<1>. QED
  BY <1>1, <1>2, <1>3, <1>4, <1>5, <1>6, <1>7, <1>8, <1>9, <1>10, <1>11 DEF Next

-----------------------------------------------------------------------------
(* The socket of the client.                                                 *)

LEMMA StepSocket ==
  Inv /\ [Next]_vars => PromiseOfSocket' /\ NeverStranded'
<1>. SUFFICES ASSUME Inv, [Next]_vars
              PROVE  PromiseOfSocket' /\ NeverStranded'
  OBVIOUS
<1>. USE NoSocketAssumption DEF PromiseOfSocket, NeverStranded
<1>1. ASSUME NEW c \in Calls, Call(c) PROVE PromiseOfSocket' /\ NeverStranded'
  <2>1. CASE CallNow(c)
    BY <1>1, <2>1 DEF Inv, TypeOK, Call, CallNow, clientVars, serverVars
  <2>2. CASE CallLater(c)
    BY <1>1, <2>2
    DEF Inv, TypeOK, Call, CallLater, NewSocket, clientVars, serverVars
  <2>. QED
    BY <1>1, <2>1, <2>2 DEF Call
<1>2. ASSUME NEW c \in Calls, Response(c) PROVE PromiseOfSocket' /\ NeverStranded'
  BY <1>2 DEF Inv, TypeOK, Response, clientVars, serverVars
<1>3. ASSUME NEW k \in Sockets, SocketOpens(k)
      PROVE  PromiseOfSocket' /\ NeverStranded'
  BY <1>3 DEF Inv, TypeOK, SocketOpens, serverVars
<1>4. ASSUME NEW k \in Sockets, SocketCloses(k)
      PROVE  PromiseOfSocket' /\ NeverStranded'
  BY <1>4 DEF Inv, TypeOK, SocketCloses, ScheduleReconnect, serverVars
<1>5. ASSUME NEW k \in Sockets, ServerCloses(k)
      PROVE  PromiseOfSocket' /\ NeverStranded'
  BY <1>5 DEF Inv, TypeOK, ServerCloses, clientVars, callVars
<1>6. ASSUME NEW k \in Sockets, NetworkDrops(k)
      PROVE  PromiseOfSocket' /\ NeverStranded'
  BY <1>6 DEF Inv, TypeOK, NetworkDrops, clientVars, callVars
<1>7. CASE ReconnectTimerFires
  BY <1>7 DEF Inv, TypeOK, ReconnectTimerFires, MustConnect, IsOpen, Open,
              callVars, serverVars
<1>8. CASE Dispose
  BY <1>8 DEF Dispose
<1>9. CASE ServerStops
  BY <1>9 DEF Inv, TypeOK, ServerStops, IsOpen, Open, clientVars, callVars
<1>10. CASE ServerStarts
  BY <1>10 DEF Inv, ServerStarts, clientVars, callVars
<1>11. CASE UNCHANGED vars
  BY <1>11 DEF Inv, vars, clientVars, callVars, serverVars
<1>. QED
  BY <1>1, <1>2, <1>3, <1>4, <1>5, <1>6, <1>7, <1>8, <1>9, <1>10, <1>11 DEF Next

-----------------------------------------------------------------------------
(* The calls of the client.                                                  *)

LEMMA StepCalls == Inv /\ [Next]_vars => NoLostCall'
<1>. SUFFICES ASSUME Inv, [Next]_vars PROVE NoLostCall'
  OBVIOUS
<1>. USE NoSocketAssumption DEF NoLostCall
<1>1. ASSUME NEW c \in Calls, Call(c) PROVE NoLostCall'
  <2>1. CASE CallNow(c)
    BY <1>1, <2>1
    DEF Inv, TypeOK, Call, CallNow, IsOpen, Open, clientVars, serverVars
  <2>2. CASE CallLater(c)
    <3>1. CASE MustConnect /\ \E k \in Sockets : NewSocket(k)
      BY <1>1, <2>2, <3>1 DEF Inv, TypeOK, Call, CallLater, NewSocket
    <3>2. CASE ~MustConnect /\ UNCHANGED <<sock, clientVars>>
      BY <1>1, <2>2, <3>2
      DEF Inv, TypeOK, PromiseOfSocket, Call, CallLater, MustConnect, clientVars
    <3>. QED
      BY <2>2, <3>1, <3>2 DEF CallLater
  <2>. QED
    BY <1>1, <2>1, <2>2 DEF Call
<1>2. ASSUME NEW c \in Calls, Response(c) PROVE NoLostCall'
  BY <1>2 DEF Inv, TypeOK, Response, Settled
<1>3. ASSUME NEW k \in Sockets, SocketOpens(k) PROVE NoLostCall'
  BY <1>3 DEF Inv, TypeOK, SocketOpens, ResumeWaiters, IsOpen, Open
<1>4. ASSUME NEW k \in Sockets, SocketCloses(k) PROVE NoLostCall'
  BY <1>4 DEF Inv, TypeOK, SocketCloses, RejectPending
<1>5. ASSUME NEW k \in Sockets, ServerCloses(k) PROVE NoLostCall'
  BY <1>5 DEF Inv, TypeOK, ServerCloses, callVars
<1>6. ASSUME NEW k \in Sockets, NetworkDrops(k) PROVE NoLostCall'
  BY <1>6 DEF Inv, TypeOK, NetworkDrops, callVars
<1>7. CASE ReconnectTimerFires
  BY <1>7 DEF Inv, TypeOK, ReconnectTimerFires, callVars
<1>8. CASE Dispose
  BY <1>8 DEF Inv, TypeOK, Dispose
<1>9. CASE ServerStops
  BY <1>9 DEF Inv, TypeOK, ServerStops, IsOpen, Open, callVars
<1>10. CASE ServerStarts
  BY <1>10 DEF Inv, ServerStarts, callVars
<1>11. CASE UNCHANGED vars
  BY <1>11 DEF Inv, vars, callVars
<1>. QED
  BY <1>1, <1>2, <1>3, <1>4, <1>5, <1>6, <1>7, <1>8, <1>9, <1>10, <1>11 DEF Next

-----------------------------------------------------------------------------
(* Theorems.                                                                 *)

LEMMA SpecInv == Spec => []Inv
<1>1. Inv /\ [Next]_vars => Inv'
  BY StepTypeOK, StepSocket, StepCalls DEF Inv
<1>. QED
  BY InitInv, <1>1, PTL DEF Spec

\* The fields of the client keep their types; the delay stays below its limit.
THEOREM TypeCorrect == Spec => []TypeOK
<1>1. Inv => TypeOK
  BY DEF Inv
<1>. QED
  BY SpecInv, <1>1, PTL

\* However many sockets overlap, the client has one that will open or close, or
\* its timer is armed, until it is disposed of (connect, close, scheduleReconnect).
THEOREM ClientIsNeverStranded == Spec => []NeverStranded
<1>1. Inv => NeverStranded
  BY DEF Inv
<1>. QED
  BY SpecInv, <1>1, PTL

\* However many calls and sockets, what a call awaits can still happen (call,
\* rejectPending).
THEOREM NoCallIsLost == Spec => []NoLostCall
<1>1. Inv => NoLostCall
  BY DEF Inv
<1>. QED
  BY SpecInv, <1>1, PTL

\* So the client and each of its calls wait for something that will happen.
THEOREM NothingIsEverStranded == Spec => []NothingIsStranded
<1>1. NeverStranded /\ NoLostCall => NothingIsStranded
  BY DEF NothingIsStranded
<1>. QED
  BY ClientIsNeverStranded, NoCallIsLost, <1>1, PTL

-----------------------------------------------------------------------------
(* A pane beside the conversation, for windows, pointers and keys of any     *)
(* size.  Between two actions the live width is what a drag would end with:  *)
(* it fits, unless the window has changed under the drag, and it is the      *)
(* width itself while nothing drags.                                         *)

PaneIs ==
  /\ viewport \in Nat /\ width \in Int /\ live \in Int /\ painted \in Int
  /\ drag \in {NoDrag} \cup [startX : Int, startWidth : Int]
  /\ {frame, outgrown, strayed, undrawn} \subseteq BOOLEAN

LiveIsKept ==
  /\ Pane!Fits(live, viewport) \/ outgrown
  /\ drag = NoDrag => live = width

PaneInv == PaneIs /\ LiveIsKept /\ PaneIsKept

\* A clamped width fits: a sixth of a window is no more than a third of it.
LEMMA ClampFits ==
  ASSUME NEW w \in Int, NEW v \in Nat
  PROVE  Pane!Clamp(w, v) \in Int /\ Pane!Fits(Pane!Clamp(w, v), v)
<1>. DEFINE min == (v + 3) \div 6
            max == (2 * v + 3) \div 6
<1>1. min \in Int /\ max \in Int /\ min =< max
  OBVIOUS
<1>2. Pane!Clamp(w, v) = IF w < min THEN min ELSE IF w > max THEN max ELSE w
  BY DEF Pane!Clamp, Pane!ClampTo, Pane!Bounds
<1>3. Pane!Fits(Pane!Clamp(w, v), v) <=> Pane!Clamp(w, v) \in min..max
  BY DEF Pane!Fits, Pane!Bounds
<1>. HIDE DEF min, max
<1>. QED
  BY <1>1, <1>2, <1>3

LEMMA PaneInit == Pane!Init => PaneInv
<1>. SUFFICES ASSUME Pane!Init PROVE PaneInv
  OBVIOUS
<1>1. viewport \in Nat
  BY DeskAssumption DEF Pane!Init, DeskAssumption
<1>2. PICK before \in StoredWidths : width = Pane!Clamp(before, viewport)
  BY DEF Pane!Init
<1>3. before \in Int
  BY <1>2, DeskAssumption DEF DeskAssumption
<1>4. width \in Int /\ Pane!Fits(width, viewport)
  BY <1>1, <1>2, <1>3, ClampFits
<1>. QED
  BY <1>1, <1>4 DEF Pane!Init, PaneInv, PaneIs, LiveIsKept, PaneIsKept, Pane!PaneIsKept

\* What a render does with a width that fits the window after it.
LEMMA CommitKeepsPane ==
  ASSUME PaneInv, NEW w \in Int, Pane!Commit(w), viewport' \in Nat, Pane!Fits(w, viewport'),
         UNCHANGED <<drag, frame>>, strayed' = FALSE, outgrown' \in BOOLEAN,
         Pane!Fits(live', viewport') \/ outgrown'
  PROVE  PaneInv'
<1>1. CASE w = width
  BY <1>1 DEF Pane!Commit, PaneInv, PaneIs, LiveIsKept, PaneIsKept, Pane!PaneIsKept, Pane!Fits, Pane!Bounds
<1>2. CASE w # width
  BY <1>2 DEF Pane!Commit, PaneInv, PaneIs, LiveIsKept, PaneIsKept, Pane!PaneIsKept, Pane!Fits, Pane!Bounds
<1>. QED
  BY <1>1, <1>2

LEMMA ResizeKeepsPane ==
  ASSUME PaneInv, NEW v \in Viewports, Pane!ResizeWindow(v)
  PROVE  PaneInv'
<1>1. v \in Nat /\ viewport' = v /\ width \in Int
  BY DeskAssumption DEF DeskAssumption, Pane!ResizeWindow, PaneInv, PaneIs
<1>2. Pane!Clamp(width, v) \in Int /\ Pane!Fits(Pane!Clamp(width, v), v)
  BY <1>1, ClampFits
<1>3. Pane!Commit(Pane!Clamp(width, v)) /\ width' = Pane!Clamp(width, v)
  BY DEF Pane!ResizeWindow, Pane!Commit
<1>4. outgrown' = (drag # NoDrag /\ width' = width) /\ strayed' = FALSE /\ UNCHANGED <<drag, frame>>
  BY DEF Pane!ResizeWindow, Pane!dragVars
<1>5. Pane!Fits(live', v) \/ outgrown'
  <2>1. CASE width' # width
    BY <1>2, <1>3, <2>1 DEF Pane!Commit
  <2>2. CASE width' = width /\ drag = NoDrag
    <3>1. live' = live /\ live = width
      BY <1>3, <2>2 DEF Pane!Commit, PaneInv, LiveIsKept
    <3>. QED
      BY <3>1, <1>2, <1>3, <2>2
  <2>. QED
    BY <2>1, <2>2, <1>4
<1>. QED
  BY <1>1, <1>2, <1>3, <1>4, <1>5, CommitKeepsPane

LEMMA KeyKeepsPane ==
  ASSUME PaneInv, NEW delta \in {Key, -Key}, Pane!PressKey(delta)
  PROVE  PaneInv'
<1>. DEFINE w == Pane!Clamp(width + delta, viewport)
<1>1. viewport' = viewport /\ viewport \in Nat /\ width + delta \in Int
  BY DeskAssumption DEF DeskAssumption, Pane!PressKey, PaneInv, PaneIs
<1>2. w \in Int /\ Pane!Fits(w, viewport)
  BY <1>1, ClampFits
<1>3. Pane!Commit(w) /\ width' = w
  BY DEF Pane!PressKey, Pane!Commit
<1>4. outgrown' = (outgrown /\ width' = width) /\ strayed' = FALSE /\ UNCHANGED <<drag, frame>>
  BY DEF Pane!PressKey, Pane!dragVars
<1>. HIDE DEF w
<1>5. Pane!Fits(live', viewport') \/ outgrown'
  <2>1. CASE width' # width
    BY <1>1, <1>2, <1>3, <2>1 DEF Pane!Commit
  <2>2. CASE width' = width
    <3>1. live' = live
      BY <1>3, <2>2 DEF Pane!Commit
    <3>. QED
      BY <3>1, <1>1, <1>4, <2>2 DEF PaneInv, LiveIsKept
  <2>. QED
    BY <2>1, <2>2
<1>. QED
  BY <1>1, <1>2, <1>3, <1>4, <1>5, CommitKeepsPane

LEMMA StartKeepsPane ==
  ASSUME PaneInv, NEW x \in Positions, Pane!StartDrag(x)
  PROVE  PaneInv'
<1>1. drag' \in [startX : Int, startWidth : Int] /\ drag' # NoDrag
  BY DeskAssumption DEF DeskAssumption, Pane!StartDrag, PaneInv, PaneIs
<1>2. CASE pane = "sidebar"
  BY <1>1, <1>2 DEF Pane!StartDrag, PaneInv, PaneIs, LiveIsKept, PaneIsKept, Pane!PaneIsKept, Pane!Fits, Pane!Bounds
<1>3. CASE pane # "sidebar"
  BY <1>1, <1>3 DEF Pane!StartDrag, PaneInv, PaneIs, LiveIsKept, PaneIsKept, Pane!PaneIsKept, Pane!Fits, Pane!Bounds
<1>. QED
  BY <1>2, <1>3

LEMMA MoveKeepsPane ==
  ASSUME PaneInv, NEW x \in Positions, Pane!MovePointer(x)
  PROVE  PaneInv'
<1>1. drag \in [startX : Int, startWidth : Int] /\ x \in Int /\ viewport \in Nat
  BY DeskAssumption DEF DeskAssumption, Pane!MovePointer, PaneInv, PaneIs
<1>2. Pane!Asked(x) \in Int
  BY <1>1 DEF Pane!Asked
<1>3. live' \in Int /\ Pane!Fits(live', viewport)
  BY <1>1, <1>2, ClampFits DEF Pane!MovePointer, Pane!Followed
<1>. QED
  BY <1>1, <1>3 DEF Pane!MovePointer, PaneInv, PaneIs, LiveIsKept, PaneIsKept, Pane!PaneIsKept, Pane!Fits, Pane!Bounds

LEMMA PaintKeepsPane ==
  ASSUME PaneInv, Pane!PaintFrame
  PROVE  PaneInv'
  BY DEF Pane!PaintFrame, PaneInv, PaneIs, LiveIsKept, PaneIsKept, Pane!PaneIsKept, Pane!Fits, Pane!Bounds

LEMMA StopKeepsPane ==
  ASSUME PaneInv, Pane!StopDrag
  PROVE  PaneInv'
<1>1. CASE live = width
  BY <1>1 DEF Pane!StopDrag, PaneInv, PaneIs, LiveIsKept, PaneIsKept, Pane!PaneIsKept, Pane!Fits, Pane!Bounds
<1>2. CASE live # width
  BY <1>2 DEF Pane!StopDrag, PaneInv, PaneIs, LiveIsKept, PaneIsKept, Pane!PaneIsKept, Pane!Fits, Pane!Bounds
<1>. QED
  BY <1>1, <1>2

\* Whatever the window, the pointers and the keys do, a pane has a width that fits, but for a
\* drag that outlived its window, it is stored as it is, and painted so once the frame has come,
\* but for a drag that ended where it started (clampSidebarWidth(), stopResizing(), the effects).
THEOREM PaneIsAlwaysKept == DeskSpec => []PaneIsKept
<1>1. DeskInit => PaneInv
  BY PaneInit DEF DeskInit
<1>2. PaneInv /\ [DeskNext]_<<tool, shellVars, fieldVars, paneVars, branchVars, link>> => PaneInv'
  <2>. SUFFICES ASSUME PaneInv, [DeskNext]_<<tool, shellVars, fieldVars, paneVars, branchVars, link>>
                PROVE  PaneInv'
    OBVIOUS
  <2>1. CASE Pane!Next
    BY <2>1, ResizeKeepsPane, KeyKeepsPane, StartKeepsPane, MoveKeepsPane, PaintKeepsPane,
       StopKeepsPane DEF Pane!Next
  <2>2. CASE UNCHANGED paneVars
    BY <2>2 DEF paneVars, PaneInv, PaneIs, LiveIsKept, PaneIsKept, Pane!PaneIsKept, Pane!Fits, Pane!Bounds
  <2>. QED
    BY <2>1, <2>2 DEF DeskNext
<1>3. PaneInv => PaneIsKept
  BY DEF PaneInv
<1>. QED
  BY <1>1, <1>2, <1>3, PTL DEF DeskSpec

-----------------------------------------------------------------------------
(* The menu of branches, for any names, calls and changes.  What was read of *)
(* the repository says at which version, so that everything read at the      *)
(* present one agrees with it; and what the page is owed is no newer than    *)
(* that.                                                                     *)

Snapshots == [git : BOOLEAN, branch : Branch \cup {Detached, NoBranch}, at : Nat]
Lists == [names : SUBSET (Branch \cup {Detached}), at : Nat]

BranchCall ==
  [kind : {"effect", "switch", "event"}, target : Branch \cup {Detached, NoBranch},
   lost : BOOLEAN, pc : {"switching", "wanted", "read", "told", "failed"},
   snapshot : Snapshots, listed : BOOLEAN, list : Lists]

BranchIs ==
  /\ repo \in Repo!Repos /\ version \in Nat \ {0} /\ joined \in BOOLEAN
  /\ DOMAIN branchCalls \subseteq BranchCalls
  /\ \A c \in DOMAIN branchCalls : branchCalls[c] \in BranchCall
  /\ branchOf \in Snapshots /\ branchList \in Lists /\ gitBranchSwitchPending \in BOOLEAN
  /\ owed \in [snapshot : Nat, list : Nat] /\ outrun \in [snapshot : BOOLEAN, list : BOOLEAN]

\* A snapshot, or a list, of the present version is what git tells.
SnapshotIsTrue(s) ==
  s.at <= version /\ (s.at = version => s.branch = repo.head)
ListIsTrue(l) ==
  l.at <= version /\ (l.at = version => l.names = repo.names \cup ({repo.head} \ {NoBranch}))

ReadIsTrue ==
  /\ owed.snapshot <= version /\ owed.list <= version
  /\ SnapshotIsTrue(branchOf) /\ ListIsTrue(branchList)
  /\ \A c \in DOMAIN branchCalls :
       SnapshotIsTrue(branchCalls[c].snapshot) /\ ListIsTrue(branchCalls[c].list)

\* The call of the effect is one, and a switch lists after it has switched.
CallsFit ==
  /\ \A c \in DOMAIN branchCalls :
       LET call == branchCalls[c]
       IN /\ c = effect => call.kind = "effect" /\ ~call.lost
          /\ call.kind # "switch" => call.pc \in {"wanted", "read", "told"}
          /\ call.kind = "switch" /\ call.pc # "told" => ~call.listed
          /\ call.kind = "event" => call.pc # "told"
  /\ effect \in DOMAIN branchCalls \cup {NoEffect}

\* One switch at a time is waited for.
SwitchIsOne ==
  /\ \A c, d \in DOMAIN branchCalls :
       (branchCalls[c].kind = "switch" /\ ~branchCalls[c].lost /\
        branchCalls[d].kind = "switch" /\ ~branchCalls[d].lost) => c = d
  /\ gitBranchSwitchPending <=>
       \E c \in DOMAIN branchCalls : branchCalls[c].kind = "switch" /\ ~branchCalls[c].lost

BranchInv ==
  BranchIs /\ ReadIsTrue /\ CallsFit /\ SwitchIsOne /\ Repo!BranchIsDue /\ Repo!ListIsOwed

LEMMA BranchInit == Repo!Init => BranchInv
<1>. SUFFICES ASSUME Repo!Init PROVE BranchInv
  OBVIOUS
<1>1. branchCalls = <<>> /\ DOMAIN branchCalls = {}
  BY DEF Repo!Init
<1>2. BranchIs
  <2>1. branchOf \in Snapshots /\ branchList \in Lists
    BY DEF Repo!Init, Snapshots, Lists, Repo!NoSnapshot, Repo!NoList
  <2>2. repo \in Repo!Repos /\ version \in Nat \ {0} /\ joined \in BOOLEAN
    <3>1. repo \in Repo!Repos /\ joined \in BOOLEAN
      BY Zenon DEF Repo!Init
    <3>2. version = 1
      BY DEF Repo!Init
    <3>. QED
      BY <3>1, <3>2
  <2>3. /\ owed \in [snapshot : Nat, list : Nat] /\ outrun \in [snapshot : BOOLEAN, list : BOOLEAN]
        /\ gitBranchSwitchPending \in BOOLEAN
    BY DEF Repo!Init
  <2>. QED
    BY <1>1, <2>1, <2>2, <2>3 DEF BranchIs
<1>3. ReadIsTrue
  BY <1>1 DEF Repo!Init, ReadIsTrue, SnapshotIsTrue, ListIsTrue, Repo!NoSnapshot, Repo!NoList
<1>. QED
  BY <1>1, <1>2, <1>3 DEF Repo!Init, BranchInv, CallsFit, SwitchIsOne, Repo!BranchIsDue, Repo!ListIsOwed

\* What a call is before it has been told anything.
LEMMA CallIs ==
  ASSUME NEW kind \in {"effect", "switch", "event"}, NEW target \in Branch \cup {Detached, NoBranch}
  PROVE  LET call == Repo!Call(kind, target)
         IN /\ call \in BranchCall /\ call.kind = kind /\ ~call.lost /\ ~call.listed
            /\ call.pc = IF kind = "switch" THEN "switching" ELSE "wanted"
            /\ call.snapshot.at = 0 /\ call.list.at = 0
  BY DEF Repo!Call, BranchCall, Snapshots, Lists, Repo!NoSnapshot, Repo!NoList

\* One call more.
LEMMA PutIs ==
  ASSUME NEW c, c \notin DOMAIN branchCalls, NEW v, branchCalls' = Repo!Put(branchCalls, c, v)
  PROVE  /\ DOMAIN branchCalls' = DOMAIN branchCalls \cup {c} /\ branchCalls'[c] = v
         /\ \A d \in DOMAIN branchCalls : branchCalls'[d] = branchCalls[d]
  BY DEF Repo!Put

\* The effect asks.
LEMMA AskKeepsBranches ==
  ASSUME BranchInv, NEW c \in BranchCalls, Repo!Ask(c),
         UNCHANGED <<repo, version, branchOf, branchList, outrun, gitBranchSwitchPending>>,
         joined' = TRUE
  PROVE  BranchInv'
<1>. DEFINE call == Repo!Call("effect", NoBranch)
<1>1. /\ call \in BranchCall /\ call.kind = "effect" /\ ~call.lost /\ ~call.listed
      /\ call.pc = "wanted" /\ call.snapshot.at = 0 /\ call.list.at = 0
  BY CallIs
<1>. HIDE DEF call
<1>2. /\ c \notin DOMAIN branchCalls /\ DOMAIN branchCalls' = DOMAIN branchCalls \cup {c}
      /\ branchCalls'[c] = call /\ \A d \in DOMAIN branchCalls : branchCalls'[d] = branchCalls[d]
      /\ effect' = c /\ owed' = [snapshot |-> version, list |-> version]
  <2>1. /\ c \notin DOMAIN branchCalls /\ branchCalls' = Repo!Put(branchCalls, c, call)
        /\ effect' = c /\ owed' = [snapshot |-> version, list |-> version]
    BY DEF Repo!Ask, call
  <2>. QED
    BY <2>1, PutIs, Zenon
<1>3. BranchIs'
  BY <1>1, <1>2 DEF BranchInv, BranchIs
<1>4. ReadIsTrue'
  BY <1>1, <1>2 DEF BranchInv, BranchIs, ReadIsTrue, SnapshotIsTrue, ListIsTrue
<1>5. CallsFit'
  BY <1>1, <1>2 DEF BranchInv, CallsFit
<1>6. SwitchIsOne'
  BY <1>1, <1>2 DEF BranchInv, SwitchIsOne
<1>7. Repo!BranchIsDue'
  BY <1>1, <1>2 DEF Repo!BranchIsDue
<1>8. Repo!ListIsOwed'
  BY <1>1, <1>2 DEF Repo!ListIsOwed
<1>. QED
  BY <1>3, <1>4, <1>5, <1>6, <1>7, <1>8 DEF BranchInv

LEMMA DisconnectsKeepsBranches ==
  ASSUME BranchInv, Repo!Disconnects
  PROVE  BranchInv'
<1>. DEFINE Left(call) == [call EXCEPT !.lost = TRUE]
<1>1. /\ branchCalls' = [c \in DOMAIN branchCalls |-> Left(branchCalls[c])]
      /\ ~joined' /\ effect' = NoEffect /\ ~gitBranchSwitchPending'
      /\ UNCHANGED <<repo, version, branchOf, branchList, outrun, owed>> /\ joined' = FALSE
      /\ gitBranchSwitchPending' = FALSE
  BY DEF Repo!Disconnects, Repo!shownVars
<1>2. \A call \in BranchCall :
        /\ Left(call) \in BranchCall /\ Left(call).lost
        /\ Left(call).kind = call.kind /\ Left(call).pc = call.pc
        /\ Left(call).listed = call.listed
        /\ Left(call).snapshot = call.snapshot /\ Left(call).list = call.list
  BY DEF BranchCall
<1>. HIDE DEF Left
<1>3. NoEffect \notin DOMAIN branchCalls
  BY DeskAssumption DEF BranchInv, BranchIs, DeskAssumption
<1>4. /\ DOMAIN branchCalls' = DOMAIN branchCalls
      /\ \A c \in DOMAIN branchCalls :
           /\ branchCalls'[c] \in BranchCall /\ branchCalls'[c].lost
           /\ branchCalls'[c].kind = branchCalls[c].kind /\ branchCalls'[c].pc = branchCalls[c].pc
           /\ branchCalls'[c].listed = branchCalls[c].listed
           /\ branchCalls'[c].snapshot = branchCalls[c].snapshot
           /\ branchCalls'[c].list = branchCalls[c].list
  BY <1>1, <1>2 DEF BranchInv, BranchIs
<1>5. BranchIs'
  BY <1>1, <1>4 DEF BranchInv, BranchIs
<1>6. ReadIsTrue'
  BY <1>1, <1>4 DEF BranchInv, ReadIsTrue, SnapshotIsTrue, ListIsTrue
<1>7. CallsFit'
  BY <1>1, <1>3, <1>4 DEF BranchInv, CallsFit
<1>8. SwitchIsOne'
  BY <1>1, <1>4 DEF SwitchIsOne
<1>. QED
  BY <1>1, <1>5, <1>6, <1>7, <1>8 DEF BranchInv, Repo!BranchIsDue, Repo!ListIsOwed

LEMMA ChangeKeepsBranches ==
  ASSUME BranchInv, NEW c \in BranchCalls,
         NEW b \in Branch \cup {Detached}, Repo!HandleGitBranchChange(c, b)
  PROVE  BranchInv'
<1>. DEFINE call == Repo!Call("switch", b)
<1>1. /\ call \in BranchCall /\ call.kind = "switch" /\ ~call.lost /\ ~call.listed
      /\ call.pc = "switching" /\ call.snapshot.at = 0 /\ call.list.at = 0
  BY CallIs
<1>. HIDE DEF call
<1>2. /\ c \notin DOMAIN branchCalls /\ DOMAIN branchCalls' = DOMAIN branchCalls \cup {c}
      /\ branchCalls'[c] = call /\ \A d \in DOMAIN branchCalls : branchCalls'[d] = branchCalls[d]
  <2>1. c \notin DOMAIN branchCalls /\ branchCalls' = Repo!Put(branchCalls, c, call)
    BY DEF Repo!HandleGitBranchChange, call
  <2>. QED
    BY <2>1, PutIs, Zenon
<1>3. /\ ~gitBranchSwitchPending /\ gitBranchSwitchPending' = TRUE
      /\ UNCHANGED <<repo, version, joined, effect, branchOf, branchList, outrun, owed>>
  BY DEF Repo!HandleGitBranchChange, Repo!shownVars
<1>4. NoEffect # c
  BY DeskAssumption DEF DeskAssumption
<1>5. BranchIs'
  BY <1>1, <1>2, <1>3 DEF BranchInv, BranchIs
<1>6. ReadIsTrue'
  BY <1>1, <1>2, <1>3 DEF BranchInv, BranchIs, ReadIsTrue, SnapshotIsTrue, ListIsTrue
<1>7. CallsFit'
  BY <1>1, <1>2, <1>3, <1>4 DEF BranchInv, CallsFit
<1>8. SwitchIsOne'
  BY <1>1, <1>2, <1>3 DEF BranchInv, SwitchIsOne
<1>9. Repo!BranchIsDue'
  BY <1>1, <1>2, <1>3 DEF BranchInv, Repo!BranchIsDue
<1>10. Repo!ListIsOwed'
  BY <1>1, <1>2, <1>3 DEF BranchInv, Repo!ListIsOwed
<1>. QED
  BY <1>5, <1>6, <1>7, <1>8, <1>9, <1>10 DEF BranchInv

LEMMA EventKeepsBranches ==
  ASSUME BranchInv, NEW c \in BranchCalls, Repo!RefreshForEvent(c)
  PROVE  BranchInv'
<1>. DEFINE call == Repo!Call("event", NoBranch)
<1>1. /\ call \in BranchCall /\ call.kind = "event" /\ ~call.lost /\ ~call.listed
      /\ call.pc = "wanted" /\ call.snapshot.at = 0 /\ call.list.at = 0
  BY CallIs
<1>. HIDE DEF call
<1>2. /\ c \notin DOMAIN branchCalls /\ DOMAIN branchCalls' = DOMAIN branchCalls \cup {c}
      /\ branchCalls'[c] = call /\ \A d \in DOMAIN branchCalls : branchCalls'[d] = branchCalls[d]
  <2>1. c \notin DOMAIN branchCalls /\ branchCalls' = Repo!Put(branchCalls, c, call)
    BY DEF Repo!RefreshForEvent, call
  <2>. QED
    BY <2>1, PutIs, Zenon
<1>3. UNCHANGED <<repo, version, joined, effect, branchOf, branchList, outrun, owed,
                  gitBranchSwitchPending>>
  BY DEF Repo!RefreshForEvent, Repo!shownVars
<1>4. NoEffect # c
  BY DeskAssumption DEF DeskAssumption
<1>5. BranchIs'
  BY <1>1, <1>2, <1>3 DEF BranchInv, BranchIs
<1>6. ReadIsTrue'
  BY <1>1, <1>2, <1>3 DEF BranchInv, BranchIs, ReadIsTrue, SnapshotIsTrue, ListIsTrue
<1>7. CallsFit'
  BY <1>1, <1>2, <1>3, <1>4 DEF BranchInv, CallsFit
<1>8. SwitchIsOne'
  BY <1>1, <1>2, <1>3 DEF BranchInv, SwitchIsOne
<1>9. Repo!BranchIsDue'
  BY <1>1, <1>2, <1>3 DEF BranchInv, Repo!BranchIsDue
<1>10. Repo!ListIsOwed'
  BY <1>1, <1>2, <1>3 DEF BranchInv, Repo!ListIsOwed
<1>. QED
  BY <1>5, <1>6, <1>7, <1>8, <1>9, <1>10 DEF BranchInv

\* What was read before is of an older version.
LEMMA OthersKeepBranches ==
  ASSUME BranchInv, Repo!OthersChange
  PROVE  BranchInv'
<1>1. /\ repo' \in Repo!Repos /\ version' = version + 1 /\ version \in Nat \ {0}
      /\ UNCHANGED <<joined, branchCalls, effect, branchOf, branchList, outrun,
                     gitBranchSwitchPending, owed>>
  BY DEF Repo!OthersChange, Repo!shownVars, BranchInv, BranchIs
<1>2. BranchIs'
  BY <1>1 DEF BranchInv, BranchIs
<1>3. ReadIsTrue'
  BY <1>1 DEF BranchInv, BranchIs, ReadIsTrue, SnapshotIsTrue, ListIsTrue, BranchCall, Snapshots, Lists
<1>. QED
  BY <1>1, <1>2, <1>3 DEF BranchInv, CallsFit, SwitchIsOne, Repo!BranchIsDue, Repo!ListIsOwed

\* One call is replaced by another state of it.
LEMMA ExceptIs ==
  ASSUME NEW c \in DOMAIN branchCalls, NEW v, branchCalls' = [branchCalls EXCEPT ![c] = v]
  PROVE  /\ DOMAIN branchCalls' = DOMAIN branchCalls /\ branchCalls'[c] = v
         /\ \A d \in DOMAIN branchCalls \ {c} : branchCalls'[d] = branchCalls[d]
  OBVIOUS

\* One call less.
LEMMA WithoutIs ==
  ASSUME NEW c \in DOMAIN branchCalls, branchCalls' = Repo!Without(c)
  PROVE  /\ DOMAIN branchCalls' = DOMAIN branchCalls \ {c}
         /\ \A d \in DOMAIN branchCalls' : branchCalls'[d] = branchCalls[d]
  BY DEF Repo!Without, Repo!Restrict

\* A repository is one of any branches, at one of them or at none.
LEMMA RepoIs ==
  ASSUME NEW r \in Repo!Repos
  PROVE  /\ r.git \in BOOLEAN /\ r.names \subseteq Branch
         /\ r.head \in Branch \cup {Detached, NoBranch}
         /\ r.git => \A b \in r.names : [r EXCEPT !.head = b] \in Repo!Repos
<1>. DEFINE Some == [git : {TRUE}, head : Branch \cup {Detached, NoBranch}, names : SUBSET Branch]
<1>1. CASE r = [git |-> FALSE, head |-> NoBranch, names |-> {}]
  BY <1>1
<1>2. CASE r \in Some /\ r.head \in r.names \cup {Detached, NoBranch}
  <2>1. r.git = TRUE /\ r.names \subseteq Branch /\ r.head \in Branch \cup {Detached, NoBranch}
    BY <1>2
  <2>2. ASSUME NEW b \in r.names PROVE [r EXCEPT !.head = b] \in Repo!Repos
    <3>. DEFINE s == [r EXCEPT !.head = b]
    <3>1. s \in Some /\ s.head = b /\ s.names = r.names
      BY <1>2, <2>1
    <3>2. s.head \in s.names \cup {Detached, NoBranch}
      BY <3>1
    <3>. HIDE DEF s
    <3>3. s \in Repo!Repos
      BY <3>1, <3>2, Zenon DEF Repo!Repos
    <3>. QED
      BY <3>3 DEF s
  <2>. QED
    BY <2>1, <2>2
<1>. QED
  BY <1>1, <1>2, Zenon DEF Repo!Repos

LEMMA SwitchKeepsBranches ==
  ASSUME BranchInv, NEW c \in DOMAIN branchCalls, Repo!SwitchGitBranch(c)
  PROVE  BranchInv'
<1>. DEFINE call == branchCalls[c]
<1>1. /\ call \in BranchCall /\ call.pc = "switching" /\ call.kind = "switch" /\ ~call.listed
      /\ c # effect
      /\ UNCHANGED <<joined, effect, branchOf, branchList, outrun, gitBranchSwitchPending>>
  BY DEF Repo!SwitchGitBranch, Repo!shownVars, BranchInv, BranchIs, CallsFit
<1>2. CASE /\ repo.git /\ call.target \in repo.names
           /\ repo' = [repo EXCEPT !.head = call.target] /\ version' = version + 1
           /\ owed' = [snapshot |-> version', list |-> IF call.lost THEN owed.list ELSE version']
           /\ branchCalls' = [branchCalls EXCEPT ![c].pc = "wanted"]
  <2>. DEFINE next == [call EXCEPT !.pc = "wanted"]
  <2>1. /\ next \in BranchCall /\ next.kind = "switch" /\ next.pc = "wanted" /\ ~next.listed
        /\ next.lost = call.lost /\ next.snapshot = call.snapshot /\ next.list = call.list
    BY <1>1 DEF BranchCall
  <2>2. branchCalls' = [branchCalls EXCEPT ![c] = next]
    BY <1>2
  <2>. HIDE DEF next
  <2>3. /\ DOMAIN branchCalls' = DOMAIN branchCalls /\ branchCalls'[c] = next
        /\ \A d \in DOMAIN branchCalls \ {c} : branchCalls'[d] = branchCalls[d]
    BY <2>2, ExceptIs, Zenon
  <2>4. repo' \in Repo!Repos
    BY <1>2, RepoIs DEF BranchInv, BranchIs
  <2>5. version \in Nat \ {0} /\ version' = version + 1 /\ owed.list \in Nat
    BY <1>2 DEF BranchInv, BranchIs
  <2>6. owed' \in [snapshot : Nat, list : Nat]
    BY <1>2, <2>5
  <2>7. BranchIs'
    BY <1>1, <2>1, <2>3, <2>4, <2>5, <2>6 DEF BranchInv, BranchIs
  <2>8. ReadIsTrue'
    BY <1>1, <1>2, <2>1, <2>3, <2>5
       DEF BranchInv, BranchIs, ReadIsTrue, SnapshotIsTrue, ListIsTrue, BranchCall, Snapshots, Lists
  <2>9. CallsFit'
    BY <1>1, <2>1, <2>3 DEF BranchInv, CallsFit
  <2>10. SwitchIsOne'
    BY <1>1, <2>1, <2>3 DEF BranchInv, SwitchIsOne
  <2>11. Repo!BranchIsDue'
    BY <2>1, <2>3 DEF Repo!BranchIsDue
  <2>12. Repo!ListIsOwed'
    <3>1. CASE call.lost
      BY <1>1, <1>2, <2>3, <3>1 DEF BranchInv, Repo!ListIsOwed
    <3>2. CASE ~call.lost
      BY <2>1, <2>3, <3>2 DEF Repo!ListIsOwed
    <3>. QED
      BY <3>1, <3>2
  <2>. QED
    BY <2>7, <2>8, <2>9, <2>10, <2>11, <2>12 DEF BranchInv
<1>3. CASE /\ branchCalls' = [branchCalls EXCEPT ![c].pc = "failed"]
           /\ UNCHANGED <<repo, version, owed>>
  <2>. DEFINE next == [call EXCEPT !.pc = "failed"]
  <2>1. /\ next \in BranchCall /\ next.kind = "switch" /\ next.pc = "failed" /\ ~next.listed
        /\ next.lost = call.lost /\ next.snapshot = call.snapshot /\ next.list = call.list
    BY <1>1 DEF BranchCall
  <2>2. branchCalls' = [branchCalls EXCEPT ![c] = next]
    BY <1>3
  <2>. HIDE DEF next
  <2>3. /\ DOMAIN branchCalls' = DOMAIN branchCalls /\ branchCalls'[c] = next
        /\ \A d \in DOMAIN branchCalls \ {c} : branchCalls'[d] = branchCalls[d]
    BY <2>2, ExceptIs, Zenon
  <2>4. BranchIs'
    BY <1>1, <1>3, <2>1, <2>3 DEF BranchInv, BranchIs
  <2>5. ReadIsTrue'
    BY <1>1, <1>3, <2>1, <2>3 DEF BranchInv, ReadIsTrue, SnapshotIsTrue, ListIsTrue
  <2>6. CallsFit'
    BY <1>1, <2>1, <2>3 DEF BranchInv, CallsFit
  <2>7. SwitchIsOne'
    BY <1>1, <2>1, <2>3 DEF BranchInv, SwitchIsOne
  <2>8. Repo!BranchIsDue'
    BY <1>1, <1>3, <2>3 DEF BranchInv, Repo!BranchIsDue
  <2>9. Repo!ListIsOwed'
    BY <1>1, <1>3, <2>3 DEF BranchInv, Repo!ListIsOwed
  <2>. QED
    BY <2>4, <2>5, <2>6, <2>7, <2>8, <2>9 DEF BranchInv
<1>. QED
  BY <1>2, <1>3 DEF Repo!SwitchGitBranch

LEMMA ReadKeepsBranches ==
  ASSUME BranchInv, NEW c \in DOMAIN branchCalls, Repo!ReadSnapshot(c)
  PROVE  BranchInv'
<1>. DEFINE call == branchCalls[c]
            next == [call EXCEPT !.pc = "read", !.snapshot = Repo!Snapshot]
<1>1. /\ call \in BranchCall /\ call.pc = "wanted" /\ repo \in Repo!Repos /\ version \in Nat
      /\ UNCHANGED <<repo, version, owed, joined, effect, branchOf, branchList, outrun,
                     gitBranchSwitchPending>>
  BY DEF Repo!ReadSnapshot, Repo!shownVars, BranchInv, BranchIs
<1>2. /\ Repo!Snapshot \in Snapshots /\ Repo!Snapshot.at = version
      /\ Repo!Snapshot.branch = repo.head
  BY <1>1, RepoIs DEF Repo!Snapshot, Snapshots
<1>3. /\ next \in BranchCall /\ next.pc = "read" /\ next.snapshot = Repo!Snapshot
      /\ next.kind = call.kind /\ next.lost = call.lost /\ next.listed = call.listed
      /\ next.list = call.list
  BY <1>1, <1>2 DEF BranchCall
<1>4. branchCalls' = [branchCalls EXCEPT ![c] = next]
  BY DEF Repo!ReadSnapshot
<1>. HIDE DEF next
<1>5. /\ DOMAIN branchCalls' = DOMAIN branchCalls /\ branchCalls'[c] = next
      /\ \A d \in DOMAIN branchCalls \ {c} : branchCalls'[d] = branchCalls[d]
  BY <1>4, ExceptIs, Zenon
<1>6. BranchIs'
  BY <1>1, <1>3, <1>5 DEF BranchInv, BranchIs
<1>7. ReadIsTrue'
  BY <1>1, <1>2, <1>3, <1>5 DEF BranchInv, ReadIsTrue, SnapshotIsTrue, ListIsTrue
<1>8. CallsFit'
  BY <1>1, <1>3, <1>5 DEF BranchInv, CallsFit
<1>9. SwitchIsOne'
  BY <1>1, <1>3, <1>5 DEF BranchInv, SwitchIsOne
<1>10. Repo!BranchIsDue'
  BY <1>1, <1>2, <1>3, <1>5 DEF BranchInv, BranchIs, ReadIsTrue, Repo!BranchIsDue
<1>11. Repo!ListIsOwed'
  BY <1>1, <1>3, <1>5 DEF BranchInv, Repo!ListIsOwed
<1>. QED
  BY <1>6, <1>7, <1>8, <1>9, <1>10, <1>11 DEF BranchInv

LEMMA ListKeepsBranches ==
  ASSUME BranchInv, NEW c \in DOMAIN branchCalls, Repo!ReadGitBranches(c)
  PROVE  BranchInv'
<1>. DEFINE call == branchCalls[c]
            next == [call EXCEPT !.listed = TRUE, !.list = Repo!Listed]
<1>1. /\ call \in BranchCall /\ repo \in Repo!Repos /\ version \in Nat
      /\ call.kind = "effect" \/ (call.kind = "switch" /\ call.pc = "told")
      /\ UNCHANGED <<repo, version, owed, joined, effect, branchOf, branchList, outrun,
                     gitBranchSwitchPending>>
  BY DEF Repo!ReadGitBranches, Repo!MayList, Repo!shownVars, BranchInv, BranchIs
<1>2. /\ Repo!Listed \in Lists /\ Repo!Listed.at = version
      /\ Repo!Listed.names = repo.names \cup ({repo.head} \ {NoBranch})
  BY <1>1, RepoIs DEF Repo!Listed, Lists
<1>3. /\ next \in BranchCall /\ next.listed /\ next.list = Repo!Listed
      /\ next.kind = call.kind /\ next.lost = call.lost /\ next.pc = call.pc
      /\ next.snapshot = call.snapshot
  BY <1>1, <1>2 DEF BranchCall
<1>4. branchCalls' = [branchCalls EXCEPT ![c] = next]
  BY DEF Repo!ReadGitBranches
<1>. HIDE DEF next
<1>5. /\ DOMAIN branchCalls' = DOMAIN branchCalls /\ branchCalls'[c] = next
      /\ \A d \in DOMAIN branchCalls \ {c} : branchCalls'[d] = branchCalls[d]
  BY <1>4, ExceptIs, Zenon
<1>6. BranchIs'
  BY <1>1, <1>3, <1>5 DEF BranchInv, BranchIs
<1>7. ReadIsTrue'
  BY <1>1, <1>2, <1>3, <1>5 DEF BranchInv, ReadIsTrue, SnapshotIsTrue, ListIsTrue
<1>8. CallsFit'
  BY <1>1, <1>3, <1>5 DEF BranchInv, CallsFit
<1>9. SwitchIsOne'
  BY <1>1, <1>3, <1>5 DEF BranchInv, SwitchIsOne
<1>10. Repo!BranchIsDue'
  BY <1>1, <1>3, <1>5 DEF BranchInv, Repo!BranchIsDue
<1>11. Repo!ListIsOwed'
  BY <1>1, <1>2, <1>3, <1>5 DEF BranchInv, BranchIs, ReadIsTrue, Repo!ListIsOwed
<1>. QED
  BY <1>6, <1>7, <1>8, <1>9, <1>10, <1>11 DEF BranchInv

\* A snapshot that is shown: what is due is what it was, or it is due no more, or it was outrun.
LEMMA BroadcastKeepsBranches ==
  ASSUME BranchInv, NEW c \in DOMAIN branchCalls, Repo!Broadcast(c)
  PROVE  BranchInv'
<1>. DEFINE call == branchCalls[c]
            next == [call EXCEPT !.pc = "told"]
<1>1. /\ call \in BranchCall /\ call.pc = "read" /\ call.snapshot \in Snapshots
      /\ UNCHANGED <<repo, version, owed, joined, effect, branchList, gitBranchSwitchPending>>
  BY DEF Repo!Broadcast, BranchInv, BranchIs, BranchCall
<1>2. /\ next \in BranchCall /\ next.pc = "told" /\ next.snapshot = call.snapshot
      /\ next.kind = call.kind /\ next.lost = call.lost /\ next.listed = call.listed
      /\ next.list = call.list
  BY <1>1 DEF BranchCall
<1>. HIDE DEF next
<1>3. /\ DOMAIN branchCalls' \subseteq DOMAIN branchCalls
      /\ \A d \in DOMAIN branchCalls \ {c} : d \in DOMAIN branchCalls' /\ branchCalls'[d] = branchCalls[d]
      /\ c \in DOMAIN branchCalls' => branchCalls'[c] = next /\ call.kind # "event"
      /\ call.kind # "event" => c \in DOMAIN branchCalls'
  <2>1. CASE call.kind = "event"
    <3>1. branchCalls' = Repo!Without(c)
      BY <2>1 DEF Repo!Broadcast
    <3>2. /\ DOMAIN branchCalls' = DOMAIN branchCalls \ {c}
          /\ \A d \in DOMAIN branchCalls' : branchCalls'[d] = branchCalls[d]
      BY <3>1, WithoutIs, Zenon
    <3>. QED
      BY <2>1, <3>2
  <2>2. CASE call.kind # "event"
    <3>1. branchCalls' = [branchCalls EXCEPT ![c] = next]
      BY <2>2 DEF Repo!Broadcast, next
    <3>2. /\ DOMAIN branchCalls' = DOMAIN branchCalls /\ branchCalls'[c] = next
          /\ \A d \in DOMAIN branchCalls \ {c} : branchCalls'[d] = branchCalls[d]
      BY <3>1, ExceptIs, Zenon
    <3>. QED
      BY <2>2, <3>2
  <2>. QED
    BY <2>1, <2>2
<1>4. /\ outrun \in [snapshot : BOOLEAN, list : BOOLEAN] /\ branchOf \in Snapshots
      /\ owed \in [snapshot : Nat, list : Nat] /\ joined \in BOOLEAN
  BY DEF BranchInv, BranchIs
<1>5. \/ ~joined /\ UNCHANGED <<branchOf, outrun>>
      \/ /\ branchOf' = call.snapshot
         /\ outrun' \in [snapshot : BOOLEAN, list : BOOLEAN] /\ outrun'.list = outrun.list
         /\ outrun'.snapshot <=> \/ call.snapshot.at < branchOf.at
                                 \/ outrun.snapshot /\ call.snapshot.at < owed.snapshot
  <2>. DEFINE later == \/ call.snapshot.at < branchOf.at
                       \/ outrun.snapshot /\ call.snapshot.at < owed.snapshot
  <2>1. CASE ~joined
    BY <2>1 DEF Repo!Broadcast
  <2>2. CASE joined
    <3>1. branchOf' = call.snapshot /\ outrun' = [outrun EXCEPT !.snapshot = later]
      BY <2>2 DEF Repo!Broadcast, Repo!ShowSnapshot
    <3>2. later \in BOOLEAN
      OBVIOUS
    <3>. HIDE DEF later
    <3>3. /\ outrun' \in [snapshot : BOOLEAN, list : BOOLEAN] /\ outrun'.list = outrun.list
          /\ outrun'.snapshot = later
      BY <1>4, <3>1, <3>2
    <3>4. outrun'.snapshot <=> later
      BY <3>3
    <3>. QED
      BY <3>1, <3>3, <3>4 DEF later
  <2>. QED
    BY <2>1, <2>2
<1>6. BranchIs'
  BY <1>1, <1>2, <1>3, <1>4, <1>5 DEF BranchInv, BranchIs
<1>7. ReadIsTrue'
  <2>1. branchOf' \in {branchOf, call.snapshot}
    BY <1>5
  <2>. QED
    BY <1>1, <1>2, <1>3, <2>1 DEF BranchInv, ReadIsTrue, SnapshotIsTrue, ListIsTrue
<1>8. CallsFit'
  BY <1>1, <1>2, <1>3 DEF BranchInv, CallsFit
<1>9. SwitchIsOne'
  BY <1>1, <1>2, <1>3 DEF BranchInv, SwitchIsOne
<1>10. Repo!BranchIsDue'
  <2>. SUFFICES ASSUME joined, branchOf'.at < owed.snapshot, ~outrun'.snapshot
                PROVE  \E d \in DOMAIN branchCalls' :
                         \/ branchCalls'[d].pc = "wanted"
                         \/ branchCalls'[d].pc = "read" /\ branchCalls'[d].snapshot.at >= owed.snapshot
    BY <1>1 DEF Repo!BranchIsDue
  <2>1. branchOf' = call.snapshot /\ ~(call.snapshot.at < branchOf.at) /\ ~outrun.snapshot
    BY <1>5
  <2>2. branchOf.at < owed.snapshot
    BY <1>1, <1>4, <2>1 DEF Snapshots
  <2>3. PICK d \in DOMAIN branchCalls :
          \/ branchCalls[d].pc = "wanted"
          \/ branchCalls[d].pc = "read" /\ branchCalls[d].snapshot.at >= owed.snapshot
    BY <2>1, <2>2 DEF BranchInv, Repo!BranchIsDue
  <2>4. d # c
    BY <1>1, <1>4, <2>1, <2>3 DEF Snapshots
  <2>. QED
    BY <1>3, <2>3, <2>4
<1>11. Repo!ListIsOwed'
  <2>. SUFFICES ASSUME joined, branchList.at < owed.list, ~outrun.list
                PROVE  \E d \in DOMAIN branchCalls' :
                         LET e == branchCalls'[d]
                         IN /\ ~e.lost
                            /\ d = effect \/ (e.kind = "switch" /\ e.pc \in {"wanted", "read", "told"})
                            /\ e.listed => e.list.at >= owed.list
    BY <1>1, <1>5 DEF Repo!ListIsOwed
  <2>1. PICK d \in DOMAIN branchCalls :
          LET e == branchCalls[d]
          IN /\ ~e.lost
             /\ d = effect \/ (e.kind = "switch" /\ e.pc \in {"wanted", "read", "told"})
             /\ e.listed => e.list.at >= owed.list
    BY DEF BranchInv, Repo!ListIsOwed
  <2>2. branchCalls[d].kind # "event"
    BY <2>1 DEF BranchInv, CallsFit
  <2>3. CASE d = c
    BY <1>2, <1>3, <2>1, <2>2, <2>3
  <2>4. CASE d # c
    BY <1>3, <2>1, <2>4
  <2>. QED
    BY <2>3, <2>4
<1>. QED
  BY <1>6, <1>7, <1>8, <1>9, <1>10, <1>11 DEF BranchInv

\* An answer: the page shows both that it brings, or none.
LEMMA AnswerKeepsBranches ==
  ASSUME BranchInv, NEW c \in DOMAIN branchCalls, Repo!Answered(c)
  PROVE  BranchInv'
<1>. DEFINE call == branchCalls[c]
<1>1. /\ call \in BranchCall /\ call.pc = "told" /\ call.listed
      /\ call.snapshot \in Snapshots /\ call.list \in Lists /\ call.lost \in BOOLEAN
      /\ UNCHANGED <<repo, version, owed, joined>>
      /\ effect' = IF c = effect THEN NoEffect ELSE effect
      /\ gitBranchSwitchPending' = (gitBranchSwitchPending /\ (call.kind # "switch" \/ call.lost))
  BY DEF Repo!Answered, BranchInv, BranchIs, BranchCall
<1>2. /\ DOMAIN branchCalls' = DOMAIN branchCalls \ {c}
      /\ \A d \in DOMAIN branchCalls' : branchCalls'[d] = branchCalls[d]
  <2>1. branchCalls' = Repo!Without(c)
    BY DEF Repo!Answered
  <2>. QED
    BY <2>1, WithoutIs, Zenon
<1>3. /\ outrun \in [snapshot : BOOLEAN, list : BOOLEAN] /\ branchOf \in Snapshots
      /\ branchList \in Lists /\ owed \in [snapshot : Nat, list : Nat]
      /\ gitBranchSwitchPending \in BOOLEAN /\ NoEffect \notin DOMAIN branchCalls
  BY DeskAssumption DEF BranchInv, BranchIs, DeskAssumption
<1>4. \/ /\ call.lost \/ (call.kind # "switch" /\ c # effect)
         /\ UNCHANGED <<branchOf, branchList, outrun>>
      \/ /\ branchOf' = call.snapshot /\ branchList' = call.list
         /\ outrun' \in [snapshot : BOOLEAN, list : BOOLEAN]
         /\ outrun'.snapshot <=> \/ call.snapshot.at < branchOf.at
                                 \/ outrun.snapshot /\ call.snapshot.at < owed.snapshot
         /\ outrun'.list <=> \/ call.list.at < branchList.at
                             \/ outrun.list /\ call.list.at < owed.list
  <2>. DEFINE laterSnapshot == \/ call.snapshot.at < branchOf.at
                               \/ outrun.snapshot /\ call.snapshot.at < owed.snapshot
              laterList == \/ call.list.at < branchList.at
                           \/ outrun.list /\ call.list.at < owed.list
  <2>1. CASE ~(~call.lost /\ (call.kind = "switch" \/ c = effect))
    BY <2>1 DEF Repo!Answered, Repo!shownVars
  <2>2. CASE ~call.lost /\ (call.kind = "switch" \/ c = effect)
    <3>1. /\ branchOf' = call.snapshot /\ branchList' = call.list
          /\ outrun' = [snapshot |-> laterSnapshot, list |-> laterList]
      BY <2>2 DEF Repo!Answered, Repo!SetBoth
    <3>2. laterSnapshot \in BOOLEAN /\ laterList \in BOOLEAN
      OBVIOUS
    <3>. HIDE DEF laterSnapshot, laterList
    <3>3. /\ outrun' \in [snapshot : BOOLEAN, list : BOOLEAN]
          /\ outrun'.snapshot = laterSnapshot /\ outrun'.list = laterList
      BY <3>1, <3>2
    <3>4. (outrun'.snapshot <=> laterSnapshot) /\ (outrun'.list <=> laterList)
      BY <3>3
    <3>. QED
      BY <3>1, <3>3, <3>4 DEF laterSnapshot, laterList
  <2>. QED
    BY <2>1, <2>2
<1>5. BranchIs'
  BY <1>1, <1>2, <1>3, <1>4 DEF BranchInv, BranchIs
<1>6. ReadIsTrue'
  <2>1. branchOf' \in {branchOf, call.snapshot} /\ branchList' \in {branchList, call.list}
    BY <1>4
  <2>. QED
    BY <1>1, <1>2, <2>1 DEF BranchInv, ReadIsTrue, SnapshotIsTrue, ListIsTrue
<1>7. CallsFit'
  BY <1>1, <1>2, <1>3 DEF BranchInv, CallsFit
<1>8. SwitchIsOne'
  BY <1>1, <1>2, <1>3 DEF BranchInv, SwitchIsOne
<1>9. Repo!BranchIsDue'
  <2>. SUFFICES ASSUME joined, branchOf'.at < owed.snapshot, ~outrun'.snapshot
                PROVE  \E d \in DOMAIN branchCalls' :
                         \/ branchCalls'[d].pc = "wanted"
                         \/ branchCalls'[d].pc = "read" /\ branchCalls'[d].snapshot.at >= owed.snapshot
    BY <1>1 DEF Repo!BranchIsDue
  <2>1. branchOf.at < owed.snapshot /\ ~outrun.snapshot
    BY <1>1, <1>3, <1>4 DEF Snapshots
  <2>2. PICK d \in DOMAIN branchCalls :
          \/ branchCalls[d].pc = "wanted"
          \/ branchCalls[d].pc = "read" /\ branchCalls[d].snapshot.at >= owed.snapshot
    BY <2>1 DEF BranchInv, Repo!BranchIsDue
  <2>. QED
    BY <1>1, <1>2, <2>2
<1>10. Repo!ListIsOwed'
  <2>. SUFFICES ASSUME joined, branchList'.at < owed.list, ~outrun'.list
                PROVE  \E d \in DOMAIN branchCalls' :
                         LET e == branchCalls'[d]
                         IN /\ ~e.lost
                            /\ d = effect' \/ (e.kind = "switch" /\ e.pc \in {"wanted", "read", "told"})
                            /\ e.listed => e.list.at >= owed.list
    BY <1>1 DEF Repo!ListIsOwed
  <2>1. branchList.at < owed.list /\ ~outrun.list
    BY <1>1, <1>3, <1>4 DEF Lists
  <2>2. PICK d \in DOMAIN branchCalls :
          LET e == branchCalls[d]
          IN /\ ~e.lost
             /\ d = effect \/ (e.kind = "switch" /\ e.pc \in {"wanted", "read", "told"})
             /\ e.listed => e.list.at >= owed.list
    BY <2>1 DEF BranchInv, Repo!ListIsOwed
  <2>3. d # c
    <3>. SUFFICES ASSUME d = c PROVE FALSE
      OBVIOUS
    <3>1. call.list.at >= owed.list /\ ~call.lost /\ (c = effect \/ call.kind = "switch")
      BY <1>1, <2>2
    <3>2. branchList' = call.list
      BY <1>4, <3>1
    <3>. QED
      BY <1>1, <1>3, <3>1, <3>2 DEF Lists
  <2>. QED
    BY <1>1, <1>2, <2>2, <2>3
<1>. QED
  BY <1>5, <1>6, <1>7, <1>8, <1>9, <1>10 DEF BranchInv

LEMMA FailKeepsBranches ==
  ASSUME BranchInv, NEW c \in DOMAIN branchCalls, Repo!SwitchFails(c)
  PROVE  BranchInv'
<1>. DEFINE call == branchCalls[c]
<1>1. /\ call \in BranchCall /\ call.pc = "failed" /\ call.lost \in BOOLEAN
      /\ UNCHANGED <<repo, version, owed, joined, effect, branchOf, branchList, outrun>>
      /\ gitBranchSwitchPending' = (gitBranchSwitchPending /\ call.lost)
      /\ gitBranchSwitchPending \in BOOLEAN
  BY DEF Repo!SwitchFails, Repo!shownVars, BranchInv, BranchIs, BranchCall
<1>2. /\ DOMAIN branchCalls' = DOMAIN branchCalls \ {c}
      /\ \A d \in DOMAIN branchCalls' : branchCalls'[d] = branchCalls[d]
  <2>1. branchCalls' = Repo!Without(c)
    BY DEF Repo!SwitchFails
  <2>. QED
    BY <2>1, WithoutIs, Zenon
<1>3. call.kind = "switch" /\ c # effect
  BY <1>1 DEF BranchInv, CallsFit
<1>4. BranchIs'
  BY <1>1, <1>2 DEF BranchInv, BranchIs
<1>5. ReadIsTrue'
  BY <1>1, <1>2 DEF BranchInv, ReadIsTrue, SnapshotIsTrue, ListIsTrue
<1>6. CallsFit'
  BY <1>1, <1>2, <1>3 DEF BranchInv, CallsFit
<1>7. SwitchIsOne'
  BY <1>1, <1>2, <1>3 DEF BranchInv, SwitchIsOne
<1>8. Repo!BranchIsDue'
  BY <1>1, <1>2 DEF BranchInv, Repo!BranchIsDue
<1>9. Repo!ListIsOwed'
  BY <1>1, <1>2, <1>3 DEF BranchInv, Repo!ListIsOwed
<1>. QED
  BY <1>4, <1>5, <1>6, <1>7, <1>8, <1>9 DEF BranchInv

LEMMA BranchStep ==
  ASSUME BranchInv, Repo!Next
  PROVE  BranchInv'
<1>1. ASSUME NEW c \in BranchCalls, Repo!Connects(c) \/ Repo!RunsAgain(c)
      PROVE  BranchInv'
  <2>1. Repo!Ask(c) /\ joined' = TRUE /\ UNCHANGED <<repo, version, branchOf, branchList, outrun,
                                                   gitBranchSwitchPending>>
    BY <1>1 DEF Repo!Connects, Repo!RunsAgain, Repo!shownVars, BranchInv, BranchIs
  <2>. QED
    BY <2>1, AskKeepsBranches
<1>. QED
  BY <1>1, DisconnectsKeepsBranches, ChangeKeepsBranches, EventKeepsBranches, OthersKeepBranches,
     SwitchKeepsBranches, ReadKeepsBranches, ListKeepsBranches, BroadcastKeepsBranches,
     AnswerKeepsBranches, FailKeepsBranches DEF Repo!Next

\* The menu of branches shows what the repository holds, as new as the page asked for it or
\* switched, unless an older answer overtook it, and is locked exactly while a switch of the page is
\* under way (the effect at WorkbenchScreen.tsx:1465, handleGitBranchChange(), refreshGitSnapshot()).
THEOREM BranchesAreAlwaysTrue == DeskSpec => []BranchesAreTrue
<1>1. DeskInit => BranchInv
  BY BranchInit DEF DeskInit
<1>2. BranchInv /\ [DeskNext]_<<tool, shellVars, fieldVars, paneVars, branchVars, link>> => BranchInv'
  <2>. SUFFICES ASSUME BranchInv, [DeskNext]_<<tool, shellVars, fieldVars, paneVars, branchVars, link>>
                PROVE  BranchInv'
    OBVIOUS
  <2>1. CASE Repo!Next
    BY <2>1, BranchStep
  <2>2. CASE UNCHANGED branchVars
    BY <2>2 DEF branchVars, BranchInv, BranchIs, ReadIsTrue, SnapshotIsTrue, ListIsTrue, CallsFit,
                SwitchIsOne, Repo!BranchIsDue, Repo!ListIsOwed
  <2>. QED
    BY <2>1, <2>2 DEF DeskNext
<1>3. BranchInv => BranchesAreTrue
  <2>. SUFFICES ASSUME BranchInv PROVE BranchesAreTrue
    OBVIOUS
  <2>1. branchOf.at = version /\ branchList.at = version =>
          Repo!Menu = (repo.names \cup {repo.head}) \ {NoBranch}
    <3>. SUFFICES ASSUME branchOf.at = version, branchList.at = version
                  PROVE  Repo!Menu = (repo.names \cup {repo.head}) \ {NoBranch}
      OBVIOUS
    <3>1. /\ branchOf.branch = repo.head
          /\ branchList.names = repo.names \cup ({repo.head} \ {NoBranch})
      BY DEF BranchInv, ReadIsTrue, SnapshotIsTrue, ListIsTrue
    <3>. QED
      BY <3>1 DEF Repo!Menu
  <2>. QED
    BY <2>1 DEF BranchInv, SwitchIsOne, BranchesAreTrue, Repo!BranchesAreTrue
<1>. QED
  BY <1>1, <1>2, <1>3, PTL DEF DeskSpec

-----------------------------------------------------------------------------
(* The file search of the palette, for any texts, workspaces and number of   *)
(* calls.  Whatever waits or is under way and not cancelled is the search    *)
(* the palette means, for every step that changes what it means runs the     *)
(* effect, whose cleanup cancels the rest; so an answer that is not dropped  *)
(* is one for the text and the workspace there are.                          *)

SearchCalls == [search : Palette!Searches, cancelled : BOOLEAN, answer : {"none", "found", "failed"}]

\* The palette searches for something.
Searching == open /\ Palette!Here # NoPlace /\ text.query # Blank

Wanted == Palette!Search(Palette!Here, text.query)

PaletteIs ==
  /\ open \in BOOLEAN /\ unanswered \in BOOLEAN /\ text \in Palette!Texts
  /\ {selected, ofThread} \subseteq Places \cup {NoPlace}
  /\ timer \in Palette!Searches \cup {Nothing} /\ calls \in Seq(SearchCalls)

\* What is still to be answered is wanted.
TimerIsWanted == timer # Nothing => Searching /\ timer = Wanted
CallsAreWanted ==
  \A k \in DOMAIN calls : ~calls[k].cancelled => Searching /\ calls[k].search = Wanted

\* What is shown is wanted, too.
ShownIsWanted ==
  open /\ Palette!Here # NoPlace =>
    /\ fuzzySearch.query = text.query
    /\ fuzzySearch.results # Nothing => fuzzySearch.results = Wanted
    /\ text.query = Blank => fuzzySearch.status = "idle"

\* While the palette says that it searches, it does.
LoadingIsTrue ==
  Searching /\ fuzzySearch.status = "loading" /\ ~unanswered =>
    timer = Wanted \/ \E k \in DOMAIN calls : ~calls[k].cancelled /\ calls[k].search = Wanted

PaletteInv == PaletteIs /\ TimerIsWanted /\ CallsAreWanted /\ ShownIsWanted /\ LoadingIsTrue

\* What the steps below leave alone.
meantVars == <<open, text, selected, ofThread>>

LEMMA PaletteInit == Palette!Init => PaletteInv
<1>. SUFFICES ASSUME Palette!Init PROVE PaletteInv
  OBVIOUS
<1>1. calls = <<>> /\ open = FALSE /\ timer = Nothing /\ unanswered = FALSE
  BY DEF Palette!Init
<1>2. text \in Palette!Texts /\ {selected, ofThread} \subseteq Places \cup {NoPlace}
  BY DEF Palette!Init, Palette!Texts, Palette!Empty
<1>3. calls \in Seq(SearchCalls) /\ DOMAIN calls = {}
  BY <1>1
<1>4. PaletteIs
  BY <1>1, <1>2, <1>3 DEF PaletteIs
<1>. QED
  BY <1>1, <1>3, <1>4 DEF PaletteInv, TimerIsWanted, CallsAreWanted, ShownIsWanted,
                          LoadingIsTrue, Searching

\* A call that is cancelled, or answered, is a call.
LEMMA CancelledIs ==
  ASSUME NEW call \in SearchCalls
  PROVE  /\ [call EXCEPT !.cancelled = TRUE] \in SearchCalls /\ [call EXCEPT !.cancelled = TRUE].cancelled
         /\ \A a \in {"found", "failed"} :
              LET answered == [call EXCEPT !.answer = a]
              IN answered \in SearchCalls /\ answered.search = call.search
                                   /\ answered.cancelled = call.cancelled
  BY DEF SearchCalls

\* The effect, for whatever the palette means after a step, leaves nothing that is not wanted.
LEMMA EffectIsWanted ==
  ASSUME PaletteInv, open' \in BOOLEAN, text' \in Palette!Texts,
         selected' \in Places \cup {NoPlace}, ofThread' \in Places \cup {NoPlace},
         Palette!Effect(open', text', Palette!Here')
  PROVE  PaletteInv'
<1>1. calls' \in Seq(SearchCalls) /\ \A k \in DOMAIN calls' : calls'[k].cancelled
  <2>. DEFINE Dropped(call) == [call EXCEPT !.cancelled = TRUE]
  <2>1. calls \in Seq(SearchCalls) /\ calls' = [k \in 1..Len(calls) |-> Dropped(calls[k])]
    BY DEF Palette!Effect, Palette!Cancelled, PaletteInv, PaletteIs
  <2>2. \A call \in SearchCalls : Dropped(call) \in SearchCalls /\ Dropped(call).cancelled
    BY CancelledIs
  <2>. HIDE DEF Dropped
  <2>3. /\ DOMAIN calls' = 1..Len(calls) /\ Len(calls) \in Nat
        /\ \A k \in 1..Len(calls) : calls'[k] \in SearchCalls /\ calls'[k].cancelled
    BY <2>1, <2>2
  <2>4. calls' \in [1..Len(calls) -> SearchCalls]
    BY <2>1, <2>2
  <2>. QED
    BY <2>3, <2>4
<1>2. text'.query \in Queries \cup {Blank} /\ Palette!Here' \in Places \cup {NoPlace}
  BY DEF Palette!Texts, Palette!Here, Palette!searchableWorkspace
<1>3. CASE ~open' \/ Palette!Here' = NoPlace
  <2>1. timer' = Nothing /\ unanswered' = FALSE
    BY <1>3 DEF Palette!Effect
  <2>. QED
    BY <1>1, <1>3, <2>1 DEF PaletteInv, PaletteIs, TimerIsWanted, CallsAreWanted, ShownIsWanted,
                            LoadingIsTrue, Searching
<1>4. CASE open' /\ Palette!Here' # NoPlace /\ text'.query = Blank
  <2>1. timer' = Nothing /\ unanswered' = FALSE /\ fuzzySearch' = Palette!Idle
    BY <1>4 DEF Palette!Effect
  <2>. QED
    BY <1>1, <1>4, <2>1 DEF PaletteInv, PaletteIs, TimerIsWanted, CallsAreWanted, ShownIsWanted,
                            LoadingIsTrue, Searching, Palette!Idle
<1>5. CASE open' /\ Palette!Here' # NoPlace /\ text'.query # Blank
  <2>1. /\ timer' = Wanted' /\ unanswered' = FALSE
        /\ fuzzySearch' = [query |-> text'.query, status |-> "loading", results |-> Nothing]
    BY <1>5 DEF Palette!Effect, Wanted
  <2>2. Wanted' \in Palette!Searches
    BY <1>2, <1>5 DEF Wanted, Palette!Searches
  <2>. QED
    BY <1>1, <1>5, <2>1, <2>2 DEF PaletteInv, PaletteIs, TimerIsWanted, CallsAreWanted,
                                  ShownIsWanted, LoadingIsTrue, Searching
<1>. QED
  BY <1>3, <1>4, <1>5

\* A step of the user: the effect runs unless the palette means the same after it.
LEMMA SetIsWanted ==
  ASSUME PaletteInv, NEW o \in BOOLEAN, NEW t \in Palette!Texts,
         NEW s \in Places \cup {NoPlace}, NEW w \in Places \cup {NoPlace}, Palette!Set(o, t, s, w)
  PROVE  PaletteInv'
<1>1. open' = o /\ text' = t /\ selected' = s /\ ofThread' = w
  BY DEF Palette!Set
<1>2. Palette!Here' = Palette!searchableWorkspace(s, w)
  BY <1>1 DEF Palette!Here, Palette!searchableWorkspace
<1>3. CASE Palette!Effect(o, t, Palette!searchableWorkspace(s, w))
  BY <1>1, <1>2, <1>3, EffectIsWanted
<1>4. CASE /\ open' = open /\ text' = text /\ Palette!Here' = Palette!Here
           /\ UNCHANGED <<calls, unanswered, timer, fuzzySearch>>
  BY <1>1, <1>4 DEF PaletteInv, PaletteIs, TimerIsWanted, CallsAreWanted, ShownIsWanted,
                    LoadingIsTrue, Searching, Wanted
<1>. QED
  BY <1>1, <1>2, <1>3, <1>4 DEF Palette!Set

LEMMA TimerIsFair ==
  ASSUME PaletteInv, Palette!TimerFires
  PROVE  PaletteInv'
<1>. DEFINE call == [search |-> timer, cancelled |-> FALSE, answer |-> "none"]
<1>1. /\ timer \in Palette!Searches /\ Searching /\ timer = Wanted /\ calls \in Seq(SearchCalls)
      /\ timer' = Nothing /\ calls' = Append(calls, call)
      /\ UNCHANGED <<open, text, selected, ofThread, fuzzySearch, unanswered>>
  BY DEF Palette!TimerFires, PaletteInv, PaletteIs, TimerIsWanted
<1>2. UNCHANGED <<Searching, Wanted, Palette!Here>>
  BY <1>1 DEF Searching, Wanted, Palette!Here
<1>3. call \in SearchCalls /\ ~call.cancelled /\ call.search = Wanted
  BY <1>1 DEF SearchCalls
<1>. HIDE DEF call
<1>4. /\ calls' \in Seq(SearchCalls) /\ DOMAIN calls' = DOMAIN calls \cup {Len(calls) + 1}
      /\ calls'[Len(calls) + 1] = call
      /\ \A k \in DOMAIN calls : calls'[k] = calls[k]
  BY <1>1, <1>3
<1>5. PaletteIs' /\ TimerIsWanted'
  BY <1>1, <1>4 DEF PaletteInv, PaletteIs, TimerIsWanted
<1>6. CallsAreWanted'
  BY <1>1, <1>2, <1>3, <1>4 DEF PaletteInv, CallsAreWanted
<1>7. ShownIsWanted'
  BY <1>1, <1>2 DEF PaletteInv, ShownIsWanted
<1>8. LoadingIsTrue'
  BY <1>2, <1>3, <1>4 DEF LoadingIsTrue
<1>. QED
  BY <1>5, <1>6, <1>7, <1>8 DEF PaletteInv

LEMMA ServeKeepsPalette ==
  ASSUME PaletteInv, NEW k \in DOMAIN calls, Palette!Serve(k)
  PROVE  PaletteInv'
<1>1. PICK a \in {"found", "failed"} : calls' = [calls EXCEPT ![k].answer = a]
  BY DEF Palette!Serve
<1>2. calls \in Seq(SearchCalls) /\ UNCHANGED <<open, text, selected, ofThread, fuzzySearch, timer, unanswered>>
  BY DEF Palette!Serve, PaletteInv, PaletteIs
<1>3. UNCHANGED <<Searching, Wanted, Palette!Here>>
  BY <1>2 DEF Searching, Wanted, Palette!Here
<1>4. calls[k] \in SearchCalls
  BY <1>2
<1>7. LET answered == [calls[k] EXCEPT !.answer = a]
      IN answered \in SearchCalls /\ answered.search = calls[k].search
                           /\ answered.cancelled = calls[k].cancelled
  BY <1>4, CancelledIs
<1>5. calls' \in Seq(SearchCalls) /\ DOMAIN calls' = DOMAIN calls
  BY <1>1, <1>2, <1>7
<1>6. \A l \in DOMAIN calls : /\ calls'[l].search = calls[l].search
                              /\ calls'[l].cancelled = calls[l].cancelled
  BY <1>1, <1>2, <1>7
<1>. QED
  BY <1>2, <1>3, <1>5, <1>6
     DEF PaletteInv, PaletteIs, TimerIsWanted, CallsAreWanted, ShownIsWanted, LoadingIsTrue

\* Without one member, a sequence keeps the others.
LEMMA OthersStay ==
  ASSUME NEW S, NEW s \in Seq(S), NEW k \in DOMAIN s
  PROVE  /\ RemoveAt(s, k) \in Seq(S)
         /\ \A l \in DOMAIN RemoveAt(s, k) : \E j \in DOMAIN s : RemoveAt(s, k)[l] = s[j]
         /\ \A j \in DOMAIN s :
              j # k => \E l \in DOMAIN RemoveAt(s, k) : RemoveAt(s, k)[l] = s[j]
<1>. DEFINE t == RemoveAt(s, k)
<1>1. /\ t \in Seq(S) /\ Len(s) \in Nat \ {0} /\ DOMAIN s = 1..Len(s)
      /\ DOMAIN t = 1..(Len(s) - 1)
      /\ \A j \in 1..(Len(s) - 1) : t[j] = s[IF j < k THEN j ELSE j + 1]
  BY RemoveAtIs
<1>. HIDE DEF t
<1>2. ASSUME NEW l \in DOMAIN t PROVE \E j \in DOMAIN s : t[l] = s[j]
  <2>1. (IF l < k THEN l ELSE l + 1) \in DOMAIN s
    BY <1>1
  <2>. QED
    BY <1>1, <2>1
<1>3. ASSUME NEW j \in DOMAIN s, j # k PROVE \E l \in DOMAIN t : t[l] = s[j]
  <2>1. CASE j < k
    BY <1>1, <2>1
  <2>2. CASE k < j
    <3>1. j - 1 \in DOMAIN t /\ ~(j - 1 < k) /\ (j - 1) + 1 = j
      BY <1>1, <2>2
    <3>. QED
      BY <1>1, <3>1
  <2>. QED
    BY <1>1, <1>3, <2>1, <2>2
<1>. QED
  BY <1>1, <1>2, <1>3 DEF t

LEMMA ArrivesKeepsPalette ==
  ASSUME PaletteInv, NEW k \in DOMAIN calls, Palette!Arrives(k)
  PROVE  PaletteInv'
<1>1. /\ calls \in Seq(SearchCalls) /\ calls' = RemoveAt(calls, k)
      /\ UNCHANGED <<open, text, selected, ofThread, timer>>
  <2>1. calls \in Seq(SearchCalls)
    BY DEF PaletteInv, PaletteIs
  <2>2. calls' = RemoveAt(calls, k) /\ UNCHANGED <<open, text, selected, ofThread, timer>>
    BY DEF Palette!Arrives, Palette!RemoveAt, RemoveAt
  <2>. QED
    BY <2>1, <2>2
<1>2. UNCHANGED <<Searching, Wanted, Palette!Here>>
  BY <1>1 DEF Searching, Wanted, Palette!Here
<1>3. /\ calls' \in Seq(SearchCalls)
      /\ \A l \in DOMAIN calls' : \E j \in DOMAIN calls : calls'[l] = calls[j]
      /\ \A j \in DOMAIN calls : j # k => \E l \in DOMAIN calls' : calls'[l] = calls[j]
  BY <1>1, OthersStay
<1>4. calls[k] \in SearchCalls
  BY <1>1
<1>5. /\ unanswered' = (unanswered \/ (~calls[k].cancelled /\ calls[k].answer = "failed"))
      /\ IF calls[k].cancelled \/ calls[k].answer = "failed" THEN UNCHANGED fuzzySearch
         ELSE fuzzySearch' = [query |-> calls[k].search.query, status |-> "completed",
                              results |-> calls[k].search]
  BY DEF Palette!Arrives
<1>6. PaletteIs' /\ TimerIsWanted'
  BY <1>1, <1>2, <1>3, <1>5 DEF PaletteInv, PaletteIs, TimerIsWanted
<1>7. CallsAreWanted'
  BY <1>2, <1>3 DEF PaletteInv, CallsAreWanted
<1>8. ShownIsWanted'
  <2>1. CASE calls[k].cancelled \/ calls[k].answer = "failed"
    BY <1>1, <1>2, <1>5, <2>1 DEF PaletteInv, ShownIsWanted
  <2>2. CASE ~calls[k].cancelled /\ calls[k].answer # "failed"
    <3>1. Searching /\ calls[k].search = Wanted
      BY <2>2 DEF PaletteInv, CallsAreWanted
    <3>2. /\ fuzzySearch'.query = text.query /\ fuzzySearch'.results = Wanted
          /\ text.query # Blank
      BY <1>5, <2>2, <3>1 DEF Searching, Wanted, Palette!Search
    <3>. QED
      BY <1>1, <1>2, <3>2 DEF ShownIsWanted
  <2>. QED
    BY <2>1, <2>2
<1>9. LoadingIsTrue'
  <2>1. CASE calls[k].cancelled
    <3>1. fuzzySearch' = fuzzySearch /\ (~unanswered' => ~unanswered)
      BY <1>5, <2>1
    <3>2. \A j \in DOMAIN calls : ~calls[j].cancelled => \E l \in DOMAIN calls' : calls'[l] = calls[j]
      BY <1>3, <2>1
    <3>. QED
      BY <1>1, <1>2, <3>1, <3>2 DEF PaletteInv, LoadingIsTrue
  <2>2. CASE ~calls[k].cancelled /\ calls[k].answer = "failed"
    BY <1>5, <2>2 DEF LoadingIsTrue
  <2>3. CASE ~calls[k].cancelled /\ calls[k].answer # "failed"
    BY <1>5, <2>3 DEF LoadingIsTrue
  <2>. QED
    BY <2>1, <2>2, <2>3
<1>. QED
  BY <1>6, <1>7, <1>8, <1>9 DEF PaletteInv

LEMMA PaletteStep ==
  ASSUME PaletteInv, Palette!Next
  PROVE  PaletteInv'
<1>1. /\ open \in BOOLEAN /\ text \in Palette!Texts /\ Palette!Empty \in Palette!Texts
      /\ selected \in Places \cup {NoPlace} /\ ofThread \in Places \cup {NoPlace}
  BY DEF PaletteInv, PaletteIs, Palette!Texts, Palette!Empty
<1>2. CASE Palette!OpenPalette \/ Palette!ClosePalette \/ Palette!NewThread
  BY <1>1, <1>2, SetIsWanted DEF Palette!OpenPalette, Palette!ClosePalette, Palette!NewThread
<1>3. ASSUME NEW t \in Palette!Texts, Palette!Type(t) PROVE PaletteInv'
  BY <1>1, <1>3, SetIsWanted DEF Palette!Type
<1>4. ASSUME NEW s \in Places \cup {NoPlace}, NEW w \in Places \cup {NoPlace}, Palette!Choose(s, w)
      PROVE  PaletteInv'
  BY <1>1, <1>4, SetIsWanted DEF Palette!Choose
<1>5. CASE Palette!Renew
  <2>1. Palette!Here' = Palette!Here /\ UNCHANGED meantVars
    BY <1>5 DEF Palette!Renew, Palette!Here, meantVars
  <2>. QED
    BY <1>1, <1>5, <2>1, EffectIsWanted DEF Palette!Renew, meantVars
<1>. QED
  BY <1>2, <1>3, <1>4, <1>5, TimerIsFair, ServeKeepsPalette, ArrivesKeepsPalette DEF Palette!Next

\* The open palette lists only files that were found for its text in the workspace there is, and
\* says that it searches only while it does, however late the answers come, whatever is typed,
\* chosen and fetched meanwhile (the effect with its timer and `cancelled`, paletteFileResults).
THEOREM ResultsAreAlwaysMeant == ShellSpec => []ResultsAreMeant
<1>1. ShellInit => PaletteInv
  BY PaletteInit DEF ShellInit
<1>2. PaletteInv /\ [ShellNext]_<<part, projectVars, paletteVars, dialogVars, tabVars>> => PaletteInv'
  <2>. SUFFICES ASSUME PaletteInv, [ShellNext]_<<part, projectVars, paletteVars, dialogVars, tabVars>>
                PROVE  PaletteInv'
    OBVIOUS
  <2>1. CASE Palette!Next
    BY <2>1, PaletteStep
  <2>2. CASE UNCHANGED paletteVars
    <3>1. UNCHANGED <<Searching, Wanted, Palette!Here>>
      BY <2>2 DEF paletteVars, Searching, Wanted, Palette!Here
    <3>. QED
      BY <2>2, <3>1 DEF paletteVars, PaletteInv, PaletteIs, TimerIsWanted, CallsAreWanted,
                        ShownIsWanted, LoadingIsTrue
  <2>. QED
    BY <2>1, <2>2 DEF ShellNext
<1>3. PaletteInv => ResultsAreMeant
  BY DEF PaletteInv, ShownIsWanted, LoadingIsTrue, Searching, Wanted, ResultsAreMeant,
         Palette!ResultsAreMeant, Palette!fileResults, Palette!adaptFileResults
<1>. QED
  BY <1>1, <1>2, <1>3, PTL DEF ShellSpec

-----------------------------------------------------------------------------
(* The preview of a file, for any files, lines, dialogs and changes.  A      *)
(* model that no timer will dispose is the one of the dialog there is, and   *)
(* has its editor, unless a read failed (NoModelIsForgotten); and an editor  *)
(* stands for a text that is shown (EditorIsShown).                          *)

DialogQueries ==
  [stage : {"idle", "asked", "read"}, got : Nat \cup {Nothing}, data : Nat \cup {Nothing},
   error : BOOLEAN]

DialogIs ==
  /\ disk \in [Files -> Nat] /\ query \in [Files -> DialogQueries] /\ dialog \in Nat
  /\ codePreview \in Dialog!References \cup {Nothing} /\ editor \in Dialog!References \cup {Nothing}
  /\ visible \in BOOLEAN /\ clearTimer \in BOOLEAN /\ hurried \in BOOLEAN /\ relined \in BOOLEAN
  /\ models = [m \in DOMAIN models |-> models[m]]
  /\ \A f \in Files : query[f].stage = "read" => query[f].got # Nothing

ReferenceIsThere ==
  /\ visible => codePreview # Nothing /\ ~clearTimer
  /\ ~visible /\ ~clearTimer => codePreview = Nothing

EditorIsShown ==
  editor # Nothing =>
    /\ visible /\ editor.file = codePreview.file /\ Dialog!Shows(editor.file, query)
    /\ ~relined => editor.line = codePreview.line

ModelIsTrue ==
  editor # Nothing /\ ~hurried =>
    /\ Dialog!Model \in DOMAIN models /\ Dialog!Model \notin disposals
    /\ editor.file \notin refused => models[Dialog!Model] = query[editor.file].data

NoModelIsForgotten ==
  \A m \in DOMAIN models :
    \/ m \in disposals
    \/ /\ visible /\ m = <<dialog, codePreview.file>>
       /\ editor # Nothing \/ codePreview.file \in refused

DialogInv == DialogIs /\ ReferenceIsThere /\ EditorIsShown /\ ModelIsTrue /\ NoModelIsForgotten

LEMMA DialogInit == Dialog!Init => DialogInv
<1>. SUFFICES ASSUME Dialog!Init PROVE DialogInv
  OBVIOUS
<1>1. /\ models = <<>> /\ DOMAIN models = {} /\ editor = Nothing /\ codePreview = Nothing
      /\ visible = FALSE /\ clearTimer = FALSE
  BY DEF Dialog!Init
<1>2. /\ disk \in [Files -> Nat] /\ query \in [Files -> DialogQueries] /\ dialog \in Nat
      /\ \A f \in Files : query[f].stage # "read"
  BY DEF Dialog!Init, Dialog!NoQuery, DialogQueries
<1>3. hurried \in BOOLEAN /\ relined \in BOOLEAN /\ visible \in BOOLEAN /\ clearTimer \in BOOLEAN
  BY Zenon DEF Dialog!Init
<1>4. models = [m \in DOMAIN models |-> models[m]]
  BY <1>1
<1>5. DialogIs
  BY <1>1, <1>2, <1>3, <1>4 DEF DialogIs
<1>. QED
  BY <1>1, <1>5 DEF DialogInv, ReferenceIsThere, EditorIsShown, ModelIsTrue, NoModelIsForgotten

\* A step of the query that leaves what is shown of each file, as a read that starts.
LEMMA QueryKeepsDialog ==
  ASSUME DialogInv, disk' \in [Files -> Nat], query' \in [Files -> DialogQueries],
         \A f \in Files : /\ query'[f].data = query[f].data /\ query'[f].error = query[f].error
                          /\ query'[f].stage = "read" => query'[f].got # Nothing,
         UNCHANGED <<codePreview, visible, clearTimer, dialog, disposals, models, editor, hurried,
                     relined, refused>>
  PROVE  DialogInv'
<1>1. DialogIs'
  BY DEF DialogInv, DialogIs
<1>2. editor # Nothing => editor.file \in Files
  BY DEF DialogInv, DialogIs, Dialog!References
<1>3. ReferenceIsThere' /\ NoModelIsForgotten'
  BY DEF DialogInv, ReferenceIsThere, NoModelIsForgotten
<1>4. EditorIsShown'
  BY <1>2 DEF DialogInv, EditorIsShown, Dialog!Shows
<1>5. ModelIsTrue'
  BY <1>2 DEF DialogInv, ModelIsTrue, Dialog!Model
<1>. QED
  BY <1>1, <1>3, <1>4, <1>5 DEF DialogInv

\* An observer of a file that is shown, or asked for.
LEMMA ObservedIs ==
  ASSUME DialogInv, NEW f \in Files, Dialog!Observed(f)
  PROVE  /\ query' \in [Files -> DialogQueries]
         /\ \A g \in Files : /\ query'[g].data = query[g].data /\ query'[g].error = query[g].error
                             /\ query'[g].stage = "read" => query'[g].got # Nothing
<1>. DEFINE stage == IF query[f].stage = "idle" THEN "asked" ELSE query[f].stage
            next == [query[f] EXCEPT !.stage = stage]
<1>1. query \in [Files -> DialogQueries] /\ \A g \in Files : query[g].stage = "read" => query[g].got # Nothing
  BY DEF DialogInv, DialogIs
<1>2. query[f] \in DialogQueries /\ stage \in {"idle", "asked", "read"}
  BY <1>1 DEF DialogQueries
<1>3. /\ next \in DialogQueries /\ next.data = query[f].data /\ next.error = query[f].error
      /\ next.stage = "read" => next.got # Nothing
  BY <1>1, <1>2 DEF DialogQueries
<1>4. CASE query' = [query EXCEPT ![f].stage = IF @ = "idle" THEN "asked" ELSE @]
  <2>1. query' = [query EXCEPT ![f] = next]
    BY <1>4
  <2>. HIDE DEF next
  <2>. QED
    BY <1>1, <1>3, <2>1
<1>5. CASE UNCHANGED query
  BY <1>1, <1>5
<1>. QED
  BY <1>4, <1>5 DEF Dialog!Observed

\* What the answer of a read does to the editor of its file.
LEMMA RenderedKeepsDialog ==
  ASSUME DialogInv, NEW f \in Files, NEW q \in DialogQueries, query' = [query EXCEPT ![f] = q],
         q.stage = "idle", Dialog!Rendered(query'),
         UNCHANGED <<disk, codePreview, visible, clearTimer, dialog, disposals, hurried, relined>>,
         \/ q.data # Nothing /\ ~q.error /\ UNCHANGED refused
         \/ q.error /\ refused' = refused \cup {f}
  PROVE  DialogInv'
<1>1. /\ query \in [Files -> DialogQueries]
      /\ query' \in [Files -> DialogQueries] /\ query'[f] = q
      /\ \A g \in Files \ {f} : query'[g] = query[g]
  BY DEF DialogInv, DialogIs
<1>2. \A g \in Files : query'[g].stage = "read" => query'[g].got # Nothing
  BY <1>1 DEF DialogInv, DialogIs
<1>3. CASE editor = Nothing
  <2>1. UNCHANGED <<models, editor>>
    BY <1>3 DEF Dialog!Rendered
  <2>2. DialogIs'
    BY <1>1, <1>2, <2>1 DEF DialogInv, DialogIs
  <2>. QED
    BY <1>3, <2>1, <2>2
       DEF DialogInv, ReferenceIsThere, EditorIsShown, ModelIsTrue, NoModelIsForgotten
<1>4. CASE editor # Nothing /\ ~Dialog!Shows(editor.file, query')
  <2>1. editor' = Nothing /\ UNCHANGED models
    BY <1>4 DEF Dialog!Rendered
  <2>2. DialogIs'
    BY <1>1, <1>2, <2>1 DEF DialogInv, DialogIs
  <2>3. editor.file \in Files /\ editor.file = codePreview.file /\ Dialog!Shows(editor.file, query)
    BY <1>4 DEF DialogInv, DialogIs, Dialog!References, EditorIsShown
  <2>4. editor.file = f /\ f \in refused'
    BY <1>1, <1>4, <2>3 DEF Dialog!Shows
  <2>. QED
    BY <2>1, <2>2, <2>3, <2>4
       DEF DialogInv, ReferenceIsThere, EditorIsShown, ModelIsTrue, NoModelIsForgotten
<1>5. CASE editor # Nothing /\ Dialog!Shows(editor.file, query')
  <2>. DEFINE e == editor.file
              m == <<dialog, e>>
              New(x) == IF x = m /\ query'[e].data # query[e].data THEN query'[e].data ELSE models[x]
  <2>1. UNCHANGED editor /\ models' = [x \in DOMAIN models |-> New(x)]
    BY <1>5 DEF Dialog!Rendered
  <2>2. e \in Files /\ (e = f => ~q.error)
    BY <1>1, <1>5 DEF DialogInv, DialogIs, Dialog!References, Dialog!Shows
  <2>3. /\ DOMAIN models' = DOMAIN models /\ models' = [x \in DOMAIN models' |-> models'[x]]
        /\ m \in DOMAIN models =>
             models'[m] = IF query'[e].data # query[e].data THEN query'[e].data ELSE models[m]
    BY <2>1
  <2>4. DialogIs'
    BY <1>1, <1>2, <2>1, <2>3 DEF DialogInv, DialogIs
  <2>5. EditorIsShown'
    BY <1>5, <2>1 DEF DialogInv, EditorIsShown
  <2>6. ModelIsTrue'
    <3>1. e \notin refused' => e \notin refused
      BY <2>2
    <3>2. Dialog!Model = m /\ Dialog!Model' = m
      BY <2>1 DEF Dialog!Model
    <3>. QED
      BY <1>5, <2>1, <2>3, <3>1, <3>2 DEF DialogInv, ModelIsTrue
  <2>7. ReferenceIsThere' /\ NoModelIsForgotten'
    BY <1>5, <2>1, <2>3 DEF DialogInv, ReferenceIsThere, NoModelIsForgotten
  <2>. QED
    BY <2>4, <2>5, <2>6, <2>7 DEF DialogInv
<1>. QED
  BY <1>3, <1>4, <1>5

LEMMA ReadKeepsDialog ==
  ASSUME DialogInv, NEW f \in Files,
         Dialog!ReadFile(f) \/ Dialog!TextArrives(f) \/ Dialog!ReadFails(f)
  PROVE  DialogInv'
<1>1. /\ query \in [Files -> DialogQueries] /\ query[f] \in DialogQueries /\ disk[f] \in Nat
      /\ Nothing \notin Nat /\ disk \in [Files -> Nat]
      /\ \A g \in Files : query[g].stage = "read" => query[g].got # Nothing
  BY ShellAssumption DEF ShellAssumption, DialogInv, DialogIs
<1>2. CASE Dialog!ReadFile(f)
  <2>. DEFINE next == [query[f] EXCEPT !.stage = "read", !.got = disk[f]]
  <2>1. /\ next \in DialogQueries /\ next.data = query[f].data /\ next.error = query[f].error
        /\ next.got # Nothing
    BY <1>1 DEF DialogQueries
  <2>2. query' = [query EXCEPT ![f] = next]
    BY <1>2 DEF Dialog!ReadFile
  <2>. HIDE DEF next
  <2>3. /\ query' \in [Files -> DialogQueries]
        /\ \A g \in Files : /\ query'[g].data = query[g].data /\ query'[g].error = query[g].error
                            /\ query'[g].stage = "read" => query'[g].got # Nothing
    BY <1>1, <2>1, <2>2
  <2>4. UNCHANGED <<disk, codePreview, visible, clearTimer, dialog, disposals, models, editor, hurried,
                    relined, refused>>
    BY <1>2 DEF Dialog!ReadFile, Dialog!dialogVars, Dialog!historyVars
  <2>. QED
    BY <1>1, <2>3, <2>4, QueryKeepsDialog
<1>3. CASE Dialog!TextArrives(f)
  <2>. DEFINE q == [Dialog!NoQuery EXCEPT !.data = query[f].got]
  <2>1. /\ q \in DialogQueries /\ q.stage = "idle" /\ q.data = query[f].got /\ ~q.error
        /\ query[f].stage = "read" /\ query[f].got # Nothing
    BY <1>1, <1>3 DEF DialogQueries, Dialog!NoQuery, Dialog!TextArrives
  <2>2. /\ query' = [query EXCEPT ![f] = q] /\ Dialog!Rendered(query')
        /\ UNCHANGED <<disk, codePreview, visible, clearTimer, dialog, disposals, hurried, relined,
                       refused>>
    BY <1>3 DEF Dialog!TextArrives, Dialog!dialogVars, Dialog!historyVars
  <2>. HIDE DEF q
  <2>. QED
    BY <2>1, <2>2, RenderedKeepsDialog
<1>4. CASE Dialog!ReadFails(f)
  <2>. DEFINE q == [Dialog!NoQuery EXCEPT !.data = query[f].data, !.error = TRUE]
  <2>1. q \in DialogQueries /\ q.stage = "idle" /\ q.error
    BY <1>1 DEF DialogQueries, Dialog!NoQuery
  <2>2. /\ query' = [query EXCEPT ![f] = q] /\ Dialog!Rendered(query') /\ refused' = refused \cup {f}
        /\ UNCHANGED <<disk, codePreview, visible, clearTimer, dialog, disposals, hurried, relined>>
    BY <1>4 DEF Dialog!ReadFails, Dialog!dialogVars
  <2>. HIDE DEF q
  <2>. QED
    BY <2>1, <2>2, RenderedKeepsDialog
<1>. QED
  BY <1>2, <1>3, <1>4

\* A reference, and what it is not.
LEMMA ReferenceIs ==
  ASSUME NEW f \in Files, NEW l \in Lines
  PROVE  LET r == [file |-> f, line |-> l]
         IN r \in Dialog!References /\ r # Nothing /\ r.file = f /\ r.line = l
  BY ShellAssumption DEF ShellAssumption, Dialog!References

\* What is true of a cleanup: every model of the dialog is to be disposed.
LEMMA CleanupIs ==
  ASSUME DialogInv, visible, Dialog!Cleanup
  PROVE  disposals \subseteq disposals' /\ DOMAIN models \subseteq disposals'
  BY DEF Dialog!Cleanup, DialogInv, NoModelIsForgotten

LEMMA OpenKeepsDialog ==
  ASSUME DialogInv, NEW f \in Files, NEW l \in Lines, Dialog!OpenCodePreview(f, l)
  PROVE  DialogInv'
<1>. DEFINE r == [file |-> f, line |-> l]
<1>1. r \in Dialog!References /\ r # Nothing /\ r.file = f /\ r.line = l
  BY ReferenceIs
<1>2. /\ codePreview' = r /\ clearTimer' = FALSE /\ visible' = TRUE
      /\ UNCHANGED <<disk, models, hurried, refused>>
  BY DEF Dialog!OpenCodePreview
<1>. HIDE DEF r
<1>3. CASE ~visible
  <2>1. /\ dialog' = dialog + 1 /\ relined' = FALSE /\ Dialog!Observed(f) /\ UNCHANGED <<editor, disposals>>
    BY <1>3 DEF Dialog!OpenCodePreview
  <2>2. editor = Nothing
    BY <1>3 DEF DialogInv, EditorIsShown
  <2>3. /\ query' \in [Files -> DialogQueries]
        /\ \A g \in Files : query'[g].stage = "read" => query'[g].got # Nothing
    BY <2>1, ObservedIs
  <2>4. dialog' \in Nat /\ relined' \in BOOLEAN
    <3>1. dialog' \in Nat
      BY <2>1 DEF DialogInv, DialogIs
    <3>2. relined' \in BOOLEAN
      BY <2>1, Zenon
    <3>. QED
      BY <3>1, <3>2
  <2>5. DialogIs'
    BY <1>1, <1>2, <2>1, <2>2, <2>3, <2>4 DEF DialogInv, DialogIs
  <2>. QED
    BY <1>1, <1>2, <1>3, <2>1, <2>2, <2>5
       DEF DialogInv, ReferenceIsThere, EditorIsShown, ModelIsTrue, NoModelIsForgotten
<1>4. CASE visible /\ f = codePreview.file
  <2>1. /\ relined' = (relined \/ (editor # Nothing /\ l # editor.line))
        /\ UNCHANGED <<dialog, query, editor, disposals>>
    BY <1>4 DEF Dialog!OpenCodePreview
  <2>2. relined' \in BOOLEAN /\ (~relined' => (editor # Nothing => editor.line = l))
    BY <2>1
  <2>3. DialogIs'
    BY <1>1, <1>2, <2>1, <2>2 DEF DialogInv, DialogIs
  <2>4. EditorIsShown'
    BY <1>1, <1>2, <1>4, <2>1, <2>2 DEF DialogInv, EditorIsShown
  <2>5. ModelIsTrue'
    BY <1>2, <2>1 DEF DialogInv, ModelIsTrue, Dialog!Model
  <2>6. ReferenceIsThere' /\ NoModelIsForgotten'
    BY <1>1, <1>2, <1>4, <2>1 DEF DialogInv, ReferenceIsThere, NoModelIsForgotten
  <2>. QED
    BY <2>3, <2>4, <2>5, <2>6 DEF DialogInv
<1>5. CASE visible /\ f # codePreview.file
  <2>1. /\ relined' = FALSE /\ Dialog!Observed(f) /\ Dialog!Cleanup /\ editor' = Nothing
        /\ UNCHANGED dialog
    BY <1>5 DEF Dialog!OpenCodePreview
  <2>2. DialogIs'
    BY <1>1, <1>2, <2>1, ObservedIs DEF DialogInv, DialogIs
  <2>3. DOMAIN models \subseteq disposals'
    BY <1>5, <2>1, CleanupIs
  <2>. QED
    BY <1>1, <1>2, <2>1, <2>2, <2>3
       DEF DialogInv, ReferenceIsThere, EditorIsShown, ModelIsTrue, NoModelIsForgotten
<1>. QED
  BY <1>3, <1>4, <1>5

\* The model there is for the path of an editor that is mounted is about to be disposed, or a
\* read of its file failed.
LEMMA MountKeepsDialog ==
  ASSUME DialogInv, Dialog!EditorMounts
  PROVE  DialogInv'
<1>. DEFINE f == codePreview.file
            m == <<dialog, f>>
<1>1. /\ visible /\ editor = Nothing /\ Dialog!Shows(f, query) /\ editor' = codePreview
      /\ models' = [x \in DOMAIN models \cup {m} |-> IF x \in DOMAIN models THEN models[x]
                                                     ELSE query[f].data]
      /\ hurried' = (hurried \/ m \in disposals)
      /\ UNCHANGED <<disk, codePreview, visible, clearTimer, dialog, disposals, query, relined, refused>>
  BY DEF Dialog!EditorMounts, Dialog!dialogVars
<1>2. codePreview # Nothing /\ codePreview \in Dialog!References
  BY <1>1 DEF DialogInv, DialogIs, ReferenceIsThere
<1>3. /\ DOMAIN models' = DOMAIN models \cup {m} /\ models' = [x \in DOMAIN models' |-> models'[x]]
      /\ models'[m] = IF m \in DOMAIN models THEN models[m] ELSE query[f].data
  BY <1>1
<1>4. hurried' \in BOOLEAN /\ (~hurried' => m \notin disposals)
  BY <1>1 DEF DialogInv, DialogIs
<1>5. DialogIs'
  BY <1>1, <1>2, <1>3, <1>4 DEF DialogInv, DialogIs
<1>6. EditorIsShown' /\ ReferenceIsThere'
  BY <1>1 DEF DialogInv, EditorIsShown, ReferenceIsThere
<1>7. ModelIsTrue'
  <2>1. m \in DOMAIN models /\ m \notin disposals => f \in refused
    BY <1>1 DEF DialogInv, NoModelIsForgotten
  <2>2. Dialog!Model' = m
    BY <1>1 DEF Dialog!Model
  <2>. QED
    BY <1>1, <1>3, <1>4, <2>1, <2>2 DEF ModelIsTrue
<1>8. NoModelIsForgotten'
  BY <1>1, <1>2, <1>3 DEF DialogInv, NoModelIsForgotten
<1>. QED
  BY <1>5, <1>6, <1>7, <1>8 DEF DialogInv

LEMMA CloseKeepsDialog ==
  ASSUME DialogInv, Dialog!CloseCodePreview
  PROVE  DialogInv'
<1>1. /\ visible /\ visible' = FALSE /\ clearTimer' = TRUE /\ editor' = Nothing /\ Dialog!Cleanup
      /\ UNCHANGED <<disk, codePreview, query, dialog, models, hurried, relined, refused>>
  BY DEF Dialog!CloseCodePreview, Dialog!historyVars
<1>2. DialogIs'
  BY <1>1 DEF DialogInv, DialogIs
<1>. QED
  BY <1>1, <1>2, CleanupIs
     DEF DialogInv, ReferenceIsThere, EditorIsShown, ModelIsTrue, NoModelIsForgotten

LEMMA ClearKeepsDialog ==
  ASSUME DialogInv, Dialog!ClearTimerFires
  PROVE  DialogInv'
<1>1. /\ clearTimer /\ clearTimer' = FALSE /\ codePreview' = Nothing
      /\ UNCHANGED <<disk, visible, query, dialog, models, editor, disposals, hurried, relined, refused>>
  BY DEF Dialog!ClearTimerFires, Dialog!historyVars
<1>2. ~visible /\ editor = Nothing
  BY <1>1 DEF DialogInv, ReferenceIsThere, EditorIsShown
<1>3. DialogIs'
  BY <1>1 DEF DialogInv, DialogIs
<1>. QED
  BY <1>1, <1>2, <1>3 DEF DialogInv, ReferenceIsThere, EditorIsShown, ModelIsTrue, NoModelIsForgotten

LEMMA DisposeKeepsDialog ==
  ASSUME DialogInv, NEW m \in disposals, Dialog!Dispose(m)
  PROVE  DialogInv'
<1>1. /\ disposals' = disposals \ {m} /\ models' = [x \in DOMAIN models \ {m} |-> models[x]]
      /\ UNCHANGED <<disk, codePreview, visible, clearTimer, query, dialog, editor, hurried, relined,
                     refused>>
  BY DEF Dialog!Dispose, Dialog!historyVars
<1>2. /\ DOMAIN models' = DOMAIN models \ {m} /\ models' = [x \in DOMAIN models' |-> models'[x]]
      /\ \A x \in DOMAIN models' : models'[x] = models[x]
  BY <1>1
<1>3. DialogIs'
  BY <1>1, <1>2 DEF DialogInv, DialogIs
<1>4. ModelIsTrue'
  BY <1>1, <1>2 DEF DialogInv, ModelIsTrue, Dialog!Model
<1>5. ReferenceIsThere' /\ EditorIsShown'
  BY <1>1 DEF DialogInv, ReferenceIsThere, EditorIsShown
<1>6. NoModelIsForgotten'
  BY <1>1, <1>2 DEF DialogInv, NoModelIsForgotten
<1>. QED
  BY <1>3, <1>4, <1>5, <1>6 DEF DialogInv

LEMMA DialogStep ==
  ASSUME DialogInv, Dialog!Next
  PROVE  DialogInv'
<1>1. ASSUME NEW f \in Files, Dialog!FileChanges(f) PROVE DialogInv'
  <2>1. /\ disk' = [disk EXCEPT ![f] = @ + 1]
        /\ UNCHANGED <<codePreview, visible, clearTimer, dialog, disposals, query, models, editor,
                       hurried, relined, refused>>
    BY <1>1 DEF Dialog!FileChanges, Dialog!dialogVars, Dialog!historyVars
  <2>2. disk' \in [Files -> Nat] /\ query' \in [Files -> DialogQueries]
    BY <2>1 DEF DialogInv, DialogIs
  <2>3. \A g \in Files : query[g].stage = "read" => query[g].got # Nothing
    BY DEF DialogInv, DialogIs
  <2>. QED
    BY <2>1, <2>2, <2>3, QueryKeepsDialog
<1>2. CASE Dialog!Refocus
  <2>1. codePreview.file \in Files
    BY <1>2 DEF Dialog!Refocus, DialogInv, DialogIs, ReferenceIsThere, Dialog!References
  <2>2. /\ Dialog!Observed(codePreview.file) /\ disk \in [Files -> Nat]
        /\ UNCHANGED <<disk, codePreview, visible, clearTimer, dialog, disposals, models, editor,
                       hurried, relined, refused>>
    BY <1>2 DEF Dialog!Refocus, Dialog!dialogVars, Dialog!historyVars, DialogInv, DialogIs
  <2>. QED
    BY <2>1, <2>2, ObservedIs, QueryKeepsDialog
<1>. QED
  BY <1>1, <1>2, ReadKeepsDialog, OpenKeepsDialog, MountKeepsDialog, CloseKeepsDialog,
     ClearKeepsDialog, DisposeKeepsDialog DEF Dialog!Next

\* The editor shows the file and the line of its heading and the text that was read last, and no
\* model is left of a dialog that is closed, whatever is opened, read and closed in whatever order,
\* but for the three cases the property names (keepCurrentModel, onMount, disposeMonacoModel()).
THEOREM PreviewIsAlwaysTrue == ShellSpec => []PreviewIsTrue
<1>1. ShellInit => DialogInv
  BY DialogInit DEF ShellInit
<1>2. DialogInv /\ [ShellNext]_<<part, projectVars, paletteVars, dialogVars, tabVars>> => DialogInv'
  <2>. SUFFICES ASSUME DialogInv, [ShellNext]_<<part, projectVars, paletteVars, dialogVars, tabVars>>
                PROVE  DialogInv'
    OBVIOUS
  <2>1. CASE Dialog!Next
    BY <2>1, DialogStep
  <2>2. CASE UNCHANGED dialogVars
    BY <2>2 DEF dialogVars, DialogInv, DialogIs, ReferenceIsThere, EditorIsShown, ModelIsTrue,
                NoModelIsForgotten, Dialog!Model, Dialog!Shows
  <2>. QED
    BY <2>1, <2>2 DEF ShellNext
<1>3. DialogInv => PreviewIsTrue
  <2>. SUFFICES ASSUME DialogInv PROVE PreviewIsTrue
    OBVIOUS
  <2>1. ~visible /\ disposals = {} => models = <<>>
    <3>. SUFFICES ASSUME ~visible, disposals = {} PROVE models = <<>>
      OBVIOUS
    <3>1. DOMAIN models = {} /\ models = [m \in DOMAIN models |-> models[m]]
      BY DEF DialogInv, DialogIs, NoModelIsForgotten
    <3>. QED
      BY <3>1
  <2>. QED
    BY <2>1 DEF DialogInv, ReferenceIsThere, EditorIsShown, ModelIsTrue, PreviewIsTrue,
                Dialog!PreviewIsTrue, Dialog!EditorIsTrue, Dialog!NothingIsLeft, Dialog!Model
<1>. QED
  BY <1>1, <1>2, <1>3, PTL DEF ShellSpec

-----------------------------------------------------------------------------
(* How tabs come by their sessions, for any tabs, sessions, threads and      *)
(* mishaps.  The last message on its way to an open socket is codex's status *)
(* (StatusIsLast).  As long as nothing parted the tabs, one of them at most  *)
(* is starting; it asks for the session the others have, or makes one when   *)
(* none has any (OneStarts).                                                 *)

Statuses == Nat \cup {CreatedStatus}

Flights ==
  [tab : Tabs, kind : {"get", "post"}, sid : SessionIds \cup {NoSession},
   of : {"live", "cancelled", "gone"}, answer : {"none", "ok", "not found"}]

TabPages ==
  [stage : {"closed", "starting", "ready", "failed"}, sid : SessionIds \cup {NoSession},
   socket : {"none", "connecting", "open"}, subscribed : BOOLEAN]

ServerSessions == [threadId : Threads \cup {NoThread}, history : Seq(Statuses)]

ClientIs ==
  /\ stored \in SessionIds \cup {NoSession} /\ page \in [Tabs -> TabPages]
  /\ flights \in Seq(Flights)
  /\ \A s \in DOMAIN sessions : sessions[s] \in ServerSessions
  /\ DOMAIN sessions \subseteq SessionIds
  /\ status \in Nat /\ inbox \in [Tabs -> Seq(Statuses)]
  /\ connection \in [Tabs -> Statuses \cup {NoSession}] /\ parted \in BOOLEAN

StatusIsLast ==
  \A t \in Tabs : page[t].socket = "open" =>
    /\ inbox[t] # <<>> => inbox[t][Len(inbox[t])] = status
    /\ inbox[t] = <<>> /\ t \notin late => connection[t] = status

Alive(k) == flights[k].of = "live"

OneStarts ==
  ~parted =>
    /\ \A t \in Tabs : page[t].stage = "ready" => page[t].sid = stored /\ stored # NoSession
    /\ \A k, l \in DOMAIN flights : Alive(k) /\ Alive(l) => k = l
    /\ \A k \in DOMAIN flights : Alive(k) =>
         /\ page[flights[k].tab].stage = "starting"
         /\ flights[k].kind = "get" => flights[k].sid = stored /\ stored # NoSession
         /\ flights[k].kind = "post" => stored = NoSession
         /\ flights[k].answer = "ok" => flights[k].sid # NoSession

ClientInv == ClientIs /\ StatusIsLast /\ OneStarts /\ Client!ThreadsAreFound

LEMMA ClientInit == Client!Init => ClientInv
<1>. SUFFICES ASSUME Client!Init PROVE ClientInv
  OBVIOUS
<1>1. /\ stored = NoSession /\ page = [t \in Tabs |-> Client!Closed] /\ flights = <<>>
      /\ DOMAIN flights = {} /\ sessions = <<>> /\ DOMAIN sessions = {} /\ status = 0
      /\ inbox = [t \in Tabs |-> <<>>] /\ connection = [t \in Tabs |-> NoSession]
  BY DEF Client!Init
<1>2. Client!Closed \in TabPages /\ Client!Closed.socket = "none" /\ Client!Closed.stage = "closed"
  BY DEF Client!Closed, TabPages
<1>3. parted \in BOOLEAN
  BY Zenon DEF Client!Init
<1>4. flights \in Seq(Flights) /\ page \in [Tabs -> TabPages] /\ inbox \in [Tabs -> Seq(Statuses)]
  BY <1>1, <1>2
<1>5. ClientIs
  BY <1>1, <1>3, <1>4 DEF ClientIs
<1>6. StatusIsLast
  BY <1>1, <1>2 DEF StatusIsLast
<1>7. OneStarts
  BY <1>1, <1>2 DEF OneStarts
<1>. QED
  BY <1>1, <1>5, <1>6, <1>7 DEF ClientInv, Client!ThreadsAreFound

-----------------------------------------------------------------------------
(* initSession().                                                            *)

\* What a flight starts as.
LEMMA FlightIs ==
  ASSUME NEW t \in Tabs, NEW kind \in {"get", "post"}, NEW sid \in SessionIds \cup {NoSession}
  PROVE  LET f == Client!Flight(t, kind, sid)
         IN /\ f \in Flights /\ f.tab = t /\ f.kind = kind /\ f.sid = sid /\ f.of = "live"
            /\ f.answer = "none"
  BY DEF Client!Flight, Flights

\* An initSession() that starts: the flights of its tab are left behind.
LEMMA RestartedIs ==
  ASSUME ClientIs, NEW t \in Tabs, NEW of \in {"live", "cancelled", "gone"},
         flights' = Client!Restarted(t, of)
  PROVE  /\ flights' \in Seq(Flights) /\ Len(flights) \in Nat /\ DOMAIN flights = 1..Len(flights)
         /\ DOMAIN flights' = 1..(Len(flights) + 1)
         /\ \A k \in DOMAIN flights :
              \/ flights'[k] = flights[k] /\ ~(flights[k].tab = t /\ Alive(k))
              \/ flights[k].tab = t /\ Alive(k) /\ (of # "live" => flights'[k].of # "live")
         /\ LET f == flights'[Len(flights) + 1]
            IN /\ f.tab = t /\ f.of = "live" /\ f.answer = "none"
               /\ f.kind = IF stored # NoSession THEN "get" ELSE "post"
               /\ f.sid = stored
<1>. DEFINE Left(f) == IF f.tab = t /\ f.of = "live" THEN [f EXCEPT !.of = of] ELSE f
            left == [k \in DOMAIN flights |-> Left(flights[k])]
            new == IF stored # NoSession THEN Client!Flight(t, "get", stored)
                   ELSE Client!Flight(t, "post", NoSession)
<1>1. flights \in Seq(Flights) /\ DOMAIN flights = 1..Len(flights) /\ Len(flights) \in Nat
      /\ stored \in SessionIds \cup {NoSession}
  BY DEF ClientIs
<1>2. /\ new \in Flights /\ new.tab = t /\ new.of = "live" /\ new.answer = "none"
      /\ new.kind = (IF stored # NoSession THEN "get" ELSE "post") /\ new.sid = stored
  BY <1>1, FlightIs
<1>3. \A f \in Flights : /\ Left(f) \in Flights
                         /\ ~(f.tab = t /\ f.of = "live") => Left(f) = f
                         /\ f.tab = t /\ f.of = "live" => Left(f).of = of
  BY DEF Flights
<1>4. flights' = Append(left, new)
  BY DEF Client!Restarted
<1>. HIDE DEF Left, new
<1>5. left \in [1..Len(flights) -> Flights]
  BY <1>1, <1>3
<1>6. left \in Seq(Flights) /\ Len(left) = Len(flights)
  BY <1>1, <1>5
<1>7. \A k \in DOMAIN flights : left[k] = Left(flights[k]) /\ flights[k] \in Flights
  BY <1>1
<1>. HIDE DEF left
<1>8. /\ flights' \in Seq(Flights) /\ DOMAIN flights' = 1..(Len(flights) + 1)
      /\ flights'[Len(flights) + 1] = new /\ \A k \in DOMAIN flights : flights'[k] = left[k]
  BY <1>1, <1>2, <1>4, <1>6, AppendIs
<1>. QED
  BY <1>1, <1>2, <1>3, <1>7, <1>8 DEF Alive

\* A tab that starts has no socket, and is the only one that starts unless the tabs parted.
LEMMA MountKeepsClients ==
  ASSUME ClientInv, NEW t \in Tabs, NEW of \in {"live", "cancelled", "gone"}, Client!Mount(t, of),
         of = "live" => page[t].stage = "closed",
         connection' \in [Tabs -> Statuses \cup {NoSession}],
         \A u \in Tabs \ {t} : connection'[u] = connection[u]
  PROVE  ClientInv'
<1>. DEFINE start == [Client!Closed EXCEPT !.stage = "starting"]
<1>1. start \in TabPages /\ start.stage = "starting" /\ start.socket = "none"
  BY DEF Client!Closed, TabPages
<1>2. /\ page' = [page EXCEPT ![t] = start] /\ flights' = Client!Restarted(t, of)
      /\ inbox' = [inbox EXCEPT ![t] = <<>>] /\ late' = late \ {t}
      /\ UNCHANGED <<stored, made, sessions, threadToSession, processToSession, shared, status>>
      /\ parted' = (parted \/ \E u \in Tabs \ {t} : Client!Starting(u))
  BY DEF Client!Mount, Client!managerVars
<1>. HIDE DEF start
<1>3. ClientIs /\ page \in [Tabs -> TabPages] /\ flights \in Seq(Flights)
      /\ inbox \in [Tabs -> Seq(Statuses)]
  BY DEF ClientInv, ClientIs
<1>4. /\ page' \in [Tabs -> TabPages] /\ page'[t] = start
      /\ \A u \in Tabs \ {t} : page'[u] = page[u]
      /\ inbox' \in [Tabs -> Seq(Statuses)] /\ \A u \in Tabs \ {t} : inbox'[u] = inbox[u]
  BY <1>1, <1>2, <1>3
<1>5. /\ flights' \in Seq(Flights) /\ Len(flights) \in Nat /\ DOMAIN flights = 1..Len(flights)
      /\ DOMAIN flights' = 1..(Len(flights) + 1)
      /\ \A k \in DOMAIN flights :
           \/ flights'[k] = flights[k] /\ ~(flights[k].tab = t /\ Alive(k))
           \/ flights[k].tab = t /\ Alive(k) /\ (of # "live" => flights'[k].of # "live")
      /\ LET f == flights'[Len(flights) + 1]
         IN /\ f.tab = t /\ f.of = "live" /\ f.answer = "none"
            /\ f.kind = IF stored # NoSession THEN "get" ELSE "post"
            /\ f.sid = stored
  BY <1>2, <1>3, RestartedIs
<1>6. parted' \in BOOLEAN
  BY <1>2, Zenon DEF ClientInv, ClientIs
<1>7. ClientIs'
  BY <1>2, <1>4, <1>5, <1>6 DEF ClientInv, ClientIs
<1>8. StatusIsLast'
  BY <1>1, <1>2, <1>4 DEF ClientInv, StatusIsLast
<1>9. OneStarts'
  <2>. SUFFICES ASSUME ~parted'
                PROVE  OneStarts'
    BY DEF OneStarts
  <2>1. ~parted /\ \A u \in Tabs \ {t} : ~Client!Starting(u)
    BY <1>2
  <2>2. \A k \in DOMAIN flights : Alive(k) => flights[k].tab = t /\ page[t].stage = "starting"
    <3>. SUFFICES ASSUME NEW k \in DOMAIN flights, Alive(k)
                  PROVE  flights[k].tab = t /\ page[t].stage = "starting"
      OBVIOUS
    <3>1. flights[k] \in Flights
      BY <1>3, <1>5
    <3>2. flights[k].tab \in Tabs
      BY <3>1 DEF Flights
    <3>. QED
      BY <2>1, <3>2 DEF Client!Starting, Alive, ClientInv, OneStarts
  <2>3. \A k \in DOMAIN flights : flights'[k].of # "live"
    BY <1>5, <2>2 DEF Alive
  <2>4. \A u \in Tabs : page'[u].stage = "ready" => page'[u].sid = stored /\ stored # NoSession
    BY <1>1, <1>4, <2>1 DEF ClientInv, OneStarts
  <2>5. \A k \in DOMAIN flights' : Alive(k)' => k = Len(flights) + 1
    BY <1>5, <2>3 DEF Alive
  <2>. QED
    BY <1>1, <1>2, <1>4, <1>5, <2>4, <2>5 DEF OneStarts
<1>10. Client!ThreadsAreFound'
  BY <1>2 DEF ClientInv, Client!ThreadsAreFound
<1>. QED
  BY <1>7, <1>8, <1>9, <1>10 DEF ClientInv

\* A flight that ends: the others stay.
LEMMA DoneIs ==
  ASSUME ClientIs, NEW k \in DOMAIN flights, Client!Done(k)
  PROVE  /\ flights' \in Seq(Flights)
         /\ \E at : /\ \A l \in DOMAIN flights' : /\ at[l] \in DOMAIN flights \ {k}
                                                  /\ flights'[l] = flights[at[l]]
                    /\ \A l, m \in DOMAIN flights' : at[l] = at[m] => l = m
<1>1. flights \in Seq(Flights) /\ flights' = RemoveAt(flights, k)
  BY DEF ClientIs, Client!Done, Client!RemoveAt, RemoveAt
<1>. DEFINE at == [l \in 1..(Len(flights) - 1) |-> IF l < k THEN l ELSE l + 1]
<1>2. /\ flights' \in Seq(Flights) /\ Len(flights) \in Nat \ {0} /\ DOMAIN flights = 1..Len(flights)
      /\ DOMAIN flights' = 1..(Len(flights) - 1)
      /\ \A j \in 1..(Len(flights) - 1) : flights'[j] = flights[IF j < k THEN j ELSE j + 1]
  BY <1>1, RemoveAtIs
<1>3. \A l \in DOMAIN flights' : at[l] \in DOMAIN flights \ {k} /\ flights'[l] = flights[at[l]]
  BY <1>2
<1>4. \A l, m \in DOMAIN flights' : at[l] = at[m] => l = m
  BY <1>2
<1>. HIDE DEF at
<1>. QED
  BY <1>2, <1>3, <1>4

\* The end of a flight that changes no tab, or only the tab of the one that was alive.
LEMMA DoneKeepsOne ==
  ASSUME ClientInv, NEW k \in DOMAIN flights, Client!Done(k), UNCHANGED <<stored, parted>>,
         page' \in [Tabs -> TabPages],
         \A t \in Tabs : page'[t].stage = "ready" => page'[t] = page[t],
         \/ UNCHANGED page
         \/ Alive(k) /\ \A t \in Tabs \ {flights[k].tab} : page'[t] = page[t]
  PROVE  OneStarts'
<1>. SUFFICES ASSUME ~parted PROVE OneStarts'
  BY DEF OneStarts
<1>1. ClientIs /\ flights \in Seq(Flights)
  BY DEF ClientInv, ClientIs
<1>2. PICK at : /\ \A l \in DOMAIN flights' : at[l] \in DOMAIN flights \ {k} /\ flights'[l] = flights[at[l]]
                /\ \A l, m \in DOMAIN flights' : at[l] = at[m] => l = m
  BY <1>1, DoneIs
<1>3. \A l \in DOMAIN flights' : Alive(l)' => Alive(at[l]) /\ ~Alive(k)
  BY <1>2 DEF Alive, ClientInv, OneStarts
<1>4. \A t \in Tabs : page'[t].stage = "ready" => page'[t].sid = stored /\ stored # NoSession
  BY DEF ClientInv, OneStarts
<1>5. \A l, m \in DOMAIN flights' : Alive(l)' /\ Alive(m)' => l = m
  BY <1>2, <1>3 DEF ClientInv, OneStarts
<1>6. ASSUME NEW l \in DOMAIN flights', Alive(l)'
      PROVE  /\ page'[flights'[l].tab].stage = "starting"
             /\ flights'[l].kind = "get" => flights'[l].sid = stored /\ stored # NoSession
             /\ flights'[l].kind = "post" => stored = NoSession
             /\ flights'[l].answer = "ok" => flights'[l].sid # NoSession
  BY <1>2, <1>3, <1>6 DEF ClientInv, OneStarts
<1>. QED
  BY <1>4, <1>5, <1>6 DEF OneStarts

\* A session is there for the tab that asked: the others had it, or had none.
LEMMA FoundKeepsOne ==
  ASSUME ClientInv, NEW k \in DOMAIN flights, Client!Found(k, flights[k].sid),
         flights[k].answer = "ok"
  PROVE  ClientIs /\ OneStarts' /\ stored' \in SessionIds \cup {NoSession}
         /\ page' \in [Tabs -> TabPages] /\ flights' \in Seq(Flights)
         /\ \A t \in Tabs : page'[t] # page[t] => page'[t].socket = "connecting"
<1>. DEFINE t == flights[k].tab
            ready == [stage |-> "ready", sid |-> flights[k].sid, socket |-> "connecting",
                      subscribed |-> FALSE]
<1>1. /\ ClientIs /\ page \in [Tabs -> TabPages] /\ stored \in SessionIds \cup {NoSession}
      /\ flights \in Seq(Flights) /\ parted' = parted /\ Client!Done(k)
  BY DEF ClientInv, ClientIs, Client!Found
<1>2. flights[k] \in Flights
  BY <1>1
<1>3. t \in Tabs /\ flights[k].sid \in SessionIds \cup {NoSession}
  BY <1>2 DEF Flights
<1>4. flights' \in Seq(Flights)
  BY <1>1, DoneIs
<1>5. CASE ~Alive(k)
  <2>1. UNCHANGED <<stored, page>>
    BY <1>5 DEF Client!Found, Alive
  <2>. QED
    BY <1>1, <1>4, <2>1, DoneKeepsOne
<1>6. CASE Alive(k)
  <2>1. ready \in TabPages /\ ready.stage = "ready" /\ ready.sid = flights[k].sid /\ ready.socket = "connecting"
    BY <1>3 DEF TabPages
  <2>2. stored' = flights[k].sid /\ page' = [page EXCEPT ![t] = ready]
    BY <1>6 DEF Client!Found, Alive
  <2>. HIDE DEF ready
  <2>3. /\ page' \in [Tabs -> TabPages] /\ page'[t] = ready
        /\ \A u \in Tabs \ {t} : page'[u] = page[u]
    BY <1>1, <1>3, <2>1, <2>2
  <2>4. OneStarts'
    <3>. SUFFICES ASSUME ~parted PROVE OneStarts'
      BY <1>1 DEF OneStarts
    <3>1. PICK at : \A l \in DOMAIN flights' : /\ at[l] \in DOMAIN flights \ {k}
                                               /\ flights'[l] = flights[at[l]]
      BY <1>1, DoneIs
    <3>2. \A l \in DOMAIN flights' : ~Alive(l)'
      BY <1>6, <3>1 DEF Alive, ClientInv, OneStarts
    <3>3. flights[k].sid # NoSession
      BY <1>6 DEF ClientInv, OneStarts
    <3>4. \/ flights[k].sid = stored
          \/ stored = NoSession
      BY <1>2, <1>6 DEF ClientInv, OneStarts, Flights
    <3>5. \A u \in Tabs : page'[u].stage = "ready" => page'[u].sid = stored' /\ stored' # NoSession
      BY <2>1, <2>2, <2>3, <3>3, <3>4 DEF ClientInv, OneStarts
    <3>. QED
      BY <3>2, <3>5 DEF OneStarts
  <2>. QED
    BY <1>1, <1>3, <1>4, <2>1, <2>2, <2>3, <2>4
<1>. QED
  BY <1>5, <1>6

\* The session was not found, or could not be made.
LEMMA FailureKeepsOne ==
  ASSUME ClientInv, NEW k \in DOMAIN flights, Client!NotFound(k) \/ Client!NotCreated(k)
  PROVE  OneStarts' /\ stored' \in SessionIds \cup {NoSession} /\ parted' \in BOOLEAN
         /\ page' \in [Tabs -> TabPages] /\ flights' \in Seq(Flights)
         /\ \A t \in Tabs : page'[t].socket = page[t].socket
<1>1. /\ ClientIs /\ page \in [Tabs -> TabPages] /\ stored \in SessionIds \cup {NoSession}
      /\ flights \in Seq(Flights) /\ parted \in BOOLEAN
  BY DEF ClientInv, ClientIs
<1>2. flights[k] \in Flights
  BY <1>1
<1>3. CASE Client!NotFound(k)
  <2>. DEFINE next == [flights[k] EXCEPT !.kind = "post", !.answer = "none"]
  <2>1. next \in Flights
    BY <1>2 DEF Flights
  <2>2. flights' = [flights EXCEPT ![k] = next] /\ parted' = TRUE /\ UNCHANGED <<stored, page>>
    BY <1>3 DEF Client!NotFound
  <2>. HIDE DEF next
  <2>3. flights' \in Seq(Flights)
    BY <1>1, <2>1, <2>2
  <2>. QED
    BY <1>1, <2>2, <2>3 DEF OneStarts
<1>4. CASE Client!NotCreated(k)
  <2>. DEFINE t == flights[k].tab
              left == [page[t] EXCEPT !.stage = "failed"]
  <2>1. t \in Tabs
    BY <1>2 DEF Flights
  <2>2. page[t] \in TabPages
    BY <1>1, <2>1
  <2>3. left \in TabPages /\ left.stage = "failed" /\ left.socket = page[t].socket
    BY <2>2 DEF TabPages
  <2>4. /\ Client!Done(k) /\ UNCHANGED <<stored, parted>>
        /\ page' = IF Alive(k) THEN [page EXCEPT ![t] = left] ELSE page
    BY <1>4 DEF Client!NotCreated, Alive
  <2>. HIDE DEF left
  <2>5. /\ page' \in [Tabs -> TabPages] /\ \A u \in Tabs \ {t} : page'[u] = page[u]
        /\ page'[t] = left \/ UNCHANGED page
        /\ Alive(k) \/ UNCHANGED page
    BY <1>1, <2>1, <2>3, <2>4
  <2>6. \A u \in Tabs : page'[u].stage = "ready" => page'[u] = page[u]
    BY <2>3, <2>5
  <2>7. flights' \in Seq(Flights)
    BY <1>1, <2>4, DoneIs
  <2>. QED
    BY <1>1, <2>3, <2>4, <2>5, <2>6, <2>7, DoneKeepsOne
<1>. QED
  BY <1>3, <1>4

\* An answer, or none.
LEMMA AnswerKeepsClients ==
  ASSUME ClientInv, NEW k \in DOMAIN flights, Client!Answer(k) \/ Client!Fail(k)
  PROVE  ClientInv'
<1>1. UNCHANGED <<made, sessions, threadToSession, processToSession, shared, inbox, connection, late, status>>
  BY DEF Client!Answer, Client!Fail, Client!managerVars
<1>2. ClientIs /\ flights \in Seq(Flights) /\ flights[k] \in Flights /\ page \in [Tabs -> TabPages]
  BY DEF ClientInv, ClientIs
<1>3. CASE flights[k].of = "gone"
  <2>1. Client!Done(k) /\ UNCHANGED <<stored, page, parted>>
    BY <1>3 DEF Client!Answer, Client!Fail
  <2>2. flights' \in Seq(Flights)
    BY <1>2, <2>1, DoneIs
  <2>3. OneStarts'
    BY <1>2, <2>1, DoneKeepsOne
  <2>4. ClientIs'
    BY <1>1, <2>1, <2>2 DEF ClientInv, ClientIs
  <2>. QED
    BY <1>1, <2>1, <2>3, <2>4 DEF ClientInv, StatusIsLast, Client!ThreadsAreFound
<1>4. CASE flights[k].answer = "ok" /\ Client!Found(k, flights[k].sid)
  <2>1. /\ OneStarts' /\ stored' \in SessionIds \cup {NoSession}
        /\ page' \in [Tabs -> TabPages] /\ flights' \in Seq(Flights)
        /\ \A t \in Tabs : page'[t] # page[t] => page'[t].socket = "connecting"
    BY <1>4, FoundKeepsOne
  <2>2. ClientIs'
    BY <1>1, <1>4, <2>1 DEF ClientInv, ClientIs, Client!Found
  <2>3. StatusIsLast'
    BY <1>1, <2>1 DEF ClientInv, StatusIsLast
  <2>. QED
    BY <1>1, <2>1, <2>2, <2>3 DEF ClientInv, Client!ThreadsAreFound
<1>5. CASE Client!NotFound(k) \/ Client!NotCreated(k)
  <2>1. /\ OneStarts' /\ stored' \in SessionIds \cup {NoSession} /\ parted' \in BOOLEAN
        /\ page' \in [Tabs -> TabPages] /\ flights' \in Seq(Flights)
        /\ \A t \in Tabs : page'[t].socket = page[t].socket
    BY <1>5, FailureKeepsOne
  <2>2. ClientIs'
    BY <1>1, <2>1 DEF ClientInv, ClientIs
  <2>3. StatusIsLast'
    BY <1>1, <2>1 DEF ClientInv, StatusIsLast
  <2>. QED
    BY <1>1, <2>1, <2>2, <2>3 DEF ClientInv, Client!ThreadsAreFound
<1>. QED
  BY <1>3, <1>4, <1>5 DEF Client!Answer, Client!Fail

-----------------------------------------------------------------------------
(* The server, and what a tab receives.                                      *)

\* A flight that is served.
LEMMA ServedKeepsOne ==
  ASSUME ClientInv, NEW k \in DOMAIN flights, NEW f \in Flights,
         flights' = [flights EXCEPT ![k] = f], f.of = flights[k].of, f.tab = flights[k].tab,
         f.kind = flights[k].kind, f.kind = "get" => f.sid = flights[k].sid,
         f.kind = "post" => f.sid # NoSession, UNCHANGED <<stored, page, parted>>
  PROVE  flights' \in Seq(Flights) /\ OneStarts'
<1>1. flights \in Seq(Flights)
  BY DEF ClientInv, ClientIs
<1>2. /\ flights' \in Seq(Flights) /\ DOMAIN flights' = DOMAIN flights /\ flights'[k] = f
      /\ \A l \in DOMAIN flights \ {k} : flights'[l] = flights[l]
  BY <1>1
<1>3. \A l \in DOMAIN flights : Alive(l)' <=> Alive(l)
  BY <1>2 DEF Alive
<1>4. f.kind \in {"get", "post"}
  BY DEF Flights
<1>5. OneStarts'
  <2>. SUFFICES ASSUME ~parted PROVE OneStarts'
    BY DEF OneStarts
  <2>1. /\ \A t \in Tabs : page[t].stage = "ready" => page[t].sid = stored /\ stored # NoSession
        /\ \A l, m \in DOMAIN flights' : Alive(l)' /\ Alive(m)' => l = m
    BY <1>2, <1>3 DEF ClientInv, OneStarts
  <2>2. ASSUME NEW l \in DOMAIN flights', Alive(l)'
        PROVE  /\ page[flights'[l].tab].stage = "starting"
               /\ flights'[l].kind = "get" => flights'[l].sid = stored /\ stored # NoSession
               /\ flights'[l].kind = "post" => stored = NoSession
               /\ flights'[l].answer = "ok" => flights'[l].sid # NoSession
    <3>1. CASE l = k
      BY <1>2, <1>3, <1>4, <2>2, <3>1 DEF ClientInv, OneStarts
    <3>2. CASE l # k
      BY <1>2, <1>3, <2>2, <3>2 DEF ClientInv, OneStarts
    <3>. QED
      BY <3>1, <3>2
  <2>. QED
    BY <2>1, <2>2 DEF OneStarts
<1>. QED
  BY <1>2, <1>5

LEMMA ServeKeepsClients ==
  ASSUME ClientInv, NEW k \in DOMAIN flights, Client!Serve(k)
  PROVE  ClientInv'
<1>1. /\ ClientIs /\ flights \in Seq(Flights) /\ flights[k] \in Flights
      /\ UNCHANGED <<stored, page, inbox, connection, late, parted, status>>
  BY DEF ClientInv, ClientIs, Client!Serve
<1>2. CASE Client!ServeGet(k)
  <2>. DEFINE answer == IF flights[k].sid \in DOMAIN sessions THEN "ok" ELSE "not found"
              f == [flights[k] EXCEPT !.answer = answer]
  <2>1. /\ f \in Flights /\ f.of = flights[k].of /\ f.tab = flights[k].tab /\ f.kind = flights[k].kind
        /\ f.sid = flights[k].sid /\ f.kind = "get"
    BY <1>1, <1>2 DEF Flights, Client!ServeGet
  <2>2. flights' = [flights EXCEPT ![k] = f]
    BY <1>2 DEF Client!ServeGet
  <2>3. UNCHANGED <<made, sessions, threadToSession, processToSession, shared>>
    BY <1>2 DEF Client!ServeGet, Client!managerVars
  <2>. HIDE DEF f
  <2>4. flights' \in Seq(Flights) /\ OneStarts'
    BY <1>1, <2>1, <2>2, ServedKeepsOne
  <2>. QED
    BY <1>1, <2>3, <2>4 DEF ClientInv, ClientIs, StatusIsLast, Client!ThreadsAreFound
<1>3. CASE Client!CreateSession(k)
  <2>1. PICK id \in SessionIds :
          /\ flights[k].kind = "post"
          /\ sessions' = Client!With(sessions, id, [threadId |-> NoThread, history |-> <<CreatedStatus>>])
          /\ flights' = [flights EXCEPT ![k] = [@ EXCEPT !.answer = "ok", !.sid = id]]
          /\ UNCHANGED <<threadToSession, processToSession, shared>>
    BY <1>3 DEF Client!CreateSession
  <2>. DEFINE f == [flights[k] EXCEPT !.answer = "ok", !.sid = id]
  <2>2. /\ f \in Flights /\ f.of = flights[k].of /\ f.tab = flights[k].tab /\ f.kind = flights[k].kind
        /\ f.sid = id /\ f.kind = "post"
    BY <1>1, <2>1 DEF Flights
  <2>3. flights' = [flights EXCEPT ![k] = f] /\ id # NoSession /\ NoThread \notin Threads
    BY <2>1, ShellAssumption DEF ShellAssumption
  <2>. HIDE DEF f
  <2>4. flights' \in Seq(Flights) /\ OneStarts'
    BY <1>1, <2>2, <2>3, ServedKeepsOne
  <2>5. /\ DOMAIN sessions' = DOMAIN sessions \cup {id}
        /\ sessions'[id] = [threadId |-> NoThread, history |-> <<CreatedStatus>>]
        /\ \A s \in DOMAIN sessions \ {id} : sessions'[s] = sessions[s]
    BY <2>1 DEF Client!With
  <2>6. sessions'[id] \in ServerSessions
    <3>1. <<CreatedStatus>> \in Seq(Statuses)
      BY DEF Statuses
    <3>. QED
      BY <2>5, <3>1 DEF ServerSessions
  <2>7. ClientIs'
    <3>1. \A s \in DOMAIN sessions' : sessions'[s] \in ServerSessions
      BY <1>1, <2>5, <2>6 DEF ClientIs
    <3>2. DOMAIN sessions' \subseteq SessionIds
      BY <1>1, <2>5 DEF ClientIs
    <3>. QED
      BY <1>1, <2>4, <3>1, <3>2 DEF ClientIs
  <2>8. Client!ThreadsAreFound'
    BY <2>1, <2>3, <2>5 DEF ClientInv, Client!ThreadsAreFound
  <2>. QED
    BY <1>1, <2>4, <2>7, <2>8 DEF ClientInv, StatusIsLast
<1>. QED
  BY <1>2, <1>3 DEF Client!Serve

\* A session that is deleted takes no thread of another with it that is not shared.
LEMMA DeleteKeepsClients ==
  ASSUME ClientInv, NEW s \in SessionIds, Client!DeleteSession(s)
  PROVE  ClientInv'
<1>1. /\ s \in DOMAIN sessions /\ sessions' = Client!Without(sessions, s)
      /\ threadToSession' = Client!Without(threadToSession, sessions[s].threadId)
      /\ UNCHANGED <<stored, page, flights, inbox, connection, late, parted, made, shared, status>>
  BY DEF Client!DeleteSession, Client!tabVars
<1>2. /\ DOMAIN sessions' = DOMAIN sessions \ {s}
      /\ \A r \in DOMAIN sessions' : sessions'[r] = sessions[r]
      /\ DOMAIN threadToSession' = DOMAIN threadToSession \ {sessions[s].threadId}
      /\ \A x \in DOMAIN threadToSession' : threadToSession'[x] = threadToSession[x]
  BY <1>1 DEF Client!Without, Client!Restrict
<1>3. ClientIs' /\ StatusIsLast'
  BY <1>1, <1>2 DEF ClientInv, ClientIs, StatusIsLast
<1>4. OneStarts'
  BY <1>1 DEF ClientInv, OneStarts, Alive
<1>5. Client!ThreadsAreFound'
  <2>. SUFFICES ASSUME NEW r \in DOMAIN sessions', sessions'[r].threadId \in Threads \ shared
                PROVE  /\ sessions'[r].threadId \in DOMAIN threadToSession'
                       /\ threadToSession'[sessions'[r].threadId] = r
    BY <1>1 DEF Client!ThreadsAreFound
  <2>. DEFINE x == sessions[r].threadId
  <2>1. r # s /\ r \in DOMAIN sessions /\ sessions'[r] = sessions[r] /\ x \in Threads \ shared
    BY <1>2
  <2>2. x \in DOMAIN threadToSession /\ threadToSession[x] = r
    BY <2>1 DEF ClientInv, Client!ThreadsAreFound
  <2>3. x # sessions[s].threadId
    BY <1>1, <2>1, <2>2 DEF ClientInv, Client!ThreadsAreFound
  <2>. QED
    BY <1>2, <2>1, <2>2, <2>3
<1>. QED
  BY <1>3, <1>4, <1>5 DEF ClientInv

\* A step of one tab that leaves its stage and session.
LEMMA TabKeepsOne ==
  ASSUME ClientInv, NEW t \in Tabs, NEW p \in TabPages, page' = [page EXCEPT ![t] = p],
         p.stage = page[t].stage, p.sid = page[t].sid, UNCHANGED <<stored, flights, parted>>
  PROVE  page' \in [Tabs -> TabPages] /\ OneStarts' /\ page'[t] = p
         /\ \A u \in Tabs \ {t} : page'[u] = page[u]
<1>1. page \in [Tabs -> TabPages] /\ flights \in Seq(Flights)
  BY DEF ClientInv, ClientIs
<1>2. /\ page' \in [Tabs -> TabPages] /\ page'[t] = p /\ \A u \in Tabs \ {t} : page'[u] = page[u]
  BY <1>1
<1>3. \A u \in Tabs : page'[u].stage = page[u].stage /\ page'[u].sid = page[u].sid
  BY <1>2
<1>4. ASSUME NEW k \in DOMAIN flights PROVE flights[k].tab \in Tabs
  <2>1. flights[k] \in Flights
    BY <1>1
  <2>. QED
    BY <2>1 DEF Flights
<1>5. OneStarts'
  BY <1>3, <1>4 DEF ClientInv, OneStarts, Alive
<1>. QED
  BY <1>2, <1>5

LEMMA SocketKeepsClients ==
  ASSUME ClientInv, NEW t \in Tabs, Client!Opens(t) \/ Client!Drops(t) \/ Client!Subscribe(t)
  PROVE  ClientInv'
<1>1. /\ ClientIs /\ page \in [Tabs -> TabPages] /\ page[t] \in TabPages /\ status \in Nat
      /\ inbox \in [Tabs -> Seq(Statuses)]
      /\ UNCHANGED <<stored, flights, connection, parted, made, sessions, threadToSession,
                     processToSession, shared, status>>
  BY DEF ClientInv, ClientIs, Client!Opens, Client!Drops, Client!Subscribe, Client!managerVars
<1>2. Client!ThreadsAreFound'
  BY <1>1 DEF ClientInv, Client!ThreadsAreFound
<1>3. CASE Client!Opens(t)
  <2>. DEFINE p == [page[t] EXCEPT !.socket = "open"]
              s == page[t].sid
  <2>1. p \in TabPages /\ p.stage = page[t].stage /\ p.sid = page[t].sid
    BY <1>1 DEF TabPages
  <2>2. /\ page' = [page EXCEPT ![t] = p] /\ s \in DOMAIN sessions
        /\ inbox' = [inbox EXCEPT ![t] = sessions[s].history \o <<status>>] /\ late' = late \ {t}
    BY <1>3 DEF Client!Opens, Client!Greeting
  <2>. HIDE DEF p
  <2>3. /\ page' \in [Tabs -> TabPages] /\ OneStarts' /\ page'[t] = p
        /\ \A u \in Tabs \ {t} : page'[u] = page[u]
    BY <1>1, <2>1, <2>2, TabKeepsOne
  <2>. DEFINE greeting == sessions[s].history \o <<status>>
  <2>4. sessions[s].history \in Seq(Statuses) /\ <<status>> \in Seq(Statuses) /\ status \in Statuses
    BY <1>1, <2>2 DEF ClientIs, Statuses, ServerSessions
  <2>5. greeting \in Seq(Statuses) /\ greeting # <<>> /\ greeting[Len(greeting)] = status
    BY <2>4
  <2>. HIDE DEF greeting
  <2>6. /\ inbox' \in [Tabs -> Seq(Statuses)] /\ inbox'[t] = greeting
        /\ \A u \in Tabs \ {t} : inbox'[u] = inbox[u]
    BY <1>1, <2>2, <2>5 DEF greeting
  <2>7. ClientIs'
    BY <1>1, <2>3, <2>6 DEF ClientIs
  <2>8. StatusIsLast'
    BY <1>1, <2>2, <2>3, <2>5, <2>6 DEF ClientInv, StatusIsLast
  <2>. QED
    BY <1>2, <2>3, <2>7, <2>8 DEF ClientInv
<1>4. CASE Client!Drops(t)
  <2>. DEFINE p == [page[t] EXCEPT !.socket = "connecting"]
  <2>1. p \in TabPages /\ p.stage = page[t].stage /\ p.sid = page[t].sid /\ p.socket = "connecting"
    BY <1>1 DEF TabPages
  <2>2. /\ page' = [page EXCEPT ![t] = p] /\ inbox' = [inbox EXCEPT ![t] = <<>>] /\ late' = late
    BY <1>4 DEF Client!Drops
  <2>. HIDE DEF p
  <2>3. /\ page' \in [Tabs -> TabPages] /\ OneStarts' /\ page'[t] = p
        /\ \A u \in Tabs \ {t} : page'[u] = page[u]
    BY <1>1, <2>1, <2>2, TabKeepsOne
  <2>4. inbox' \in [Tabs -> Seq(Statuses)] /\ \A u \in Tabs \ {t} : inbox'[u] = inbox[u]
    BY <1>1, <2>2
  <2>5. ClientIs'
    BY <1>1, <2>3, <2>4 DEF ClientIs
  <2>6. StatusIsLast'
    BY <1>1, <2>1, <2>2, <2>3, <2>4 DEF ClientInv, StatusIsLast
  <2>. QED
    BY <1>2, <2>3, <2>5, <2>6 DEF ClientInv
<1>5. CASE Client!Subscribe(t)
  <2>. DEFINE p == [page[t] EXCEPT !.subscribed = TRUE]
  <2>1. p \in TabPages /\ p.stage = page[t].stage /\ p.sid = page[t].sid /\ p.socket = page[t].socket
    BY <1>1 DEF TabPages
  <2>2. page' = [page EXCEPT ![t] = p] /\ inbox' = inbox /\ late' = late
    BY <1>5 DEF Client!Subscribe
  <2>. HIDE DEF p
  <2>3. /\ page' \in [Tabs -> TabPages] /\ OneStarts' /\ page'[t] = p
        /\ \A u \in Tabs \ {t} : page'[u] = page[u]
    BY <1>1, <2>1, <2>2, TabKeepsOne
  <2>4. ClientIs'
    BY <1>1, <2>2, <2>3 DEF ClientIs
  <2>5. StatusIsLast'
    BY <1>1, <2>1, <2>2, <2>3 DEF ClientInv, StatusIsLast
  <2>. QED
    BY <1>2, <2>3, <2>4, <2>5 DEF ClientInv
<1>. QED
  BY <1>3, <1>4, <1>5

LEMMA StatusKeepsClients ==
  ASSUME ClientInv, Client!StatusChanges
  PROVE  ClientInv'
<1>1. /\ ClientIs /\ page \in [Tabs -> TabPages] /\ status \in Nat
      /\ inbox \in [Tabs -> Seq(Statuses)] /\ status' = status + 1
      /\ inbox' = [t \in Tabs |-> IF page[t].socket = "open" THEN Append(inbox[t], status') ELSE inbox[t]]
      /\ UNCHANGED <<stored, page, flights, connection, late, parted, made, sessions, threadToSession,
                     processToSession, shared>>
  BY DEF ClientInv, ClientIs, Client!StatusChanges, Client!managerVars
<1>2. status' \in Nat /\ status' \in Statuses
  BY <1>1 DEF Statuses
<1>3. \A t \in Tabs : /\ inbox'[t] \in Seq(Statuses)
                      /\ page[t].socket = "open" =>
                           inbox'[t] # <<>> /\ inbox'[t][Len(inbox'[t])] = status'
  BY <1>1, <1>2
<1>4. inbox' \in [Tabs -> Seq(Statuses)]
  BY <1>1, <1>3
<1>5. ClientIs'
  BY <1>1, <1>2, <1>4 DEF ClientIs
<1>6. StatusIsLast'
  BY <1>1, <1>3 DEF StatusIsLast
<1>7. OneStarts' /\ Client!ThreadsAreFound'
  BY <1>1 DEF ClientInv, OneStarts, Alive, Client!ThreadsAreFound
<1>. QED
  BY <1>5, <1>6, <1>7 DEF ClientInv

\* A thread that two sessions had is shared from then on.
LEMMA BindKeepsClients ==
  ASSUME ClientInv, NEW t \in Tabs, NEW th \in Threads, Client!BindThread(t, th)
  PROVE  ClientInv'
<1>. DEFINE s == page[t].sid
<1>1. /\ s \in DOMAIN sessions /\ sessions' = [sessions EXCEPT ![s].threadId = th]
      /\ threadToSession' = Client!With(threadToSession, th, s)
      /\ shared' = shared \cup {x \in {th} : x \in DOMAIN threadToSession /\ threadToSession[x] # s}
      /\ UNCHANGED <<stored, page, flights, inbox, connection, late, parted, made, status>>
  BY DEF Client!BindThread, Client!tabVars
<1>. HIDE DEF s
<1>2. /\ DOMAIN threadToSession' = DOMAIN threadToSession \cup {th} /\ threadToSession'[th] = s
      /\ \A x \in DOMAIN threadToSession \ {th} : threadToSession'[x] = threadToSession[x]
  BY <1>1 DEF Client!With
<1>3. /\ DOMAIN sessions' = DOMAIN sessions
      /\ \A r \in DOMAIN sessions \ {s} : sessions'[r] = sessions[r]
      /\ sessions'[s] = [sessions[s] EXCEPT !.threadId = th]
  BY <1>1
<1>4. sessions'[s] \in ServerSessions /\ sessions'[s].threadId = th
  <2>1. sessions[s] \in ServerSessions
    BY <1>1 DEF ClientInv, ClientIs
  <2>. QED
    BY <1>3, <2>1 DEF ServerSessions
<1>5. ClientIs' /\ StatusIsLast' /\ OneStarts'
  BY <1>1, <1>3, <1>4 DEF ClientInv, ClientIs, StatusIsLast, OneStarts, Alive
<1>6. Client!ThreadsAreFound'
  <2>. SUFFICES ASSUME NEW r \in DOMAIN sessions, sessions'[r].threadId \in Threads \ shared'
                PROVE  /\ sessions'[r].threadId \in DOMAIN threadToSession'
                       /\ threadToSession'[sessions'[r].threadId] = r
    BY <1>3 DEF Client!ThreadsAreFound
  <2>1. CASE r = s
    BY <1>2, <1>4, <2>1
  <2>2. CASE r # s
    <3>1. /\ sessions'[r] = sessions[r] /\ sessions[r].threadId \in Threads \ shared
          /\ sessions[r].threadId \in DOMAIN threadToSession
          /\ threadToSession[sessions[r].threadId] = r
      BY <1>1, <1>3, <2>2 DEF ClientInv, Client!ThreadsAreFound
    <3>2. sessions[r].threadId # th
      BY <1>1, <2>2, <3>1
    <3>. QED
      BY <1>2, <3>1, <3>2
  <2>. QED
    BY <2>1, <2>2
<1>. QED
  BY <1>5, <1>6 DEF ClientInv

LEMMA ReceiveKeepsClients ==
  ASSUME ClientInv, NEW t \in Tabs, Client!Receive(t)
  PROVE  ClientInv'
<1>1. /\ ClientIs /\ inbox \in [Tabs -> Seq(Statuses)] /\ inbox[t] # <<>>
      /\ connection \in [Tabs -> Statuses \cup {NoSession}]
      /\ inbox' = [inbox EXCEPT ![t] = Tail(inbox[t])]
      /\ UNCHANGED <<stored, page, flights, parted, made, sessions, threadToSession, processToSession,
                     shared, status>>
  BY DEF ClientInv, ClientIs, Client!Receive, Client!managerVars
<1>. DEFINE m == inbox[t]
<1>2. m \in Seq(Statuses) /\ m # <<>>
  BY <1>1
<1>3. /\ Head(m) \in Statuses /\ Head(m) = m[1] /\ Tail(m) \in Seq(Statuses) /\ Len(m) \in Nat \ {0}
      /\ Len(Tail(m)) = Len(m) - 1
      /\ Tail(m) # <<>> => Tail(m)[Len(Tail(m))] = m[Len(m)]
      /\ Tail(m) = <<>> => Head(m) = m[Len(m)]
  BY <1>2
<1>4. /\ inbox' \in [Tabs -> Seq(Statuses)] /\ inbox'[t] = Tail(m)
      /\ \A u \in Tabs \ {t} : inbox'[u] = inbox[u]
  BY <1>1, <1>3
<1>5. \/ connection' = [connection EXCEPT ![t] = Head(m)] /\ late' = late
      \/ connection' = connection /\ late' = late \cup {t}
  BY DEF Client!Receive
<1>. HIDE DEF m
<1>6. /\ connection' \in [Tabs -> Statuses \cup {NoSession}]
      /\ \A u \in Tabs \ {t} : connection'[u] = connection[u] /\ (u \in late' <=> u \in late)
      /\ connection'[t] = Head(m) \/ t \in late'
  BY <1>1, <1>3, <1>5
<1>7. ClientIs'
  BY <1>1, <1>4, <1>6 DEF ClientIs
<1>8. StatusIsLast'
  <2>1. page[t].socket = "open" => m[Len(m)] = status
    BY <1>1 DEF ClientInv, StatusIsLast, m
  <2>. QED
    BY <1>1, <1>3, <1>4, <1>6, <2>1 DEF ClientInv, StatusIsLast
<1>9. OneStarts' /\ Client!ThreadsAreFound'
  BY <1>1 DEF ClientInv, OneStarts, Alive, Client!ThreadsAreFound
<1>. QED
  BY <1>7, <1>8, <1>9 DEF ClientInv

LEMMA ClientStep ==
  ASSUME ClientInv, Client!Next
  PROVE  ClientInv'
<1>1. connection \in [Tabs -> Statuses \cup {NoSession}]
  BY DEF ClientInv, ClientIs
<1>2. ASSUME NEW t \in Tabs, Client!Load(t) PROVE ClientInv'
  BY <1>1, <1>2, MountKeepsClients DEF Client!Load
<1>3. ASSUME NEW t \in Tabs, Client!Reload(t) PROVE ClientInv'
  BY <1>1, <1>3, MountKeepsClients DEF Client!Reload
<1>4. ASSUME NEW t \in Tabs, Client!Remount(t) PROVE ClientInv'
  BY <1>1, <1>4, MountKeepsClients DEF Client!Remount
<1>5. ASSUME NEW t \in Tabs, NEW p \in Procs, Client!BindProcess(t, p) PROVE ClientInv'
  <2>1. UNCHANGED <<stored, page, flights, inbox, connection, late, parted, made, sessions,
                    threadToSession, shared, status>>
    BY <1>5 DEF Client!BindProcess, Client!tabVars
  <2>. QED
    BY <2>1 DEF ClientInv, ClientIs, StatusIsLast, OneStarts, Alive, Client!ThreadsAreFound
<1>. QED
  BY <1>2, <1>3, <1>4, <1>5, AnswerKeepsClients, ServeKeepsClients, DeleteKeepsClients,
     SocketKeepsClients, StatusKeepsClients, BindKeepsClients, ReceiveKeepsClients DEF Client!Next

\* A tab that has received everything shows codex's status, the tabs of a browser share a session
\* unless they parted, and the session of a thread is found, whatever is reloaded, remounted,
\* deleted and lost (useActiveClient(), SessionProcess, SessionManager.bindThread()).
THEOREM ClientsAreAlwaysServed == ShellSpec => []ClientsAreServed
<1>1. ShellInit => ClientInv
  BY ClientInit DEF ShellInit
<1>2. ClientInv /\ [ShellNext]_<<part, projectVars, paletteVars, dialogVars, tabVars>> => ClientInv'
  <2>. SUFFICES ASSUME ClientInv, [ShellNext]_<<part, projectVars, paletteVars, dialogVars, tabVars>>
                PROVE  ClientInv'
    OBVIOUS
  <2>1. CASE Client!Next
    BY <2>1, ClientStep
  <2>2. CASE UNCHANGED tabVars
    BY <2>2 DEF tabVars, ClientInv, ClientIs, StatusIsLast, OneStarts, Alive, Client!ThreadsAreFound
  <2>. QED
    BY <2>1, <2>2 DEF ShellNext
<1>3. ClientInv => ClientsAreServed
  BY DEF ClientInv, StatusIsLast, OneStarts, ClientsAreServed, Client!ClientsAreServed,
         Client!StatusIsTrue, Client!TabsShareSession
<1>. QED
  BY <1>1, <1>2, <1>3, PTL DEF ShellSpec

-----------------------------------------------------------------------------
(* The workspaces of a page, for any ids, requests and failures.  The list   *)
(* is what the server would answer now, or it is being fetched, or a request *)
(* that has changed the tables is answered and will have it fetched          *)
(* (ListIsDue); and nothing but a workspace of the list is selected, or      *)
(* "all", and that only while none is shown (SelectionIsListed).             *)

ShelfKinds == {"check", "post", "patch", "delete", "dismiss"}
ShelfRequests ==
  [kind : ShelfKinds, path : WorkspacePaths, answer : {"none", "refused", "ok", "taken"} \cup Ids,
   target : Ids \cup {NoWorkspace}, twins : SUBSET (Ids \cup WorkspacePaths), deselects : BOOLEAN]

\* An answer that makes its handler fetch the list.
Refetches(r) ==
  \/ r.kind \in {"post", "patch"} /\ r.answer \in Ids \cup {"taken"}
  \/ r.kind \in {"delete", "dismiss"} /\ r.answer = "ok"

RefetchIsDue == \E k \in DOMAIN requests : Refetches(requests[k])

ShelfIs ==
  /\ Shelf!TablesTypeOK /\ lost \in Nat
  /\ requests \in Seq(ShelfRequests)
  /\ bootstrap \subseteq [id : Ids \cup WorkspacePaths, absPath : WorkspacePaths]
  /\ fetch.entries \subseteq [id : Ids \cup WorkspacePaths, absPath : WorkspacePaths]
  /\ threaded \subseteq Cwds /\ field \in WorkspacePaths
  /\ modal.editor \in [id : Ids \cup WorkspacePaths, absPath : WorkspacePaths] \cup {NoEditor}

SelectionIsListed ==
  \/ activeWorkspaceId \in Shelf!IdsOf(bootstrap)
  \/ activeWorkspaceId = All /\ Shelf!Visible(bootstrap, threaded) = {}

ListIsDue ==
  lost = 0 =>
    \/ fetch = Shelf!Idle /\ bootstrap = Shelf!Catalogue
    \/ fetch.stage = "sent"
    \/ fetch.stage = "read" /\ fetch.entries = Shelf!Catalogue
    \/ RefetchIsDue

PickIsListed ==
  picked \in Ids \cup WorkspacePaths =>
    picked \in Shelf!IdsOf(bootstrap) /\ activeWorkspaceId = picked

ShelfInv == ShelfIs /\ SelectionIsListed /\ ListIsDue /\ PickIsListed

\* The catalogue has the paths of the rows and of codex's threads.
LEMMA CatalogueIs ==
  ASSUME Shelf!TablesTypeOK
  PROVE  /\ Shelf!Catalogue \subseteq [id : Ids \cup WorkspacePaths, absPath : WorkspacePaths]
         /\ \A id \in DOMAIN workspaces : Shelf!Entry(id, workspaces[id]) \in Shelf!Catalogue
<1>1. PICK D \in SUBSET Ids : workspaces \in [D -> WorkspacePaths]
  BY DEF Shelf!TablesTypeOK
<1>2. Cwds \subseteq WorkspacePaths
  BY ShellAssumption
<1>. QED
  BY <1>1, <1>2 DEF Shelf!Catalogue, Shelf!buildWorkspaceCatalog, Shelf!Saved, Shelf!Entry

LEMMA CatalogueStays == UNCHANGED <<workspaces, ignored_workspaces>> => UNCHANGED Shelf!Catalogue
BY DEF Shelf!Catalogue, Shelf!buildWorkspaceCatalog, Shelf!Saved, Shelf!Derives, Shelf!SavedPaths,
       Shelf!Range

\* No row, no table.
LEMMA NoRows ==
  ASSUME Shelf!TablesTypeOK, DOMAIN workspaces = {}
  PROVE  workspaces = <<>>
<1>1. workspaces \in [{} -> WorkspacePaths]
  BY DEF Shelf!TablesTypeOK
<1>. QED
  BY <1>1

LEMMA ShelfAgrees == ShelfInv => ProjectsAgree
<1>. SUFFICES ASSUME ShelfInv PROVE ProjectsAgree
  OBVIOUS
<1>1. Shelf!PickStays
  BY DEF ShelfInv, PickIsListed, Shelf!PickStays
<1>2. ASSUME Shelf!Quiet, lost = 0
      PROVE  /\ bootstrap = Shelf!Catalogue
             /\ activeWorkspaceId \in Shelf!IdsOf(Shelf!Catalogue) \cup {All}
             /\ activeWorkspaceId = All => workspaces = <<>>
  <2>1. bootstrap = Shelf!Catalogue
    BY <1>2 DEF ShelfInv, ListIsDue, RefetchIsDue, Shelf!Quiet, Shelf!Idle
  <2>2. activeWorkspaceId \in Shelf!IdsOf(Shelf!Catalogue) \cup {All}
    BY <2>1 DEF ShelfInv, SelectionIsListed
  <2>3. ASSUME activeWorkspaceId = All PROVE workspaces = <<>>
    <3>1. All \notin Shelf!IdsOf(bootstrap)
      BY ShellAssumption DEF ShelfInv, ShelfIs, Shelf!IdsOf
    <3>2. \A e \in bootstrap : e.id \notin Ids
      BY <2>3, <3>1 DEF ShelfInv, SelectionIsListed, Shelf!Visible
    <3>3. DOMAIN workspaces \subseteq Ids
      BY DEF ShelfInv, ShelfIs, Shelf!TablesTypeOK
    <3>4. DOMAIN workspaces = {}
      BY <2>1, <3>2, <3>3, CatalogueIs DEF ShelfInv, ShelfIs, Shelf!Entry
    <3>. QED
      BY <3>4, NoRows DEF ShelfInv, ShelfIs
  <2>. QED
    BY <2>1, <2>2, <2>3
<1>. QED
  BY <1>1, <1>2 DEF ProjectsAgree, Shelf!ProjectsAgree, Shelf!ListIsTrue

LEMMA ShelfInit == Shelf!Init => ShelfInv
<1>. SUFFICES ASSUME Shelf!Init PROVE ShelfInv
  OBVIOUS
<1>1. workspaces = <<>> /\ ignored_workspaces = {}
  BY DEF Shelf!Init, Shelf!TablesInit
<1>2. Shelf!TablesTypeOK
  <2>1. workspaces \in [{} -> WorkspacePaths]
    BY <1>1
  <2>. QED
    BY <1>1, <2>1 DEF Shelf!TablesTypeOK
<1>3. /\ lost = 0 /\ requests = <<>> /\ bootstrap = Shelf!Catalogue /\ fetch = Shelf!Idle
      /\ threaded \subseteq Cwds /\ field = Home /\ modal.editor = NoEditor /\ picked = NoWorkspace
  BY DEF Shelf!Init
<1>4. ShelfIs
  BY <1>2, <1>3, CatalogueIs, ShellAssumption DEF ShelfIs, Shelf!Idle
<1>5. SelectionIsListed
  BY DEF Shelf!Init, SelectionIsListed, Shelf!IdsOf, Shelf!Visible
<1>6. ListIsDue /\ PickIsListed
  BY <1>3, ShellAssumption DEF ListIsDue, PickIsListed
<1>. QED
  BY <1>4, <1>5, <1>6 DEF ShelfInv

-----------------------------------------------------------------------------
(* What the list and the selection become.                                   *)

Entries == [id : Ids \cup WorkspacePaths, absPath : WorkspacePaths]

\* Whatever is rendered, a workspace of the list is selected, and the one that is stays.
LEMMA SelectedIs ==
  ASSUME NEW b, b \subseteq Entries, NEW t, NEW a, Shelf!Selected(b, t, a)
  PROVE  /\ SelectionIsListed' /\ bootstrap' = b /\ threaded' = t
         /\ a \in Shelf!IdsOf(b) => activeWorkspaceId' = a
BY DEF Shelf!Selected, SelectionIsListed, Shelf!IdsOf, Shelf!Visible, Shelf!FirstOf

\* A form is of the workspace it was opened for, with its path or another of the form.
LEMMA FormIs ==
  ASSUME ShelfIs, NEW b, Shelf!CloseForm(b)
  PROVE  field' \in WorkspacePaths /\ modal'.editor = NoEditor
BY ShellAssumption DEF Shelf!CloseForm

\* The other requests stay when one is done.
LEMMA DoneRequestIs ==
  ASSUME requests \in Seq(ShelfRequests), NEW k \in DOMAIN requests, Shelf!Done(k)
  PROVE  /\ requests' \in Seq(ShelfRequests)
         /\ \A j \in DOMAIN requests \ {k} : \E i \in DOMAIN requests' : requests'[i] = requests[j]
<1>1. requests' = RemoveAt(requests, k)
  BY DEF Shelf!Done, Shelf!RemoveAt, RemoveAt
<1>2. /\ requests' \in Seq(ShelfRequests) /\ Len(requests) \in Nat \ {0}
      /\ DOMAIN requests = 1..Len(requests) /\ DOMAIN requests' = 1..(Len(requests) - 1)
      /\ \A j \in 1..(Len(requests) - 1) : requests'[j] = requests[IF j < k THEN j ELSE j + 1]
  BY <1>1, RemoveAtIs
<1>3. ASSUME NEW j \in DOMAIN requests \ {k}
      PROVE  \E i \in DOMAIN requests' : requests'[i] = requests[j]
  <2>1. CASE j < k
    BY <1>2, <2>1
  <2>2. CASE ~(j < k)
    <3>1. j - 1 \in 1..(Len(requests) - 1) /\ ~(j - 1 < k) /\ (j - 1) + 1 = j
      BY <1>2, <1>3, <2>2
    <3>. QED
      BY <1>2, <3>1
  <2>. QED
    BY <2>1, <2>2
<1>. QED
  BY <1>2, <1>3

\* What an answer leaves of a request.
LEMMA AnsweredIs ==
  ASSUME requests \in Seq(ShelfRequests), NEW k \in DOMAIN requests,
         NEW a \in {"none", "refused", "ok", "taken"} \cup Ids, Shelf!Answered(k, a)
  PROVE  /\ requests' \in Seq(ShelfRequests) /\ DOMAIN requests' = DOMAIN requests
         /\ requests'[k].answer = a /\ requests'[k].kind = requests[k].kind
         /\ \A j \in DOMAIN requests \ {k} : requests'[j] = requests[j]
<1>. DEFINE next == [requests[k] EXCEPT !.answer = a]
<1>1. requests[k] \in ShelfRequests
  OBVIOUS
<1>2. next \in ShelfRequests /\ next.answer = a /\ next.kind = requests[k].kind
  BY <1>1 DEF ShelfRequests
<1>3. requests' = [requests EXCEPT ![k] = next]
  BY DEF Shelf!Answered
<1>. HIDE DEF next
<1>. QED
  BY <1>2, <1>3

\* Where no answer, no table and neither the list nor its fetch change, the list stays due.
LEMMA DueStays ==
  ASSUME ListIsDue, RefetchIsDue => RefetchIsDue',
         UNCHANGED <<workspaces, ignored_workspaces, bootstrap, fetch, lost>>
  PROVE  ListIsDue'
<1>1. UNCHANGED Shelf!Catalogue
  BY CatalogueStays
<1>2. UNCHANGED Shelf!Idle
  BY DEF Shelf!Idle
<1>. QED
  BY <1>1, <1>2 DEF ListIsDue

LEMMA TablesStay ==
  ASSUME Shelf!TablesTypeOK, UNCHANGED <<workspaces, ignored_workspaces>>
  PROVE  Shelf!TablesTypeOK'
BY DEF Shelf!TablesTypeOK

\* The rows keep their ids and get paths of the form.
LEMMA RowsAre ==
  ASSUME Shelf!TablesTypeOK, NEW id \in Ids, NEW p \in WorkspacePaths,
         \/ Shelf!CreateRow(id, p)
         \/ Shelf!UpdateRow(id, p)
         \/ Shelf!DeleteRow(id)
         \/ Shelf!ignorePath(p) /\ UNCHANGED workspaces
  PROVE  Shelf!TablesTypeOK'
<1>1. PICK D \in SUBSET Ids : workspaces \in [D -> WorkspacePaths]
  BY DEF Shelf!TablesTypeOK
<1>2. ignored_workspaces' \subseteq WorkspacePaths
  BY <1>1 DEF Shelf!TablesTypeOK, Shelf!CreateRow, Shelf!UpdateRow, Shelf!DeleteRow,
              Shelf!ignorePath, Shelf!unignorePath
<1>3. \E E \in SUBSET Ids : workspaces' \in [E -> WorkspacePaths]
  <2>1. CASE Shelf!CreateRow(id, p)
    <3>1. workspaces' \in [D -> WorkspacePaths] \/ workspaces' \in [D \cup {id} -> WorkspacePaths]
      BY <1>1, <2>1 DEF Shelf!CreateRow
    <3>. QED
      BY <3>1
  <2>2. CASE Shelf!UpdateRow(id, p)
    BY <1>1, <2>2 DEF Shelf!UpdateRow
  <2>3. CASE Shelf!DeleteRow(id)
    <3>1. workspaces' \in [D \ {id} -> WorkspacePaths]
      BY <1>1, <2>3 DEF Shelf!DeleteRow, Shelf!Restrict
    <3>. QED
      BY <3>1
  <2>4. CASE UNCHANGED workspaces
    BY <1>1, <2>4
  <2>. QED
    BY <2>1, <2>2, <2>3, <2>4
<1>. QED
  BY <1>2, <1>3 DEF Shelf!TablesTypeOK

-----------------------------------------------------------------------------
(* What the user does.                                                       *)

LEMMA SelectKeepsShelf ==
  ASSUME ShelfInv, NEW id, Shelf!Select(id)
  PROVE  ShelfInv'
<1>1. /\ id \in Shelf!IdsOf(Shelf!Visible(bootstrap, threaded)) \cup {All}
      /\ Shelf!Selected(bootstrap, threaded, id) /\ picked' = id
      /\ UNCHANGED <<workspaces, ignored_workspaces, fetch, modal, field, requests, lost>>
  BY DEF Shelf!Select, Shelf!tables
<1>2. /\ SelectionIsListed' /\ UNCHANGED <<bootstrap, threaded>>
      /\ id \in Shelf!IdsOf(bootstrap) => activeWorkspaceId' = id
  BY <1>1, SelectedIs DEF ShelfInv, ShelfIs, Entries
<1>3. id \in Shelf!IdsOf(bootstrap) \cup {All}
  BY <1>1 DEF Shelf!IdsOf, Shelf!Visible
<1>4. PickIsListed'
  BY <1>1, <1>2, <1>3, ShellAssumption DEF PickIsListed, Shelf!IdsOf
<1>5. ListIsDue'
  BY <1>1, <1>2, DueStays DEF ShelfInv, RefetchIsDue, Refetches
<1>6. ShelfIs'
  BY <1>1, <1>2, TablesStay DEF ShelfInv, ShelfIs
<1>. QED
  BY <1>2, <1>4, <1>5, <1>6 DEF ShelfInv

\* What leaves the list, the selection, the requests and the tables alone.
LEMMA FormKeepsShelf ==
  ASSUME ShelfInv, field' \in WorkspacePaths, modal'.editor \in Entries \cup {NoEditor},
         UNCHANGED <<workspaces, ignored_workspaces, bootstrap, fetch, threaded, activeWorkspaceId,
                     requests, picked, lost>>
  PROVE  ShelfInv'
<1>1. ShelfIs'
  BY TablesStay DEF ShelfInv, ShelfIs, Entries
<1>2. ListIsDue'
  BY DueStays DEF ShelfInv, RefetchIsDue, Refetches
<1>3. SelectionIsListed' /\ PickIsListed'
  BY DEF ShelfInv, SelectionIsListed, PickIsListed, Shelf!IdsOf, Shelf!Visible
<1>. QED
  BY <1>1, <1>2, <1>3 DEF ShelfInv

LEMMA UserKeepsShelf ==
  ASSUME ShelfInv,
         \/ \E e \in {NoEditor} \cup bootstrap : Shelf!OpenForm(e)
         \/ Shelf!Close
         \/ \E p \in WorkspacePaths : Shelf!TypePath(p)
  PROVE  ShelfInv'
<1>1. ASSUME NEW e \in {NoEditor} \cup bootstrap, Shelf!OpenForm(e) PROVE ShelfInv'
  <2>1. e \in Entries \cup {NoEditor}
    BY DEF ShelfInv, ShelfIs, Entries
  <2>2. field' \in WorkspacePaths /\ modal'.editor = e
    BY <1>1, <2>1, ShellAssumption
       DEF Shelf!OpenForm, Shelf!ShowForm, Shelf!PathOf, ShelfInv, ShelfIs, Entries
  <2>. QED
    BY <1>1, <2>1, <2>2, FormKeepsShelf DEF Shelf!OpenForm, Shelf!tables
<1>2. CASE Shelf!Close
  BY <1>2, FormIs, FormKeepsShelf DEF Shelf!Close, Shelf!tables, ShelfInv
<1>3. ASSUME NEW p \in WorkspacePaths, Shelf!TypePath(p) PROVE ShelfInv'
  BY <1>3, FormKeepsShelf DEF Shelf!TypePath, Shelf!tables, ShelfInv, ShelfIs, Entries
<1>. QED
  BY <1>1, <1>2, <1>3

LEMMA AskKeepsShelf ==
  ASSUME ShelfInv, Shelf!Submit \/ Shelf!RemoveWorkspace
  PROVE  ShelfInv'
<1>1. PICK kind \in ShelfKinds, path \in WorkspacePaths : Shelf!Ask(Shelf!Request(kind, path))
  <2>1. CASE Shelf!Submit
    BY <2>1 DEF Shelf!Submit, ShelfKinds, ShelfInv, ShelfIs
  <2>2. CASE Shelf!RemoveWorkspace
    <3>1. modal.editor.absPath \in WorkspacePaths
      BY <2>2 DEF Shelf!RemoveWorkspace, ShelfInv, ShelfIs
    <3>2. PICK kind \in {"delete", "dismiss"} : Shelf!Ask(Shelf!Request(kind, modal.editor.absPath))
      BY <2>2 DEF Shelf!RemoveWorkspace
    <3>. QED
      BY <3>1, <3>2 DEF ShelfKinds
  <2>. QED
    BY <2>1, <2>2
<1>. DEFINE r == Shelf!Request(kind, path)
<1>2. r \in ShelfRequests
  <2>1. Shelf!IdsOf(Shelf!Twins(path, modal.editor)) \subseteq Ids \cup WorkspacePaths
    BY DEF Shelf!IdsOf, Shelf!Twins, ShelfInv, ShelfIs
  <2>2. (kind # "check" /\ activeWorkspaceId = modal.editor.id) \in BOOLEAN
    BY Zenon
  <2>3. (IF Shelf!Stored(modal.editor) THEN modal.editor.id ELSE NoWorkspace) \in Ids \cup {NoWorkspace}
    BY DEF Shelf!Stored
  <2>4. (IF kind = "check" THEN Shelf!IdsOf(Shelf!Twins(path, modal.editor)) ELSE {})
          \in SUBSET (Ids \cup WorkspacePaths)
    BY <2>1
  <2>. QED
    BY <2>2, <2>3, <2>4 DEF Shelf!Request, ShelfRequests
<1>3. /\ requests' = Append(requests, r)
      /\ UNCHANGED <<workspaces, ignored_workspaces, bootstrap, fetch, threaded, activeWorkspaceId,
                     modal, field, picked, lost>>
  BY <1>1 DEF Shelf!Ask, Shelf!tables
<1>. HIDE DEF r
<1>4. requests' \in Seq(ShelfRequests) /\ (RefetchIsDue => RefetchIsDue')
  <2>1. /\ requests' \in Seq(ShelfRequests)
        /\ \A i \in DOMAIN requests : i \in DOMAIN requests' /\ requests'[i] = requests[i]
    BY <1>2, <1>3, AppendIs DEF ShelfInv, ShelfIs
  <2>. QED
    BY <2>1 DEF RefetchIsDue, Refetches
<1>5. ListIsDue'
  BY <1>3, <1>4, DueStays DEF ShelfInv
<1>6. ShelfIs'
  BY <1>3, <1>4, TablesStay DEF ShelfInv, ShelfIs
<1>7. SelectionIsListed' /\ PickIsListed'
  BY <1>3 DEF ShelfInv, SelectionIsListed, PickIsListed, Shelf!IdsOf, Shelf!Visible
<1>. QED
  BY <1>5, <1>6, <1>7 DEF ShelfInv

-----------------------------------------------------------------------------
(* The server and its answers.                                               *)

\* What changes a table is answered so that the list is fetched.
LEMMA ServeKeepsShelf ==
  ASSUME ShelfInv, NEW k \in DOMAIN requests, Shelf!Serve(k)
  PROVE  ShelfInv'
<1>1. /\ requests[k] \in ShelfRequests /\ requests[k].answer = "none"
      /\ UNCHANGED <<bootstrap, fetch, threaded, activeWorkspaceId, modal, field, picked, lost>>
  BY DEF Shelf!Serve, ShelfInv, ShelfIs
<1>2. \E a \in {"none", "refused", "ok", "taken"} \cup Ids :
        /\ Shelf!Answered(k, a) /\ Shelf!TablesTypeOK'
        /\ \/ UNCHANGED <<workspaces, ignored_workspaces>>
           \/ requests[k].kind \in {"post", "patch"} /\ a \in Ids \cup {"taken"}
           \/ requests[k].kind \in {"delete", "dismiss"} /\ a = "ok"
  <2>1. CASE Shelf!ServeCheck(k)
    BY <2>1, TablesStay DEF Shelf!ServeCheck, Shelf!tables, ShelfInv, ShelfIs
  <2>2. CASE Shelf!ServePost(k)
    <3>1. CASE Shelf!Answered(k, "refused") /\ UNCHANGED Shelf!tables
      BY <3>1, TablesStay DEF Shelf!tables, ShelfInv, ShelfIs
    <3>2. ASSUME NEW id \in Ids, Shelf!CreateRow(id, requests[k].path),
                 Shelf!Answered(k, IF Shelf!Taken(requests[k].path, id) THEN "taken" ELSE id)
          PROVE  \E a \in Ids \cup {"taken"} : Shelf!Answered(k, a) /\ Shelf!TablesTypeOK'
      BY <1>1, <3>2, RowsAre DEF ShelfInv, ShelfIs, ShelfRequests
    <3>3. requests[k].kind = "post"
      BY <2>2 DEF Shelf!ServePost
    <3>. QED
      BY <2>2, <3>1, <3>2, <3>3 DEF Shelf!ServePost
  <2>3. CASE Shelf!ServePatch(k)
    <3>1. CASE Shelf!Answered(k, "refused") /\ UNCHANGED Shelf!tables
      BY <3>1, TablesStay DEF Shelf!tables, ShelfInv, ShelfIs
    <3>. DEFINE id == requests[k].target
    <3>2. CASE /\ id \in DOMAIN workspaces /\ Shelf!UpdateRow(id, requests[k].path)
               /\ Shelf!Answered(k, IF Shelf!Taken(requests[k].path, id) THEN "taken" ELSE id)
      <4>1. id \in Ids /\ requests[k].path \in WorkspacePaths
        BY <1>1, <3>2 DEF ShelfInv, ShelfIs, Shelf!TablesTypeOK, ShelfRequests
      <4>2. Shelf!TablesTypeOK'
        BY <3>2, <4>1, RowsAre DEF ShelfInv, ShelfIs
      <4>3. requests[k].kind = "patch"
        BY <2>3 DEF Shelf!ServePatch
      <4>. HIDE DEF id
      <4>. QED
        BY <3>2, <4>1, <4>2, <4>3
    <3>. QED
      BY <2>3, <3>1, <3>2 DEF Shelf!ServePatch
  <2>4. CASE Shelf!ServeDelete(k)
    <3>1. CASE Shelf!Answered(k, "refused") /\ UNCHANGED Shelf!tables
      BY <3>1, TablesStay DEF Shelf!tables, ShelfInv, ShelfIs
    <3>. DEFINE id == requests[k].target
    <3>2. CASE id \in DOMAIN workspaces /\ Shelf!DeleteRow(id) /\ Shelf!Answered(k, "ok")
      <4>1. id \in Ids /\ Home \in WorkspacePaths
        BY <3>2, ShellAssumption DEF ShelfInv, ShelfIs, Shelf!TablesTypeOK
      <4>2. Shelf!TablesTypeOK'
        BY <3>2, <4>1, RowsAre DEF ShelfInv, ShelfIs
      <4>. QED
        BY <2>4, <3>2, <4>2 DEF Shelf!ServeDelete
    <3>. QED
      BY <2>4, <3>1, <3>2 DEF Shelf!ServeDelete
  <2>5. CASE Shelf!ServeDismiss(k)
    <3>1. requests[k].path \in WorkspacePaths
      BY <1>1 DEF ShelfRequests
    <3>2. Shelf!TablesTypeOK'
      BY <2>5, <3>1 DEF Shelf!ServeDismiss, Shelf!TablesTypeOK, Shelf!ignorePath, ShelfInv, ShelfIs
    <3>. QED
      BY <2>5, <3>2 DEF Shelf!ServeDismiss
  <2>. QED
    BY <2>1, <2>2, <2>3, <2>4, <2>5 DEF Shelf!Serve
<1>3. PICK a \in {"none", "refused", "ok", "taken"} \cup Ids :
        /\ Shelf!Answered(k, a) /\ Shelf!TablesTypeOK'
        /\ \/ UNCHANGED <<workspaces, ignored_workspaces>>
           \/ requests[k].kind \in {"post", "patch"} /\ a \in Ids \cup {"taken"}
           \/ requests[k].kind \in {"delete", "dismiss"} /\ a = "ok"
  BY <1>2
<1>4. /\ requests' \in Seq(ShelfRequests) /\ DOMAIN requests' = DOMAIN requests
      /\ requests'[k].answer = a /\ requests'[k].kind = requests[k].kind
      /\ \A j \in DOMAIN requests \ {k} : requests'[j] = requests[j]
  BY <1>3, AnsweredIs DEF ShelfInv, ShelfIs
<1>5. ~Refetches(requests[k])
  BY <1>1, ShellAssumption DEF Refetches
<1>6. RefetchIsDue => RefetchIsDue'
  BY <1>4, <1>5 DEF RefetchIsDue, Refetches
<1>7. ListIsDue'
  <2>1. CASE UNCHANGED <<workspaces, ignored_workspaces>>
    BY <1>1, <1>6, <2>1, DueStays DEF ShelfInv
  <2>2. CASE ~UNCHANGED <<workspaces, ignored_workspaces>>
    BY <1>3, <1>4, <2>2 DEF ListIsDue, RefetchIsDue, Refetches
  <2>. QED
    BY <2>1, <2>2
<1>8. ShelfIs'
  BY <1>1, <1>3, <1>4 DEF ShelfInv, ShelfIs
<1>9. SelectionIsListed' /\ PickIsListed'
  BY <1>1 DEF ShelfInv, SelectionIsListed, PickIsListed, Shelf!IdsOf, Shelf!Visible
<1>. QED
  BY <1>7, <1>8, <1>9 DEF ShelfInv

\* A request that fails, or is answered without a change of the tables, is none that fetches.
LEMMA QuietlyDone ==
  ASSUME ShelfInv, NEW k \in DOMAIN requests, Shelf!Done(k), ~Refetches(requests[k])
  PROVE  RefetchIsDue => RefetchIsDue'
BY DoneRequestIs DEF ShelfInv, ShelfIs, RefetchIsDue, Refetches

LEMMA RefusedKeepsShelf ==
  ASSUME ShelfInv, NEW k \in DOMAIN requests, Shelf!Refused(k)
  PROVE  ShelfInv'
<1>1. /\ requests[k].answer = "refused" /\ Shelf!Done(k)
      /\ UNCHANGED <<workspaces, ignored_workspaces, bootstrap, fetch, threaded, activeWorkspaceId,
                     modal, field, picked, lost>>
  BY DEF Shelf!Refused, Shelf!tables
<1>2. ~Refetches(requests[k])
  BY <1>1, ShellAssumption DEF Refetches
<1>3. ListIsDue'
  BY <1>1, <1>2, QuietlyDone, DueStays DEF ShelfInv
<1>4. ShelfIs'
  BY <1>1, DoneRequestIs, TablesStay DEF ShelfInv, ShelfIs
<1>5. SelectionIsListed' /\ PickIsListed'
  BY <1>1 DEF ShelfInv, SelectionIsListed, PickIsListed, Shelf!IdsOf, Shelf!Visible
<1>. QED
  BY <1>3, <1>4, <1>5 DEF ShelfInv

LEMMA LostKeepsShelf ==
  ASSUME ShelfInv, NEW k \in DOMAIN requests, Shelf!Lost(k)
  PROVE  ShelfInv'
<1>1. /\ lost' = lost + 1 /\ Shelf!Done(k)
      /\ UNCHANGED <<workspaces, ignored_workspaces, bootstrap, fetch, threaded, activeWorkspaceId,
                     modal, field, picked>>
  BY DEF Shelf!Lost, Shelf!tables
<1>2. ShelfIs' /\ ListIsDue'
  BY <1>1, DoneRequestIs, TablesStay DEF ShelfInv, ShelfIs, ListIsDue
<1>3. SelectionIsListed' /\ PickIsListed'
  BY <1>1 DEF ShelfInv, SelectionIsListed, PickIsListed, Shelf!IdsOf, Shelf!Visible
<1>. QED
  BY <1>2, <1>3 DEF ShelfInv

\* A selection of the page's own, after which the user has picked nothing.
LEMMA ReselectKeepsPick ==
  ASSUME ShelfInv,
         \/ (\E id \in Ids \cup WorkspacePaths \cup {All} : Shelf!Selected(bootstrap, threaded, id))
              /\ picked' = NoWorkspace
         \/ UNCHANGED <<bootstrap, threaded, activeWorkspaceId, picked>>
  PROVE  SelectionIsListed' /\ PickIsListed' /\ UNCHANGED <<bootstrap, threaded>>
<1>1. CASE UNCHANGED <<bootstrap, threaded, activeWorkspaceId, picked>>
  BY <1>1 DEF ShelfInv, SelectionIsListed, PickIsListed, Shelf!IdsOf, Shelf!Visible
<1>2. ASSUME NEW id \in Ids \cup WorkspacePaths \cup {All},
             Shelf!Selected(bootstrap, threaded, id), picked' = NoWorkspace
      PROVE  SelectionIsListed' /\ PickIsListed' /\ UNCHANGED <<bootstrap, threaded>>
  BY <1>2, SelectedIs, ShellAssumption DEF ShelfInv, ShelfIs, Entries, PickIsListed
<1>. QED
  BY <1>1, <1>2

LEMMA CheckedKeepsShelf ==
  ASSUME ShelfInv, NEW k \in DOMAIN requests, Shelf!Checked(k)
  PROVE  ShelfInv'
<1>1. /\ requests[k] \in ShelfRequests /\ requests[k].kind = "check"
      /\ UNCHANGED <<workspaces, ignored_workspaces, fetch, lost>>
  BY DEF Shelf!Checked, Shelf!tables, ShelfInv, ShelfIs
<1>2. ~Refetches(requests[k])
  BY <1>1 DEF Refetches
<1>3. CASE requests[k].twins # {}
  <2>1. /\ \E id \in requests[k].twins : Shelf!Selected(bootstrap, threaded, id)
        /\ Shelf!CloseForm(bootstrap) /\ Shelf!Done(k) /\ picked' = NoWorkspace
    BY <1>3 DEF Shelf!Checked
  <2>2. SelectionIsListed' /\ PickIsListed' /\ UNCHANGED <<bootstrap, threaded>>
    BY <1>1, <2>1, ReselectKeepsPick DEF ShelfRequests
  <2>3. ListIsDue'
    BY <1>1, <1>2, <2>1, <2>2, QuietlyDone, DueStays DEF ShelfInv
  <2>4. field' \in WorkspacePaths /\ modal'.editor = NoEditor
    BY <2>1, FormIs DEF ShelfInv
  <2>5. ShelfIs'
    BY <1>1, <2>1, <2>2, <2>4, DoneRequestIs, TablesStay DEF ShelfInv, ShelfIs
  <2>. QED
    BY <2>2, <2>3, <2>5 DEF ShelfInv
<1>4. CASE requests[k].twins = {}
  <2>. DEFINE next == [requests[k] EXCEPT !.answer = "none", !.kind =
                         IF requests[k].target # NoWorkspace THEN "patch" ELSE "post"]
              rest == RemoveAt(requests, k)
  <2>1. /\ requests' = Append(rest, next)
        /\ UNCHANGED <<bootstrap, threaded, activeWorkspaceId, modal, field, picked>>
    BY <1>4 DEF Shelf!Checked, Shelf!RemoveAt, RemoveAt
  <2>2. next \in ShelfRequests
    BY <1>1 DEF ShelfRequests, ShelfKinds
  <2>3. /\ rest \in Seq(ShelfRequests) /\ Len(requests) \in Nat \ {0}
        /\ DOMAIN requests = 1..Len(requests) /\ DOMAIN rest = 1..(Len(requests) - 1)
        /\ \A j \in 1..(Len(requests) - 1) : rest[j] = requests[IF j < k THEN j ELSE j + 1]
    BY RemoveAtIs DEF ShelfInv, ShelfIs
  <2>. HIDE DEF next, rest
  <2>4. /\ requests' \in Seq(ShelfRequests)
        /\ \A i \in DOMAIN rest : i \in DOMAIN requests' /\ requests'[i] = rest[i]
    BY <2>1, <2>2, <2>3, AppendIs
  <2>5. ASSUME NEW j \in DOMAIN requests \ {k}
        PROVE  \E i \in DOMAIN requests' : requests'[i] = requests[j]
    <3>1. CASE j < k
      BY <2>3, <2>4, <3>1
    <3>2. CASE ~(j < k)
      <4>1. j - 1 \in 1..(Len(requests) - 1) /\ ~(j - 1 < k) /\ (j - 1) + 1 = j
        BY <2>3, <2>5, <3>2
      <4>. QED
        BY <2>3, <2>4, <4>1
    <3>. QED
      BY <3>1, <3>2
  <2>6. RefetchIsDue => RefetchIsDue'
    BY <1>2, <2>5 DEF RefetchIsDue, Refetches
  <2>7. ListIsDue'
    BY <1>1, <2>1, <2>6, DueStays DEF ShelfInv
  <2>8. ShelfIs'
    BY <1>1, <2>1, <2>4, TablesStay DEF ShelfInv, ShelfIs
  <2>9. SelectionIsListed' /\ PickIsListed'
    BY <2>1 DEF ShelfInv, SelectionIsListed, PickIsListed, Shelf!IdsOf, Shelf!Visible
  <2>. QED
    BY <2>7, <2>8, <2>9 DEF ShelfInv
<1>. QED
  BY <1>3, <1>4

\* Once a row may have changed, the list is fetched anew.
LEMMA SavedKeepsShelf ==
  ASSUME ShelfInv, NEW k \in DOMAIN requests, Shelf!SaveAnswered(k) \/ Shelf!RemoveAnswered(k)
  PROVE  ShelfInv'
<1>1. /\ Shelf!CloseForm(bootstrap) /\ Shelf!Refetch /\ Shelf!Done(k)
      /\ UNCHANGED <<workspaces, ignored_workspaces, lost>>
  BY DEF Shelf!SaveAnswered, Shelf!RemoveAnswered, Shelf!tables
<1>2. \/ (\E id \in Ids \cup WorkspacePaths \cup {All} : Shelf!Selected(bootstrap, threaded, id))
           /\ picked' = NoWorkspace
      \/ UNCHANGED <<bootstrap, threaded, activeWorkspaceId, picked>>
  <2>1. CASE Shelf!SaveAnswered(k)
    BY <2>1 DEF Shelf!SaveAnswered
  <2>2. CASE Shelf!RemoveAnswered(k)
    BY <2>2 DEF Shelf!RemoveAnswered
  <2>. QED
    BY <2>1, <2>2
<1>3. SelectionIsListed' /\ PickIsListed' /\ UNCHANGED <<bootstrap, threaded>>
  BY <1>2, ReselectKeepsPick
<1>4. fetch'.stage = "sent" /\ fetch'.entries = {}
  BY <1>1 DEF Shelf!Refetch
<1>5. field' \in WorkspacePaths /\ modal'.editor = NoEditor
  BY <1>1, FormIs DEF ShelfInv
<1>6. ShelfIs'
  BY <1>1, <1>3, <1>4, <1>5, DoneRequestIs, TablesStay DEF ShelfInv, ShelfIs
<1>. QED
  BY <1>3, <1>4, <1>6 DEF ShelfInv, ListIsDue

LEMMA FetchKeepsShelf ==
  ASSUME ShelfInv, Shelf!ServeFetch \/ Shelf!Fetched
  PROVE  ShelfInv'
<1>1. UNCHANGED <<workspaces, ignored_workspaces, threaded, requests, lost>>
  BY DEF Shelf!ServeFetch, Shelf!Fetched, Shelf!tables, Shelf!Selected
<1>2. UNCHANGED <<Shelf!Catalogue, Shelf!Idle>>
  BY <1>1, CatalogueStays DEF Shelf!Idle
<1>3. CASE Shelf!ServeFetch
  <2>1. /\ fetch'.stage = "read" /\ fetch'.entries = Shelf!Catalogue
        /\ UNCHANGED <<bootstrap, activeWorkspaceId, modal, field, picked>>
    BY <1>3 DEF Shelf!ServeFetch
  <2>2. ShelfIs'
    BY <1>1, <2>1, TablesStay, CatalogueIs DEF ShelfInv, ShelfIs
  <2>. QED
    BY <1>1, <1>2, <2>1, <2>2
       DEF ShelfInv, ListIsDue, SelectionIsListed, PickIsListed, Shelf!IdsOf, Shelf!Visible
<1>4. CASE Shelf!Fetched
  <2>1. /\ fetch.stage = "read" /\ fetch' = Shelf!Idle
        /\ Shelf!Selected(fetch.entries, threaded, activeWorkspaceId)
        /\ Shelf!AutoOpen(fetch.entries)
        /\ picked' = IF picked \in Shelf!IdsOf(fetch.entries) \cup {All} THEN picked ELSE NoWorkspace
    BY <1>4 DEF Shelf!Fetched
  <2>2. /\ SelectionIsListed' /\ bootstrap' = fetch.entries
        /\ activeWorkspaceId \in Shelf!IdsOf(fetch.entries) => activeWorkspaceId' = activeWorkspaceId
    BY <2>1, SelectedIs DEF ShelfInv, ShelfIs, Entries
  <2>3. PickIsListed'
    BY <2>1, <2>2, ShellAssumption DEF ShelfInv, PickIsListed, Shelf!IdsOf
  <2>4. RefetchIsDue' <=> RefetchIsDue
    BY <1>1 DEF RefetchIsDue, Refetches
  <2>5. ListIsDue'
    <3>1. fetch # Shelf!Idle
      BY <2>1 DEF Shelf!Idle
    <3>. QED
      BY <1>1, <1>2, <2>1, <2>2, <2>4, <3>1 DEF ShelfInv, ListIsDue
  <2>6. field' \in WorkspacePaths /\ (modal'.editor = NoEditor \/ UNCHANGED modal)
    BY <2>1, ShellAssumption DEF Shelf!AutoOpen, Shelf!ShowForm, Shelf!PathOf, ShelfInv, ShelfIs
  <2>7. ShelfIs'
    BY <1>1, <2>1, <2>2, <2>6, TablesStay DEF ShelfInv, ShelfIs, Shelf!Idle
  <2>. QED
    BY <2>2, <2>3, <2>5, <2>7 DEF ShelfInv
<1>. QED
  BY <1>3, <1>4

\* The user's choice outlives the threads of its workspace.
LEMMA ThreadsKeepShelf ==
  ASSUME ShelfInv, NEW t \in SUBSET Cwds, Shelf!ThreadsChange(t)
  PROVE  ShelfInv'
<1>1. /\ Shelf!Selected(bootstrap, t, activeWorkspaceId)
      /\ UNCHANGED <<workspaces, ignored_workspaces, fetch, modal, field, requests, picked, lost>>
  BY DEF Shelf!ThreadsChange, Shelf!tables
<1>2. /\ SelectionIsListed' /\ UNCHANGED bootstrap /\ threaded' = t
      /\ activeWorkspaceId \in Shelf!IdsOf(bootstrap) => activeWorkspaceId' = activeWorkspaceId
  BY <1>1, SelectedIs DEF ShelfInv, ShelfIs, Entries
<1>3. PickIsListed'
  BY <1>1, <1>2 DEF ShelfInv, PickIsListed, Shelf!IdsOf
<1>4. ListIsDue'
  BY <1>1, <1>2, DueStays DEF ShelfInv, RefetchIsDue, Refetches
<1>5. ShelfIs'
  BY <1>1, <1>2, TablesStay DEF ShelfInv, ShelfIs
<1>. QED
  BY <1>2, <1>3, <1>4, <1>5 DEF ShelfInv

\* A thread brings its workspace, and the user has picked none any more.
LEMMA FollowKeepsShelf ==
  ASSUME ShelfInv, NEW w, NEW t \in SUBSET Cwds, Shelf!Follow(w, t)
  PROVE  ShelfInv'
<1>1. /\ Shelf!Selected(bootstrap, t, w) /\ picked' = NoWorkspace
      /\ UNCHANGED <<workspaces, ignored_workspaces, fetch, modal, field, requests, lost>>
  BY DEF Shelf!Follow, Shelf!tables
<1>2. SelectionIsListed' /\ UNCHANGED bootstrap /\ threaded' = t
  BY <1>1, SelectedIs DEF ShelfInv, ShelfIs, Entries
<1>3. PickIsListed'
  BY <1>1, ShellAssumption DEF PickIsListed
<1>4. ListIsDue'
  BY <1>1, <1>2, DueStays DEF ShelfInv, RefetchIsDue, Refetches
<1>5. ShelfIs'
  BY <1>1, <1>2, TablesStay DEF ShelfInv, ShelfIs
<1>. QED
  BY <1>2, <1>3, <1>4, <1>5 DEF ShelfInv

\* What is on its way to a thread counts when it arrives.
LEMMA OpeningKeepsShelf ==
  ASSUME ShelfInv,
         \/ \E e \in bootstrap : Shelf!OpenThread(e)
         \/ \E k \in DOMAIN opening : Shelf!ThreadOpened(k) \/ Shelf!ThreadRefused(k)
         \/ \E w \in Ids \cup Cwds : Shelf!ThreadForked(w) \/ Shelf!ThreadRestored(w)
  PROVE  ShelfInv'
<1>1. CASE \/ \E e \in bootstrap : Shelf!OpenThread(e)
           \/ \E k \in DOMAIN opening : Shelf!ThreadRefused(k)
  <2>1. UNCHANGED <<workspaces, ignored_workspaces, bootstrap, fetch, threaded, activeWorkspaceId,
                    modal, field, requests, picked, lost>>
    BY <1>1 DEF Shelf!OpenThread, Shelf!ThreadRefused, Shelf!tables
  <2>. QED
    BY <2>1, FormKeepsShelf DEF ShelfInv, ShelfIs, Entries
<1>2. ASSUME NEW k \in DOMAIN opening, Shelf!ThreadOpened(k) PROVE ShelfInv'
  <2>1. PICK t \in SUBSET Cwds : Shelf!Follow(opening[k], t)
    BY <1>2 DEF Shelf!ThreadOpened, ShelfInv, ShelfIs
  <2>. QED
    BY <2>1, FollowKeepsShelf
<1>3. ASSUME NEW w \in Ids \cup Cwds, Shelf!ThreadForked(w) \/ Shelf!ThreadRestored(w)
      PROVE  ShelfInv'
  <2>1. PICK t \in SUBSET Cwds : Shelf!Follow(w, t)
    BY <1>3 DEF Shelf!ThreadForked, Shelf!ThreadRestored, ShelfInv, ShelfIs
  <2>. QED
    BY <2>1, FollowKeepsShelf
<1>. QED
  BY <1>1, <1>2, <1>3

LEMMA ShelfStep == ASSUME ShelfInv, Shelf!Next PROVE ShelfInv'
BY SelectKeepsShelf, UserKeepsShelf, AskKeepsShelf, ServeKeepsShelf, RefusedKeepsShelf,
   LostKeepsShelf, CheckedKeepsShelf, SavedKeepsShelf, FetchKeepsShelf, ThreadsKeepShelf,
   OpeningKeepsShelf
   DEF Shelf!Next, Shelf!Use

\* Once no request is under way and none was lost, the page lists the workspaces the server has and
\* one of them is selected; and what the user picked stays selected while it is listed, whatever is
\* saved, removed, dismissed and fetched in whatever order (handleWorkspaceSubmit(),
\* handleDeleteWorkspace(), invalidateBootstrap(), the effect that chooses a selection).
THEOREM ProjectsAlwaysAgree == ShellSpec => []ProjectsAgree
<1>1. ShellInit => ShelfInv
  BY ShelfInit DEF ShellInit
<1>2. ShelfInv /\ [ShellNext]_<<part, projectVars, paletteVars, dialogVars, tabVars>> => ShelfInv'
  <2>. SUFFICES ASSUME ShelfInv, [ShellNext]_<<part, projectVars, paletteVars, dialogVars, tabVars>>
                PROVE  ShelfInv'
    OBVIOUS
  <2>1. CASE Shelf!Next
    BY <2>1, ShelfStep
  <2>2. CASE UNCHANGED projectVars
    <3>1. field' \in WorkspacePaths /\ modal'.editor \in Entries \cup {NoEditor}
      BY <2>2 DEF projectVars, ShelfInv, ShelfIs, Entries
    <3>. QED
      BY <2>2, <3>1, FormKeepsShelf DEF projectVars
  <2>. QED
    BY <2>1, <2>2 DEF ShellNext
<1>3. ShelfInv => ProjectsAgree
  BY ShelfAgrees
<1>. QED
  BY <1>1, <1>2, <1>3, PTL DEF ShellSpec

\* What holds of what surrounds the threads holds of the desk, whose other tools leave it alone.
THEOREM DeskKeepsShell ==
  DeskSpec => [](ProjectsAgree /\ ResultsAreMeant /\ PreviewIsTrue /\ ClientsAreServed)
<1>1. DeskInit => ShellInit
  BY DEF DeskInit
<1>2. [DeskNext]_<<tool, shellVars, fieldVars, paneVars, branchVars, link>>
        => [ShellNext]_<<part, projectVars, paletteVars, dialogVars, tabVars>>
  BY DEF DeskNext, shellVars
<1>. QED
  BY <1>1, <1>2, ProjectsAlwaysAgree, ResultsAreAlwaysMeant, PreviewIsAlwaysTrue,
     ClientsAreAlwaysServed, PTL DEF DeskSpec, ShellSpec

=============================================================================
