----------------------------- MODULE PageProofs -----------------------------
(***************************************************************************)
(* Proofs about the parts of MCPage, for any turns, threads and rates and  *)
(* any bounds.                                                             *)
(*                                                                         *)
(* Timeline: what a page that has followed its thread shows of an item,    *)
(* with what its dispatcher keeps, is a prefix of what codex wrote, and    *)
(* never shrinks.  The text of an item grows along the way from codex to   *)
(* the page.  What each message has to find there, and leaves, is a matter *)
(* of its place: Carries(q, t, a, b) says that a page that has the first a *)
(* chunks of the item of t has its first b chunks when the messages of q   *)
(* have arrived.                                                           *)
(*                                                                         *)
(* Realtime: which session the store will have of a thread when a message  *)
(* arrives is a matter of the messages before it (Knows), and which URLs   *)
(* the browser keeps of the three ways a session's sound changes: its URL  *)
(* is kept, revoked or made anew (Kept, Muted, Renewed).                   *)
(*                                                                         *)
(* PromptQueue: every call has a number of its own and one place on its    *)
(* way (CallsAre).  What codex has of an entry and what is on its way to   *)
(* it (Count) is more than one only by as many as sockets or processes     *)
(* were lost, and an entry whose call was answered without codex having it *)
(* was lost with one of them (AnswersAre).                                 *)
(***************************************************************************)
EXTENDS MCPage, SequenceLemmas, FunctionTheorems

\* The messages that are under way as long as no thread is read.
Turning == [kind : {"turn"}, turn : Turns, status : {"inProgress", "ended"}]
Growing == [kind : {"item", "delta"}, turn : Turns, text : Seq(Nat)]
Starting == [kind : {"started"}, turn : Turns]
Messages == Turning \cup Growing \cup Starting

\* A message that finds the first a chunks of t leaves the first b.
Moves(x, t, a, b) ==
  /\ x.kind = "delta" /\ x.turn = t => b = a + 1 /\ x.text = <<b>>
  /\ x.kind = "item" /\ x.turn = t => b = a /\ x.text = Text(a)
  /\ x.kind \notin {"delta", "item"} \/ x.turn # t => b = a

\* at[i] chunks of t have arrived with the first i messages of q.
Places(q, t, at) ==
  /\ at \in [0..Len(q) -> Nat]
  /\ \A i, j \in 0..Len(q) : i <= j => at[i] <= at[j]
  /\ \A i \in 1..Len(q) : Moves(q[i], t, at[i - 1], at[i])

Carries(q, t, a, b) ==
  \E at \in [0..Len(q) -> Nat] : Places(q, t, at) /\ at[0] = a /\ at[Len(q)] = b

-----------------------------------------------------------------------------
(* What Carries says of sequences. *)

LEMMA CarriesNothing ==
  ASSUME NEW t, NEW a \in Nat
  PROVE  Carries(<<>>, t, a, a)
<1>. DEFINE at == [i \in 0..0 |-> a]
<1>1. Len(<<>>) = 0 /\ at \in [0..0 -> Nat] /\ at[0] = a
  OBVIOUS
<1>2. Places(<<>>, t, at)
  BY <1>1 DEF Places
<1>. QED
  BY <1>1, <1>2 DEF Carries

LEMMA CarriesUp ==
  ASSUME NEW q \in Seq(Messages), NEW t, NEW a, NEW b, Carries(q, t, a, b)
  PROVE  a \in Nat /\ b \in Nat /\ a <= b
<1>1. Len(q) \in Nat
  OBVIOUS
<1>. QED
  BY <1>1 DEF Carries, Places

LEMMA CarriesAppend ==
  ASSUME NEW q \in Seq(Messages), NEW x \in Messages, NEW t, NEW a, NEW b, NEW c \in Nat,
         Carries(q, t, a, b), Moves(x, t, b, c), b <= c
  PROVE  Append(q, x) \in Seq(Messages) /\ Carries(Append(q, x), t, a, c)
<1>1. PICK at \in [0..Len(q) -> Nat] : Places(q, t, at) /\ at[0] = a /\ at[Len(q)] = b
  BY DEF Carries
<1>2. PICK n \in Nat : n = Len(q)
  OBVIOUS
<1>. DEFINE w == Append(q, x)
            up == [i \in 0..(n + 1) |-> IF i = n + 1 THEN c ELSE at[i]]
<1>3. /\ w \in Seq(Messages) /\ Len(w) = n + 1
      /\ \A i \in 1..n : w[i] = q[i]
      /\ w[n + 1] = x
  BY <1>2
<1>4. \A i \in 0..n : at[i] \in Nat /\ at[i] <= c /\ up[i] = at[i]
  BY <1>1, <1>2 DEF Places
<1>5. up \in [0..(n + 1) -> Nat] /\ up[n + 1] = c
  <2>1. \A i \in 0..(n + 1) : i = n + 1 \/ i \in 0..n
    OBVIOUS
  <2>. QED
    BY <1>1, <1>2, <2>1
<1>. HIDE DEF w, up
<1>6. \A i, j \in 0..(n + 1) : i <= j => up[i] <= up[j]
  <2>. SUFFICES ASSUME NEW i \in 0..(n + 1), NEW j \in 0..(n + 1), i <= j
                PROVE  up[i] <= up[j]
    OBVIOUS
  <2>1. CASE j = n + 1
    BY <2>1, <1>4, <1>5
  <2>2. CASE j # n + 1
    <3>1. i \in 0..n /\ j \in 0..n
      BY <2>2
    <3>2. at[i] <= at[j]
      BY <3>1, <1>1, <1>2 DEF Places
    <3>. QED
      BY <3>1, <3>2, <1>4
  <2>. QED
    BY <2>1, <2>2
<1>7. \A i \in 1..(n + 1) : Moves(w[i], t, up[i - 1], up[i])
  <2>. SUFFICES ASSUME NEW i \in 1..(n + 1)
                PROVE  Moves(w[i], t, up[i - 1], up[i])
    OBVIOUS
  <2>1. CASE i = n + 1
    BY <2>1, <1>1, <1>2, <1>3, <1>4, <1>5
  <2>2. CASE i # n + 1
    <3>1. i \in 1..n /\ i - 1 \in 0..n /\ i \in 0..n
      BY <2>2
    <3>2. Moves(q[i], t, at[i - 1], at[i])
      BY <3>1, <1>1, <1>2 DEF Places
    <3>. QED
      BY <3>1, <3>2, <1>3, <1>4
  <2>. QED
    BY <2>1, <2>2
<1>8. Places(w, t, up)
  BY <1>3, <1>5, <1>6, <1>7 DEF Places
<1>9. up[0] = a
  BY <1>1, <1>4
<1>10. Carries(w, t, a, c)
  BY <1>3, <1>5, <1>8, <1>9 DEF Carries
<1>. QED
  BY <1>3, <1>10 DEF w

LEMMA CarriesTail ==
  ASSUME NEW q \in Seq(Messages), q # <<>>, NEW t, NEW a, NEW b, Carries(q, t, a, b)
  PROVE  /\ Head(q) \in Messages /\ Tail(q) \in Seq(Messages)
         /\ \E c \in Nat : Moves(Head(q), t, a, c) /\ a <= c /\ Carries(Tail(q), t, c, b)
<1>1. PICK at \in [0..Len(q) -> Nat] : Places(q, t, at) /\ at[0] = a /\ at[Len(q)] = b
  BY DEF Carries
<1>2. PICK n \in Nat : n + 1 = Len(q)
  BY TailIs
<1>. DEFINE w == Tail(q)
            less == [i \in 0..n |-> at[i + 1]]
<1>3. /\ Head(q) \in Messages /\ Head(q) = q[1] /\ w \in Seq(Messages) /\ Len(w) = n
      /\ \A i \in 1..n : w[i] = q[i + 1]
  BY <1>2, TailIs
<1>4. less \in [0..n -> Nat] /\ \A i \in 0..n : less[i] = at[i + 1]
  BY <1>1, <1>2
<1>. HIDE DEF w, less
<1>5. \A i, j \in 0..n : i <= j => less[i] <= less[j]
  <2>. SUFFICES ASSUME NEW i \in 0..n, NEW j \in 0..n, i <= j
                PROVE  less[i] <= less[j]
    OBVIOUS
  <2>1. i + 1 \in 0..(n + 1) /\ j + 1 \in 0..(n + 1) /\ i + 1 <= j + 1
    OBVIOUS
  <2>2. at[i + 1] <= at[j + 1]
    BY <2>1, <1>1, <1>2 DEF Places
  <2>. QED
    BY <2>2, <1>4
<1>6. \A i \in 1..n : Moves(w[i], t, less[i - 1], less[i])
  <2>. SUFFICES ASSUME NEW i \in 1..n
                PROVE  Moves(w[i], t, less[i - 1], less[i])
    OBVIOUS
  <2>1. i + 1 \in 1..(n + 1) /\ i \in 0..n /\ i - 1 \in 0..n /\ (i + 1) - 1 = i
    OBVIOUS
  <2>2. Moves(q[i + 1], t, at[(i + 1) - 1], at[i + 1])
    BY <2>1, <1>1, <1>2 DEF Places
  <2>3. less[i] = at[i + 1] /\ less[i - 1] = at[i]
    BY <2>1, <1>4
  <2>. QED
    BY <2>1, <2>2, <2>3, <1>3
<1>7. Places(w, t, less)
  BY <1>3, <1>4, <1>5, <1>6 DEF Places
<1>8. less[0] \in Nat /\ Carries(w, t, less[0], b)
  <2>1. less[0] \in Nat /\ less[n] = b
    BY <1>1, <1>2, <1>4
  <2>. QED
    BY <2>1, <1>3, <1>4, <1>7 DEF Carries
<1>9. Moves(Head(q), t, a, less[0]) /\ a <= less[0]
  <2>1. less[0] = at[1] /\ 1 \in 1..(n + 1) /\ 0 \in 0..(n + 1)
    BY <1>4
  <2>2. Moves(q[1], t, at[1 - 1], at[1])
    BY <2>1, <1>1, <1>2 DEF Places
  <2>3. at[0] <= at[1]
    BY <2>1, <1>1, <1>2 DEF Places
  <2>. QED
    BY <2>1, <2>2, <2>3, <1>1, <1>3
<1>. QED
  BY <1>3, <1>8, <1>9 DEF w

-----------------------------------------------------------------------------
(* Texts. *)

LEMMA TextIs ==
  ASSUME NEW n \in Nat
  PROVE  /\ Text(n) \in Seq(Nat) /\ Len(Text(n)) = n
         /\ \A i \in 1..n : Text(n)[i] = i
<1>1. Text(n) \in [1..n -> Nat]
  BY DEF Text
<1>. QED
  BY <1>1 DEF Text

LEMMA TextGrows ==
  ASSUME NEW n \in Nat
  PROVE  Text(n) \o <<n + 1>> = Text(n + 1)
<1>. DEFINE w == Text(n) \o <<n + 1>>
<1>1. Text(n) \in Seq(Nat) /\ Len(Text(n)) = n /\ <<n + 1>> \in Seq(Nat) /\ Len(<<n + 1>>) = 1
  BY TextIs
<1>2. w \in Seq(Nat) /\ Len(w) = n + 1
  BY <1>1, ConcatProperties
<1>3. \A i \in 1..(n + 1) : w[i] = i
  BY <1>1, ConcatProperties, TextIs
<1>4. w = [i \in 1..(n + 1) |-> w[i]]
  BY <1>2
<1>. HIDE DEF w
<1>5. w = Text(n + 1)
  BY <1>3, <1>4 DEF Text
<1>. QED
  BY <1>5 DEF w

LEMMA ConcatThree ==
  ASSUME NEW a \in Seq(Nat), NEW b \in Seq(Nat), NEW d \in Seq(Nat)
  PROVE  (a \o b) \o d = a \o (b \o d)
<1>. DEFINE S == Nat
<1>. HIDE DEF S
<1>1. a \in Seq(S) /\ b \in Seq(S) /\ d \in Seq(S)
  BY DEF S
<1>. QED
  BY <1>1, ConcatAssociative

LEMMA TextPrefix ==
  ASSUME NEW a \in Nat, NEW b \in Nat, a <= b
  PROVE  IsPrefix(Text(a), Text(b))
BY TextIs DEF IsPrefix

LEMMA PrefixIs ==
  ASSUME NEW a \in Seq(Nat), NEW b \in Seq(Nat)
  PROVE  a \o b \in Seq(Nat) /\ IsPrefix(a, a \o b)
BY ConcatProperties DEF IsPrefix

-----------------------------------------------------------------------------
(* The invariant.  While a thread is not read it is not less, so nothing but   *)
(* notifications and the answers of turn.start is under way.                   *)

TurnViews == [status : {"none", "inProgress", "ended"}, text : Seq(Nat)]

LineTypes ==
  /\ asks = 0 /\ open /\ held = <<>>
  /\ jobs \in Seq(Starting)
  /\ stdout \in Seq(Messages) /\ ws \in Seq(Messages)
  /\ written \in [Turns -> Nat]
  /\ view \in [Turns -> TurnViews] /\ deltas \in [Turns -> Seq(Nat)]

\* The page has the first n chunks of the item of t, shown or kept for a frame.
Has(t, n) == view[t].text \o deltas[t] = Text(n)

\* What the page has is carried on by the socket and the pipe to what codex wrote.
Line(t) ==
  \E n, m \in Nat : Has(t, n) /\ Carries(ws, t, n, m) /\ Carries(stdout, t, m, written[t])

LineInv ==
  /\ reads \in Nat /\ leaves \in Nat
  /\ Followed => LineTypes /\ \A t \in Turns : Line(t)

LEMMA InitLine == Init => LineInv
<1>. SUFFICES ASSUME Init
              PROVE  LineInv
  OBVIOUS
<1>1. reads \in Nat /\ leaves \in Nat /\ (Followed => asks = 0)
  BY BoundsAssumption DEF Init, Followed
<1>2. Followed => LineTypes
  BY <1>1 DEF Init, LineTypes, TurnViews, NoTurn
<1>3. ASSUME NEW t \in Turns
      PROVE  Line(t)
  <2>1. view[t].text = <<>> /\ deltas[t] = <<>> /\ <<>> \in Seq(Nat) /\ written[t] = 0
    BY DEF Init, NoTurn
  <2>2. Text(0) = <<>>
    BY TextIs
  <2>3. Has(t, 0)
    BY <2>1, <2>2, ConcatEmptySeq DEF Has
  <2>4. Carries(ws, t, 0, 0) /\ Carries(stdout, t, 0, written[t])
    BY <2>1, CarriesNothing DEF Init
  <2>. QED
    BY <2>3, <2>4 DEF Line
<1>. QED
  BY <1>1, <1>2, <1>3 DEF LineInv

-----------------------------------------------------------------------------
(* Steps. *)

\* What a step does that keeps to the line.
Goes ==
  /\ LineTypes'
  /\ \A t \in Turns : Line(t)' /\ IsPrefix(view[t].text, view'[t].text)

LEMMA ViewPrefix ==
  ASSUME LineTypes, NEW t \in Turns
  PROVE  /\ view[t].text \in Seq(Nat) /\ deltas[t] \in Seq(Nat)
         /\ IsPrefix(view[t].text, view[t].text)
<1>1. view[t].text \in Seq(Nat) /\ deltas[t] \in Seq(Nat)
  BY DEF LineTypes, TurnViews
<1>. QED
  BY <1>1 DEF IsPrefix

\* Codex writes lines that carry on from what it had written.
LEMMA CodexGoes ==
  ASSUME LineTypes, NEW t \in Turns, Followed, Line(t),
         UNCHANGED <<asks, open, held, jobs, ws, view, deltas>>,
         written' \in [Turns -> Nat], stdout' \in Seq(Messages),
         \A m : Carries(stdout, t, m, written[t]) => Carries(stdout', t, m, written'[t])
  PROVE  LineTypes' /\ Line(t)' /\ IsPrefix(view[t].text, view'[t].text)
<1>1. LineTypes'
  BY DEF LineTypes
<1>2. PICK n \in Nat, m \in Nat :
        Has(t, n) /\ Carries(ws, t, n, m) /\ Carries(stdout, t, m, written[t])
  BY DEF Line
<1>3. Has(t, n)' /\ Carries(ws', t, n, m) /\ Carries(stdout', t, m, written'[t])
  BY <1>2 DEF Has
<1>4. Line(t)'
  BY <1>3 DEF Line
<1>. QED
  BY <1>1, <1>4, ViewPrefix

\* A line that moves no text.
LEMMA CarriesOther ==
  ASSUME NEW q \in Seq(Messages), NEW x \in Turning \cup Starting, NEW t, NEW a, NEW b,
         Carries(q, t, a, b)
  PROVE  Append(q, x) \in Seq(Messages) /\ Carries(Append(q, x), t, a, b)
<1>1. x \in Messages /\ Moves(x, t, b, b) /\ b \in Nat
  BY CarriesUp DEF Messages, Turning, Starting, Moves
<1>. QED
  BY <1>1, CarriesAppend

LEMMA StartsGoes ==
  ASSUME LineTypes, \A t \in Turns : Line(t), Followed, NEW u \in Turns, CodexStarts(u)
  PROVE  Goes
<1>. DEFINE started == TurnStarted(u)
            turned == TurnUpdated(u, "inProgress")
<1>1. started \in Turning \cup Starting /\ turned \in Turning \cup Starting
  BY DEF TurnStarted, TurnUpdated, Turning, Starting
<1>2. UNCHANGED <<asks, open, held, jobs, ws, view, deltas, written>>
  BY DEF CodexStarts, pageVars
<1>3. \/ stdout' = Append(Append(stdout, started), turned)
      \/ stdout' = Append(Append(stdout, turned), started)
      \/ stdout' = Append(stdout, turned)
  BY DEF CodexStarts
<1>. HIDE DEF started, turned
<1>4. stdout \in Seq(Messages) /\ written' \in [Turns -> Nat]
  BY <1>2 DEF LineTypes
<1>5. stdout' \in Seq(Messages)
  <2>1. started \in Messages /\ turned \in Messages
    BY <1>1 DEF Messages
  <2>2. Append(stdout, started) \in Seq(Messages) /\ Append(stdout, turned) \in Seq(Messages)
    BY <2>1, <1>4
  <2>3. /\ Append(Append(stdout, started), turned) \in Seq(Messages)
        /\ Append(Append(stdout, turned), started) \in Seq(Messages)
    BY <2>1, <2>2
  <2>. QED
    BY <2>2, <2>3, <1>3
<1>6. ASSUME NEW t \in Turns
      PROVE  LineTypes' /\ Line(t)' /\ IsPrefix(view[t].text, view'[t].text)
  <2>1. ASSUME NEW m, Carries(stdout, t, m, written[t])
        PROVE  Carries(stdout', t, m, written'[t])
    <3>1. /\ Append(stdout, started) \in Seq(Messages)
          /\ Append(stdout, turned) \in Seq(Messages)
          /\ Carries(Append(stdout, started), t, m, written[t])
          /\ Carries(Append(stdout, turned), t, m, written[t])
      BY <1>1, <1>4, <2>1, CarriesOther
    <3>2. /\ Carries(Append(Append(stdout, started), turned), t, m, written[t])
          /\ Carries(Append(Append(stdout, turned), started), t, m, written[t])
      BY <1>1, <3>1, CarriesOther
    <3>. QED
      BY <1>2, <1>3, <3>1, <3>2
  <2>. QED
    BY <1>2, <1>4, <1>5, <2>1, CodexGoes
<1>. QED
  BY <1>4, <1>6 DEF Goes

LEMMA WritesGoes ==
  ASSUME LineTypes, \A t \in Turns : Line(t), Followed, NEW u \in Turns, CodexWrites(u)
  PROVE  Goes
<1>. DEFINE first == TimelineItem(u, <<>>)
            delta == TimelineDelta(u, written[u] + 1)
<1>1. written[u] \in Nat /\ written \in [Turns -> Nat] /\ stdout \in Seq(Messages)
  BY DEF LineTypes
<1>2. /\ first \in Messages /\ first.kind = "item" /\ first.turn = u /\ first.text = <<>>
      /\ delta \in Messages /\ delta.kind = "delta" /\ delta.turn = u
      /\ delta.text = <<written[u] + 1>>
  BY <1>1 DEF TimelineItem, TimelineDelta, Messages, Growing
<1>3. UNCHANGED <<asks, open, held, jobs, ws, view, deltas>>
  BY DEF CodexWrites, pageVars
<1>4. /\ written' = [written EXCEPT ![u] = @ + 1]
      /\ stdout' = Append(IF written[u] = 0 THEN Append(stdout, first) ELSE stdout, delta)
  BY DEF CodexWrites
<1>. HIDE DEF first, delta
<1>5. written' \in [Turns -> Nat] /\ \A t \in Turns : written'[t] = IF t = u THEN written[t] + 1
                                                               ELSE written[t]
  BY <1>1, <1>4
<1>6. stdout' \in Seq(Messages)
  BY <1>1, <1>2, <1>4
<1>7. ASSUME NEW t \in Turns
      PROVE  LineTypes' /\ Line(t)' /\ IsPrefix(view[t].text, view'[t].text)
  <2>1. ASSUME NEW m, Carries(stdout, t, m, written[t])
        PROVE  Carries(stdout', t, m, written'[t])
    <3>. DEFINE q == IF written[u] = 0 THEN Append(stdout, first) ELSE stdout
    <3>1. written[u] = 0 => Moves(first, t, written[t], written[t])
      <4>1. Text(0) = <<>>
        BY TextIs
      <4>. QED
        BY <4>1, <1>2 DEF Moves
    <3>2. q \in Seq(Messages) /\ Carries(q, t, m, written[t])
      BY <1>1, <1>2, <2>1, <3>1, CarriesAppend
    <3>3. Moves(delta, t, written[t], written'[t]) /\ written[t] <= written'[t]
      BY <1>1, <1>2, <1>5 DEF Moves
    <3>4. written'[t] \in Nat /\ stdout' = Append(q, delta)
      BY <1>4, <1>5
    <3>. HIDE DEF q
    <3>. QED
      BY <1>2, <3>2, <3>3, <3>4, CarriesAppend
  <2>. QED
    BY <1>3, <1>5, <1>6, <2>1, CodexGoes
<1>. QED
  BY <1>7 DEF Goes

LEMMA FinishesGoes ==
  ASSUME LineTypes, \A t \in Turns : Line(t), Followed, NEW u \in Turns, CodexFinishesItem(u)
  PROVE  Goes
<1>. DEFINE item == TimelineItem(u, Text(written[u]))
<1>1. written[u] \in Nat /\ written \in [Turns -> Nat] /\ stdout \in Seq(Messages)
  BY DEF LineTypes
<1>2. Text(written[u]) \in Seq(Nat)
  BY <1>1, TextIs
<1>3. item \in Messages /\ item.kind = "item" /\ item.turn = u /\ item.text = Text(written[u])
  BY <1>2 DEF TimelineItem, Messages, Growing
<1>4. UNCHANGED <<asks, open, held, jobs, ws, view, deltas, written>>
  BY DEF CodexFinishesItem, pageVars
<1>5. stdout' = Append(stdout, item)
  BY DEF CodexFinishesItem
<1>. HIDE DEF item
<1>6. stdout' \in Seq(Messages) /\ written' \in [Turns -> Nat]
  BY <1>1, <1>3, <1>4, <1>5
<1>7. ASSUME NEW t \in Turns
      PROVE  LineTypes' /\ Line(t)' /\ IsPrefix(view[t].text, view'[t].text)
  <2>1. Moves(item, t, written[t], written[t]) /\ written[t] \in Nat
    BY <1>1, <1>3 DEF Moves
  <2>2. ASSUME NEW m, Carries(stdout, t, m, written[t])
        PROVE  Carries(stdout', t, m, written'[t])
    BY <1>1, <1>3, <1>4, <1>5, <2>1, <2>2, CarriesAppend
  <2>. QED
    BY <1>4, <1>6, <2>2, CodexGoes
<1>. QED
  BY <1>7 DEF Goes

LEMMA EndsGoes ==
  ASSUME LineTypes, \A t \in Turns : Line(t), Followed, NEW u \in Turns, CodexEnds(u)
  PROVE  Goes
<1>. DEFINE turned == TurnUpdated(u, "ended")
<1>1. turned \in Turning
  BY DEF TurnUpdated, Turning
<1>2. UNCHANGED <<asks, open, held, jobs, ws, view, deltas, written>> /\ stdout' = Append(stdout, turned)
  BY DEF CodexEnds, pageVars
<1>. HIDE DEF turned
<1>3. stdout \in Seq(Messages) /\ stdout' \in Seq(Messages) /\ written' \in [Turns -> Nat]
  BY <1>1, <1>2 DEF LineTypes, Messages
<1>4. ASSUME NEW t \in Turns
      PROVE  LineTypes' /\ Line(t)' /\ IsPrefix(view[t].text, view'[t].text)
  <2>1. ASSUME NEW m, Carries(stdout, t, m, written[t])
        PROVE  Carries(stdout', t, m, written'[t])
    BY <1>1, <1>2, <1>3, <2>1, CarriesOther
  <2>. QED
    BY <1>2, <1>3, <2>1, CodexGoes
<1>. QED
  BY <1>4 DEF Goes

LEMMA ReadsLineGoes ==
  ASSUME LineTypes, \A t \in Turns : Line(t), Followed, ServerReadsLine
  PROVE  Goes
<1>. DEFINE x == Head(stdout)
<1>1. stdout \in Seq(Messages) /\ stdout # <<>> /\ ws \in Seq(Messages) /\ jobs \in Seq(Starting)
  BY DEF LineTypes, ServerReadsLine
<1>2. x \in Messages /\ Tail(stdout) \in Seq(Messages)
  BY <1>1, TailIs
<1>3. /\ UNCHANGED <<asks, open, held, view, deltas, written>>
      /\ stdout' = Tail(stdout)
      /\ IF Notification(x) THEN ws' = Append(ws, x) /\ jobs' = jobs
                            ELSE jobs' = Append(jobs, x) /\ ws' = ws
  BY DEF ServerReadsLine, pageVars, codexVars
<1>4. /\ ~Notification(x) => x \in Starting
      /\ ~Notification(x) => x.kind \notin {"item", "delta"}
  BY <1>2 DEF Messages, Turning, Growing, Starting, Notification
<1>. HIDE DEF x
<1>5. LineTypes'
  <2>1. ws' \in Seq(Messages) /\ jobs' \in Seq(Starting)
    <3>1. CASE Notification(x)
      <4>1. ws' = Append(ws, x) /\ jobs' = jobs
        BY <3>1, <1>3
      <4>. QED
        BY <4>1, <1>1, <1>2, AppendIs
    <3>2. CASE ~Notification(x)
      <4>1. jobs' = Append(jobs, x) /\ ws' = ws
        BY <3>2, <1>3
      <4>. QED
        BY <3>2, <4>1, <1>1, <1>4, AppendIs
    <3>. QED
      BY <3>1, <3>2
  <2>. QED
    BY <1>2, <1>3, <2>1 DEF LineTypes
<1>6. ASSUME NEW t \in Turns
      PROVE  Line(t)'
  <2>1. PICK n \in Nat, m \in Nat :
          Has(t, n) /\ Carries(ws, t, n, m) /\ Carries(stdout, t, m, written[t])
    BY DEF Line
  <2>2. PICK c \in Nat : Moves(x, t, m, c) /\ m <= c /\ Carries(Tail(stdout), t, c, written[t])
    BY <1>1, <2>1, CarriesTail DEF x
  <2>3. Carries(ws', t, n, c)
    <3>1. CASE Notification(x)
      BY <3>1, <1>1, <1>2, <1>3, <2>1, <2>2, CarriesAppend
    <3>2. CASE ~Notification(x)
      BY <3>2, <1>3, <1>4, <2>1, <2>2 DEF Moves
    <3>. QED
      BY <3>1, <3>2
  <2>4. Has(t, n)' /\ Carries(stdout', t, c, written'[t])
    BY <1>3, <2>1, <2>2 DEF Has
  <2>. QED
    BY <2>3, <2>4 DEF Line
<1>. QED
  BY <1>3, <1>5, <1>6, ViewPrefix DEF Goes

LEMMA RespondsGoes ==
  ASSUME LineTypes, \A t \in Turns : Line(t), Followed, ServerResponds
  PROVE  Goes
<1>. DEFINE x == Head(jobs)
<1>1. ws \in Seq(Messages) /\ jobs \in Seq(Starting) /\ jobs # <<>>
  BY DEF LineTypes, ServerResponds
<1>2. x \in Starting /\ Tail(jobs) \in Seq(Starting)
  BY <1>1, TailIs
<1>3. /\ UNCHANGED <<asks, open, held, view, deltas, written, stdout>>
      /\ jobs' = Tail(jobs) /\ ws' = Append(ws, x)
  BY <1>2 DEF ServerResponds, pageVars, codexVars, Starting
<1>. HIDE DEF x
<1>4. LineTypes'
  BY <1>1, <1>2, <1>3 DEF LineTypes, Messages
<1>5. ASSUME NEW t \in Turns
      PROVE  Line(t)'
  <2>1. PICK n \in Nat, m \in Nat :
          Has(t, n) /\ Carries(ws, t, n, m) /\ Carries(stdout, t, m, written[t])
    BY DEF Line
  <2>2. Carries(ws', t, n, m)
    BY <1>1, <1>2, <1>3, <2>1, CarriesOther
  <2>3. Has(t, n)' /\ Carries(stdout', t, m, written'[t])
    BY <1>3, <2>1 DEF Has
  <2>. QED
    BY <2>2, <2>3 DEF Line
<1>. QED
  BY <1>3, <1>4, <1>5, ViewPrefix DEF Goes

\* flush() shows what is kept and leaves nothing.
LEMMA FlushedIs ==
  ASSUME LineTypes
  PROVE  /\ Flushed \in [Turns -> TurnViews]
         /\ \A t \in Turns : Flushed[t].text = view[t].text \o deltas[t]
<1>1. ASSUME NEW t \in Turns
      PROVE  /\ AppendDelta(view[t], deltas[t]) \in TurnViews
             /\ AppendDelta(view[t], deltas[t]).text = view[t].text \o deltas[t]
  <2>1. /\ view[t] \in TurnViews /\ view[t].text \in Seq(Nat) /\ deltas[t] \in Seq(Nat)
        /\ view[t].status \in {"none", "inProgress", "ended"}
    BY DEF LineTypes, TurnViews
  <2>2. view[t].text \o deltas[t] \in Seq(Nat) /\ view[t].text \o <<>> = view[t].text
    BY <2>1, ConcatProperties, ConcatEmptySeq
  <2>. QED
    BY <2>1, <2>2 DEF AppendDelta, Known, TurnViews
<1>. QED
  BY <1>1 DEF Flushed

\* Restore: a page that may not read asks for nothing.
LEMMA NothingIsAsked ==
  ASSUME reads \in Nat, asks = 0, Followed, Followed', Restore
  PROVE  asks' = 0
<1>. DEFINE more == IF asked' /\ ~asked THEN 1 ELSE 0
<1>1. more \in Nat /\ reads' = reads + more /\ asks' = asks + more
  BY DEF Restore
<1>. HIDE DEF more
<1>. QED
  BY <1>1 DEF Followed

LEMMA FrameGoes ==
  ASSUME LineTypes, \A t \in Turns : Line(t), reads \in Nat, Followed, Followed', Frame
  PROVE  Goes
<1>1. /\ asks' = 0 /\ UNCHANGED <<open, held, jobs, stdout, ws, written>>
      /\ view' = Flushed /\ deltas' = [t \in Turns |-> <<>>]
  BY NothingIsAsked DEF LineTypes, Frame, codexVars, serverVars
<1>2. LineTypes'
  BY <1>1, FlushedIs DEF LineTypes
<1>3. ASSUME NEW t \in Turns
      PROVE  Line(t)' /\ IsPrefix(view[t].text, view'[t].text)
  <2>1. PICK n \in Nat, m \in Nat :
          Has(t, n) /\ Carries(ws, t, n, m) /\ Carries(stdout, t, m, written[t])
    BY DEF Line
  <2>2. view'[t].text = view[t].text \o deltas[t] /\ deltas'[t] = <<>>
    BY <1>1, FlushedIs
  <2>3. view[t].text \in Seq(Nat) /\ deltas[t] \in Seq(Nat) /\ view'[t].text \in Seq(Nat)
    BY <2>2, ViewPrefix, PrefixIs
  <2>4. Has(t, n)' /\ Carries(ws', t, n, m) /\ Carries(stdout', t, m, written'[t])
    BY <1>1, <2>1, <2>2, <2>3, ConcatEmptySeq DEF Has
  <2>. QED
    BY <2>2, <2>3, <2>4, PrefixIs DEF Line
<1>. QED
  BY <1>2, <1>3 DEF Goes

\* A message that comes to the page moves what the page has, and shows no less.
LEMMA Arrives ==
  ASSUME LineTypes, NEW x \in Messages,
         \/ x.kind = "delta" /\ DispatchDelta(x)
         \/ x.kind \in {"turn", "item"} /\ Dispatch(x)
         \/ x.kind = "started" /\ Respond(x)
  PROVE  /\ view' \in [Turns -> TurnViews] /\ deltas' \in [Turns -> Seq(Nat)]
         /\ \A t \in Turns : \A n, c \in Nat :
              Has(t, n) /\ Moves(x, t, n, c) =>
                Has(t, c)' /\ IsPrefix(view[t].text, view'[t].text)
<1>1. view \in [Turns -> TurnViews] /\ deltas \in [Turns -> Seq(Nat)]
  BY DEF LineTypes
<1>2. CASE x.kind = "delta"
  <2>1. /\ x.turn \in Turns /\ x.text \in Seq(Nat) /\ view' = view
        /\ deltas' = [deltas EXCEPT ![x.turn] = @ \o x.text]
    BY <1>2 DEF Messages, Turning, Growing, Starting, DispatchDelta
  <2>2. deltas[x.turn] \o x.text \in Seq(Nat)
    BY <1>1, <2>1, ConcatProperties
  <2>3. deltas' \in [Turns -> Seq(Nat)]
    BY <1>1, <2>1, <2>2
  <2>4. ASSUME NEW t \in Turns, NEW n \in Nat, NEW c \in Nat, Has(t, n), Moves(x, t, n, c)
        PROVE  Has(t, c)'
    <3>1. CASE t = x.turn
      <4>1. c = n + 1 /\ x.text = <<n + 1>>
        BY <1>2, <2>4, <3>1 DEF Moves
      <4>2. view[t].text \in Seq(Nat) /\ deltas[t] \in Seq(Nat) /\ <<n + 1>> \in Seq(Nat)
        BY ViewPrefix
      <4>3. view[t].text \o (deltas[t] \o <<n + 1>>) = Text(n) \o <<n + 1>>
        <5>1. (view[t].text \o deltas[t]) \o <<n + 1>> = view[t].text \o (deltas[t] \o <<n + 1>>)
          BY <4>2, ConcatThree
        <5>. QED
          BY <2>4, <5>1 DEF Has
      <4>4. deltas'[t] = deltas[t] \o <<n + 1>>
        BY <1>1, <2>1, <3>1, <4>1
      <4>. QED
        BY <2>1, <4>1, <4>3, <4>4, TextGrows DEF Has
    <3>2. CASE t # x.turn
      <4>1. c = n
        BY <2>4, <3>2 DEF Moves
      <4>2. deltas'[t] = deltas[t]
        BY <1>1, <2>1, <3>2
      <4>. QED
        BY <2>1, <2>4, <4>1, <4>2 DEF Has
    <3>. QED
      BY <3>1, <3>2
  <2>. QED
    BY <1>1, <2>1, <2>3, <2>4, ViewPrefix
<1>3. CASE x.kind \in {"turn", "item"}
  <2>1. /\ x.turn \in Turns /\ deltas' = [t \in Turns |-> <<>>]
        /\ x.kind = "item" => x.text \in Seq(Nat)
        /\ x.kind = "turn" => x.status \in {"inProgress", "ended"}
        /\ view' = IF x.kind = "turn"
                   THEN [Flushed EXCEPT ![x.turn] = ApplyTurn(@, x.status)]
                   ELSE [Flushed EXCEPT ![x.turn] = ApplyTimelineItem(@, x.text)]
    BY <1>3 DEF Messages, Turning, Growing, Starting, Dispatch
  <2>2. /\ Flushed \in [Turns -> TurnViews]
        /\ \A t \in Turns : Flushed[t].text = view[t].text \o deltas[t]
    BY FlushedIs
  <2>3. PICK f \in [Turns -> TurnViews] : f = Flushed
    BY <2>2
  <2>4. /\ x.kind = "turn" => /\ ApplyTurn(f[x.turn], x.status) \in TurnViews
                              /\ ApplyTurn(f[x.turn], x.status).text = f[x.turn].text
        /\ x.kind = "item" => /\ ApplyTimelineItem(f[x.turn], x.text) \in TurnViews
                              /\ ApplyTimelineItem(f[x.turn], x.text).text = x.text
    <3>1. f[x.turn] \in TurnViews
      BY <2>1, <2>3
    <3>. QED
      BY <2>1, <3>1 DEF ApplyTurn, ApplyTimelineItem, Known, TurnViews
  <2>5. /\ view' \in [Turns -> TurnViews]
        /\ \A t \in Turns : view'[t].text = IF x.kind = "item" /\ t = x.turn THEN x.text
                                            ELSE f[t].text
    BY <1>3, <2>1, <2>3, <2>4
  <2>6. deltas' \in [Turns -> Seq(Nat)] /\ \A t \in Turns : deltas'[t] = <<>>
    BY <2>1
  <2>7. ASSUME NEW t \in Turns, NEW n \in Nat, NEW c \in Nat, Has(t, n), Moves(x, t, n, c)
        PROVE  Has(t, c)' /\ IsPrefix(view[t].text, view'[t].text)
    <3>1. c = n /\ (x.kind = "item" /\ x.turn = t => x.text = Text(n))
      BY <1>3, <2>7 DEF Moves
    <3>2. f[t].text = Text(n)
      BY <2>2, <2>3, <2>7 DEF Has
    <3>3. view'[t].text = view[t].text \o deltas[t] /\ view'[t].text = Text(n)
      BY <2>2, <2>3, <2>5, <3>1, <3>2
    <3>4. Text(n) \o <<>> = Text(n)
      BY TextIs, ConcatEmptySeq
    <3>. QED
      BY <2>6, <3>1, <3>3, <3>4, ViewPrefix, PrefixIs DEF Has
  <2>. QED
    BY <2>5, <2>6, <2>7
<1>4. CASE x.kind = "started"
  <2>1. /\ x.turn \in Turns /\ deltas' = deltas
        /\ view' = [view EXCEPT ![x.turn] = ApplyTurn(@, "inProgress")]
    BY <1>4 DEF Messages, Turning, Growing, Starting, Respond
  <2>2. /\ ApplyTurn(view[x.turn], "inProgress") \in TurnViews
        /\ ApplyTurn(view[x.turn], "inProgress").text = view[x.turn].text
    <3>1. view[x.turn] \in TurnViews
      BY <1>1, <2>1
    <3>. QED
      BY <3>1 DEF ApplyTurn, TurnViews
  <2>3. view' \in [Turns -> TurnViews] /\ \A t \in Turns : view'[t].text = view[t].text
    BY <1>1, <2>1, <2>2
  <2>4. ASSUME NEW t \in Turns, NEW n \in Nat, NEW c \in Nat, Has(t, n), Moves(x, t, n, c)
        PROVE  Has(t, c)'
    <3>1. c = n
      BY <1>4, <2>4 DEF Moves
    <3>. QED
      BY <2>1, <2>3, <2>4, <3>1 DEF Has
  <2>. QED
    BY <1>1, <2>1, <2>3, <2>4, ViewPrefix
<1>. QED
  BY <1>2, <1>3, <1>4

LEMMA ReceivesGoes ==
  ASSUME LineTypes, \A t \in Turns : Line(t), reads \in Nat, Followed, Followed', PageReceives
  PROVE  Goes
<1>. DEFINE x == Head(ws)
<1>1. ws \in Seq(Messages) /\ ws # <<>>
  BY DEF LineTypes, PageReceives
<1>2. x \in Messages /\ Tail(ws) \in Seq(Messages)
  BY <1>1, TailIs
<1>3. /\ UNCHANGED <<open, held, jobs, stdout, written>> /\ ws' = Tail(ws) /\ Restore
      /\ \/ x.kind = "delta" /\ DispatchDelta(x)
         \/ x.kind \in {"turn", "item"} /\ Dispatch(x)
         \/ x.kind = "started" /\ Respond(x)
  BY <1>2 DEF PageReceives, serverVars, codexVars, Messages, Turning, Growing, Starting
<1>4. asks' = 0
  BY <1>3, NothingIsAsked DEF LineTypes
<1>. HIDE DEF x
<1>5. /\ view' \in [Turns -> TurnViews] /\ deltas' \in [Turns -> Seq(Nat)]
      /\ \A t \in Turns : \A n, c \in Nat :
           Has(t, n) /\ Moves(x, t, n, c) =>
             Has(t, c)' /\ IsPrefix(view[t].text, view'[t].text)
  BY <1>2, <1>3, Arrives
<1>6. LineTypes'
  BY <1>2, <1>3, <1>4, <1>5 DEF LineTypes
<1>7. ASSUME NEW t \in Turns
      PROVE  Line(t)' /\ IsPrefix(view[t].text, view'[t].text)
  <2>1. PICK n \in Nat, m \in Nat :
          Has(t, n) /\ Carries(ws, t, n, m) /\ Carries(stdout, t, m, written[t])
    BY DEF Line
  <2>2. PICK c \in Nat : Moves(x, t, n, c) /\ Carries(Tail(ws), t, c, m)
    BY <1>1, <2>1, CarriesTail DEF x
  <2>3. Has(t, c)' /\ IsPrefix(view[t].text, view'[t].text)
    BY <1>5, <2>1, <2>2
  <2>4. Carries(ws', t, c, m) /\ Carries(stdout', t, m, written'[t])
    BY <1>3, <2>1, <2>2
  <2>. QED
    BY <2>3, <2>4 DEF Line
<1>. QED
  BY <1>6, <1>7 DEF Goes

\* A page that has followed the thread to now had followed it before.
LEMMA FollowedBefore ==
  ASSUME LineInv, [Next]_vars
  PROVE  reads' \in Nat /\ leaves' \in Nat /\ (Followed' => Followed)
<1>. USE DEF LineInv
<1>1. (reads' = reads /\ leaves' = leaves) \/ Leave \/ Sweep \/ Reopen \/ PageReceives \/ Frame
  BY DEF Next, vars, codexVars, serverVars, pageVars, CodexStarts, CodexWrites,
         CodexFinishesItem, CodexEnds, CodexReads, ServerReadsLine, ServerResponds,
         ServerHydrates, SendPrompt
<1>2. ASSUME Restore
      PROVE  reads' \in Nat /\ reads <= reads'
  <2>. DEFINE more == IF asked' /\ ~asked THEN 1 ELSE 0
  <2>1. more \in Nat /\ reads' = reads + more
    BY <1>2 DEF Restore
  <2>. HIDE DEF more
  <2>. QED
    BY <2>1
<1>3. ASSUME Leave \/ Sweep \/ PageReceives \/ Frame
      PROVE  Restore /\ (leaves' = leaves \/ leaves' = leaves + 1)
  BY <1>3 DEF Leave, Sweep, PageReceives, Frame
<1>4. ASSUME Reopen
      PROVE  reads' \in Nat /\ reads <= reads' /\ leaves' = leaves
  <2>. DEFINE more == IF Empty(view) THEN 2 ELSE 0
  <2>1. more \in Nat /\ reads' = reads + more /\ leaves' = leaves
    BY <1>4 DEF Reopen
  <2>. HIDE DEF more
  <2>. QED
    BY <2>1
<1>5. reads' \in Nat /\ reads <= reads' /\ (leaves' = leaves \/ leaves' = leaves + 1)
  BY <1>1, <1>2, <1>3, <1>4
<1>. QED
  BY <1>5 DEF Followed

LEMMA NextGoes ==
  ASSUME LineInv, [Next]_vars, Followed'
  PROVE  Goes
<1>1. /\ Followed /\ LineTypes /\ reads \in Nat
      /\ \A t \in Turns : Line(t)
  BY FollowedBefore DEF LineInv
<1>2. ASSUME UNCHANGED <<asks, open, held, jobs, stdout, ws, written, view, deltas>>
      PROVE  Goes
  <2>1. LineTypes' /\ \A t \in Turns : Line(t)'
    BY <1>1, <1>2 DEF LineTypes, Line, Has
  <2>. QED
    BY <2>1, <1>1, <1>2, ViewPrefix DEF Goes
<1>3. CASE \E t \in Turns :
             CodexStarts(t) \/ CodexWrites(t) \/ CodexFinishesItem(t) \/ CodexEnds(t)
  BY <1>1, <1>3, StartsGoes, WritesGoes, FinishesGoes, EndsGoes
<1>4. ~CodexReads /\ ~ServerHydrates /\ ~Sweep /\ ~Reopen
  BY <1>1 DEF LineTypes, CodexReads, ServerHydrates, Sweep, Reopen
<1>5. ~Leave
  BY <1>1 DEF LineInv, Leave, Followed
<1>6. CASE ServerReadsLine \/ ServerResponds
  BY <1>1, <1>6, ReadsLineGoes, RespondsGoes
<1>7. CASE PageReceives \/ Frame
  BY <1>1, <1>7, ReceivesGoes, FrameGoes
<1>8. CASE SendPrompt \/ UNCHANGED vars
  <2>1. UNCHANGED <<asks, open, held, jobs, stdout, ws, written, view, deltas>>
    BY <1>8 DEF SendPrompt, vars, codexVars, serverVars, pageVars
  <2>. QED
    BY <1>2, <2>1
<1>. QED
  BY <1>3, <1>4, <1>5, <1>6, <1>7, <1>8 DEF Next

LEMMA LineImpliesPrefix == LineInv => TextIsPrefix
<1>. SUFFICES ASSUME LineInv, Followed, NEW t \in Turns
              PROVE  IsPrefix(view[t].text \o deltas[t], Text(written[t]))
  BY DEF TextIsPrefix
<1>1. PICK n \in Nat, m \in Nat :
        Has(t, n) /\ Carries(ws, t, n, m) /\ Carries(stdout, t, m, written[t])
  BY DEF LineInv, Line
<1>2. ws \in Seq(Messages) /\ stdout \in Seq(Messages)
  BY DEF LineInv, LineTypes
<1>3. written[t] \in Nat /\ n <= m /\ m <= written[t]
  BY <1>1, <1>2, CarriesUp
<1>. QED
  BY <1>1, <1>3, TextPrefix DEF Has

LEMMA SpecLine == Spec => []LineInv
<1>1. LineInv /\ [Next]_vars => LineInv'
  BY FollowedBefore, NextGoes DEF LineInv, Goes
<1>. QED
  BY InitLine, <1>1, PTL DEF Spec

-----------------------------------------------------------------------------

\* What a page that has followed its thread has of an item is a prefix of what
\* codex wrote of it: no chunk is doubled, lost or misplaced on the way
\* (event-router.ts:258, workbench-store.ts:30).
THEOREM TextIsAlwaysPrefix == Spec => []TextIsPrefix
BY SpecLine, LineImpliesPrefix, PTL

\* And what it shows of it never gets shorter, nor is it replaced by other text.
THEOREM StreamAlwaysGrows == Spec => StreamGrows
<1>1. LineInv /\ [Next]_vars =>
        [Followed' => \A t \in Turns : IsPrefix(view[t].text, view'[t].text)]_vars
  BY NextGoes DEF Goes
<1>. QED
  BY SpecLine, <1>1, PTL DEF Spec, StreamGrows

-----------------------------------------------------------------------------
(* An active thread is not less blank.  A view can be blank although codex     *)
(* runs turns: an answer of thread.read may be older than what the page has.   *)
(* Then something that shows a turn is coming: a message, kept deltas, or one  *)
(* more read, which the effect asks for whenever a view becomes blank.         *)

\* With the answers of thread.read.
Sent == {x \in Messages \cup [kind : {"thread"}, view : [Turns -> TurnViews]] :
           x.kind = "delta" => x.text # <<>>}

Shows(x) == x.kind = "thread" => ~Empty(x.view)
SomeShows(q) == \E i \in DOMAIN q : Shows(q[i])
SomeKept == \E t \in Turns : deltas[t] # <<>>

SomeComing ==
  asks > 0 \/ SomeShows(stdout) \/ SomeShows(jobs) \/ SomeShows(held) \/ SomeShows(ws) \/ SomeKept

SentTypes ==
  /\ asks \in Nat
  /\ turn \in [Turns -> {"none", "inProgress", "ended"}] /\ written \in [Turns -> Nat]
  /\ stdout \in Seq(Sent) /\ jobs \in Seq(Sent) /\ held \in Seq(Sent) /\ ws \in Seq(Sent)
  /\ view \in [Turns -> TurnViews] /\ deltas \in [Turns -> Seq(Nat)]

AskedIs == asked = (open /\ Empty(view))

Started == \E t \in Turns : turn[t] # "none"

BlankInv ==
  /\ SentTypes /\ AskedIs
  /\ SomeKept => frame
  /\ open /\ Empty(view) /\ Started => SomeComing

LEMMA InitBlank == Init => BlankInv
<1>. SUFFICES ASSUME Init
              PROVE  BlankInv
  OBVIOUS
<1>1. asks \in Nat
  BY BoundsAssumption DEF Init
<1>2. SentTypes
  BY <1>1 DEF Init, SentTypes, TurnViews, NoTurn
<1>3. Empty(view) /\ open = TRUE /\ asked = TRUE /\ ~Started /\ ~SomeKept
  BY DEF Init, Empty, NoTurn, Started, SomeKept
<1>. QED
  BY <1>2, <1>3 DEF BlankInv, AskedIs

\* A queue that gets one more, or passes its first on.
LEMMA ShowsAppend ==
  ASSUME NEW q \in Seq(Sent), NEW x \in Sent
  PROVE  /\ Append(q, x) \in Seq(Sent)
         /\ SomeShows(Append(q, x)) <=> SomeShows(q) \/ Shows(x)
<1>1. /\ Append(q, x) \in Seq(Sent)
      /\ Len(q) \in Nat /\ DOMAIN q = 1..Len(q) /\ DOMAIN Append(q, x) = 1..(Len(q) + 1)
      /\ \A i \in DOMAIN q : i \in DOMAIN Append(q, x) /\ Append(q, x)[i] = q[i]
      /\ Append(q, x)[Len(q) + 1] = x
  BY AppendIs
<1>2. \A i \in DOMAIN Append(q, x) : i = Len(q) + 1 \/ i \in DOMAIN q
  BY <1>1
<1>3. Len(q) + 1 \in DOMAIN Append(q, x)
  BY <1>1
<1>. DEFINE w == Append(q, x)
            n == Len(q) + 1
<1>. HIDE DEF w, n
<1>4. SomeShows(w) <=> SomeShows(q) \/ Shows(x)
  BY <1>1, <1>2, <1>3 DEF SomeShows, w, n
<1>. QED
  BY <1>1, <1>4 DEF w

LEMMA ShowsTail ==
  ASSUME NEW q \in Seq(Sent), q # <<>>
  PROVE  /\ Head(q) \in Sent /\ Tail(q) \in Seq(Sent)
         /\ SomeShows(q) <=> Shows(Head(q)) \/ SomeShows(Tail(q))
<1>. DEFINE w == Tail(q)
            h == Head(q)
<1>1. /\ h \in Sent /\ h = q[1] /\ w \in Seq(Sent)
      /\ Len(q) \in Nat \ {0} /\ DOMAIN q = 1..Len(q) /\ DOMAIN w = 1..(Len(q) - 1)
      /\ \A i \in DOMAIN w : i + 1 \in DOMAIN q /\ w[i] = q[i + 1]
  BY TailIs
<1>. HIDE DEF w, h
<1>2. /\ 1 \in DOMAIN q
      /\ \A i \in DOMAIN q : i # 1 => i - 1 \in DOMAIN w /\ w[i - 1] = q[i]
  <2>1. 1 \in DOMAIN q
    BY <1>1
  <2>2. ASSUME NEW i \in DOMAIN q, i # 1
        PROVE  i - 1 \in DOMAIN w /\ w[i - 1] = q[i]
    <3>1. i - 1 \in DOMAIN w /\ (i - 1) + 1 = i
      BY <2>2, <1>1
    <3>. QED
      BY <3>1, <1>1
  <2>. QED
    BY <2>1, <2>2
<1>3. SomeShows(q) <=> Shows(h) \/ SomeShows(w)
  BY <1>1, <1>2 DEF SomeShows
<1>. QED
  BY <1>1, <1>3 DEF w, h

\* Codex's lines show its turn.
LEMMA CodexBlank ==
  ASSUME BlankInv, NEW t \in Turns,
         CodexStarts(t) \/ CodexWrites(t) \/ CodexFinishesItem(t) \/ CodexEnds(t)
  PROVE  BlankInv'
<1>. DEFINE started == TurnStarted(t)
            turned == TurnUpdated(t, "inProgress")
            ends == TurnUpdated(t, "ended")
            first == TimelineItem(t, <<>>)
            delta == TimelineDelta(t, written[t] + 1)
            item == TimelineItem(t, Text(written[t]))
<1>1. /\ written[t] \in Nat /\ Text(written[t]) \in Seq(Nat) /\ stdout \in Seq(Sent)
      /\ turn \in [Turns -> {"none", "inProgress", "ended"}] /\ written \in [Turns -> Nat]
  BY TextIs DEF BlankInv, SentTypes
<1>2. /\ started \in Sent /\ turned \in Sent /\ ends \in Sent
      /\ first \in Sent /\ item \in Sent
      /\ Shows(started) /\ Shows(turned) /\ Shows(ends) /\ Shows(first) /\ Shows(item)
  BY <1>1 DEF TurnStarted, TurnUpdated, TimelineItem, Sent, Messages, Turning, Growing, Starting,
       Shows
<1>3. delta \in Sent /\ Shows(delta)
  <2>1. <<written[t] + 1>> \in Seq(Nat) /\ <<written[t] + 1>> # <<>>
    BY <1>1
  <2>. QED
    BY <2>1 DEF TimelineDelta, Sent, Messages, Growing, Shows
<1>4. \/ stdout' = Append(Append(stdout, started), turned)
      \/ stdout' = Append(Append(stdout, turned), started)
      \/ stdout' = Append(stdout, turned)
      \/ stdout' = Append(stdout, delta)
      \/ stdout' = Append(Append(stdout, first), delta)
      \/ stdout' = Append(stdout, item)
      \/ stdout' = Append(stdout, ends)
  BY DEF CodexStarts, CodexWrites, CodexFinishesItem, CodexEnds
<1>5. turn' \in [Turns -> {"none", "inProgress", "ended"}] /\ written' \in [Turns -> Nat]
  <2>1. \/ turn' = turn
        \/ turn' = [turn EXCEPT ![t] = "inProgress"]
        \/ turn' = [turn EXCEPT ![t] = "ended"]
    BY DEF CodexStarts, CodexWrites, CodexFinishesItem, CodexEnds
  <2>2. written' = written \/ written' = [written EXCEPT ![t] = written[t] + 1]
    BY DEF CodexStarts, CodexWrites, CodexFinishesItem, CodexEnds
  <2>3. turn' \in [Turns -> {"none", "inProgress", "ended"}]
    BY <1>1, <2>1
  <2>4. written' \in [Turns -> Nat]
    <3>1. written[t] + 1 \in Nat /\ written \in [Turns -> Nat]
      BY <1>1
    <3>. QED
      BY <2>2, <3>1
  <2>. QED
    BY <2>3, <2>4
<1>6. UNCHANGED <<asks, jobs, held, ws, deltas, frame, view, open, asked>>
  BY DEF CodexStarts, CodexWrites, CodexFinishesItem, CodexEnds, pageVars
<1>. HIDE DEF started, turned, ends, first, delta, item
<1>7. stdout' \in Seq(Sent) /\ SomeShows(stdout')
  <2>1. /\ Append(stdout, started) \in Seq(Sent) /\ Append(stdout, turned) \in Seq(Sent)
        /\ Append(stdout, first) \in Seq(Sent)
    BY <1>1, <1>2, ShowsAppend
  <2>2. CASE stdout' = Append(Append(stdout, started), turned)
    BY <1>2, <2>1, <2>2, ShowsAppend
  <2>3. CASE stdout' = Append(Append(stdout, turned), started)
    BY <1>2, <2>1, <2>3, ShowsAppend
  <2>4. CASE stdout' = Append(stdout, turned)
    BY <1>1, <1>2, <2>4, ShowsAppend
  <2>5. CASE stdout' = Append(stdout, delta)
    BY <1>1, <1>3, <2>5, ShowsAppend
  <2>6. CASE stdout' = Append(Append(stdout, first), delta)
    BY <1>3, <2>1, <2>6, ShowsAppend
  <2>7. CASE stdout' = Append(stdout, item) \/ stdout' = Append(stdout, ends)
    BY <1>1, <1>2, <2>7, ShowsAppend
  <2>. QED
    BY <1>4, <2>2, <2>3, <2>4, <2>5, <2>6, <2>7
<1>8. SentTypes'
  BY <1>5, <1>6, <1>7 DEF BlankInv, SentTypes
<1>9. AskedIs' /\ (SomeKept' => frame') /\ SomeComing'
  BY <1>6, <1>7 DEF BlankInv, AskedIs, SomeKept, SomeComing
<1>. QED
  BY <1>8, <1>9 DEF BlankInv

\* A read of a thread that has turns shows them.
LEMMA ReadsBlank ==
  ASSUME BlankInv, CodexReads
  PROVE  BlankInv'
<1>1. PICK partial \in BOOLEAN :
        stdout' = Append(stdout, ThreadRead(
          [t \in Turns |-> [status |-> turn[t],
                            text |-> IF t \in finished \/ partial THEN Text(written[t]) ELSE <<>>]]))
  BY DEF CodexReads
<1>. DEFINE v == [t \in Turns |-> [status |-> turn[t],
                            text |-> IF t \in finished \/ partial THEN Text(written[t]) ELSE <<>>]]
            x == ThreadRead(v)
<1>2. /\ turn \in [Turns -> {"none", "inProgress", "ended"}] /\ written \in [Turns -> Nat]
      /\ stdout \in Seq(Sent)
  BY DEF BlankInv, SentTypes
<1>3. v \in [Turns -> TurnViews]
  <2>1. ASSUME NEW t \in Turns
        PROVE  [status |-> turn[t],
                text |-> IF t \in finished \/ partial THEN Text(written[t]) ELSE <<>>] \in TurnViews
    <3>1. Text(written[t]) \in Seq(Nat) /\ <<>> \in Seq(Nat)
      BY <1>2, TextIs
    <3>. QED
      BY <1>2, <3>1 DEF TurnViews
  <2>. QED
    BY <2>1
<1>4. \A t \in Turns : v[t].status = turn[t]
  OBVIOUS
<1>. HIDE DEF v
<1>5. x \in Sent /\ (Shows(x) <=> ~Empty(v))
  BY <1>3 DEF x, ThreadRead, Sent, Shows
<1>6. Started => Shows(x)
  BY <1>4, <1>5 DEF Started, Empty
<1>7. stdout' = Append(stdout, x) /\ asks' = asks - 1 /\ asks > 0
      /\ UNCHANGED <<turn, written, jobs, held, ws, deltas, frame, view, open, asked>>
  BY <1>1 DEF v, x, CodexReads, codexVars, pageVars
<1>. HIDE DEF x
<1>8. stdout' \in Seq(Sent) /\ (Started => SomeShows(stdout'))
  BY <1>2, <1>5, <1>6, <1>7, ShowsAppend
<1>9. asks \in Nat /\ asks' \in Nat
  BY <1>7 DEF BlankInv, SentTypes
<1>10. SentTypes'
  BY <1>7, <1>8, <1>9 DEF BlankInv, SentTypes
<1>11. AskedIs' /\ (SomeKept' => frame') /\ (Started' => SomeComing')
  BY <1>7, <1>8 DEF BlankInv, AskedIs, SomeKept, SomeComing, Started
<1>. QED
  BY <1>10, <1>11 DEF BlankInv

\* The server passes on what it has got.
LEMMA ServerBlank ==
  ASSUME BlankInv, ServerReadsLine \/ ServerResponds \/ ServerHydrates
  PROVE  BlankInv'
<1>1. /\ stdout \in Seq(Sent) /\ jobs \in Seq(Sent) /\ held \in Seq(Sent) /\ ws \in Seq(Sent)
  BY DEF BlankInv, SentTypes
<1>2. UNCHANGED <<asks, turn, written, deltas, frame, view, open, asked>>
  BY DEF ServerReadsLine, ServerResponds, ServerHydrates, codexVars, pageVars
<1>3. /\ stdout' \in Seq(Sent) /\ jobs' \in Seq(Sent) /\ held' \in Seq(Sent) /\ ws' \in Seq(Sent)
      /\ SomeShows(stdout) \/ SomeShows(jobs) \/ SomeShows(held) \/ SomeShows(ws)
         => SomeShows(stdout') \/ SomeShows(jobs') \/ SomeShows(held') \/ SomeShows(ws')
  <2>1. CASE ServerReadsLine
    <3>1. /\ stdout # <<>> /\ stdout' = Tail(stdout) /\ held' = held
          /\ \/ ws' = Append(ws, Head(stdout)) /\ jobs' = jobs
             \/ jobs' = Append(jobs, Head(stdout)) /\ ws' = ws
      BY <2>1 DEF ServerReadsLine
    <3>2. Head(stdout) \in Sent /\ Tail(stdout) \in Seq(Sent)
          /\ (SomeShows(stdout) <=> Shows(Head(stdout)) \/ SomeShows(Tail(stdout)))
      BY <1>1, <3>1, ShowsTail
    <3>. QED
      BY <1>1, <3>1, <3>2, ShowsAppend
  <2>2. CASE ServerResponds
    <3>1. /\ jobs # <<>> /\ jobs' = Tail(jobs) /\ stdout' = stdout
          /\ \/ ws' = Append(ws, Head(jobs)) /\ held' = held
             \/ held' = Append(held, Head(jobs)) /\ ws' = ws
      BY <2>2 DEF ServerResponds
    <3>2. Head(jobs) \in Sent /\ Tail(jobs) \in Seq(Sent)
          /\ (SomeShows(jobs) <=> Shows(Head(jobs)) \/ SomeShows(Tail(jobs)))
      BY <1>1, <3>1, ShowsTail
    <3>. QED
      BY <1>1, <3>1, <3>2, ShowsAppend
  <2>3. CASE ServerHydrates
    <3>1. /\ held # <<>> /\ held' = Tail(held) /\ stdout' = stdout /\ jobs' = jobs
          /\ ws' = Append(ws, Head(held))
      BY <2>3 DEF ServerHydrates
    <3>2. Head(held) \in Sent /\ Tail(held) \in Seq(Sent)
          /\ (SomeShows(held) <=> Shows(Head(held)) \/ SomeShows(Tail(held)))
      BY <1>1, <3>1, ShowsTail
    <3>. QED
      BY <1>1, <3>1, <3>2, ShowsAppend
  <2>. QED
    BY <2>1, <2>2, <2>3
<1>4. SentTypes'
  BY <1>2, <1>3 DEF BlankInv, SentTypes
<1>5. AskedIs' /\ (SomeKept' => frame') /\ (open' /\ Empty(view') /\ Started' => SomeComing')
  BY <1>2, <1>3 DEF BlankInv, AskedIs, SomeKept, SomeComing, Started
<1>. QED
  BY <1>4, <1>5 DEF BlankInv

\* The effect reads a thread that becomes blank.
LEMMA RestoreReads ==
  ASSUME AskedIs, asks \in Nat, Restore
  PROVE  /\ AskedIs' /\ asks' \in Nat /\ asks <= asks'
         /\ open' /\ Empty(view') => (open /\ Empty(view)) \/ asks' > 0
<1>. DEFINE more == IF asked' /\ ~asked THEN 1 ELSE 0
<1>1. more \in Nat /\ asks' = asks + more /\ asked' = (open' /\ Empty(view'))
  BY DEF Restore
<1>2. open' /\ Empty(view') /\ ~(open /\ Empty(view)) => more = 1
  BY <1>1 DEF AskedIs
<1>. HIDE DEF more
<1>3. AskedIs'
  BY <1>1 DEF AskedIs
<1>. QED
  BY <1>1, <1>2, <1>3

\* flush() shows a turn if deltas were kept.
LEMMA FlushedShows ==
  ASSUME view \in [Turns -> TurnViews], deltas \in [Turns -> Seq(Nat)]
  PROVE  /\ Flushed \in [Turns -> TurnViews]
         /\ Empty(Flushed) => Empty(view) /\ ~SomeKept
<1>1. ASSUME NEW t \in Turns
      PROVE  /\ AppendDelta(view[t], deltas[t]) \in TurnViews
             /\ AppendDelta(view[t], deltas[t]).status = "none"
                => view[t].status = "none" /\ deltas[t] = <<>>
  <2>1. /\ view[t] \in TurnViews /\ view[t].text \in Seq(Nat) /\ deltas[t] \in Seq(Nat)
        /\ view[t].status \in {"none", "inProgress", "ended"}
    BY DEF TurnViews
  <2>2. view[t].text \o deltas[t] \in Seq(Nat)
    BY <2>1, ConcatProperties
  <2>. QED
    BY <2>1, <2>2 DEF AppendDelta, Known, TurnViews
<1>. QED
  BY <1>1 DEF Flushed, Empty, SomeKept

LEMMA FrameBlank ==
  ASSUME BlankInv, Frame
  PROVE  BlankInv'
<1>1. /\ UNCHANGED <<turn, written, stdout, jobs, held, ws, open>> /\ Restore
      /\ view' = Flushed /\ deltas' = [t \in Turns |-> <<>>]
  BY DEF Frame, codexVars, serverVars
<1>2. /\ AskedIs' /\ asks' \in Nat /\ asks <= asks' /\ asks \in Nat
      /\ open' /\ Empty(view') => (open /\ Empty(view)) \/ asks' > 0
  BY <1>1, RestoreReads DEF BlankInv, SentTypes
<1>3. /\ Flushed \in [Turns -> TurnViews]
      /\ Empty(Flushed) => Empty(view) /\ ~SomeKept
  BY FlushedShows DEF BlankInv, SentTypes
<1>4. ~SomeKept'
  BY <1>1 DEF SomeKept
<1>5. SentTypes'
  BY <1>1, <1>2, <1>3 DEF BlankInv, SentTypes
<1>6. ASSUME open', Empty(view'), Started'
      PROVE  SomeComing'
  <2>1. ~SomeKept /\ Empty(view) /\ open /\ Started
    BY <1>1, <1>3, <1>6 DEF Started
  <2>2. asks > 0 \/ SomeShows(stdout) \/ SomeShows(jobs) \/ SomeShows(held) \/ SomeShows(ws)
    BY <2>1 DEF BlankInv, SomeComing
  <2>3. asks > 0 => asks' > 0
    BY <1>2
  <2>. QED
    BY <1>1, <2>2, <2>3 DEF SomeComing
<1>. QED
  BY <1>2, <1>4, <1>5, <1>6 DEF BlankInv

\* What a message of each kind makes of the view.
LEMMA ReceivedIs ==
  ASSUME SentTypes, NEW x \in Sent,
         \/ x.kind = "delta" /\ DispatchDelta(x)
         \/ x.kind \in {"turn", "item"} /\ Dispatch(x) /\ UNCHANGED frame
         \/ x.kind \in {"started", "thread"} /\ Respond(x) /\ UNCHANGED frame
  PROVE  /\ view' \in [Turns -> TurnViews] /\ deltas' \in [Turns -> Seq(Nat)]
         /\ Shows(x) => ~Empty(view') \/ SomeKept'
         /\ ~Shows(x) => UNCHANGED deltas
         /\ SomeKept /\ Empty(view') => SomeKept'
         /\ SomeKept' => (SomeKept /\ frame' = frame) \/ frame' = TRUE
<1>1. view \in [Turns -> TurnViews] /\ deltas \in [Turns -> Seq(Nat)]
  BY DEF SentTypes
<1>2. CASE x.kind = "delta" /\ DispatchDelta(x)
  <2>1. /\ x.turn \in Turns /\ x.text \in Seq(Nat) /\ x.text # <<>> /\ view' = view
        /\ deltas' = [deltas EXCEPT ![x.turn] = @ \o x.text] /\ frame' = TRUE
    BY <1>2 DEF Sent, Messages, Turning, Growing, Starting, DispatchDelta
  <2>2. deltas[x.turn] \o x.text \in Seq(Nat) /\ deltas[x.turn] \o x.text # <<>>
    <3>1. deltas[x.turn] \in Seq(Nat)
      BY <1>1, <2>1
    <3>2. /\ deltas[x.turn] \o x.text \in Seq(Nat)
          /\ Len(deltas[x.turn] \o x.text) = Len(deltas[x.turn]) + Len(x.text)
      BY <3>1, <2>1, ConcatProperties
    <3>3. Len(x.text) \in Nat \ {0} /\ Len(deltas[x.turn]) \in Nat
      BY <2>1, <3>1, EmptySeq
    <3>. QED
      BY <3>2, <3>3
  <2>3. deltas' \in [Turns -> Seq(Nat)] /\ SomeKept'
    BY <1>1, <2>1, <2>2 DEF SomeKept
  <2>4. Shows(x)
    BY <1>2 DEF Shows
  <2>. QED
    BY <1>1, <2>1, <2>3, <2>4
<1>3. CASE x.kind \in {"turn", "item"} /\ Dispatch(x) /\ UNCHANGED frame
  <2>1. /\ x.turn \in Turns /\ deltas' = [t \in Turns |-> <<>>]
        /\ x.kind = "item" => x.text \in Seq(Nat)
        /\ x.kind = "turn" => x.status \in {"inProgress", "ended"}
        /\ view' = IF x.kind = "turn"
                   THEN [Flushed EXCEPT ![x.turn] = ApplyTurn(@, x.status)]
                   ELSE [Flushed EXCEPT ![x.turn] = ApplyTimelineItem(@, x.text)]
    BY <1>3 DEF Sent, Messages, Turning, Growing, Starting, Dispatch
  <2>2. PICK f \in [Turns -> TurnViews] : f = Flushed
    BY <1>1, FlushedShows
  <2>3. /\ x.kind = "turn" => /\ ApplyTurn(f[x.turn], x.status) \in TurnViews
                              /\ ApplyTurn(f[x.turn], x.status).status # "none"
        /\ x.kind = "item" => /\ ApplyTimelineItem(f[x.turn], x.text) \in TurnViews
                              /\ ApplyTimelineItem(f[x.turn], x.text).status # "none"
    <3>1. f[x.turn] \in TurnViews
      BY <2>1, <2>2
    <3>. QED
      BY <2>1, <3>1 DEF ApplyTurn, ApplyTimelineItem, Known, TurnViews
  <2>4. view' \in [Turns -> TurnViews] /\ view'[x.turn].status # "none"
    BY <1>3, <2>1, <2>2, <2>3
  <2>5. ~Empty(view')
    BY <2>1, <2>4 DEF Empty
  <2>6. deltas' \in [Turns -> Seq(Nat)] /\ ~SomeKept'
    BY <2>1 DEF SomeKept
  <2>7. Shows(x)
    BY <1>3 DEF Shows
  <2>. QED
    BY <2>4, <2>5, <2>6, <2>7
<1>4. CASE x.kind = "started" /\ Respond(x) /\ UNCHANGED frame
  <2>1. /\ x.turn \in Turns /\ deltas' = deltas
        /\ view' = [view EXCEPT ![x.turn] = ApplyTurn(@, "inProgress")]
    BY <1>4 DEF Sent, Messages, Turning, Growing, Starting, Respond
  <2>2. /\ ApplyTurn(view[x.turn], "inProgress") \in TurnViews
        /\ ApplyTurn(view[x.turn], "inProgress").status # "none"
    <3>1. view[x.turn] \in TurnViews
      BY <1>1, <2>1
    <3>. QED
      BY <3>1 DEF ApplyTurn, TurnViews
  <2>3. view' \in [Turns -> TurnViews] /\ view'[x.turn].status # "none"
    BY <1>1, <2>1, <2>2
  <2>4. ~Empty(view')
    BY <2>1, <2>3 DEF Empty
  <2>5. deltas' \in [Turns -> Seq(Nat)] /\ (SomeKept' <=> SomeKept)
    BY <1>1, <2>1 DEF SomeKept
  <2>. QED
    BY <1>4, <2>1, <2>3, <2>4, <2>5
<1>5. CASE x.kind = "thread" /\ Respond(x) /\ UNCHANGED frame
  <2>1. x.view \in [Turns -> TurnViews] /\ deltas' = deltas /\ view' = x.view
    BY <1>5 DEF Sent, Messages, Turning, Growing, Starting, Respond
  <2>2. deltas' \in [Turns -> Seq(Nat)] /\ (SomeKept' <=> SomeKept)
    BY <1>1, <2>1 DEF SomeKept
  <2>3. Shows(x) <=> ~Empty(view')
    BY <1>5, <2>1 DEF Shows
  <2>. QED
    BY <1>5, <2>1, <2>2, <2>3
<1>. QED
  BY <1>2, <1>3, <1>4, <1>5

LEMMA ReceivesBlank ==
  ASSUME BlankInv, PageReceives
  PROVE  BlankInv'
<1>. DEFINE x == Head(ws)
<1>1. ws \in Seq(Sent) /\ ws # <<>> /\ SentTypes /\ AskedIs /\ asks \in Nat
  BY DEF BlankInv, SentTypes, PageReceives
<1>2. /\ x \in Sent /\ Tail(ws) \in Seq(Sent)
      /\ SomeShows(ws) <=> Shows(x) \/ SomeShows(Tail(ws))
  BY <1>1, ShowsTail
<1>3. /\ UNCHANGED <<turn, written, stdout, jobs, held, open>> /\ ws' = Tail(ws) /\ Restore
      /\ \/ x.kind = "delta" /\ DispatchDelta(x)
         \/ x.kind \in {"turn", "item"} /\ Dispatch(x) /\ UNCHANGED frame
         \/ x.kind \in {"started", "thread"} /\ Respond(x) /\ UNCHANGED frame
  BY DEF PageReceives, codexVars, serverVars
<1>. HIDE DEF x
<1>4. /\ AskedIs' /\ asks' \in Nat /\ asks <= asks'
      /\ open' /\ Empty(view') => (open /\ Empty(view)) \/ asks' > 0
  BY <1>1, <1>3, RestoreReads
<1>5. /\ view' \in [Turns -> TurnViews] /\ deltas' \in [Turns -> Seq(Nat)]
      /\ Shows(x) => ~Empty(view') \/ SomeKept'
      /\ SomeKept /\ Empty(view') => SomeKept'
      /\ SomeKept' => (SomeKept /\ frame' = frame) \/ frame' = TRUE
  BY <1>1, <1>2, <1>3, ReceivedIs
<1>6. SentTypes'
  BY <1>1, <1>2, <1>3, <1>4, <1>5 DEF SentTypes
<1>7. SomeKept' => frame'
  BY <1>5 DEF BlankInv
<1>8. ASSUME open', Empty(view'), Started', ~(asks' > 0)
      PROVE  SomeComing'
  <2>1. open /\ Empty(view) /\ Started /\ ~(asks > 0)
    BY <1>1, <1>3, <1>4, <1>8 DEF Started
  <2>2. SomeShows(stdout) \/ SomeShows(jobs) \/ SomeShows(held) \/ SomeShows(ws) \/ SomeKept
    BY <2>1 DEF BlankInv, SomeComing
  <2>3. SomeShows(stdout') \/ SomeShows(jobs') \/ SomeShows(held') \/ SomeShows(ws') \/ SomeKept'
    BY <1>2, <1>3, <1>5, <1>8, <2>2
  <2>. QED
    BY <2>3 DEF SomeComing
<1>9. open' /\ Empty(view') /\ Started' => SomeComing'
  BY <1>8 DEF SomeComing
<1>. QED
  BY <1>4, <1>6, <1>7, <1>9 DEF BlankInv

\* The user goes and comes back.
LEMMA UserBlank ==
  ASSUME BlankInv, SendPrompt \/ Leave \/ Sweep \/ Reopen
  PROVE  BlankInv'
<1>1. UNCHANGED <<turn, written, stdout, jobs, held, ws, deltas, frame>>
  BY DEF SendPrompt, Leave, Sweep, Reopen, codexVars, serverVars, pageVars
<1>2. asks \in Nat /\ view \in [Turns -> TurnViews]
  BY DEF BlankInv, SentTypes
<1>3. CASE SendPrompt
  BY <1>1, <1>3 DEF SendPrompt, pageVars, BlankInv, SentTypes, AskedIs, SomeKept, SomeComing, Started
<1>4. CASE Leave \/ Sweep
  <2>1. Restore /\ ~open' /\ view' \in [Turns -> TurnViews]
    <3>1. [t \in Turns |-> NoTurn] \in [Turns -> TurnViews]
      BY DEF NoTurn, TurnViews
    <3>. QED
      BY <1>2, <1>4, <3>1 DEF Leave, Sweep
  <2>2. AskedIs' /\ asks' \in Nat
    BY <1>2, <2>1, RestoreReads DEF BlankInv
  <2>. QED
    BY <1>1, <2>1, <2>2 DEF BlankInv, SentTypes, SomeKept
<1>5. CASE Reopen
  <2>1. /\ open' = TRUE /\ asked' = Empty(view) /\ view' = view
        /\ asks' = asks + (IF Empty(view) THEN 2 ELSE 0)
    BY <1>5 DEF Reopen
  <2>2. asks' \in Nat /\ (Empty(view) => asks' > 0)
    BY <1>2, <2>1
  <2>3. AskedIs'
    BY <2>1 DEF AskedIs, Empty
  <2>. QED
    BY <1>1, <2>1, <2>2, <2>3 DEF BlankInv, SentTypes, SomeKept, SomeComing
<1>. QED
  BY <1>3, <1>4, <1>5

LEMMA SpecBlank == Spec => []BlankInv
<1>1. BlankInv /\ [Next]_vars => BlankInv'
  <2>. SUFFICES ASSUME BlankInv, [Next]_vars
                PROVE  BlankInv'
    OBVIOUS
  <2>1. CASE UNCHANGED vars
    BY <2>1 DEF vars, codexVars, serverVars, pageVars, BlankInv, SentTypes, AskedIs, SomeKept,
         SomeComing, Started
  <2>2. CASE Next
    BY <2>2, CodexBlank, ReadsBlank, ServerBlank, FrameBlank, ReceivesBlank, UserBlank DEF Next
  <2>. QED
    BY <2>1, <2>2
<1>. QED
  BY InitBlank, <1>1, PTL DEF Spec

\* An active thread with ended turns is not less blank when nothing is under way any
\* more, however many reads, sweeps and notifications have crossed
\* (WorkbenchScreen.tsx:1497).
THEOREM OpenIsNeverBlank == Spec => []OpenIsNotBlank
<1>1. BlankInv => OpenIsNotBlank
  <2>. SUFFICES ASSUME BlankInv, open, Quiet, \E t \in Turns : turn[t] = "ended", Empty(view)
                PROVE  FALSE
    BY DEF OpenIsNotBlank
  <2>1. Started
    BY DEF Started
  <2>2. ~SomeShows(stdout) /\ ~SomeShows(jobs) /\ ~SomeShows(held) /\ ~SomeShows(ws)
    BY DEF Quiet, SomeShows
  <2>3. ~SomeKept /\ ~(asks > 0)
    BY DEF Quiet, BlankInv
  <2>. QED
    BY <2>1, <2>2, <2>3 DEF BlankInv, SomeComing
<1>. QED
  BY SpecBlank, <1>1, PTL

-----------------------------------------------------------------------------
(* Realtime sessions. *)

Kinds == {"started", "audio", "item", "error", "closed"}
Spoken == [kind : Kinds, thread : Threads, session : Nat, rate : Nat]

VoiceTypes ==
  /\ source \in [Threads -> Nat] /\ rate \in [Threads -> Nat] /\ sent \in Nat
  /\ arriving \in Seq(Spoken)
  /\ sessions \in [Threads -> Voice!Session \cup {None}]
  /\ made \in Nat
  /\ ~connected => arriving = <<>>

\* The sound of a session: what there is to play, and what plays it.
HasSession(t) == sessions[t] # None
Plays(t) == \E u \in urls : u.id = sessions[t].url /\ u.chunks = sessions[t].chunks

UrlsAre ==
  /\ \A u \in urls : u.id \in 1..made /\ \E t \in Threads : Voice!Owned(t) /\ sessions[t].url = u.id
  /\ \A u, v \in urls : u.id = v.id => u = v
  /\ \A t \in Threads : Voice!Owned(t) => \E u \in urls : u.id = sessions[t].url
  /\ \A s, t \in Threads :
       Voice!Owned(s) /\ Voice!Owned(t) /\ sessions[s].url = sessions[t].url => s = t
  /\ \A t \in Threads : HasSession(t) /\ ~sessions[t].broken /\ sessions[t].chunks # <<>> =>
       t \in timers \/ Plays(t)
  /\ \A t \in Threads : HasSession(t) /\ sessions[t].broken => sessions[t].url = None

\* With the messages q to come, the sessions s and the threads l of which a "started" was lost,
\* x is the session the store has for t when the first n messages have arrived.
StartsHere(q, i, t) == q[i].kind = "started" /\ q[i].thread = t
Knows(q, s, l, t, n, x) ==
  \/ \E j \in 1..n : /\ StartsHere(q, j, t) /\ q[j].session = x
                     /\ \A i \in (j + 1)..n : ~StartsHere(q, i, t)
  \/ /\ \A i \in 1..n : ~StartsHere(q, i, t)
     /\ t \in l \/ (s[t] # None /\ s[t].id = x)
KnowsNow(t, n, x) == Knows(arriving, sessions, missed, t, n, x)

OrderIs ==
  /\ \A i \in DOMAIN arriving :
       arriving[i].kind # "started" => KnowsNow(arriving[i].thread, i - 1, arriving[i].session)
  /\ \A t \in Threads : source[t] # 0 => KnowsNow(t, Len(arriving), source[t])

VoiceInv == VoiceTypes /\ UrlsAre /\ OrderIs /\ Voice!PartsOfOneSession

LEMMA FoundIs ==
  ASSUME VoiceTypes, NEW t \in Threads
  PROVE  /\ Voice!Found(t) \in Voice!Session
         /\ HasSession(t) => Voice!Found(t) = sessions[t] /\ sessions[t] \in Voice!Session
         /\ ~HasSession(t) => /\ Voice!Found(t).id = 0 /\ Voice!Found(t).url = None
                       /\ Voice!Found(t).chunks = <<>> /\ Voice!Found(t).items = <<>>
                       /\ Voice!Found(t).broken = FALSE
         /\ Voice!Owned(t) <=> Voice!Found(t).url # None
         /\ Voice!Owned(t) => HasSession(t) /\ Voice!Found(t).url = sessions[t].url
<1>1. \A n \in Nat : Voice!Created(n) \in Voice!Session /\ Voice!Created(n).url = None
  BY DEF Voice!Created, Voice!Session
<1>2. CASE HasSession(t)
  BY <1>2 DEF HasSession, VoiceTypes, Voice!Found, Voice!Owned
<1>3. CASE ~HasSession(t)
  <2>1. Voice!Found(t) = Voice!Created(0)
    BY <1>3 DEF HasSession, Voice!Found
  <2>. QED
    BY <1>1, <1>3, <2>1 DEF HasSession, Voice!Owned, Voice!Created
<1>. QED
  BY <1>2, <1>3

\* The three ways the sound of a session changes: its URL is kept, revoked or made anew.
Kept(t, s) ==
  /\ urls' = urls /\ made' = made /\ s.url = Voice!Found(t).url
  /\ \/ t \in timers' \/ s.broken \/ s.chunks = <<>>
     \/ s.chunks = Voice!Found(t).chunks /\ timers' = timers
  /\ s.broken = Voice!Found(t).broken
Muted(t, s) ==
  /\ urls' = Voice!Revoked(Voice!Found(t).url) /\ made' = made /\ s.url = None
  /\ s.chunks = <<>> \/ s.broken
Renewed(t, s) ==
  /\ urls' = Voice!Revoked(Voice!Found(t).url) \cup {[id |-> made + 1, chunks |-> s.chunks]}
  /\ made' = made + 1 /\ s.url = made + 1 /\ ~s.broken

LEMMA SoundChanges ==
  ASSUME VoiceTypes, UrlsAre, NEW t \in Threads, NEW s \in Voice!Session,
         sessions' = [sessions EXCEPT ![t] = s],
         \A x \in Threads \ {t} : x \in timers <=> x \in timers',
         Kept(t, s) \/ Muted(t, s) \/ Renewed(t, s)
  PROVE  UrlsAre'
<1>1. /\ sessions'[t] = s /\ \A x \in Threads \ {t} : sessions'[x] = sessions[x]
      /\ s # None /\ None \notin Nat /\ made \in Nat
  BY PageAssumption DEF VoiceTypes
<1>2. /\ HasSession(t)' /\ (Voice!Owned(t)' <=> s.url # None)
      /\ \A x \in Threads \ {t} : (HasSession(x)' <=> HasSession(x)) /\ (Voice!Owned(x)' <=> Voice!Owned(x))
  BY <1>1 DEF HasSession, Voice!Owned
<1>. DEFINE gone == Voice!Found(t).url
<1>3. /\ Voice!Owned(t) <=> gone # None
      /\ Voice!Owned(t) => gone = sessions[t].url
      /\ s.url \in Nat \cup {None}
  BY FoundIs DEF Voice!Session
<1>. HIDE DEF gone
<1>4. \A u \in urls : u.id \in 1..made /\ u.id # None
  BY <1>1 DEF UrlsAre
<1>5. \A u \in Voice!Revoked(gone) : u \in urls /\ u.id # gone
  BY DEF Voice!Revoked
<1>6. \A u \in urls : u.id # gone => u \in Voice!Revoked(gone)
  BY DEF Voice!Revoked
<1>7. CASE Kept(t, s)
  <2>1. urls' = urls /\ made' = made /\ s.url = gone
    BY <1>7 DEF Kept, gone
  <2>2. /\ Voice!Owned(t)' <=> Voice!Owned(t)
        /\ Voice!Owned(t) => sessions'[t].url = sessions[t].url
    BY <1>1, <1>2, <1>3, <2>1
  <2>3. \A x \in Threads : /\ Voice!Owned(x)' <=> Voice!Owned(x)
                           /\ Voice!Owned(x) => sessions'[x].url = sessions[x].url
    BY <1>1, <1>2, <2>2
  <2>4. \A u \in urls' : u.id \in 1..made' /\ \E x \in Threads : Voice!Owned(x)' /\ sessions'[x].url = u.id
    BY <2>1, <2>3 DEF UrlsAre
  <2>5. \A u, v \in urls' : u.id = v.id => u = v
    BY <2>1 DEF UrlsAre
  <2>6. \A x \in Threads : Voice!Owned(x)' => \E u \in urls' : u.id = sessions'[x].url
    BY <2>1, <2>3 DEF UrlsAre
  <2>7. \A x, y \in Threads :
          Voice!Owned(x)' /\ Voice!Owned(y)' /\ sessions'[x].url = sessions'[y].url => x = y
    BY <2>3 DEF UrlsAre
  <2>8. ASSUME NEW x \in Threads, HasSession(x)', ~sessions'[x].broken, sessions'[x].chunks # <<>>
        PROVE  x \in timers' \/ Plays(x)'
    <3>1. CASE x = t /\ t \notin timers'
      <4>1. s.chunks = Voice!Found(t).chunks /\ timers' = timers /\ s.broken = Voice!Found(t).broken
        BY <3>1, <2>8, <1>1, <1>7 DEF Kept
      <4>2. HasSession(t) /\ Voice!Found(t) = sessions[t]
        BY <4>1, <3>1, <2>8, <1>1, FoundIs
      <4>3. ~sessions[t].broken /\ sessions[t].chunks # <<>> /\ sessions[t].chunks = s.chunks
        BY <4>1, <4>2, <3>1, <2>8, <1>1
      <4>4. Plays(t)
        BY <4>1, <4>2, <4>3, <3>1 DEF UrlsAre
      <4>5. sessions[t].url = s.url
        BY <4>2, <2>1 DEF gone
      <4>. QED
        BY <4>3, <4>4, <4>5, <3>1, <1>1, <2>1 DEF Plays
    <3>2. CASE x # t
      <4>1. x \in timers \/ Plays(x)
        BY <3>2, <2>8, <1>1, <1>2 DEF UrlsAre
      <4>. QED
        BY <4>1, <3>2, <1>1, <2>1 DEF Plays
    <3>. QED
      BY <3>1, <3>2
  <2>9. ASSUME NEW x \in Threads, HasSession(x)', sessions'[x].broken
        PROVE  sessions'[x].url = None
    <3>1. CASE x = t
      <4>1. s.broken /\ Voice!Found(t).broken
        BY <3>1, <2>9, <1>1, <1>7 DEF Kept
      <4>2. HasSession(t) /\ Voice!Found(t) = sessions[t]
        BY <4>1, FoundIs
      <4>. QED
        BY <4>1, <4>2, <3>1, <2>1, <1>1 DEF UrlsAre, gone
    <3>2. CASE x # t
      BY <3>2, <2>9, <1>1, <1>2 DEF UrlsAre
    <3>. QED
      BY <3>1, <3>2
  <2>. QED
    BY <2>4, <2>5, <2>6, <2>7, <2>8, <2>9 DEF UrlsAre
<1>8. ASSUME Muted(t, s) \/ Renewed(t, s)
      PROVE  UrlsAre'
  <2>. DEFINE new == [id |-> made + 1, chunks |-> s.chunks]
  <2>1. \/ urls' = Voice!Revoked(gone) /\ made' = made /\ s.url = None /\ (s.chunks = <<>> \/ s.broken)
        \/ /\ urls' = Voice!Revoked(gone) \cup {new} /\ made' = made + 1
           /\ s.url = made + 1 /\ ~s.broken
    BY <1>8 DEF Muted, Renewed, gone
  <2>2. new.id = made + 1 /\ new.chunks = s.chunks
    OBVIOUS
  <2>. HIDE DEF new
  \* The URLs that stay are those of the other threads.
  <2>3. ASSUME NEW u \in Voice!Revoked(gone)
        PROVE  /\ u \in urls /\ u.id \in 1..made
               /\ \E x \in Threads \ {t} : Voice!Owned(x) /\ sessions[x].url = u.id
    <3>1. PICK x \in Threads : Voice!Owned(x) /\ sessions[x].url = u.id
      BY <2>3, <1>5 DEF UrlsAre
    <3>2. x # t
      BY <3>1, <1>3, <1>5, <2>3
    <3>. QED
      BY <3>1, <3>2, <1>4, <1>5
  <2>4. ASSUME NEW x \in Threads \ {t}, Voice!Owned(x)
        PROVE  /\ \E u \in Voice!Revoked(gone) : u.id = sessions[x].url
               /\ sessions[x].url \in 1..made
    <3>1. PICK u \in urls : u.id = sessions[x].url
      BY <2>4 DEF UrlsAre
    <3>2. u.id # gone
      BY <3>1, <2>4, <1>3, <1>4 DEF UrlsAre
    <3>. QED
      BY <3>1, <3>2, <1>4, <1>6
  <2>5. \A u \in urls' : u.id \in 1..made' /\ \E x \in Threads : Voice!Owned(x)' /\ sessions'[x].url = u.id
    <3>. SUFFICES ASSUME NEW u \in urls'
                  PROVE  u.id \in 1..made' /\ \E x \in Threads : Voice!Owned(x)' /\ sessions'[x].url = u.id
      OBVIOUS
    <3>1. CASE u \in Voice!Revoked(gone)
      <4>1. u.id \in 1..made'
        BY <3>1, <2>1, <2>3, <1>1
      <4>. QED
        BY <4>1, <3>1, <2>3, <1>1, <1>2
    <3>2. CASE u \notin Voice!Revoked(gone)
      <4>1. u = new /\ made' = made + 1 /\ s.url = made + 1
        BY <3>2, <2>1
      <4>2. s.url # None /\ u.id \in 1..made'
        BY <4>1, <2>2, <1>1
      <4>. QED
        BY <4>1, <4>2, <2>2, <1>1, <1>2
    <3>. QED
      BY <3>1, <3>2
  <2>6. \A u, v \in urls' : u.id = v.id => u = v
    <3>1. \A u \in urls' : (u = new /\ u.id = made + 1) \/ (u \in urls /\ u.id \in 1..made)
      <4>1. urls' = Voice!Revoked(gone) \/ urls' = Voice!Revoked(gone) \cup {new}
        BY <2>1
      <4>. QED
        BY <4>1, <2>2, <2>3
    <3>2. \A u, v \in urls : u.id = v.id => u = v
      BY DEF UrlsAre
    <3>3. made + 1 \notin 1..made
      BY <1>1
    <3>. QED
      BY <3>1, <3>2, <3>3
  <2>7. \A x \in Threads : Voice!Owned(x)' => \E u \in urls' : u.id = sessions'[x].url
    <3>. SUFFICES ASSUME NEW x \in Threads, Voice!Owned(x)'
                  PROVE  \E u \in urls' : u.id = sessions'[x].url
      OBVIOUS
    <3>1. CASE x = t
      BY <3>1, <2>1, <2>2, <1>1, <1>2
    <3>2. CASE x # t
      BY <3>2, <2>1, <2>4, <1>1, <1>2
    <3>. QED
      BY <3>1, <3>2
  <2>8. \A x, y \in Threads :
          Voice!Owned(x)' /\ Voice!Owned(y)' /\ sessions'[x].url = sessions'[y].url => x = y
    <3>1. Voice!Owned(t)' => s.url = made + 1
      BY <2>1, <1>2
    <3>2. \A x \in Threads \ {t} : Voice!Owned(x)' => sessions'[x].url \in 1..made /\ sessions'[x].url = sessions[x].url
      BY <2>4, <1>1, <1>2
    <3>3. made + 1 \notin 1..made
      BY <1>1
    <3>. QED
      BY <3>1, <3>2, <3>3, <1>1, <1>2 DEF UrlsAre
  <2>9. ASSUME NEW x \in Threads, HasSession(x)', ~sessions'[x].broken, sessions'[x].chunks # <<>>
        PROVE  x \in timers' \/ Plays(x)'
    <3>1. CASE x = t
      BY <3>1, <2>1, <2>2, <2>9, <1>1 DEF Plays
    <3>2. CASE x # t
      <4>1. HasSession(x) /\ sessions'[x] = sessions[x]
        BY <3>2, <2>9, <1>1, <1>2
      <4>2. x \in timers \/ Plays(x)
        BY <4>1, <2>9 DEF UrlsAre
      <4>3. CASE Plays(x)
        <5>1. PICK u \in urls : u.id = sessions[x].url /\ u.chunks = sessions[x].chunks
          BY <4>3 DEF Plays
        <5>2. Voice!Owned(x)
          BY <5>1, <4>1, <1>4 DEF Voice!Owned, HasSession
        <5>3. u.id # gone
          BY <5>1, <5>2, <3>2, <1>3, <1>4 DEF UrlsAre
        <5>4. u \in urls'
          BY <5>3, <1>6, <2>1
        <5>. QED
          BY <5>1, <5>4, <4>1 DEF Plays
      <4>. QED
        BY <4>2, <4>3, <3>2
    <3>. QED
      BY <3>1, <3>2
  <2>10. ASSUME NEW x \in Threads, HasSession(x)', sessions'[x].broken
         PROVE  sessions'[x].url = None
    <3>1. CASE x = t
      BY <3>1, <2>1, <2>10, <1>1
    <3>2. CASE x # t
      BY <3>2, <2>10, <1>1, <1>2 DEF UrlsAre
    <3>. QED
      BY <3>1, <3>2
  <2>. QED
    BY <2>5, <2>6, <2>7, <2>8, <2>9, <2>10 DEF UrlsAre
<1>. QED
  BY <1>7, <1>8

\* What the browser keeps is what the sessions play: the sets have the same size.
LEMMA AudioIsDueFrom ==
  ASSUME VoiceTypes, UrlsAre
  PROVE  Voice!AudioIsDue
<1>. DEFINE Owners == {t \in Threads : Voice!Owned(t)}
            F == [u \in urls |-> u.id]
            G == [u \in urls |-> CHOOSE t \in Threads : Voice!Owned(t) /\ sessions[t].url = u.id]
<1>1. IsFiniteSet(urls)
  <2>1. F \in [urls -> 1..made] /\ \A u, v \in urls : F[u] = F[v] => u = v
    BY DEF UrlsAre
  <2>2. F \in Injection(urls, 1..made)
    <3>. HIDE DEF F
    <3>. QED
      BY <2>1, Fun_IsInj
  <2>3. IsFiniteSet(1..made)
    BY FS_Interval DEF VoiceTypes
  <2>. HIDE DEF F
  <2>. QED
    BY <2>2, <2>3, FS_Injection
<1>2. \A u \in urls : G[u] \in Owners /\ sessions[G[u]].url = u.id
  BY DEF UrlsAre
<1>3. Cardinality(urls) = Cardinality(Owners)
  <2>1. G \in [urls -> Owners]
    BY <1>2
  <2>. HIDE DEF G
  <2>2. \A u, v \in urls : G[u] = G[v] => u = v
    BY <1>2 DEF UrlsAre
  <2>3. \A t \in Owners : \E u \in urls : G[u] = t
    <3>. SUFFICES ASSUME NEW t \in Owners
                  PROVE  \E u \in urls : G[u] = t
      OBVIOUS
    <3>1. PICK u \in urls : u.id = sessions[t].url
      BY DEF UrlsAre
    <3>2. G[u] \in Owners /\ sessions[G[u]].url = sessions[t].url
      BY <1>2, <3>1
    <3>. QED
      BY <3>2 DEF UrlsAre
  <2>. HIDE DEF Owners
  <2>4. G \in Bijection(urls, Owners)
    BY <2>1, <2>2, <2>3, Fun_IsBij
  <2>5. ExistsBijection(urls, Owners)
    BY <2>4 DEF ExistsBijection
  <2>. QED
    BY <1>1, <2>5, FS_Bijection
<1>4. {u.id : u \in urls} = {sessions[t].url : t \in Owners}
  <2>1. \A u \in urls : \E t \in Owners : sessions[t].url = u.id
    BY DEF UrlsAre
  <2>2. \A t \in Owners : \E u \in urls : u.id = sessions[t].url
    BY DEF UrlsAre
  <2>. HIDE DEF Owners
  <2>. QED
    BY <2>1, <2>2
<1>5. \A t \in Threads : sessions[t] # None /\ ~sessions[t].broken /\ sessions[t].chunks # <<>> =>
        t \in timers \/ \E u \in urls : u.id = sessions[t].url /\ u.chunks = sessions[t].chunks
  BY DEF UrlsAre, HasSession, Plays
<1>6. \A t \in Threads : sessions[t] # None /\ sessions[t].broken => sessions[t].url = None
  BY DEF UrlsAre, HasSession
<1>7. /\ {u.id : u \in urls} = {sessions[t].url : t \in {x \in Threads : Voice!Owned(x)}}
      /\ Cardinality(urls) = Cardinality({t \in Threads : Voice!Owned(t)})
  BY <1>3, <1>4, Zenon
<1>8. \A S : Voice!Cardinality(S) = Cardinality(S)
  BY DEF Cardinality, Voice!Cardinality
<1>. QED
  BY <1>5, <1>6, <1>7, <1>8, Zenon DEF Voice!AudioIsDue

-----------------------------------------------------------------------------
(* What the store makes of a message. *)

\* The session t has next: its sound, whose it is and what is new in it.
Fresh(t, n, s) == s.id = n /\ s.items = <<>> /\ s.chunks = <<>>
Grown(t, n, s) ==
  /\ s.id = Voice!Found(t).id
  /\ s.items \in {Voice!Found(t).items, Append(Voice!Found(t).items, n)}
  /\ s.chunks \in {Voice!Found(t).chunks, Append(Voice!Found(t).chunks, n)}
Sounds(t, s) ==
  /\ s \in Voice!Session /\ sessions' = [sessions EXCEPT ![t] = s]
  /\ made' \in Nat
  /\ \A x \in Threads \ {t} : x \in timers <=> x \in timers'
  /\ Kept(t, s) \/ Muted(t, s) \/ Renewed(t, s)

LEMMA StartIs ==
  ASSUME VoiceTypes, UrlsAre, NEW t \in Threads, NEW n \in Nat, Voice!StartRealtimeSession(t, n)
  PROVE  \E s : Sounds(t, s) /\ Fresh(t, n, s)
<1>1. Voice!Created(n) \in Voice!Session
  BY DEF Voice!Created, Voice!Session
<1>2. urls' = Voice!Revoked(Voice!Found(t).url)
  <2>1. CASE HasSession(t)
    BY <2>1, FoundIs DEF HasSession, Voice!StartRealtimeSession
  <2>2. CASE ~HasSession(t)
    <3>1. urls' = urls /\ Voice!Found(t).url = None
      BY <2>2, FoundIs DEF HasSession, Voice!StartRealtimeSession
    <3>2. \A u \in urls : u.id # None
      BY PageAssumption DEF UrlsAre, VoiceTypes
    <3>. QED
      BY <3>1, <3>2 DEF Voice!Revoked
  <2>. QED
    BY <2>1, <2>2
<1>3. \A x \in Threads \ {t} : x \in timers <=> x \in timers'
  BY DEF Voice!StartRealtimeSession
<1>4. sessions' = [sessions EXCEPT ![t] = Voice!Created(n)] /\ made' = made
  BY DEF Voice!StartRealtimeSession
<1>5. Muted(t, Voice!Created(n)) /\ Fresh(t, n, Voice!Created(n))
  BY <1>2, <1>4 DEF Muted, Fresh, Voice!Created
<1>. QED
  BY <1>1, <1>3, <1>4, <1>5 DEF Sounds, VoiceTypes

LEMMA ItemIs ==
  ASSUME VoiceTypes, NEW t \in Threads, NEW n \in Nat, Voice!AppendRealtimeItem(t, n)
  PROVE  \E s : Sounds(t, s) /\ Grown(t, n, s)
<1>. DEFINE s == [Voice!Found(t) EXCEPT !.items = Append(@, n)]
<1>1. Voice!Found(t) \in Voice!Session
  BY FoundIs
<1>2. s \in Voice!Session /\ Kept(t, s) /\ Grown(t, n, s)
  BY <1>1, AppendIs DEF Voice!Session, Kept, Grown, Voice!AppendRealtimeItem
<1>. QED
  BY <1>2 DEF Sounds, Voice!AppendRealtimeItem, VoiceTypes

LEMMA FailIs ==
  ASSUME VoiceTypes, NEW t \in Threads, NEW n \in Nat, Voice!FailRealtimeSession(t)
  PROVE  \E s : Sounds(t, s) /\ Grown(t, n, s)
<1>. DEFINE s == [Voice!Found(t) EXCEPT !.status = "error"]
<1>1. Voice!Found(t) \in Voice!Session
  BY FoundIs
<1>2. s \in Voice!Session /\ Kept(t, s) /\ Grown(t, n, s)
  BY <1>1 DEF Voice!Session, Kept, Grown, Voice!FailRealtimeSession
<1>. QED
  BY <1>2 DEF Sounds, Voice!FailRealtimeSession, VoiceTypes

LEMMA AudioIs ==
  ASSUME VoiceTypes, NEW t \in Threads, NEW n \in Nat, NEW r \in Nat,
         Voice!AppendRealtimeAudio(t, n, r)
  PROVE  \E s : Sounds(t, s) /\ Grown(t, n, s)
<1>1. Voice!Found(t) \in Voice!Session
  BY FoundIs
<1>2. timers' = timers \cup {t} /\ made' = made /\ made \in Nat
  BY DEF Voice!AppendRealtimeAudio, VoiceTypes
<1>3. CASE sessions' = [sessions EXCEPT ![t] = Voice!Found(t)] /\ urls' = urls
  <2>1. Kept(t, Voice!Found(t)) /\ Grown(t, n, Voice!Found(t))
    BY <1>2, <1>3 DEF Kept, Grown
  <2>. QED
    BY <1>1, <1>2, <1>3, <2>1 DEF Sounds
<1>4. CASE /\ sessions' = [sessions EXCEPT ![t] = [Voice!Found(t) EXCEPT !.chunks = Append(@, n), !.rate = r]]
           /\ urls' = urls
  <2>. DEFINE s == [Voice!Found(t) EXCEPT !.chunks = Append(@, n), !.rate = r]
  <2>1. s \in Voice!Session /\ Kept(t, s) /\ Grown(t, n, s)
    BY <1>1, <1>2, <1>4, AppendIs DEF Voice!Session, Kept, Grown
  <2>. QED
    BY <1>2, <1>4, <2>1 DEF Sounds
<1>5. CASE /\ sessions' = [sessions EXCEPT ![t] = [Voice!Found(t) EXCEPT !.broken = TRUE, !.url = None]]
           /\ urls' = Voice!Revoked(Voice!Found(t).url)
  <2>. DEFINE s == [Voice!Found(t) EXCEPT !.broken = TRUE, !.url = None]
  <2>1. s \in Voice!Session /\ Muted(t, s) /\ Grown(t, n, s)
    BY <1>1, <1>2, <1>5 DEF Voice!Session, Muted, Grown
  <2>. QED
    BY <1>2, <1>5, <2>1 DEF Sounds
<1>. QED
  BY <1>3, <1>4, <1>5 DEF Voice!AppendRealtimeAudio

\* A timer or the end of the session: its audio is made anew.
LEMMA RebuildIs ==
  ASSUME VoiceTypes, NEW t \in Threads, NEW n \in Nat, NEW kept \in Voice!Session,
         \/ kept = Voice!Found(t)
         \/ \E x \in {"error", "closed"} : kept = [Voice!Found(t) EXCEPT !.status = x],
         Voice!Rebuild(t, kept)
  PROVE  \E s : Sounds(t, s) /\ Grown(t, n, s)
<1>1. /\ kept.id = Voice!Found(t).id /\ kept.url = Voice!Found(t).url
      /\ kept.items = Voice!Found(t).items /\ kept.chunks = Voice!Found(t).chunks
      /\ kept.broken = Voice!Found(t).broken
  <2>1. Voice!Found(t) \in Voice!Session
    BY FoundIs
  <2>. QED
    BY <2>1 DEF Voice!Session
<1>2. timers' = timers \ {t} /\ made \in Nat
  BY DEF Voice!Rebuild, VoiceTypes
<1>3. CASE kept.broken \/ kept.chunks = <<>>
  <2>1. sessions' = [sessions EXCEPT ![t] = kept] /\ urls' = urls /\ made' = made
    BY <1>3 DEF Voice!Rebuild
  <2>2. Kept(t, kept) /\ Grown(t, n, kept)
    BY <1>1, <1>3, <2>1 DEF Kept, Grown
  <2>. QED
    BY <1>2, <2>1, <2>2 DEF Sounds
<1>4. CASE ~(kept.broken \/ kept.chunks = <<>>)
  <2>. DEFINE s == [kept EXCEPT !.url = made + 1]
  <2>1. /\ sessions' = [sessions EXCEPT ![t] = s] /\ made' = made + 1
        /\ urls' = Voice!Revoked(kept.url) \cup {[id |-> made + 1, chunks |-> kept.chunks]}
    BY <1>4 DEF Voice!Rebuild
  <2>2. /\ s \in Voice!Session /\ s.url = made + 1 /\ s.chunks = kept.chunks
        /\ s.id = kept.id /\ s.items = kept.items /\ s.broken = kept.broken
    <3>1. made + 1 \in Nat
      BY <1>2
    <3>2. s \in Voice!Session
      BY <3>1 DEF Voice!Session
    <3>3. s.url = made + 1 /\ s.chunks = kept.chunks
      BY DEF Voice!Session
    <3>4. s.id = kept.id /\ s.items = kept.items /\ s.broken = kept.broken
      BY DEF Voice!Session
    <3>. QED
      BY <3>2, <3>3, <3>4
  <2>. HIDE DEF s
  <2>3. Renewed(t, s) /\ Grown(t, n, s)
    BY <1>1, <1>4, <2>1, <2>2 DEF Renewed, Grown
  <2>4. made' \in Nat /\ \A x \in Threads \ {t} : x \in timers <=> x \in timers'
    BY <1>2, <2>1
  <2>. QED
    BY <2>1, <2>2, <2>3, <2>4 DEF Sounds
<1>. QED
  BY <1>3, <1>4

LEMMA CloseIs ==
  ASSUME VoiceTypes, NEW t \in Threads, NEW n \in Nat, Voice!CloseRealtimeSession(t)
  PROVE  \E s : Sounds(t, s) /\ Grown(t, n, s)
<1>. DEFINE x == IF Voice!Found(t).status = "error" THEN "error" ELSE "closed"
            kept == [Voice!Found(t) EXCEPT !.status = x]
<1>1. Voice!Found(t) \in Voice!Session
  BY FoundIs
<1>2. kept \in Voice!Session /\ x \in {"error", "closed"}
  BY <1>1 DEF Voice!Session
<1>3. Voice!Rebuild(t, kept)
  BY DEF Voice!CloseRealtimeSession
<1>. HIDE DEF x
<1>. QED
  BY <1>2, <1>3, RebuildIs

-----------------------------------------------------------------------------
(* Spoken on their way. *)

\* What a message more leaves of what is known before it.
LEMMA KnowsAppend ==
  ASSUME NEW q \in Seq(Spoken), NEW m \in Spoken, NEW s, NEW l, NEW k, l \subseteq k,
         NEW t, NEW n \in 0..Len(q), NEW x, Knows(q, s, l, t, n, x)
  PROVE  /\ Knows(Append(q, m), s, k, t, n, x)
         /\ n = Len(q) /\ ~(m.kind = "started" /\ m.thread = t) =>
              Knows(Append(q, m), s, k, t, n + 1, x)
<1>. DEFINE p == Append(q, m)
<1>1. /\ Len(q) \in Nat /\ p[Len(q) + 1] = m
      /\ \A i \in 1..Len(q) : p[i] = q[i]
  BY AppendIs
<1>. HIDE DEF p
<1>2. \A i \in 1..n : StartsHere(p, i, t) <=> StartsHere(q, i, t)
  BY <1>1 DEF StartsHere
<1>3. ~(m.kind = "started" /\ m.thread = t) => ~StartsHere(p, Len(q) + 1, t)
  BY <1>1 DEF StartsHere
<1>4. CASE \E j \in 1..n : /\ StartsHere(q, j, t) /\ q[j].session = x
                           /\ \A i \in (j + 1)..n : ~StartsHere(q, i, t)
  <2>1. PICK j \in 1..n : /\ StartsHere(q, j, t) /\ q[j].session = x
                          /\ \A i \in (j + 1)..n : ~StartsHere(q, i, t)
    BY <1>4
  <2>2. j \in 1..n /\ j \in 1..(n + 1) /\ StartsHere(p, j, t) /\ p[j].session = x
    BY <1>1, <1>2, <2>1
  <2>3. \A i \in (j + 1)..n : i \in 1..n /\ ~StartsHere(p, i, t)
    BY <1>1, <1>2, <2>1
  <2>4. \A i \in (j + 1)..(n + 1) : i \in (j + 1)..n \/ i = n + 1
    BY <1>1
  <2>5. Knows(p, s, k, t, n, x)
    BY <2>2, <2>3 DEF Knows
  <2>6. ASSUME n = Len(q), ~(m.kind = "started" /\ m.thread = t)
        PROVE  Knows(p, s, k, t, n + 1, x)
    BY <1>3, <2>2, <2>3, <2>4, <2>6 DEF Knows
  <2>. QED
    BY <2>5, <2>6 DEF p
<1>5. CASE /\ \A i \in 1..n : ~StartsHere(q, i, t)
           /\ t \in l \/ (s[t] # None /\ s[t].id = x)
  <2>1. \A i \in 1..n : ~StartsHere(p, i, t)
    BY <1>2, <1>5
  <2>2. t \in k \/ (s[t] # None /\ s[t].id = x)
    BY <1>5
  <2>3. \A i \in 1..(n + 1) : i \in 1..n \/ i = n + 1
    BY <1>1
  <2>4. Knows(p, s, k, t, n, x)
    BY <2>1, <2>2 DEF Knows
  <2>5. ASSUME n = Len(q), ~(m.kind = "started" /\ m.thread = t)
        PROVE  Knows(p, s, k, t, n + 1, x)
    BY <1>3, <2>1, <2>2, <2>3, <2>5 DEF Knows
  <2>. QED
    BY <2>4, <2>5 DEF p
<1>. QED
  BY <1>4, <1>5 DEF Knows

\* What a message less does: the store has done what it said.
LEMMA KnowsTail ==
  ASSUME NEW q \in Seq(Spoken), q # <<>>, NEW s, NEW l, NEW v, NEW k,
         NEW t, NEW n \in 1..Len(q), NEW x, Knows(q, s, l, t, n, x),
         StartsHere(q, 1, t) => v[t] # None /\ v[t].id = q[1].session,
         ~StartsHere(q, 1, t) /\ s[t] # None => v[t] # None /\ v[t].id = s[t].id,
         ~StartsHere(q, 1, t) /\ t \in l => t \in k
  PROVE  Knows(Tail(q), v, k, t, n - 1, x)
<1>. DEFINE p == Tail(q)
<1>1. /\ Len(q) \in Nat \ {0}
      /\ \A i \in 1..(Len(q) - 1) : p[i] = q[i + 1]
  BY TailIs
<1>. HIDE DEF p
<1>2. \A i \in 1..(n - 1) : StartsHere(p, i, t) <=> StartsHere(q, i + 1, t)
  BY <1>1 DEF StartsHere
<1>3. CASE \E j \in 1..n : /\ StartsHere(q, j, t) /\ q[j].session = x
                           /\ \A i \in (j + 1)..n : ~StartsHere(q, i, t)
  <2>1. PICK j \in 1..n : /\ StartsHere(q, j, t) /\ q[j].session = x
                          /\ \A i \in (j + 1)..n : ~StartsHere(q, i, t)
    BY <1>3
  <2>2. CASE j = 1
    <3>1. \A i \in 1..(n - 1) : i + 1 \in (j + 1)..n
      BY <1>1, <2>2
    <3>2. \A i \in 1..(n - 1) : ~StartsHere(p, i, t)
      BY <1>2, <2>1, <3>1
    <3>. QED
      BY <2>1, <2>2, <3>2 DEF Knows, p
  <2>3. CASE j # 1
    <3>1. j - 1 \in 1..(n - 1) /\ (j - 1) + 1 = j
      BY <1>1, <2>1, <2>3
    <3>2. StartsHere(p, j - 1, t) /\ p[j - 1].session = x
      BY <1>1, <1>2, <2>1, <3>1
    <3>3. \A i \in j..(n - 1) : i \in 1..(n - 1) /\ i + 1 \in (j + 1)..n
      BY <1>1, <2>1
    <3>4. \A i \in ((j - 1) + 1)..(n - 1) : ~StartsHere(p, i, t)
      BY <1>2, <2>1, <3>1, <3>3
    <3>. QED
      BY <3>1, <3>2, <3>4 DEF Knows, p
  <2>. QED
    BY <2>2, <2>3
<1>4. CASE /\ \A i \in 1..n : ~StartsHere(q, i, t)
           /\ t \in l \/ (s[t] # None /\ s[t].id = x)
  <2>1. \A i \in 1..(n - 1) : i + 1 \in 1..n
    BY <1>1
  <2>2. \A i \in 1..(n - 1) : ~StartsHere(p, i, t)
    BY <1>2, <1>4, <2>1
  <2>3. 1 \in 1..n
    BY <1>1
  <2>4. t \in k \/ (v[t] # None /\ v[t].id = x)
    BY <1>4, <2>3
  <2>. QED
    BY <2>2, <2>4 DEF Knows, p
<1>. QED
  BY <1>3, <1>4 DEF Knows

-----------------------------------------------------------------------------
(* The steps. *)

LEMMA VoiceStart == PageInit => VoiceInv
<1>1. ASSUME PageInit PROVE VoiceInv
  <2>1. Voice!Init
    BY <1>1 DEF PageInit
  <2>2. VoiceTypes
    BY <2>1, PageAssumption DEF Voice!Init, VoiceTypes
  <2>3. UrlsAre
    BY <2>1 DEF Voice!Init, UrlsAre, HasSession, Voice!Owned
  <2>4. OrderIs
    BY <2>1 DEF Voice!Init, OrderIs
  <2>5. Voice!PartsOfOneSession
    BY <2>1 DEF Voice!Init, Voice!PartsOfOneSession
  <2>. QED
    BY <2>2, <2>3, <2>4, <2>5 DEF VoiceInv
<1>. QED
  BY <1>1

\* Codex says something of a thread: the store has not seen it yet.
LEMMA VoiceSends ==
  ASSUME VoiceInv, NEW t \in Threads, NEW m \in Spoken, m.thread = t,
         Voice!Send(m), missed' = IF connected \/ m.kind # "started" THEN missed ELSE missed \cup {t},
         rate' \in [Threads -> Nat],
         \/ m.kind = "started" /\ source' = [source EXCEPT ![t] = m.session]
         \/ /\ m.kind # "started" /\ source[t] # 0 /\ m.session = source[t]
            /\ source' = source \/ source' = [source EXCEPT ![t] = 0]
  PROVE  VoiceInv'
<1>1. /\ sent' \in Nat /\ connected' = connected /\ sessions' = sessions /\ timers' = timers
      /\ urls' = urls /\ made' = made
      /\ arriving' = IF connected THEN Append(arriving, m) ELSE arriving
  BY DEF Voice!Send, Voice!pageVars, VoiceInv, VoiceTypes
<1>2. /\ arriving \in Seq(Spoken) /\ Len(arriving) \in Nat /\ DOMAIN arriving = 1..Len(arriving)
      /\ missed \subseteq missed'
  BY DEF VoiceInv, VoiceTypes
<1>3. /\ source \in [Threads -> Nat] /\ m.session \in Nat
      /\ source' \in [Threads -> Nat]
      /\ \A u \in Threads : source'[u] # 0 /\ ~(m.kind = "started" /\ u = t) => source'[u] = source[u]
      /\ m.kind = "started" => source'[t] = m.session
  BY DEF VoiceInv, VoiceTypes, Spoken
<1>4. VoiceTypes'
  <2>1. arriving' \in Seq(Spoken)
    BY <1>1, <1>2, AppendIs
  <2>. QED
    BY <1>1, <1>3, <2>1 DEF VoiceInv, VoiceTypes
<1>5. UrlsAre'
  BY <1>1 DEF VoiceInv, UrlsAre, HasSession, Plays, Voice!Owned
<1>6. Voice!PartsOfOneSession'
  BY <1>1, <1>2 DEF VoiceInv, Voice!PartsOfOneSession
<1>7. CASE connected
  <2>1. /\ arriving' = Append(arriving, m) /\ Len(arriving') = Len(arriving) + 1
        /\ DOMAIN arriving' = 1..(Len(arriving) + 1) /\ arriving'[Len(arriving) + 1] = m
        /\ \A i \in 1..Len(arriving) : arriving'[i] = arriving[i]
    BY <1>1, <1>2, <1>7, AppendIs
  <2>2. ASSUME NEW i \in DOMAIN arriving', arriving'[i].kind # "started"
        PROVE  Knows(arriving', sessions', missed', arriving'[i].thread, i - 1, arriving'[i].session)
    <3>1. CASE i \in 1..Len(arriving)
      <4>1. arriving'[i] = arriving[i] /\ i - 1 \in 0..Len(arriving)
        BY <1>2, <2>1, <3>1
      <4>2. Knows(arriving, sessions, missed, arriving[i].thread, i - 1, arriving[i].session)
        BY <1>2, <2>2, <3>1, <4>1 DEF VoiceInv, OrderIs, KnowsNow
      <4>3. Knows(Append(arriving, m), sessions, missed', arriving[i].thread, i - 1, arriving[i].session)
        BY <1>2, <4>1, <4>2, KnowsAppend
      <4>. QED
        BY <1>1, <2>1, <4>1, <4>3
    <3>2. CASE i = Len(arriving) + 1
      <4>1. arriving'[i] = m /\ i - 1 = Len(arriving)
        BY <1>2, <2>1, <3>2
      <4>2. m.kind # "started" /\ source[t] # 0 /\ m.session = source[t]
        BY <2>2, <4>1
      <4>3. Knows(arriving, sessions, missed, t, Len(arriving), m.session)
        BY <1>2, <4>2 DEF VoiceInv, OrderIs, KnowsNow
      <4>4. Len(arriving) \in 0..Len(arriving)
        BY <1>2
      <4>5. Knows(Append(arriving, m), sessions, missed', t, Len(arriving), m.session)
        BY <1>2, <4>3, <4>4, KnowsAppend
      <4>. QED
        BY <1>1, <2>1, <4>1, <4>5
    <3>. QED
      BY <1>2, <2>1, <3>1, <3>2
  <2>3. ASSUME NEW u \in Threads, source'[u] # 0
        PROVE  Knows(arriving', sessions', missed', u, Len(arriving'), source'[u])
    <3>1. CASE m.kind = "started" /\ u = t
      <4>1. StartsHere(arriving', Len(arriving'), u) /\ arriving'[Len(arriving')].session = source'[u]
        BY <1>3, <2>1, <3>1 DEF StartsHere
      <4>2. /\ Len(arriving') \in 1..Len(arriving')
            /\ \A i \in (Len(arriving') + 1)..Len(arriving') : FALSE
        BY <1>2, <2>1
      <4>. QED
        BY <4>1, <4>2 DEF Knows
    <3>2. CASE ~(m.kind = "started" /\ u = t)
      <4>1. source'[u] = source[u]
        BY <1>3, <2>3, <3>2
      <4>2. Knows(arriving, sessions, missed, u, Len(arriving), source[u])
        BY <2>3, <4>1 DEF VoiceInv, OrderIs, KnowsNow
      <4>3. ~(m.kind = "started" /\ m.thread = u) /\ Len(arriving) \in 0..Len(arriving)
        BY <1>2, <3>2
      <4>4. Knows(arriving', sessions', missed', u, Len(arriving) + 1, source[u])
        BY <1>1, <1>2, <2>1, <4>2, <4>3, KnowsAppend
      <4>. QED
        BY <2>1, <4>1, <4>4
    <3>. QED
      BY <3>1, <3>2
  <2>. QED
    BY <1>4, <1>5, <1>6, <2>2, <2>3 DEF VoiceInv, OrderIs, KnowsNow
<1>8. CASE ~connected
  <2>1. /\ arriving = <<>> /\ arriving' = arriving /\ DOMAIN arriving' = {} /\ Len(arriving') = 0
        /\ Len(arriving) = 0 /\ \A i \in 1..0 : FALSE
    BY <1>1, <1>8 DEF VoiceInv, VoiceTypes
  <2>2. ASSUME NEW u \in Threads, source'[u] # 0
        PROVE  Knows(arriving', sessions', missed', u, 0, source'[u])
    <3>1. CASE m.kind = "started" /\ u = t
      BY <1>8, <2>1, <3>1 DEF Knows
    <3>2. CASE ~(m.kind = "started" /\ u = t)
      <4>1. source'[u] = source[u]
        BY <1>3, <2>2, <3>2
      <4>2. Knows(arriving, sessions, missed, u, 0, source[u])
        BY <2>1, <2>2, <4>1 DEF VoiceInv, OrderIs, KnowsNow
      <4>3. u \in missed \/ (sessions[u] # None /\ sessions[u].id = source[u])
        BY <2>1, <4>2 DEF Knows
      <4>. QED
        BY <1>1, <1>2, <2>1, <4>1, <4>3 DEF Knows
    <3>. QED
      BY <3>1, <3>2
  <2>. QED
    BY <1>4, <1>5, <1>6, <2>1, <2>2 DEF VoiceInv, OrderIs, KnowsNow
<1>. QED
  BY <1>7, <1>8

\* What the store makes of a message, or of a timer, leaves of the sessions of the threads.
LEMMA VoiceHears ==
  ASSUME VoiceInv, NEW t \in Threads, NEW n \in Nat, NEW s, Sounds(t, s),
         \/ Fresh(t, n, s)
         \/ (t \in missed \/ (HasSession(t) /\ sessions[t].id = n)) /\ Grown(t, n, s),
         missed' = missed \/ (Fresh(t, n, s) /\ missed' = missed \ {t})
  PROVE  UrlsAre' /\ Voice!PartsOfOneSession'
<1>1. UrlsAre'
  BY SoundChanges DEF Sounds, VoiceInv
<1>2. /\ sessions'[t] = s /\ \A x \in Threads \ {t} : sessions'[x] = sessions[x]
      /\ \A x \in Threads \ {t} : x \in missed <=> x \in missed'
  BY DEF Sounds, VoiceInv, VoiceTypes
<1>3. ASSUME NEW x \in Threads \ missed', sessions'[x] # None,
             NEW parts \in {sessions'[x].items, sessions'[x].chunks},
             NEW i \in DOMAIN parts
      PROVE  parts[i] = sessions'[x].id
  <2>1. CASE x # t
    <3>1. x \in Threads \ missed /\ sessions'[x] = sessions[x]
      BY <1>2, <1>3, <2>1
    <3>. QED
      BY <1>3, <3>1 DEF VoiceInv, Voice!PartsOfOneSession
  <2>2. CASE x = t /\ Fresh(t, n, s)
    BY <1>2, <1>3, <2>2 DEF Fresh
  <2>3. CASE x = t /\ ~Fresh(t, n, s)
    <3>1. t \notin missed /\ HasSession(t) /\ sessions[t].id = n /\ Grown(t, n, s)
      BY <1>3, <2>3
    <3>2. Voice!Found(t) = sessions[t] /\ sessions[t] \in Voice!Session
      BY <3>1, FoundIs DEF VoiceInv
    <3>3. s.id = n
      BY <3>1, <3>2 DEF Grown
    <3>4. \A q \in {sessions[t].items, sessions[t].chunks} :
            q \in Seq(Nat) /\ \A j \in DOMAIN q : q[j] = n
      BY <3>1, <3>2 DEF HasSession, VoiceInv, Voice!PartsOfOneSession, Voice!Session
    <3>5. \E q \in {sessions[t].items, sessions[t].chunks} : parts = q \/ parts = Append(q, n)
      BY <1>2, <1>3, <2>3, <3>1, <3>2 DEF Grown
    <3>6. parts[i] = n
      <4>1. PICK q \in {sessions[t].items, sessions[t].chunks} : parts = q \/ parts = Append(q, n)
        BY <3>5
      <4>2. q \in Seq(Nat) /\ \A j \in DOMAIN q : q[j] = n
        BY <3>4
      <4>3. CASE parts = q
        BY <1>3, <4>2, <4>3
      <4>4. CASE parts = Append(q, n)
        <5>1. i \in DOMAIN q \/ i = Len(q) + 1
          BY <1>3, <4>2, <4>4, AppendIs
        <5>. QED
          BY <4>2, <4>4, <5>1, AppendIs
      <4>. QED
        BY <4>1, <4>3, <4>4
    <3>. QED
      BY <1>2, <2>3, <3>3, <3>6
  <2>. QED
    BY <2>1, <2>2, <2>3
<1>. QED
  BY <1>1, <1>3 DEF Voice!PartsOfOneSession

LEMMA VoiceReceives ==
  ASSUME VoiceInv, Voice!Receive
  PROVE  VoiceInv'
<1>. DEFINE m == Head(arriving)
            t == m.thread
<1>1. /\ connected /\ arriving \in Seq(Spoken) /\ arriving # <<>> /\ arriving' = Tail(arriving)
      /\ connected' = connected /\ source' = source /\ rate' = rate /\ sent' = sent
  BY DEF Voice!Receive, Voice!wireVars, VoiceInv, VoiceTypes
<1>2. /\ m \in Spoken /\ m = arriving[1] /\ Tail(arriving) \in Seq(Spoken)
      /\ Len(arriving) \in Nat \ {0} /\ DOMAIN arriving = 1..Len(arriving)
      /\ DOMAIN arriving' = 1..(Len(arriving) - 1) /\ Len(arriving') = Len(arriving) - 1
      /\ \A i \in DOMAIN arriving' : i + 1 \in DOMAIN arriving /\ arriving'[i] = arriving[i + 1]
  BY <1>1, TailIs
<1>3. /\ t \in Threads /\ m.session \in Nat /\ m.rate \in Nat /\ m.kind \in Kinds
  BY <1>2 DEF Spoken
<1>4. /\ \/ m.kind = "started" /\ Voice!StartRealtimeSession(t, m.session)
         \/ m.kind = "item" /\ Voice!AppendRealtimeItem(t, m.session)
         \/ m.kind = "audio" /\ Voice!AppendRealtimeAudio(t, m.session, m.rate)
         \/ m.kind = "error" /\ Voice!FailRealtimeSession(t)
         \/ m.kind = "closed" /\ Voice!CloseRealtimeSession(t)
      /\ missed' = IF m.kind = "started" THEN missed \ {t} ELSE missed
  BY DEF Voice!Receive
<1>5. VoiceTypes /\ UrlsAre
  BY DEF VoiceInv
<1>. HIDE DEF m
<1>6. \E s : Sounds(t, s) /\ \/ m.kind = "started" /\ Fresh(t, m.session, s)
                             \/ m.kind # "started" /\ Grown(t, m.session, s)
  <2>1. CASE m.kind = "started" /\ Voice!StartRealtimeSession(t, m.session)
    BY <1>3, <1>5, <2>1, StartIs
  <2>2. CASE m.kind = "item" /\ Voice!AppendRealtimeItem(t, m.session)
    BY <1>3, <1>5, <2>2, ItemIs
  <2>3. CASE m.kind = "audio" /\ Voice!AppendRealtimeAudio(t, m.session, m.rate)
    BY <1>3, <1>5, <2>3, AudioIs
  <2>4. CASE m.kind = "error" /\ Voice!FailRealtimeSession(t)
    BY <1>3, <1>5, <2>4, FailIs
  <2>5. CASE m.kind = "closed" /\ Voice!CloseRealtimeSession(t)
    BY <1>3, <1>5, <2>5, CloseIs
  <2>. QED
    BY <1>4, <2>1, <2>2, <2>3, <2>4, <2>5
<1>7. PICK s : Sounds(t, s) /\ \/ m.kind = "started" /\ Fresh(t, m.session, s)
                               \/ m.kind # "started" /\ Grown(t, m.session, s)
  BY <1>6
<1>. HIDE DEF t
<1>8. \A i \in 1..0 : FALSE
  OBVIOUS
<1>9. m.kind # "started" => t \in missed \/ (HasSession(t) /\ sessions[t].id = m.session)
  <2>1. m.kind # "started" => KnowsNow(t, 0, m.session)
    BY <1>2 DEF VoiceInv, OrderIs, t
  <2>. QED
    BY <1>8, <2>1 DEF KnowsNow, Knows, HasSession
<1>10. UrlsAre' /\ Voice!PartsOfOneSession'
  <2>1. \/ Fresh(t, m.session, s)
        \/ (t \in missed \/ (HasSession(t) /\ sessions[t].id = m.session)) /\ Grown(t, m.session, s)
    BY <1>7, <1>9
  <2>2. missed' = missed \/ (Fresh(t, m.session, s) /\ missed' = missed \ {t})
    BY <1>4, <1>7 DEF t
  <2>3. Sounds(t, s)
    BY <1>7
  <2>. QED
    BY <1>3, <2>1, <2>2, <2>3, VoiceHears
<1>11. VoiceTypes'
  <2>1. sessions' \in [Threads -> Voice!Session \cup {None}] /\ made' \in Nat
    BY <1>3, <1>5, <1>7 DEF Sounds, VoiceTypes
  <2>. QED
    BY <1>1, <1>2, <1>5, <2>1 DEF VoiceTypes
<1>12. ASSUME NEW u \in Threads, NEW n \in 1..Len(arriving), NEW x, KnowsNow(u, n, x)
       PROVE  Knows(arriving', sessions', missed', u, n - 1, x)
  <2>1. /\ sessions'[t] = s /\ s \in Voice!Session /\ s # None
        /\ \A y \in Threads \ {t} : sessions'[y] = sessions[y]
    BY <1>3, <1>5, <1>7, PageAssumption DEF Sounds, VoiceTypes
  <2>2. StartsHere(arriving, 1, u) => sessions'[u] # None /\ sessions'[u].id = arriving[1].session
    BY <1>2, <1>7, <2>1 DEF StartsHere, Fresh, t
  <2>3. ~StartsHere(arriving, 1, u) /\ sessions[u] # None =>
          sessions'[u] # None /\ sessions'[u].id = sessions[u].id
    <3>1. CASE u # t
      BY <2>1, <3>1
    <3>2. CASE u = t
      <4>1. ~StartsHere(arriving, 1, u) => Grown(t, m.session, s)
        BY <1>2, <1>7, <3>2 DEF StartsHere, t
      <4>2. sessions[t] # None => Voice!Found(t) = sessions[t]
        BY <1>3, <1>5, FoundIs DEF HasSession
      <4>. QED
        BY <2>1, <3>2, <4>1, <4>2 DEF Grown
    <3>. QED
      BY <3>1, <3>2
  <2>4. ~StartsHere(arriving, 1, u) /\ u \in missed => u \in missed'
    BY <1>2, <1>4 DEF StartsHere, t
  <2>5. Knows(Tail(arriving), sessions', missed', u, n - 1, x)
    BY <1>1, <1>12, <2>2, <2>3, <2>4, KnowsTail DEF KnowsNow
  <2>. QED
    BY <1>1, <2>5
<1>13. ASSUME NEW i \in DOMAIN arriving', arriving'[i].kind # "started"
       PROVE  Knows(arriving', sessions', missed', arriving'[i].thread, i - 1, arriving'[i].session)
  <2>1. /\ i + 1 \in DOMAIN arriving /\ arriving'[i] = arriving[i + 1]
        /\ i \in 1..Len(arriving) /\ (i + 1) - 1 = i
    BY <1>2, <1>13
  <2>2. KnowsNow(arriving[i + 1].thread, i, arriving[i + 1].session)
    BY <1>13, <2>1 DEF VoiceInv, OrderIs
  <2>3. arriving[i + 1].thread \in Threads
    <3>1. arriving[i + 1] \in Spoken
      BY <1>1, <2>1
    <3>. QED
      BY <3>1 DEF Spoken
  <2>. QED
    BY <1>12, <2>1, <2>2, <2>3
<1>14. ASSUME NEW u \in Threads, source'[u] # 0
       PROVE  Knows(arriving', sessions', missed', u, Len(arriving'), source'[u])
  <2>1. KnowsNow(u, Len(arriving), source[u]) /\ Len(arriving) \in 1..Len(arriving)
    BY <1>1, <1>2, <1>14 DEF VoiceInv, OrderIs
  <2>. QED
    BY <1>1, <1>2, <1>12, <2>1
<1>. QED
  BY <1>10, <1>11, <1>13, <1>14 DEF VoiceInv, OrderIs, KnowsNow

LEMMA VoiceTimes ==
  ASSUME VoiceInv, NEW t \in Threads, Voice!TimerFires(t)
  PROVE  VoiceInv'
<1>1. /\ VoiceTypes /\ UrlsAre /\ HasSession(t) /\ Voice!Rebuild(t, sessions[t])
      /\ Voice!Found(t) = sessions[t] /\ sessions[t] \in Voice!Session
      /\ connected' = connected /\ source' = source /\ rate' = rate /\ sent' = sent
      /\ arriving' = arriving /\ missed' = missed
  BY FoundIs DEF Voice!TimerFires, Voice!wireVars, VoiceInv, HasSession
<1>2. sessions[t].id \in Nat
  BY <1>1 DEF Voice!Session
<1>3. PICK s : Sounds(t, s) /\ Grown(t, sessions[t].id, s)
  BY <1>1, <1>2, RebuildIs
<1>4. UrlsAre' /\ Voice!PartsOfOneSession'
  BY <1>1, <1>2, <1>3, VoiceHears
<1>5. VoiceTypes'
  <2>1. sessions' \in [Threads -> Voice!Session \cup {None}] /\ made' \in Nat
    BY <1>1, <1>3 DEF Sounds, VoiceTypes
  <2>. QED
    BY <1>1, <2>1 DEF VoiceTypes
<1>6. \A u \in Threads : /\ sessions'[u] # None <=> sessions[u] # None
                         /\ sessions[u] # None => sessions'[u].id = sessions[u].id
  <2>1. s # None
    BY <1>3, PageAssumption DEF Sounds
  <2>. QED
    BY <1>1, <1>3, <2>1 DEF Sounds, Grown, VoiceTypes, HasSession
<1>7. ASSUME NEW u \in Threads, NEW n, NEW x, KnowsNow(u, n, x)
      PROVE  Knows(arriving', sessions', missed', u, n, x)
  BY <1>1, <1>6, <1>7 DEF KnowsNow, Knows
<1>8. \A i \in DOMAIN arriving : arriving[i].thread \in Threads
  <2>1. \A i \in DOMAIN arriving : arriving[i] \in Spoken
    BY <1>1 DEF VoiceTypes
  <2>. QED
    BY <2>1 DEF Spoken
<1>9. OrderIs'
  BY <1>1, <1>7, <1>8 DEF VoiceInv, OrderIs, KnowsNow
<1>. QED
  BY <1>4, <1>5, <1>9 DEF VoiceInv

\* A socket that closes takes what is on its way: what it said of a session is missed.
LEMMA VoiceCloses ==
  ASSUME VoiceInv, Voice!SocketCloses
  PROVE  VoiceInv'
<1>1. /\ connected' = FALSE /\ source' = source /\ rate' = rate /\ sent' = sent
      /\ sessions' = sessions /\ timers' = timers /\ urls' = urls /\ made' = made
      /\ arriving' = <<>> /\ missed \subseteq missed'
      /\ \A i \in DOMAIN arriving : arriving[i].kind = "started" => arriving[i].thread \in missed'
  BY DEF Voice!SocketCloses, Voice!pageVars
<1>2. VoiceTypes' /\ UrlsAre' /\ Voice!PartsOfOneSession'
  BY <1>1 DEF VoiceInv, VoiceTypes, UrlsAre, HasSession, Plays, Voice!Owned, Voice!PartsOfOneSession
<1>3. ASSUME NEW u \in Threads, source[u] # 0
      PROVE  Knows(arriving', sessions', missed', u, 0, source[u])
  <2>1. KnowsNow(u, Len(arriving), source[u]) /\ DOMAIN arriving = 1..Len(arriving)
    BY <1>3 DEF VoiceInv, OrderIs, VoiceTypes
  <2>2. u \in missed' \/ (sessions'[u] # None /\ sessions'[u].id = source[u])
    BY <1>1, <2>1 DEF KnowsNow, Knows, StartsHere
  <2>3. \A i \in 1..0 : FALSE
    OBVIOUS
  <2>. QED
    BY <2>2, <2>3 DEF Knows
<1>4. Len(arriving') = 0 /\ DOMAIN arriving' = {}
  BY <1>1
<1>. QED
  BY <1>1, <1>2, <1>3, <1>4 DEF VoiceInv, OrderIs, KnowsNow

LEMMA VoiceStep == VoiceInv /\ [PageNext]_<<part, vars, listVars, voiceVars, queueVars>> => VoiceInv'
<1>. SUFFICES ASSUME VoiceInv, [PageNext]_<<part, vars, listVars, voiceVars, queueVars>>
              PROVE  VoiceInv'
  OBVIOUS
<1>1. ASSUME Voice!Next
      PROVE  VoiceInv'
  <2>. USE DEF VoiceInv
  <2>1. source \in [Threads -> Nat] /\ rate \in [Threads -> Nat] /\ sent \in Nat
    BY DEF VoiceTypes
  <2>2. ASSUME NEW t \in Threads, Voice!Started(t)
        PROVE  VoiceInv'
    <3>. DEFINE m == [Voice!Message("started", t) EXCEPT !.session = sent + 1]
    <3>1. /\ m \in Spoken /\ m.thread = t /\ m.kind = "started" /\ m.session = sent + 1
      BY <2>1 DEF Voice!Message, Spoken, Kinds
    <3>2. /\ Voice!Send(m) /\ source' = [source EXCEPT ![t] = sent + 1]
          /\ missed' = IF connected THEN missed ELSE missed \cup {t}
          /\ rate' \in [Threads -> Nat]
      BY <2>1, <2>2, PageAssumption DEF Voice!Started
    <3>. HIDE DEF m
    <3>. QED
      BY <3>1, <3>2, VoiceSends
  <2>3. ASSUME NEW t \in Threads, NEW kind \in {"audio", "item", "error", "closed"},
               NEW r \in Nat, source[t] # 0,
               Voice!Send([Voice!Message(kind, t) EXCEPT !.rate = r]),
               source' = source \/ source' = [source EXCEPT ![t] = 0],
               rate' = rate, missed' = missed
        PROVE  VoiceInv'
    <3>. DEFINE m == [Voice!Message(kind, t) EXCEPT !.rate = r]
    <3>1. /\ m \in Spoken /\ m.thread = t /\ m.kind # "started" /\ m.session = source[t]
      BY <2>1 DEF Voice!Message, Spoken, Kinds
    <3>2. Voice!Send(m)
      BY <2>3
    <3>. HIDE DEF m
    <3>. QED
      BY <2>1, <2>3, <3>1, <3>2, VoiceSends
  <2>4. \A kind, t : [Voice!Message(kind, t) EXCEPT !.rate = 0] = Voice!Message(kind, t)
    BY DEF Voice!Message
  <2>5. ASSUME NEW t \in Threads, Voice!AudioDelta(t)
        PROVE  VoiceInv'
    <3>1. PICK r \in {rate[t], 0} : Voice!Send([Voice!Message("audio", t) EXCEPT !.rate = r])
      BY <2>5 DEF Voice!AudioDelta
    <3>2. r \in Nat
      BY <2>1, <3>1
    <3>. QED
      BY <2>3, <2>5, <3>1, <3>2 DEF Voice!AudioDelta
  <2>6. ASSUME NEW t \in Threads, Voice!ItemAdded(t)
        PROVE  VoiceInv'
    BY <2>3, <2>4, <2>6 DEF Voice!ItemAdded
  <2>7. ASSUME NEW t \in Threads, Voice!Failed(t)
        PROVE  VoiceInv'
    BY <2>3, <2>4, <2>7 DEF Voice!Failed
  <2>8. ASSUME NEW t \in Threads, Voice!Closed(t)
        PROVE  VoiceInv'
    BY <2>3, <2>4, <2>8 DEF Voice!Closed
  <2>9. ASSUME NEW t \in Threads, Voice!TimerFires(t)
        PROVE  VoiceInv'
    BY <2>9, VoiceTimes
  <2>10. CASE Voice!Receive
    BY <2>10, VoiceReceives
  <2>11. CASE Voice!SocketCloses
    BY <2>11, VoiceCloses
  <2>12. CASE Voice!SocketOpens
    BY <2>12 DEF Voice!SocketOpens, Voice!pageVars, VoiceTypes, UrlsAre, OrderIs, KnowsNow,
                 HasSession, Plays, Voice!Owned, Voice!PartsOfOneSession
  <2>. QED
    BY <1>1, <2>2, <2>5, <2>6, <2>7, <2>8, <2>9, <2>10, <2>11, <2>12 DEF Voice!Next
<1>2. CASE UNCHANGED voiceVars
  BY <1>2 DEF voiceVars, VoiceInv, VoiceTypes, UrlsAre, OrderIs, KnowsNow, HasSession, Plays,
              Voice!Owned, Voice!PartsOfOneSession
<1>. QED
  BY <1>1, <1>2 DEF PageNext

\* The object URLs the browser keeps are those the sessions play, all the audio of a session
\* is played or due, and a session has parts of itself only, but where the message that
\* started it was lost (appendRealtimeAudio, cleanupRealtimeSession, startRealtimeSession).
THEOREM RealtimeIsAlwaysTrue == PageSpec => []RealtimeIsTrue
<1>1. VoiceInv => RealtimeIsTrue
  BY AudioIsDueFrom DEF VoiceInv, RealtimeIsTrue
<1>. QED
  BY <1>1, VoiceStart, VoiceStep, PTL DEF PageSpec

-----------------------------------------------------------------------------
(* The queue of prompts.  Every call has a number; what codex may get of an    *)
(* entry is counted by the prompts it took and the calls on their way (Count). *)

\* No member twice.
Once(s) == \A i, j \in DOMAIN s : s[i] = s[j] => i = j

\* Sequences put together, without a member, and parts of one.
LEMMA MembersAre ==
  ASSUME NEW S, NEW s \in Seq(S)
  PROVE  /\ ToSet(s) \subseteq S /\ IsFiniteSet(ToSet(s))
         /\ \A x \in ToSet(s) : \E i \in DOMAIN s : s[i] = x
         /\ \A i \in DOMAIN s : s[i] \in ToSet(s)
<1>1. Len(s) \in Nat /\ DOMAIN s = 1..Len(s) /\ s \in [1..Len(s) -> S]
  BY LenProperties
<1>2. s \in Surjection(1..Len(s), ToSet(s))
  BY <1>1 DEF Surjection, ToSet
<1>3. IsFiniteSet(1..Len(s))
  BY <1>1, FS_Interval
<1>4. IsFiniteSet(ToSet(s))
  BY <1>2, <1>3, FS_Surjection
<1>. QED
  BY <1>1, <1>4 DEF ToSet

LEMMA ConcatOnce ==
  ASSUME NEW S, NEW s \in Seq(S), NEW t \in Seq(S)
  PROVE  /\ s \o t \in Seq(S)
         /\ ToSet(s \o t) = ToSet(s) \cup ToSet(t)
         /\ Once(s) /\ Once(t) /\ ToSet(s) \cap ToSet(t) = {} => Once(s \o t)
<1>. DEFINE u == s \o t
<1>1. /\ Len(s) \in Nat /\ DOMAIN s = 1..Len(s) /\ Len(t) \in Nat /\ DOMAIN t = 1..Len(t)
  OBVIOUS
<1>2. /\ u \in Seq(S) /\ DOMAIN u = 1..(Len(s) + Len(t))
      /\ \A i \in 1..(Len(s) + Len(t)) : u[i] = IF i <= Len(s) THEN s[i] ELSE t[i - Len(s)]
  <2>1. /\ u \in Seq(S) /\ Len(u) = Len(s) + Len(t)
        /\ \A i \in 1..(Len(s) + Len(t)) : u[i] = IF i <= Len(s) THEN s[i] ELSE t[i - Len(s)]
    BY ConcatProperties
  <2>. QED
    BY <2>1
<1>. HIDE DEF u
<1>3. \A i \in DOMAIN u : \/ i \in DOMAIN s /\ u[i] = s[i]
                          \/ i - Len(s) \in DOMAIN t /\ u[i] = t[i - Len(s)] /\ ~(i <= Len(s))
  BY <1>1, <1>2
<1>4. \A i \in DOMAIN s : i \in DOMAIN u /\ u[i] = s[i]
  BY <1>1, <1>2
<1>5. \A i \in DOMAIN t : i + Len(s) \in DOMAIN u /\ u[i + Len(s)] = t[i]
  <2>. TAKE i \in DOMAIN t
  <2>1. i + Len(s) \in 1..(Len(s) + Len(t)) /\ ~(i + Len(s) <= Len(s)) /\ (i + Len(s)) - Len(s) = i
    BY <1>1
  <2>. QED
    BY <1>2, <2>1
<1>6. ToSet(u) = ToSet(s) \cup ToSet(t)
  BY <1>3, <1>4, <1>5 DEF ToSet
<1>7. ASSUME Once(s), Once(t), ToSet(s) \cap ToSet(t) = {}, NEW i \in DOMAIN u, NEW j \in DOMAIN u,
             u[i] = u[j]
      PROVE  i = j
  <2>1. \A k \in DOMAIN s : s[k] \in ToSet(s)
    BY DEF ToSet
  <2>2. \A k \in DOMAIN t : t[k] \in ToSet(t)
    BY DEF ToSet
  <2>3. i \in Int /\ j \in Int
    BY <1>1, <1>2
  <2>. QED
    BY <1>1, <1>3, <1>7, <2>1, <2>2, <2>3 DEF Once
<1>. QED
  BY <1>2, <1>6, <1>7 DEF Once, u

LEMMA RemoveOnce ==
  ASSUME NEW S, NEW s \in Seq(S), NEW k \in DOMAIN s, Once(s)
  PROVE  /\ RemoveAt(s, k) \in Seq(S) /\ Once(RemoveAt(s, k))
         /\ ToSet(RemoveAt(s, k)) = ToSet(s) \ {s[k]}
<1>. DEFINE u == RemoveAt(s, k)
<1>1. /\ u \in Seq(S) /\ Len(s) \in Nat \ {0} /\ DOMAIN s = 1..Len(s) /\ DOMAIN u = 1..(Len(s) - 1)
      /\ \A j \in 1..(Len(s) - 1) : u[j] = s[IF j < k THEN j ELSE j + 1]
  BY RemoveAtIs
<1>. HIDE DEF u
<1>2. k \in 1..Len(s)
  BY <1>1
<1>3. \A j \in DOMAIN u : LET i == IF j < k THEN j ELSE j + 1 IN i \in DOMAIN s /\ i # k /\ u[j] = s[i]
  BY <1>1, <1>2
<1>4. \A i \in DOMAIN s : i # k => \E j \in DOMAIN u : u[j] = s[i]
  <2>. SUFFICES ASSUME NEW i \in DOMAIN s, i # k
                PROVE  \E j \in DOMAIN u : u[j] = s[i]
    OBVIOUS
  <2>1. CASE i < k
    BY <1>1, <1>2, <2>1
  <2>2. CASE ~(i < k)
    <3>1. i - 1 \in DOMAIN u /\ ~(i - 1 < k) /\ (i - 1) + 1 = i
      BY <1>1, <1>2, <2>2
    <3>. QED
      BY <1>1, <3>1
  <2>. QED
    BY <2>1, <2>2
<1>5. ToSet(u) = ToSet(s) \ {s[k]}
  <2>1. \A x \in ToSet(u) : x \in ToSet(s) /\ x # s[k]
    BY <1>3 DEF ToSet, Once
  <2>2. \A x \in ToSet(s) \ {s[k]} : x \in ToSet(u)
    BY <1>4 DEF ToSet
  <2>. QED
    BY <2>1, <2>2
<1>6. Once(u)
  <2>. SUFFICES ASSUME NEW i \in DOMAIN u, NEW j \in DOMAIN u, u[i] = u[j]
                PROVE  i = j
    BY DEF Once
  <2>1. (IF i < k THEN i ELSE i + 1) = (IF j < k THEN j ELSE j + 1)
    BY <1>3 DEF Once
  <2>. QED
    BY <1>1, <1>2, <2>1
<1>. QED
  BY <1>1, <1>5, <1>6 DEF u

LEMMA PartOnce ==
  ASSUME NEW S, NEW s \in Seq(S), NEW m \in 1..(Len(s) + 1), NEW n \in 0..Len(s)
  PROVE  /\ SubSeq(s, m, n) \in Seq(S) /\ ToSet(SubSeq(s, m, n)) \subseteq ToSet(s)
         /\ Once(s) => Once(SubSeq(s, m, n))
<1>. DEFINE u == SubSeq(s, m, n)
<1>1. Len(s) \in Nat /\ DOMAIN s = 1..Len(s) /\ \A i \in m..n : i \in DOMAIN s /\ s[i] \in S
  OBVIOUS
<1>2. /\ u \in Seq(S) /\ Len(u) = (IF m <= n THEN n - m + 1 ELSE 0)
      /\ \A i \in 1..(n - m + 1) : u[i] = s[m + i - 1]
  BY <1>1, SubSeqProperties
<1>. HIDE DEF u
<1>3. DOMAIN u = 1..Len(u)
  BY <1>2
<1>4. \A i \in DOMAIN u : i \in Nat /\ m + i - 1 \in DOMAIN s /\ u[i] = s[m + i - 1]
  BY <1>1, <1>2, <1>3
<1>5. ToSet(u) \subseteq ToSet(s)
  BY <1>4 DEF ToSet
<1>6. Once(s) => Once(u)
  BY <1>4 DEF Once
<1>. QED
  BY <1>2, <1>5, <1>6 DEF u

QueueKinds == {"queued", "direct", "resume", "read"}
QueueCalls == [id : Nat, kind : QueueKinds, entry : Nat]
QueueMessages == [kind : {"turn", "answer"}, id : Nat, turn : Nat, ok : BOOLEAN]

QueueTypes ==
  /\ queue \in Seq(Nat) /\ dispatching \in BOOLEAN /\ loaded \in BOOLEAN
  /\ pending \in SUBSET QueueCalls /\ out \in Seq(QueueCalls) /\ unsent \in Seq(QueueCalls)
  /\ answers \in SUBSET QueueMessages /\ wire \in Seq(QueueMessages)
  /\ sends \in Nat /\ entries \in Nat /\ calls \in Nat /\ drops \in Nat /\ exits \in Nat
  /\ took \in Seq(Nat) /\ live \in Nat

\* The calls that codex has not taken, and how often it may get an entry at most.
OnWay == ToSet(out) \cup ToSet(unsent)
Flying(e) == {c \in OnWay : c.entry = e}
Count(e) == Cardinality(Queue!Occurrences(e)) + Cardinality(Flying(e))

\* Every call has a number of its own, and is in one place on its way.
CallsAre ==
  /\ \A c \in pending \cup OnWay : c.id <= calls /\ c.entry <= entries
  /\ \A c \in pending \cup OnWay : c.kind = "queued" <=> c.entry # 0
  /\ \A c, d \in pending \cup OnWay : c.id = d.id => c = d
  /\ Once(out) /\ Once(unsent) /\ ToSet(out) \cap ToSet(unsent) = {}
  /\ socket => unsent = <<>>

\* An answer of a dispatch says that codex has the prompt, or what was lost.
Fits(a, c) == IF a.ok THEN Queue!Occurrences(c.entry) # {} ELSE Count(c.entry) <= drops + exits
Answered == {a \in answers \cup ToSet(wire) : a.kind = "answer"}
AnswersAre ==
  \A a \in Answered :
    /\ a.id <= calls
    /\ \A c \in pending : c.id = a.id /\ c.kind = "queued" => Fits(a, c)

\* An entry that is not on its way to codex any more is there again only after a loss.
CountsAre ==
  \A e \in 1..entries :
    /\ Count(e) <= drops + exits + 1
    /\ e \in ToSet(queue) /\ (\A c \in pending : c.entry # e) => Count(e) <= drops + exits

TookIs == \A i \in DOMAIN took : took[i] <= entries

QueueIs ==
  /\ \A i \in DOMAIN queue : queue[i] \in 1..entries
  /\ \A i, j \in DOMAIN queue : i < j => queue[i] < queue[j]

DispatchIs ==
  /\ dispatching <=> Queue!Dispatched # {}
  /\ \A c, d \in Queue!Dispatched : c = d
  /\ \A c \in Queue!Dispatched : queue # <<>> /\ c.entry = queue[1]

QueueInv ==
  /\ QueueTypes /\ CallsAre /\ AnswersAre /\ CountsAre /\ TookIs /\ QueueIs /\ DispatchIs
  /\ Queue!NoPromptLost /\ Queue!QueueIsDue

LEMMA QueueStart == PageInit => QueueInv
<1>. SUFFICES ASSUME PageInit
              PROVE  QueueInv
  OBVIOUS
<1>1. Queue!Init
  BY DEF PageInit
<1>2. QueueTypes
  <2>1. <<>> \in Seq(Nat) /\ <<>> \in Seq(QueueCalls) /\ <<>> \in Seq(QueueMessages)
    OBVIOUS
  <2>. QED
    BY <1>1, <2>1 DEF Queue!Init, QueueTypes
<1>3. ToSet(out) = {} /\ ToSet(unsent) = {} /\ ToSet(wire) = {} /\ answers = {} /\ pending = {}
  BY <1>1 DEF Queue!Init, ToSet
<1>4. CallsAre /\ AnswersAre
  BY <1>1, <1>3 DEF Queue!Init, CallsAre, AnswersAre, Answered, Once, OnWay
<1>5. 1..entries = {} /\ queue = <<>> /\ took = <<>>
  BY <1>1 DEF Queue!Init
<1>6. Queue!NoPromptLost /\ Queue!QueueIsDue
  BY <1>5 DEF Queue!NoPromptLost, Queue!QueueIsDue
<1>7. CountsAre /\ TookIs /\ QueueIs /\ DispatchIs
  BY <1>1, <1>3, <1>5 DEF Queue!Init, CountsAre, TookIs, QueueIs, DispatchIs, Queue!Dispatched
<1>. QED
  BY <1>2, <1>4, <1>6, <1>7 DEF QueueInv

\* What is counted is finite.
LEMMA CountIs ==
  ASSUME QueueTypes, NEW e \in Nat
  PROVE  /\ IsFiniteSet(Queue!Occurrences(e)) /\ IsFiniteSet(Flying(e))
         /\ Cardinality(Queue!Occurrences(e)) \in Nat /\ Cardinality(Flying(e)) \in Nat
         /\ Count(e) \in Nat
<1>1. IsFiniteSet(ToSet(out)) /\ IsFiniteSet(ToSet(unsent))
  BY MembersAre DEF QueueTypes
<1>2. IsFiniteSet(OnWay)
  BY <1>1, FS_Union DEF OnWay
<1>3. IsFiniteSet(Flying(e))
  BY <1>2, FS_Subset DEF Flying
<1>4. IsFiniteSet(DOMAIN took)
  <2>1. Len(took) \in Nat /\ DOMAIN took = 1..Len(took)
    BY DEF QueueTypes
  <2>. QED
    BY <2>1, FS_Interval
<1>5. IsFiniteSet(Queue!Occurrences(e))
  BY <1>4, FS_Subset DEF Queue!Occurrences
<1>. QED
  BY <1>3, <1>5, FS_CardinalityType DEF Count

\* Fewer calls on their way, and codex gets nothing more.
LEMMA CountShrinks ==
  ASSUME QueueTypes, QueueTypes', NEW e \in Nat, OnWay' \subseteq OnWay, took' = took
  PROVE  /\ Count(e) \in Nat /\ Count(e)' \in Nat /\ Count(e)' <= Count(e)
         /\ Queue!Occurrences(e)' = Queue!Occurrences(e)
<1>1. Flying(e)' \subseteq Flying(e)
  BY DEF Flying
<1>2. Queue!Occurrences(e)' = Queue!Occurrences(e)
  BY DEF Queue!Occurrences
<1>3. IsFiniteSet(Flying(e)) /\ Cardinality(Flying(e)) \in Nat
  BY CountIs
<1>4. Cardinality(Flying(e)') <= Cardinality(Flying(e)) /\ IsFiniteSet(Flying(e)')
  BY <1>1, <1>3, FS_Subset
<1>5. Cardinality(Flying(e)') \in Nat
  BY <1>4, FS_CardinalityType
<1>6. Cardinality(Queue!Occurrences(e)) \in Nat
  BY CountIs
<1>. QED
  BY <1>2, <1>3, <1>4, <1>5, <1>6 DEF Count

\* A call more counts for its entry.
LEMMA CountGrows ==
  ASSUME QueueTypes, QueueTypes', NEW e \in Nat, NEW N, OnWay' = OnWay \cup N, took' = took,
         \A c, d \in N : c.entry = e /\ d.entry = e => c = d
  PROVE  /\ Count(e) \in Nat /\ Count(e)' \in Nat /\ Count(e)' <= Count(e) + 1
         /\ (\A c \in N : c.entry # e) => Count(e)' = Count(e)
<1>1. Queue!Occurrences(e)' = Queue!Occurrences(e)
  BY DEF Queue!Occurrences
<1>2. /\ IsFiniteSet(Flying(e)) /\ Cardinality(Flying(e)) \in Nat
      /\ Cardinality(Queue!Occurrences(e)) \in Nat
  BY CountIs
<1>3. CASE \A c \in N : c.entry # e
  <2>1. Flying(e)' = Flying(e)
    BY <1>3 DEF Flying
  <2>. QED
    BY <1>1, <1>2, <2>1 DEF Count
<1>4. CASE ~(\A c \in N : c.entry # e)
  <2>1. PICK c \in N : c.entry = e
    BY <1>4
  <2>2. Flying(e)' = Flying(e) \cup {c}
    BY <2>1 DEF Flying
  <2>3. Cardinality(Flying(e)') =
          IF c \in Flying(e) THEN Cardinality(Flying(e)) ELSE Cardinality(Flying(e)) + 1
    BY <1>2, <2>2, FS_AddElement
  <2>4. Cardinality(Flying(e)') \in Nat /\ Cardinality(Flying(e)') <= Cardinality(Flying(e)) + 1
    BY <1>2, <2>3
  <2>. QED
    BY <1>1, <1>2, <1>4, <2>4 DEF Count
<1>. QED
  BY <1>3, <1>4

\* Calls made by the page have numbers that none had before, and wait for the socket
\* where there is none.
LEMMA QueueMakes ==
  ASSUME QueueTypes, CallsAre, NEW new \in Seq(QueueCalls), NEW rest \in SUBSET pending,
         \A i \in DOMAIN new : new[i].id = calls + i,
         \A c \in ToSet(new) : c.entry <= entries' /\ (c.kind = "queued" <=> c.entry # 0),
         Queue!Makes(new, rest), entries' \in Nat, entries <= entries', socket' = socket
  PROVE  /\ calls' \in Nat /\ calls <= calls' /\ pending' = rest \cup ToSet(new)
         /\ pending' \in SUBSET QueueCalls /\ out' \in Seq(QueueCalls) /\ unsent' \in Seq(QueueCalls)
         /\ OnWay' = OnWay \cup ToSet(new) /\ CallsAre'
         /\ \A c \in ToSet(new) : calls < c.id /\ c.id <= calls'
<1>1. Len(new) \in Nat /\ DOMAIN new = 1..Len(new)
  OBVIOUS
<1>2. /\ ToSet(new) \subseteq QueueCalls
      /\ \A c \in ToSet(new) : \E i \in DOMAIN new : new[i] = c
  BY MembersAre
<1>3. calls' = calls + Len(new) /\ pending' = rest \cup ToSet(new)
  BY DEF Queue!Makes, Queue!ToSet, ToSet
<1>4. calls \in Nat /\ entries \in Nat /\ pending \subseteq QueueCalls
  BY DEF QueueTypes
<1>5. \A c \in ToSet(new) : calls < c.id /\ c.id <= calls' /\ c.id \in Nat
  BY <1>1, <1>2, <1>3, <1>4
<1>6. \A c, d \in ToSet(new) : c.id = d.id => c = d
  BY <1>1, <1>2, <1>4
<1>7. Once(new)
  BY <1>1, <1>4 DEF Once
<1>8. OnWay \subseteq QueueCalls
  BY MembersAre DEF QueueTypes, OnWay
<1>9. \A c \in pending \cup OnWay : c.id <= calls /\ c.id \in Nat /\ c.entry <= entries /\ c.entry \in Nat
  BY <1>4, <1>8 DEF CallsAre, QueueCalls
<1>10. ToSet(new) \cap (pending \cup OnWay) = {}
  BY <1>4, <1>5, <1>9
<1>11. /\ out' \in Seq(QueueCalls) /\ unsent' \in Seq(QueueCalls) /\ OnWay' = OnWay \cup ToSet(new)
       /\ Once(out)' /\ Once(unsent)' /\ (ToSet(out) \cap ToSet(unsent) = {})'
       /\ (socket => unsent = <<>>)'
  <2>1. /\ out \in Seq(QueueCalls) /\ unsent \in Seq(QueueCalls)
        /\ Once(out) /\ Once(unsent) /\ ToSet(out) \cap ToSet(unsent) = {} /\ (socket => unsent = <<>>)
    BY DEF QueueTypes, CallsAre
  <2>2. ToSet(out) \cap ToSet(new) = {} /\ ToSet(unsent) \cap ToSet(new) = {}
    BY <1>10 DEF OnWay
  <2>3. CASE socket
    <3>1. out' = out \o new /\ unsent' = unsent
      BY <2>3 DEF Queue!Makes
    <3>2. out' \in Seq(QueueCalls) /\ ToSet(out') = ToSet(out) \cup ToSet(new) /\ Once(out')
      BY <1>7, <2>1, <2>2, <3>1, ConcatOnce
    <3>. QED
      BY <2>1, <2>2, <3>1, <3>2 DEF OnWay, Once
  <2>4. CASE ~socket
    <3>1. unsent' = unsent \o new /\ out' = out
      BY <2>4 DEF Queue!Makes
    <3>2. unsent' \in Seq(QueueCalls) /\ ToSet(unsent') = ToSet(unsent) \cup ToSet(new) /\ Once(unsent')
      BY <1>7, <2>1, <2>2, <3>1, ConcatOnce
    <3>. QED
      BY <2>1, <2>2, <2>4, <3>1, <3>2 DEF OnWay, Once
  <2>. QED
    BY <2>3, <2>4
<1>12. \A c \in pending' \cup OnWay' : c.id <= calls' /\ c.entry <= entries'
  <2>1. \A c \in pending \cup OnWay : c.id <= calls' /\ c.entry <= entries'
    BY <1>1, <1>3, <1>4, <1>9
  <2>. QED
    BY <1>3, <1>5, <1>11, <2>1
<1>13. \A c \in pending' \cup OnWay' : c.kind = "queued" <=> c.entry # 0
  BY <1>3, <1>11 DEF CallsAre
<1>14. \A c, d \in pending' \cup OnWay' : c.id = d.id => c = d
  <2>1. \A c, d \in pending \cup OnWay : c.id = d.id => c = d
    BY DEF CallsAre
  <2>2. \A c \in ToSet(new), d \in pending \cup OnWay : c.id # d.id
    BY <1>4, <1>5, <1>9
  <2>3. pending' \cup OnWay' \subseteq (pending \cup OnWay) \cup ToSet(new)
    BY <1>3, <1>11
  <2>. QED
    BY <1>6, <2>1, <2>2, <2>3
<1>15. CallsAre'
  BY <1>11, <1>12, <1>13, <1>14 DEF CallsAre
<1>. QED
  BY <1>1, <1>2, <1>3, <1>4, <1>5, <1>11, <1>15

\* Messages on their way to the page and answers of the server that were there before
\* say what is still true when calls are made, and codex gets nothing.
LEMMA AnswersStay ==
  ASSUME QueueInv, QueueTypes', NEW N,
         OnWay' = OnWay \cup N, pending' \subseteq pending \cup N, took' = took, calls <= calls',
         \A c \in N : calls < c.id, \A c, d \in N : c.kind = "queued" /\ d.kind = "queued" => c = d,
         \A c \in N : c.kind = "queued" <=> c.entry # 0,
         (\E c \in N : c.kind = "queued") => Queue!Dispatched = {},
         Answered' \subseteq Answered, drops' = drops, exits' = exits
  PROVE  AnswersAre'
<1>. SUFFICES ASSUME NEW x \in Answered'
              PROVE  /\ x.id <= calls'
                     /\ \A c \in pending' : c.id = x.id /\ c.kind = "queued" => Fits(x, c)'
  BY DEF AnswersAre
<1>1. x \in Answered /\ x.id <= calls
  BY DEF QueueInv, AnswersAre
<1>2. x.id \in Nat /\ calls \in Nat /\ calls' \in Nat /\ drops \in Nat /\ exits \in Nat
  <2>1. x \in answers \/ x \in ToSet(wire)
    BY <1>1 DEF Answered
  <2>2. ToSet(wire) \subseteq QueueMessages
    BY MembersAre DEF QueueInv, QueueTypes
  <2>. QED
    BY <2>1, <2>2 DEF QueueInv, QueueTypes, QueueMessages
<1>3. ASSUME NEW c \in pending', c.id = x.id, c.kind = "queued"
      PROVE  Fits(x, c)'
  <2>1. c \notin N
    <3>. SUFFICES ASSUME c \in N PROVE FALSE
      OBVIOUS
    <3>1. calls < x.id
      BY <1>3
    <3>. QED
      BY <1>1, <1>2, <3>1
  <2>2. c \in pending /\ Fits(x, c)
    BY <1>1, <1>3, <2>1 DEF QueueInv, AnswersAre
  <2>3. c \in Queue!Dispatched
    BY <1>3, <2>2 DEF Queue!Dispatched
  <2>4. \A d \in N : d.entry = 0
    BY <2>3
  <2>5. c.entry \in Nat \ {0}
    BY <1>3, <2>2 DEF QueueInv, QueueTypes, QueueCalls, CallsAre
  <2>6. Count(c.entry)' = Count(c.entry) /\ Queue!Occurrences(c.entry)' = Queue!Occurrences(c.entry)
    <3>1. Count(c.entry)' = Count(c.entry)
      BY <2>4, <2>5, CountGrows DEF QueueInv
    <3>. QED
      BY <3>1 DEF Queue!Occurrences
  <2>. QED
    BY <2>2, <2>6 DEF Fits
<1>. QED
  BY <1>1, <1>2, <1>3

\* The page makes calls, at most one of them a dispatch, of the first prompt.
LEMMA QueueAdds ==
  ASSUME QueueInv, NEW new \in Seq(QueueCalls), NEW rest \in SUBSET pending,
         \A i \in DOMAIN new : new[i].id = calls + i,
         \A c \in ToSet(new) : c.entry <= entries' /\ (c.kind = "queued" <=> c.entry # 0),
         Queue!Makes(new, rest), socket' = socket, Queue!Dispatched \subseteq rest,
         \A c, d \in ToSet(new) : c.kind = "queued" /\ d.kind = "queued" => c = d,
         \A c \in ToSet(new) : c.kind = "queued" => ~dispatching /\ queue' # <<>> /\ c.entry = queue'[1],
         dispatching' <=> (dispatching \/ \E c \in ToSet(new) : c.kind = "queued"),
         dispatching' \in BOOLEAN,
         \/ entries' = entries /\ queue' = queue
         \/ entries' = entries + 1 /\ queue' = Append(queue, entries + 1),
         queue' # <<>> => (dispatching' \/ running' # {} \/ ~hasView' \/ failed'),
         took' = took, live' = live, drops' = drops, exits' = exits, Answered' \subseteq Answered,
         answers' \in SUBSET QueueMessages, wire' \in Seq(QueueMessages), loaded' \in BOOLEAN,
         sends' \in Nat
  PROVE  QueueInv'
<1>. DEFINE N == ToSet(new)
<1>1. /\ entries \in Nat /\ calls \in Nat /\ drops \in Nat /\ exits \in Nat /\ queue \in Seq(Nat)
      /\ took \in Seq(Nat) /\ entries' \in Nat /\ entries <= entries' /\ queue' \in Seq(Nat)
  <2>1. /\ entries \in Nat /\ calls \in Nat /\ drops \in Nat /\ exits \in Nat /\ queue \in Seq(Nat)
        /\ took \in Seq(Nat)
    BY DEF QueueInv, QueueTypes
  <2>2. Append(queue, entries + 1) \in Seq(Nat) /\ entries + 1 \in Nat /\ entries <= entries + 1
    BY <2>1
  <2>3. CASE entries' = entries /\ queue' = queue
    BY <2>1, <2>3
  <2>4. CASE entries' = entries + 1 /\ queue' = Append(queue, entries + 1)
    BY <2>1, <2>2, <2>4
  <2>. QED
    BY <2>3, <2>4
<1>2. /\ calls' \in Nat /\ calls <= calls' /\ pending' = rest \cup N
      /\ pending' \in SUBSET QueueCalls /\ out' \in Seq(QueueCalls) /\ unsent' \in Seq(QueueCalls)
      /\ OnWay' = OnWay \cup N /\ CallsAre'
      /\ \A c \in N : calls < c.id /\ c.id <= calls'
  <2>1. QueueTypes /\ CallsAre
    BY DEF QueueInv
  <2>. QED
    BY <1>1, <2>1, QueueMakes
<1>3. N \subseteq QueueCalls
  BY MembersAre
<1>4. \A c, d \in N : c.kind = "queued" /\ d.kind = "queued" => c = d
  OBVIOUS
<1>5. \A c \in N : c.kind = "queued" <=> c.entry # 0
  OBVIOUS
<1>6. \A c \in N : c.kind = "queued" => ~dispatching /\ queue' # <<>> /\ c.entry = queue'[1]
  OBVIOUS
<1>7. dispatching' <=> (dispatching \/ \E c \in N : c.kind = "queued")
  OBVIOUS
<1>. HIDE DEF N
<1>8. QueueTypes'
  BY <1>1, <1>2 DEF QueueInv, QueueTypes
<1>9. Queue!Dispatched' = Queue!Dispatched \cup {c \in N : c.kind = "queued"}
  BY <1>2 DEF Queue!Dispatched
<1>10. DispatchIs /\ QueueIs
  BY DEF QueueInv
<1>11. queue # <<>> => queue' # <<>> /\ queue'[1] = queue[1]
  <2>1. queue # <<>> => 1 \in DOMAIN queue
    BY <1>1
  <2>. QED
    BY <1>1, <2>1, AppendIs
<1>12. DispatchIs'
  <2>1. (dispatching <=> Queue!Dispatched # {})'
    BY <1>7, <1>9, <1>10 DEF DispatchIs
  <2>2. (\A c, d \in Queue!Dispatched : c = d)'
    BY <1>4, <1>6, <1>9, <1>10 DEF DispatchIs
  <2>3. (\A c \in Queue!Dispatched : queue # <<>> /\ c.entry = queue[1])'
    BY <1>6, <1>9, <1>10, <1>11 DEF DispatchIs
  <2>. QED
    BY <2>1, <2>2, <2>3 DEF DispatchIs
<1>13. /\ \A i \in DOMAIN queue : i \in DOMAIN queue' /\ queue'[i] = queue[i]
       /\ \A i \in DOMAIN queue' : i \in DOMAIN queue \/ (i = Len(queue) + 1 /\ queue'[i] = entries + 1 /\ entries' = entries + 1)
       /\ \A i \in DOMAIN queue : i \in Nat /\ i <= Len(queue)
       /\ entries' = entries + 1 => Len(queue) + 1 \in DOMAIN queue' /\ queue'[Len(queue) + 1] = entries'
  <2>1. CASE entries' = entries /\ queue' = queue
    BY <1>1, <2>1
  <2>2. CASE entries' = entries + 1 /\ queue' = Append(queue, entries + 1)
    BY <1>1, <2>2, AppendIs
  <2>. QED
    BY <2>1, <2>2
<1>14. QueueIs'
  <2>1. \A i \in DOMAIN queue : queue[i] \in 1..entries
    BY <1>10 DEF QueueIs
  <2>2. \A i \in DOMAIN queue' : queue'[i] \in 1..entries'
    BY <1>1, <1>13, <2>1
  <2>3. \A i, j \in DOMAIN queue' : i < j => queue'[i] < queue'[j]
    <3>. SUFFICES ASSUME NEW i \in DOMAIN queue', NEW j \in DOMAIN queue', i < j
                  PROVE  queue'[i] < queue'[j]
      OBVIOUS
    <3>1. i \in DOMAIN queue
      BY <1>1, <1>13
    <3>2. CASE j \in DOMAIN queue
      BY <1>10, <1>13, <3>1, <3>2 DEF QueueIs
    <3>3. CASE j \notin DOMAIN queue
      BY <1>1, <1>13, <2>1, <3>1, <3>3
    <3>. QED
      BY <3>2, <3>3
  <2>. QED
    BY <2>2, <2>3 DEF QueueIs
<1>15. TookIs'
  <2>1. \A i \in DOMAIN took : took[i] \in Nat /\ took[i] <= entries
    BY <1>1 DEF QueueInv, TookIs
  <2>. QED
    BY <1>1, <2>1 DEF TookIs
<1>16. AnswersAre'
  <2>1. (\E c \in N : c.kind = "queued") => Queue!Dispatched = {}
    BY <1>6, <1>10 DEF DispatchIs
  <2>2. pending' \subseteq pending \cup N
    BY <1>2
  <2>3. \A c \in N : calls < c.id
    BY <1>2
  <2>. QED
    BY <1>2, <1>4, <1>5, <1>8, <2>1, <2>2, <2>3, AnswersStay
<1>17. ToSet(queue) \subseteq ToSet(queue') /\ ToSet(queue') \subseteq ToSet(queue) \cup (1..entries' \ 1..entries)
  <2>1. \A i \in DOMAIN queue' : i \in DOMAIN queue \/ queue'[i] \in (1..entries' \ 1..entries)
    BY <1>1, <1>13
  <2>. QED
    BY <1>13, <2>1 DEF ToSet
<1>18. CountsAre'
  <2>. SUFFICES ASSUME NEW e \in 1..entries'
                PROVE  /\ Count(e)' <= drops' + exits' + 1
                       /\ e \in ToSet(queue') /\ (\A c \in pending' : c.entry # e)
                            => Count(e)' <= drops' + exits'
    BY <1>1 DEF CountsAre
  <2>1. \A c, d \in N : c.entry = e /\ d.entry = e => c = d
    <3>1. e # 0
      BY <1>1
    <3>. QED
      BY <1>4, <1>5, <3>1
  <2>2. Count(e) \in Nat /\ Count(e)' \in Nat /\ Count(e)' <= Count(e) + 1 /\ ((\A c \in N : c.entry # e) => Count(e)' = Count(e))
    <3>1. QueueTypes
      BY DEF QueueInv
    <3>2. OnWay' = OnWay \cup N /\ e \in Nat
      BY <1>1, <1>2
    <3>. QED
      BY <1>8, <2>1, <3>1, <3>2, CountGrows
  <2>3. CASE e \in 1..entries
    <3>1. /\ Count(e) <= drops + exits + 1
          /\ e \in ToSet(queue) /\ (\A c \in pending : c.entry # e) => Count(e) <= drops + exits
      BY <2>3 DEF QueueInv, CountsAre
    <3>2. CASE \A c \in N : c.entry # e
      <4>1. e \in ToSet(queue') => e \in ToSet(queue)
        BY <1>17, <2>3
      <4>2. (\A c \in pending' : c.entry # e) => \A c \in pending : c.entry # e
        <5>1. \A c \in pending : c.entry = e => c \in Queue!Dispatched
          BY <2>3, <1>1 DEF Queue!Dispatched, QueueInv, CallsAre
        <5>. QED
          BY <1>2, <5>1
      <4>. QED
        BY <1>1, <2>2, <3>1, <3>2, <4>1, <4>2
    <3>3. CASE ~(\A c \in N : c.entry # e)
      <4>1. PICK c \in N : c.entry = e
        BY <3>3
      <4>2. c.kind = "queued" /\ ~dispatching /\ queue' # <<>> /\ e = queue'[1]
        BY <1>1, <1>5, <1>6, <2>3, <4>1
      <4>3. e \in ToSet(queue')
        <5>1. 1 \in DOMAIN queue'
          BY <1>1, <4>2
        <5>. QED
          BY <4>2, <5>1 DEF ToSet
      <4>4. e \in ToSet(queue)
        BY <1>17, <2>3, <4>3
      <4>5. Queue!Dispatched = {}
        BY <1>10, <4>2 DEF DispatchIs
      <4>6. \A d \in pending : d.entry # e
        BY <2>3, <1>1, <4>5 DEF Queue!Dispatched, QueueInv, CallsAre
      <4>7. Count(e) <= drops + exits
        BY <3>1, <4>4, <4>6
      <4>8. c \in pending'
        BY <1>2, <4>1
      <4>. QED
        BY <1>1, <2>2, <4>1, <4>7, <4>8
    <3>. QED
      BY <3>2, <3>3
  <2>4. CASE e \notin 1..entries
    <3>1. Queue!Occurrences(e) = {}
      <4>1. \A i \in DOMAIN took : took[i] \in Nat /\ took[i] <= entries
        BY <1>1 DEF QueueInv, TookIs
      <4>. QED
        BY <1>1, <2>4, <4>1 DEF Queue!Occurrences
    <3>2. Flying(e) = {}
      <4>1. \A c \in OnWay : c.entry <= entries
        BY DEF QueueInv, CallsAre
      <4>. QED
        BY <1>1, <2>4, <4>1 DEF Flying
    <3>3. Count(e) = 0
      BY <3>1, <3>2, FS_EmptySet DEF Count
    <3>4. e = entries'
      BY <1>1, <2>4
    <3>5. CASE \A c \in N : c.entry # e
      BY <1>1, <2>2, <3>3, <3>5
    <3>6. CASE ~(\A c \in N : c.entry # e)
      <4>1. PICK c \in N : c.entry = e
        BY <3>6
      <4>2. c \in pending'
        BY <1>2, <4>1
      <4>. QED
        BY <1>1, <2>2, <3>3, <4>1, <4>2
    <3>. QED
      BY <3>5, <3>6
  <2>. QED
    BY <2>3, <2>4
<1>19. Queue!NoPromptLost'
  <2>. SUFFICES ASSUME NEW e \in 1..entries'
                PROVE  e \in ToSet(queue') \/ Queue!Occurrences(e)' # {}
    BY DEF Queue!NoPromptLost, Queue!ToSet, ToSet
  <2>1. Queue!Occurrences(e)' = Queue!Occurrences(e)
    BY DEF Queue!Occurrences
  <2>2. CASE e \in 1..entries
    <3>1. e \in ToSet(queue) \/ Queue!Occurrences(e) # {}
      BY <2>2 DEF QueueInv, Queue!NoPromptLost, Queue!ToSet, ToSet
    <3>. QED
      BY <1>17, <2>1, <3>1
  <2>3. CASE e \notin 1..entries
    <3>1. entries' = entries + 1 /\ e = entries'
      BY <1>1, <2>3
    <3>. QED
      BY <1>13, <3>1 DEF ToSet
  <2>. QED
    BY <2>2, <2>3
<1>20. Queue!QueueIsDue'
  <2>1. dispatching' => Queue!Dispatched' # {}
    BY <1>12 DEF DispatchIs
  <2>. QED
    BY <2>1 DEF Queue!QueueIsDue
<1>. QED
  BY <1>8, <1>2, <1>12, <1>14, <1>15, <1>16, <1>18, <1>19, <1>20 DEF QueueInv

\* The calls of a render: a dispatch, if one is due, and what the page calls besides.
LEMMA QueueRenders ==
  ASSUME QueueInv, NEW q, NEW v, NEW r, NEW k \in {"none", "direct"}, NEW rest \in SUBSET pending,
         Queue!Dispatched \subseteq rest, Queue!Renders(q, v, r, k, rest),
         \/ entries' = entries /\ q = queue
         \/ entries' = entries + 1 /\ q = Append(queue, entries + 1),
         socket' = socket, took' = took, live' = live, drops' = drops, exits' = exits,
         Answered' \subseteq Answered, answers' \in SUBSET QueueMessages,
         wire' \in Seq(QueueMessages), loaded' \in BOOLEAN, sends' \in Nat
  PROVE  QueueInv'
<1>. DEFINE busy == dispatching
            goes == Queue!Dispatches(q, v, r, busy)
            head == Queue!Call(calls + 1, "queued", Head(q))
            first == IF goes THEN <<head>> ELSE <<>>
            more == Queue!Call(calls + Len(first) + 1, k, 0)
            second == IF k = "none" THEN <<>> ELSE <<more>>
            new == first \o second
<1>1. /\ queue' = q /\ hasView' = v /\ running' = r
      /\ dispatching' = (busy \/ first # <<>>) /\ Queue!Makes(new, rest)
  BY DEF Queue!Renders
<1>. HIDE DEF goes, head, more, first, second, new
<1>2. calls \in Nat /\ dispatching \in BOOLEAN /\ queue \in Seq(Nat) /\ entries \in Nat
  BY DEF QueueInv, QueueTypes
<1>3. QueueIs /\ QueueTypes /\ DispatchIs
  BY DEF QueueInv
<1>4. q \in Seq(Nat) /\ entries' \in Nat /\ \A i \in DOMAIN q : q[i] \in 1..entries'
  <2>1. CASE entries' = entries /\ q = queue
    BY <1>2, <1>3, <2>1 DEF QueueIs
  <2>2. CASE entries' = entries + 1 /\ q = Append(queue, entries + 1)
    <3>1. \A i \in DOMAIN queue : queue[i] \in 1..entries
      BY <1>3 DEF QueueIs
    <3>2. DOMAIN q = 1..(Len(queue) + 1) /\ DOMAIN queue = 1..Len(queue) /\ Len(queue) \in Nat
          /\ q \in Seq(Nat) /\ q[Len(queue) + 1] = entries + 1
          /\ \A i \in DOMAIN queue : q[i] = queue[i]
      BY <1>2, <2>2, AppendIs
    <3>3. \A i \in 1..(Len(queue) + 1) : i \in DOMAIN queue \/ i = Len(queue) + 1
      BY <3>2
    <3>. QED
      BY <1>2, <2>2, <3>1, <3>2, <3>3
  <2>. QED
    BY <2>1, <2>2
<1>5. goes => q # <<>> /\ ~dispatching /\ Head(q) = q[1] /\ Head(q) \in 1..entries'
  <2>1. q # <<>> => Head(q) = q[1] /\ 1 \in DOMAIN q
    BY <1>4
  <2>. QED
    BY <1>4, <2>1 DEF Queue!Dispatches, goes
<1>6. goes => head \in QueueCalls /\ head.id = calls + 1 /\ head.kind = "queued" /\ head.entry = q[1]
              /\ head.entry # 0 /\ head.entry <= entries'
  BY <1>2, <1>4, <1>5 DEF Queue!Call, QueueCalls, QueueKinds, head
<1>7. /\ first \in Seq(QueueCalls) /\ Len(first) = (IF goes THEN 1 ELSE 0)
      /\ (goes => first # <<>> /\ first[1] = head) /\ (~goes => first = <<>>)
  BY <1>6 DEF first
<1>8. k # "none" => more \in QueueCalls /\ more.id = calls + Len(first) + 1 /\ more.kind = "direct" /\ more.entry = 0
  BY <1>2, <1>7 DEF Queue!Call, QueueCalls, QueueKinds, more
<1>9. /\ second \in Seq(QueueCalls) /\ Len(second) = (IF k = "none" THEN 0 ELSE 1)
      /\ (k # "none" => second[1] = more)
  BY <1>8 DEF second
<1>10. ~goes => q = <<>> \/ dispatching \/ ~v \/ r # {}
  BY DEF Queue!Dispatches, goes
<1>11. /\ new \in Seq(QueueCalls) /\ DOMAIN new = 1..(Len(first) + Len(second))
       /\ \A i \in 1..(Len(first) + Len(second)) :
            new[i] = IF i <= Len(first) THEN first[i] ELSE second[i - Len(first)]
  <2>1. /\ new \in Seq(QueueCalls) /\ Len(new) = Len(first) + Len(second)
        /\ \A i \in 1..(Len(first) + Len(second)) :
             new[i] = IF i <= Len(first) THEN first[i] ELSE second[i - Len(first)]
    BY <1>7, <1>9, ConcatProperties DEF new
  <2>. QED
    BY <2>1
<1>12. \A i \in DOMAIN new : \/ i = 1 /\ goes /\ new[i] = head
                             \/ i = Len(first) + 1 /\ k # "none" /\ new[i] = more
  <2>. TAKE i \in DOMAIN new
  <2>1. i \in Nat /\ 1 <= i /\ i <= Len(first) + Len(second)
    BY <1>7, <1>9, <1>11
  <2>2. CASE i <= Len(first)
    BY <1>7, <1>11, <2>1, <2>2
  <2>3. CASE ~(i <= Len(first))
    <3>1. k # "none" /\ i - Len(first) = 1
      BY <1>7, <1>9, <2>1, <2>3
    <3>. QED
      BY <1>7, <1>9, <1>11, <2>1, <2>3, <3>1
  <2>. QED
    BY <2>2, <2>3
<1>13. goes => 1 \in DOMAIN new /\ new[1] = head
  BY <1>7, <1>9, <1>11
<1>14. \A i \in DOMAIN new : new[i].id = calls + i
  BY <1>2, <1>6, <1>7, <1>8, <1>12
<1>15. \A c \in ToSet(new) : (c = head /\ goes) \/ (c = more /\ k # "none")
  BY <1>12 DEF ToSet
<1>16. \A c \in ToSet(new) : c.entry <= entries' /\ (c.kind = "queued" <=> c.entry # 0)
  BY <1>4, <1>6, <1>8, <1>15
<1>17. \A c, d \in ToSet(new) : c.kind = "queued" /\ d.kind = "queued" => c = d
  BY <1>6, <1>8, <1>15
<1>18. \A c \in ToSet(new) : c.kind = "queued" => ~dispatching /\ queue' # <<>> /\ c.entry = queue'[1]
  BY <1>1, <1>5, <1>6, <1>8, <1>15
<1>19. (\E c \in ToSet(new) : c.kind = "queued") <=> goes
  <2>1. goes => head \in ToSet(new)
    BY <1>13 DEF ToSet
  <2>. QED
    BY <1>6, <1>8, <1>15, <2>1
<1>20. first # <<>> <=> goes
  BY <1>7
<1>21. dispatching' <=> (dispatching \/ \E c \in ToSet(new) : c.kind = "queued")
  BY <1>1, <1>19, <1>20
<1>22. dispatching' \in BOOLEAN
  BY <1>1, <1>2
<1>23. queue' # <<>> => (dispatching' \/ running' # {} \/ ~hasView' \/ failed')
  BY <1>1, <1>10, <1>19, <1>21
<1>24. Queue!Makes(new, rest)
  BY <1>1
<1>25. \/ entries' = entries /\ queue' = queue
       \/ entries' = entries + 1 /\ queue' = Append(queue, entries + 1)
  BY <1>1
<1>. QED
  BY <1>11, <1>14, <1>16, <1>17, <1>18, <1>21, <1>22, <1>23, <1>24, <1>25, QueueAdds

\* Codex, the server and the socket leave what the page knows alone.
LEMMA QueueServes ==
  ASSUME QueueInv, QueueTypes', UNCHANGED <<queue, dispatching, hasView, running, failed>>,
         UNCHANGED <<entries, calls, pending, drops>>, exits <= exits',
         Once(out)', Once(unsent)', (ToSet(out) \cap ToSet(unsent) = {})', OnWay' \subseteq OnWay,
         (socket => unsent = <<>>)', TookIs',
         \A e \in 1..entries : /\ Queue!Occurrences(e) # {} => Queue!Occurrences(e)' # {}
                               /\ Count(e)' <= Count(e) /\ Count(e) \in Nat /\ Count(e)' \in Nat,
         \A x \in Answered' :
           x \in Answered \/ (/\ x.id <= calls
                              /\ \A c \in pending : c.id = x.id /\ c.kind = "queued" => Fits(x, c)')
  PROVE  QueueInv'
<1>1. CallsAre'
  BY DEF QueueInv, CallsAre
<1>2. entries \in Nat /\ calls \in Nat /\ drops \in Nat /\ exits \in Nat /\ exits' \in Nat
  BY DEF QueueInv, QueueTypes
<1>3. AnswersAre'
  <2>. SUFFICES ASSUME NEW x \in Answered'
                PROVE  /\ x.id <= calls'
                       /\ \A c \in pending' : c.id = x.id /\ c.kind = "queued" => Fits(x, c)'
    BY DEF AnswersAre
  <2>1. CASE x \in Answered
    <3>1. x.id <= calls /\ \A c \in pending : c.id = x.id /\ c.kind = "queued" => Fits(x, c)
      BY <2>1 DEF QueueInv, AnswersAre
    <3>2. ASSUME NEW c \in pending, c.id = x.id, c.kind = "queued"
          PROVE  Fits(x, c)'
      <4>1. c.entry \in 1..entries
        BY <1>2, <3>2 DEF QueueInv, QueueTypes, QueueCalls, CallsAre
      <4>2. Fits(x, c)
        BY <3>1, <3>2
      <4>3. /\ Queue!Occurrences(c.entry) # {} => Queue!Occurrences(c.entry)' # {}
            /\ Count(c.entry)' <= Count(c.entry) /\ Count(c.entry) \in Nat /\ Count(c.entry)' \in Nat
        BY <4>1
      <4>4. drops' = drops
        OBVIOUS
      <4>. QED
        BY <1>2, <4>2, <4>3, <4>4 DEF Fits
    <3>. QED
      BY <3>1, <3>2
  <2>2. CASE x \notin Answered
    BY <2>2
  <2>. QED
    BY <2>1, <2>2
<1>4. CountsAre'
  <2>. SUFFICES ASSUME NEW e \in 1..entries
                PROVE  /\ Count(e)' <= drops + exits' + 1
                       /\ e \in ToSet(queue) /\ (\A c \in pending : c.entry # e)
                            => Count(e)' <= drops + exits'
    BY DEF CountsAre
  <2>1. /\ Count(e) <= drops + exits + 1
        /\ e \in ToSet(queue) /\ (\A c \in pending : c.entry # e) => Count(e) <= drops + exits
    BY DEF QueueInv, CountsAre
  <2>2. Count(e)' <= Count(e) /\ Count(e) \in Nat /\ Count(e)' \in Nat
    OBVIOUS
  <2>. QED
    BY <1>2, <2>1, <2>2
<1>5. QueueIs' /\ DispatchIs'
  BY DEF QueueInv, QueueIs, DispatchIs, Queue!Dispatched
<1>6. Queue!NoPromptLost' /\ Queue!QueueIsDue'
  <2>1. Queue!NoPromptLost /\ Queue!QueueIsDue
    BY DEF QueueInv
  <2>2. Queue!NoPromptLost'
    <3>. SUFFICES ASSUME NEW e \in 1..entries
                  PROVE  e \in Queue!ToSet(queue) \/ Queue!Occurrences(e)' # {}
      BY DEF Queue!NoPromptLost
    <3>. QED
      BY <2>1 DEF Queue!NoPromptLost
  <2>. QED
    BY <2>1, <2>2 DEF Queue!QueueIsDue, Queue!Dispatched
<1>. QED
  BY <1>1, <1>3, <1>4, <1>5, <1>6 DEF QueueInv

\* What the server or the network sends.
LEMMA SendsIs ==
  ASSUME QueueTypes, NEW m \in QueueMessages, wire' = Queue!Sends(m)
  PROVE  /\ wire' \in Seq(QueueMessages)
         /\ ToSet(wire') \subseteq ToSet(wire) \cup {m}
<1>1. CASE socket
  <2>1. wire' = Append(wire, m)
    BY <1>1 DEF Queue!Sends
  <2>2. /\ wire' \in Seq(QueueMessages) /\ Len(wire) \in Nat /\ DOMAIN wire = 1..Len(wire)
        /\ DOMAIN wire' = 1..(Len(wire) + 1)
        /\ \A i \in DOMAIN wire : wire'[i] = wire[i]
        /\ wire'[Len(wire) + 1] = m
    BY <2>1, AppendIs DEF QueueTypes
  <2>3. \A i \in DOMAIN wire' : i \in DOMAIN wire \/ i = Len(wire) + 1
    BY <2>2
  <2>. QED
    BY <2>2, <2>3 DEF ToSet
<1>2. CASE ~socket
  BY <1>2 DEF Queue!Sends, QueueTypes
<1>. QED
  BY <1>1, <1>2

LEMMA TurnsArePrompts ==
  ASSUME QueueTypes, NEW n \in Nat, NEW b \in BOOLEAN
  PROVE  /\ Queue!Turn(n, b) \in QueueMessages /\ Queue!Turn(n, b).kind = "turn"
         /\ \A c \in QueueCalls : /\ Queue!Answer(c, n, b) \in QueueMessages
                                  /\ Queue!Answer(c, n, b).id = c.id /\ Queue!Answer(c, n, b).ok = b
BY DEF Queue!Turn, Queue!Answer, QueueMessages, QueueCalls

\* Codex takes a prompt: it is on its way no longer.
LEMMA TakesCount ==
  ASSUME QueueTypes, QueueTypes', NEW e \in Nat, NEW c \in OnWay, OnWay' = OnWay \ {c},
         took' = Append(took, c.entry), c.entry \in Nat
  PROVE  /\ Count(e) \in Nat /\ Count(e)' \in Nat /\ Count(e)' <= Count(e)
         /\ Queue!Occurrences(e) \subseteq Queue!Occurrences(e)'
         /\ c.entry = e => Queue!Occurrences(e)' # {}
<1>1. /\ Len(took) \in Nat /\ DOMAIN took = 1..Len(took) /\ DOMAIN took' = 1..(Len(took) + 1)
      /\ \A i \in DOMAIN took : took'[i] = took[i]
      /\ took'[Len(took) + 1] = c.entry
  <2>1. took \in Seq(Nat)
    BY DEF QueueTypes
  <2>. QED
    BY <2>1, AppendIs
<1>2. \A i \in DOMAIN took' : i \in DOMAIN took \/ i = Len(took) + 1
  BY <1>1
<1>3. Queue!Occurrences(e)' = IF c.entry = e THEN Queue!Occurrences(e) \cup {Len(took) + 1}
                                             ELSE Queue!Occurrences(e)
  BY <1>1, <1>2 DEF Queue!Occurrences
<1>4. Flying(e)' = IF c.entry = e THEN Flying(e) \ {c} ELSE Flying(e)
  BY DEF Flying
<1>5. /\ IsFiniteSet(Queue!Occurrences(e)) /\ IsFiniteSet(Flying(e))
      /\ Cardinality(Queue!Occurrences(e)) \in Nat /\ Cardinality(Flying(e)) \in Nat
  BY CountIs
<1>6. CASE c.entry = e
  <2>1. Len(took) + 1 \notin Queue!Occurrences(e)
    BY <1>1 DEF Queue!Occurrences
  <2>2. Cardinality(Queue!Occurrences(e)') = Cardinality(Queue!Occurrences(e)) + 1
    BY <1>3, <1>5, <1>6, <2>1, FS_AddElement
  <2>3. c \in Flying(e)
    BY <1>6 DEF Flying
  <2>4. Cardinality(Flying(e)') = Cardinality(Flying(e)) - 1 /\ IsFiniteSet(Flying(e)')
    BY <1>4, <1>5, <1>6, <2>3, FS_RemoveElement
  <2>5. Cardinality(Flying(e)') \in Nat
    BY <2>4, FS_CardinalityType
  <2>. QED
    BY <1>3, <1>5, <1>6, <2>2, <2>4, <2>5 DEF Count
<1>7. CASE c.entry # e
  BY <1>3, <1>4, <1>5, <1>7 DEF Count
<1>. QED
  BY <1>6, <1>7

\* The answer codex owes to a call, to a page that waits for it.
LEMMA DueIs ==
  ASSUME QueueTypes, NEW c \in QueueCalls, NEW n \in Nat, NEW b \in BOOLEAN
  PROVE  /\ Queue!Due(c, n, b) \subseteq QueueMessages
         /\ \A x \in Queue!Due(c, n, b) : c \in pending /\ x.id = c.id /\ x.ok = b
<1>1. \A x \in Queue!Due(c, n, b) : c \in pending /\ x = Queue!Answer(c, n, b)
  BY DEF Queue!Due
<1>. QED
  BY <1>1, TurnsArePrompts

LEMMA QueueTakes == QueueInv /\ Queue!CodexTakesPrompt => QueueInv'
<1>. SUFFICES ASSUME QueueInv, Queue!CodexTakesPrompt
              PROVE  QueueInv'
  OBVIOUS
<1>1. QueueTypes /\ CallsAre /\ TookIs
  BY DEF QueueInv
<1>2. PICK i \in DOMAIN out :
        /\ took' = Append(took, out[i].entry) /\ live' = Len(took')
        /\ answers' = answers \cup Queue!Due(out[i], live', TRUE)
        /\ out' = RemoveAt(out, i)
        /\ wire' = Queue!Sends(Queue!Turn(live', TRUE))
  BY DEF Queue!CodexTakesPrompt, Queue!RemoveAt, RemoveAt
<1>3. /\ UNCHANGED <<queue, dispatching, hasView, running, failed>>
      /\ UNCHANGED <<entries, calls, pending, drops, exits, unsent, socket, loaded, sends>>
  BY DEF Queue!CodexTakesPrompt, Queue!composerVars, Queue!threadVars, Queue!bounds
<1>4. PICK c : c = out[i]
  OBVIOUS
<1>5. c \in QueueCalls /\ c.entry \in Nat /\ c.entry <= entries /\ c.id <= calls /\ c \in ToSet(out)
      /\ c \in OnWay
  <2>1. c \in QueueCalls /\ c \in ToSet(out)
    BY <1>1, <1>4, MembersAre DEF QueueTypes
  <2>. QED
    BY <1>1, <2>1 DEF QueueCalls, CallsAre, OnWay
<1>6. out' \in Seq(QueueCalls) /\ Once(out)' /\ ToSet(out') = ToSet(out) \ {c}
  BY <1>1, <1>2, <1>4, RemoveOnce DEF QueueTypes, CallsAre
<1>7. took' \in Seq(Nat) /\ live' \in Nat
  <2>1. took \in Seq(Nat)
    BY <1>1 DEF QueueTypes
  <2>2. took' \in Seq(Nat)
    BY <1>2, <1>5, <1>4, <2>1, AppendIs
  <2>. QED
    BY <1>2, <2>2
<1>8. Queue!Turn(live', TRUE) \in QueueMessages /\ Queue!Turn(live', TRUE).kind = "turn"
  BY <1>1, <1>7, TurnsArePrompts
<1>9. wire' \in Seq(QueueMessages) /\ ToSet(wire') \subseteq ToSet(wire) \cup {Queue!Turn(live', TRUE)}
  BY <1>1, <1>2, <1>8, SendsIs
<1>10. /\ answers' = answers \cup Queue!Due(c, live', TRUE)
      /\ Queue!Due(c, live', TRUE) \subseteq QueueMessages
      /\ \A x \in Queue!Due(c, live', TRUE) : c \in pending /\ x.id = c.id /\ x.ok = TRUE
  BY <1>1, <1>2, <1>5, <1>7, <1>4, DueIs
<1>11. QueueTypes'
  BY <1>1, <1>3, <1>6, <1>7, <1>9, <1>10 DEF QueueTypes
<1>12. OnWay' = OnWay \ {c}
  BY <1>1, <1>3, <1>5, <1>6 DEF OnWay, CallsAre
<1>13. took' = Append(took, c.entry)
  BY <1>2, <1>4
<1>14. \A e \in Nat : /\ Count(e) \in Nat /\ Count(e)' \in Nat /\ Count(e)' <= Count(e)
                      /\ Queue!Occurrences(e) \subseteq Queue!Occurrences(e)'
                      /\ c.entry = e => Queue!Occurrences(e)' # {}
  BY <1>1, <1>5, <1>11, <1>12, <1>13, TakesCount
<1>15. TookIs'
  <2>1. took \in Seq(Nat) /\ entries \in Nat
    BY <1>1 DEF QueueTypes
  <2>2. /\ DOMAIN took' = 1..(Len(took) + 1) /\ DOMAIN took = 1..Len(took) /\ Len(took) \in Nat
        /\ \A j \in DOMAIN took : took'[j] = took[j]
        /\ took'[Len(took) + 1] = c.entry
    BY <1>5, <1>13, <2>1, AppendIs
  <2>3. \A j \in DOMAIN took' : j \in DOMAIN took \/ j = Len(took) + 1
    BY <2>2
  <2>. QED
    BY <1>1, <1>3, <1>5, <2>2, <2>3 DEF TookIs
<1>16. \A x \in Answered' : x \in Answered \/ (/\ x.id <= calls
                              /\ \A d \in pending : d.id = x.id /\ d.kind = "queued" => Fits(x, d)')
  <2>. SUFFICES ASSUME NEW x \in Answered', x \notin Answered
                PROVE  /\ x.id <= calls
                       /\ \A d \in pending : d.id = x.id /\ d.kind = "queued" => Fits(x, d)'
    OBVIOUS
  <2>1. x.kind = "answer" /\ (x \in answers' \/ x \in ToSet(wire'))
    BY DEF Answered
  <2>2. x \in Queue!Due(c, live', TRUE)
    BY <1>8, <1>9, <1>10, <2>1 DEF Answered
  <2>3. c \in pending /\ x.id = c.id /\ x.ok = TRUE
    BY <1>10, <2>2
  <2>4. \A d \in pending : d.id = x.id => d = c
    BY <1>1, <2>3 DEF CallsAre
  <2>5. Fits(x, c)'
    BY <1>5, <1>14, <2>3 DEF Fits
  <2>. QED
    BY <1>5, <2>3, <2>4, <2>5
<1>17. exits <= exits' /\ (socket => unsent = <<>>)' /\ Once(unsent)'
  BY <1>1, <1>3 DEF QueueTypes, CallsAre, Once
<1>18. (ToSet(out) \cap ToSet(unsent) = {})' /\ OnWay' \subseteq OnWay
  BY <1>1, <1>3, <1>6, <1>12 DEF CallsAre
<1>19. \A e \in 1..entries : /\ Queue!Occurrences(e) # {} => Queue!Occurrences(e)' # {}
                             /\ Count(e)' <= Count(e) /\ Count(e) \in Nat /\ Count(e)' \in Nat
  <2>1. 1..entries \subseteq Nat
    BY <1>1 DEF QueueTypes
  <2>. QED
    BY <1>14, <2>1
<1>20. UNCHANGED <<entries, calls, pending, drops>>
  BY <1>3
<1>. QED
  BY <1>3, <1>6, <1>11, <1>15, <1>16, <1>17, <1>18, <1>19, <1>20, QueueServes

\* The other steps of codex, of the server and of the socket's opening take nothing.
LEMMA QueueRests ==
  ASSUME QueueInv, QueueTypes', UNCHANGED <<queue, dispatching, hasView, running, failed>>,
         UNCHANGED <<entries, calls, pending, drops>>, exits <= exits',
         Once(out)', Once(unsent)', (ToSet(out) \cap ToSet(unsent) = {})', OnWay' \subseteq OnWay,
         (socket => unsent = <<>>)', TookIs',
         Len(took) <= Len(took'), \A i \in DOMAIN took : took'[i] = took[i],
         \A i \in DOMAIN took' : i \in DOMAIN took \/ took'[i] = 0,
         \A x \in Answered' :
           x \in Answered \/ (/\ x.id <= calls
                              /\ \A c \in pending : c.id = x.id /\ c.kind = "queued" =>
                                   IF x.ok THEN Queue!Occurrences(c.entry) # {}
                                   ELSE Count(c.entry) <= drops + exits')
  PROVE  QueueInv'
<1>1. QueueTypes /\ CallsAre /\ entries \in Nat /\ drops \in Nat /\ exits' \in Nat
  BY DEF QueueInv, QueueTypes
<1>2. DOMAIN took \subseteq DOMAIN took'
  <2>1. /\ DOMAIN took = 1..Len(took) /\ DOMAIN took' = 1..Len(took') /\ Len(took) \in Nat
        /\ Len(took') \in Nat
    BY <1>1 DEF QueueTypes
  <2>. QED
    BY <2>1
<1>3. \A e \in 1..entries : /\ Queue!Occurrences(e)' = Queue!Occurrences(e)
                            /\ Count(e)' <= Count(e) /\ Count(e) \in Nat /\ Count(e)' \in Nat
  <2>. SUFFICES ASSUME NEW e \in 1..entries
                PROVE  /\ Queue!Occurrences(e)' = Queue!Occurrences(e)
                       /\ Count(e)' <= Count(e) /\ Count(e) \in Nat /\ Count(e)' \in Nat
    OBVIOUS
  <2>1. e \in Nat /\ e # 0
    BY <1>1
  <2>2. Queue!Occurrences(e)' = Queue!Occurrences(e)
    BY <1>2, <2>1 DEF Queue!Occurrences
  <2>3. Flying(e)' \subseteq Flying(e)
    BY DEF Flying
  <2>4. /\ IsFiniteSet(Flying(e)) /\ Cardinality(Flying(e)) \in Nat
        /\ Cardinality(Queue!Occurrences(e)) \in Nat
    BY <1>1, <2>1, CountIs
  <2>5. IsFiniteSet(Flying(e)') /\ Cardinality(Flying(e)') <= Cardinality(Flying(e))
    BY <2>3, <2>4, FS_Subset
  <2>6. Cardinality(Flying(e)') \in Nat
    BY <2>5, FS_CardinalityType
  <2>. QED
    BY <2>2, <2>4, <2>5, <2>6 DEF Count
<1>4. \A x \in Answered' : x \in Answered \/ (/\ x.id <= calls
                              /\ \A c \in pending : c.id = x.id /\ c.kind = "queued" => Fits(x, c)')
  <2>. SUFFICES ASSUME NEW x \in Answered', x \notin Answered
                PROVE  /\ x.id <= calls
                       /\ \A c \in pending : c.id = x.id /\ c.kind = "queued" => Fits(x, c)'
    OBVIOUS
  <2>1. ASSUME NEW c \in pending, c.id = x.id, c.kind = "queued"
        PROVE  Fits(x, c)'
    <3>1. c.entry \in 1..entries
      BY <1>1, <2>1 DEF QueueTypes, QueueCalls, CallsAre
    <3>2. IF x.ok THEN Queue!Occurrences(c.entry) # {} ELSE Count(c.entry) <= drops + exits'
      BY <2>1
    <3>3. /\ Queue!Occurrences(c.entry)' = Queue!Occurrences(c.entry)
          /\ Count(c.entry)' <= Count(c.entry) /\ Count(c.entry) \in Nat /\ Count(c.entry)' \in Nat
      BY <1>3, <3>1
    <3>4. drops' = drops
      OBVIOUS
    <3>. QED
      BY <1>1, <3>2, <3>3, <3>4 DEF Fits
  <2>. QED
    BY <2>1
<1>5. \A e \in 1..entries : /\ Queue!Occurrences(e) # {} => Queue!Occurrences(e)' # {}
                            /\ Count(e)' <= Count(e) /\ Count(e) \in Nat /\ Count(e)' \in Nat
  BY <1>3
<1>. QED
  BY <1>4, <1>5, QueueServes

LEMMA QueueCodex ==
  QueueInv /\ (\/ Queue!CodexTakesAnother \/ Queue!CodexEndsTurn \/ Queue!CodexReads
               \/ Queue!CodexExits \/ Queue!ServerAnswers \/ Queue!Reconnect) => QueueInv'
<1>. SUFFICES ASSUME QueueInv,
                     \/ Queue!CodexTakesAnother \/ Queue!CodexEndsTurn \/ Queue!CodexReads
                     \/ Queue!CodexExits \/ Queue!ServerAnswers \/ Queue!Reconnect
              PROVE  QueueInv'
  OBVIOUS
<1>1. QueueTypes /\ CallsAre /\ TookIs
  BY DEF QueueInv
<1>2. /\ UNCHANGED <<queue, dispatching, hasView, running, failed>>
      /\ UNCHANGED <<entries, calls, pending, drops>> /\ UNCHANGED <<loaded, sends>>
  BY DEF Queue!CodexTakesAnother, Queue!CodexEndsTurn, Queue!CodexReads, Queue!CodexExits,
         Queue!ServerAnswers, Queue!Reconnect, Queue!composerVars, Queue!threadVars, Queue!bounds,
         Queue!callVars
<1>3. /\ took \in Seq(Nat) /\ live \in Nat /\ out \in Seq(QueueCalls) /\ unsent \in Seq(QueueCalls)
      /\ wire \in Seq(QueueMessages) /\ answers \subseteq QueueMessages /\ exits \in Nat
      /\ entries \in Nat /\ calls \in Nat /\ drops \in Nat
  BY <1>1 DEF QueueTypes
<1>4. /\ Once(out) /\ Once(unsent) /\ ToSet(out) \cap ToSet(unsent) = {}
      /\ (socket => unsent = <<>>)
  BY <1>1 DEF CallsAre
<1>5. ToSet(out) \subseteq QueueCalls /\ \A j \in DOMAIN out : out[j] \in ToSet(out)
  BY <1>3, MembersAre
<1>6. ASSUME UNCHANGED took
      PROVE  /\ TookIs' /\ took' \in Seq(Nat) /\ Len(took) <= Len(took')
             /\ \A j \in DOMAIN took : took'[j] = took[j]
             /\ \A j \in DOMAIN took' : j \in DOMAIN took \/ took'[j] = 0
  BY <1>1, <1>2, <1>3, <1>6 DEF TookIs
<1>7. ASSUME UNCHANGED <<out, unsent, socket>>
      PROVE  /\ out' \in Seq(QueueCalls) /\ unsent' \in Seq(QueueCalls)
             /\ Once(out)' /\ Once(unsent)' /\ (ToSet(out) \cap ToSet(unsent) = {})'
             /\ OnWay' \subseteq OnWay /\ (socket => unsent = <<>>)'
  BY <1>3, <1>4, <1>7 DEF Once, OnWay
<1>8. ASSUME NEW n \in Nat, NEW b \in BOOLEAN, wire' = Queue!Sends(Queue!Turn(n, b)), answers' = answers
      PROVE  wire' \in Seq(QueueMessages) /\ Answered' \subseteq Answered
  <2>1. Queue!Turn(n, b) \in QueueMessages /\ Queue!Turn(n, b).kind = "turn"
    BY <1>1, TurnsArePrompts
  <2>2. wire' \in Seq(QueueMessages) /\ ToSet(wire') \subseteq ToSet(wire) \cup {Queue!Turn(n, b)}
    BY <1>1, <1>8, <2>1, SendsIs
  <2>. QED
    BY <1>8, <2>1, <2>2 DEF Answered
<1>9. CASE Queue!CodexTakesAnother
  <2>1. /\ UNCHANGED <<out, unsent, socket>> /\ answers' = answers /\ exits' = exits
        /\ took' = Append(took, 0) /\ live' = Len(took')
        /\ wire' = Queue!Sends(Queue!Turn(live', TRUE))
    BY <1>9 DEF Queue!CodexTakesAnother, Queue!callVars
  <2>2. /\ took' \in Seq(Nat) /\ Len(took) \in Nat /\ DOMAIN took = 1..Len(took)
        /\ DOMAIN took' = 1..(Len(took) + 1)
        /\ \A j \in DOMAIN took : took'[j] = took[j]
        /\ took'[Len(took) + 1] = 0
    BY <1>3, <2>1, AppendIs
  <2>3. \A j \in DOMAIN took' : j \in DOMAIN took \/ took'[j] = 0
    BY <2>2
  <2>4. live' \in Nat /\ Len(took) <= Len(took')
    BY <2>1, <2>2
  <2>5. TookIs'
    <3>1. \A j \in DOMAIN took' : took'[j] <= entries
      BY <1>1, <1>3, <2>2, <2>3 DEF TookIs
    <3>. QED
      BY <1>2, <3>1 DEF TookIs
  <2>6. wire' \in Seq(QueueMessages) /\ Answered' \subseteq Answered
    BY <1>8, <2>1, <2>4
  <2>7. QueueTypes'
    BY <1>1, <1>2, <1>3, <1>7, <2>1, <2>2, <2>4, <2>6 DEF QueueTypes
  <2>8. exits <= exits' /\ \A x \in Answered' : x \in Answered
    BY <1>3, <2>1, <2>6
  <2>. QED
    BY <1>2, <1>7, <2>1, <2>2, <2>3, <2>4, <2>5, <2>7, <2>8, QueueRests
<1>10. CASE Queue!CodexEndsTurn
  <2>1. /\ UNCHANGED <<out, unsent, socket>> /\ answers' = answers /\ exits' = exits
        /\ UNCHANGED took /\ live' = 0 /\ wire' = Queue!Sends(Queue!Turn(live, FALSE))
    BY <1>10 DEF Queue!CodexEndsTurn, Queue!callVars, Queue!bounds
  <2>2. wire' \in Seq(QueueMessages) /\ Answered' \subseteq Answered
    BY <1>3, <1>8, <2>1
  <2>3. QueueTypes'
    BY <1>1, <1>2, <1>3, <1>7, <2>1, <2>2 DEF QueueTypes
  <2>4. exits <= exits' /\ \A x \in Answered' : x \in Answered
    BY <1>3, <2>1, <2>2
  <2>. QED
    BY <1>2, <1>6, <1>7, <2>1, <2>3, <2>4, QueueRests
<1>11. CASE Queue!CodexReads
  <2>1. PICK i \in DOMAIN out :
          /\ out[i].kind \in {"resume", "read"}
          /\ answers' = answers \cup Queue!Due(out[i], live, TRUE) /\ out' = RemoveAt(out, i)
    BY <1>11 DEF Queue!CodexReads, Queue!RemoveAt, RemoveAt
  <2>2. UNCHANGED <<took, live, unsent, socket, wire, exits>>
    BY <1>11 DEF Queue!CodexReads, Queue!codexVars, Queue!bounds
  <2>3. PICK c : c = out[i]
    OBVIOUS
  <2>4. c \in QueueCalls /\ c \in ToSet(out) /\ c.kind # "queued" /\ c.id <= calls
    BY <1>1, <1>5, <2>1, <2>3 DEF CallsAre, OnWay
  <2>5. out' \in Seq(QueueCalls) /\ Once(out)' /\ ToSet(out') = ToSet(out) \ {c}
    BY <1>3, <1>4, <2>1, <2>3, RemoveOnce
  <2>6. /\ Queue!Due(c, live, TRUE) \subseteq QueueMessages
        /\ \A x \in Queue!Due(c, live, TRUE) : c \in pending /\ x.id = c.id
    BY <1>1, <1>3, <2>4, DueIs
  <2>7. answers' = answers \cup Queue!Due(c, live, TRUE)
    BY <2>1, <2>3
  <2>8. QueueTypes'
    BY <1>1, <1>2, <1>3, <2>2, <2>5, <2>6, <2>7 DEF QueueTypes
  <2>9. /\ (ToSet(out) \cap ToSet(unsent) = {})' /\ OnWay' \subseteq OnWay
        /\ (socket => unsent = <<>>)' /\ Once(unsent)' /\ exits <= exits'
    BY <1>3, <1>4, <2>2, <2>5 DEF OnWay, Once
  <2>10. \A x \in Answered' : x \in Answered \/ (/\ x.id <= calls
                                /\ \A d \in pending : d.id = x.id => d.kind # "queued")
    <3>. SUFFICES ASSUME NEW x \in Answered', x \notin Answered
                  PROVE  x.id <= calls /\ \A d \in pending : d.id = x.id => d.kind # "queued"
      OBVIOUS
    <3>1. x \in Queue!Due(c, live, TRUE)
      BY <2>2, <2>7 DEF Answered
    <3>2. \A d \in pending : d.id = c.id => d = c
      BY <1>1, <2>6, <3>1 DEF CallsAre
    <3>. QED
      BY <2>4, <2>6, <3>1, <3>2
  <2>11. UNCHANGED took
    BY <2>2
  <2>. QED
    BY <1>2, <1>6, <2>5, <2>8, <2>9, <2>10, <2>11, QueueRests
<1>12. CASE Queue!CodexExits
  <2>1. PICK k \in 0..Len(out) :
          /\ answers' = answers \cup UNION {Queue!Due(out[i], 0, FALSE) : i \in 1..k}
          /\ out' = SubSeq(out, k + 1, Len(out))
    BY <1>12 DEF Queue!CodexExits
  <2>2. exits' = exits + 1 /\ live' = 0 /\ UNCHANGED <<took, unsent, socket, wire>>
    BY <1>12 DEF Queue!CodexExits
  <2>3. out' \in Seq(QueueCalls) /\ Once(out)' /\ ToSet(out') \subseteq ToSet(out)
    <3>1. k + 1 \in 1..(Len(out) + 1) /\ Len(out) \in 0..Len(out)
      BY <1>3
    <3>. QED
      BY <1>3, <1>4, <2>1, <3>1, PartOnce
  <2>4. \A x \in answers' : x \in answers \/ \E i \in 1..k : x \in Queue!Due(out[i], 0, FALSE)
    BY <2>1
  <2>5. \A i \in 1..k : i \in DOMAIN out
    BY <1>3
  <2>6. \A x \in answers' : x \in answers \/
          (x \in QueueMessages /\ x.ok = FALSE /\ \E c \in ToSet(out) : c \in pending /\ x.id = c.id)
    <3>. SUFFICES ASSUME NEW x \in answers', NEW i \in 1..k, x \in Queue!Due(out[i], 0, FALSE)
                  PROVE  x \in QueueMessages /\ x.ok = FALSE
                         /\ \E c \in ToSet(out) : c \in pending /\ x.id = c.id
      BY <2>4
    <3>1. out[i] \in ToSet(out) /\ out[i] \in QueueCalls
      BY <1>5, <2>5
    <3>. QED
      BY <1>1, <3>1, DueIs
  <2>7. answers' \in SUBSET QueueMessages
    BY <1>3, <2>6
  <2>8. QueueTypes'
    BY <1>1, <1>2, <1>3, <2>2, <2>3, <2>7 DEF QueueTypes
  <2>9. /\ (ToSet(out) \cap ToSet(unsent) = {})' /\ OnWay' \subseteq OnWay
        /\ (socket => unsent = <<>>)' /\ Once(unsent)' /\ exits <= exits'
    BY <1>3, <1>4, <2>2, <2>3 DEF OnWay, Once
  <2>10. \A x \in Answered' : x \in Answered \/ (/\ x.id <= calls
                                /\ \A d \in pending : d.id = x.id /\ d.kind = "queued" =>
                                     IF x.ok THEN Queue!Occurrences(d.entry) # {}
                                     ELSE Count(d.entry) <= drops + exits')
    <3>. SUFFICES ASSUME NEW x \in Answered', x \notin Answered
                  PROVE  /\ x.id <= calls
                         /\ \A d \in pending : d.id = x.id /\ d.kind = "queued" =>
                                     IF x.ok THEN Queue!Occurrences(d.entry) # {}
                                     ELSE Count(d.entry) <= drops + exits'
      OBVIOUS
    <3>1. x.ok = FALSE /\ \E c \in ToSet(out) : c \in pending /\ x.id = c.id
      BY <2>2, <2>6 DEF Answered
    <3>2. PICK c \in ToSet(out) : c \in pending /\ x.id = c.id
      BY <3>1
    <3>3. x.id <= calls /\ \A d \in pending : d.id = x.id => d = c
      BY <1>1, <3>2 DEF CallsAre
    <3>4. c.kind = "queued" => c.entry \in 1..entries
      BY <1>1, <1>3, <3>2 DEF QueueTypes, QueueCalls, CallsAre
    <3>5. c.kind = "queued" => Count(c.entry) <= drops + exits + 1
      BY <3>4 DEF QueueInv, CountsAre
    <3>6. ASSUME NEW d \in pending, d.id = x.id, d.kind = "queued"
          PROVE  Count(d.entry) <= drops + exits'
      <4>1. c.kind = "queued" /\ d.entry = c.entry
        BY <3>3, <3>6
      <4>2. c.entry \in Nat
        BY <1>3, <3>4, <4>1
      <4>3. Count(c.entry) \in Nat
        BY <1>1, <4>2, CountIs
      <4>. QED
        BY <1>3, <2>2, <3>5, <4>1, <4>3
    <3>. QED
      BY <3>1, <3>3, <3>6
  <2>11. UNCHANGED took
    BY <2>2
  <2>. QED
    BY <1>2, <1>6, <2>3, <2>8, <2>9, <2>10, <2>11, QueueRests
<1>13. CASE Queue!ServerAnswers
  <2>1. PICK x \in answers : answers' = answers \ {x} /\ wire' = Queue!Sends(x)
    BY <1>13 DEF Queue!ServerAnswers
  <2>2. UNCHANGED <<took, live, out, unsent, socket, exits>>
    BY <1>13 DEF Queue!ServerAnswers, Queue!callVars, Queue!codexVars, Queue!bounds
  <2>3. wire' \in Seq(QueueMessages) /\ ToSet(wire') \subseteq ToSet(wire) \cup {x}
    BY <1>1, <1>3, <2>1, SendsIs
  <2>4. Answered' \subseteq Answered
    BY <2>1, <2>3 DEF Answered
  <2>5. UNCHANGED took /\ UNCHANGED <<out, unsent, socket>>
    BY <2>2
  <2>6. QueueTypes'
    BY <1>1, <1>2, <1>3, <2>1, <2>2, <2>3 DEF QueueTypes
  <2>7. exits <= exits' /\ \A y \in Answered' : y \in Answered
    BY <1>3, <2>2, <2>4
  <2>. QED
    BY <1>2, <1>6, <1>7, <2>5, <2>6, <2>7, QueueRests
<1>14. CASE Queue!Reconnect
  <2>1. out' = out \o unsent /\ unsent' = <<>> /\ socket' = TRUE
        /\ UNCHANGED <<took, live, answers, wire, exits>>
    BY <1>14 DEF Queue!Reconnect, Queue!codexVars, Queue!bounds
  <2>2. out' \in Seq(QueueCalls) /\ ToSet(out') = ToSet(out) \cup ToSet(unsent) /\ Once(out)'
    BY <1>3, <1>4, <2>1, ConcatOnce
  <2>3. unsent' \in Seq(QueueCalls) /\ ToSet(unsent') = {} /\ Once(unsent)'
    BY <2>1 DEF ToSet, Once
  <2>4. UNCHANGED took
    BY <2>1
  <2>5. QueueTypes'
    BY <1>1, <1>2, <1>3, <2>1, <2>2, <2>3 DEF QueueTypes
  <2>6. OnWay' \subseteq OnWay /\ (ToSet(out) \cap ToSet(unsent) = {})' /\ (socket => unsent = <<>>)'
    BY <2>1, <2>2, <2>3 DEF OnWay
  <2>7. exits <= exits' /\ \A x \in Answered' : x \in Answered
    BY <1>3, <2>1 DEF Answered
  <2>. QED
    BY <1>2, <1>6, <2>2, <2>3, <2>4, <2>5, <2>6, <2>7, QueueRests
<1>. QED
  BY <1>9, <1>10, <1>11, <1>12, <1>13, <1>14

\* The first of the queue leaves it.
LEMMA RemoveFirstIs ==
  ASSUME NEW S, NEW s \in Seq(S), NEW x, s # <<>>, s[1] = x
  PROVE  Queue!RemoveFirst(s, x) = RemoveAt(s, 1)
<1>. DEFINE I == {i \in 1..Len(s) : s[i] = x}
<1>1. 1 \in I /\ \A j \in I : 1 <= j
  OBVIOUS
<1>2. Queue!Min(I) = 1
  BY <1>1 DEF Queue!Min
<1>3. Queue!SelectInSeq(s, LAMBDA v : v = x) = 1
  BY <1>1, <1>2 DEF Queue!SelectInSeq
<1>4. s # <<>>
  OBVIOUS
<1>. QED
  BY <1>1, <1>3 DEF Queue!RemoveFirst, Queue!RemoveAt, RemoveAt

\* Fewer calls are pending or on their way.
LEMMA QueueForgets ==
  ASSUME QueueInv, QueueTypes', pending' \subseteq pending, OnWay' \subseteq OnWay,
         UNCHANGED <<calls, entries, took, exits>>, drops <= drops', Answered' \subseteq Answered,
         Once(out)', Once(unsent)', (ToSet(out) \cap ToSet(unsent) = {})', (socket => unsent = <<>>)'
  PROVE  /\ CallsAre' /\ AnswersAre' /\ TookIs'
         /\ \A e \in 1..entries : /\ Queue!Occurrences(e)' = Queue!Occurrences(e)
                                  /\ Count(e) \in Nat /\ Count(e)' \in Nat /\ Count(e)' <= Count(e)
<1>1. QueueTypes /\ CallsAre /\ AnswersAre /\ TookIs
  BY DEF QueueInv
<1>2. CallsAre'
  BY <1>1 DEF CallsAre
<1>3. TookIs'
  BY <1>1 DEF TookIs
<1>4. \A e \in 1..entries : /\ Queue!Occurrences(e)' = Queue!Occurrences(e)
                            /\ Count(e) \in Nat /\ Count(e)' \in Nat /\ Count(e)' <= Count(e)
  <2>. SUFFICES ASSUME NEW e \in 1..entries
                PROVE  /\ Queue!Occurrences(e)' = Queue!Occurrences(e)
                       /\ Count(e) \in Nat /\ Count(e)' \in Nat /\ Count(e)' <= Count(e)
    OBVIOUS
  <2>1. e \in Nat
    BY <1>1 DEF QueueTypes
  <2>. QED
    BY <1>1, <2>1, CountShrinks
<1>5. drops \in Nat /\ drops' \in Nat /\ exits \in Nat /\ exits' = exits
  BY <1>1 DEF QueueTypes
<1>6. ASSUME NEW x \in Answered', NEW c \in pending', c.id = x.id, c.kind = "queued"
      PROVE  Fits(x, c)'
  <2>1. x \in Answered /\ c \in pending
    OBVIOUS
  <2>2. Fits(x, c)
    BY <1>1, <1>6, <2>1 DEF AnswersAre
  <2>3. c.entry \in 1..entries
    BY <1>1, <1>6, <2>1 DEF QueueTypes, QueueCalls, CallsAre
  <2>4. /\ Queue!Occurrences(c.entry)' = Queue!Occurrences(c.entry)
        /\ Count(c.entry) \in Nat /\ Count(c.entry)' \in Nat /\ Count(c.entry)' <= Count(c.entry)
    BY <1>4, <2>3
  <2>. QED
    BY <1>5, <2>2, <2>4 DEF Fits
<1>7. AnswersAre'
  BY <1>1, <1>6 DEF AnswersAre
<1>. QED
  BY <1>2, <1>3, <1>4, <1>7

\* catch() and finally() of calls: their entries may be sent again.
LEMMA QueueRejects ==
  ASSUME QueueInv, QueueTypes', NEW cs \in SUBSET pending, Queue!Reject(cs),
         UNCHANGED <<hasView, running>>, OnWay' \subseteq OnWay,
         UNCHANGED <<calls, entries, took, exits>>, drops <= drops', Answered' \subseteq Answered,
         Once(out)', Once(unsent)', (ToSet(out) \cap ToSet(unsent) = {})', (socket => unsent = <<>>)',
         \A c \in cs : c.kind = "queued" => Count(c.entry) <= drops' + exits
  PROVE  QueueInv'
<1>1. QueueTypes /\ CallsAre /\ CountsAre /\ QueueIs /\ DispatchIs
  BY DEF QueueInv
<1>2. /\ queue' = queue /\ pending' = pending \ cs
      /\ dispatching' = (dispatching /\ \A c \in cs : c.kind # "queued")
      /\ failed' = (failed \/ {c \in cs : c.kind = "queued"} # {})
  BY DEF Queue!Reject, Queue!RemoveQueuedPrompt, Queue!ClearDispatching
<1>3. /\ CallsAre' /\ AnswersAre' /\ TookIs'
      /\ \A e \in 1..entries : /\ Queue!Occurrences(e)' = Queue!Occurrences(e)
                               /\ Count(e) \in Nat /\ Count(e)' \in Nat /\ Count(e)' <= Count(e)
  <2>1. pending' \subseteq pending
    BY <1>2
  <2>. QED
    BY <2>1, QueueForgets
<1>4. Queue!Dispatched' = {c \in Queue!Dispatched : c \notin cs}
  BY <1>2 DEF Queue!Dispatched
<1>5. DispatchIs'
  <2>1. \A c \in cs : c.kind = "queued" => c \in Queue!Dispatched
    BY DEF Queue!Dispatched
  <2>2. \A c \in Queue!Dispatched : c.kind = "queued"
    BY DEF Queue!Dispatched
  <2>3. (dispatching <=> Queue!Dispatched # {})'
    BY <1>1, <1>2, <1>4, <2>1, <2>2 DEF DispatchIs
  <2>. QED
    BY <1>1, <1>2, <1>4, <2>3 DEF DispatchIs
<1>6. drops \in Nat /\ drops' \in Nat /\ exits \in Nat /\ exits' = exits /\ entries \in Nat
  BY <1>1 DEF QueueTypes
<1>7. CountsAre'
  <2>. SUFFICES ASSUME NEW e \in 1..entries
                PROVE  /\ Count(e)' <= drops' + exits + 1
                       /\ e \in ToSet(queue) /\ (\A c \in pending' : c.entry # e)
                            => Count(e)' <= drops' + exits
    BY <1>2 DEF CountsAre
  <2>1. /\ Count(e) <= drops + exits + 1
        /\ e \in ToSet(queue) /\ (\A c \in pending : c.entry # e) => Count(e) <= drops + exits
    BY <1>1 DEF CountsAre
  <2>2. Count(e) \in Nat /\ Count(e)' \in Nat /\ Count(e)' <= Count(e)
    BY <1>3
  <2>3. CASE \E c \in cs : c.entry = e
    <3>1. PICK c \in cs : c.entry = e
      BY <2>3
    <3>2. c.kind = "queued"
      BY <1>1, <1>6, <3>1 DEF CallsAre
    <3>. QED
      BY <1>6, <2>2, <3>1, <3>2
  <2>4. CASE ~(\E c \in cs : c.entry = e)
    BY <1>2, <1>6, <2>1, <2>2, <2>4
  <2>. QED
    BY <2>3, <2>4
<1>8. QueueIs'
  BY <1>1, <1>2 DEF QueueIs
<1>9. Queue!NoPromptLost'
  BY <1>2, <1>3 DEF QueueInv, Queue!NoPromptLost
<1>10. Queue!QueueIsDue'
  BY <1>2, <1>4 DEF QueueInv, Queue!QueueIsDue, Queue!Dispatched
<1>. QED
  BY <1>3, <1>5, <1>7, <1>8, <1>9, <1>10 DEF QueueInv

\* turn.start has answered: then() removes the prompt that codex has.
LEMMA QueueTurns ==
  ASSUME QueueInv, QueueTypes', NEW c \in pending, NEW n, Queue!HandleTurn(c, n),
         c.kind \in {"queued", "direct"},
         c.kind = "queued" => Queue!Occurrences(c.entry) # {},
         UNCHANGED <<took, exits, drops, socket>>, Answered' \subseteq Answered
  PROVE  QueueInv'
<1>1. QueueTypes /\ CallsAre /\ CountsAre /\ QueueIs /\ DispatchIs
  BY DEF QueueInv
<1>2. /\ pending' = pending \ {c} /\ UNCHANGED <<calls, entries, out, unsent>>
      /\ dispatching' = (dispatching /\ c.kind # "queued") /\ hasView' = TRUE /\ n \in running'
  BY DEF Queue!HandleTurn, Queue!composerVars, Queue!ClearDispatching
<1>3. /\ CallsAre' /\ AnswersAre' /\ TookIs'
      /\ \A e \in 1..entries : /\ Queue!Occurrences(e)' = Queue!Occurrences(e)
                               /\ Count(e) \in Nat /\ Count(e)' \in Nat /\ Count(e)' <= Count(e)
  <2>1. pending' \subseteq pending /\ OnWay' \subseteq OnWay
    BY <1>2 DEF OnWay
  <2>2. /\ Once(out)' /\ Once(unsent)' /\ (ToSet(out) \cap ToSet(unsent) = {})'
        /\ (socket => unsent = <<>>)' /\ drops <= drops'
    BY <1>1, <1>2 DEF CallsAre, Once, QueueTypes
  <2>3. UNCHANGED <<calls, entries, took, exits>>
    BY <1>2
  <2>. QED
    BY <2>1, <2>2, <2>3, QueueForgets
<1>4. queue \in Seq(Nat) /\ entries \in Nat /\ drops \in Nat /\ exits \in Nat
  BY <1>1 DEF QueueTypes
<1>5. Queue!QueueIsDue'
  BY <1>2 DEF Queue!QueueIsDue
<1>6. CASE c.kind # "queued"
  <2>1. queue' = queue
    BY <1>6 DEF Queue!HandleTurn
  <2>2. Queue!Dispatched' = Queue!Dispatched
    BY <1>2, <1>6 DEF Queue!Dispatched
  <2>3. DispatchIs' /\ QueueIs'
    BY <1>1, <1>2, <1>6, <2>1, <2>2 DEF DispatchIs, QueueIs
  <2>4. Queue!NoPromptLost'
    BY <1>2, <1>3, <2>1 DEF QueueInv, Queue!NoPromptLost
  <2>5. \A e \in 1..entries : (\A d \in pending' : d.entry # e) => \A d \in pending : d.entry # e
    BY <1>1, <1>2, <1>4, <1>6 DEF CallsAre
  <2>6. CountsAre'
    <3>. SUFFICES ASSUME NEW e \in 1..entries
                  PROVE  /\ Count(e)' <= drops + exits + 1
                         /\ e \in ToSet(queue) /\ (\A d \in pending' : d.entry # e)
                              => Count(e)' <= drops + exits
      BY <1>2, <2>1 DEF CountsAre
    <3>1. /\ Count(e) <= drops + exits + 1
          /\ e \in ToSet(queue) /\ (\A d \in pending : d.entry # e) => Count(e) <= drops + exits
      BY <1>1 DEF CountsAre
    <3>2. Count(e) \in Nat /\ Count(e)' \in Nat /\ Count(e)' <= Count(e)
      BY <1>3
    <3>. QED
      BY <1>4, <2>5, <3>1, <3>2
  <2>. QED
    BY <1>3, <1>5, <2>3, <2>4, <2>6 DEF QueueInv
<1>7. CASE c.kind = "queued"
  <2>1. c \in Queue!Dispatched
    BY <1>7 DEF Queue!Dispatched
  <2>2. queue # <<>> /\ c.entry = queue[1] /\ Queue!Dispatched = {c}
    BY <1>1, <2>1 DEF DispatchIs
  <2>3. queue' = RemoveAt(queue, 1)
    BY <1>4, <1>7, <2>2, RemoveFirstIs DEF Queue!HandleTurn, Queue!RemoveQueuedPrompt
  <2>4. 1 \in DOMAIN queue
    BY <1>4, <2>2
  <2>5. /\ Len(queue) \in Nat \ {0} /\ DOMAIN queue = 1..Len(queue) /\ DOMAIN queue' = 1..(Len(queue) - 1)
        /\ \A j \in 1..(Len(queue) - 1) : queue'[j] = queue[IF j < 1 THEN j ELSE j + 1]
    BY <1>4, <2>3, <2>4, RemoveAtIs
  <2>6. \A j \in DOMAIN queue' : j + 1 \in DOMAIN queue /\ queue'[j] = queue[j + 1] /\ j \in Nat /\ 1 < j + 1
    BY <2>5
  <2>7. \A j \in DOMAIN queue : j = 1 \/ (j - 1 \in DOMAIN queue' /\ queue'[j - 1] = queue[j])
    <3>. SUFFICES ASSUME NEW j \in DOMAIN queue, j # 1
                  PROVE  j - 1 \in DOMAIN queue' /\ queue'[j - 1] = queue[j]
      OBVIOUS
    <3>1. j - 1 \in DOMAIN queue' /\ (j - 1) + 1 = j
      BY <2>5
    <3>. QED
      BY <2>6, <3>1
  <2>8. QueueIs'
    BY <1>1, <1>2, <2>6 DEF QueueIs
  <2>9. \A e \in ToSet(queue') : e \in ToSet(queue) /\ e # c.entry
    <3>. SUFFICES ASSUME NEW j \in DOMAIN queue'
                  PROVE  queue'[j] \in ToSet(queue) /\ queue'[j] # queue[1]
      BY <2>2 DEF ToSet
    <3>1. queue[1] < queue[j + 1] /\ queue[1] \in Nat
      BY <1>1, <1>4, <2>4, <2>6 DEF QueueIs
    <3>2. queue[j + 1] # queue[1]
      BY <3>1
    <3>. QED
      BY <2>6, <3>2 DEF ToSet
  <2>10. Queue!Dispatched' = {}
    BY <1>2, <2>2 DEF Queue!Dispatched
  <2>11. DispatchIs'
    BY <1>2, <1>7, <2>10 DEF DispatchIs
  <2>12. Queue!NoPromptLost'
    <3>. SUFFICES ASSUME NEW e \in 1..entries
                  PROVE  e \in ToSet(queue') \/ Queue!Occurrences(e)' # {}
      BY <1>2 DEF Queue!NoPromptLost, Queue!ToSet, ToSet
    <3>1. e \in ToSet(queue) \/ Queue!Occurrences(e) # {}
      BY DEF QueueInv, Queue!NoPromptLost, Queue!ToSet, ToSet
    <3>2. e \in ToSet(queue) => e = queue[1] \/ e \in ToSet(queue')
      BY <2>7 DEF ToSet
    <3>3. Queue!Occurrences(e)' = Queue!Occurrences(e)
      BY <1>3
    <3>. QED
      BY <1>7, <2>2, <3>1, <3>2, <3>3
  <2>13. CountsAre'
    <3>. SUFFICES ASSUME NEW e \in 1..entries
                  PROVE  /\ Count(e)' <= drops + exits + 1
                         /\ e \in ToSet(queue') /\ (\A d \in pending' : d.entry # e)
                              => Count(e)' <= drops + exits
      BY <1>2 DEF CountsAre
    <3>1. /\ Count(e) <= drops + exits + 1
          /\ e \in ToSet(queue) /\ (\A d \in pending : d.entry # e) => Count(e) <= drops + exits
      BY <1>1 DEF CountsAre
    <3>2. Count(e) \in Nat /\ Count(e)' \in Nat /\ Count(e)' <= Count(e)
      BY <1>3
    <3>3. e \in ToSet(queue') /\ (\A d \in pending' : d.entry # e) =>
            e \in ToSet(queue) /\ (\A d \in pending : d.entry # e)
      BY <1>2, <2>9
    <3>. QED
      BY <1>4, <3>1, <3>2, <3>3
  <2>. QED
    BY <1>3, <1>5, <2>8, <2>11, <2>12, <2>13 DEF QueueInv
<1>. QED
  BY <1>6, <1>7

\* The steps of the user and of the effect.
LEMMA QueueUser ==
  QueueInv /\ (\/ Queue!Enqueue \/ Queue!SendDirectly \/ Queue!OtherThreadChanges
               \/ Queue!SweepHydratedThreads \/ Queue!Reopen) => QueueInv'
<1>. SUFFICES ASSUME QueueInv,
                     \/ Queue!Enqueue \/ Queue!SendDirectly \/ Queue!OtherThreadChanges
                     \/ Queue!SweepHydratedThreads \/ Queue!Reopen
              PROVE  QueueInv'
  OBVIOUS
<1>1. QueueTypes
  BY DEF QueueInv
<1>2. /\ UNCHANGED <<took, live, answers, wire, drops, exits, socket, loaded>>
      /\ sends' \in Nat
  <2>1. UNCHANGED <<took, live, answers, wire, drops, exits, socket, loaded>>
    BY DEF Queue!Enqueue, Queue!SendDirectly, Queue!OtherThreadChanges, Queue!SweepHydratedThreads,
           Queue!Reopen, Queue!codexVars, Queue!bounds, Queue!composerVars
  <2>2. sends' = sends \/ sends' = sends + 1
    BY DEF Queue!Enqueue, Queue!SendDirectly, Queue!OtherThreadChanges, Queue!SweepHydratedThreads,
           Queue!Reopen, Queue!composerVars
  <2>. QED
    BY <1>1, <2>1, <2>2 DEF QueueTypes
<1>3. /\ Answered' \subseteq Answered /\ answers' \in SUBSET QueueMessages
      /\ wire' \in Seq(QueueMessages) /\ loaded' \in BOOLEAN
  BY <1>1, <1>2 DEF Answered, QueueTypes
<1>4. pending \in SUBSET pending /\ Queue!Dispatched \subseteq pending /\ entries \in Nat /\ calls \in Nat
  BY <1>1 DEF Queue!Dispatched, QueueTypes
<1>5. CASE Queue!Enqueue
  <2>1. /\ entries' = entries + 1
        /\ Queue!Renders(Append(queue, entries + 1), hasView, running, "none", pending)
    BY <1>5 DEF Queue!Enqueue, Queue!AppendQueuedPrompt
  <2>. QED
    BY <1>2, <1>3, <1>4, <2>1, QueueRenders
<1>6. CASE Queue!OtherThreadChanges
  <2>1. entries' = entries /\ Queue!Renders(queue, hasView, running, "none", pending)
    BY <1>6 DEF Queue!OtherThreadChanges, Queue!composerVars
  <2>. QED
    BY <1>2, <1>3, <1>4, <2>1, QueueRenders
<1>7. CASE Queue!SweepHydratedThreads
  <2>1. entries' = entries /\ Queue!Renders(queue, FALSE, {}, "none", pending)
    BY <1>7 DEF Queue!SweepHydratedThreads, Queue!composerVars
  <2>. QED
    BY <1>2, <1>3, <1>4, <2>1, QueueRenders
<1>8. ASSUME NEW new \in Seq(QueueCalls), Queue!Makes(new, pending),
             UNCHANGED <<queue, dispatching, hasView, running, failed>>, entries' = entries,
             \A i \in DOMAIN new : i = 1 /\ new[i].id = calls + 1 /\ new[i].kind # "queued" /\ new[i].entry = 0
      PROVE  QueueInv'
  <2>1. \A c \in ToSet(new) : c.kind # "queued" /\ c.entry = 0
    BY <1>8 DEF ToSet
  <2>2. \A i \in DOMAIN new : new[i].id = calls + i
    BY <1>8
  <2>3. dispatching' \in BOOLEAN /\ dispatching' = dispatching
    BY <1>1, <1>8 DEF QueueTypes
  <2>4. queue' # <<>> => (dispatching' \/ running' # {} \/ ~hasView' \/ failed')
    BY <1>8 DEF QueueInv, Queue!QueueIsDue, DispatchIs
  <2>5. \A c \in ToSet(new) : c.entry <= entries' /\ (c.kind = "queued" <=> c.entry # 0)
    BY <1>4, <1>8, <2>1
  <2>6. dispatching' <=> (dispatching \/ \E c \in ToSet(new) : c.kind = "queued")
    BY <2>1, <2>3
  <2>7. \A c \in ToSet(new) : c.kind = "queued" => ~dispatching /\ queue' # <<>> /\ c.entry = queue'[1]
    BY <2>1
  <2>8. \A c, d \in ToSet(new) : c.kind = "queued" /\ d.kind = "queued" => c = d
    BY <2>1
  <2>9. entries' = entries /\ queue' = queue
    BY <1>8
  <2>. QED
    BY <1>2, <1>3, <1>4, <1>8, <2>2, <2>3, <2>4, <2>5, <2>6, <2>7, <2>8, <2>9, QueueAdds
<1>9. \A k \in {"direct", "resume", "read"} :
        LET new == <<Queue!Call(calls + 1, k, 0)>>
        IN /\ new \in Seq(QueueCalls)
           /\ \A i \in DOMAIN new : i = 1 /\ new[i].id = calls + 1 /\ new[i].kind # "queued" /\ new[i].entry = 0
  BY <1>4 DEF Queue!Call, QueueCalls, QueueKinds
<1>10. CASE Queue!SendDirectly
  <2>1. PICK k \in {"direct", "resume"} : Queue!Makes(<<Queue!Call(calls + 1, k, 0)>>, pending)
    BY <1>10 DEF Queue!SendDirectly
  <2>2. UNCHANGED <<queue, dispatching, hasView, running, failed>> /\ entries' = entries
    BY <1>10 DEF Queue!SendDirectly, Queue!threadVars
  <2>. QED
    BY <1>8, <1>9, <2>1, <2>2
<1>11. CASE Queue!Reopen
  <2>1. Queue!Makes(<<>>, pending) \/ Queue!Makes(<<Queue!Call(calls + 1, "read", 0)>>, pending)
    BY <1>11 DEF Queue!Reopen
  <2>2. UNCHANGED <<queue, dispatching, hasView, running, failed>> /\ entries' = entries
    BY <1>11 DEF Queue!Reopen, Queue!threadVars
  <2>3. <<>> \in Seq(QueueCalls) /\ DOMAIN <<>> = {}
    OBVIOUS
  <2>. QED
    BY <1>8, <1>9, <2>1, <2>2, <2>3
<1>. QED
  BY <1>5, <1>6, <1>7, <1>10, <1>11

\* A message reaches the page.
LEMMA QueueReceives == QueueInv /\ Queue!PageReceives => QueueInv'
<1>. SUFFICES ASSUME QueueInv, Queue!PageReceives
              PROVE  QueueInv'
  OBVIOUS
<1>1. QueueTypes /\ CallsAre /\ AnswersAre
  BY DEF QueueInv
<1>2. /\ wire # <<>> /\ wire' = Tail(wire)
      /\ UNCHANGED <<took, live, socket, answers, drops, exits>>
  BY DEF Queue!PageReceives, Queue!codexVars, Queue!bounds
<1>3. wire \in Seq(QueueMessages)
  BY <1>1 DEF QueueTypes
<1>4. PICK m \in QueueMessages : m = Head(wire)
  BY <1>2, <1>3, TailIs
<1>5. m \in ToSet(wire) /\ wire' \in Seq(QueueMessages) /\ ToSet(wire') \subseteq ToSet(wire)
  <2>1. /\ Head(wire) = wire[1] /\ Tail(wire) \in Seq(QueueMessages)
        /\ Len(wire) \in Nat \ {0} /\ DOMAIN wire = 1..Len(wire)
        /\ \A i \in DOMAIN Tail(wire) : i + 1 \in DOMAIN wire /\ Tail(wire)[i] = wire[i + 1]
    BY <1>2, <1>3, TailIs
  <2>2. 1 \in DOMAIN wire
    BY <2>1
  <2>. QED
    BY <1>2, <1>4, <2>1, <2>2 DEF ToSet
<1>6. Answered' \subseteq Answered /\ answers' \in SUBSET QueueMessages
  BY <1>1, <1>2, <1>5 DEF Answered, QueueTypes
<1>7. pending \in SUBSET pending /\ Queue!Dispatched \subseteq pending
  BY DEF Queue!Dispatched
<1>8. \/ /\ m.kind = "turn" /\ loaded' = TRUE /\ UNCHANGED <<sends, entries>>
         /\ \E r : Queue!Renders(queue, TRUE, r, "none", pending)
      \/ \E c \in pending :
           /\ c.id = m.id /\ m.kind = "answer"
           /\ \/ m.ok /\ c.kind \in {"queued", "direct"} /\ Queue!HandleTurn(c, m.turn)
              \/ m.ok /\ c.kind \in {"resume", "read"} /\ Queue!HandleThread(c, m.turn)
              \/ /\ ~m.ok /\ Queue!Reject({c})
                 /\ UNCHANGED <<loaded, sends, entries, hasView, running, calls, unsent, out>>
  BY <1>4 DEF Queue!PageReceives, Queue!composerVars
<1>9. CASE /\ m.kind = "turn" /\ loaded' = TRUE /\ UNCHANGED <<sends, entries>>
           /\ \E r : Queue!Renders(queue, TRUE, r, "none", pending)
  <2>1. PICK r : Queue!Renders(queue, TRUE, r, "none", pending)
    BY <1>9
  <2>2. loaded' \in BOOLEAN /\ sends' \in Nat /\ entries' = entries
    BY <1>1, <1>9 DEF QueueTypes
  <2>. QED
    BY <1>2, <1>5, <1>6, <1>7, <2>1, <2>2, QueueRenders
<1>10. ASSUME NEW c \in pending, c.id = m.id, m.kind = "answer"
       PROVE  /\ m.ok /\ c.kind = "queued" => Queue!Occurrences(c.entry) # {}
              /\ ~m.ok /\ c.kind = "queued" => Count(c.entry) <= drops + exits
  <2>1. m \in Answered
    BY <1>5, <1>10 DEF Answered
  <2>. QED
    BY <1>1, <1>10, <2>1 DEF AnswersAre, Fits
<1>11. ASSUME NEW c \in pending, c.id = m.id, m.kind = "answer", m.ok, c.kind \in {"queued", "direct"},
              Queue!HandleTurn(c, m.turn)
       PROVE  QueueInv'
  <2>1. /\ pending' \subseteq pending /\ UNCHANGED <<calls, entries, sends, loaded, out, unsent>>
        /\ dispatching' \in BOOLEAN
    BY <1>11 DEF Queue!HandleTurn, Queue!composerVars, Queue!ClearDispatching
  <2>2. queue' \in Seq(Nat)
    <3>1. queue \in Seq(Nat)
      BY <1>1 DEF QueueTypes
    <3>2. CASE c.kind # "queued"
      BY <1>11, <3>1, <3>2 DEF Queue!HandleTurn
    <3>3. CASE c.kind = "queued"
      <4>1. c \in Queue!Dispatched
        BY <3>3 DEF Queue!Dispatched
      <4>2. queue # <<>> /\ c.entry = queue[1]
        BY <4>1 DEF QueueInv, DispatchIs
      <4>3. queue' = RemoveAt(queue, 1)
        BY <1>11, <3>1, <3>3, <4>2, RemoveFirstIs DEF Queue!HandleTurn, Queue!RemoveQueuedPrompt
      <4>4. 1 \in DOMAIN queue
        BY <3>1, <4>2
      <4>. QED
        BY <3>1, <4>3, <4>4, RemoveAtIs
    <3>. QED
      BY <3>2, <3>3
  <2>3. QueueTypes'
    BY <1>1, <1>2, <1>5, <2>1, <2>2 DEF QueueTypes
  <2>4. UNCHANGED <<took, exits, drops, socket>>
    BY <1>2
  <2>. QED
    BY <1>6, <1>10, <1>11, <2>3, <2>4, QueueTurns
<1>12. ASSUME NEW c \in pending, c.kind \in {"resume", "read"}, Queue!HandleThread(c, m.turn)
       PROVE  QueueInv'
  <2>1. pending \ {c} \in SUBSET pending /\ Queue!Dispatched \subseteq pending \ {c}
    BY <1>12 DEF Queue!Dispatched
  <2>2. \E r : \E k \in {"none", "direct"} : Queue!Renders(queue, TRUE, r, k, pending \ {c})
    BY <1>12 DEF Queue!HandleThread
  <2>4. PICK r : \E k \in {"none", "direct"} : Queue!Renders(queue, TRUE, r, k, pending \ {c})
    BY <2>2
  <2>5. PICK k \in {"none", "direct"} : Queue!Renders(queue, TRUE, r, k, pending \ {c})
    BY <2>4
  <2>3. loaded' \in BOOLEAN /\ sends' \in Nat /\ entries' = entries
    BY <1>1, <1>12 DEF Queue!HandleThread, QueueTypes
  <2>. QED
    BY <1>2, <1>5, <1>6, <2>1, <2>3, <2>5, QueueRenders
<1>13. ASSUME NEW c \in pending, c.id = m.id, m.kind = "answer", ~m.ok, Queue!Reject({c}),
              UNCHANGED <<loaded, sends, entries, hasView, running, calls, unsent, out>>
       PROVE  QueueInv'
  <2>1. pending' \subseteq pending /\ queue' = queue /\ dispatching' \in BOOLEAN
    BY <1>13 DEF Queue!Reject, Queue!RemoveQueuedPrompt
  <2>2. QueueTypes'
    BY <1>1, <1>2, <1>5, <1>13, <2>1 DEF QueueTypes
  <2>3. /\ Once(out)' /\ Once(unsent)' /\ (ToSet(out) \cap ToSet(unsent) = {})' /\ OnWay' \subseteq OnWay
        /\ (socket => unsent = <<>>)'
    BY <1>1, <1>2, <1>13 DEF CallsAre, OnWay, Once
  <2>4. drops <= drops' /\ drops' = drops
    BY <1>1, <1>2 DEF QueueTypes
  <2>5. \A d \in {c} : d.kind = "queued" => Count(d.entry) <= drops' + exits
    BY <1>10, <1>13, <2>4
  <2>6. {c} \in SUBSET pending
    OBVIOUS
  <2>7. UNCHANGED <<calls, entries, took, exits>> /\ UNCHANGED <<hasView, running>>
    BY <1>2, <1>13
  <2>. QED
    BY <1>6, <1>13, <2>2, <2>3, <2>4, <2>5, <2>6, <2>7, QueueRejects
<1>. QED
  BY <1>8, <1>9, <1>11, <1>12, <1>13

LEMMA QueueDrops == QueueInv /\ Queue!Drop => QueueInv'
<1>. SUFFICES ASSUME QueueInv, Queue!Drop
              PROVE  QueueInv'
  OBVIOUS
<1>1. QueueTypes /\ CallsAre /\ CountsAre
  BY DEF QueueInv
<1>2. /\ drops' = drops + 1 /\ socket' = FALSE /\ wire' = <<>> /\ unsent' = <<>> /\ answers' = {}
      /\ Queue!Reject(pending)
      /\ UNCHANGED <<loaded, sends, entries, hasView, running, calls, took, live, exits>>
  BY DEF Queue!Drop, Queue!composerVars, Queue!codexVars
<1>3. /\ out \in Seq(QueueCalls) /\ Once(out) /\ drops \in Nat /\ exits \in Nat /\ entries \in Nat
  BY <1>1 DEF QueueTypes, CallsAre
<1>4. out' \in Seq(QueueCalls) /\ Once(out)' /\ ToSet(out') \subseteq ToSet(out)
  <2>1. CASE socket
    <3>1. PICK k \in 0..Len(out) : out' = SubSeq(out, 1, k)
      BY <2>1 DEF Queue!Drop
    <3>2. 1 \in 1..(Len(out) + 1)
      BY <1>3
    <3>. QED
      BY <1>3, <3>1, <3>2, PartOnce
  <2>2. CASE ~socket
    BY <1>3, <2>2 DEF Queue!Drop, Once
  <2>. QED
    BY <2>1, <2>2
<1>5. unsent' \in Seq(QueueCalls) /\ wire' \in Seq(QueueMessages) /\ ToSet(unsent') = {} /\ Once(unsent)'
      /\ ToSet(wire') = {}
  BY <1>2 DEF ToSet, Once
<1>6. pending' = {} /\ queue' = queue /\ dispatching' \in BOOLEAN
  BY <1>2 DEF Queue!Reject, Queue!RemoveQueuedPrompt
<1>7. QueueTypes'
  BY <1>1, <1>2, <1>3, <1>4, <1>5, <1>6 DEF QueueTypes
<1>8. /\ (ToSet(out) \cap ToSet(unsent) = {})' /\ OnWay' \subseteq OnWay
      /\ (socket => unsent = <<>>)' /\ Answered' \subseteq Answered /\ drops <= drops'
  BY <1>2, <1>3, <1>4, <1>5 DEF OnWay, Answered
<1>9. \A c \in pending : c.kind = "queued" => Count(c.entry) <= drops' + exits
  <2>. SUFFICES ASSUME NEW c \in pending, c.kind = "queued"
                PROVE  Count(c.entry) <= drops' + exits
    OBVIOUS
  <2>1. c.entry \in 1..entries
    BY <1>1, <1>3 DEF QueueTypes, QueueCalls, CallsAre
  <2>2. Count(c.entry) <= drops + exits + 1 /\ c.entry \in Nat
    BY <1>1, <1>3, <2>1 DEF CountsAre
  <2>3. Count(c.entry) \in Nat
    BY <1>1, <2>2, CountIs
  <2>. QED
    BY <1>2, <1>3, <2>2, <2>3
<1>10. UNCHANGED <<calls, entries, took, exits>> /\ UNCHANGED <<hasView, running>>
  BY <1>2
<1>11. pending \in SUBSET pending /\ Queue!Reject(pending)
  BY <1>2
<1>. QED
  BY <1>4, <1>5, <1>7, <1>8, <1>9, <1>10, <1>11, QueueRejects

\* What the others do leaves the queue as it is.
LEMMA QueueSame ==
  ASSUME QueueInv,
         UNCHANGED <<queue, dispatching, hasView, running, failed, loaded, pending, sends, entries, calls,
                     socket, unsent, out, took, live, answers, wire, drops, exits>>
  PROVE  QueueInv'
<1>1. QueueTypes /\ CallsAre /\ TookIs
  BY DEF QueueInv
<1>2. QueueTypes'
  BY <1>1 DEF QueueTypes
<1>3. /\ Once(out)' /\ Once(unsent)' /\ (ToSet(out) \cap ToSet(unsent) = {})' /\ OnWay' \subseteq OnWay
      /\ (socket => unsent = <<>>)'
  BY <1>1 DEF CallsAre, OnWay, Once
<1>4. exits <= exits' /\ Len(took) <= Len(took')
  BY <1>1 DEF QueueTypes
<1>5. TookIs' /\ Answered' = Answered
  BY <1>1 DEF TookIs, Answered
<1>6. /\ \A i \in DOMAIN took : took'[i] = took[i]
      /\ \A i \in DOMAIN took' : i \in DOMAIN took
  OBVIOUS
<1>. QED
  BY <1>2, <1>3, <1>4, <1>5, <1>6, QueueRests

LEMMA QueueStep == QueueInv /\ [PageNext]_<<part, vars, listVars, voiceVars, queueVars>> => QueueInv'
<1>. SUFFICES ASSUME QueueInv, [PageNext]_<<part, vars, listVars, voiceVars, queueVars>>
              PROVE  QueueInv'
  OBVIOUS
<1>1. CASE Queue!Next
  <2>1. CASE Queue!Leave
    BY <2>1, QueueSame DEF Queue!Leave, Queue!threadVars, Queue!callVars, Queue!codexVars
  <2>. QED
    BY <1>1, <2>1, QueueUser, QueueReceives, QueueDrops, QueueTakes, QueueCodex DEF Queue!Next
<1>2. CASE UNCHANGED queueVars
  BY <1>2, QueueSame DEF queueVars
<1>. QED
  BY <1>1, <1>2 DEF PageNext

LEMMA QueueSends == QueueInv => Queue!PromptsReachCodex
<1>. SUFFICES ASSUME QueueInv
              PROVE  Queue!PromptsReachCodex
  OBVIOUS
<1>1. QueueTypes /\ CountsAre /\ DispatchIs
  BY DEF QueueInv
<1>2. Queue!AgainOnlyAfterLoss
  <2>. SUFFICES ASSUME NEW e \in 1..entries
                PROVE  Cardinality(Queue!Occurrences(e)) <= 1 + drops + exits
    BY DEF Queue!AgainOnlyAfterLoss, Queue!Cardinality, Cardinality
  <2>1. e \in Nat /\ drops \in Nat /\ exits \in Nat
    BY <1>1 DEF QueueTypes
  <2>2. Cardinality(Queue!Occurrences(e)) \in Nat /\ Cardinality(Flying(e)) \in Nat
    BY <1>1, <2>1, CountIs
  <2>3. Count(e) <= drops + exits + 1
    BY <1>1 DEF CountsAre
  <2>. QED
    BY <2>1, <2>2, <2>3 DEF Count
<1>3. Queue!OneDispatch
  <2>1. CASE Queue!Dispatched = {}
    BY <1>1, <2>1, FS_EmptySet DEF Queue!OneDispatch, Queue!Cardinality, Cardinality, DispatchIs
  <2>2. CASE Queue!Dispatched # {}
    <3>1. PICK c : Queue!Dispatched = {c}
      BY <1>1, <2>2 DEF DispatchIs
    <3>2. Cardinality(Queue!Dispatched) = 1
      BY <3>1, FS_Singleton
    <3>3. dispatching /\ queue # <<>> /\ c.entry = queue[1]
      BY <1>1, <3>1 DEF DispatchIs
    <3>4. Head(queue) = queue[1]
      BY <1>1, <3>3 DEF QueueTypes
    <3>. QED
      BY <3>1, <3>2, <3>3, <3>4 DEF Queue!OneDispatch, Queue!Cardinality, Cardinality
  <2>. QED
    BY <2>1, <2>2
<1>. QED
  BY <1>2, <1>3 DEF Queue!PromptsReachCodex, QueueInv

\* Every queued prompt reaches codex, once but for lost answers: it is in the queue until codex
\* has it, and is sent again only when an answer went with the socket or with codex; and a queue has
\* something that will move it: its first prompt is on its way, a turn is shown as running, its
\* view is gone or its dispatch failed (queuedPrompts, queuedDispatchingThreadsRef).
THEOREM PromptsAreAlwaysDue == PageSpec => []PromptsAreDue
<1>1. QueueInv => PromptsAreDue
  BY QueueSends DEF QueueInv, PromptsAreDue
<1>. QED
  BY <1>1, QueueStart, QueueStep, PTL DEF PageSpec

=============================================================================
