------------------------------ MODULE PaneProofs ------------------------------
(***************************************************************************)
(* Theorems about the middle of the page (MCPane), for any workspaces,     *)
(* listings, filters, threads, texts and any number of steps: one file     *)
(* from `git status' to its detail (ReviewInv), the panel of files         *)
(* (PanelInv), the conversation (TalkInv) and an item of it (ItemInv).     *)
(* Each part moves alone, so each invariant is of the variables of its     *)
(* part.                                                                   *)
(***************************************************************************)
EXTENDS MCPane, SequenceLemmas, FunctionTheorems

-----------------------------------------------------------------------------
(* What git says of a path, and what the panel shows of it. *)

Contents == Texts \cup {Absent}
Trees == [head : Contents, index : Contents, work : Contents]

LEMMA LetterIs ==
  ASSUME NEW x \in Contents, NEW y \in Contents
  PROVE  /\ Letter(x, y) \in {" ", "A", "D", "M"}
         /\ Letter(x, y) = " " <=> x = y
         /\ Letter(x, y) = "A" => x = Absent
         /\ Letter(x, y) = "D" => y = Absent
         /\ Letter(x, y) = "M" => x # Absent /\ y # Absent
BY DEF Letter

\* The lines of a path, at most two.
Tracked(t) == [x |-> Letter(t.head, t.index),
               y |-> IF t.index = Absent THEN " " ELSE Letter(t.index, t.work)]
Untracked == [x |-> "?", y |-> "?"]
Lines == [x : {" ", "A", "D", "M", "?"}, y : {" ", "A", "D", "M", "?"}]
Statuses == {"untracked", "deleted", "added", "modified"}

Differs(t) == Tracked(t).x # " " \/ Tracked(t).y # " "
IsUntracked(t) == t.index = Absent /\ t.work # Absent

LEMMA LinesAre ==
  ASSUME NEW t \in Trees
  PROVE  /\ Differs(t) /\ IsUntracked(t) => StatusLines(t) \in Seq(Lines) /\ Len(StatusLines(t)) = 2
         /\ Differs(t) /\ ~IsUntracked(t) => StatusLines(t) = <<Tracked(t)>>
         /\ ~Differs(t) /\ IsUntracked(t) => StatusLines(t) = <<Untracked>>
         /\ ~Differs(t) /\ ~IsUntracked(t) => StatusLines(t) = <<>>
<1>1. StatusLines(t) = (IF Differs(t) THEN <<Tracked(t)>> ELSE <<>>)
                         \o (IF IsUntracked(t) THEN <<Untracked>> ELSE <<>>)
  BY DEF StatusLines, Tracked, Untracked, Differs, IsUntracked
<1>. HIDE DEF Differs, IsUntracked
<1>2. Tracked(t) \in Lines /\ Untracked \in Lines
  <2>1. t.head \in Contents /\ t.index \in Contents /\ t.work \in Contents
    BY DEF Trees
  <2>2. Letter(t.head, t.index) \in {" ", "A", "D", "M"} /\ Letter(t.index, t.work) \in {" ", "A", "D", "M"}
    BY <2>1, LetterIs
  <2>. QED
    BY <2>2 DEF Tracked, Untracked, Lines
<1>3. \A k, l \in Lines : /\ <<k>> \o <<>> = <<k>> /\ <<>> \o <<l>> = <<l>> /\ <<>> \o <<>> = <<>>
                          /\ <<k>> \o <<l>> \in Seq(Lines) /\ Len(<<k>> \o <<l>>) = 2
  <2>. TAKE k, l \in Lines
  <2>1. <<k>> \in Seq(Lines) /\ <<l>> \in Seq(Lines) /\ <<>> \in Seq(Lines)
    OBVIOUS
  <2>. QED
    BY <2>1, ConcatEmptySeq
<1>. QED
  BY <1>1, <1>2, <1>3

LEMMA FilesAre ==
  ASSUME NEW t \in Trees
  PROVE  /\ Files(t) \in Seq(Statuses)
         /\ Files(t) # <<>> => Files(t)[1] = DeriveStatus(StatusLines(t)[1])
<1>1. DOMAIN StatusLines(t) = 1..Len(StatusLines(t)) /\ Len(StatusLines(t)) \in 0..2
  <2>1. \/ (StatusLines(t) \in Seq(Lines) /\ Len(StatusLines(t)) = 2) \/ StatusLines(t) = <<Tracked(t)>>
        \/ StatusLines(t) = <<Untracked>> \/ StatusLines(t) = <<>>
    BY LinesAre
  <2>. QED
    BY <2>1
<1>2. \A i \in DOMAIN StatusLines(t) : DeriveStatus(StatusLines(t)[i]) \in Statuses
  BY DEF DeriveStatus, Statuses
<1>3. Files(t) = [i \in 1..Len(StatusLines(t)) |-> DeriveStatus(StatusLines(t)[i])]
  BY <1>1 DEF Files
<1>4. Files(t) \in Seq(Statuses) /\ Len(Files(t)) = Len(StatusLines(t))
  BY <1>1, <1>2, <1>3
<1>. QED
  BY <1>1, <1>3, <1>4

\* The status of the first line leads to what HEAD and the working tree hold.
LEMMA DetailIs ==
  ASSUME NEW t \in Trees, Files(t) # <<>>
  PROVE  \/ FileDetail(t, Files(t)[1]) =
              [mode |-> "inline-diff", original |-> Text(t.head), modified |-> Text(t.work)]
         \/ Len(StatusLines(t)) = 2
         \/ StatusLines(t)[1] = [x |-> "A", y |-> "D"]
<1>. DEFINE x == Tracked(t).x
            y == Tracked(t).y
            s == Files(t)[1]
<1>1. s = DeriveStatus(StatusLines(t)[1])
  BY FilesAre
<1>2. t.head \in Contents /\ t.index \in Contents /\ t.work \in Contents
  BY DEF Trees
<1>3. /\ x = Letter(t.head, t.index)
      /\ y = IF t.index = Absent THEN " " ELSE Letter(t.index, t.work)
      /\ Tracked(t) = [x |-> x, y |-> y]
      /\ Differs(t) <=> (x # " " \/ y # " ")
      /\ IsUntracked(t) <=> (t.index = Absent /\ t.work # Absent)
  BY DEF Tracked, Differs, IsUntracked
<1>4. CASE Differs(t) /\ IsUntracked(t)
  BY <1>4, LinesAre
<1>5. CASE Differs(t) /\ ~IsUntracked(t)
  <2>1. StatusLines(t)[1] = Tracked(t)
    BY <1>5, LinesAre
  <2>2. s = (IF x = "?" THEN "untracked" ELSE IF "D" \in {x, y} THEN "deleted"
             ELSE IF "A" \in {x, y} THEN "added" ELSE "modified")
    BY <1>1, <2>1 DEF DeriveStatus
  <2>. HIDE DEF x, y, s
  <2>3. x # "?"
    BY <1>2, <1>3, LetterIs
  <2>4. CASE "D" \in {x, y}
    <3>1. t.work = Absent /\ (t.head # Absent \/ (x = "A" /\ y = "D"))
      BY <1>2, <1>3, <1>5, <2>4, LetterIs
    <3>2. CASE x = "A" /\ y = "D"
      BY <1>3, <2>1, <3>2
    <3>3. CASE t.head # Absent
      BY <2>2, <2>3, <2>4, <3>1, <3>3 DEF FileDetail, Text, s
    <3>. QED
      BY <3>1, <3>2, <3>3
  <2>5. CASE "D" \notin {x, y} /\ "A" \in {x, y}
    <3>1. t.head = Absent /\ t.work # Absent
      BY <1>2, <1>3, <1>5, <2>5, LetterIs
    <3>. QED
      BY <2>2, <2>3, <2>5, <3>1 DEF FileDetail, Text, s
  <2>6. CASE "D" \notin {x, y} /\ "A" \notin {x, y}
    <3>1. t.head # Absent /\ t.work # Absent
      BY <1>2, <1>3, <1>5, <2>6, LetterIs
    <3>. QED
      BY <2>2, <2>3, <2>6, <3>1 DEF FileDetail, Text, s
  <2>. QED
    BY <2>4, <2>5, <2>6
<1>6. CASE ~Differs(t) /\ IsUntracked(t)
  <2>1. StatusLines(t)[1] = Untracked
    BY <1>6, LinesAre
  <2>2. s = "untracked"
    BY <1>1, <2>1 DEF DeriveStatus, Untracked
  <2>3. t.head = Absent
    BY <1>2, <1>3, <1>6, LetterIs
  <2>. QED
    BY <1>3, <1>6, <2>2, <2>3 DEF FileDetail, Text
<1>7. CASE ~Differs(t) /\ ~IsUntracked(t)
  <2>1. StatusLines(t) = <<>>
    BY <1>7, LinesAre
  <2>2. Files(t) = <<>>
    BY <2>1 DEF Files
  <2>. QED
    BY <2>2
<1>. QED
  BY <1>4, <1>5, <1>6, <1>7

-----------------------------------------------------------------------------
(* The snapshots and the detail. *)

ListingsOf == [files : Seq(Statuses), version : Nat, known : BOOLEAN]
RefreshRecords == [kind : Kinds, pc : {"asked", "read", "shown", "outshone"}, snapshot : ListingsOf]
Results == [mode : {"unavailable", "inline-diff"}, original : Texts \cup {""}, modified : Texts \cup {""}]
ReadRecords ==
  [pc : {"asked", "found", "missing", "answered", "failed"}, status : Statuses \cup {"none"},
   version : Nat, fresh : BOOLEAN, seen : Trees, result : Results]

ReviewTypes ==
  /\ tree \in Trees /\ changes \in Nat /\ asked \in 0..changes /\ late \in BOOLEAN
  /\ snapshot \in ListingsOf
  /\ refreshes \in [DOMAIN refreshes -> RefreshRecords]

\* The read that the panel waits for is one of the snapshot it shows.
CurrentIs == current # NoRead => current \in DOMAIN detailReads /\ detailReads[current].fresh

\* What is answered is what the tree held when it was read.
AnswersAre(rs) ==
  \A d \in DOMAIN rs :
    rs[d].pc = "answered" => rs[d].result = FileDetail(rs[d].seen, rs[d].status)

\* A refresh that will read, or has read, what was asked for.
Covers(rs, r, n) == rs[r].pc = "asked" \/ (rs[r].pc = "read" /\ rs[r].snapshot.version >= n)

DetailInv ==
  detailReads \in [DOMAIN detailReads -> ReadRecords] /\ CurrentIs /\ AnswersAre(detailReads)
    /\ DetailIsOfSnapshot

ReviewInv == ReviewTypes /\ DetailInv /\ SnapshotIsDue

LEMMA DetailEffectKeeps ==
  ASSUME NEW rs, NEW s, NEW known, NEW error, rs \in [DOMAIN rs -> ReadRecords], tree \in Trees,
         AnswersAre(rs), RunDetailEffect(rs, s, known, error)
  PROVE  /\ detailReads' \in [DOMAIN detailReads' -> ReadRecords] /\ CurrentIs'
         /\ AnswersAre(detailReads')
         /\ known = NoDetail /\ s.files # <<>> => current' # NoRead
<1>1. CASE known = NoDetail /\ s.files # <<>>
  <2>1. PICK d \in DetailReads \ DOMAIN rs : detailReads' = Put(rs, d, NewRead) /\ current' = d
    BY <1>1 DEF RunDetailEffect
  <2>2. NewRead \in ReadRecords /\ NewRead.fresh /\ NewRead.pc = "asked"
    BY DEF NewRead, ReadRecords, Unavailable, Results
  <2>3. /\ DOMAIN detailReads' = DOMAIN rs \cup {d} /\ detailReads'[d] = NewRead
        /\ \A e \in DOMAIN rs : detailReads'[e] = rs[e]
        /\ detailReads' = [e \in DOMAIN rs \cup {d} |-> detailReads'[e]]
    BY <2>1 DEF Put
  <2>4. d # NoRead
    BY <2>1, GitAssumption
  <2>. HIDE DEF AnswersAre
  <2>5. detailReads' \in [DOMAIN detailReads' -> ReadRecords] /\ CurrentIs'
    BY <2>1, <2>2, <2>3 DEF CurrentIs
  <2>6. AnswersAre(detailReads')
    BY <2>1, <2>2, <2>3 DEF AnswersAre
  <2>. QED
    BY <2>1, <2>4, <2>5, <2>6
<1>2. CASE ~(known = NoDetail /\ s.files # <<>>)
  <2>1. detailReads' = rs /\ current' = NoRead
    BY <1>2 DEF RunDetailEffect, Cancel
  <2>. QED
    BY <1>2, <2>1 DEF CurrentIs
<1>. QED
  BY <1>1, <1>2

LEMMA StaleIs ==
  ASSUME NEW r \in ReadRecords
  PROVE  LET q == [r EXCEPT !.fresh = FALSE]
         IN /\ q \in ReadRecords /\ q.pc = r.pc /\ q.result = r.result
            /\ q.seen = r.seen /\ q.status = r.status
BY DEF ReadRecords

LEMMA ShowKeeps ==
  ASSUME ReviewTypes, DetailInv, NEW s, ShowSnapshot(s)
  PROVE  DetailInv'
<1>. DEFINE rs == Stale(detailReads)
<1>1. pageSnapshot' = s /\ detail' = NoDetail /\ RunDetailEffect(rs, s, NoDetail, FALSE)
  BY DEF ShowSnapshot
<1>2. rs \in [DOMAIN rs -> ReadRecords] /\ AnswersAre(rs)
  <2>1. DOMAIN rs = DOMAIN detailReads
    BY DEF Stale
  <2>2. \A d \in DOMAIN detailReads : rs[d] = [detailReads[d] EXCEPT !.fresh = FALSE]
    BY DEF Stale
  <2>3. \A d \in DOMAIN detailReads : detailReads[d] \in ReadRecords
    BY DEF DetailInv
  <2>4. \A d \in DOMAIN detailReads :
          /\ rs[d] \in ReadRecords /\ rs[d].pc = detailReads[d].pc
          /\ rs[d].result = detailReads[d].result
          /\ rs[d].seen = detailReads[d].seen /\ rs[d].status = detailReads[d].status
    BY <2>2, <2>3, StaleIs
  <2>5. rs = [d \in DOMAIN detailReads |-> rs[d]]
    BY DEF Stale
  <2>. HIDE DEF rs
  <2>. QED
    BY <2>1, <2>4, <2>5 DEF DetailInv, AnswersAre
<1>. HIDE DEF rs
<1>3. /\ detailReads' \in [DOMAIN detailReads' -> ReadRecords] /\ CurrentIs'
      /\ AnswersAre(detailReads')
      /\ s.files # <<>> => current' # NoRead
  BY <1>1, <1>2, DetailEffectKeeps DEF ReviewTypes
<1>. QED
  BY <1>1, <1>3 DEF DetailInv, DetailIsOfSnapshot, CurrentIs

\* The effect runs with what the panel has.
LEMMA RenderKeeps ==
  ASSUME ReviewTypes, DetailInv, RunDetailEffect(detailReads, pageSnapshot, detail, detailError),
         pageSnapshot' = pageSnapshot, detail' = detail
  PROVE  DetailInv'
<1>1. /\ detailReads' \in [DOMAIN detailReads' -> ReadRecords] /\ CurrentIs'
      /\ AnswersAre(detailReads')
      /\ detail = NoDetail /\ pageSnapshot.files # <<>> => current' # NoRead
  BY DetailEffectKeeps DEF ReviewTypes, DetailInv
<1>. QED
  BY <1>1 DEF DetailInv, DetailIsOfSnapshot, CurrentIs

LEMMA DetailKept ==
  ASSUME DetailInv, UNCHANGED <<pageSnapshot, panelVars>>
  PROVE  DetailInv'
BY DEF DetailInv, CurrentIs, DetailIsOfSnapshot, panelVars

\* One read goes on.
LEMMA ReadGoesOn ==
  ASSUME DetailInv, NEW d \in DOMAIN detailReads, NEW v \in ReadRecords,
         detailReads' = [detailReads EXCEPT ![d] = v], v.fresh = detailReads[d].fresh,
         v.pc = "answered" => v.result = FileDetail(v.seen, v.status),
         UNCHANGED <<pageSnapshot, current, detail, detailError>>
  PROVE  DetailInv'
<1>1. /\ DOMAIN detailReads' = DOMAIN detailReads /\ detailReads'[d] = v
      /\ \A e \in DOMAIN detailReads \ {d} : detailReads'[e] = detailReads[e]
      /\ detailReads' \in [DOMAIN detailReads -> ReadRecords]
  BY DEF DetailInv
<1>2. AnswersAre(detailReads')
  BY <1>1 DEF DetailInv, AnswersAre
<1>3. CurrentIs'
  BY <1>1 DEF DetailInv, CurrentIs
<1>. QED
  BY <1>1, <1>2, <1>3 DEF DetailInv, DetailIsOfSnapshot

LEMMA ReceiveKeeps ==
  ASSUME DetailInv, NEW d \in DetailReads, ReceiveDetail(d)
  PROVE  DetailInv'
<1>1. /\ d \in DOMAIN detailReads /\ detailReads[d].pc \in {"answered", "failed"}
      /\ IF d = current
         THEN /\ detail' = (IF detailReads[d].pc = "answered" THEN detailReads[d] ELSE detail)
              /\ detailError' = (detailReads[d].pc = "failed")
         ELSE detail' = detail /\ detailError' = detailError
      /\ current' = (IF d = current THEN NoRead ELSE current)
      /\ detailReads' = Drop(detailReads, d) /\ pageSnapshot' = pageSnapshot
  BY DEF ReceiveDetail, Takes, Cancel
<1>2. /\ DOMAIN detailReads' = DOMAIN detailReads \ {d}
      /\ \A e \in DOMAIN detailReads \ {d} : detailReads'[e] = detailReads[e]
      /\ detailReads' = [e \in DOMAIN detailReads \ {d} |-> detailReads[e]]
  BY <1>1 DEF Drop, Restrict
<1>3. detailReads[d] \in ReadRecords /\ d # NoRead
  BY <1>1, GitAssumption DEF DetailInv
<1>4. detailReads' \in [DOMAIN detailReads' -> ReadRecords] /\ AnswersAre(detailReads')
  BY <1>2 DEF DetailInv, AnswersAre
<1>5. CurrentIs'
  BY <1>1, <1>2 DEF DetailInv, CurrentIs
<1>6. detailReads[d].pc = "answered" => detailReads[d] # NoDetail
  BY <1>3, PaneAssumption DEF ReadRecords, Results, Trees, Contents, Statuses
<1>7. CASE d = current
  <2>1. detailReads[d].fresh
    BY <1>3, <1>7 DEF DetailInv, CurrentIs
  <2>. QED
    BY <1>1, <1>4, <1>5, <1>6, <1>7, <2>1 DEF DetailInv, DetailIsOfSnapshot
<1>8. CASE d # current
  <2>1. detail' = detail /\ detailError' = detailError /\ current' = current
    BY <1>1, <1>8
  <2>2. current \in DOMAIN detailReads =>
          current \in DOMAIN detailReads' /\ detailReads'[current] = detailReads[current]
    BY <1>2, <1>8
  <2>. QED
    BY <1>1, <1>4, <1>5, <2>1, <2>2 DEF DetailInv, DetailIsOfSnapshot
<1>. QED
  BY <1>7, <1>8

-----------------------------------------------------------------------------
(* The refreshes and the snapshot of the server. *)

LEMMA OutshoneIs ==
  ASSUME NEW rs, rs \in [DOMAIN rs -> RefreshRecords]
  PROVE  /\ DOMAIN Outshone(rs) = DOMAIN rs /\ Outshone(rs) \in [DOMAIN rs -> RefreshRecords]
         /\ \A r \in DOMAIN rs, n \in Nat : Covers(rs, r, n) => Covers(Outshone(rs), r, n)
<1>1. ASSUME NEW r \in DOMAIN rs
      PROVE  /\ Outshone(rs)[r] \in RefreshRecords /\ Outshone(rs)[r].snapshot = rs[r].snapshot
             /\ rs[r].pc # "shown" => Outshone(rs)[r].pc = rs[r].pc
  <2>1. rs[r] \in RefreshRecords
    OBVIOUS
  <2>2. Outshone(rs)[r] = [rs[r] EXCEPT !.pc = IF @ = "shown" THEN "outshone" ELSE @]
    BY DEF Outshone
  <2>. QED
    BY <2>1, <2>2 DEF RefreshRecords
<1>2. Outshone(rs) = [r \in DOMAIN rs |-> Outshone(rs)[r]]
  BY DEF Outshone
<1>3. DOMAIN Outshone(rs) = DOMAIN rs
  BY DEF Outshone
<1>. QED
  BY <1>1, <1>2, <1>3 DEF Covers

\* What replaces the snapshot of the server is as young as what was asked for, or an older
\* refresh ended last, or a refresh that covers it stays.
LEMMA DueStores ==
  ASSUME ReviewTypes, SnapshotIsDue, NEW s \in ListingsOf, Store(s), asked' = asked,
         \/ s.version >= asked
         \/ \A r \in DOMAIN refreshes : Covers(refreshes, r, asked) =>
              r \in DOMAIN refreshes' /\ Covers(refreshes', r, asked)
  PROVE  SnapshotIsDue' /\ snapshot' \in ListingsOf /\ late' \in BOOLEAN
<1>1. /\ snapshot' = s /\ late' = (s.version < snapshot.version \/ (late /\ s.version < asked))
      /\ s.version \in Nat /\ snapshot.version \in Nat /\ asked \in Nat
  BY DEF Store, ReviewTypes, ListingsOf
<1>2. CASE s.version >= asked
  BY <1>1, <1>2 DEF SnapshotIsDue
<1>3. CASE ~(s.version >= asked) /\ snapshot.version >= asked
  <2>1. s.version < snapshot.version
    BY <1>1, <1>3
  <2>2. late' <=> (s.version < snapshot.version \/ (late /\ s.version < asked))
    BY <1>1
  <2>3. SnapshotIsDue'
    BY <2>1, <2>2 DEF SnapshotIsDue
  <2>. QED
    BY <1>1, <2>3 DEF ReviewTypes
<1>4. CASE ~(s.version >= asked) /\ ~(snapshot.version >= asked)
  <2>1. late \/ \E r \in DOMAIN refreshes : Covers(refreshes, r, asked)
    BY <1>1, <1>4 DEF SnapshotIsDue, Covers
  <2>2. CASE late
    BY <1>1, <1>4, <2>2 DEF SnapshotIsDue
  <2>3. CASE \E r \in DOMAIN refreshes : Covers(refreshes, r, asked)
    <3>1. \E r \in DOMAIN refreshes' : Covers(refreshes', r, asked)
      BY <1>4, <2>3
    <3>. QED
      BY <1>1, <3>1 DEF SnapshotIsDue, Covers
  <2>. QED
    BY <2>1, <2>2, <2>3
<1>. QED
  BY <1>1, <1>2, <1>3, <1>4 DEF ReviewTypes

\* A refresh more, for what there is now.
LEMMA RefreshAsked ==
  ASSUME ReviewTypes, NEW r, r \notin DOMAIN refreshes, NEW k \in Kinds,
         refreshes' = Put(refreshes, r, [kind |-> k, pc |-> "asked", snapshot |-> NoSnapshot])
  PROVE  refreshes' \in [DOMAIN refreshes' -> RefreshRecords] /\ SnapshotIsDue'
<1>. DEFINE v == [kind |-> k, pc |-> "asked", snapshot |-> NoSnapshot]
<1>1. v \in RefreshRecords /\ v.pc = "asked"
  <2>1. <<>> \in Seq(Statuses)
    OBVIOUS
  <2>. QED
    BY <2>1 DEF RefreshRecords, NoSnapshot, ListingsOf
<1>. HIDE DEF v
<1>2. /\ DOMAIN refreshes' = DOMAIN refreshes \cup {r} /\ refreshes'[r] = v
      /\ \A q \in DOMAIN refreshes : refreshes'[q] = refreshes[q]
      /\ refreshes' = [q \in DOMAIN refreshes \cup {r} |-> refreshes'[q]]
  BY DEF Put, v
<1>3. refreshes' \in [DOMAIN refreshes' -> RefreshRecords]
  BY <1>1, <1>2 DEF ReviewTypes
<1>. QED
  BY <1>1, <1>2, <1>3 DEF SnapshotIsDue

LEMMA ReadStatusKeeps ==
  ASSUME ReviewInv, NEW r \in Refreshes, ReadStatus(r)
  PROVE  ReviewTypes' /\ SnapshotIsDue'
<1>1. /\ r \in DOMAIN refreshes /\ refreshes[r].pc = "asked"
      /\ refreshes' = [refreshes EXCEPT ![r].pc = "read", ![r].snapshot = Snapshot(changes, Files(tree))]
      /\ tree' = tree /\ changes' = changes /\ asked' = asked /\ snapshot' = snapshot /\ late' = late
  BY DEF ReadStatus, treeVars
<1>2. /\ refreshes[r] \in RefreshRecords /\ tree \in Trees /\ changes \in Nat /\ asked \in 0..changes
  BY <1>1 DEF ReviewInv, ReviewTypes
<1>3. Snapshot(changes, Files(tree)) \in ListingsOf /\ Snapshot(changes, Files(tree)).version = changes
  BY <1>2, FilesAre DEF Snapshot, ListingsOf
<1>4. /\ refreshes'[r] \in RefreshRecords /\ refreshes'[r].pc = "read"
      /\ refreshes'[r].snapshot.version = changes
      /\ DOMAIN refreshes' = DOMAIN refreshes
      /\ \A q \in DOMAIN refreshes \ {r} : refreshes'[q] = refreshes[q]
      /\ refreshes' = [q \in DOMAIN refreshes |-> refreshes'[q]]
  BY <1>1, <1>2, <1>3 DEF RefreshRecords
<1>5. refreshes' \in [DOMAIN refreshes' -> RefreshRecords]
  BY <1>4 DEF ReviewInv, ReviewTypes
<1>6. r \in DOMAIN refreshes' /\ refreshes'[r].pc = "read" /\ refreshes'[r].snapshot.version >= asked
  BY <1>1, <1>2, <1>4
<1>. QED
  BY <1>1, <1>5, <1>6 DEF ReviewInv, ReviewTypes, SnapshotIsDue

LEMMA RefreshEndKeeps ==
  ASSUME ReviewInv, NEW r \in Refreshes, RefreshEnds(r)
  PROVE  ReviewInv'
<1>. DEFINE s == refreshes[r].snapshot
            rs == Outshone(refreshes)
<1>1. /\ r \in DOMAIN refreshes /\ refreshes[r].pc = "read" /\ Store(s) /\ ShowSnapshot(s)
      /\ refreshes' = IF refreshes[r].kind = "event" THEN Drop(rs, r) ELSE [rs EXCEPT ![r].pc = "shown"]
      /\ tree' = tree /\ changes' = changes /\ asked' = asked
  BY DEF RefreshEnds, treeVars
<1>2. ReviewTypes /\ SnapshotIsDue /\ DetailInv /\ asked \in Nat
  BY DEF ReviewInv, ReviewTypes
<1>3. s \in ListingsOf
  BY <1>1, <1>2 DEF ReviewTypes, RefreshRecords
<1>4. /\ DOMAIN rs = DOMAIN refreshes /\ rs \in [DOMAIN rs -> RefreshRecords]
      /\ \A q \in DOMAIN refreshes : Covers(refreshes, q, asked) => Covers(rs, q, asked)
  BY <1>2, OutshoneIs DEF ReviewTypes
<1>. HIDE DEF s, rs
<1>5. /\ refreshes' \in [DOMAIN refreshes' -> RefreshRecords]
      /\ \A q \in DOMAIN refreshes \ {r} : q \in DOMAIN refreshes' /\ refreshes'[q] = rs[q]
  <2>1. CASE refreshes[r].kind = "event"
    BY <1>1, <1>4, <2>1 DEF Drop, Restrict
  <2>2. CASE refreshes[r].kind # "event"
    <3>1. rs[r] \in RefreshRecords
      BY <1>1, <1>4
    <3>2. [rs[r] EXCEPT !.pc = "shown"] \in RefreshRecords
      BY <3>1 DEF RefreshRecords
    <3>. QED
      BY <1>1, <1>4, <2>2, <3>2
  <2>. QED
    BY <2>1, <2>2
<1>6. s.version >= asked \/ ~Covers(refreshes, r, asked)
  BY <1>1 DEF Covers, s
<1>7. SnapshotIsDue' /\ snapshot' \in ListingsOf /\ late' \in BOOLEAN
  <2>1. \/ s.version >= asked
        \/ \A q \in DOMAIN refreshes : Covers(refreshes, q, asked) =>
             q \in DOMAIN refreshes' /\ Covers(refreshes', q, asked)
    BY <1>4, <1>5, <1>6 DEF Covers
  <2>. QED
    BY <1>1, <1>2, <1>3, <2>1, DueStores
<1>8. ReviewTypes'
  BY <1>1, <1>2, <1>5, <1>7 DEF ReviewTypes
<1>9. DetailInv'
  BY <1>1, <1>2, ShowKeeps
<1>. QED
  BY <1>7, <1>8, <1>9 DEF ReviewInv

LEMMA BranchesKeep ==
  ASSUME ReviewInv, NEW r \in Refreshes, AnswerWithBranches(r)
  PROVE  ReviewInv'
<1>1. /\ r \in DOMAIN refreshes /\ refreshes[r].pc \in {"outshone", "shown"}
      /\ tree' = tree /\ changes' = changes /\ asked' = asked /\ snapshot' = snapshot /\ late' = late
  BY DEF AnswerWithBranches, treeVars
<1>2. ReviewTypes /\ SnapshotIsDue /\ DetailInv /\ asked \in Nat
  BY DEF ReviewInv, ReviewTypes
<1>3. /\ refreshes' \in [DOMAIN refreshes' -> RefreshRecords]
      /\ \A q \in DOMAIN refreshes \ {r} : Covers(refreshes, q, asked) =>
           q \in DOMAIN refreshes' /\ Covers(refreshes', q, asked)
  <2>1. CASE refreshes' = Drop(refreshes, r)
    BY <1>2, <2>1 DEF ReviewTypes, Covers, Drop, Restrict
  <2>2. CASE refreshes' = Drop(Outshone(refreshes), r)
    <3>. DEFINE rs == Outshone(refreshes)
    <3>1. /\ DOMAIN rs = DOMAIN refreshes /\ rs \in [DOMAIN rs -> RefreshRecords]
          /\ \A q \in DOMAIN refreshes : Covers(refreshes, q, asked) => Covers(rs, q, asked)
      BY <1>2, OutshoneIs DEF ReviewTypes
    <3>. HIDE DEF rs
    <3>2. refreshes' = Drop(rs, r)
      BY <2>2 DEF rs
    <3>. QED
      BY <3>1, <3>2 DEF Covers, Drop, Restrict
  <2>. QED
    BY <2>1, <2>2 DEF AnswerWithBranches
<1>4. SnapshotIsDue'
  <2>1. ~Covers(refreshes, r, asked)
    BY <1>1 DEF Covers
  <2>2. snapshot.version < asked => late \/ \E q \in DOMAIN refreshes' : Covers(refreshes', q, asked)
    BY <1>2, <1>3, <2>1 DEF SnapshotIsDue, Covers
  <2>. QED
    BY <1>1, <2>2 DEF SnapshotIsDue, Covers
<1>5. ReviewTypes'
  BY <1>1, <1>2, <1>3 DEF ReviewTypes
<1>6. DetailInv'
  BY <1>2, ShowKeeps, RenderKeeps DEF AnswerWithBranches
<1>. QED
  BY <1>4, <1>5, <1>6 DEF ReviewInv

-----------------------------------------------------------------------------
LEMMA ReviewStart == PaneInit => ReviewInv
<1>. SUFFICES ASSUME Init PROVE ReviewInv
  BY DEF PaneInit
<1>. USE DEF Init
<1>1. tree \in Trees
  BY DEF Trees, Contents
<1>2. NoSnapshot \in ListingsOf /\ NoSnapshot.files = <<>> /\ NoSnapshot.version = 0
  <2>1. <<>> \in Seq(Statuses)
    OBVIOUS
  <2>. QED
    BY <2>1 DEF NoSnapshot, ListingsOf
<1>3. DOMAIN refreshes = {} /\ DOMAIN detailReads = {}
  OBVIOUS
<1>4. /\ refreshes \in [DOMAIN refreshes -> RefreshRecords]
      /\ detailReads \in [DOMAIN detailReads -> ReadRecords]
  BY <1>3
<1>5. ReviewTypes
  <2>1. changes = 0 /\ asked = 0 /\ late = FALSE /\ snapshot = NoSnapshot
    OBVIOUS
  <2>2. changes \in Nat /\ asked \in 0..changes
    BY <2>1
  <2>. QED
    BY <1>1, <1>2, <1>4, <2>1, <2>2 DEF ReviewTypes
<1>6. DetailInv
  BY <1>2, <1>3, <1>4 DEF DetailInv, CurrentIs, AnswersAre, DetailIsOfSnapshot
<1>7. SnapshotIsDue
  BY <1>2 DEF SnapshotIsDue
<1>. QED
  BY <1>5, <1>6, <1>7 DEF ReviewInv

\* A snapshot that keeps what was asked for and what covers it.
LEMMA DueKept ==
  ASSUME SnapshotIsDue, UNCHANGED <<asked, refreshes, snapshot, late>>
  PROVE  SnapshotIsDue'
BY DEF SnapshotIsDue

LEMMA TreeKeeps ==
  ASSUME ReviewInv, TreeChanges
  PROVE  ReviewInv'
<1>1. /\ changes' = changes + 1 /\ asked' = asked /\ pageSnapshot' = pageSnapshot
      /\ refreshes' = refreshes /\ snapshot' = snapshot /\ late' = late /\ UNCHANGED panelVars
  BY DEF TreeChanges, Edit, Stage, Untrack, Commit, ChangeTree, serverVars
<1>2. tree' \in Trees
  BY DEF TreeChanges, Edit, Stage, Untrack, Commit, ChangeTree, ReviewInv, ReviewTypes, Trees, Contents
<1>3. ReviewTypes'
  BY <1>1, <1>2 DEF ReviewInv, ReviewTypes
<1>. QED
  BY <1>1, <1>3, DetailKept, DueKept DEF ReviewInv

LEMMA DetailKeeps ==
  ASSUME ReviewInv, NEW d \in DetailReads, FindFile(d) \/ ReadMissing(d) \/ ReadDetail(d)
  PROVE  ReviewInv'
<1>. DEFINE s == Snapshot(changes, Files(tree))
<1>1. /\ d \in DOMAIN detailReads /\ tree' = tree /\ changes' = changes /\ asked' = asked
      /\ refreshes' = refreshes /\ UNCHANGED <<pageSnapshot, current, detail, detailError>>
  BY DEF FindFile, ReadMissing, ReadDetail, treeVars, serverVars
<1>2. /\ ReviewTypes /\ DetailInv /\ SnapshotIsDue /\ detailReads[d] \in ReadRecords
      /\ tree \in Trees /\ changes \in Nat /\ snapshot \in ListingsOf /\ asked \in 0..changes
  BY <1>1 DEF ReviewInv, ReviewTypes, DetailInv
<1>3. s \in ListingsOf /\ s.version = changes
  BY <1>2, FilesAre DEF Snapshot, ListingsOf
<1>. HIDE DEF s
<1>4. ASSUME NEW l \in ListingsOf, l.files # <<>>
      PROVE  [detailReads[d] EXCEPT !.pc = "found", !.status = Head(l.files), !.version = l.version]
               \in ReadRecords
  <2>1. Head(l.files) \in Statuses /\ l.version \in Nat
    BY <1>4 DEF ListingsOf
  <2>. QED
    BY <1>2, <2>1 DEF ReadRecords
<1>5. /\ [detailReads[d] EXCEPT !.pc = "missing"] \in ReadRecords
      /\ [detailReads[d] EXCEPT !.pc = "failed"] \in ReadRecords
  BY <1>2 DEF ReadRecords
<1>6. FileDetail(tree, detailReads[d].status) \in Results
  BY <1>2 DEF FileDetail, Unavailable, Text, Results, Trees, Contents
<1>7. [detailReads[d] EXCEPT !.pc = "answered", !.seen = tree,
                             !.result = FileDetail(tree, detailReads[d].status)] \in ReadRecords
  BY <1>2, <1>6 DEF ReadRecords
<1>8. \E v \in ReadRecords :
        /\ detailReads' = [detailReads EXCEPT ![d] = v] /\ v.fresh = detailReads[d].fresh
        /\ v.pc = "answered" => v.result = FileDetail(v.seen, v.status)
  <2>1. CASE FindFile(d) /\ snapshot.files # <<>>
    <3>. DEFINE v == [detailReads[d] EXCEPT !.pc = "found", !.status = Head(snapshot.files),
                                            !.version = snapshot.version]
    <3>1. detailReads' = [detailReads EXCEPT ![d] = v]
      BY <2>1 DEF FindFile
    <3>2. v \in ReadRecords
      BY <1>2, <1>4, <2>1
    <3>3. v.pc = "found" /\ v.fresh = detailReads[d].fresh
      BY <1>2 DEF ReadRecords
    <3>. QED
      BY <3>1, <3>2, <3>3
  <2>2. CASE FindFile(d) /\ ~(snapshot.files # <<>>)
    <3>. DEFINE v == [detailReads[d] EXCEPT !.pc = "missing"]
    <3>1. detailReads' = [detailReads EXCEPT ![d] = v]
      BY <2>2 DEF FindFile
    <3>2. v.pc = "missing" /\ v.fresh = detailReads[d].fresh
      BY <1>2 DEF ReadRecords
    <3>. QED
      BY <1>5, <3>1, <3>2
  <2>3. CASE ReadMissing(d) /\ s.files # <<>>
    <3>. DEFINE v == [detailReads[d] EXCEPT !.pc = "found", !.status = Head(s.files), !.version = s.version]
    <3>1. detailReads' = [detailReads EXCEPT ![d] = v]
      BY <2>3 DEF ReadMissing, s
    <3>2. v \in ReadRecords
      BY <1>3, <1>4, <2>3
    <3>3. v.pc = "found" /\ v.fresh = detailReads[d].fresh
      BY <1>2 DEF ReadRecords
    <3>. QED
      BY <3>1, <3>2, <3>3
  <2>4. CASE ReadMissing(d) /\ ~(s.files # <<>>)
    <3>. DEFINE v == [detailReads[d] EXCEPT !.pc = "failed"]
    <3>1. detailReads' = [detailReads EXCEPT ![d] = v]
      BY <2>4 DEF ReadMissing, s
    <3>2. v.pc = "failed" /\ v.fresh = detailReads[d].fresh
      BY <1>2 DEF ReadRecords
    <3>. QED
      BY <1>5, <3>1, <3>2
  <2>5. CASE ReadDetail(d)
    <3>. DEFINE v == [detailReads[d] EXCEPT !.pc = "answered", !.seen = tree,
                                            !.result = FileDetail(tree, detailReads[d].status)]
    <3>1. detailReads' = [detailReads EXCEPT ![d] = v]
      BY <2>5 DEF ReadDetail
    <3>2. /\ v.fresh = detailReads[d].fresh /\ v.seen = tree /\ v.status = detailReads[d].status
          /\ v.result = FileDetail(tree, detailReads[d].status)
      BY <1>2 DEF ReadRecords
    <3>. QED
      BY <1>7, <3>1, <3>2
  <2>. QED
    BY <2>1, <2>2, <2>3, <2>4, <2>5
<1>9. DetailInv'
  BY <1>1, <1>2, <1>8, ReadGoesOn
<1>10. ReviewTypes' /\ SnapshotIsDue'
  <2>1. CASE FindFile(d) \/ ReadDetail(d)
    <3>1. snapshot' = snapshot /\ late' = late
      BY <2>1 DEF FindFile, ReadDetail, serverVars
    <3>. QED
      BY <1>1, <1>2, <3>1, DueKept DEF ReviewTypes
  <2>2. CASE ReadMissing(d)
    <3>1. Store(s)
      BY <2>2 DEF ReadMissing, s
    <3>2. s.version >= asked
      BY <1>2, <1>3
    <3>3. SnapshotIsDue' /\ snapshot' \in ListingsOf /\ late' \in BOOLEAN
      BY <1>1, <1>2, <1>3, <3>1, <3>2, DueStores
    <3>. QED
      BY <1>1, <1>2, <3>3 DEF ReviewTypes
  <2>. QED
    BY <2>1, <2>2
<1>. QED
  BY <1>9, <1>10 DEF ReviewInv

LEMMA ReviewStep == ReviewInv /\ [PaneNext]_<<part, vars, filesVars, talkVars, itemVars>> => ReviewInv'
<1>. SUFFICES ASSUME ReviewInv, [PaneNext]_<<part, vars, filesVars, talkVars, itemVars>>
              PROVE  ReviewInv'
  OBVIOUS
<1>0. ReviewTypes /\ DetailInv /\ SnapshotIsDue
  BY DEF ReviewInv
<1>1. ASSUME Next
      PROVE  ReviewInv'
  <2>1. CASE TreeChanges
    BY <2>1, TreeKeeps
  <2>2. CASE Renders
    <3>1. DetailInv'
      BY <1>0, <2>2, RenderKeeps DEF Renders
    <3>2. UNCHANGED <<tree, changes, asked, refreshes, snapshot, late>>
      BY <2>2 DEF Renders, treeVars, serverVars
    <3>. QED
      BY <1>0, <3>1, <3>2, DueKept DEF ReviewInv, ReviewTypes
  <2>3. ASSUME NEW r \in Refreshes, NEW k \in Kinds, Refresh(r, k)
        PROVE  ReviewInv'
    <3>1. /\ r \notin DOMAIN refreshes /\ asked' = changes /\ snapshot' = snapshot /\ late' = late
          /\ refreshes' = Put(refreshes, r, [kind |-> k, pc |-> "asked", snapshot |-> NoSnapshot])
          /\ tree' = tree /\ changes' = changes /\ UNCHANGED <<pageSnapshot, panelVars>>
      BY <2>3 DEF Refresh, MayRefresh, treeVars
    <3>2. refreshes' \in [DOMAIN refreshes' -> RefreshRecords] /\ SnapshotIsDue'
      BY <1>0, <3>1, RefreshAsked
    <3>. QED
      BY <1>0, <3>1, <3>2, DetailKept DEF ReviewInv, ReviewTypes
  <2>4. ASSUME NEW r \in Refreshes, SwitchBranch(r)
        PROVE  ReviewInv'
    <3>1. /\ r \notin DOMAIN refreshes /\ asked' = changes' /\ snapshot' = snapshot /\ late' = late
          /\ refreshes' = Put(refreshes, r, [kind |-> "page", pc |-> "asked", snapshot |-> NoSnapshot])
          /\ tree' \in Trees /\ changes' = changes + 1 /\ UNCHANGED <<pageSnapshot, panelVars>>
      BY <2>4 DEF SwitchBranch, ChangeTree, Trees, Contents
    <3>2. refreshes' \in [DOMAIN refreshes' -> RefreshRecords] /\ SnapshotIsDue'
      BY <1>0, <3>1, RefreshAsked DEF Kinds
    <3>. QED
      BY <1>0, <3>1, <3>2, DetailKept DEF ReviewInv, ReviewTypes
  <2>5. ASSUME NEW r \in Refreshes, ReadStatus(r)
        PROVE  ReviewInv'
    <3>1. UNCHANGED <<pageSnapshot, panelVars>>
      BY <2>5 DEF ReadStatus
    <3>. QED
      BY <1>0, <2>5, <3>1, ReadStatusKeeps, DetailKept DEF ReviewInv
  <2>6. ASSUME NEW r \in Refreshes, RefreshEnds(r) \/ AnswerWithBranches(r)
        PROVE  ReviewInv'
    BY <2>6, RefreshEndKeeps, BranchesKeep
  <2>7. ASSUME NEW d \in DetailReads, FindFile(d) \/ ReadMissing(d) \/ ReadDetail(d)
        PROVE  ReviewInv'
    BY <2>7, DetailKeeps
  <2>8. ASSUME NEW d \in DetailReads, ReceiveDetail(d)
        PROVE  ReviewInv'
    <3>1. UNCHANGED <<tree, changes, asked, refreshes, snapshot, late>>
      BY <2>8 DEF ReceiveDetail, treeVars, serverVars
    <3>2. DetailInv'
      BY <1>0, <2>8, ReceiveKeeps
    <3>. QED
      BY <1>0, <3>1, <3>2, DueKept DEF ReviewInv, ReviewTypes
  <2>. QED
    BY <1>1, <2>1, <2>2, <2>3, <2>4, <2>5, <2>6, <2>7, <2>8 DEF Next
<1>2. CASE UNCHANGED vars
  <2>1. UNCHANGED <<tree, changes, asked, refreshes, snapshot, late, pageSnapshot, panelVars>>
    BY <1>2 DEF vars, treeVars, serverVars
  <2>. QED
    BY <1>0, <2>1, DetailKept, DueKept DEF ReviewInv, ReviewTypes
<1>. QED
  BY <1>1, <1>2 DEF PaneNext

\* A file is shown as it is, for any number of refreshes, reads and changes of the tree: what was
\* asked for after a change is in the snapshot of the server or due, but when an older refresh
\* ended last (workbench-service.ts:1408); the detail beside a file is of the snapshot on the
\* screen (git-review-panel.tsx:191), and shows what HEAD and the working tree hold when nothing
\* has changed since the status was read, with the two named exceptions.
THEOREM ReviewIsAlwaysTrue == PaneSpec => []ReviewIsTrue
<1>1. ReviewInv => ReviewIsTrue
  <2>. SUFFICES ASSUME ReviewInv PROVE DetailIsOfTree
    BY DEF ReviewInv, DetailInv, ReviewIsTrue, DetailIsTrue
  <2>. SUFFICES ASSUME NEW d \in DOMAIN detailReads, detailReads[d].pc = "answered",
                       Files(detailReads[d].seen) # <<>>,
                       detailReads[d].status = Head(Files(detailReads[d].seen))
                PROVE  \/ detailReads[d].result =
                            [mode |-> "inline-diff", original |-> Text(detailReads[d].seen.head),
                             modified |-> Text(detailReads[d].seen.work)]
                       \/ Len(StatusLines(detailReads[d].seen)) = 2
                       \/ StatusLines(detailReads[d].seen)[1] = [x |-> "A", y |-> "D"]
    BY DEF DetailIsOfTree
  <2>. DEFINE t == detailReads[d].seen
  <2>1. detailReads[d] \in ReadRecords /\ AnswersAre(detailReads)
    BY DEF ReviewInv, DetailInv
  <2>2. t \in Trees /\ detailReads[d].result = FileDetail(t, detailReads[d].status)
    BY <2>1 DEF ReadRecords, AnswersAre
  <2>. HIDE DEF t
  <2>3. Files(t) # <<>> /\ detailReads[d].status = Files(t)[1]
    <3>1. Files(t) \in Seq(Statuses)
      BY <2>2, FilesAre
    <3>. QED
      BY <3>1 DEF t
  <2>. QED
    BY <2>2, <2>3, DetailIs DEF t
<1>. QED
  BY <1>1, ReviewStart, ReviewStep, PTL DEF PaneSpec

-----------------------------------------------------------------------------
(* The panel of files. *)

Paths == {PathOrder[i] : i \in DOMAIN PathOrder}
Snapshots == [git : BOOLEAN, files : SUBSET UNION Listings, generated : Nat, stamp : Nat]
Modes == {"working-tree", "remote"}
Places == Workspaces \cup {None}
PanelDrawings == [stamp : Nat, identity : Nat, filter : Queries \cup {NoQuery},
                  visible : Paths \cup {None}, mode : Modes, diff : Places]

PanelTypes ==
  /\ workspace \in Places /\ snapshots \in [Workspaces -> Snapshots \cup {None}]
  /\ selected \in [Workspaces -> Paths \cup {None}] /\ filter \in [Workspaces -> Queries \cup {NoQuery}]
  /\ {open, loading, failed, folded} \subseteq BOOLEAN /\ due \in {"none", "panel", "page"}
  /\ mode \in Modes /\ diff \in Places /\ read \in Places /\ acts \in Nat
  /\ drawn \in PanelDrawings \cup {None}
  /\ open /\ due # "page" => workspace # None

\* The panel has drawn something.
HasDrawn == drawn # None
StampOf(w) == IF snapshots[w] = None THEN 0 ELSE snapshots[w].stamp

\* Stamps and times of snapshots tell workspaces apart.
StampsAre ==
  /\ \A w \in Workspaces : snapshots[w] # None =>
       /\ snapshots[w].stamp \in 1..acts /\ snapshots[w].generated \in 1..acts
       /\ \A v \in Workspaces : snapshots[v] # None /\ v # w =>
            /\ snapshots[v].stamp # snapshots[w].stamp
            /\ snapshots[v].generated # snapshots[w].generated
  /\ HasDrawn => drawn.stamp \in 0..acts /\ drawn.identity \in 0..acts
  /\ HasDrawn => \A w \in Workspaces : drawn.stamp = StampOf(w) => drawn.identity = Panel!Identity(w)

\* The row of the selected file: a click has shown that its group is open, and the render that
\* follows opens the way to it.
RowIsOpen(w, row) == row.path = Panel!Preferred(w) /\ row.group \in groupsOpen
RowIsSeen(w, row) == row.path = Panel!Preferred(w) /\ Panel!Expanded(row)
RowsAre(w) ==
  HasDrawn /\ drawn.stamp = StampOf(w) /\ drawn.filter = filter[w] /\ Panel!Preferred(w) # None =>
    /\ Panel!Preferred(w) # drawn.visible => \E row \in Panel!Rows(w) : RowIsOpen(w, row)
    /\ Panel!Preferred(w) = drawn.visible /\ ~folded => \E row \in Panel!Rows(w) : RowIsSeen(w, row)

\* A panel that has settled shows what the store says.
Showing == open /\ due = "none" /\ workspace # None
ShowsStore ==
  Showing => drawn = Panel!Drawing /\ HasDrawn /\ selected[workspace] = Panel!Preferred(workspace)

\* A remote diff, or the read of one, is of the workspace that was drawn; and so is its button.
ReadsAre ==
  HasDrawn => \A w \in Workspaces : drawn.identity = Panel!Identity(w) =>
    /\ diff \in {None, w} /\ read \in {None, w}
    /\ mode = "remote" => snapshots[w] # None /\ snapshots[w].git

RemoteIs ==
  /\ open /\ due # "page" /\ workspace # None /\ HasDrawn
  /\ mode = "remote" /\ drawn.mode = "remote" /\ drawn.stamp = StampOf(workspace)
  /\ drawn.diff = diff
  => diff = workspace \/ (read = workspace /\ loading) \/ failed

PanelInv ==
  PanelTypes /\ StampsAre /\ (\A w \in Workspaces : RowsAre(w)) /\ ShowsStore /\ ReadsAre /\ RemoteIs

-----------------------------------------------------------------------------
(* The rows of a workspace and the file that is shown. *)

LEMMA PanelNoneIs ==
  /\ None \notin Workspaces /\ None \notin Paths /\ None \notin Snapshots /\ None \notin PanelDrawings
  /\ DOMAIN PathOrder \subseteq Nat
  /\ \A files \in Listings : \A f \in files : \E i \in DOMAIN PathOrder : PathOrder[i] = f.path
BY PaneAssumption DEF Paths, Snapshots, PanelDrawings, Modes, Places

LEMMA PositionIs ==
  ASSUME NEW seq, DOMAIN seq \subseteq Nat, NEW i \in DOMAIN seq
  PROVE  Panel!Position(seq, seq[i]) \in Nat
<1>1. \E j \in DOMAIN seq : seq[j] = seq[i]
  OBVIOUS
<1>. QED
  BY <1>1 DEF Panel!Position

LEMMA RowIs ==
  ASSUME PanelTypes, NEW w \in Workspaces, NEW r \in Panel!Rows(w)
  PROVE  /\ r.path \in Paths
         /\ Panel!Position(Panel!GroupOrder, r.group) \in Nat
         /\ Panel!Position(PathOrder, r.path) \in Nat
         /\ r.path # None
<1>1. /\ snapshots[w] # None /\ snapshots[w] \in Snapshots
      /\ \E f \in snapshots[w].files : r = [group |-> Panel!Classify(f), path |-> f.path]
  BY PanelNoneIs DEF Panel!Rows, PanelTypes
<1>2. PICK f \in snapshots[w].files : r = [group |-> Panel!Classify(f), path |-> f.path]
  BY <1>1
<1>3. f \in UNION Listings
  BY <1>1, <1>2 DEF Snapshots
<1>4. PICK i \in DOMAIN PathOrder : PathOrder[i] = f.path
  BY <1>3, PanelNoneIs
<1>5. r.path = PathOrder[i] /\ r.group = Panel!Classify(f)
  BY <1>2, <1>4
<1>6. \E k \in 1..5 : r.group = Panel!GroupOrder[k]
  <2>1. r.group \in {"conflicted", "staged-unstaged", "staged", "unstaged", "untracked"}
    BY <1>5 DEF Panel!Classify
  <2>2. /\ Panel!GroupOrder[1] = "conflicted" /\ Panel!GroupOrder[2] = "staged-unstaged"
        /\ Panel!GroupOrder[3] = "staged" /\ Panel!GroupOrder[4] = "unstaged"
        /\ Panel!GroupOrder[5] = "untracked"
    BY DEF Panel!GroupOrder
  <2>. QED
    BY <2>1, <2>2
<1>7. DOMAIN Panel!GroupOrder = 1..5
  BY DEF Panel!GroupOrder
<1>8. Panel!Position(Panel!GroupOrder, r.group) \in Nat
  BY <1>6, <1>7, PositionIs
<1>9. Panel!Position(PathOrder, r.path) \in Nat
  BY <1>5, PositionIs, PanelNoneIs
<1>. QED
  BY <1>5, <1>8, <1>9, PanelNoneIs DEF Paths

LEMMA FirstIs ==
  ASSUME PanelTypes, NEW w \in Workspaces, Panel!Rows(w) # {}
  PROVE  \E r \in Panel!Rows(w) : \A s \in Panel!Rows(w) : Panel!Precedes(r, s)
<1>. DEFINE G(r) == Panel!Position(Panel!GroupOrder, r.group)
            P(r) == Panel!Position(PathOrder, r.path)
            Gs == {G(r) : r \in Panel!Rows(w)}
<1>1. \A r \in Panel!Rows(w) : G(r) \in Nat /\ P(r) \in Nat
  BY RowIs
<1>2. Gs \in SUBSET Nat /\ Gs # {}
  BY <1>1
<1>3. PICK g \in Gs : \A x \in Gs : g <= x
  <2>. HIDE DEF Gs
  <2>. QED
    BY <1>2, LeastIs
<1>. DEFINE Firsts == {r \in Panel!Rows(w) : G(r) = g}
            Ps == {P(r) : r \in Firsts}
<1>4. Ps \in SUBSET Nat /\ Ps # {}
  BY <1>1, <1>3
<1>5. PICK p \in Ps : \A x \in Ps : p <= x
  <2>. HIDE DEF Ps
  <2>. QED
    BY <1>4, LeastIs
<1>6. PICK r \in Firsts : P(r) = p
  BY <1>5
<1>7. ASSUME NEW s \in Panel!Rows(w)
      PROVE  G(r) < G(s) \/ (G(r) = G(s) /\ P(r) <= P(s))
  <2>1. G(r) = g /\ G(r) <= G(s) /\ G(r) \in Nat /\ G(s) \in Nat
    BY <1>1, <1>3, <1>6
  <2>2. G(s) = g => P(s) \in Ps
    OBVIOUS
  <2>. HIDE DEF G, P, Ps
  <2>. QED
    BY <1>5, <1>6, <2>1, <2>2
<1>8. \A s \in Panel!Rows(w) : Panel!Precedes(r, s)
  BY <1>7 DEF Panel!Precedes
<1>. QED
  BY <1>6, <1>8

LEMMA PreferredIs ==
  ASSUME PanelTypes, NEW w \in Workspaces
  PROVE  /\ Panel!Preferred(w) \in Paths \cup {None}
         /\ Panel!Preferred(w) # None => \E row \in Panel!Rows(w) : row.path = Panel!Preferred(w)
         /\ Panel!Preferred(w) = None => Panel!Rows(w) = {}
         /\ Panel!Rows(w) = {} => Panel!Preferred(w) = None
         /\ (\E row \in Panel!Rows(w) : row.path = selected[w]) => Panel!Preferred(w) = selected[w]
<1>1. Panel!Selected(w) = selected[w] /\ selected[w] \in Paths \cup {None}
  BY PanelNoneIs DEF Panel!Selected, PanelTypes
<1>2. CASE \E row \in Panel!Rows(w) : row.path = selected[w]
  <2>1. Panel!Preferred(w) = selected[w]
    BY <1>1, <1>2 DEF Panel!Preferred
  <2>. QED
    BY <1>1, <1>2, <2>1, RowIs
<1>3. CASE ~(\E row \in Panel!Rows(w) : row.path = selected[w]) /\ Panel!Rows(w) = {}
  BY <1>1, <1>3 DEF Panel!Preferred
<1>4. CASE ~(\E row \in Panel!Rows(w) : row.path = selected[w]) /\ Panel!Rows(w) # {}
  <2>. DEFINE first == CHOOSE r \in Panel!Rows(w) : \A s \in Panel!Rows(w) : Panel!Precedes(r, s)
  <2>1. first \in Panel!Rows(w)
    BY <1>4, FirstIs
  <2>2. Panel!Preferred(w) = first.path
    BY <1>1, <1>4 DEF Panel!Preferred
  <2>. HIDE DEF first
  <2>. QED
    BY <1>4, <2>1, <2>2, RowIs
<1>. QED
  BY <1>2, <1>3, <1>4

\* What the panel makes of a workspace depends on what the store has of it.
LEMMA RowsSame ==
  ASSUME NEW w \in Workspaces, snapshots'[w] = snapshots[w], filter'[w] = filter[w]
  PROVE  /\ Panel!Rows(w)' = Panel!Rows(w) /\ StampOf(w)' = StampOf(w)
         /\ Panel!Identity(w)' = Panel!Identity(w)
         /\ selected'[w] = selected[w] => Panel!Preferred(w)' = Panel!Preferred(w)
<1>1. Panel!Rows(w)' = Panel!Rows(w)
  BY DEF Panel!Rows, Panel!Query
<1>2. StampOf(w)' = StampOf(w) /\ Panel!Identity(w)' = Panel!Identity(w)
  BY DEF StampOf, Panel!Identity
<1>3. selected'[w] = selected[w] => Panel!Preferred(w)' = Panel!Preferred(w)
  BY <1>1 DEF Panel!Preferred, Panel!Selected
<1>. QED
  BY <1>1, <1>2, <1>3

\* Two workspaces, one of which has a snapshot, do not look the same.
LEMMA Apart ==
  ASSUME PanelTypes, StampsAre, NEW v \in Workspaces, NEW w \in Workspaces, v # w,
         snapshots[v] # None
  PROVE  StampOf(w) # StampOf(v) /\ Panel!Identity(w) # Panel!Identity(v)
<1>1. /\ StampOf(v) = snapshots[v].stamp /\ Panel!Identity(v) = snapshots[v].generated
      /\ snapshots[v].stamp \in 1..acts /\ snapshots[v].generated \in 1..acts
  BY PanelNoneIs DEF StampOf, Panel!Identity, StampsAre
<1>2. CASE snapshots[w] = None
  BY <1>1, <1>2 DEF StampOf, Panel!Identity, PanelTypes
<1>3. CASE snapshots[w] # None
  <2>1. StampOf(w) = snapshots[w].stamp /\ Panel!Identity(w) = snapshots[w].generated
    BY <1>3, PanelNoneIs DEF StampOf, Panel!Identity
  <2>. QED
    BY <1>1, <1>3, <2>1 DEF StampsAre
<1>. QED
  BY <1>2, <1>3

LEMMA NoRows ==
  ASSUME PanelTypes, NEW w \in Workspaces, snapshots[w] = None
  PROVE  Panel!Rows(w) = {} /\ Panel!Preferred(w) = None
<1>1. Panel!Rows(w) = {}
  BY DEF Panel!Rows
<1>. QED
  BY <1>1, PreferredIs

-----------------------------------------------------------------------------
(* What a step leaves as it was. *)

LEMMA StampsKept ==
  ASSUME PanelTypes, StampsAre, snapshots' = snapshots, drawn' = drawn, acts' \in {acts, acts + 1}
  PROVE  StampsAre'
<1>1. \A w \in Workspaces : Panel!Identity(w)' = Panel!Identity(w) /\ StampOf(w)' = StampOf(w)
  BY DEF Panel!Identity, StampOf
<1>2. acts \in Nat /\ acts' \in Nat /\ acts <= acts'
  BY DEF PanelTypes
<1>3. 0..acts \subseteq 0..acts' /\ 1..acts \subseteq 1..acts'
  BY <1>2
<1>. QED
  BY <1>1, <1>3 DEF StampsAre, HasDrawn

LEMMA RowsKept ==
  ASSUME NEW w \in Workspaces, RowsAre(w), drawn' = drawn,
         snapshots'[w] = snapshots[w], filter'[w] = filter[w], selected'[w] = selected[w],
         groupsOpen \subseteq groupsOpen', dirsOpen \subseteq dirsOpen', folded' = folded
  PROVE  RowsAre(w)'
<1>1. /\ Panel!Rows(w)' = Panel!Rows(w) /\ StampOf(w)' = StampOf(w)
      /\ Panel!Preferred(w)' = Panel!Preferred(w)
  BY RowsSame
<1>2. \A row : /\ RowIsOpen(w, row) => RowIsOpen(w, row)'
               /\ RowIsSeen(w, row) => RowIsSeen(w, row)'
  BY <1>1 DEF RowIsOpen, RowIsSeen, Panel!Expanded
<1>. QED
  BY <1>1, <1>2 DEF RowsAre, HasDrawn

LEMMA ReadsKept ==
  ASSUME ReadsAre, snapshots' = snapshots, drawn' = drawn,
         diff' \in {None, diff, read}, read' \in {None, read}, mode' \in {mode, "working-tree"}
  PROVE  ReadsAre'
<1>1. \A w \in Workspaces : Panel!Identity(w)' = Panel!Identity(w)
  BY DEF Panel!Identity
<1>. QED
  BY <1>1 DEF ReadsAre, HasDrawn

\* A step after which the page is to be rendered, or has no panel, has less to show.
LEMMA PageIsDue ==
  ASSUME open' => due' = "page"
  PROVE  ShowsStore' /\ RemoteIs'
BY DEF ShowsStore, Showing, RemoteIs

-----------------------------------------------------------------------------
(* The store. *)

LEMMA SnapshotKeeps ==
  ASSUME PanelInv, NEW w \in Workspaces, NEW s \in Snapshots, Panel!Act, Panel!SetSnapshot(w, s),
         s.stamp = acts + 1,
         s.generated = acts + 1
           \/ (snapshots[w] # None /\ s.generated = snapshots[w].generated /\ s.git = snapshots[w].git)
  PROVE  PanelInv'
<1>1. /\ snapshots' = [snapshots EXCEPT ![w] = s]
      /\ selected' = [selected EXCEPT ![w] = IF \E f \in s.files : f.path = @ THEN @ ELSE None]
      /\ due' = (IF open THEN "page" ELSE due) /\ acts' = acts + 1
      /\ workspace' = workspace /\ filter' = filter /\ open' = open /\ drawn' = drawn
      /\ groupsOpen' = groupsOpen /\ dirsOpen' = dirsOpen /\ folded' = folded
      /\ mode' = mode /\ diff' = diff /\ loading' = loading /\ failed' = failed /\ read' = read
  BY DEF Panel!SetSnapshot, Panel!Act, Panel!tree, Panel!remote
<1>2. PanelTypes
  BY DEF PanelInv
<1>3. /\ snapshots'[w] = s /\ s # None /\ acts \in Nat
      /\ \A v \in Workspaces \ {w} : snapshots'[v] = snapshots[v] /\ selected'[v] = selected[v]
  BY <1>1, <1>2, PanelNoneIs DEF PanelTypes, Snapshots
<1>4. PanelTypes'
  <2>1. snapshots' \in [Workspaces -> Snapshots \cup {None}]
    BY <1>1, <1>2 DEF PanelTypes
  <2>2. selected' \in [Workspaces -> Paths \cup {None}]
    BY <1>1, <1>2 DEF PanelTypes
  <2>. QED
    BY <1>1, <1>2, <2>1, <2>2 DEF PanelTypes
<1>5. \A v \in Workspaces \ {w} : StampOf(v)' = StampOf(v) /\ Panel!Identity(v)' = Panel!Identity(v)
  BY <1>3, PanelNoneIs DEF StampOf, Panel!Identity
<1>6. StampOf(w)' = acts + 1 /\ Panel!Identity(w)' = s.generated
  BY <1>3, PanelNoneIs DEF StampOf, Panel!Identity
<1>7. HasDrawn => drawn.stamp \in 0..acts /\ drawn.identity \in 0..acts
  BY DEF PanelInv, StampsAre
<1>8. StampsAre'
  <2>1. \A v \in Workspaces \ {w} : snapshots[v] # None =>
          /\ snapshots[v].stamp \in 1..acts /\ snapshots[v].generated \in 1..acts
          /\ s.generated # snapshots[v].generated
    BY <1>3 DEF PanelInv, StampsAre
  <2>2. s.generated \in 1..(acts + 1)
    BY <1>3 DEF PanelInv, StampsAre
  <2>3. \A u \in Workspaces : snapshots'[u] # None =>
          /\ snapshots'[u].stamp \in 1..acts' /\ snapshots'[u].generated \in 1..acts'
          /\ \A v \in Workspaces : snapshots'[v] # None /\ v # u =>
               /\ snapshots'[v].stamp # snapshots'[u].stamp
               /\ snapshots'[v].generated # snapshots'[u].generated
    <3>. TAKE u \in Workspaces
    <3>1. CASE u = w
      BY <1>1, <1>3, <2>1, <2>2, <3>1
    <3>2. CASE u # w
      <4>1. snapshots'[u] = snapshots[u]
        BY <1>3, <3>2
      <4>2. ASSUME snapshots[u] # None, NEW v \in Workspaces, snapshots'[v] # None, v # u
            PROVE  /\ snapshots'[v].stamp # snapshots[u].stamp
                   /\ snapshots'[v].generated # snapshots[u].generated
        <5>1. CASE v = w
          BY <1>3, <2>1, <3>2, <4>2, <5>1
        <5>2. CASE v # w
          BY <1>3, <3>2, <4>2, <5>2 DEF PanelInv, StampsAre
        <5>. QED
          BY <5>1, <5>2
      <4>3. snapshots[u] # None => snapshots[u].stamp \in 1..acts' /\ snapshots[u].generated \in 1..acts'
        BY <1>1, <1>3, <2>1, <3>2
      <4>. QED
        BY <4>1, <4>2, <4>3
    <3>. QED
      BY <3>1, <3>2
  <2>4. HasDrawn' => drawn'.stamp \in 0..acts' /\ drawn'.identity \in 0..acts'
    BY <1>1, <1>3, <1>7 DEF HasDrawn
  <2>5. HasDrawn' => \A v \in Workspaces : drawn'.stamp = StampOf(v)' => drawn'.identity = Panel!Identity(v)'
    BY <1>1, <1>3, <1>5, <1>6, <1>7 DEF PanelInv, StampsAre, HasDrawn
  <2>. QED
    BY <2>3, <2>4, <2>5 DEF StampsAre
<1>9. ASSUME NEW v \in Workspaces
      PROVE  RowsAre(v)'
  <2>1. CASE v = w
    BY <1>1, <1>3, <1>6, <1>7, <2>1 DEF RowsAre, HasDrawn
  <2>2. CASE v # w
    BY <1>1, <1>3, <2>2, RowsKept DEF PanelInv
  <2>. QED
    BY <2>1, <2>2
<1>10. ReadsAre'
  <2>1. ASSUME HasDrawn, drawn.identity = s.generated
        PROVE  /\ diff \in {None, w} /\ read \in {None, w}
               /\ mode = "remote" => s.git
    <3>1. /\ snapshots[w] # None /\ s.generated = snapshots[w].generated /\ s.git = snapshots[w].git
      BY <1>3, <1>7, <2>1
    <3>2. drawn.identity = Panel!Identity(w)
      BY <2>1, <3>1, PanelNoneIs DEF Panel!Identity
    <3>. QED
      BY <2>1, <3>1, <3>2 DEF PanelInv, ReadsAre
  <2>2. ASSUME HasDrawn, NEW v \in Workspaces, drawn.identity = Panel!Identity(v)'
        PROVE  /\ diff \in {None, v} /\ read \in {None, v}
               /\ mode = "remote" => snapshots'[v] # None /\ snapshots'[v].git
    <3>1. CASE v = w
      BY <1>3, <1>6, <2>1, <2>2, <3>1
    <3>2. CASE v # w
      BY <1>3, <1>5, <2>2, <3>2 DEF PanelInv, ReadsAre
    <3>. QED
      BY <3>1, <3>2
  <2>. QED
    BY <1>1, <2>2 DEF ReadsAre, HasDrawn
<1>11. ShowsStore' /\ RemoteIs'
  BY <1>1, PageIsDue
<1>. QED
  BY <1>4, <1>8, <1>9, <1>10, <1>11 DEF PanelInv

\* Of the store and the panel only these change, and the page is to be rendered.
LEMMA PageKeeps ==
  ASSUME PanelInv, open' => due' = "page", open' \in BOOLEAN, due' \in {"none", "panel", "page"},
         workspace' \in Places, acts' \in {acts, acts + 1},
         UNCHANGED <<snapshots, filter, selected, drawn, groupsOpen, dirsOpen, folded, loading, read>>,
         diff' \in {None, diff}, mode' \in {mode, "working-tree"}, failed' \in BOOLEAN
  PROVE  PanelInv'
<1>1. PanelTypes'
  BY DEF PanelInv, PanelTypes, Places, Modes
<1>2. StampsAre' /\ (\A w \in Workspaces : RowsAre(w)') /\ ReadsAre'
  BY StampsKept, RowsKept, ReadsKept DEF PanelInv
<1>. QED
  BY <1>1, <1>2, PageIsDue DEF PanelInv

\* The workspace that is on the screen, and what a settled panel shows of it.
LEMMA PanelIs ==
  ASSUME PanelInv, Panel!InPanel
  PROVE  /\ workspace \in Workspaces /\ drawn = Panel!Drawing /\ HasDrawn
         /\ drawn.stamp = StampOf(workspace) /\ drawn.identity = Panel!Identity(workspace)
         /\ drawn.filter = filter[workspace] /\ drawn.visible = Panel!Preferred(workspace)
         /\ drawn.mode = mode /\ drawn.diff = diff
         /\ snapshots[workspace] # None => \A w \in Workspaces \ {workspace} :
              drawn.stamp # StampOf(w) /\ drawn.identity # Panel!Identity(w)
         /\ acts' = acts + 1 /\ open /\ due = "none"
         /\ workspace' = workspace /\ snapshots' = snapshots /\ open' = open /\ drawn' = drawn
<1>1. /\ acts' = acts + 1 /\ open /\ due = "none"
      /\ workspace' = workspace /\ snapshots' = snapshots /\ open' = open /\ drawn' = drawn
  BY DEF Panel!InPanel, Panel!Settled, Panel!Act
<1>2. workspace \in Workspaces /\ workspace # None
  BY <1>1 DEF PanelInv, PanelTypes, Places
<1>3. drawn = Panel!Drawing /\ HasDrawn
  BY <1>1, <1>2 DEF PanelInv, ShowsStore, Showing
<1>4. /\ drawn.stamp = StampOf(workspace) /\ drawn.identity = Panel!Identity(workspace)
      /\ drawn.filter = filter[workspace] /\ drawn.visible = Panel!Preferred(workspace)
      /\ drawn.mode = mode /\ drawn.diff = diff
  BY <1>2, <1>3 DEF Panel!Drawing, StampOf, Panel!Query
<1>5. snapshots[workspace] # None => \A w \in Workspaces \ {workspace} :
        drawn.stamp # StampOf(w) /\ drawn.identity # Panel!Identity(w)
  BY <1>2, <1>4, Apart DEF PanelInv
<1>. QED
  BY <1>1, <1>2, <1>3, <1>4, <1>5

LEMMA RowsHaveSnapshot ==
  ASSUME PanelTypes, NEW w \in Workspaces, Panel!Rows(w) # {}
  PROVE  snapshots[w] # None
BY NoRows

-----------------------------------------------------------------------------
(* The user, in the panel. *)

LEMMA SelectFileKeeps ==
  ASSUME PanelInv, NEW row \in Panel!Rows(workspace), Panel!SelectFile(row)
  PROVE  PanelInv'
<1>1. Panel!InPanel /\ Panel!Expanded(row)
  BY DEF Panel!SelectFile
<1>2. /\ mode' = "working-tree" /\ selected' = [selected EXCEPT ![workspace] = row.path]
      /\ due' = "page" /\ filter' = filter /\ groupsOpen' = groupsOpen /\ dirsOpen' = dirsOpen
      /\ folded' = folded /\ diff' = diff /\ loading' = loading /\ failed' = failed /\ read' = read
  BY DEF Panel!SelectFile, Panel!tree
<1>3. /\ workspace \in Workspaces /\ acts' = acts + 1 /\ open
      /\ workspace' = workspace /\ snapshots' = snapshots /\ open' = open /\ drawn' = drawn
  BY <1>1, PanelIs
<1>4. PanelTypes /\ row.path \in Paths /\ row.path # None
  BY <1>3, RowIs DEF PanelInv
<1>5. PanelTypes'
  <2>1. selected' \in [Workspaces -> Paths \cup {None}]
    BY <1>2, <1>4 DEF PanelTypes
  <2>. QED
    BY <1>2, <1>3, <1>4, <2>1 DEF PanelTypes, Modes
<1>6. StampsAre' /\ ReadsAre' /\ ShowsStore' /\ RemoteIs'
  BY <1>2, <1>3, <1>4, StampsKept, ReadsKept, PageIsDue DEF PanelInv
<1>7. ASSUME NEW w \in Workspaces
      PROVE  RowsAre(w)'
  <2>1. CASE w = workspace
    <3>1. selected'[workspace] = row.path
      BY <1>2, <1>3, <1>4 DEF PanelTypes
    <3>2. Panel!Rows(w)' = Panel!Rows(w)
      BY <1>2, <1>3, RowsSame
    <3>3. Panel!Preferred(w)' = row.path
      <4>1. Panel!Selected(w)' = row.path
        BY <1>3, <2>1, <3>1, PanelNoneIs DEF Panel!Selected
      <4>2. \E r \in Panel!Rows(w)' : r.path = row.path
        BY <2>1, <3>2
      <4>. QED
        BY <4>1, <4>2 DEF Panel!Preferred
    <3>4. row \in Panel!Rows(w)' /\ row.group \in groupsOpen' /\ Panel!Expanded(row)'
      BY <1>1, <1>2, <2>1, <3>2 DEF Panel!Expanded
    <3>5. row \in Panel!Rows(w)' /\ RowIsOpen(w, row)' /\ RowIsSeen(w, row)'
      BY <3>3, <3>4 DEF RowIsOpen, RowIsSeen
    <3>. QED
      BY <3>5 DEF RowsAre
  <2>2. CASE w # workspace
    <3>1. selected'[w] = selected[w]
      BY <1>2, <1>4, <2>2 DEF PanelTypes
    <3>. QED
      BY <1>2, <1>3, <3>1, RowsKept DEF PanelInv
  <2>. QED
    BY <2>1, <2>2
<1>. QED
  BY <1>5, <1>6, <1>7 DEF PanelInv

\* Opening a group or a directory leaves what is open; closing one is remembered.
LEMMA ToggleKeeps ==
  ASSUME PanelInv, Panel!InPanel, Panel!Rows(workspace) # {},
         UNCHANGED <<selected, filter, mode, diff, loading, failed, read, due>>,
         folded' \in BOOLEAN,
         folded' \/ (folded' = folded /\ groupsOpen \subseteq groupsOpen' /\ dirsOpen \subseteq dirsOpen')
  PROVE  PanelInv'
<1>1. /\ workspace \in Workspaces /\ drawn = Panel!Drawing /\ HasDrawn
      /\ drawn.visible = Panel!Preferred(workspace) /\ acts' = acts + 1 /\ open
      /\ workspace' = workspace /\ snapshots' = snapshots /\ open' = open /\ drawn' = drawn
  BY PanelIs
<1>2. \A w \in Workspaces \ {workspace} : drawn.stamp # StampOf(w)
  BY <1>1, PanelIs, RowsHaveSnapshot DEF PanelInv
<1>3. PanelTypes'
  BY <1>1 DEF PanelInv, PanelTypes
<1>4. StampsAre' /\ ReadsAre'
  BY <1>1, StampsKept, ReadsKept DEF PanelInv
<1>5. \A w \in Workspaces : /\ Panel!Rows(w)' = Panel!Rows(w) /\ StampOf(w)' = StampOf(w)
                            /\ Panel!Preferred(w)' = Panel!Preferred(w)
  BY <1>1, RowsSame
<1>6. ASSUME NEW w \in Workspaces
      PROVE  RowsAre(w)'
  <2>1. CASE w = workspace /\ folded'
    BY <1>1, <1>5, <2>1 DEF RowsAre
  <2>2. CASE w # workspace
    BY <1>1, <1>2, <1>5, <2>2 DEF RowsAre
  <2>3. CASE ~folded'
    BY <1>1, <2>3, RowsKept DEF PanelInv
  <2>. QED
    BY <2>1, <2>2, <2>3
<1>7. ShowsStore'
  <2>1. Panel!Drawing' = Panel!Drawing
    <3>1. Panel!Identity(workspace)' = Panel!Identity(workspace)
      BY <1>1, RowsSame
    <3>. QED
      BY <1>1, <1>5, <3>1 DEF Panel!Drawing, Panel!Query
  <2>. QED
    BY <1>1, <1>5, <2>1 DEF PanelInv, ShowsStore, Showing, HasDrawn
<1>8. RemoteIs'
  BY <1>1, <1>5 DEF PanelInv, RemoteIs, HasDrawn
<1>. QED
  BY <1>3, <1>4, <1>6, <1>7, <1>8 DEF PanelInv

LEMMA SetFilterKeeps ==
  ASSUME PanelInv, NEW q \in Queries \cup {NoQuery}, Panel!SetFilter(q)
  PROVE  PanelInv'
<1>1. Panel!InPanel
  BY DEF Panel!SetFilter
<1>2. /\ q # filter[workspace] /\ filter' = [filter EXCEPT ![workspace] = q] /\ due' = "page"
      /\ selected' = selected /\ groupsOpen' = groupsOpen /\ dirsOpen' = dirsOpen /\ folded' = folded
      /\ mode' = mode /\ diff' = diff /\ loading' = loading /\ failed' = failed /\ read' = read
  BY DEF Panel!SetFilter, Panel!tree, Panel!remote
<1>3. /\ workspace \in Workspaces /\ acts' = acts + 1 /\ drawn.filter = filter[workspace]
      /\ workspace' = workspace /\ snapshots' = snapshots /\ open' = open /\ drawn' = drawn
  BY <1>1, PanelIs
<1>4. /\ filter' \in [Workspaces -> Queries \cup {NoQuery}] /\ filter'[workspace] = q
      /\ \A w \in Workspaces \ {workspace} : filter'[w] = filter[w]
  BY <1>2, <1>3 DEF PanelInv, PanelTypes
<1>5. PanelTypes'
  BY <1>2, <1>3, <1>4 DEF PanelInv, PanelTypes
<1>6. StampsAre' /\ ReadsAre' /\ ShowsStore' /\ RemoteIs'
  BY <1>2, <1>3, StampsKept, ReadsKept, PageIsDue DEF PanelInv
<1>7. ASSUME NEW w \in Workspaces
      PROVE  RowsAre(w)'
  <2>1. CASE w = workspace
    BY <1>2, <1>3, <1>4, <2>1 DEF RowsAre
  <2>2. CASE w # workspace
    BY <1>2, <1>3, <1>4, <2>2, RowsKept DEF PanelInv
  <2>. QED
    BY <2>1, <2>2
<1>. QED
  BY <1>5, <1>6, <1>7 DEF PanelInv

LEMMA RemoteButtonKeeps ==
  ASSUME PanelInv, Panel!PressRemoteDiff
  PROVE  PanelInv'
<1>1. Panel!InPanel
  BY DEF Panel!PressRemoteDiff
<1>2. /\ snapshots[workspace] # None /\ snapshots[workspace].git /\ due' = "panel"
      /\ mode' = (IF mode = "remote" THEN "working-tree" ELSE "remote")
      /\ selected' = selected /\ filter' = filter
      /\ groupsOpen' = groupsOpen /\ dirsOpen' = dirsOpen /\ folded' = folded
      /\ diff' = diff /\ loading' = loading /\ failed' = failed /\ read' = read
  BY DEF Panel!PressRemoteDiff, Panel!tree
<1>3. /\ workspace \in Workspaces /\ acts' = acts + 1 /\ open /\ drawn.mode = mode
      /\ workspace' = workspace /\ snapshots' = snapshots /\ open' = open /\ drawn' = drawn
      /\ \A w \in Workspaces \ {workspace} : drawn.identity # Panel!Identity(w)
  BY <1>1, <1>2, PanelIs
<1>4. PanelTypes'
  BY <1>2, <1>3, PanelNoneIs DEF PanelInv, PanelTypes, Modes
<1>5. StampsAre' /\ \A w \in Workspaces : RowsAre(w)'
  BY <1>2, <1>3, StampsKept, RowsKept DEF PanelInv
<1>6. ReadsAre'
  <2>1. \A w \in Workspaces : Panel!Identity(w)' = Panel!Identity(w)
    BY <1>3 DEF Panel!Identity
  <2>. QED
    BY <1>2, <1>3, <2>1 DEF PanelInv, ReadsAre, HasDrawn
<1>7. ShowsStore' /\ RemoteIs'
  BY <1>2, <1>3 DEF ShowsStore, Showing, RemoteIs
<1>. QED
  BY <1>4, <1>5, <1>6, <1>7 DEF PanelInv

LEMMA ReadEndKeeps ==
  ASSUME PanelInv, NEW ok \in BOOLEAN, Panel!ReadEnds(ok)
  PROVE  PanelInv'
<1>1. /\ read # None /\ read' = None /\ loading' = FALSE
      /\ IF ok THEN diff' = read /\ failed' = failed ELSE failed' = TRUE /\ diff' = diff
      /\ due' = (IF due = "none" THEN "panel" ELSE due)
      /\ workspace' = workspace /\ snapshots' = snapshots /\ selected' = selected /\ filter' = filter
      /\ open' = open /\ drawn' = drawn /\ mode' = mode /\ acts' = acts
      /\ groupsOpen' = groupsOpen /\ dirsOpen' = dirsOpen /\ folded' = folded
  BY DEF Panel!ReadEnds, Panel!Settled, Panel!store, Panel!tree
<1>2. PanelTypes'
  BY <1>1 DEF PanelInv, PanelTypes, Places
<1>3. StampsAre' /\ ReadsAre' /\ \A w \in Workspaces : RowsAre(w)'
  BY <1>1, StampsKept, RowsKept, ReadsKept DEF PanelInv
<1>4. ShowsStore'
  BY <1>1 DEF ShowsStore, Showing
<1>5. RemoteIs'
  <2>1. ASSUME workspace # None, HasDrawn, drawn.stamp = StampOf(workspace)
        PROVE  read = workspace
    <3>1. workspace \in Workspaces
      BY <2>1 DEF PanelInv, PanelTypes, Places
    <3>2. drawn.identity = Panel!Identity(workspace)
      BY <2>1, <3>1 DEF PanelInv, StampsAre
    <3>. QED
      BY <1>1, <2>1, <3>1, <3>2 DEF PanelInv, ReadsAre
  <2>2. StampOf(workspace)' = StampOf(workspace)
    BY <1>1 DEF StampOf
  <2>. QED
    BY <1>1, <2>1, <2>2 DEF RemoteIs, HasDrawn
<1>. QED
  BY <1>2, <1>3, <1>4, <1>5 DEF PanelInv

-----------------------------------------------------------------------------
(* The page renders. *)

\* Unmounted, the panel forgets what it has drawn.
LEMMA UnmountKeeps ==
  ASSUME PanelInv, Panel!Unmounted, open' = FALSE, due' = "none", acts' \in {acts, acts + 1},
         UNCHANGED <<workspace, snapshots, selected, filter>>
  PROVE  PanelInv'
<1>1. /\ drawn' = None /\ mode' = "working-tree" /\ diff' = None /\ read' = None
      /\ loading' = FALSE /\ failed' = FALSE /\ folded' = FALSE
  BY DEF Panel!Unmounted
<1>2. ~HasDrawn'
  BY <1>1 DEF HasDrawn
<1>3. PanelTypes'
  <2>1. acts' \in Nat
    BY DEF PanelInv, PanelTypes
  <2>2. mode' \in Modes /\ diff' \in Places /\ read' \in Places /\ due' \in {"none", "panel", "page"}
    BY <1>1 DEF Places, Modes
  <2>3. {open', loading', failed', folded'} \subseteq BOOLEAN
    BY <1>1
  <2>. QED
    BY <1>1, <2>1, <2>2, <2>3 DEF PanelInv, PanelTypes
<1>4. StampsAre'
  <2>1. acts \in Nat /\ 1..acts \subseteq 1..acts'
    BY DEF PanelInv, PanelTypes
  <2>. QED
    BY <1>2, <2>1 DEF PanelInv, StampsAre
<1>5. (\A w \in Workspaces : RowsAre(w)') /\ ShowsStore' /\ ReadsAre' /\ RemoteIs'
  BY <1>2 DEF RowsAre, ShowsStore, Showing, ReadsAre, RemoteIs
<1>. QED
  BY <1>3, <1>4, <1>5 DEF PanelInv

\* What is drawn, and what the first effect makes of the selection.
LEMMA DrawingIs ==
  ASSUME PanelInv, workspace \in Workspaces
  PROVE  LET d == Panel!Drawing
         IN /\ d \in PanelDrawings /\ d # None
            /\ d.stamp = StampOf(workspace) /\ d.stamp \in 0..acts
            /\ d.identity = Panel!Identity(workspace) /\ d.identity \in 0..acts
            /\ d.filter = filter[workspace] /\ d.visible = Panel!Preferred(workspace)
            /\ d.mode = mode /\ d.diff = diff
            /\ Panel!Selected(workspace) = selected[workspace]
<1>. DEFINE d == Panel!Drawing
<1>1. workspace # None /\ Panel!Selected(workspace) = selected[workspace]
  BY PanelNoneIs DEF Panel!Selected
<1>2. /\ d.stamp = StampOf(workspace) /\ d.identity = Panel!Identity(workspace)
      /\ d.filter = filter[workspace] /\ d.visible = Panel!Preferred(workspace)
      /\ d.mode = mode /\ d.diff = diff
      /\ d = [stamp |-> d.stamp, identity |-> d.identity, filter |-> d.filter,
              visible |-> d.visible, mode |-> d.mode, diff |-> d.diff]
  BY <1>1 DEF Panel!Drawing, StampOf, Panel!Query
<1>3. StampOf(workspace) \in 0..acts /\ Panel!Identity(workspace) \in 0..acts /\ acts \in Nat
  BY <1>1 DEF StampOf, Panel!Identity, PanelInv, StampsAre, PanelTypes
<1>4. Panel!Preferred(workspace) \in Paths \cup {None}
  BY PreferredIs DEF PanelInv
<1>5. filter[workspace] \in Queries \cup {NoQuery} /\ mode \in Modes /\ diff \in Places
  BY DEF PanelInv, PanelTypes
<1>. HIDE DEF d
<1>6. d \in PanelDrawings
  BY <1>2, <1>3, <1>4, <1>5 DEF PanelDrawings
<1>7. d # None
  BY <1>6, PanelNoneIs
<1>. QED
  BY <1>1, <1>2, <1>3, <1>6, <1>7 DEF d

LEMMA CommitKeeps ==
  ASSUME PanelInv, Panel!Commit, workspace \in Workspaces
  PROVE  PanelInv'
<1>. DEFINE d == Panel!Drawing
<1>1. workspace # None /\ open /\ due # "none"
  BY PanelNoneIs DEF Panel!Commit, Panel!Settled
<1>2. /\ Panel!ShowSelection(d) /\ Panel!OpenTree(d) /\ Panel!RunRemoteEffects(d)
      /\ drawn' = d /\ open' = open
      /\ due' = (IF selected' # selected THEN "page"
                 ELSE IF mode' # mode \/ diff' # diff THEN "panel" ELSE "none")
      /\ workspace' = workspace /\ snapshots' = snapshots /\ filter' = filter /\ acts' = acts
  BY <1>1 DEF Panel!Commit
<1>3. /\ d \in PanelDrawings /\ d # None
      /\ d.stamp = StampOf(workspace) /\ d.stamp \in 0..acts
      /\ d.identity = Panel!Identity(workspace) /\ d.identity \in 0..acts
      /\ d.filter = filter[workspace] /\ d.visible = Panel!Preferred(workspace)
      /\ d.mode = mode /\ d.diff = diff
      /\ Panel!Selected(workspace) = selected[workspace]
  BY DrawingIs
<1>. HIDE DEF d
<1>4. PanelTypes /\ StampsAre /\ ReadsAre /\ RemoteIs /\ RowsAre(workspace)
  BY DEF PanelInv
<1>5. /\ Panel!Preferred(workspace) \in Paths \cup {None}
      /\ Panel!Preferred(workspace) # None =>
           \E row \in Panel!Rows(workspace) : row.path = Panel!Preferred(workspace)
      /\ Panel!Preferred(workspace) = None => Panel!Rows(workspace) = {}
  BY <1>4, PreferredIs
<1>6. /\ selected' \in [Workspaces -> Paths \cup {None}]
      /\ selected'[workspace] = Panel!Preferred(workspace)
      /\ selected' = selected => selected[workspace] = Panel!Preferred(workspace)
  BY <1>2, <1>3, <1>4, <1>5 DEF Panel!ShowSelection, PanelTypes
<1>7. /\ groupsOpen' = (IF Panel!GroupsChanged(d) THEN Panel!Groups(workspace) ELSE groupsOpen)
      /\ dirsOpen' = (IF Panel!ViewChanged(d)
                      THEN (dirsOpen \cap Panel!Directories(Panel!Rows(workspace)))
                             \cup Panel!AutoExpanded(workspace)
                      ELSE dirsOpen)
      /\ folded' = (folded /\ ~Panel!ViewChanged(d))
  BY <1>2 DEF Panel!OpenTree
<1>8. /\ Panel!GroupsChanged(d) <=> (~HasDrawn \/ d.stamp # drawn.stamp \/ d.filter # drawn.filter)
      /\ Panel!ViewChanged(d) <=> (Panel!GroupsChanged(d) \/ d.visible # drawn.visible)
      /\ Panel!Forgets(d) <=> (~HasDrawn \/ d.identity # drawn.identity)
      /\ Panel!RemoteChanged(d) <=> (~HasDrawn \/ due = "page" \/ d.mode # drawn.mode
                                      \/ d.diff # drawn.diff \/ d.stamp # drawn.stamp)
  BY DEF Panel!GroupsChanged, Panel!ViewChanged, Panel!Forgets, Panel!IdentityChanged,
         Panel!RemoteChanged, HasDrawn
<1>9. Panel!ReadsRemote(d) <=> /\ snapshots[workspace] # None /\ snapshots[workspace].git
                               /\ d.mode = "remote" /\ d.diff = None
  BY <1>1 DEF Panel!ReadsRemote
<1>10. /\ mode' = (IF Panel!Forgets(d) \/ d.visible # Panel!Selected(workspace) THEN "working-tree" ELSE mode)
       /\ diff' = (IF Panel!Forgets(d) THEN None ELSE diff)
       /\ IF Panel!RemoteChanged(d) /\ Panel!ReadsRemote(d)
          THEN read' = workspace /\ loading' = TRUE /\ failed' = FALSE
          ELSE /\ read' = (IF Panel!RemoteChanged(d) THEN None ELSE read)
               /\ loading' = (loading /\ ~Panel!Forgets(d)) /\ failed' = (failed /\ ~Panel!Forgets(d))
  BY <1>2 DEF Panel!RunRemoteEffects
<1>11. HasDrawn'
  BY <1>2, <1>3 DEF HasDrawn
<1>12. \A w \in Workspaces : /\ Panel!Rows(w)' = Panel!Rows(w) /\ StampOf(w)' = StampOf(w)
                             /\ Panel!Identity(w)' = Panel!Identity(w)
  BY <1>2, RowsSame
<1>13. Panel!Preferred(workspace)' = Panel!Preferred(workspace)
  <2>1. Panel!Selected(workspace)' = Panel!Preferred(workspace)
    BY <1>1, <1>2, <1>6 DEF Panel!Selected
  <2>2. Panel!Rows(workspace)' = Panel!Rows(workspace)
    BY <1>2, <1>12
  <2>3. CASE Panel!Preferred(workspace) = None
    BY <1>5, <2>1, <2>2, <2>3 DEF Panel!Preferred
  <2>4. CASE Panel!Preferred(workspace) # None
    BY <1>5, <2>1, <2>2, <2>4 DEF Panel!Preferred
  <2>. QED
    BY <2>3, <2>4
<1>14. PanelTypes'
  <2>1. mode' \in Modes /\ diff' \in Places /\ read' \in Places
    BY <1>4, <1>10 DEF PanelTypes, Modes, Places
  <2>2. loading' \in BOOLEAN /\ failed' \in BOOLEAN /\ folded' \in BOOLEAN
    BY <1>4, <1>7, <1>10 DEF PanelTypes
  <2>3. due' \in {"none", "panel", "page"}
    BY <1>2
  <2>. QED
    BY <1>1, <1>2, <1>3, <1>4, <1>6, <2>1, <2>2, <2>3 DEF PanelTypes
<1>15. \A w \in Workspaces : d.stamp = StampOf(w) => d.identity = Panel!Identity(w)
  <2>. TAKE w \in Workspaces
  <2>1. CASE w = workspace
    BY <1>3, <2>1
  <2>2. CASE w # workspace /\ snapshots[w] # None
    BY <1>3, <1>4, <2>2, Apart
  <2>3. CASE w # workspace /\ snapshots[workspace] # None
    BY <1>3, <1>4, <2>3, Apart
  <2>4. CASE snapshots[w] = None /\ snapshots[workspace] = None
    BY <1>3, <2>4 DEF Panel!Identity
  <2>. QED
    BY <2>1, <2>2, <2>3, <2>4
<1>16. StampsAre'
  <2>1. \A w \in Workspaces : drawn'.stamp = StampOf(w)' => drawn'.identity = Panel!Identity(w)'
    BY <1>2, <1>12, <1>15
  <2>2. drawn'.stamp \in 0..acts' /\ drawn'.identity \in 0..acts'
    BY <1>2, <1>3
  <2>. QED
    BY <1>2, <1>4, <2>1, <2>2 DEF StampsAre
<1>17. ASSUME Panel!Preferred(workspace) # None, ~folded'
       PROVE  \E row \in Panel!Rows(workspace) : RowIsSeen(workspace, row)'
  <2>1. ASSUME Panel!ViewChanged(d), NEW row \in Panel!Rows(workspace),
               row.path = Panel!Preferred(workspace), row.group \in groupsOpen'
        PROVE  RowIsSeen(workspace, row)'
    <3>1. \A c \in Panel!Ancestors(row.path) :
            [group |-> row.group, dir |-> c] \in
              Panel!Directories({r \in Panel!Rows(workspace) : r.path = Panel!Preferred(workspace)})
      BY <2>1 DEF Panel!Directories
    <3>2. \A c \in Panel!Ancestors(row.path) : [group |-> row.group, dir |-> c] \in dirsOpen'
      BY <1>7, <2>1, <3>1 DEF Panel!AutoExpanded
    <3>. QED
      BY <1>13, <2>1, <3>2 DEF RowIsSeen, Panel!Expanded
  <2>2. CASE Panel!GroupsChanged(d)
    <3>1. PICK row \in Panel!Rows(workspace) : row.path = Panel!Preferred(workspace)
      BY <1>5, <1>17
    <3>2. row.group \in groupsOpen'
      BY <1>7, <2>2 DEF Panel!Groups
    <3>. QED
      BY <1>8, <2>1, <2>2, <3>1, <3>2
  <2>3. CASE ~Panel!GroupsChanged(d) /\ Panel!ViewChanged(d)
    <3>1. PICK row \in Panel!Rows(workspace) : RowIsOpen(workspace, row)
      BY <1>3, <1>4, <1>8, <1>17, <2>3 DEF RowsAre
    <3>. QED
      BY <1>7, <2>1, <2>3, <3>1 DEF RowIsOpen
  <2>4. CASE ~Panel!ViewChanged(d)
    <3>1. PICK row \in Panel!Rows(workspace) : RowIsSeen(workspace, row)
      BY <1>3, <1>4, <1>7, <1>8, <1>17, <2>4 DEF RowsAre
    <3>2. groupsOpen' = groupsOpen /\ dirsOpen' = dirsOpen
      BY <1>7, <1>8, <2>4
    <3>3. RowIsSeen(workspace, row)'
      BY <1>13, <3>1, <3>2 DEF RowIsSeen, Panel!Expanded
    <3>. QED
      BY <3>1, <3>3
  <2>. QED
    BY <2>2, <2>3, <2>4
<1>18. ASSUME NEW w \in Workspaces
       PROVE  RowsAre(w)'
  <2>1. CASE w = workspace
    BY <1>2, <1>3, <1>12, <1>13, <1>17, <2>1 DEF RowsAre
  <2>2. CASE w # workspace /\ snapshots[w] # None
    <3>1. d.stamp # StampOf(w)
      BY <1>3, <1>4, <2>2, Apart
    <3>. QED
      BY <1>2, <1>12, <3>1 DEF RowsAre
  <2>3. CASE w # workspace /\ snapshots[w] = None
    <3>1. Panel!Preferred(w)' = None
      BY <1>2, <1>14, <2>3, PreferredIs, NoRows, <1>12 DEF Panel!Rows, Panel!Preferred, Panel!Selected
    <3>. QED
      BY <3>1 DEF RowsAre
  <2>. QED
    BY <2>1, <2>2, <2>3
<1>19. ShowsStore'
  <2>1. ASSUME due' = "none"
        PROVE  d = Panel!Drawing'
    <3>1. selected' = selected /\ mode' = mode /\ diff' = diff
      BY <1>2, <2>1
    <3>. QED
      BY <1>2, <1>12, <1>13, <3>1 DEF d, Panel!Drawing, Panel!Query
  <2>. QED
    BY <1>2, <1>6, <1>11, <1>13, <2>1 DEF ShowsStore, Showing
<1>20. ReadsAre'
  <2>1. ASSUME NEW w \in Workspaces, d.identity = Panel!Identity(w)
        PROVE  /\ diff' \in {None, w} /\ read' \in {None, w}
               /\ mode' = "remote" => snapshots[w] # None /\ snapshots[w].git
    <3>1. ~Panel!Forgets(d) => /\ diff \in {None, w} /\ read \in {None, w}
                               /\ mode = "remote" => snapshots[w] # None /\ snapshots[w].git
      BY <1>4, <1>8, <2>1 DEF ReadsAre
    <3>2. diff' \in {None, w} /\ (mode' = "remote" => snapshots[w] # None /\ snapshots[w].git)
      BY <1>10, <3>1
    <3>3. CASE Panel!RemoteChanged(d) /\ Panel!ReadsRemote(d)
      <4>1. snapshots[workspace] # None
        BY <1>9, <3>3
      <4>2. w = workspace
        BY <1>3, <1>4, <2>1, <4>1, Apart
      <4>. QED
        BY <1>10, <3>2, <3>3, <4>2
    <3>4. CASE ~(Panel!RemoteChanged(d) /\ Panel!ReadsRemote(d)) /\ Panel!RemoteChanged(d)
      BY <1>10, <3>2, <3>4
    <3>5. CASE ~Panel!RemoteChanged(d)
      <4>1. HasDrawn /\ drawn.stamp = StampOf(workspace)
        BY <1>3, <1>8, <3>5
      <4>2. drawn.identity = d.identity
        BY <1>3, <1>4, <4>1 DEF StampsAre
      <4>. QED
        BY <1>8, <1>10, <3>1, <3>2, <3>5, <4>1, <4>2
    <3>. QED
      BY <3>3, <3>4, <3>5
  <2>. QED
    BY <1>2, <1>12, <2>1 DEF ReadsAre
<1>21. RemoteIs'
  <2>. SUFFICES ASSUME due' # "page", mode' = "remote", d.mode = "remote", d.diff = diff',
                       diff' # workspace
                PROVE  (read' = workspace /\ loading') \/ failed'
    BY <1>2 DEF RemoteIs
  <2>1. diff' = diff /\ mode' = mode /\ ~Panel!Forgets(d)
    BY <1>3, <1>10
  <2>2. diff \in {None, workspace} /\ snapshots[workspace] # None /\ snapshots[workspace].git
    BY <1>3, <1>4, <1>8, <2>1 DEF ReadsAre
  <2>3. Panel!ReadsRemote(d)
    BY <1>3, <1>9, <2>1, <2>2
  <2>4. CASE Panel!RemoteChanged(d)
    BY <1>10, <2>3, <2>4
  <2>5. CASE ~Panel!RemoteChanged(d)
    <3>1. (read = workspace /\ loading) \/ failed
      BY <1>1, <1>3, <1>4, <1>8, <2>1, <2>5 DEF RemoteIs
    <3>. QED
      BY <1>10, <2>1, <2>5, <3>1
  <2>. QED
    BY <2>4, <2>5
<1>. QED
  BY <1>14, <1>16, <1>18, <1>19, <1>20, <1>21 DEF PanelInv

-----------------------------------------------------------------------------
LEMMA PanelStart == PaneInit => PanelInv
<1>. SUFFICES ASSUME Panel!Init PROVE PanelInv
  BY DEF PaneInit
<1>. USE DEF Panel!Init
<1>1. PanelTypes
  BY DEF PanelTypes, Places, Modes
<1>2. ~HasDrawn
  BY DEF HasDrawn
<1>3. StampsAre
  BY <1>2 DEF StampsAre
<1>4. (\A w \in Workspaces : RowsAre(w)) /\ ShowsStore /\ ReadsAre /\ RemoteIs
  BY <1>2 DEF RowsAre, ShowsStore, Showing, ReadsAre, RemoteIs
<1>. QED
  BY <1>1, <1>3, <1>4 DEF PanelInv

LEMMA PanelStep == PanelInv /\ [PaneNext]_<<part, vars, filesVars, talkVars, itemVars>> => PanelInv'
<1>. SUFFICES ASSUME PanelInv, [PaneNext]_<<part, vars, filesVars, talkVars, itemVars>>
              PROVE  PanelInv'
  OBVIOUS
<1>1. ASSUME Panel!Next
      PROVE  PanelInv'
  <2>. USE DEF Panel!store, Panel!tree, Panel!remote, Panel!Act
  <2>1. PanelTypes
    BY DEF PanelInv
  <2>2. ASSUME NEW w \in Workspaces, Panel!SnapshotAgain(w)
        PROVE  PanelInv'
    <3>. DEFINE s == [snapshots[w] EXCEPT !.stamp = acts + 1]
    <3>1. snapshots[w] # None /\ snapshots[w] \in Snapshots /\ acts \in Nat
      BY <2>1, <2>2 DEF Panel!SnapshotAgain, PanelTypes
    <3>2. /\ s \in Snapshots /\ s.stamp = acts + 1
          /\ s.generated = snapshots[w].generated /\ s.git = snapshots[w].git
      BY <3>1 DEF Snapshots
    <3>3. Panel!Act /\ Panel!SetSnapshot(w, s)
      BY <2>2 DEF Panel!SnapshotAgain
    <3>. HIDE DEF s
    <3>. QED
      BY <3>1, <3>2, <3>3, SnapshotKeeps
  <2>3. ASSUME NEW w \in Workspaces, NEW git \in BOOLEAN, NEW files \in Listings \cup {{}},
               Panel!NewSnapshot(w, git, files)
        PROVE  PanelInv'
    <3>. DEFINE s == [git |-> git, files |-> IF git THEN files ELSE {},
                      generated |-> acts + 1, stamp |-> acts + 1]
    <3>1. s \in Snapshots /\ s.stamp = acts + 1 /\ s.generated = acts + 1
      BY <2>1 DEF Snapshots, PanelTypes
    <3>2. Panel!Act /\ Panel!SetSnapshot(w, s)
      BY <2>3 DEF Panel!NewSnapshot
    <3>. HIDE DEF s
    <3>. QED
      BY <3>1, <3>2, SnapshotKeeps
  <2>4. ASSUME NEW w \in Workspaces \cup {None}, Panel!SelectWorkspace(w)
        PROVE  PanelInv'
    BY <2>1, <2>4, PageKeeps DEF Panel!SelectWorkspace, PanelTypes, Places
  <2>5. CASE Panel!OpenReview \/ Panel!PageRenders
    BY <2>1, <2>5, PageKeeps DEF Panel!OpenReview, Panel!PageRenders, PanelTypes, Places
  <2>6. CASE Panel!Close
    BY <2>6, UnmountKeeps DEF Panel!Close
  <2>7. ASSUME NEW row \in Panel!Rows(workspace), Panel!SelectFile(row)
        PROVE  PanelInv'
    BY <2>7, SelectFileKeeps
  <2>8. ASSUME NEW g \in Panel!Groups(workspace), Panel!ToggleGroup(g)
        PROVE  PanelInv'
    <3>1. /\ Panel!InPanel /\ Panel!Rows(workspace) # {}
          /\ UNCHANGED <<selected, filter, mode, diff, loading, failed, read, due>>
          /\ groupsOpen' = Panel!Toggle(groupsOpen, g) /\ dirsOpen' = dirsOpen
          /\ folded' = (folded \/ g \in groupsOpen)
      BY <2>8 DEF Panel!ToggleGroup, Panel!Groups
    <3>2. folded \in BOOLEAN
      BY <2>1 DEF PanelTypes
    <3>. QED
      BY <3>1, <3>2, ToggleKeeps DEF Panel!Toggle
  <2>9. ASSUME NEW k \in Panel!Directories(Panel!Rows(workspace)), Panel!ToggleDirectory(k)
        PROVE  PanelInv'
    <3>1. /\ Panel!InPanel /\ Panel!Rows(workspace) # {}
          /\ UNCHANGED <<selected, filter, mode, diff, loading, failed, read, due>>
          /\ dirsOpen' = Panel!Toggle(dirsOpen, k) /\ groupsOpen' = groupsOpen
          /\ folded' = (folded \/ k \in dirsOpen)
      BY <2>9 DEF Panel!ToggleDirectory, Panel!Directories
    <3>2. folded \in BOOLEAN
      BY <2>1 DEF PanelTypes
    <3>. QED
      BY <3>1, <3>2, ToggleKeeps DEF Panel!Toggle
  <2>10. ASSUME NEW q \in Queries \cup {NoQuery}, Panel!SetFilter(q)
         PROVE  PanelInv'
    BY <2>10, SetFilterKeeps
  <2>11. CASE Panel!PressRefresh
    <3>1. Panel!InPanel
      BY <2>11 DEF Panel!PressRefresh
    <3>2. /\ acts' = acts + 1 /\ workspace' = workspace /\ snapshots' = snapshots
          /\ open' = open /\ drawn' = drawn
      BY <3>1, PanelIs
    <3>. QED
      BY <2>1, <2>11, <3>2, PageKeeps DEF Panel!PressRefresh, PanelTypes
  <2>12. CASE Panel!PressRemoteDiff
    BY <2>12, RemoteButtonKeeps
  <2>13. CASE Panel!Commit
    <3>1. CASE workspace = None
      BY <2>13, <3>1, UnmountKeeps DEF Panel!Commit
    <3>2. CASE workspace # None
      BY <2>1, <2>13, <3>2, CommitKeeps DEF PanelTypes, Places
    <3>. QED
      BY <3>1, <3>2
  <2>14. ASSUME NEW ok \in BOOLEAN, Panel!ReadEnds(ok)
         PROVE  PanelInv'
    BY <2>14, ReadEndKeeps
  <2>. QED
    BY <1>1, <2>2, <2>3, <2>4, <2>5, <2>6, <2>7, <2>8, <2>9, <2>10, <2>11, <2>12, <2>13, <2>14
    DEF Panel!Next
<1>2. CASE UNCHANGED filesVars
  <2>1. UNCHANGED <<workspace, snapshots, selected, filter, open, due, drawn, groupsOpen, dirsOpen,
                    mode, diff, loading, failed, read, folded, acts>>
    BY <1>2 DEF filesVars
  <2>2. \A w \in Workspaces : RowsAre(w)'
    BY <2>1, RowsKept DEF PanelInv
  <2>3. StampsAre' /\ ReadsAre' /\ PanelTypes'
    BY <2>1, StampsKept, ReadsKept DEF PanelInv, PanelTypes
  <2>4. ShowsStore'
    <3>1. Showing' = Showing /\ Panel!Drawing' = Panel!Drawing
      BY <2>1 DEF Showing, Panel!Drawing, Panel!Query, Panel!Identity, Panel!Preferred,
                     Panel!Rows, Panel!Selected
    <3>2. Panel!Preferred(workspace)' = Panel!Preferred(workspace)
      BY <2>1 DEF Panel!Preferred, Panel!Rows, Panel!Selected, Panel!Query
    <3>. QED
      BY <2>1, <3>1, <3>2 DEF PanelInv, ShowsStore, HasDrawn
  <2>5. RemoteIs'
    BY <2>1 DEF PanelInv, RemoteIs, HasDrawn, StampOf
  <2>. QED
    BY <2>2, <2>3, <2>4, <2>5 DEF PanelInv
<1>. QED
  BY <1>1, <1>2 DEF PaneNext

\* When the panel has settled, for any listings and filters: the file that is stored as selected
\* is one the tree has, its row can be seen unless the user closed something since, and the
\* remote diff that is shown is one of this workspace, or is being read, or failed
\* (git-review-panel.tsx, the effects of the panel).
THEOREM TreeIsAlwaysTrue == PaneSpec => []TreeIsTrue
<1>1. PanelInv => TreeIsTrue
  <2>. SUFFICES ASSUME PanelInv, open, due = "none", workspace # None
                PROVE  /\ selected[workspace] = Panel!Preferred(workspace)
                       /\ selected[workspace] # None /\ ~folded =>
                            \E row \in Panel!Rows(workspace) :
                              row.path = selected[workspace] /\ Panel!Expanded(row)
                       /\ mode = "remote" =>
                            /\ snapshots[workspace].git
                            /\ diff = workspace \/ (read = workspace /\ loading) \/ failed
    BY DEF TreeIsTrue, Panel!TreeIsTrue, Panel!Settled
  <2>1. workspace \in Workspaces
    BY DEF PanelInv, PanelTypes, Places
  <2>2. drawn = Panel!Drawing /\ HasDrawn /\ selected[workspace] = Panel!Preferred(workspace)
    BY DEF PanelInv, ShowsStore, Showing
  <2>3. /\ drawn.stamp = StampOf(workspace) /\ drawn.identity = Panel!Identity(workspace)
        /\ drawn.filter = filter[workspace] /\ drawn.visible = Panel!Preferred(workspace)
        /\ drawn.mode = mode /\ drawn.diff = diff
    BY <2>1, <2>2, DrawingIs
  <2>4. selected[workspace] # None /\ ~folded =>
          \E row \in Panel!Rows(workspace) : row.path = selected[workspace] /\ Panel!Expanded(row)
    BY <2>1, <2>2, <2>3 DEF PanelInv, RowsAre, RowIsSeen
  <2>5. mode = "remote" => snapshots[workspace].git
    BY <2>1, <2>2, <2>3 DEF PanelInv, ReadsAre
  <2>6. mode = "remote" => diff = workspace \/ (read = workspace /\ loading) \/ failed
    BY <2>2, <2>3 DEF PanelInv, RemoteIs
  <2>. QED
    BY <2>2, <2>4, <2>5, <2>6
<1>. QED
  BY <1>1, PanelStart, PanelStep, PTL DEF PaneSpec

-----------------------------------------------------------------------------
(* The conversation. *)

Drawings == [thread : Threads, total : Nat, limit : Nat, length : Nat, grown : BOOLEAN, pane : BOOLEAN]

TalkTypes ==
  /\ total \in [Threads -> Nat] /\ active \in Threads /\ visible \in Nat /\ top \in Nat
  /\ {pane, moved, counted, scrolled, frame, reset, older, follow} \subseteq BOOLEAN
  /\ shown \in Drawings /\ shown.length = Talk!Least(shown.total, shown.limit)
  /\ older => restore # NoRestore
  /\ restore # NoRestore => restore \in [height : Nat, top : Nat]

AtEnd == top = Talk!LastTop(shown)

\* A frame that will scroll is one of the thread on the screen, and that thread is the one the
\* effect followed last, unless a conversation has come back from the git workbench.
FramesAre ==
  /\ frame => previousRef = shown.thread
  /\ shown.pane /\ "follow" \notin lapsed => previousRef = shown.thread

FollowIs ==
  shown.pane /\ "follow" \notin lapsed =>
    /\ reset => AtEnd \/ frame
    /\ follow => AtEnd \/ frame \/ scrolled

\* The batch that is being loaded is still to be rendered.
OlderIs == older /\ "older" \notin lapsed => shown.limit # visible

TalkInv == TalkTypes /\ plain \subseteq timers /\ FramesAre /\ FollowIs /\ OlderIs

LEMMA TalkNumbers ==
  /\ InitialWindow \in Nat \ {0} /\ BatchSize \in Nat \ {0} /\ MaxEntries \in Nat
  /\ NoRestore \notin [height : Nat, top : Nat]
BY PaneAssumption

LEMMA ScrollIs ==
  ASSUME NEW d \in Drawings
  PROVE  /\ Talk!ScrollHeight(d) \in Nat /\ Talk!LastTop(d) \in Nat
         /\ \A e \in Drawings : Talk!ScrollHeight(d) <= Talk!ScrollHeight(e) =>
              Talk!LastTop(d) <= Talk!LastTop(e)
BY DEF Drawings, Talk!ScrollHeight, Talk!LastTop

LEMMA DrawnIs ==
  ASSUME TalkTypes
  PROVE  /\ Talk!Drawn \in Drawings /\ Talk!Drawn.length = Talk!Least(Talk!Drawn.total, Talk!Drawn.limit)
         /\ Talk!Drawn.thread = active /\ Talk!Drawn.limit = visible /\ Talk!Drawn.pane = pane
BY DEF TalkTypes, Drawings, Talk!Drawn, Talk!Least, Talk!WindowLength

LEMMA TalkStart == PaneInit => TalkInv
<1>. SUFFICES ASSUME Talk!Init PROVE TalkInv
  BY DEF PaneInit
<1>1. /\ total \in [Threads -> Nat] /\ active \in Threads /\ visible \in Nat
      /\ pane = TRUE /\ shown = Talk!Drawn /\ top = Talk!LastTop(shown)
  BY TalkNumbers DEF Talk!Init
<1>2. /\ shown \in Drawings /\ shown.length = Talk!Least(shown.total, shown.limit)
      /\ shown.thread = active
  BY <1>1 DEF Drawings, Talk!Drawn, Talk!Least, Talk!WindowLength
<1>3. top \in Nat
  BY <1>1, <1>2, ScrollIs
<1>. QED
  BY <1>1, <1>2, <1>3 DEF Talk!Init, TalkInv, TalkTypes, FramesAre, FollowIs, OlderIs, AtEnd

\* Older entries are asked for: what is on the screen has fewer.
LEMMA LoadIs ==
  ASSUME TalkInv, NEW yes \in BOOLEAN, Talk!LoadOlder(yes), shown' = shown,
         yes => Talk!LoadsOlder /\ visible = shown.limit
  PROVE  /\ visible' \in Nat /\ older' \in BOOLEAN /\ (older' => restore' # NoRestore)
         /\ restore' # NoRestore => restore' \in [height : Nat, top : Nat]
         /\ lapsed \ {"follow"} \subseteq lapsed' => OlderIs'
<1>1. CASE yes
  <2>1. /\ ~older /\ older' = TRUE /\ restore' = [height |-> Talk!ScrollHeight(shown), top |-> top]
        /\ visible' = Talk!Least(shown.total, visible + BatchSize)
        /\ shown.total - shown.length > 0 /\ visible = shown.limit
    BY <1>1 DEF Talk!LoadOlder, Talk!LoadsOlder, Talk!Hidden, TalkInv, TalkTypes
  <2>2. /\ shown.total \in Nat /\ shown.limit \in Nat /\ top \in Nat /\ BatchSize \in Nat \ {0}
        /\ shown.length = Talk!Least(shown.total, shown.limit)
    BY TalkNumbers DEF TalkInv, TalkTypes, Drawings
  <2>3. visible' \in Nat /\ visible' # shown.limit
    BY <2>1, <2>2 DEF Talk!Least
  <2>4. Talk!ScrollHeight(shown) \in Nat
    BY ScrollIs DEF TalkInv, TalkTypes
  <2>5. restore' \in [height : Nat, top : Nat]
    BY <2>1, <2>2, <2>4
  <2>. QED
    BY <2>1, <2>3, <2>5, TalkNumbers DEF OlderIs
<1>2. CASE ~yes
  BY <1>2 DEF Talk!LoadOlder, TalkInv, TalkTypes, OlderIs
<1>. QED
  BY <1>1, <1>2

LEMMA TalkPaints ==
  ASSUME TalkInv, Talk!Paint
  PROVE  TalkInv'
<1>. DEFINE yes == scrolled /\ top = 0 /\ Talk!LoadsOlder
<1>1. /\ shown' = shown /\ reset' = reset /\ previousRef' = previousRef
      /\ plain' = plain /\ timers' = timers /\ total' = total /\ active' = active
      /\ pane' = pane /\ moved' = moved /\ counted' = counted
      /\ frame' = FALSE /\ scrolled' = (top' # top)
      /\ follow' = IF scrolled /\ shown.pane THEN AtEnd ELSE follow
      /\ top' = IF frame /\ shown.pane THEN Talk!LastTop(shown) ELSE top
      /\ lapsed' = IF frame /\ shown.pane THEN lapsed \ {"follow"} ELSE lapsed
      /\ Talk!LoadOlder(yes) /\ (yes => visible = shown.limit)
      /\ scrolled \/ frame
  BY DEF Talk!Paint, Talk!store, Talk!IsNearBottom, AtEnd
<1>2. /\ visible' \in Nat /\ older' \in BOOLEAN /\ (older' => restore' # NoRestore)
      /\ restore' # NoRestore => restore' \in [height : Nat, top : Nat]
      /\ OlderIs'
  <2>1. yes \in BOOLEAN /\ (yes => Talk!LoadsOlder)
    BY DEF TalkInv, TalkTypes
  <2>2. lapsed \ {"follow"} \subseteq lapsed'
    BY <1>1
  <2>. HIDE DEF yes
  <2>. QED
    BY <1>1, <2>1, <2>2, LoadIs
<1>. HIDE DEF yes
<1>3. top' \in Nat
  BY <1>1, ScrollIs DEF TalkInv, TalkTypes
<1>4. TalkTypes'
  <2>1. follow' \in BOOLEAN /\ scrolled' \in BOOLEAN
    BY <1>1 DEF TalkInv, TalkTypes, AtEnd
  <2>. QED
    BY <1>1, <1>2, <1>3, <2>1 DEF TalkInv, TalkTypes
<1>5. FramesAre'
  BY <1>1 DEF TalkInv, FramesAre
<1>6. FollowIs'
  <2>1. CASE frame /\ shown.pane
    BY <1>1, <2>1 DEF FollowIs, AtEnd
  <2>2. CASE ~(frame /\ shown.pane)
    BY <1>1, <2>2 DEF TalkInv, FollowIs, AtEnd
  <2>. QED
    BY <2>1, <2>2
<1>. QED
  BY <1>1, <1>2, <1>4, <1>5, <1>6 DEF TalkInv

LEMMA TalkCommits ==
  ASSUME TalkInv, Talk!Commit
  PROVE  TalkInv'
<1>. DEFINE d == Talk!Drawn
            remounted == d.pane /\ ~shown.pane
            kept == IF remounted THEN 0 ELSE Talk!Least(top, Talk!LastTop(d))
            swelled == Talk!ScrollHeight(d) > Talk!ScrollHeight(shown)
            depends == Talk!DependsOnChange(d)
            restores == Talk!Restores(d)
<1>1. /\ ~reset /\ shown' = d
      /\ top' = IF restores THEN Talk!RestoredTop(d) ELSE kept
      /\ scrolled' = (d.pane /\ ((scrolled /\ ~remounted) \/ top' # IF remounted THEN 0 ELSE top))
      /\ IF restores THEN older' = FALSE /\ restore' = NoRestore
         ELSE older' = older /\ restore' = restore
      /\ frame' = IF depends THEN Talk!Follows(d) ELSE frame
      /\ previousRef' = IF depends /\ d.pane THEN active ELSE previousRef
      /\ reset' = (reset \/ d.thread # shown.thread)
      /\ lapsed' = lapsed
           \cup (IF remounted \/ (swelled /\ ~depends) THEN {"follow"} ELSE {})
           \cup (IF restore # NoRestore /\ ~restores THEN {"older"} ELSE {})
      /\ moved' = FALSE
      /\ total' = total /\ active' = active /\ pane' = pane /\ visible' = visible
      /\ plain' = plain /\ counted' = counted /\ follow' = follow /\ timers' = timers
  BY DEF Talk!Commit, Talk!store
<1>2. /\ d \in Drawings /\ d.length = Talk!Least(d.total, d.limit)
      /\ d.thread = active /\ d.limit = visible /\ d.pane = pane
  BY DrawnIs DEF TalkInv
<1>3. depends <=> (moved \/ d.thread # shown.thread \/ d.length # shown.length)
  BY DEF Talk!DependsOnChange
<1>4. restores <=> (restore # NoRestore /\ d.pane /\ d.length # shown.length)
  BY DEF Talk!Restores
<1>5. Talk!Follows(d) <=> (d.pane /\ (previousRef # active \/ follow))
  BY DEF Talk!Follows
<1>6. Talk!Follows(d) \in BOOLEAN
  BY <1>2 DEF Talk!Follows, Drawings, TalkInv, TalkTypes
<1>7. /\ shown \in Drawings /\ top \in Nat /\ reset = FALSE
      /\ Talk!LastTop(d) \in Nat /\ Talk!ScrollHeight(d) \in Nat /\ Talk!ScrollHeight(shown) \in Nat
      /\ ~swelled => Talk!LastTop(d) <= Talk!LastTop(shown)
  BY <1>1, <1>2, ScrollIs DEF TalkInv, TalkTypes
<1>8. restores => Talk!RestoredTop(d) \in Nat
  <2>1. restores => restore.height \in Nat /\ restore.top \in Nat
    BY <1>4 DEF TalkInv, TalkTypes
  <2>. HIDE DEF d, restores
  <2>. QED
    BY <1>7, <2>1 DEF Talk!RestoredTop, Talk!Least
<1>9. ~remounted => kept = Talk!Least(top, Talk!LastTop(d))
  OBVIOUS
<1>10. kept \in Nat
  BY <1>7 DEF Talk!Least
<1>. HIDE DEF d, swelled, depends, restores, kept
<1>11. TalkTypes'
  <2>1. top' \in Nat
    BY <1>1, <1>8, <1>10
  <2>2. /\ frame' \in BOOLEAN /\ scrolled' \in BOOLEAN /\ reset' \in BOOLEAN /\ older' \in BOOLEAN
        /\ (older' => restore' # NoRestore)
        /\ restore' # NoRestore => restore' \in [height : Nat, top : Nat]
    BY <1>1, <1>6 DEF TalkInv, TalkTypes
  <2>. QED
    BY <1>1, <1>2, <2>1, <2>2 DEF TalkInv, TalkTypes
<1>12. FramesAre'
  BY <1>1, <1>2, <1>3, <1>5 DEF TalkInv, FramesAre
<1>13. ASSUME shown'.pane, "follow" \notin lapsed'
       PROVE  (reset' => AtEnd' \/ frame') /\ (follow' => AtEnd' \/ frame' \/ scrolled')
  <2>1. d.pane /\ shown.pane /\ ~remounted /\ ~(swelled /\ ~depends) /\ "follow" \notin lapsed
    BY <1>1, <1>2, <1>13
  <2>2. previousRef = shown.thread
    BY <2>1 DEF TalkInv, FramesAre
  <2>3. CASE depends
    BY <1>1, <1>2, <1>5, <1>7, <2>1, <2>2, <2>3
  <2>4. CASE ~depends
    <3>1. ~reset' /\ ~restores /\ frame' = frame /\ follow' = follow
      BY <1>1, <1>3, <1>4, <1>7, <2>4
    <3>2. ASSUME follow, ~frame, ~scrolled
          PROVE  AtEnd'
      <4>1. top = Talk!LastTop(shown)
        BY <2>1, <3>2 DEF TalkInv, FollowIs, AtEnd
      <4>2. top' = Talk!Least(top, Talk!LastTop(d))
        BY <1>1, <1>9, <2>1, <3>1
      <4>3. top' = Talk!LastTop(d)
        BY <1>7, <2>1, <2>4, <4>1, <4>2 DEF Talk!Least
      <4>. QED
        BY <1>1, <4>3 DEF AtEnd
    <3>3. scrolled => scrolled'
      BY <1>1, <2>1
    <3>. QED
      BY <3>1, <3>2, <3>3
  <2>. QED
    BY <2>3, <2>4
<1>14. OlderIs'
  BY <1>1 DEF TalkInv, TalkTypes, OlderIs
<1>. QED
  BY <1>1, <1>11, <1>12, <1>13, <1>14 DEF TalkInv, FollowIs

LEMMA TalkStep == TalkInv /\ [PaneNext]_<<part, vars, filesVars, talkVars, itemVars>> => TalkInv'
<1>. SUFFICES ASSUME TalkInv, [PaneNext]_<<part, vars, filesVars, talkVars, itemVars>>
              PROVE  TalkInv'
  OBVIOUS
<1>1. ASSUME Talk!Next
      PROVE  TalkInv'
  <2>. USE DEF TalkInv
  <2>1. ASSUME shown' = shown, top' = top, scrolled' = scrolled, frame' = frame, reset' = reset,
               older' = older, restore' = restore, follow' = follow, previousRef' = previousRef,
               lapsed' = lapsed, visible' = visible, plain' \subseteq timers',
               total' \in [Threads -> Nat], active' \in Threads, {pane', moved', counted'} \subseteq BOOLEAN
        PROVE  TalkInv'
    BY <2>1 DEF TalkTypes, FramesAre, FollowIs, OlderIs, AtEnd
  <2>2. ASSUME NEW t \in Threads, NEW marks \in BOOLEAN, Talk!Append(t, marks)
        PROVE  TalkInv'
    BY <2>1, <2>2 DEF Talk!Append, Talk!dom, Talk!refs, TalkTypes
  <2>3. ASSUME NEW t \in Threads, NEW n \in 0..(total[t] - 1), Talk!Shrink(t, n)
        PROVE  TalkInv'
    BY <2>1, <2>3 DEF Talk!Shrink, Talk!dom, Talk!refs, TalkTypes
  <2>4. ASSUME NEW t \in Threads, Talk!Delta(t)
        PROVE  TalkInv'
    BY <2>1, <2>4 DEF Talk!Delta, Talk!dom, TalkTypes
  <2>5. ASSUME NEW t \in Threads, Talk!Replace(t) \/ Talk!SelectThread(t)
        PROVE  TalkInv'
    BY <2>1, <2>5 DEF Talk!Replace, Talk!SelectThread, Talk!state, Talk!dom, Talk!refs, Talk!store, TalkTypes
  <2>6. ASSUME NEW t \in Threads, Talk!PlainTimer(t)
        PROVE  TalkInv'
    BY <2>1, <2>6 DEF Talk!PlainTimer, Talk!dom, Talk!store, TalkTypes
  <2>7. ASSUME Talk!TurnChanges \/ Talk!TogglePane
        PROVE  TalkInv'
    BY <2>1, <2>7 DEF Talk!TurnChanges, Talk!TogglePane, Talk!dom, Talk!refs, Talk!store, TalkTypes
  <2>8. ASSUME NEW n \in 0..Talk!LastTop(shown), Talk!UserScrolls(n)
        PROVE  TalkInv'
    <3>1. Talk!LastTop(shown) \in Nat
      BY ScrollIs DEF TalkTypes
    <3>2. n \in Nat
      BY <3>1
    <3>. QED
      BY <2>8, <3>2 DEF Talk!UserScrolls, Talk!state, Talk!refs, Talk!store, TalkTypes, FramesAre,
                        FollowIs, OlderIs, AtEnd
  <2>9. CASE Talk!PressLoadOlder
    <3>1. /\ visible' \in Nat /\ older' \in BOOLEAN /\ (older' => restore' # NoRestore)
          /\ restore' # NoRestore => restore' \in [height : Nat, top : Nat]
          /\ OlderIs'
      BY <2>9, LoadIs DEF Talk!PressLoadOlder, Talk!dom
    <3>2. /\ shown' = shown /\ top' = top /\ scrolled' = scrolled /\ frame' = frame /\ reset' = reset
          /\ follow' = follow /\ previousRef' = previousRef /\ lapsed' = lapsed
          /\ plain' = plain /\ timers' = timers /\ total' = total /\ active' = active
          /\ pane' = pane /\ moved' = moved /\ counted' = counted
      BY <2>9 DEF Talk!PressLoadOlder, Talk!dom, Talk!store
    <3>. QED
      BY <3>1, <3>2 DEF TalkTypes, FramesAre, FollowIs, AtEnd
  <2>10. CASE Talk!Paint
    BY <2>10, TalkPaints
  <2>11. CASE Talk!Commit
    BY <2>11, TalkCommits
  <2>12. CASE Talk!Reset
    BY <2>12, TalkNumbers DEF Talk!Reset, Talk!store, TalkTypes, FramesAre, FollowIs, OlderIs, AtEnd
  <2>. QED
    BY <1>1, <2>2, <2>3, <2>4, <2>5, <2>6, <2>7, <2>8, <2>9, <2>10, <2>11, <2>12 DEF Talk!Next
<1>2. CASE UNCHANGED talkVars
  <2>1. UNCHANGED <<total, grown, marking, active, pane, visible, plain, shown, moved, counted, top,
                    scrolled, frame, reset, older, restore, follow, previousRef, timers, lapsed>>
    BY <1>2 DEF talkVars
  <2>. QED
    BY <2>1 DEF TalkInv, TalkTypes, FramesAre, FollowIs, OlderIs, AtEnd
<1>. QED
  BY <1>1, <1>2 DEF PaneNext

\* When nothing is due a reader who follows sees the newest entry, a batch that is being loaded
\* is not waited for, and an item is plain only while its timer runs (conversation-pane.tsx,
\* the effects of WorkbenchScreen.tsx), with the named exceptions.
THEOREM ConversationAlwaysSettles == PaneSpec => []ConversationSettles
<1>1. TalkInv => ConversationSettles
  <2>. SUFFICES ASSUME TalkInv PROVE Talk!ConversationSettles
    BY DEF ConversationSettles
  <2>1. Talk!Settled => ~scrolled /\ ~frame /\ ~reset /\ shown = Talk!Drawn
    BY DEF Talk!Settled, Talk!Due
  <2>2. Talk!Settled => shown.limit = visible
    BY <2>1, DrawnIs DEF TalkInv
  <2>. QED
    BY <2>1, <2>2 DEF Talk!ConversationSettles, Talk!IsNearBottom, TalkInv, FollowIs, OlderIs, AtEnd
<1>. QED
  BY <1>1, TalkStart, TalkStep, PTL DEF PaneSpec

-----------------------------------------------------------------------------
(* An item.  The body of an item that runs is what its first message had and   *)
(* the chunks written since (Body0); an entry of the page is made of the item  *)
(* as it was when codex said the last thing the page has heard (Made).         *)

Chunk(i) == <<"c1", "c2", "c3">>[i]
Bits == {"result", "changes"} \cup {Chunk(i) : i \in Nat}
Phases == {"running"} \cup Line!Ended
Pasts == [phase : Phases, written : Nat]
Entries == {Line!NoEntry} \cup {Line!Entry(k, p, n) : k \in Line!Kinds, p \in Phases, n \in Nat}
LineMessages == [type : {"item", "delta", "answer"}, entry : Entries, delta : Seq(Bits), rev : Nat]

Body0(k, p, n) == IF p = "running" /\ k \in Line!Streams \ Line!Written
                  THEN Line!Body(k, p, n) \o Line!Text(n) ELSE Line!Body(k, p, n)
Made(k, p, n, x) ==
  [there |-> TRUE, fields |-> Line!Fields(k, p), status |-> p,
   output |-> IF "aggregatedOutput" \in Line!Fields(k, p) THEN Line!Text(n) ELSE <<>>, body |-> x]
With(x, y) == IF y = <<>> THEN x ELSE x \o y

LEMMA ItemText ==
  ASSUME NEW n \in Nat
  PROVE  /\ Line!Text(n) \in Seq(Bits) /\ Len(Line!Text(n)) = n
         /\ Line!Text(n + 1)[n + 1] \in Bits
         /\ Line!Text(n) \o <<Line!Text(n + 1)[n + 1]>> = Line!Text(n + 1)
         /\ Line!Text(0) = <<>>
<1>1. \A j \in Nat : Line!Text(j) = [i \in 1..j |-> Chunk(i)]
  BY DEF Line!Text, Chunk
<1>. DEFINE f(j) == [i \in 1..j |-> Chunk(i)]
<1>2. \A j \in Nat : Line!Text(j) \in Seq(Bits) /\ Len(Line!Text(j)) = j
                     /\ \A i \in 1..j : Line!Text(j)[i] = Chunk(i)
  <2>. TAKE j \in Nat
  <2>1. \A i \in 1..j : Chunk(i) \in Bits
    BY DEF Bits
  <2>2. f(j) \in [1..j -> Bits]
    BY <2>1
  <2>. HIDE DEF f
  <2>3. f(j) \in Seq(Bits) /\ Len(f(j)) = j
    BY <2>2, SeqDef
  <2>4. \A i \in 1..j : f(j)[i] = Chunk(i)
    BY DEF f
  <2>5. Line!Text(j) = f(j)
    BY <1>1 DEF f
  <2>. QED
    BY <2>3, <2>4, <2>5
<1>3. n + 1 \in Nat /\ n + 1 \in 1..(n + 1)
  OBVIOUS
<1>4. Line!Text(n + 1)[n + 1] \in Bits
  BY <1>2, <1>3 DEF Bits
<1>. DEFINE last == <<Line!Text(n + 1)[n + 1]>>
<1>5. last \in Seq(Bits) /\ Len(last) = 1 /\ last[1] = Chunk(n + 1)
  BY <1>2, <1>3, <1>4
<1>. HIDE DEF last
<1>6. /\ Line!Text(n) \o last \in Seq(Bits) /\ Len(Line!Text(n) \o last) = n + 1
      /\ \A i \in 1..(n + 1) : (Line!Text(n) \o last)[i] =
            IF i <= n THEN Line!Text(n)[i] ELSE last[i - n]
  <2>1. Line!Text(n) \in Seq(Bits) /\ Len(Line!Text(n)) = n
    BY <1>2
  <2>. QED
    <3>1. /\ Line!Text(n) \o last \in Seq(Bits)
          /\ Len(Line!Text(n) \o last) = Len(Line!Text(n)) + Len(last)
          /\ \A i \in 1..(Len(Line!Text(n)) + Len(last)) : (Line!Text(n) \o last)[i] =
                IF i <= Len(Line!Text(n)) THEN Line!Text(n)[i] ELSE last[i - Len(Line!Text(n))]
      BY <1>5, <2>1, ConcatProperties
    <3>. QED
      BY <1>5, <2>1, <3>1
<1>7. \A i \in 1..(n + 1) : (Line!Text(n) \o last)[i] = Line!Text(n + 1)[i]
  <2>. TAKE i \in 1..(n + 1)
  <2>1. CASE i <= n
    BY <1>2, <1>3, <1>6, <2>1
  <2>2. CASE ~(i <= n)
    <3>1. i = n + 1 /\ i - n = 1
      BY <2>2
    <3>. QED
      BY <1>2, <1>3, <1>5, <1>6, <2>2, <3>1
  <2>. QED
    BY <2>1, <2>2
<1>8. Line!Text(n) \o last = Line!Text(n + 1)
  <2>1. Line!Text(n + 1) \in Seq(Bits) /\ Len(Line!Text(n + 1)) = n + 1
    BY <1>2, <1>3
  <2>2. \A i \in 1..Len(Line!Text(n) \o last) : (Line!Text(n) \o last)[i] = Line!Text(n + 1)[i]
    BY <1>6, <1>7
  <2>. QED
    BY <1>6, <2>1, <2>2, SeqEqual
<1>9. Line!Text(0) = <<>>
  BY <1>2
<1>. QED
  BY <1>2, <1>4, <1>8, <1>9 DEF last

LEMMA ItemBody ==
  ASSUME NEW k \in Line!Streams, NEW p \in Phases, NEW n \in Nat
  PROVE  Line!Body(k, p, n) \in Seq(Bits)
<1>1. Line!Text(n) \in Seq(Bits) /\ <<>> \in Seq(Bits)
  BY ItemText
<1>2. <<"result">> \in Seq(Bits)
  BY DEF Bits
<1>3. CASE k \in Line!Written
  BY <1>1, <1>3 DEF Line!Body, Line!Written, Line!Raw
<1>4. CASE k = "commandExecution"
  BY <1>1, <1>4 DEF Line!Body, Line!Written, Line!Raw
<1>5. CASE k = "mcpToolCall"
  BY <1>1, <1>2, <1>5 DEF Line!Body, Line!Written, Line!Raw
<1>6. CASE k = "fileChange"
  <2>1. Line!Fields(k, p) = {"changes"}
    BY <1>6 DEF Line!Fields
  <2>2. Line!Body(k, p, n) = SetToSeq({"changes"})
    <3>1. Line!Body(k, p, n) = Line!SetToSeq(Line!Fields(k, p))
      BY <1>6 DEF Line!Body, Line!Written, Line!Raw
    <3>. QED
      BY <2>1, <3>1 DEF Line!SetToSeq, SetToSeq, Line!IsInjective, IsInjective, Line!Cardinality, Cardinality
  <2>3. SetToSeq({"changes"}) \in Seq({"changes"})
    BY SetToSeqIs, FS_Singleton
  <2>4. {"changes"} \subseteq Bits
    BY DEF Bits
  <2>. QED
    BY <2>2, <2>3, <2>4, SeqMonotonic
<1>. QED
  BY <1>3, <1>4, <1>5, <1>6 DEF Line!Streams

\* What the card of an item that has ended tells.
LEMMA SetIsSequence ==
  ASSUME NEW x
  PROVE  Line!ToSet(Line!SetToSeq({x})) = {x}
<1>1. SetToSeq({x}) \in Seq({x}) /\ \A y \in {x} : \E i \in DOMAIN SetToSeq({x}) : SetToSeq({x})[i] = y
  BY SetToSeqIs, FS_Singleton
<1>2. ToSet(SetToSeq({x})) = {x}
  <2>. DEFINE s == SetToSeq({x})
  <2>. HIDE DEF s
  <2>1. s \in Seq({x}) /\ \A y \in {x} : \E i \in DOMAIN s : s[i] = y
    BY <1>1 DEF s
  <2>2. ToSet(s) = {x}
    BY <2>1 DEF ToSet
  <2>. QED
    BY <2>2 DEF s
<1>3. Line!SetToSeq({x}) = SetToSeq({x})
  BY DEF Line!SetToSeq, SetToSeq, Line!IsInjective, IsInjective, Line!Cardinality, Cardinality
<1>. QED
  BY <1>2, <1>3 DEF Line!ToSet, ToSet

LEMMA CardTells ==
  ASSUME NEW k \in Line!Kinds, NEW p \in Line!Ended, NEW n \in Nat
  PROVE  LET e == Line!Entry(k, p, n)
             c == Line!Card(k, e)
         IN /\ Line!Fields(k, p) \ {"aggregatedOutput"} \subseteq c.shows \cup Line!ToSet(c.text)
            /\ k \in Line!Streams \ {"fileChange", "mcpToolCall"} /\ p # "declined"
                 => c.text = Line!Text(n)
<1>. DEFINE e == Line!Entry(k, p, n)
            c == Line!Card(k, e)
<1>1. e.fields = Line!Fields(k, p) /\ e.body = Line!Body(k, p, n)
      /\ e.output = IF "aggregatedOutput" \in Line!Fields(k, p) THEN Line!Text(n) ELSE <<>>
  BY DEF Line!Entry
<1>. HIDE DEF e
<1>2. p \in {"completed", "failed", "declined"}
  BY DEF Line!Ended
<1>3. CASE Line!isMessageEntry(k)
  <2>1. c.text = e.body /\ k \in {"userMessage", "agentMessage"}
    BY <1>3 DEF Line!Card, Line!isMessageEntry
  <2>2. CASE k = "userMessage"
    <3>1. Line!Fields(k, p) = {"content"}
      BY <2>2 DEF Line!Fields
    <3>2. Line!Body(k, p, n) = Line!SetToSeq(Line!Fields(k, p))
      BY <2>2 DEF Line!Body, Line!Written, Line!Raw
    <3>3. Line!ToSet(c.text) = {"content"}
      BY <1>1, <2>1, <3>1, <3>2, SetIsSequence
    <3>. QED
      BY <2>2, <3>1, <3>3 DEF e, Line!Streams, Line!Written
  <2>3. CASE k = "agentMessage"
    <3>1. Line!Fields(k, p) = {}
      BY <2>3 DEF Line!Fields
    <3>2. Line!Body(k, p, n) = Line!Text(n)
      BY <2>3 DEF Line!Body, Line!Written, Line!Raw
    <3>. QED
      BY <1>1, <2>1, <3>1, <3>2 DEF e
  <2>. QED
    BY <2>1, <2>2, <2>3
<1>4. CASE ~Line!isMessageEntry(k)
  <2>1. c.shows = Line!Summary(k, e).shows \cup Line!DetailFields(k, e) /\ c.text = Line!DetailText(k, e)
    BY <1>4 DEF Line!Card
  <2>2. CASE k \in {"plan", "reasoning"}
    <3>1. Line!Fields(k, p) = {}
      BY <2>2 DEF Line!Fields
    <3>2. Line!Body(k, p, n) = Line!Text(n)
      BY <2>2 DEF Line!Body, Line!Written, Line!Raw
    <3>3. Line!DetailText(k, e) = e.body
      BY <2>2 DEF Line!DetailText, Line!Raw
    <3>. QED
      BY <1>1, <2>1, <3>1, <3>2, <3>3 DEF e
  <2>3. CASE k = "commandExecution"
    <3>1. /\ Line!Fields(k, p) \ {"aggregatedOutput"} \subseteq {"command", "cwd", "exitCode", "durationMs"}
          /\ p # "declined" => "aggregatedOutput" \in Line!Fields(k, p)
      BY <1>2, <2>3 DEF Line!Fields
    <3>2. Line!DetailFields(k, e) = e.fields \cap {"cwd", "exitCode", "durationMs"}
      BY <2>3 DEF Line!DetailFields, Line!Raw, Line!Runs
    <3>3. Line!Summary(k, e).shows = e.fields \cap {"command"}
      BY <2>3 DEF Line!Summary
    <3>4. "aggregatedOutput" \in e.fields => Line!DetailText(k, e) = e.output
      BY <2>3 DEF Line!DetailText, Line!Raw
    <3>5. p # "declined" => c.text = Line!Text(n)
      BY <1>1, <2>1, <3>1, <3>4
    <3>6. Line!Fields(k, p) \ {"aggregatedOutput"} \subseteq c.shows
      BY <1>1, <2>1, <3>1, <3>2, <3>3
    <3>. QED
      BY <3>5, <3>6 DEF e
  <2>4. CASE k \in {"fileChange", "mcpToolCall", "dynamicToolCall", "collabAgentToolCall", "webSearch",
                    "imageGeneration", "imageView", "enteredReviewMode", "exitedReviewMode",
                    "contextCompaction", "commandExecutionInteraction"}
    <3>1. Line!Fields(k, p) \subseteq
            Line!Summary(k, e).shows \cup Line!DetailFields(k, e)
      BY <1>1, <1>2, <2>4 DEF Line!Fields, Line!Summary, Line!DetailFields, Line!Ended, Line!Raw
    <3>. QED
      BY <2>1, <2>4, <3>1 DEF e, Line!Streams, Line!Written
  <2>5. CASE k = "anotherKind"
    <3>1. Line!Fields(k, p) = {"json"}
      BY <2>5 DEF Line!Fields
    <3>2. Line!Body(k, p, n) = Line!SetToSeq(Line!Fields(k, p))
      BY <2>5 DEF Line!Body, Line!Written, Line!Raw
    <3>3. Line!DetailText(k, e) = e.body
      BY <2>5 DEF Line!DetailText, Line!Raw
    <3>4. Line!ToSet(c.text) = {"json"}
      BY <1>1, <2>1, <3>1, <3>2, <3>3, SetIsSequence
    <3>. QED
      BY <2>5, <3>1, <3>4 DEF e, Line!Streams, Line!Written
  <2>6. CASE k \in Line!Raw
    <3>1. Line!DetailFields(k, e) = e.fields \cap Line!RawDetails(k, e)
      BY <2>6 DEF Line!DetailFields, Line!Raw
    <3>2. Line!Fields(k, p) \subseteq Line!Summary(k, e).shows \cup Line!RawDetails(k, e)
      BY <1>1, <2>6 DEF Line!Fields, Line!Summary, Line!RawDetails, Line!Raw
    <3>. QED
      BY <1>1, <2>1, <2>6, <3>1, <3>2 DEF e, Line!Streams, Line!Written, Line!Raw
  <2>. QED
    BY <1>4, <2>2, <2>3, <2>4, <2>5, <2>6 DEF Line!isMessageEntry, Line!Kinds, Line!Written, Line!Runs,
         Line!Once, Line!Internal
<1>. QED
  BY <1>3, <1>4

\* What a message says is true of the item as it was when codex said it.
Tells(k, q, m) ==
  /\ m.type = "item" => /\ m.rev \in DOMAIN q
                        /\ m.entry = Line!Entry(k, q[m.rev].phase, q[m.rev].written)
                        /\ q[m.rev].phase = "running" => q[m.rev].written = 0
  /\ m.type = "delta" => /\ m.rev \in DOMAIN q /\ k \in Line!Streams
                         /\ q[m.rev].phase = "running" /\ q[m.rev].written # 0
                         /\ m.delta = <<Line!Text(q[m.rev].written)[q[m.rev].written]>>
                         /\ m.rev # 1 => /\ q[m.rev - 1].phase = "running"
                                         /\ q[m.rev - 1].written = q[m.rev].written - 1
  /\ m.type = "answer" /\ m.rev # 0 =>
       m.rev \in DOMAIN q /\ m.entry = Line!Entry(k, q[m.rev].phase, q[m.rev].written)
  /\ m.type = "answer" /\ m.rev = 0 => m.entry = Line!NoEntry

\* With what the dispatcher keeps, the entry is what was written by then.
EntryIs(k, x, e, kept) ==
  \E y : e = Made(k, x.phase, x.written, y) /\ With(y, kept) = Body0(k, x.phase, x.written)

IsEntry(k, e) == "body" \in DOMAIN e /\ (k \in Line!Streams => e.body \in Seq(Bits))

LineTypes ==
  /\ kind \in Line!Kinds /\ phase \in Phases \cup {"none"} /\ written \in Nat /\ past \in Seq(Pasts)
  /\ ws \in Seq(LineMessages) /\ held \in Seq(LineMessages) /\ IsEntry(kind, entry)
  /\ at \in Nat /\ pending \in Seq(Bits)

PastIs ==
  /\ phase = "none" <=> past = <<>>
  /\ past # <<>> => past[Len(past)] = [phase |-> phase, written |-> written]
  /\ phase = "none" => written = 0

MessagesTell ==
  /\ \A i \in DOMAIN ws : Tells(kind, past, ws[i])
  /\ \A i \in DOMAIN held : held[i].type = "answer" /\ Tells(kind, past, held[i])

CardIs ==
  /\ kind \notin Line!Streams => pending = <<>>
  /\ at # 0 => at \in DOMAIN past /\ EntryIs(kind, past[at], entry, pending)

ItemInv == LineTypes /\ PastIs /\ MessagesTell /\ CardIs

LEMMA TellsStill ==
  ASSUME NEW k, NEW q \in Seq(Pasts), NEW x \in Pasts, NEW m \in LineMessages, Tells(k, q, m)
  PROVE  Tells(k, Append(q, x), m)
<1>1. /\ Len(q) \in Nat /\ DOMAIN q = 1..Len(q) /\ DOMAIN Append(q, x) = 1..(Len(q) + 1)
      /\ \A i \in DOMAIN q : i \in DOMAIN Append(q, x) /\ Append(q, x)[i] = q[i]
  BY AppendIs
<1>2. m.rev \in Nat
  BY DEF LineMessages
<1>3. m.rev \in DOMAIN q /\ m.rev # 1 => m.rev - 1 \in DOMAIN q
  BY <1>1
<1>4. CASE m.type = "item"
  BY <1>1, <1>4 DEF Tells
<1>5. CASE m.type = "delta"
  BY <1>1, <1>3, <1>5 DEF Tells
<1>6. CASE m.type = "answer"
  BY <1>1, <1>6 DEF Tells
<1>. QED
  BY <1>4, <1>5, <1>6 DEF LineMessages

LEMMA BodyIs ==
  ASSUME NEW k \in Line!Kinds, NEW p \in Phases, NEW n \in Nat
  PROVE  /\ k \in Line!Streams => Body0(k, p, n) \in Seq(Bits)
         /\ p # "running" \/ n = 0 \/ k \notin Line!Streams \/ k \in Line!Written =>
              Body0(k, p, n) = Line!Body(k, p, n)
         /\ Line!Entry(k, p, n) = Made(k, p, n, Line!Body(k, p, n))
<1>1. k \in Line!Streams => Line!Body(k, p, n) \in Seq(Bits)
  BY ItemBody
<1>2. Line!Text(n) \in Seq(Bits) /\ Line!Text(0) = <<>>
  BY ItemText
<1>3. k \in Line!Streams => Body0(k, p, n) \in Seq(Bits)
  BY <1>1, <1>2, ConcatProperties DEF Body0
<1>4. k \in Line!Streams /\ n = 0 => Line!Body(k, p, n) \o Line!Text(n) = Line!Body(k, p, n)
  BY <1>1, <1>2, ConcatEmptySeq
<1>5. Line!Entry(k, p, n) = Made(k, p, n, Line!Body(k, p, n))
  BY DEF Made, Line!Entry
<1>. QED
  BY <1>3, <1>4, <1>5 DEF Body0

\* A chunk more.
LEMMA BodyGrows ==
  ASSUME NEW k \in Line!Streams, NEW n \in Nat
  PROVE  /\ Body0(k, "running", n + 1)
              = Body0(k, "running", n) \o <<Line!Text(n + 1)[n + 1]>>
         /\ \A y : Made(k, "running", n + 1, y) = Made(k, "running", n, y)
<1>. DEFINE last == <<Line!Text(n + 1)[n + 1]>>
<1>1. /\ Line!Text(n) \in Seq(Bits) /\ Line!Text(n + 1)[n + 1] \in Bits
      /\ Line!Text(n) \o last = Line!Text(n + 1)
  BY ItemText
<1>2. last \in Seq(Bits)
  BY <1>1
<1>. HIDE DEF last
<1>3. "running" \in Phases
  BY DEF Phases
<1>6. "aggregatedOutput" \notin Line!Fields(k, "running")
  BY DEF Line!Fields, Line!Streams, Line!Written
<1>4. CASE k \in Line!Written
  <2>1. \A j \in Nat : Line!Body(k, "running", j) = Line!Text(j)
    BY <1>4 DEF Line!Body, Line!Written, Line!Raw
  <2>. QED
    BY <1>1, <1>4, <1>6, <2>1 DEF Body0, Made, last
<1>5. CASE k \notin Line!Written
  <2>1. k \in {"commandExecution", "fileChange", "mcpToolCall"}
    BY <1>5 DEF Line!Streams
  <2>3. Line!Body(k, "running", n) = Line!Body(k, "running", n + 1)
    BY <1>6, <2>1 DEF Line!Body, Line!Written, Line!Raw
  <2>4. Line!Body(k, "running", n) \in Seq(Bits)
    BY <1>3, ItemBody
  <2>5. Body0(k, "running", n + 1) = Line!Body(k, "running", n) \o Line!Text(n + 1)
    BY <1>5, <2>3 DEF Body0
  <2>6. Body0(k, "running", n) = Line!Body(k, "running", n) \o Line!Text(n)
    BY <1>5 DEF Body0
  <2>7. Line!Body(k, "running", n) \o (Line!Text(n) \o last) = (Line!Body(k, "running", n) \o Line!Text(n)) \o last
    <3>1. \A u, v, w \in Seq(Bits) : (u \o v) \o w = u \o (v \o w)
      BY ConcatAssociative
    <3>. QED
      BY <1>1, <1>2, <2>4, <3>1
  <2>8. \A y : Made(k, "running", n + 1, y) = Made(k, "running", n, y)
    BY <1>6 DEF Made
  <2>. QED
    BY <1>1, <2>5, <2>6, <2>7, <2>8 DEF last
<1>. QED
  BY <1>4, <1>5

\* The entry after a delta is kept, and after a frame.
LEMMA EntryGrows ==
  ASSUME NEW k \in Line!Streams, NEW n \in Nat, NEW e, NEW kept \in Seq(Bits), e.body \in Seq(Bits),
         EntryIs(k, [phase |-> "running", written |-> n], e, kept)
  PROVE  LET d == <<Line!Text(n + 1)[n + 1]>>
         IN EntryIs(k, [phase |-> "running", written |-> n + 1], e, kept \o d)
<1>. DEFINE d == <<Line!Text(n + 1)[n + 1]>>
<1>1. PICK y : e = Made(k, "running", n, y) /\ With(y, kept) = Body0(k, "running", n)
  BY DEF EntryIs
<1>2. e.body = y
  BY <1>1 DEF Made, Line!Entry
<1>3. d \in Seq(Bits) /\ d # <<>>
  <2>1. Line!Text(n + 1)[n + 1] \in Bits
    BY ItemText
  <2>. QED
    BY <2>1
<1>4. /\ Body0(k, "running", n + 1) = Body0(k, "running", n) \o d
      /\ Made(k, "running", n + 1, y) = Made(k, "running", n, y)
  BY BodyGrows
<1>. HIDE DEF d
<1>5. With(y, kept \o d) = With(y, kept) \o d
  <2>1. kept \o d # <<>>
    BY <1>3, ConcatSimplifications!concIsEmpty
  <2>2. CASE kept = <<>>
    BY <1>3, <2>1, <2>2, ConcatEmptySeq DEF With
  <2>3. CASE kept # <<>>
    <3>1. (y \o kept) \o d = y \o (kept \o d)
      BY <1>2, <1>3, ConcatAssociative
    <3>. QED
      BY <2>1, <2>3, <3>1 DEF With
  <2>. QED
    BY <2>2, <2>3
<1>6. e = Made(k, "running", n + 1, y) /\ With(y, kept \o d) = Body0(k, "running", n + 1)
  BY <1>1, <1>4, <1>5
<1>. QED
  BY <1>6 DEF EntryIs, d

LEMMA EntryFlushed ==
  ASSUME NEW k, NEW x \in Pasts, NEW e, NEW kept, EntryIs(k, x, e, kept)
  PROVE  /\ Line!AppendDelta(e, kept) = Made(k, x.phase, x.written, Body0(k, x.phase, x.written))
         /\ EntryIs(k, x, Line!AppendDelta(e, kept), <<>>)
<1>1. PICK y : e = Made(k, x.phase, x.written, y) /\ With(y, kept) = Body0(k, x.phase, x.written)
  BY DEF EntryIs
<1>2. e.there = TRUE /\ e.body = y
  BY <1>1 DEF Made, Line!Entry
<1>3. [e EXCEPT !.body = y \o kept] = Made(k, x.phase, x.written, y \o kept)
  <2>1. PICK h, f, s, o : \A v : Made(k, x.phase, x.written, v)
                           = [there |-> h, fields |-> f, status |-> s, output |-> o, body |-> v]
    BY DEF Made
  <2>2. e = [there |-> h, fields |-> f, status |-> s, output |-> o, body |-> y]
    BY <1>1, <2>1
  <2>3. \A v : [e EXCEPT !.body = v] = [there |-> h, fields |-> f, status |-> s, output |-> o, body |-> v]
    BY <2>2
  <2>. QED
    BY <2>1, <2>3
<1>4. Line!AppendDelta(e, kept) = Made(k, x.phase, x.written, With(y, kept))
  <2>1. CASE kept = <<>>
    BY <1>1, <2>1 DEF Line!AppendDelta, With
  <2>2. CASE kept # <<>>
    <3>1. Line!AppendDelta(e, kept) = [e EXCEPT !.body = y \o kept]
      BY <1>2, <2>2 DEF Line!AppendDelta
    <3>. QED
      BY <1>3, <2>2, <3>1 DEF With
  <2>. QED
    BY <2>1, <2>2
<1>5. With(Body0(k, x.phase, x.written), <<>>) = Body0(k, x.phase, x.written)
  BY DEF With
<1>. QED
  BY <1>1, <1>4, <1>5 DEF EntryIs

LEMMA ItemStart ==
  ASSUME Line!Init
  PROVE  ItemInv
<1>1. /\ kind \in Line!Kinds /\ phase = "none" /\ written = 0 /\ past = <<>> /\ ws = <<>> /\ held = <<>>
      /\ entry = Line!NoEntry /\ pending = <<>> /\ at = 0
  BY DEF Line!Init
<1>2. IsEntry(kind, Line!NoEntry)
  <2>1. "body" \in DOMAIN Line!NoEntry /\ Line!NoEntry.body = <<>>
    BY DEF Line!NoEntry
  <2>. QED
    BY <2>1 DEF IsEntry
<1>3. LineTypes
  BY <1>1, <1>2 DEF LineTypes
<1>4. PastIs
  BY <1>1 DEF PastIs
<1>. QED
  BY <1>1, <1>3, <1>4 DEF ItemInv, MessagesTell, CardIs

LEMMA ItemSame ==
  ASSUME ItemInv, UNCHANGED itemVars
  PROVE  ItemInv'
<1>1. UNCHANGED <<kind, phase, written, past, ws, held, online, entry, pending, at>>
  BY DEF itemVars
<1>2. LineTypes'
  BY <1>1 DEF ItemInv, LineTypes
<1>3. PastIs'
  BY <1>1 DEF ItemInv, PastIs
<1>4. MessagesTell'
  BY <1>1 DEF ItemInv, MessagesTell
<1>5. CardIs'
  BY <1>1 DEF ItemInv, CardIs
<1>. QED
  BY <1>2, <1>3, <1>4, <1>5 DEF ItemInv

\* What codex says goes to the end of the history and, online, of the messages.
LEMMA ItemSays ==
  ASSUME ItemInv, NEW p \in Phases, NEW n \in Nat, NEW m \in LineMessages, Line!Says(p, n, m),
         Tells(kind, Append(past, [phase |-> p, written |-> n]), m)
  PROVE  ItemInv'
<1>. DEFINE x == [phase |-> p, written |-> n]
<1>1. /\ phase' = p /\ written' = n /\ past' = Append(past, x)
      /\ ws' = IF online THEN Append(ws, m) ELSE ws
      /\ UNCHANGED <<kind, held, entry, pending, at>>
  BY DEF Line!Says
<1>2. LineTypes /\ MessagesTell /\ CardIs
  BY DEF ItemInv
<1>3. /\ kind \in Line!Kinds /\ past \in Seq(Pasts) /\ ws \in Seq(LineMessages)
      /\ held \in Seq(LineMessages) /\ IsEntry(kind, entry) /\ at \in Nat /\ pending \in Seq(Bits)
  BY <1>2 DEF LineTypes
<1>4. x \in Pasts
  BY DEF Pasts
<1>. HIDE DEF x
<1>5. /\ past' \in Seq(Pasts) /\ Len(past') = Len(past) + 1 /\ past' # <<>>
      /\ past'[Len(past) + 1] = x /\ \A i \in DOMAIN past : i \in DOMAIN past' /\ past'[i] = past[i]
  BY <1>1, <1>3, <1>4, AppendIs
<1>6. ws' \in Seq(LineMessages) /\ \A i \in DOMAIN ws' : (i \in DOMAIN ws /\ ws'[i] = ws[i]) \/ ws'[i] = m
  <2>1. CASE online
    <3>1. ws' = Append(ws, m)
      BY <1>1, <2>1
    <3>2. /\ Append(ws, m) \in Seq(LineMessages) /\ DOMAIN Append(ws, m) = 1..(Len(ws) + 1)
          /\ Append(ws, m)[Len(ws) + 1] = m /\ Len(ws) \in Nat /\ DOMAIN ws = 1..Len(ws)
          /\ \A i \in DOMAIN ws : Append(ws, m)[i] = ws[i]
      BY <1>3, AppendIs
    <3>. QED
      BY <3>1, <3>2
  <2>2. CASE ~online
    BY <1>1, <1>3, <2>2
  <2>. QED
    BY <2>1, <2>2
<1>7. LineTypes'
  <2>1. phase' \in Phases \cup {"none"} /\ written' \in Nat
    BY <1>1
  <2>2. IsEntry(kind, entry)'
    BY <1>1, <1>3 DEF IsEntry
  <2>. QED
    BY <1>1, <1>3, <1>5, <1>6, <2>1, <2>2 DEF LineTypes
<1>8. PastIs'
  <2>1. phase' # "none"
    BY <1>1 DEF Phases, Line!Ended
  <2>2. past'[Len(past')] = [phase |-> phase', written |-> written']
    BY <1>1, <1>5 DEF x
  <2>. QED
    BY <1>5, <2>1, <2>2 DEF PastIs
<1>9. MessagesTell'
  <2>1. \A c \in LineMessages : Tells(kind, past, c) => Tells(kind, past', c)
    BY <1>1, <1>3, <1>4, TellsStill
  <2>2. Tells(kind, past', m)
    BY <1>1 DEF x
  <2>3. \A i \in DOMAIN ws : ws[i] \in LineMessages /\ Tells(kind, past, ws[i])
    BY <1>2, <1>3 DEF MessagesTell
  <2>4. \A i \in DOMAIN held : held[i] \in LineMessages /\ held[i].type = "answer" /\ Tells(kind, past, held[i])
    BY <1>2, <1>3 DEF MessagesTell
  <2>5. \A i \in DOMAIN ws' : Tells(kind, past', ws'[i])
    BY <1>6, <2>1, <2>2, <2>3
  <2>6. \A i \in DOMAIN held : held[i].type = "answer" /\ Tells(kind, past', held[i])
    BY <2>1, <2>4
  <2>7. kind' = kind /\ held' = held
    BY <1>1
  <2>. QED
    BY <2>5, <2>6, <2>7 DEF MessagesTell
<1>10. CardIs'
  BY <1>1, <1>2, <1>5 DEF CardIs
<1>. QED
  BY <1>7, <1>8, <1>9, <1>10 DEF ItemInv

LEMMA MessagesAre ==
  ASSUME NEW k \in Line!Kinds, NEW p \in Phases, NEW n \in Nat, NEW r \in Nat
  PROVE  /\ Line!TimelineItem(k, p, n, r) \in LineMessages
         /\ Line!Answer(Line!Entry(k, p, n), r) \in LineMessages
         /\ Line!Answer(Line!NoEntry, 0) \in LineMessages
         /\ \A c \in Bits : Line!TimelineDelta(c, r) \in LineMessages
<1>1. Line!Entry(k, p, n) \in Entries /\ Line!NoEntry \in Entries
  BY DEF Entries
<1>2. \A v \in Entries, z \in Seq(Bits), t \in {"item", "delta", "answer"} :
        [type |-> t, entry |-> v, delta |-> z, rev |-> r] \in LineMessages
        /\ [type |-> t, entry |-> v, delta |-> z, rev |-> 0] \in LineMessages
  BY DEF LineMessages
<1>3. <<>> \in Seq(Bits) /\ \A c \in Bits : <<c>> \in Seq(Bits)
  OBVIOUS
<1>. QED
  BY <1>1, <1>2, <1>3 DEF Line!TimelineItem, Line!Answer, Line!TimelineDelta

LEMMA ItemStarts ==
  ASSUME ItemInv, Line!CodexStarts
  PROVE  ItemInv'
<1>. DEFINE p == IF kind \in Line!Internal THEN "completed" ELSE "running"
            m == Line!TimelineItem(kind, p, 0, 1)
<1>1. phase = "none" /\ Line!Says(p, 0, m)
  BY DEF Line!CodexStarts
<1>2. p \in Phases
  BY DEF Phases, Line!Ended
<1>3. kind \in Line!Kinds /\ past = <<>>
  BY <1>1 DEF ItemInv, LineTypes, PastIs
<1>4. m \in LineMessages
  BY <1>2, <1>3, MessagesAre
<1>5. Tells(kind, Append(past, [phase |-> p, written |-> 0]), m)
  <2>1. Append(past, [phase |-> p, written |-> 0]) = <<[phase |-> p, written |-> 0]>>
    BY <1>3
  <2>. QED
    BY <2>1 DEF Tells, Line!TimelineItem
<1>. HIDE DEF p, m
<1>. QED
  BY <1>1, <1>2, <1>4, <1>5, ItemSays

LEMMA ItemWrites ==
  ASSUME ItemInv, Line!CodexWrites
  PROVE  ItemInv'
<1>. DEFINE c == Line!Text(written + 1)[written + 1]
            m == Line!TimelineDelta(c, Len(past) + 1)
            q == Append(past, [phase |-> phase, written |-> written + 1])
<1>1. kind \in Line!Streams /\ phase = "running" /\ Line!Says(phase, written + 1, m)
  BY DEF Line!CodexWrites
<1>2. /\ kind \in Line!Kinds /\ past \in Seq(Pasts) /\ written \in Nat
      /\ past # <<>> => past[Len(past)] = [phase |-> phase, written |-> written]
  BY DEF ItemInv, LineTypes, PastIs
<1>3. phase \in Phases /\ written + 1 \in Nat /\ Len(past) + 1 \in Nat
  BY <1>1, <1>2 DEF Phases
<1>4. c \in Bits
  BY <1>2, ItemText
<1>5. m \in LineMessages
  BY <1>2, <1>3, <1>4, MessagesAre
<1>6. /\ q[Len(past) + 1] = [phase |-> phase, written |-> written + 1] /\ Len(past) + 1 \in DOMAIN q
      /\ Len(past) + 1 # 1 => q[Len(past)] = [phase |-> phase, written |-> written]
  <2>1. [phase |-> phase, written |-> written + 1] \in Pasts
    BY <1>3 DEF Pasts
  <2>2. /\ q[Len(past) + 1] = [phase |-> phase, written |-> written + 1] /\ DOMAIN q = 1..(Len(past) + 1)
        /\ \A i \in DOMAIN past : q[i] = past[i]
    BY <1>2, <2>1, AppendIs
  <2>3. Len(past) + 1 # 1 => past # <<>> /\ Len(past) \in DOMAIN past
    BY <1>2
  <2>. QED
    BY <1>2, <1>3, <2>2, <2>3
<1>7. m.type = "delta" /\ m.rev = Len(past) + 1 /\ m.delta = <<c>>
  BY DEF Line!TimelineDelta
<1>. HIDE DEF q, m
<1>8. Tells(kind, q, m)
  BY <1>1, <1>2, <1>6, <1>7 DEF Tells
<1>. QED
  BY <1>1, <1>2, <1>3, <1>5, <1>8, ItemSays DEF q

LEMMA ItemEnds ==
  ASSUME ItemInv, Line!CodexEnds
  PROVE  ItemInv'
<1>1. PICK p \in Line!Outcomes(kind) :
        Line!Says(p, written, Line!TimelineItem(kind, p, written, Len(past) + 1))
  BY DEF Line!CodexEnds
<1>. DEFINE m == Line!TimelineItem(kind, p, written, Len(past) + 1)
            q == Append(past, [phase |-> p, written |-> written])
<1>2. p \in Line!Ended
  BY DEF Line!Outcomes, Line!Ended
<1>3. kind \in Line!Kinds /\ past \in Seq(Pasts) /\ written \in Nat
  BY DEF ItemInv, LineTypes
<1>4. p \in Phases /\ p # "running" /\ Len(past) + 1 \in Nat
  BY <1>2, <1>3 DEF Phases, Line!Ended
<1>5. m \in LineMessages
  BY <1>3, <1>4, MessagesAre
<1>6. q[Len(past) + 1] = [phase |-> p, written |-> written] /\ Len(past) + 1 \in DOMAIN q
  <2>1. [phase |-> p, written |-> written] \in Pasts
    BY <1>3, <1>4 DEF Pasts
  <2>. QED
    BY <1>3, <2>1, AppendIs
<1>7. m.type = "item" /\ m.rev = Len(past) + 1 /\ m.entry = Line!Entry(kind, p, written)
  BY DEF Line!TimelineItem
<1>8. Line!Says(p, written, m)
  BY <1>1
<1>. HIDE DEF q, m
<1>9. Tells(kind, q, m)
  BY <1>4, <1>6, <1>7 DEF Tells
<1>. QED
  BY <1>3, <1>4, <1>5, <1>8, <1>9, ItemSays DEF q

LEMMA AppendHas ==
  ASSUME NEW S, NEW s \in Seq(S), NEW x \in S, NEW out, out = Append(s, x)
  PROVE  out \in Seq(S) /\ \A i \in DOMAIN out : out[i] = x \/ (i \in DOMAIN s /\ out[i] = s[i])
<1>1. /\ out \in Seq(S) /\ DOMAIN s = 1..Len(s) /\ DOMAIN out = 1..(Len(s) + 1) /\ Len(s) \in Nat
      /\ \A i \in DOMAIN s : out[i] = s[i]
      /\ out[Len(s) + 1] = x
  BY AppendIs
<1>. QED
  BY <1>1

LEMMA ItemReads ==
  ASSUME ItemInv, Line!CodexReads
  PROVE  ItemInv'
<1>1. /\ kind \in Line!Kinds /\ phase \in Phases \cup {"none"} /\ written \in Nat /\ past \in Seq(Pasts)
      /\ held \in Seq(LineMessages)
      /\ phase # "none" => past # <<>> /\ past[Len(past)] = [phase |-> phase, written |-> written]
  BY DEF ItemInv, LineTypes, PastIs
<1>2. UNCHANGED <<kind, phase, written, past, ws, entry, pending, at>>
  BY DEF Line!CodexReads
<1>3. \E m \in LineMessages : held' = Append(held, m) /\ m.type = "answer" /\ Tells(kind, past, m)
  <2>1. CASE held' = Append(held, Line!Answer(Line!NoEntry, 0))
    <3>. DEFINE m == Line!Answer(Line!NoEntry, 0)
    <3>1. m \in LineMessages
      BY <1>1, MessagesAre DEF Phases
    <3>2. m.type = "answer" /\ m.rev = 0 /\ m.entry = Line!NoEntry
      BY DEF Line!Answer
    <3>. HIDE DEF m
    <3>3. Tells(kind, past, m)
      BY <3>2 DEF Tells
    <3>. QED
      BY <2>1, <3>1, <3>2, <3>3 DEF m
  <2>2. CASE /\ phase # "none"
             /\ held' = Append(held, Line!Answer(Line!Entry(kind, phase, written), Len(past)))
    <3>. DEFINE m == Line!Answer(Line!Entry(kind, phase, written), Len(past))
    <3>1. phase \in Phases /\ Len(past) \in Nat \ {0} /\ Len(past) \in DOMAIN past
      BY <1>1, <2>2
    <3>2. m \in LineMessages
      BY <1>1, <3>1, MessagesAre
    <3>3. m.type = "answer" /\ m.rev = Len(past) /\ m.entry = Line!Entry(kind, phase, written)
      BY DEF Line!Answer
    <3>. HIDE DEF m
    <3>4. Tells(kind, past, m)
      BY <1>1, <2>2, <3>1, <3>3 DEF Tells
    <3>. QED
      BY <2>2, <3>2, <3>3, <3>4 DEF m
  <2>. QED
    BY <2>1, <2>2 DEF Line!CodexReads
<1>4. PICK m \in LineMessages : held' = Append(held, m) /\ m.type = "answer" /\ Tells(kind, past, m)
  BY <1>3
<1>5. /\ held' \in Seq(LineMessages)
      /\ \A i \in DOMAIN held' : held'[i] = m \/ (i \in DOMAIN held /\ held'[i] = held[i])
  <2>1. m \in LineMessages /\ held' = Append(held, m)
    BY <1>4
  <2>. QED
    BY <1>1, <2>1, AppendHas
<1>6. LineTypes'
  BY <1>2, <1>5 DEF ItemInv, LineTypes
<1>7. PastIs' /\ CardIs'
  BY <1>2 DEF ItemInv, PastIs, CardIs
<1>8. MessagesTell'
  <2>1. \A i \in DOMAIN held' : held'[i].type = "answer" /\ Tells(kind, past, held'[i])
    BY <1>4, <1>5 DEF ItemInv, MessagesTell
  <2>2. \A i \in DOMAIN ws : Tells(kind, past, ws[i])
    BY DEF ItemInv, MessagesTell
  <2>. QED
    BY <1>2, <2>1, <2>2 DEF MessagesTell
<1>. QED
  BY <1>6, <1>7, <1>8 DEF ItemInv

LEMMA ItemAnswers ==
  ASSUME ItemInv, Line!ServerAnswers
  PROVE  ItemInv'
<1>1. /\ held # <<>> /\ held' = Tail(held) /\ ws' = Append(ws, Head(held))
      /\ UNCHANGED <<kind, phase, written, past, entry, pending, at>>
  BY DEF Line!ServerAnswers
<1>2. held \in Seq(LineMessages) /\ ws \in Seq(LineMessages)
  BY DEF ItemInv, LineTypes
<1>3. /\ \A i \in DOMAIN ws : Tells(kind, past, ws[i])
      /\ \A i \in DOMAIN held : held[i].type = "answer" /\ Tells(kind, past, held[i])
  BY DEF ItemInv, MessagesTell
<1>4. /\ Head(held) \in LineMessages /\ Head(held) = held[1] /\ Tail(held) \in Seq(LineMessages)
      /\ Len(held) \in Nat \ {0} /\ DOMAIN held = 1..Len(held)
      /\ \A i \in DOMAIN Tail(held) : i + 1 \in DOMAIN held /\ Tail(held)[i] = held[i + 1]
  BY <1>1, <1>2, TailIs
<1>5. /\ Append(ws, Head(held)) \in Seq(LineMessages) /\ DOMAIN Append(ws, Head(held)) = 1..(Len(ws) + 1)
      /\ Append(ws, Head(held))[Len(ws) + 1] = Head(held) /\ Len(ws) \in Nat /\ DOMAIN ws = 1..Len(ws)
      /\ \A i \in DOMAIN ws : Append(ws, Head(held))[i] = ws[i]
  BY <1>2, <1>4, AppendIs
<1>6. MessagesTell'
  <2>1. Tells(kind, past, Head(held))
    BY <1>3, <1>4
  <2>2. \A i \in DOMAIN ws' : Tells(kind, past, ws'[i])
    BY <1>1, <1>3, <1>5, <2>1
  <2>3. \A i \in DOMAIN held' : held'[i].type = "answer" /\ Tells(kind, past, held'[i])
    BY <1>1, <1>3, <1>4
  <2>. QED
    BY <1>1, <2>2, <2>3 DEF MessagesTell
<1>7. LineTypes'
  <2>1. held' \in Seq(LineMessages) /\ ws' \in Seq(LineMessages)
    BY <1>1, <1>4, <1>5
  <2>. QED
    BY <1>1, <2>1 DEF ItemInv, LineTypes
<1>8. PastIs' /\ CardIs'
  BY <1>1 DEF ItemInv, PastIs, CardIs
<1>. QED
  BY <1>6, <1>7, <1>8 DEF ItemInv

\* An entry that comes in a message or an answer.
LEMMA MessageEntry ==
  ASSUME NEW k \in Line!Kinds, NEW q \in Seq(Pasts), NEW m \in LineMessages, Tells(k, q, m),
         m.type # "delta"
  PROVE  /\ IsEntry(k, m.entry)
         /\ m.rev # 0 => m.rev \in DOMAIN q
         /\ m.rev # 0 /\ (k \in Line!Streams \ Line!Written =>
                            q[m.rev].phase # "running" \/ q[m.rev].written = 0)
              => EntryIs(k, q[m.rev], m.entry, <<>>)
<1>1. m.type \in {"item", "answer"} /\ m.rev \in Nat
  BY DEF LineMessages
<1>2. CASE m.rev = 0
  <2>1. m.type = "answer" /\ m.entry = Line!NoEntry
    BY <1>1, <1>2 DEF Tells
  <2>2. "body" \in DOMAIN Line!NoEntry /\ Line!NoEntry.body = <<>>
    BY DEF Line!NoEntry
  <2>3. IsEntry(k, Line!NoEntry)
    BY <2>2 DEF IsEntry
  <2>. QED
    BY <1>2, <2>1, <2>3
<1>3. CASE m.rev # 0
  <2>1. m.rev \in DOMAIN q /\ m.entry = Line!Entry(k, q[m.rev].phase, q[m.rev].written)
    BY <1>1, <1>3 DEF Tells
  <2>. DEFINE p == q[m.rev].phase
              n == q[m.rev].written
  <2>2. p \in Phases /\ n \in Nat
    <3>1. q[m.rev] \in Pasts
      BY <2>1
    <3>. QED
      BY <3>1 DEF Pasts
  <2>. HIDE DEF p, n
  <2>3. /\ m.entry = Made(k, p, n, Line!Body(k, p, n))
        /\ p # "running" \/ n = 0 \/ k \notin Line!Streams \/ k \in Line!Written =>
             Body0(k, p, n) = Line!Body(k, p, n)
    BY <2>1, <2>2, BodyIs DEF p, n
  <2>4. IsEntry(k, m.entry)
    <3>1. k \in Line!Streams => Line!Body(k, p, n) \in Seq(Bits)
      BY <2>2, ItemBody
    <3>2. \A y : "body" \in DOMAIN Made(k, p, n, y) /\ Made(k, p, n, y).body = y
      BY DEF Made
    <3>. QED
      BY <2>3, <3>1, <3>2 DEF IsEntry
  <2>5. (k \in Line!Streams \ Line!Written => p # "running" \/ n = 0)
          => EntryIs(k, q[m.rev], m.entry, <<>>)
    <3>. HAVE k \in Line!Streams \ Line!Written => p # "running" \/ n = 0
    <3>1. Body0(k, p, n) = Line!Body(k, p, n)
      BY <2>3
    <3>. QED
      BY <2>3, <3>1 DEF EntryIs, With, p, n
  <2>. QED
    BY <2>1, <2>4, <2>5 DEF p, n
<1>. QED
  BY <1>2, <1>3

LEMMA ItemReceives ==
  ASSUME ItemInv, Line!PageReceives
  PROVE  ItemInv'
<1>1. PICK m : /\ m = Head(ws)
               /\ \/ m.type = "item" /\ Line!ApplyTimelineItem(m.entry) /\ at' = m.rev
                  \/ /\ m.type = "delta" /\ pending' = pending \o m.delta
                     /\ at' = IF at # 0 /\ m.rev = at + 1 THEN m.rev ELSE 0
                     /\ UNCHANGED entry
                  \/ /\ m.type = "answer" /\ Line!HydrateThread(m.entry)
                     /\ at' = IF Line!Whole(m) THEN m.rev ELSE 0
  BY DEF Line!PageReceives
<1>2. /\ ws # <<>> /\ ws' = Tail(ws)
      /\ UNCHANGED <<kind, phase, written, past, held>>
  BY DEF Line!PageReceives
<1>3. LineTypes /\ PastIs /\ MessagesTell /\ CardIs
  BY DEF ItemInv
<1>4. /\ kind \in Line!Kinds /\ past \in Seq(Pasts) /\ ws \in Seq(LineMessages)
      /\ IsEntry(kind, entry) /\ at \in Nat /\ pending \in Seq(Bits)
      /\ phase \in Phases \cup {"none"} /\ written \in Nat /\ held \in Seq(LineMessages)
  BY <1>3 DEF LineTypes
<1>5. /\ Head(ws) \in LineMessages /\ Head(ws) = ws[1] /\ Tail(ws) \in Seq(LineMessages)
      /\ Len(ws) \in Nat \ {0} /\ DOMAIN ws = 1..Len(ws)
      /\ \A i \in DOMAIN Tail(ws) : i + 1 \in DOMAIN ws /\ Tail(ws)[i] = ws[i + 1]
  BY <1>2, <1>4, TailIs
<1>6. m \in LineMessages /\ Tells(kind, past, m)
  BY <1>1, <1>3, <1>5 DEF MessagesTell
<1>7. PastIs'
  BY <1>2, <1>3 DEF PastIs
<1>8. MessagesTell'
  <2>1. \A i \in DOMAIN ws' : Tells(kind, past, ws'[i])
    BY <1>2, <1>3, <1>5 DEF MessagesTell
  <2>. QED
    BY <1>2, <1>3, <2>1 DEF MessagesTell
<1>9. IsEntry(kind, entry)' /\ at' \in Nat /\ pending' \in Seq(Bits) /\ CardIs'
  <2>1. m.rev \in Nat /\ m.delta \in Seq(Bits)
    BY <1>6 DEF LineMessages
  <2>2. CASE m.type = "item" /\ Line!ApplyTimelineItem(m.entry) /\ at' = m.rev
    <3>1. entry' = m.entry /\ pending' = <<>> /\ at' = m.rev /\ m.type # "delta"
      BY <2>2 DEF Line!ApplyTimelineItem
    <3>2. m.rev \in DOMAIN past /\ (past[m.rev].phase = "running" => past[m.rev].written = 0)
      BY <1>6, <2>2 DEF Tells
    <3>3. IsEntry(kind, m.entry)
      BY <1>4, <1>6, <3>1, MessageEntry
    <3>4. m.rev # 0 => EntryIs(kind, past[m.rev], m.entry, <<>>)
      BY <1>4, <1>6, <3>1, <3>2, MessageEntry
    <3>5. kind' = kind /\ past' = past
      BY <1>2
    <3>6. IsEntry(kind, entry)'
      BY <3>1, <3>3, <3>5
    <3>7. at' \in Nat /\ pending' \in Seq(Bits)
      BY <2>1, <3>1
    <3>8. at' # 0 => at' \in DOMAIN past' /\ EntryIs(kind', past'[at'], entry', pending')
      <4>1. /\ at' = m.rev /\ past' = past /\ entry' = m.entry /\ pending' = <<>> /\ kind' = kind
        BY <3>1, <3>5
      <4>2. m.rev # 0 => m.rev \in DOMAIN past /\ EntryIs(kind, past[m.rev], m.entry, <<>>)
        BY <3>2, <3>4
      <4>. QED
        BY <4>1, <4>2
    <3>. QED
      BY <3>1, <3>6, <3>7, <3>8 DEF CardIs
  <2>3. CASE /\ m.type = "delta" /\ pending' = pending \o m.delta
             /\ at' = IF at # 0 /\ m.rev = at + 1 THEN m.rev ELSE 0
             /\ UNCHANGED entry
    <3>1. /\ kind \in Line!Streams /\ m.rev \in DOMAIN past
          /\ past[m.rev].phase = "running" /\ past[m.rev].written # 0
          /\ m.delta = <<Line!Text(past[m.rev].written)[past[m.rev].written]>>
          /\ m.rev # 1 => /\ past[m.rev - 1].phase = "running"
                          /\ past[m.rev - 1].written = past[m.rev].written - 1
      BY <1>6, <2>3 DEF Tells
    <3>2. kind' = kind /\ past' = past /\ entry' = entry /\ pending' = pending \o m.delta
      BY <1>2, <2>3
    <3>3. pending \o m.delta \in Seq(Bits)
      BY <1>4, <2>1, ConcatProperties
    <3>4. ASSUME at # 0, m.rev = at + 1
          PROVE  EntryIs(kind, past[m.rev], entry, pending \o m.delta)
      <4>. DEFINE n == past[at].written
      <4>1. at \in DOMAIN past /\ EntryIs(kind, past[at], entry, pending)
        BY <1>3, <3>4 DEF CardIs
      <4>2. past[at] \in Pasts /\ past[m.rev] \in Pasts
        BY <1>4, <3>1, <4>1
      <4>3. /\ m.rev - 1 = at /\ past[at].phase = "running" /\ past[at].written \in Nat
            /\ past[m.rev].written \in Nat /\ past[m.rev].written = past[at].written + 1
        <5>1. m.rev - 1 = at /\ m.rev # 1
          BY <1>4, <2>1, <3>4
        <5>2. past[at].phase = "running" /\ past[at].written = past[m.rev].written - 1
          BY <3>1, <5>1
        <5>3. past[at].written \in Nat /\ past[m.rev].written \in Nat
          BY <4>2 DEF Pasts
        <5>. QED
          BY <5>1, <5>2, <5>3
      <4>4. /\ past[at] = [phase |-> "running", written |-> n]
            /\ past[m.rev] = [phase |-> "running", written |-> n + 1]
        BY <3>1, <4>2, <4>3 DEF Pasts
      <4>5. n \in Nat /\ m.delta = <<Line!Text(n + 1)[n + 1]>>
        BY <3>1, <4>3
      <4>6. entry.body \in Seq(Bits)
        BY <1>4, <3>1 DEF IsEntry
      <4>. HIDE DEF n
      <4>. QED
        BY <1>4, <3>1, <4>1, <4>4, <4>5, <4>6, EntryGrows
    <3>5. IsEntry(kind, entry)' /\ at' \in Nat /\ pending' \in Seq(Bits)
      BY <1>4, <2>1, <2>3, <3>2, <3>3 DEF IsEntry
    <3>6. at' # 0 => /\ at' = m.rev /\ m.rev \in DOMAIN past
                     /\ EntryIs(kind, past[m.rev], entry, pending \o m.delta)
      BY <2>3, <3>1, <3>4
    <3>. QED
      BY <3>1, <3>2, <3>5, <3>6 DEF CardIs
  <2>4. CASE /\ m.type = "answer" /\ Line!HydrateThread(m.entry)
             /\ at' = IF Line!Whole(m) THEN m.rev ELSE 0
    <3>1. entry' = m.entry /\ pending' = pending /\ m.type # "delta"
      BY <2>4 DEF Line!HydrateThread
    <3>2. IsEntry(kind, m.entry)
      BY <1>4, <1>6, <3>1, MessageEntry
    <3>3. ASSUME at' # 0
          PROVE  /\ at' = m.rev /\ m.rev \in DOMAIN past /\ pending = <<>>
                 /\ EntryIs(kind, past[m.rev], m.entry, <<>>)
      <4>1. Line!Whole(m) /\ at' = m.rev
        BY <2>4, <3>3
      <4>2. /\ m.rev # 0 /\ pending = <<>>
            /\ kind \in Line!Streams \ Line!Written =>
                 past[m.rev].phase # "running" \/ past[m.rev].written = 0
        BY <4>1 DEF Line!Whole
      <4>. QED
        BY <1>4, <1>6, <3>1, <4>1, <4>2, MessageEntry
    <3>4. kind' = kind /\ past' = past
      BY <1>2
    <3>5. at' \in Nat
      BY <2>1, <2>4
    <3>. QED
      BY <1>3, <1>4, <3>1, <3>2, <3>3, <3>4, <3>5 DEF CardIs
  <2>. QED
    BY <1>1, <2>2, <2>3, <2>4
<1>10. LineTypes'
  <2>1. ws' \in Seq(LineMessages)
    BY <1>2, <1>5
  <2>. QED
    BY <1>2, <1>4, <1>9, <2>1 DEF LineTypes
<1>. QED
  BY <1>7, <1>8, <1>9, <1>10 DEF ItemInv

\* A frame writes what is kept into the entry.
LEMMA ItemFrame ==
  ASSUME ItemInv, Line!Frame
  PROVE  ItemInv'
<1>1. /\ pending # <<>> /\ entry' = Line!AppendDelta(entry, pending) /\ pending' = <<>>
      /\ UNCHANGED <<kind, phase, written, past, ws, held, at>>
  BY DEF Line!Frame, Line!Flushed
<1>2. LineTypes /\ CardIs /\ past \in Seq(Pasts) /\ IsEntry(kind, entry) /\ pending \in Seq(Bits)
  BY DEF ItemInv, LineTypes
<1>3. kind \in Line!Streams
  BY <1>1, <1>2 DEF CardIs
<1>4. IsEntry(kind, entry')
  <2>1. \A e, z : "body" \in DOMAIN e =>
            [e EXCEPT !.body = z].body = z /\ DOMAIN [e EXCEPT !.body = z] = DOMAIN e
    OBVIOUS
  <2>2. \A e : IsEntry(kind, e) => IsEntry(kind, [e EXCEPT !.body = e.body \o pending])
    <3>. SUFFICES ASSUME NEW e, IsEntry(kind, e)
                  PROVE  IsEntry(kind, [e EXCEPT !.body = e.body \o pending])
      OBVIOUS
    <3>1. "body" \in DOMAIN e /\ e.body \in Seq(Bits)
      BY <1>3 DEF IsEntry
    <3>2. e.body \o pending \in Seq(Bits)
      BY <1>2, <3>1, ConcatProperties
    <3>. QED
      BY <2>1, <3>1, <3>2 DEF IsEntry
  <2>3. IsEntry(kind, Line!Placeholder)
    BY DEF IsEntry, Line!Placeholder, Line!NoEntry
  <2>4. \/ entry' = [entry EXCEPT !.body = entry.body \o pending]
        \/ entry' = [Line!Placeholder EXCEPT !.body = Line!Placeholder.body \o pending]
    BY <1>1 DEF Line!AppendDelta
  <2>. QED
    BY <1>2, <2>2, <2>3, <2>4
<1>5. at # 0 => at \in DOMAIN past /\ EntryIs(kind, past[at], entry', <<>>)
  <2>. HAVE at # 0
  <2>1. at \in DOMAIN past /\ EntryIs(kind, past[at], entry, pending)
    BY <1>2 DEF CardIs
  <2>2. past[at] \in Pasts
    BY <1>2, <2>1
  <2>. QED
    BY <1>1, <2>1, <2>2, EntryFlushed
<1>6. LineTypes'
  <2>1. pending' \in Seq(Bits)
    BY <1>1
  <2>. QED
    BY <1>1, <1>2, <1>4, <2>1 DEF LineTypes
<1>7. PastIs' /\ MessagesTell'
  BY <1>1 DEF ItemInv, PastIs, MessagesTell
<1>8. CardIs'
  BY <1>1, <1>3, <1>5 DEF CardIs
<1>. QED
  BY <1>6, <1>7, <1>8 DEF ItemInv

LEMMA ItemLoses ==
  ASSUME ItemInv, Line!LoseSocket \/ Line!Reconnect
  PROVE  ItemInv'
<1>1. CASE Line!LoseSocket
  <2>1. /\ ws' = <<>> /\ held' = <<>> /\ at' = IF ws = <<>> THEN at ELSE 0
        /\ UNCHANGED <<kind, phase, written, past, entry, pending>>
    BY <1>1 DEF Line!LoseSocket
  <2>2. LineTypes'
    BY <2>1 DEF ItemInv, LineTypes
  <2>3. PastIs' /\ MessagesTell'
    BY <2>1 DEF ItemInv, PastIs, MessagesTell
  <2>4. CardIs'
    BY <2>1 DEF ItemInv, CardIs
  <2>. QED
    BY <2>2, <2>3, <2>4 DEF ItemInv
<1>2. CASE Line!Reconnect
  <2>1. UNCHANGED <<kind, phase, written, past, ws, held, entry, pending, at>>
    BY <1>2 DEF Line!Reconnect
  <2>2. LineTypes'
    BY <2>1 DEF ItemInv, LineTypes
  <2>3. PastIs' /\ MessagesTell'
    BY <2>1 DEF ItemInv, PastIs, MessagesTell
  <2>4. CardIs'
    BY <2>1 DEF ItemInv, CardIs
  <2>. QED
    BY <2>2, <2>3, <2>4 DEF ItemInv
<1>. QED
  BY <1>1, <1>2

LEMMA ItemStep ==
  ASSUME ItemInv, PaneNext \/ UNCHANGED <<part, vars, filesVars, talkVars, itemVars>>
  PROVE  ItemInv'
<1>1. Line!Next \/ UNCHANGED itemVars
  BY DEF PaneNext
<1>2. CASE UNCHANGED itemVars
  BY <1>2, ItemSame
<1>3. CASE Line!Next
  BY <1>3, ItemStarts, ItemWrites, ItemEnds, ItemReads, ItemAnswers, ItemReceives, ItemFrame,
     ItemLoses DEF Line!Next
<1>. QED
  BY <1>1, <1>2, <1>3

\* The card of a page is the card of what was read.
LEMMA CardHolds ==
  ASSUME ItemInv
  PROVE  CardIsTrue
<1>. SUFFICES ASSUME at # 0 PROVE Line!CardIsTrue
  BY DEF CardIsTrue, Line!CardIsTrue
<1>. DEFINE p == past[at].phase
            n == past[at].written
            b0 == Body0(kind, p, n)
<1>1. /\ at \in DOMAIN past /\ EntryIs(kind, past[at], entry, pending)
      /\ kind \in Line!Kinds /\ past[at] \in Pasts
  BY DEF ItemInv, CardIs, LineTypes
<1>2. p \in Phases /\ n \in Nat
  BY <1>1 DEF Pasts
<1>3. Line!Flushed = Made(kind, p, n, b0)
  BY <1>1, EntryFlushed DEF Line!Flushed
<1>4. Line!Entry(kind, p, n) = Made(kind, p, n, Line!Body(kind, p, n))
  BY <1>1, <1>2, BodyIs
<1>5. ASSUME p = "running", kind \in Line!Streams \ Line!Written
      PROVE  [Line!Entry(kind, p, n) EXCEPT !.body = @ \o Line!Text(n)] = Made(kind, p, n, b0)
  <2>1. b0 = Line!Body(kind, p, n) \o Line!Text(n)
    BY <1>5 DEF Body0
  <2>2. Made(kind, p, n, Line!Body(kind, p, n)).body = Line!Body(kind, p, n)
    BY DEF Made
  <2>. HIDE DEF p, n, b0
  <2>3. PICK h, f, s, o : \A v : Made(kind, p, n, v)
                           = [there |-> h, fields |-> f, status |-> s, output |-> o, body |-> v]
    BY DEF Made
  <2>4. PICK e : e = Line!Entry(kind, p, n)
    OBVIOUS
  <2>5. e = [there |-> h, fields |-> f, status |-> s, output |-> o, body |-> Line!Body(kind, p, n)]
    BY <1>4, <2>3, <2>4
  <2>6. \A v : [e EXCEPT !.body = v] = [there |-> h, fields |-> f, status |-> s, output |-> o, body |-> v]
    BY <2>5
  <2>7. e.body = Line!Body(kind, p, n)
    BY <2>5
  <2>8. [e EXCEPT !.body = @ \o Line!Text(n)] = [e EXCEPT !.body = e.body \o Line!Text(n)]
    OBVIOUS
  <2>. QED
    BY <2>1, <2>3, <2>4, <2>6, <2>7, <2>8
<1>6. ASSUME ~(p = "running" /\ kind \in Line!Streams \ Line!Written)
      PROVE  Line!Entry(kind, p, n) = Made(kind, p, n, b0)
  BY <1>4, <1>6 DEF Body0
<1>7. ASSUME p \in Line!Ended
      PROVE  /\ Line!Entry(kind, p, n).fields \ {"aggregatedOutput"}
                   \subseteq Line!Shown.shows \cup Line!ToSet(Line!Shown.text)
             /\ kind \in Line!Streams \ {"fileChange", "mcpToolCall"} /\ p # "declined"
                  => Line!Shown.text = Line!Text(n)
  <2>1. p # "running"
    BY <1>7 DEF Line!Ended
  <2>2. Line!Shown = Line!Card(kind, Line!Entry(kind, p, n))
    BY <1>3, <1>6, <2>1 DEF Line!Shown
  <2>3. Line!Entry(kind, p, n).fields = Line!Fields(kind, p)
    BY DEF Line!Entry
  <2>. HIDE DEF p, n, b0
  <2>. QED
    BY <1>1, <1>2, <1>7, <2>2, <2>3, CardTells
<1>. HIDE DEF b0
<1>. QED
  BY <1>3, <1>5, <1>6, <1>7 DEF Line!CardIsTrue, Line!Shown

\* The card of an item, on a page that has missed nothing of it, is the card a read of the thread
\* would have given with the chunks written since, and the card of an item that has ended leaves
\* nothing out (normalizeItem(), applyDeltaEntries(), hydrateThread(), timeline-helpers.ts).
THEOREM CardIsAlwaysTrue == PaneSpec => []CardIsTrue
<1>1. PaneInit => ItemInv
  BY ItemStart DEF PaneInit
<1>. QED
  BY <1>1, ItemStep, CardHolds, PTL DEF PaneSpec

=============================================================================
