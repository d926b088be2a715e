------------------------- MODULE GreeReplay_proofs -------------------------
(***************************************************************************)
(* The Gree VRF qualification replay, for every set of observations: what  *)
(* the candidate publishes, what the map decoder makes of the same bytes,  *)
(* and that the two agree.                                                 *)
(***************************************************************************)
EXTENDS GreeReplay, GreeMap_proofs

-----------------------------------------------------------------------------
(* The candidate.                                                          *)

LEMMA RunsAre ==
  ASSUME NEW opcode \in DOMAIN RunsOf, NEW run \in RunsOf[opcode]
  PROVE  /\ opcode \in {\h10, \h11, \h52, \h58}
         /\ run.coordinate \in Nat /\ run.cell \in Nat /\ run.n \in 1 .. 2
         /\ run.coordinate + run.n - 1 <= 96
<1>1. opcode \in {\h10, \h11, \h52, \h58}
  BY DEF RunsOf
<1>2. CASE opcode = \h10
  BY <1>2 DEF RunsOf, Run
<1>3. CASE opcode = \h11
  BY <1>3 DEF RunsOf, Run
<1>4. CASE opcode = \h52
  BY <1>4 DEF RunsOf, Run
<1>5. CASE opcode = \h58
  BY <1>5 DEF RunsOf, Run
<1>6. QED
  BY <1>1, <1>2, <1>3, <1>4, <1>5

LEMMA StartIs ==
  ASSUME NEW o \in Observation, Len(o.data) \in 1 .. 8
  PROVE  o.data[1] \in U8 /\ o.data[1] \in Nat
<1>1. o.data \in Seq(U8)
  BY DEF Observation
<1>2. o.data[1] \in U8
  BY <1>1
<1>3. QED
  BY <1>2 DEF U8

\* A covered coordinate has one byte that speaks for it, any other has none.
LEMMA SpeakerIs ==
  ASSUME NEW o \in Observation, o.opcode7 \in DOMAIN RunsOf, Len(o.data) \in 1 .. 8, NEW c \in Nat
  PROVE  /\ Covered(o.opcode7, o.data, c) => Speakers(o, c) = {Index(o.opcode7, o.data, c)}
         /\ ~Covered(o.opcode7, o.data, c) => Speakers(o, c) = {}
<1> DEFINE start == o.data[1]
           p == PerByte(o.opcode7)
           n == Len(o.data)
           i == Index(o.opcode7, o.data, c)
<1>1. start \in Nat /\ p \in {1, 8} /\ n \in 1 .. 8
  BY StartIs DEF PerByte
<1>2. i = (c - start) \div p + 2
  BY DEF Index
<1>3. Covered(o.opcode7, o.data, c) <=> c >= start /\ i <= n
  BY DEF Covered
<1>4. Speakers(o, c) = {k \in 2 .. n : c \in start + p * (k - 2) .. start + p * (k - 2) + p - 1}
  BY DEF Speakers, SpeaksFrom
<1> HIDE DEF start, p, n, i
<1>5. CASE p = 1
  <2>1. i = c - start + 2
    BY <1>1, <1>2, <1>5
  <2>2. Speakers(o, c) = {k \in 2 .. n : k = c - start + 2}
    BY <1>1, <1>4, <1>5
  <2>3. QED
    BY <1>1, <1>3, <2>1, <2>2 DEF i
<1>6. CASE p = 8
  <2>1. Speakers(o, c) = {k \in 2 .. n : c >= start /\ (c - start) \div 8 = k - 2}
    BY <1>1, <1>4, <1>6
  <2>2. i = (c - start) \div 8 + 2 /\ (c - start) \div 8 \in Int /\ (c >= start => (c - start) \div 8 >= 0)
    BY <1>1, <1>2, <1>6
  <2>3. QED
    BY <1>1, <1>3, <2>1, <2>2 DEF i
<1>7. QED
  BY <1>1, <1>5, <1>6

LEMMA SaidValue ==
  ASSUME NEW o \in Observation, o.opcode7 \in DOMAIN RunsOf, Len(o.data) \in 1 .. 8, NEW c \in Nat,
         Covered(o.opcode7, o.data, c)
  PROVE  Said(o, c) = Value(o.opcode7, o.data, c)
<1> DEFINE i == Index(o.opcode7, o.data, c)
           start == o.data[1]
<1>1. Speakers(o, c) = {i}
  BY SpeakerIs
<1>2. Speaker(o, c) = i
  <2> HIDE DEF i
  <2> QED
    BY <1>1 DEF Speaker
<1>3. start \in Nat
  BY StartIs
<1>4. CASE o.opcode7 = \h52
  <2>1. i = (c - start) \div 8 + 2
    BY <1>4 DEF Index, PerByte
  <2>2. SpeaksFrom(o, i) = start + 8 * (i - 2)
    BY <1>4 DEF SpeaksFrom, PerByte
  <2> HIDE DEF start
  <2>3. c - SpeaksFrom(o, i) = (c - start) % 8
    BY <1>3, <2>1, <2>2
  <2>4. QED
    BY <1>2, <1>4, <2>3 DEF Said, Value, PerByte, start
<1>5. CASE o.opcode7 # \h52
  BY <1>2, <1>5 DEF Said, Value, PerByte
<1>6. QED
  BY <1>4, <1>5

LEMMA PublishedIs ==
  ASSUME NEW o \in Observation, o.opcode7 \in DOMAIN RunsOf, Len(o.data) \in 1 .. 8
  PROVE  UpdatesOf(o.opcode7, o.data) =
           UNION {{[cell |-> run.cell + k, value |-> Said(o, run.coordinate + k)] :
                     k \in 0 .. run.n - 1} :
                  run \in {run \in RunsOf[o.opcode7] :
                             \A k \in 0 .. run.n - 1 : Speakers(o, run.coordinate + k) # {}}}
<1> DEFINE whole == {run \in RunsOf[o.opcode7] : Whole(o.opcode7, o.data, run)}
           spoken == {run \in RunsOf[o.opcode7] :
                        \A k \in 0 .. run.n - 1 : Speakers(o, run.coordinate + k) # {}}
           read(run) == {[cell |-> run.cell + k,
                          value |-> Value(o.opcode7, o.data, run.coordinate + k)] :
                           k \in 0 .. run.n - 1}
           said(run) == {[cell |-> run.cell + k, value |-> Said(o, run.coordinate + k)] :
                           k \in 0 .. run.n - 1}
<1>1. ASSUME NEW run \in RunsOf[o.opcode7], NEW k \in 0 .. run.n - 1
      PROVE  /\ Covered(o.opcode7, o.data, run.coordinate + k) <=> Speakers(o, run.coordinate + k) # {}
             /\ Covered(o.opcode7, o.data, run.coordinate + k) =>
                  Said(o, run.coordinate + k) = Value(o.opcode7, o.data, run.coordinate + k)
  <2>1. run.coordinate + k \in Nat
    BY RunsAre
  <2>2. QED
    BY <2>1, SpeakerIs, SaidValue
<1>2. whole = spoken
  BY <1>1 DEF Whole
<1>3. \A run \in whole : read(run) = said(run)
  BY <1>1 DEF Whole
<1>4. UpdatesOf(o.opcode7, o.data) = UNION {read(run) : run \in whole}
  BY DEF UpdatesOf
<1> HIDE DEF whole, read, said
<1>5. {read(run) : run \in whole} = {said(run) : run \in whole}
  BY <1>3
<1>6. QED
  BY <1>2, <1>4, <1>5 DEF said

\* A frame whose span leaves the coordinates covers none of the published ones.
LEMMA NothingPastTheSpan ==
  ASSUME NEW o \in Observation, o.opcode7 \in DOMAIN RunsOf, Len(o.data) \in 1 .. 8,
         ~SpanValid(o.opcode7, o.data)
  PROVE  UpdatesOf(o.opcode7, o.data) = {}
<1> DEFINE start == o.data[1]
           n == Len(o.data)
           p == PerByte(o.opcode7)
<1>1. start \in Nat /\ p \in {1, 8} /\ n \in 1 .. 8
  BY StartIs DEF PerByte
<1>2. ~(start + p * (n - 1) <= 255)
  BY DEF SpanValid
<1>3. \A c \in Nat : Covered(o.opcode7, o.data, c) => c >= start
  BY DEF Covered
<1> HIDE DEF start, n, p
<1>4. start > 96
  BY <1>1, <1>2
<1>5. ASSUME NEW run \in RunsOf[o.opcode7]
      PROVE  ~Whole(o.opcode7, o.data, run)
  <2>1. run.coordinate \in Nat /\ run.n \in 1 .. 2 /\ run.coordinate + run.n - 1 <= 96
    BY RunsAre
  <2>2. 0 \in 0 .. run.n - 1 /\ run.coordinate + 0 = run.coordinate /\ run.coordinate <= 96
    BY <2>1
  <2>3. QED
    BY <1>1, <1>3, <1>4, <2>1, <2>2 DEF Whole
<1>6. QED
  BY <1>5 DEF UpdatesOf
-----------------------------------------------------------------------------
(* What the map decoder makes of a frame of the candidate.                 *)

\* Byte rows of opcode 0x10, each cell for one coordinate, none of them cleaned up.
CopyRow(row) ==
  /\ row.kind = "u8" /\ row.transform = "none"
  /\ row.coordinate \in 2 .. 6 /\ row.cell \in 0 .. 4

LEMMA CandidateRows ==
  ASSUME NEW d, d.profile \in DOMAIN Entries
  PROVE  /\ \A opcode \in {\h11, \h52, \h58} : RowsOf(d, opcode) = {}
         /\ \A j \in RowsOf(d, \h10) :
              j \in DOMAIN Table(d) /\ Table(d)[j].opcode = \h10 /\ CopyRow(Table(d)[j])
         /\ \A j, k \in RowsOf(d, \h10) :
              Table(d)[j].cell = Table(d)[k].cell <=>
                Table(d)[j].coordinate = Table(d)[k].coordinate
<1>0. \A opcode \in {\h10, \h11, \h52, \h58} : opcode \in U8
  BY DEF U8
<1>1. \A opcode \in {\h10, \h11, \h52, \h58} :
        RowsOf(d, opcode) = {j \in DOMAIN Table(d) : Table(d)[j].opcode = opcode}
  BY <1>0, TableIs
<1>2. CASE d.profile = "M94"
  <2>1. \A j \in DOMAIN Table(d) :
          /\ Table(d)[j].opcode \notin {\h11, \h52, \h58}
          /\ Table(d)[j].opcode = \h10 => Copies94(Table(d)[j])
    <3>1. Table(d) \in Seq(M94Row)
      BY <1>2, TableIs
    <3>2. \A j \in DOMAIN Table(d) : Table(d)[j] \in M94Row
      BY <3>1
    <3>3. QED
      BY <3>2 DEF M94Row
  <2>2. \A j \in RowsOf(d, \h10) :
          j \in DOMAIN Table(d) /\ Table(d)[j].opcode = \h10 /\ Copies94(Table(d)[j])
    BY <1>1, <2>1
  <2>3. \A r, t : Copies94(r) /\ Copies94(t) =>
          CopyRow(r) /\ (r.cell = t.cell <=> r.coordinate = t.coordinate)
    BY DEF Copies94, CopyRow
  <2>4. QED
    BY <1>1, <2>1, <2>2, <2>3
<1>3. CASE d.profile = "M115"
  <2>1. \A j \in DOMAIN Table(d) :
          /\ Table(d)[j].opcode \notin {\h11, \h52, \h58}
          /\ Table(d)[j].opcode = \h10 => Copies115(Table(d)[j])
    <3>1. Table(d) \in Seq(M115Row)
      BY <1>3, TableIs
    <3>2. \A j \in DOMAIN Table(d) : Table(d)[j] \in M115Row
      BY <3>1
    <3>3. QED
      BY <3>2 DEF M115Row
  <2>2. \A j \in RowsOf(d, \h10) :
          j \in DOMAIN Table(d) /\ Table(d)[j].opcode = \h10 /\ Copies115(Table(d)[j])
    BY <1>1, <2>1
  <2>3. \A r, t : Copies115(r) /\ Copies115(t) =>
          CopyRow(r) /\ (r.cell = t.cell <=> r.coordinate = t.coordinate)
    BY DEF Copies115, CopyRow
  <2>4. QED
    BY <1>1, <2>1, <2>2, <2>3
<1>4. QED
  BY <1>2, <1>3, TableIs

LEMMA CopyIsPut ==
  ASSUME NEW s \in MapState, NEW row, CopyRow(row), NEW raw \in U8
  PROVE  /\ ApplyEntry(s, row, raw) \in MapState
         /\ SameLatches(s, ApplyEntry(s, row, raw))
         /\ Cell(ApplyEntry(s, row, raw), row.cell) = raw
         /\ \A c \in Int \ {row.cell} : Cell(ApplyEntry(s, row, raw), c) = Cell(s, c)
         /\ DOMAIN ApplyEntry(s, row, raw).cells = DOMAIN s.cells \cup {row.cell}
<1>1. row.cell \in Int /\ row.cell \in U8
  BY DEF CopyRow, U8
<1>2. ApplyEntry(s, row, raw) = Put(s, row.cell, raw)
  BY DEF ApplyEntry, Transformed, Written, CopyRow
<1>3. QED
  BY <1>1, <1>2, PutIs

\* The rows that match a frame are copied, and nothing else happens.
CellsOf(d, places) == {Table(d)[j].cell : j \in places}

Copied(d, s, t, frame, places) ==
  /\ t \in MapState
  /\ SameLatches(s, t)
  /\ \A j \in places : Cell(t, Table(d)[j].cell) = Raw(Table(d)[j], frame.data)
  /\ \A c \in Int : (\A j \in places : Table(d)[j].cell # c) => Cell(t, c) = Cell(s, c)
  /\ DOMAIN t.cells \subseteq DOMAIN s.cells \cup CellsOf(d, places)

LEMMA RowsCopied ==
  ASSUME NEW d, NEW s \in MapState, NEW frame \in Frame, Accepts(d, frame),
         frame.opcode \in DOMAIN RunsOf
  PROVE  Copied(d, s, RowsApplied(d, s, frame), frame, Matched(d, frame))
<1> DEFINE n == Len(Table(d))
           M == Matched(d, frame)
           row(j) == Table(d)[j]
           raw(j) == Raw(Table(d)[j], frame.data)
<1>1. Fits(d, frame, n) /\ n \in Nat /\ M \subseteq 1 .. n
  BY MatchedAre DEF Fits
<1>2. \A j \in M : /\ CopyRow(row(j)) /\ raw(j) \in U8
                   /\ \A k \in M : row(j).cell = row(k).cell => raw(j) = raw(k)
  <2>1. d.profile \in DOMAIN Entries
    BY DEF Accepts
  <2>2. frame.opcode \in {\h10, \h11, \h52, \h58}
    BY DEF RunsOf
  <2>3. M \subseteq RowsOf(d, frame.opcode)
    BY DEF Matched
  <2>4. \A j \in M : raw(j) \in U8
    BY MatchedAre DEF RawFits
  <2>5. \A j \in M : j \in RowsOf(d, \h10)
    BY <2>1, <2>2, <2>3, CandidateRows
  <2>6. \A j, k \in M : row(j).cell = row(k).cell => row(j).coordinate = row(k).coordinate
    BY <2>1, <2>5, CandidateRows
  <2>7. \A j \in M : CopyRow(row(j))
    BY <2>1, <2>5, CandidateRows
  <2>8. \A j, k \in M : row(j).coordinate = row(k).coordinate => raw(j) = raw(k)
    BY <2>7 DEF Raw, Delta, CopyRow
  <2>9. QED
    BY <2>4, <2>6, <2>7, <2>8
<1>3. PICK f : Applies(f, d, s, frame, n) /\ RowsApplied(d, s, frame) = f[n]
  BY <1>1, RowsInOrder
<1> DEFINE upto(j) == {k \in M : k <= j}
           T == {j \in 0 .. n : Copied(d, s, f[j], frame, upto(j))}
<1>4. 0 \in T
  <2>1. Restarted(s, frame) = s
    BY DEF Restarted, RunsOf
  <2>2. f[0] = s
    BY <1>3, <2>1 DEF Applies
  <2>3. upto(0) = {}
    BY <1>1
  <2>4. Copied(d, s, s, frame, {})
    BY DEF Copied, SameLatches, CellsOf
  <2>5. Copied(d, s, f[0], frame, upto(0))
    <3> HIDE DEF upto
    <3>1. QED
      BY <2>2, <2>3, <2>4, Zenon
  <2>6. 0 \in 0 .. n
    BY <1>1
  <2> HIDE DEF upto
  <2>7. QED
    BY <2>5, <2>6, Zenon
<1>5. ASSUME NEW j \in 1 .. n, j - 1 \in T
      PROVE  j \in T
  <2> DEFINE t == f[j - 1]
  <2>1. Copied(d, s, t, frame, upto(j - 1))
    BY <1>5
  <2>2. CASE j \notin M
    <3>1. f[j] = t
      BY <1>3, <2>2 DEF Applies
    <3>2. upto(j) = upto(j - 1)
      BY <1>1, <2>2
    <3> HIDE DEF upto
    <3>3. QED
      BY <1>1, <2>1, <3>1, <3>2
  <2>3. CASE j \in M
    <3> DEFINE u == ApplyEntry(t, row(j), raw(j))
    <3>1. f[j] = u
      BY <1>3, <2>3 DEF Applies
    <3>2. upto(j) = upto(j - 1) \cup {j} /\ upto(j - 1) \subseteq M
      BY <1>1, <2>3
    <3> HIDE DEF upto, row, raw, t
    <3>3. CopyRow(row(j)) /\ raw(j) \in U8 /\ t \in MapState
      BY <1>2, <2>1, <2>3 DEF Copied
    <3>4. /\ u \in MapState /\ SameLatches(t, u) /\ Cell(u, row(j).cell) = raw(j)
          /\ \A c \in Int \ {row(j).cell} : Cell(u, c) = Cell(t, c)
          /\ DOMAIN u.cells = DOMAIN t.cells \cup {row(j).cell}
      BY <3>3, CopyIsPut
    <3> HIDE DEF u
    <3>5. \A k \in upto(j) : Cell(u, row(k).cell) = raw(k)
      <4>1. ASSUME NEW k \in upto(j - 1)
            PROVE  Cell(u, row(k).cell) = raw(k)
        <5>1. Cell(t, row(k).cell) = raw(k)
          BY <2>1 DEF Copied, row, raw
        <5>2. row(k).cell \in Int
          BY <1>2, <3>2 DEF CopyRow
        <5>3. CASE row(k).cell = row(j).cell
          BY <1>2, <2>3, <3>2, <3>4, <5>3
        <5>4. CASE row(k).cell # row(j).cell
          BY <3>4, <5>1, <5>2, <5>4
        <5>5. QED
          BY <5>3, <5>4
      <4>2. QED
        BY <3>2, <3>4, <4>1
    <3>6. \A c \in Int : (\A k \in upto(j) : row(k).cell # c) => Cell(u, c) = Cell(s, c)
      <4>1. \A c \in Int : (\A k \in upto(j - 1) : row(k).cell # c) => Cell(t, c) = Cell(s, c)
        BY <2>1 DEF Copied, row
      <4>2. QED
        BY <3>2, <3>4, <4>1
    <3>7. SameLatches(s, u)
      BY <2>1, <3>4 DEF Copied, SameLatches
    <3>8. DOMAIN u.cells \subseteq DOMAIN s.cells \cup {row(k).cell : k \in upto(j)}
      <4>1. DOMAIN t.cells \subseteq DOMAIN s.cells \cup {row(k).cell : k \in upto(j - 1)}
        BY <2>1 DEF Copied, CellsOf, row
      <4>2. QED
        BY <3>2, <3>4, <4>1
    <3>9. Copied(d, s, u, frame, upto(j))
      BY <3>4, <3>5, <3>6, <3>7, <3>8 DEF Copied, CellsOf, row, raw
    <3>10. QED
      BY <1>1, <3>1, <3>9
  <2>4. QED
    BY <2>2, <2>3
<1>6. n \in 0 .. n /\ 0 .. n \subseteq T
  <2> HIDE DEF T, n
  <2> QED
    BY <1>1, <1>4, <1>5, PlaceInduction
<1>7. upto(n) = M
  BY <1>1
<1>8. QED
  BY <1>3, <1>6, <1>7

\* Nor does the cleanup take any of it.
CleanedCells == {\h06, \h11, \h42, \h44}

LEMMA DecodedCopies ==
  ASSUME NEW d, NEW s \in MapState, NEW frame \in Frame, Accepts(d, frame),
         frame.opcode \in DOMAIN RunsOf
  PROVE  LET t == Decoded(d, s, frame)
             own == CellsOf(d, Matched(d, frame))
         IN  /\ t \in MapState /\ SameLatches(s, t)
             /\ \A j \in Matched(d, frame) : Cell(t, Table(d)[j].cell) = Raw(Table(d)[j], frame.data)
             /\ \A c \in Int \ (own \cup CleanedCells) : Cell(t, c) = Cell(s, c)
             /\ DOMAIN t.cells \subseteq DOMAIN s.cells \cup own \cup CleanedCells
<1> DEFINE r == RowsApplied(d, s, frame)
           t == Cleaned(d, r)
           own == CellsOf(d, Matched(d, frame))
<1>1. Copied(d, s, r, frame, Matched(d, frame))
  BY RowsCopied
<1>2. t = Decoded(d, s, frame)
  BY DEF Decoded
<1>3. r \in MapState
  BY <1>1 DEF Copied
<1> HIDE DEF r
<1>4. /\ t \in MapState /\ SameLatches(r, t)
      /\ \A c \in Int \ CleanedCells : Cell(t, c) = Cell(r, c)
      /\ DOMAIN t.cells \subseteq DOMAIN r.cells \cup CleanedCells
  BY <1>3, CleanedIs DEF CleanedCells
<1>5. \A j \in Matched(d, frame) : Table(d)[j].cell \in Int \ CleanedCells
  <2>1. d.profile \in DOMAIN Entries /\ frame.opcode \in {\h10, \h11, \h52, \h58}
    BY DEF Accepts, RunsOf
  <2>2. \A j \in Matched(d, frame) : j \in RowsOf(d, frame.opcode)
    BY DEF Matched
  <2>3. \A j \in Matched(d, frame) : CopyRow(Table(d)[j])
    BY <2>1, <2>2, CandidateRows
  <2>4. QED
    BY <2>3 DEF CopyRow, CleanedCells
<1> HIDE DEF t
<1>6. SameLatches(s, t)
  BY <1>1, <1>4 DEF Copied, SameLatches
<1>7. \A j \in Matched(d, frame) : Cell(t, Table(d)[j].cell) = Raw(Table(d)[j], frame.data)
  BY <1>1, <1>4, <1>5 DEF Copied
<1>8. \A c \in Int \ (own \cup CleanedCells) : Cell(t, c) = Cell(s, c)
  BY <1>1, <1>4 DEF Copied, CellsOf
<1>9. DOMAIN t.cells \subseteq DOMAIN s.cells \cup own \cup CleanedCells
  BY <1>1, <1>4 DEF Copied
<1>10. QED
  BY <1>2, <1>4, <1>6, <1>7, <1>8, <1>9
-----------------------------------------------------------------------------
(* What is heard.                                                          *)

LEMMA AcceptedIs ==
  ASSUME NEW o \in Observation, Accepted(o)
  PROVE  /\ decoder.profile \in DOMAIN Entries
         /\ FrameOf(o) \in Frame /\ FrameOf(o).opcode = o.opcode7 /\ FrameOf(o).data = o.data
         /\ Accepts(decoder, FrameOf(o))
         /\ o.iface = Selected /\ Identified(o) /\ o.opcode7 \in DOMAIN RunsOf
         /\ Len(o.data) \in 1 .. 8 /\ o.data \in Seq(U8)
         /\ UpdatesOf(o.opcode7, o.data) # {}
<1>1. o.opcode7 \in U8 /\ o.data \in Seq(U8)
  BY DEF Observation, U7, U8
<1>2. QED
  BY <1>1 DEF Accepted, Admits, Accepts, Identified, FrameOf, Frame

LEMMA Rows10Are ==
  ASSUME decoder.profile \in DOMAIN Entries
  PROVE  /\ Rows10 = {Table(decoder)[j] : j \in RowsOf(decoder, \h10)}
         /\ \A row \in Rows10 : CopyRow(row)
         /\ \A r, t \in Rows10 : r.cell = t.cell <=> r.coordinate = t.coordinate
         /\ \E row \in Rows10 : row.coordinate = 5
<1>1. RowsOf(decoder, \h10) = {j \in DOMAIN Table(decoder) : Table(decoder)[j].opcode = \h10}
  <2>1. \h10 \in U8
    BY DEF U8
  <2>2. QED
    BY <2>1, TableIs
<1>2. Rows10 = {Table(decoder)[j] : j \in RowsOf(decoder, \h10)}
  BY <1>1 DEF Rows10, Table
<1>3. QED
  BY <1>1, <1>2, CandidateRows, PairHasRow

\* The coordinates spoken for are those of the rows that match.
LEMMA SpokenAre ==
  ASSUME NEW o \in Observation, Accepted(o)
  PROVE  LET M == Matched(decoder, FrameOf(o))
         IN  /\ Spoken(o) = {Table(decoder)[j].coordinate : j \in M}
             /\ \A j \in M : /\ Table(decoder)[j] \in Rows10
                             /\ Raw(Table(decoder)[j], o.data)
                                  = o.data[Table(decoder)[j].coordinate - o.data[1] + 2]
                             /\ Raw(Table(decoder)[j], o.data) \in U8
<1> DEFINE M == Matched(decoder, FrameOf(o))
           start == o.data[1]
<1>1. /\ decoder.profile \in DOMAIN Entries /\ FrameOf(o) \in Frame
      /\ FrameOf(o).opcode = o.opcode7 /\ FrameOf(o).data = o.data
      /\ Accepts(decoder, FrameOf(o)) /\ o.iface = Selected
      /\ o.opcode7 \in {\h10, \h11, \h52, \h58}
  BY AcceptedIs DEF RunsOf
<1>2. M = {j \in RowsOf(decoder, o.opcode7) : Covers(o.data, Table(decoder)[j])}
  BY <1>1 DEF Matched
<1>3. CASE o.opcode7 # \h10
  <2>1. M = {}
    BY <1>1, <1>2, <1>3, CandidateRows
  <2>2. Spoken(o) = {}
    BY <1>3 DEF Spoken
  <2>3. QED
    BY <2>1, <2>2
<1>4. CASE o.opcode7 = \h10
  <2>1. /\ Rows10 = {Table(decoder)[j] : j \in RowsOf(decoder, \h10)}
        /\ \A row \in Rows10 : CopyRow(row)
    BY <1>1, Rows10Are
  <2>2. start \in Nat /\ Len(o.data) \in 1 .. 8
    BY StartIs, AcceptedIs
  <2>3. \A row \in Rows10 : /\ row.coordinate \in Int
                            /\ Delta(row, o.data) = row.coordinate - start
                            /\ Covers(o.data, row) <=>
                                 row.coordinate >= start
                                 /\ Delta(row, o.data) < 1 * (Len(o.data) - 1)
                            /\ Raw(row, o.data) = o.data[2 + Delta(row, o.data)]
    <3>1. \A row \in Rows10 : row.coordinate \in Int /\ row.kind = "u8"
      BY <2>1 DEF CopyRow
    <3>2. \A row \in Rows10 : Delta(row, o.data) = row.coordinate - start
      BY DEF Delta
    <3>3. \A row \in Rows10 : Covers(o.data, row) <=>
                              row.coordinate >= start
                              /\ Delta(row, o.data) < 1 * (Len(o.data) - 1)
      BY <3>1 DEF Covers
    <3>4. \A row \in Rows10 : Raw(row, o.data) = o.data[2 + Delta(row, o.data)]
      BY <3>1 DEF Raw
    <3> HIDE DEF start
    <3>5. QED
      BY <3>1, <3>2, <3>3, <3>4
  <2> HIDE DEF start
  <2>4. \A row \in Rows10 : /\ Covers(o.data, row) <=> row.coordinate - start \in 0 .. Len(o.data) - 2
                            /\ 2 + Delta(row, o.data) = row.coordinate - start + 2
    BY <2>2, <2>3
  <2>5. Spoken(o) = {row.coordinate : row \in {row \in Rows10 : Covers(o.data, row)}}
    <3>1. Spoken(o) = {row.coordinate : row \in {row \in Rows10 :
                          row.coordinate - start \in 0 .. Len(o.data) - 2}}
      BY <1>1, <1>4 DEF Spoken, start
    <3>2. {row \in Rows10 : row.coordinate - start \in 0 .. Len(o.data) - 2}
            = {row \in Rows10 : Covers(o.data, row)}
      BY <2>4
    <3>3. QED
      BY <3>1, <3>2
  <2>6. Spoken(o) = {Table(decoder)[j].coordinate : j \in M}
    BY <1>2, <1>4, <2>1, <2>5
  <2>7. \A j \in M : Table(decoder)[j] \in Rows10
    BY <1>2, <1>4, <2>1
  <2>8. \A j \in M : Raw(Table(decoder)[j], o.data)
                       = o.data[Table(decoder)[j].coordinate - start + 2]
    BY <2>3, <2>4, <2>7
  <2>9. \A j \in M : Raw(Table(decoder)[j], o.data) \in U8
    BY <1>1, MatchedAre DEF RawFits
  <2>10. QED
    BY <2>6, <2>7, <2>8, <2>9 DEF start
<1>5. QED
  BY <1>3, <1>4

\* A frame is accepted for what it publishes, so that it has the pair if it has any row.
LEMMA SpokenTogether ==
  ASSUME NEW o \in Observation, Accepted(o), Spoken(o) # {}
  PROVE  5 \in Spoken(o)
<1> DEFINE start == o.data[1]
           n == Len(o.data)
<1>1. decoder.profile \in DOMAIN Entries /\ o.opcode7 = \h10 /\ o.iface = Selected
  BY AcceptedIs DEF Spoken
<1>2. start \in Nat /\ n \in 1 .. 8
  BY StartIs, AcceptedIs
<1>3. PICK row \in Rows10 : row.coordinate - start \in 0 .. n - 2
  BY DEF Spoken
<1>4. row.coordinate \in 2 .. 6
  BY <1>1, Rows10Are DEF CopyRow
<1>5. PICK run \in RunsOf[o.opcode7] : Whole(o.opcode7, o.data, run)
  BY AcceptedIs DEF UpdatesOf
<1>6. \A c \in Int : Covered(o.opcode7, o.data, c) <=> c >= start /\ (c - start) \div 1 + 2 <= n
  BY <1>1 DEF Covered, Index, PerByte
<1> HIDE DEF start, n
<1>7. \A c \in Int : Covered(o.opcode7, o.data, c) <=> c - start \in 0 .. n - 2
  BY <1>2, <1>6
<1>8. run = Run(\h05, \h0f, 2) \/ run = Run(\h20, \h11, 1)
  BY <1>1, <1>5 DEF RunsOf
<1>9. run.coordinate \in {5, 32} /\ 0 \in 0 .. run.n - 1
  BY <1>8 DEF Run
<1>10. run.coordinate - start \in 0 .. n - 2
  BY <1>5, <1>7, <1>9 DEF Whole
<1>11. 5 - start \in 0 .. n - 2
  BY <1>2, <1>3, <1>4, <1>9, <1>10
<1>12. PICK pair \in Rows10 : pair.coordinate = 5
  BY <1>1, Rows10Are
<1>13. QED
  BY <1>1, <1>11, <1>12 DEF Spoken, start, n
-----------------------------------------------------------------------------
(* The invariant: the variables of the latest observation are what the      *)
(* candidate makes of it, and the state is a copy of what was heard.       *)

HeardLast ==
  Accepted(observed) =>
    \A c \in Spoken(observed) :
      c \in DOMAIN heard /\ heard[c] = observed.data[c - observed.data[1] + 2]

ReplayInv ==
  /\ decoder.profile \in DOMAIN Entries
  /\ observed \in Observation
  /\ updates = IF Accepted(observed) THEN UpdatesOf(observed.opcode7, observed.data) ELSE {}
  /\ latest = [frame |-> FrameOf(observed), accepted |-> Accepted(observed)]
  /\ state \in MapState
  /\ HeardLast
  /\ StateIsCopied

LEMMA ReplayInitially == ReplayInit => ReplayInv
<1> SUFFICES ASSUME ReplayInit
             PROVE  ReplayInv
  OBVIOUS
<1>1. /\ decoder.profile \in DOMAIN Entries /\ observed = NoObservation
      /\ updates = {} /\ heard = [c \in {} |-> 0] /\ state = Nothing
      /\ latest = [frame |-> [opcode |-> 0, data |-> <<>>], accepted |-> FALSE]
  BY DEF ReplayInit, Init, Nothing
<1>2. observed \in Observation
  <2>1. Selected \in Interfaces /\ <<>> \in Seq(U8) /\ 0 \in U8 /\ 0 \in U7
    BY ReplayAssumption DEF U8, U7
  <2>2. QED
    BY <1>1, <2>1 DEF NoObservation, Observation
<1>3. Accepted(observed) = FALSE
  BY <1>1 DEF Accepted, Admits, NoObservation
<1>4. FrameOf(observed) = [opcode |-> 0, data |-> <<>>]
  BY <1>1 DEF FrameOf, NoObservation
<1>5. /\ ~state.errorLatch /\ ~state.modeLatch /\ \A k \in 1 .. SlotCount : state.slotFlags[k] = 0
      /\ DOMAIN state.cells = {} /\ state \in MapState
  BY <1>1, NothingIsGood DEF Nothing
<1>6. DOMAIN heard = {}
  BY <1>1
<1>7. StateIsCopied
  BY <1>5, <1>6 DEF StateIsCopied
<1>8. QED
  BY <1>1, <1>2, <1>3, <1>4, <1>5, <1>7 DEF ReplayInv, HeardLast

LEMMA CopiedStep ==
  ASSUME ReplayInv, NEW o \in Observation, Accepted(o), Apply(FrameOf(o)),
         heard' = [c \in Spoken(o) \cup DOMAIN heard |->
                     IF c \in Spoken(o) THEN o.data[c - o.data[1] + 2] ELSE heard[c]]
  PROVE  StateIsCopied' /\ state' \in MapState
<1> DEFINE d == decoder
           frame == FrameOf(o)
           M == Matched(d, frame)
           own == CellsOf(d, M)
           said(c) == o.data[c - o.data[1] + 2]
<1>1. /\ d.profile \in DOMAIN Entries /\ frame \in Frame /\ Accepts(d, frame)
      /\ frame.opcode \in DOMAIN RunsOf /\ frame.data = o.data
  BY AcceptedIs
<1>2. state' = Decoded(d, state, frame) /\ decoder' = decoder
  BY <1>1 DEF Apply
<1>3. /\ state' \in MapState /\ SameLatches(state, state')
      /\ \A j \in M : Cell(state', Table(d)[j].cell) = Raw(Table(d)[j], o.data)
      /\ \A c \in Int \ (own \cup CleanedCells) : Cell(state', c) = Cell(state, c)
      /\ DOMAIN state'.cells \subseteq DOMAIN state.cells \cup own \cup CleanedCells
  <2>1. state \in MapState
    BY DEF ReplayInv
  <2> DEFINE t == Decoded(d, state, frame)
  <2> HIDE DEF frame, d
  <2>2. /\ t \in MapState /\ SameLatches(state, t)
        /\ \A j \in M : Cell(t, Table(d)[j].cell) = Raw(Table(d)[j], frame.data)
        /\ \A c \in Int \ (own \cup CleanedCells) : Cell(t, c) = Cell(state, c)
        /\ DOMAIN t.cells \subseteq DOMAIN state.cells \cup own \cup CleanedCells
    BY <1>1, <2>1, DecodedCopies
  <2>3. state' = t
    BY <1>2
  <2> HIDE DEF t, own, M
  <2>4. QED
    BY <1>1, <2>2, <2>3
<1>4. /\ Spoken(o) = {Table(d)[j].coordinate : j \in M}
      /\ \A j \in M : Table(d)[j] \in Rows10
                      /\ Raw(Table(d)[j], o.data) = said(Table(d)[j].coordinate)
  BY SpokenAre, <1>1
<1>5. /\ \A row \in Rows10 : row.cell \in Int \ CleanedCells
      /\ \A r, t \in Rows10 : r.cell = t.cell <=> r.coordinate = t.coordinate
  BY <1>1, Rows10Are DEF CopyRow, CleanedCells
<1>6. /\ DOMAIN heard' = Spoken(o) \cup DOMAIN heard
      /\ \A c \in Spoken(o) : heard'[c] = said(c)
      /\ \A c \in DOMAIN heard \ Spoken(o) : heard'[c] = heard[c]
  OBVIOUS
<1>7. Rows10' = Rows10
  BY <1>2 DEF Rows10
<1> HIDE DEF d, frame, M, said
<1> DEFINE reached == {row \in Rows10 : row.coordinate \in DOMAIN heard}
           reachable == {row \in Rows10 : row.coordinate \in DOMAIN heard'}
<1>8. /\ ~state.errorLatch /\ ~state.modeLatch
      /\ \A k \in 1 .. SlotCount : state.slotFlags[k] = 0
      /\ \A r \in reached : Cell(state, r.cell) = heard[r.coordinate]
      /\ DOMAIN state.cells \subseteq {r.cell : r \in reached} \cup CleanedCells
      /\ reached # {} => 5 \in DOMAIN heard
  BY DEF ReplayInv, StateIsCopied, CleanedCells
<1>9. ASSUME NEW r \in reachable
      PROVE  Cell(state', r.cell) = heard'[r.coordinate]
  <2>1. CASE r.coordinate \in Spoken(o)
    <3>1. PICK j \in M : Table(d)[j].coordinate = r.coordinate
      BY <1>4, <2>1
    <3>2. Table(d)[j].cell = r.cell
      BY <1>4, <1>5, <3>1
    <3>3. Cell(state', r.cell) = Raw(Table(d)[j], o.data)
      BY <1>3, <3>2
    <3>4. Raw(Table(d)[j], o.data) = said(r.coordinate)
      BY <1>4, <3>1
    <3>5. QED
      BY <1>6, <2>1, <3>3, <3>4
  <2>2. CASE r.coordinate \notin Spoken(o)
    <3>1. r \in reached /\ heard'[r.coordinate] = heard[r.coordinate]
      BY <1>6, <2>2
    <3>2. r.cell \notin own
      BY <1>4, <1>5, <2>2 DEF CellsOf
    <3>3. r.cell \in Int \ (own \cup CleanedCells)
      BY <1>5, <3>2
    <3>4. QED
      BY <1>3, <1>8, <3>1, <3>3
  <2>3. QED
    BY <2>1, <2>2
<1>10. DOMAIN state'.cells \subseteq {r.cell : r \in reachable} \cup CleanedCells
  <2>1. reached \subseteq reachable
    BY <1>6
  <2>2. own \subseteq {r.cell : r \in reachable}
    <3>1. \A j \in M : Table(d)[j] \in reachable
      BY <1>4, <1>6
    <3>2. QED
      BY <3>1 DEF CellsOf
  <2> HIDE DEF own, reached, reachable
  <2>3. QED
    BY <1>3, <1>8, <2>1, <2>2
<1>11. reachable # {} => 5 \in DOMAIN heard'
  <2>1. CASE Spoken(o) # {}
    BY <1>6, <2>1, SpokenTogether
  <2>2. CASE Spoken(o) = {}
    BY <1>6, <1>8, <2>2
  <2>3. QED
    BY <2>1, <2>2
<1>12. ~state'.errorLatch /\ ~state'.modeLatch /\ \A k \in 1 .. SlotCount : state'.slotFlags[k] = 0
  BY <1>3, <1>8 DEF SameLatches
<1>13. QED
  BY <1>3, <1>7, <1>9, <1>10, <1>11, <1>12 DEF StateIsCopied, CleanedCells

LEMMA ReplayStep ==
  ASSUME ReplayInv, [ReplayNext]_replayVars
  PROVE  ReplayInv'
<1>1. CASE UNCHANGED replayVars
  BY <1>1 DEF ReplayInv, HeardLast, StateIsCopied, Accepted, Spoken, Rows10, replayVars, vars
<1>2. ASSUME NEW o \in Observations, ReplayApply(o)
      PROVE  ReplayInv'
  <2>1. o \in Observation /\ observed' = o
    BY <1>2, ReplayAssumption DEF ReplayApply
  <2>2. CASE Accepted(o)
    <3>1. /\ Apply(FrameOf(o)) /\ updates' = UpdatesOf(o.opcode7, o.data)
          /\ heard' = [c \in Spoken(o) \cup DOMAIN heard |->
                         IF c \in Spoken(o) THEN o.data[c - o.data[1] + 2] ELSE heard[c]]
      BY <1>2, <2>2 DEF ReplayApply
    <3>2. StateIsCopied' /\ state' \in MapState
      BY <2>1, <2>2, <3>1, CopiedStep
    <3>3. /\ decoder' = decoder /\ Accepts(decoder, FrameOf(o))
          /\ latest' = [frame |-> FrameOf(o), accepted |-> Accepts(decoder, FrameOf(o))]
      BY <2>2, <3>1 DEF Apply, Accepted
    <3>4. Accepted(observed)' = TRUE
      BY <2>1, <2>2, <3>3 DEF Accepted
    <3>5. Spoken(observed)' = Spoken(o)
      BY <2>1, <3>3 DEF Spoken, Rows10
    <3>6. HeardLast'
      <4>1. \A c \in Spoken(o) : c \in DOMAIN heard' /\ heard'[c] = o.data[c - o.data[1] + 2]
        BY <3>1
      <4>2. QED
        BY <2>1, <3>5, <4>1 DEF HeardLast
    <3>7. FrameOf(observed)' = FrameOf(o)
      BY <2>1 DEF FrameOf
    <3>8. QED
      BY <2>1, <3>1, <3>2, <3>3, <3>4, <3>6, <3>7 DEF ReplayInv
  <2>3. CASE ~Accepted(o)
    <3>1. /\ latest' = [frame |-> FrameOf(o), accepted |-> FALSE] /\ updates' = {}
          /\ UNCHANGED <<decoder, state, heard>>
      BY <1>2, <2>3 DEF ReplayApply
    <3>2. Accepted(observed)' = FALSE
      BY <2>1, <2>3, <3>1 DEF Accepted
    <3>3. StateIsCopied'
      BY <3>1 DEF ReplayInv, StateIsCopied, Rows10
    <3>4. FrameOf(observed)' = FrameOf(o)
      BY <2>1 DEF FrameOf
    <3>5. QED
      BY <2>1, <3>1, <3>2, <3>3, <3>4 DEF ReplayInv, HeardLast
  <2>4. QED
    BY <2>2, <2>3
<1>3. QED
  BY <1>1, <1>2 DEF ReplayNext

LEMMA ReplayInvariant == ReplaySpec => []ReplayInv
BY ReplayInitially, ReplayStep, PTL DEF ReplaySpec

\* Whatever the bus presents, the replayed state is a copy of what was heard.
THEOREM Copies == ReplaySpec => []StateIsCopied
<1>1. ReplayInv => StateIsCopied
  BY DEF ReplayInv
<1>2. QED
  BY <1>1, ReplayInvariant, PTL

\* What is published is what the bytes say, for every observation.
THEOREM UpdatesAreCovered == ReplaySpec => []UpdatesMatchCoverage
<1>1. ReplayInv => UpdatesMatchCoverage
  <2> SUFFICES ASSUME ReplayInv
               PROVE  UpdatesMatchCoverage
    OBVIOUS
  <2> DEFINE o == observed
  <2> SUFFICES ASSUME o.iface = Selected, o.extended, o.exact, Identified(o), Len(o.data) \in 1 .. 8
               PROVE  updates = UpdatesOf(o.opcode7, o.data)
    <3>1. o \in Observation
      BY DEF ReplayInv
    <3>2. Identified(o) => o.opcode7 \in DOMAIN RunsOf
      BY DEF Identified
    <3>3. QED
      BY <3>1, <3>2, PublishedIs DEF UpdatesMatchCoverage
  <2>1. o \in Observation /\ o.opcode7 \in DOMAIN RunsOf /\ decoder.profile \in DOMAIN Entries
    BY DEF ReplayInv, Identified
  <2>2. CASE UpdatesOf(o.opcode7, o.data) = {}
    BY <2>2 DEF ReplayInv
  <2>3. CASE UpdatesOf(o.opcode7, o.data) # {}
    <3>1. SpanValid(o.opcode7, o.data)
      BY <2>1, <2>3, NothingPastTheSpan
    <3>2. Admits(o)
      BY <2>3, <3>1, ReplayAssumption DEF Admits
    <3>3. Accepts(decoder, FrameOf(o))
      <4>1. FrameOf(o).opcode \in {\h10, \h11, \h52, \h58} /\ FrameOf(o).data = o.data
        BY <2>1 DEF FrameOf, RunsOf
      <4>2. \A j \in RowsOf(decoder, FrameOf(o).opcode) : Table(decoder)[j].kind # "u16"
        BY <2>1, <4>1, CandidateRows DEF CopyRow
      <4>3. QED
        BY <2>1, <4>1, <4>2 DEF Accepts
    <3>4. Accepted(o)
      BY <3>2, <3>3 DEF Accepted
    <3>5. QED
      BY <3>4 DEF ReplayInv
  <2>4. QED
    BY <2>2, <2>3
<1>2. QED
  BY <1>1, ReplayInvariant, PTL

\* Candidate and map show the same value for every coordinate that both know.
THEOREM ViewsAgree == ReplaySpec => []TwoViewsAgree
<1>1. ReplayInv => TwoViewsAgree
  <2> SUFFICES ASSUME ReplayInv,
                      NEW run \in RunsOf[\h10], NEW k \in 0 .. 1, NEW row \in Rows10,
                      NEW u \in updates,
                      latest.accepted, latest.frame.opcode = \h10,
                      k < run.n, u.cell = run.cell + k, row.coordinate = run.coordinate + k
               PROVE  Cell(state, row.cell) = u.value
    BY DEF TwoViewsAgree
  <2> DEFINE o == observed
             start == o.data[1]
             c == row.coordinate
  <2>1. /\ o \in Observation /\ Accepted(o) /\ o.opcode7 = \h10
        /\ updates = UpdatesOf(o.opcode7, o.data)
    BY DEF ReplayInv, FrameOf
  <2>2. /\ decoder.profile \in DOMAIN Entries /\ o.iface = Selected
        /\ start \in Nat /\ Len(o.data) \in 1 .. 8
    BY <2>1, AcceptedIs, StartIs
  <2>3. PICK other \in RunsOf[\h10], i \in Int :
               /\ i \in 0 .. other.n - 1
               /\ Whole(o.opcode7, o.data, other)
               /\ u = [cell |-> other.cell + i,
                       value |-> Value(o.opcode7, o.data, other.coordinate + i)]
    BY <2>1 DEF UpdatesOf
  <2>4. other.coordinate + i = c
    <3>1. \A r \in RunsOf[\h10] : r = Run(\h05, \h0f, 2) \/ r = Run(\h20, \h11, 1)
      BY DEF RunsOf
    <3>2. \A r \in RunsOf[\h10] : \/ r.coordinate = 5 /\ r.cell = 15 /\ r.n = 2
                                  \/ r.coordinate = 32 /\ r.cell = 17 /\ r.n = 1
      BY <3>1 DEF Run
    <3>3. u.cell = other.cell + i /\ i \in 0 .. other.n - 1
      BY <2>3
    <3> HIDE DEF c
    <3>4. QED
      BY <3>2, <3>3 DEF c
  <2>5. Covered(\h10, o.data, c) /\ u.value = Value(\h10, o.data, c)
    BY <2>1, <2>3, <2>4 DEF Whole
  <2>6. c \in Int
    BY <2>2, Rows10Are DEF CopyRow
  <2>7. c >= start /\ (c - start) \div 1 + 2 <= Len(o.data)
    BY <2>5 DEF Covered, Index, PerByte
  <2>8. u.value = o.data[(c - start) \div 1 + 2]
    BY <2>5 DEF Value, Index, PerByte
  <2>9. c \in Spoken(o)
    <3>1. c - start \in 0 .. Len(o.data) - 2
      <4> HIDE DEF c, start
      <4> QED
        BY <2>2, <2>6, <2>7
    <3>2. QED
      BY <2>1, <2>2, <3>1 DEF Spoken
  <2>10. (c - start) \div 1 = c - start
    <3> HIDE DEF c, start
    <3> QED
      BY <2>2, <2>6
  <2>11. c \in DOMAIN heard /\ heard[c] = o.data[c - start + 2]
    BY <2>1, <2>9 DEF ReplayInv, HeardLast
  <2>12. Cell(state, row.cell) = heard[c]
    BY <2>11 DEF ReplayInv, StateIsCopied
  <2>13. QED
    BY <2>8, <2>10, <2>11, <2>12
<1>2. QED
  BY <1>1, ReplayInvariant, PTL
=============================================================================
