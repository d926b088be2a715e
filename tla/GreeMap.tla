------------------------------- MODULE GreeMap -------------------------------
(***************************************************************************)
(* The Gree VRF map decoder: a caller threads a state of cells, slot flags *)
(* and two latches through one Apply per received frame.  A decoder is     *)
(* fixed by its map profile and product; here it is chosen once, together  *)
(* with the traffic that reaches it.                                       *)
(***************************************************************************)
EXTENDS GreeMapRows

CONSTANTS
  Decoders,   \* [profile, productID, traffic] records
  Traffic,    \* the frames of each traffic, by its name
  SlotCount   \* 100 in the code

Frame == [opcode : U8, data : Seq(U8)]

ASSUME MapAssumption ==
  /\ SlotCount \in Nat
  /\ \A d \in Decoders : Traffic[d.traffic] \subseteq Frame

VARIABLES
  decoder,
  state,     \* GreeVRFMapState; a cell that was never written is not in cells
  latest,    \* the latest frame, and whether Apply accepted it
  uncleaned  \* history: the state, had the product never been cleaned up after

vars == <<decoder, state, latest, uncleaned>>
-----------------------------------------------------------------------------
(* Cells.                                                                  *)

\* A missing cell reads zero, and so does an index outside of uint8.
Cell(s, c) == IF c \in DOMAIN s.cells THEN s.cells[c] ELSE 0

\* A write outside of uint8 is dropped.
Put(s, c, value) ==
  IF c \in U8
  THEN [s EXCEPT !.cells = [k \in DOMAIN s.cells \cup {c} |->
                              IF k = c THEN value ELSE s.cells[k]]]
  ELSE s

\* Slip: a bit is added to a byte that may hold it already.
WithBit_Adds(byte, k, value) == byte + value * 2 ^ k

\* Slip: a zero does not clear the bit.
WithBit_NoClear(byte, k, value) == byte + (IF BitOf(byte, k) = 1 THEN 0 ELSE value * 2 ^ k)

WithBit(byte, k, value) == byte + (value - BitOf(byte, k)) * 2 ^ k
-----------------------------------------------------------------------------
(* Which rows a frame covers, and what they read from it.  The first data  *)
(* byte is the coordinate of the second; a bit row counts coordinates in   *)
(* bits and a byte row in bytes.                                           *)

Delta(row, data) == row.coordinate - data[1]

Covers(data, row) ==
  /\ row.coordinate >= data[1]
  /\ Delta(row, data) < (IF row.kind = "bit" THEN 8 ELSE 1) * (Len(data) - 1)

Raw(row, data) ==
  IF row.kind = "bit"
  THEN BitOf(data[2 + Delta(row, data) \div 8], Delta(row, data) % 8)
  ELSE data[2 + Delta(row, data)]

Entries == [profile \in {"M94", "M115"} |-> IF profile = "M94" THEN M94Entries ELSE M115Entries]

Table(d) == Entries[d.profile]

\* The places in the table of the rows of an opcode.
RowsBy == [profile \in DOMAIN Entries |-> [opcode \in U8 |->
             {j \in DOMAIN Entries[profile] : Entries[profile][j].opcode = opcode}]]

RowsOf(d, opcode) == RowsBy[d.profile][opcode]

Matched(d, frame) == {j \in RowsOf(d, frame.opcode) : Covers(frame.data, Table(d)[j])}

\* The structural gates; a word row refuses the whole frame, covered or not.
Accepts(d, frame) ==
  /\ d.profile \in DOMAIN Entries
  /\ Len(frame.data) \in 1 .. 8
  /\ \A j \in RowsOf(d, frame.opcode) :
       Table(d)[j].kind = "u16" => frame.data[1] % 2 = 0
-----------------------------------------------------------------------------
(* Transforms, each on a state to which the raw value is already written.  *)

SwingValue == [raw \in 1 .. 2 |-> raw - 1]
ModeRange == [raw \in 1 .. 4 |-> IF raw = 1 THEN 0 ELSE 1]
ModeValue == [raw \in 1 .. 6 |-> IF raw = 1 THEN 7 ELSE raw - 1]

\* Slip: values up to the end of the remapped range are not remapped.
Remapped_OpenRange(s, c, table, raw) ==
  IF raw \in DOMAIN table /\ raw + 1 \in DOMAIN table THEN Put(s, c, table[raw]) ELSE s

Remapped(s, c, table, raw) == IF raw \in DOMAIN table THEN Put(s, c, table[raw]) ELSE s

\* The cell was just cleared in bit 0, so that incrementing sets that bit again.
ErrorLatchFinalized(s, c, raw) ==
  IF raw # 0 THEN [s EXCEPT !.errorLatch = FALSE]
  ELSE IF s.errorLatch THEN Put(s, c, (Cell(s, c) + 1) % 256)
  ELSE s

\* A coupled cell that is set overrides the mode; modes 5 and 6 set it.
RunModeCoupled(s, c, raw) ==
  LET forced == IF Cell(s, c + 3) # 0 THEN Put(s, c, 5) ELSE s
  IN  IF raw \in {5, 6} THEN Put(forced, c + 3, 1) ELSE forced

\* Slip: the latch stays set.
ModeLatchUpdated_Sticky(s, c, raw) ==
  IF raw = 1 THEN [Put(s, c, 7) EXCEPT !.modeLatch = TRUE] ELSE s

ModeLatchUpdated(s, c, raw) ==
  IF raw = 1 THEN [Put(s, c, 7) EXCEPT !.modeLatch = TRUE]
  ELSE [s EXCEPT !.modeLatch = FALSE]

\* Slip: the loop over the slots ends one early.
AllSlots_OneShort(s, value) ==
  [s EXCEPT !.slotFlags = [k \in DOMAIN @ |-> IF k = SlotCount THEN @[k] ELSE value]]

AllSlots(s, value) == [s EXCEPT !.slotFlags = [k \in DOMAIN @ |-> value]]

SlotFlagsUpdated(s, c, raw) ==
  IF Cell(s, c + 19) # 0 THEN Put(s, c + 17, 2)
  ELSE IF Cell(s, c - 4) = 0 THEN s
  ELSE IF raw \in {1, 2, 5} THEN AllSlots(s, 0)
  ELSE IF raw \in {4, 6} THEN AllSlots(s, 1)
  ELSE s

\* Slip: the coupled cell does not force the mode.
ModeValueForced_Alone(s, c, raw) == Remapped(s, c, ModeValue, raw)

ModeValueForced(s, c, raw) ==
  IF Cell(s, c - 3) # 0 THEN Put(s, c, 6) ELSE Remapped(s, c, ModeValue, raw)

Transformed(s, row, raw) ==
  LET c == row.cell
  IN  CASE row.transform = "none" -> s
        [] row.transform = "boolean_to_magic_aa55" ->
             Put(s, c, IF raw = 1 THEN \haa ELSE \h55)
        [] row.transform = "swing_value_remap" -> Remapped(s, c, SwingValue, raw)
        [] row.transform = "mode_range_to_boolean" -> Remapped(s, c, ModeRange, raw)
        [] row.transform = "nonzero_boolean_with_one_cleared" ->
             Put(s, c, IF raw > 1 THEN 1 ELSE 0)
        [] row.transform = "aggregate_error_latch_part" ->
             [s EXCEPT !.errorLatch = @ \/ raw = 1]
        [] row.transform = "aggregate_error_latch_finalize" -> ErrorLatchFinalized(s, c, raw)
        [] row.transform = "run_mode_coupled_remap" -> RunModeCoupled(s, c, raw)
        [] row.transform = "global_mode_latch_update" -> ModeLatchUpdated(s, c, raw)
        [] row.transform = "mode_updates_all_100_slot_flags" -> SlotFlagsUpdated(s, c, raw)
        [] row.transform = "global_mode_latch_projection" ->
             IF s.modeLatch THEN Put(s, c, 7) ELSE s
        [] row.transform = "coupled_state_remap" ->
             IF Cell(s, c) = 1 THEN Put(s, c + 3, 6) ELSE s
        [] row.transform = "mode_value_remap" -> ModeValueForced(s, c, raw)

Written(s, row, raw) ==
  Put(s, row.cell, IF row.kind = "bit" THEN WithBit(Cell(s, row.cell), row.bit, raw) ELSE raw)

\* greeVRFApplyEntry.
ApplyEntry(s, row, raw) == Transformed(Written(s, row, raw), row, raw)
-----------------------------------------------------------------------------
(* Apply.                                                                  *)

\* Slip: the error latch is never reset.
Restarted_Never(s, frame) == s

\* A frame that starts at 0x3d00 resets the error latch, whatever the profile.
Restarted(s, frame) ==
  IF frame.opcode = \h3d /\ frame.data[1] = 0 THEN [s EXCEPT !.errorLatch = FALSE] ELSE s

CleanedProducts == {\h6098, \h60a4}
Cleans(d) == d.profile = "M115" /\ d.productID \in CleanedProducts

\* Slip: the cleanup takes the whole of a cell that it shares.
Cleaned_WholeCell(d, s) ==
  IF Cleans(d) THEN Put(Put(Put(Put(s, \h06, 0), \h11, 0), \h42, 0), \h44, 0) ELSE s

\* The cleanup of two products, whether or not a row matched.
Cleaned(d, s) ==
  IF Cleans(d)
  THEN Put(Put(Put(Put(s, \h06, 0), \h11, 0), \h42, WithBit(Cell(s, \h42), 1, 0)), \h44, 0)
  ELSE s

Last(places) == CHOOSE j \in places : \A k \in places : k <= j

\* The state at place 0 is the one before the first row.
RowsApplied(d, s, frame) ==
  LET places == Matched(d, frame) \cup {0}
      after[j \in places] ==
        IF j = 0 THEN Restarted(s, frame)
        ELSE ApplyEntry(after[Last({k \in places : k < j})],
                        Table(d)[j], Raw(Table(d)[j], frame.data))
  IN  after[Last(places)]

Decoded(d, s, frame) == Cleaned(d, RowsApplied(d, s, frame))

Init ==
  /\ decoder \in Decoders
  /\ state = [cells |-> [c \in {} |-> 0], slotFlags |-> [k \in 1 .. SlotCount |-> 0],
              errorLatch |-> FALSE, modeLatch |-> FALSE]
  /\ uncleaned = state
  /\ latest = [frame |-> [opcode |-> 0, data |-> <<>>], accepted |-> FALSE]

Apply(frame) ==
  /\ latest' = [frame |-> frame, accepted |-> Accepts(decoder, frame)]
  /\ IF Accepts(decoder, frame)
     THEN /\ state' = Decoded(decoder, state, frame)
          /\ uncleaned' = RowsApplied(decoder, uncleaned, frame)
     ELSE UNCHANGED <<state, uncleaned>>
  /\ UNCHANGED decoder

Next == \E frame \in Traffic[decoder.traffic] : Apply(frame)

Spec == Init /\ [][Next]_vars
-----------------------------------------------------------------------------
(* Properties.                                                             *)

TypeOK ==
  /\ decoder \in Decoders
  /\ DOMAIN state = {"cells", "slotFlags", "errorLatch", "modeLatch"}
  /\ DOMAIN state.cells \subseteq U8
  /\ \A c \in DOMAIN state.cells : state.cells[c] \in U8
  /\ state.slotFlags \in [1 .. SlotCount -> U8]
  /\ state.errorLatch \in BOOLEAN /\ state.modeLatch \in BOOLEAN
  /\ latest.frame.opcode \in U8 /\ latest.accepted \in BOOLEAN

\* What the rows of the latest accepted frame read.
Read ==
  IF latest.accepted THEN {Table(decoder)[j] : j \in Matched(decoder, latest.frame)} ELSE {}
RawOf(row) == Raw(row, latest.frame.data)
Shown(row) == IF row.kind = "bit" THEN BitOf(Cell(state, row.cell), row.bit)
              ELSE Cell(state, row.cell)

\* The rows of which the cleanup takes what they wrote.
CleansRow(d, row) ==
  /\ Cleans(d)
  /\ row.cell \in {\h11, \h44} \/ (row.cell = \h42 /\ row.bit = 1)

\* Rows share cells, and transforms write to cells of other rows.  No untransformed
\* row of a frame is overwritten by a later row of it: after Apply its bit or cell
\* shows what the frame says, unless the cleanup owns it: two cells and one bit of a
\* third, of which the other bits must show what was read.
PlainRowsSurvive ==
  \A row \in Read :
    row.transform = "none" /\ ~CleansRow(decoder, row) => Shown(row) = RawOf(row)

\* A bus repeats frames.  Applying the latest frame again changes nothing, with one
\* exception: run mode 6 sets the cell that then forces it to 5.
RepeatIsHarmless ==
  latest.accepted =>
    LET again == Decoded(decoder, state, latest.frame)
    IN  \/ again = state
        \/ /\ \E row \in Read : row.transform = "run_mode_coupled_remap" /\ RawOf(row) = 6
           /\ again = Put(state, \h0a, 5)

\* M115 spreads one error over nine rows that all write bit 0 of cell 0x53, so that
\* each overwrites the one before.  The latch carries the error across them: after a
\* frame that covers them from the start the bit is the disjunction of the nine.
ErrorBitIsDisjunction ==
  LET parts == {row \in Read : row.transform \in {"aggregate_error_latch_part",
                                                  "aggregate_error_latch_finalize"}}
  IN  latest.accepted /\ latest.frame.data[1] = 0
      /\ (\E row \in parts : row.transform = "aggregate_error_latch_finalize") =>
        (BitOf(Cell(state, \h53), 0) = 1 <=> \E row \in parts : RawOf(row) = 1)

\* M115: 0x7b01 sets cell 0x06 and forces the mode in cell 0x09 at once; 0x7d01 brings
\* modes of its own in other frames.  As long as cell 0x06 is set the mode is 6.
CoupledModeIsForced ==
  decoder.profile = "M115" /\ Cell(state, \h06) # 0 => Cell(state, \h09) = 6

\* The cleanup runs after every accepted frame, matched or not.  All it ever takes from a
\* caller are its own cells and one bit of 0x42.  What it does to cell 0x06 is felt in
\* cell 0x09, where a mode is forced no longer than for one frame; a frame that brings a
\* mode of its own, when nothing would force it, brings the two back together.
CleanupIsLocal ==
  LET cells == DOMAIN state.cells \cup DOMAIN uncleaned.cells
      bringsMode == \E row \in Read : row.transform = "mode_value_remap"
  IN  /\ \A c \in cells \ {\h06, \h09, \h11, \h42, \h44} : Cell(state, c) = Cell(uncleaned, c)
      /\ \A k \in 0 .. 7 \ {1} : BitOf(Cell(state, \h42), k) = BitOf(Cell(uncleaned, \h42), k)
      /\ bringsMode /\ Cell(uncleaned, \h06) = 0 => Cell(state, \h09) = Cell(uncleaned, \h09)
      /\ \A field \in {"slotFlags", "errorLatch", "modeLatch"} : state[field] = uncleaned[field]
      /\ ~Cleans(decoder) => state = uncleaned

\* M94: the hidden mode latch and cell 0x0e tell the same story, although clearing
\* writes only one bit of the cell.
ModeLatchIsShown == decoder.profile = "M94" => (state.modeLatch <=> Cell(state, \h0e) = 7)

\* A cell behind a value remap never shows a value from inside the remapped range that
\* is no result of it, whichever frames came in between.
RemapsAreTotal ==
  decoder.profile = "M94" =>
    /\ Cell(state, \h06) \in {0, \haa, \h55}
    /\ Cell(state, \h26) # 2
    /\ Cell(state, \h0c) \notin 2 .. 4
    /\ Cell(state, \h0d) \in 0 .. 1

\* The slot flags move together, and the guard that would freeze them is dead: the
\* cell it looks at is the destination of no row, and neither is the cell it would set.
SlotsMoveTogether ==
  /\ \A j, k \in 1 .. SlotCount : state.slotFlags[j] = state.slotFlags[k]
  /\ decoder.profile = "M94" => {\h1c, \h1e} \cap DOMAIN state.cells = {}
  /\ decoder.profile = "M115" => {\h69, \h6b} \cap DOMAIN state.cells = {}
=============================================================================
