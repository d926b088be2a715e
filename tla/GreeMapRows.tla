----------------------------- MODULE GreeMapRows -----------------------------
(***************************************************************************)
(* The two row tables of the Gree VRF map.  A row reads one coordinate of  *)
(* the frames of one opcode, a bit or a byte, and writes it to a bit of a  *)
(* cell or to the whole cell; a transform may follow.  Rows stand in table *)
(* order, which is the order they are applied in.  The tables are written  *)
(* as runs of rows of one shape.                                           *)
(***************************************************************************)
EXTENDS Integers, Sequences

Transforms ==
  {"none", "boolean_to_magic_aa55", "swing_value_remap", "mode_range_to_boolean",
   "nonzero_boolean_with_one_cleared", "aggregate_error_latch_part",
   "aggregate_error_latch_finalize", "run_mode_coupled_remap", "global_mode_latch_update",
   "mode_updates_all_100_slot_flags", "global_mode_latch_projection",
   "coupled_state_remap", "mode_value_remap"}

U8 == 0 .. 255

BitOf(byte, k) == (byte \div 2 ^ k) % 2

Row == [opcode : U8, coordinate : U8, cell : U8, bit : 0 .. 7,
        kind : {"bit", "u8", "u16"}, transform : Transforms]

BitRow(opcode, coordinate, cell, bit) ==
  [opcode |-> opcode, coordinate |-> coordinate, cell |-> cell, bit |-> bit,
   kind |-> "bit", transform |-> "none"]

\* n bytes from a coordinate on go to the cells from a cell on.  The cell bit
\* of such a row is not used.
ByteRows(kind, opcode, coordinate, cell, n) ==
  [k \in 1 .. n |-> [opcode |-> opcode, coordinate |-> coordinate + k - 1,
                     cell |-> cell + k - 1, bit |-> 0, kind |-> kind,
                     transform |-> "none"]]

U8s(opcode, coordinate, cell, n) == ByteRows("u8", opcode, coordinate, cell, n)
U16s(opcode, coordinate, cell, n) == ByteRows("u16", opcode, coordinate, cell, n)

\* Each <<coordinate, cell>> of a list goes to bit 0 of the cell.
Flags(opcode, pairs) ==
  [k \in DOMAIN pairs |-> BitRow(opcode, pairs[k][1], pairs[k][2], 0)]

\* The coordinates of a list go to the bits of one cell from a bit on.
Bits(opcode, cell, bit, coordinates) ==
  [k \in DOMAIN coordinates |-> BitRow(opcode, coordinates[k], cell, bit + k - 1)]

Remap(transform, rows) == [k \in DOMAIN rows |-> [rows[k] EXCEPT !.transform = transform]]

M94Entries ==
     U8s(\h10, \h02, \h03, 2) \o U8s(\h10, \h04, \h00, 3)
  \o Flags(\h1c, <<<<0, \h37>>, <<1, \h49>>, <<2, \h38>>, <<3, \h4a>>, <<4, \h56>>,
                   <<5, \h48>>, <<6, \h47>>, <<7, \h40>>, <<8, \h3f>>>>)
  \o Flags(\h1c, <<<<\h21, \h50>>, <<\h26, \h52>>, <<\h29, \h51>>>>)
  \o Flags(\h1e, <<<<0, \h05>>>>)
  \o Bits(\h1e, \h32, 0, <<\h03, \h05, \h09, \h0b, \h0c, \h0e, \h0f, \h13>>)
  \o Bits(\h1e, \h33, 0, <<\h14, \h17, \h21, \h23>>)
  \o Remap("boolean_to_magic_aa55", Flags(\h1f, <<<<0, \h06>>>>))
  \o Flags(\h1f, <<<<1, \h07>>, <<6, \h08>>, <<\h1b, \h1d>>, <<\h1e, \h09>>,
                   <<\h20, \h0a>>, <<\h24, \h1f>>, <<\h25, \h28>>>>)
  \o U8s(\h20, \h11, \h54, 1) \o U8s(\h20, \h13, \h55, 1)
  \o U8s(\h21, \h02, \h25, 1)
  \o Remap("swing_value_remap", U8s(\h21, \h03, \h26, 1))
  \o U8s(\h21, \h06, \h20, 1)
  \o Remap("mode_range_to_boolean", U8s(\h21, \h0d, \h0c, 1))
  \o Remap("nonzero_boolean_with_one_cleared", U8s(\h21, \h0f, \h0d, 1))
  \o U8s(\h21, \h11, \h53, 1) \o U8s(\h21, \h15, \h39, 1) \o U8s(\h21, \h17, \h3e, 1)
  \o U8s(\h21, \h18, \h44, 3) \o U8s(\h21, \h20, \h36, 1)
  \o Bits(\h22, \h33, 4, <<\h00, \h01, \h03, \h05>>)
  \o Bits(\h22, \h34, 0, <<\h08, \h0a, \h0b, \h0d>>)
  \o Bits(\h22, \h34, 4, <<\h0d, \h0e, \h0f, \h12>>)
  \o Flags(\h3d, <<<<\h13, \h35>>>>)
  \o Flags(\h6d, <<<<1, \h23>>, <<2, \h24>>>>)
  \o Remap("global_mode_latch_update", Flags(\h6f, <<<<1, \h0e>>>>))
  \o Flags(\h6f, <<<<\h1f, \h41>>, <<\h23, \h4f>>>>)
  \o Remap("mode_updates_all_100_slot_flags", U8s(\h71, \h00, \h0b, 1))
  \o Remap("global_mode_latch_projection", U8s(\h71, \h01, \h0f, 1))
  \o U8s(\h71, \h20, \h3a, 2)
  \o U16s(\h73, \h00, \h10, 12) \o U16s(\h73, \h10, \h3c, 2) \o U16s(\h73, \h14, \h4d, 2)
  \o U16s(\h73, \h16, \h42, 2) \o U16s(\h73, \h26, \h4b, 2)

M115Entries ==
     U8s(\h10, \h02, \h03, 2) \o U8s(\h10, \h04, \h01, 2)
  \o Flags(\h3d, <<<<0, \h00>>>>)
  \o Remap("aggregate_error_latch_part",
           Flags(\h3d, <<<<5, \h53>>, <<6, \h53>>, <<7, \h53>>, <<8, \h53>>>>))
  \o Bits(\h3d, \h53, 1, <<\h09, \h0a, \h0b, \h10>>)
  \o Bits(\h3d, \h54, 3, <<\h11>>)
  \o Bits(\h3d, \h53, 5, <<\h13, \h16, \h18>>)
  \o Remap("aggregate_error_latch_part",
           Flags(\h3d, <<<<\h19, \h53>>, <<\h1a, \h53>>, <<\h1b, \h53>>, <<\h1c, \h53>>>>))
  \o Remap("aggregate_error_latch_finalize", Flags(\h3d, <<<<\h1d, \h53>>>>))
  \o Bits(\h3d, \h54, 0, <<\h1e, \h1f>>) \o Bits(\h3d, \h54, 4, <<\h20, \h21>>)
  \o Bits(\h3d, \h54, 2, <<\h22>>) \o Bits(\h3d, \h54, 6, <<\h27, \h28>>)
  \o Bits(\h3e, \h4c, 0, <<\h00, \h01, \h02, \h03, \h04>>)
  \o Bits(\h3e, \h4d, 0, <<\h19, \h1a, \h1b, \h1c, \h1d>>)
  \o Remap("boolean_to_magic_aa55", Flags(\h3f, <<<<0, \h05>>>>))
  \o Bits(\h3f, \h42, 0, <<\h0f>>) \o Bits(\h3f, \h43, 0, <<\h10>>)
  \o Bits(\h3f, \h42, 1, <<\h16>>) \o Bits(\h3f, \h43, 1, <<\h17>>)
  \o Flags(\h3f, <<<<\h18, \h0d>>>>)
  \o U8s(\h40, \h05, \h0f, 1) \o U8s(\h40, \h06, \h12, 11) \o U8s(\h40, \h12, \h10, 2)
  \o U8s(\h41, \h00, \h07, 2) \o U8s(\h41, \h04, \h0c, 1) \o U8s(\h41, \h05, \h1f, 5)
  \o U8s(\h41, \h0a, \h46, 6)
  \o Remap("run_mode_coupled_remap", U8s(\h41, \h10, \h0a, 1))
  \o U8s(\h41, \h11, \h5b, 1)
  \o U16s(\h4d, \h06, \h24, 30)
  \o Remap("mode_updates_all_100_slot_flags", U8s(\h71, \h00, \h58, 1))
  \o U16s(\h73, \h00, \h59, 2)
  \o Remap("coupled_state_remap", Flags(\h7b, <<<<1, \h06>>>>))
  \o Flags(\h7b, <<<<8, \h1d>>, <<9, \h1e>>, <<\h0d, \h44>>, <<\h0e, \h45>>>>)
  \o Remap("mode_value_remap", U8s(\h7d, \h01, \h09, 1))
  \o U8s(\h7d, \h02, \h0b, 1)
=============================================================================
