---------------------------- MODULE GreeCandidate ----------------------------
(***************************************************************************)
(* The Gree VRF candidate profile: a stateless gate that admits extended   *)
(* frames of one class and unit with one of four opcodes, and publishes    *)
(* the cells whose coordinates the frame covers.  A frame's first data     *)
(* byte is the coordinate of the second.  An identifier is taken apart     *)
(* into its fields; the opaque one, which is only copied, is left out.     *)
(***************************************************************************)
EXTENDS GreeMapRows

CONSTANTS Interfaces, ValidInterfaces

U7 == 0 .. 127

Observation == [iface : Interfaces, extended : BOOLEAN,
                exact : BOOLEAN,   \* the raw DLC is the DLC
                class8 : U8, unit7 : U7, opcode7 : U7, data : Seq(U8)]

\* n coordinates from one on go to as many cells from one on, all or none.
Run(coordinate, cell, n) == [coordinate |-> coordinate, cell |-> cell, n |-> n]

RunsOf ==
  [opcode \in {\h10, \h11, \h52, \h58} |->
     CASE opcode = \h10 -> {Run(\h05, \h0f, 2), Run(\h20, \h11, 1)}
       [] opcode = \h11 -> {Run(\h09, \h1b, 1)}
       [] opcode = \h52 -> {Run(\h59, \h12, 1)}
       [] opcode = \h58 -> {Run(\h5d, \h13, 2), Run(\h5f, \h15, 2),
                            Run(\h59, \h17, 2), Run(\h5b, \h19, 2)}]

\* How many coordinates a byte stands for: opcode 0x52 is packed into bits.
PerByte(opcode) == IF opcode = \h52 THEN 8 ELSE 1

SpanValid(opcode, data) == data[1] + PerByte(opcode) * (Len(data) - 1) <= 255

\* Slip: the start coordinate is counted as data.
Index_NoStart(opcode, data, c) == (c - data[1]) \div PerByte(opcode) + 1

\* Where a coordinate at or after the start sits in the data.
Index(opcode, data, c) == (c - data[1]) \div PerByte(opcode) + 2

Covered(opcode, data, c) == c >= data[1] /\ Index(opcode, data, c) <= Len(data)

Value(opcode, data, c) ==
  LET byte == data[Index(opcode, data, c)]
  IN  IF opcode = \h52 THEN BitOf(byte, (c - data[1]) % 8) ELSE byte

\* Slip: a pair is published when its last coordinate is covered, whatever the first.
Whole_First(opcode, data, run) == Covered(opcode, data, run.coordinate + run.n - 1)

Whole(opcode, data, run) ==
  \A k \in 0 .. run.n - 1 : Covered(opcode, data, run.coordinate + k)

UpdatesOf(opcode, data) ==
  UNION {{[cell |-> run.cell + k, value |-> Value(opcode, data, run.coordinate + k)] :
            k \in 0 .. run.n - 1} :
         run \in {run \in RunsOf[opcode] : Whole(opcode, data, run)}}

Identified(o) == o.unit7 = 8 /\ o.class8 = \hf7 /\ o.opcode7 \in DOMAIN RunsOf

\* Classify claims an observation that publishes something.
Admits(o) ==
  /\ o.iface \in ValidInterfaces
  /\ o.extended /\ o.exact
  /\ Identified(o)
  /\ Len(o.data) \in 1 .. 8
  /\ SpanValid(o.opcode7, o.data)
  /\ UpdatesOf(o.opcode7, o.data) # {}
=============================================================================
