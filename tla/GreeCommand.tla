----------------------------- MODULE GreeCommand -----------------------------
(***************************************************************************)
(* The Gree VRF command encoder: a property of a unit, or a point in time, *)
(* is encoded as a frame in memory.  The encoder keeps no state; a caller  *)
(* asks for one command, chosen at the start, and gets it or a refusal.    *)
(***************************************************************************)
EXTENDS Integers, Sequences

CONSTANTS
  PropertyRequests,  \* what EncodeGreeVRFCommand is called with
  TimeRequests       \* the seven parts of a time

\* 2^7, 2^8, 2^14, 2^16, 2^21 and 2^29.
Pow7 == 128
Pow8 == 256
Pow14 == 16384
Pow16 == 65536
Pow21 == 2097152
Pow29 == 536870912

U8 == 0 .. 255
U16 == 0 .. Pow16 - 1

PropertyRequest == [seed : Nat, unit : U8, propertyID : U8, value : U16]
TimeRequest == [1 .. 7 -> U8]

ASSUME CommandAssumption ==
  /\ PropertyRequests \subseteq PropertyRequest
  /\ TimeRequests \subseteq TimeRequest

VARIABLES
  request,   \* [kind, of]: a property request or a time request
  command    \* what the encoder answered

commandVars == <<request, command>>

\* The rows that encode something, as <<property, low byte>> pairs under the high byte
\* of their registers.  All others are reserved, or of a width that is not supported.
RowsUnder(kind, high, pairs) ==
  {[propertyID |-> pair[1], kind |-> kind, high |-> high, low |-> pair[2]] : pair \in pairs}

CommandRows ==
  RowsUnder("bool", \h6f,
            {<<6, 0>>, <<8, 2>>, <<9, \h15>>, <<10, \h16>>, <<14, 1>>, <<29, \h10>>,
             <<31, \h18>>, <<40, \h17>>, <<55, 0>>, <<63, \h1c>>, <<64, \h1e>>, <<65, \h1f>>,
             <<72, \h1d>>, <<73, \h21>>, <<79, \h23>>, <<80, \h2f>>, <<82, \h30>>})
  \cup RowsUnder("u8", \h71,
            {<<11, 0>>, <<12, \h0c>>, <<13, \h0d>>, <<15, 1>>, <<32, \h15>>, <<37, 2>>,
             <<38, 3>>, <<43, \hb5>>, <<57, \h18>>, <<58, \h20>>, <<59, \h21>>, <<68, \h19>>,
             <<69, \h1a>>, <<70, \h1b>>})
  \cup RowsUnder("u16", \h73,
            {<<16 + k, k>> : k \in 0 .. 11}
              \cup {<<66, \h16>>, <<67, \h17>>, <<75, \h26>>, <<76, \h27>>})

Encodes(r, row) ==
  /\ r.unit <= 127
  /\ row.propertyID = r.propertyID
  /\ row.kind = "u8" => r.value <= 255

\* Slip: the unit is not shifted over the register.
Identifier_Overlap(r, row) ==
  ((r.seed \div Pow21) % Pow8) * Pow21 + 127 * Pow14 + r.unit * 64 + row.high

\* Eight bits of the seed, seven ones, the unit, and the high byte of the register; that
\* is below 2^7 in every row, so that no two of them overlap.
Identifier(r, row) ==
  ((r.seed \div Pow21) % Pow8) * Pow21 + 127 * Pow14 + r.unit * Pow7 + row.high

Payload(r, row) ==
  CASE row.kind = "bool" -> <<row.low, 1, IF r.value = 0 THEN 0 ELSE 1>>
    [] row.kind = "u8" -> <<row.low, 1, r.value>>
    [] row.kind = "u16" -> <<row.low, 3, r.value % Pow8, r.value \div Pow8>>

Refusal == [ok |-> FALSE, identifier |-> 0, data |-> <<>>]

PropertyCommand(r) ==
  IF \E row \in CommandRows : Encodes(r, row)
  THEN LET row == CHOOSE row \in CommandRows : Encodes(r, row)
       IN  [ok |-> TRUE, identifier |-> Identifier(r, row), data |-> Payload(r, row)]
  ELSE Refusal

PackedDecimal(part) == (part \div 10) * 16 + (part % 10)

TimeCommand(t) ==
  IF \A k \in 1 .. 7 : t[k] <= 99
  THEN [ok |-> TRUE, identifier |-> \h04820000,
        data |-> [k \in 1 .. 8 |-> IF k = 8 THEN 2 ELSE PackedDecimal(t[k])]]
  ELSE Refusal

CommandInit ==
  /\ request \in [kind : {"property"}, of : PropertyRequests]
                   \cup [kind : {"time"}, of : TimeRequests]
  /\ command = Refusal

EncodeProperty ==
  /\ request.kind = "property"
  /\ command' = PropertyCommand(request.of)
  /\ UNCHANGED request

EncodeTime ==
  /\ request.kind = "time"
  /\ command' = TimeCommand(request.of)
  /\ UNCHANGED request

CommandNext == EncodeProperty \/ EncodeTime

CommandSpec == CommandInit /\ [][CommandNext]_commandVars
-----------------------------------------------------------------------------
(* Properties.                                                             *)

\* The fields of an identifier, as a receiver takes one apart (the Gree candidate does).
Class8(id) == (id \div Pow21) % Pow8
Unit7(id) == (id \div Pow7) % Pow7
Opcode7(id) == id % Pow7

\* A receiver that knows only the frame recovers what was asked for: the unit, the class
\* of the seed, the register of the property, and the value, whose width is told by the
\* byte before it; two digits from each byte of a time.  A value is never cut short.
ReceiverReadsRequest ==
  LET r == request.of
      id == command.identifier
      d == command.data
      value == IF d[2] = 3 THEN d[3] + 256 * d[4] ELSE d[3]
  IN  /\ id < Pow29 /\ Len(d) <= 8 /\ \A k \in 1 .. Len(d) : d[k] \in U8
      /\ command.ok /\ request.kind = "property" =>
           /\ Unit7(id) = r.unit
           /\ Class8(id) = Class8(r.seed)
           /\ \E row \in CommandRows :
                /\ row.propertyID = r.propertyID
                /\ <<Opcode7(id), d[1]>> = <<row.high, row.low>>
                /\ value = IF row.kind = "bool" /\ r.value # 0 THEN 1 ELSE r.value
                /\ Len(d) = IF d[2] = 3 THEN 4 ELSE 3
      /\ command.ok /\ request.kind = "time" =>
           \A k \in 1 .. 7 : (d[k] % 16) <= 9 /\ 10 * (d[k] \div 16) + (d[k] % 16) = r[k]
=============================================================================
