------------------------- MODULE GreeCommand_proofs -------------------------
(***************************************************************************)
(* The Gree VRF command encoder, for all seeds, units, values and times:   *)
(* the fields of an identifier do not overlap, and a receiver undoes the   *)
(* encoding.                                                               *)
(***************************************************************************)
EXTENDS GreeCommand, TLAPS

\* What the layout of a frame relies on: bytes that fit, and registers whose high byte
\* leaves the unit alone.
LEMMA RowsFit ==
  ASSUME NEW row \in CommandRows
  PROVE  /\ row.high \in 0 .. 127 /\ row.low \in U8
         /\ row.kind \in {"bool", "u8", "u16"}
<1>1. ASSUME NEW kind \in {"bool", "u8", "u16"}, NEW high \in 0 .. 127, NEW pairs,
             \A pair \in pairs : pair[2] \in U8, row \in RowsUnder(kind, high, pairs)
      PROVE  /\ row.high \in 0 .. 127 /\ row.low \in U8
             /\ row.kind \in {"bool", "u8", "u16"}
  BY <1>1 DEF RowsUnder
<1> DEFINE bools ==
             {<<6, 0>>, <<8, 2>>, <<9, \h15>>, <<10, \h16>>, <<14, 1>>, <<29, \h10>>,
              <<31, \h18>>, <<40, \h17>>, <<55, 0>>, <<63, \h1c>>, <<64, \h1e>>, <<65, \h1f>>,
              <<72, \h1d>>, <<73, \h21>>, <<79, \h23>>, <<80, \h2f>>, <<82, \h30>>}
           bytes ==
             {<<11, 0>>, <<12, \h0c>>, <<13, \h0d>>, <<15, 1>>, <<32, \h15>>, <<37, 2>>,
              <<38, 3>>, <<43, \hb5>>, <<57, \h18>>, <<58, \h20>>, <<59, \h21>>, <<68, \h19>>,
              <<69, \h1a>>, <<70, \h1b>>}
           words ==
             {<<16 + k, k>> : k \in 0 .. 11}
               \cup {<<66, \h16>>, <<67, \h17>>, <<75, \h26>>, <<76, \h27>>}
<1>2. \A pair \in bools : pair[2] \in U8
  BY SMT DEF U8
<1>3. \A pair \in bytes : pair[2] \in U8
  BY SMT DEF U8
<1>4. \A pair \in words : pair[2] \in U8
  BY SMT DEF U8
<1>5. \h6f \in 0 .. 127 /\ \h71 \in 0 .. 127 /\ \h73 \in 0 .. 127
  BY SMT
<1>6. \/ row \in RowsUnder("bool", \h6f, bools)
      \/ row \in RowsUnder("u8", \h71, bytes)
      \/ row \in RowsUnder("u16", \h73, words)
  BY SMT DEF CommandRows
<1> HIDE DEF bools, bytes, words
<1>7. CASE row \in RowsUnder("bool", \h6f, bools)
  BY <1>1, <1>2, <1>5, <1>7, Zenon
<1>8. CASE row \in RowsUnder("u8", \h71, bytes)
  BY <1>1, <1>3, <1>5, <1>8, Zenon
<1>9. CASE row \in RowsUnder("u16", \h73, words)
  BY <1>1, <1>4, <1>5, <1>9, Zenon
<1>10. QED
  BY <1>6, <1>7, <1>8, <1>9

\* The four fields of an identifier do not overlap.
LEMMA IdentifierRead ==
  ASSUME NEW r \in PropertyRequest, NEW row \in CommandRows, Encodes(r, row)
  PROVE  /\ Identifier(r, row) < Pow29
         /\ Class8(Identifier(r, row)) = Class8(r.seed)
         /\ Unit7(Identifier(r, row)) = r.unit
         /\ Opcode7(Identifier(r, row)) = row.high
<1> DEFINE c == Class8(r.seed)
           u == r.unit
           h == row.high
           id == Identifier(r, row)
<1>1. c \in 0 .. 255
  BY SMT DEF PropertyRequest, Class8, Pow21, Pow8
<1>2. u \in 0 .. 127
  BY SMT DEF PropertyRequest, Encodes, U8
<1>3. h \in 0 .. 127
  BY RowsFit
<1>4. id = c * 2097152 + 127 * 16384 + u * 128 + h
  BY SMT DEF Identifier, Class8, Pow21, Pow14, Pow8, Pow7
<1> HIDE DEF c, u, h, id
<1>5. id \in Nat /\ id < 536870912 /\ id % 128 = h /\ (id \div 2097152) % 256 = c
  BY <1>1, <1>2, <1>3, <1>4, SMT
<1>6. id \div 128 = c * 16384 + 127 * 128 + u
  BY <1>1, <1>2, <1>3, <1>4, SMT
<1>7. (c * 16384 + 127 * 128 + u) % 128 = u
  BY <1>1, <1>2, SMT
<1>8. id < Pow29 /\ Class8(id) = c /\ Unit7(id) = u /\ Opcode7(id) = h
  BY <1>5, <1>6, <1>7, SMT DEF Pow29, Pow21, Pow8, Pow7, Class8, Unit7, Opcode7
<1>9. QED
  BY <1>8, Zenon DEF c, u, h, id

\* Two digits in a byte.
LEMMA DigitsInByte ==
  ASSUME NEW part \in 0 .. 99
  PROVE  LET byte == PackedDecimal(part)
         IN  /\ byte \in U8
             /\ (byte % 16) <= 9 /\ 10 * (byte \div 16) + (byte % 16) = part
BY SMT DEF PackedDecimal, U8

IInv ==
  /\ request \in [kind : {"property"}, of : PropertyRequests]
                   \cup [kind : {"time"}, of : TimeRequests]
  /\ \/ command = Refusal
     \/ request.kind = "property" /\ command = PropertyCommand(request.of)
     \/ request.kind = "time" /\ command = TimeCommand(request.of)

\* The encoder's answer is the one to the request, or not given yet.
LEMMA AnswersRequest == CommandSpec => []IInv
<1>1. CommandInit => IInv
  BY DEF CommandInit, IInv
<1>2. IInv /\ [CommandNext]_commandVars => IInv'
  BY DEF IInv, CommandNext, EncodeProperty, EncodeTime, commandVars
<1>3. QED
  BY <1>1, <1>2, PTL DEF CommandSpec

\* What a receiver reads from a payload.
LEMMA PayloadRead ==
  ASSUME NEW r \in PropertyRequest, NEW row \in CommandRows, Encodes(r, row)
  PROVE  LET d == Payload(r, row)
             value == IF d[2] = 3 THEN d[3] + 256 * d[4] ELSE d[3]
         IN  /\ d \in Seq(U8) /\ Len(d) <= 8
             /\ d[1] = row.low
             /\ value = IF row.kind = "bool" /\ r.value # 0 THEN 1 ELSE r.value
             /\ Len(d) = IF d[2] = 3 THEN 4 ELSE 3
<1>1. row.low \in U8 /\ row.kind \in {"bool", "u8", "u16"}
  BY RowsFit
<1>2. r.value \in Nat /\ r.value < 65536
  <2>1. r.value \in 0 .. Pow16 - 1
    BY DEF PropertyRequest, U16
  <2>2. Pow16 \in Int
    BY DEF Pow16
  <2>3. r.value \in Nat /\ r.value < Pow16
    BY <2>1, <2>2, SMT
  <2>4. QED
    BY <2>3, SMT DEF Pow16
<1>3. CASE row.kind = "bool"
  <2> DEFINE bit == IF r.value = 0 THEN 0 ELSE 1
  <2>1. Payload(r, row) = <<row.low, 1, bit>>
    BY <1>3 DEF Payload
  <2>2. bit \in U8 /\ 1 \in U8 /\ bit = IF r.value # 0 THEN 1 ELSE r.value
    BY <1>2 DEF U8
  <2> HIDE DEF bit
  <2>3. QED
    BY <2>1, <2>2, <1>1, <1>3
<1>4. CASE row.kind = "u8"
  <2>1. Payload(r, row) = <<row.low, 1, r.value>>
    BY <1>4 DEF Payload
  <2>2. r.value \in U8 /\ 1 \in U8
    BY <1>2, <1>4, SMT DEF Encodes, U8
  <2>3. QED
    BY <2>1, <2>2, <1>1, <1>4
<1>5. CASE row.kind = "u16"
  <2> DEFINE lo == r.value % 256
             hi == r.value \div 256
  <2>1. Payload(r, row) = <<row.low, 3, lo, hi>>
    BY <1>5 DEF Payload, Pow8
  <2>2. lo \in 0 .. 255 /\ hi \in 0 .. 255 /\ lo + 256 * hi = r.value
    <3> DEFINE v == r.value
    <3>1. v \in Nat /\ v < 65536
      BY <1>2
    <3> HIDE DEF v
    <3>2. v % 256 \in 0 .. 255 /\ v \div 256 \in 0 .. 255 /\ (v % 256) + 256 * (v \div 256) = v
      BY <3>1, SMT
    <3>3. QED
      BY <3>2 DEF v
  <2>3. lo \in U8 /\ hi \in U8 /\ 3 \in U8
    BY <2>2 DEF U8
  <2> HIDE DEF lo, hi
  <2>4. QED
    BY <2>1, <2>2, <2>3, <1>1, <1>5, SMT
<1>6. QED
  BY <1>1, <1>3, <1>4, <1>5

\* A frame tells its receiver the unit, the class, the register and the value that were
\* asked for, or the time; it fits on the bus, and no value is cut short.
THEOREM RequestsAreReadBack == CommandSpec => []ReceiverReadsRequest
<1>1. IInv => ReceiverReadsRequest
  <2> SUFFICES ASSUME IInv
               PROVE  ReceiverReadsRequest
    OBVIOUS
  <2>1. CASE command = Refusal
    BY <2>1, SMT DEF Refusal, ReceiverReadsRequest, Pow29
  <2>2. CASE request.kind = "property" /\ command = PropertyCommand(request.of) /\ command # Refusal
    <3> DEFINE r == request.of
    <3>1. r \in PropertyRequest
      BY <2>2, CommandAssumption DEF IInv
    <3>2. PICK row \in CommandRows :
            /\ Encodes(r, row)
            /\ command = [ok |-> TRUE, identifier |-> Identifier(r, row), data |-> Payload(r, row)]
      BY <2>2 DEF PropertyCommand
    <3>3. command.identifier = Identifier(r, row) /\ command.data = Payload(r, row)
      BY <3>2
    <3>4. row.propertyID = r.propertyID
      BY <3>2 DEF Encodes
    <3>5. /\ command.identifier < Pow29
          /\ Class8(command.identifier) = Class8(r.seed)
          /\ Unit7(command.identifier) = r.unit /\ Opcode7(command.identifier) = row.high
      BY <3>1, <3>2, <3>3, IdentifierRead, Zenon
    <3> DEFINE d == command.data
               value == IF d[2] = 3 THEN d[3] + 256 * d[4] ELSE d[3]
    <3>6. /\ d \in Seq(U8) /\ Len(d) <= 8 /\ d[1] = row.low
          /\ value = IF row.kind = "bool" /\ r.value # 0 THEN 1 ELSE r.value
          /\ Len(d) = IF d[2] = 3 THEN 4 ELSE 3
      BY <3>1, <3>2, <3>3, PayloadRead
    <3>7. \A k \in 1 .. Len(d) : d[k] \in U8
      BY <3>6
    <3>8. QED
      BY <2>2, <3>4, <3>5, <3>6, <3>7 DEF ReceiverReadsRequest
  <2>3. CASE request.kind = "time" /\ command = TimeCommand(request.of) /\ command # Refusal
    <3> DEFINE t == request.of
               d == command.data
    <3>1. t \in [1 .. 7 -> U8]
      BY <2>3, CommandAssumption DEF IInv, TimeRequest
    <3>2. /\ \A k \in 1 .. 7 : t[k] <= 99
          /\ command.identifier = \h04820000
          /\ d = [k \in 1 .. 8 |-> IF k = 8 THEN 2 ELSE PackedDecimal(t[k])]
      BY <2>3 DEF TimeCommand
    <3>3. ASSUME NEW k \in 1 .. 7 PROVE t[k] \in 0 .. 99
      <4>1. t[k] \in U8
        BY <3>1
      <4>2. t[k] <= 99
        BY <3>2
      <4> HIDE DEF t
      <4>3. QED
        BY <4>1, <4>2, SMT DEF U8
    <3>4. \A k \in 1 .. 7 :
            d[k] \in U8 /\ (d[k] % 16) <= 9 /\ 10 * (d[k] \div 16) + (d[k] % 16) = t[k]
      <4>1. \A k \in 1 .. 7 : d[k] = PackedDecimal(t[k])
        BY <3>2
      <4>2. QED
        BY <3>3, <4>1, DigitsInByte
    <3>5. d[8] = 2 /\ Len(d) = 8 /\ 2 \in U8
      <4>1. 2 \in U8
        BY SMT DEF U8
      <4>2. d[8] = 2
        BY <3>2
      <4>3. Len(d) = 8
        BY <3>2
      <4>4. QED
        BY <4>1, <4>2, <4>3
    <3>6. \A k \in 1 .. Len(d) : d[k] \in U8
      BY <3>4, <3>5
    <3>7. command.identifier < Pow29
      BY <3>2, SMT DEF Pow29
    <3>8. /\ Len(d) <= 8
          /\ request.kind # "property"
          /\ \A k \in 1 .. 7 : (d[k] % 16) <= 9 /\ 10 * (d[k] \div 16) + (d[k] % 16) = t[k]
      BY <2>3, <3>4, <3>5
    <3>9. QED
      BY <3>6, <3>7, <3>8, Zenon DEF ReceiverReadsRequest
  <2>4. QED
    BY <2>1, <2>2, <2>3 DEF IInv
<1>2. QED
  BY <1>1, AnswersRequest, PTL
=============================================================================
