---------------------------- MODULE GrowattFields ----------------------------
(***************************************************************************)
(* The payload of the three tuple frames, as its two readers decode it:    *)
(* the V1.04 profile, and the common projector that a caller constructs    *)
(* for one source.  Both read one frame at a time and keep nothing; the    *)
(* windows of the profile are in GrowattWindows, whose frames have inRange *)
(* where a frame here has its bytes.                                       *)
(*                                                                         *)
(* The variables are no state of the program: they record what was read    *)
(* from the latest observation and from the one before it.                 *)
(***************************************************************************)
EXTENDS GrowattFrames

CONSTANTS
  Selected,      \* the source the projector was constructed for
  Observations   \* what callers present

U8 == 0 .. 255

Observation == [iface : Interfaces, id : TupleIds \cup {"listed", "unlisted"},
                geometry : BOOLEAN, data : [1 .. 8 -> U8]]

ASSUME FieldsAssumption ==
  /\ Selected \in ValidInterfaces
  /\ Observations \subseteq Observation

VARIABLES earlier, latest

vars == <<earlier, latest>>
-----------------------------------------------------------------------------
\* The big-endian word at byte k, and an int16 from such a word.
Word(data, k) == 256 * data[k] + data[k + 1]

\* Slip: the sign is dropped.
Signed_Unsigned(word) == word % 32768

Signed(word) == IF word < 32768 THEN word ELSE word - 65536

\* The frame as the windows see it.
FrameOf(o) ==
  [id |-> o.id, geometry |-> o.geometry,
   inRange |-> /\ o.id = "status" => o.data[5] \in 1 .. 254 /\ o.data[8] \in 1 .. 254
               /\ o.id = "measurements" => o.data[7] <= 100]

NoFields == [field \in {} |-> 0]

\* What aggregate decodes of a valid frame.
NativeFields(o) ==
  LET b == o.data
  IN  CASE o.id = "limits" ->
             [ChargeVoltage |-> Word(b, 1), ChargeCurrent |-> Word(b, 3),
              DischargeCurrent |-> Word(b, 5), RawStatus |-> Word(b, 7)]
        [] o.id = "status" ->
             [Protection |-> <<b[1], b[2]>>, Warning |-> <<b[3], b[4]>>, PackCount |-> b[5],
              Manufacturer |-> <<b[6], b[7]>>, TotalCellCount |-> b[8]]
        [] o.id = "measurements" ->
             [Voltage |-> Signed(Word(b, 1)), Current |-> Signed(Word(b, 3)),
              MaximumCellTemperature |-> Signed(Word(b, 5)), SOC |-> b[7],
              SOH |-> b[8] % 128, SOHValid |-> b[8] >= 128]
        [] OTHER -> NoFields

Native(o) ==
  IF o.iface \in ValidInterfaces /\ Valid(FrameOf(o)) THEN NativeFields(o) ELSE NoFields

\* Slip: the projector passes on what V1.04 reads.
CommonFields_Native(o) == NativeFields(o)

CommonFields(o) ==
  LET b == o.data
  IN  CASE o.id = "limits" ->
             [ChargeVoltage |-> Word(b, 1), ChargeCurrent |-> Word(b, 3),
              DischargeCurrent |-> Word(b, 5)]
        [] o.id = "status" ->
             [Protection |-> <<b[1], b[2]>>, Warning |-> <<b[3], b[4]>>, PackCount |-> b[5]]
        [] o.id = "measurements" ->
             [Voltage |-> Signed(Word(b, 1)), Current |-> Signed(Word(b, 3)),
              SOC |-> b[7], SOH |-> b[8] % 128]
        [] OTHER -> NoFields

Common(o) ==
  IF o.iface = Selected /\ o.geometry THEN CommonFields(o) ELSE NoFields
-----------------------------------------------------------------------------
\* The projector keeps whatever its source sends, with or without fields.
ReadingOf(o) ==
  [seen |-> o, native |-> Native(o), kept |-> o.iface = Selected, common |-> Common(o)]

NothingRead == [seen |-> NoEvidence, native |-> NoFields, kept |-> FALSE, common |-> NoFields]

Init == earlier = NothingRead /\ latest = NothingRead

Apply(o) ==
  /\ latest' = ReadingOf(o)
  /\ earlier' = latest

Next == \E o \in Observations : Apply(o)

Spec == Init /\ [][Next]_vars
-----------------------------------------------------------------------------
(* Properties.                                                             *)

\* The fields only V1.04 gives a meaning to.
LocalFields == {"RawStatus", "Manufacturer", "TotalCellCount", "MaximumCellTemperature", "SOHValid"}

\* A shared field has the same value for both readers, so that a caller may use either;
\* on the selected source V1.04 adds nothing but its local fields, and sees nothing that
\* the projector does not.
SharedFieldsAgree ==
  LET common == latest.common
      native == latest.native
  IN  /\ \A field \in DOMAIN common \cap DOMAIN native : common[field] = native[field]
      /\ latest.kept /\ native # NoFields =>
           DOMAIN common = DOMAIN native \ LocalFields

\* The bits that every revision agrees on.
SharedBits(o) ==
  LET b == o.data
  IN  CASE o.id = "limits" -> <<b[1], b[2], b[3], b[4], b[5], b[6]>>
        [] o.id = "status" -> <<b[1], b[2], b[3], b[4], b[5]>>
        [] o.id = "measurements" -> <<b[1], b[2], b[3], b[4], b[7], b[8] % 128>>

\* No byte is lost and none leaks.  Two frames of one kind read the same for V1.04 only
\* if all of their bytes are the same; they read the same for the projector exactly if
\* they differ in revision-local bits alone, so that it never shows anything of those.
FieldsTellBytesApart ==
  LET o == earlier.seen
      p == latest.seen
  IN  /\ earlier.native # NoFields /\ latest.native # NoFields /\ o.id = p.id =>
           (earlier.native = latest.native <=> o.data = p.data)
      /\ earlier.common # NoFields /\ latest.common # NoFields /\ o.id = p.id =>
           (earlier.common = latest.common <=> SharedBits(o) = SharedBits(p))
=============================================================================
