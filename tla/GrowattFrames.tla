--------------------------- MODULE GrowattFrames ---------------------------
(***************************************************************************)
(* CAN frames and evidence as the Growatt low-voltage BMS V1.04 profile    *)
(* tells them apart.  A frame is reduced to what admission looks at: which *)
(* identifier it carries, whether its geometry is that of a V1.04 frame,   *)
(* and whether the bytes with a declared range are inside it.  All payload *)
(* bytes, the raw record and the monotonic timestamp are one opaque mark.  *)
(***************************************************************************)
EXTENDS Integers, FiniteSets

CONSTANTS
  Interfaces,       \* interface identities an observation may carry
  ValidInterfaces,  \* those with a name and a positive index
  NoEvidence        \* the zero Evidence: nothing recorded

\* 0x311, 0x312 and 0x313: the three frames a projection is made of.
TupleIds == {"limits", "status", "measurements"}

\* "listed" stands for 0x314..0x321, "unlisted" for every other identifier.
Frame == [id : TupleIds \cup {"listed", "unlisted"},
          geometry : BOOLEAN,   \* standard identifier, DLC 8, raw DLC 8
          inRange : BOOLEAN]    \* pack count, cell count, SOC within range

Evidence == [frame : Frame, iface : Interfaces, seq : Nat, mark : Nat]

ASSUME InterfaceAssumption ==
  /\ ValidInterfaces \subseteq Interfaces
  /\ NoEvidence \notin Evidence

ListedFrame(f) == f.id # "unlisted"

\* Only 0x312 (pack and cell counts) and 0x313 (SOC) have declared ranges.
Valid(f) ==
  /\ f.geometry
  /\ f.id \in {"status", "measurements"} => f.inRange

\* A listed frame that is not valid discards everything observed before it.
Malformed(f) == ListedFrame(f) /\ ~Valid(f)

\* An admission result: the evidence of each of the three frames, or none.
NoProjection == [id \in TupleIds |-> NoEvidence]
Projections == [TupleIds -> Evidence] \cup {NoProjection}
=============================================================================
