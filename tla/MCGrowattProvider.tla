-------------------------- MODULE MCGrowattProvider --------------------------
(* Instances of GrowattProvider for TLC.                                   *)
EXTENDS GrowattProvider

CONSTANTS
  can0, can1,   \* interface identities
  alice, bob    \* callers

ValidFrame(id) == [id |-> id, geometry |-> TRUE, inRange |-> TRUE]

\* A 0x313 whose SOC exceeds 100.
BadMeasurements == [ValidFrame("measurements") EXCEPT !.inRange = FALSE]

OneFrame == {ValidFrame("limits")}
TupleFrames == {ValidFrame(id) : id \in TupleIds}
TupleAndBad == TupleFrames \cup {BadMeasurements}
=============================================================================
