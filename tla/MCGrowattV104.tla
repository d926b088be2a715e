---------------------------- MODULE MCGrowattV104 ----------------------------
(* Instances of GrowattV104 for TLC.                                       *)
EXTENDS GrowattV104

CONSTANTS can0, can1, can2, unnamed  \* interface identities

ValidFrame(id) == [id |-> id, geometry |-> TRUE, inRange |-> TRUE]

\* A 0x312 whose pack count is out of range: listed and malformed.
BadStatus == [ValidFrame("status") EXCEPT !.inRange = FALSE]
\* An extended identifier inside 0x311..0x321, and one outside it.
ExtendedLimits == [ValidFrame("limits") EXCEPT !.geometry = FALSE]
ExtendedOther == [ValidFrame("unlisted") EXCEPT !.geometry = FALSE]

TupleFrames == {ValidFrame(id) : id \in TupleIds}
TupleUnlistedBad == TupleFrames \cup {BadStatus, ExtendedOther}
TupleAndBad == TupleFrames \cup {ExtendedLimits}
=============================================================================
