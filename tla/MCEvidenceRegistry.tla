------------------------- MODULE MCEvidenceRegistry -------------------------
(* Instances of EvidenceRegistry for TLC.                                  *)
EXTENDS EvidenceRegistry, TLC

CONSTANTS
  can0, can1, unnamed,   \* interface identities
  alice, bob             \* callers

ValidFrame(id) == [id |-> id, geometry |-> TRUE, inRange |-> TRUE]
BadStatus == [ValidFrame("status") EXCEPT !.inRange = FALSE]
\* An extended identifier: no V1.04 frame.
GreeFrame == [ValidFrame("unlisted") EXCEPT !.geometry = FALSE]
MCGreeFrames == {GreeFrame}

On(ifaces, frames, seqs) == [frame : frames, iface : ifaces, seq : seqs, mark : {0}]
TupleFrames == {ValidFrame(id) : id \in TupleIds}

OneBus == On({can0}, TupleFrames \cup {BadStatus, GreeFrame}, 0 .. 1)
ThreeBuses == OneBus \cup On({can1, unnamed}, {GreeFrame}, {0})

Twins == <<"v104", "gree", "nil", "v104">>
Mixed == <<"gree", "v104", "v104">>

Symmetry == Permutations({alice, bob})
=============================================================================
