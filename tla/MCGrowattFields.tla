--------------------------- MODULE MCGrowattFields ---------------------------
(* Instances of GrowattFields for TLC.                                     *)
EXTENDS GrowattFields

CONSTANTS can0, can1, unnamed   \* interface identities

\* The bytes around which a word changes sign, a count or a percentage leaves its
\* range, and the high bit of the health byte is set.
Edges == {0, 1, 100, 101, 127, 128, 254, 255}

\* Payloads that differ in one byte, and those that differ in the last two.
Payloads ==
  {[[k \in 1 .. 8 |-> 1] EXCEPT ![j] = byte] : j \in 1 .. 8, byte \in Edges}
    \cup {[[k \in 1 .. 8 |-> 100] EXCEPT ![7] = a, ![8] = b] : a \in {0, 255}, b \in {1, 129}}

Frames(ifaces, ids, geometries, payloads) ==
  [iface : ifaces, id : ids, geometry : geometries, data : payloads]

MCObservations ==
  Frames({can0}, TupleIds, {TRUE}, Payloads)
    \cup Frames({can0}, {"limits", "listed", "unlisted"}, BOOLEAN, {[k \in 1 .. 8 |-> 1]})
    \cup Frames({can1, unnamed}, TupleIds, {TRUE}, {[k \in 1 .. 8 |-> 1]})
=============================================================================
