---------------------------- MODULE MCGreeCommand ----------------------------
(* Instances of GreeCommand for TLC.                                       *)
EXTENDS GreeCommand

\* Seeds with every bit of a field set or clear, the class that the candidate listens to
\* among them; units around the seven bits; every property, and one past the table.
MCPropertyRequests ==
  [seed : {0, \h1ee00000, \h17e00000, \h1ffffff, \h7fffffff}, unit : {0, 6, 8, 127, 128, 255},
   propertyID : 0 .. 88, value : {0, 1, 2, 255, 256, \h1234, 2^16 - 1}]

\* Each part in turn takes every value.
MCTimeRequests ==
  {[[k \in 1 .. 7 |-> 10 * k + k] EXCEPT ![j] = part] : j \in 1 .. 7, part \in U8}
=============================================================================
