---------------------------- MODULE MCGreeReplay ----------------------------
(* Instances of GreeReplay for TLC.                                        *)
EXTENDS GreeReplay

CONSTANTS can0, can1, unnamed   \* interface identities

\* n data bytes from a start on, all different, in one of two patterns.
Data(start, n, pattern) ==
  <<start>> \o [k \in 1 .. n |-> (37 * (start + k) + 91 * pattern) % 256]

Gree(opcode, data) ==
  [iface |-> can0, extended |-> TRUE, exact |-> TRUE,
   class8 |-> \hf7, unit7 |-> 8, opcode7 |-> opcode, data |-> data]

Swept(opcode, starts, lengths) ==
  {Gree(opcode, Data(start, n, 0)) : start \in starts, n \in lengths}

\* Around every published coordinate and the end of the span, every length where
\* pairs may straddle.
Sweep ==
  Swept(\h10, 0 .. 7, 0 .. 7)
    \cup {Gree(\h10, Data(start, n, 1)) : start \in 2 .. 4, n \in 3 .. 5}
    \cup Swept(\h10, {25, 26, 31, 32, 33, 248, 249, 255}, {0, 1, 6, 7})
    \cup Swept(\h11, {2, 3, 8, 9, 10, 248, 249}, {1, 6, 7})
    \cup Swept(\h52, {33, 34, 82, 88, 89, 90, 199, 200}, {1, 2, 6, 7})
    \cup Swept(\h58, 82 .. 97, {1, 2, 7})

\* The frame that reaches every row, with bytes of its own, refused for one reason each.
Pair == Gree(\h10, Data(2, 5, 2))
Foreign ==
  {[Pair EXCEPT !.iface = can1], [Pair EXCEPT !.iface = unnamed], [Pair EXCEPT !.extended = FALSE],
   [Pair EXCEPT !.exact = FALSE], [Pair EXCEPT !.class8 = \hf6], [Pair EXCEPT !.unit7 = 0],
   [Pair EXCEPT !.opcode7 = \h3d], [Pair EXCEPT !.data = <<>>]}

MCObservations == Sweep \cup Foreign

MCDecoders ==
  [profile : {"M94"}, productID : {0}, traffic : {"replay"}]
    \cup [profile : {"M115"}, productID : {0, \h60a4}, traffic : {"replay"}]
MCTraffic == [replay |-> {}]
=============================================================================
