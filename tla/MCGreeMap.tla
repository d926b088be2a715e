------------------------------ MODULE MCGreeMap ------------------------------
(* Instances of GreeMap for TLC: for each profile, traffics whose rows interact. *)
EXTENDS GreeMap

Frames(opcode, datas) == {[opcode |-> opcode, data |-> data] : data \in datas}

\* A start coordinate followed by n equal bytes: all clear, all set, every other bit.
Wide(opcode, start, n) ==
  Frames(opcode, {<<start>> \o [k \in 1 .. n |-> byte] : byte \in {0, 255, \h5a}})

Some(opcode, start, bytes) == Frames(opcode, {<<start, byte>> : byte \in bytes})

MCTraffic ==
  [m94_modes |->
     Some(\h6f, 1, 0 .. 1) \cup Some(\h6f, 0, {2}) \cup Some(\h71, 1, {0, 3, 7})
       \cup Frames(\h71, {<<0, mode, 2>> : mode \in 0 .. 7})
       \cup Some(\h1f, 0, {0, 3}) \cup Frames(\h3d, {<<0>>, <<>>}),
   m94_values |->
     Some(\h21, 3, 0 .. 4) \cup Some(\h21, \h0d, 0 .. 5) \cup Some(\h21, \h0f, 0 .. 2)
       \cup Frames(\h21, {<<\h0c, 1, 2, 3, 4>>}) \cup Some(\h1f, 0, 0 .. 1),
   m94_bits |->
     Wide(\h1e, 0, 7) \cup Wide(\h22, 0, 3) \cup Wide(\h22, \h0d, 1),
   m94_wide |->
     Wide(\h73, 0, 7) \cup Wide(\h73, \h10, 7) \cup Wide(\h73, 1, 2),
   m94_bytes |->
     Wide(\h1c, 0, 7) \cup Wide(\h20, \h11, 3) \cup Wide(\h21, \h17, 7),
   m94_words |->
     Wide(\h6d, 0, 1) \cup Wide(\h6f, 0, 5) \cup Wide(\h10, 2, 5),
   m115_errors |->
     Frames(\h3d, {<<0, a, b, c, d, 0>> : a \in {0, 32, 128}, b \in {0, 1, 3},
                                          c \in {0, 1}, d \in {0, 32, 96}})
       \cup Frames(\h3d, {<<0, 32>>, <<\h1c, 1>>, <<\h1c, 2>>})
       \cup Some(\h3d, \h1d, 0 .. 1) \cup Some(\h71, 0, {1, 4}),
   m115_modes |->
     Some(\h41, \h10, {0, 1, 5, 6}) \cup Some(\h3f, \h18, 0 .. 1)
       \cup Some(\h7b, 1, 0 .. 1) \cup Some(\h7b, 0, {2}) \cup Some(\h7b, \h0d, {3})
       \cup Frames(\h7d, {<<1, mode, 1>> : mode \in 0 .. 7}),
   m115_bits |->
     Wide(\h3d, 0, 6) \cup Wide(\h3e, 0, 4) \cup Wide(\h3f, 0, 4),
   m115_bytes |->
     Wide(\h10, 2, 4) \cup Wide(\h40, \h0d, 7) \cup Wide(\h4d, 6, 7) \cup Wide(\h4d, 7, 7)]

With(profile, products, traffics) ==
  [profile : {profile}, productID : products, traffic : traffics]

MCDecoders ==
  With("M94", {0}, {"m94_modes", "m94_values", "m94_bits", "m94_wide",
                     "m94_bytes", "m94_words"})
    \cup With("M115", {0, \h6098}, {"m115_errors", "m115_modes", "m115_bits",
                                       "m115_bytes"})
    \cup With("unknown", {0}, {"m94_modes"})
=============================================================================
