------------------------ MODULE GrowattFields_proofs ------------------------
(***************************************************************************)
(* Both readers of a tuple frame, for all payloads: the inductive          *)
(* invariant is only that the two records hold what Apply reads from some  *)
(* observation; the rest is arithmetic on bytes.                           *)
(***************************************************************************)
EXTENDS GrowattFields, TLAPS

IInv ==
  /\ latest \in {NothingRead} \cup {ReadingOf(o) : o \in Observations}
  /\ earlier \in {NothingRead} \cup {ReadingOf(o) : o \in Observations}

\* The records always hold the reading of an observation, or nothing.
THEOREM ReadingsAlways == Spec => []IInv
<1>1. Init => IInv
  BY DEF Init, IInv
<1>2. IInv /\ [Next]_vars => IInv'
  BY DEF IInv, Next, Apply, vars
<1>3. QED
  BY <1>1, <1>2, PTL DEF Spec

\* A big-endian word determines its two bytes.
LEMMA WordsTellBytesApart ==
  ASSUME NEW a \in [1 .. 8 -> U8], NEW b \in [1 .. 8 -> U8], NEW k \in 1 .. 7
  PROVE  /\ Word(a, k) \in Nat /\ Word(a, k) < 65536
         /\ Word(a, k) = Word(b, k) <=> a[k] = b[k] /\ a[k + 1] = b[k + 1]
<1> DEFINE h == a[k]
           l == a[k + 1]
           m == b[k]
           n == b[k + 1]
<1>1. k \in 1 .. 8 /\ k + 1 \in 1 .. 8
  OBVIOUS
<1>2. h \in U8 /\ l \in U8 /\ m \in U8 /\ n \in U8
  BY <1>1
<1>3. Word(a, k) = 256 * h + l /\ Word(b, k) = 256 * m + n
  BY DEF Word
<1> HIDE DEF h, l, m, n
<1>4. /\ 256 * h + l \in Nat /\ 256 * h + l < 65536
      /\ 256 * h + l = 256 * m + n => h = m /\ l = n
  <2>1. h \in 0 .. 255 /\ l \in 0 .. 255 /\ m \in 0 .. 255 /\ n \in 0 .. 255
    BY <1>2 DEF U8
  <2> QED
    BY <2>1, SMTT(20)
<1>5. Word(a, k) = Word(b, k) <=> h = m /\ l = n
  BY <1>3, <1>4, SMT
<1>6. QED
  BY <1>3, <1>4, <1>5, SMT DEF h, l, m, n

\* The sign is no loss.
LEMMA SignedTellsWordsApart ==
  ASSUME NEW v \in Nat, NEW w \in Nat, v < 65536, w < 65536, Signed(v) = Signed(w)
  PROVE  v = w
BY SMT DEF Signed

\* The high bit and the rest of the health byte.
LEMMA HealthTellsBytesApart ==
  ASSUME NEW a \in U8, NEW b \in U8
  PROVE  (a % 128 = b % 128 /\ (a >= 128 <=> b >= 128)) => a = b
BY SMTT(30) DEF U8

LEMMA SameBytes ==
  ASSUME NEW a \in [1 .. 8 -> U8], NEW b \in [1 .. 8 -> U8]
  PROVE  a = b <=> /\ a[1] = b[1] /\ a[2] = b[2] /\ a[3] = b[3] /\ a[4] = b[4]
                   /\ a[5] = b[5] /\ a[6] = b[6] /\ a[7] = b[7] /\ a[8] = b[8]
<1>1. 1 .. 8 = {1, 2, 3, 4, 5, 6, 7, 8}
  OBVIOUS
<1>2. QED
  BY <1>1

\* Without fields there is nothing to disagree about.
LEMMA NoFieldsDomain == DOMAIN NoFields = {}
BY DEF NoFields

\* The readers see the same fields in frames of one kind, up to the local ones.
LEMMA ReadersAgree ==
  ASSUME NEW o \in Observation
  PROVE  /\ \A field \in DOMAIN CommonFields(o) \cap DOMAIN NativeFields(o) :
              CommonFields(o)[field] = NativeFields(o)[field]
         /\ DOMAIN CommonFields(o) = DOMAIN NativeFields(o) \ LocalFields
<1>1. CASE o.id = "limits"
  BY <1>1 DEF CommonFields, NativeFields, LocalFields
<1>2. CASE o.id = "status"
  BY <1>2 DEF CommonFields, NativeFields, LocalFields
<1>3. CASE o.id = "measurements"
  BY <1>3 DEF CommonFields, NativeFields, LocalFields
<1>4. CASE o.id \notin TupleIds
  BY <1>4, NoFieldsDomain DEF TupleIds, CommonFields, NativeFields
<1>5. QED
  BY <1>1, <1>2, <1>3, <1>4 DEF TupleIds

\* A field that both readers show has one value, and on the selected source V1.04 adds
\* nothing but its local fields.
THEOREM FieldsAgree == Spec => []SharedFieldsAgree
<1>1. IInv => SharedFieldsAgree
  <2> SUFFICES ASSUME IInv
               PROVE  SharedFieldsAgree
    OBVIOUS
  <2>1. CASE latest = NothingRead
    BY <2>1, NoFieldsDomain DEF NothingRead, SharedFieldsAgree
  <2>2. ASSUME NEW o \in Observations, latest = ReadingOf(o)
        PROVE  SharedFieldsAgree
    <3>1. o \in Observation
      BY FieldsAssumption
    <3>2. /\ latest.native = Native(o) /\ latest.common = Common(o)
          /\ latest.kept <=> o.iface = Selected
      BY <2>2 DEF ReadingOf
    <3>3. CASE Native(o) = NoFields
      BY <3>2, <3>3, NoFieldsDomain DEF SharedFieldsAgree
    <3>4. CASE Common(o) = NoFields /\ o.iface # Selected
      BY <3>2, <3>4, NoFieldsDomain DEF SharedFieldsAgree
    <3>5. CASE /\ Native(o) = NativeFields(o) /\ o.geometry
               /\ o.iface = Selected
      <4>1. Common(o) = CommonFields(o)
        BY <3>5 DEF Common
      <4>2. QED
        BY <3>1, <3>2, <3>5, <4>1, ReadersAgree DEF SharedFieldsAgree
    <3>6. Native(o) = NoFields \/ (Native(o) = NativeFields(o) /\ o.geometry)
      BY DEF Native, Valid, FrameOf
    <3>7. Common(o) = NoFields \/ o.iface = Selected
      BY DEF Common
    <3>8. QED
      BY <3>3, <3>4, <3>5, <3>6, <3>7
  <2>3. QED
    BY <2>1, <2>2 DEF IInv
<1>2. QED
  BY <1>1, ReadingsAlways, PTL

\* All words of two payloads.
LEMMA PayloadsTellApart ==
  ASSUME NEW a \in [1 .. 8 -> U8], NEW b \in [1 .. 8 -> U8]
  PROVE  \A k \in 1 .. 7 :
           /\ Word(a, k) = Word(b, k) <=> a[k] = b[k] /\ a[k + 1] = b[k + 1]
           /\ Signed(Word(a, k)) = Signed(Word(b, k)) <=> a[k] = b[k] /\ a[k + 1] = b[k + 1]
<1> TAKE k \in 1 .. 7
<1>1. /\ Word(a, k) = Word(b, k) <=> a[k] = b[k] /\ a[k + 1] = b[k + 1]
      /\ Word(a, k) \in Nat /\ Word(a, k) < 65536
      /\ Word(b, k) \in Nat /\ Word(b, k) < 65536
  BY WordsTellBytesApart, SMT
<1>2. Signed(Word(a, k)) = Signed(Word(b, k)) => Word(a, k) = Word(b, k)
  BY <1>1, SignedTellsWordsApart, SMT
<1>3. QED
  BY <1>1, <1>2, SMT

\* V1.04 loses no byte.
LEMMA NativeIsLossless ==
  ASSUME NEW o \in Observation, NEW p \in Observation, o.id = p.id, o.id \in TupleIds
  PROVE  NativeFields(o) = NativeFields(p) <=> o.data = p.data
<1> DEFINE a == o.data
           b == p.data
<1>1. a \in [1 .. 8 -> U8] /\ b \in [1 .. 8 -> U8]
  BY DEF Observation
<1>2. \A k \in 1 .. 7 :
        /\ Word(a, k) = Word(b, k) <=> a[k] = b[k] /\ a[k + 1] = b[k + 1]
        /\ Signed(Word(a, k)) = Signed(Word(b, k)) <=> a[k] = b[k] /\ a[k + 1] = b[k + 1]
  BY <1>1, PayloadsTellApart
<1>3. \A k \in 1 .. 8 :
        (a[k] % 128 = b[k] % 128 /\ (a[k] >= 128 <=> b[k] >= 128)) <=> a[k] = b[k]
  BY <1>1, HealthTellsBytesApart, SMT
<1>4. a = b <=> /\ a[1] = b[1] /\ a[2] = b[2] /\ a[3] = b[3] /\ a[4] = b[4]
                /\ a[5] = b[5] /\ a[6] = b[6] /\ a[7] = b[7] /\ a[8] = b[8]
  BY <1>1, SameBytes
<1>5. CASE o.id = "limits"
  <2>1. NativeFields(o) = NativeFields(p) <=>
          /\ Word(a, 1) = Word(b, 1) /\ Word(a, 3) = Word(b, 3)
          /\ Word(a, 5) = Word(b, 5) /\ Word(a, 7) = Word(b, 7)
    BY <1>5, SMT DEF NativeFields
  <2>2. QED
    BY <2>1, <1>2, <1>4, SMT
<1>6. CASE o.id = "status"
  <2>1. NativeFields(o) = NativeFields(p) <=>
          /\ <<a[1], a[2]>> = <<b[1], b[2]>> /\ <<a[3], a[4]>> = <<b[3], b[4]>>
          /\ a[5] = b[5] /\ <<a[6], a[7]>> = <<b[6], b[7]>> /\ a[8] = b[8]
    BY <1>6, SMT DEF NativeFields
  <2>2. QED
    BY <2>1, <1>4
<1>7. CASE o.id = "measurements"
  <2>1. NativeFields(o) = NativeFields(p) <=>
          /\ Signed(Word(a, 1)) = Signed(Word(b, 1)) /\ Signed(Word(a, 3)) = Signed(Word(b, 3))
          /\ Signed(Word(a, 5)) = Signed(Word(b, 5)) /\ a[7] = b[7]
          /\ a[8] % 128 = b[8] % 128 /\ (a[8] >= 128) = (b[8] >= 128)
    BY <1>7, SMT DEF NativeFields
  <2>2. QED
    BY <2>1, <1>2, <1>3, <1>4, SMT
<1>8. QED
  BY <1>5, <1>6, <1>7 DEF TupleIds

\* The projector loses the local bits, and only those.
LEMMA CommonTellsSharedBits ==
  ASSUME NEW o \in Observation, NEW p \in Observation, o.id = p.id, o.id \in TupleIds
  PROVE  CommonFields(o) = CommonFields(p) <=> SharedBits(o) = SharedBits(p)
<1> DEFINE a == o.data
           b == p.data
<1>1. a \in [1 .. 8 -> U8] /\ b \in [1 .. 8 -> U8]
  BY DEF Observation
<1>2. \A k \in 1 .. 7 :
        /\ Word(a, k) = Word(b, k) <=> a[k] = b[k] /\ a[k + 1] = b[k + 1]
        /\ Signed(Word(a, k)) = Signed(Word(b, k)) <=> a[k] = b[k] /\ a[k + 1] = b[k + 1]
  BY <1>1, PayloadsTellApart
<1>3. CASE o.id = "limits"
  <2>1. CommonFields(o) = CommonFields(p) <=>
          /\ Word(a, 1) = Word(b, 1) /\ Word(a, 3) = Word(b, 3) /\ Word(a, 5) = Word(b, 5)
    BY <1>3, SMT DEF CommonFields
  <2>2. SharedBits(o) = SharedBits(p) <=>
          /\ a[1] = b[1] /\ a[2] = b[2] /\ a[3] = b[3]
          /\ a[4] = b[4] /\ a[5] = b[5] /\ a[6] = b[6]
    BY <1>3, SMT DEF SharedBits
  <2>3. QED
    BY <2>1, <2>2, <1>2, SMT
<1>4. CASE o.id = "status"
  <2>1. CommonFields(o) = CommonFields(p) <=>
          <<a[1], a[2]>> = <<b[1], b[2]>> /\ <<a[3], a[4]>> = <<b[3], b[4]>> /\ a[5] = b[5]
    BY <1>4, SMT DEF CommonFields
  <2>2. SharedBits(o) = SharedBits(p) <=>
          a[1] = b[1] /\ a[2] = b[2] /\ a[3] = b[3] /\ a[4] = b[4] /\ a[5] = b[5]
    BY <1>4, SMT DEF SharedBits
  <2>3. QED
    BY <2>1, <2>2
<1>5. CASE o.id = "measurements"
  <2>1. CommonFields(o) = CommonFields(p) <=>
          /\ Signed(Word(a, 1)) = Signed(Word(b, 1)) /\ Signed(Word(a, 3)) = Signed(Word(b, 3))
          /\ a[7] = b[7] /\ a[8] % 128 = b[8] % 128
    BY <1>5, SMT DEF CommonFields
  <2>2. SharedBits(o) = SharedBits(p) <=>
          /\ a[1] = b[1] /\ a[2] = b[2] /\ a[3] = b[3] /\ a[4] = b[4]
          /\ a[7] = b[7] /\ a[8] % 128 = b[8] % 128
    BY <1>5, SMT DEF SharedBits
  <2>3. QED
    BY <2>1, <2>2, <1>2, SMT
<1>6. QED
  BY <1>3, <1>4, <1>5 DEF TupleIds

\* Two frames of one kind read the same for V1.04 only if they are the same, and for the
\* projector exactly if they differ in revision-local bits alone.
THEOREM BytesToldApart == Spec => []FieldsTellBytesApart
<1>1. IInv => FieldsTellBytesApart
  <2> SUFFICES ASSUME IInv
               PROVE  FieldsTellBytesApart
    OBVIOUS
  <2>1. CASE latest = NothingRead \/ earlier = NothingRead
    BY <2>1 DEF NothingRead, FieldsTellBytesApart
  <2>2. ASSUME NEW o \in Observations, earlier = ReadingOf(o),
               NEW p \in Observations, latest = ReadingOf(p)
        PROVE  FieldsTellBytesApart
    <3>1. o \in Observation /\ p \in Observation
      BY FieldsAssumption
    <3>2. /\ earlier.seen = o /\ earlier.native = Native(o) /\ earlier.common = Common(o)
          /\ latest.seen = p /\ latest.native = Native(p) /\ latest.common = Common(p)
      BY <2>2 DEF ReadingOf
    <3>3. ASSUME Native(o) # NoFields, Native(p) # NoFields, o.id = p.id
          PROVE  Native(o) = Native(p) <=> o.data = p.data
      <4>1. Native(o) = NativeFields(o) /\ Native(p) = NativeFields(p)
        BY <3>3 DEF Native
      <4>2. o.id \in TupleIds
        BY <3>3, <4>1 DEF NativeFields, TupleIds
      <4>3. QED
        BY <3>1, <3>3, <4>1, <4>2, NativeIsLossless
    <3>4. ASSUME Common(o) # NoFields, Common(p) # NoFields, o.id = p.id
          PROVE  Common(o) = Common(p) <=> SharedBits(o) = SharedBits(p)
      <4>1. Common(o) = CommonFields(o) /\ Common(p) = CommonFields(p)
        BY <3>4 DEF Common
      <4>2. o.id \in TupleIds
        BY <3>4, <4>1 DEF CommonFields, TupleIds
      <4>3. QED
        BY <3>1, <3>4, <4>1, <4>2, CommonTellsSharedBits
    <3>5. QED
      BY <3>2, <3>3, <3>4 DEF FieldsTellBytesApart
  <2>3. QED
    BY <2>1, <2>2 DEF IInv
<1>2. QED
  BY <1>1, ReadingsAlways, PTL
=============================================================================
