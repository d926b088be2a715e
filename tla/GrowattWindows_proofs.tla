------------------------ MODULE GrowattWindows_proofs ------------------------
(***************************************************************************)
(* Facts about the observation ring and its newest frames, for every size  *)
(* of the ring.  The profile and the provider proofs cite them by name.    *)
(***************************************************************************)
EXTENDS GrowattWindows, FiniteSetTheorems, WellFoundedInduction, TLAPS

\* A ring whose held slots are the slots written so far, filled from S.
Filled(w, S) ==
  /\ w \in Window
  /\ w.count < WindowSize => w.next = w.count
  /\ \A s \in Held(w) : w.observations[s] \in S

\* The modular successor that append computes.
LEMMA NextSlot ==
  ASSUME NEW k \in Slots
  PROVE  /\ (k + 1) % WindowSize \in Slots
         /\ (k + 1) % WindowSize = IF k + 1 = WindowSize THEN 0 ELSE k + 1
BY WindowAssumption, Z3 DEF Slots

\* What append does to a window, component by component.
LEMMA AppendedParts ==
  ASSUME NEW w \in Window, NEW e \in Evidence
  PROVE  /\ Appended(w, e) \in Window
         /\ Appended(w, e).observations = [w.observations EXCEPT ![w.next] = e]
         /\ Appended(w, e).next = IF w.next + 1 = WindowSize THEN 0 ELSE w.next + 1
         /\ Appended(w, e).count = IF w.count < WindowSize THEN w.count + 1 ELSE w.count
         /\ Appended(w, e).lastAccess = w.lastAccess
<1> DEFINE n == (w.next + 1) % WindowSize
           c == IF w.count < WindowSize THEN w.count + 1 ELSE w.count
           o == [w.observations EXCEPT ![w.next] = e]
<1>1. w.next \in Slots
  BY DEF Window
<1>2. n \in Slots /\ n = IF w.next + 1 = WindowSize THEN 0 ELSE w.next + 1
  BY <1>1, NextSlot
<1>3. c \in 0 .. WindowSize
  BY WindowAssumption DEF Window
<1>4. o \in [Slots -> Evidence \cup {NoEvidence}]
  BY <1>1 DEF Window
<1>5. Appended(w, e) = [w EXCEPT !.observations = o, !.next = n, !.count = c]
  BY DEF Appended, Window
<1> HIDE DEF n, c, o
<1>6. /\ Appended(w, e) \in Window
      /\ Appended(w, e).observations = o
      /\ Appended(w, e).next = n
      /\ Appended(w, e).count = c
      /\ Appended(w, e).lastAccess = w.lastAccess
  BY <1>2, <1>3, <1>4, <1>5 DEF Window
<1> QED
  BY <1>2, <1>6 DEF c, o

LEMMA EmptyWindowFilled ==
  ASSUME NEW S
  PROVE  Filled(EmptyWindow, S)
BY WindowAssumption DEF Filled, EmptyWindow, Window, Held, Slots

\* Appending an element of S keeps a ring filled from S.
LEMMA AppendedFilled ==
  ASSUME NEW S, S \subseteq Evidence, NEW w, Filled(w, S), NEW e \in S
  PROVE  Filled(Appended(w, e), S)
<1> DEFINE a == Appended(w, e)
<1>1. w \in Window /\ e \in Evidence
  BY DEF Filled
<1>2. /\ a \in Window
      /\ a.observations = [w.observations EXCEPT ![w.next] = e]
      /\ a.next = IF w.next + 1 = WindowSize THEN 0 ELSE w.next + 1
      /\ a.count = IF w.count < WindowSize THEN w.count + 1 ELSE w.count
  BY <1>1, AppendedParts
<1>3. /\ w.next \in Slots
      /\ w.count \in 0 .. WindowSize
      /\ w.observations \in [Slots -> Evidence \cup {NoEvidence}]
  BY <1>1 DEF Window
<1> HIDE DEF a
<1>4. a.count < WindowSize => a.next = a.count
  BY <1>2, <1>3, WindowAssumption DEF Filled, Slots
<1>5. ASSUME NEW s \in Held(a)
      PROVE  a.observations[s] \in S
  <2>1. s \in Slots
    BY <1>2, <1>3, WindowAssumption DEF Held, Slots
  <2>2. CASE s = w.next
    BY <1>2, <1>3, <2>2
  <2>3. CASE s # w.next
    <3>1. s \in Held(w)
      BY <1>2, <1>3, <2>3, WindowAssumption DEF Held, Slots, Filled
    <3>2. a.observations[s] = w.observations[s]
      BY <1>2, <1>3, <2>1, <2>3
    <3> QED
      BY <3>1, <3>2 DEF Filled
  <2> QED
    BY <2>2, <2>3
<1> QED
  BY <1>2, <1>4, <1>5 DEF Filled, a
-----------------------------------------------------------------------------
\* A set of naturals has a least element.
LEMMA LeastNat ==
  ASSUME NEW T, T \subseteq Nat, T # {}
  PROVE  \E n \in T : \A m \in T : n <= m
<1> DEFINE R == OpToRel(<, Nat)
<1>1. IsWellFoundedOn(R, Nat)
  BY NatLessThanWellFounded
<1>2. PICK n \in T : \A m \in T : ~(<<m, n>> \in R)
  <2> HIDE DEF R
  <2> QED BY <1>1, WFMin
<1>3. \A m \in T : ~(m < n)
  BY <1>2 DEF OpToRel
<1> QED
  BY <1>3

\* A bounded set of naturals has a greatest element.
LEMMA GreatestNat ==
  ASSUME NEW b \in Nat, NEW T, T \subseteq 0 .. b, T # {}
  PROVE  \E n \in T : \A m \in T : m <= n
<1> DEFINE D == {b - n : n \in T}
<1>1. D \subseteq Nat /\ D # {}
  <2>1. D \subseteq Nat
    OBVIOUS
  <2>2. PICK n \in T : TRUE
    OBVIOUS
  <2>3. b - n \in D
    BY <2>2
  <2> QED
    BY <2>1, <2>3
<1>2. PICK d \in D : \A m \in D : d <= m
  <2> HIDE DEF D
  <2> QED BY <1>1, LeastNat
<1>3. PICK n \in T : d = b - n
  BY <1>2
<1>4. ASSUME NEW m \in T PROVE m <= n
  <2>1. b - m \in D
    OBVIOUS
  <2>2. d <= b - m
    BY <1>2, <2>1
  <2> QED
    BY <1>3, <2>2
<1> QED
  BY <1>4
-----------------------------------------------------------------------------
\* Among held frames of one kind there is a newest one, and NewestSlot is it.
LEMMA NewestSlotNewest ==
  ASSUME NEW b \in Nat, NEW S, S \subseteq {e \in Evidence : e.seq <= b},
         NEW w, Filled(w, S), NEW id \in TupleIds, SlotsOf(w, id) # {}
  PROVE  /\ NewestSlot(w, id) \in SlotsOf(w, id)
         /\ \A j \in SlotsOf(w, id) :
              w.observations[j].seq <= w.observations[NewestSlot(w, id)].seq
<1> DEFINE seq(i) == w.observations[i].seq
           T == {seq(i) : i \in SlotsOf(w, id)}
<1>1. \A i \in SlotsOf(w, id) : i \in 0 .. WindowSize /\ seq(i) \in 0 .. b
  BY WindowAssumption DEF SlotsOf, Held, Filled, Window, Evidence
<1>2. PICK s \in T : \A t \in T : t <= s
  <2>1. T \subseteq 0 .. b
    BY <1>1
  <2>2. T # {}
    <3>1. PICK i \in SlotsOf(w, id) : TRUE
      OBVIOUS
    <3>2. seq(i) \in T
      BY <3>1
    <3> QED
      BY <3>2
  <2> HIDE DEF T
  <2> QED
    BY <2>1, <2>2, GreatestNat
<1> DEFINE L == {i \in SlotsOf(w, id) : seq(i) = s}
<1>3. PICK n \in L : \A i \in L : i <= n
  <2>1. L \subseteq 0 .. WindowSize /\ L # {}
    BY <1>1, <1>2
  <2> HIDE DEF L
  <2> QED
    BY <2>1, GreatestNat, WindowAssumption
<1> DEFINE Newer(i) == \A j \in SlotsOf(w, id) : seq(j) < seq(i) \/ (seq(j) = seq(i) /\ j <= i)
<1>4. n \in SlotsOf(w, id) /\ Newer(n)
  <2>1. n \in SlotsOf(w, id) /\ seq(n) = s
    BY <1>3
  <2>2. ASSUME NEW j \in SlotsOf(w, id)
        PROVE  seq(j) < seq(n) \/ (seq(j) = seq(n) /\ j <= n)
    <3>1. seq(j) <= s
      BY <1>2
    <3>2. seq(j) = s => j <= n
      BY <1>3
    <3> QED
      BY <1>1, <2>1, <3>1, <3>2
  <2> QED
    BY <2>1, <2>2
<1>5. NewestSlot(w, id) = CHOOSE i \in SlotsOf(w, id) : Newer(i)
  BY DEF NewestSlot
<1>6. NewestSlot(w, id) \in SlotsOf(w, id) /\ Newer(NewestSlot(w, id))
  <2> HIDE DEF Newer
  <2> QED
    BY <1>4, <1>5
<1> QED
  BY <1>1, <1>6

\* What a projection is made of: held, valid frames of the three kinds, each
\* the newest of its kind.
LEMMA ProjectionHeld ==
  ASSUME NEW b \in Nat, NEW S, S \subseteq {e \in Evidence : e.seq <= b},
         NEW w, Filled(w, S)
  PROVE  /\ Projection(w) \in Projections
         /\ Projection(w) # NoProjection =>
              \A id \in TupleIds :
                /\ Projection(w)[id] \in S
                /\ Projection(w)[id].frame.id = id
                /\ Valid(Projection(w)[id].frame)
                /\ \A j \in SlotsOf(w, id) : w.observations[j].seq <= Projection(w)[id].seq
<1>1. CASE \E id \in TupleIds : Aggregate(w)[id] = NoEvidence
  BY <1>1 DEF Projection, Projections
<1>2. CASE \A id \in TupleIds : Aggregate(w)[id] # NoEvidence
  <2>1. Projection(w) = Aggregate(w)
    BY <1>2 DEF Projection
  <2>2. ASSUME NEW id \in TupleIds
        PROVE  /\ Projection(w)[id] \in S
               /\ Projection(w)[id].frame.id = id
               /\ Valid(Projection(w)[id].frame)
               /\ \A j \in SlotsOf(w, id) : w.observations[j].seq <= Projection(w)[id].seq
    <3>1. SlotsOf(w, id) # {} /\ Projection(w)[id] = w.observations[NewestSlot(w, id)]
      BY <1>2, <2>1 DEF Aggregate
    <3>2. /\ NewestSlot(w, id) \in SlotsOf(w, id)
          /\ \A j \in SlotsOf(w, id) :
               w.observations[j].seq <= w.observations[NewestSlot(w, id)].seq
      BY <3>1, NewestSlotNewest
    <3> QED
      BY <3>1, <3>2 DEF SlotsOf, Filled
  <2>3. Projection(w) \in [TupleIds -> Evidence]
    <3>1. Projection(w) = [id \in TupleIds |-> Projection(w)[id]]
      BY <2>1 DEF Aggregate
    <3>2. \A id \in TupleIds : Projection(w)[id] \in Evidence
      BY <2>2
    <3> QED
      BY <3>1, <3>2
  <2> QED
    BY <2>2, <2>3 DEF Projections
<1> QED
  BY <1>1, <1>2

\* One observation keeps a window filled from S, malformed or not, and leaves
\* the observation itself in it.
LEMMA ObservedFilled ==
  ASSUME NEW S, S \subseteq Evidence, NEW w, Filled(w, S), NEW e \in S, NEW clock \in Nat
  PROVE  Filled(Observed(w, e, clock), S)
<1> DEFINE kept == IF Malformed(e.frame) THEN EmptyWindow ELSE w
<1>1. Filled(kept, S)
  BY EmptyWindowFilled
<1>2. Filled(Appended(kept, e), S)
  <2> HIDE DEF kept
  <2> QED
    BY <1>1, AppendedFilled
<1>3. Observed(w, e, clock) = [Appended(kept, e) EXCEPT !.lastAccess = clock]
  BY DEF Observed
<1> HIDE DEF kept
<1>4. /\ Observed(w, e, clock) \in Window
      /\ Observed(w, e, clock).observations = Appended(kept, e).observations
      /\ Observed(w, e, clock).next = Appended(kept, e).next
      /\ Observed(w, e, clock).count = Appended(kept, e).count
      /\ Observed(w, e, clock).lastAccess = clock
  BY <1>2, <1>3 DEF Filled, Window
<1> QED
  BY <1>2, <1>4 DEF Filled, Held
-----------------------------------------------------------------------------
\* What one observation does to the table: its interface gets the observed
\* window, at most one other interface is dropped, nothing else changes, and
\* the table stays within its bound.
LEMMA ClassifiedParts ==
  ASSUME NEW windows, IsFiniteSet(DOMAIN windows),
         Cardinality(DOMAIN windows) <= MaximumInterfaces,
         NEW e, NEW clock, NEW t \in Classified(windows, e, clock)
  PROVE  /\ t = [i \in DOMAIN t |-> t[i]]
         /\ e.iface \in DOMAIN t
         /\ t[e.iface] = Observed(WindowFor(windows, e.iface), e, clock)
         /\ \A i \in DOMAIN t \ {e.iface} : i \in DOMAIN windows /\ t[i] = windows[i]
         /\ IsFiniteSet(DOMAIN t)
         /\ Cardinality(DOMAIN t) <= MaximumInterfaces
<1> DEFINE D == DOMAIN windows
<1>1. PICK room \in MakeRoom(windows, e.iface) :
        t = [i \in DOMAIN room \cup {e.iface} |->
               IF i = e.iface THEN Observed(WindowFor(windows, e.iface), e, clock) ELSE room[i]]
  BY DEF Classified
<1>2. /\ DOMAIN room \subseteq D
      /\ \A i \in DOMAIN room : room[i] = windows[i]
      /\ IsFiniteSet(DOMAIN room \cup {e.iface})
      /\ Cardinality(DOMAIN room \cup {e.iface}) <= MaximumInterfaces
  <2>1. CASE e.iface \in D
    <3>1. room = windows
      BY <2>1 DEF MakeRoom
    <3>2. DOMAIN room \cup {e.iface} = D
      BY <2>1, <3>1
    <3> QED
      BY <3>1, <3>2
  <2>2. CASE e.iface \notin D /\ Cardinality(D) # MaximumInterfaces
    <3>1. room = windows
      BY <2>2 DEF MakeRoom
    <3>2. Cardinality(D) \in Nat
      BY FS_CardinalityType
    <3>3. IsFiniteSet(D \cup {e.iface}) /\ Cardinality(D \cup {e.iface}) = Cardinality(D) + 1
      BY <2>2, FS_AddElement
    <3> QED
      BY <2>2, <3>1, <3>2, <3>3, WindowAssumption
  <2>3. CASE e.iface \notin D /\ Cardinality(D) = MaximumInterfaces
    <3>1. PICK v \in Oldest(windows) : room = [i \in D \ {v} |-> windows[i]]
      BY <2>3 DEF MakeRoom
    <3>2. v \in D /\ DOMAIN room = D \ {v}
      BY <3>1 DEF Oldest
    <3>3. IsFiniteSet(D \ {v}) /\ Cardinality(D \ {v}) = Cardinality(D) - 1
      BY <3>2, FS_RemoveElement
    <3>4. e.iface \notin D \ {v}
      BY <2>3
    <3>5. /\ IsFiniteSet((D \ {v}) \cup {e.iface})
          /\ Cardinality((D \ {v}) \cup {e.iface}) = Cardinality(D \ {v}) + 1
      BY <3>3, <3>4, FS_AddElement
    <3> QED
      BY <2>3, <3>1, <3>2, <3>3, <3>5, WindowAssumption
  <2> QED
    BY <2>1, <2>2, <2>3
<1> QED
  BY <1>1, <1>2

\* Which interfaces a table holds after an observation.
LEMMA HeldAfter ==
  ASSUME NEW t, NEW e, NEW clk, NEW u \in Classified(t, e, clk)
  PROVE  \/ e.iface \in DOMAIN t /\ DOMAIN u = DOMAIN t
         \/ /\ e.iface \notin DOMAIN t /\ Cardinality(DOMAIN t) # MaximumInterfaces
            /\ DOMAIN u = DOMAIN t \cup {e.iface}
         \/ /\ e.iface \notin DOMAIN t /\ Cardinality(DOMAIN t) = MaximumInterfaces
            /\ \E v \in Oldest(t) : DOMAIN u = (DOMAIN t \ {v}) \cup {e.iface}
<1>1. PICK room \in MakeRoom(t, e.iface) : DOMAIN u = DOMAIN room \cup {e.iface}
  BY DEF Classified
<1>2. CASE e.iface \in DOMAIN t
  BY <1>1, <1>2 DEF MakeRoom
<1>3. CASE e.iface \notin DOMAIN t /\ Cardinality(DOMAIN t) # MaximumInterfaces
  BY <1>1, <1>3 DEF MakeRoom
<1>4. CASE e.iface \notin DOMAIN t /\ Cardinality(DOMAIN t) = MaximumInterfaces
  <2>1. PICK v \in Oldest(t) : room = [i \in DOMAIN t \ {v} |-> t[i]]
    BY <1>1, <1>4 DEF MakeRoom
  <2>2. DOMAIN room = DOMAIN t \ {v}
    BY <2>1
  <2> QED
    BY <1>1, <1>4, <2>1, <2>2
<1> QED
  BY <1>2, <1>3, <1>4

\* The stamp of an observed window is the time of the observation.
LEMMA ObservedStamp ==
  ASSUME NEW S, S \subseteq Evidence, NEW w, Filled(w, S), NEW e \in S, NEW clk \in Nat
  PROVE  Observed(w, e, clk).lastAccess = clk
<1> DEFINE kept == IF Malformed(e.frame) THEN EmptyWindow ELSE w
<1>1. Filled(kept, S)
  BY EmptyWindowFilled
<1>2. Observed(w, e, clk) = [Appended(kept, e) EXCEPT !.lastAccess = clk]
  BY DEF Observed
<1> HIDE DEF kept
<1>3. Appended(kept, e) \in Window
  BY <1>1, AppendedParts DEF Filled
<1> QED
  BY <1>2, <1>3 DEF Window

\* A table of windows with different access times, none of them later than a clock.
Stamped(t, clk) ==
  /\ IsFiniteSet(DOMAIN t) /\ Cardinality(DOMAIN t) <= MaximumInterfaces
  /\ \A i \in DOMAIN t : t[i].lastAccess \in 1 .. clk
  /\ \A i, j \in DOMAIN t : t[i].lastAccess = t[j].lastAccess => i = j

LEMMA ClassifiedStamped ==
  ASSUME NEW clk \in Nat, NEW t, Stamped(t, clk), NEW S, S \subseteq Evidence,
         \A i \in DOMAIN t : Filled(t[i], S),
         NEW e \in S, NEW u \in Classified(t, e, clk + 1)
  PROVE  /\ Stamped(u, clk + 1) /\ e.iface \in DOMAIN u
         /\ \A i \in DOMAIN u : Filled(u[i], S)
<1> DEFINE i == e.iface
           w == WindowFor(t, i)
<1>1. /\ i \in DOMAIN u /\ u[i] = Observed(w, e, clk + 1)
      /\ \A j \in DOMAIN u \ {i} : j \in DOMAIN t /\ u[j] = t[j]
      /\ IsFiniteSet(DOMAIN u) /\ Cardinality(DOMAIN u) <= MaximumInterfaces
  <2>1. IsFiniteSet(DOMAIN t) /\ Cardinality(DOMAIN t) <= MaximumInterfaces
    BY DEF Stamped
  <2> QED
    BY <2>1, ClassifiedParts
<1>2. Filled(w, S)
  BY EmptyWindowFilled DEF WindowFor
<1>3. clk + 1 \in Nat
  OBVIOUS
<1> HIDE DEF w
<1>4. Filled(u[i], S) /\ u[i].lastAccess = clk + 1
  BY <1>1, <1>2, <1>3, ObservedFilled, ObservedStamp
<1>5. \A j \in DOMAIN u \ {i} : u[j].lastAccess \in 1 .. clk
  BY <1>1 DEF Stamped
<1>6. \A j \in DOMAIN u : u[j].lastAccess \in 1 .. clk + 1
  BY <1>4, <1>5
<1>7. ASSUME NEW j \in DOMAIN u, NEW k \in DOMAIN u, u[j].lastAccess = u[k].lastAccess
      PROVE  j = k
  <2>1. CASE j # i /\ k # i
    BY <1>1, <1>7, <2>1 DEF Stamped
  <2>2. CASE j = i \/ k = i
    BY <1>4, <1>5, <1>7, <2>2
  <2> QED
    BY <2>1, <2>2
<1>8. Stamped(u, clk + 1)
  BY <1>1, <1>6, <1>7 DEF Stamped
<1> QED
  BY <1>1, <1>4, <1>8

\* The victim of an eviction is unique, and so is the table after an observation,
\* in whatever order Go visits the map.
LEMMA ClassifiedUnique ==
  ASSUME NEW clk \in Nat, NEW t, Stamped(t, clk), NEW e, NEW time,
         NEW u \in Classified(t, e, time), NEW v \in Classified(t, e, time)
  PROVE  u = v
<1>1. \A x, y \in Oldest(t) : x = y
  <2>1. ASSUME NEW x \in Oldest(t), NEW y \in Oldest(t)
        PROVE  t[x].lastAccess = t[y].lastAccess /\ x \in DOMAIN t /\ y \in DOMAIN t
    <3>1. /\ x \in DOMAIN t /\ y \in DOMAIN t
          /\ t[x].lastAccess <= t[y].lastAccess /\ t[y].lastAccess <= t[x].lastAccess
      BY DEF Oldest
    <3>2. t[x].lastAccess \in Int /\ t[y].lastAccess \in Int
      BY <3>1 DEF Stamped
    <3> QED
      BY <3>1, <3>2
  <2> QED
    BY <2>1 DEF Stamped
<1>2. \A room, other \in MakeRoom(t, e.iface) : room = other
  BY <1>1 DEF MakeRoom
<1> DEFINE After(room) ==
      [i \in DOMAIN room \cup {e.iface} |->
         IF i = e.iface THEN Observed(WindowFor(t, e.iface), e, time) ELSE room[i]]
<1>3. PICK room \in MakeRoom(t, e.iface) : u = After(room)
  BY DEF Classified
<1>4. PICK other \in MakeRoom(t, e.iface) : v = After(other)
  BY DEF Classified
<1>5. room = other
  BY <1>2
<1> HIDE DEF After
<1> QED
  BY <1>3, <1>4, <1>5
=============================================================================
