------------------------- MODULE GrowattV104_proofs -------------------------
(***************************************************************************)
(* The safety of the V1.04 profile for every number of interfaces, every   *)
(* ring size, every table size and every length of run.                    *)
(***************************************************************************)
EXTENDS GrowattV104, GrowattWindows_proofs

\* Observations of interface i, with sequences within the bound.
ObservationsOf(i) == {e \in Evidence : e.iface = i /\ e.seq <= MaxSequence}

\* The inductive invariant.  What an answer is made of is only known through
\* the ring it was taken from, hence RingsInStep and the filled windows.
IInv ==
  /\ TypeOK
  /\ IsFiniteSet(DOMAIN windows)
  /\ \A i \in DOMAIN windows : Filled(windows[i], ObservationsOf(i))
  /\ RecencyDistinct
  /\ RingsInStep
  /\ TupleIsFresh

\* The observation a step presents.
Input(iface, frame, seq) ==
  [frame |-> frame, iface |-> iface, seq |-> seq, mark |-> arrivals[iface] + 1]
-----------------------------------------------------------------------------
\* No held observation is as old as the ring is long.
LEMMA AgeBounded ==
  ASSUME NEW w \in Window, w.count < WindowSize => w.next = w.count, NEW s \in Held(w)
  PROVE  Age(w, s) \in 0 .. WindowSize - 1
<1>1. w.next \in 0 .. WindowSize - 1 /\ w.count \in 0 .. WindowSize
  BY DEF Window, Slots
<1>2. s \in 0 .. w.count - 1
  BY DEF Held
<1>3. CASE s < w.next
  <2>1. Age(w, s) = w.next - 1 - s
    BY <1>3 DEF Age
  <2> QED
    BY <1>1, <1>2, <1>3, <2>1, WindowAssumption
<1>4. CASE ~(s < w.next)
  <2>1. Age(w, s) = w.next - 1 - s + WindowSize
    BY <1>4 DEF Age
  <2> QED
    BY <1>1, <1>2, <1>4, <2>1, WindowAssumption
<1> QED
  BY <1>3, <1>4

\* A ring in step with its history stays in step over one observation; a
\* malformed listed frame moves the start of the history up to itself.
LEMMA ObservedInStep ==
  ASSUME NEW w, NEW i, NEW arr \in Nat, NEW from \in Nat, from <= arr,
         w \in Window, InStep(w, i, arr, from),
         NEW e \in Evidence, e.iface = i, e.mark = arr + 1, NEW clk \in Nat
  PROVE  InStep(Observed(w, e, clk), i, arr + 1,
                IF Malformed(e.frame) THEN arr + 1 ELSE from)
<1> DEFINE kept == IF Malformed(e.frame) THEN EmptyWindow ELSE w
           a == Appended(kept, e)
           from2 == IF Malformed(e.frame) THEN arr + 1 ELSE from
<1>1. kept \in Window /\ InStep(kept, i, arr, from)
  <2>1. EmptyWindow \in Window
    BY EmptyWindowFilled DEF Filled
  <2>2. InStep(EmptyWindow, i, arr, from)
    BY WindowAssumption DEF InStep, EmptyWindow, Held
  <2> QED
    BY <2>1, <2>2
<1>2. kept.count = 0 \/ from2 = from
  BY DEF EmptyWindow
<1>3. arr + 1 >= from2 /\ (Valid(e.frame) => arr + 1 > from2)
  BY DEF Malformed
<1>4. from2 \in Nat
  OBVIOUS
<1>5. Observed(w, e, clk) = [a EXCEPT !.lastAccess = clk]
  BY DEF Observed
<1> HIDE DEF kept, from2
<1>6. /\ a \in Window
      /\ a.observations = [kept.observations EXCEPT ![kept.next] = e]
      /\ a.next = IF kept.next + 1 = WindowSize THEN 0 ELSE kept.next + 1
      /\ a.count = IF kept.count < WindowSize THEN kept.count + 1 ELSE kept.count
  BY <1>1, AppendedParts
<1>7. /\ kept.next \in Slots
      /\ kept.count \in 0 .. WindowSize
      /\ kept.observations \in [Slots -> Evidence \cup {NoEvidence}]
  BY <1>1 DEF Window
<1> HIDE DEF a
<1>8. a.count < WindowSize => a.next = a.count
  BY <1>1, <1>6, <1>7, WindowAssumption DEF InStep, Slots
<1>9. ASSUME NEW s \in Held(a)
      PROVE  /\ a.observations[s] \in Evidence
             /\ a.observations[s].iface = i
             /\ a.observations[s].mark = (arr + 1) - Age(a, s)
             /\ a.observations[s].mark >= from2
             /\ Valid(a.observations[s].frame) => a.observations[s].mark > from2
  <2>1. s \in Slots /\ s \in Int /\ kept.next \in Int
    BY <1>6, <1>7, WindowAssumption DEF Held, Slots
  <2>2. CASE s = kept.next
    <3>1. a.observations[s] = e
      BY <1>6, <1>7, <2>2
    <3>2. Age(a, s) = 0
      BY <1>6, <1>7, <2>2, WindowAssumption DEF Age, Slots
    <3> QED
      BY <3>1, <3>2, <1>3
  <2>3. CASE s # kept.next
    <3>1. s \in Held(kept)
      BY <1>1, <1>6, <1>7, <2>3, WindowAssumption DEF Held, Slots, InStep
    <3>2. a.observations[s] = kept.observations[s]
      BY <1>6, <1>7, <2>1, <2>3
    <3>3. Age(a, s) = Age(kept, s) + 1
      <4>1. Age(kept, s) = IF s < kept.next THEN kept.next - 1 - s
                           ELSE kept.next - 1 - s + WindowSize
        BY DEF Age
      <4>2. Age(a, s) = IF s < a.next THEN a.next - 1 - s ELSE a.next - 1 - s + WindowSize
        BY DEF Age
      <4>3. /\ WindowSize \in Nat /\ s \in 0 .. WindowSize - 1
            /\ kept.next \in 0 .. WindowSize - 1
            /\ a.next = IF kept.next + 1 = WindowSize THEN 0 ELSE kept.next + 1
        BY <1>6, <1>7, <2>1, WindowAssumption DEF Slots
      <4> QED
        BY <4>1, <4>2, <4>3, <2>3
    <3>4. Age(kept, s) \in Int
      BY <1>7, <2>1, WindowAssumption DEF Age, Slots
    <3>5. from2 = from
      BY <1>2, <1>7, <3>1 DEF Held
    <3>6. /\ kept.observations[s] \in Evidence
          /\ kept.observations[s].iface = i
          /\ kept.observations[s].mark = arr - Age(kept, s)
          /\ kept.observations[s].mark >= from
          /\ Valid(kept.observations[s].frame) => kept.observations[s].mark > from
      BY <1>1, <3>1 DEF InStep
    <3> QED
      BY <3>2, <3>3, <3>4, <3>5, <3>6
  <2> QED
    BY <2>2, <2>3
<1>10. /\ Observed(w, e, clk).observations = a.observations
       /\ Observed(w, e, clk).next = a.next
       /\ Observed(w, e, clk).count = a.count
  BY <1>5, <1>6 DEF Window
<1>11. InStep(Observed(w, e, clk), i, arr + 1, from2)
  <2> DEFINE o == Observed(w, e, clk)
  <2>1. Held(o) = Held(a) /\ \A s \in Held(a) : Age(o, s) = Age(a, s)
    BY <1>10 DEF Held, Age
  <2>2. o.count < WindowSize => o.next = o.count
    BY <1>8, <1>10
  <2>3. ASSUME NEW s \in Held(o)
        PROVE  /\ o.observations[s] \in Evidence
               /\ o.observations[s].iface = i
               /\ o.observations[s].mark = (arr + 1) - Age(o, s)
               /\ o.observations[s].mark >= from2
               /\ Valid(o.observations[s].frame) => o.observations[s].mark > from2
    BY <1>9, <1>10, <2>1
  <2> HIDE DEF o
  <2>4. InStep(o, i, arr + 1, from2)
    BY <2>2, <2>3 DEF InStep
  <2> QED
    BY <2>4 DEF o
<1> QED
  BY <1>11 DEF from2
-----------------------------------------------------------------------------
LEMMA InitIInv == Init => IInv
<1> SUFFICES ASSUME Init PROVE IInv
  OBVIOUS
<1>1. DOMAIN windows = {} /\ windows \in [{} -> Window]
  BY DEF Init, EmptyTable
<1>2. TypeOK
  BY <1>1, V104Assumption DEF Init, TypeOK, Projections
<1>3. IsFiniteSet(DOMAIN windows) /\ Cardinality(DOMAIN windows) = 0
  BY <1>1, FS_EmptySet
<1>4. RecencyDistinct
  BY <1>1, <1>3, WindowAssumption DEF RecencyDistinct
<1>5. RingsInStep
  BY <1>1 DEF Init, RingsInStep
<1>6. TupleIsFresh
  BY DEF Init, TupleIsFresh
<1> QED
  BY <1>1, <1>2, <1>3, <1>4, <1>5, <1>6 DEF IInv

\* An observation the model presents is evidence of its own interface.
LEMMA InputType ==
  ASSUME TypeOK, NEW iface \in Interfaces, NEW frame \in Frames, NEW seq \in 0 .. MaxSequence
  PROVE  /\ Input(iface, frame, seq) \in ObservationsOf(iface)
         /\ Input(iface, frame, seq) \in Evidence
         /\ Input(iface, frame, seq).iface = iface
         /\ Input(iface, frame, seq).mark = arrivals[iface] + 1
<1>1. arrivals[iface] + 1 \in Nat
  BY DEF TypeOK
<1>2. frame \in Frame /\ seq \in Nat /\ seq <= MaxSequence
  BY V104Assumption
<1> QED
  BY <1>1, <1>2 DEF Input, ObservationsOf, Evidence

LEMMA RefusedIInv ==
  ASSUME IInv, NEW e \in Evidence, ClassifyRefused(e)
  PROVE  IInv'
<1>1. TypeOK'
  BY DEF IInv, TypeOK, ClassifyRefused, Projections
<1>2. RecencyDistinct' /\ RingsInStep'
  BY DEF IInv, RecencyDistinct, RingsInStep, InStep, Age, ClassifyRefused
<1>3. TupleIsFresh'
  BY DEF TupleIsFresh, ClassifyRefused
<1>4. \A i \in DOMAIN windows' : Filled(windows'[i], ObservationsOf(i))
  BY DEF IInv, ClassifyRefused
<1>5. IsFiniteSet(DOMAIN windows')
  BY DEF IInv, ClassifyRefused
<1> QED
  BY <1>1, <1>2, <1>3, <1>4, <1>5 DEF IInv

LEMMA ObservedIInv ==
  ASSUME IInv, NEW e, e \in ObservationsOf(e.iface), e.mark = arrivals[e.iface] + 1,
         ClassifyObserved(e)
  PROVE  IInv'
<1> DEFINE i == e.iface
           w == WindowFor(windows, i)
<1>1. /\ e \in Evidence /\ i \in ValidInterfaces /\ i \in Interfaces
      /\ clock \in Nat /\ clock' = clock + 1 /\ clock' \in 0 .. MaxClock
      /\ DOMAIN windows \subseteq ValidInterfaces
      /\ arrivals \in [Interfaces -> Nat] /\ since \in [Interfaces -> Nat]
  BY InterfaceAssumption, V104Assumption DEF IInv, TypeOK, ObservationsOf, ClassifyObserved
<1>2. /\ windows' = [j \in DOMAIN windows' |-> windows'[j]]
      /\ i \in DOMAIN windows'
      /\ windows'[i] = Observed(w, e, clock')
      /\ \A j \in DOMAIN windows' \ {i} : j \in DOMAIN windows /\ windows'[j] = windows[j]
      /\ IsFiniteSet(DOMAIN windows')
      /\ Cardinality(DOMAIN windows') <= MaximumInterfaces
  <2>1. windows' \in Classified(windows, e, clock')
    BY DEF ClassifyObserved
  <2>2. IsFiniteSet(DOMAIN windows) /\ Cardinality(DOMAIN windows) <= MaximumInterfaces
    BY DEF IInv, RecencyDistinct
  <2> QED
    BY <2>1, <2>2, ClassifiedParts
<1>3. Filled(w, ObservationsOf(i)) /\ w \in Window
  BY EmptyWindowFilled DEF WindowFor, IInv, Filled
<1>4. InStep(w, i, arrivals[i], since[i])
  <2>1. InStep(EmptyWindow, i, arrivals[i], since[i])
    BY WindowAssumption DEF InStep, EmptyWindow, Held
  <2> QED
    BY <2>1 DEF WindowFor, IInv, RingsInStep
<1>5. Filled(windows'[i], ObservationsOf(i))
  <2>1. ObservationsOf(i) \subseteq Evidence /\ clock' \in Nat
    BY <1>1 DEF ObservationsOf
  <2> HIDE DEF w
  <2> QED
    BY <1>2, <1>3, <2>1, ObservedFilled
<1>6. \A j \in DOMAIN windows' : Filled(windows'[j], ObservationsOf(j))
  BY <1>2, <1>5 DEF IInv
<1>7. windows' \in [DOMAIN windows' -> Window] /\ DOMAIN windows' \subseteq ValidInterfaces
  <2>1. \A j \in DOMAIN windows' : windows'[j] \in Window
    BY <1>6 DEF Filled
  <2>2. DOMAIN windows' \subseteq ValidInterfaces
    BY <1>1, <1>2
  <2> QED
    BY <1>2, <2>1, <2>2
<1>8. /\ arrivals' \in [Interfaces -> Nat]
      /\ arrivals'[i] = arrivals[i] + 1
      /\ \A j \in Interfaces \ {i} : arrivals'[j] = arrivals[j]
  BY <1>1 DEF ClassifyObserved
<1>9. /\ since' \in [Interfaces -> Nat]
      /\ since'[i] = IF Malformed(e.frame) THEN arrivals[i] + 1 ELSE since[i]
      /\ \A j \in Interfaces : since'[j] <= arrivals'[j]
      /\ \A j \in DOMAIN windows' \ {i} : since'[j] = since[j]
  <2>1. since' = [j \in Interfaces |->
                    IF j = i /\ Malformed(e.frame) THEN arrivals'[j]
                    ELSE IF j \in DOMAIN windows \ DOMAIN windows' THEN arrivals[j]
                    ELSE since[j]]
    BY DEF ClassifyObserved
  <2>2. \A j \in Interfaces : since[j] <= arrivals[j]
    BY DEF IInv, RingsInStep
  <2>3. DOMAIN windows' \subseteq Interfaces
    BY <1>7, InterfaceAssumption
  <2>4. since' \in [Interfaces -> Nat]
    BY <1>1, <1>8, <2>1
  <2>5. since'[i] = IF Malformed(e.frame) THEN arrivals[i] + 1 ELSE since[i]
    BY <1>1, <1>2, <1>8, <2>1
  <2>6. ASSUME NEW j \in Interfaces PROVE since'[j] <= arrivals'[j]
    <3>1. since[j] \in Nat /\ arrivals[j] \in Nat /\ arrivals'[j] \in Nat /\ arrivals[j] <= arrivals'[j]
      BY <1>1, <1>8
    <3>2. since'[j] = arrivals'[j] \/ since'[j] = arrivals[j] \/ since'[j] = since[j]
      BY <2>1
    <3> QED
      BY <2>2, <3>1, <3>2
  <2>7. \A j \in DOMAIN windows' \ {i} : since'[j] = since[j]
    BY <2>1, <2>3
  <2> QED
    BY <2>4, <2>5, <2>6, <2>7
<1>10. InStep(windows'[i], i, arrivals'[i], since'[i])
  <2>1. /\ arrivals[i] \in Nat /\ since[i] \in Nat /\ since[i] <= arrivals[i]
        /\ clock' \in Nat
    BY <1>1 DEF IInv, RingsInStep
  <2> HIDE DEF w
  <2>2. InStep(Observed(w, e, clock'), i, arrivals[i] + 1,
               IF Malformed(e.frame) THEN arrivals[i] + 1 ELSE since[i])
    BY <1>1, <1>3, <1>4, <2>1, ObservedInStep
  <2> QED
    BY <1>2, <1>8, <1>9, <2>2
<1>11. RingsInStep'
  <2>1. ASSUME NEW j \in DOMAIN windows', j # i
        PROVE  InStep(windows'[j], j, arrivals'[j], since'[j])
    <3>1. /\ windows'[j] = windows[j] /\ since'[j] = since[j] /\ j \in DOMAIN windows
          /\ arrivals'[j] = arrivals[j]
      BY <1>1, <1>2, <1>8, <1>9, <2>1, InterfaceAssumption
    <3> QED
      BY <3>1 DEF IInv, RingsInStep
  <2>2. \A j \in DOMAIN windows' : InStep(windows'[j], j, arrivals'[j], since'[j])
    BY <1>10, <2>1
  <2> QED
    BY <1>9, <2>2 DEF RingsInStep, InStep, Age
<1>12. RecencyDistinct'
  <2>1. windows'[i].lastAccess = clock + 1
    <3>1. Observed(w, e, clock') \in Window
      BY <1>2, <1>5 DEF Filled
    <3>2. Observed(w, e, clock') =
            [Appended(IF Malformed(e.frame) THEN EmptyWindow ELSE w, e) EXCEPT !.lastAccess = clock']
      BY DEF Observed
    <3>3. Appended(IF Malformed(e.frame) THEN EmptyWindow ELSE w, e) \in Window
      BY <1>1, <1>3, EmptyWindowFilled, AppendedParts DEF Filled
    <3> HIDE DEF w
    <3> QED
      BY <1>1, <1>2, <3>2, <3>3 DEF Window
  <2>2. \A j \in DOMAIN windows' \ {i} : windows'[j].lastAccess \in 1 .. clock
    BY <1>2 DEF IInv, RecencyDistinct
  <2>3. ASSUME NEW j \in DOMAIN windows', NEW k \in DOMAIN windows',
               windows'[j].lastAccess = windows'[k].lastAccess
        PROVE  j = k
    <3>1. CASE j # i /\ k # i
      BY <1>2, <2>3, <3>1 DEF IInv, RecencyDistinct
    <3>2. CASE j = i \/ k = i
      BY <1>1, <2>1, <2>2, <2>3, <3>2
    <3> QED
      BY <3>1, <3>2
  <2>4. \A j \in DOMAIN windows' : windows'[j].lastAccess \in 1 .. clock'
    BY <1>1, <2>1, <2>2
  <2> QED
    BY <1>2, <2>3, <2>4 DEF RecencyDistinct
<1>13. answer' = [observed |-> e, tuple |-> Projection(windows'[i])]
  BY DEF ClassifyObserved
<1>14. Projection(windows'[i]) \in Projections /\ TupleIsFresh'
  <2> DEFINE S == {x \in ObservationsOf(i) :
                     /\ Valid(x.frame) => x.mark > since'[i]
                     /\ x.mark \in arrivals'[i] - WindowSize + 1 .. arrivals'[i]}
  <2>1. S \subseteq {x \in Evidence : x.seq <= MaxSequence}
    BY DEF ObservationsOf
  <2>2. Filled(windows'[i], S)
    <3> DEFINE v == windows'[i]
    <3>1. /\ v \in Window
          /\ v.count < WindowSize => v.next = v.count
          /\ \A s \in Held(v) : v.observations[s] \in ObservationsOf(i)
      BY <1>5 DEF Filled
    <3>2. ASSUME NEW s \in Held(v) PROVE v.observations[s] \in S
      <4>1. /\ v.observations[s].mark = arrivals'[i] - Age(v, s)
            /\ Valid(v.observations[s].frame) => v.observations[s].mark > since'[i]
        BY <1>10 DEF InStep
      <4>2. Age(v, s) \in 0 .. WindowSize - 1
        BY <3>1, AgeBounded
      <4>3. arrivals'[i] \in Nat
        BY <1>1, <1>8
      <4>4. v.observations[s].mark \in arrivals'[i] - WindowSize + 1 .. arrivals'[i]
        BY <4>1, <4>2, <4>3, WindowAssumption
      <4> QED
        BY <3>1, <4>1, <4>4
    <3> QED
      BY <3>1, <3>2 DEF Filled
  <2>3. /\ Projection(windows'[i]) \in Projections
        /\ Projection(windows'[i]) # NoProjection =>
             \A id \in TupleIds :
               /\ Projection(windows'[i])[id] \in S
               /\ Projection(windows'[i])[id].frame.id = id
               /\ Valid(Projection(windows'[i])[id].frame)
    <3>1. MaxSequence \in Nat
      BY V104Assumption
    <3> DEFINE v == windows'[i]
    <3>2. Filled(v, S)
      BY <2>2
    <3> HIDE DEF S, v
    <3>3. /\ Projection(v) \in Projections
          /\ Projection(v) # NoProjection =>
               \A id \in TupleIds :
                 /\ Projection(v)[id] \in S
                 /\ Projection(v)[id].frame.id = id
                 /\ Valid(Projection(v)[id].frame)
                 /\ \A j \in SlotsOf(v, id) : v.observations[j].seq <= Projection(v)[id].seq
      BY <2>1, <3>1, <3>2, ProjectionHeld
    <3> QED
      BY <3>3 DEF v
  <2>4. TupleIsFresh'
    BY <1>13, <2>3 DEF TupleIsFresh, ObservationsOf
  <2> QED
    BY <2>3, <2>4
<1>15. TypeOK'
  BY <1>1, <1>7, <1>8, <1>9, <1>13, <1>14 DEF TypeOK
<1> QED
  BY <1>2, <1>6, <1>11, <1>12, <1>14, <1>15 DEF IInv

LEMMA NextIInv == IInv /\ [Next]_vars => IInv'
<1> SUFFICES ASSUME IInv, [Next]_vars PROVE IInv'
  OBVIOUS
<1>1. CASE Next
  <2>1. PICK iface \in Interfaces, frame \in Frames, seq \in 0 .. MaxSequence :
          Classify(Input(iface, frame, seq))
    BY <1>1 DEF Next, Input
  <2> DEFINE e == Input(iface, frame, seq)
  <2>2. /\ e \in ObservationsOf(e.iface) /\ e \in Evidence
        /\ e.mark = arrivals[e.iface] + 1
    BY InputType DEF IInv
  <2> HIDE DEF e
  <2>3. CASE ClassifyRefused(e)
    BY <2>2, <2>3, RefusedIInv
  <2>4. CASE ClassifyObserved(e)
    BY <2>2, <2>4, ObservedIInv
  <2> QED
    BY <2>1, <2>3, <2>4 DEF Classify, e
<1>2. CASE UNCHANGED vars
  BY <1>2 DEF vars, IInv, TypeOK, RecencyDistinct, RingsInStep, InStep, Age, TupleIsFresh
<1> QED
  BY <1>1, <1>2

\* The strengthened invariant holds in every reachable state.
THEOREM IInvAlways == Spec => []IInv
BY InitIInv, NextIInv, PTL DEF Spec

\* The state of the profile is well typed.
THEOREM TypeCorrect == Spec => []TypeOK
<1>1. IInv => TypeOK
  BY DEF IInv
<1> QED
  BY <1>1, IInvAlways, PTL

\* Held windows have distinct access times, so that eviction by a scan in any
\* order picks the same victim, and the table stays within its bound.
THEOREM EvictionDeterministic == Spec => []RecencyDistinct
<1>1. IInv => RecencyDistinct
  BY DEF IInv
<1> QED
  BY <1>1, IInvAlways, PTL

\* Every ring holds exactly the latest observations of its interface.
THEOREM RingsFollowHistory == Spec => []RingsInStep
<1>1. IInv => RingsInStep
  BY DEF IInv
<1> QED
  BY <1>1, IInvAlways, PTL

\* No answer mixes interfaces or reaches past a malformed frame, an eviction or
\* the size of the ring, whatever the sequences and the order of observations.
THEOREM AnswersAreFresh == Spec => []TupleIsFresh
<1>1. IInv => TupleIsFresh
  BY DEF IInv
<1> QED
  BY <1>1, IInvAlways, PTL
-----------------------------------------------------------------------------
(* The contract.  Held windows in the order of their access times.         *)

Ordered(t) ==
  /\ IsFiniteSet(DOMAIN t)
  /\ \A i \in DOMAIN t : t[i].lastAccess \in Nat
  /\ \A i, j \in DOMAIN t : t[i].lastAccess = t[j].lastAccess => i = j

\* The windows accessed no earlier than one.
NoEarlier(t, i) == {j \in DOMAIN t : t[j].lastAccess >= t[i].lastAccess}

LEMMA RankType ==
  ASSUME NEW t, Ordered(t), NEW i \in DOMAIN t
  PROVE  /\ Rank(t, i) \in 1 .. Cardinality(DOMAIN t)
         /\ Cardinality(DOMAIN t) \in Nat
         /\ IsFiniteSet(NoEarlier(t, i)) /\ Rank(t, i) = Cardinality(NoEarlier(t, i))
<1>1. IsFiniteSet(DOMAIN t) /\ Cardinality(DOMAIN t) \in Nat
  BY FS_CardinalityType DEF Ordered
<1>2. NoEarlier(t, i) \in SUBSET DOMAIN t /\ i \in NoEarlier(t, i)
  BY DEF NoEarlier, Ordered
<1>3. /\ IsFiniteSet(NoEarlier(t, i))
      /\ Cardinality(NoEarlier(t, i)) <= Cardinality(DOMAIN t)
  BY <1>1, <1>2, FS_Subset
<1>4. Cardinality(NoEarlier(t, i)) \in Nat
  BY <1>3, FS_CardinalityType
<1>5. Cardinality(NoEarlier(t, i)) # 0
  BY <1>2, <1>3, FS_EmptySet
<1>6. Rank(t, i) = Cardinality(NoEarlier(t, i))
  BY DEF Rank, NoEarlier
<1> QED
  BY <1>1, <1>3, <1>4, <1>5, <1>6

\* The later the access, the smaller the rank.
LEMMA RankLess ==
  ASSUME NEW t, Ordered(t), NEW i \in DOMAIN t, NEW j \in DOMAIN t,
         t[i].lastAccess < t[j].lastAccess
  PROVE  Rank(t, j) < Rank(t, i)
<1>1. NoEarlier(t, j) \in SUBSET NoEarlier(t, i)
  BY DEF NoEarlier, Ordered
<1>2. i \in NoEarlier(t, i) /\ i \notin NoEarlier(t, j)
  BY DEF NoEarlier, Ordered
<1>3. /\ IsFiniteSet(NoEarlier(t, i)) /\ Rank(t, i) = Cardinality(NoEarlier(t, i))
      /\ Rank(t, j) = Cardinality(NoEarlier(t, j))
      /\ Rank(t, i) \in Int /\ Rank(t, j) \in Int
  BY RankType
<1>4. /\ Cardinality(NoEarlier(t, j)) <= Cardinality(NoEarlier(t, i))
      /\ Cardinality(NoEarlier(t, j)) # Cardinality(NoEarlier(t, i))
  BY <1>1, <1>2, <1>3, FS_Subset
<1> QED
  BY <1>3, <1>4

LEMMA RankUnique ==
  ASSUME NEW t, Ordered(t), NEW i \in DOMAIN t, NEW j \in DOMAIN t, Rank(t, i) = Rank(t, j)
  PROVE  i = j
<1>1. Rank(t, i) \in Int /\ Rank(t, j) \in Int
  BY RankType
<1>2. ~(t[i].lastAccess < t[j].lastAccess) /\ ~(t[j].lastAccess < t[i].lastAccess)
  BY <1>1, RankLess
<1> QED
  BY <1>2 DEF Ordered

LEMMA RankOnto ==
  ASSUME NEW t, Ordered(t), NEW k \in 1 .. Cardinality(DOMAIN t)
  PROVE  \E i \in DOMAIN t : Rank(t, i) = k
<1> DEFINE D == DOMAIN t
           n == Cardinality(D)
           f == [i \in D |-> Rank(t, i)]
<1>1. IsFiniteSet(D) /\ n \in Nat
  BY FS_CardinalityType DEF Ordered
<1>2. IsFiniteSet(1 .. n) /\ Cardinality(1 .. n) = n
  <2>1. 1 \in Int /\ n \in Int
    BY <1>1
  <2> HIDE DEF n
  <2>2. IsFiniteSet(1 .. n) /\ Cardinality(1 .. n) = IF 1 > n THEN 0 ELSE n - 1 + 1
    BY <2>1, FS_Interval
  <2> QED
    BY <1>1, <2>2
<1>3. f \in Injection(D, 1 .. n)
  <2>1. f \in [D -> 1 .. n]
    BY RankType
  <2>2. \A i, j \in D : f[i] = f[j] => i = j
    BY RankUnique
  <2> HIDE DEF n, f, D
  <2> QED
    BY <2>1, <2>2 DEF Injection, IsInjective
<1>4. f \in Surjection(D, 1 .. n)
  <2> HIDE DEF f
  <2>1. Cardinality(D) = Cardinality(1 .. n)
    BY <1>2
  <2> HIDE DEF n, D
  <2> QED
    BY <1>2, <1>3, <2>1, FS_Injection
<1>5. \E i \in D : f[i] = k
  <2> HIDE DEF f
  <2> QED
    BY <1>4 DEF Surjection
<1> QED
  BY <1>5

\* The rank of a window and the window of a rank are inverses.
LEMMA RankedIs ==
  ASSUME NEW t, Ordered(t)
  PROVE  /\ \A k \in 1 .. Cardinality(DOMAIN t) :
              Ranked(t, k) \in DOMAIN t /\ Rank(t, Ranked(t, k)) = k
         /\ \A i \in DOMAIN t : Ranked(t, Rank(t, i)) = i
<1>1. ASSUME NEW k \in 1 .. Cardinality(DOMAIN t)
      PROVE  Ranked(t, k) \in DOMAIN t /\ Rank(t, Ranked(t, k)) = k
  <2>1. \E i \in DOMAIN t : Rank(t, i) = k
    BY RankOnto
  <2> QED
    BY <2>1 DEF Ranked
<1>2. ASSUME NEW i \in DOMAIN t
      PROVE  Ranked(t, Rank(t, i)) = i
  <2>1. Rank(t, i) \in 1 .. Cardinality(DOMAIN t)
    BY RankType
  <2>2. Ranked(t, Rank(t, i)) \in DOMAIN t /\ Rank(t, Ranked(t, Rank(t, i))) = Rank(t, i)
    BY <1>1, <2>1
  <2> QED
    BY <2>2, RankUnique
<1> QED
  BY <1>1, <1>2

\* A table, and the one after an observation at a later time.
Moved(t, e, clk, u) ==
  /\ Ordered(t) /\ Ordered(u)
  /\ \A i \in DOMAIN t : t[i].lastAccess < clk
  /\ e.iface \in DOMAIN u /\ u[e.iface].lastAccess = clk /\ clk \in Nat
  /\ \A i \in DOMAIN u \ {e.iface} : i \in DOMAIN t /\ u[i] = t[i]
  /\ Cardinality(DOMAIN t) <= MaximumInterfaces
  /\ \/ e.iface \in DOMAIN t /\ DOMAIN u = DOMAIN t
     \/ /\ e.iface \notin DOMAIN t /\ Cardinality(DOMAIN t) # MaximumInterfaces
        /\ DOMAIN u = DOMAIN t \cup {e.iface}
     \/ /\ e.iface \notin DOMAIN t /\ Cardinality(DOMAIN t) = MaximumInterfaces
        /\ \E v \in Oldest(t) : DOMAIN u = (DOMAIN t \ {v}) \cup {e.iface}

\* The rank of an interface, or the one after the last.
PlaceIn(t, i) == IF i \in DOMAIN t THEN Rank(t, i) ELSE Cardinality(DOMAIN t) + 1

\* The oldest window has the last rank.
LEMMA OldestIsLast ==
  ASSUME NEW t, Ordered(t), NEW v \in Oldest(t)
  PROVE  v \in DOMAIN t /\ Rank(t, v) = Cardinality(DOMAIN t)
<1>1. v \in DOMAIN t /\ \A i \in DOMAIN t : t[v].lastAccess <= t[i].lastAccess
  BY DEF Oldest
<1>2. NoEarlier(t, v) = DOMAIN t
  BY <1>1 DEF NoEarlier, Ordered
<1> QED
  BY <1>1, <1>2, RankType

\* What was behind the observed interface keeps its rank, what was in front of it
\* moves back by one.
LEMMA RankAfter ==
  ASSUME NEW t, NEW e, NEW clk, NEW u, Moved(t, e, clk, u)
  PROVE  /\ Rank(u, e.iface) = 1
         /\ \A j \in DOMAIN u \ {e.iface} :
              Rank(u, j) = IF Rank(t, j) < PlaceIn(t, e.iface) THEN Rank(t, j) + 1 ELSE Rank(t, j)
<1> DEFINE i == e.iface
<1>1. /\ Ordered(t) /\ Ordered(u) /\ i \in DOMAIN u /\ u[i].lastAccess = clk /\ clk \in Nat
      /\ \A j \in DOMAIN t : t[j].lastAccess < clk /\ t[j].lastAccess \in Nat
      /\ \A j \in DOMAIN u \ {i} : j \in DOMAIN t /\ u[j] = t[j]
  BY DEF Moved, Ordered
<1>2. Rank(u, i) = 1
  <2>1. NoEarlier(u, i) = {i}
    BY <1>1 DEF NoEarlier
  <2> QED
    BY <1>1, <2>1, RankType, FS_Singleton
<1>3. ASSUME NEW j \in DOMAIN u \ {i}
      PROVE  Rank(u, j) = IF Rank(t, j) < PlaceIn(t, i) THEN Rank(t, j) + 1 ELSE Rank(t, j)
  <2>1. j \in DOMAIN t /\ u[j] = t[j] /\ j \in DOMAIN u
    BY <1>1
  <2>2. /\ IsFiniteSet(NoEarlier(t, j)) /\ Rank(t, j) = Cardinality(NoEarlier(t, j))
        /\ Rank(t, j) \in 1 .. Cardinality(DOMAIN t) /\ Cardinality(DOMAIN t) \in Nat
        /\ Rank(u, j) = Cardinality(NoEarlier(u, j))
    BY <1>1, <2>1, RankType
  <2>3. NoEarlier(u, j) = NoEarlier(t, j) \cup {i}
    <3>1. i \in NoEarlier(u, j)
      BY <1>1, <2>1 DEF NoEarlier
    <3>2. ASSUME NEW k \in NoEarlier(u, j) PROVE k \in NoEarlier(t, j) \cup {i}
      BY <1>1, <2>1, <3>2 DEF NoEarlier
    <3>3. ASSUME NEW k \in NoEarlier(t, j) PROVE k \in NoEarlier(u, j)
      <4>1. k \in DOMAIN t /\ t[k].lastAccess >= t[j].lastAccess
        BY DEF NoEarlier
      <4>2. k \in DOMAIN u
        <5>1. CASE DOMAIN t \subseteq DOMAIN u
          BY <4>1, <5>1
        <5>2. CASE \E v \in Oldest(t) : DOMAIN u = (DOMAIN t \ {v}) \cup {i}
          <6>1. PICK v \in Oldest(t) : DOMAIN u = (DOMAIN t \ {v}) \cup {i}
            BY <5>2
          <6>2. j # v
            BY <2>1, <6>1
          <6>3. t[v].lastAccess <= t[j].lastAccess /\ v \in DOMAIN t
            BY <2>1 DEF Oldest
          <6>4. t[v].lastAccess # t[j].lastAccess
            BY <1>1, <2>1, <6>2, <6>3 DEF Ordered
          <6>5. k # v
            BY <1>1, <2>1, <4>1, <6>3, <6>4
          <6> QED
            BY <4>1, <6>1, <6>5
        <5> QED
          BY <5>1, <5>2 DEF Moved
      <4>3. CASE k = i
        BY <3>1, <4>3
      <4>4. CASE k # i
        BY <1>1, <2>1, <4>1, <4>2, <4>4 DEF NoEarlier
      <4> QED
        BY <4>3, <4>4
    <3> QED
      BY <3>1, <3>2, <3>3
  <2>4. i \in NoEarlier(t, j) <=> ~(Rank(t, j) < PlaceIn(t, i))
    <3>1. CASE i \in DOMAIN t
      <4>1. PlaceIn(t, i) = Rank(t, i) /\ Rank(t, i) \in Int
        BY <1>1, <3>1, RankType DEF PlaceIn
      <4>2. CASE t[i].lastAccess < t[j].lastAccess
        <5>1. Rank(t, j) < Rank(t, i)
          BY <1>1, <2>1, <3>1, <4>2, RankLess
        <5> QED
          BY <1>1, <2>1, <3>1, <4>1, <4>2, <5>1 DEF NoEarlier
      <4>3. CASE t[j].lastAccess < t[i].lastAccess
        <5>1. Rank(t, i) < Rank(t, j)
          BY <1>1, <2>1, <3>1, <4>3, RankLess
        <5> QED
          BY <1>1, <2>1, <2>2, <3>1, <4>1, <4>3, <5>1 DEF NoEarlier
      <4>4. t[j].lastAccess # t[i].lastAccess
        BY <1>1, <2>1, <3>1 DEF Ordered
      <4> QED
        BY <1>1, <2>1, <3>1, <4>2, <4>3, <4>4
    <3>2. CASE i \notin DOMAIN t
      BY <2>2, <3>2 DEF NoEarlier, PlaceIn
    <3> QED
      BY <3>1, <3>2
  <2>5. Cardinality(NoEarlier(t, j) \cup {i}) =
          IF i \in NoEarlier(t, j) THEN Rank(t, j) ELSE Rank(t, j) + 1
    BY <2>2, FS_AddElement
  <2> QED
    BY <2>2, <2>3, <2>4, <2>5
<1> QED
  BY <1>2, <1>3

\* How many are held after the observation, and where they stood before it.
After(t, i) ==
  Contract!Shortest(IF PlaceIn(t, i) > Cardinality(DOMAIN t) THEN PlaceIn(t, i)
                    ELSE Cardinality(DOMAIN t), MaximumInterfaces)
Before(t, i, k) == IF k <= PlaceIn(t, i) THEN k - 1 ELSE k

LEMMA PlaceType ==
  ASSUME NEW t, Ordered(t), NEW i
  PROVE  /\ Cardinality(DOMAIN t) \in Nat
         /\ PlaceIn(t, i) \in 1 .. Cardinality(DOMAIN t) + 1
         /\ PlaceIn(t, i) > Cardinality(DOMAIN t) <=> i \notin DOMAIN t
<1>1. Cardinality(DOMAIN t) \in Nat
  BY FS_CardinalityType DEF Ordered
<1>2. CASE i \in DOMAIN t
  BY <1>1, <1>2, RankType DEF PlaceIn
<1>3. CASE i \notin DOMAIN t
  BY <1>1, <1>3 DEF PlaceIn
<1> QED
  BY <1>1, <1>2, <1>3

LEMMA CountAfter ==
  ASSUME NEW t, NEW e, NEW clk, NEW u, Moved(t, e, clk, u)
  PROVE  Cardinality(DOMAIN u) = After(t, e.iface)
<1> DEFINE D == DOMAIN t
           n == Cardinality(D)
           i == e.iface
<1>1. IsFiniteSet(D) /\ n \in Nat /\ n <= MaximumInterfaces /\ MaximumInterfaces \in Nat \ {0}
  BY FS_CardinalityType, WindowAssumption DEF Moved, Ordered
<1>2. CASE i \in D /\ DOMAIN u = D
  <2>1. ~(PlaceIn(t, i) > n)
    BY <1>2, PlaceType DEF Moved
  <2> QED
    BY <1>1, <1>2, <2>1 DEF After, Contract!Shortest
<1>3. CASE i \notin D /\ n # MaximumInterfaces /\ DOMAIN u = D \cup {i}
  <2>1. Cardinality(D \cup {i}) = n + 1
    BY <1>1, <1>3, FS_AddElement
  <2>2. PlaceIn(t, i) = n + 1
    BY <1>3 DEF PlaceIn
  <2> HIDE DEF n, D
  <2> QED
    BY <1>1, <1>3, <2>1, <2>2 DEF After, Contract!Shortest, n, D
<1>4. CASE /\ i \notin D /\ n = MaximumInterfaces
           /\ \E v \in Oldest(t) : DOMAIN u = (D \ {v}) \cup {i}
  <2>1. PICK v \in Oldest(t) : DOMAIN u = (D \ {v}) \cup {i}
    BY <1>4
  <2>2. v \in D /\ i \notin D \ {v}
    BY <1>4 DEF Oldest
  <2>3. IsFiniteSet(D \ {v}) /\ Cardinality(D \ {v}) = n - 1
    BY <1>1, <2>2, FS_RemoveElement
  <2>4. Cardinality((D \ {v}) \cup {i}) = n - 1 + 1
    BY <2>2, <2>3, FS_AddElement
  <2>5. PlaceIn(t, i) = n + 1
    BY <1>4 DEF PlaceIn
  <2>6. Cardinality(DOMAIN u) = n
    BY <1>1, <2>1, <2>4
  <2>7. After(t, i) = Contract!Shortest(n + 1, MaximumInterfaces)
    BY <1>1, <2>5 DEF After
  <2> HIDE DEF n, D
  <2> QED
    BY <1>1, <1>4, <2>6, <2>7 DEF Contract!Shortest
<1> QED
  BY <1>2, <1>3, <1>4 DEF Moved

LEMMA OrderAfter ==
  ASSUME NEW t, NEW e, NEW clk, NEW u, Moved(t, e, clk, u), NEW k \in 1 .. After(t, e.iface)
  PROVE  IF k = 1 THEN Ranked(u, k) = e.iface
         ELSE /\ Before(t, e.iface, k) \in 1 .. Cardinality(DOMAIN t)
              /\ Ranked(u, k) = Ranked(t, Before(t, e.iface, k))
              /\ Ranked(u, k) \in DOMAIN u \ {e.iface}
<1> DEFINE i == e.iface
           n == Cardinality(DOMAIN t)
           p == PlaceIn(t, i)
           b == Before(t, i, k)
           j == Ranked(t, b)
<1>1. /\ Ordered(t) /\ Ordered(u) /\ i \in DOMAIN u
      /\ n <= MaximumInterfaces /\ MaximumInterfaces \in Nat \ {0}
  BY WindowAssumption DEF Moved
<1>2. /\ n \in Nat /\ p \in 1 .. n + 1
      /\ p > n <=> i \notin DOMAIN t
  BY <1>1, PlaceType
<1>3. CASE k = 1
  BY <1>1, <1>3, RankAfter, RankedIs
<1>4. CASE k # 1
  <2>1. k \in 2 .. n + 1 /\ k <= MaximumInterfaces /\ (k <= n \/ p > n)
    BY <1>1, <1>2, <1>4 DEF After, Contract!Shortest
  <2>2. b \in 1 .. n /\ b = IF k <= p THEN k - 1 ELSE k
    BY <1>2, <2>1 DEF Before
  <2>3. j \in DOMAIN t /\ Rank(t, j) = b
    BY <1>1, <2>2, RankedIs
  <2>4. j # i
    <3>1. i \in DOMAIN t => p = Rank(t, i)
      BY DEF PlaceIn
    <3>2. b # p
      BY <1>2, <2>1, <2>2
    <3> QED
      BY <2>3, <3>1, <3>2
  <2>5. j \in DOMAIN u
    <3>1. CASE \E v \in Oldest(t) : DOMAIN u = (DOMAIN t \ {v}) \cup {i} /\ i \notin DOMAIN t
                                      /\ n = MaximumInterfaces
      <4>1. PICK v \in Oldest(t) : /\ DOMAIN u = (DOMAIN t \ {v}) \cup {i} /\ i \notin DOMAIN t
                                   /\ n = MaximumInterfaces
        BY <3>1
      <4>2. Rank(t, v) = n
        BY <1>1, OldestIsLast
      <4>3. b # n
        BY <1>2, <2>1, <2>2, <4>1
      <4> QED
        BY <2>3, <4>1, <4>2, <4>3
    <3>2. CASE DOMAIN t \subseteq DOMAIN u
      BY <2>3, <3>2
    <3> QED
      BY <3>1, <3>2 DEF Moved
  <2>6. Rank(u, j) = k
    <3>1. Rank(u, j) = IF Rank(t, j) < p THEN Rank(t, j) + 1 ELSE Rank(t, j)
      BY <2>4, <2>5, RankAfter
    <3> HIDE DEF p, b, j
    <3> QED
      BY <1>2, <2>1, <2>2, <2>3, <3>1
  <2>7. Ranked(u, k) = j
    BY <1>1, <2>5, <2>6, RankedIs
  <2> HIDE DEF p, b, j, n
  <2>8. b \in 1 .. n /\ Ranked(u, k) = j /\ Ranked(u, k) \in DOMAIN u \ {i}
    BY <2>2, <2>4, <2>5, <2>7
  <2> QED
    BY <1>4, <2>8 DEF p, b, j, n
<1> QED
  BY <1>3, <1>4
-----------------------------------------------------------------------------
(* The contract.  A ring in the order of arrival.                          *)

\* Every place of the log is a held slot, and every held slot has its place.
LEMMA LogSlotIs ==
  ASSUME NEW w \in Window, w.count < WindowSize => w.next = w.count
  PROVE  /\ \A k \in 1 .. w.count : LogSlot(w, k) \in Held(w)
         /\ \A s \in Held(w) : \E k \in 1 .. w.count : LogSlot(w, k) = s
<1>1. w.next \in 0 .. WindowSize - 1 /\ w.count \in 0 .. WindowSize /\ WindowSize \in Nat \ {0}
  BY WindowAssumption DEF Window, Slots
<1>2. ASSUME NEW k \in 1 .. w.count PROVE LogSlot(w, k) \in Held(w)
  BY <1>1, <1>2 DEF LogSlot, Held
<1>3. ASSUME NEW s \in Held(w) PROVE \E k \in 1 .. w.count : LogSlot(w, k) = s
  <2>1. s \in 0 .. w.count - 1
    BY DEF Held
  <2>2. CASE w.count < WindowSize
    <3>1. s + 1 \in 1 .. w.count /\ LogSlot(w, s + 1) = s
      BY <1>1, <2>1, <2>2 DEF LogSlot
    <3> QED
      BY <3>1
  <2>3. CASE w.count = WindowSize /\ s < w.next
    <3> DEFINE k == s - w.next + WindowSize + 1
    <3>1. k \in 1 .. w.count /\ LogSlot(w, k) = s
      BY <1>1, <2>1, <2>3 DEF LogSlot
    <3> QED
      BY <3>1
  <2>4. CASE w.count = WindowSize /\ s >= w.next
    <3> DEFINE k == s - w.next + 1
    <3>1. k \in 1 .. w.count /\ LogSlot(w, k) = s
      BY <1>1, <2>1, <2>4 DEF LogSlot
    <3> QED
      BY <3>1
  <2> QED
    BY <1>1, <2>1, <2>2, <2>3, <2>4
<1> QED
  BY <1>2, <1>3

LEMMA LogIs ==
  ASSUME NEW S, NEW w, Filled(w, S)
  PROVE  /\ Log(w) \in Seq(S) /\ Len(Log(w)) = w.count /\ w.count \in Nat
         /\ \A k \in 1 .. w.count : Log(w)[k] = w.observations[LogSlot(w, k)]
<1>1. w.count \in Nat
  BY WindowAssumption DEF Filled, Window
<1>2. \A k \in 1 .. w.count : w.observations[LogSlot(w, k)] \in S
  BY LogSlotIs DEF Filled
<1>3. Log(w) = [k \in 1 .. w.count |-> w.observations[LogSlot(w, k)]]
  BY DEF Log
<1>4. Log(w) \in [1 .. w.count -> S]
  BY <1>2, <1>3
<1>5. Log(w) \in Seq(S) /\ Len(Log(w)) = w.count
  BY <1>1, <1>4
<1> QED
  BY <1>1, <1>3, <1>5

\* Appending to a ring appends to its log and keeps the latest WindowSize.
LEMMA LogAppended ==
  ASSUME NEW S, S \subseteq Evidence, NEW w, Filled(w, S), NEW e \in S
  PROVE  Log(Appended(w, e)) = Contract!LastOf(Append(Log(w), e), WindowSize)
<1> DEFINE a == Appended(w, e)
           L == Append(Log(w), e)
           m == Contract!Shortest(Len(L), WindowSize)
<1>1. /\ w \in Window /\ (w.count < WindowSize => w.next = w.count)
      /\ w.next \in 0 .. WindowSize - 1 /\ w.count \in 0 .. WindowSize
      /\ w.observations \in [Slots -> Evidence \cup {NoEvidence}]
      /\ WindowSize \in Nat \ {0}
  BY WindowAssumption DEF Filled, Window, Slots
<1>2. /\ a \in Window
      /\ a.observations = [w.observations EXCEPT ![w.next] = e]
      /\ a.next = IF w.next + 1 = WindowSize THEN 0 ELSE w.next + 1
      /\ a.count = IF w.count < WindowSize THEN w.count + 1 ELSE w.count
  <2>1. e \in Evidence
    OBVIOUS
  <2> QED
    BY <1>1, <2>1, AppendedParts
<1>3. /\ Log(w) \in Seq(S) /\ Len(Log(w)) = w.count
      /\ \A k \in 1 .. w.count : Log(w)[k] = w.observations[LogSlot(w, k)]
  BY LogIs
<1>4. /\ Len(L) = w.count + 1 /\ L[w.count + 1] = e
      /\ \A k \in 1 .. w.count : L[k] = w.observations[LogSlot(w, k)]
  BY <1>1, <1>3
<1> HIDE DEF a, L
<1>5. m = a.count /\ m \in 1 .. w.count + 1
  BY <1>1, <1>2, <1>4 DEF Contract!Shortest
<1> HIDE DEF m
<1>6. ASSUME NEW k \in 1 .. a.count
      PROVE  a.observations[LogSlot(a, k)] = L[Len(L) - m + k]
  <2> DEFINE q == w.count + 1 - m + k
  <2>1. q \in 1 .. w.count + 1 /\ (q = w.count + 1 <=> k = m) /\ k \in 1 .. m
    BY <1>1, <1>2, <1>5
  <2>1a. /\ w.count < WindowSize => m = w.count + 1 /\ q = k
         /\ w.count = WindowSize => m = WindowSize /\ q = k + 1
    BY <1>1, <1>2, <1>5
  <2> HIDE DEF q
  <2>2. LogSlot(a, k) = IF k = m THEN w.next ELSE LogSlot(w, q)
    <3>1. CASE w.count < WindowSize
      <4>1. w.next = w.count /\ a.count = w.count + 1 /\ m = w.count + 1 /\ q = k
        BY <1>1, <1>2, <2>1a, <3>1
      <4>2. a.next = IF w.count + 1 = WindowSize THEN 0 ELSE w.count + 1
        BY <1>2, <4>1
      <4>3. LogSlot(a, k) = k - 1 /\ LogSlot(w, k) = k - 1
        BY <1>1, <1>5, <3>1, <4>1, <4>2 DEF LogSlot
      <4> QED
        BY <1>1, <4>1, <4>3
    <3>2. CASE w.count = WindowSize
      BY <1>1, <1>2, <1>5, <2>1, <2>1a, <3>2 DEF LogSlot
    <3> QED
      BY <1>1, <3>1, <3>2
  <2>3. k # m => LogSlot(w, q) \in Slots /\ LogSlot(w, q) # w.next
    <3>1. CASE w.count < WindowSize
      <4>1. w.next = w.count /\ m = w.count + 1 /\ q = k
        BY <1>1, <2>1a, <3>1
      <4>2. LogSlot(w, k) = k - 1
        BY <1>1, <2>1, <3>1, <4>1 DEF LogSlot
      <4> QED
        BY <1>1, <2>1, <3>1, <4>1, <4>2 DEF Slots
    <3>2. CASE w.count = WindowSize
      BY <1>1, <1>5, <2>1, <2>1a, <3>2 DEF LogSlot, Slots
    <3> QED
      BY <1>1, <3>1, <3>2
  <2>4. a.observations[LogSlot(a, k)] = IF k = m THEN e ELSE w.observations[LogSlot(w, q)]
    <3>1. w.next \in Slots
      BY <1>1 DEF Slots
    <3> QED
      BY <1>1, <1>2, <2>2, <2>3, <3>1
  <2>5. L[q] = IF k = m THEN e ELSE w.observations[LogSlot(w, q)]
    <3>1. CASE k = m
      BY <1>4, <2>1, <3>1
    <3>2. CASE k # m
      <4>1. q \in 1 .. w.count
        BY <1>1, <2>1, <3>2
      <4> QED
        BY <1>4, <3>2, <4>1
    <3> QED
      BY <3>1, <3>2
  <2>6. Len(L) - m + k = q
    BY <1>1, <1>4, <1>5 DEF q
  <2> QED
    BY <2>4, <2>5, <2>6
<1>7. Log(a) = [k \in 1 .. a.count |-> a.observations[LogSlot(a, k)]]
  BY DEF Log
<1>8. Contract!LastOf(L, WindowSize) = [k \in 1 .. m |-> L[Len(L) - m + k]]
  BY DEF Contract!LastOf, m
<1>9. Log(a) = Contract!LastOf(L, WindowSize)
  BY <1>5, <1>6, <1>7, <1>8
<1> QED
  BY <1>9 DEF a, L

\* The log of a window after an observation.
LEMMA LogObserved ==
  ASSUME NEW S, S \subseteq Evidence, NEW w, Filled(w, S), NEW e \in S, NEW clk
  PROVE  Log(Observed(w, e, clk)) =
           Contract!LastOf(Append(IF Malformed(e.frame) THEN <<>> ELSE Log(w), e), WindowSize)
<1> DEFINE kept == IF Malformed(e.frame) THEN EmptyWindow ELSE w
<1>1. Filled(kept, S)
  BY EmptyWindowFilled
<1>2. Log(kept) = IF Malformed(e.frame) THEN <<>> ELSE Log(w)
  <2>1. Log(EmptyWindow) = <<>>
    BY DEF Log, EmptyWindow
  <2> QED
    BY <2>1
<1>3. Observed(w, e, clk) = [Appended(kept, e) EXCEPT !.lastAccess = clk]
  BY DEF Observed
<1> HIDE DEF kept
<1>4. Appended(kept, e) \in Window
  BY <1>1, AppendedParts DEF Filled
<1>5. Log(Observed(w, e, clk)) = Log(Appended(kept, e))
  BY <1>3, <1>4 DEF Log, LogSlot, Window
<1> QED
  BY <1>1, <1>2, <1>5, LogAppended

\* What a ring answers with follows from its log alone.
LEMMA ProjectionAnswers ==
  ASSUME NEW b \in Nat, NEW S, S \subseteq {e \in Evidence : e.seq <= b}, NEW w, Filled(w, S)
  PROVE  Projection(w) \in Contract!Answers(Log(w))
<1> DEFINE L == Log(w)
<1>1. /\ L \in Seq(S) /\ DOMAIN L = 1 .. w.count
      /\ \A k \in 1 .. w.count : L[k] = w.observations[LogSlot(w, k)]
  BY LogIs
<1>2. /\ \A k \in 1 .. w.count : LogSlot(w, k) \in Held(w)
      /\ \A s \in Held(w) : \E k \in 1 .. w.count : LogSlot(w, k) = s
  BY LogSlotIs DEF Filled
<1>3. \A s \in Held(w) : w.observations[s] \in Evidence /\ w.observations[s] # NoEvidence
  BY InterfaceAssumption DEF Filled
<1> HIDE DEF L
<1>4. ASSUME NEW id
      PROVE  Contract!OfKind(L, id) = {w.observations[s] : s \in SlotsOf(w, id)}
  <2>1. \A f : Contract!Valid(f) <=> Valid(f)
    BY DEF Contract!Valid, Valid
  <2>2. ASSUME NEW x \in Contract!OfKind(L, id)
        PROVE  x \in {w.observations[s] : s \in SlotsOf(w, id)}
    <3>1. PICK k \in DOMAIN L : L[k].frame.id = id /\ Contract!Valid(L[k].frame) /\ x = L[k]
      BY DEF Contract!OfKind
    <3>2. LogSlot(w, k) \in Held(w) /\ x = w.observations[LogSlot(w, k)]
      BY <1>1, <1>2, <3>1
    <3>3. LogSlot(w, k) \in SlotsOf(w, id)
      BY <2>1, <3>1, <3>2 DEF SlotsOf
    <3> QED
      BY <3>2, <3>3
  <2>3. ASSUME NEW s \in SlotsOf(w, id)
        PROVE  w.observations[s] \in Contract!OfKind(L, id)
    <3>1. s \in Held(w) /\ w.observations[s].frame.id = id /\ Valid(w.observations[s].frame)
      BY DEF SlotsOf
    <3>2. PICK k \in 1 .. w.count : LogSlot(w, k) = s
      BY <1>2, <3>1
    <3>3. k \in DOMAIN L /\ L[k] = w.observations[s]
      BY <1>1, <3>2
    <3> QED
      BY <2>1, <3>1, <3>3 DEF Contract!OfKind
  <2> QED
    BY <2>2, <2>3
<1>5. ASSUME NEW id \in TupleIds
      PROVE  /\ Aggregate(w)[id] = NoEvidence <=> SlotsOf(w, id) = {}
             /\ Contract!OfKind(L, id) = {} <=> SlotsOf(w, id) = {}
  <2>1. SlotsOf(w, id) # {} => NewestSlot(w, id) \in SlotsOf(w, id)
    BY NewestSlotNewest
  <2>2. SlotsOf(w, id) # {} => w.observations[NewestSlot(w, id)] # NoEvidence
    BY <1>3, <2>1 DEF SlotsOf
  <2>3. Aggregate(w)[id] = IF SlotsOf(w, id) = {} THEN NoEvidence
                           ELSE w.observations[NewestSlot(w, id)]
    BY DEF Aggregate
  <2>4. Contract!OfKind(L, id) = {} <=> SlotsOf(w, id) = {}
    <3>1. CASE SlotsOf(w, id) = {}
      BY <1>4, <3>1
    <3>2. CASE SlotsOf(w, id) # {}
      <4>1. PICK s \in SlotsOf(w, id) : TRUE
        BY <3>2
      <4>2. w.observations[s] \in Contract!OfKind(L, id)
        BY <1>4
      <4> QED
        BY <3>2, <4>2
    <3> QED
      BY <3>1, <3>2
  <2> QED
    BY <2>2, <2>3, <2>4
<1>6. CASE \E id \in TupleIds : SlotsOf(w, id) = {}
  <2>1. Projection(w) = NoProjection
    BY <1>5, <1>6 DEF Projection
  <2>2. \E id \in Contract!TupleIds : Contract!OfKind(L, id) = {}
    BY <1>5, <1>6 DEF Contract!TupleIds, TupleIds
  <2>3. Contract!Answers(L) = {Contract!NoProjection}
    BY <2>2 DEF Contract!Answers
  <2>4. Contract!NoProjection = NoProjection
    BY DEF Contract!NoProjection, NoProjection, Contract!TupleIds, TupleIds
  <2> QED
    BY <2>1, <2>3, <2>4 DEF L
<1>7. CASE \A id \in TupleIds : SlotsOf(w, id) # {}
  <2>1. Projection(w) = Aggregate(w)
    BY <1>5, <1>7 DEF Projection
  <2>2. Contract!TupleIds = TupleIds
    BY DEF Contract!TupleIds, TupleIds
  <2>3. ~\E id \in Contract!TupleIds : Contract!OfKind(L, id) = {}
    BY <1>5, <1>7, <2>2
  <2>4. Contract!Answers(L) = {t \in [TupleIds -> {L[i] : i \in DOMAIN L}] :
                                 \A id \in TupleIds : t[id] \in Contract!Newest(L, id)}
    BY <2>2, <2>3 DEF Contract!Answers
  <2>5. ASSUME NEW id \in TupleIds
        PROVE  /\ Aggregate(w)[id] \in {L[i] : i \in DOMAIN L}
               /\ Aggregate(w)[id] \in Contract!Newest(L, id)
    <3> DEFINE x == w.observations[NewestSlot(w, id)]
    <3>1. Aggregate(w)[id] = x
      BY <1>7 DEF Aggregate
    <3>2. /\ NewestSlot(w, id) \in SlotsOf(w, id)
          /\ \A j \in SlotsOf(w, id) : w.observations[j].seq <= x.seq
      BY <1>7, NewestSlotNewest
    <3>3. x \in Contract!OfKind(L, id)
      BY <1>4, <3>2
    <3>4. \A f \in Contract!OfKind(L, id) : f.seq <= x.seq
      BY <1>4, <3>2
    <3> HIDE DEF x
    <3>5. x \in Contract!Newest(L, id)
      BY <3>3, <3>4 DEF Contract!Newest
    <3>6. x \in {L[i] : i \in DOMAIN L}
      BY <3>3 DEF Contract!OfKind
    <3> QED
      BY <3>1, <3>5, <3>6
  <2>6. Aggregate(w) \in [TupleIds -> {L[i] : i \in DOMAIN L}]
    <3>1. Aggregate(w) = [id \in TupleIds |-> Aggregate(w)[id]]
      BY DEF Aggregate
    <3> QED
      BY <2>5, <3>1
  <2> QED
    BY <2>1, <2>4, <2>5, <2>6 DEF L
<1> QED
  BY <1>6, <1>7

\* What the mapping shows of a table.
LEMMA RememberedIs ==
  ASSUME NEW t, Ordered(t)
  PROVE  /\ Len(Remembered(t)) = Cardinality(DOMAIN t) /\ Cardinality(DOMAIN t) \in Nat
         /\ DOMAIN Remembered(t) = 1 .. Cardinality(DOMAIN t)
         /\ \A k \in 1 .. Cardinality(DOMAIN t) :
              Remembered(t)[k] = [iface |-> Ranked(t, k), log |-> Log(t[Ranked(t, k)])]
<1> DEFINE n == Cardinality(DOMAIN t)
           S == {[iface |-> Ranked(t, k), log |-> Log(t[Ranked(t, k)])] : k \in 1 .. n}
<1>1. n \in Nat
  BY FS_CardinalityType DEF Ordered
<1>2. Remembered(t) = [k \in 1 .. n |-> [iface |-> Ranked(t, k), log |-> Log(t[Ranked(t, k)])]]
  BY DEF Remembered
<1>3. Remembered(t) \in [1 .. n -> S]
  BY <1>2
<1> HIDE DEF S, n
<1>4. Len(Remembered(t)) = n
  BY <1>1, <1>3
<1> QED
  BY <1>1, <1>2, <1>4 DEF n

\* The contract's place and log of an interface are those of the profile.
LEMMA PlaceIs ==
  ASSUME Ordered(windows), NEW i
  PROVE  /\ Contract!Place(i) = PlaceIn(windows, i)
         /\ Contract!LogOf(i) = Log(WindowFor(windows, i))
<1> DEFINE n == Cardinality(DOMAIN windows)
           R == Remembered(windows)
           known == {k \in 1 .. Len(R) : R[k].iface = i}
<1>1. /\ Len(R) = n /\ n \in Nat
      /\ \A k \in 1 .. n : /\ R[k].iface = Ranked(windows, k)
                           /\ R[k].log = Log(windows[Ranked(windows, k)])
  <2>1. \A k \in 1 .. n :
          R[k] = [iface |-> Ranked(windows, k), log |-> Log(windows[Ranked(windows, k)])]
    BY RememberedIs
  <2>2. Len(R) = n /\ n \in Nat
    BY RememberedIs
  <2> HIDE DEF R, n
  <2> QED
    BY <2>1, <2>2
<1>2. Contract!Place(i) = IF known = {} THEN Len(R) + 1 ELSE CHOOSE k \in known : TRUE
  BY DEF Contract!Place
<1>3. Contract!LogOf(i) = IF Contract!Place(i) > Len(R) THEN <<>> ELSE R[Contract!Place(i)].log
  BY DEF Contract!LogOf
<1> HIDE DEF R
<1>4. CASE i \in DOMAIN windows
  <2>1. Rank(windows, i) \in 1 .. n /\ Ranked(windows, Rank(windows, i)) = i
    BY <1>4, RankType, RankedIs
  <2>2. \A k \in 1 .. n : Ranked(windows, k) = i => k = Rank(windows, i)
    BY RankedIs
  <2>3. known = {Rank(windows, i)}
    <3> HIDE DEF n
    <3> QED
      BY <1>1, <2>1, <2>2
  <2> HIDE DEF known, n
  <2>4. Contract!Place(i) = Rank(windows, i)
    BY <1>2, <2>3
  <2>5. Contract!LogOf(i) = Log(windows[i])
    BY <1>1, <1>3, <2>1, <2>4
  <2> QED
    BY <1>4, <2>4, <2>5 DEF PlaceIn, WindowFor
<1>5. CASE i \notin DOMAIN windows
  <2>1. known = {}
    BY <1>1, <1>5, RankedIs
  <2> HIDE DEF known, n
  <2>2. Contract!Place(i) = n + 1
    BY <1>1, <1>2, <2>1
  <2>3. Contract!LogOf(i) = <<>>
    BY <1>1, <1>3, <2>2
  <2>4. Log(EmptyWindow) = <<>>
    BY DEF Log, EmptyWindow
  <2> QED
    BY <1>5, <2>2, <2>3, <2>4 DEF PlaceIn, WindowFor, n
<1> QED
  BY <1>4, <1>5

\* An observed call is a step of the contract.
LEMMA ObservedContract ==
  ASSUME IInv, IInv', NEW e, e \in ObservationsOf(e.iface), ClassifyObserved(e)
  PROVE  Contract!Observe(e)
<1> DEFINE i == e.iface
           t == windows
           u == windows'
           w == WindowFor(t, i)
           S == ObservationsOf(i)
<1>1. /\ i \in ValidInterfaces /\ clock \in Nat /\ clock' = clock + 1 /\ clock' \in Nat
      /\ u \in Classified(t, e, clock') /\ answer'.tuple = Projection(u[i])
  BY V104Assumption DEF IInv, TypeOK, ClassifyObserved
<1>2. /\ Ordered(t) /\ Ordered(u) /\ Cardinality(DOMAIN t) <= MaximumInterfaces
      /\ \A j \in DOMAIN t : t[j].lastAccess < clock'
  <2>1. Ordered(t) /\ Cardinality(DOMAIN t) <= MaximumInterfaces
        /\ \A j \in DOMAIN t : t[j].lastAccess \in 1 .. clock
    BY DEF IInv, RecencyDistinct, Ordered
  <2>2. Ordered(u)
    BY <1>1 DEF IInv, RecencyDistinct, Ordered
  <2> QED
    BY <1>1, <2>1, <2>2
<1>3. /\ i \in DOMAIN u /\ u[i] = Observed(w, e, clock')
      /\ \A j \in DOMAIN u \ {i} : j \in DOMAIN t /\ u[j] = t[j]
  <2>1. IsFiniteSet(DOMAIN t)
    BY DEF IInv
  <2> QED
    BY <1>1, <1>2, <2>1, ClassifiedParts
<1>4. Filled(w, S) /\ S \subseteq Evidence /\ e \in S /\ e \in Evidence
  BY EmptyWindowFilled DEF WindowFor, IInv, ObservationsOf
<1>5. Moved(t, e, clock', u)
  <2>1. u[i].lastAccess = clock'
    <3> HIDE DEF w, S
    <3> QED
      BY <1>1, <1>3, <1>4, ObservedStamp
  <2>2. \/ i \in DOMAIN t /\ DOMAIN u = DOMAIN t
        \/ /\ i \notin DOMAIN t /\ Cardinality(DOMAIN t) # MaximumInterfaces
           /\ DOMAIN u = DOMAIN t \cup {i}
        \/ /\ i \notin DOMAIN t /\ Cardinality(DOMAIN t) = MaximumInterfaces
           /\ \E v \in Oldest(t) : DOMAIN u = (DOMAIN t \ {v}) \cup {i}
    BY <1>1, HeldAfter
  <2>3. /\ \A j \in DOMAIN t : t[j].lastAccess < clock'
        /\ \A j \in DOMAIN u \ {i} : j \in DOMAIN t /\ u[j] = t[j]
    BY <1>2, <1>3
  <2>4. i \in DOMAIN u /\ u[i].lastAccess = clock' /\ clock' \in Nat
    BY <1>1, <1>3, <2>1
  <2> HIDE DEF w, S
  <2> QED
    BY <1>2, <2>2, <2>3, <2>4 DEF Moved
<1> DEFINE kept == IF Contract!Malformed(e.frame) THEN <<>> ELSE Contract!LogOf(i)
           log == Contract!LastOf(Append(kept, e), WindowSize)
           record == [iface |-> i, log |-> log]
<1>6. log = Log(u[i])
  <2>1. Contract!Malformed(e.frame) <=> Malformed(e.frame)
    BY DEF Contract!Malformed, Malformed, Contract!ListedFrame, ListedFrame,
           Contract!Valid, Valid
  <2>2. Contract!LogOf(i) = Log(w)
    BY <1>2, PlaceIs
  <2>3. kept = IF Malformed(e.frame) THEN <<>> ELSE Log(w)
    BY <2>1, <2>2
  <2> HIDE DEF kept, w, S, i
  <2> QED
    BY <1>3, <1>4, <2>3, LogObserved
<1>7. answer'.tuple \in Contract!Answers(log)
  <2>1. Filled(u[i], S)
    BY <1>3 DEF IInv
  <2>2. S \subseteq {x \in Evidence : x.seq <= MaxSequence} /\ MaxSequence \in Nat
    BY V104Assumption DEF ObservationsOf
  <2> HIDE DEF S, log, u
  <2>3. Projection(u[i]) \in Contract!Answers(Log(u[i]))
    BY <2>1, <2>2, ProjectionAnswers
  <2> QED
    BY <1>1, <1>6, <2>3
<1>8. Remembered(u) = Contract!Fronted(Contract!Place(i), record)
  <2> DEFINE n == Cardinality(DOMAIN t)
             m == After(t, i)
             p == PlaceIn(t, i)
             R == Remembered(t)
             next(k) == IF k = 1 THEN record ELSE IF k <= p THEN R[k - 1] ELSE R[k]
  <2>1. /\ Len(R) = n /\ n \in Nat
        /\ \A k \in 1 .. n : R[k] = [iface |-> Ranked(t, k), log |-> Log(t[Ranked(t, k)])]
    BY <1>2, RememberedIs
  <2>2. Contract!Place(i) = p
    BY <1>2, PlaceIs
  <2>3. Cardinality(DOMAIN u) = m
    BY <1>5, CountAfter
  <2> HIDE DEF R, record, log, kept
  <2>4. Contract!Fronted(Contract!Place(i), record) = [k \in 1 .. m |-> next(k)]
    <3>1. m = Contract!Shortest(IF p > n THEN p ELSE n, MaximumInterfaces)
      BY DEF After
    <3>2. Contract!Fronted(p, record)
            = [k \in 1 .. Contract!Shortest(IF p > Len(R) THEN p ELSE Len(R), MaximumInterfaces)
                 |-> IF k = 1 THEN record ELSE IF k <= p THEN R[k - 1] ELSE R[k]]
      BY DEF Contract!Fronted, R
    <3> HIDE DEF n, p, m
    <3> QED
      BY <2>1, <2>2, <3>1, <3>2
  <2>5. ASSUME NEW k \in 1 .. m
        PROVE  [iface |-> Ranked(u, k), log |-> Log(u[Ranked(u, k)])] = next(k)
    <3>1. CASE k = 1
      <4>1. Ranked(u, k) = i
        BY <1>5, <3>1, OrderAfter
      <4> HIDE DEF u, i
      <4> QED
        BY <1>6, <3>1, <4>1 DEF record
    <3>2. CASE k # 1
      <4>1. /\ Before(t, i, k) \in 1 .. n
            /\ Ranked(u, k) = Ranked(t, Before(t, i, k))
            /\ Ranked(u, k) \in DOMAIN u \ {i}
        BY <1>5, <3>2, OrderAfter
      <4>2. u[Ranked(u, k)] = t[Ranked(t, Before(t, i, k))]
        BY <1>3, <4>1
      <4>3. next(k) = R[Before(t, i, k)]
        BY <3>2 DEF Before
      <4> HIDE DEF u, i, next, n
      <4> QED
        BY <2>1, <4>1, <4>2, <4>3
    <3> QED
      BY <3>1, <3>2
  <2>6. Remembered(u) = [k \in 1 .. m |-> [iface |-> Ranked(u, k), log |-> Log(u[Ranked(u, k)])]]
    BY <2>3 DEF Remembered
  <2> HIDE DEF m, next, u
  <2> QED
    BY <2>4, <2>5, <2>6
<1>9. Contract!Observe(e) <=>
        /\ i \in ValidInterfaces
        /\ Remembered(u) = Contract!Fronted(Contract!Place(i), record)
        /\ answer'.tuple \in Contract!Answers(log)
  BY DEF Contract!Observe
<1> QED
  BY <1>1, <1>7, <1>8, <1>9

LEMMA RefusedContract ==
  ASSUME NEW e, ClassifyRefused(e)
  PROVE  Contract!Refuse(e)
BY DEF ClassifyRefused, Contract!Refuse, Contract!NoProjection, NoProjection,
       Contract!TupleIds, TupleIds

LEMMA InitContract == Init => Contract!ContractInit
<1> SUFFICES ASSUME Init PROVE Contract!ContractInit
  OBVIOUS
<1>1. DOMAIN windows = {}
  BY DEF Init, EmptyTable
<1>2. Cardinality(DOMAIN windows) = 0
  BY <1>1, FS_EmptySet
<1>3. Remembered(windows) = <<>>
  BY <1>2 DEF Remembered
<1> QED
  BY <1>3 DEF Init, Contract!ContractInit, Contract!NoProjection, NoProjection,
              Contract!TupleIds, TupleIds

LEMMA NextContract ==
  IInv /\ IInv' /\ [Next]_vars => [Contract!ContractNext]_(Contract!contractVars)
<1> SUFFICES ASSUME IInv, IInv', [Next]_vars
             PROVE  [Contract!ContractNext]_(Contract!contractVars)
  OBVIOUS
<1>1. CASE Next
  <2>1. PICK iface \in Interfaces, frame \in Frames, seq \in 0 .. MaxSequence :
          Classify(Input(iface, frame, seq))
    BY <1>1 DEF Next, Input
  <2> DEFINE e == Input(iface, frame, seq)
  <2>2. e \in ObservationsOf(e.iface) /\ e \in Evidence
    BY InputType DEF IInv
  <2> HIDE DEF e
  <2>3. Classify(e)
    BY <2>1 DEF e
  <2>4. answer'.observed = e
    BY <2>3 DEF Classify, ClassifyRefused, ClassifyObserved
  <2>5. Contract!Observe(e) \/ Contract!Refuse(e)
    BY <2>2, <2>3, ObservedContract, RefusedContract DEF Classify
  <2>6. e \in Contract!Evidence
    BY <2>2 DEF Contract!Evidence, Evidence, Contract!Frame, Frame, Contract!TupleIds, TupleIds
  <2> QED
    BY <2>4, <2>5, <2>6 DEF Contract!ContractNext
<1>2. CASE UNCHANGED vars
  BY <1>2 DEF vars, Contract!contractVars
<1> QED
  BY <1>1, <1>2

\* The profile implements its contract: for every number of interfaces, every size of
\* the rings and the table and every sequence of observations, what it remembers are
\* the latest observations of the interfaces heard from most recently, and every answer
\* follows from that.
THEOREM ContractImplemented == Spec => ImplementsContract
<1>1. Spec => Contract!ContractInit /\ [][Contract!ContractNext]_(Contract!contractVars)
  BY InitContract, NextContract, IInvAlways, PTL DEF Spec
<1> QED
  BY <1>1 DEF ImplementsContract, Contract!ContractSpec
=============================================================================
