----------------------- MODULE EvidenceRegistry_proofs -----------------------
(***************************************************************************)
(* The registry, for any profiles in any order, any number of concurrent   *)
(* callers and any observations.                                           *)
(***************************************************************************)
EXTENDS EvidenceRegistry, GrowattWindows_proofs

LoopTyped ==
  /\ at \in [Callers -> 0 .. Len(Profiles) + 1]
  /\ call \in [Callers -> Calls]
  /\ answer \in [Callers -> Calls]
  /\ claims \in [Callers -> SUBSET Indices]

\* Within a call the match is the one claim so far, made by a profile asked before.
MatchIsSoleClaim ==
  \A c \in Callers : at[c] # 0 =>
    /\ claims[c] = IF call[c].match = 0 THEN {} ELSE {call[c].match}
    /\ call[c].match < at[c]
    /\ call[c].evidence \in Observations

LoopInv == LoopTyped /\ MatchIsSoleClaim /\ AnswerIsSoleClaim

LEMMA IndicesAre == Indices = 1 .. Len(Profiles) /\ Len(Profiles) \in Nat
BY RegistryAssumption DEF Indices

\* What one question does to the call, whatever it does to the profile.
LEMMA AsksLoop ==
  ASSUME LoopTyped, NEW c \in Callers, NEW i \in Indices, Asks(c, i)
  PROVE  /\ at[c] = i /\ calls' = calls
         /\ \/ /\ at' = [at EXCEPT ![c] = i + 1]
               /\ UNCHANGED <<call, answer, claims>>
            \/ /\ call[c].match # 0
               /\ claims' = [claims EXCEPT ![c] = @ \cup {i}]
               /\ at' = [at EXCEPT ![c] = 0]
               /\ answer' = [answer EXCEPT ![c] = [call[c] EXCEPT !.match = 0]]
               /\ UNCHANGED call
            \/ /\ call[c].match = 0
               /\ claims' = [claims EXCEPT ![c] = @ \cup {i}]
               /\ at' = [at EXCEPT ![c] = i + 1]
               /\ call' = [call EXCEPT ![c].match = i]
               /\ UNCHANGED answer
BY Zenon DEF Asks, Claimed, Ends, Keeps

LEMMA LoopInit == Init => LoopInv
<1> SUFFICES ASSUME Init
             PROVE  LoopInv
  OBVIOUS
<1>1. NoCall \in Calls /\ NoCall.match = 0
  BY DEF NoCall, Calls
<1>2. LoopTyped
  BY <1>1, IndicesAre DEF Init, LoopTyped
<1>3. QED
  BY <1>1, <1>2 DEF Init, LoopInv, MatchIsSoleClaim, AnswerIsSoleClaim

\* Every step of a caller keeps the loop invariant of all callers.
LEMMA LoopStep == LoopInv /\ [Next]_vars => LoopInv'
<1> SUFFICES ASSUME LoopInv, [Next]_vars
             PROVE  LoopInv'
  OBVIOUS
<1> USE IndicesAre
<1>t. LoopTyped
  BY DEF LoopInv
<1>1. ASSUME NEW c \in Callers, Classify(c)
      PROVE  LoopInv'
  <2>1. PICK e \in Observations :
          call' = [call EXCEPT ![c] = [evidence |-> e, match |-> 0]]
    BY <1>1 DEF Classify
  <2>2. /\ at' = [at EXCEPT ![c] = 1] /\ answer' = answer
        /\ claims' = [claims EXCEPT ![c] = {}]
    BY <1>1 DEF Classify
  <2>3. [evidence |-> e, match |-> 0] \in Calls
    BY RegistryAssumption DEF Calls
  <2>4. LoopTyped'
    BY <1>t, <2>1, <2>2, <2>3 DEF LoopTyped
  <2>a. /\ at'[c] = 1 /\ claims'[c] = {}
        /\ call'[c].match = 0 /\ call'[c].evidence = e
        /\ \A d \in Callers \ {c} :
             at'[d] = at[d] /\ claims'[d] = claims[d] /\ call'[d] = call[d]
    BY <1>t, <2>1, <2>2 DEF LoopTyped
  <2>5. MatchIsSoleClaim'
    <3>1. SUFFICES ASSUME NEW d \in Callers, at'[d] # 0
                   PROVE  /\ claims'[d] = IF call'[d].match = 0 THEN {} ELSE {call'[d].match}
                          /\ call'[d].match < at'[d]
                          /\ call'[d].evidence \in Observations
      BY Zenon DEF MatchIsSoleClaim
    <3>2. CASE d = c
      BY <2>a, <3>2
    <3>3. CASE d # c
      BY <2>a, <3>1, <3>3, Zenon DEF LoopInv, MatchIsSoleClaim
    <3>4. QED
      BY <3>2, <3>3
  <2>6. AnswerIsSoleClaim'
    BY <1>t, <2>2 DEF LoopTyped, LoopInv, AnswerIsSoleClaim
  <2>7. QED
    BY <2>4, <2>5, <2>6 DEF LoopInv
<1>2. ASSUME NEW c \in Callers, Answers(c)
      PROVE  LoopInv'
  <2>1. /\ at[c] = Len(Profiles) + 1 /\ at' = [at EXCEPT ![c] = 0]
        /\ answer' = [answer EXCEPT ![c] = call[c]]
        /\ call' = call /\ claims' = claims
    BY <1>2 DEF Answers
  <2>2. LoopTyped'
    BY <1>t, <2>1 DEF LoopTyped
  <2>3. MatchIsSoleClaim'
    BY <1>t, <2>1 DEF LoopTyped, LoopInv, MatchIsSoleClaim
  <2>a. at[c] # 0
    BY <2>1
  <2>4. claims[c] = IF call[c].match = 0 THEN {} ELSE {call[c].match}
    BY <2>a, Zenon DEF LoopInv, MatchIsSoleClaim
  <2>5. AnswerIsSoleClaim'
    BY <1>t, <2>1, <2>4 DEF LoopTyped, LoopInv, AnswerIsSoleClaim
  <2>6. QED
    BY <2>2, <2>3, <2>5 DEF LoopInv
<1>3. ASSUME NEW c \in Callers, NEW i \in Indices, Asks(c, i)
      PROVE  LoopInv'
  <2>1. at[c] = i /\ i # 0
    BY <1>t, <1>3, AsksLoop
  <2>2. /\ claims[c] = IF call[c].match = 0 THEN {} ELSE {call[c].match}
        /\ call[c].match < i
        /\ call[c].evidence \in Observations
    BY <2>1 DEF LoopInv, MatchIsSoleClaim
  <2>3. CASE /\ at' = [at EXCEPT ![c] = i + 1]
             /\ UNCHANGED <<call, answer, claims>>
    <3>1. LoopTyped'
      BY <1>t, <2>3 DEF LoopTyped
    <3>2. MatchIsSoleClaim'
      BY <1>t, <2>1, <2>2, <2>3 DEF LoopTyped, LoopInv, MatchIsSoleClaim, Calls
    <3>3. AnswerIsSoleClaim'
      BY <1>t, <2>1, <2>3 DEF LoopTyped, LoopInv, AnswerIsSoleClaim
    <3>4. QED
      BY <3>1, <3>2, <3>3 DEF LoopInv
  <2>4. CASE /\ call[c].match # 0
             /\ claims' = [claims EXCEPT ![c] = @ \cup {i}]
             /\ at' = [at EXCEPT ![c] = 0]
             /\ answer' = [answer EXCEPT ![c] = [call[c] EXCEPT !.match = 0]]
             /\ UNCHANGED call
    <3>1. call[c] \in Calls
      BY <1>t DEF LoopTyped
    <3>2. [call[c] EXCEPT !.match = 0] \in Calls /\ [call[c] EXCEPT !.match = 0].match = 0
      BY <3>1 DEF Calls
    <3>3. LoopTyped'
      BY <1>t, <2>4, <3>2 DEF LoopTyped
    <3>4. MatchIsSoleClaim'
      BY <1>t, <2>1, <2>4 DEF LoopTyped, LoopInv, MatchIsSoleClaim
    <3>5. claims'[c] = {call[c].match, i} /\ call[c].match # i
      BY <1>t, <2>2, <2>4 DEF LoopTyped
    <3>6. Cardinality(claims'[c]) = 2
      <4>1. IsFiniteSet({call[c].match}) /\ Cardinality({call[c].match}) = 1
        BY FS_Singleton
      <4>2. {call[c].match, i} = {call[c].match} \cup {i} /\ i \notin {call[c].match}
        BY <3>5
      <4>3. Cardinality({call[c].match} \cup {i}) = Cardinality({call[c].match}) + 1
        BY <4>1, <4>2, FS_AddElement, Zenon
      <4>4. claims'[c] = {call[c].match} \cup {i}
        BY <3>5, <4>2, Zenon
      <4>5. Cardinality(claims'[c]) = 1 + 1
        BY <4>1, <4>3, <4>4, Zenon
      <4>6. 1 + 1 = 2
        OBVIOUS
      <4>7. QED
        BY <4>5, <4>6, Zenon
    <3>7. AnswerIsSoleClaim'
      BY <1>t, <2>1, <2>4, <3>2, <3>6 DEF LoopTyped, LoopInv, AnswerIsSoleClaim
    <3>8. QED
      BY <3>3, <3>4, <3>7 DEF LoopInv
  <2>5. CASE /\ call[c].match = 0
             /\ claims' = [claims EXCEPT ![c] = @ \cup {i}]
             /\ at' = [at EXCEPT ![c] = i + 1]
             /\ call' = [call EXCEPT ![c].match = i]
             /\ UNCHANGED answer
    <3>1. call[c] \in Calls
      BY <1>t DEF LoopTyped
    <3>2. /\ [call[c] EXCEPT !.match = i] \in Calls
          /\ call' = [call EXCEPT ![c] = [call[c] EXCEPT !.match = i]]
      BY <1>t, <2>5, <3>1 DEF Calls, LoopTyped
    <3>3. LoopTyped'
      BY <1>t, <2>5, <3>2 DEF LoopTyped
    <3>4. call'[c].match = i /\ call'[c].evidence = call[c].evidence /\ claims'[c] = {i}
      BY <1>t, <2>2, <2>5, <3>1 DEF LoopTyped, Calls
    <3>a. /\ at'[c] = i + 1
          /\ \A d \in Callers \ {c} :
               at'[d] = at[d] /\ claims'[d] = claims[d] /\ call'[d] = call[d]
      BY <1>t, <2>5 DEF LoopTyped
    <3>5. MatchIsSoleClaim'
      <4>1. SUFFICES ASSUME NEW d \in Callers, at'[d] # 0
                     PROVE  /\ claims'[d] = IF call'[d].match = 0 THEN {} ELSE {call'[d].match}
                            /\ call'[d].match < at'[d]
                            /\ call'[d].evidence \in Observations
        BY Zenon DEF MatchIsSoleClaim
      <4>2. CASE d = c
        <5>1. at'[c] = i + 1 /\ i < i + 1 /\ i # 0
          BY <2>1, <3>a
        <5>2. call'[c].match < at'[c]
          BY <3>4, <5>1
        <5>3. claims'[c] = IF call'[c].match = 0 THEN {} ELSE {call'[c].match}
          BY <3>4, <5>1, Zenon
        <5>4. call'[c].evidence \in Observations
          BY <2>2, <3>4, Zenon
        <5>5. QED
          BY <4>2, <5>2, <5>3, <5>4, Zenon
      <4>3. CASE d # c
        <5>1. at'[d] = at[d] /\ claims'[d] = claims[d] /\ call'[d] = call[d]
          BY <3>a, <4>3
        <5>2. at[d] # 0
          BY <4>1, <5>1
        <5>3. QED
          BY <5>1, <5>2, Zenon DEF LoopInv, MatchIsSoleClaim
      <4>4. QED
        BY <4>2, <4>3
    <3>6. AnswerIsSoleClaim'
      BY <1>t, <2>1, <2>5 DEF LoopTyped, LoopInv, AnswerIsSoleClaim
    <3>7. QED
      BY <3>3, <3>5, <3>6 DEF LoopInv
  <2>6. QED
    BY <1>t, <1>3, <2>3, <2>4, <2>5, AsksLoop
<1>4. CASE UNCHANGED vars
  BY <1>4 DEF vars, LoopInv, LoopTyped, MatchIsSoleClaim, AnswerIsSoleClaim
<1>5. QED
  BY <1>1, <1>2, <1>3, <1>4 DEF Next

\* What a call returns is the one claim made in it, however calls interleave.
THEOREM FailsClosed == Spec => []AnswerIsSoleClaim
<1>1. Spec => []LoopInv
  BY LoopInit, LoopStep, PTL DEF Spec
<1>2. LoopInv => AnswerIsSoleClaim
  BY DEF LoopInv
<1>3. QED
  BY <1>1, <1>2, PTL
-----------------------------------------------------------------------------
(* Who has heard what.                                                     *)

ClocksTyped ==
  /\ DOMAIN memory = Indices
  /\ \A i \in Indices : memory[i].clock \in Nat
  /\ missed \in [Indices -> Nat]
  /\ calls \in Nat

Hears(i) == memory[i].clock + missed[i] + Cardinality(Unreached(i)) = calls

HearInv == ClocksTyped /\ \A i \in Indices : Profiles[i] = "v104" => Hears(i)

\* One more caller, or one less, before a profile.
LEMMA UnreachedCounts ==
  ASSUME NEW i \in Indices
  PROVE  /\ Cardinality(Unreached(i)) \in Nat
         /\ Cardinality(Unreached(i))' \in Nat
         /\ \A c \in Callers \ Unreached(i) :
              Unreached(i)' = Unreached(i) \cup {c} =>
                Cardinality(Unreached(i))' = Cardinality(Unreached(i)) + 1
         /\ \A c \in Unreached(i) :
              Unreached(i)' = Unreached(i) \ {c} =>
                Cardinality(Unreached(i))' = Cardinality(Unreached(i)) - 1
<1>1. IsFiniteSet(Unreached(i)) /\ IsFiniteSet(Unreached(i)')
  <2>1. IsFiniteSet(Callers)
    BY RegistryAssumption
  <2>2. Unreached(i) \subseteq Callers /\ Unreached(i)' \subseteq Callers
    BY DEF Unreached
  <2>3. QED
    BY <2>1, <2>2, FS_Subset, Zenon
<1>2. Cardinality(Unreached(i)) \in Nat /\ Cardinality(Unreached(i)') \in Nat
  BY <1>1, FS_CardinalityType, Zenon
<1>3. ASSUME NEW c \in Callers \ Unreached(i), Unreached(i)' = Unreached(i) \cup {c}
      PROVE  Cardinality(Unreached(i)') = Cardinality(Unreached(i)) + 1
  BY <1>1, <1>3, FS_AddElement, Zenon
<1>4. ASSUME NEW c \in Unreached(i), Unreached(i)' = Unreached(i) \ {c}
      PROVE  Cardinality(Unreached(i)') = Cardinality(Unreached(i)) - 1
  BY <1>1, <1>4, FS_RemoveElement, Zenon
<1>5. QED
  BY <1>2, <1>3, <1>4, Zenon

\* What a question does to the clocks: the profile asked ticks, if it is a V1.04
\* profile on a named interface, and no other.
LEMMA AsksClocks ==
  ASSUME ClocksTyped, LoopInv, NEW c \in Callers, NEW k \in Indices, Asks(c, k)
  PROVE  /\ DOMAIN memory' = Indices
         /\ \A j \in Indices \ {k} : memory'[j] = memory[j]
         /\ memory'[k].clock \in {memory[k].clock, memory[k].clock + 1}
         /\ Profiles[k] = "v104" /\ call[c].evidence.iface \in ValidInterfaces =>
              memory'[k].clock = memory[k].clock + 1
<1>1. PICK m \in Asked(k, call[c].evidence) : memory' = [memory EXCEPT ![k] = m]
  BY DEF Asks
<1>2. /\ m.clock \in {memory[k].clock, memory[k].clock + 1}
      /\ Profiles[k] = "v104" /\ call[c].evidence.iface \in ValidInterfaces =>
           m.clock = memory[k].clock + 1
  BY DEF Asked
<1>3. QED
  BY <1>1, <1>2 DEF ClocksTyped

\* A second claim is missed by the profiles after it, and by no other step.
LEMMA AsksMissed ==
  ASSUME ClocksTyped, LoopInv, NEW c \in Callers, NEW k \in Indices, Asks(c, k)
  PROVE  \/ /\ missed' = missed
            /\ at' = [at EXCEPT ![c] = k + 1]
         \/ /\ missed' = [j \in Indices |-> IF j > k THEN missed[j] + 1 ELSE missed[j]]
            /\ at' = [at EXCEPT ![c] = 0]
<1> USE IndicesAre
<1>t. LoopTyped
  BY DEF LoopInv
<1>1. at[c] = k /\ k # 0
  BY <1>t, AsksLoop
<1>2. /\ claims[c] = IF call[c].match = 0 THEN {} ELSE {call[c].match}
      /\ call[c].match < k
  BY <1>1 DEF LoopInv, MatchIsSoleClaim
<1>3. missed' = [j \in Indices |->
        IF claims'[c] # claims[c] /\ claims[c] # {} /\ j > k THEN missed[j] + 1 ELSE missed[j]]
  BY DEF Asks
<1>4. missed = [j \in Indices |-> missed[j]]
  BY DEF ClocksTyped
<1>5. CASE at' = [at EXCEPT ![c] = k + 1] /\ UNCHANGED <<call, answer, claims>>
  BY <1>3, <1>4, <1>5
<1>6. CASE /\ call[c].match # 0 /\ claims' = [claims EXCEPT ![c] = @ \cup {k}]
           /\ at' = [at EXCEPT ![c] = 0]
  <2>1. k \notin claims[c] /\ claims[c] # {}
    BY <1>2, <1>6
  <2>2. claims'[c] # claims[c]
    BY <1>t, <1>6, <2>1 DEF LoopTyped
  <2>3. QED
    BY <1>3, <1>6, <2>1, <2>2
<1>7. CASE call[c].match = 0 /\ at' = [at EXCEPT ![c] = k + 1]
  <2>1. claims[c] = {}
    BY <1>2, <1>7
  <2>2. QED
    BY <1>3, <1>4, <1>7, <2>1
<1>8. QED
  BY <1>t, <1>5, <1>6, <1>7, AsksLoop

LEMMA ClocksStep == LoopInv /\ ClocksTyped /\ [Next]_vars => ClocksTyped'
<1> SUFFICES ASSUME LoopInv, ClocksTyped, [Next]_vars
             PROVE  ClocksTyped'
  OBVIOUS
<1>1. ASSUME NEW c \in Callers, Classify(c)
      PROVE  ClocksTyped'
  BY <1>1 DEF Classify, ClocksTyped
<1>2. ASSUME NEW c \in Callers, Answers(c)
      PROVE  ClocksTyped'
  BY <1>2 DEF Answers, ClocksTyped
<1>3. ASSUME NEW c \in Callers, NEW k \in Indices, Asks(c, k)
      PROVE  ClocksTyped'
  <2>1. /\ DOMAIN memory' = Indices
        /\ \A j \in Indices \ {k} : memory'[j] = memory[j]
        /\ memory'[k].clock \in {memory[k].clock, memory[k].clock + 1}
    BY <1>3, AsksClocks
  <2>2. \/ missed' = missed
        \/ missed' = [j \in Indices |-> IF j > k THEN missed[j] + 1 ELSE missed[j]]
    BY <1>3, AsksMissed
  <2>3. calls' = calls
    BY <1>3 DEF Asks
  <2>4. QED
    BY <2>1, <2>2, <2>3 DEF ClocksTyped
<1>4. CASE UNCHANGED vars
  BY <1>4 DEF vars, ClocksTyped
<1>5. QED
  BY <1>1, <1>2, <1>3, <1>4 DEF Next

\* Types, whatever is registered and however many callers there are.
THEOREM TypeCorrect == Spec => []TypeOK
<1>1. LoopInv /\ ClocksTyped /\ [Next]_vars => (LoopInv /\ ClocksTyped)'
  BY LoopStep, ClocksStep
<1>2. Init => LoopInv /\ ClocksTyped
  BY LoopInit DEF Init, ClocksTyped
<1>3. LoopInv /\ ClocksTyped => TypeOK
  BY DEF LoopInv, LoopTyped, ClocksTyped, TypeOK
<1>4. QED
  BY <1>1, <1>2, <1>3, PTL DEF Spec

LEMMA HearInit == Init => HearInv
<1> SUFFICES ASSUME Init
             PROVE  HearInv
  OBVIOUS
<1>1. ClocksTyped
  BY DEF Init, ClocksTyped
<1>2. ASSUME NEW i \in Indices
      PROVE  Hears(i)
  <2>1. Unreached(i) = {}
    BY IndicesAre DEF Init, Unreached
  <2>2. Cardinality(Unreached(i)) = 0
    BY <2>1, FS_EmptySet
  <2>3. memory[i].clock = 0 /\ missed[i] = 0 /\ calls = 0
    BY DEF Init
  <2>4. QED
    BY <2>2, <2>3 DEF Hears
<1>3. QED
  BY <1>1, <1>2 DEF HearInv

\* Each step moves one call between the four ways to count it: begun, not there
\* yet, heard, or missed.
LEMMA HearStep ==
  ASSUME \A e \in Observations : e.iface \in ValidInterfaces
  PROVE  LoopInv /\ HearInv /\ [Next]_vars => HearInv'
<1> SUFFICES ASSUME LoopInv, HearInv, [Next]_vars
             PROVE  HearInv'
  OBVIOUS
<1> USE IndicesAre
<1>t. LoopTyped /\ ClocksTyped
  BY DEF LoopInv, HearInv
<1>c. ClocksTyped'
  BY <1>t, ClocksStep
<1>1. ASSUME NEW c \in Callers, Classify(c)
      PROVE  HearInv'
  <2>1. /\ at[c] = 0 /\ at' = [at EXCEPT ![c] = 1] /\ calls' = calls + 1
        /\ memory' = memory /\ missed' = missed
    BY <1>1 DEF Classify
  <2>3. ASSUME NEW i \in Indices, Hears(i)
        PROVE  Hears(i)'
    <3>1. c \in Callers \ Unreached(i) /\ Unreached(i)' = Unreached(i) \cup {c}
      BY <1>t, <2>1 DEF LoopTyped, Unreached
    <3>2. /\ Cardinality(Unreached(i))' = Cardinality(Unreached(i)) + 1
          /\ Cardinality(Unreached(i)) \in Nat
      BY <3>1, UnreachedCounts, Zenon
    <3>3. memory[i].clock \in Nat /\ missed[i] \in Nat /\ calls \in Nat
      BY <1>t DEF ClocksTyped
    <3>4. QED
      BY <2>1, <2>3, <3>2, <3>3, SMTT(30) DEF Hears
  <2>4. QED
    BY <1>c, <2>3 DEF HearInv
<1>2. ASSUME NEW c \in Callers, Answers(c)
      PROVE  HearInv'
  <2>1. /\ at[c] = Len(Profiles) + 1 /\ at' = [at EXCEPT ![c] = 0]
        /\ calls' = calls /\ memory' = memory /\ missed' = missed
    BY <1>2 DEF Answers
  <2>2. ASSUME NEW i \in Indices
        PROVE  Unreached(i)' = Unreached(i)
    BY <1>t, <2>1 DEF LoopTyped, Unreached
  <2>3. QED
    BY <2>1, <2>2 DEF HearInv, Hears, ClocksTyped
<1>3. ASSUME NEW c \in Callers, NEW k \in Indices, Asks(c, k)
      PROVE  HearInv'
  <2>1. at[c] = k /\ k # 0 /\ calls' = calls
    BY <1>t, <1>3, AsksLoop
  <2>2. call[c].evidence.iface \in ValidInterfaces
    BY <2>1 DEF LoopInv, MatchIsSoleClaim
  <2>3. /\ DOMAIN memory' = Indices
        /\ \A j \in Indices \ {k} : memory'[j] = memory[j]
        /\ memory'[k].clock \in {memory[k].clock, memory[k].clock + 1}
        /\ Profiles[k] = "v104" => memory'[k].clock = memory[k].clock + 1
    BY <1>t, <1>3, <2>2, AsksClocks
  <2>4. \/ /\ missed' = missed
           /\ at' = [at EXCEPT ![c] = k + 1]
        \/ /\ missed' = [j \in Indices |-> IF j > k THEN missed[j] + 1 ELSE missed[j]]
           /\ at' = [at EXCEPT ![c] = 0]
    BY <1>t, <1>3, AsksMissed
  <2>6. ASSUME NEW i \in Indices, Profiles[i] = "v104", Hears(i)
        PROVE  Hears(i)'
    <3>a. /\ memory[i].clock \in Nat /\ missed[i] \in Nat /\ calls \in Nat
          /\ Cardinality(Unreached(i)) \in Nat
      BY <1>t, UnreachedCounts DEF ClocksTyped
    <3>b. c \in Unreached(i) /\ at'[c] \notin 1 .. i /\ i >= k =>
            Cardinality(Unreached(i))' = Cardinality(Unreached(i)) - 1
      <4>1. SUFFICES ASSUME c \in Unreached(i), at'[c] \notin 1 .. i
                     PROVE  Unreached(i)' = Unreached(i) \ {c}
        BY UnreachedCounts, Zenon
      <4>2. QED
        BY <1>t, <2>4, <4>1 DEF LoopTyped, Unreached
    <3>c. (at[c] \in 1 .. i <=> at'[c] \in 1 .. i) => Unreached(i)' = Unreached(i)
      BY <1>t, <2>4 DEF LoopTyped, Unreached
    <3>1. CASE i < k
      <4>1. memory'[i] = memory[i] /\ missed'[i] = missed[i]
        BY <1>t, <2>3, <2>4, <3>1 DEF ClocksTyped
      <4>2. at[c] \notin 1 .. i /\ at'[c] \notin 1 .. i
        BY <1>t, <2>1, <2>4, <3>1 DEF LoopTyped
      <4>3. QED
        BY <2>1, <2>6, <3>c, <4>1, <4>2 DEF Hears
    <3>2. CASE i = k
      <4>1. memory'[i].clock = memory[i].clock + 1 /\ missed'[i] = missed[i]
        BY <1>t, <2>3, <2>4, <2>6, <3>2 DEF ClocksTyped
      <4>2. c \in Unreached(i) /\ at'[c] \notin 1 .. i
        BY <1>t, <2>1, <2>4, <3>2 DEF LoopTyped, Unreached
      <4>3. QED
        BY <2>1, <2>6, <3>2, <3>a, <3>b, <4>1, <4>2, SMTT(30) DEF Hears
    <3>3. CASE i > k /\ missed' = missed /\ at' = [at EXCEPT ![c] = k + 1]
      <4>1. memory'[i] = memory[i]
        BY <2>3, <3>3
      <4>2. at[c] \in 1 .. i /\ at'[c] \in 1 .. i
        BY <1>t, <2>1, <3>3 DEF LoopTyped
      <4>3. QED
        BY <2>1, <2>6, <3>3, <3>c, <4>1, <4>2 DEF Hears
    <3>4. CASE /\ i > k /\ at' = [at EXCEPT ![c] = 0]
               /\ missed' = [j \in Indices |-> IF j > k THEN missed[j] + 1 ELSE missed[j]]
      <4>1. memory'[i] = memory[i] /\ missed'[i] = missed[i] + 1
        BY <2>3, <3>4
      <4>2. c \in Unreached(i) /\ at'[c] \notin 1 .. i
        BY <1>t, <2>1, <3>4 DEF LoopTyped, Unreached
      <4>3. QED
        BY <2>1, <2>6, <3>4, <3>a, <3>b, <4>1, <4>2, SMTT(30) DEF Hears
    <3>5. QED
      BY <2>4, <3>1, <3>2, <3>3, <3>4
  <2>7. QED
    BY <1>c, <2>6 DEF HearInv
<1>4. CASE UNCHANGED vars
  BY <1>4 DEF vars, HearInv, ClocksTyped, Hears, Unreached
<1>5. QED
  BY <1>1, <1>2, <1>3, <1>4 DEF Next

\* However calls interleave, a V1.04 profile has heard every call that got to it,
\* once, or was passed over by a collision before it.
THEOREM ProfilesHear == Spec => []EveryProfileHears
<1>1. CASE \A e \in Observations : e.iface \in ValidInterfaces
  <2>1. LoopInv /\ HearInv /\ [Next]_vars => HearInv'
    BY <1>1, HearStep
  <2>2. Spec => [](LoopInv /\ HearInv)
    BY LoopInit, LoopStep, HearInit, <2>1, PTL DEF Spec
  <2>3. HearInv => EveryProfileHears
    BY Zenon DEF HearInv, Hears, EveryProfileHears
  <2>4. QED
    BY <2>2, <2>3, PTL
<1>2. CASE ~ \A e \in Observations : e.iface \in ValidInterfaces
  <2>1. EveryProfileHears
    BY <1>2 DEF EveryProfileHears
  <2>2. QED
    BY <2>1, PTL
<1>3. QED
  BY <1>1, <1>2
-----------------------------------------------------------------------------
(* Two V1.04 profiles under one caller.                                    *)

\* What a V1.04 profile may remember after evidence, from what it did before.
Heard(m, e) ==
  IF e.iface \in ValidInterfaces
  THEN {[windows |-> w, clock |-> m.clock + 1] : w \in Classified(m.windows, e, m.clock + 1)}
  ELSE {m}

\* A memory in which the next victim of an eviction is determined.
Recent(m) ==
  /\ m.clock \in Nat
  /\ Stamped(m.windows, m.clock)
  /\ \A i \in DOMAIN m.windows : Filled(m.windows[i], Evidence)

LEMMA HeardRecent ==
  ASSUME NEW m, Recent(m), NEW e \in Evidence, NEW x \in Heard(m, e)
  PROVE  Recent(x) /\ (e.iface \in ValidInterfaces => e.iface \in DOMAIN x.windows)
<1>1. CASE e.iface \in ValidInterfaces
  <2>1. PICK w \in Classified(m.windows, e, m.clock + 1) : x = [windows |-> w, clock |-> m.clock + 1]
    BY <1>1 DEF Heard
  <2>2. /\ m.clock \in Nat /\ Stamped(m.windows, m.clock)
        /\ \A i \in DOMAIN m.windows : Filled(m.windows[i], Evidence)
    BY DEF Recent
  <2>3. /\ Stamped(w, m.clock + 1) /\ e.iface \in DOMAIN w
        /\ \A i \in DOMAIN w : Filled(w[i], Evidence)
    BY <2>1, <2>2, ClassifiedStamped
  <2>4. x.windows = w /\ x.clock = m.clock + 1 /\ m.clock + 1 \in Nat
    BY <2>1, <2>2
  <2>5. QED
    BY <2>3, <2>4 DEF Recent
<1>2. CASE e.iface \notin ValidInterfaces
  BY <1>2 DEF Heard
<1>3. QED
  BY <1>1, <1>2

LEMMA HeardUnique ==
  ASSUME NEW m, Recent(m), NEW e, NEW x \in Heard(m, e), NEW y \in Heard(m, e)
  PROVE  x = y
<1>1. CASE e.iface \in ValidInterfaces
  <2>1. PICK w \in Classified(m.windows, e, m.clock + 1) : x = [windows |-> w, clock |-> m.clock + 1]
    BY <1>1 DEF Heard
  <2>2. PICK v \in Classified(m.windows, e, m.clock + 1) : y = [windows |-> v, clock |-> m.clock + 1]
    BY <1>1 DEF Heard
  <2>3. w = v
    BY <2>1, <2>2, ClassifiedUnique DEF Recent
  <2>4. QED
    BY <2>1, <2>2, <2>3
<1>2. CASE e.iface \notin ValidInterfaces
  BY <1>2 DEF Heard
<1>3. QED
  BY <1>1, <1>2

\* Profile i has been asked in the call of c and profile j has not.
Between(c, i, j) == at[c] \in i + 1 .. j

\* Profiles that missed the same calls remember the same; while a call is between
\* them, the first is one question ahead of the second.
Twins(c, i, j) ==
  IF Between(c, i, j) THEN memory[i] \in Heard(memory[j], call[c].evidence)
  ELSE memory[i] = memory[j]

V104 == {i \in Indices : Profiles[i] = "v104"}

TwinInv ==
  /\ \A i \in V104 : Recent(memory[i])
  /\ \A i, j \in Indices : i < j => missed[i] <= missed[j]
  /\ \A c \in Callers : \A i, j \in V104 : i < j /\ missed[i] = missed[j] => Twins(c, i, j)

LEMMA AsksMemory ==
  ASSUME ClocksTyped, NEW c \in Callers, NEW k \in Indices, Asks(c, k)
  PROVE  /\ \A j \in Indices \ {k} : memory'[j] = memory[j]
         /\ memory'[k] \in Asked(k, call[c].evidence)
         /\ k \in V104 => memory'[k] \in Heard(memory[k], call[c].evidence)
<1>1. PICK m \in Asked(k, call[c].evidence) : memory' = [memory EXCEPT ![k] = m]
  BY DEF Asks
<1>2. DOMAIN memory = Indices
  BY DEF ClocksTyped
<1>3. k \in V104 => Asked(k, call[c].evidence) = Heard(memory[k], call[c].evidence)
  BY DEF Asked, Heard, V104
<1>4. QED
  BY <1>1, <1>2, <1>3

\* A question leaves the evidence of its call alone.
LEMMA AsksEvidence ==
  ASSUME LoopInv, NEW c \in Callers, NEW k \in Indices, Asks(c, k)
  PROVE  /\ call'[c].evidence = call[c].evidence /\ call[c].evidence \in Evidence
         /\ at[c] = k /\ call \in [Callers -> Calls] /\ at \in [Callers -> 0 .. Len(Profiles) + 1]
<1>1. LoopTyped
  BY DEF LoopInv
<1>2. at[c] = k /\ k # 0
  BY <1>1, AsksLoop, IndicesAre
<1>3. call[c].evidence \in Evidence
  BY <1>2, RegistryAssumption DEF LoopInv, MatchIsSoleClaim
<1>4. call[c] \in Calls
  BY <1>1 DEF LoopTyped
<1>5. call'[c].evidence = call[c].evidence
  <2>1. call' = call \/ call' = [call EXCEPT ![c].match = k]
    BY <1>1, AsksLoop
  <2>2. QED
    BY <1>1, <1>4, <2>1 DEF LoopTyped, Calls
<1>6. QED
  BY <1>1, <1>2, <1>3, <1>5 DEF LoopTyped

LEMMA TwinInit == Init => TwinInv
<1> SUFFICES ASSUME Init
             PROVE  TwinInv
  OBVIOUS
<1>1. \A i \in Indices : memory[i].windows = EmptyTable /\ memory[i].clock = 0 /\ missed[i] = 0
  BY DEF Init
<1>2. DOMAIN EmptyTable = {}
  BY DEF EmptyTable
<1>3. IsFiniteSet({}) /\ Cardinality({}) = 0
  BY FS_EmptySet
<1>4. Stamped(EmptyTable, 0)
  BY <1>2, <1>3, WindowAssumption DEF Stamped
<1>5. \A i \in V104 : Recent(memory[i])
  BY <1>1, <1>2, <1>4 DEF Recent, V104
<1>6. \A c \in Callers : \A i, j \in V104 : Twins(c, i, j)
  <2>1. \A i, j \in Indices : memory[i] = memory[j]
    BY DEF Init
  <2>2. \A c \in Callers : \A i, j \in V104 : ~Between(c, i, j)
    BY IndicesAre DEF Init, Between, V104
  <2>3. QED
    BY <2>1, <2>2 DEF Twins, V104
<1>7. QED
  BY <1>1, <1>5, <1>6 DEF TwinInv

LEMMA TwinStep ==
  ASSUME Cardinality(Callers) = 1
  PROVE  LoopInv /\ ClocksTyped /\ TwinInv /\ [Next]_vars => TwinInv'
<1> SUFFICES ASSUME LoopInv, ClocksTyped, TwinInv, [Next]_vars
             PROVE  TwinInv'
  OBVIOUS
<1> USE IndicesAre
<1>o. \A c, d \in Callers : c = d
  BY RegistryAssumption, FS_Singleton
<1>t. LoopTyped /\ V104 \subseteq Indices
  BY DEF LoopInv, V104
<1>1. ASSUME NEW c \in Callers, Classify(c)
      PROVE  TwinInv'
  <2>1. /\ memory' = memory /\ missed' = missed /\ at[c] = 0 /\ at'[c] = 1
    BY <1>t, <1>1 DEF Classify, LoopTyped
  <2>2. \A i, j \in V104 : ~Between(c, i, j) /\ ~Between(c, i, j)'
    BY <1>t, <2>1 DEF Between
  <2>3. ASSUME NEW d \in Callers, NEW i \in V104, NEW j \in V104, Twins(d, i, j)
        PROVE  Twins(d, i, j)'
    BY <1>o, <2>1, <2>2, <2>3 DEF Twins
  <2>4. QED
    BY <2>1, <2>3 DEF TwinInv
<1>2. ASSUME NEW c \in Callers, Answers(c)
      PROVE  TwinInv'
  <2>1. /\ memory' = memory /\ missed' = missed /\ call' = call
        /\ at[c] = Len(Profiles) + 1 /\ at'[c] = 0
    BY <1>t, <1>2 DEF Answers, LoopTyped
  <2>2. \A i, j \in V104 : ~Between(c, i, j) /\ ~Between(c, i, j)'
    BY <1>t, <2>1 DEF Between
  <2>3. ASSUME NEW d \in Callers, NEW i \in V104, NEW j \in V104, Twins(d, i, j)
        PROVE  Twins(d, i, j)'
    BY <1>o, <2>1, <2>2, <2>3 DEF Twins
  <2>4. QED
    BY <2>1, <2>3 DEF TwinInv
<1>3. ASSUME NEW c \in Callers, NEW k \in Indices, Asks(c, k)
      PROVE  TwinInv'
  <2> DEFINE e == call[c].evidence
  <2>1. /\ call'[c].evidence = e /\ e \in Evidence /\ at[c] = k
        /\ at \in [Callers -> 0 .. Len(Profiles) + 1]
    BY <1>3, AsksEvidence
  <2>2. /\ \A j \in Indices \ {k} : memory'[j] = memory[j]
        /\ k \in V104 => memory'[k] \in Heard(memory[k], e)
    BY <1>3, AsksMemory
  <2>3. \/ /\ missed' = missed
           /\ at'[c] = k + 1
        \/ /\ missed' = [j \in Indices |-> IF j > k THEN missed[j] + 1 ELSE missed[j]]
           /\ at'[c] = 0
    BY <1>3, <2>1, AsksMissed
  <2>4. missed \in [Indices -> Nat]
    BY DEF ClocksTyped
  <2>5. \A i \in V104 : Recent(memory'[i])
    <3>1. SUFFICES ASSUME NEW i \in V104
                   PROVE  Recent(memory'[i])
      OBVIOUS
    <3>2. Recent(memory[i])
      BY DEF TwinInv
    <3>3. CASE i = k
      BY <2>1, <2>2, <3>2, <3>3, HeardRecent
    <3>4. CASE i # k
      BY <1>t, <2>2, <3>2, <3>4
    <3>5. QED
      BY <3>3, <3>4
  <2>6. \A i, j \in Indices : i < j => missed'[i] <= missed'[j]
    BY <2>3, <2>4 DEF TwinInv
  <2>7. ASSUME NEW i \in V104, NEW j \in V104, i < j, missed'[i] = missed'[j]
        PROVE  Twins(c, i, j)'
    <3>1. i \in Indices /\ j \in Indices /\ i \in Nat /\ j \in Nat /\ k \in Nat
      BY <1>t
    <3>2. missed[i] = missed[j] /\ ~(at'[c] = 0 /\ i <= k /\ k < j)
      <4>1. missed[i] <= missed[j] /\ missed[i] \in Nat /\ missed[j] \in Nat
        BY <2>4, <2>7, <3>1 DEF TwinInv
      <4>2. QED
        BY <2>3, <2>7, <3>1, <4>1
    <3>3. Twins(c, i, j) /\ Recent(memory[j])
      BY <2>7, <3>2 DEF TwinInv
    <3>4. Between(c, i, j) <=> i < k /\ k <= j
      BY <2>1, <3>1 DEF Between
    <3>5. Between(c, i, j)' <=> at'[c] = k + 1 /\ i <= k /\ k < j
      BY <2>3, <3>1 DEF Between
    <3>6. CASE k < i \/ k > j
      BY <2>2, <2>7, <3>1, <3>3, <3>4, <3>5, <3>6 DEF Twins
    <3>7. CASE k = i
      <4>1. memory'[i] \in Heard(memory[j], e)
        BY <2>2, <3>1, <3>3, <3>4, <3>7 DEF Twins
      <4>2. memory'[j] = memory[j] /\ Between(c, i, j)'
        BY <2>2, <2>3, <2>7, <3>1, <3>2, <3>5, <3>7
      <4>3. QED
        BY <2>1, <4>1, <4>2 DEF Twins
    <3>8. CASE i < k /\ k < j
      BY <2>1, <2>2, <2>3, <3>1, <3>2, <3>3, <3>4, <3>5, <3>8 DEF Twins
    <3>9. CASE k = j
      <4>1. memory[i] \in Heard(memory[j], e) /\ memory'[j] \in Heard(memory[j], e)
        BY <2>2, <2>7, <3>1, <3>3, <3>4, <3>9 DEF Twins
      <4>2. memory'[i] = memory'[j]
        BY <2>2, <2>7, <3>1, <3>3, <3>9, <4>1, HeardUnique
      <4>3. QED
        BY <3>1, <3>5, <3>9, <4>2 DEF Twins
    <3>10. QED
      BY <2>7, <3>1, <3>6, <3>7, <3>8, <3>9
  <2>8. \A d \in Callers : \A i, j \in V104 :
          i < j /\ missed'[i] = missed'[j] => Twins(d, i, j)'
    BY <1>o, <2>7
  <2>9. QED
    BY <2>5, <2>6, <2>8 DEF TwinInv
<1>4. CASE UNCHANGED vars
  BY <1>4 DEF vars, TwinInv, Twins, Between
<1>5. QED
  BY <1>1, <1>2, <1>3, <1>4 DEF Next

\* With one caller, V1.04 profiles that missed the same calls remember the same, at
\* whatever places and between whatever other profiles they are registered.
THEOREM TwinsRemember == Spec => []TwinsAgree
<1>1. CASE Cardinality(Callers) = 1
  <2>1. LoopInv /\ ClocksTyped /\ TwinInv /\ [Next]_vars => (LoopInv /\ ClocksTyped /\ TwinInv)'
    BY <1>1, LoopStep, ClocksStep, TwinStep
  <2>2. Init => LoopInv /\ ClocksTyped /\ TwinInv
    BY LoopInit, TwinInit DEF Init, ClocksTyped
  <2>3. TwinInv => TwinsAgree
    <3>1. SUFFICES ASSUME TwinInv, AtRest,
                          NEW i \in Indices, NEW j \in Indices, Profiles[i] = "v104",
                          Profiles[j] = "v104", missed[i] = missed[j]
                   PROVE  memory[i] = memory[j]
      BY DEF TwinsAgree
    <3>2. \E c : c \in Callers
      BY <1>1, RegistryAssumption, FS_Singleton
    <3>3. PICK c \in Callers : at[c] = 0
      BY <3>1, <3>2 DEF AtRest
    <3>4. i \in V104 /\ j \in V104 /\ i \in Nat /\ j \in Nat
      BY <3>1, IndicesAre DEF V104
    <3>5. ~Between(c, i, j) /\ ~Between(c, j, i)
      BY <3>3, <3>4 DEF Between
    <3>6. i < j => Twins(c, i, j)
      BY <3>1, <3>4 DEF TwinInv
    <3>7. j < i => Twins(c, j, i)
      BY <3>1, <3>4 DEF TwinInv
    <3>8. QED
      BY <3>4, <3>5, <3>6, <3>7 DEF Twins
  <2>4. QED
    BY <2>1, <2>2, <2>3, PTL DEF Spec
<1>2. CASE Cardinality(Callers) # 1
  <2>1. TwinsAgree
    BY <1>2 DEF TwinsAgree
  <2>2. QED
    BY <2>1, PTL
<1>3. QED
  BY <1>1, <1>2
-----------------------------------------------------------------------------
(* The Gree candidate among V1.04 profiles, under one caller.              *)

\* Profile i, as it remembers now, claims an observation.
Claiming(i, e) == Claims(i, e, memory[i])

\* A V1.04 profile that was asked holds a window of the interface it was asked about.
Asking(i, e) ==
  Profiles[i] = "v104" => e.iface \in DOMAIN memory[i].windows

\* Of the profiles asked in a call, the ones that claim the observation have done so.
InCall(c) ==
  /\ \A i \in Indices : i < at[c] => Asking(i, call[c].evidence)
  /\ \A i \in Indices : i < at[c] => (i \in claims[c] <=> Claiming(i, call[c].evidence))
  /\ \A i \in claims[c] : i < at[c]

\* After a call, claimants are such that claim the observation still; either all of
\* them have claimed, or two have.
AfterCall(c) ==
  /\ \A i \in claims[c] : Claiming(i, answer[c].evidence) /\ Asking(i, answer[c].evidence)
  /\ \/ \A i \in Indices : Claiming(i, answer[c].evidence) => i \in claims[c]
     \/ \E i, j \in claims[c] : i # j

GreeInv ==
  \A c \in Callers :
    /\ at[c] # 0 /\ call[c].evidence.iface \in ValidInterfaces => InCall(c)
    /\ at[c] = 0 /\ answer[c].evidence # NoEvidence
         /\ answer[c].evidence.iface \in ValidInterfaces => AfterCall(c)

LEMMA GreeInit == Init => GreeInv
BY DEF Init, GreeInv, NoCall

\* A profile that is not asked claims what it claimed.
LEMMA SameClaiming ==
  ASSUME NEW i \in Indices, NEW e, memory'[i] = memory[i]
  PROVE  /\ Claiming(i, e)' <=> Claiming(i, e)
         /\ Asking(i, e)' <=> Asking(i, e)
BY DEF Claiming, Claims, Asking

LEMMA GreeStep ==
  ASSUME Cardinality(Callers) = 1
  PROVE  LoopInv /\ ClocksTyped /\ TwinInv /\ GreeInv /\ [Next]_vars => GreeInv'
<1> SUFFICES ASSUME LoopInv, ClocksTyped, TwinInv, GreeInv, [Next]_vars
             PROVE  GreeInv'
  OBVIOUS
<1> USE IndicesAre
<1>o. \A c, d \in Callers : c = d
  BY RegistryAssumption, FS_Singleton
<1>t. LoopTyped
  BY DEF LoopInv
<1>1. ASSUME NEW c \in Callers, Classify(c)
      PROVE  GreeInv'
  <2>1. at'[c] = 1 /\ claims'[c] = {}
    BY <1>t, <1>1 DEF Classify, LoopTyped
  <2>2. InCall(c)'
    BY <2>1 DEF InCall
  <2>3. QED
    BY <1>o, <2>1, <2>2 DEF GreeInv
<1>2. ASSUME NEW c \in Callers, Answers(c)
      PROVE  GreeInv'
  <2>1. /\ memory' = memory /\ claims' = claims /\ at[c] = Len(Profiles) + 1
        /\ at'[c] = 0 /\ answer'[c] = call[c]
    BY <1>t, <1>2 DEF Answers, LoopTyped
  <2>2. ASSUME call[c].evidence.iface \in ValidInterfaces
        PROVE  AfterCall(c)'
    <3>1. InCall(c)
      BY <2>1, <2>2 DEF GreeInv
    <3>2. \A i \in Indices : i < at[c]
      BY <2>1
    <3>3. claims[c] \subseteq Indices
      BY <1>t DEF LoopTyped
    <3>4. /\ \A i \in claims[c] : Claiming(i, call[c].evidence) /\ Asking(i, call[c].evidence)
          /\ \A i \in Indices : Claiming(i, call[c].evidence) => i \in claims[c]
      BY <3>1, <3>2, <3>3, Zenon DEF InCall
    <3>5. QED
      BY <2>1, <3>4 DEF AfterCall, Claiming, Asking, Claims
  <2>3. QED
    BY <1>o, <2>1, <2>2 DEF GreeInv
<1>3. ASSUME NEW c \in Callers, NEW k \in Indices, Asks(c, k)
      PROVE  GreeInv'
  <2> DEFINE e == call[c].evidence
  <2>1. /\ call'[c].evidence = e /\ e \in Evidence /\ at[c] = k
    BY <1>3, AsksEvidence
  <2>2. SUFFICES ASSUME e.iface \in ValidInterfaces
                 PROVE  /\ at'[c] # 0 => InCall(c)'
                        /\ at'[c] = 0 => AfterCall(c)' /\ answer'[c].evidence = e
    <3>1. at'[c] = 0 => answer'[c].evidence = e
      <4>1. call[c] \in Calls
        BY <1>t DEF LoopTyped
      <4>2. at'[c] = k + 1 \/ answer' = [answer EXCEPT ![c] = [call[c] EXCEPT !.match = 0]]
        BY <1>t, <1>3, AsksLoop DEF LoopTyped
      <4>3. QED
        BY <1>t, <4>1, <4>2 DEF LoopTyped, Calls
    <3>2. QED
      BY <1>o, <2>1, <2>2, <3>1 DEF GreeInv
  <2>3. InCall(c)
    BY <2>1, <2>2 DEF GreeInv
  <2>4. PICK m \in Asked(k, e) :
          /\ memory' = [memory EXCEPT ![k] = m]
          /\ IF Claims(k, e, m)
             THEN claims' = [claims EXCEPT ![c] = @ \cup {k}] /\ Claimed(c, k)
             ELSE at' = [at EXCEPT ![c] = k + 1] /\ UNCHANGED <<call, answer, claims>>
    BY <1>3 DEF Asks
  <2>5. /\ memory'[k] = m
        /\ \A i \in Indices \ {k} : memory'[i] = memory[i]
    BY <2>4 DEF ClocksTyped
  <2>6. /\ at \in [Callers -> 0 .. Len(Profiles) + 1] /\ claims \in [Callers -> SUBSET Indices]
        /\ call \in [Callers -> Calls] /\ answer \in [Callers -> Calls]
    BY <1>t DEF LoopTyped
  <2>7. Profiles[k] = "v104" => e.iface \in DOMAIN m.windows
    <3>1. SUFFICES ASSUME Profiles[k] = "v104"
                   PROVE  e.iface \in DOMAIN m.windows
      OBVIOUS
    <3>2. k \in V104 /\ Recent(memory[k]) /\ m \in Heard(memory[k], e)
      BY <2>4, <3>1 DEF V104, TwinInv, Asked, Heard
    <3>3. QED
      BY <2>1, <2>2, <3>2, HeardRecent
  <2> DEFINE claiming(i) == Claims(i, e, memory'[i])
             asking(i) == Profiles[i] = "v104" => e.iface \in DOMAIN memory'[i].windows
  <2>8. /\ \A i \in Indices : i < k => (i \in claims[c] <=> claiming(i)) /\ asking(i)
        /\ \A i \in claims[c] : i < k
    BY <2>1, <2>3, <2>5 DEF InCall, Claiming, Asking
  <2>9. (claiming(k) <=> Claims(k, e, m)) /\ asking(k)
    BY <2>5, <2>7
  <2>10. /\ AfterCall(c)' <=>
              /\ \A i \in claims'[c] : Claims(i, answer'[c].evidence, memory'[i]) /\
                   (Profiles[i] = "v104" => answer'[c].evidence.iface \in DOMAIN memory'[i].windows)
              /\ \/ \A i \in Indices :
                      Claims(i, answer'[c].evidence, memory'[i]) => i \in claims'[c]
                 \/ \E i, j \in claims'[c] : i # j
         /\ InCall(c)' <=>
              /\ \A i \in Indices : i < at'[c] => asking(i)
              /\ \A i \in Indices : i < at'[c] => (i \in claims'[c] <=> claiming(i))
              /\ \A i \in claims'[c] : i < at'[c]
    <3>1. AfterCall(c)' <=>
            /\ \A i \in claims'[c] : Claims(i, answer'[c].evidence, memory'[i]) /\
                 (Profiles[i] = "v104" => answer'[c].evidence.iface \in DOMAIN memory'[i].windows)
            /\ \/ \A i \in Indices :
                    Claims(i, answer'[c].evidence, memory'[i]) => i \in claims'[c]
               \/ \E i, j \in claims'[c] : i # j
      BY DEF AfterCall, Claiming, Asking, Claims
    <3>2. InCall(c)' <=>
            /\ \A i \in Indices : i < at'[c] =>
                 (Profiles[i] = "v104" => call'[c].evidence.iface \in DOMAIN memory'[i].windows)
            /\ \A i \in Indices : i < at'[c] =>
                 (i \in claims'[c] <=> Claims(i, call'[c].evidence, memory'[i]))
            /\ \A i \in claims'[c] : i < at'[c]
      BY DEF InCall, Claiming, Asking, Claims
    <3>3. QED
      BY <2>1, <3>1, <3>2
  <2> HIDE DEF claiming, asking
  <2>11. CASE Claims(k, e, m) /\ call[c].match # 0
    <3>1. /\ at'[c] = 0 /\ claims'[c] = claims[c] \cup {k}
          /\ answer'[c] = [call[c] EXCEPT !.match = 0]
      BY <2>4, <2>6, <2>11 DEF Claimed, Ends
    <3>2. call[c] \in Calls
      BY <2>6
    <3>3. answer'[c].evidence = e
      BY <3>1, <3>2 DEF Calls
    <3>4. call[c].match \in claims[c] /\ call[c].match # k
      <4>1. claims[c] = IF call[c].match = 0 THEN {} ELSE {call[c].match}
        <5>1. at[c] # 0
          BY <2>1
        <5>2. QED
          BY <5>1, Zenon DEF LoopInv, MatchIsSoleClaim
      <4>2. call[c].match \in claims[c]
        BY <2>11, <4>1
      <4>3. QED
        BY <2>8, <4>2
    <3>5. \A i \in claims'[c] : claiming(i) /\ asking(i)
      BY <2>6, <2>8, <2>9, <2>11, <3>1
    <3>6. \E i, j \in claims'[c] : i # j
      BY <3>1, <3>4
    <3> USE DEF claiming, asking
    <3>7. QED
      BY <2>10, <3>1, <3>3, <3>5, <3>6
  <2>12. CASE ~(Claims(k, e, m) /\ call[c].match # 0)
    <3>1. /\ at'[c] = k + 1
          /\ claims'[c] = IF Claims(k, e, m) THEN claims[c] \cup {k} ELSE claims[c]
      BY <2>4, <2>6, <2>12 DEF Claimed, Keeps
    <3>2. \A i \in Indices : i < k + 1 => (i \in claims'[c] <=> claiming(i)) /\ asking(i)
      <4>1. SUFFICES ASSUME NEW i \in Indices, i < k + 1
                     PROVE  (i \in claims'[c] <=> claiming(i)) /\ asking(i)
        BY Zenon
      <4>2. CASE i < k
        BY <2>8, <3>1, <4>2
      <4>3. CASE i = k
        BY <2>8, <2>9, <3>1, <4>3
      <4>4. QED
        BY <4>1, <4>2, <4>3
    <3>3. \A i \in claims'[c] : i < k + 1
      BY <2>6, <2>8, <3>1
    <3>4. at'[c] # 0
      BY <3>1
    <3>5. InCall(c)'
      BY <2>10, <3>1, <3>2, <3>3, Zenon
    <3>6. QED
      BY <3>4, <3>5
  <2>13. QED
    BY <2>11, <2>12
<1>4. CASE UNCHANGED vars
  BY <1>4 DEF vars, GreeInv, InCall, AfterCall, Claiming, Claims, Asking
<1>5. QED
  BY <1>1, <1>2, <1>3, <1>4 DEF Next

LEMMA GreeConcludes ==
  ASSUME LoopInv, GreeInv, NEW g \in Indices, \A i \in Indices : Profiles[i] = "gree" <=> i = g
  PROVE  GreeIsHeardAlone
<1> SUFFICES ASSUME NEW c \in Callers, AtRest, answer[c].evidence # NoEvidence,
                    answer[c].evidence.frame \in GreeFrames,
                    answer[c].evidence.iface \in ValidInterfaces
             PROVE  LET e == answer[c].evidence
                        holding == {i \in Indices :
                                      /\ Profiles[i] = "v104"
                                      /\ e.iface \in DOMAIN memory[i].windows
                                      /\ Projection(memory[i].windows[e.iface]) # NoProjection}
                    IN  IF holding = {} THEN Profiles[answer[c].match] = "gree"
                        ELSE answer[c].match = 0
  BY DEF GreeIsHeardAlone
<1> DEFINE e == answer[c].evidence
           holding == {i \in Indices : /\ Profiles[i] = "v104"
                                       /\ e.iface \in DOMAIN memory[i].windows
                                       /\ Projection(memory[i].windows[e.iface]) # NoProjection}
           match == answer[c].match
<1> USE IndicesAre
<1>1. at[c] = 0
  BY DEF AtRest
<1>2. AfterCall(c)
  BY <1>1 DEF GreeInv
<1>3. claims[c] \subseteq Indices
  BY DEF LoopInv, LoopTyped
<1>4. IF match # 0 THEN claims[c] = {match}
      ELSE claims[c] = {} \/ Cardinality(claims[c]) = 2
  BY <1>1, Zenon DEF LoopInv, AnswerIsSoleClaim
<1>5. Claiming(g, e)
  BY DEF Claiming, Claims
<1>6. \A i \in holding : Claiming(i, e) /\ i # g
  BY DEF Claiming, Claims
<1>7. \A i \in claims[c] : i = g \/ i \in holding
  <2>1. SUFFICES ASSUME NEW i \in claims[c], i # g
                 PROVE  i \in holding
    OBVIOUS
  <2>2. i \in Indices /\ Profiles[i] # "gree"
    BY <1>3, <2>1
  <2>3. Claiming(i, e) /\ Asking(i, e)
    BY <1>2 DEF AfterCall
  <2>4. QED
    BY <2>2, <2>3 DEF Claiming, Claims, Asking
<1> HIDE DEF holding, match, e
<1>8. \/ \A i \in Indices : Claiming(i, e) => i \in claims[c]
      \/ \E i, j \in claims[c] : i # j
  BY <1>2 DEF AfterCall, e
<1>9. CASE holding = {}
  <2>1. claims[c] = {g}
    BY <1>5, <1>7, <1>8, <1>9
  <2>2. Cardinality({g}) = 1
    BY FS_Singleton
  <2>3. match = g
    BY <1>4, <2>1, <2>2
  <2>4. QED
    BY <1>9, <2>3 DEF holding, match, e
<1>10. CASE holding # {}
  <2>1. \A i \in holding : i \in Indices
    BY DEF holding
  <2>2. \E i, j \in claims[c] : i # j
    BY <1>5, <1>6, <1>8, <1>10, <2>1
  <2>3. match = 0
    BY <1>4, <2>2
  <2>4. QED
    BY <1>10, <2>3 DEF holding, match, e
<1>11. QED
  BY <1>9, <1>10

\* With one caller and one Gree candidate among any V1.04 profiles, a Gree observation
\* is answered exactly while none of them holds a tuple of its interface.
THEOREM GreeAlone ==
  ASSUME NEW g \in Indices, \A i \in Indices : Profiles[i] = "gree" <=> i = g
  PROVE  Spec => []GreeIsHeardAlone
<1>1. CASE Cardinality(Callers) = 1
  <2> DEFINE Inv == LoopInv /\ ClocksTyped /\ TwinInv /\ GreeInv
  <2>1. Inv /\ [Next]_vars => Inv'
    BY <1>1, LoopStep, ClocksStep, TwinStep, GreeStep
  <2>2. Init => Inv
    BY LoopInit, TwinInit, GreeInit DEF Init, ClocksTyped
  <2>3. Inv => GreeIsHeardAlone
    BY GreeConcludes
  <2> HIDE DEF Inv
  <2>4. QED
    BY <2>1, <2>2, <2>3, PTL DEF Spec
<1>2. CASE Cardinality(Callers) # 1
  <2>1. GreeIsHeardAlone
    BY <1>2 DEF GreeIsHeardAlone
  <2>2. QED
    BY <2>1, PTL
<1>3. QED
  BY <1>1, <1>2
=============================================================================
