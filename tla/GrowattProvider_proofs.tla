----------------------- MODULE GrowattProvider_proofs -----------------------
(***************************************************************************)
(* The safety of the provider for every number of callers, every number of *)
(* generations, every ring size and every sequence bound.                  *)
(***************************************************************************)
EXTENDS GrowattProvider, GrowattWindows_proofs

\* o08Lifecycle is held by the one caller that is past Lock and before Unlock.
LockHeld == \A c \in Callers : lifecycle = c <=> pc[c] \notin {"idle", "lock"}

\* What a caller knows at each point of its call.
CallInOrder ==
  \A c \in Callers :
    /\ pc[c] \in {"check", "install", "spawn"} => call[c].op = "start"
    /\ pc[c] \in {"fence", "cancel", "join", "install"} /\ call[c].op = "start" =>
         call[c].generation > generation
    /\ pc[c] \in {"cancel", "join"} => call[c].done = handle /\ handle # 0
    /\ pc[c] \in {"cancel", "join", "install"} => status = "stopped"
    /\ pc[c] = "install" => \A g \in Generations : ~Active(g)
    /\ pc[c] = "spawn" => /\ call[c].generation = generation
                          /\ generation # 0
                          /\ receiver[generation] = "unborn"
                          /\ status = "awaiting"

\* Sources are started one after the other: none above the latest generation
\* has been touched, none below it is active.
SourcesInOrder ==
  /\ handle = generation
  /\ \A g \in Generations : g > generation => receiver[g] = "unborn" /\ ~cancelled[g]
  /\ \A g \in Generations : g < generation => ~Active(g)

\* The status against o08Running, the receivers and the call under way.
StatusInOrder ==
  /\ running <=> status \in {"awaiting", "receiving"}
  /\ LiveIsServed
  /\ status = "stopped" => \/ \E c \in Callers : pc[c] \in {"cancel", "join"}
                           \/ \A g \in Generations : ~Active(g)

\* What the source of the current generation may have put into the replay.
Current == {e \in Evidence : e.mark = generation /\ e.iface = Selected /\ e.seq <= MaxSequence}

ReplayInOrder == \A i \in DOMAIN replay.windows : Filled(replay.windows[i], Current)

PendingInOrder ==
  \A g \in Generations :
    receiver[g] = "delivered" =>
      pending[g] \in [generation : Generations,
                      evidence : {e \in Evidence : e.mark = g /\ e.seq <= MaxSequence}]

LabelsInOrder ==
  /\ rawGeneration <= generation
  /\ projectionGeneration <= generation
  /\ raw = NoEvidence => rawGeneration = 0

Lifecycle == LockHeld /\ CallInOrder /\ SourcesInOrder /\ StatusInOrder

EvidenceInOrder ==
  /\ ReplayInOrder
  /\ PendingInOrder
  /\ LabelsInOrder
  /\ EvidenceFromOneSource
  /\ ReceivingIsHeld
  /\ FenceFollowsRaw

\* The inductive invariant.
IInv == TypeOK /\ Lifecycle /\ EvidenceInOrder
-----------------------------------------------------------------------------
LEMMA InitIInv == Init => IInv
<1> SUFFICES ASSUME Init PROVE IInv
  OBVIOUS
<1>1. DOMAIN replay.windows = {} /\ replay.windows = EmptyTable
  BY DEF Init, FreshReplay, EmptyTable
<1>2. TypeOK
  <2>1. /\ replay = [windows |-> EmptyTable, clock |-> 0]
        /\ DOMAIN replay.windows \subseteq {Selected}
        /\ replay.windows \in [DOMAIN replay.windows -> Window]
        /\ replay = [windows |-> replay.windows, clock |-> replay.clock]
        /\ replay.clock \in Nat
    BY <1>1 DEF Init, FreshReplay, EmptyTable
  <2>2. /\ projection \in Projections
        /\ pc \in [Callers -> CallPhases]
        /\ call \in [Callers -> [op : {"start", "stop"}, generation : 0 .. MaxGeneration,
                                 source : BOOLEAN, done : 0 .. MaxGeneration]]
        /\ cancelled \in [Generations -> BOOLEAN]
        /\ receiver \in [Generations -> ReceiverPhases]
        /\ pending \in [Generations -> Observation \cup {NoObservation}]
    BY ProviderAssumption DEF Init, NoCall, Projections, CallPhases, ReceiverPhases
  <2>3. /\ handle \in 0 .. MaxGeneration /\ generation \in 0 .. MaxGeneration
        /\ rawGeneration \in 0 .. MaxGeneration /\ projectionGeneration \in 0 .. MaxGeneration
        /\ sequence \in Nat
    BY ProviderAssumption DEF Init
  <2>4. /\ lifecycle \in Callers \cup {NoCaller}
        /\ running \in BOOLEAN /\ hasSequence \in BOOLEAN
        /\ status \in {"stopped", "awaiting", "receiving", "degraded"}
        /\ raw \in Evidence \cup {NoEvidence}
    BY DEF Init
  <2> QED
    BY <2>1, <2>2, <2>3, <2>4 DEF TypeOK
<1>3. Lifecycle
  BY ProviderAssumption
     DEF Init, Lifecycle, LockHeld, CallInOrder, SourcesInOrder, StatusInOrder, Active,
         Generations, LiveIsServed
<1>4. EvidenceInOrder
  BY <1>1, ProviderAssumption
     DEF Init, EvidenceInOrder, ReplayInOrder, PendingInOrder, LabelsInOrder,
         EvidenceFromOneSource, ReceivingIsHeld, FenceFollowsRaw, HeldTuple
<1> QED
  BY <1>2, <1>3, <1>4 DEF IInv

\* One caller at a time is past Lock.
LEMMA LockHeldStep ==
  ASSUME TypeOK, LockHeld, [Next]_vars
  PROVE  LockHeld'
<1>1. ASSUME NEW c \in Callers, CallStart(c) PROVE LockHeld'
  BY <1>1, ProviderAssumption
     DEF LockHeld, Goto, CallPhases, guarded, snapshot, history, sources, CallStart
<1>2. ASSUME NEW c \in Callers, CallStop(c) PROVE LockHeld'
  BY <1>2, ProviderAssumption
     DEF LockHeld, Goto, CallPhases, guarded, snapshot, history, sources, CallStop
<1>3. ASSUME NEW c \in Callers, LockLifecycle(c) PROVE LockHeld'
  BY <1>3, ProviderAssumption
     DEF LockHeld, TypeOK, Goto, CallPhases, guarded, snapshot, history, sources,
         LockLifecycle
<1>4. ASSUME NEW c \in Callers, CheckStart(c) PROVE LockHeld'
  BY <1>4, ProviderAssumption
     DEF LockHeld, Goto, CallPhases, guarded, snapshot, history, sources, CheckStart
<1>5. ASSUME NEW c \in Callers, Fence(c) PROVE LockHeld'
  BY <1>5, ProviderAssumption
     DEF LockHeld, Goto, AfterStop, CallPhases, history, sources, Fence
<1>6. ASSUME NEW c \in Callers, Cancel(c) PROVE LockHeld'
  BY <1>6, ProviderAssumption
     DEF LockHeld, Goto, CallPhases, guarded, snapshot, history, Cancel
<1>7. ASSUME NEW c \in Callers, Join(c) PROVE LockHeld'
  BY <1>7, ProviderAssumption
     DEF LockHeld, Goto, AfterStop, CallPhases, guarded, snapshot, history, sources, Join
<1>8. ASSUME NEW c \in Callers, Install(c) PROVE LockHeld'
  BY <1>8, ProviderAssumption DEF LockHeld, Goto, CallPhases, history, sources, Install
<1>9. ASSUME NEW c \in Callers, Spawn(c) PROVE LockHeld'
  BY <1>9, ProviderAssumption
     DEF LockHeld, Goto, CallPhases, guarded, snapshot, history, Spawn
<1>10. ASSUME NEW c \in Callers, Return(c) PROVE LockHeld'
  BY <1>10, ProviderAssumption
     DEF LockHeld, TypeOK, Goto, CallPhases, guarded, snapshot, history, sources, Return
<1>11. ASSUME NEW g \in Generations, SourceDelivers(g) PROVE LockHeld'
  BY <1>11, ProviderAssumption
     DEF LockHeld, CallPhases, guarded, snapshot, history, SourceDelivers
<1>12. ASSUME NEW g \in Generations, SourceFails(g) PROVE LockHeld'
  BY <1>12, ProviderAssumption
     DEF LockHeld, CallPhases, guarded, snapshot, history, SourceFails
<1>13. ASSUME NEW g \in Generations, ReceiveError(g) PROVE LockHeld'
  BY <1>13, ProviderAssumption DEF LockHeld, CallPhases, history, ReceiveError
<1>14. ASSUME NEW g \in Generations, ReceiveObservation(g) PROVE LockHeld'
  BY <1>14, ProviderAssumption
     DEF LockHeld, CallPhases, guarded, snapshot, history, ReceiveObservation
<1>15. ASSUME NEW g \in Generations, CheckContext(g) PROVE LockHeld'
  BY <1>15, ProviderAssumption
     DEF LockHeld, CallPhases, guarded, snapshot, history, CheckContext
<1>16. ASSUME NEW g \in Generations, CloseDone(g) PROVE LockHeld'
  BY <1>16, ProviderAssumption
     DEF LockHeld, CallPhases, guarded, snapshot, history, CloseDone
<1>17. ASSUME UNCHANGED vars PROVE LockHeld'
  BY <1>17, ProviderAssumption
     DEF LockHeld, CallPhases, guarded, snapshot, history, sources, vars
<1> QED
  BY <1>1, <1>2, <1>3, <1>4, <1>5, <1>6, <1>7, <1>8, <1>9, <1>10, <1>11, <1>12, <1>13,
     <1>14, <1>15, <1>16, <1>17
     DEF Next, Calls, CallerStep, SourceReturns, ReceiverStep

-----------------------------------------------------------------------------
\* An active receiver is the one of the latest generation.
LEMMA ActiveIsLatest ==
  ASSUME TypeOK, SourcesInOrder, NEW g \in Generations, Active(g)
  PROVE  g = generation
BY ProviderAssumption DEF TypeOK, SourcesInOrder, Active, Generations

\* What an accepted observation does to the replay and to the tuple.
LEMMA AcceptedParts ==
  ASSUME IInv, NEW g \in Generations, receiver[g] = "delivered",
         Admissible(pending[g]), Accept(pending[g])
  PROVE  /\ running
         /\ g = generation
         /\ pending[g].generation = generation
         /\ pending[g].evidence \in Current
         /\ replay' = [windows |-> replay'.windows, clock |-> replay'.clock]
         /\ replay'.clock \in Nat
         /\ DOMAIN replay'.windows = {Selected}
         /\ replay'.windows \in [{Selected} -> Window]
         /\ Filled(replay'.windows[Selected], Current)
         /\ Projection(replay'.windows[Selected]) \in Projections
         /\ Projection(replay'.windows[Selected]) # NoProjection =>
              \A id \in TupleIds : Projection(replay'.windows[Selected])[id] \in Current
<1> DEFINE e == pending[g].evidence
<1>1. g = generation
  BY ActiveIsLatest DEF IInv, Lifecycle, Active
<1>2. running /\ pending[g].generation = generation /\ e.iface = Selected
  BY DEF Admissible
<1>3. e \in Current /\ Current \subseteq Evidence
  BY <1>1, <1>2 DEF IInv, EvidenceInOrder, PendingInOrder, Current
<1>4. /\ DOMAIN replay.windows \subseteq {Selected} /\ replay.clock \in Nat
      /\ \A i \in DOMAIN replay.windows : Filled(replay.windows[i], Current)
  BY DEF IInv, TypeOK, EvidenceInOrder, ReplayInOrder
<1>5. IsFiniteSet(DOMAIN replay.windows) /\ Cardinality(DOMAIN replay.windows) <= MaximumInterfaces
  <2>1. IsFiniteSet({Selected}) /\ Cardinality({Selected}) = 1
    BY FS_Singleton
  <2>2. /\ IsFiniteSet(DOMAIN replay.windows)
        /\ Cardinality(DOMAIN replay.windows) <= 1
    BY <1>4, <2>1, FS_Subset
  <2>3. Cardinality(DOMAIN replay.windows) \in Nat
    BY <2>2, FS_CardinalityType
  <2> QED
    BY <2>2, <2>3, WindowAssumption
<1>6. PICK t \in Classified(replay.windows, e, replay.clock + 1) :
        replay' = [windows |-> t, clock |-> replay.clock + 1]
  BY <1>2 DEF Accept, Replayed
<1>7. /\ t = [i \in DOMAIN t |-> t[i]]
      /\ Selected \in DOMAIN t
      /\ t[Selected] = Observed(WindowFor(replay.windows, Selected), e, replay.clock + 1)
      /\ \A i \in DOMAIN t \ {Selected} : i \in DOMAIN replay.windows
  <2> HIDE DEF e
  <2> QED
    BY <1>2, <1>5, <1>6, ClassifiedParts
<1>8. DOMAIN t = {Selected}
  BY <1>4, <1>7
<1>9. Filled(t[Selected], Current)
  <2> DEFINE w == WindowFor(replay.windows, Selected)
             n == replay.clock + 1
  <2>1. Filled(w, Current)
    BY <1>4, EmptyWindowFilled DEF WindowFor
  <2>2. n \in Nat
    BY <1>4
  <2> HIDE DEF w, n, e
  <2>3. Filled(Observed(w, e, n), Current)
    BY <1>3, <2>1, <2>2, ObservedFilled
  <2> QED
    BY <1>7, <2>3 DEF w, n
<1>10. /\ Projection(t[Selected]) \in Projections
       /\ Projection(t[Selected]) # NoProjection =>
            \A id \in TupleIds : Projection(t[Selected])[id] \in Current
  <2>1. Current \subseteq {x \in Evidence : x.seq <= MaxSequence} /\ MaxSequence \in Nat
    BY ProviderAssumption DEF Current
  <2> DEFINE w == t[Selected]
  <2>2. Filled(w, Current)
    BY <1>9
  <2> HIDE DEF w
  <2>3. /\ Projection(w) \in Projections
        /\ Projection(w) # NoProjection => \A id \in TupleIds : Projection(w)[id] \in Current
    BY <2>1, <2>2, ProjectionHeld
  <2> QED
    BY <2>3 DEF w
<1>11. t \in [{Selected} -> Window]
  BY <1>7, <1>8, <1>9 DEF Filled
<1> QED
  BY <1>1, <1>2, <1>3, <1>4, <1>6, <1>8, <1>9, <1>10, <1>11

\* Every step keeps the state well typed.
LEMMA TypeOKStep ==
  ASSUME IInv, [Next]_vars
  PROVE  TypeOK'
<1>1. ASSUME NEW c \in Callers, CallStart(c) PROVE TypeOK'
  BY <1>1, ProviderAssumption
     DEF IInv, TypeOK, Goto, AfterStop, CallPhases, ReceiverPhases, guarded, snapshot,
         history, sources, CallStart
<1>2. ASSUME NEW c \in Callers, CallStop(c) PROVE TypeOK'
  BY <1>2, ProviderAssumption
     DEF IInv, TypeOK, Goto, CallPhases, NoCall, guarded, snapshot, history, sources,
         CallStop
<1>3. ASSUME NEW c \in Callers, LockLifecycle(c) PROVE TypeOK'
  BY <1>3, ProviderAssumption
     DEF IInv, TypeOK, Goto, AfterStop, CallPhases, ReceiverPhases, guarded, snapshot,
         history, sources, LockLifecycle
<1>4. ASSUME NEW c \in Callers, CheckStart(c) PROVE TypeOK'
  BY <1>4, ProviderAssumption
     DEF IInv, TypeOK, Goto, AfterStop, CallPhases, ReceiverPhases, guarded, snapshot,
         history, sources, CheckStart
<1>5. ASSUME NEW c \in Callers, Fence(c) PROVE TypeOK'
  BY <1>5, ProviderAssumption, Zenon
     DEF IInv, TypeOK, Goto, AfterStop, CallPhases, ReceiverPhases, guarded, snapshot,
         history, sources, Fence
<1>6. ASSUME NEW c \in Callers, Cancel(c) PROVE TypeOK'
  BY <1>6, ProviderAssumption
     DEF IInv, TypeOK, Goto, AfterStop, CallPhases, ReceiverPhases, guarded, snapshot,
         history, sources, Cancel
<1>7. ASSUME NEW c \in Callers, Join(c) PROVE TypeOK'
  BY <1>7, ProviderAssumption
     DEF IInv, TypeOK, Goto, AfterStop, CallPhases, ReceiverPhases, guarded, snapshot,
         history, sources, Join
<1>8. ASSUME NEW c \in Callers, Install(c) PROVE TypeOK'
  <2>1. /\ DOMAIN replay'.windows \subseteq {Selected}
        /\ replay'.windows \in [DOMAIN replay'.windows -> Window]
        /\ replay' = [windows |-> replay'.windows, clock |-> replay'.clock]
        /\ replay'.clock \in Nat
    <3>1. replay' = [windows |-> EmptyTable, clock |-> 0]
      BY <1>8 DEF Install, FreshReplay
    <3> QED
      BY <3>1 DEF EmptyTable
  <2>2. /\ handle' \in 0 .. MaxGeneration /\ generation' \in 0 .. MaxGeneration
        /\ pc' \in [Callers -> CallPhases]
    BY <1>8 DEF IInv, TypeOK, Install, Goto, CallPhases
  <2>3. /\ running' \in BOOLEAN /\ sequence' \in Nat /\ hasSequence' \in BOOLEAN
        /\ status' \in {"stopped", "awaiting", "receiving", "degraded"}
    BY <1>8 DEF Install
  <2> QED
    BY <1>8, <2>1, <2>2, <2>3 DEF IInv, TypeOK, Install, history, sources
<1>9. ASSUME NEW c \in Callers, Spawn(c) PROVE TypeOK'
  BY <1>9, ProviderAssumption
     DEF IInv, TypeOK, Goto, AfterStop, CallPhases, ReceiverPhases, guarded, snapshot,
         history, sources, Spawn
<1>10. ASSUME NEW c \in Callers, Return(c) PROVE TypeOK'
  BY <1>10, ProviderAssumption
     DEF IInv, TypeOK, Goto, CallPhases, NoCall, guarded, snapshot, history, sources,
         Return
<1>11. ASSUME NEW g \in Generations, SourceDelivers(g) PROVE TypeOK'
  <2>1. pending' \in [Generations -> Observation \cup {NoObservation}]
    <3>1. PICK claimed \in Generations, i \in Interfaces, f \in Frames, q \in 0 .. MaxSequence :
            pending' = [pending EXCEPT ![g] =
              [generation |-> claimed,
               evidence |-> [frame |-> f, iface |-> i, seq |-> q, mark |-> g]]]
      BY <1>11 DEF SourceDelivers
    <3>2. [frame |-> f, iface |-> i, seq |-> q, mark |-> g] \in Evidence
      BY ProviderAssumption DEF Evidence, Generations
    <3>3. claimed \in 0 .. MaxGeneration
      BY DEF Generations
    <3> QED
      BY <3>1, <3>2, <3>3 DEF IInv, TypeOK, Observation
  <2>2. receiver' \in [Generations -> ReceiverPhases]
    BY <1>11 DEF IInv, TypeOK, SourceDelivers, ReceiverPhases
  <2> QED
    BY <1>11, <2>1, <2>2 DEF IInv, TypeOK, SourceDelivers, guarded, snapshot, history
<1>12. ASSUME NEW g \in Generations, SourceFails(g) PROVE TypeOK'
  BY <1>12, ProviderAssumption
     DEF IInv, TypeOK, AfterStop, CallPhases, ReceiverPhases, guarded, snapshot, history,
         sources, SourceFails
<1>13. ASSUME NEW g \in Generations, ReceiveError(g) PROVE TypeOK'
  BY <1>13, ProviderAssumption
     DEF IInv, TypeOK, AfterStop, CallPhases, ReceiverPhases, guarded, snapshot, history,
         sources, ReceiveError
<1>14. ASSUME NEW g \in Generations, ReceiveObservation(g) PROVE TypeOK'
  <2>1. /\ receiver' \in [Generations -> ReceiverPhases]
        /\ pending' \in [Generations -> Observation \cup {NoObservation}]
    BY <1>14 DEF IInv, TypeOK, ReceiveObservation, ReceiverPhases
  <2>2. CASE ~Admissible(pending[g])
    BY <1>14, <2>1, <2>2 DEF IInv, TypeOK, ReceiveObservation, guarded, snapshot, history
  <2>3. CASE Admissible(pending[g])
    <3>1. Accept(pending[g]) /\ receiver[g] = "delivered"
      BY <1>14, <2>3 DEF ReceiveObservation
    <3>2. /\ pending[g].generation = generation
          /\ pending[g].evidence \in Current
          /\ replay' = [windows |-> replay'.windows, clock |-> replay'.clock]
          /\ replay'.clock \in Nat
          /\ DOMAIN replay'.windows = {Selected}
          /\ replay'.windows \in [{Selected} -> Window]
          /\ Projection(replay'.windows[Selected]) \in Projections
      BY <2>3, <3>1, AcceptedParts
    <3>3. /\ sequence' \in Nat /\ hasSequence' \in BOOLEAN
          /\ raw' \in Evidence \cup {NoEvidence} /\ rawGeneration' \in 0 .. MaxGeneration
      BY <3>1, <3>2 DEF Accept, Current, Evidence, IInv, TypeOK
    <3>4. /\ projection' \in Projections /\ projectionGeneration' \in 0 .. MaxGeneration
          /\ status' \in {"stopped", "awaiting", "receiving", "degraded"}
      BY <3>1, <3>2 DEF Accept, Publish, Current, IInv, TypeOK
    <3> QED
      BY <1>14, <2>1, <3>1, <3>2, <3>3, <3>4 DEF IInv, TypeOK, ReceiveObservation, Accept
  <2> QED
    BY <2>2, <2>3
<1>15. ASSUME NEW g \in Generations, CheckContext(g) PROVE TypeOK'
  BY <1>15, ProviderAssumption
     DEF IInv, TypeOK, AfterStop, CallPhases, ReceiverPhases, guarded, snapshot, history,
         sources, CheckContext
<1>16. ASSUME NEW g \in Generations, CloseDone(g) PROVE TypeOK'
  BY <1>16, ProviderAssumption
     DEF IInv, TypeOK, AfterStop, CallPhases, ReceiverPhases, guarded, snapshot, history,
         sources, CloseDone
<1>17. ASSUME UNCHANGED vars PROVE TypeOK'
  BY <1>17, ProviderAssumption
     DEF IInv, TypeOK, AfterStop, CallPhases, ReceiverPhases, guarded, snapshot, history,
         sources, vars
<1> QED
  BY <1>1, <1>2, <1>3, <1>4, <1>5, <1>6, <1>7, <1>8, <1>9, <1>10, <1>11, <1>12, <1>13,
     <1>14, <1>15, <1>16, <1>17
     DEF Next, Calls, CallerStep, SourceReturns, ReceiverStep

-----------------------------------------------------------------------------
\* Sources are started and joined one after the other.
LEMMA SourcesInOrderStep ==
  ASSUME IInv, TypeOK', [Next]_vars
  PROVE  SourcesInOrder'
<1>1. ASSUME NEW c \in Callers, CallStart(c) PROVE SourcesInOrder'
  BY <1>1, ProviderAssumption
     DEF IInv, Lifecycle, SourcesInOrder, CallInOrder, LockHeld, Active, Goto, AfterStop,
         Generations, guarded, snapshot, history, sources, CallStart
<1>2. ASSUME NEW c \in Callers, CallStop(c) PROVE SourcesInOrder'
  BY <1>2, ProviderAssumption
     DEF IInv, Lifecycle, SourcesInOrder, CallInOrder, LockHeld, Active, Goto, AfterStop,
         Generations, guarded, snapshot, history, sources, CallStop
<1>3. ASSUME NEW c \in Callers, LockLifecycle(c) PROVE SourcesInOrder'
  BY <1>3, ProviderAssumption
     DEF IInv, Lifecycle, SourcesInOrder, CallInOrder, LockHeld, Active, Goto, AfterStop,
         Generations, guarded, snapshot, history, sources, LockLifecycle
<1>4. ASSUME NEW c \in Callers, CheckStart(c) PROVE SourcesInOrder'
  BY <1>4, ProviderAssumption
     DEF IInv, Lifecycle, SourcesInOrder, CallInOrder, LockHeld, Active, Goto, AfterStop,
         Generations, guarded, snapshot, history, sources, CheckStart
<1>5. ASSUME NEW c \in Callers, Fence(c) PROVE SourcesInOrder'
  BY <1>5, ProviderAssumption
     DEF IInv, Lifecycle, SourcesInOrder, CallInOrder, LockHeld, Active, Goto, AfterStop,
         Generations, guarded, snapshot, history, sources, Fence
<1>6. ASSUME NEW c \in Callers, Cancel(c) PROVE SourcesInOrder'
  BY <1>6, ProviderAssumption
     DEF IInv, Lifecycle, SourcesInOrder, CallInOrder, LockHeld, Active, Goto, AfterStop,
         Generations, guarded, snapshot, history, sources, Cancel
<1>7. ASSUME NEW c \in Callers, Join(c) PROVE SourcesInOrder'
  BY <1>7, ProviderAssumption
     DEF IInv, Lifecycle, SourcesInOrder, CallInOrder, LockHeld, Active, Goto, AfterStop,
         Generations, guarded, snapshot, history, sources, Join
<1>8. ASSUME NEW c \in Callers, Install(c) PROVE SourcesInOrder'
  BY <1>8, ProviderAssumption
     DEF IInv, Lifecycle, TypeOK, SourcesInOrder, CallInOrder, LockHeld, Active, Goto,
         AfterStop, Generations, guarded, snapshot, history, sources, Install
<1>9. ASSUME NEW c \in Callers, Spawn(c) PROVE SourcesInOrder'
  BY <1>9, ProviderAssumption
     DEF IInv, Lifecycle, SourcesInOrder, CallInOrder, LockHeld, Active, Goto, AfterStop,
         Generations, guarded, snapshot, history, sources, Spawn
<1>10. ASSUME NEW c \in Callers, Return(c) PROVE SourcesInOrder'
  BY <1>10, ProviderAssumption
     DEF IInv, Lifecycle, SourcesInOrder, CallInOrder, LockHeld, Active, Goto, AfterStop,
         Generations, guarded, snapshot, history, sources, Return
<1>11. ASSUME NEW g \in Generations, SourceDelivers(g) PROVE SourcesInOrder'
  BY <1>11, ProviderAssumption
     DEF IInv, Lifecycle, SourcesInOrder, CallInOrder, LockHeld, Active, Goto, AfterStop,
         Generations, guarded, snapshot, history, sources, SourceDelivers
<1>12. ASSUME NEW g \in Generations, SourceFails(g) PROVE SourcesInOrder'
  BY <1>12, ProviderAssumption
     DEF IInv, Lifecycle, SourcesInOrder, CallInOrder, LockHeld, Active, Goto, AfterStop,
         Generations, guarded, snapshot, history, sources, SourceFails
<1>13. ASSUME NEW g \in Generations, ReceiveError(g) PROVE SourcesInOrder'
  BY <1>13, ProviderAssumption
     DEF IInv, Lifecycle, SourcesInOrder, CallInOrder, LockHeld, Active, Goto, AfterStop,
         Generations, guarded, snapshot, history, sources, ReceiveError
<1>14. ASSUME NEW g \in Generations, ReceiveObservation(g) PROVE SourcesInOrder'
  BY <1>14, ProviderAssumption
     DEF IInv, Lifecycle, SourcesInOrder, CallInOrder, LockHeld, Active, Goto, AfterStop,
         Generations, guarded, snapshot, history, sources, Accept, Publish,
         ReceiveObservation
<1>15. ASSUME NEW g \in Generations, CheckContext(g) PROVE SourcesInOrder'
  BY <1>15, ProviderAssumption
     DEF IInv, Lifecycle, SourcesInOrder, CallInOrder, LockHeld, Active, Goto, AfterStop,
         Generations, guarded, snapshot, history, sources, CheckContext
<1>16. ASSUME NEW g \in Generations, CloseDone(g) PROVE SourcesInOrder'
  BY <1>16, ProviderAssumption
     DEF IInv, Lifecycle, SourcesInOrder, CallInOrder, LockHeld, Active, Goto, AfterStop,
         Generations, guarded, snapshot, history, sources, CloseDone
<1>17. ASSUME UNCHANGED vars PROVE SourcesInOrder'
  BY <1>17, ProviderAssumption
     DEF IInv, Lifecycle, SourcesInOrder, CallInOrder, LockHeld, Active, Goto, AfterStop,
         Generations, guarded, snapshot, history, sources, vars
<1> QED
  BY <1>1, <1>2, <1>3, <1>4, <1>5, <1>6, <1>7, <1>8, <1>9, <1>10, <1>11, <1>12, <1>13,
     <1>14, <1>15, <1>16, <1>17
     DEF Next, Calls, CallerStep, SourceReturns, ReceiverStep

\* What a caller knows stays true until it uses it.
LEMMA CallInOrderStep ==
  ASSUME IInv, TypeOK', LockHeld', [Next]_vars
  PROVE  CallInOrder'
<1>1. ASSUME NEW c \in Callers, CallStart(c) PROVE CallInOrder'
  BY <1>1, ProviderAssumption
     DEF IInv, Lifecycle, SourcesInOrder, StatusInOrder, CallInOrder, LockHeld, Active,
         Goto, AfterStop, Generations, guarded, snapshot, history, sources, CallStart
<1>2. ASSUME NEW c \in Callers, CallStop(c) PROVE CallInOrder'
  BY <1>2, ProviderAssumption
     DEF IInv, Lifecycle, SourcesInOrder, StatusInOrder, CallInOrder, LockHeld, Active,
         Goto, AfterStop, Generations, guarded, snapshot, history, sources, CallStop
<1>3. ASSUME NEW c \in Callers, LockLifecycle(c) PROVE CallInOrder'
  BY <1>3, ProviderAssumption
     DEF IInv, SourcesInOrder, StatusInOrder, CallInOrder, LockHeld, Active, Goto,
         AfterStop, Generations, guarded, snapshot, history, sources, LockLifecycle
<1>4. ASSUME NEW c \in Callers, CheckStart(c) PROVE CallInOrder'
  BY <1>4, ProviderAssumption
     DEF IInv, Lifecycle, TypeOK, SourcesInOrder, StatusInOrder, CallInOrder, LockHeld,
         Active, Goto, AfterStop, InvalidStart, Generations, guarded, snapshot, history,
         sources, CheckStart
<1>5. ASSUME NEW c \in Callers, Fence(c) PROVE CallInOrder'
  BY <1>5, ProviderAssumption
     DEF IInv, Lifecycle, TypeOK, SourcesInOrder, StatusInOrder, CallInOrder, LockHeld,
         Active, Goto, AfterStop, Generations, guarded, snapshot, history, sources, Fence
<1>6. ASSUME NEW c \in Callers, Cancel(c) PROVE CallInOrder'
  BY <1>6, ProviderAssumption
     DEF IInv, Lifecycle, SourcesInOrder, StatusInOrder, CallInOrder, LockHeld, Active,
         Goto, AfterStop, Generations, guarded, snapshot, history, sources, Cancel
<1>7. ASSUME NEW c \in Callers, Join(c) PROVE CallInOrder'
  BY <1>7, ProviderAssumption
     DEF IInv, Lifecycle, TypeOK, SourcesInOrder, StatusInOrder, CallInOrder, LockHeld,
         Active, Goto, AfterStop, Generations, guarded, snapshot, history, sources, Join
<1>8. ASSUME NEW c \in Callers, Install(c) PROVE CallInOrder'
  <2>1. /\ pc[c] = "install" /\ pc'[c] = "spawn" /\ lifecycle = c
        /\ call[c].op = "start" /\ call[c].generation > generation
        /\ \A d \in Callers \ {c} : pc'[d] \in {"idle", "lock"}
    BY <1>8 DEF IInv, TypeOK, Lifecycle, LockHeld, CallInOrder, Install, Goto
  <2>2. /\ generation' = call[c].generation /\ generation' \in Generations
        /\ receiver[generation'] = "unborn"
    BY <1>8, <2>1, ProviderAssumption
       DEF IInv, TypeOK, Lifecycle, SourcesInOrder, Install, Generations
  <2> QED
    BY <1>8, <2>1, <2>2 DEF CallInOrder, Install, sources, Generations
<1>9. ASSUME NEW c \in Callers, Spawn(c) PROVE CallInOrder'
  BY <1>9, ProviderAssumption
     DEF IInv, TypeOK, SourcesInOrder, StatusInOrder, CallInOrder, LockHeld, Active,
         Goto, AfterStop, Generations, guarded, snapshot, history, sources, Spawn
<1>10. ASSUME NEW c \in Callers, Return(c) PROVE CallInOrder'
  BY <1>10, ProviderAssumption
     DEF IInv, SourcesInOrder, StatusInOrder, CallInOrder, LockHeld, Active, Goto,
         AfterStop, Generations, guarded, snapshot, history, sources, Return
<1>11. ASSUME NEW g \in Generations, SourceDelivers(g) PROVE CallInOrder'
  BY <1>11, ProviderAssumption, SMTT(30)
     DEF IInv, Lifecycle, TypeOK, SourcesInOrder, StatusInOrder, CallInOrder, LockHeld,
         Active, Goto, AfterStop, Generations, guarded, snapshot, history, sources,
         SourceDelivers
<1>12. ASSUME NEW g \in Generations, SourceFails(g) PROVE CallInOrder'
  BY <1>12, ProviderAssumption
     DEF IInv, Lifecycle, SourcesInOrder, StatusInOrder, CallInOrder, LockHeld, Active,
         Goto, AfterStop, Generations, guarded, snapshot, history, sources, SourceFails
<1>13. ASSUME NEW g \in Generations, ReceiveError(g) PROVE CallInOrder'
  BY <1>13, ProviderAssumption
     DEF IInv, Lifecycle, SourcesInOrder, StatusInOrder, CallInOrder, LockHeld, Active,
         Goto, AfterStop, Generations, guarded, snapshot, history, sources, ReceiveError
<1>14. ASSUME NEW g \in Generations, ReceiveObservation(g) PROVE CallInOrder'
  <2>1. receiver[g] = "delivered" /\ receiver' = [receiver EXCEPT ![g] = "applied"]
    BY <1>14 DEF ReceiveObservation
  <2>2. /\ \A h \in Generations : Active(h)' = Active(h)
        /\ g = generation
        /\ \A d \in Callers : pc[d] # "spawn" /\ pc[d] # "install"
    BY <1>14, <2>1, ActiveIsLatest
       DEF IInv, Lifecycle, SourcesInOrder, CallInOrder, Active
  <2>3. UNCHANGED <<handle, generation, pc, call>>
    BY <1>14 DEF ReceiveObservation, Accept, guarded, snapshot
  <2>4. status = "stopped" => status' = status
    BY <1>14 DEF ReceiveObservation, Admissible, snapshot, IInv, Lifecycle, StatusInOrder
  <2> QED
    BY <2>2, <2>3, <2>4 DEF IInv, Lifecycle, CallInOrder
<1>15. ASSUME NEW g \in Generations, CheckContext(g) PROVE CallInOrder'
  BY <1>15, ProviderAssumption
     DEF IInv, Lifecycle, SourcesInOrder, StatusInOrder, CallInOrder, LockHeld, Active,
         Goto, AfterStop, Generations, guarded, snapshot, history, sources, CheckContext
<1>16. ASSUME NEW g \in Generations, CloseDone(g) PROVE CallInOrder'
  BY <1>16, ProviderAssumption
     DEF IInv, Lifecycle, SourcesInOrder, StatusInOrder, CallInOrder, LockHeld, Active,
         Goto, AfterStop, Generations, guarded, snapshot, history, sources, CloseDone
<1>17. ASSUME UNCHANGED vars PROVE CallInOrder'
  BY <1>17, ProviderAssumption
     DEF IInv, Lifecycle, SourcesInOrder, StatusInOrder, CallInOrder, LockHeld, Active,
         Goto, AfterStop, Generations, guarded, snapshot, history, sources, vars
<1> QED
  BY <1>1, <1>2, <1>3, <1>4, <1>5, <1>6, <1>7, <1>8, <1>9, <1>10, <1>11, <1>12, <1>13,
     <1>14, <1>15, <1>16, <1>17
     DEF Next, Calls, CallerStep, SourceReturns, ReceiverStep

\* The status never claims a source that is not served.
LEMMA StatusInOrderStep ==
  ASSUME IInv, TypeOK', SourcesInOrder', [Next]_vars
  PROVE  StatusInOrder'
<1>1. ASSUME NEW c \in Callers, CallStart(c) PROVE StatusInOrder'
  BY <1>1, ProviderAssumption
     DEF IInv, Lifecycle, SourcesInOrder, StatusInOrder, CallInOrder, LockHeld,
         LiveIsServed, Active, Goto, AfterStop, Generations, guarded, snapshot, history,
         sources, CallStart
<1>2. ASSUME NEW c \in Callers, CallStop(c) PROVE StatusInOrder'
  BY <1>2, ProviderAssumption
     DEF IInv, Lifecycle, SourcesInOrder, StatusInOrder, CallInOrder, LockHeld,
         LiveIsServed, Active, Goto, AfterStop, Generations, guarded, snapshot, history,
         sources, CallStop
<1>3. ASSUME NEW c \in Callers, LockLifecycle(c) PROVE StatusInOrder'
  BY <1>3, ProviderAssumption
     DEF IInv, Lifecycle, SourcesInOrder, StatusInOrder, CallInOrder, LockHeld,
         LiveIsServed, Active, Goto, AfterStop, Generations, guarded, snapshot, history,
         sources, LockLifecycle
<1>4. ASSUME NEW c \in Callers, CheckStart(c) PROVE StatusInOrder'
  BY <1>4, ProviderAssumption
     DEF IInv, Lifecycle, SourcesInOrder, StatusInOrder, CallInOrder, LockHeld,
         LiveIsServed, Active, Goto, AfterStop, Generations, guarded, snapshot, history,
         sources, CheckStart
<1>5. ASSUME NEW c \in Callers, Fence(c) PROVE StatusInOrder'
  BY <1>5, ProviderAssumption
     DEF IInv, TypeOK, SourcesInOrder, StatusInOrder, CallInOrder, LockHeld,
         LiveIsServed, Active, Goto, AfterStop, Generations, guarded, snapshot, history,
         sources, Fence
<1>6. ASSUME NEW c \in Callers, Cancel(c) PROVE StatusInOrder'
  BY <1>6, ProviderAssumption
     DEF IInv, Lifecycle, SourcesInOrder, StatusInOrder, CallInOrder, LockHeld,
         LiveIsServed, Active, Goto, AfterStop, Generations, guarded, snapshot, history,
         sources, Cancel
<1>7. ASSUME NEW c \in Callers, Join(c) PROVE StatusInOrder'
  BY <1>7, ProviderAssumption
     DEF IInv, Lifecycle, TypeOK, SourcesInOrder, StatusInOrder, CallInOrder, LockHeld,
         LiveIsServed, Active, Goto, AfterStop, Generations, guarded, snapshot, history,
         sources, Join
<1>8. ASSUME NEW c \in Callers, Install(c) PROVE StatusInOrder'
  BY <1>8, ProviderAssumption
     DEF IInv, Lifecycle, TypeOK, SourcesInOrder, StatusInOrder, CallInOrder, LockHeld,
         LiveIsServed, Active, Goto, AfterStop, Generations, guarded, snapshot, history,
         sources, Install
<1>9. ASSUME NEW c \in Callers, Spawn(c) PROVE StatusInOrder'
  BY <1>9, ProviderAssumption
     DEF IInv, Lifecycle, TypeOK, SourcesInOrder, StatusInOrder, CallInOrder, LockHeld,
         LiveIsServed, Active, Goto, AfterStop, Generations, guarded, snapshot, history,
         sources, Spawn
<1>10. ASSUME NEW c \in Callers, Return(c) PROVE StatusInOrder'
  BY <1>10, ProviderAssumption
     DEF IInv, Lifecycle, SourcesInOrder, StatusInOrder, CallInOrder, LockHeld,
         LiveIsServed, Active, Goto, AfterStop, Generations, guarded, snapshot, history,
         sources, Return
<1>11. ASSUME NEW g \in Generations, SourceDelivers(g) PROVE StatusInOrder'
  BY <1>11, ProviderAssumption
     DEF IInv, Lifecycle, SourcesInOrder, StatusInOrder, CallInOrder, LockHeld,
         LiveIsServed, Active, Goto, AfterStop, Generations, guarded, snapshot, history,
         sources, SourceDelivers
<1>12. ASSUME NEW g \in Generations, SourceFails(g) PROVE StatusInOrder'
  BY <1>12, ProviderAssumption
     DEF IInv, Lifecycle, SourcesInOrder, StatusInOrder, CallInOrder, LockHeld,
         LiveIsServed, Active, Goto, AfterStop, Generations, guarded, snapshot, history,
         sources, SourceFails
<1>13. ASSUME NEW g \in Generations, ReceiveError(g) PROVE StatusInOrder'
  BY <1>13, ProviderAssumption
     DEF IInv, Lifecycle, SourcesInOrder, StatusInOrder, CallInOrder, LockHeld,
         LiveIsServed, Active, Goto, AfterStop, Generations, guarded, snapshot, history,
         sources, ReceiveError
<1>14. ASSUME NEW g \in Generations, ReceiveObservation(g) PROVE StatusInOrder'
  BY <1>14, ProviderAssumption
     DEF IInv, Lifecycle, SourcesInOrder, StatusInOrder, CallInOrder, LockHeld,
         LiveIsServed, Active, Goto, AfterStop, Generations, guarded, snapshot, history,
         sources, Accept, Publish, Admissible, ReceiveObservation
<1>15. ASSUME NEW g \in Generations, CheckContext(g) PROVE StatusInOrder'
  BY <1>15, ProviderAssumption
     DEF IInv, Lifecycle, SourcesInOrder, StatusInOrder, CallInOrder, LockHeld,
         LiveIsServed, Active, Goto, AfterStop, Generations, guarded, snapshot, history,
         sources, CheckContext
<1>16. ASSUME NEW g \in Generations, CloseDone(g) PROVE StatusInOrder'
  BY <1>16, ProviderAssumption
     DEF IInv, Lifecycle, SourcesInOrder, StatusInOrder, CallInOrder, LockHeld,
         LiveIsServed, Active, Goto, AfterStop, Generations, guarded, snapshot, history,
         sources, CloseDone
<1>17. ASSUME UNCHANGED vars PROVE StatusInOrder'
  BY <1>17, ProviderAssumption
     DEF IInv, Lifecycle, SourcesInOrder, StatusInOrder, CallInOrder, LockHeld,
         LiveIsServed, Active, Goto, AfterStop, Generations, guarded, snapshot, history,
         sources, vars
<1> QED
  BY <1>1, <1>2, <1>3, <1>4, <1>5, <1>6, <1>7, <1>8, <1>9, <1>10, <1>11, <1>12, <1>13,
     <1>14, <1>15, <1>16, <1>17
     DEF Next, Calls, CallerStep, SourceReturns, ReceiverStep

-----------------------------------------------------------------------------
\* The replay only holds observations of the running source.
LEMMA ReplayInOrderStep ==
  ASSUME IInv, [Next]_vars
  PROVE  ReplayInOrder'
<1>1. ASSUME NEW c \in Callers, CallStart(c) PROVE ReplayInOrder'
  BY <1>1, ProviderAssumption
     DEF IInv, EvidenceInOrder, TypeOK, ReplayInOrder, Current, FreshReplay, EmptyTable,
         Goto, guarded, snapshot, history, sources, CallStart
<1>2. ASSUME NEW c \in Callers, CallStop(c) PROVE ReplayInOrder'
  BY <1>2, ProviderAssumption
     DEF IInv, EvidenceInOrder, TypeOK, ReplayInOrder, Current, FreshReplay, EmptyTable,
         Goto, guarded, snapshot, history, sources, CallStop
<1>3. ASSUME NEW c \in Callers, LockLifecycle(c) PROVE ReplayInOrder'
  BY <1>3, ProviderAssumption
     DEF IInv, EvidenceInOrder, TypeOK, ReplayInOrder, Current, FreshReplay, EmptyTable,
         Goto, guarded, snapshot, history, sources, LockLifecycle
<1>4. ASSUME NEW c \in Callers, CheckStart(c) PROVE ReplayInOrder'
  BY <1>4, ProviderAssumption
     DEF IInv, EvidenceInOrder, TypeOK, ReplayInOrder, Current, FreshReplay, EmptyTable,
         Goto, guarded, snapshot, history, sources, CheckStart
<1>5. ASSUME NEW c \in Callers, Fence(c) PROVE ReplayInOrder'
  BY <1>5, ProviderAssumption
     DEF IInv, EvidenceInOrder, TypeOK, ReplayInOrder, Current, FreshReplay, EmptyTable,
         Goto, guarded, snapshot, history, sources, Fence
<1>6. ASSUME NEW c \in Callers, Cancel(c) PROVE ReplayInOrder'
  BY <1>6, ProviderAssumption
     DEF IInv, EvidenceInOrder, TypeOK, ReplayInOrder, Current, FreshReplay, EmptyTable,
         Goto, guarded, snapshot, history, sources, Cancel
<1>7. ASSUME NEW c \in Callers, Join(c) PROVE ReplayInOrder'
  BY <1>7, ProviderAssumption
     DEF IInv, EvidenceInOrder, TypeOK, ReplayInOrder, Current, FreshReplay, EmptyTable,
         Goto, guarded, snapshot, history, sources, Join
<1>8. ASSUME NEW c \in Callers, Install(c) PROVE ReplayInOrder'
  BY <1>8, ProviderAssumption
     DEF IInv, TypeOK, ReplayInOrder, Current, FreshReplay, EmptyTable, Goto, guarded,
         snapshot, history, sources, Install
<1>9. ASSUME NEW c \in Callers, Spawn(c) PROVE ReplayInOrder'
  BY <1>9, ProviderAssumption
     DEF IInv, EvidenceInOrder, TypeOK, ReplayInOrder, Current, FreshReplay, EmptyTable,
         Goto, guarded, snapshot, history, sources, Spawn
<1>10. ASSUME NEW c \in Callers, Return(c) PROVE ReplayInOrder'
  BY <1>10, ProviderAssumption
     DEF IInv, EvidenceInOrder, TypeOK, ReplayInOrder, Current, FreshReplay, EmptyTable,
         Goto, guarded, snapshot, history, sources, Return
<1>11. ASSUME NEW g \in Generations, SourceDelivers(g) PROVE ReplayInOrder'
  BY <1>11, ProviderAssumption
     DEF IInv, EvidenceInOrder, TypeOK, ReplayInOrder, Current, FreshReplay, EmptyTable,
         Goto, guarded, snapshot, history, sources, SourceDelivers
<1>12. ASSUME NEW g \in Generations, SourceFails(g) PROVE ReplayInOrder'
  BY <1>12, ProviderAssumption
     DEF IInv, EvidenceInOrder, TypeOK, ReplayInOrder, Current, FreshReplay, EmptyTable,
         Goto, guarded, snapshot, history, sources, SourceFails
<1>13. ASSUME NEW g \in Generations, ReceiveError(g) PROVE ReplayInOrder'
  BY <1>13, ProviderAssumption
     DEF IInv, EvidenceInOrder, TypeOK, ReplayInOrder, Current, FreshReplay, EmptyTable,
         Goto, guarded, snapshot, history, sources, ReceiveError
<1>14. ASSUME NEW g \in Generations, ReceiveObservation(g) PROVE ReplayInOrder'
  <2>1. CASE ~Admissible(pending[g])
    BY <1>14, <2>1
       DEF IInv, EvidenceInOrder, ReceiveObservation, guarded, snapshot, history,
           ReplayInOrder, Current, FreshReplay, EmptyTable
  <2>2. CASE Admissible(pending[g])
    <3>1. receiver[g] = "delivered" /\ Accept(pending[g])
      BY <1>14, <2>2 DEF ReceiveObservation
    <3>2. /\ running
          /\ g = generation
          /\ pending[g].generation = generation
          /\ pending[g].evidence \in Current
          /\ pending[g].evidence.iface = Selected
          /\ DOMAIN replay'.windows = {Selected}
          /\ Filled(replay'.windows[Selected], Current)
          /\ Projection(replay'.windows[Selected]) # NoProjection =>
               \A id \in TupleIds : Projection(replay'.windows[Selected])[id] \in Current
      BY <2>2, <3>1, AcceptedParts DEF Current
    <3> QED
      BY <3>1, <3>2 DEF IInv, Accept, ReplayInOrder, Current, FreshReplay, EmptyTable
  <2> QED
    BY <2>1, <2>2
<1>15. ASSUME NEW g \in Generations, CheckContext(g) PROVE ReplayInOrder'
  BY <1>15, ProviderAssumption
     DEF IInv, EvidenceInOrder, TypeOK, ReplayInOrder, Current, FreshReplay, EmptyTable,
         Goto, guarded, snapshot, history, sources, CheckContext
<1>16. ASSUME NEW g \in Generations, CloseDone(g) PROVE ReplayInOrder'
  BY <1>16, ProviderAssumption
     DEF IInv, EvidenceInOrder, TypeOK, ReplayInOrder, Current, FreshReplay, EmptyTable,
         Goto, guarded, snapshot, history, sources, CloseDone
<1>17. ASSUME UNCHANGED vars PROVE ReplayInOrder'
  BY <1>17, ProviderAssumption
     DEF IInv, EvidenceInOrder, TypeOK, ReplayInOrder, Current, FreshReplay, EmptyTable,
         Goto, guarded, snapshot, history, sources, vars
<1> QED
  BY <1>1, <1>2, <1>3, <1>4, <1>5, <1>6, <1>7, <1>8, <1>9, <1>10, <1>11, <1>12, <1>13,
     <1>14, <1>15, <1>16, <1>17
     DEF Next, Calls, CallerStep, SourceReturns, ReceiverStep

\* No label is ahead of the latest generation.
LEMMA LabelsInOrderStep ==
  ASSUME IInv, [Next]_vars
  PROVE  LabelsInOrder'
<1>1. ASSUME NEW c \in Callers, CallStart(c) PROVE LabelsInOrder'
  BY <1>1, ProviderAssumption
     DEF IInv, EvidenceInOrder, TypeOK, LabelsInOrder, CallInOrder, Goto, guarded,
         snapshot, history, sources, CallStart
<1>2. ASSUME NEW c \in Callers, CallStop(c) PROVE LabelsInOrder'
  BY <1>2, ProviderAssumption
     DEF IInv, EvidenceInOrder, TypeOK, LabelsInOrder, CallInOrder, Goto, guarded,
         snapshot, history, sources, CallStop
<1>3. ASSUME NEW c \in Callers, LockLifecycle(c) PROVE LabelsInOrder'
  BY <1>3, ProviderAssumption
     DEF IInv, EvidenceInOrder, TypeOK, LabelsInOrder, CallInOrder, Goto, guarded,
         snapshot, history, sources, LockLifecycle
<1>4. ASSUME NEW c \in Callers, CheckStart(c) PROVE LabelsInOrder'
  BY <1>4, ProviderAssumption
     DEF IInv, EvidenceInOrder, TypeOK, LabelsInOrder, CallInOrder, Goto, guarded,
         snapshot, history, sources, CheckStart
<1>5. ASSUME NEW c \in Callers, Fence(c) PROVE LabelsInOrder'
  BY <1>5, ProviderAssumption
     DEF IInv, EvidenceInOrder, TypeOK, LabelsInOrder, CallInOrder, Goto, guarded,
         snapshot, history, sources, Fence
<1>6. ASSUME NEW c \in Callers, Cancel(c) PROVE LabelsInOrder'
  BY <1>6, ProviderAssumption
     DEF IInv, EvidenceInOrder, TypeOK, LabelsInOrder, CallInOrder, Goto, guarded,
         snapshot, history, sources, Cancel
<1>7. ASSUME NEW c \in Callers, Join(c) PROVE LabelsInOrder'
  BY <1>7, ProviderAssumption
     DEF IInv, EvidenceInOrder, TypeOK, LabelsInOrder, CallInOrder, Goto, guarded,
         snapshot, history, sources, Join
<1>8. ASSUME NEW c \in Callers, Install(c) PROVE LabelsInOrder'
  BY <1>8, ProviderAssumption
     DEF IInv, EvidenceInOrder, Lifecycle, TypeOK, LabelsInOrder, CallInOrder, Goto,
         guarded, snapshot, history, sources, Install
<1>9. ASSUME NEW c \in Callers, Spawn(c) PROVE LabelsInOrder'
  BY <1>9, ProviderAssumption
     DEF IInv, EvidenceInOrder, TypeOK, LabelsInOrder, CallInOrder, Goto, guarded,
         snapshot, history, sources, Spawn
<1>10. ASSUME NEW c \in Callers, Return(c) PROVE LabelsInOrder'
  BY <1>10, ProviderAssumption
     DEF IInv, EvidenceInOrder, TypeOK, LabelsInOrder, CallInOrder, Goto, guarded,
         snapshot, history, sources, Return
<1>11. ASSUME NEW g \in Generations, SourceDelivers(g) PROVE LabelsInOrder'
  BY <1>11, ProviderAssumption
     DEF IInv, EvidenceInOrder, TypeOK, LabelsInOrder, CallInOrder, Goto, guarded,
         snapshot, history, sources, SourceDelivers
<1>12. ASSUME NEW g \in Generations, SourceFails(g) PROVE LabelsInOrder'
  BY <1>12, ProviderAssumption
     DEF IInv, EvidenceInOrder, TypeOK, LabelsInOrder, CallInOrder, Goto, guarded,
         snapshot, history, sources, SourceFails
<1>13. ASSUME NEW g \in Generations, ReceiveError(g) PROVE LabelsInOrder'
  BY <1>13, ProviderAssumption
     DEF IInv, EvidenceInOrder, TypeOK, LabelsInOrder, CallInOrder, Goto, guarded,
         snapshot, history, sources, ReceiveError
<1>14. ASSUME NEW g \in Generations, ReceiveObservation(g) PROVE LabelsInOrder'
  <2>1. CASE ~Admissible(pending[g])
    BY <1>14, <2>1
       DEF IInv, EvidenceInOrder, ReceiveObservation, guarded, snapshot, history,
           LabelsInOrder, CallInOrder
  <2>2. CASE Admissible(pending[g])
    <3>1. receiver[g] = "delivered" /\ Accept(pending[g])
      BY <1>14, <2>2 DEF ReceiveObservation
    <3>2. /\ running
          /\ g = generation
          /\ pending[g].generation = generation
          /\ pending[g].evidence \in Current
          /\ pending[g].evidence.iface = Selected
          /\ DOMAIN replay'.windows = {Selected}
          /\ Filled(replay'.windows[Selected], Current)
          /\ Projection(replay'.windows[Selected]) # NoProjection =>
               \A id \in TupleIds : Projection(replay'.windows[Selected])[id] \in Current
      BY <2>2, <3>1, AcceptedParts DEF Current
    <3> QED
      BY <3>1, <3>2, InterfaceAssumption, ProviderAssumption
         DEF IInv, EvidenceInOrder, Accept, Publish, LabelsInOrder, TypeOK, Current
  <2> QED
    BY <2>1, <2>2
<1>15. ASSUME NEW g \in Generations, CheckContext(g) PROVE LabelsInOrder'
  BY <1>15, ProviderAssumption
     DEF IInv, EvidenceInOrder, TypeOK, LabelsInOrder, CallInOrder, Goto, guarded,
         snapshot, history, sources, CheckContext
<1>16. ASSUME NEW g \in Generations, CloseDone(g) PROVE LabelsInOrder'
  BY <1>16, ProviderAssumption
     DEF IInv, EvidenceInOrder, TypeOK, LabelsInOrder, CallInOrder, Goto, guarded,
         snapshot, history, sources, CloseDone
<1>17. ASSUME UNCHANGED vars PROVE LabelsInOrder'
  BY <1>17, ProviderAssumption
     DEF IInv, EvidenceInOrder, TypeOK, LabelsInOrder, CallInOrder, Goto, guarded,
         snapshot, history, sources, vars
<1> QED
  BY <1>1, <1>2, <1>3, <1>4, <1>5, <1>6, <1>7, <1>8, <1>9, <1>10, <1>11, <1>12, <1>13,
     <1>14, <1>15, <1>16, <1>17
     DEF Next, Calls, CallerStep, SourceReturns, ReceiverStep

\* Raw evidence and tuple keep to one source.
LEMMA EvidenceFromOneSourceStep ==
  ASSUME IInv, [Next]_vars
  PROVE  EvidenceFromOneSource'
<1>1. ASSUME NEW c \in Callers, CallStart(c) PROVE EvidenceFromOneSource'
  BY <1>1, ProviderAssumption
     DEF IInv, EvidenceInOrder, TypeOK, EvidenceFromOneSource, Goto, guarded, snapshot,
         history, sources, CallStart
<1>2. ASSUME NEW c \in Callers, CallStop(c) PROVE EvidenceFromOneSource'
  BY <1>2, ProviderAssumption
     DEF IInv, EvidenceInOrder, TypeOK, EvidenceFromOneSource, Goto, guarded, snapshot,
         history, sources, CallStop
<1>3. ASSUME NEW c \in Callers, LockLifecycle(c) PROVE EvidenceFromOneSource'
  BY <1>3, ProviderAssumption
     DEF IInv, EvidenceInOrder, TypeOK, EvidenceFromOneSource, Goto, guarded, snapshot,
         history, sources, LockLifecycle
<1>4. ASSUME NEW c \in Callers, CheckStart(c) PROVE EvidenceFromOneSource'
  BY <1>4, ProviderAssumption
     DEF IInv, EvidenceInOrder, TypeOK, EvidenceFromOneSource, Goto, guarded, snapshot,
         history, sources, CheckStart
<1>5. ASSUME NEW c \in Callers, Fence(c) PROVE EvidenceFromOneSource'
  BY <1>5, ProviderAssumption
     DEF IInv, EvidenceInOrder, TypeOK, EvidenceFromOneSource, Goto, guarded, snapshot,
         history, sources, Fence
<1>6. ASSUME NEW c \in Callers, Cancel(c) PROVE EvidenceFromOneSource'
  BY <1>6, ProviderAssumption
     DEF IInv, EvidenceInOrder, TypeOK, EvidenceFromOneSource, Goto, guarded, snapshot,
         history, sources, Cancel
<1>7. ASSUME NEW c \in Callers, Join(c) PROVE EvidenceFromOneSource'
  BY <1>7, ProviderAssumption
     DEF IInv, EvidenceInOrder, TypeOK, EvidenceFromOneSource, Goto, guarded, snapshot,
         history, sources, Join
<1>8. ASSUME NEW c \in Callers, Install(c) PROVE EvidenceFromOneSource'
  BY <1>8, ProviderAssumption
     DEF IInv, EvidenceInOrder, TypeOK, EvidenceFromOneSource, Goto, guarded, snapshot,
         history, sources, Install
<1>9. ASSUME NEW c \in Callers, Spawn(c) PROVE EvidenceFromOneSource'
  BY <1>9, ProviderAssumption
     DEF IInv, EvidenceInOrder, TypeOK, EvidenceFromOneSource, Goto, guarded, snapshot,
         history, sources, Spawn
<1>10. ASSUME NEW c \in Callers, Return(c) PROVE EvidenceFromOneSource'
  BY <1>10, ProviderAssumption
     DEF IInv, EvidenceInOrder, TypeOK, EvidenceFromOneSource, Goto, guarded, snapshot,
         history, sources, Return
<1>11. ASSUME NEW g \in Generations, SourceDelivers(g) PROVE EvidenceFromOneSource'
  BY <1>11, ProviderAssumption
     DEF IInv, EvidenceInOrder, TypeOK, EvidenceFromOneSource, Goto, guarded, snapshot,
         history, sources, SourceDelivers
<1>12. ASSUME NEW g \in Generations, SourceFails(g) PROVE EvidenceFromOneSource'
  BY <1>12, ProviderAssumption
     DEF IInv, EvidenceInOrder, TypeOK, EvidenceFromOneSource, Goto, guarded, snapshot,
         history, sources, SourceFails
<1>13. ASSUME NEW g \in Generations, ReceiveError(g) PROVE EvidenceFromOneSource'
  BY <1>13, ProviderAssumption
     DEF IInv, EvidenceInOrder, TypeOK, EvidenceFromOneSource, Goto, guarded, snapshot,
         history, sources, ReceiveError
<1>14. ASSUME NEW g \in Generations, ReceiveObservation(g) PROVE EvidenceFromOneSource'
  <2>1. CASE ~Admissible(pending[g])
    BY <1>14, <2>1
       DEF IInv, EvidenceInOrder, ReceiveObservation, guarded, snapshot, history,
           EvidenceFromOneSource
  <2>2. CASE Admissible(pending[g])
    <3>1. receiver[g] = "delivered" /\ Accept(pending[g])
      BY <1>14, <2>2 DEF ReceiveObservation
    <3>2. /\ running
          /\ g = generation
          /\ pending[g].generation = generation
          /\ pending[g].evidence \in Current
          /\ pending[g].evidence.iface = Selected
          /\ DOMAIN replay'.windows = {Selected}
          /\ Filled(replay'.windows[Selected], Current)
          /\ Projection(replay'.windows[Selected]) # NoProjection =>
               \A id \in TupleIds : Projection(replay'.windows[Selected])[id] \in Current
      BY <2>2, <3>1, AcceptedParts DEF Current
    <3> QED
      BY <3>1, <3>2
         DEF IInv, EvidenceInOrder, Accept, EvidenceFromOneSource, Publish, Current
  <2> QED
    BY <2>1, <2>2
<1>15. ASSUME NEW g \in Generations, CheckContext(g) PROVE EvidenceFromOneSource'
  BY <1>15, ProviderAssumption
     DEF IInv, EvidenceInOrder, TypeOK, EvidenceFromOneSource, Goto, guarded, snapshot,
         history, sources, CheckContext
<1>16. ASSUME NEW g \in Generations, CloseDone(g) PROVE EvidenceFromOneSource'
  BY <1>16, ProviderAssumption
     DEF IInv, EvidenceInOrder, TypeOK, EvidenceFromOneSource, Goto, guarded, snapshot,
         history, sources, CloseDone
<1>17. ASSUME UNCHANGED vars PROVE EvidenceFromOneSource'
  BY <1>17, ProviderAssumption
     DEF IInv, EvidenceInOrder, TypeOK, EvidenceFromOneSource, Goto, guarded, snapshot,
         history, sources, vars
<1> QED
  BY <1>1, <1>2, <1>3, <1>4, <1>5, <1>6, <1>7, <1>8, <1>9, <1>10, <1>11, <1>12, <1>13,
     <1>14, <1>15, <1>16, <1>17
     DEF Next, Calls, CallerStep, SourceReturns, ReceiverStep

\* The status "receiving" follows the replay.
LEMMA ReceivingIsHeldStep ==
  ASSUME IInv, [Next]_vars
  PROVE  ReceivingIsHeld'
<1>1. ASSUME NEW c \in Callers, CallStart(c) PROVE ReceivingIsHeld'
  BY <1>1, ProviderAssumption
     DEF IInv, EvidenceInOrder, TypeOK, ReceivingIsHeld, HeldTuple, StatusInOrder,
         CallInOrder, FreshReplay, EmptyTable, Goto, guarded, snapshot, history, sources,
         CallStart
<1>2. ASSUME NEW c \in Callers, CallStop(c) PROVE ReceivingIsHeld'
  BY <1>2, ProviderAssumption
     DEF IInv, EvidenceInOrder, TypeOK, ReceivingIsHeld, HeldTuple, StatusInOrder,
         CallInOrder, FreshReplay, EmptyTable, Goto, guarded, snapshot, history, sources,
         CallStop
<1>3. ASSUME NEW c \in Callers, LockLifecycle(c) PROVE ReceivingIsHeld'
  BY <1>3, ProviderAssumption
     DEF IInv, EvidenceInOrder, TypeOK, ReceivingIsHeld, HeldTuple, StatusInOrder,
         CallInOrder, FreshReplay, EmptyTable, Goto, guarded, snapshot, history, sources,
         LockLifecycle
<1>4. ASSUME NEW c \in Callers, CheckStart(c) PROVE ReceivingIsHeld'
  BY <1>4, ProviderAssumption
     DEF IInv, EvidenceInOrder, TypeOK, ReceivingIsHeld, HeldTuple, StatusInOrder,
         CallInOrder, FreshReplay, EmptyTable, Goto, guarded, snapshot, history, sources,
         CheckStart
<1>5. ASSUME NEW c \in Callers, Fence(c) PROVE ReceivingIsHeld'
  BY <1>5, ProviderAssumption
     DEF IInv, TypeOK, ReceivingIsHeld, HeldTuple, StatusInOrder, CallInOrder,
         FreshReplay, EmptyTable, Goto, guarded, snapshot, history, sources, Fence
<1>6. ASSUME NEW c \in Callers, Cancel(c) PROVE ReceivingIsHeld'
  BY <1>6, ProviderAssumption
     DEF IInv, Lifecycle, TypeOK, ReceivingIsHeld, HeldTuple, StatusInOrder, CallInOrder,
         FreshReplay, EmptyTable, Goto, guarded, snapshot, history, sources, Cancel
<1>7. ASSUME NEW c \in Callers, Join(c) PROVE ReceivingIsHeld'
  BY <1>7, ProviderAssumption
     DEF IInv, Lifecycle, TypeOK, ReceivingIsHeld, HeldTuple, StatusInOrder, CallInOrder,
         FreshReplay, EmptyTable, Goto, guarded, snapshot, history, sources, Join
<1>8. ASSUME NEW c \in Callers, Install(c) PROVE ReceivingIsHeld'
  BY <1>8, ProviderAssumption
     DEF IInv, TypeOK, ReceivingIsHeld, HeldTuple, StatusInOrder, CallInOrder,
         FreshReplay, EmptyTable, Goto, guarded, snapshot, history, sources, Install
<1>9. ASSUME NEW c \in Callers, Spawn(c) PROVE ReceivingIsHeld'
  BY <1>9, ProviderAssumption
     DEF IInv, EvidenceInOrder, TypeOK, ReceivingIsHeld, HeldTuple, StatusInOrder,
         CallInOrder, FreshReplay, EmptyTable, Goto, guarded, snapshot, history, sources,
         Spawn
<1>10. ASSUME NEW c \in Callers, Return(c) PROVE ReceivingIsHeld'
  BY <1>10, ProviderAssumption
     DEF IInv, EvidenceInOrder, TypeOK, ReceivingIsHeld, HeldTuple, StatusInOrder,
         CallInOrder, FreshReplay, EmptyTable, Goto, guarded, snapshot, history, sources,
         Return
<1>11. ASSUME NEW g \in Generations, SourceDelivers(g) PROVE ReceivingIsHeld'
  BY <1>11, ProviderAssumption
     DEF IInv, EvidenceInOrder, TypeOK, ReceivingIsHeld, HeldTuple, StatusInOrder,
         CallInOrder, FreshReplay, EmptyTable, Goto, guarded, snapshot, history, sources,
         SourceDelivers
<1>12. ASSUME NEW g \in Generations, SourceFails(g) PROVE ReceivingIsHeld'
  BY <1>12, ProviderAssumption
     DEF IInv, EvidenceInOrder, TypeOK, ReceivingIsHeld, HeldTuple, StatusInOrder,
         CallInOrder, FreshReplay, EmptyTable, Goto, guarded, snapshot, history, sources,
         SourceFails
<1>13. ASSUME NEW g \in Generations, ReceiveError(g) PROVE ReceivingIsHeld'
  BY <1>13, ProviderAssumption
     DEF IInv, EvidenceInOrder, TypeOK, ReceivingIsHeld, HeldTuple, StatusInOrder,
         CallInOrder, FreshReplay, EmptyTable, Goto, guarded, snapshot, history, sources,
         ReceiveError
<1>14. ASSUME NEW g \in Generations, ReceiveObservation(g) PROVE ReceivingIsHeld'
  <2>1. CASE ~Admissible(pending[g])
    BY <1>14, <2>1
       DEF IInv, EvidenceInOrder, ReceiveObservation, guarded, snapshot, history,
           ReceivingIsHeld, HeldTuple, StatusInOrder, CallInOrder, FreshReplay,
           EmptyTable
  <2>2. CASE Admissible(pending[g])
    <3>1. receiver[g] = "delivered" /\ Accept(pending[g])
      BY <1>14, <2>2 DEF ReceiveObservation
    <3>2. /\ running
          /\ g = generation
          /\ pending[g].generation = generation
          /\ pending[g].evidence \in Current
          /\ pending[g].evidence.iface = Selected
          /\ DOMAIN replay'.windows = {Selected}
          /\ Filled(replay'.windows[Selected], Current)
          /\ Projection(replay'.windows[Selected]) # NoProjection =>
               \A id \in TupleIds : Projection(replay'.windows[Selected])[id] \in Current
      BY <2>2, <3>1, AcceptedParts DEF Current
    <3> QED
      BY <3>1, <3>2 DEF IInv, Accept, ReceivingIsHeld, HeldTuple, Publish
  <2> QED
    BY <2>1, <2>2
<1>15. ASSUME NEW g \in Generations, CheckContext(g) PROVE ReceivingIsHeld'
  BY <1>15, ProviderAssumption
     DEF IInv, EvidenceInOrder, TypeOK, ReceivingIsHeld, HeldTuple, StatusInOrder,
         CallInOrder, FreshReplay, EmptyTable, Goto, guarded, snapshot, history, sources,
         CheckContext
<1>16. ASSUME NEW g \in Generations, CloseDone(g) PROVE ReceivingIsHeld'
  BY <1>16, ProviderAssumption
     DEF IInv, EvidenceInOrder, TypeOK, ReceivingIsHeld, HeldTuple, StatusInOrder,
         CallInOrder, FreshReplay, EmptyTable, Goto, guarded, snapshot, history, sources,
         CloseDone
<1>17. ASSUME UNCHANGED vars PROVE ReceivingIsHeld'
  BY <1>17, ProviderAssumption
     DEF IInv, EvidenceInOrder, TypeOK, ReceivingIsHeld, HeldTuple, StatusInOrder,
         CallInOrder, FreshReplay, EmptyTable, Goto, guarded, snapshot, history, sources,
         vars
<1> QED
  BY <1>1, <1>2, <1>3, <1>4, <1>5, <1>6, <1>7, <1>8, <1>9, <1>10, <1>11, <1>12, <1>13,
     <1>14, <1>15, <1>16, <1>17
     DEF Next, Calls, CallerStep, SourceReturns, ReceiverStep

\* The sequence fence follows the generation.
LEMMA FenceFollowsRawStep ==
  ASSUME IInv, [Next]_vars
  PROVE  FenceFollowsRaw'
<1>1. ASSUME NEW c \in Callers, CallStart(c) PROVE FenceFollowsRaw'
  BY <1>1, ProviderAssumption
     DEF IInv, EvidenceInOrder, TypeOK, FenceFollowsRaw, LabelsInOrder, CallInOrder, Goto,
         guarded, snapshot, history, sources, CallStart
<1>2. ASSUME NEW c \in Callers, CallStop(c) PROVE FenceFollowsRaw'
  BY <1>2, ProviderAssumption
     DEF IInv, EvidenceInOrder, TypeOK, FenceFollowsRaw, LabelsInOrder, CallInOrder, Goto,
         guarded, snapshot, history, sources, CallStop
<1>3. ASSUME NEW c \in Callers, LockLifecycle(c) PROVE FenceFollowsRaw'
  BY <1>3, ProviderAssumption
     DEF IInv, EvidenceInOrder, TypeOK, FenceFollowsRaw, LabelsInOrder, CallInOrder, Goto,
         guarded, snapshot, history, sources, LockLifecycle
<1>4. ASSUME NEW c \in Callers, CheckStart(c) PROVE FenceFollowsRaw'
  BY <1>4, ProviderAssumption
     DEF IInv, EvidenceInOrder, TypeOK, FenceFollowsRaw, LabelsInOrder, CallInOrder, Goto,
         guarded, snapshot, history, sources, CheckStart
<1>5. ASSUME NEW c \in Callers, Fence(c) PROVE FenceFollowsRaw'
  BY <1>5, ProviderAssumption
     DEF IInv, EvidenceInOrder, TypeOK, FenceFollowsRaw, LabelsInOrder, CallInOrder, Goto,
         guarded, snapshot, history, sources, Fence
<1>6. ASSUME NEW c \in Callers, Cancel(c) PROVE FenceFollowsRaw'
  BY <1>6, ProviderAssumption
     DEF IInv, EvidenceInOrder, TypeOK, FenceFollowsRaw, LabelsInOrder, CallInOrder, Goto,
         guarded, snapshot, history, sources, Cancel
<1>7. ASSUME NEW c \in Callers, Join(c) PROVE FenceFollowsRaw'
  BY <1>7, ProviderAssumption
     DEF IInv, EvidenceInOrder, TypeOK, FenceFollowsRaw, LabelsInOrder, CallInOrder, Goto,
         guarded, snapshot, history, sources, Join
<1>8. ASSUME NEW c \in Callers, Install(c) PROVE FenceFollowsRaw'
  BY <1>8, ProviderAssumption
     DEF IInv, EvidenceInOrder, Lifecycle, TypeOK, FenceFollowsRaw, LabelsInOrder,
         CallInOrder, Goto, guarded, snapshot, history, sources, Install
<1>9. ASSUME NEW c \in Callers, Spawn(c) PROVE FenceFollowsRaw'
  BY <1>9, ProviderAssumption
     DEF IInv, EvidenceInOrder, TypeOK, FenceFollowsRaw, LabelsInOrder, CallInOrder, Goto,
         guarded, snapshot, history, sources, Spawn
<1>10. ASSUME NEW c \in Callers, Return(c) PROVE FenceFollowsRaw'
  BY <1>10, ProviderAssumption
     DEF IInv, EvidenceInOrder, TypeOK, FenceFollowsRaw, LabelsInOrder, CallInOrder, Goto,
         guarded, snapshot, history, sources, Return
<1>11. ASSUME NEW g \in Generations, SourceDelivers(g) PROVE FenceFollowsRaw'
  BY <1>11, ProviderAssumption
     DEF IInv, EvidenceInOrder, TypeOK, FenceFollowsRaw, LabelsInOrder, CallInOrder, Goto,
         guarded, snapshot, history, sources, SourceDelivers
<1>12. ASSUME NEW g \in Generations, SourceFails(g) PROVE FenceFollowsRaw'
  BY <1>12, ProviderAssumption
     DEF IInv, EvidenceInOrder, TypeOK, FenceFollowsRaw, LabelsInOrder, CallInOrder, Goto,
         guarded, snapshot, history, sources, SourceFails
<1>13. ASSUME NEW g \in Generations, ReceiveError(g) PROVE FenceFollowsRaw'
  BY <1>13, ProviderAssumption
     DEF IInv, EvidenceInOrder, TypeOK, FenceFollowsRaw, LabelsInOrder, CallInOrder, Goto,
         guarded, snapshot, history, sources, ReceiveError
<1>14. ASSUME NEW g \in Generations, ReceiveObservation(g) PROVE FenceFollowsRaw'
  <2>1. CASE ~Admissible(pending[g])
    BY <1>14, <2>1
       DEF IInv, EvidenceInOrder, ReceiveObservation, guarded, snapshot, history,
           FenceFollowsRaw, LabelsInOrder, CallInOrder
  <2>2. CASE Admissible(pending[g])
    <3>1. receiver[g] = "delivered" /\ Accept(pending[g])
      BY <1>14, <2>2 DEF ReceiveObservation
    <3>2. /\ running
          /\ g = generation
          /\ pending[g].generation = generation
          /\ pending[g].evidence \in Current
          /\ pending[g].evidence.iface = Selected
          /\ DOMAIN replay'.windows = {Selected}
          /\ Filled(replay'.windows[Selected], Current)
          /\ Projection(replay'.windows[Selected]) # NoProjection =>
               \A id \in TupleIds : Projection(replay'.windows[Selected])[id] \in Current
      BY <2>2, <3>1, AcceptedParts DEF Current
    <3> QED
      BY <3>1, <3>2 DEF IInv, Accept, FenceFollowsRaw
  <2> QED
    BY <2>1, <2>2
<1>15. ASSUME NEW g \in Generations, CheckContext(g) PROVE FenceFollowsRaw'
  BY <1>15, ProviderAssumption
     DEF IInv, EvidenceInOrder, TypeOK, FenceFollowsRaw, LabelsInOrder, CallInOrder, Goto,
         guarded, snapshot, history, sources, CheckContext
<1>16. ASSUME NEW g \in Generations, CloseDone(g) PROVE FenceFollowsRaw'
  BY <1>16, ProviderAssumption
     DEF IInv, EvidenceInOrder, TypeOK, FenceFollowsRaw, LabelsInOrder, CallInOrder, Goto,
         guarded, snapshot, history, sources, CloseDone
<1>17. ASSUME UNCHANGED vars PROVE FenceFollowsRaw'
  BY <1>17, ProviderAssumption
     DEF IInv, EvidenceInOrder, TypeOK, FenceFollowsRaw, LabelsInOrder, CallInOrder, Goto,
         guarded, snapshot, history, sources, vars
<1> QED
  BY <1>1, <1>2, <1>3, <1>4, <1>5, <1>6, <1>7, <1>8, <1>9, <1>10, <1>11, <1>12, <1>13,
     <1>14, <1>15, <1>16, <1>17
     DEF Next, Calls, CallerStep, SourceReturns, ReceiverStep

\* What a receiver has in hand came from its own source.
LEMMA PendingInOrderStep ==
  ASSUME IInv, [Next]_vars
  PROVE  PendingInOrder'
<1>1. ASSUME NEW c \in Callers, CallStart(c) PROVE PendingInOrder'
  BY <1>1, ProviderAssumption
     DEF IInv, EvidenceInOrder, TypeOK, SourcesInOrder, CallInOrder, PendingInOrder,
         Goto, guarded, snapshot, history, sources, CallStart
<1>2. ASSUME NEW c \in Callers, CallStop(c) PROVE PendingInOrder'
  BY <1>2, ProviderAssumption
     DEF IInv, EvidenceInOrder, TypeOK, SourcesInOrder, CallInOrder, PendingInOrder,
         Goto, guarded, snapshot, history, sources, CallStop
<1>3. ASSUME NEW c \in Callers, LockLifecycle(c) PROVE PendingInOrder'
  BY <1>3, ProviderAssumption
     DEF IInv, EvidenceInOrder, TypeOK, SourcesInOrder, CallInOrder, PendingInOrder,
         Goto, guarded, snapshot, history, sources, LockLifecycle
<1>4. ASSUME NEW c \in Callers, CheckStart(c) PROVE PendingInOrder'
  BY <1>4, ProviderAssumption
     DEF IInv, EvidenceInOrder, TypeOK, SourcesInOrder, CallInOrder, PendingInOrder,
         Goto, guarded, snapshot, history, sources, CheckStart
<1>5. ASSUME NEW c \in Callers, Fence(c) PROVE PendingInOrder'
  BY <1>5, ProviderAssumption
     DEF IInv, EvidenceInOrder, TypeOK, SourcesInOrder, CallInOrder, PendingInOrder,
         Goto, guarded, snapshot, history, sources, Fence
<1>6. ASSUME NEW c \in Callers, Cancel(c) PROVE PendingInOrder'
  BY <1>6, ProviderAssumption
     DEF IInv, EvidenceInOrder, TypeOK, SourcesInOrder, CallInOrder, PendingInOrder,
         Goto, guarded, snapshot, history, sources, Cancel
<1>7. ASSUME NEW c \in Callers, Join(c) PROVE PendingInOrder'
  BY <1>7, ProviderAssumption
     DEF IInv, EvidenceInOrder, TypeOK, SourcesInOrder, CallInOrder, PendingInOrder,
         Goto, guarded, snapshot, history, sources, Join
<1>8. ASSUME NEW c \in Callers, Install(c) PROVE PendingInOrder'
  BY <1>8, ProviderAssumption
     DEF IInv, EvidenceInOrder, TypeOK, SourcesInOrder, CallInOrder, PendingInOrder,
         Goto, guarded, snapshot, history, sources, Install
<1>9. ASSUME NEW c \in Callers, Spawn(c) PROVE PendingInOrder'
  BY <1>9, ProviderAssumption
     DEF IInv, EvidenceInOrder, TypeOK, SourcesInOrder, CallInOrder, PendingInOrder,
         Goto, guarded, snapshot, history, sources, Spawn
<1>10. ASSUME NEW c \in Callers, Return(c) PROVE PendingInOrder'
  BY <1>10, ProviderAssumption
     DEF IInv, EvidenceInOrder, TypeOK, SourcesInOrder, CallInOrder, PendingInOrder,
         Goto, guarded, snapshot, history, sources, Return
<1>11. ASSUME NEW g \in Generations, SourceDelivers(g) PROVE PendingInOrder'
  <2>1. PICK claimed \in Generations, i \in Interfaces, f \in Frames, q \in 0 .. MaxSequence :
          pending' = [pending EXCEPT ![g] =
            [generation |-> claimed,
             evidence |-> [frame |-> f, iface |-> i, seq |-> q, mark |-> g]]]
    BY <1>11 DEF SourceDelivers
  <2>2. [frame |-> f, iface |-> i, seq |-> q, mark |-> g] \in
          {e \in Evidence : e.mark = g /\ e.seq <= MaxSequence}
    BY ProviderAssumption DEF Evidence, Generations
  <2> QED
    BY <1>11, <2>1, <2>2 DEF IInv, EvidenceInOrder, PendingInOrder, TypeOK, SourceDelivers
<1>12. ASSUME NEW g \in Generations, SourceFails(g) PROVE PendingInOrder'
  BY <1>12, ProviderAssumption
     DEF IInv, EvidenceInOrder, TypeOK, SourcesInOrder, CallInOrder, PendingInOrder,
         Goto, guarded, snapshot, history, sources, SourceFails
<1>13. ASSUME NEW g \in Generations, ReceiveError(g) PROVE PendingInOrder'
  BY <1>13, ProviderAssumption
     DEF IInv, EvidenceInOrder, TypeOK, SourcesInOrder, CallInOrder, PendingInOrder,
         Goto, guarded, snapshot, history, sources, ReceiveError
<1>14. ASSUME NEW g \in Generations, ReceiveObservation(g) PROVE PendingInOrder'
  BY <1>14, ProviderAssumption
     DEF IInv, EvidenceInOrder, TypeOK, SourcesInOrder, CallInOrder, PendingInOrder,
         Goto, guarded, snapshot, history, sources, ReceiveObservation
<1>15. ASSUME NEW g \in Generations, CheckContext(g) PROVE PendingInOrder'
  BY <1>15, ProviderAssumption
     DEF IInv, EvidenceInOrder, TypeOK, SourcesInOrder, CallInOrder, PendingInOrder,
         Goto, guarded, snapshot, history, sources, CheckContext
<1>16. ASSUME NEW g \in Generations, CloseDone(g) PROVE PendingInOrder'
  BY <1>16, ProviderAssumption
     DEF IInv, EvidenceInOrder, TypeOK, SourcesInOrder, CallInOrder, PendingInOrder,
         Goto, guarded, snapshot, history, sources, CloseDone
<1>17. ASSUME UNCHANGED vars PROVE PendingInOrder'
  BY <1>17, ProviderAssumption
     DEF IInv, EvidenceInOrder, TypeOK, SourcesInOrder, CallInOrder, PendingInOrder,
         Goto, guarded, snapshot, history, sources, vars
<1> QED
  BY <1>1, <1>2, <1>3, <1>4, <1>5, <1>6, <1>7, <1>8, <1>9, <1>10, <1>11, <1>12, <1>13,
     <1>14, <1>15, <1>16, <1>17
     DEF Next, Calls, CallerStep, SourceReturns, ReceiverStep

LEMMA NextIInv == IInv /\ [Next]_vars => IInv'
<1> SUFFICES ASSUME IInv, [Next]_vars PROVE IInv'
  OBVIOUS
<1>1. TypeOK' /\ LockHeld' /\ SourcesInOrder'
  BY TypeOKStep, LockHeldStep, SourcesInOrderStep DEF IInv, Lifecycle
<1>2. CallInOrder' /\ StatusInOrder'
  BY <1>1, CallInOrderStep, StatusInOrderStep
<1>3. ReplayInOrder' /\ PendingInOrder' /\ LabelsInOrder'
  BY ReplayInOrderStep, PendingInOrderStep, LabelsInOrderStep
<1>4. EvidenceFromOneSource' /\ ReceivingIsHeld' /\ FenceFollowsRaw'
  BY EvidenceFromOneSourceStep, ReceivingIsHeldStep, FenceFollowsRawStep
<1> QED
  BY <1>1, <1>2, <1>3, <1>4 DEF IInv, Lifecycle, EvidenceInOrder

\* The strengthened invariant holds in every reachable state.
THEOREM IInvAlways == Spec => []IInv
BY InitIInv, NextIInv, PTL DEF Spec
-----------------------------------------------------------------------------
\* The state of the provider is well typed.
THEOREM TypeCorrect == Spec => []TypeOK
<1>1. IInv => TypeOK
  BY DEF IInv
<1> QED
  BY <1>1, IInvAlways, PTL

\* However callers race, at most one receiver exists.
THEOREM OneReceiver == Spec => []SingleReceiver
<1>1. IInv => SingleReceiver
  BY ActiveIsLatest DEF IInv, Lifecycle, SourcesInOrder, SingleReceiver
<1> QED
  BY <1>1, IInvAlways, PTL

\* When no call is under way, a stopped provider has no receiver left.
THEOREM StopJoins == Spec => []StoppedIsQuiescent
<1>1. IInv => StoppedIsQuiescent
  BY ProviderAssumption DEF IInv, Lifecycle, LockHeld, StatusInOrder, StoppedIsQuiescent
<1> QED
  BY <1>1, IInvAlways, PTL

\* A status that claims a live source is served by its receiver.
THEOREM LiveStatusIsServed == Spec => []LiveIsServed
<1>1. IInv => LiveIsServed
  BY DEF IInv, Lifecycle, StatusInOrder
<1> QED
  BY <1>1, IInvAlways, PTL

\* No tuple mixes sources, no source publishes under another's generation.
THEOREM OneSourcePerTuple == Spec => []EvidenceFromOneSource
<1>1. IInv => EvidenceFromOneSource
  BY DEF IInv, EvidenceInOrder
<1> QED
  BY <1>1, IInvAlways, PTL

\* "receiving" is shown exactly while the running replay holds what is shown.
THEOREM ReceivingFollowsReplay == Spec => []ReceivingIsHeld
<1>1. IInv => ReceivingIsHeld
  BY DEF IInv, EvidenceInOrder
<1> QED
  BY <1>1, IInvAlways, PTL

\* An observation of the live source is refused if and only if its generation has
\* published the same or a newer sequence: the fence is never inherited.
THEOREM FencePerGeneration == Spec => []FenceIsOwn
<1>1. ASSUME IInv PROVE FenceIsOwn
  <2>1. FenceFollowsRaw
    BY <1>1 DEF IInv, EvidenceInOrder
  <2>2. ASSUME NEW g \in Generations, running, receiver[g] = "delivered",
               pending[g].generation = generation,
               pending[g].evidence.iface = Selected
        PROVE  Admissible(pending[g])
                 <=> (rawGeneration = generation => raw.seq < pending[g].evidence.seq)
    <3>1. pending[g].evidence \in Evidence /\ pending[g].evidence.seq \in Nat
      BY <1>1, <2>2 DEF IInv, EvidenceInOrder, PendingInOrder, Evidence
    <3>2. generation = g
      <4>1. generation \in Int /\ g \in Int
        BY <1>1, <2>2 DEF IInv, TypeOK, Generations
      <4>2. ~(g > generation) /\ ~(g < generation)
        BY <1>1, <2>2 DEF IInv, Lifecycle, SourcesInOrder, Active
      <4>3. QED
        BY <4>1, <4>2
    <3>3. CASE hasSequence
      <4>1. rawGeneration = generation /\ raw.seq = sequence /\ sequence \in Nat
        BY <1>1, <2>1, <3>3 DEF IInv, TypeOK, FenceFollowsRaw
      <4>2. QED
        BY <2>2, <3>1, <3>3, <4>1 DEF Admissible
    <3>4. CASE ~hasSequence
      <4>1. rawGeneration # generation
        BY <1>1, <2>1, <3>2, <3>4
           DEF IInv, TypeOK, EvidenceInOrder, FenceFollowsRaw, LabelsInOrder, Generations
      <4>2. QED
        BY <2>2, <3>4, <4>1 DEF Admissible
    <3>5. QED
      BY <3>3, <3>4
  <2>3. QED
    BY <2>1, <2>2 DEF FenceIsOwn
<1> QED
  BY <1>1, IInvAlways, PTL
-----------------------------------------------------------------------------
\* What readers see only moves forward.
LEMMA MovesForwardStep ==
  ASSUME IInv, [Next]_vars
  PROVE  MovesForward
<1>1. ASSUME NEW c \in Callers, CallStart(c) PROVE MovesForward
  BY <1>1, ProviderAssumption
     DEF IInv, TypeOK, CallInOrder, Goto, MovesForward, guarded, snapshot, history,
         sources, CallStart
<1>2. ASSUME NEW c \in Callers, CallStop(c) PROVE MovesForward
  BY <1>2, ProviderAssumption
     DEF IInv, TypeOK, CallInOrder, Goto, MovesForward, guarded, snapshot, history,
         sources, CallStop
<1>3. ASSUME NEW c \in Callers, LockLifecycle(c) PROVE MovesForward
  BY <1>3, ProviderAssumption
     DEF IInv, TypeOK, CallInOrder, Goto, MovesForward, guarded, snapshot, history,
         sources, LockLifecycle
<1>4. ASSUME NEW c \in Callers, CheckStart(c) PROVE MovesForward
  BY <1>4, ProviderAssumption
     DEF IInv, TypeOK, CallInOrder, Goto, MovesForward, guarded, snapshot, history,
         sources, CheckStart
<1>5. ASSUME NEW c \in Callers, Fence(c) PROVE MovesForward
  BY <1>5, ProviderAssumption
     DEF IInv, TypeOK, CallInOrder, Goto, MovesForward, guarded, snapshot, history,
         sources, Fence
<1>6. ASSUME NEW c \in Callers, Cancel(c) PROVE MovesForward
  BY <1>6, ProviderAssumption
     DEF IInv, TypeOK, CallInOrder, Goto, MovesForward, guarded, snapshot, history,
         sources, Cancel
<1>7. ASSUME NEW c \in Callers, Join(c) PROVE MovesForward
  BY <1>7, ProviderAssumption
     DEF IInv, TypeOK, CallInOrder, Goto, MovesForward, guarded, snapshot, history,
         sources, Join
<1>8. ASSUME NEW c \in Callers, Install(c) PROVE MovesForward
  BY <1>8, ProviderAssumption
     DEF IInv, Lifecycle, TypeOK, CallInOrder, Goto, MovesForward, guarded, snapshot,
         history, sources, Install
<1>9. ASSUME NEW c \in Callers, Spawn(c) PROVE MovesForward
  BY <1>9, ProviderAssumption
     DEF IInv, TypeOK, CallInOrder, Goto, MovesForward, guarded, snapshot, history,
         sources, Spawn
<1>10. ASSUME NEW c \in Callers, Return(c) PROVE MovesForward
  BY <1>10, ProviderAssumption
     DEF IInv, TypeOK, CallInOrder, Goto, MovesForward, guarded, snapshot, history,
         sources, Return
<1>11. ASSUME NEW g \in Generations, SourceDelivers(g) PROVE MovesForward
  BY <1>11, ProviderAssumption
     DEF IInv, TypeOK, CallInOrder, Goto, MovesForward, guarded, snapshot, history,
         sources, SourceDelivers
<1>12. ASSUME NEW g \in Generations, SourceFails(g) PROVE MovesForward
  BY <1>12, ProviderAssumption
     DEF IInv, TypeOK, CallInOrder, Goto, MovesForward, guarded, snapshot, history,
         sources, SourceFails
<1>13. ASSUME NEW g \in Generations, ReceiveError(g) PROVE MovesForward
  BY <1>13, ProviderAssumption
     DEF IInv, TypeOK, CallInOrder, Goto, MovesForward, guarded, snapshot, history,
         sources, ReceiveError
<1>14. ASSUME NEW g \in Generations, ReceiveObservation(g) PROVE MovesForward
  <2>1. CASE ~Admissible(pending[g])
    BY <1>14, <2>1
       DEF IInv, TypeOK, ReceiveObservation, MovesForward, guarded, snapshot, history
  <2>2. CASE Admissible(pending[g])
    <3>1. receiver[g] = "delivered" /\ Accept(pending[g])
      BY <1>14, <2>2 DEF ReceiveObservation
    <3>2. /\ g = generation
          /\ pending[g].generation = generation
          /\ pending[g].evidence \in Evidence
      BY <2>2, <3>1, AcceptedParts DEF Current
    <3>3. /\ generation \in Nat /\ generation > 0
          /\ rawGeneration \in Nat /\ rawGeneration <= generation
          /\ projectionGeneration \in Nat /\ projectionGeneration <= generation
          /\ raw = NoEvidence => rawGeneration = 0
      BY <3>2, ProviderAssumption
         DEF IInv, TypeOK, EvidenceInOrder, LabelsInOrder, Generations
    <3>4. /\ generation' = generation
          /\ rawGeneration' = generation
          /\ raw' = pending[g].evidence
          /\ projectionGeneration' \in {projectionGeneration, generation}
          /\ projection # NoProjection => projection' # NoProjection
      BY <3>1, <3>2 DEF Accept, Publish
    <3>5. CASE hasSequence
      <4>1. rawGeneration = generation /\ raw.seq = sequence
        BY <3>5 DEF IInv, EvidenceInOrder, FenceFollowsRaw
      <4>2. sequence < pending[g].evidence.seq
        BY <2>2, <3>2, <3>5 DEF Admissible, Evidence, IInv, TypeOK
      <4> QED
        BY <3>3, <3>4, <4>1, <4>2 DEF MovesForward
    <3>6. CASE ~hasSequence
      <4>1. raw = NoEvidence \/ rawGeneration < generation
        BY <3>6 DEF IInv, EvidenceInOrder, FenceFollowsRaw
      <4> QED
        BY <3>3, <3>4, <4>1 DEF MovesForward
    <3> QED
      BY <3>5, <3>6
  <2> QED
    BY <2>1, <2>2
<1>15. ASSUME NEW g \in Generations, CheckContext(g) PROVE MovesForward
  BY <1>15, ProviderAssumption
     DEF IInv, TypeOK, CallInOrder, Goto, MovesForward, guarded, snapshot, history,
         sources, CheckContext
<1>16. ASSUME NEW g \in Generations, CloseDone(g) PROVE MovesForward
  BY <1>16, ProviderAssumption
     DEF IInv, TypeOK, CallInOrder, Goto, MovesForward, guarded, snapshot, history,
         sources, CloseDone
<1>17. ASSUME UNCHANGED vars PROVE MovesForward
  BY <1>17, ProviderAssumption
     DEF IInv, TypeOK, CallInOrder, Goto, MovesForward, guarded, snapshot, history,
         sources, vars
<1> QED
  BY <1>1, <1>2, <1>3, <1>4, <1>5, <1>6, <1>7, <1>8, <1>9, <1>10, <1>11, <1>12, <1>13,
     <1>14, <1>15, <1>16, <1>17
     DEF Next, Calls, CallerStep, SourceReturns, ReceiverStep

\* Generations, sequences and tuples never go back.
THEOREM HistoryMovesForward == Spec => HistoryMonotone
<1>1. IInv /\ [Next]_vars => [MovesForward]_vars
  BY MovesForwardStep
<1> QED
  BY <1>1, IInvAlways, PTL DEF Spec, HistoryMonotone

\* Nothing is published once the status reads "stopped" or "degraded".
THEOREM StopFencesPublication == Spec => StoppedIsFrozen
<1>1. ASSUME IInv, [Next]_vars, FencedOff
      PROVE  UNCHANGED history
  <2>1. ~running
    BY <1>1 DEF IInv, Lifecycle, StatusInOrder, FencedOff
  <2>2. ASSUME NEW g \in Generations, ReceiveObservation(g) PROVE UNCHANGED history
    BY <2>1, <2>2 DEF ReceiveObservation, Admissible, snapshot
  <2> QED
    BY <1>1, <2>2
       DEF Next, Calls, CallerStep, SourceReturns, ReceiverStep, vars, snapshot, guarded,
           CallStart, CallStop, LockLifecycle, CheckStart, Fence, Cancel, Join, Install,
           Spawn, Return, SourceDelivers, SourceFails, ReceiveError, CheckContext,
           CloseDone
<1>2. IInv /\ [Next]_vars => [FencedOff => UNCHANGED history]_vars
  BY <1>1
<1> QED
  BY <1>2, IInvAlways, PTL DEF Spec, StoppedIsFrozen

\* A cancelled source that returns its error is not reported as lost.
THEOREM StopIsNoLoss == Spec => CancellationIsNoLoss
<1>1. ASSUME IInv, [Next]_vars, status = "stopped"
      PROVE  status' # "degraded"
  <2>1. ~running
    BY <1>1 DEF IInv, Lifecycle, StatusInOrder
  <2>2. ASSUME NEW g \in Generations, ReceiveObservation(g) PROVE status' = status
    BY <2>1, <2>2 DEF ReceiveObservation, Admissible, snapshot
  <2>3. ASSUME NEW g \in Generations, ReceiveError(g) PROVE status' = status
    BY <2>1, <2>3 DEF ReceiveError
  <2> QED
    BY <1>1, <2>2, <2>3
       DEF Next, Calls, CallerStep, SourceReturns, ReceiverStep, vars, snapshot, guarded,
           CallStart, CallStop, LockLifecycle, CheckStart, Fence, Cancel, Join, Install,
           Spawn, Return, SourceDelivers, SourceFails, CheckContext, CloseDone
<1>2. IInv /\ [Next]_vars => [status = "stopped" => status' # "degraded"]_vars
  BY <1>1
<1> QED
  BY <1>2, IInvAlways, PTL DEF Spec, CancellationIsNoLoss

\* A generation that has had its receiver never gets another one.
THEOREM GenerationsUsedOnce == Spec => ClosedForGood
<1>1. ASSUME IInv, [Next]_vars, NEW g \in Generations, receiver[g] = "closed"
      PROVE  receiver'[g] = "closed"
  <2>1. ASSUME NEW c \in Callers, Spawn(c) PROVE receiver'[g] = "closed"
    BY <1>1, <2>1 DEF Spawn, Goto, IInv, TypeOK, Lifecycle, CallInOrder
  <2>2. ASSUME NEW h \in Generations, SourceReturns(h) \/ ReceiverStep(h)
        PROVE  receiver'[g] = "closed"
    BY <1>1, <2>2
       DEF SourceReturns, ReceiverStep, SourceDelivers, SourceFails, ReceiveError,
           ReceiveObservation, CheckContext, CloseDone, IInv, TypeOK
  <2> QED
    BY <1>1, <2>1, <2>2
       DEF Next, Calls, CallerStep, vars, sources, CallStart, CallStop, LockLifecycle,
           CheckStart, Fence, Cancel, Join, Install, Return
<1>2. IInv /\ [Next]_vars =>
        [\A g \in Generations : receiver[g] = "closed" => receiver'[g] = "closed"]_vars
  BY <1>1
<1> QED
  BY <1>2, IInvAlways, PTL DEF Spec, ClosedForGood
-----------------------------------------------------------------------------
(***************************************************************************)
(* The provider implements ProviderHistory.  What the contract says of     *)
(* tuples needs the order of sequences along the ring: admitted sequences  *)
(* rise, so that the ring loses its lowest sequence first.                 *)
(***************************************************************************)

\* Sequences rise along the ring, from the oldest slot to the latest.
Rises(w) ==
  \A i, j \in Held(w) : i < j =>
    IF i < w.next /\ w.next <= j THEN w.observations[j].seq < w.observations[i].seq
    ELSE w.observations[i].seq < w.observations[j].seq

Tops(e, w) == \A s \in Held(w) : w.observations[s].seq < e.seq

\* The ring has no frame of a kind, or one at least as new as sequence n.
HoldsSince(w, n, id) ==
  SlotsOf(w, id) # {} => \E j \in SlotsOf(w, id) : n <= w.observations[j].seq

\* The window that an observation goes into.
Kept(w, e) == IF Malformed(e.frame) THEN EmptyWindow ELSE w

NextOf(w) == IF w.next + 1 = WindowSize THEN 0 ELSE w.next + 1

CountOf(w) == IF w.count < WindowSize THEN w.count + 1 ELSE w.count

LEMMA ObservedParts ==
  ASSUME NEW S, S \subseteq Evidence, NEW w, Filled(w, S), NEW e \in Evidence, NEW clock \in Nat
  PROVE  /\ Filled(Kept(w, e), S)
         /\ Observed(w, e, clock).observations =
              [Kept(w, e).observations EXCEPT ![Kept(w, e).next] = e]
         /\ Observed(w, e, clock).next = NextOf(Kept(w, e))
         /\ Observed(w, e, clock).count = CountOf(Kept(w, e))
<1> DEFINE k == Kept(w, e)
           a == Appended(k, e)
<1>1. Filled(k, S)
  BY EmptyWindowFilled DEF Kept
<1>2. Observed(w, e, clock) = [a EXCEPT !.lastAccess = clock]
  BY DEF Observed, Kept
<1> HIDE DEF k
<1>3. /\ a \in Window
      /\ a.observations = [k.observations EXCEPT ![k.next] = e]
      /\ a.next = IF k.next + 1 = WindowSize THEN 0 ELSE k.next + 1
      /\ a.count = IF k.count < WindowSize THEN k.count + 1 ELSE k.count
  BY <1>1, AppendedParts DEF Filled
<1> HIDE DEF a
<1>4. /\ Observed(w, e, clock).observations = a.observations
      /\ Observed(w, e, clock).next = a.next
      /\ Observed(w, e, clock).count = a.count
  BY <1>2, <1>3 DEF Window
<1> QED
  BY <1>1, <1>3, <1>4 DEF k, NextOf, CountOf

\* Which slots are held after an observation, and what they hold.
LEMMA ObservedSlots ==
  ASSUME NEW S, S \subseteq Evidence, NEW w, Filled(w, S), NEW e \in Evidence, NEW clock \in Nat
  PROVE  /\ Kept(w, e).next \in Held(Observed(w, e, clock))
         /\ Observed(w, e, clock).observations[Kept(w, e).next] = e
         /\ \A s \in Held(Observed(w, e, clock)) \ {Kept(w, e).next} :
              /\ s \in Held(Kept(w, e))
              /\ Observed(w, e, clock).observations[s] = Kept(w, e).observations[s]
<1> DEFINE k == Kept(w, e)
           o == Observed(w, e, clock)
<1>1. /\ Filled(k, S)
      /\ o.observations = [k.observations EXCEPT ![k.next] = e]
      /\ o.count = CountOf(k)
  BY ObservedParts
<1> HIDE DEF k, o
<1>2. /\ k.next \in Slots
      /\ k.count \in 0 .. WindowSize
      /\ k.observations \in [Slots -> Evidence \cup {NoEvidence}]
      /\ k.count < WindowSize => k.next = k.count
  BY <1>1 DEF Filled, Window
<1>3. k.next \in Held(o) /\ o.observations[k.next] = e
  BY <1>1, <1>2, WindowAssumption DEF Held, Slots, CountOf
<1>4. ASSUME NEW s \in Held(o) \ {k.next}
      PROVE  s \in Held(k) /\ o.observations[s] = k.observations[s]
  <2>1. s \in Held(k) /\ s \in Slots
    BY <1>1, <1>2, <1>4, WindowAssumption DEF Held, Slots, CountOf
  <2> QED
    BY <1>1, <1>2, <1>4, <2>1
<1> QED
  BY <1>3, <1>4 DEF k, o

LEMMA KeptInOrder ==
  ASSUME NEW w, NEW e, Rises(w), Tops(e, w)
  PROVE  Rises(Kept(w, e)) /\ Tops(e, Kept(w, e))
<1>1. Held(EmptyWindow) = {}
  BY DEF Held, EmptyWindow
<1> QED
  BY <1>1 DEF Kept, Rises, Tops

\* An observation newer than all that is held keeps the ring in order.
LEMMA ObservedRises ==
  ASSUME NEW S, S \subseteq Evidence, NEW w, Filled(w, S),
         NEW e \in Evidence, NEW clock \in Nat
  PROVE  Rises(w) /\ Tops(e, w) => Rises(Observed(w, e, clock))
<1> DEFINE k == Kept(w, e)
           o == Observed(w, e, clock)
<1>1. /\ Filled(k, S)
      /\ o.observations = [k.observations EXCEPT ![k.next] = e]
      /\ o.next = NextOf(k)
      /\ o.count = CountOf(k)
  BY ObservedParts
<1>2. /\ o.observations[k.next] = e
      /\ \A s \in Held(o) \ {k.next} : s \in Held(k) /\ o.observations[s] = k.observations[s]
  BY ObservedSlots
<1> SUFFICES ASSUME Rises(w), Tops(e, w)
             PROVE  Rises(o)
  OBVIOUS
<1>3. Rises(k) /\ Tops(e, k)
  BY KeptInOrder
<1> HIDE DEF k, o
<1>4. /\ k.next \in 0 .. WindowSize - 1
      /\ k.count \in 0 .. WindowSize
  BY <1>1 DEF Filled, Window, Slots
<1>5. ASSUME NEW i \in Held(o), NEW j \in Held(o), i < j
      PROVE  IF i < o.next /\ o.next <= j THEN o.observations[j].seq < o.observations[i].seq
             ELSE o.observations[i].seq < o.observations[j].seq
  <2>0. i \in 0 .. WindowSize - 1 /\ j \in 0 .. WindowSize - 1
    BY <1>1, <1>4, WindowAssumption DEF Held, CountOf
  <2>1. CASE i = k.next
    <3>a. j # k.next /\ o.observations[i] = e
      BY <1>2, <1>4, <1>5, <2>0, <2>1
    <3>b. j \in Held(k) /\ o.observations[j] = k.observations[j]
      BY <1>2, <3>a
    <3>1. o.observations[j].seq < o.observations[i].seq
      BY <1>3, <3>a, <3>b DEF Tops
    <3>2. i < o.next /\ o.next <= j
      BY <1>1, <1>4, <1>5, <2>0, <2>1, WindowAssumption DEF NextOf, CountOf
    <3> QED
      BY <3>1, <3>2
  <2>2. CASE j = k.next
    <3>a. i # k.next /\ o.observations[j] = e
      BY <1>2, <1>4, <1>5, <2>0, <2>2
    <3>b. i \in Held(k) /\ o.observations[i] = k.observations[i]
      BY <1>2, <3>a
    <3>1. o.observations[i].seq < o.observations[j].seq
      BY <1>3, <3>a, <3>b DEF Tops
    <3>2. ~(i < o.next /\ o.next <= j)
      BY <1>1, <1>4, <1>5, <2>0, <2>2, WindowAssumption DEF NextOf, CountOf
    <3> QED
      BY <3>1, <3>2
  <2>3. CASE i # k.next /\ j # k.next
    <3>1. /\ i \in Held(k) /\ j \in Held(k)
          /\ o.observations[i] = k.observations[i] /\ o.observations[j] = k.observations[j]
      BY <1>2, <2>3
    <3>2. IF i < k.next /\ k.next <= j THEN k.observations[j].seq < k.observations[i].seq
          ELSE k.observations[i].seq < k.observations[j].seq
      BY <1>3, <1>5, <3>1 DEF Rises
    <3>3. i < o.next /\ o.next <= j <=> i < k.next /\ k.next <= j
      BY <1>1, <1>4, <2>0, <2>3, WindowAssumption DEF NextOf, CountOf
    <3> QED
      BY <3>1, <3>2, <3>3
  <2> QED
    BY <2>1, <2>2, <2>3
<1> QED
  BY <1>5 DEF Rises

\* The slot that an observation overwrites holds the lowest sequence.
LEMMA OverwritesLowest ==
  ASSUME NEW S, S \subseteq Evidence, NEW w, Filled(w, S), Rises(w),
         w.next \in Held(w), NEW i \in Held(w), i # w.next
  PROVE  w.observations[w.next].seq < w.observations[i].seq
<1>1. w.next \in Nat /\ i \in Nat
  BY DEF Filled, Window, Slots, Held
<1>2. CASE i < w.next
  BY <1>1, <1>2 DEF Rises
<1>3. CASE w.next < i
  BY <1>1, <1>3 DEF Rises
<1> QED
  BY <1>1, <1>2, <1>3

\* Older frames of a kind never outlive newer ones.
LEMMA ObservedHoldsSince ==
  ASSUME NEW S, S \subseteq Evidence, NEW w, Filled(w, S),
         NEW e \in Evidence, NEW clock \in Nat
  PROVE  Rises(w) /\ Tops(e, w) =>
           \A n \in Nat, id \in TupleIds :
             n <= e.seq /\ HoldsSince(w, n, id) => HoldsSince(Observed(w, e, clock), n, id)
<1> DEFINE k == Kept(w, e)
           o == Observed(w, e, clock)
<1>1. /\ k.next \in Held(o)
      /\ o.observations[k.next] = e
      /\ \A s \in Held(o) \ {k.next} : s \in Held(k) /\ o.observations[s] = k.observations[s]
  BY ObservedSlots
<1>2. /\ Filled(k, S)
      /\ o.observations = [k.observations EXCEPT ![k.next] = e]
      /\ o.count = CountOf(k)
  BY ObservedParts
<1> SUFFICES ASSUME Rises(w), Tops(e, w),
                    NEW n \in Nat, NEW id \in TupleIds, n <= e.seq, HoldsSince(w, n, id)
             PROVE  HoldsSince(o, n, id)
  OBVIOUS
<1>3. Rises(k) /\ HoldsSince(k, n, id)
  <2>1. SlotsOf(EmptyWindow, id) = {}
    BY DEF SlotsOf, Held, EmptyWindow
  <2> QED
    BY <2>1, KeptInOrder DEF HoldsSince, Kept
<1> HIDE DEF k, o
<1>p. /\ k.next \in Slots
      /\ k.count \in 0 .. WindowSize
      /\ \A s \in Held(k) : k.observations[s] \in S
  BY <1>2 DEF Filled, Window
<1>4. SUFFICES ASSUME NEW i \in SlotsOf(o, id)
               PROVE  \E j \in SlotsOf(o, id) : n <= o.observations[j].seq
  BY DEF HoldsSince
<1>5. CASE i = k.next
  BY <1>1, <1>5
<1>6. CASE i # k.next
  <2>1. i \in SlotsOf(k, id) /\ o.observations[i] = k.observations[i]
    BY <1>1, <1>6 DEF SlotsOf
  <2>2. PICK j \in SlotsOf(k, id) : n <= k.observations[j].seq
    BY <1>3, <2>1 DEF HoldsSince
  <2>3. j \in Held(k) /\ i \in Held(k)
    BY <2>1, <2>2 DEF SlotsOf
  <2>4. CASE j # k.next
    <3>1. j \in Held(o)
      BY <1>2, <1>p, <2>3, WindowAssumption DEF Held, CountOf
    <3>2. o.observations[j] = k.observations[j]
      BY <1>1, <2>4, <3>1
    <3>3. j \in SlotsOf(o, id)
      BY <2>2, <3>1, <3>2 DEF SlotsOf
    <3> QED
      BY <2>2, <3>2, <3>3
  <2>5. CASE j = k.next
    <3>1. k.observations[j].seq < k.observations[i].seq
      BY <1>2, <1>3, <1>6, <2>3, <2>5, OverwritesLowest
    <3>2. k.observations[j].seq \in Nat /\ k.observations[i].seq \in Nat
      BY <1>p, <2>3 DEF Evidence
    <3> QED
      BY <2>1, <2>2, <3>1, <3>2
  <2> QED
    BY <2>4, <2>5
<1> QED
  BY <1>5, <1>6

\* Nothing of a malformed frame, or of what came before it, is projected.
LEMMA MalformedForgets ==
  ASSUME NEW S, S \subseteq Evidence, NEW w, Filled(w, S), NEW e \in Evidence,
         NEW clock \in Nat, Malformed(e.frame)
  PROVE  Projection(Observed(w, e, clock)) = NoProjection
<1> DEFINE o == Observed(w, e, clock)
<1>1. ASSUME NEW s \in Held(o)
      PROVE  o.observations[s] = e
  <2>1. Kept(w, e) = EmptyWindow /\ Held(EmptyWindow) = {}
    BY DEF Kept, Held, EmptyWindow
  <2>2. /\ o.observations[Kept(w, e).next] = e
        /\ \A t \in Held(o) \ {Kept(w, e).next} : t \in Held(Kept(w, e))
    BY ObservedSlots
  <2> HIDE DEF o
  <2> QED
    BY <1>1, <2>1, <2>2
<1>2. ~Valid(e.frame)
  BY DEF Malformed
<1> HIDE DEF o
<1>3. SlotsOf(o, "limits") = {}
  BY <1>1, <1>2 DEF SlotsOf
<1>4. "limits" \in TupleIds
  BY DEF TupleIds
<1>5. Aggregate(o)["limits"] = NoEvidence
  BY <1>3, <1>4 DEF Aggregate
<1>6. Projection(o) = NoProjection
  BY <1>4, <1>5 DEF Projection
<1> QED
  BY <1>6 DEF o

\* What an observation completes: it takes its own place in the tuple, no frame of the
\* tuple is later, and none is older than what the ring has held since.
LEMMA ProjectionCompletes ==
  ASSUME NEW b \in Nat, NEW S, S \subseteq {x \in Evidence : x.seq <= b},
         NEW w, Filled(w, S), NEW e \in S, NEW clock \in Nat
  PROVE  Tops(e, w) /\ Projection(Observed(w, e, clock)) # NoProjection =>
           /\ ~Malformed(e.frame)
           /\ \A id \in TupleIds :
                LET t == Projection(Observed(w, e, clock))[id]
                IN  /\ t \in S /\ t.frame.id = id /\ Valid(t.frame)
                    /\ t.seq <= e.seq
                    /\ id = e.frame.id => t = e
                    /\ HoldsSince(Observed(w, e, clock), t.seq, id)
                    /\ \A n \in Nat : HoldsSince(Observed(w, e, clock), n, id) => n <= t.seq
<1> DEFINE k == Kept(w, e)
           o == Observed(w, e, clock)
<1>0. S \subseteq Evidence /\ e \in Evidence
  OBVIOUS
<1>1. /\ k.next \in Held(o)
      /\ o.observations[k.next] = e
      /\ \A s \in Held(o) \ {k.next} : s \in Held(k) /\ o.observations[s] = k.observations[s]
  BY <1>0, ObservedSlots
<1>2. Filled(o, S)
  BY <1>0, ObservedFilled
<1>3. Malformed(e.frame) => Projection(o) = NoProjection
  BY <1>0, MalformedForgets
<1>a. SUFFICES ASSUME Tops(e, w), Projection(o) # NoProjection
               PROVE  /\ ~Malformed(e.frame)
                      /\ \A id \in TupleIds :
                           LET t == Projection(o)[id]
                           IN  /\ t \in S /\ t.frame.id = id /\ Valid(t.frame)
                               /\ t.seq <= e.seq
                               /\ id = e.frame.id => t = e
                               /\ HoldsSince(o, t.seq, id)
                               /\ \A n \in Nat : HoldsSince(o, n, id) => n <= t.seq
  BY Zenon
<1>4. Tops(e, k)
  BY <1>a DEF Kept, Tops, Held, EmptyWindow
<1> HIDE DEF k, o
<1>5. ~Malformed(e.frame)
  BY <1>3, <1>a
<1>6. ASSUME NEW s \in Held(o)
      PROVE  o.observations[s].seq <= e.seq /\ (s # k.next => o.observations[s].seq < e.seq)
  <2>1. o.observations[s] \in S
    BY <1>2 DEF Filled
  <2>2. e.seq \in Nat /\ o.observations[s].seq \in Nat
    BY <1>0, <2>1 DEF Evidence
  <2>3. CASE s = k.next
    BY <1>1, <2>2, <2>3
  <2>4. CASE s # k.next
    BY <1>1, <1>4, <2>2, <2>4 DEF Tops
  <2> QED
    BY <2>3, <2>4
<1>7. ASSUME NEW id \in TupleIds
      PROVE  LET t == Projection(o)[id]
             IN  /\ t \in S /\ t.frame.id = id /\ Valid(t.frame)
                 /\ t.seq <= e.seq
                 /\ id = e.frame.id => t = e
                 /\ HoldsSince(o, t.seq, id)
                 /\ \A n \in Nat : HoldsSince(o, n, id) => n <= t.seq
  <2> DEFINE t == Projection(o)[id]
  <2>1. /\ t \in S /\ t.frame.id = id /\ Valid(t.frame)
        /\ \A j \in SlotsOf(o, id) : o.observations[j].seq <= t.seq
    BY <1>2, <1>a, ProjectionHeld, SMTT(30)
  <2>2. PICK s \in SlotsOf(o, id) : o.observations[s] = t
    <3>1. t = Aggregate(o)[id] /\ t # NoEvidence
      BY <1>0, <1>a, <2>1, InterfaceAssumption DEF Projection
    <3>2. SlotsOf(o, id) # {} /\ t = o.observations[NewestSlot(o, id)]
      BY <3>1 DEF Aggregate
    <3>3. NewestSlot(o, id) \in SlotsOf(o, id)
      BY <1>2, <3>2, NewestSlotNewest
    <3> QED
      BY <3>2, <3>3
  <2> HIDE DEF t
  <2>3. s \in Held(o)
    BY <2>2 DEF SlotsOf
  <2>4. t.seq <= e.seq
    BY <1>6, <2>2, <2>3, Zenon
  <2>5. ASSUME id = e.frame.id PROVE t = e
    <3>1. ListedFrame(e.frame)
      BY <2>5 DEF ListedFrame, TupleIds
    <3>2. Valid(e.frame)
      BY <1>5, <3>1 DEF Malformed
    <3>3. k.next \in SlotsOf(o, id)
      BY <1>1, <2>5, <3>2 DEF SlotsOf
    <3>4. e.seq <= t.seq
      BY <1>1, <2>1, <3>3
    <3>5. e.seq \in Nat /\ t.seq \in Nat
      BY <1>0, <2>1 DEF Evidence
    <3>6. s = k.next
      BY <1>6, <2>2, <2>3, <3>4, <3>5
    <3> QED
      BY <1>1, <2>2, <3>6
  <2>6. HoldsSince(o, t.seq, id)
    <3>1. t.seq <= t.seq
      BY <1>0, <2>1 DEF Evidence
    <3> QED
      BY <2>2, <3>1 DEF HoldsSince
  <2>7. ASSUME NEW n \in Nat, HoldsSince(o, n, id) PROVE n <= t.seq
    <3>1. PICK j \in SlotsOf(o, id) : n <= o.observations[j].seq
      BY <2>2, <2>7 DEF HoldsSince
    <3>2. o.observations[j].seq <= t.seq
      BY <2>1, <3>1
    <3>3. o.observations[j] \in S
      BY <1>2, <3>1 DEF Filled, SlotsOf
    <3>4. o.observations[j].seq \in Nat /\ t.seq \in Nat
      BY <1>0, <2>1, <3>3 DEF Evidence
    <3> QED
      BY <3>1, <3>2, <3>4
  <2> QED
    BY <2>1, <2>4, <2>5, <2>6, <2>7 DEF t
<1> QED
  BY <1>5, <1>7
-----------------------------------------------------------------------------
(* The provider.                                                           *)

\* What the source of the current generation has had admitted.
Heard == {e \in Current : hasSequence /\ e.seq <= sequence}

HeardInOrder ==
  \A i \in DOMAIN replay.windows : Filled(replay.windows[i], Heard) /\ Rises(replay.windows[i])

\* A tuple of the current generation, and what the replay holds since.
ShownInOrder ==
  projectionGeneration = generation /\ generation # 0 =>
    /\ hasSequence
    /\ \A id \in TupleIds :
         /\ projection[id].seq \in Nat /\ projection[id].seq <= sequence
         /\ \A i \in DOMAIN replay.windows : HoldsSince(replay.windows[i], projection[id].seq, id)

HInv == IInv /\ HeardInOrder /\ ShownInOrder

\* What a step can do to all that a reader sees.
LEMMA StepKinds ==
  ASSUME IInv, [Next]_vars
  PROVE  \/ UNCHANGED <<replay, sequence, hasSequence, snapshot>>
         \/ status' = "stopped" /\ UNCHANGED <<replay, sequence, hasSequence, generation, history>>
         \/ /\ running /\ status' = "degraded"
            /\ UNCHANGED <<replay, sequence, hasSequence, generation, history>>
         \/ \E c \in Callers : Install(c)
         \/ \E g \in Generations :
              receiver[g] = "delivered" /\ Admissible(pending[g]) /\ Accept(pending[g])
<1>1. ASSUME NEW g \in Generations, ReceiveObservation(g)
      PROVE  \/ UNCHANGED <<replay, sequence, hasSequence, snapshot>>
             \/ receiver[g] = "delivered" /\ Admissible(pending[g]) /\ Accept(pending[g])
  BY <1>1 DEF ReceiveObservation, guarded
<1>2. ASSUME NEW g \in Generations, ReceiveError(g)
      PROVE  \/ UNCHANGED <<replay, sequence, hasSequence, snapshot>>
             \/ /\ running /\ status' = "degraded"
                /\ UNCHANGED <<replay, sequence, hasSequence, generation, history>>
  BY <1>2 DEF ReceiveError, snapshot
<1>3. ASSUME NEW g \in Generations, SourceReturns(g) \/ CheckContext(g) \/ CloseDone(g)
      PROVE  UNCHANGED <<replay, sequence, hasSequence, snapshot>>
  BY <1>3 DEF SourceReturns, SourceDelivers, SourceFails, CheckContext, CloseDone, guarded
<1>4. ASSUME NEW c \in Callers, Calls(c) \/ LockLifecycle(c) \/ CheckStart(c) \/ Cancel(c)
                                \/ Join(c) \/ Spawn(c) \/ Return(c)
      PROVE  UNCHANGED <<replay, sequence, hasSequence, snapshot>>
  BY <1>4 DEF Calls, CallStart, CallStop, LockLifecycle, CheckStart, Cancel, Join, Spawn,
              Return, guarded
<1>5. ASSUME NEW c \in Callers, Fence(c)
      PROVE  status' = "stopped" /\ UNCHANGED <<replay, sequence, hasSequence, generation, history>>
  BY <1>5 DEF Fence
<1>6. ASSUME UNCHANGED vars
      PROVE  UNCHANGED <<replay, sequence, hasSequence, snapshot>>
  BY <1>6 DEF vars, guarded
<1> QED
  BY <1>1, <1>2, <1>3, <1>4, <1>5, <1>6, Zenon DEF Next, CallerStep, ReceiverStep

LEMMA InstallParts ==
  ASSUME IInv, NEW c \in Callers, Install(c)
  PROVE  /\ status = "stopped" /\ status' = "awaiting"
         /\ generation' \in generation + 1 .. MaxGeneration
         /\ replay' = FreshReplay /\ UNCHANGED history
<1>1. pc[c] = "install"
  BY DEF Install, Goto
<1>2. call[c].op = "start" /\ call[c].generation > generation /\ status = "stopped"
  BY <1>1 DEF IInv, Lifecycle, CallInOrder
<1>3. call[c].generation \in 0 .. MaxGeneration /\ generation \in 0 .. MaxGeneration
  BY DEF IInv, TypeOK
<1>4. call[c].generation \in generation + 1 .. MaxGeneration
  BY <1>2, <1>3, ProviderAssumption
<1> QED
  BY <1>2, <1>4 DEF Install

\* An accepted observation is newer than all that is heard, and is observed by the
\* window of the selected interface.
LEMMA AcceptedObserved ==
  ASSUME HInv, NEW g \in Generations, receiver[g] = "delivered",
         Admissible(pending[g]), Accept(pending[g])
  PROVE  LET e == pending[g].evidence
             S == {x \in Current : x.seq <= e.seq}
             w == WindowFor(replay.windows, Selected)
         IN  /\ e \in S /\ Heard' = S
             /\ Filled(w, S) /\ Rises(w) /\ Tops(e, w)
             /\ hasSequence => sequence < e.seq
             /\ replay.clock + 1 \in Nat
             /\ DOMAIN replay'.windows = {Selected}
             /\ replay'.windows[Selected] = Observed(w, e, replay.clock + 1)
<1> DEFINE e == pending[g].evidence
           S == {x \in Current : x.seq <= e.seq}
           w == WindowFor(replay.windows, Selected)
<1>i. IInv /\ HeardInOrder
  BY DEF HInv
<1>1. /\ e \in Current /\ DOMAIN replay'.windows = {Selected}
      /\ Current \subseteq Evidence
  BY <1>i, AcceptedParts DEF Current
<1>2. e.iface = Selected /\ e.seq \in Nat
  BY <1>1 DEF Current, Evidence
<1>3. sequence \in Nat /\ replay.clock \in Nat /\ hasSequence \in BOOLEAN
  BY <1>i DEF IInv, TypeOK
<1>4. hasSequence => sequence < e.seq
  BY <1>2, <1>3 DEF Admissible
<1>5. e \in S
  BY <1>1, <1>2
<1>6. Heard' = S
  BY DEF Accept, Heard, Current
<1>7. Filled(w, Heard) /\ Rises(w)
  <2>1. Rises(EmptyWindow)
    BY DEF Rises, Held, EmptyWindow
  <2> QED
    BY <1>i, <2>1, EmptyWindowFilled DEF HeardInOrder, WindowFor
<1>8. Heard \subseteq S /\ \A x \in Heard : x.seq < e.seq
  BY <1>1, <1>2, <1>3, <1>4 DEF Heard, Evidence
<1>9. Filled(w, S) /\ Tops(e, w)
  <2> HIDE DEF w, e, S
  <2> QED
    BY <1>7, <1>8 DEF Filled, Tops
<1>10. replay'.windows[Selected] = Observed(w, e, replay.clock + 1)
  <2>1. /\ IsFiniteSet(DOMAIN replay.windows)
        /\ Cardinality(DOMAIN replay.windows) <= MaximumInterfaces
    <3>1. DOMAIN replay.windows \subseteq {Selected}
      BY <1>i DEF IInv, TypeOK
    <3>2. IsFiniteSet({Selected}) /\ Cardinality({Selected}) = 1
      BY FS_Singleton
    <3>3. /\ IsFiniteSet(DOMAIN replay.windows)
          /\ Cardinality(DOMAIN replay.windows) <= 1
      BY <3>1, <3>2, FS_Subset
    <3>4. Cardinality(DOMAIN replay.windows) \in Nat
      BY <3>3, FS_CardinalityType
    <3> QED
      BY <3>3, <3>4, WindowAssumption
  <2>2. PICK t \in Classified(replay.windows, e, replay.clock + 1) :
          replay' = [windows |-> t, clock |-> replay.clock + 1]
    BY <1>2 DEF Accept, Replayed
  <2>3. t[Selected] = Observed(w, e, replay.clock + 1)
    <3> HIDE DEF e
    <3> QED
      BY <1>2, <2>1, <2>2, ClassifiedParts
  <2> QED
    BY <2>2, <2>3
<1> QED
  BY <1>1, <1>3, <1>4, <1>5, <1>6, <1>7, <1>9, <1>10

\* What an accepted observation leaves behind, and what it shows.
LEMMA AcceptedShown ==
  ASSUME HInv, NEW g \in Generations, receiver[g] = "delivered",
         Admissible(pending[g]), Accept(pending[g])
  PROVE  LET e == pending[g].evidence
             o == replay'.windows[Selected]
         IN  /\ Filled(o, Heard') /\ Rises(o)
             /\ \A n \in Nat, id \in TupleIds :
                  /\ n <= e.seq
                  /\ \A i \in DOMAIN replay.windows : HoldsSince(replay.windows[i], n, id)
                  => HoldsSince(o, n, id)
             /\ Projection(o) # NoProjection =>
                  /\ ~Malformed(e.frame)
                  /\ \A id \in TupleIds :
                       LET t == Projection(o)[id]
                       IN  /\ t \in Current /\ t.frame.id = id /\ Valid(t.frame)
                           /\ t.seq <= e.seq
                           /\ id = e.frame.id => t = e
                           /\ HoldsSince(o, t.seq, id)
                           /\ \A n \in Nat : HoldsSince(o, n, id) => n <= t.seq
<1> DEFINE e == pending[g].evidence
           S == {x \in Current : x.seq <= e.seq}
           w == WindowFor(replay.windows, Selected)
           clock == replay.clock + 1
           o == Observed(w, e, clock)
<1>1. /\ e \in S /\ Heard' = S
      /\ Filled(w, S) /\ Rises(w) /\ Tops(e, w)
      /\ clock \in Nat
      /\ replay'.windows[Selected] = o
  BY AcceptedObserved, Zenon
<1>2. /\ S \subseteq Evidence
      /\ S \subseteq {x \in Evidence : x.seq <= MaxSequence} /\ MaxSequence \in Nat
      /\ S \subseteq Current
  BY ProviderAssumption DEF Current
<1>3. ASSUME NEW n \in Nat, NEW id \in TupleIds,
             \A i \in DOMAIN replay.windows : HoldsSince(replay.windows[i], n, id)
      PROVE  HoldsSince(w, n, id)
  <2>1. HoldsSince(EmptyWindow, n, id)
    BY DEF HoldsSince, SlotsOf, Held, EmptyWindow
  <2> QED
    BY <1>3, <2>1 DEF WindowFor
<1> HIDE DEF e, S, w, clock
<1>4. e \in Evidence
  BY <1>1, <1>2
<1>5. Filled(o, S)
  BY <1>1, <1>2, ObservedFilled
<1>6. Rises(o)
  BY <1>1, <1>2, <1>4, ObservedRises
<1>7. \A n \in Nat, id \in TupleIds : n <= e.seq /\ HoldsSince(w, n, id) => HoldsSince(o, n, id)
  BY <1>1, <1>2, <1>4, ObservedHoldsSince
<1>8. Projection(o) # NoProjection =>
        /\ ~Malformed(e.frame)
        /\ \A id \in TupleIds :
             LET t == Projection(o)[id]
             IN  /\ t \in S /\ t.frame.id = id /\ Valid(t.frame)
                 /\ t.seq <= e.seq
                 /\ id = e.frame.id => t = e
                 /\ HoldsSince(o, t.seq, id)
                 /\ \A n \in Nat : HoldsSince(o, n, id) => n <= t.seq
  BY <1>1, <1>2, ProjectionCompletes, Zenon
<1> HIDE DEF o
<1>9. /\ Filled(o, Heard') /\ Rises(o)
      /\ \A n \in Nat, id \in TupleIds :
           /\ n <= e.seq
           /\ \A i \in DOMAIN replay.windows : HoldsSince(replay.windows[i], n, id)
           => HoldsSince(o, n, id)
      /\ Projection(o) # NoProjection =>
           /\ ~Malformed(e.frame)
           /\ \A id \in TupleIds :
                LET t == Projection(o)[id]
                IN  /\ t \in Current /\ t.frame.id = id /\ Valid(t.frame)
                    /\ t.seq <= e.seq
                    /\ id = e.frame.id => t = e
                    /\ HoldsSince(o, t.seq, id)
                    /\ \A n \in Nat : HoldsSince(o, n, id) => n <= t.seq
  BY <1>1, <1>2, <1>3, <1>5, <1>6, <1>7, <1>8, Zenon
<1> QED
  BY <1>1, <1>9, Zenon DEF e

LEMMA HInvInit == Init => HInv
<1>1. Init => HeardInOrder /\ ShownInOrder
  BY DEF Init, HeardInOrder, ShownInOrder, FreshReplay, EmptyTable
<1> QED
  BY <1>1, InitIInv DEF HInv

LEMMA HInvStep == HInv /\ [Next]_vars => HInv'
<1> SUFFICES ASSUME HInv, [Next]_vars PROVE HInv'
  OBVIOUS
<1>i. IInv /\ HeardInOrder /\ ShownInOrder /\ IInv'
  BY NextIInv DEF HInv
<1>1. CASE UNCHANGED <<replay, sequence, hasSequence, generation, history>>
  BY <1>i, <1>1 DEF HInv, HeardInOrder, ShownInOrder, Heard, Current, history
<1>2. ASSUME NEW c \in Callers, Install(c) PROVE HInv'
  <2>1. /\ generation' \in generation + 1 .. MaxGeneration
        /\ replay' = FreshReplay /\ projectionGeneration' = projectionGeneration
    BY <1>i, <1>2, InstallParts DEF history
  <2>2. HeardInOrder'
    BY <2>1 DEF HeardInOrder, FreshReplay, EmptyTable
  <2>3. projectionGeneration <= generation
    BY <1>i DEF IInv, EvidenceInOrder, LabelsInOrder
  <2>4. projectionGeneration' # generation'
    BY <1>i, <2>1, <2>3, ProviderAssumption DEF IInv, TypeOK
  <2> QED
    BY <1>i, <2>2, <2>4 DEF HInv, ShownInOrder
<1>3. ASSUME NEW g \in Generations, receiver[g] = "delivered",
             Admissible(pending[g]), Accept(pending[g])
      PROVE  HInv'
  <2> DEFINE e == pending[g].evidence
             o == replay'.windows[Selected]
  <2>1. /\ e \in Current /\ DOMAIN replay'.windows = {Selected}
        /\ hasSequence => sequence < e.seq
    BY <1>3, AcceptedObserved
  <2>2. /\ Filled(o, Heard') /\ Rises(o)
        /\ \A n \in Nat, id \in TupleIds :
             /\ n <= e.seq
             /\ \A i \in DOMAIN replay.windows : HoldsSince(replay.windows[i], n, id)
             => HoldsSince(o, n, id)
        /\ Projection(o) # NoProjection =>
             \A id \in TupleIds : /\ Projection(o)[id] \in Current
                                  /\ Projection(o)[id].seq <= e.seq
                                  /\ HoldsSince(o, Projection(o)[id].seq, id)
    BY <1>3, AcceptedShown, Zenon
  <2>3. HeardInOrder'
    BY <2>1, <2>2 DEF HeardInOrder
  <2>4. /\ sequence' = e.seq /\ hasSequence' /\ generation' = generation
        /\ e.iface = Selected /\ e.seq \in Nat
    BY <1>3, <2>1 DEF Accept, Current, Evidence
  <2>5. CASE Projection(o) = NoProjection
    <3>1. projection' = projection /\ projectionGeneration' = projectionGeneration
      BY <1>3, <2>4, <2>5 DEF Accept, Publish
    <3>2. ASSUME projectionGeneration = generation, generation # 0, NEW id \in TupleIds
          PROVE  /\ projection[id].seq \in Nat /\ projection[id].seq <= e.seq
                 /\ HoldsSince(o, projection[id].seq, id)
      <4>1. /\ hasSequence
            /\ projection[id].seq \in Nat /\ projection[id].seq <= sequence
            /\ \A i \in DOMAIN replay.windows : HoldsSince(replay.windows[i], projection[id].seq, id)
        BY <1>i, <3>2 DEF ShownInOrder
      <4>2. projection[id].seq <= e.seq
        BY <1>i, <2>1, <2>4, <4>1 DEF IInv, TypeOK
      <4> QED
        BY <2>2, <4>1, <4>2, Zenon
    <3> QED
      BY <1>i, <2>1, <2>3, <2>4, <3>1, <3>2 DEF HInv, ShownInOrder
  <2>6. CASE Projection(o) # NoProjection
    <3>1. projection' = Projection(o)
      BY <1>3, <2>4, <2>6 DEF Accept, Publish
    <3>2. ASSUME NEW id \in TupleIds
          PROVE  projection'[id].seq \in Nat
      BY <2>2, <2>6, <3>1 DEF Current, Evidence
    <3> QED
      BY <1>i, <2>1, <2>2, <2>3, <2>4, <2>6, <3>1, <3>2 DEF HInv, ShownInOrder
  <2> QED
    BY <2>5, <2>6
<1> QED
  BY <1>i, <1>1, <1>2, <1>3, StepKinds DEF snapshot
-----------------------------------------------------------------------------
(* The refinement.                                                         *)

\* The contract speaks of the same frames and evidence.
LEMMA SameEvidence ==
  /\ Contract!Evidence = Evidence
  /\ Contract!TupleIds = TupleIds
  /\ Contract!NoProjection = NoProjection
  /\ \A f : (Contract!Malformed(f) <=> Malformed(f)) /\ (Contract!Valid(f) <=> Valid(f))
BY DEF Contract!Evidence, Evidence, Contract!Frame, Frame, Contract!TupleIds, TupleIds,
       Contract!NoProjection, NoProjection, Contract!Malformed, Malformed, Contract!Valid, Valid,
       Contract!ListedFrame, ListedFrame

LEMMA StartsAsHistory == Init => Contract!HistoryInit
BY SameEvidence DEF Init, Contract!HistoryInit

\* A tuple that an accepted observation publishes.
LEMMA AcceptedCompletes ==
  ASSUME HInv, NEW g \in Generations, receiver[g] = "delivered",
         Admissible(pending[g]), Accept(pending[g]),
         Projection(replay'.windows[Selected]) # NoProjection
  PROVE  Contract!Completes(Projection(replay'.windows[Selected]), pending[g].evidence)
<1> DEFINE e == pending[g].evidence
           o == replay'.windows[Selected]
<1>1. /\ \A n \in Nat, id \in TupleIds :
           /\ n <= e.seq
           /\ \A i \in DOMAIN replay.windows : HoldsSince(replay.windows[i], n, id)
           => HoldsSince(o, n, id)
      /\ ~Malformed(e.frame)
      /\ \A id \in TupleIds :
           LET t == Projection(o)[id]
           IN  /\ t \in Current /\ t.frame.id = id /\ Valid(t.frame)
               /\ t.seq <= e.seq
               /\ id = e.frame.id => t = e
               /\ \A n \in Nat : HoldsSince(o, n, id) => n <= t.seq
  BY AcceptedShown, Zenon
<1>2. /\ e \in Current /\ (hasSequence => sequence < e.seq)
      /\ g = generation /\ g \in Nat /\ g # 0
  <2>1. g = generation
    BY AcceptedParts DEF HInv
  <2>2. g \in Nat /\ g # 0
    BY ProviderAssumption DEF Generations
  <2>3. e \in Current /\ (hasSequence => sequence < e.seq)
    BY AcceptedObserved
  <2> QED
    BY <2>1, <2>2, <2>3
<1>3. \A id \in TupleIds : Contract!Own(Projection(o)[id])
  BY <1>1, SameEvidence DEF Contract!Own, Current
<1>4. ASSUME projectionGeneration = generation, NEW id \in TupleIds
      PROVE  projection[id].seq <= Projection(o)[id].seq
  <2>1. /\ hasSequence
        /\ projection[id].seq \in Nat /\ projection[id].seq <= sequence
        /\ \A i \in DOMAIN replay.windows : HoldsSince(replay.windows[i], projection[id].seq, id)
    BY <1>2, <1>4 DEF HInv, ShownInOrder
  <2>2. sequence \in Nat /\ e.seq \in Nat
    BY <1>2 DEF HInv, IInv, TypeOK, Current, Evidence
  <2>3. projection[id].seq <= e.seq
    BY <1>2, <2>1, <2>2
  <2>4. HoldsSince(o, projection[id].seq, id)
    BY <1>1, <2>1, <2>3, Zenon
  <2> QED
    BY <1>1, <2>1, <2>4, Zenon
<1> QED
  BY <1>1, <1>3, <1>4, SameEvidence, Zenon DEF Contract!Completes

LEMMA AcceptObserves ==
  ASSUME HInv, NEW g \in Generations, receiver[g] = "delivered",
         Admissible(pending[g]), Accept(pending[g])
  PROVE  Contract!Observe
<1> DEFINE e == pending[g].evidence
           o == replay'.windows[Selected]
<1>1. /\ running /\ pending[g].generation = generation /\ e \in Current
      /\ hasSequence => sequence < e.seq
  BY AcceptedParts, AcceptedObserved DEF HInv
<1>2. /\ raw' = e /\ rawGeneration' = generation /\ generation' = generation
      /\ e.iface = Selected
  BY <1>1 DEF Accept, Current
<1>3. Contract!Live
  BY <1>1 DEF HInv, IInv, Lifecycle, StatusInOrder, Contract!Live
<1>4. Contract!Own(raw')
  BY <1>1, <1>2, SameEvidence DEF Contract!Own, Current
<1>5. rawGeneration = generation => raw.seq < raw'.seq
  <2>1. g \in Nat /\ g # 0 /\ g = generation
    BY AcceptedParts, ProviderAssumption DEF HInv, Generations
  <2>2. raw = NoEvidence => rawGeneration = 0
    BY DEF HInv, IInv, EvidenceInOrder, LabelsInOrder
  <2>3. /\ hasSequence => raw.seq = sequence
        /\ ~hasSequence => raw = NoEvidence \/ rawGeneration < generation
    BY DEF HInv, IInv, EvidenceInOrder, FenceFollowsRaw
  <2> QED
    BY <1>1, <1>2, <2>1, <2>2, <2>3
<1>6. CASE Projection(o) = NoProjection
  <2>1. status' = "awaiting" /\ UNCHANGED <<projection, projectionGeneration>>
    BY <1>2, <1>6 DEF Accept, Publish
  <2> QED
    BY <1>2, <1>3, <1>4, <1>5, <2>1 DEF Contract!Observe
<1>7. CASE Projection(o) # NoProjection
  <2>1. /\ status' = "receiving" /\ projection' = Projection(o)
        /\ projectionGeneration' = generation
    BY <1>2, <1>7 DEF Accept, Publish
  <2>2. Contract!Completes(projection', raw')
    BY <1>2, <1>7, <2>1, AcceptedCompletes
  <2> QED
    BY <1>2, <1>3, <1>4, <1>5, <2>1, <2>2 DEF Contract!Observe
<1> QED
  BY <1>6, <1>7

LEMMA StepsAsHistory == HInv /\ [Next]_vars => [Contract!HistoryNext]_Contract!historyVars
<1> SUFFICES ASSUME HInv, [Next]_vars
             PROVE  Contract!HistoryNext \/ UNCHANGED Contract!historyVars
  OBVIOUS
<1> USE DEF Contract!historyVars, Contract!evidence
<1>1. CASE UNCHANGED snapshot
  BY <1>1 DEF snapshot, history
<1>2. CASE status' = "stopped" /\ UNCHANGED <<generation, history>>
  BY <1>2 DEF history, Contract!HistoryNext, Contract!Stop
<1>3. CASE running /\ status' = "degraded" /\ UNCHANGED <<generation, history>>
  BY <1>3 DEF history, Contract!HistoryNext, Contract!Lose, Contract!Live,
              HInv, IInv, Lifecycle, StatusInOrder
<1>4. ASSUME NEW c \in Callers, Install(c) PROVE Contract!HistoryNext
  BY <1>4, InstallParts DEF HInv, history, Contract!HistoryNext, Contract!Begin
<1>5. ASSUME NEW g \in Generations, receiver[g] = "delivered",
             Admissible(pending[g]), Accept(pending[g])
      PROVE  Contract!HistoryNext
  BY <1>5, AcceptObserves DEF Contract!HistoryNext
<1> QED
  BY <1>1, <1>2, <1>3, <1>4, <1>5, StepKinds DEF HInv

\* A reader of snapshots sees nothing that ProviderHistory does not allow.
THEOREM ProviderImplementsHistory == Spec => ImplementsHistory
<1>1. Spec => []HInv
  BY HInvInit, HInvStep, PTL DEF Spec
<1> QED
  BY <1>1, StartsAsHistory, StepsAsHistory, PTL DEF Spec, ImplementsHistory, Contract!HistorySpec
=============================================================================
