---------------------------- MODULE RecentTuples ----------------------------
(***************************************************************************)
(* What a caller of the V1.04 profile may rely on, with no ring, no clock  *)
(* and no access times.  The profile remembers the interfaces it heard     *)
(* from most recently, and of each the latest observations since the last  *)
(* malformed listed frame, in the order they came.  An answer is made of   *)
(* remembered valid frames with the largest sequence of their kind; it is  *)
(* given whenever the three kinds are remembered, and only then.           *)
(***************************************************************************)
EXTENDS GrowattFrames, Sequences

CONSTANTS WindowSize, MaximumInterfaces

VARIABLES
  remembered,  \* [iface, log] records, the most recently heard from first
  answer       \* the answer to the latest observation

contractVars == <<remembered, answer>>

Shortest(a, b) == IF a < b THEN a ELSE b

LastOf(log, n) ==
  [k \in 1 .. Shortest(Len(log), n) |-> log[Len(log) - Shortest(Len(log), n) + k]]

\* Where an interface is remembered: the place after the last, if it is not.
Place(iface) ==
  LET known == {k \in 1 .. Len(remembered) : remembered[k].iface = iface}
  IN  IF known = {} THEN Len(remembered) + 1 ELSE CHOOSE k \in known : TRUE

LogOf(iface) ==
  IF Place(iface) > Len(remembered) THEN <<>> ELSE remembered[Place(iface)].log

\* The interface at a place, remembered or not, comes to the front; whatever is in
\* front of it moves back by one, and what exceeds the bound is forgotten.
Fronted(place, record) ==
  LET n == IF place > Len(remembered) THEN place ELSE Len(remembered)
  IN  [k \in 1 .. Shortest(n, MaximumInterfaces) |->
         IF k = 1 THEN record
         ELSE IF k <= place THEN remembered[k - 1]
         ELSE remembered[k]]

OfKind(log, id) ==
  {log[i] : i \in {j \in DOMAIN log : log[j].frame.id = id /\ Valid(log[j].frame)}}

\* The evidence of a kind that an answer may use.
Newest(log, id) ==
  {e \in OfKind(log, id) : \A f \in OfKind(log, id) : f.seq <= e.seq}

Answers(log) ==
  IF \E id \in TupleIds : OfKind(log, id) = {}
  THEN {NoProjection}
  ELSE {t \in [TupleIds -> {log[i] : i \in DOMAIN log}] :
          \A id \in TupleIds : t[id] \in Newest(log, id)}

Observe(e) ==
  LET kept == IF Malformed(e.frame) THEN <<>> ELSE LogOf(e.iface)
      log  == LastOf(Append(kept, e), WindowSize)
  IN  /\ e.iface \in ValidInterfaces
      /\ remembered' = Fronted(Place(e.iface), [iface |-> e.iface, log |-> log])
      /\ answer'.tuple \in Answers(log)

Refuse(e) ==
  /\ e.iface \notin ValidInterfaces
  /\ answer'.tuple = NoProjection
  /\ UNCHANGED remembered

ContractInit ==
  /\ remembered = <<>>
  /\ answer = [observed |-> NoEvidence, tuple |-> NoProjection]

\* The input of a step is the observation its answer is about.
ContractNext ==
  /\ answer'.observed \in Evidence
  /\ Observe(answer'.observed) \/ Refuse(answer'.observed)

ContractSpec == ContractInit /\ [][ContractNext]_contractVars
=============================================================================
