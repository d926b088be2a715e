----------------------------- MODULE GrowattV104 -----------------------------
(***************************************************************************)
(* The V1.04 profile as callers drive it: one Classify per observation, on *)
(* any interface, in any order and with any sequence numbers.  The mutex   *)
(* of the profile covers the whole of Classify, so that concurrent callers *)
(* amount to Classify steps in some order.                                 *)
(*                                                                         *)
(* arrivals and since are history variables, no field of the program: how  *)
(* many observations an interface has made, and how many of them came no   *)
(* later than the last event that discarded its window.  The mark of an    *)
(* observation is its arrival number on its interface.                     *)
(***************************************************************************)
EXTENDS GrowattWindows, Sequences

CONSTANTS
  Frames,       \* the frames callers present
  MaxSequence,  \* bound on sequence numbers
  MaxClock      \* bound on the number of classified observations

ASSUME V104Assumption ==
  /\ Frames \subseteq Frame
  /\ MaxSequence \in Nat
  /\ MaxClock \in Nat

VARIABLES
  windows,   \* the table of windows, a function on the interfaces it holds
  clock,     \* counts classified observations
  answer,    \* the latest observation and the tuple it was answered with
  arrivals,  \* history: observations made on each interface
  since      \* history: arrivals up to the one that last emptied the window

vars == <<windows, clock, answer, arrivals, since>>

TypeOK ==
  /\ DOMAIN windows \subseteq ValidInterfaces
  /\ windows \in [DOMAIN windows -> Window]
  /\ clock \in 0 .. MaxClock
  /\ answer \in [observed : Evidence \cup {NoEvidence}, tuple : Projections]
  /\ arrivals \in [Interfaces -> Nat]
  /\ since \in [Interfaces -> Nat]

Init ==
  /\ windows = EmptyTable
  /\ clock = 0
  /\ answer = [observed |-> NoEvidence, tuple |-> NoProjection]
  /\ arrivals = [i \in Interfaces |-> 0]
  /\ since = [i \in Interfaces |-> 0]

\* An identity without a name or index is refused before any state is read.
ClassifyRefused(e) ==
  /\ e.iface \notin ValidInterfaces
  /\ answer' = [observed |-> e, tuple |-> NoProjection]
  /\ UNCHANGED <<windows, clock, arrivals, since>>

ClassifyObserved(e) ==
  /\ e.iface \in ValidInterfaces
  /\ clock < MaxClock
  /\ clock' = clock + 1
  /\ windows' \in Classified(windows, e, clock')
  /\ answer' = [observed |-> e, tuple |-> Projection(windows'[e.iface])]
  /\ arrivals' = [arrivals EXCEPT ![e.iface] = @ + 1]
  /\ since' = [i \in Interfaces |->
                 IF i = e.iface /\ Malformed(e.frame) THEN arrivals'[i]
                 ELSE IF i \in DOMAIN windows \ DOMAIN windows' THEN arrivals[i]
                 ELSE since[i]]

Classify(e) == ClassifyRefused(e) \/ ClassifyObserved(e)

Next ==
  \E iface \in Interfaces, frame \in Frames, seq \in 0 .. MaxSequence :
    Classify([frame |-> frame, iface |-> iface, seq |-> seq,
              mark |-> arrivals[iface] + 1])

Spec == Init /\ [][Next]_vars
-----------------------------------------------------------------------------
(* Properties.                                                             *)

\* Eviction scans a Go map, whose order is random, for the smallest access
\* time.  The victim is nevertheless unique: held windows have different,
\* positive access times (zero is the scan's "nothing seen yet").
RecencyDistinct ==
  /\ Cardinality(DOMAIN windows) <= MaximumInterfaces
  /\ \A i \in DOMAIN windows :
       /\ windows[i].lastAccess \in 1 .. clock
       /\ \A j \in DOMAIN windows :
            windows[i].lastAccess = windows[j].lastAccess => i = j

\* How many observations of its interface came after the one in slot s.
Age(w, s) == IF s < w.next THEN w.next - 1 - s ELSE w.next - 1 - s + WindowSize

\* Window w against the history of interface i: arr arrivals, the first of
\* them discarded up to the one numbered from.
InStep(w, i, arr, from) ==
  /\ w.count < WindowSize => w.next = w.count
  /\ \A s \in Held(w) :
       LET e == w.observations[s]
       IN  /\ e \in Evidence
           /\ e.iface = i
           /\ e.mark = arr - Age(w, s)
           /\ e.mark >= from
           /\ Valid(e.frame) => e.mark > from

\* The slots a window counts as held are the latest observations of its own
\* interface, in ring order and without gaps, and all of them came after the
\* event that last emptied it; only the malformed frame itself may be that
\* event.  The scan of aggregate reads slots 0 .. count - 1 and relies on it.
RingsInStep ==
  /\ \A i \in Interfaces : since[i] <= arrivals[i]
  /\ \A i \in DOMAIN windows : InStep(windows[i], i, arrivals[i], since[i])

\* A projection never mixes interfaces, never reaches over a malformed listed
\* frame or an eviction, and never uses an observation that WindowSize later
\* ones on the interface have pushed out.
TupleIsFresh ==
  answer.tuple # NoProjection =>
    \A id \in TupleIds :
      LET e == answer.tuple[id]
          i == answer.observed.iface
      IN  /\ e.iface = i
          /\ e.frame.id = id
          /\ Valid(e.frame)
          /\ e.mark > since[i]
          /\ e.mark \in arrivals[i] - WindowSize + 1 .. arrivals[i]
-----------------------------------------------------------------------------
(* The contract.                                                           *)

\* Held interfaces by descending access time: how many were accessed no earlier
\* than one, and which one that is.
Rank(t, i) == Cardinality({j \in DOMAIN t : t[j].lastAccess >= t[i].lastAccess})
Ranked(t, k) == CHOOSE i \in DOMAIN t : Rank(t, i) = k

\* A ring in order of arrival: the oldest slot is next - count, modulo the size.
LogSlot(w, k) ==
  LET s == w.next - w.count + k - 1
  IN  IF s < 0 THEN s + WindowSize ELSE s

Log(w) == [k \in 1 .. w.count |-> w.observations[LogSlot(w, k)]]

Remembered(t) ==
  [k \in 1 .. Cardinality(DOMAIN t) |->
     [iface |-> Ranked(t, k), log |-> Log(t[Ranked(t, k)])]]

Contract == INSTANCE RecentTuples WITH remembered <- Remembered(windows)

\* The rings, clocks and evictions of the profile implement the contract: what
\* is remembered is exactly the latest observations of the interfaces heard
\* from most recently, and every answer follows from that alone.
ImplementsContract == Contract!ContractSpec
=============================================================================
