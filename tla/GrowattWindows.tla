--------------------------- MODULE GrowattWindows ---------------------------
(***************************************************************************)
(* The per-interface observation windows of the V1.04 profile: a ring of   *)
(* the last WindowSize observations, the newest valid frame of each kind   *)
(* in it, and a bounded table of such rings with least-recently-used       *)
(* eviction.  Everything here is a constant-level operator; the profile    *)
(* (GrowattV104) and the provider (GrowattProvider) are built from them.   *)
(***************************************************************************)
EXTENDS GrowattFrames

CONSTANTS
  WindowSize,         \* growattV104WindowSize
  MaximumInterfaces   \* growattV104MaximumInterfaces

ASSUME WindowAssumption ==
  /\ WindowSize \in Nat \ {0}
  /\ MaximumInterfaces \in Nat \ {0}

Slots == 0 .. WindowSize - 1

Window == [observations : [Slots -> Evidence \cup {NoEvidence}],
           count : 0 .. WindowSize,
           next : Slots,
           lastAccess : Nat]

EmptyWindow == [observations |-> [i \in Slots |-> NoEvidence],
                count |-> 0, next |-> 0, lastAccess |-> 0]

EmptyTable == [i \in {} |-> EmptyWindow]
-----------------------------------------------------------------------------
(* The ring.                                                               *)

\* Slip: the ring is one slot short, the last slot is never written.
Appended_ShortRing(w, e) ==
  [w EXCEPT !.observations[w.next] = e,
            !.next = IF w.next + 2 >= WindowSize THEN 0 ELSE w.next + 1,
            !.count = IF w.count < WindowSize THEN w.count + 1 ELSE w.count]

\* Slip: the next slot is not taken modulo the size.
Appended_NoWrap(w, e) ==
  [w EXCEPT !.observations[w.next] = e,
            !.next = w.next + 1,
            !.count = IF w.count < WindowSize THEN w.count + 1 ELSE w.count]

\* growattV104Window.append: write at next, advance modulo the size.
Appended(w, e) ==
  [w EXCEPT !.observations[w.next] = e,
            !.next = (w.next + 1) % WindowSize,
            !.count = IF w.count < WindowSize THEN w.count + 1 ELSE w.count]

Held(w) == 0 .. w.count - 1

SlotsOf(w, id) ==
  {i \in Held(w) : /\ w.observations[i].frame.id = id
                   /\ Valid(w.observations[i].frame)}

\* Slip: the scan keeps the first candidate instead of the newest one.
NewestSlot_First(w, id) == CHOOSE i \in SlotsOf(w, id) : \A j \in SlotsOf(w, id) : i <= j

\* The scan of aggregate keeps a candidate unless a later slot has a sequence
\* at least as large: the largest sequence wins, and the last slot among equals.
NewestSlot(w, id) ==
  CHOOSE i \in SlotsOf(w, id) : \A j \in SlotsOf(w, id) :
    LET si == w.observations[i].seq
        sj == w.observations[j].seq
    IN  sj < si \/ (sj = si /\ j <= i)

Aggregate(w) ==
  [id \in TupleIds |-> IF SlotsOf(w, id) = {} THEN NoEvidence
                       ELSE w.observations[NewestSlot(w, id)]]

\* Classify answers only when all three frames are present.
Projection(w) ==
  IF \A id \in TupleIds : Aggregate(w)[id] # NoEvidence THEN Aggregate(w) ELSE NoProjection
-----------------------------------------------------------------------------
(* The table.                                                              *)

\* What the loop of windowFor may pick: Go visits a map in any order, so
\* any window of minimal lastAccess can be the one it ends with.
Oldest(windows) ==
  {v \in DOMAIN windows :
     \A i \in DOMAIN windows : windows[v].lastAccess <= windows[i].lastAccess}

\* windowFor: an unknown interface evicts the oldest one of a full table.
MakeRoom(windows, iface) ==
  IF iface \in DOMAIN windows \/ Cardinality(DOMAIN windows) # MaximumInterfaces
  THEN {windows}
  ELSE {[i \in DOMAIN windows \ {v} |-> windows[i]] : v \in Oldest(windows)}

WindowFor(windows, iface) ==
  IF iface \in DOMAIN windows THEN windows[iface] ELSE EmptyWindow

\* Slip: a malformed listed frame is recorded without resetting the window.
Observed_NoReset(w, e, clock) ==
  [Appended(w, e) EXCEPT !.lastAccess = clock]

\* Slip: the access time is the clock before it advanced.
Observed_StaleStamp(w, e, clock) ==
  LET kept == IF Malformed(e.frame) THEN EmptyWindow ELSE w
  IN  [Appended(kept, e) EXCEPT !.lastAccess = clock - 1]

\* Slip: the access time is not refreshed.
Observed_NoTouch(w, e, clock) ==
  LET kept == IF Malformed(e.frame) THEN EmptyWindow ELSE w
  IN  [Appended(kept, e) EXCEPT !.lastAccess = IF kept.lastAccess = 0 THEN clock ELSE @]

\* The window of an interface after one observation on it at time clock.
Observed(w, e, clock) ==
  LET kept == IF Malformed(e.frame) THEN EmptyWindow ELSE w
  IN  [Appended(kept, e) EXCEPT !.lastAccess = clock]

\* The tables one Classify call on a valid interface can leave behind.
Classified(windows, e, clock) ==
  {[i \in DOMAIN room \cup {e.iface} |->
      IF i = e.iface THEN Observed(WindowFor(windows, e.iface), e, clock) ELSE room[i]] :
   room \in MakeRoom(windows, e.iface)}
=============================================================================
