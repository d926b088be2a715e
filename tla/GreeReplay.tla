----------------------------- MODULE GreeReplay -----------------------------
(***************************************************************************)
(* The Gree VRF qualification replay: an observation of the selected       *)
(* interface goes through the candidate, and if that admits it through the *)
(* map decoder.  A caller threads the state through; it is the state of    *)
(* GreeMap, starting from nothing.                                         *)
(*                                                                         *)
(* heard is a history variable: the latest byte that an accepted frame     *)
(* brought for each coordinate of the map's rows of opcode 0x10.           *)
(***************************************************************************)
EXTENDS GreeMap, GreeCandidate

CONSTANTS
  Selected,      \* the interface the replay was constructed with
  Observations   \* what the bus presents

ASSUME ReplayAssumption ==
  /\ Selected \in ValidInterfaces
  /\ ValidInterfaces \subseteq Interfaces
  /\ Observations \subseteq Observation

VARIABLES
  observed,  \* the latest observation
  updates,   \* the cells the candidate published for it, if it was accepted
  heard

replayVars == <<vars, observed, updates, heard>>

FrameOf(o) == [opcode |-> o.opcode7, data |-> o.data]

NoObservation ==
  [iface |-> Selected, extended |-> FALSE, exact |-> FALSE,
   class8 |-> 0, unit7 |-> 0, opcode7 |-> 0, data |-> <<>>]

\* The replay exists only for a known map.
ReplayInit ==
  /\ Init
  /\ decoder.profile \in DOMAIN Entries
  /\ observed = NoObservation
  /\ updates = {}
  /\ heard = [c \in {} |-> 0]

\* Slip: the frame's own interface is trusted.
Accepted_AnyInterface(o) == Admits(o) /\ Accepts(decoder, FrameOf(o))

Accepted(o) == o.iface = Selected /\ Admits(o) /\ Accepts(decoder, FrameOf(o))

\* The rows of opcode 0x10, and those of their coordinates that the selected
\* interface speaks for in a frame.
Rows10 ==
  {row \in {Entries[decoder.profile][j] : j \in DOMAIN Entries[decoder.profile]} :
     row.opcode = \h10}

Spoken(o) ==
  {row.coordinate : row \in {row \in Rows10 :
     /\ o.iface = Selected
     /\ o.opcode7 = \h10
     /\ row.coordinate - o.data[1] \in 0 .. Len(o.data) - 2}}

ReplayApply(o) ==
  /\ observed' = o
  /\ IF Accepted(o)
     THEN /\ Apply(FrameOf(o))
          /\ updates' = UpdatesOf(o.opcode7, o.data)
          /\ LET spoken == Spoken(o)
             IN  heard' = [c \in spoken \cup DOMAIN heard |->
                           IF c \in spoken THEN o.data[c - o.data[1] + 2] ELSE heard[c]]
     ELSE /\ latest' = [frame |-> FrameOf(o), accepted |-> FALSE]
          /\ updates' = {}
          /\ UNCHANGED <<decoder, state, uncleaned, heard>>

ReplayNext == \E o \in Observations : ReplayApply(o)

ReplaySpec == ReplayInit /\ [][ReplayNext]_replayVars
-----------------------------------------------------------------------------
(* Properties.                                                             *)

\* Byte k of a frame, k > 1, speaks for the coordinates from this one on.
SpeaksFrom(o, k) == o.data[1] + PerByte(o.opcode7) * (k - 2)
Speakers(o, c) ==
  {k \in 2 .. Len(o.data) : c \in SpeaksFrom(o, k) .. SpeaksFrom(o, k) + PerByte(o.opcode7) - 1}
Speaker(o, c) == CHOOSE k \in Speakers(o, c) : TRUE

Said(o, c) ==
  IF PerByte(o.opcode7) = 1 THEN o.data[Speaker(o, c)]
  ELSE BitOf(o.data[Speaker(o, c)], c - SpeaksFrom(o, Speaker(o, c)))

\* What is published for a coordinate is what the byte that speaks for it says; a
\* pair that straddles the start or the end of a frame is not published at all; and
\* what is published whole is never refused, at no start and no length of the bus.
UpdatesMatchCoverage ==
  LET o == observed
      spoken == {run \in RunsOf[o.opcode7] :
                   \A k \in 0 .. run.n - 1 : Speakers(o, run.coordinate + k) # {}}
  IN  o.iface = Selected /\ o.extended /\ o.exact /\ Identified(o) /\ Len(o.data) \in 1 .. 8 =>
        updates = UNION {{[cell |-> run.cell + k, value |-> Said(o, run.coordinate + k)] :
                            k \in 0 .. run.n - 1} : run \in spoken}

\* Candidate and map read the same bytes through two tables with cells of their own.
\* A coordinate that both know has the same value in both.
TwoViewsAgree ==
  \A run \in RunsOf[\h10], k \in 0 .. 1, row \in Rows10, u \in updates :
    (/\ latest.accepted /\ latest.frame.opcode = \h10
     /\ k < run.n /\ u.cell = run.cell + k
     /\ row.coordinate = run.coordinate + k)
      => Cell(state, row.cell) = u.value

\* Only rows of opcode 0x10 are within reach of the candidate: the latches, the slot
\* flags and every coupling of the map stay as they were, each cell shows the latest
\* byte heard for its coordinate, and no byte is heard from another interface.  The
\* coordinates below the pair are heard only together with the pair.
StateIsCopied ==
  LET reachable == {row \in Rows10 : row.coordinate \in DOMAIN heard}
  IN  /\ ~state.errorLatch /\ ~state.modeLatch
      /\ \A k \in 1 .. SlotCount : state.slotFlags[k] = 0
      /\ \A r \in reachable : Cell(state, r.cell) = heard[r.coordinate]
      /\ DOMAIN state.cells \subseteq {r.cell : r \in reachable} \cup {\h06, \h11, \h42, \h44}
      /\ reachable # {} => \h05 \in DOMAIN heard
=============================================================================
