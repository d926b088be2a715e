--------------------------- MODULE ProviderHistory ---------------------------
(***************************************************************************)
(* What a reader of O08Snapshot may rely on, with no threads, no locks, no *)
(* replay and no source: a labelled history that observations extend one   *)
(* at a time while a generation is live, and that starts, stops and losses *)
(* leave alone.                                                            *)
(***************************************************************************)
EXTENDS GrowattFrames

CONSTANTS Selected, MaxGeneration

VARIABLES status, generation, raw, rawGeneration, projection, projectionGeneration

evidence == <<raw, rawGeneration, projection, projectionGeneration>>
historyVars == <<status, generation, evidence>>

Live == status \in {"awaiting", "receiving"}

HistoryInit ==
  /\ status = "stopped"
  /\ generation = 0
  /\ raw = NoEvidence
  /\ rawGeneration = 0
  /\ projection = NoProjection
  /\ projectionGeneration = 0

Begin ==
  /\ status = "stopped"
  /\ status' = "awaiting"
  /\ generation' \in generation + 1 .. MaxGeneration
  /\ UNCHANGED evidence

Stop ==
  /\ status' = "stopped"
  /\ UNCHANGED <<generation, evidence>>

Lose ==
  /\ Live
  /\ status' = "degraded"
  /\ UNCHANGED <<generation, evidence>>

\* Evidence of the source that is live, on the selected interface.
Own(e) == e \in Evidence /\ e.mark = generation /\ e.iface = Selected

\* A tuple after observation e: of valid frames of this source, none of them
\* later than e, with e itself in the place of its kind, and of no kind older
\* than the tuple the same generation has shown before.
Completes(tuple, e) ==
  /\ ~Malformed(e.frame)
  /\ \A id \in TupleIds :
       /\ Own(tuple[id])
       /\ tuple[id].frame.id = id /\ Valid(tuple[id].frame)
       /\ tuple[id].seq <= e.seq
       /\ id = e.frame.id => tuple[id] = e
       /\ projectionGeneration = generation => projection[id].seq <= tuple[id].seq

Observe ==
  /\ Live
  /\ Own(raw')
  /\ rawGeneration = generation => raw.seq < raw'.seq
  /\ rawGeneration' = generation
  /\ \/ /\ status' = "awaiting"
        /\ UNCHANGED <<projection, projectionGeneration>>
     \/ /\ status' = "receiving"
        /\ Completes(projection', raw')
        /\ projectionGeneration' = generation
  /\ UNCHANGED generation

HistoryNext == Begin \/ Stop \/ Lose \/ Observe

HistorySpec == HistoryInit /\ [][HistoryNext]_historyVars
=============================================================================
