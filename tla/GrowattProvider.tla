--------------------------- MODULE GrowattProvider ---------------------------
(***************************************************************************)
(* O08GrowattProvider: callers start and stop receive sources, one         *)
(* receiver goroutine per started source applies what the source returns,  *)
(* and readers take snapshots.                                             *)
(*                                                                         *)
(* Two mutexes.  o08Lifecycle is held across a whole O08Start or O08Stop,  *)
(* so its holder is a variable.  o08Mu only guards short sections without  *)
(* a blocking call, so each such section is one action; a snapshot is a    *)
(* copy made in one of them, that is, the state between two actions.       *)
(*                                                                         *)
(* Sources are not part of the repository.  Each started source is known   *)
(* by the generation it was started with and marks the evidence it         *)
(* acquires with it; the generation an observation claims, its interface,  *)
(* its sequence and its frame are up to the source.                        *)
(***************************************************************************)
EXTENDS GrowattWindows

CONSTANTS
  Callers,        \* goroutines that call O08Start and O08Stop
  NoCaller,       \* o08Lifecycle is free
  Selected,       \* the interface the provider was constructed with
  MaxGeneration,  \* bound on source generations
  MaxSequence,    \* bound on observation sequences
  Frames          \* the frames sources return

ASSUME ProviderAssumption ==
  /\ NoCaller \notin Callers
  /\ Selected \in ValidInterfaces
  /\ MaxGeneration \in Nat \ {0}
  /\ MaxSequence \in Nat
  /\ Frames \subseteq Frame

Generations == 1 .. MaxGeneration

VARIABLES
  \* o08Lifecycle, and the fields that o08Mu guards
  lifecycle, replay, running, sequence, hasSequence,
  handle,                \* generation that o08Cancel and o08Done belong to, 0 for nil
  \* o08Snapshot; raw = NoEvidence stands for O08HasRaw = false
  status, generation, raw, rawGeneration, projection, projectionGeneration,
  \* frames of the callers
  pc, call,
  \* per started source: its context, its receiver and what it has returned
  cancelled, receiver, pending

guarded == <<replay, running, sequence, hasSequence, handle>>
history == <<raw, rawGeneration, projection, projectionGeneration>>
snapshot == <<status, generation, history>>
sources == <<cancelled, receiver, pending>>
vars == <<lifecycle, guarded, snapshot, pc, call, sources>>

FreshReplay == [windows |-> EmptyTable, clock |-> 0]
NoCall == [op |-> "stop", generation |-> 0, source |-> FALSE, done |-> 0]
NoObservation == [generation |-> 0, evidence |-> NoEvidence]

CallPhases == {"idle", "lock", "check", "fence", "cancel", "join", "install", "spawn", "return"}
ReceiverPhases == {"unborn", "receiving", "delivered", "failed", "applied", "exiting", "closed"}
Observation == [generation : 0 .. MaxGeneration, evidence : Evidence]

TypeOK ==
  /\ lifecycle \in Callers \cup {NoCaller}
  /\ DOMAIN replay.windows \subseteq {Selected}
  /\ replay.windows \in [DOMAIN replay.windows -> Window]
  /\ replay = [windows |-> replay.windows, clock |-> replay.clock]
  /\ replay.clock \in Nat
  /\ running \in BOOLEAN
  /\ sequence \in Nat
  /\ hasSequence \in BOOLEAN
  /\ handle \in 0 .. MaxGeneration
  /\ status \in {"stopped", "awaiting", "receiving", "degraded"}
  /\ generation \in 0 .. MaxGeneration
  /\ raw \in Evidence \cup {NoEvidence}
  /\ rawGeneration \in 0 .. MaxGeneration
  /\ projection \in Projections
  /\ projectionGeneration \in 0 .. MaxGeneration
  /\ pc \in [Callers -> CallPhases]
  /\ call \in [Callers -> [op : {"start", "stop"}, generation : 0 .. MaxGeneration,
                           source : BOOLEAN, done : 0 .. MaxGeneration]]
  /\ cancelled \in [Generations -> BOOLEAN]
  /\ receiver \in [Generations -> ReceiverPhases]
  /\ pending \in [Generations -> Observation \cup {NoObservation}]

Init ==
  /\ lifecycle = NoCaller
  /\ replay = FreshReplay
  /\ running = FALSE
  /\ sequence = 0
  /\ hasSequence = FALSE
  /\ handle = 0
  /\ status = "stopped"
  /\ generation = 0
  /\ raw = NoEvidence
  /\ rawGeneration = 0
  /\ projection = NoProjection
  /\ projectionGeneration = 0
  /\ pc = [c \in Callers |-> "idle"]
  /\ call = [c \in Callers |-> NoCall]
  /\ cancelled = [g \in Generations |-> FALSE]
  /\ receiver = [g \in Generations |-> "unborn"]
  /\ pending = [g \in Generations |-> NoObservation]
-----------------------------------------------------------------------------
(* O08Start and O08Stop.                                                   *)

Goto(c, from, to) == pc[c] = from /\ pc' = [pc EXCEPT ![c] = to]

CallStart(c) ==
  /\ Goto(c, "idle", "lock")
  /\ \E g \in 0 .. MaxGeneration, s \in BOOLEAN :
       call' = [call EXCEPT ![c] = [op |-> "start", generation |-> g, source |-> s, done |-> 0]]
  /\ UNCHANGED <<lifecycle, guarded, snapshot, sources>>

CallStop(c) ==
  /\ Goto(c, "idle", "lock")
  /\ call' = [call EXCEPT ![c] = NoCall]
  /\ UNCHANGED <<lifecycle, guarded, snapshot, sources>>

LockLifecycle(c) ==
  /\ lifecycle = NoCaller
  /\ lifecycle' = c
  /\ Goto(c, "lock", IF call[c].op = "start" THEN "check" ELSE "fence")
  /\ UNCHANGED <<guarded, snapshot, call, sources>>

\* Slip: a start may repeat the latest generation.
InvalidStart_Repeats(c) ==
  \/ ~call[c].source
  \/ call[c].generation = 0
  \/ call[c].generation < generation

\* A start needs a source and a generation above the latest one.
InvalidStart(c) ==
  \/ ~call[c].source
  \/ call[c].generation = 0
  \/ call[c].generation <= generation

CheckStart(c) ==
  /\ Goto(c, "check", IF InvalidStart(c) THEN "return" ELSE "fence")
  /\ UNCHANGED <<lifecycle, guarded, snapshot, call, sources>>

AfterStop(c) == IF call[c].op = "start" THEN "install" ELSE "return"

\* Slip: a restart does not fence a source that already failed.
Fence_OnlyRunning(c) ==
  /\ Goto(c, "fence", IF handle = 0 \/ ~running THEN AfterStop(c) ELSE "cancel")
  /\ running' = FALSE
  /\ status' = "stopped"
  /\ call' = [call EXCEPT ![c].done = handle]
  /\ UNCHANGED <<lifecycle, replay, sequence, hasSequence, handle, generation, history, sources>>

\* Slip: stopping cancels the source but leaves publication open.
Fence_StillRunning(c) ==
  /\ Goto(c, "fence", IF handle = 0 THEN AfterStop(c) ELSE "cancel")
  /\ status' = "stopped"
  /\ call' = [call EXCEPT ![c].done = handle]
  /\ UNCHANGED <<lifecycle, guarded, generation, history, sources>>

\* First section of o08Stop: no publication from here on.  The handles are
\* read under the mutex and used after it.
Fence(c) ==
  /\ Goto(c, "fence", IF handle = 0 THEN AfterStop(c) ELSE "cancel")
  /\ running' = FALSE
  /\ status' = "stopped"
  /\ call' = [call EXCEPT ![c].done = handle]
  /\ UNCHANGED <<lifecycle, replay, sequence, hasSequence, handle, generation, history, sources>>

Cancel(c) ==
  /\ Goto(c, "cancel", "join")
  /\ cancelled' = [cancelled EXCEPT ![call[c].done] = TRUE]
  /\ UNCHANGED <<lifecycle, guarded, snapshot, call, receiver, pending>>

\* Slip: the predecessor is cancelled and not waited for.
Join_NoWait(c) ==
  /\ Goto(c, "join", AfterStop(c))
  /\ UNCHANGED <<lifecycle, guarded, snapshot, call, sources>>

\* <-o08Done: passes once the receiver has closed its channel.
Join(c) ==
  /\ Goto(c, "join", AfterStop(c))
  /\ receiver[call[c].done] = "closed"
  /\ UNCHANGED <<lifecycle, guarded, snapshot, call, sources>>

\* Slip: a restart keeps the replay of the predecessor.
Install_KeepReplay(c) ==
  /\ Goto(c, "install", "spawn")
  /\ handle' = call[c].generation
  /\ running' = TRUE
  /\ sequence' = 0
  /\ hasSequence' = FALSE
  /\ generation' = call[c].generation
  /\ status' = "awaiting"
  /\ UNCHANGED <<lifecycle, replay, history, call, sources>>

\* Slip: a restart keeps the sequence fence of the predecessor.
Install_KeepFence(c) ==
  /\ Goto(c, "install", "spawn")
  /\ replay' = FreshReplay
  /\ handle' = call[c].generation
  /\ running' = TRUE
  /\ generation' = call[c].generation
  /\ status' = "awaiting"
  /\ UNCHANGED <<lifecycle, sequence, hasSequence, history, call, sources>>

\* Second section of O08Start: a fresh replay, context, channel and sequence
\* fence.  The evidence of earlier generations stays in the snapshot.
Install(c) ==
  /\ Goto(c, "install", "spawn")
  /\ replay' = FreshReplay
  /\ handle' = call[c].generation
  /\ running' = TRUE
  /\ sequence' = 0
  /\ hasSequence' = FALSE
  /\ generation' = call[c].generation
  /\ status' = "awaiting"
  /\ UNCHANGED <<lifecycle, history, call, sources>>

Spawn(c) ==
  /\ Goto(c, "spawn", "return")
  /\ receiver' = [receiver EXCEPT ![call[c].generation] = "receiving"]
  /\ UNCHANGED <<lifecycle, guarded, snapshot, call, cancelled, pending>>

\* The deferred unlock.
Return(c) ==
  /\ Goto(c, "return", "idle")
  /\ lifecycle' = NoCaller
  /\ call' = [call EXCEPT ![c] = NoCall]
  /\ UNCHANGED <<guarded, snapshot, sources>>
-----------------------------------------------------------------------------
(* The source: O08Receive returns an observation or an error.              *)

SourceDelivers(g) ==
  /\ receiver[g] = "receiving"
  /\ receiver' = [receiver EXCEPT ![g] = "delivered"]
  /\ \E claimed \in Generations, i \in Interfaces, f \in Frames, s \in 0 .. MaxSequence :
       pending' = [pending EXCEPT ![g] =
         [generation |-> claimed,
          evidence |-> [frame |-> f, iface |-> i, seq |-> s, mark |-> g]]]
  /\ UNCHANGED <<lifecycle, guarded, snapshot, pc, call, cancelled>>

SourceFails(g) ==
  /\ receiver[g] = "receiving"
  /\ receiver' = [receiver EXCEPT ![g] = "failed"]
  /\ UNCHANGED <<lifecycle, guarded, snapshot, pc, call, cancelled, pending>>
-----------------------------------------------------------------------------
(* o08Receive.                                                             *)

\* Slip: an error is reported for whatever source runs now.
ReceiveError_AnySource(g) ==
  /\ receiver[g] = "failed"
  /\ receiver' = [receiver EXCEPT ![g] = "exiting"]
  /\ running' = FALSE
  /\ status' = "degraded"
  /\ UNCHANGED <<lifecycle, replay, sequence, hasSequence, handle, generation, history,
                 pc, call, cancelled, pending>>

\* Slip: the receiver leaves on an error without saying so.
ReceiveError_Silent(g) ==
  /\ receiver[g] = "failed"
  /\ receiver' = [receiver EXCEPT ![g] = "exiting"]
  /\ UNCHANGED <<lifecycle, guarded, snapshot, pc, call, cancelled, pending>>

\* An error ends the receiver; it degrades the provider only if this source
\* is still the one that runs.
ReceiveError(g) ==
  /\ receiver[g] = "failed"
  /\ receiver' = [receiver EXCEPT ![g] = "exiting"]
  /\ IF running /\ generation = g
     THEN running' = FALSE /\ status' = "degraded"
     ELSE UNCHANGED <<running, status>>
  /\ UNCHANGED <<lifecycle, replay, sequence, hasSequence, handle, generation, history,
                 pc, call, cancelled, pending>>

\* Slip: older and repeated sequences pass.
Admissible_AnySequence(o) ==
  /\ running
  /\ o.generation = generation
  /\ o.evidence.iface = Selected

\* Slip: without o08HasSequence a first sequence of zero is refused.
Admissible_NoFlag(o) ==
  /\ running
  /\ o.generation = generation
  /\ o.evidence.iface = Selected
  /\ sequence < o.evidence.seq

\* The early returns of o08Apply.
Admissible(o) ==
  /\ running
  /\ o.generation = generation
  /\ o.evidence.iface = Selected
  /\ ~(hasSequence /\ o.evidence.seq <= sequence)

\* The replay: evidence of the selected interface goes through its profile.
Replayed(r, e) ==
  IF e.iface = Selected
  THEN {[windows |-> w, clock |-> r.clock + 1] : w \in Classified(r.windows, e, r.clock + 1)}
  ELSE {r}

\* Slip: the status stays "receiving" when the replay answers nothing.
Publish_StickyStatus(e) ==
  LET tuple == Projection(replay'.windows[e.iface])
  IN  IF tuple = NoProjection
      THEN UNCHANGED <<status, projection, projectionGeneration>>
      ELSE /\ projection' = tuple
           /\ projectionGeneration' = generation
           /\ status' = "receiving"

\* The replay answers from the window that it has just extended.
Publish(e) ==
  LET tuple == Projection(replay'.windows[e.iface])
  IN  IF tuple = NoProjection
      THEN status' = "awaiting" /\ UNCHANGED <<projection, projectionGeneration>>
      ELSE /\ projection' = tuple
           /\ projectionGeneration' = generation
           /\ status' = "receiving"

Accept(o) ==
  /\ sequence' = o.evidence.seq
  /\ hasSequence' = TRUE
  /\ raw' = o.evidence
  /\ rawGeneration' = o.generation
  /\ replay' \in Replayed(replay, o.evidence)
  /\ Publish(o.evidence)
  /\ UNCHANGED <<running, handle, generation>>

ReceiveObservation(g) ==
  /\ receiver[g] = "delivered"
  /\ receiver' = [receiver EXCEPT ![g] = "applied"]
  /\ pending' = [pending EXCEPT ![g] = NoObservation]
  /\ IF Admissible(pending[g]) THEN Accept(pending[g]) ELSE UNCHANGED <<guarded, snapshot>>
  /\ UNCHANGED <<lifecycle, pc, call, cancelled>>

\* Slip: the receiver relies on the source alone to notice cancellation.
CheckContext_Ignored(g) ==
  /\ receiver[g] = "applied"
  /\ receiver' = [receiver EXCEPT ![g] = "receiving"]
  /\ UNCHANGED <<lifecycle, guarded, snapshot, pc, call, cancelled, pending>>

CheckContext(g) ==
  /\ receiver[g] = "applied"
  /\ receiver' = [receiver EXCEPT ![g] = IF cancelled[g] THEN "exiting" ELSE "receiving"]
  /\ UNCHANGED <<lifecycle, guarded, snapshot, pc, call, cancelled, pending>>

\* The deferred close of o08Done.
CloseDone(g) ==
  /\ receiver[g] = "exiting"
  /\ receiver' = [receiver EXCEPT ![g] = "closed"]
  /\ UNCHANGED <<lifecycle, guarded, snapshot, pc, call, cancelled, pending>>
-----------------------------------------------------------------------------
Calls(c) == CallStart(c) \/ CallStop(c)

CallerStep(c) ==
  \/ CheckStart(c) \/ Fence(c) \/ Cancel(c) \/ Join(c)
  \/ Install(c) \/ Spawn(c) \/ Return(c)

SourceReturns(g) == SourceDelivers(g) \/ SourceFails(g)

ReceiverStep(g) ==
  ReceiveError(g) \/ ReceiveObservation(g) \/ CheckContext(g) \/ CloseDone(g)

Next ==
  \/ \E c \in Callers : Calls(c) \/ LockLifecycle(c) \/ CallerStep(c)
  \/ \E g \in Generations : SourceReturns(g) \/ ReceiverStep(g)

Spec == Init /\ [][Next]_vars

\* Goroutines keep running.  A Go mutex hands itself to a waiter that has
\* starved, hence strong fairness of the lock.  A source owes an answer only
\* once its context is cancelled, and that answer may be an observation.
\* Nobody has to call, and no source has to return on its own.
Fairness ==
  /\ \A c \in Callers : SF_vars(LockLifecycle(c)) /\ WF_vars(CallerStep(c))
  /\ \A g \in Generations :
       WF_vars(ReceiverStep(g)) /\ WF_vars(cancelled[g] /\ SourceReturns(g))

FairSpec == Spec /\ Fairness
-----------------------------------------------------------------------------
(* Safety.                                                                 *)

Active(g) == receiver[g] \notin {"unborn", "closed"}

\* O08Start joins the predecessor before it installs a successor: however the
\* calls interleave, at most one receiver exists, the one o08Done belongs to.
SingleReceiver == \A g \in Generations : Active(g) => g = handle

\* "stopped means no active source" (README): once no call is under way, a
\* stopped provider has no receiver left, not even one that is returning.
StoppedIsQuiescent ==
  lifecycle = NoCaller /\ status = "stopped" => \A g \in Generations : ~Active(g)

\* A provider that reports a live source has one: its context is not cancelled,
\* and its receiver is at work or about to be spawned.
LiveIsServed ==
  status \in {"awaiting", "receiving"} =>
    /\ running
    /\ ~cancelled[generation]
    /\ \/ receiver[generation] \in {"receiving", "delivered", "failed", "applied"}
       \/ \E c \in Callers : pc[c] = "spawn" /\ call[c].generation = generation

\* The raw evidence and the tuple each come from one source, the one of the
\* generation they are labelled with, and from the selected interface: no
\* source publishes under another's generation and no tuple spans a restart.
EvidenceFromOneSource ==
  /\ raw # NoEvidence => raw.mark = rawGeneration /\ raw.iface = Selected
  /\ projection # NoProjection =>
       \A id \in TupleIds : /\ projection[id].mark = projectionGeneration
                            /\ projection[id].iface = Selected

HeldTuple ==
  IF Selected \in DOMAIN replay.windows THEN Projection(replay.windows[Selected])
  ELSE NoProjection

\* "receiving means the replay most recently accepted a tuple" (README): it is
\* shown exactly while the running replay still holds the tuple shown.
ReceivingIsHeld ==
  /\ status = "receiving" <=> running /\ HeldTuple # NoProjection
  /\ status = "receiving" => projection = HeldTuple /\ projectionGeneration = generation

\* The fence is set by an observation of the current generation, the latest one
\* published, and until there is one the replay is a fresh one.
FenceFollowsRaw ==
  IF hasSequence THEN rawGeneration = generation /\ raw.seq = sequence
  ELSE replay = FreshReplay /\ (raw = NoEvidence \/ rawGeneration < generation)

\* What the fence lets pass is known from what readers see: an observation of the live
\* source is refused if and only if its generation has published the same or a newer
\* sequence.  A predecessor's sequences refuse none, and a first sequence may be zero.
FenceIsOwn ==
  /\ FenceFollowsRaw
  /\ \A g \in Generations :
       LET o == pending[g]
           live == /\ running
                   /\ receiver[g] = "delivered"
                   /\ o.generation = generation
                   /\ o.evidence.iface = Selected
       IN  live => (Admissible(o) <=> (rawGeneration = generation => raw.seq < o.evidence.seq))

MovesForward ==
  /\ generation <= generation'
  /\ projectionGeneration <= projectionGeneration'
  /\ projection # NoProjection => projection' # NoProjection
  /\ \/ UNCHANGED <<raw, rawGeneration>>
     \/ rawGeneration < rawGeneration'
     \/ rawGeneration = rawGeneration' /\ raw.seq < raw'.seq

\* Callers race and sources repeat themselves, but what readers see only moves
\* forward: generations rise, raw sequences rise within one, a tuple once
\* accepted is only ever replaced by another.
HistoryMonotone == [][MovesForward]_vars

FencedOff == status \in {"stopped", "degraded"}

\* "O08Stop fences publication before cancellation": from the moment the state
\* reads "stopped" or "degraded" nothing is published, whatever the receiver
\* still has in hand.
StoppedIsFrozen == [][FencedOff => UNCHANGED history]_vars

\* A source that ends because it was cancelled is not reported as lost.
CancellationIsNoLoss == [][status = "stopped" => status' # "degraded"]_vars

\* A generation is used up by its first start: no later receiver runs under it.
ClosedForGood ==
  [][\A g \in Generations : receiver[g] = "closed" => receiver'[g] = "closed"]_vars
-----------------------------------------------------------------------------
(* The contract.                                                           *)

Contract == INSTANCE ProviderHistory

\* Readers of snapshots see a history that one observation of the live source
\* extends at a time: an observation takes its place in the tuple it completes, a
\* tuple never falls back to older evidence of a kind, and a malformed frame never
\* leaves a tuple accepted.  Everything else the provider does is invisible.
ImplementsHistory == Contract!HistorySpec

-----------------------------------------------------------------------------
(* Liveness.                                                               *)

\* Every O08Start and O08Stop returns, even against a source that answers its
\* cancelled context with yet another observation.
CallsReturn == \A c \in Callers : pc[c] = "lock" ~> pc[c] = "idle"

\* A lost source does not stay reported as live.
LossIsReported ==
  \A g \in Generations :
    receiver[g] = "failed" ~> ~(generation = g /\ status \in {"awaiting", "receiving"})

\* README: "awaiting means a complete tuple has not been accepted by the current
\* replay".  The code also returns to awaiting after a tuple was accepted.
AwaitingMeansNoTupleYet == status = "awaiting" => projectionGeneration # generation
=============================================================================
