-------------------------- MODULE EvidenceRegistry --------------------------
(***************************************************************************)
(* Registry.Classify asks its profiles one after the other, keeps the only *)
(* claim and gives up at a second one.  The registry has no lock; a V1.04  *)
(* profile locks itself for one question at a time, so that concurrent     *)
(* calls interleave between profiles.  A profile here is a V1.04 profile,  *)
(* the stateless Gree candidate, or nil.                                   *)
(*                                                                         *)
(* claims, calls and missed are history variables, no field of the         *)
(* program.                                                                *)
(***************************************************************************)
EXTENDS GrowattWindows, Sequences

CONSTANTS
  Profiles,      \* the kinds of the registered profiles, in order
  Callers,       \* goroutines that call Classify
  Observations,  \* the evidence they present
  GreeFrames,    \* the frames the Gree candidate claims
  MaxCalls       \* bound on the number of calls

ASSUME RegistryAssumption ==
  /\ Profiles \in Seq({"nil", "v104", "gree"})
  /\ Observations \subseteq Evidence
  /\ GreeFrames \subseteq {f \in Frame : f.id = "unlisted" /\ ~f.geometry}
  /\ MaxCalls \in Nat
  /\ IsFiniteSet(Callers)

Indices == DOMAIN Profiles

VARIABLES
  memory,   \* the windows and the clock of each V1.04 profile
  at,       \* the profile a call asks next, 0 between calls
  call,     \* the evidence of a call and its match, 0 for none
  answer,   \* the latest call of each caller as it returned
  claims,   \* history: the profiles that have claimed in the latest call
  calls,    \* history: calls begun
  missed    \* history: calls in which two profiles before this one claimed

vars == <<memory, at, call, answer, claims, calls, missed>>

Calls == [evidence : Evidence \cup {NoEvidence}, match : {0} \cup Indices]
NoCall == [evidence |-> NoEvidence, match |-> 0]

TypeOK ==
  /\ DOMAIN memory = Indices
  /\ \A i \in Indices : memory[i].clock \in Nat
  /\ at \in [Callers -> 0 .. Len(Profiles) + 1]
  /\ call \in [Callers -> Calls]
  /\ answer \in [Callers -> Calls]
  /\ claims \in [Callers -> SUBSET Indices]
  /\ calls \in Nat
  /\ missed \in [Indices -> Nat]

Init ==
  /\ memory = [i \in Indices |-> [windows |-> EmptyTable, clock |-> 0]]
  /\ at = [c \in Callers |-> 0]
  /\ call = [c \in Callers |-> NoCall]
  /\ answer = [c \in Callers |-> NoCall]
  /\ claims = [c \in Callers |-> {}]
  /\ calls = 0
  /\ missed = [i \in Indices |-> 0]

Classify(c) ==
  /\ at[c] = 0 /\ calls < MaxCalls
  /\ calls' = calls + 1
  /\ at' = [at EXCEPT ![c] = 1]
  /\ \E e \in Observations : call' = [call EXCEPT ![c] = [evidence |-> e, match |-> 0]]
  /\ claims' = [claims EXCEPT ![c] = {}]
  /\ UNCHANGED <<memory, answer, missed>>

\* What asking profile i leaves in its memory: a V1.04 profile observes
\* everything on a named interface, whatever the frame.
Asked(i, e) ==
  IF Profiles[i] = "v104" /\ e.iface \in ValidInterfaces
  THEN {[windows |-> w, clock |-> memory[i].clock + 1] :
          w \in Classified(memory[i].windows, e, memory[i].clock + 1)}
  ELSE {memory[i]}

\* Slip: a V1.04 profile claims its own frames only.
Claims_OwnFrames(i, e, m) ==
  /\ e.iface \in ValidInterfaces
  /\ \/ Profiles[i] = "v104" /\ ListedFrame(e.frame)
        /\ Projection(m.windows[e.iface]) # NoProjection
     \/ Profiles[i] = "gree" /\ e.frame \in GreeFrames

\* A V1.04 profile with memory m claims whenever it holds a tuple, whichever
\* observation of that interface it is asked about.
Claims(i, e, m) ==
  /\ e.iface \in ValidInterfaces
  /\ \/ Profiles[i] = "v104" /\ Projection(m.windows[e.iface]) # NoProjection
     \/ Profiles[i] = "gree" /\ e.frame \in GreeFrames

Ends(c, match) ==
  /\ at' = [at EXCEPT ![c] = 0]
  /\ answer' = [answer EXCEPT ![c] = [call[c] EXCEPT !.match = match]]
  /\ UNCHANGED call

Keeps(c, i) ==
  /\ at' = [at EXCEPT ![c] = i + 1]
  /\ call' = [call EXCEPT ![c].match = i]
  /\ UNCHANGED answer

\* Slip: a later claim replaces an earlier one.
Claimed_Last(c, i) == Keeps(c, i)

\* Slip: the loop ends at the first claim.
Claimed_First(c, i) == Ends(c, i)

\* Profile i claims the observation of c: a second claim ends the call, and the
\* profiles after i are not asked.
Claimed(c, i) == IF call[c].match # 0 THEN Ends(c, 0) ELSE Keeps(c, i)

Asks(c, i) ==
  /\ at[c] = i
  /\ \E m \in Asked(i, call[c].evidence) :
       /\ memory' = [memory EXCEPT ![i] = m]
       /\ IF Claims(i, call[c].evidence, m)
          THEN claims' = [claims EXCEPT ![c] = @ \cup {i}] /\ Claimed(c, i)
          ELSE at' = [at EXCEPT ![c] = i + 1] /\ UNCHANGED <<call, answer, claims>>
  /\ missed' = [j \in Indices |->
       IF claims'[c] # claims[c] /\ claims[c] # {} /\ j > i THEN missed[j] + 1 ELSE missed[j]]
  /\ UNCHANGED calls

Answers(c) ==
  /\ at[c] = Len(Profiles) + 1
  /\ at' = [at EXCEPT ![c] = 0]
  /\ answer' = [answer EXCEPT ![c] = call[c]]
  /\ UNCHANGED <<memory, call, claims, calls, missed>>

Next == \E c \in Callers : Classify(c) \/ Answers(c) \/ \E i \in Indices : Asks(c, i)

Spec == Init /\ [][Next]_vars
-----------------------------------------------------------------------------
(* Properties.                                                             *)

AtRest == \A c \in Callers : at[c] = 0

\* Fail closed: what a call returns is the one claim that was made in it; it
\* returns nothing exactly if none or two were made.
AnswerIsSoleClaim ==
  \A c \in Callers : at[c] = 0 =>
    IF answer[c].match # 0 THEN claims[c] = {answer[c].match}
    ELSE claims[c] = {} \/ Cardinality(claims[c]) = 2

Unreached(i) == {c \in Callers : at[c] \in 1 .. i}

\* Whatever the interleaving, a V1.04 profile has observed every call that got to
\* it, once: it misses an observation only because two profiles before it collided.
EveryProfileHears ==
  (\A e \in Observations : e.iface \in ValidInterfaces) =>
    \A i \in Indices : Profiles[i] = "v104" =>
      memory[i].clock + missed[i] + Cardinality(Unreached(i)) = calls

\* Two V1.04 profiles that have missed the same calls hold the same windows, as
\* long as calls do not overlap.
TwinsAgree ==
  AtRest /\ Cardinality(Callers) = 1 =>
    \A i, j \in Indices :
      Profiles[i] = "v104" /\ Profiles[j] = "v104" /\ missed[i] = missed[j] =>
        memory[i] = memory[j]

\* A Gree observation is answered exactly while no V1.04 profile holds a tuple of
\* its interface: BMS traffic silences the Gree candidate.
GreeIsHeardAlone ==
  \A c \in Callers :
    AtRest /\ Cardinality(Callers) = 1 /\ answer[c].evidence # NoEvidence =>
      LET e == answer[c].evidence
          holding == {i \in Indices : /\ Profiles[i] = "v104"
                                      /\ e.iface \in DOMAIN memory[i].windows
                                      /\ Projection(memory[i].windows[e.iface]) # NoProjection}
      IN  e.frame \in GreeFrames /\ e.iface \in ValidInterfaces =>
            IF holding = {} THEN Profiles[answer[c].match] = "gree"
            ELSE answer[c].match = 0
=============================================================================
