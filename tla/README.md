# TLA+ verification of helianthus-canbusreg

`helianthus-canbusreg` is a Go library that classifies received CAN frames. It
never sends. Profiles turn observations (`Evidence`) into projections, a
registry asks several profiles and answers only if exactly one claims the
observation, replays bind one profile to one interface, and a provider drives a
replay from a source that callers start, replace and stop while others read
snapshots.

This directory models every component of it: the Growatt V1.04 profile, its replay
and the concurrent `O08GrowattProvider`, the registry with several profiles and
several callers, the decoding of Growatt payloads by its two readers, and the Gree
VRF candidate, map decoder, replay and command encoders. TLC checks the models on
small instances. TLAPS proves, for every value of the constants, the safety of the
Growatt profile, of the provider and of the registry, that profile and provider
implement their contracts, what the Gree map keeps under every traffic and that the
Gree replay reads the same bytes twice, and that payloads and commands are read back
as they were meant. Section 5 says what is proved and what is only model-checked.

## 1. Inventory

| Component | State | Operations | Interacts with |
|---|---|---|---|
| Evidence (`registry.go`) | none, a value | `NewEvidence` | built from `canbus.Observation`, passed by value everywhere |
| Registry (`registry.go`) | list of profiles, no lock | `NewRegistry`, `Classify` | calls each profile in order; returns at the second match |
| V1.04 profile (`growatt_v104.go`) | mutex, clock, a ring of 16 observations for each of at most 4 interfaces | `Classify` | a `Profile`; callers may be concurrent |
| V1.04 replay (`growatt_v104_replay.go`) | selected interface, a registry with one profile | constructor, `Apply` | owned by the provider, replaced on every start |
| O08 provider (`o08_growatt_provider.go`) | two mutexes, replay, sequence fence, running flag, cancel function and done channel, snapshot | `O08Start`, `O08Stop`, `O08Snapshot`, the receiver goroutine | calls the source, feeds the replay |
| Receive source (external) | unknown | `O08Receive(ctx)` | called by the receiver; must return once cancelled |
| Common projector (`growatt_common_projection.go`) | selected interface only | `Apply` | none; deliberately not a `Profile` |
| Gree candidate (`gree_vrf_candidate.go`) | none | `Classify` | a `Profile`; used by the Gree replay |
| Gree map decoder (`gree_vrf_map*.go`) | caller-owned state: cells, 100 slot flags, two latches | `Apply` | tables of rows with transforms that couple cells |
| Gree replay (`gree_vrf_replay.go`) | interface, map, product | `Apply` | candidate, then map decoder |
| Gree commands (`gree_vrf_command*.go`) | none | two encoders | none |
| `helianthus-canbus` (external) | none | frames, identifiers, identities | read by all profiles |

What is hard:

* **Concurrency** is all in the provider. `o08Lifecycle` is held across a whole
  start or stop, including the wait for the receiver; `o08Mu` is held in short
  sections, and data read in one section (`o08Cancel`, `o08Done`, the validity
  of a generation) is used after it. The source is called with no lock held.
* **Late results**: a receiver may hold an observation, or an error, when its
  source is fenced, cancelled or replaced.
* **Unreliable input**: sources repeat, reorder and mislabel; sequences restart.
* **Bounded memory**: a ring that wraps and is emptied in the middle of a lap; a
  table with eviction whose scan order is that of a Go map.
* **Long sequences**: the provider's status and the Gree map's latches depend on
  events far back.

What makes each component correct:

* *Registry*: answers only when exactly one profile claims; what a profile has seen
  is known in every interleaving, and depends on other profiles only where two claims
  collided before it.
* *Profile*: a projection is built from valid frames of one interface, no older
  than the ring allows, none from before a malformed frame or an eviction; the
  newest by sequence of each kind; memory bounded; eviction deterministic.
* *Provider*: one receiver at a time; stop means stopped; nothing published after
  the fence; evidence and labels agree; history moves forward; the status tells
  the truth about source and replay; calls return; loss is reported; readers of
  snapshots see a history that observations extend one at a time.
* *Common projector*: agrees with V1.04 on the fields they share, and shows nothing of
  the bits that each revision defines for itself.
* *Gree candidate*: publishes a cell only if the frame covers it, pairs whole.
* *Gree map*: all or nothing per frame; the caller's state is never aliased;
  latches and coupled cells stay related.
* *Gree replay*: candidate and map read the same bytes through different tables and
  must agree; state depends on the selected interface alone.
* *Gree commands*: a receiver recovers the request from the frame; fields of the
  identifier do not overlap, no value is cut short.

`PROJECT.json` lists the same under `components`, and under `hazards` every
place where this code could go wrong in a way a test would hardly reach.

## 2. Modules

| Module | Models |
|---|---|
| `GrowattFrames` | frames and evidence as admission tells them apart |
| `GrowattWindows` | the ring, the newest-by-sequence scan, the table with eviction: operators only |
| `GrowattV104` | the profile: `Classify` on any interface, in any order |
| `RecentTuples` | the contract of the profile: no ring, no clock, no access times |
| `GrowattProvider` | the provider, its replay, its callers, receivers and sources |
| `GreeMapRows` | the two row tables of the Gree map, complete and in order |
| `GreeMap` | the Gree map decoder: `Apply` on any frame, in any order |
| `ProviderHistory` | the contract of the provider: no threads, no locks, no replay, no source |
| `EvidenceRegistry` | `Registry.Classify` over V1.04 profiles, Gree candidates and nil, with concurrent callers |
| `GrowattFields` | the payload of the tuple frames as V1.04 and the common projector decode it |
| `GreeCandidate` | the gate and the updates of the candidate profile: operators only |
| `GreeReplay` | the Gree replay: the candidate in front of `GreeMap` |
| `GreeCommand` | the two command encoders and their table |
| `MC...` | the frames, bytes and model values of the instances |
| `..._proofs` | theorems and proofs: `GrowattWindows`, `GrowattV104`, `GrowattProvider` (with `ProviderHistory`), `EvidenceRegistry`, `GrowattFields`, `GreeMap`, `GreeReplay`, `GreeCommand` |

`GrowattWindows` extends `GrowattFrames`; `GrowattV104`, `GrowattProvider` and
`EvidenceRegistry` are built from `GrowattWindows`, the first with several
interfaces and no owner, the second with one interface behind the replay, the third
with a table for each registered profile. `GreeReplay` composes `GreeCandidate` and
`GreeMap`. `GrowattV104` instantiates `RecentTuples` with a refinement mapping,
`GrowattProvider` instantiates `ProviderHistory` with its own snapshot.

Operators named `<Definition>_<Slip>` are mutants: each changes the definition
after it the way a plausible bug would, and exists to show that a property
notices. They are no part of any specification.

### Frames and evidence

A frame keeps what `growattV104ListedFrame`, `growattV104Geometry` and
`growattV104Valid` look at: one of the three identifiers of a tuple, another
listed identifier (0x314 to 0x321) or an unlisted one; whether the geometry is
that of a V1.04 frame; whether the bytes with a declared range (pack and cell
count of 0x312, SOC of 0x313) are inside it. Payload bytes, raw record and
monotonic timestamp are carried along by the code and never branched on; in the
model they are one `mark`. `GrowattV104` uses the mark for the arrival number on
the interface and `GrowattProvider` for the generation of the source that
acquired the observation, so that properties can say where evidence came from.
The marks are never read by an action of the program.

### GrowattV104

`windows` and `clock` are the fields of the profile, `answer` the latest
observation with its classification. The mutex covers `Classify`, so each call
is one step: the refusal of an unnamed interface before the lock
(`ClassifyRefused`), otherwise tick, find or make a window, reset it on a
malformed listed frame, append, stamp, store, answer (`ClassifyObserved`).
Eviction is nondeterministic over all windows of least access time, because Go
visits a map in any order; that the choice is in fact unique is a property.
`arrivals` and `since` are history variables.

The scan in `aggregate` is modelled by what it ends with: the largest sequence
among held valid frames of a kind, and the last slot among equals.

### GrowattProvider

A call goes through the points where another goroutine can come between:

| Phase of a caller | Code |
|---|---|
| `lock` | waits for `o08Lifecycle` (line 66 or 92) |
| `check` | validity of the start, under `o08Mu` (68-73) |
| `fence` | `o08Running = false`, `stopped`, handles copied (98-102) |
| `cancel`, `join` | `o08Cancel()`, `<-o08Done` (104, 105) |
| `install` | fresh replay, context, channel, fence, generation (75-84) |
| `spawn` | `go o08Receive` (85) |
| `return` | deferred unlock |

| Phase of a receiver | Code |
|---|---|
| `receiving` | inside `O08Receive(ctx)`, or about to call it (112) |
| `delivered`, `failed` | returned, waiting for `o08Mu` (113) |
| `applied` | unlocked, before `ctx.Err()` (124) |
| `exiting` | returning, before the deferred `close(o08Done)` |
| `closed` | done channel closed |

Each section of `o08Mu` is one action: nothing in it blocks, and everything it
touches is touched only under `o08Mu`. `O08Snapshot` copies the guarded state in
one such section, so a snapshot is the model's state between two actions; the
pointed-to projection is copied too, which a model of values has by nature.

Each started source is known by its generation. `o08Cancel`/`o08Done` are
modelled by the generation they belong to (`handle`), a cancelled context by
`cancelled[g]`, a closed channel by `receiver[g] = "closed"`. The observations a
source returns claim any generation, any interface, any sequence and any frame.

`ProviderHistory` is what a reader of `O08Snapshot` may rely on. Its variables are
those of the snapshot, its actions `Begin`, `Stop`, `Lose` and `Observe`. An
observation either leaves the tuple alone or takes its own place in a new one, made
of valid frames of the live source, none later than the observation and none older
than the frame of that kind the same generation has shown before.

### EvidenceRegistry

One loop of `Registry.Classify` per caller: `at[c]` is the index of the profile it
asks next, `call[c]` the evidence and the match so far. Asking one profile is one
step, because a V1.04 profile locks itself for that long and nothing else is locked;
other callers come between. A second claim ends the call with no answer, and the
profiles after it are not asked. A V1.04 profile observes whatever it is asked about
on a named interface and claims as long as it holds a tuple; the Gree candidate is
stateless; nil entries are skipped. `claims`, `calls` and `missed` are history
variables.

Two consequences of the code that the properties state. A V1.04 profile that holds a
tuple claims every observation of its interface, a Gree frame included, so that BMS
traffic silences the Gree candidate there (`GreeIsHeardAlone`). And a profile
registered after two that collide misses the observation, so that two profiles of
one kind may differ from then on, by exactly what they have missed (`TwinsAgree`).

### GrowattFields

Both readers decode one frame at a time: `NativeFields` is the decoding of
`aggregate`, `CommonFields` that of the projector. The variables hold the latest two
observations and what each reader made of them, so that properties can compare
readers and payloads. The projector has no ranges: of a frame that V1.04 refuses for
its pack count or SOC it shows the shared fields nevertheless.

### GreeMapRows and GreeMap

The Go tables have one line per row. `GreeMapRows` writes the same rows, in the
same order, as runs of one shape: neighbouring bytes that go to neighbouring cells,
lists of coordinates that go to flags or to the bits of a cell. A row's index, which
only names it in the list of matches, is its place in the table.

`state` is `GreeVRFMapState`: a missing cell is a missing key, as in the Go map, and
reads zero. A decoder, with its profile, product and the traffic on its bus, is
chosen in the initial state and never changes. `Apply` is one step, because the Go
function works on a clone and nobody else sees it at work: structural gates
(`Accepts`), reset of the error latch by a frame that starts at 0x3d00 (`Restarted`),
matching rows in table order, each written and then transformed (`ApplyEntry`), and the
product cleanup (`Cleaned`). A refused frame leaves the state alone; the code notices
an unaligned word row in the middle of its loop and returns the state it was given,
which is the same as refusing first. The fold over the rows is a recursive
function. Arithmetic on bits is division and remainder by powers of two.

### GreeCandidate and GreeReplay

`Admits` is every gate of the candidate's `Classify`; `UpdatesOf` the cells a frame
publishes: runs of coordinates that are published whole or not at all. The opaque
identifier field is copied and left out. `GreeReplay` puts the candidate in front of
`GreeMap!Apply` and keeps, as history, the latest byte of each coordinate.

Three things this composition shows. Of the map only rows of opcode 0x10 are within
reach of the candidate, so that no latch, slot flag or coupling ever changes through
the replay. A frame that covers only coordinates 2 to 4 is dropped, although the map
has rows for them: the candidate publishes nothing for it. And the bound on a frame's
span (`gree_vrf_candidate.go:162`) refuses no frame that would publish anything:
all published coordinates are far enough below 0xff.

### GreeCommand

A caller asks for one command, chosen in the initial state. The identifier is built
by multiplication and addition where the code shifts and masks, which is the same as
long as fields do not overlap; that the register's high byte leaves the unit alone is a
lemma. Reserved rows and rows of unsupported width are those missing from
`CommandRows`.

## 3. Runs

| Run | Question | Instance | Distinct states |
|---|---|---|---|
| `v104_window` | does the ring remember the right observations and answer with the right ones? | 1 interface, ring of 4, sequences 0..1, 7 observations of 6 frames | 46,391 |
| `v104_interfaces` | does the table evict the right interface, and does the profile keep its contract meanwhile? | 3 interfaces and an unnamed one, 2 windows, ring of 3, 5 observations | 200,885 |
| `provider_lifecycle` | do starts, stops, failures and late answers interleave safely, and do calls return? | 2 callers, 3 generations, one frame | 88,160 |
| `provider_evidence` | whose evidence is published, under which label, over restarts? | 1 caller, 2 generations, 2 interfaces, sequences 0..2, ring of 3 | 1,029,752 |
| `provider_replay` | do status and tuple follow the replay? | 1 source, sequences 0..4, ring of 4 | 593,167 |
| `gree_map` | do rows, latches and couplings agree over sequences of frames? | 2 profiles, cleanup or not, 10 traffics, 3 slots | 12,532 |
| `registry_sequential` | who is answered, and what have twins in common? | V1.04, Gree, nil, V1.04; 1 caller, 3 interfaces, ring of 4, 1 window, 6 calls | 1,789,106 |
| `registry_concurrent` | do calls that interleave between profiles fail closed and lose nothing? | Gree, V1.04, V1.04; 2 callers, ring of 3, 4 calls | 1,436,271 |
| `gree_replay` | do candidate and map read the same bytes? | 2 profiles, 3 decoders, frames around every published coordinate, 3 slots | 13,565 |
| `growatt_fields` | do the two readers agree, and is a bit lost or leaked? | pairs of payloads at the edges of bytes | 37,831 |
| `gree_command` | does a receiver read what was asked for? | every property and one past the table, edges of seeds, units, values; every byte of a time | 26,910 |
| `provider_awaiting` | does *awaiting* mean what the README of the library says? | as `provider_replay`, sequences 0..3: four observations in a ring of four, so that only a malformed one can take the tuple away | violation |

Bounds, and why they are enough:

* `WindowSize` 3 or 4 instead of 16. Three slots is the least that can hold a
  tuple; four leaves room for one more frame, so that a tuple can survive an
  unlisted frame and then be pushed out. Seven observations wrap a ring of four
  almost twice, or once after a reset in the middle of a lap. The proofs are for
  every size.
* `MaximumInterfaces` 2 instead of 4, with three interfaces: every order of
  access and every eviction, re-entry after eviction included.
* `MaxSequence` 1 gives older, equal and newer; the provider refuses what is not
  newer, so that it takes `MaxSequence + 1` admitted observations, five in
  `provider_replay`: a tuple, its loss to a malformed frame or to the ring, and
  part of the next. Its ring of 4 holds a tuple and a newer frame of one of its
  kinds at once, so that the tuple shown next could fall back if the scan or the
  ring were wrong.
* `MaxClock` bounds the number of observations of a run; the runs of
  `GrowattV104` end there (`v104_window` has no other step left, hence its
  `CHECK_DEADLOCK FALSE`). The provider runs have no such bound: callers may
  always call again.
* `MaxGeneration` 3 gives a predecessor, a current source and a successor, and
  starts with used-up generations. Two callers are enough to contend for
  `o08Lifecycle`; a third only waits with the second.
* `registry_sequential` has room for a tuple (3 calls), its collision with a Gree frame
  or a twin, and the calls after it. `MaximumInterfaces` 1 makes a second interface
  evict the first. `registry_concurrent` needs one step of one caller between any two
  of the other; four calls are two of each, or three of one.
* The Gree tables are checked whole, not cut. A traffic is a set of frames whose rows
  can interact: they share cells, latches or coupled cells. Frames of different
  traffics seldom meet in a cell; mixing them all would mostly multiply states.
  Modes and errors take every value a transform tells apart; other rows see bytes of
  all zeros, all ones and every other bit, and windows of one to seven bytes that
  start even and odd. `SlotCount` 3 for 100 flags which one loop writes.
* `gree_replay` sweeps starts and lengths around every coordinate the candidate
  publishes and around the end of the span, with bytes that all differ, and adds the
  frame that reaches every row, refused for one reason at a time.
* `growatt_fields` takes the bytes 0, 1, 100, 101, 127, 128, 254, 255 at every place:
  around the sign of a word, the ends of both ranges, and the high bit of the health
  byte. `gree_command` stays below 2^31, the integers of TLC, where the code has
  32 bits of seed. For both, the proofs are for every value.

What they show: all properties below hold, with one exception.

**Finding.** The library's README says that `awaiting` means a complete tuple has
not been accepted by the current replay (`src/README.md:35`). `o08Apply` also
returns to `awaiting` when the replay answers nothing *after* it has accepted a
tuple (`o08_growatt_provider.go:151`), for instance after a malformed frame. The
test `TestO08MalformedPartialRetainsHistory` expects that. What the status does
mean is `ReceivingIsHeld`: `receiving` if and only if the running replay holds
the published tuple now.

## 4. Properties

Profile (`GrowattV104`):

* `RingsInStep`: held slots are the latest observations of their own interface,
  in ring order, without gaps, none from before the event that emptied the window.
* `TupleIsFresh`: a projection never mixes interfaces, never reaches over a
  malformed frame or an eviction, never uses what the ring has pushed out.
* `RecencyDistinct`: held windows have different, positive access times, so the
  scan over a Go map has one outcome.
* `ImplementsContract`: the profile implements `RecentTuples`. The mapping sorts
  the windows by access time (`Rank`) and unrolls each ring into a log in order of
  arrival (`LogSlot`); in the contract an interface that speaks comes to the front.

Provider (`GrowattProvider`), safety:

* `SingleReceiver`, `StoppedIsQuiescent`, `LiveIsServed`: how receivers, contexts,
  channel and status relate in every interleaving.
* `EvidenceFromOneSource`: evidence and label agree; no tuple spans a restart.
* `ReceivingIsHeld`: status against replay.
* `FenceIsOwn`: what the sequence fence lets pass can be told from the snapshot. An
  observation of the live source is refused if and only if its generation has
  published the same or a newer sequence, so that a fence left over from a predecessor
  and one that takes a first sequence of zero for old are both errors (one slip each).
* `HistoryMonotone`, `StoppedIsFrozen`, `CancellationIsNoLoss`, `ClosedForGood`:
  what no step may do to history, status and generations.

* `ImplementsHistory`: the provider implements `ProviderHistory`. Checked with one source
  and with restarts: a ring that forgot in the wrong order, or a restart that kept the
  old replay, would show readers a tuple that falls back.

Registry (`EvidenceRegistry`):

* `AnswerIsSoleClaim`: fail closed, in every interleaving.
* `EveryProfileHears`: a profile's clock counts the calls that got to it, once each.
* `TwinsAgree`: profiles that missed the same calls hold the same windows. This is for
  calls one after the other: concurrent calls may overtake each other between two
  profiles, which then hear different orders, and the code promises nothing about that.
* `GreeIsHeardAlone`: who silences whom.

Payloads (`GrowattFields`):

* `SharedFieldsAgree`: the two readers agree on every field they share, and V1.04 adds
  only its local ones.
* `FieldsTellBytesApart`: V1.04 loses no byte; the projector shows exactly the bits all
  revisions agree on.

Gree candidate, replay and commands:

* `UpdatesMatchCoverage`: what is published is what the byte that speaks for a
  coordinate says, pairs whole, and nothing that could be published is refused. The
  property counts from bytes to coordinates, the code from coordinates to bytes.
* `TwoViewsAgree`: candidate and map show the same value for a coordinate both know.
* `StateIsCopied`: each map cell is the latest byte heard on the selected interface;
  latches, flags and couplings are out of reach.
* `ReceiverReadsRequest`: a receiver recovers unit, class, register and value, or the
  time, from the frame alone.

Gree map (`GreeMap`):

* `PlainRowsSurvive`: rows share cells and transforms reach into other rows' cells, but
  no untransformed row of a frame is undone by a later row of the same frame, unless the
  cleanup takes what it wrote (`CleansRow`: two cells, and one bit of cell 0x42, of which
  the other bits must survive). One row of M115 has such a cell, 0x4013 with cell 0x11
  (`gree_vrf_map_data.go:161`, `gree_vrf_map.go:99`): with a product that is cleaned up
  nothing ever shows what it reads.
* `RepeatIsHarmless`: applying a frame a second time changes nothing. The one exception
  is run mode 6 of M115, which sets the coupled cell that turns its own repetition
  into mode 5.
* `ErrorBitIsDisjunction`: nine rows overwrite one bit; the latch makes the result
  their disjunction. This is about frames that start at 0x3d00. A frame that starts
  later still finds the latch of an earlier one; the code says nothing of how long an
  error may last across frames, and no property does.
* `CoupledModeIsForced`: the mode is 6 as long as the coupled cell is set, whichever
  opcode spoke last.
* `ModeLatchIsShown`: hidden latch and cell 0x0e agree.
* `RemapsAreTotal`: no remapped cell shows a value from inside its range.
* `CleanupIsLocal`: a product with cleanup and one without, under the same traffic, differ
  in the cells the cleanup owns and, because one of them forces the mode, in the mode
  cell, and there only until a frame brings a mode that nothing forces. The history
  variable `uncleaned` is the state of the second product.
* `SlotsMoveTogether`: flags are equal, and the guard on the cell nineteen above
  (`gree_vrf_map.go:215`) is dead for both tables: no row writes that cell. A caller
  that starts from a state of its own could bring it to life.

Liveness, under the fairness of `FairSpec`:

* `CallsReturn`: every start and stop returns.
* `LossIsReported`: a failed source does not stay reported as live.

Fairness, and why the code justifies it: goroutines that can run do run (weak
fairness of the steps of callers and receivers). `sync.Mutex` hands itself to a
waiter that has starved for a millisecond, so a caller that waits for
`o08Lifecycle` gets it although others keep taking it (strong fairness of
`LockLifecycle`). A source owes an answer once its context is cancelled, as the
interface's comment and the README demand; that answer may be an observation.
Nothing else is assumed: nobody has to call, no source has to return on its own.
A source that ignores cancellation, or that calls `O08Stop` from inside
`O08Receive`, blocks the provider; the library's README says so of the first.

## 5. Proofs

All theorems hold for every set of interfaces and callers, every ring and table
size at least 1, every bound on generations, sequences and calls, every set of
frames and every list of profiles. Assumptions: `InterfaceAssumption`,
`WindowAssumption`, `V104Assumption`, `ProviderAssumption`, `RegistryAssumption`,
`FieldsAssumption`, `MapAssumption`, `CommandAssumption`, each of which only says that a constant has its
kind and that model values are distinct; `RegistryAssumption` adds that the set of
callers is finite and that the frames of the Gree candidate are no V1.04 frames. TLC
evaluates them, and `ReplayAssumption`, on every run.

**Windows.** `Filled(w, S)` says that a window is well formed and holds evidence of
`S` in its held slots. `AppendedFilled` and `ObservedFilled` show that an
observation of `S` keeps it; `ProjectionHeld` that a projection is none or made of
held evidence of the right kind; `ClassifiedParts` what the table looks like after
a call, whichever window was evicted. That the scan's choice exists
(`NewestSlotNewest`) needs a greatest element of a finite set of slots.

**Profile.** The inductive invariant `IInv` is `TypeOK`, `RingsInStep`,
`RecencyDistinct` and `TupleIsFresh`, strengthened by well-formed windows.
`RecencyDistinct` follows because the clock grows with every stamp. `RingsInStep`
is what `TupleIsFresh` needs and is inductive: the arithmetic of `Age` under wrap
is the heart of the proof (`ObservedInStep`).

**Provider.** The properties are far from inductive alone. `IInv` adds:

* `LockHeld`: the lock is held by exactly the caller past `lock`;
* `CallInOrder`: what a call knows at each phase, in particular that a start's
  generation is still above the latest one, that `done` is still the current
  handle, and that no receiver is active at `install`;
* `SourcesInOrder`: sources above the latest generation are untouched, those below
  it inactive;
* `StatusInOrder`: running, status, receivers and the call under way;
* `FenceFollowsRaw`: the fence is the sequence of the raw evidence of the current
  generation, or the generation has none yet (`FenceIsOwn` follows);
* `ReplayInOrder`, `PendingInOrder`, `LabelsInOrder`: all evidence in the replay and
  in flight was acquired by the source it is filed under.

One lemma per conjunct shows that every action preserves it; the action properties
follow from `IInv` in the same way. `StopJoins` is `StatusInOrder` with `LockHeld`:
if nobody holds the lock no caller is cancelling or joining.

**Provider and history.** `ProviderImplementsHistory` shows that every step of the
provider is a step of `ProviderHistory` or invisible to readers. What the contract
says of tuples is not about one step: that a tuple never falls back to older evidence
of a kind needs the order of sequences in the ring. `HInv` adds to `IInv`:

* `HeardInOrder`: what the replay holds was admitted from the current source and
  rises along the ring (`Rises`), since the sequence fence admits nothing older. So
  the slot overwritten next always holds the lowest sequence (`OverwritesLowest`);
* `ShownInOrder`: of each kind the ring holds either nothing or something at least as
  new as the tuple last shown (`HoldsSince`). An observation keeps this because the
  lowest sequence goes first (`ObservedHoldsSince`), a malformed frame because it
  empties the ring.

`ProjectionCompletes` then gives the tuple that a new observation publishes.

**Profile and contract.** `ContractImplemented` shows that every observation is a step
of `RecentTuples`. It has two halves. Access times are distinct, so that `Rank` numbers
the windows without gaps (`RankOnto`), the window that is evicted has the last number
(`OldestIsLast`), and after a stamp the ranks shift as `Fronted` says (`RankAfter`,
`OrderAfter`). And an observation, which overwrites a slot and moves `next`, appends to
the log and drops its head once the ring is full (`LogAppended`, `LogObserved`); what the
scan ends with is an answer of that log (`ProjectionAnswers`).

**Registry.** `FailsClosed` rests on `LoopInv`: within a call the match is the one claim
so far, made by a profile already asked. `ProfilesHear` counts: each step moves one call
between the four ways to count it (begun, not there yet, heard, missed), which is an
argument about the cardinality of the set of callers that have not reached a profile.
Neither depends on what a profile holds.

`TwinsRemember` does, for one caller: `TwinInv` says that profiles which missed the same calls hold the
same memory, except that while a call is between the two the first is one question
ahead of the second (`Twins`). That the second then catches up needs the outcome of an
observation to be unique although the eviction is written as a choice: the windows are
stamped with distinct times (`ClassifiedUnique`). `GreeAlone` has a hypothesis, that
exactly one of the profiles is a Gree candidate; two of them would silence each other.
Its invariant `GreeInv` follows one call: who was asked has claimed if it would claim now.

**Gree map.** One frame is a fold over the rows of a table. `RowsInOrder` unrolls the
recursive function into the list of states between rows, and `PlaceInduction`, from the
least element of a set of naturals, carries a fact along that list; both are facts about
one function and one set, where the induction theorems of the library would need an
operator. What the proofs know of the two tables are lemmas over their runs of rows
(`M94RowsAre`, `M115RowsAre`): where untransformed rows stand, which transforms have one
row only, and which cells a row and its transform may write.

* `MapInv` is `TypeOK` with `Good94` and `Good115`, which are `ModeLatchIsShown`,
  `RemapsAreTotal`, `CoupledModeIsForced` and the two unwritten cells. Every row but the
  one with the transform in question is `Local` to cells without a promise.
* `ErrorIsDisjunction`: up to the finalizing row the latch is the disjunction of the parts
  read (`LatchGathers`), after it no row touches bit 0 of cell 0x53.
* `CleanupLocal` compares two folds over the same rows from two states (`Near`): no row
  carries a difference out of the cells of the cleanup, but for the forced mode.
* `PlainSurvives` needs every pair of rows of an opcode: two untransformed rows with
  one destination read one source, so that the later writes what the earlier did, and
  transforms write elsewhere or, in cell 0x53, another bit. It assumes nothing of the
  state before the frame.
* `RepeatHarmless` says for each row what it wants of a state (`Wants`): that its cell, and
  what its transform couples to it, is as the row would leave it. Applied, a row gets what
  it wants, and with that it rests (`RowRests`); the exception of run mode 6 is in that
  lemma. No other row of the frame takes it away (`WantsKept`), and neither does the
  cleanup (`WantsCleaned`), so that all rows rest in the second pass (`RestsAgain`). The
  nine parts of the error cannot rest one by one, since each overwrites the bit that all
  share; for their opcode two passes are compared, equal up to latch and bit throughout
  (`SpreadLoosely`) and in both at the end (`SpreadTight`). `RestInv` adds to `MapInv` and
  `CleanInv` that the latest frame was applied to a state that was ready for it: where a
  cleanup clears cell 0x06 nothing forced the mode a frame brought.

**Gree replay.** `UpdatesAreCovered` counts coordinates against bytes for every length and
start. `Copies` shows that all rows within reach of the candidate copy one byte, so that
latches and couplings stay as they were; `ViewsAgree` follows from the two.

**Payloads and commands.** `FieldsAgree` and `BytesToldApart` are for all bytes; words
determine their two bytes. `RequestsAreReadBack` is for all 2^32 seeds and more: the
fields of an identifier do not overlap (`IdentifierRead`) because every register's high
byte is below 2^7 (`RowsFit`).

**Only model-checked**: `CallsReturn` and `LossIsReported` (liveness under fairness is
out of the prover's reach), and `AwaitingMeansNoTupleYet`, which is false.

## 6. Not modelled, and the plan

Not modelled, and why:

* the panics of a zero `O08GrowattProvider` and of a nil replay or map profile, which
  are documented as not usable and hold no state;
* a Gree map state that a caller did not get from the decoder: the product cleanup
  would remove cells of it, and slot flags could diverge; that state is the caller's;
* a source that ignores cancellation or calls back into the provider, which blocks it
  (see fairness);
* the opaque field of Gree identifiers and the raw record of evidence, which are copied
  and never looked at;
* a V1.04 clock that overflows after 2^64 observations;
* `NewEvidence` and the external library `helianthus-canbus`, except for what profiles
  look at.

What could follow: Gree map states with slot flags and cells of the caller's own, as a
separate instance, to say which of the properties depend on starting from nothing.
