---------------------------- MODULE RenderedAudio ----------------------------
(***************************************************************************)
(* Audio that the game renders: PCM callback sources and generator synths. *)
(* Each has native voices with a ring of frames.  A frame's update asks    *)
(* the game's render callbacks to refill the rings, in blocks; the audio   *)
(* thread plays them at any time and never enters Go.  A PCM source has    *)
(* one voice; a generator gets another for each copy that an instrument    *)
(* makes of it, and a note or a parameter discards what a voice has in     *)
(* store.                                                                  *)
(*                                                                         *)
(* A frame of audio is the ordinal it was rendered under.  A callback may  *)
(* create and close sources; whether also the one it renders for is a      *)
(* parameter.                                                              *)
(***************************************************************************)
EXTENDS Naturals, Sequences, FiniteSets, Functions

CONSTANTS
  Sources,       \* Go values, each created at most once
  Generators,    \* those that are generator synths
  Slots,         \* native slots of PCM sources
  Copies,        \* native slots of generators
  RingFrames,          \* BRIDGE_PCM_RING_FRAMES
  Block,         \* callbackAudioBlockFrames
  Frames,        \* bound on the frames rendered
  ClosesItself   \* a callback closes its own source, or makes its voices go

(* Rings hold something, the default of Go's maps is no source, and there  *)
(* is a voice that the update's local variable may name.                   *)
RenderAssumption ==
  /\ RingFrames \in Nat \ {0} /\ Block \in Nat
  /\ "none" \notin Sources
  /\ Slots \cup Copies # {}

VARIABLES
  root,        \* voice -> its source, or Unset: not in use
  read, write, cells, \* voice -> its ring
  loaded,      \* voice -> the place and the frame the audio thread is at, or Idle
  live,        \* pcmCallbackSources and generatorSynthSources
  spent,       \* sources that were closed
  todo,        \* sources the update has yet to refill
  snapshot,    \* source.voices: those it has yet to refill of the source
  at,          \* what the update is at: idle, visit, voice, callback, copy
  source, voice, available, produced, \* its local variables
  rendered,    \* voice -> ordinal of the last frame rendered for it
  played,      \* voice -> the last one that was heard
  faulted      \* native code was given a handle of zero, or nil was called

ring == <<read, write, cells>>
locals == <<todo, snapshot, at, source, voice, available, produced>>
vars == <<root, ring, loaded, live, spent, locals, rendered, played, faulted>>

Voices == Slots \cup Copies

Unset == 0
NoSource == "none"
Idle == <<>>
Empty == [i \in 0 .. RingFrames - 1 |-> Unset]

Init ==
  /\ root = [v \in Voices |-> NoSource]
  /\ read = [v \in Voices |-> 0]
  /\ write = [v \in Voices |-> 0]
  /\ cells = [v \in Voices |-> Empty]
  /\ loaded = [v \in Voices |-> Idle]
  /\ live = {}
  /\ spent = {}
  /\ todo = {}
  /\ snapshot = {}
  /\ at = "idle"
  /\ source = NoSource
  /\ voice = CHOOSE v \in Voices : TRUE
  /\ available = 0
  /\ produced = 0
  /\ rendered = [v \in Voices |-> 0]
  /\ played = [v \in Voices |-> 0]
  /\ faulted = FALSE

Of(s) == {v \in Voices : root[v] = s}
Goes(i) == (i + 1) % RingFrames

AvailableIn(v) == (read[v] + RingFrames - write[v] - 1) % RingFrames
AvailableToLast(v) == (read[v] + RingFrames - write[v]) % RingFrames

-----------------------------------------------------------------------------
(* The game: between frames, in its update, or in a render callback.       *)

GameRuns == at \in {"idle", "callback"}

(* A slot is cleared when it is taken. *)
Allocated(v, s) ==
  /\ root' = [root EXCEPT ![v] = s]
  /\ read' = [read EXCEPT ![v] = 0]
  /\ write' = [write EXCEPT ![v] = 0]
  /\ cells' = [cells EXCEPT ![v] = Empty]
  /\ rendered' = [rendered EXCEPT ![v] = 0]
  /\ played' = [played EXCEPT ![v] = 0]

Pool(s) == IF s \in Generators THEN Copies ELSE Slots
Unused(s) == {v \in Pool(s) : root[v] = NoSource}

(* NewPCMCallbackSource and NewGeneratorSynth; without a free slot they    *)
(* fail and change nothing.                                                *)
New(s) ==
  /\ GameRuns
  /\ s \notin live \cup spent
  /\ \E v \in Unused(s) : Allocated(v, s)
  /\ live' = live \cup {s}
  /\ UNCHANGED <<loaded, spent, locals, faulted>>

(* An instrument copies a generator's voice, or frees the copies. *)
Copy(s) ==
  /\ GameRuns
  /\ s \in live \cap Generators
  /\ \E v \in Unused(s) : Allocated(v, s)
  /\ UNCHANGED <<loaded, live, spent, locals, faulted>>

Released(vs) ==
  /\ root' = [v \in Voices |-> IF v \in vs THEN NoSource ELSE root[v]]
  /\ loaded' = [v \in Voices |-> IF v \in vs THEN Idle ELSE loaded[v]]

Shielded(s) == at = "callback" /\ ~ClosesItself /\ s = source

Uncopy(s) ==
  /\ GameRuns
  /\ s \in live \cap Generators
  /\ ~Shielded(s)
  /\ Cardinality(Of(s)) > 1
  /\ \E v \in Of(s) : Released(Of(s) \ {v})
  /\ UNCHANGED <<ring, live, spent, locals, rendered, played, faulted>>

(* The audio thread lets go of a source before its memory is freed.  A     *)
(* closed source leaves the map, and its callback is nil.                  *)
Close(s) ==
  /\ GameRuns
  /\ s \in live
  /\ ~Shielded(s)
  /\ s \in Generators => Cardinality(Of(s)) = 1
  /\ Released(Of(s))
  /\ live' = live \ {s}
  /\ spent' = spent \cup {s}
  /\ UNCHANGED <<ring, locals, rendered, played, faulted>>

(* Synth.SetParameter in the game: all that the voices have in store goes. *)
Discard(s) ==
  /\ GameRuns
  /\ s \in live \cap Generators
  /\ read' = [v \in Voices |-> IF root[v] = s THEN write[v] ELSE read[v]]
  /\ UNCHANGED <<root, write, cells, loaded, live, spent, locals, rendered, played, faulted>>

-----------------------------------------------------------------------------
(* The audio thread: it plays a frame in two steps, and starts or releases *)
(* a note between frames.  An empty ring plays silence.                    *)

Load(v) ==
  /\ root[v] # NoSource
  /\ loaded[v] = Idle
  /\ read[v] # write[v]
  /\ loaded' = [loaded EXCEPT ![v] = <<read[v], cells[v][read[v]]>>]
  /\ UNCHANGED <<root, ring, live, spent, locals, rendered, played, faulted>>

Advance(v) ==
  /\ loaded[v] # Idle
  /\ read' = [read EXCEPT ![v] = Goes(loaded[v][1])]
  /\ loaded' = [loaded EXCEPT ![v] = Idle]
  /\ played' = [played EXCEPT ![v] = loaded[v][2]]
  /\ UNCHANGED <<root, write, cells, live, spent, locals, rendered, faulted>>

Note(v) ==
  /\ root[v] \in Generators
  /\ loaded[v] = Idle
  /\ read' = [read EXCEPT ![v] = write[v]]
  /\ UNCHANGED <<root, write, cells, loaded, live, spent, locals, rendered, played, faulted>>

-----------------------------------------------------------------------------
(* The update: RefillPCMCallbackSources and RefillGeneratorSynths.         *)

Shared == <<root, ring, loaded, live, spent, rendered, played, faulted>>

BeginRefill ==
  /\ at = "idle"
  /\ live # {}
  /\ at' = "visit"
  /\ todo' = live
  /\ UNCHANGED <<Shared, snapshot, source, voice, available, produced>>

Visits(s, voices) ==
  /\ at = "visit"
  /\ source' = s
  /\ snapshot' = voices
  /\ todo' = todo \ {s}
  /\ at' = "voice"
  /\ UNCHANGED <<Shared, voice, available, produced>>

(* A map's range visits in any order, and no source deleted meanwhile; of  *)
(* those that were added it may miss any.                                  *)
VisitClosed(s) == s \in todo /\ Visits(s, IF s \in Generators THEN Of(s) ELSE Slots)
Visit(s) == s \in todo \cap live /\ Visits(s, Of(s))

(* A voice without a note is skipped. *)
Skip(v) ==
  /\ at = "voice"
  /\ v \in snapshot
  /\ source \in Generators
  /\ snapshot' = snapshot \ {v}
  /\ UNCHANGED <<Shared, todo, at, source, voice, available, produced>>

Room(v) == AvailableIn(v)

AskRoom(v) ==
  /\ at = "voice"
  /\ v \in snapshot
  /\ snapshot' = snapshot \ {v}
  /\ voice' = v
  /\ available' = Room(v)
  /\ at' = "render"
  /\ UNCHANGED <<Shared, todo, source, produced>>

Total == SumFunction(rendered)

Call ==
  /\ at = "render"
  /\ available > 0
  /\ Total < Frames
  /\ at' = "callback"
  /\ faulted' = (faulted \/ source \notin live)
  /\ UNCHANGED <<root, ring, loaded, live, spent, rendered, played,
                 todo, snapshot, source, voice, available, produced>>

Smaller(m, n) == IF m <= n THEN m ELSE n

(* What it returns is cut to the block that it was offered. *)
CallbackReturns ==
  /\ at = "callback"
  /\ \E n \in 0 .. Smaller(available, Block) :
       /\ produced' = n
       /\ at' = IF n = 0 THEN "voice" ELSE "copy"
       /\ faulted' = (faulted \/ (n > 0 /\ root[voice] # source))
  /\ UNCHANGED <<root, ring, loaded, live, spent, rendered, played,
                 todo, snapshot, source, voice, available>>

(* The native write stores a frame, then moves the index past it; it stops *)
(* where the ring is full.  Here a step is both, as the audio thread looks *)
(* at the cell only after the index.                                       *)
Write ==
  /\ at = "copy"
  /\ ~faulted
  /\ produced > 0
  /\ AvailableIn(voice) > 0
  /\ cells' = [cells EXCEPT ![voice][write[voice]] = rendered[voice] + 1]
  /\ write' = [write EXCEPT ![voice] = Goes(@)]
  /\ rendered' = [rendered EXCEPT ![voice] = @ + 1]
  /\ produced' = produced - 1
  /\ available' = available - 1
  /\ UNCHANGED <<root, read, loaded, live, spent, played, faulted,
                 todo, snapshot, at, source, voice>>

(* With all of it written the loop goes on, otherwise it ends. *)
Written ==
  /\ at = "copy"
  /\ ~faulted
  /\ produced = 0 \/ AvailableIn(voice) = 0
  /\ at' = IF produced = 0 THEN "render" ELSE "voice"
  /\ produced' = 0
  /\ UNCHANGED <<Shared, todo, snapshot, source, voice, available>>

Full ==
  /\ at = "render"
  /\ available = 0 \/ Total >= Frames
  /\ at' = "voice"
  /\ available' = 0
  /\ UNCHANGED <<Shared, todo, snapshot, source, voice, produced>>

NextSource ==
  /\ at = "voice"
  /\ snapshot = {}
  /\ at' = "visit"
  /\ source' = NoSource
  /\ UNCHANGED <<Shared, todo, snapshot, voice, available, produced>>

EndRefill ==
  /\ at = "visit"
  /\ todo \cap live = {}
  /\ at' = "idle"
  /\ todo' = {}
  /\ UNCHANGED <<Shared, snapshot, source, voice, available, produced>>

Refill ==
  \/ BeginRefill \/ Call \/ CallbackReturns \/ Write \/ Written \/ Full
  \/ NextSource \/ EndRefill
  \/ \E s \in Sources : Visit(s)
  \/ \E v \in Voices : Skip(v) \/ AskRoom(v)

Next ==
  \/ \E s \in Sources : New(s) \/ Copy(s) \/ Uncopy(s) \/ Close(s) \/ Discard(s)
  \/ \E v \in Voices : Load(v) \/ Advance(v) \/ Note(v)
  \/ Refill

Spec == Init /\ [][Next]_vars

-----------------------------------------------------------------------------
(* Types: places are in their ring, and the update writes what it offered. *)
TypeOK ==
  /\ root \in [Voices -> Sources \cup {NoSource}]
  /\ read \in [Voices -> 0 .. RingFrames - 1]
  /\ write \in [Voices -> 0 .. RingFrames - 1]
  /\ cells \in [Voices -> [0 .. RingFrames - 1 -> Nat]]
  /\ loaded \in [Voices -> {Idle} \cup (0 .. RingFrames - 1) \X Nat]
  /\ live \in SUBSET Sources /\ spent \in SUBSET Sources
  /\ todo \in SUBSET Sources /\ snapshot \in SUBSET Voices
  /\ at \in {"idle", "visit", "voice", "render", "callback", "copy"}
  /\ source \in Sources \cup {NoSource} /\ voice \in Voices
  /\ available \in 0 .. RingFrames - 1 /\ produced \in 0 .. Block
  /\ rendered \in [Voices -> Nat] /\ played \in [Voices -> Nat]
  /\ faulted \in BOOLEAN

(* API.md, "Close detaches the native callback source, releases its fixed  *)
(* slot, and suppresses future render calls": no callback is called once   *)
(* its source is closed, and no frame is written to a voice that is not,   *)
(* or no longer, the source's.                                             *)
ClosedIsSilent == ~faulted

(* What was rendered is heard in the order it was rendered, each frame     *)
(* once and, of a PCM source, none left out, although the ring has no lock.*)
PlaysInOrder ==
  [][\A v \in Voices : loaded[v] # Idle /\ loaded'[v] = Idle /\ root'[v] # NoSource =>
       IF root[v] \in Generators THEN loaded[v][2] > played[v]
                                 ELSE loaded[v][2] = played[v] + 1]_vars
=============================================================================
