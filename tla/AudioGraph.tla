----------------------------- MODULE AudioGraph -----------------------------
(***************************************************************************)
(* The runtime's audio graph: channels with their routed sources and       *)
(* effects, signals that modulate parameters, samples that players borrow, *)
(* and the music graph of sequences, tracks, instruments and voices.       *)
(*                                                                         *)
(* Its edges (see Edges) are kept three times: in the user's fields        *)
(* (`holds`), in the used object's back references (`heldBy`) and by the   *)
(* native graph (`native`).  A channel holds sources and effects, a        *)
(* parameter a signal, a player a sample, an instrument voices, a track an *)
(* instrument, a sequence a track under an index.  The closing operations  *)
(* walk the first two to undo the third, because the native side frees an  *)
(* object without looking who still points to it.                          *)
(***************************************************************************)
EXTENDS Edges

CONSTANTS
  Channels,     \* audioChannel wrappers, those of the default channel too
  Borrowed,     \* wrappers of the native default channel, never freed
  Players,      \* sample and file players
  PcmSources,   \* callback sources, created attached to a channel
  Synths,
  Instruments,
  Effects,      \* effects, delay lines too
  Taps,         \* delay taps
  Line,         \* tap -> its delay line
  Signals,      \* LFOs, envelopes and control signals
  Samples,
  Tracks,
  Sequences,
  Indexes,      \* track indexes of a sequence
  Parameters,   \* <<object, slot>>: the parameters a signal can modulate
  Untracked,    \* those set by SetParameterModulator
  Scenes,       \* sets of objects that one game creates
  SharedTracks,   \* whether games put a track under two indexes
  None

ASSUME GraphAssumption ==
  /\ Borrowed \subseteq Channels
  /\ Untracked \subseteq Parameters
  /\ Line \in [Taps -> Effects]
  /\ SharedTracks \in BOOLEAN

VARIABLES
  planned,   \* objects the game may still ask another object for
  open,      \* wrappers that exist and are not closed
  freed,     \* objects whose native counterpart was freed
  holds,     \* the edges in the users' fields
  heldBy,    \* the edges in the used objects' back references
  native,    \* the edges of the native graph
  panicked   \* a Go map that Close had set to nil was written

vars == <<planned, open, freed, holds, heldBy, native, panicked>>

Output(c) == <<"output", c>>
Level(c, kind) == <<kind, c>>
Outputs == {Output(c) : c \in Channels}
Levels == {Level(c, kind) : c \in Channels, kind \in {"dry", "wet"}}

Sounding == Players \cup PcmSources \cup Synths \cup Instruments \cup Taps
Sources == Sounding \cup Outputs
AnySignal == Signals \cup Levels
Owned == (Channels \ Borrowed) \cup Sounding \cup Effects \cup Signals \cup Samples \cup Tracks \cup Sequences
Objects == Owned \cup Borrowed \cup Outputs \cup Levels

(* All wrappers of the default channel stand for one native channel. *)
Default == "default"
Channel(c) == IF c \in Borrowed THEN Default ELSE c
Native(x) ==
  CASE x \in Channels -> Channel(x)
    [] x \in Outputs \cup Levels -> <<x[1], Channel(x[2])>>
    [] OTHER -> x
NativeEdge(e) == <<Native(e[1]), e[2], Native(e[3])>>

(* A channel and an instrument hold many objects in one slot, everything *)
(* else at most one.                                                     *)
Many == {"source", "effect", "voice"}

(* What games and the tables of kinds are like: an object is of one kind,  *)
(* and a slot says of what kind its objects are.                           *)
SlotNames == Many \cup {"sample", "instrument"}
ASSUME GraphShape ==
  /\ Channels \cap (Sounding \cup AnySignal \cup Effects \cup Samples \cup Tracks \cup Sequences) = {}
  /\ Effects \cap (Sounding \cup AnySignal \cup Samples \cup Tracks \cup Sequences) = {}
  /\ Tracks \cap (Sounding \cup AnySignal \cup Samples) = {}
  /\ (Outputs \cup Levels) \cap (Channels \cup Owned) = {}
  /\ Taps \cap PcmSources = {}
  /\ Indexes \cap SlotNames = {}
  /\ Parameters \subseteq (Channels \cup Owned) \X (STRING \ (SlotNames \cup Indexes))
  /\ \A p \in Untracked : p[1] \in Synths
  /\ Scenes \subseteq SUBSET Objects
  /\ None \notin Objects
  /\ Default \notin Channels \cup Owned
  /\ \A k \in {"output", "dry", "wet"} : <<k, Default>> \notin Channels \cup Owned

(* The native edges that go when the edges G are taken apart: a single     *)
(* slot is set to zero, whatever it holds.                                 *)
Undone(G) ==
  {n \in native : \E e \in G :
     /\ SlotOf(n) = SlotOf(NativeEdge(e))
     /\ e[2] \in Many => n = NativeEdge(e)}

(* What the runtime puts into a slot that holds one object. *)
Put(slot, x) == IF x = None THEN {} ELSE {<<slot[1], slot[2], x>>}
PutNative(slot, x) == {NativeEdge(e) : e \in Put(slot, x)}
Replaced(slot) == native \ InSlot(native, <<Native(slot[1]), slot[2]>>)

Init ==
  \E scene \in Scenes :
    /\ planned = scene \cap (Taps \cup PcmSources \cup Outputs \cup Levels)
    /\ open = scene \ planned
    /\ freed = {}
    /\ holds = {} /\ heldBy = {} /\ native = {}
    /\ panicked = FALSE

Attach(e) ==
  /\ holds' = holds \cup {e}
  /\ heldBy' = heldBy \cup {e}
  /\ native' = native \cup {NativeEdge(e)}

(***************************************************************************)
(* Channels: borrowed objects, sources, effects.                           *)
(***************************************************************************)
CreateOutputAlways(c) ==
  /\ Output(c) \in planned \ open
  /\ open' = open \cup {Output(c)}
  /\ UNCHANGED <<planned, freed, holds, heldBy, native, panicked>>

CreateOutput(c) ==
  /\ c \in open /\ Output(c) \in planned \ open
  /\ open' = open \cup {Output(c)}
  /\ UNCHANGED <<planned, freed, holds, heldBy, native, panicked>>

CreateLevel(c, kind) ==
  /\ c \in open /\ Level(c, kind) \in planned \ open
  /\ open' = open \cup {Level(c, kind)}
  /\ UNCHANGED <<planned, freed, holds, heldBy, native, panicked>>

(* channelReaches: target is in every set of channels that contains `from` *)
(* and with a channel the channels its output is routed to.                *)
Downstream(c) == {User(e) : e \in UsersOf(heldBy, Output(c))}
ChannelReaches(from, target) ==
  \A S \in SUBSET Channels :
    from \in S /\ (\A c \in S : Downstream(c) \subseteq S) => target \in S

VoiceOf(s) == {e \in UsersOf(heldBy, s) : e[2] = "voice"}
RoutesOf(s) == {e \in UsersOf(heldBy, s) : e[2] = "source"}

Routable(c, s) ==
  /\ c \in open /\ s \in open
  /\ s \notin PcmSources
  /\ VoiceOf(s) = {}
  /\ \A owner \in Channels : s = Output(owner) => ~ChannelReaches(c, owner)

(* The source leaves its previous channel, which is not undone when the  *)
(* native side refuses the new one.                                      *)
AddSourceOnly(c, s) ==
  /\ Routable(c, s)
  /\ <<c, "source", s>> \notin holds
  /\ Attach(<<c, "source", s>>)
  /\ UNCHANGED <<planned, open, freed, panicked>>

AddSource(c, s) ==
  /\ Routable(c, s)
  /\ <<c, "source", s>> \notin holds
  /\ {NativeEdge(e) : e \in RoutesOf(s)} \subseteq native
  /\ \E added \in BOOLEAN :
       LET new == IF added THEN {<<c, "source", s>>} ELSE {}
       IN /\ holds' = (holds \ RoutesOf(s)) \cup new
          /\ heldBy' = (heldBy \ RoutesOf(s)) \cup new
          /\ native' = (native \ Undone(RoutesOf(s))) \cup {NativeEdge(e) : e \in new}
  /\ UNCHANGED <<planned, open, freed, panicked>>

RemoveSource(c, s) ==
  LET e == <<c, "source", s>>
  IN /\ c \in open /\ s \in open \ PcmSources
     /\ e \in holds
     /\ NativeEdge(e) \in native
     /\ holds' = holds \ {e} /\ heldBy' = heldBy \ {e} /\ native' = native \ Undone({e})
     /\ UNCHANGED <<planned, open, freed, panicked>>

NewPCMCallbackSource(c, s) ==
  /\ c \in open /\ s \in planned \cap PcmSources
  /\ planned' = planned \ {s}
  /\ open' = open \cup {s}
  /\ Attach(<<c, "source", s>>)
  /\ UNCHANGED <<freed, panicked>>

AddEffect(c, x) ==
  /\ c \in open /\ x \in open
  /\ <<c, "effect", x>> \notin holds
  /\ Attach(<<c, "effect", x>>)
  /\ UNCHANGED <<planned, open, freed, panicked>>

RemoveEffect(c, x) ==
  LET e == <<c, "effect", x>>
  IN /\ c \in open /\ e \in holds
     /\ NativeEdge(e) \in native
     /\ holds' = holds \ {e} /\ heldBy' = heldBy \ {e} /\ native' = native \ Undone({e})
     /\ UNCHANGED <<planned, open, freed, panicked>>

AddTap(t) ==
  /\ t \in planned \cap Taps /\ Line[t] \in open
  /\ planned' = planned \ {t}
  /\ open' = open \cup {t}
  /\ UNCHANGED <<freed, holds, heldBy, native, panicked>>

(***************************************************************************)
(* Signals and samples.                                                    *)
(***************************************************************************)
SetModulator(slot, s) ==
  LET old == InSlot(holds, slot)
  IN /\ slot \notin Untracked
     /\ slot[1] \in open /\ s \in (open \cap AnySignal) \cup {None}
     /\ holds' = (holds \ old) \cup Put(slot, s)
     /\ heldBy' = (heldBy \ old) \cup Put(slot, s)
     /\ native' = Replaced(slot) \cup PutNative(slot, s)
     /\ UNCHANGED <<planned, open, freed, panicked>>

(* The setters of channels and the rate of a player do not check the       *)
(* signal: a closed one has the handle 0 and no maps to record its users.  *)
SetClosedModulator(slot, s) ==
  LET old == InSlot(holds, slot)
  IN /\ slot \notin Untracked
     /\ slot[2] \in {"volume", "pan", "rate"}
     /\ slot[1] \in open /\ s \in freed \cap Signals
     /\ holds' = (holds \ old) \cup Put(slot, s)
     /\ heldBy' = heldBy \ old
     /\ native' = Replaced(slot)
     /\ panicked' = TRUE
     /\ UNCHANGED <<planned, open, freed>>

(* SetParameterModulator of a synth records nothing. *)
SetParameterModulator(slot, s) ==
  /\ slot \in Untracked
  /\ slot[1] \in open /\ s \in (open \cap AnySignal) \cup {None}
  /\ native' = Replaced(slot) \cup PutNative(slot, s)
  /\ UNCHANGED <<planned, open, freed, holds, heldBy, panicked>>

SetSample(p, a) ==
  LET slot == <<p, "sample">>
      old == InSlot(holds, slot)
  IN /\ p \in open /\ a \in open
     /\ holds' = (holds \ old) \cup Put(slot, a)
     /\ heldBy' = (heldBy \ old) \cup Put(slot, a)
     /\ native' = Replaced(slot) \cup PutNative(slot, a)
     /\ UNCHANGED <<planned, open, freed, panicked>>

(***************************************************************************)
(* The music graph.                                                        *)
(***************************************************************************)
AddVoice(i, s) ==
  /\ i \in open /\ s \in open
  /\ RoutesOf(s) = {} /\ VoiceOf(s) = {}
  /\ Attach(<<i, "voice", s>>)
  /\ UNCHANGED <<planned, open, freed, panicked>>

SetInstrument(t, i) ==
  LET slot == <<t, "instrument">>
      old == InSlot(holds, slot)
  IN /\ t \in open /\ i \in open \cup {None}
     /\ holds' = (holds \ old) \cup Put(slot, i)
     /\ heldBy' = (heldBy \ old) \cup Put(slot, i)
     /\ native' = Replaced(slot) \cup PutNative(slot, i)
     /\ UNCHANGED <<planned, open, freed, panicked>>

SetTrackUnrecorded(q, index, t) ==
  LET slot == <<q, index>>
      old == InSlot(holds, slot)
  IN /\ q \in open /\ t \in open \cup {None}
     /\ SharedTracks \/ {e \in UsersOf(holds, t) : User(e) = q} \subseteq old
     /\ holds' = (holds \ old) \cup Put(slot, t)
     /\ heldBy' = heldBy \ old
     /\ native' = Replaced(slot) \cup PutNative(slot, t)
     /\ UNCHANGED <<planned, open, freed, panicked>>

(* track.sequences maps a sequence to one index: deleting an entry, or   *)
(* writing another, forgets the index that was there.                    *)
Forgotten(q, t) == {e \in heldBy : User(e) = q /\ Used(e) = t}

SetTrack(q, index, t) ==
  LET slot == <<q, index>>
      old == InSlot(holds, slot)
  IN /\ q \in open /\ t \in open \cup {None}
     /\ SharedTracks \/ {e \in UsersOf(holds, t) : User(e) = q} \subseteq old
     /\ holds' = (holds \ old) \cup Put(slot, t)
     /\ heldBy' = (heldBy \ UNION {Forgotten(q, x) : x \in {t} \cup {Used(e) : e \in old}}) \cup Put(slot, t)
     /\ native' = Replaced(slot) \cup PutNative(slot, t)
     /\ UNCHANGED <<planned, open, freed, panicked>>

(***************************************************************************)
(* Close: the objects S stop together.  A used object finds its users in   *)
(* its back references, a user the objects in its own fields; the fields   *)
(* of a closed object are never read again and leave the model.            *)
(***************************************************************************)
EdgesOfUser(S) == {e \in holds : User(e) \in S}
Edges(S) == {e \in heldBy : Used(e) \in S} \cup {e \in holds : User(e) \in S}

CloseUnmarked(S) ==
  /\ holds' = holds \ Edges(S)
  /\ heldBy' = heldBy \ Edges(S)
  /\ native' = native \ Undone(Edges(S))
  /\ freed' = freed \cup (S \cap Owned)
  /\ UNCHANGED <<planned, open, panicked>>

Close(S) ==
  /\ holds' = holds \ Edges(S)
  /\ heldBy' = heldBy \ Edges(S)
  /\ native' = native \ Undone(Edges(S))
  /\ open' = open \ S
  /\ freed' = freed \cup (S \cap Owned)
  /\ UNCHANGED <<planned, panicked>>

CloseSignal(s) == s \in open /\ Close({s})

CloseChannel(c) ==
  /\ c \in open
  /\ Close({c} \cup (open \cap {Output(c), Level(c, "dry"), Level(c, "wet")}))

(* RemoveSource has to succeed on every channel; the other edges of the  *)
(* player are dropped on the way.                                        *)
Closable(p) == {NativeEdge(e) : e \in RoutesOf(p)} \subseteq native

ClosePlayer(p) ==
  /\ p \in open
  /\ VoiceOf(p) = {}
  /\ Closable(p)
  /\ Close({p})

(* A delay line closes the taps that can be closed. *)
CloseEffectOnly(x) == x \in open /\ Close({x})
CloseEffect(x) ==
  /\ x \in open
  /\ Close({x} \cup {t \in open \cap Taps : Line[t] = x /\ Closable(t)})

CloseSample(a) ==
  /\ a \in open
  /\ UsersOf(heldBy, a) = {}
  /\ Close({a})

CloseTrack(t) == t \in open /\ Close({t})

CloseSequence(q) == q \in open /\ Close({q})

Connect ==
  \/ \E c \in Channels : CreateOutput(c)
  \/ \E c \in Channels, kind \in {"dry", "wet"} : CreateLevel(c, kind)
  \/ \E c \in Channels, s \in Sources : AddSource(c, s) \/ RemoveSource(c, s)
  \/ \E c \in Channels, s \in PcmSources : NewPCMCallbackSource(c, s)
  \/ \E c \in Channels, x \in Effects : AddEffect(c, x) \/ RemoveEffect(c, x)
  \/ \E t \in Taps : AddTap(t)

Modulate ==
  \/ \E slot \in Parameters, s \in AnySignal \cup {None} :
       SetModulator(slot, s) \/ SetClosedModulator(slot, s) \/ SetParameterModulator(slot, s)
  \/ \E p \in Players, a \in Samples : SetSample(p, a)

Compose ==
  \/ \E i \in Instruments, s \in Synths : AddVoice(i, s)
  \/ \E t \in Tracks, i \in Instruments \cup {None} : SetInstrument(t, i)
  \/ \E q \in Sequences, index \in Indexes, t \in Tracks \cup {None} : SetTrack(q, index, t)

Closing ==
  \/ \E s \in AnySignal : CloseSignal(s)
  \/ \E c \in Channels : CloseChannel(c)
  \/ \E p \in Sounding : ClosePlayer(p)
  \/ \E x \in Effects : CloseEffect(x)
  \/ \E a \in Samples : CloseSample(a)
  \/ \E t \in Tracks : CloseTrack(t)
  \/ \E q \in Sequences : CloseSequence(q)

Next == ~panicked /\ (Connect \/ Modulate \/ Compose \/ Closing)

Spec == Init /\ [][Next]_vars

-----------------------------------------------------------------------------
(* Types: edges run between objects of the game, open and freed objects  *)
(* are disjoint.                                                         *)
TypeOK ==
  /\ open \subseteq Objects /\ freed \subseteq Owned
  /\ planned \subseteq Objects
  /\ open \cap freed = {}
  /\ \A e \in holds \cup heldBy : User(e) \in Objects /\ Used(e) \in Objects
  /\ panicked \in BOOLEAN

(* The three records of the graph agree: what a Close undoes is all there  *)
(* is (audio_graph.go:136, runtime.go:768, runtime.go:1212).               *)
Tracked(E) == {e \in E : SlotOf(e) \notin Untracked}
SidesAgree ==
  ~panicked => holds = heldBy /\ Tracked(native) = {NativeEdge(e) : e \in holds}

(* No native object is freed while another that is alive points to it, in *)
(* whatever order the game closes what it owns (audio_graph.go:136,       *)
(* runtime.go:896, audio_sequence.go:378).                                *)
Dead == freed \cup {x \in Outputs \cup Levels : x[2] \in freed}
Dangling(E) == {e \in E : Used(e) \in Dead /\ User(e) \notin Dead}
NothingDangling == Dangling(Tracked(native)) = {}

(* A method reaches the native side if its wrapper is not closed; the     *)
(* native object is alive then, a borrowed one and a tap too.             *)
PlaybackCalls == Sources \cap open
StreamCalls == Players \cap open
ChannelCalls == Channels \cap open
SampleCalls == Samples \cap open
SignalCalls == AnySignal \cap open
SynthCalls == Synths \cap open
EffectCalls == (Effects \cup Taps) \cap open
InstrumentCalls == Instruments \cap open
TrackCalls == Tracks \cap open
SequenceCalls == Sequences \cap open
Callable ==
  UNION {PlaybackCalls, StreamCalls, ChannelCalls, SampleCalls, SignalCalls,
         SynthCalls, EffectCalls, InstrumentCalls, TrackCalls, SequenceCalls}
CallsReachLiveObjects ==
  \A x \in Callable : x \notin Dead /\ (x \in Taps => Line[x] \notin Dead)

(* API.md:799, "A source remains attached to at most one channel", and a   *)
(* synth that is a voice of an instrument is not routed itself, and is a   *)
(* voice of no other (audio_sequence.go:79, runtime.go:673): whatever      *)
(* sounds is heard at one place.                                           *)
HeardOnce ==
  \A e1, e2 \in native :
    {e1[2], e2[2]} \subseteq {"source", "voice"} /\ Used(e1) = Used(e2) => e1 = e2

(* API.md:800: "direct or transitive channel cycles return ErrAudioRoute": *)
(* the native channels can be ordered along their outputs.                 *)
Feeds(n1, n2) == <<n2, "source", <<"output", n1>>>> \in native
NoCycle ==
  \A S \in SUBSET {Channel(c) : c \in Channels} :
    S # {} => \E n \in S : \A m \in S : ~Feeds(n, m)

(* README.md:1098: "Closing a source or signal detaches every retained  *)
(* edge before freeing it", a parameter's edge too.                      *)
ClosingDetaches == Dangling(native) = {}

(* A closed signal is refused, as API.md:807 says of expired ones, and not *)
(* recorded in a map that no longer exists.                                *)
NeverPanics == ~panicked
=============================================================================
