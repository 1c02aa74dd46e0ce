------------------------- MODULE RenderedAudioProofs -------------------------
(***************************************************************************)
(* Proofs about rendered audio, for any sources, voices and sizes of rings *)
(* and blocks: frames are heard in the order they were rendered, and no    *)
(* closed source is rendered for.                                          *)
(*                                                                         *)
(* A ring has no lock, and what a note or a parameter discards may come    *)
(* back: the audio thread, holding a frame, moves the read index past it,  *)
(* also if that was discarded meanwhile and overwritten.  Order survives   *)
(* because the cells behind the write index always hold the latest frames  *)
(* (InOrder), and the frames from any place of the ring up to the write    *)
(* index are no more than were rendered since the one that was there.      *)
(***************************************************************************)
EXTENDS RenderedAudio, Integers, TLAPS

Cells == 0 .. RingFrames - 1

(* How far a place is behind another. *)
Behind(i, j) == IF j >= i THEN j - i ELSE j - i + RingFrames

Typed ==
  /\ root \in [Voices -> Sources \cup {NoSource}]
  /\ read \in [Voices -> Cells] /\ write \in [Voices -> Cells]
  /\ cells \in [Voices -> [Cells -> Nat]]
  /\ loaded \in [Voices -> {Idle} \cup Cells \X Nat]
  /\ live \in SUBSET Sources /\ snapshot \in SUBSET Voices
  /\ at \in {"idle", "visit", "voice", "render", "callback", "copy"}
  /\ source \in Sources \cup {NoSource} /\ voice \in Voices
  /\ available \in Cells /\ produced \in Nat
  /\ rendered \in [Voices -> Nat] /\ played \in [Voices -> Nat]
  /\ faulted \in BOOLEAN

InOrder(v) ==
  \A i \in Cells :
    i # write[v] /\ Behind(i, write[v]) <= rendered[v] =>
      cells[v][i] = rendered[v] - Behind(i, write[v]) + 1

(* What is in store, and a frame that the audio thread is at, are not yet  *)
(* heard; of a PCM source nothing is left out.                             *)
Ahead(v) ==
  /\ played[v] <= rendered[v]
  /\ root[v] \notin Generators => Behind(read[v], write[v]) = rendered[v] - played[v]
  /\ loaded[v] = Idle => Behind(read[v], write[v]) <= rendered[v] - played[v]
  /\ loaded[v] # Idle =>
       /\ played[v] < loaded[v][2] /\ loaded[v][2] <= rendered[v]
       /\ Behind(Goes(loaded[v][1]), write[v]) <= rendered[v] - loaded[v][2]
       /\ root[v] \notin Generators =>
            loaded[v][1] = read[v] /\ loaded[v][2] = played[v] + 1

Heard(v) ==
  /\ InOrder(v)
  /\ root[v] = NoSource => loaded[v] = Idle
  /\ root[v] # NoSource => Ahead(v)

Busy == at \in {"voice", "render", "callback", "copy"}

(* What is copied was rendered for a voice of the source. *)
Copying ==
  /\ Busy => source \in Sources
  /\ at = "copy" => produced <= available
  /\ at = "copy" /\ ~faulted => root[voice] = source

IInv == Typed /\ (\A v \in Voices : Heard(v)) /\ Copying

-----------------------------------------------------------------------------
(* Places in a ring. *)

LEMMA Remainder ==
  ASSUME NEW m \in Nat \ {0}, NEW n \in Nat, n < 2 * m
  PROVE  n % m = (IF n < m THEN n ELSE n - m)
OBVIOUS

LEMMA GoesOn ==
  ASSUME RenderAssumption, NEW i \in Cells
  PROVE  Goes(i) = (IF i + 1 = RingFrames THEN 0 ELSE i + 1) /\ Goes(i) \in Cells
<1>1. RingFrames \in Nat \ {0} /\ i \in 0 .. RingFrames - 1
  BY DEF RenderAssumption, Cells
<1>2. PICK n \in Nat : n = i + 1 /\ n < 2 * RingFrames
  BY <1>1
<1>3. n % RingFrames = (IF n < RingFrames THEN n ELSE n - RingFrames)
  BY <1>1, <1>2, Remainder
<1> QED
  BY <1>1, <1>2, <1>3 DEF Goes, Cells

LEMMA BehindType ==
  ASSUME RenderAssumption, NEW i \in Cells, NEW j \in Cells
  PROVE  /\ Behind(i, j) \in Cells /\ Behind(i, j) \in Nat
         /\ Behind(i, j) = 0 <=> i = j
BY DEF RenderAssumption, Cells, Behind

LEMMA BehindGoesOn ==
  ASSUME RenderAssumption, NEW i \in Cells, NEW j \in Cells
  PROVE  /\ Behind(i, Goes(j)) = IF i = Goes(j) THEN 0 ELSE Behind(i, j) + 1
         /\ i # j => Behind(Goes(i), j) = Behind(i, j) - 1
         /\ Behind(j, Goes(j)) <= 1
<1>1. RingFrames \in Nat \ {0} /\ i \in 0 .. RingFrames - 1 /\ j \in 0 .. RingFrames - 1
  BY DEF RenderAssumption, Cells
<1>2. Goes(i) = (IF i + 1 = RingFrames THEN 0 ELSE i + 1)
  BY GoesOn
<1>3. Goes(j) = (IF j + 1 = RingFrames THEN 0 ELSE j + 1)
  BY GoesOn
<1> QED
  BY <1>1, <1>2, <1>3 DEF Behind

(* The room that the native side tells of. *)
LEMMA RoomIs ==
  ASSUME RenderAssumption, Typed, NEW v \in Voices
  PROVE  /\ AvailableIn(v) = RingFrames - 1 - Behind(read[v], write[v])
         /\ AvailableIn(v) \in Cells
<1>1. RingFrames \in Nat \ {0} /\ read[v] \in 0 .. RingFrames - 1 /\ write[v] \in 0 .. RingFrames - 1
  BY DEF RenderAssumption, Typed, Cells
<1>2. PICK n \in Nat : n = read[v] + RingFrames - write[v] - 1 /\ n < 2 * RingFrames
  BY <1>1
<1>3. n % RingFrames = (IF n < RingFrames THEN n ELSE n - RingFrames)
  BY <1>1, <1>2, Remainder
<1>4. AvailableIn(v) = n % RingFrames
  BY <1>2 DEF AvailableIn
<1> QED
  BY <1>1, <1>2, <1>3, <1>4 DEF Behind, Cells
-----------------------------------------------------------------------------
(* What an action does to one voice. *)

Same(v) ==
  /\ root'[v] = root[v] /\ read'[v] = read[v] /\ write'[v] = write[v] /\ cells'[v] = cells[v]
  /\ loaded'[v] = loaded[v] /\ rendered'[v] = rendered[v] /\ played'[v] = played[v]

LEMMA SameStays ==
  ASSUME NEW v, Heard(v), Same(v)
  PROVE  Heard(v)'
BY DEF Same, Heard, InOrder, Ahead

LEMMA FreshIsHeard ==
  ASSUME RenderAssumption, NEW v \in Voices, loaded'[v] = Idle,
         read'[v] = 0, write'[v] = 0, rendered'[v] = 0, played'[v] = 0
  PROVE  Heard(v)'
<1>1. 0 \in Cells
  BY DEF RenderAssumption, Cells
<1>2. \A i \in Cells : i # 0 => ~(Behind(i, 0) <= 0)
  BY <1>1, BehindType
<1>3. InOrder(v)'
  BY <1>2 DEF InOrder
<1>4. Behind(0, 0) = 0
  BY DEF Behind
<1> QED
  BY <1>3, <1>4 DEF Heard, Ahead

LEMMA ReleasedIsHeard ==
  ASSUME NEW v, Heard(v), root'[v] = NoSource, loaded'[v] = Idle,
         write'[v] = write[v], cells'[v] = cells[v], rendered'[v] = rendered[v]
  PROVE  Heard(v)'
BY DEF Heard, InOrder

LEMMA DiscardedIsHeard ==
  ASSUME RenderAssumption, Typed, NEW v \in Voices, Heard(v), root[v] \in Generators,
         root'[v] = root[v], read'[v] = write[v], write'[v] = write[v], cells'[v] = cells[v],
         loaded'[v] = loaded[v], rendered'[v] = rendered[v], played'[v] = played[v]
  PROVE  Heard(v)'
<1>1. write[v] \in Cells /\ Behind(write[v], write[v]) = 0
  BY BehindType DEF Typed
<1>2. rendered[v] \in Nat /\ played[v] \in Nat
  BY DEF Typed
<1> QED
  BY <1>1, <1>2 DEF Heard, InOrder, Ahead

LEMMA LoadedIsHeard ==
  ASSUME RenderAssumption, Typed, NEW v \in Voices, Heard(v), Load(v)
  PROVE  Heard(v)'
<1> DEFINE d == Behind(read[v], write[v])
<1>1. /\ read[v] \in Cells /\ write[v] \in Cells /\ rendered[v] \in Nat /\ played[v] \in Nat
      /\ loaded \in [Voices -> {Idle} \cup Cells \X Nat]
  BY DEF Typed
<1>2. /\ root[v] # NoSource /\ loaded[v] = Idle /\ read[v] # write[v]
      /\ UNCHANGED <<root, read, write, cells, rendered, played>>
  BY DEF Load, ring
<1>3. d \in Nat /\ d # 0
  BY <1>1, <1>2, BehindType
<1>4. /\ played[v] <= rendered[v] /\ d <= rendered[v] - played[v]
      /\ root[v] \notin Generators => d = rendered[v] - played[v]
  BY <1>2 DEF Heard, Ahead
<1>5. cells[v][read[v]] = rendered[v] - d + 1
  BY <1>1, <1>2, <1>3, <1>4 DEF Heard, InOrder
<1>6. loaded'[v] = <<read[v], rendered[v] - d + 1>> /\ loaded'[v] # Idle
  BY <1>1, <1>5 DEF Load, Idle
<1>7. Behind(Goes(read[v]), write[v]) = d - 1
  BY <1>1, <1>2, BehindGoesOn
<1>8. Ahead(v)'
  BY <1>1, <1>2, <1>3, <1>4, <1>6, <1>7 DEF Ahead, Goes
<1> QED
  BY <1>2, <1>8 DEF Heard, InOrder

LEMMA AdvancedIsHeard ==
  ASSUME RenderAssumption, Typed, NEW v \in Voices, Heard(v), Advance(v)
  PROVE  Heard(v)'
<1> DEFINE p == loaded[v][1]
           f == loaded[v][2]
<1>1. /\ read[v] \in Cells /\ write[v] \in Cells /\ rendered[v] \in Nat /\ played[v] \in Nat
      /\ read \in [Voices -> Cells] /\ loaded \in [Voices -> {Idle} \cup Cells \X Nat]
      /\ played \in [Voices -> Nat]
  BY DEF Typed
<1>2. /\ loaded[v] # Idle
      /\ read'[v] = Goes(p) /\ loaded'[v] = Idle /\ played'[v] = f
      /\ UNCHANGED <<root, write, cells, rendered>>
  BY <1>1 DEF Advance
<1>3. p \in Cells /\ f \in Nat
  BY <1>1, <1>2
<1>4. root[v] # NoSource
  BY <1>2 DEF Heard
<1>5. /\ f <= rendered[v] /\ played[v] < f
      /\ Behind(Goes(p), write[v]) <= rendered[v] - f
      /\ root[v] \notin Generators => p = read[v] /\ f = played[v] + 1
      /\ root[v] \notin Generators => Behind(read[v], write[v]) = rendered[v] - played[v]
  BY <1>2, <1>4 DEF Heard, Ahead
<1>6. root[v] \notin Generators => Behind(Goes(p), write[v]) = rendered[v] - f
  <2> SUFFICES ASSUME root[v] \notin Generators
               PROVE  Behind(Goes(p), write[v]) = rendered[v] - f
    OBVIOUS
  <2>1. p # write[v]
    BY <1>1, <1>3, <1>5, BehindType
  <2> QED
    BY <1>1, <1>3, <1>5, <2>1, BehindGoesOn
<1> HIDE DEF p, f
<1>7. Ahead(v)'
  BY <1>1, <1>2, <1>3, <1>5, <1>6 DEF Ahead
<1> QED
  BY <1>2, <1>7 DEF Heard, InOrder

(* A frame overwrites the oldest cell, and is the latest behind the index. *)
LEMMA WrittenIsHeard ==
  ASSUME RenderAssumption, IInv, Write, NEW v \in Voices, v = voice
  PROVE  Heard(v)'
<1> DEFINE w == write[v]
<1>1. /\ v \in Voices /\ read[v] \in Cells /\ w \in Cells /\ rendered[v] \in Nat
      /\ played[v] \in Nat /\ cells[v] \in [Cells -> Nat]
      /\ write \in [Voices -> Cells] /\ cells \in [Voices -> [Cells -> Nat]]
      /\ rendered \in [Voices -> Nat] /\ loaded \in [Voices -> {Idle} \cup Cells \X Nat]
  BY DEF IInv, Typed
<1>2. /\ write'[v] = Goes(w) /\ rendered'[v] = rendered[v] + 1
      /\ cells'[v] = [cells[v] EXCEPT ![w] = rendered[v] + 1]
      /\ UNCHANGED <<root, read, loaded, played>>
      /\ AvailableIn(v) > 0
  BY <1>1 DEF Write
<1>3. Behind(read[v], w) < RingFrames - 1
  <2>1. AvailableIn(v) = RingFrames - 1 - Behind(read[v], w)
    BY <1>1, RoomIs DEF IInv
  <2>2. RingFrames \in Nat /\ Behind(read[v], w) \in Nat
    BY <1>1, BehindType DEF RenderAssumption
  <2> QED
    BY <1>2, <2>1, <2>2
<1>4. Behind(read[v], Goes(w)) = Behind(read[v], w) + 1
  <2>1. Behind(read[v], w) + 1 # 0 /\ Behind(read[v], w) \in Nat
    BY <1>1, BehindType
  <2>2. read[v] # Goes(w)
    <3>1. Goes(w) = (IF w + 1 = RingFrames THEN 0 ELSE w + 1)
      BY <1>1, GoesOn
    <3> QED
      BY <1>1, <1>3, <3>1 DEF Behind, RenderAssumption, Cells
  <2> QED
    BY <1>1, <2>2, BehindGoesOn
<1>5. InOrder(v)'
  <2> SUFFICES ASSUME NEW i \in Cells, i # Goes(w), Behind(i, Goes(w)) <= rendered[v] + 1
               PROVE  cells'[v][i] = (rendered[v] + 1) - Behind(i, Goes(w)) + 1
    BY <1>2 DEF InOrder
  <2>1. Behind(i, Goes(w)) = Behind(i, w) + 1 /\ Behind(i, w) \in Nat
    BY <1>1, BehindGoesOn, BehindType
  <2>2. CASE i = w
    <3>1. Behind(i, w) = 0
      BY <1>1, <2>2, BehindType
    <3> QED
      BY <1>1, <1>2, <2>1, <2>2, <3>1
  <2>3. CASE i # w
    <3>1. cells[v][i] = rendered[v] - Behind(i, w) + 1
      BY <1>1, <2>1, <2>3 DEF IInv, Heard, InOrder
    <3> QED
      BY <1>1, <1>2, <2>1, <2>3, <3>1
  <2> QED
    BY <2>2, <2>3
<1>6. root[v] # NoSource /\ Ahead(v)
  BY <1>1 DEF IInv, Heard, Copying, Write, Busy, RenderAssumption, NoSource
<1>7. loaded[v] # Idle => Behind(Goes(loaded[v][1]), Goes(w)) <= rendered[v] + 1 - loaded[v][2]
  <2> SUFFICES ASSUME loaded[v] # Idle
               PROVE  Behind(Goes(loaded[v][1]), Goes(w)) <= rendered[v] + 1 - loaded[v][2]
    OBVIOUS
  <2>1. Goes(loaded[v][1]) \in Cells /\ loaded[v][2] \in Nat
    BY <1>1, GoesOn
  <2>2. /\ Behind(Goes(loaded[v][1]), w) <= rendered[v] - loaded[v][2]
        /\ Behind(Goes(loaded[v][1]), w) \in Nat /\ loaded[v][2] <= rendered[v]
    BY <1>1, <1>6, <2>1, BehindType DEF Ahead
  <2>3. Behind(Goes(loaded[v][1]), Goes(w)) =
          IF Goes(loaded[v][1]) = Goes(w) THEN 0 ELSE Behind(Goes(loaded[v][1]), w) + 1
    BY <1>1, <2>1, BehindGoesOn
  <2> QED
    BY <1>1, <2>1, <2>2, <2>3
<1>8. Ahead(v)'
  <2>1. Behind(read[v], w) \in Nat
    BY <1>1, BehindType
  <2>2. played[v] <= rendered[v] + 1
    BY <1>1, <1>6 DEF Ahead
  <2>3. root[v] \notin Generators => Behind(read[v], Goes(w)) = rendered[v] + 1 - played[v]
    BY <1>1, <1>4, <1>6, <2>1 DEF Ahead
  <2>4. loaded[v] = Idle => Behind(read[v], Goes(w)) <= rendered[v] + 1 - played[v]
    BY <1>1, <1>4, <1>6, <2>1 DEF Ahead
  <2>5. loaded[v] # Idle =>
          /\ played[v] < loaded[v][2] /\ loaded[v][2] <= rendered[v] + 1
          /\ root[v] \notin Generators =>
               loaded[v][1] = read[v] /\ loaded[v][2] = played[v] + 1
    BY <1>1, <1>6 DEF Ahead
  <2>6. loaded'[v] # Idle =>
          Behind(Goes(loaded'[v][1]), write'[v]) <= rendered'[v] - loaded'[v][2]
    <3>1. loaded'[v] = loaded[v] /\ write'[v] = Goes(w) /\ rendered'[v] = rendered[v] + 1
      BY <1>2
    <3> QED
      BY <1>1, <1>7, <3>1
  <2>7. /\ played'[v] <= rendered'[v]
        /\ root'[v] \notin Generators =>
             Behind(read'[v], write'[v]) = rendered'[v] - played'[v]
        /\ loaded'[v] = Idle => Behind(read'[v], write'[v]) <= rendered'[v] - played'[v]
    <3>1. /\ root'[v] = root[v] /\ read'[v] = read[v] /\ loaded'[v] = loaded[v]
          /\ played'[v] = played[v] /\ write'[v] = Goes(w) /\ rendered'[v] = rendered[v] + 1
      BY <1>2
    <3>2. Behind(read'[v], write'[v]) = Behind(read[v], Goes(w))
      BY <3>1
    <3>3. rendered'[v] - played'[v] = rendered[v] + 1 - played[v]
      <4>1. rendered[v] \in Nat /\ played[v] \in Nat
        BY <1>1
      <4> QED
        BY <3>1, <4>1
    <3> QED
      BY <2>2, <2>3, <2>4, <3>1, <3>2, <3>3
  <2>8. loaded'[v] # Idle =>
          /\ played'[v] < loaded'[v][2] /\ loaded'[v][2] <= rendered'[v]
          /\ root'[v] \notin Generators =>
               loaded'[v][1] = read'[v] /\ loaded'[v][2] = played'[v] + 1
    BY <1>1, <1>2, <2>5
  <2> QED
    BY <2>7, <2>8, <2>6 DEF Ahead, Goes, Behind
<1> QED
  BY <1>2, <1>5, <1>6, <1>8 DEF Heard
-----------------------------------------------------------------------------
(* The invariant. *)

LEMMA VoicesAreSame ==
  ASSUME \A v \in Voices : Heard(v), UNCHANGED <<root, ring, loaded, rendered, played>>
  PROVE  \A v \in Voices : Heard(v)'
BY SameStays DEF Same, ring

LEMMA InitHolds ==
  ASSUME RenderAssumption, Init
  PROVE  IInv
<1>1. 0 \in Cells /\ Cells = 0 .. RingFrames - 1
  BY DEF RenderAssumption, Cells
<1>2. voice \in Voices
  BY DEF Init, RenderAssumption, Voices
<1>3. Empty \in [Cells -> Nat]
  BY <1>1 DEF Empty, Unset
<1>4. Typed
  BY <1>1, <1>2, <1>3 DEF Init, Typed, NoSource, Idle
<1>5. ASSUME NEW v \in Voices PROVE Heard(v)
  <2>1. /\ root[v] = NoSource /\ loaded[v] = Idle /\ write[v] = 0 /\ rendered[v] = 0
    BY DEF Init
  <2>2. \A i \in Cells : i # 0 => ~(Behind(i, 0) <= 0)
    BY <1>1, BehindType
  <2> QED
    BY <2>1, <2>2 DEF Heard, InOrder
<1> QED
  BY <1>4, <1>5 DEF Init, IInv, Copying, Busy

LEMMA AllocationStep ==
  ASSUME RenderAssumption, IInv, NEW s \in Sources, NEW v \in Voices, root[v] = NoSource,
         Allocated(v, s), UNCHANGED loaded, live' \in SUBSET Sources, GameRuns,
         UNCHANGED <<locals, faulted>>
  PROVE  IInv'
<1>1. 0 \in Cells /\ Empty \in [Cells -> Nat]
  BY DEF RenderAssumption, Cells, Empty, Unset
<1>2. Typed'
  BY <1>1 DEF IInv, Typed, Allocated, locals
<1>3. Heard(v)'
  <2>1. loaded[v] = Idle
    BY DEF IInv, Heard
  <2> QED
    BY <2>1, FreshIsHeard DEF IInv, Typed, Allocated
<1>4. ASSUME NEW u \in Voices \ {v} PROVE Heard(u)'
  BY SameStays DEF IInv, Typed, Allocated, Same
<1>5. Copying'
  BY DEF IInv, Copying, Busy, GameRuns, locals
<1> QED
  BY <1>2, <1>3, <1>4, <1>5 DEF IInv

LEMMA ReleaseStep ==
  ASSUME RenderAssumption, IInv, NEW vs, Released(vs), live' \in SUBSET Sources, GameRuns,
         UNCHANGED <<ring, locals, rendered, played, faulted>>
  PROVE  IInv'
<1>1. Typed'
  BY DEF IInv, Typed, Released, ring, locals
<1>2. ASSUME NEW v \in Voices PROVE Heard(v)'
  <2>1. CASE v \in vs
    <3>1. root'[v] = NoSource /\ loaded'[v] = Idle
      BY <2>1 DEF Released
    <3> QED
      BY <3>1, ReleasedIsHeard DEF IInv, ring
  <2>2. CASE v \notin vs
    <3>1. root'[v] = root[v] /\ loaded'[v] = loaded[v]
      BY <2>2 DEF Released
    <3> QED
      BY <3>1, SameStays DEF IInv, Same, ring
  <2> QED
    BY <2>1, <2>2
<1>3. Copying'
  BY DEF IInv, Copying, Busy, GameRuns, locals
<1> QED
  BY <1>1, <1>2, <1>3 DEF IInv

LEMMA GameStep ==
  ASSUME RenderAssumption, IInv, NEW s \in Sources,
         New(s) \/ Copy(s) \/ Uncopy(s) \/ Close(s) \/ Discard(s)
  PROVE  IInv'
<1>1. CASE New(s)
  <2>1. PICK v \in Unused(s) : Allocated(v, s)
    BY <1>1 DEF New
  <2>2. v \in Voices /\ root[v] = NoSource
    BY DEF Unused, Pool, Voices
  <2> QED
    BY <1>1, <2>1, <2>2, AllocationStep DEF New, IInv, Typed
<1>2. CASE Copy(s)
  <2>1. PICK v \in Unused(s) : Allocated(v, s)
    BY <1>2 DEF Copy
  <2>2. v \in Voices /\ root[v] = NoSource
    BY DEF Unused, Pool, Voices
  <2> QED
    BY <1>2, <2>1, <2>2, AllocationStep DEF Copy, IInv, Typed
<1>3. CASE Uncopy(s)
  BY <1>3, ReleaseStep DEF Uncopy, IInv, Typed
<1>4. CASE Close(s)
  BY <1>4, ReleaseStep DEF Close, IInv, Typed
<1>5. CASE Discard(s)
  <2>1. Typed'
    BY <1>5 DEF Discard, IInv, Typed, locals
  <2>2. ASSUME NEW v \in Voices PROVE Heard(v)'
    <3>1. CASE root[v] = s
      BY <1>5, <3>1, DiscardedIsHeard DEF Discard, IInv
    <3>2. CASE root[v] # s
      BY <1>5, <3>2, SameStays DEF Discard, IInv, Same
    <3> QED
      BY <3>1, <3>2
  <2> QED
    BY <1>5, <2>1, <2>2 DEF Discard, IInv, Copying, Busy, locals
<1> QED
  BY <1>1, <1>2, <1>3, <1>4, <1>5

LEMMA AudioThreadStep ==
  ASSUME RenderAssumption, IInv, NEW v \in Voices, Load(v) \/ Advance(v) \/ Note(v)
  PROVE  IInv'
<1>1. /\ UNCHANGED <<root, write, cells, live, locals, rendered, faulted>>
      /\ \A u \in Voices \ {v} : Same(u)
  BY DEF Load, Advance, Note, IInv, Typed, Same, ring
<1>2. CASE Load(v)
  <2>1. loaded' \in [Voices -> {Idle} \cup Cells \X Nat]
    BY <1>2 DEF Load, IInv, Typed
  <2>2. Heard(v)'
    BY <1>2, LoadedIsHeard DEF IInv
  <2>3. \A u \in Voices \ {v} : Heard(u)'
    BY <1>1, SameStays DEF IInv
  <2>4. Typed' /\ Copying'
    BY <1>1, <1>2, <2>1 DEF Load, IInv, Typed, Copying, Busy, locals, ring
  <2> QED
    BY <2>2, <2>3, <2>4 DEF IInv
<1>3. CASE Advance(v)
  <2>1. loaded[v] \in Cells \X Nat /\ loaded[v][1] \in Cells /\ loaded[v][2] \in Nat
    BY <1>3 DEF Advance, IInv, Typed
  <2>2. Goes(loaded[v][1]) \in Cells
    BY <2>1, GoesOn
  <2>3. /\ loaded' \in [Voices -> {Idle} \cup Cells \X Nat]
        /\ read' \in [Voices -> Cells] /\ played' \in [Voices -> Nat]
    BY <1>3, <2>1, <2>2 DEF Advance, IInv, Typed
  <2>4. Heard(v)'
    BY <1>3, AdvancedIsHeard DEF IInv
  <2>5. \A u \in Voices \ {v} : Heard(u)'
    BY <1>1, SameStays DEF IInv
  <2>6. Typed' /\ Copying'
    BY <1>1, <2>3 DEF IInv, Typed, Copying, Busy, locals
  <2> QED
    BY <2>4, <2>5, <2>6 DEF IInv
<1>4. CASE Note(v)
  <2>1. read' \in [Voices -> Cells] /\ read'[v] = write[v]
    BY <1>4 DEF Note, IInv, Typed
  <2>2. Heard(v)'
    BY <1>4, <2>1, DiscardedIsHeard DEF Note, IInv
  <2> QED
    BY <1>1, <1>4, <2>1, <2>2, SameStays DEF Note, IInv, Typed, Copying, Busy, locals
<1> QED
  BY <1>2, <1>3, <1>4
LEMMA RefillStep ==
  ASSUME RenderAssumption, IInv, Refill
  PROVE  IInv'
<1>1. CASE BeginRefill \/ NextSource \/ EndRefill
  BY <1>1, VoicesAreSame
     DEF BeginRefill, NextSource, EndRefill, Shared, ring, IInv, Typed, Copying, Busy
<1>2. CASE Call
  BY <1>2, VoicesAreSame DEF Call, ring, IInv, Typed, Copying, Busy
<1>3. CASE CallbackReturns
  <2>1. PICK n \in 0 .. Smaller(available, Block) :
          /\ produced' = n
          /\ at' = IF n = 0 THEN "voice" ELSE "copy"
          /\ faulted' = (faulted \/ (n > 0 /\ root[voice] # source))
    BY <1>3 DEF CallbackReturns
  <2>2. n \in Nat /\ n <= available /\ available \in Nat
    BY DEF Smaller, IInv, Typed, Cells, RenderAssumption
  <2>3. /\ at = "callback"
        /\ UNCHANGED <<root, ring, loaded, live, spent, rendered, played,
                       todo, snapshot, source, voice, available>>
    BY <1>3 DEF CallbackReturns
  <2>4. Typed'
    BY <2>1, <2>2, <2>3 DEF ring, IInv, Typed
  <2>5. Copying'
    <3>1. CASE n = 0
      BY <2>1, <2>3, <3>1 DEF IInv, Copying, Busy
    <3>2. CASE n # 0
      <4>1. n > 0 /\ at' = "copy" /\ produced' <= available'
        BY <2>1, <2>2, <2>3, <3>2
      <4> QED
        BY <2>1, <2>3, <4>1 DEF IInv, Copying, Busy
    <3> QED
      BY <3>1, <3>2
  <2> QED
    BY <2>3, <2>4, <2>5, VoicesAreSame DEF IInv
<1>4. CASE Write
  <2>1. /\ write[voice] \in Cells /\ Goes(write[voice]) \in Cells /\ rendered[voice] \in Nat
        /\ voice \in Voices
    BY GoesOn DEF IInv, Typed
  <2>2. /\ at = "copy" /\ ~faulted /\ produced > 0
        /\ produced' = produced - 1 /\ available' = available - 1
        /\ UNCHANGED <<root, read, loaded, live, played, faulted, at, source, voice, snapshot>>
    BY <1>4 DEF Write
  <2>3. produced' \in Nat /\ available' \in Cells /\ produced' <= available'
    BY <2>2 DEF IInv, Typed, Copying, Cells, RenderAssumption
  <2>4. /\ write' \in [Voices -> Cells] /\ rendered' \in [Voices -> Nat]
        /\ cells' \in [Voices -> [Cells -> Nat]]
    BY <1>4, <2>1 DEF Write, IInv, Typed
  <2>5. Typed' /\ Copying'
    BY <2>2, <2>3, <2>4 DEF IInv, Typed, Copying, Busy
  <2>6. Heard(voice)'
    <3>1. PICK v \in Voices : v = voice
      BY <2>1
    <3>2. Heard(v)'
      BY <1>4, <3>1, WrittenIsHeard
    <3> QED
      BY <2>2, <3>1, <3>2
  <2>7. ASSUME NEW v \in Voices, v # voice PROVE Heard(v)'
    BY <1>4, <2>7, SameStays DEF Write, Same, IInv, Typed
  <2> QED
    BY <2>2, <2>5, <2>6, <2>7 DEF IInv
<1>5. CASE Written \/ Full
  <2>1. 0 \in Cells
    BY DEF Cells, RenderAssumption
  <2> QED
    BY <1>5, <2>1, VoicesAreSame DEF Written, Full, Shared, ring, IInv, Typed, Copying, Busy
<1>6. ASSUME NEW s \in Sources, Visit(s) PROVE IInv'
  BY <1>6, VoicesAreSame DEF Visit, Visits, Of, Shared, ring, IInv, Typed, Copying, Busy
<1>7. ASSUME NEW v \in Voices, Skip(v) PROVE IInv'
  BY <1>7, VoicesAreSame DEF Skip, Shared, ring, IInv, Typed, Copying, Busy
<1>8. ASSUME NEW v \in Voices, AskRoom(v) PROVE IInv'
  <2>1. Room(v) \in Cells
    BY RoomIs DEF IInv, Room
  <2> QED
    BY <1>8, <2>1, VoicesAreSame DEF AskRoom, Shared, ring, IInv, Typed, Copying, Busy
<1> QED
  BY <1>1, <1>2, <1>3, <1>4, <1>5, <1>6, <1>7, <1>8 DEF Refill

LEMMA StepKeeps ==
  ASSUME RenderAssumption, IInv, [Next]_vars
  PROVE  IInv'
<1>1. CASE UNCHANGED vars
  BY <1>1, VoicesAreSame DEF vars, ring, locals, IInv, Typed, Copying, Busy
<1> QED
  BY <1>1, GameStep, AudioThreadStep, RefillStep DEF Next

LEMMA InvariantHolds ==
  ASSUME RenderAssumption
  PROVE  Spec => []IInv
<1>1. Init => IInv
  BY InitHolds
<1>2. IInv /\ [Next]_vars => IInv'
  BY StepKeeps
<1> QED
  BY <1>1, <1>2, PTL DEF Spec

(* What the update has still to visit are sources, and it writes no more   *)
(* than the block that it offered.                                         *)
Bounded == spent \in SUBSET Sources /\ todo \in SUBSET Sources /\ produced \in 0 .. Block

LEMMA BoundedStays ==
  ASSUME RenderAssumption, IInv, Bounded, [Next]_vars
  PROVE  Bounded'
<1>1. ASSUME NEW s \in Sources, New(s) \/ Copy(s) \/ Uncopy(s) \/ Close(s) \/ Discard(s) PROVE Bounded'
  BY <1>1 DEF Bounded, New, Copy, Uncopy, Close, Discard, locals
<1>2. ASSUME NEW v \in Voices, Load(v) \/ Advance(v) \/ Note(v) PROVE Bounded'
  BY <1>2 DEF Bounded, Load, Advance, Note, locals
<1>3. CASE BeginRefill \/ NextSource \/ EndRefill \/ Full \/ Call
  BY <1>3 DEF Bounded, BeginRefill, NextSource, EndRefill, Full, Call, Shared, IInv, Typed
<1>4. CASE Written
  BY <1>4 DEF Bounded, Written, Shared, RenderAssumption
<1>5. CASE CallbackReturns
  <2>1. PICK n \in 0 .. Smaller(available, Block) : produced' = n
    BY <1>5 DEF CallbackReturns
  <2>2. available \in Nat /\ Block \in Nat
    BY DEF IInv, Typed, Cells, RenderAssumption
  <2>3. n \in 0 .. Block
    BY <2>1, <2>2 DEF Smaller
  <2> QED
    BY <1>5, <2>1, <2>3 DEF Bounded, CallbackReturns
<1>6. CASE Write
  <2>1. produced' \in 0 .. Block
    BY <1>6 DEF Write, Bounded, RenderAssumption
  <2> QED
    BY <1>6, <2>1 DEF Bounded, Write
<1>7. ASSUME NEW s \in Sources, Visit(s) PROVE Bounded'
  BY <1>7 DEF Bounded, Visit, Visits, Shared
<1>8. ASSUME NEW v \in Voices, Skip(v) \/ AskRoom(v) PROVE Bounded'
  BY <1>8 DEF Bounded, Skip, AskRoom, Shared
<1>9. CASE UNCHANGED vars
  BY <1>9 DEF Bounded, vars, locals
<1> QED
  BY <1>1, <1>2, <1>3, <1>4, <1>5, <1>6, <1>7, <1>8, <1>9 DEF Next, Refill

(* Rings, their places and the update's locals have their types: no place  *)
(* is outside its ring, whatever the game does between two steps of either *)
(* thread (audio_callback_source.go:55).                                   *)
THEOREM RenderTypeCorrect ==
  ASSUME RenderAssumption
  PROVE  Spec => []TypeOK
<1>1. Init => Bounded
  BY DEF Init, Bounded, RenderAssumption
<1>2. IInv /\ Bounded /\ [Next]_vars => Bounded'
  BY BoundedStays
<1>3. IInv /\ Bounded => TypeOK
  BY DEF IInv, Typed, Bounded, TypeOK, Cells
<1> QED
  BY <1>1, <1>2, <1>3, InvariantHolds, PTL DEF Spec

(* The audio thread hears what was rendered in its order, each frame       *)
(* once, and of a PCM source every frame (audio_callback_source.go), with  *)
(* no lock on the ring and whatever notes, parameters and callbacks do.    *)
THEOREM HeardInOrder ==
  ASSUME RenderAssumption
  PROVE  Spec => PlaysInOrder
<1>1. IInv => \A v \in Voices : loaded[v] # Idle /\ loaded'[v] = Idle /\ root'[v] # NoSource =>
                IF root[v] \in Generators THEN loaded[v][2] > played[v]
                                          ELSE loaded[v][2] = played[v] + 1
  <2> SUFFICES ASSUME IInv, NEW v \in Voices, loaded[v] # Idle
               PROVE  IF root[v] \in Generators THEN loaded[v][2] > played[v]
                                                ELSE loaded[v][2] = played[v] + 1
    OBVIOUS
  <2>1. /\ played[v] < loaded[v][2]
        /\ root[v] \notin Generators => loaded[v][2] = played[v] + 1
    BY DEF IInv, Heard, Ahead
  <2>2. loaded[v][2] \in Nat /\ played[v] \in Nat
    BY DEF IInv, Typed
  <2> QED
    BY <2>1, <2>2
<1> QED
  BY <1>1, InvariantHolds, PTL DEF PlaysInOrder

-----------------------------------------------------------------------------
(* Closed sources are silent. *)

(* The update renders for a source that lives and for its voices only: a   *)
(* callback cannot close what it renders for.                              *)
Attended ==
  /\ ~faulted
  /\ Busy => source \in live /\ \A v \in snapshot : root[v] = source
  /\ at \in {"render", "callback", "copy"} => root[voice] = source

LEMMA AttendedStays ==
  ASSUME RenderAssumption, ClosesItself = FALSE, IInv, Attended, [Next]_vars
  PROVE  Attended'
<1>1. Busy => source # NoSource
  BY DEF IInv, Copying, Busy, RenderAssumption, NoSource
<1>2. ASSUME NEW s \in Sources, New(s) \/ Copy(s) PROVE Attended'
  <2>1. PICK v \in Unused(s) : Allocated(v, s)
    BY <1>2 DEF New, Copy
  <2>2. v \in Voices /\ root[v] = NoSource
    BY DEF Unused, Pool, Voices
  <2>3. /\ root' = [root EXCEPT ![v] = s] /\ live \subseteq live'
        /\ UNCHANGED <<locals, faulted>>
    BY <1>2, <2>1 DEF New, Copy, Allocated
  <2>4. \A u : root[u] = source /\ Busy => root'[u] = source
    BY <1>1, <2>2, <2>3 DEF IInv, Typed
  <2> QED
    BY <2>3, <2>4 DEF Attended, Busy, locals
<1>3. ASSUME NEW s \in Sources, Uncopy(s) \/ Close(s) PROVE Attended'
  <2>1. /\ at \in {"idle", "callback"}
        /\ Busy => s # source
    BY <1>3, <1>1 DEF Uncopy, Close, Shielded, Busy, GameRuns
  <2>2. UNCHANGED <<locals, faulted>> /\ (live' = live \/ live' = live \ {s})
    BY <1>3 DEF Uncopy, Close
  <2>3. ASSUME NEW u \in Voices, root[u] # s PROVE root'[u] = root[u]
    BY <1>3, <2>3 DEF Uncopy, Close, Released, Of
  <2>4. snapshot \subseteq Voices /\ voice \in Voices
    BY DEF IInv, Typed
  <2>5. UNCHANGED <<at, source, voice, snapshot>>
    BY <2>2 DEF locals
  <2>6. Busy => source \in live' /\ \A v \in snapshot : root'[v] = source
    BY <2>1, <2>2, <2>3, <2>4 DEF Attended
  <2>7. at \in {"render", "callback", "copy"} => root'[voice] = source
    BY <2>1, <2>3, <2>4 DEF Attended, Busy
  <2> QED
    BY <2>2, <2>5, <2>6, <2>7 DEF Attended, Busy
<1>4. ASSUME NEW s \in Sources, Discard(s) PROVE Attended'
  BY <1>4 DEF Discard, Attended, Busy, locals
<1>5. ASSUME NEW v \in Voices, Load(v) \/ Advance(v) \/ Note(v) PROVE Attended'
  BY <1>5 DEF Load, Advance, Note, Attended, Busy, locals
<1>6. CASE BeginRefill \/ NextSource \/ EndRefill
  BY <1>6 DEF BeginRefill, NextSource, EndRefill, Shared, Attended, Busy
<1>call. CASE Call
  BY <1>call DEF Call, Attended, Busy
<1>ends. CASE Written \/ Full
  BY <1>ends DEF Written, Full, Shared, Attended, Busy
<1>7. CASE CallbackReturns
  BY <1>7 DEF CallbackReturns, Attended, Busy
<1>8. CASE Write
  BY <1>8 DEF Write, Attended, Busy
<1>9. ASSUME NEW s \in Sources, Visit(s) PROVE Attended'
  BY <1>9 DEF Visit, Visits, Of, Shared, Attended, Busy
<1>10. ASSUME NEW v \in Voices, Skip(v) \/ AskRoom(v) PROVE Attended'
  BY <1>10 DEF Skip, AskRoom, Shared, Attended, Busy
<1>11. CASE UNCHANGED vars
  BY <1>11 DEF vars, locals, Attended, Busy
<1> QED
  BY <1>2, <1>3, <1>4, <1>5, <1>6, <1>call, <1>ends, <1>7, <1>8, <1>9, <1>10, <1>11 DEF Next, Refill

(* Once a source is closed its callback is called no more, and no frame is *)
(* written to a voice that is not, or no longer, the source's (API.md,     *)
(* "suppresses future render calls"), as long as no callback closes the    *)
(* source that it renders for: closing is allowed anywhere else, also      *)
(* while another source is refilled.                                       *)
THEOREM ClosedStaySilent ==
  ASSUME RenderAssumption, ClosesItself = FALSE
  PROVE  Spec => []ClosedIsSilent
<1>1. Init => Attended
  BY DEF Init, Attended, Busy
<1>2. IInv /\ Attended /\ [Next]_vars => Attended'
  BY AttendedStays
<1>3. Attended => ClosedIsSilent
  BY DEF Attended, ClosedIsSilent
<1> QED
  BY <1>1, <1>2, <1>3, InvariantHolds, PTL DEF Spec
=============================================================================
