------------------------------ MODULE Objects ------------------------------
(***************************************************************************)
(* Games and the native objects they own.  A behaviour is that of one      *)
(* game, which either plays in an audio graph or draws: the record of what *)
(* is open, freed and held is the same for both; or it waits for the       *)
(* completions of its players, or renders audio of its own, or draws in    *)
(* callbacks that lend it memory.                                          *)
(***************************************************************************)
EXTENDS AudioGraph, AudioCallbacks

CONSTANTS
  Bitmaps, Views, Tables, Fonts, TileMaps, Sprites, Callers, Guests, GuestOf, Videos, \* see Display
  Drawings,       \* sets of objects that a game that draws creates
  CallbackLimit,  \* spriteCallbackLimit
  Renderers,      \* PCM callback sources and generator synths,
  Generators,     \* and which are generators: see RenderedAudio
  Rings, Copies, RingFrames, Block, Rendered,
  Images, LentImages, Height, Nesting, MaxViews  \* see Scopes

VARIABLES
  subject,    \* what the game does
  users, added, listed, installed, callbacks,
  root, read, write, frames, loaded, live, spent, todo, snapshot, at, source, voice,
  available, produced, rendered, played, crashed, \* rendered audio
  freedBitmaps, scopes, given, stencilActive, stencil, contexts, marked, touched, strayed \* callbacks

Display == INSTANCE Display WITH
  Of <- GuestOf, Scenes <- Drawings, Limit <- CallbackLimit, BorrowedMasks <- FALSE, GuestsListed <- FALSE

Sound == INSTANCE RenderedAudio WITH
  Sources <- Renderers, Slots <- Rings, Frames <- Rendered, ClosesItself <- FALSE,
  cells <- frames, faulted <- crashed

Lent == INSTANCE Scopes WITH
  Frames <- LentImages, ClosesBorrowed <- FALSE, closed <- freedBitmaps, views <- given

ASSUME ObjectsAssumption ==
  NumbersSuffice /\ Display!DisplayAssumption /\ Sound!RenderAssumption /\ Lent!ScopesAssumption

display == <<users, added, listed, installed, callbacks>>
sound == <<root, read, write, frames, loaded, live, spent, todo, snapshot, at, source,
           voice, available, produced, rendered, played, crashed>>
scoped == <<freedBitmaps, scopes, given, stencilActive, stencil, contexts, marked, touched, strayed>>

GraphAtRest ==
  /\ planned = {} /\ open = {} /\ freed = {}
  /\ holds = {} /\ heldBy = {} /\ native = {} /\ panicked = FALSE
DisplayAtRest ==
  /\ users = [k \in Display!Counted |-> 0]
  /\ added = {} /\ listed = {} /\ installed = {} /\ callbacks = 0

ObjectsInit ==
  /\ \/ subject = "audio" /\ Init /\ DisplayAtRest
     \/ subject = "display" /\ Display!Init /\ heldBy = {} /\ panicked = FALSE
     \/ subject \in {"completions", "sound", "scopes"} /\ GraphAtRest /\ DisplayAtRest
  /\ CompletionInit
  /\ subject # "completions" => count = 0
  /\ Sound!Init /\ Lent!Init

ObjectsNext ==
  /\ UNCHANGED subject
  /\ \/ /\ subject = "audio"
        /\ Next
        /\ UNCHANGED <<display, completions, sound, scoped>>
     \/ /\ subject = "display"
        /\ Display!Next
        /\ UNCHANGED <<heldBy, panicked, completions, sound, scoped>>
     \/ subject = "completions" /\ CompletionNext /\ UNCHANGED <<vars, display, sound, scoped>>
     \/ subject = "sound" /\ Sound!Next /\ UNCHANGED <<vars, display, completions, scoped>>
     \/ subject = "scopes" /\ Lent!Next /\ UNCHANGED <<vars, display, completions, sound>>

ObjectsSpec ==
  ObjectsInit /\ [][ObjectsNext]_<<subject, vars, display, completions, sound, scoped>>

ObjectsTypeOK ==
  /\ IF subject = "display" THEN Display!TypeOK ELSE TypeOK
  /\ CompletionTypeOK /\ Sound!TypeOK /\ Lent!TypeOK

(* Nothing is freed while something alive uses it (audio_graph.go:136,     *)
(* runtime.go:896, runtime.go:1544), and calls that get past the checks of *)
(* their wrapper reach live objects; so does what is drawn and set inside  *)
(* callbacks (runtime.go:3775-3806).                                       *)
NothingFreedInUse ==
  /\ Lent!NothingStrays
  /\ IF subject = "audio" THEN NothingDangling /\ CallsReachLiveObjects
     ELSE Display!NothingDangling /\ Display!CallsReachLiveObjects

(* The native channels form no cycle: API.md:800. *)
ChannelsAcyclic == subject = "audio" => NoCycle

(* What the runtime remembers is what the native graph holds (see          *)
(* SidesAgree), and no source is heard at two places: API.md:799, :800.    *)
(* Users of a resource and callbacks of sprites are counted exactly        *)
(* (runtime.go:1544, API.md:718), so that closing is refused when, and     *)
(* only when, it must be, and the display list is what the wrappers say    *)
(* (sprite.go:3).  What a callback lends ends with it (API.md:576, :580).  *)
ObjectsAgree ==
  /\ subject = "audio" => SidesAgree /\ HeardOnce /\ NoCycle
  /\ subject = "display" => Display!UsersCounted /\ Display!SlotsCounted /\ Display!ListAgrees
  /\ subject = "scopes" => Lent!NativeFollowsScopes /\ Lent!ViewsEnd

(* A callback that runs is that of the oldest completion, was not taken    *)
(* back, and if it may run once is gone (audio.go:60); and what the game   *)
(* rendered is heard in its order (audio_callback_source.go:55).           *)
SoundInOrder == OneShotsRunOnce /\ Sound!PlaysInOrder

(* No closed source is rendered for, as long as no callback closes what it *)
(* renders for (API.md, "suppresses future render calls").                 *)
ClosedIsSilent == Sound!ClosedIsSilent
=============================================================================
