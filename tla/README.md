# Formal models of gopdsdk

gopdsdk is a Go SDK for the Playdate handheld: a runtime library that a game is
compiled with (`playdate/`, `internal/features/runtime`), and a host tool that
builds, deploys and analyses games (`cmd/gopdsdk`, the other packages of
`internal/`). This directory holds TLA+ models of its stateful parts, the TLC
configurations that check them on small instances, and theorems that TLAPS
checks for every value of the constants.

## The system

The game runs on one thread. The system delivers events (init, pause, lock,
terminate, ...) and, about thirty times a second, an update callback; a second,
native thread renders audio and only communicates through queues and rings.
The host tool is an ordinary concurrent Go program; its language server is the
part with real interleavings.

| component | state | operations | what is hard | what makes it correct |
| --- | --- | --- | --- | --- |
| cooperative scheduler (`playdate/schedule/schedule.go`) | task slots with generations, a FIFO ring, a count of pending tasks, the window of the running Update | Schedule, ScheduleAfter, ScheduleAt, Cancel, Terminate, Update | a task's step calls the scheduler while Update walks the FIFO; the clock wraps | every task has one home, a frame visits each task once, none starts early, none starves |
| queue and poller (`playdate/schedule/queue.go`) | rings, round-robin priority | TrySend, TryReceive, Clear, poll | ring indices, references left behind | FIFO order, no retention, no starved queue |
| versioned store (`playdate/store`) | stored, temporary and backup file | Save, Load | every filesystem call may fail, power may be lost between any two | the value is replaced completely or kept |
| application lifecycle (`runtime.go`) | initialized, terminated, failed; menu items, recorder, accelerometer | Handle, Update, context calls | callbacks that fail, calls during termination | nothing of the game outlives termination |
| audio graph (`audio_graph.go`, `audio_effects.go`, `runtime.go`) | sources, channels, effects, signals, who uses whom | create, connect, disconnect, close | native calls that fail half way, handles used after close | no native object is freed while another refers to it |
| sequences (`audio_sequence.go`) | tracks, instruments, voices, callbacks | attach, detach, play, close | shared instruments, closing in any order | as above |
| audio callbacks (`audio.go`) | completion queue, registered callbacks | native completion, drain, forget | two threads, a queue of 32 | a callback fires at most once and never after it is forgotten |
| PCM and generator rings (`audio_callback_source.go`, `bridge.c.tmpl`) | ring indices, sample buffers | refill, render | producer and consumer on two threads | no sample is read before it is written |
| bitmaps, tables, masks, menu image (`runtime.go`) | handles, user counts, borrowed views | create, mask, view, draw, close | borrowed objects outliving their owner | a bitmap in use cannot be closed |
| sprites and tile maps (`runtime.go`) | display list, callbacks, users | add, remove, callbacks, close | callbacks during iteration, a limit of 64 | the display list holds live sprites only |
| microphone, scoreboards, menu (`microphone.go`, `scoreboards.go`, `menu.go`) | pending requests, active recorder, items | request, native answer, cancel, close | late and repeated native answers | an answer reaches the request it belongs to |
| analyzer: language server and incremental engine (`lsp.go`, `incremental.go`) | documents, versions, running analyses, cache | open, change, close, analyse, publish | goroutines that finish out of order | diagnostics never go back in time |
| analyzer: execution (`registry.go`) | executions of an analyzer on a package | claim, wait, run, fail, cancel | waiting goroutines | each analyzer runs once on a package, in dependency order; no deadlock |
| debug messages, diagnostics, files, JSON (`debug.go`, `diagnostics.go`, `runtime.go`, `json.go`) | a queue; counters; handles; a document | send and poll; record; open, seek, close; decode, encode | limits met exactly, counters that saturate, handles reused by others | what is read is what was written, or a refusal |
| callbacks that lend something (`runtime.go`) | framebuffer views, drawing contexts, the stencil | enter, draw, return | nesting, failing callbacks, views kept after them | what a callback lends ends with it |
| artifact replacement, builds (`artifactreplace`, `build`, `deviceprobe`) | the output path with its stage and backup siblings, workspaces | stage, publish by two renames, roll back, install, launch | crashes, interrupts and other builders between two renames | a whole package, old or new; a true report |
| device and Simulator commands (`devicedisk`, `devicelog`, `deviceconnect`, `simprobe`) | what a command waits for, the device's mode, the Simulator process | mount, eject, copy logs, ask, launch, kill | the device comes and goes, answers race deadlines | an answer tells what was so; every command ends |
| analyzer: check and baseline (`run.go`, `fixes.go`, `administration.go`, `baseline.go`, `suppression.go`) | findings, fixes, the baseline file | check, fix, create, update, validate | sources edited meanwhile, failing calls, deaths | no edit and no baseline is lost; the exit code is right |
| analyzer: ownership, termination, capability rules, device reachability (`ownership_*.go`, `application_*.go`, `capability_*.go`, `device_reachability.go`) | work lists over blocks, summaries | summarise, visit a block, report | paths that join, helpers that call each other, closures | what is reported happens, and what happens is reported where promised |
| pattern rules, doctor, project creation, examples | - | - | I/O and one-pass matching | not modelled, see below |

## Modules

| module | models | composed with |
| --- | --- | --- |
| `Schedule` | `Scheduler` of `schedule.go`: tasks, the FIFO, Update as a loop of steps, the steps' own calls, the wrapping clock | - |
| `ScheduleProofs` | its inductive invariant and theorems | extends `Schedule` |
| `Fifo` | abstract: a bounded FIFO from which an item may also be removed | - |
| `ReadyRing` | the scheduler's ring and its in-place removal | implements `Fifo` |
| `BoundedQueue` | `Queue` and `Poller` of `queue.go` | each queue implements `Fifo` |
| `AtomicStore` | abstract: a value that a save replaces completely or not at all | - |
| `Store` | `Save` and `Load` of `store.go`, one filesystem call a step, with faults and power losses | implements `AtomicStore` |
| `Application` | `Runtime` and what `applicationContext` keeps for a game: system settings, menu and its handles, menu image, button callback | - |
| `Microphone` | `MicrophoneService` and the adapter's callback slots | - |
| `Scoreboards` | `ScoreboardService`, the adapter's slots and the answer queue | - |
| `PartsProofs` | proofs that queues are FIFOs and that none starves; that saves are atomic and what a load returns; of recorders and permission requests; that each scoreboard request has its one answer; of what termination takes back and that it is final | extends `Microphone`, `Scoreboards`, `Application`, `Store` and `BoundedQueue`, one section each |
| `JsonCodec` | `Decode` and `Encode` of `playdate/json`, with a reference grammar | - |
| `Collector` | the measurements of `playdate/diagnostics` | - |
| `DebugMessages` | the queue of serial messages | - |
| `OwnedFiles` | opened files, their native handles and positions | - |
| `Edges` | references between objects | - |
| `AudioGraph` | channels, sources, effects, signals, samples and the music graph: connecting and closing | extends `Edges` |
| `AudioCallbacks` | completion callbacks: their table, the queue of the audio thread, the drain | - |
| `RenderedAudio` | PCM sources and generators: refilling and playing their rings on two threads | - |
| `RenderedAudioProofs` | proofs that frames are heard in order and closed sources stay silent | extends `RenderedAudio` |
| `Display` | bitmaps, masks, tables, fonts, video players, sprites, tile maps: lending, connecting and closing | extends `Edges` |
| `DisplayProofs` | proofs that users and callbacks are counted and that nothing freed is drawn | extends `Display` |
| `Scopes` | what a game may use only inside a callback: framebuffer, pixels, contexts, the stencil | - |
| `ScopesProofs` | proofs that what a callback lends ends with it | extends `Scopes` |
| `Objects` | games: each plays, draws, waits for completions, renders sound or draws inside callbacks | extends `AudioGraph` and `AudioCallbacks`, has instances of `Display`, `RenderedAudio` and `Scopes` |
| `ObjectsProofs` | proofs about completions; that the records of the audio graph agree and nothing freed is used; and about all games from the proofs of their parts | extends `Objects`, has instances of the other three modules of proofs |
| `IncrementalEngine` | `IncrementalEngine.Analyze`: versions, the fingerprint, the cache | - |
| `LanguageServer` | `lspServer`: documents, folders, the goroutines that analyse and publish | extends `IncrementalEngine`, whose calls are steps of its goroutines |
| `Executor` | `Registry.Run`: goroutines that claim executions and wait for those of others | - |
| `HostProofs` | proofs that executions are ordered and determined, and of no circular wait; that diagnostics go forward, and that the cache is faithful; that packages survive, and that reports are true | extends `Executor`, `LanguageServer` and `HostCommands` |
| `Builds` | builders of packages that publish to one path, install and launch | - |
| `Probes` | commands that wait for the device or a Simulator | - |
| `HostCommands` | what builders and waiting commands report, together | extends `Builds` and `Probes` |
| `Summaries` | what the ownership analysis learns of a package's functions | - |
| `Ownership` | the ownership rules on one function, beside its executions | extends `Summaries`, whose result it uses |
| `Reachability` | how code for the device leads to what the device does not have | - |
| `CallPaths` | the calls that an application's callbacks are said to make, beside their executions | - |
| `Terminations` | the two proofs that a termination loses a resource, beside its executions | - |
| `Capabilities` | the rules on optional capabilities, beside a game that runs | - |
| `CheckCommand` | `check` and `baseline` on sources that are edited meanwhile | - |
| `CheckCommandProofs` | proofs that no edit, no baseline and no reason in one is lost, and that exit codes are right | extends `CheckCommand` |
| `MCSchedule` | small instances of one module | |
| `MCParts` | small instances of `ReadyRing`, `BoundedQueue`, `Store`, `Microphone`, `Scoreboards`, `Application`, `JsonCodec`, `Collector`, `DebugMessages` and `OwnedFiles` | |
| `MCObjects` | small games for `Objects`: what each creates | |
| `MCHost` | small instances of `Executor`, `LanguageServer` and `HostCommands` | |
| `MCAnalysis` | small packages, functions, handlers, callbacks, games and sessions for `Summaries`, `Ownership`, `Reachability`, `CallPaths`, `Terminations`, `Capabilities` and `CheckCommand` | |

Parts that share no state are checked side by side: the first state of a
behaviour chooses the part (`subject`) and, of `MCObjects`, the objects of the
game (`planned`), and the other parts stay as they are. Nothing is lost by that,
since no step of one part reads the state of another, and one run answers for
all of them.

The modules of proofs are not run. The instances (`MCSchedule`, `MCParts`,
`MCObjects`, `MCHost`, `MCAnalysis`) extend the modules that have theorems or take instances of
them, so that what TLC checks and what is proved are the same definitions, and TLC
evaluates the hypotheses of the theorems there.

## Runs

| run | instance | shows |
| --- | --- | --- |
| `schedule` | 2 tasks, 2 steps a frame, a budget of 1 tick, 3 calls a step, a clock of 4 ticks, 2 generations; fair frames | all safety of the scheduler; every task is served |
| `schedule_cancel` (finding) | the same without a budget | a step's Cancel costs another task its visit |
| `parts` | ring of 4; 2 queues of 3; a store with 2 values, versions 1 to 3, and 3 faults with 3 power losses or 2 faults of which both may be renames; 3 recorders, 4 requests; 3 kinds of boards, 2 requests each; an application with 2 menu handles, 3 items, 2 bitmaps, 1 waiting button transition; some 8600 documents and 470 values; measurements of up to 4 frames; serial queues of 0, 1 and 3 messages; 2 files with 2 handles | refinements of `Fifo` and `AtomicStore`, the asynchronous services and their liveness, what termination takes back and that it is final, what is decoded, measured, polled and positioned |
| `store_lost` (finding) | 1 power loss, 1 failing rename | the only copy is removed |
| `objects` | 8 games that play and 6 that draw, of 3 to 9 objects; a player and a sequence with 3 registrations, a queue of 2; 2 sources and 4 frames in rings of 2; callbacks 3 deep with 2 views | both sides of every connection agree, nothing freed is used, no cycle, counts, the display list; a completion finds its callback or none; sound is heard in order; what is lent ends with its callback |
| `audio_cycle` (finding) | 2 wrappers of the default channel | a cycle that is not recognised |
| `render_closes` (finding) | 1 source or generator whose callback closes it | a handle of zero is written to and nil is called |
| `host` | 4 analyzers on 3 packages; 2 analyses in flight, 2 targets, 2 edits, 2 other events; 2 builders, 2 failing calls, 1 interrupt, 1 death; 2 commands of the device or the Simulator, 1 interrupt | executions once and in order, nobody waits in a circle; diagnostics settle on the last text and never go back; packages survive, reports are true and everything ends |
| `server_reopened` (finding) | the server as in `host` | edits of a folder that was removed and added again are not analysed |
| `analysis` | some 3500 packages of 3 functions, 4300 functions, 2000 games, 26000 termination handlers, 96 games of 5 packages, 2000 callbacks, 590 sessions with 1 edit and 1 fault | what analyses report happens, and what they promise to find is reported; no edit and no baseline is lost |
| `ownership_transfer` (finding) | the functions of `analysis` | a function that returns or stores its handle is said to leak it |
| `capability_joined` (finding) | games with an `if` that has no `else` | an assertion that may succeed is said to fail |

A run checks at most a few properties a part, so that some are conjunctions of
what the modules state:

| property | conjoins |
| --- | --- |
| `ReadsFaithfully` | `LoadsFaithfully` of `Store`, `ReportsObserved` of `Collector`, `NewestInOrder` of `DebugMessages`, `FilesAgree` of `OwnedFiles` |
| `RingsImplementFifo` | `Implements` of `ReadyRing` and of `BoundedQueue` |
| `ObjectsAgree` | `SidesAgree`, `HeardOnce` and `NoCycle` of `AudioGraph`; `UsersCounted`, `SlotsCounted` and `ListAgrees` of `Display`; `NativeFollowsScopes` and `ViewsEnd` of `Scopes` |
| `NothingFreedInUse` | `NothingDangling` and `CallsReachLiveObjects` of `AudioGraph` or `Display`, `NothingStrays` of `Scopes` |
| `SoundInOrder` | `OneShotsRunOnce` of `AudioCallbacks`, `PlaysInOrder` of `RenderedAudio` |
| `PackageSurvives` | `PackageIsWhole` and `Tidy` of `Builds` |
| `ReportsTruly` | `BuildsReportTruly` of `Builds`, `AnswersTruly` of `Probes` |
| `EverythingEnds` | `Settles` of `LanguageServer`, and that builders and commands end |
| `SummariesTrue` | `SummariesExact` of `Summaries`, `PathsLeast` of `Reachability` |
| `MisusesTold` | `MisuseReported` of `Ownership`, `LossesTold` of `Terminations`, `PathsTrue` of `CallPaths` |

The other properties of the runs are those of the modules under the same name.
Some of those have parts of their own there: `QueuesAreFair`
(`NothingRetained`, `NobodyStarves`), `RecordingAsPermitted` (`RecordersAgree`,
`DeniedMeansSilent`), `EachRequestAnswered` (`PendingIsOnItsWay`,
`AnswersOwnRequest`), `NothingLeftBehind` (`ControlsRestored`,
`MenuAndMotionEnded`, `MenuItemsOwned`, `MenuImageAlive`), `CompletionsKept`
(`CompletionsFindTheirOwner`, `RetainedByPlayers`) and `ExecutesInOrder`
(`RunsOnceInOrder`, `NoCircularWait`).

### Schedule

`live`, `due` and `generation` are the slot table, `ready` the FIFO, `pending`,
`terminated`, `updating` and `remaining` the fields of the same names. `frame`
holds the locals of Update (start, now, steps taken) and `current` the task
whose step is running. Update is `BeginUpdate`, then `StartStep` or `Defer` for
every visited slot, one `Return...` action for what the step returned, and
`EndUpdate`; while `current` is set the step may make up to `CallsPerStep`
calls. `unvisited` and `wait` are history variables for the properties. A call
that fails changes nothing and is a stuttering step.

Runs: `schedule` (types, termination from inside a step, a step's return
touches its own task, FIFO, slots and count agree, a frame visits a task once,
no step starts early although the clock wraps, every task is served) and
`schedule_cancel`.

Bounds: two slots are enough for a task that cancels, reuses and overtakes
another; generations wrap at 2 instead of 2^32 - 1 and the clock at 4 ticks
instead of 2^32, so both wraps happen; three calls a step allow a task to cancel
itself, to schedule another into its slot and to cancel that one too. The proofs
hold for every size of the clock.

Liveness assumes that the game keeps calling Update, that Update and the steps go
on until they return (the device's main loop and the documented contract of a
step) and that time passes. `EveryTaskIsServed` is stated for the behaviours in
which `ServedInTime` always holds: no task is left due for half the clock's range
(24 days), after which the code takes its deadline for a future one. The clock is
fair only as long as it keeps that condition, so that a task passed over for ever
is a violation and not a clock that has run on.

All of its safety properties are proved in `ScheduleProofs` (see Proofs); its
liveness is model-checked.

### ReadyRing, BoundedQueue, Fifo

`ReadyRing` has the ring's array, head and length; `Compacted` replays the loop
of `removeQueued`, which reads cells it may have written. `Implements` is the
refinement of `Fifo` under the sequence read off the ring. `BoundedQueue` has
the same refinement for two queues of three cells, the zeroing of released
cells, and the poller: `passed` counts the polls a queue lost while it had a
value. Capacities of four and three are enough for every head position to wrap.

### Store

`disk` holds the three files; a file is complete (version and value), corrupt or
torn. `op` is the next filesystem call. A power loss (`Crash`) drops the
operation and keeps the files; renames are atomic and a flushed, closed file
survives, which is assumed of the Playdate filesystem. `overwrites` chooses
between the two kinds of platform the code is written for. `Faulty` names the
calls that may fail on their own.

Each behaviour has one of the instance's trials: every call but rename may fail,
three times, with three power losses; or any two calls fail while the power stays
on. Under both `Store` implements `AtomicStore` with the mapping "the value the
next Load would find". With a rename failure after a power loss the code loses
the value (`LastValueSurvives`, run `store_lost`). A failing Stat beside an old
backup rolls the value back: `LoadKeepsValue` states that this does not happen
and is violated under `StatAfterLoss`; it is listed as a hazard.

### Application

`initialized`, `terminated` and `failed` are the runtime's fields; each event,
frame, menu selection and button transition is an action that enters the game's
code, one `Return...` action that ends it with or without an error, and
`GameCall` between them. Native menu handles are reused as soon as an item is
removed, which is what makes a stale item dangerous. System termination is one
event: settings restored first, then the game's handler, then the rest.
`SilentAfterTermination` says that no code of the game starts afterwards.
`FailureStops`, that a failed game is not entered again, holds for events and
frames but not for menu selections and waiting button transitions.

### Microphone and Scoreboards

The native side may answer late, twice or never in an order of its own; a
callback of the game may call the service again, at most `Nesting` deep. In
`Microphone` the adapter's slots are part of the state, because the service
installs and clears them around calls that may run the game's code.
In `Scoreboards` the answer queue has one cell a kind; that it never overflows
follows from a kind being `pending` until its answer has been drained.
`NeverStuck` assumes weak fairness of frames and of the return of
callbacks, which is the device's main loop, and strong fairness of the native
answer to a request it accepted, which is the documented contract of the
Playdate API. Without the last no implementation could satisfy them.

### JsonCodec

Decoding is a step for each call of the reader (`Read`: some bytes or none, with or
without an end or an error), of which the one that meets the end parses what was
read; encoding is one step, into a writer that takes everything, fails or stops
short. The parser is a set of recursive operators that follow `json.go`'s: each
returns where it stopped, what it got and whether it failed. `CodecAgrees` compares
it with a reference (`Denoted`) that says what a text denotes by the grammar, as the
set of values of all ways to cut it, and with the limits measured on that value.
Bytes are characters or pairs of hexadecimal digits, so that an escape, a surrogate,
an overlong or a cut rune are all in small documents.

Bounds: chunks of 2 bytes instead of 512, 2 reads of nothing instead of 100,
limits around the size of the documents, all numbers up to 4 characters, all
quotations of up to two marks, and every document that one change makes of a
correct one. `unicode/utf8` is external, with the runes of the documents. Left out:
`Lookup`, the offset and path of errors, and indents other than the default.

### Collector, DebugMessages, OwnedFiles

`Collector` is checked against the samples it accepted: `ReportsObserved` gives
minimum, maximum, mean and percentiles their definition over `observed`. Three
buckets instead of 256, four frames instead of 36000 and a word of 2 instead of
2^63 make the tail bucket, the last frame and a heap above the middle of the word
happen.

`DebugMessages` sends up to five messages to queues of no, one and three cells (8
in the code), which the game polls until it has ended. `NewestInOrder` says
which messages are lost, and to which.

`OwnedFiles` has two wrappers, two native handles that are given back and reused,
and a size that a seek or a tell may exceed (`Longest` stands for 2^31 - 1).
`expected` is the position that the answers of a file imply; `FilesAgree` says that
the file is there, that a wrapper's handle is its own file's, that a path leaves the
game's folder in no spelling, and that a file has one spelling. Assumed: the native
side frees a handle also when closing it fails. Left out: append mode, file options
and directory listings; `path.Clean` is external.

### AudioGraph

Every connection is an edge and is kept up to three times: in the user's field
(`holds`), in the used object's back references (`heldBy`) and in the native
graph (`native`). `SidesAgree` relates the three; `NothingDangling` says that no
native edge leads to a freed object. One action models one method with all its
native calls. Each game is of one kind (routing, a submix, level
signals, modulation, delay lines, samples, music, voices); in every game each
object may be created, connected and closed in every order, so two objects of a
kind and two parameters for a signal are enough for replacement, sharing and
closing while used.

Assumed of the native side: adding and removing what is attached succeeds, a
refused Add changes nothing, and freeing an object does not look for its users.
Left out: volumes, rates and positions, what is playing, and the order of notes.
`SetParameterModulator` keeps no record of its signal, so its parameters are
excluded from `NothingDangling`; `ClosingDetaches` states the rule without the
exception and is violated. So are `NeverPanics` (a closed signal passed to a
channel setter) and `NothingDangling` with `SharedTracks`, a track under two
indexes of one sequence. The first is listed as a hazard.

### AudioCallbacks and RenderedAudio

Both have two threads. In `AudioCallbacks` a completion happens on the audio thread
(`Complete`), waits in the device's own ring or on its way (`inFlight`), enters the
queue of the runtime (`Invoke`), and is looked up and run by the drain of a frame
(`Deliver`), while the game registers, replaces, forgets and closes, in its update
or inside a callback. The counter of numbers may be about to wrap; `LongGone` states
the one thing assumed then: no completion under way, and no slot that still has the
number of a spent callback, is 2^32 registrations old. Numbers are up to 7, the
queue has 2 cells instead of 32. With the queue full a completion is dropped, and a
one-shot callback with it: the model has it, and `RetainedByPlayers` says that
nothing is retained for ever by that.

In `RenderedAudio` the update visits sources and voices and asks the game's
callback for a block at a time; the audio thread reads a frame and moves its index
in two steps (`loaded`). A ring's write of a frame and its index are one step, since
the reader looks at the index first. Assumed: the two threads see each other's writes
in the order they were made (the bridge's indices are `volatile`, no more), and the SDK
calls the renderer and copies voices as its documentation says. A ring has 3
cells (2 frames fit) instead of 4096, and 4 frames make its indices wrap. A
callback may close any source but the one it renders for: `ClosesItself` adds that
one, and `ClosedIsSilent` then fails (run `render_closes`).

### Display

`holds` are the references in the wrappers' fields, `users` the counters beside
them, `native` what the native objects point to. Frames, glyphs and mask views
ask at every call whether what they were borrowed from is open (`Live`); masks,
tile maps and tables count users and refuse to be closed. `Storage` says whose
memory a borrowed bitmap uses: that of its table or font, or of the bitmap whose
mask it views (`API.md` calls the view "tied to the masked bitmap's storage").
`added` is the flag in a sprite's wrapper and `listed` the native display list.

Assumed of games, from `API.md`: sprites are closed or get another image before
the bitmaps, tables and fonts they show (lines 742 and 766; the guard `Shown`),
a queried sprite is forgotten when its owner is closed, and callbacks are set on
owned sprites (line 714). Two more constants choose what games do. With
`BorrowedMasks`, frames may be masks and masks of frames may be viewed; then
`CallsReachLiveObjects` fails, because a view asks only for its parent's own flag.
With `GuestsListed`, sprites are added through queried wrappers; then
`ListAgrees` and `ListedAlive` fail, because each wrapper has its own flag. Both
are `FALSE` in the run and noted under the hazards. Views of views of masks are at most
two deep. The callback limit is two instead of 64. What a callback draws, the
geometry of sprites and the contents of bitmaps are left out, as is the flag
that silences callbacks after termination.

### Scopes

`scopes` is the stack of callbacks that run, and `views` what the game was given and
keeps. `Return` is the deferred part of `WithFramebuffer`, `WithBitmapData`,
`DrawInto` and `WithStencil`. `NativeFollowsScopes` says that the native context and
stencil are those of the running callbacks, `ViewsEnd` that a view ends with its
callback and that every row set through one was marked by then. Two rows, three
callbacks inside one another, and two views are enough for views of the same and of
different targets, and for each to outlive the other. A drawing context does not
save the stencil, as in the SDK. Games close no bitmap inside its own callback
(`ClosesBorrowed`; `NothingStrays` fails otherwise, see the hazards), and a callback
that panics is left out.

### IncrementalEngine and LanguageServer

`latest` and `entries` are the engine's fields for one workspace; the order of
`entries` stands for the clock of their use. `call` holds the goroutines: where
each is, its version, its request, the key it computed and what it found. `at`
goes through the places where the code holds no lock, so a step is what happens
between two of them: `Enter` registers the version, `Fingerprint` reads the disk
and asks the cache, `Load` reads the disk again, `Analyze` runs the rules and asks
whether it was overtaken, `Store` puts the findings into the cache. What an
analysis finds is a function of what it read; the model keeps the inputs instead.

In `LanguageServer` the editor opens, changes, saves and closes one document of
one folder (`docs` is its text, numbered by `edits`), changes the settings,
removes and adds the folder, shuts down and asks for diagnostics
(`PullDiagnostics`). `Begin` is what `analyze` does under the lock, one engine
call for each target follows, and `Publish` stores the diagnostics under the lock;
`Refresh` tells the editor after it was released. `used` is a history variable:
the highest version a removed folder had.

`NeverOlder` and `Settles` claim nothing for versions up to `used`, where the
finding `server_reopened` applies. `CacheFaithful` holds with `TouchedMidway`
`FALSE`: when the disk changes between fingerprint and load, findings of the new
files are cached under the old key; that is listed as a hazard.

Bounds: two goroutines (the editor waits for a free one), two notifications of the
document, two targets instead of three, a cache of one snapshot instead of four so
that entries are evicted, two events that are not about the document, and texts of
which the second makes an analyzer fail. Fairness: goroutines are scheduled, and an
editor that was told to refresh asks. Left out: messages pushed with
`publishDiagnostics`, which are sent outside the lock and may arrive out of order
(why `Settles` speaks of the editor that asks), progress, code actions, rule help,
nested folders, and the versions of the document: editors number them upwards.
`NeverOlder` and `CacheFaithful` are proved for any number of goroutines, targets and
snapshots; `Settles` is model-checked.

### Executor

`state` and `result` are the shared map of executions; a goroutine is in the
executions of its `stack`, the innermost first, because `execute` calls itself for
the inputs. `Claim` takes an absent execution, `Take` and `TakeError` use one that
is ready, and a goroutine that needs one that is claimed can only wait.
`RunsOnceInOrder`, `OutcomeIsDetermined` and `NoCircularWait` need different
goroutines to reach the same execution along different paths, so the run has two
rules that list the same two prerequisites in opposite orders, one of which
follows imports into a package outside the snapshot, an analyzer that fails, a
package with type errors and a context that is canceled at any time. All three are
proved for every acyclic set of analyzers. Left out:
the findings themselves and the facts, a map under its own lock.

### Builds

A builder goes through `step`: plan, look at the output, make a workspace, write,
compile, link, package, stage beside the output, set the old one aside, commit,
install, launch, clean up. Each filesystem call of `artifactreplace` and each tool
is a step. Two builders meet at one output path, with and without `--force`, for the
Simulator and the device; two calls may fail, one builder may be interrupted at any
point and one may die. `PackageIsWhole` says that whatever happens the path or a
backup holds a whole package if there was one, or a builder has reported that it
could not restore it; `Tidy` what a returning builder leaves; `BuildsReportTruly` that
success, and each category of failure, says truly whether its package was published.
`EverythingEnds` says that launching is not retried for ever.

Assumed: a builder removes its temporary directories when it gets to it, and nobody
else writes to the output path. Two consequences of the code are in the model and
excluded from no property: without `--force` a builder that looks between another
one's two renames finds no package and publishes its own; and a failure to drop the
backup is reported as a failure though the new package is in place.

### Probes

Commands wait for a device that is plugged in, unplugged, ejected, comes back or
writes a log at any time. `seen` holds the modes of the device since a command
last acted, and `AnswersTruly` compares each answer with it. A timer
(`expired`) may be due together with an answer, and one command may be
interrupted. What the code says of three cases is imprecise, and the
property follows the code there: a mounted disk without
logs makes the log command switch the device again, which fails as "not-connected"; a disk
that vanishes looks like a missing log; and an interrupted mount or eject is reported
as a failure of it. `EverythingEnds` needs fair commands, time that passes, and a
deadline that is not passed over for ever by a poll that is due as well
(`SF` on `TimeIsUp`): Go's `select` chooses at random.

### Summaries and Ownership

`Summaries` repeats `Summarise` over the functions of a package in the order of the
source until a round changes nothing or eight are over. A body is a set of
instructions; `SummariesExact` compares what is known with what chains of calls may
do. The bodies are of at most two instructions, in two orders of the source, with
calls to each other, exchanged arguments and dispatch. A target of an interface call
that has no effects is skipped, as in `ownership_summaries.go:196`, and its callers
are not told of it.

`Ownership` visits blocks with what is known of the handles on the way there, and
then executes the function in all ways: constructors may fail, branches may go
either way, helpers do what their summaries say. `MisuseReported` compares the two.
The functions have up to seven blocks, of which two are varied freely and may be in
a loop, and up to three of four handles: a bitmap, an owner that may keep it, a
frame borrowed from it, and one that a helper made; both profiles are run. Where the
owner keeps nothing, the function closes the bitmap when there is no owner, so that
leaks of what it does later are told from leaks there.

A function may give a handle away: it returns it or stores it in a field (`give`), or
a closure captures it (`capture`), which puts the variable into memory, so that the
rules recognise it in no call, also where the function closes it itself (`Named`).
The code has no case for any of them, and reports the handle as leaking. `ReportsHappen`
therefore excuses a leak that is reported of a handle that some execution gives away,
or that is captured (`GivenAway`), and nothing else of such functions; the run
`ownership_transfer` states what `API.md:333` says, `LeaksAreReal`: a function that
misuses and leaks nothing is not said to leak. Helpers that store their parameter are
left out: their summaries have no case for it either.

Two families are left out because the code does not promise to follow them: a cleanup
that closes a handle while another that may not have been made keeps it
(`API.md:371`), and a retention in a loop back to the constructor (`API.md:363`). Only
the bitmap is captured: a captured owner that is closed is taken to keep it still, and
closing the bitmap is then reported.

### Terminations

The two proofs of `application_termination.go` and `application_fields.go` are two
walks over the blocks of `HandleLifecycle` (`VisitHandles`, `VisitFields`), followed
by `Continue`, which executes the handler in all ways from all values its
fields may have. A call of something else may clean up everything or nothing.
`LossesTold` says that what is reported is lost, and that what is lost after a test
that showed it to be set is reported in handlers without loops, other calls and
unresolved conditions. The 256 paths at which a walk gives up are never reached
by handlers of seven blocks. Results that are returned and panics inside calls are left
out. Handlers put no handle into a map or a channel, and clear no field before
it is tested: both make the analysis report something that is not lost, see
the hazards.

### Reachability

Packages are analysed after those they import; in each, `Propagate` improves one
function's paths from those of the functions it calls, in any order, round after
round until nothing changes, and `Publish` exports the paths of exported functions and
of the package's initialization and reports. `PathsLeast` compares the reports with a
definition of its own, by chains of calls that are certain to be made. A variable
leads somewhere only if it is local, written once and its address never taken.
Names are numbers, ordered as the code orders strings. The games of the run have five
packages, of which one is banned and one audited for some of its symbols, recursion,
literals, bound variables, init functions, and paths of equal length. One round visits
each function once; the code visits its calls one after the other, which changes no
result. Left out: positions, wording, and receivers that are interfaces.

### CallPaths

`Walk` and `Drain` are the walk from a root, with what is known of arguments; beside
it the root runs, in frames, with calls that are deferred to a function's end and
panics that end the execution. `PathsTrue` says that the calls that are found are made
whenever the root returns, and that those made are found while every branch passed was
decided. Calls are followed three deep instead of eight, and executions have three
frames. The budget of 4096 blocks is not reached: a walk that runs out of it has found
less, which the first half of `PathsTrue` allows.

### Capabilities

`Program`s are games of an Init, an Update, a helper, an exported function and a
closure, whose blocks assert, check, call, assign, set a private field or return an
error. The verdict on an assertion (`Judged`) is a pure operator that follows
guards, callers and captures up to `Depth` = 8 as the code does; beside it the game
runs with a context that has the method or not, up to three frames deep.
`FindingsTrue` compares them. In `analysis` branches are structured;
`CapabilityJoined.cfg` adds an `if` without an `else`, for which a finding is false.
Left out: concrete contexts in interfaces and `Update` called by hand from another
package. A variable is assigned again only in a function that makes closures over
it, `update` stands for `HandleLifecycle` too, and a guard on a captured context
inside the closure is never recognised, as in the code.

### CheckCommand

A session is one to five commands: `check` with fixes, without, with a baseline;
`create`, `update`, `validate` of a baseline. `step` follows `run.go`. Issues have a
file, a line, a rule and the edits of their fix; several may be on one line or share
an edit. `moved` counts the edits that moved a file's code, and `harm` records a fix
that landed in code it was not made for or a file that was cut short. Someone edits
one file once, at the steps of `EditedAt` during a fix and at any step of other
commands; one call fails, the command is interrupted, or it dies, once. What fails the rename to
a new baseline may fail the rename back, whose error the code ignores
(`administration.go:277`): then only a hidden backup has the old one, as after a death.
`FilesSurvive` is about edits, fixes and the baseline's file; `AdoptionHolds` about
the exit code against what the sources contain. One command runs at a time. All
rules of the instance may be suppressed; unsafe paths and symbolic links are left
out. Edits between analysis and fix (`fixes.go:185`) are outside of `EditedAt`
(`Noticed`): the code loses them, see the hazards.

## Proofs

TLAPS checks the theorems for every value of the constants that satisfies the
hypotheses below; where a run's instance lies, TLC evaluates those hypotheses too.
A property is rarely inductive: each module of proofs has a conjunction (`IInv`, for
the server `ServerInv` and `CacheInv`) that implies it, shows that the initial states
satisfy it, and keeps it action by action, with one lemma for an action or for a few
that change the same thing.

| module | hypotheses, and where TLC evaluates them | theorems |
| --- | --- | --- |
| `ScheduleProofs` | `ConfigAssumption` (sizes are positive, half the clock's range is one of its times) and `GenerationAssumption` (generations do not wrap within the calls of one step), both in `Schedule` | `TypeCorrect`, `TasksHaveOneHome`, `WindowHolds`, `TerminationHolds`, `AtMostOncePerUpdate`, `ReturnsTouchOwnTask`, `NothingRunsEarly` |
| `PartsProofs` | `MicrophoneAssumption` in `Microphone`; `SlotsCoverKinds`, `HandlesAreSome`, `VersionsAndFiles`, `TrialsBounded` and `SizesPositive`, through `PartsAssumption` of `MCParts` | `MicTypeCorrect`, `RecordsAsPermitted`, `LatestRequestIsAnswered`; `BoardTypeCorrect`, `RequestsAreAnswered`; `AppTypeCorrect`, `NothingStays`, `StaysSilent`; `StoreTypeCorrect`, `LoadsAreFaithful`, `SavesAreAtomic`; `QueueTypeCorrect`, `QueuesStayFair`, `QueuesAreFifos` |
| `DisplayProofs` | `DisplayAssumption`, through `ObjectsAssumption` of `Objects`; `BorrowedMasks = FALSE` and `GuestsListed = FALSE` | `UsesAreCounted`, `DrawnIsLive` |
| `RenderedAudioProofs` | `RenderAssumption`, through `ObjectsAssumption`; `ClosesItself = FALSE` for `ClosedStaySilent` | `RenderTypeCorrect`, `HeardInOrder`, `ClosedStaySilent` |
| `ScopesProofs` | `ScopesAssumption`, through `ObjectsAssumption`; `ClosesBorrowed = FALSE` for `DrawsIntoLiveBitmaps` | `CallbacksBound`, `DrawsIntoLiveBitmaps` |
| `ObjectsProofs` | `NumbersSuffice` for completions; `GraphAssumption` and `GraphShape` in `AudioGraph` with `OneWrapper` and `SharedTracks = FALSE` for the graph; for games `ObjectsAssumption` in `Objects`, and `OneWrapper` with `SharedTracks = FALSE` for the last three | `TypeCorrect`, `CompletionsAreKept`, `OneShotsAreOnce`; `RecordsAgree`, `FreedIsUnused`; `GamesCloseSilently`, `GamesSoundInOrder`; `GamesTypeCorrect`, `GamesAgree`, `GamesUseWhatLives` |
| `HostProofs` | `ExecutorAssumption` and `AcyclicAssumption` in `Executor`; `ServerSizes` and `PathsDiffer`, through `HostAssumption` of `MCHost`; `TouchedMidway = FALSE` for `CacheStaysFaithful` | `TypeCorrect`, `AnalysisExecutesInOrder`, `OutcomesAreDetermined`; `ServerTypeCorrect`, `DiagnosticsGoForward`, `CacheStaysFaithful`; `BuildTypeCorrect`, `PackagesSurvive`; `ProbeTypeCorrect`, `ReportsAreTrue` |
| `CheckCommandProofs` | `CheckAssumption` and `Noticed` (of `FilesAreSafe` alone), through `AnalysisAssumption` of `MCAnalysis` | `CheckTypeCorrect`, `FilesAreSafe`, `ChecksAreRight` |

The hypotheses are facts of the code: arrays have a length, the callback slots of
the scoreboards are one for each kind, the table of completions has more numbers than
players can hold, a ring has cells, a source is not a channel and a table not a font
(`GraphShape`, `DisplayAssumption`: an object is of one kind), the analyzers' requirements are acyclic (`NewRegistry` has them
validated, `registry.go:129`) and so are Go's imports; an issue is in a file and a
command has a target and severities that there are, since the configuration and the
flags are refused otherwise (`config.go:117`, `run.go:169`, `policy.go:40`;
`CheckAssumption`). `AcyclicAssumption` states both
by a depth, which falls from what requires or imports to what is required or
imported. `TrialsBounded` is where the store's theorem stops: a rename that fails after a
loss of power may lose the value (run `store_lost`).

**Scheduler.** That every task has one home follows from three facts that do not
follow from it: the FIFO has no duplicates and holds the scheduled tasks except
the running one, a running step is inside an Update with a step left, and the slot of the
running task is its own or was reused by fewer calls than the generations absorb
(`OwnSlot`; without it a step's return could find another task under its own
number). `NothingRunsEarly` needs in addition that a task that has to wait `n` ticks
has its deadline `n` ticks ahead of the clock, modulo the clock's range
(`WaitsAhead`).

**Queues.** A queue is a FIFO under the sequence read off its ring; cells at
different offsets are different cells. No queue starves because the polls that a queue
lost and its distance from the poller's priority never exceed the number of queues:
a winner passes its turn beyond itself.

**Store.** The stored value is in danger while only the backup has it. The invariant
says when: between the two renames of a swap, after a loss of power there, and after
two failed renames; and that neither then nor afterwards the backup is dropped. Where
rename replaces files, an old backup beside a new file would be as dangerous, since
`Load` could put it in its place: it is there only after two faults. `SavesAreAtomic`
is the refinement of `AtomicStore` under the mapping of the model, step by step.

**Microphone.** A sample callback in progress belongs to the active recorder, or to
one closed meanwhile, unless the game started another inside it: the `FALSE` it
returns therefore closes the right one. The request in the adapter's slot is the game's
latest and unanswered, or its number is no longer the service's.

**Scoreboards.** What is queued is of different kinds, all pending, so that the queue
has room for the answer of a pending kind that is not queued. What was answered is
older than the one request a pending kind may have, so nothing is answered twice.

**Application.** The context's records say exactly what the native side has: the
settings that differ from those at the start, the one image that is counted, the
handles no item has given up. Two cleanups by these records leave nothing, and what
could start code of the game after them finds a flag, an empty queue or an empty menu.

**Audio callbacks.** A completion names its callback by a number only. A number that
is in the table is in exactly one slot of one open player, and a native player that
will report does so under the number its own slot holds; a fresh number is one
that no slot and no completion has, and as the slots cannot take all numbers up there is one.

**Audio graph.** Every wire is in all three records: what the wrappers hold is what the
used objects remember, and the native graph without the untracked parameters is their
image (`Sides`). Users and used are open, so that closing, which goes by the back
references, finds every edge. Of any channels one is heard by none of them (`Acyclic`):
an edge that is added could only break that for channels which the set of those reached
from its source excludes, and with that the walk of `channelReaches` has refused it.
Once a game has written to a nil map (`panicked`) only what the native side needs is kept.
With two wrappers of the default channel the records describe one native channel and
neither is told of the other's: `OneWrapper` is where the theorem stops (run
`audio_cycle`), and so is a track under two indexes of a sequence (`SharedTracks`).

**Display.** A field that counts holds an open object, so a counter of zero means that
closing leaves nothing behind; counters are the numbers of edges of a finite set. The
native side repeats the fields for masks, contexts and tables; what a sprite shows is
held by nobody, and what protects it is the order in which games close, which is the
documented contract and a guard of the model. Frames, glyphs and views ask for their
owner at every call (`Live`).

**Rendered audio.** Frames are numbered as they are rendered. The cells behind the write
index always hold the latest frames (`InOrder`), whatever a note or a parameter
discards, and from any place of the ring up to the write index there are no more frames
than were rendered since the one that was there. So what is heard is in order, also when the
audio thread, holding a frame, moves the index past it after it was discarded and
overwritten. That no callback of a closed source is called holds because, while the update
is at a source, that source stays live and keeps the voices it had (`Attended`).

**Callbacks that lend.** The views of running callbacks are valid, are different and no
others are (`Given`); the saved contexts are those of the callbacks below, so that a
return restores them. A row that was set is shown or in the dirty rows of a valid view.

**Games.** Each part of `Objects` keeps its own variables, so a game is a behaviour of one
part while the others stay at their initial states; the theorems of the instances,
with `GameInv` for the two that share `open`, `freed` and `holds`, give all
invariants of the run `objects`.

**Executor.** An execution is claimed exactly while it is at one place of one
goroutine's stack, and what lies on top of it there is the input it asks for. Of all
claimed executions one is least deep; it is on top of its stack, and the input it
asks for is less deep, hence not claimed: so not all goroutines wait. That outcomes are
determined needs what a ready execution tells of its inputs.

**Language server.** Every running analysis has a version of the folder as it is, or
of one that was removed; no two share one of the present folder, and only one
that has published has that of what is stored (`VersionsSeparate`). That versions
stay bounded needs a notification for each one (`VersionsPaid`). The cache is faithful
because a call that will store has read what its key says (`ReadsAsKeyed`).

**Builders.** What a builder has in its workspace, beside the output path and at it
follows from its step and from what failed (`Keeps`, `Published`). A file at the output
path stays there (`FileStays`), so that what is set aside is a package and who sets
it aside holds one until its commit or restore has succeeded. Only the builder that
moves changes what is its own (`Alone`); the output path is all they share. The
theorem is for any number of builders, faults and interrupts and one death.

**Device and Simulator commands.** A command that has not returned has seen what the
device is now (`Told`), so an answer about the device as it is is one about what was
seen, and its place tells which markers it found. `ReportsAreTrue` joins both: it is a
theorem about builders and commands side by side.

**Check and baseline.** What a fix was prepared from stays what it was until the
comparison has passed, and its findings are placed where the files were read (`Placed`,
`Prepares`): so each write removes what was asked for and nothing that was typed. That all
targets load afterwards is carried from target to target, first for the files as they are
and then for those that the fixes would make (`SoundTo`). `Noticed` is where the theorem
stops: an edit before the preparation or between two writes is lost, see the hazards. The
last baseline is in its place or among the backups at every step of a replacement, and
what replaces it was made from it (`Kept`); a `create` after a death is made from nothing.

The exit code needs no `Noticed`. What a check without disturbance has found at each of its
steps is what its options say of the files as they were when it started, target by target
(`Checking`: `ShownTo` while targets are loaded, `Settled` from the merge on). What was
reported, and later adopted, is what such a check shows of the files of its time (`Adopts`),
whatever the options that only decide how findings are written or judged
(`OptionsSuffice`); so a check of the same files with the same options meets its own
findings in the baseline (`ExpectedPasses`). `PassesRightly` and `FailsRightly` compare what is shown with what the
files contain: a finding without excuse on an ignored line means that an earlier one has
used the directive up, so there are several.

Only model-checked are: every liveness property (`EveryTaskIsServed`, `NeverStuck`,
`EverythingEnds`); `ReadyRing`'s half of `RingsImplementFifo`, whose `Compacted` is
recursive; the codec and the analyses, which are recursive too; `Collector`, `DebugMessages`
and `OwnedFiles`, hence `PartsTypeOK` and `ReadsFaithfully` as a whole; `HostTypeOK` as
one invariant, of whose parts each is proved.

## Findings

| run | the code | the documentation |
| --- | --- | --- |
| `schedule_cancel` | a Cancel from inside a step of an entry behind the frame's window shortens the window, so another due task waits for the next frame | `schedule_test.go:78`: cancellation during a step does not corrupt the frame's queue |
| `store_lost` | Save drops the backup before it knows that a stored file exists | `store.go:76`, "Save atomically replaces the stored value" |
| `audio_cycle` | wrappers of the default channel are compared by identity | `API.md:800`: cycles are refused before the native graph changes |
| `server_reopened` | a folder that is added again starts at version 0, but the engine remembers the versions it had and rejects its analyses as stale | `API.md:296`, "dynamic multi-root" workspaces |
| `render_closes` | a refill goes on with a source that its callback has closed: a handle of zero, a callback that is nil | `API.md:871`: closing "suppresses future render calls" |
| `ownership_transfer` | the rules look at calls only: a handle that is returned, stored in a field or captured by a closure reaches the return without Close and is reported, and what a closure captures stays reported though it is closed | `API.md:333`: a handle that "reaches a return without close or a visible transfer" |
| `capability_joined` | the side of a branch is taken to be every block that its successor dominates, also where the sides have met again | `API.md:453`: an impossible assertion "is known to fail if reached" |

`PROJECT.json` quotes each of these lines.

Properties that fail for a variant of the instances (`OpenRecorderOwnsCallback`,
`FailureStops`, `LoadKeepsValue`, `ClosingDetaches`, `EditsAreAnalysed` and others)
are named in the notes of the hazards they belong to.

## Plan

1. Done: the modules above, and the proofs above.
2. Proofs that are left, most useful first: `NewestInOrder` of `DebugMessages` and `FilesAgree` of `OwnedFiles`.
3. Candidates for models: the scoped escapes of `application_rules.go`, the package
   loader's cancellation.

## Out of reach

Liveness under fairness stays with TLC, and so does what a recursively defined
operator computes for every input: `Compacted` (and with it that `ReadyRing` is a
`Fifo`), the JSON codec, the summaries, the walks of the analyses. That is neither
provable by the installed provers nor needed by what is proved: `Schedule` has the
scheduler's FIFO as a sequence. The analyses read Go's SSA form; the models take functions
in an abstraction of it, and that form itself is as good as the library that makes it.
The scoped escapes of `application_rules.go` follow a view through every join of the
flow, local map and captured variable without regard to order, so that what they
report is an approximation the code does not bound; a model would have to repeat it.
Pattern rules, doctor, project creation, templates and examples are I/O or match one
shape at a time and have no state that several steps or actors share.
