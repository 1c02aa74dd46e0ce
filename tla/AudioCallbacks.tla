--------------------------- MODULE AudioCallbacks ---------------------------
(***************************************************************************)
(* Completions of the native audio: the table of callbacks by number, the  *)
(* bounded queue that the audio thread writes and a frame drains, and the  *)
(* players and sequences that register, replace and forget callbacks while *)
(* completions are on their way.                                           *)
(*                                                                         *)
(* A number is drawn from a counter that wraps: the game may have run for  *)
(* so long that it is about to, with an old number still in use.  A        *)
(* registration is told from others by its ordinal, which no code sees.    *)
(***************************************************************************)
EXTENDS Naturals, Sequences, FiniteSets

CONSTANTS
  CallbackPlayers,        \* sources with callbacks
  SlotsOf,        \* player -> its callbacks: finish, loop, fade, done
  OneShots,       \* slots whose native callback fires once: fade, done
  Loop,           \* the slot of a player's loops
  MaxId,          \* the greatest value of the counter: 2^32 - 1
  Capacity,       \* len(audioCallbacks.queue)
  Backlog,        \* completions that wait outside Go
  Registrations   \* bound on registrations

VARIABLES
  items,      \* audioCallbacks.items: number -> registration
  next,       \* audioCallbacks.next
  waiting,    \* audioCallbacks.queue
  held,       \* player and slot -> the number the player keeps
  armed,      \* player and slot -> what the native player will report
  inFlight,   \* completions on the audio thread or in the device's own ring
  shut,       \* closed players
  inDrain,    \* DrainAudioCallbacks runs
  active,     \* the registration whose callback runs, or Unset
  count,      \* registrations so far
  forgotten   \* history: registrations that the game took back

completions == <<items, next, waiting, held, armed, inFlight, shut, inDrain, active,
          count, forgotten>>

Unset == 0
Ids == 0 .. MaxId
Slots == {<<p, s>> : p \in CallbackPlayers, s \in UNION {SlotsOf[q] : q \in CallbackPlayers}}
Own == {q \in Slots : q[2] \in SlotsOf[q[1]]}
Nothing == [id |-> Unset, item |-> Unset]

(* There are more numbers than callbacks that a game has at a time, or no  *)
(* number would be left for another (audio.go:22).                         *)
NumbersSuffice ==
  /\ MaxId \in Nat /\ Registrations \in Nat \ {0}
  /\ Capacity \in Nat /\ Backlog \in Nat
  /\ IsFiniteSet(Own) /\ Cardinality(Own) < MaxId

(* A fresh game, or one whose counter is about to wrap: its first          *)
(* registration, number 1, is still that of some slot.                     *)
CompletionInit ==
  /\ \/ /\ next = 0
        /\ items = [i \in Ids |-> Unset]
        /\ held = [q \in Own |-> Unset]
        /\ armed = [q \in Own |-> Nothing]
        /\ count = 0
     \/ \E q \in Own :
        /\ next = MaxId - 1
        /\ items = [i \in Ids |-> IF i = 1 THEN 1 ELSE Unset]
        /\ held = [r \in Own |-> IF r = q THEN 1 ELSE Unset]
        /\ armed = [r \in Own |-> IF r = q THEN [id |-> 1, item |-> 1] ELSE Nothing]
        /\ count = 1
  /\ waiting = <<>>
  /\ inFlight = <<>>
  /\ shut = {}
  /\ inDrain = FALSE
  /\ active = Unset
  /\ forgotten = {}

-----------------------------------------------------------------------------
(* The table. *)

After(i) == IF i = MaxId THEN 0 ELSE i + 1

Without(ids) == [i \in Ids |-> IF i \in ids THEN Unset ELSE items[i]]
Retracted(ids) == {items[i] : i \in ids} \ {Unset}

(* RegisterAudioCallback counts on past zero and past numbers in use.      *)
Steps(i) == (i - next - 1) % (MaxId + 1)
CountedOn(table) == After(next)
FreshId(table) ==
  LET usable == {i \in Ids \ {0} : table[i] = Unset}
  IN CHOOSE i \in usable : \A j \in usable : Steps(i) <= Steps(j)

UnderWay == {waiting[i] : i \in DOMAIN waiting} \cup {inFlight[i] : i \in DOMAIN inFlight}

(* Assumed of a number that is drawn: the counter has not gone all the way *)
(* round, 2^32 registrations, since a completion with that number set off  *)
(* or a slot last replaced its spent callback.                             *)
LongGone(i) ==
  /\ \A e \in UnderWay : e.id # i
  /\ \A q \in Own :
       i \in {held[q], armed[q].id} \ {Unset} => items[i] # Unset

(* The game's code: outside of a drain, or in a callback of it. *)
GameRuns == ~inDrain \/ active # Unset

-----------------------------------------------------------------------------
(* SetFinishCallback, SetLoopCallback, FadeVolume and Sequence.Play: the   *)
(* old callback is forgotten, the new one, if any, is registered, and the  *)
(* native player is given its number.                                      *)
SetCallback(q) ==
  LET i == FreshId(Without({held[q]})) IN
  /\ GameRuns
  /\ LongGone(i)
  /\ q[1] \notin shut
  /\ count < Registrations
  /\ count' = count + 1
  /\ items' = [Without({held[q]}) EXCEPT ![i] = count']
  /\ next' = i
  /\ held' = [held EXCEPT ![q] = i]
  /\ armed' = [armed EXCEPT ![q] = [id |-> i, item |-> count']]
  /\ forgotten' = forgotten \cup Retracted({held[q]})
  /\ UNCHANGED <<waiting, inFlight, shut, inDrain, active>>

(* The same with a nil callback, and Sequence.Stop. *)
ClearCallback(q) ==
  /\ GameRuns
  /\ q[1] \notin shut
  /\ held[q] # Unset
  /\ items' = Without({held[q]})
  /\ held' = [held EXCEPT ![q] = Unset]
  /\ armed' = [armed EXCEPT ![q] = Nothing]
  /\ forgotten' = forgotten \cup Retracted({held[q]})
  /\ UNCHANGED <<next, waiting, inFlight, shut, inDrain, active, count>>

OwnOf(p) == {q \in Own : q[1] = p}

(* audioPlayer.Close and sequence.Close. *)
ClosePlayback(p) ==
  /\ GameRuns
  /\ p \notin shut
  /\ shut' = shut \cup {p}
  /\ items' = Without({held[q] : q \in OwnOf(p)})
  /\ armed' = [q \in Own |-> IF q \in OwnOf(p) THEN Nothing ELSE armed[q]]
  /\ forgotten' = forgotten \cup Retracted({held[q] : q \in OwnOf(p)})
  /\ UNCHANGED <<next, waiting, held, inFlight, inDrain, active, count>>

(* A channel refuses to let a player go: it stays open, without the        *)
(* callback of its loops.                                                  *)
CloseFails(p) ==
  /\ GameRuns
  /\ p \notin shut
  /\ <<p, Loop>> \in Own
  /\ held[<<p, Loop>>] # Unset
  /\ items' = Without({held[<<p, Loop>>]})
  /\ forgotten' = forgotten \cup Retracted({held[<<p, Loop>>]})
  /\ UNCHANGED <<next, waiting, held, armed, inFlight, shut, inDrain, active, count>>

-----------------------------------------------------------------------------
(* The audio thread, at any time. *)

(* A source completes: its native callback goes off with the number it was *)
(* given, but Go has not heard of it.                                      *)
Complete(q) ==
  /\ armed[q] # Nothing
  /\ Len(inFlight) < Backlog
  /\ inFlight' = Append(inFlight, [id |-> armed[q].id, item |-> armed[q].item,
                                   oneShot |-> q[2] \in OneShots])
  /\ armed' = IF q[2] \in OneShots THEN [armed EXCEPT ![q] = Nothing] ELSE armed
  /\ UNCHANGED <<items, next, waiting, held, shut, inDrain, active, count, forgotten>>

Entered(e) == IF Len(waiting) = Capacity THEN waiting ELSE Append(waiting, e)

(* With the queue full a callback that could not run again is deleted.     *)
Dropped(e) ==
  IF Len(waiting) = Capacity /\ e.oneShot THEN Without({e.id}) ELSE items

(* InvokeAudioCallback. *)
Invoke ==
  /\ inFlight # <<>>
  /\ LET e == Head(inFlight) IN waiting' = Entered(e) /\ items' = Dropped(e)
  /\ inFlight' = Tail(inFlight)
  /\ UNCHANGED <<next, held, armed, shut, inDrain, active, count, forgotten>>

-----------------------------------------------------------------------------
(* DrainAudioCallbacks, at the start of a frame. *)

BeginDrain ==
  /\ ~inDrain
  /\ waiting # <<>>
  /\ inDrain' = TRUE
  /\ UNCHANGED <<items, next, waiting, held, armed, inFlight, shut, active, count, forgotten>>

Kept(e) == items
Spent(e) == IF e.oneShot THEN Without({e.id}) ELSE items

(* The callback is looked up when its turn comes and runs unlocked.        *)
Deliver ==
  /\ inDrain
  /\ active = Unset
  /\ waiting # <<>>
  /\ LET e == Head(waiting) IN active' = items[e.id] /\ items' = Spent(e)
  /\ waiting' = Tail(waiting)
  /\ UNCHANGED <<next, held, armed, inFlight, shut, inDrain, count, forgotten>>

CallbackReturns ==
  /\ active # Unset
  /\ active' = Unset
  /\ UNCHANGED <<items, next, waiting, held, armed, inFlight, shut, inDrain, count, forgotten>>

EndDrain ==
  /\ inDrain
  /\ active = Unset
  /\ waiting = <<>>
  /\ inDrain' = FALSE
  /\ UNCHANGED <<items, next, waiting, held, armed, inFlight, shut, active, count, forgotten>>

CompletionNext ==
  \/ \E q \in Own : SetCallback(q) \/ ClearCallback(q) \/ Complete(q)
  \/ \E p \in CallbackPlayers : ClosePlayback(p) \/ CloseFails(p)
  \/ Invoke
  \/ BeginDrain
  \/ Deliver
  \/ CallbackReturns
  \/ EndDrain

CompletionSpec == CompletionInit /\ [][CompletionNext]_completions

-----------------------------------------------------------------------------
Entries == [id : Ids, item : 0 .. Registrations, oneShot : BOOLEAN]

CompletionTypeOK ==
  /\ items \in [Ids -> 0 .. Registrations]
  /\ next \in Ids
  /\ waiting \in Seq(Entries) /\ Len(waiting) <= Capacity
  /\ inFlight \in Seq(Entries) /\ Len(inFlight) <= Backlog
  /\ held \in [Own -> Ids]
  /\ armed \in [Own -> [id : Ids, item : 0 .. Registrations]]
  /\ shut \in SUBSET CallbackPlayers
  /\ inDrain \in BOOLEAN
  /\ active \in 0 .. Registrations
  /\ forgotten \in SUBSET (1 .. Registrations)

(* API.md, "Audio completion callbacks are retained by ID": a completion   *)
(* that is under way finds the callback that was registered for it or      *)
(* nothing, never another's, whatever was forgotten, replaced or closed    *)
(* since and wherever the counter stands; so does one that is still to     *)
(* come.  What the game took back is not in the table.                     *)
CompletionsFindTheirOwner ==
  /\ \A e \in UnderWay : e.id # Unset /\ items[e.id] \in {Unset, e.item}
  /\ \A q \in Own : armed[q] # Nothing =>
       armed[q].id # Unset /\ items[armed[q].id] \in {Unset, armed[q].item}
  /\ \A i \in Ids : items[i] \notin forgotten

(* A callback that is retained has one slot of an open player that can     *)
(* still replace or forget it: nothing is retained for ever.               *)
RetainedByPlayers ==
  /\ items[Unset] = Unset
  /\ \A i \in Ids : items[i] # Unset =>
       Cardinality({q \in Own : held[q] = i /\ q[1] \notin shut}) = 1

(* A native completion finds the callback registered for it or none, and   *)
(* a callback is retained no longer than by its player (audio.go:18-79).   *)
CompletionsKept == CompletionsFindTheirOwner /\ RetainedByPlayers

(* A callback that may run once does: the completion that runs it takes it *)
(* out of the table.                                                       *)
OneShotsRunOnce ==
  [][active = Unset /\ active' # Unset =>
       /\ active' = Head(waiting).item
       /\ active' \notin forgotten
       /\ Head(waiting).oneShot => \A i \in Ids : items'[i] # active']_completions
=============================================================================
