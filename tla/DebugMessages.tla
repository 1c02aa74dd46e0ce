--------------------------- MODULE DebugMessages ---------------------------
(* Messages of the serial line or the Simulator's console wait in a queue  *)
(* of fixed size for the game to poll them (debug.go).                     *)
EXTENDS Integers, Sequences

CONSTANTS
  Capacities,  \* numbers of messages (8), also too small ones
  MaxMessage,  \* bytes that are kept of a message (256)
  Lengths,     \* lengths of messages
  Sends        \* bound: messages that are sent

VARIABLES
  capacity,   \* DebugMessageQueue.capacity
  items,      \* the queue: messages are [id, length]
  over,       \* applicationContext.terminated
  sent,       \* history: every message
  polled      \* history: what the game was given

debug == <<capacity, items, over, sent, polled>>

Init == capacity \in Capacities /\ items = <<>> /\ over = FALSE /\ sent = <<>> /\ polled = <<>>

Truncated(message) ==
  [message EXCEPT !.length = IF @ > MaxMessage THEN MaxMessage ELSE @]
MakeRoom(queue) == IF Len(queue) = capacity THEN Tail(queue) ELSE queue

(* The native side calls back while the game is not running, also when it  *)
(* has ended.                                                              *)
Push ==
  /\ Len(sent) < Sends
  /\ \E n \in Lengths :
       LET message == [id |-> Len(sent) + 1, length |-> n] IN
         /\ sent' = Append(sent, message)
         /\ items' = IF capacity <= 0 \/ MaxMessage <= 0 THEN items
                     ELSE Append(MakeRoom(items), Truncated(message))
  /\ UNCHANGED <<capacity, over, polled>>

PollDebugMessage ==
  /\ ~over /\ items # <<>>
  /\ polled' = Append(polled, Head(items))
  /\ items' = Tail(items)
  /\ UNCHANGED <<capacity, over, sent>>

(* The application polls what is left before it counts as terminated. *)
Terminate == ~over /\ over' = TRUE /\ items' = <<>> /\ UNCHANGED <<capacity, sent, polled>>

Next == Push \/ PollDebugMessage \/ Terminate
Spec == Init /\ [][Next]_debug

-----------------------------------------------------------------------------
TypeOK ==
  /\ over \in BOOLEAN
  /\ Len(items) <= (IF capacity > 0 THEN capacity ELSE 0)

Ids(s) == {s[i].id : i \in DOMAIN s}
Ascending(s) == \A i, j \in DOMAIN s : i < j => s[i].id < s[j].id

(* API.md and README, "a bounded FIFO": messages come out in the order     *)
(* they were sent, with no more than the bound of each, and until the game *)
(* ends one is lost only to as many newer ones as the queue holds.         *)
NewestInOrder ==
  /\ Ascending(polled \o items)
  /\ \A m \in {(polled \o items)[i] : i \in DOMAIN (polled \o items)} : m = Truncated(sent[m.id])
  /\ over \/ \A id \in Ids(sent) \ Ids(polled \o items) : Len(sent) - id >= capacity
=============================================================================
