---------------------------- MODULE BoundedQueue ----------------------------
(***************************************************************************)
(* schedule.Queue and schedule.Poller: fixed-capacity queues whose sends   *)
(* and receives never wait, and a poller that tries the queues in turn,    *)
(* starting after the one it last received from.                           *)
(***************************************************************************)
EXTENDS Naturals, Sequences

CONSTANTS
  Queues,    \* how many queues the poller was built over
  Capacity,  \* len(Queue.values)
  Values,    \* what is sent
  Zero       \* the zero value of the queue's type, not one of Values

VARIABLES
  values,   \* queue -> cell -> value
  head,     \* queue -> cell of its oldest value
  length,   \* queue -> occupancy
  next,     \* Poller.next
  event,    \* history: the last operation on a queue: the queue and its event
  passed    \* history: queue -> polls that another queue won while it had a value

queues == <<values, head, length, next, event, passed>>

(* There is a queue, and NewQueue takes no capacity below one.             *)
SizesPositive == Queues \in Nat \ {0} /\ Capacity \in Nat \ {0}

Indexes == 0 .. Queues - 1
Cells   == 0 .. Capacity - 1

CellAt(q, offset) == (head[q] + offset) % Capacity

QueueInit ==
  /\ values = [q \in Indexes |-> [c \in Cells |-> Zero]]
  /\ head = [q \in Indexes |-> 0]
  /\ length = [q \in Indexes |-> 0]
  /\ next = 0
  /\ event = <<0, <<"new">>>>
  /\ passed = [q \in Indexes |-> 0]

AlwaysRoom(q) == TRUE
HasRoom(q) == length[q] # Capacity

TrySend(q, v) ==
  /\ HasRoom(q)
  /\ values' = [values EXCEPT ![q][CellAt(q, length[q])] = v]
  /\ length' = [length EXCEPT ![q] = @ + 1]
  /\ event' = <<q, <<"push", v>>>>
  /\ UNCHANGED <<head, next, passed>>

Received(q) == event' = <<q, <<"pop", values[q][head[q]]>>>>

(* The received value's cell is zeroed, so the queue retains no reference. *)
DropKeepsCell(q) ==
  /\ head' = [head EXCEPT ![q] = (@ + 1) % Capacity]
  /\ length' = [length EXCEPT ![q] = @ - 1]
  /\ UNCHANGED values
DropHead(q) ==
  /\ values' = [values EXCEPT ![q][head[q]] = Zero]
  /\ head' = [head EXCEPT ![q] = (@ + 1) % Capacity]
  /\ length' = [length EXCEPT ![q] = @ - 1]

TryReceive(q) ==
  /\ length[q] # 0
  /\ DropHead(q)
  /\ Received(q)
  /\ passed' = [passed EXCEPT ![q] = 0]
  /\ UNCHANGED next

(* Clear zeroes the occupied cells one by one and rewinds the head. *)
Occupied(q) == {CellAt(q, o) : o \in 0 .. length[q] - 1}

Clear(q) ==
  /\ values' = [values EXCEPT ![q] = [c \in Cells |-> IF c \in Occupied(q) THEN Zero ELSE @[c]]]
  /\ head' = [head EXCEPT ![q] = 0]
  /\ length' = [length EXCEPT ![q] = 0]
  /\ event' = <<q, <<"clear">>>>
  /\ passed' = [passed EXCEPT ![q] = 0]
  /\ UNCHANGED next

(* The first queue with a value, counting from the priority. *)
TurnFromFirst(offset) == offset
Turn(offset) == (next + offset) % Queues
Distance(q) == CHOOSE o \in Indexes : Turn(o) = q
Selected(q) ==
  /\ length[q] # 0
  /\ \A p \in Indexes : Distance(p) < Distance(q) => length[p] = 0

Poll ==
  \E q \in Indexes :
    /\ Selected(q)
    /\ DropHead(q)
    /\ Received(q)
    /\ next' = (q + 1) % Queues
    /\ passed' = [p \in Indexes |->
                    IF p = q \/ length[p] = 0 THEN 0 ELSE passed[p] + 1]

QueueNext ==
  \/ \E q \in Indexes :
       TryReceive(q) \/ Clear(q) \/ \E v \in Values : TrySend(q, v)
  \/ Poll

QueueSpec == QueueInit /\ [][QueueNext]_queues

-----------------------------------------------------------------------------
QueueTypeOK ==
  /\ values \in [Indexes -> [Cells -> Values \cup {Zero}]]
  /\ head \in [Indexes -> Cells]
  /\ length \in [Indexes -> 0 .. Capacity]
  /\ next \in Indexes
  /\ passed \in [Indexes -> Nat]

Contents(q) == [i \in 1 .. length[q] |-> values[q][CellAt(q, i - 1)]]

Abstract(q) == INSTANCE Fifo WITH
  Items <- Values, Bound <- Capacity, fifo <- Contents(q), event <- event[2]

(* API.md, "Bounded cooperative scheduling": each queue is a fixed-capacity*)
(* FIFO, however receives, polls and clears have moved its head, and no    *)
(* operation on one queue shows in another.                                *)
Implements ==
  /\ \A q \in Indexes : Abstract(q)!Init
  /\ [][\A q \in Indexes :
          IF event'[1] = q THEN Abstract(q)!Next
          ELSE Contents(q)' = Contents(q)]_queues

(* queue.go:58: a cell outside the occupied part holds the zero value, so  *)
(* what was received or cleared is not kept alive by the queue.            *)
NothingRetained ==
  \A q \in Indexes : \A c \in Cells \ Occupied(q) : values[q][c] = Zero

(* queue.go:67, "deterministic round-robin priority": a queue that has a   *)
(* value loses fewer polls in a row than there are queues.                 *)
NobodyStarves == \A q \in Indexes : passed[q] < Queues

(* A queue keeps no value that it gave away (queue.go:58), and the poller  *)
(* starves no queue (queue.go:67).                                         *)
QueuesAreFair == NothingRetained /\ NobodyStarves
=============================================================================
