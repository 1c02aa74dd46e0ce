----------------------------- MODULE ReadyRing ------------------------------
(***************************************************************************)
(* The storage of the scheduler's FIFO: Scheduler.queue, a fixed array of  *)
(* task slots used as a ring, with `head` and `length`.  Cancel removes an *)
(* entry from the middle by compacting the ring in place while it reads    *)
(* it.  Module Schedule treats this ring as a sequence; Implements says    *)
(* that it may.                                                            *)
(*                                                                         *)
(* The caller's obligation is the one OneHomePerTask proves: a slot is     *)
(* pushed only when it is not in the ring, so there are never more entries *)
(* than cells.                                                             *)
(***************************************************************************)
EXTENDS Naturals, Sequences

CONSTANT Capacity    \* len(Scheduler.queue), at least one

VARIABLES
  queue,    \* cell -> task slot
  head,     \* the oldest entry's cell
  length,   \* the number of entries
  event     \* history: the last operation and the slot it was about

vars == <<queue, head, length, event>>

Cells == 0 .. Capacity - 1
Slots == 0 .. Capacity - 1

(* The cell of the entry that is `offset` places behind the head. *)
CellAt(offset) == (head + offset) % Capacity

Entry(offset) == queue[CellAt(offset)]
Offsets == 0 .. length - 1
Entered == {Entry(o) : o \in Offsets}

Init ==
  /\ queue = [c \in Cells |-> 0]
  /\ head = 0
  /\ length = 0
  /\ event = <<"new">>

Push(s) ==
  /\ s \notin Entered
  /\ queue' = [queue EXCEPT ![CellAt(length)] = s]
  /\ length' = length + 1
  /\ event' = <<"push", s>>
  /\ UNCHANGED head

Pop ==
  /\ length > 0
  /\ head' = (head + 1) % Capacity
  /\ length' = length - 1
  /\ event' = <<"pop", Entry(0)>>
  /\ UNCHANGED queue

(* The loop of removeQueued after n of its iterations: the array, and how  *)
(* many entries it kept.  It reads cells it may already have written.      *)
NotCompacted(target) ==
  LET pass[n \in 0 .. length] ==
        IF n = 0 THEN [cells |-> queue, kept |-> 0]
        ELSE LET before == pass[n - 1]
                 index  == before.cells[CellAt(n - 1)]
             IN  IF index = target THEN before
                 ELSE [before EXCEPT !.kept = @ + 1]
  IN  pass[length]
Compacted(target) ==
  LET pass[n \in 0 .. length] ==
        IF n = 0 THEN [cells |-> queue, kept |-> 0]
        ELSE LET before == pass[n - 1]
                 index  == before.cells[CellAt(n - 1)]
             IN  IF index = target THEN before
                 ELSE [cells |-> [before.cells EXCEPT ![CellAt(before.kept)] = index],
                       kept  |-> before.kept + 1]
  IN  pass[length]

RemoveQueued(target) ==
  /\ queue' = Compacted(target).cells
  /\ length' = Compacted(target).kept
  /\ event' = <<"remove", target>>
  /\ UNCHANGED head

(* Terminate *)
Reset ==
  /\ head' = 0
  /\ length' = 0
  /\ event' = <<"clear">>
  /\ UNCHANGED queue

Next == (\E s \in Slots : Push(s) \/ RemoveQueued(s)) \/ Pop \/ Reset

Spec == Init /\ [][Next]_vars

-----------------------------------------------------------------------------
TypeOK ==
  /\ queue \in [Cells -> Slots]
  /\ head \in Cells
  /\ length \in 0 .. Capacity

Contents == [i \in 1 .. length |-> Entry(i - 1)]

Abstract == INSTANCE Fifo WITH Items <- Slots, Bound <- Capacity, fifo <- Contents

(* Push, pop, the in-place compaction of a cancelled entry and the reset   *)
(* on Terminate act on the ring as they would on a FIFO of that capacity,  *)
(* whatever the head's position when the ring wraps (schedule.go:178-193,  *)
(* 316-327).                                                               *)
Implements == Abstract!Spec
=============================================================================
