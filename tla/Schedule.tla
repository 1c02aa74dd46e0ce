------------------------------ MODULE Schedule ------------------------------
(***************************************************************************)
(* The cooperative scheduler of playdate/schedule: a fixed table of task   *)
(* slots, a FIFO of the slots that are waiting to be visited, and Update,  *)
(* which the game calls once a frame and which visits the tasks that were  *)
(* in the FIFO when it began.                                              *)
(*                                                                         *)
(* A task's step is arbitrary game code.  While it runs it may call the    *)
(* scheduler again: schedule, cancel (itself or another task), terminate.  *)
(* So Update is not one step here but a loop of them: BeginUpdate, then    *)
(* StartStep / Defer for each visited slot, a StepReturn action when the   *)
(* step hands control back, and EndUpdate.  The millisecond clock is read  *)
(* at the points at which the code reads it and moves between any two.     *)
(*                                                                         *)
(* The FIFO is a sequence here; ReadyRing shows that the ring buffer of    *)
(* the code behaves as one.  Calls that fail return a sentinel error and   *)
(* change nothing, so they are stuttering steps.                           *)
(***************************************************************************)
EXTENDS Integers, Sequences, FiniteSets

CONSTANTS
  Capacity,       \* Config.Capacity, the number of task slots
  StepsPerFrame,  \* Config.StepsPerFrame
  Budget,         \* Config.TimeBudgetMilliseconds, 0 when there is none
  Half,           \* half the range of the clock: 2^31 in the code
  Generations,    \* largest slot generation before it wraps: 2^32 - 1
  Intervals,      \* the milliseconds a step or a caller may pass
  CallsPerStep    \* bound on the scheduler calls made by one step

Modulus  == 2 * Half
MaxDelay == Half - 1
Slots    == 0 .. Capacity - 1
Clocks   == 0 .. Modulus - 1

ASSUME ConfigAssumption ==
  /\ Capacity \in Nat \ {0}
  /\ StepsPerFrame \in Nat \ {0}
  /\ Half \in Nat \ {0}
  /\ Budget \in 0 .. MaxDelay
  /\ Generations \in Nat \ {0, 1}
  /\ Intervals \subseteq Clocks
  /\ CallsPerStep \in Nat

(* One step would need 2^33 scheduler calls to reuse its own slot under    *)
(* its own generation.                                                     *)
ASSUME GenerationAssumption == CallsPerStep < 2 * Generations

VARIABLES
  clock,       \* what CurrentTimeMilliseconds returns
  live,        \* slots in state taskQueued
  due,         \* slot -> deadline on the wrapping clock
  generation,  \* slot -> generation of its latest task
  ready,       \* the FIFO of slots to visit
  pending,     \* Scheduler.pending
  terminated,  \* Scheduler.terminated
  updating,    \* Scheduler.updating
  remaining,   \* Scheduler.remaining: visits left in this Update
  frame,       \* Update's locals: start, now and frame.Steps
  current,     \* the task whose step is running, or NoTask
  calls,       \* scheduler calls the running step has made
  unvisited,   \* history: tasks pending at BeginUpdate and not visited yet
  wait         \* history: slot -> real ticks its task still has to wait

clockVars == <<clock, wait>>
taskVars  == <<live, due, generation, ready, pending>>
frameVars == <<updating, remaining, frame, current, unvisited>>
vars      == <<clockVars, taskVars, frameVars, terminated, calls>>

NoTask  == [slot |-> -1, generation |-> 0, due |-> 0]
NoFrame == [start |-> 0, now |-> 0, steps |-> 0]

(* A Task identifier: the slot and the generation it was given. *)
TaskOf(s) == <<s, generation[s]>>

(* uint32 arithmetic, and int32(now - deadline) >= 0. *)
Wrap(n) == n % Modulus
ReachedUnsigned(at, deadline) == at >= deadline
Reached(at, deadline) == Wrap(at - deadline) < Half

(* The ticks until a deadline that is at most MaxDelay in the future. *)
TicksUntil(deadline) ==
  IF Reached(clock, deadline) THEN 0 ELSE Wrap(deadline - clock)

NextGenerationUnwrapped(g) == g + 1
NextGeneration(g) == IF g >= Generations THEN 1 ELSE g + 1

Free == Slots \ live
IsFirstFree(s) == s \in Free /\ \A t \in Free : s <= t

Entries(q) == {q[i] : i \in 1 .. Len(q)}

(* push *)
PushFront(q, s) == <<s>> \o q
Push(q, s) == Append(q, s)

(* removeQueued: every other entry keeps its place in the order. *)
WithoutHead(q, s) == IF s \notin Entries(q) THEN q ELSE Tail(q)
Without(q, s) ==
  IF s \notin Entries(q) THEN q
  ELSE LET k == CHOOSE i \in 1 .. Len(q) : q[i] = s
       IN  [i \in 1 .. Len(q) - 1 |-> IF i < k THEN q[i] ELSE q[i + 1]]

Init ==
  /\ clock \in Clocks
  /\ live = {}
  /\ due = [s \in Slots |-> 0]
  /\ generation = [s \in Slots |-> 0]
  /\ ready = <<>>
  /\ pending = 0
  /\ terminated = FALSE
  /\ updating = FALSE
  /\ remaining = 0
  /\ frame = NoFrame
  /\ current = NoTask
  /\ calls = 0
  /\ unvisited = {}
  /\ wait = [s \in Slots |-> 0]

-----------------------------------------------------------------------------
(* The environment: time passes. *)

Tick ==
  /\ clock' = Wrap(clock + 1)
  /\ wait' = [s \in Slots |-> IF wait[s] > 0 THEN wait[s] - 1 ELSE 0]
  /\ UNCHANGED <<taskVars, frameVars, terminated, calls>>

-----------------------------------------------------------------------------
(* Calls, made between two Updates or by the step that is running. *)

MayCall ==
  /\ ~updating \/ (current # NoTask /\ calls < CallsPerStep)
  /\ calls' = IF updating THEN calls + 1 ELSE calls

AcceptsAfterTerminate == pending # Capacity
Accepts == ~terminated /\ pending # Capacity

Enqueue(deadline) ==
  /\ Accepts
  /\ \E s \in Slots :
       /\ IsFirstFree(s)
       /\ live' = live \cup {s}
       /\ generation' = [generation EXCEPT ![s] = NextGeneration(@)]
       /\ due' = [due EXCEPT ![s] = deadline]
       /\ wait' = [wait EXCEPT ![s] = TicksUntil(deadline)]
       /\ ready' = Push(ready, s)
       /\ pending' = pending + 1
  /\ UNCHANGED <<clock, frameVars, terminated>>

Immediately == MayCall /\ Enqueue(clock)

ScheduleAfter(ms) ==
  /\ MayCall
  /\ ms <= MaxDelay
  /\ Enqueue(Wrap(clock + ms))

ScheduleAt(deadline) ==
  /\ MayCall
  /\ Reached(clock, deadline) \/ Wrap(deadline - clock) <= MaxDelay
  /\ Enqueue(deadline)

(* release: the slot is free again; its due time and generation stay. *)
Release(s) ==
  /\ live' = live \ {s}
  /\ pending' = pending - 1

Identify(task) == task[1] \in live /\ generation[task[1]] = task[2]

(* A cancelled entry is taken off the number of visits left.               *)
RemainingKept(s) == remaining
RemainingWithout(s) ==
  IF updating /\ s \in Entries(ready) THEN remaining - 1 ELSE remaining

Cancel(task) ==
  /\ MayCall
  /\ Identify(task)
  /\ LET s == task[1] IN
       /\ ready' = Without(ready, s)
       /\ remaining' = RemainingWithout(s)
       /\ Release(s)
  /\ UNCHANGED <<clockVars, due, generation, updating, frame, current, unvisited, terminated>>

Terminate ==
  /\ MayCall
  /\ live' = {}
  /\ ready' = <<>>
  /\ pending' = 0
  /\ remaining' = 0
  /\ terminated' = TRUE
  /\ UNCHANGED <<clockVars, due, generation, updating, frame, current, unvisited>>

-----------------------------------------------------------------------------
(* Update. *)

BeginUpdate ==
  /\ ~terminated
  /\ ~updating
  /\ updating' = TRUE
  /\ remaining' = Len(ready)
  /\ frame' = [start |-> clock, now |-> clock, steps |-> 0]
  /\ unvisited' = {TaskOf(s) : s \in live}
  /\ UNCHANGED <<clockVars, taskVars, current, terminated, calls>>

Looping == updating /\ current = NoTask

OverBudget ==
  /\ frame.steps > 0
  /\ Budget # 0
  /\ Wrap(clock - frame.start) >= Budget

FifoNotEmpty == ready # <<>>
VisitsLeft == remaining > 0

(* The loop pops the head of the FIFO.  One iteration reads the clock      *)
(* once: for the budget after the first step, for `now` otherwise.         *)
Visit(s) ==
  /\ Looping
  /\ VisitsLeft
  /\ frame.steps < StepsPerFrame
  /\ ~OverBudget
  /\ s = Head(ready)
  /\ remaining' = remaining - 1
  /\ frame' = [frame EXCEPT !.now = clock]
  /\ unvisited' = unvisited \ {TaskOf(s)}
  /\ UNCHANGED <<clockVars, live, due, generation, pending, updating, terminated>>

IsDue(s) == s \in live /\ Reached(clock, due[s])

StartStep ==
  \E s \in Slots :
    /\ Visit(s)
    /\ IsDue(s)
    /\ ready' = Tail(ready)
    /\ current' = [slot |-> s, generation |-> generation[s], due |-> due[s]]
    /\ calls' = 0

(* A task that is not due goes to the back; a freed slot would be dropped. *)
Defer ==
  \E s \in Slots :
    /\ Visit(s)
    /\ ~IsDue(s)
    /\ ready' = IF s \in live THEN Push(Tail(ready), s) ELSE Tail(ready)
    /\ UNCHANGED <<current, calls>>

EndUpdate ==
  /\ Looping
  /\ ~VisitsLeft \/ frame.steps >= StepsPerFrame \/ OverBudget
  /\ updating' = FALSE
  /\ frame' = NoFrame
  /\ unvisited' = {}
  /\ UNCHANGED <<clockVars, taskVars, remaining, current, terminated, calls>>

-----------------------------------------------------------------------------
(* The step returns its Action and Update looks at its slot again. *)

SlotIsLive == current.slot \in live
CurrentIsLive ==
  /\ current.slot \in live
  /\ generation[current.slot] = current.generation

BackToLoop ==
  /\ current # NoTask
  /\ current' = NoTask
  /\ calls' = 0
  /\ frame' = [frame EXCEPT !.steps = @ + 1]
  /\ UNCHANGED <<clock, generation, updating, remaining, unvisited, terminated>>

Leave ==
  /\ current # NoTask
  /\ current' = NoTask
  /\ calls' = 0
  /\ frame' = NoFrame
  /\ updating' = FALSE
  /\ unvisited' = {}
  /\ UNCHANGED <<clockVars, due, generation, ready, remaining, terminated>>

(* The step, or a call it made, terminated the scheduler. *)
ReturnTerminated ==
  /\ terminated
  /\ Leave
  /\ UNCHANGED <<live, pending>>

(* The step cancelled its own task; a task it scheduled may hold the slot. *)
ReturnStale ==
  /\ ~terminated
  /\ ~CurrentIsLive
  /\ BackToLoop
  /\ UNCHANGED <<live, due, ready, pending, wait>>

Returned == ~terminated /\ CurrentIsLive

ReturnComplete ==
  /\ Returned
  /\ BackToLoop
  /\ Release(current.slot)
  /\ UNCHANGED <<due, ready, wait>>

(* An interval over MaxDelay, or Repeat(0): the task is dropped and Update *)
(* returns ErrDelay, leaving the rest of the frame undone.                 *)
ReturnInvalid ==
  /\ Returned
  /\ Leave
  /\ Release(current.slot)

Reschedule(deadline, ticks) ==
  LET s == current.slot IN
    /\ Returned
    /\ BackToLoop
    /\ due' = [due EXCEPT ![s] = deadline]
    /\ wait' = [wait EXCEPT ![s] = ticks]
    /\ ready' = Push(ready, s)
    /\ UNCHANGED <<live, pending>>

ReturnYield == Reschedule(frame.now, 0)

ReturnDelay(ms) ==
  /\ ms <= MaxDelay
  /\ Reschedule(Wrap(clock + ms), ms)

(* Repeat is anchored to the deadline the step was started for. *)
ReturnRepeat(ms) ==
  /\ ms \in 1 .. MaxDelay
  /\ LET next == Wrap(current.due + ms)
     IN  Reschedule(next, TicksUntil(next))

StepReturn ==
  \/ ReturnTerminated
  \/ ReturnStale
  \/ ReturnComplete
  \/ ReturnInvalid
  \/ ReturnYield
  \/ \E ms \in Intervals : ReturnDelay(ms) \/ ReturnRepeat(ms)

Call ==
  \/ Immediately
  \/ \E ms \in Intervals : ScheduleAfter(ms)
  \/ \E deadline \in Clocks : ScheduleAt(deadline)
  \/ \E task \in Slots \X (1 .. Generations) : Cancel(task)
  \/ Terminate

Update == BeginUpdate \/ StartStep \/ Defer \/ EndUpdate

Next == Tick \/ Call \/ Update \/ StepReturn

Spec == Init /\ [][Next]_vars

(* No task is due for Half ticks (24 days) without being visited: the code *)
(* would take its deadline for a future one.                               *)
ServedInTime == \A s \in live : Wrap(clock - due[s]) # Half

(* The game updates every frame, Update's loop goes on, steps return, and  *)
(* time passes, as far as the frames keep up with it.                      *)
FairSpec ==
  /\ Spec
  /\ SF_vars(Tick /\ ServedInTime')
  /\ WF_vars(Update)
  /\ WF_vars(StepReturn)

-----------------------------------------------------------------------------
TypeOK ==
  /\ clock \in Clocks
  /\ live \in SUBSET Slots
  /\ due \in [Slots -> Clocks]
  /\ generation \in [Slots -> 0 .. Generations]
  /\ ready \in Seq(Slots)
  /\ pending \in 0 .. Capacity
  /\ terminated \in BOOLEAN
  /\ updating \in BOOLEAN
  /\ remaining \in Int
  /\ frame \in [start : Clocks, now : Clocks, steps : 0 .. StepsPerFrame]
  /\ \/ current = NoTask
     \/ current \in [slot : Slots, generation : 0 .. Generations, due : Clocks]
  /\ calls \in 0 .. CallsPerStep
  /\ unvisited \in SUBSET (Slots \X (0 .. Generations))
  /\ wait \in [Slots -> Nat]

(* The slot whose step is running, while its task is still scheduled. *)
InStep == IF current # NoTask /\ CurrentIsLive THEN {current.slot} ELSE {}

(* Every scheduled task is in exactly one place: once in the FIFO, or out  *)
(* of it while its own step runs; and pending counts them.  Otherwise a    *)
(* task would be lost, run twice in a frame, or the table report ErrFull   *)
(* with slots to spare.  (scheduleAt, Cancel and Update of schedule.go     *)
(* each change these three together.)                                      *)
OneHomePerTask ==
  /\ Entries(ready) = live \ InStep
  /\ Len(ready) = Cardinality(Entries(ready))
  /\ pending = Cardinality(live)

(* The rest of this Update is a prefix of the FIFO made of tasks that were *)
(* pending when it began and that it has not visited: the count that       *)
(* Update and Cancel keep in `remaining` never reaches a task that was     *)
(* pushed during the frame.                                                *)
WindowIsUnvisited ==
  updating => \A i \in 1 .. remaining :
                i \in 1 .. Len(ready) /\ TaskOf(ready[i]) \in unvisited

(* After Terminate, from inside a step as well, no task is scheduled and   *)
(* none is started: late calls of the terminating step are refused.        *)
TerminationIsFinal == terminated => live = {} /\ ready = <<>> /\ pending = 0

StepStarts == current = NoTask /\ current' # NoTask
StepEnds   == current # NoTask /\ current' = NoTask

(* API.md, "Bounded cooperative scheduling": Update runs each task at most *)
(* once per call, and never one that was enqueued during the call.         *)
RunsOncePerUpdate ==
  [][StepStarts => <<current'.slot, current'.generation>> \in unvisited]_vars

(* schedule.go:52, :58, :116: a task runs no sooner than the interval it   *)
(* asked for, in real ticks and whatever the clock's wrap in between.      *)
NeverEarly == [][StepStarts => wait[current'.slot] = 0]_vars

(* What a step returns concerns the task that ran: a task that the step    *)
(* scheduled into the slot it gave up, or any other, keeps its deadline    *)
(* and its place.                                                          *)
ReturnTouchesOwnTask ==
  [][(StepEnds /\ ~terminated) =>
       \A s \in live :
         (s # current.slot \/ generation[s] # current.generation) =>
           s \in live' /\ due'[s] = due[s]]_vars

(* README.md, "Bounded cooperative scheduling": a scheduled task is run,   *)
(* cancelled or terminated; it is never passed over for ever, whatever the *)
(* other tasks' steps schedule and cancel and however short the budget, as *)
(* long as the frames keep up with the clock.                              *)
EveryTaskIsServed ==
  []ServedInTime =>
    \A s \in Slots : s \in live ~> (s \notin live \/ current.slot = s)

(* schedule_test.go:78, "cancellation during a step does not corrupt the   *)
(* frame queue": an Update that ends with steps to spare and within its    *)
(* budget has visited every task that was pending when it began.           *)
FrameVisitsAll ==
  [][(EndUpdate /\ frame.steps < StepsPerFrame /\ ~OverBudget) =>
       \A s \in live : TaskOf(s) \notin unvisited]_vars
=============================================================================
