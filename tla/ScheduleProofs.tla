--------------------------- MODULE ScheduleProofs ---------------------------
(***************************************************************************)
(* Proofs about the scheduler, for every capacity, clock width, number of  *)
(* generations and number of calls a step makes.                           *)
(*                                                                         *)
(* The safety invariants are not inductive by themselves.  Three facts are *)
(* added: the FIFO has no duplicates, a running step is inside an Update   *)
(* that has a step left, and the slot of the running task is either still  *)
(* its own or was given away and reused fewer times than the generations   *)
(* can absorb.                                                             *)
(***************************************************************************)
EXTENDS Schedule, FiniteSetTheorems, TLAPS

Distinct(q) == \A i, j \in 1 .. Len(q) : q[i] = q[j] => i = j

FifoMatchesSlots ==
  /\ Distinct(ready)
  /\ Entries(ready) = live \ InStep
  /\ pending = Cardinality(live)

Numbered == \A s \in live : generation[s] # 0

InsideUpdate ==
  /\ current # NoTask =>
       /\ updating
       /\ frame.steps < StepsPerFrame
       /\ current.generation \in 1 .. Generations

(* The slot of the running task was reused k times since its step began,   *)
(* which took a Cancel and a Schedule each.                                *)
Reused(k) ==
  /\ \/ generation[current.slot] = current.generation + k
     \/ generation[current.slot] = current.generation + k - Generations
  /\ 2 * k + (IF current.slot \in live THEN 0 ELSE 1) <= calls

OwnSlot ==
  (current # NoTask /\ ~terminated) => \E k \in 0 .. Generations - 1 : Reused(k)

IInv ==
  /\ TypeOK
  /\ FifoMatchesSlots
  /\ WindowIsUnvisited
  /\ TerminationIsFinal
  /\ Numbered
  /\ InsideUpdate
  /\ OwnSlot

-----------------------------------------------------------------------------
(* The wrapping clock. *)

LEMMA ClockFacts ==
  /\ Modulus \in Nat \ {0}
  /\ 0 \in Clocks
  /\ \A n \in Int : Wrap(n) \in Clocks
BY ConfigAssumption DEF Modulus, Clocks, Wrap

LEMMA TicksType ==
  ASSUME TypeOK, NEW deadline \in Clocks
  PROVE  TicksUntil(deadline) \in Nat
<1>1. \A n \in Clocks : n \in Nat
  BY ClockFacts DEF Clocks
<1>2. deadline - clock \in Int
  BY <1>1 DEF TypeOK
<1> QED BY <1>1, <1>2, ClockFacts DEF TicksUntil

-----------------------------------------------------------------------------
(* Sequences without duplicates. *)

LEMMA PushFacts ==
  ASSUME NEW S, NEW q \in Seq(S), NEW s \in S
  PROVE  /\ Push(q, s) \in Seq(S)
         /\ Len(Push(q, s)) = Len(q) + 1
         /\ \A i \in 1 .. Len(q) : Push(q, s)[i] = q[i]
         /\ Push(q, s)[Len(q) + 1] = s
         /\ Entries(Push(q, s)) = Entries(q) \cup {s}
         /\ (Distinct(q) /\ s \notin Entries(q)) => Distinct(Push(q, s))
<1>1. /\ Push(q, s) \in Seq(S)
      /\ Len(Push(q, s)) = Len(q) + 1
      /\ \A i \in 1 .. Len(q) : Push(q, s)[i] = q[i]
      /\ Push(q, s)[Len(q) + 1] = s
  BY DEF Push
<1>2. Entries(Push(q, s)) = Entries(q) \cup {s}
  BY <1>1 DEF Entries
<1>3. (Distinct(q) /\ s \notin Entries(q)) => Distinct(Push(q, s))
  BY <1>1 DEF Entries, Distinct
<1> QED BY <1>1, <1>2, <1>3

LEMMA PopFacts ==
  ASSUME NEW S, NEW q \in Seq(S), q # <<>>
  PROVE  /\ Head(q) \in S
         /\ Head(q) \in Entries(q)
         /\ Tail(q) \in Seq(S)
         /\ Len(Tail(q)) = Len(q) - 1
         /\ \A i \in 1 .. Len(q) - 1 : Tail(q)[i] = q[i + 1]
         /\ Distinct(q) => /\ Distinct(Tail(q))
                           /\ Entries(Tail(q)) = Entries(q) \ {Head(q)}
<1>1. /\ Len(q) \in Nat \ {0}
      /\ Head(q) = q[1]
      /\ Head(q) \in S
      /\ Tail(q) \in Seq(S)
      /\ Len(Tail(q)) = Len(q) - 1
      /\ \A i \in 1 .. Len(q) - 1 : Tail(q)[i] = q[i + 1]
  OBVIOUS
<1>2. Head(q) \in Entries(q)
  BY <1>1 DEF Entries
<1>3. ASSUME Distinct(q) PROVE Distinct(Tail(q))
  BY <1>1, <1>3 DEF Distinct
<1>4. ASSUME Distinct(q) PROVE Entries(Tail(q)) = Entries(q) \ {Head(q)}
  <2>1. ASSUME NEW x \in Entries(Tail(q)) PROVE x \in Entries(q) \ {Head(q)}
    BY <1>1, <1>4 DEF Distinct, Entries
  <2>2. ASSUME NEW x \in Entries(q) \ {Head(q)} PROVE x \in Entries(Tail(q))
    <3>1. PICK i \in 1 .. Len(q) : q[i] = x
      BY DEF Entries
    <3>2. i # 1 /\ i - 1 \in 1 .. Len(q) - 1 /\ Tail(q)[i - 1] = x
      BY <1>1, <3>1
    <3> QED BY <1>1, <3>2 DEF Entries
  <2> QED BY <2>1, <2>2
<1> QED BY <1>1, <1>2, <1>3, <1>4

LEMMA WithoutFacts ==
  ASSUME NEW S, NEW q \in Seq(S), Distinct(q), NEW s \in Entries(q)
  PROVE  /\ Without(q, s) \in Seq(S)
         /\ Len(Without(q, s)) = Len(q) - 1
         /\ Distinct(Without(q, s))
         /\ Entries(Without(q, s)) = Entries(q) \ {s}
         /\ \A i \in 1 .. Len(q) - 1 :
              Without(q, s)[i] = q[i] \/ Without(q, s)[i] = q[i + 1]
<1> DEFINE k == CHOOSE i \in 1 .. Len(q) : q[i] = s
           r == Without(q, s)
<1>1. k \in 1 .. Len(q) /\ q[k] = s
  BY DEF Entries
<1>2. Len(q) \in Nat \ {0} /\ \A i \in 1 .. Len(q) : q[i] \in S
  BY <1>1
<1>3. r = [i \in 1 .. Len(q) - 1 |-> IF i < k THEN q[i] ELSE q[i + 1]]
  BY DEF Without
<1> HIDE DEF k, r
<1>4. /\ r \in Seq(S)
      /\ Len(r) = Len(q) - 1
      /\ \A i \in 1 .. Len(q) - 1 : r[i] = IF i < k THEN q[i] ELSE q[i + 1]
  <2>1. r \in [1 .. Len(q) - 1 -> S]
    BY <1>1, <1>2, <1>3
  <2> QED BY <1>2, <1>3, <2>1
<1>5. Distinct(r)
  BY <1>1, <1>2, <1>4 DEF Distinct
<1>6. ASSUME NEW x \in Entries(r) PROVE x \in Entries(q) \ {s}
  BY <1>1, <1>2, <1>4 DEF Distinct, Entries
<1>7. ASSUME NEW x \in Entries(q) \ {s} PROVE x \in Entries(r)
  <2>1. PICK i \in 1 .. Len(q) : q[i] = x
    BY DEF Entries
  <2>2. i # k
    BY <1>1, <2>1
  <2>3. CASE i < k
    BY <1>1, <1>2, <1>4, <2>1, <2>3 DEF Entries
  <2>4. CASE i > k
    <3>1. i - 1 \in 1 .. Len(q) - 1 /\ r[i - 1] = x
      BY <1>1, <1>2, <1>4, <2>1, <2>4
    <3> QED BY <1>4, <3>1 DEF Entries
  <2> QED BY <1>1, <2>2, <2>3, <2>4
<1> QED BY <1>4, <1>5, <1>6, <1>7 DEF r

LEMMA LiveIsFinite ==
  ASSUME NEW L \in SUBSET Slots
  PROVE  /\ IsFiniteSet(L)
         /\ Cardinality(L) \in 0 .. Capacity
         /\ \A s \in Slots \ L : Cardinality(L \cup {s}) = Cardinality(L) + 1
         /\ \A s \in L : Cardinality(L \ {s}) = Cardinality(L) - 1
<1>1. IsFiniteSet(Slots) /\ Cardinality(Slots) = Capacity
  BY ConfigAssumption, FS_Interval DEF Slots
<1>2. IsFiniteSet(L) /\ Cardinality(L) <= Capacity
  BY <1>1, FS_Subset
<1>3. Cardinality(L) \in Nat
  BY <1>2, FS_CardinalityType
<1>4. ASSUME NEW s \in Slots \ L PROVE Cardinality(L \cup {s}) = Cardinality(L) + 1
  BY <1>2, FS_AddElement
<1>5. ASSUME NEW s \in L PROVE Cardinality(L \ {s}) = Cardinality(L) - 1
  BY <1>2, FS_RemoveElement
<1> QED BY <1>2, <1>3, <1>4, <1>5, ConfigAssumption

-----------------------------------------------------------------------------
(* The initial states, and the steps that only move time or the frame.     *)

LEMMA InitHolds == Init => IInv
<1> SUFFICES ASSUME Init PROVE IInv
  OBVIOUS
<1>1. TypeOK
  <2>1. 0 \in Clocks /\ 0 \in 0 .. Capacity /\ 0 \in 0 .. Generations
        /\ 0 \in 0 .. StepsPerFrame /\ 0 \in 0 .. CallsPerStep /\ <<>> \in Seq(Slots)
    BY ClockFacts, ConfigAssumption
  <2>2. NoFrame \in [start : Clocks, now : Clocks, steps : 0 .. StepsPerFrame]
    BY <2>1 DEF NoFrame
  <2>3. /\ due \in [Slots -> Clocks]
        /\ generation \in [Slots -> 0 .. Generations]
        /\ wait \in [Slots -> Nat]
    BY <2>1 DEF Init
  <2>4. /\ live \in SUBSET Slots
        /\ unvisited \in SUBSET (Slots \X (0 .. Generations))
        /\ terminated \in BOOLEAN /\ updating \in BOOLEAN
        /\ clock \in Clocks /\ current = NoTask
    BY DEF Init
  <2>5. /\ ready \in Seq(Slots)
        /\ pending \in 0 .. Capacity
        /\ remaining \in Int
        /\ calls \in 0 .. CallsPerStep
    BY <2>1 DEF Init
  <2>6. frame \in [start : Clocks, now : Clocks, steps : 0 .. StepsPerFrame]
    BY <2>2 DEF Init
  <2> QED BY <2>3, <2>4, <2>5, <2>6 DEF TypeOK
<1>2. FifoMatchesSlots
  BY FS_EmptySet DEF Init, FifoMatchesSlots, Distinct, Entries, InStep
<1> QED
  BY <1>1, <1>2
     DEF Init, IInv, WindowIsUnvisited, TerminationIsFinal, Numbered,
         InsideUpdate, OwnSlot

LEMMA TickStep ==
  ASSUME IInv, Tick
  PROVE  IInv'
<1> USE DEF Tick, taskVars, frameVars
<1>1. clock \in Int
  BY ClockFacts DEF IInv, TypeOK, Clocks
<1>2. TypeOK'
  BY <1>1, ClockFacts DEF IInv, TypeOK
<1>3. FifoMatchesSlots' /\ OwnSlot'
  BY DEF IInv, FifoMatchesSlots, Distinct, Entries, InStep, CurrentIsLive,
         OwnSlot, Reused
<1> QED
  BY <1>2, <1>3
     DEF IInv, WindowIsUnvisited, TaskOf, TerminationIsFinal, Numbered, InsideUpdate

LEMMA BeginUpdateStep ==
  ASSUME IInv, BeginUpdate
  PROVE  IInv'
<1> USE DEF BeginUpdate, clockVars, taskVars
<1>1. TypeOK'
  BY ConfigAssumption DEF IInv, TypeOK, TaskOf
<1>2. current = NoTask
  BY DEF IInv, InsideUpdate
<1>3. FifoMatchesSlots'
  BY DEF IInv, FifoMatchesSlots, Distinct, Entries, InStep, CurrentIsLive
<1>4. WindowIsUnvisited'
  <2>1. ASSUME NEW i \in 1 .. Len(ready) PROVE ready[i] \in live
    BY DEF IInv, FifoMatchesSlots, Entries
  <2> QED BY <2>1 DEF WindowIsUnvisited, TaskOf
<1> QED
  BY <1>1, <1>2, <1>3, <1>4
     DEF IInv, TerminationIsFinal, Numbered, InsideUpdate, OwnSlot, Reused

LEMMA EndUpdateStep ==
  ASSUME IInv, EndUpdate
  PROVE  IInv'
<1> USE DEF EndUpdate, Looping, clockVars, taskVars
<1>1. TypeOK'
  <2>1. NoFrame \in [start : Clocks, now : Clocks, steps : 0 .. StepsPerFrame]
    BY ClockFacts, ConfigAssumption DEF NoFrame
  <2> QED BY <2>1 DEF IInv, TypeOK
<1>2. FifoMatchesSlots'
  BY DEF IInv, FifoMatchesSlots, Distinct, Entries, InStep, CurrentIsLive
<1> QED
  BY <1>1, <1>2
     DEF IInv, WindowIsUnvisited, TerminationIsFinal, Numbered, InsideUpdate, OwnSlot

-----------------------------------------------------------------------------
(* One iteration of Update's loop.                                         *)

LEMMA VisitFacts ==
  ASSUME IInv, NEW s \in Slots, Visit(s)
  PROVE  /\ ready # <<>>
         /\ s \in live
         /\ current = NoTask
         /\ updating /\ ~terminated
         /\ remaining' = remaining - 1
         /\ remaining - 1 \in Int
         /\ frame' \in [start : Clocks, now : Clocks, steps : 0 .. StepsPerFrame]
         /\ frame'.steps < StepsPerFrame
         /\ unvisited' = unvisited \ {TaskOf(s)}
         /\ unvisited' \in SUBSET (Slots \X (0 .. Generations))
         /\ \A i \in 2 .. remaining :
              /\ i \in 1 .. Len(ready)
              /\ TaskOf(ready[i]) \in unvisited \ {TaskOf(s)}
<1> USE DEF Visit, Looping, VisitsLeft
<1>1. remaining \in Int /\ remaining > 0 /\ ready \in Seq(Slots)
  BY DEF IInv, TypeOK
<1>2. ready # <<>> /\ s = ready[1] /\ 1 \in 1 .. Len(ready)
  BY <1>1 DEF IInv, WindowIsUnvisited
<1>3. InStep = {}
  BY DEF InStep
<1>4. s \in live /\ ~terminated
  BY <1>2, <1>3 DEF IInv, FifoMatchesSlots, Entries, TerminationIsFinal
<1>5. ASSUME NEW i \in 2 .. remaining
      PROVE  /\ i \in 1 .. Len(ready)
             /\ TaskOf(ready[i]) \in unvisited \ {TaskOf(s)}
  <2>1. i \in 1 .. Len(ready) /\ TaskOf(ready[i]) \in unvisited
    BY <1>1, <1>5 DEF IInv, WindowIsUnvisited
  <2>2. ready[i] # s
    BY <1>1, <1>2, <2>1 DEF IInv, FifoMatchesSlots, Distinct
  <2> QED BY <2>1, <2>2 DEF TaskOf
<1>6. /\ frame' \in [start : Clocks, now : Clocks, steps : 0 .. StepsPerFrame]
      /\ frame'.steps < StepsPerFrame
  BY DEF IInv, TypeOK
<1>7. unvisited' \in SUBSET (Slots \X (0 .. Generations))
  BY DEF IInv, TypeOK
<1> QED BY <1>1, <1>2, <1>4, <1>5, <1>6, <1>7

LEMMA StartStepStep ==
  ASSUME IInv, StartStep
  PROVE  IInv'
<1>1. PICK s \in Slots :
        /\ Visit(s)
        /\ IsDue(s)
        /\ ready' = Tail(ready)
        /\ current' = [slot |-> s, generation |-> generation[s], due |-> due[s]]
        /\ calls' = 0
  BY DEF StartStep
<1>2. UNCHANGED <<clockVars, live, due, generation, pending, updating, terminated>>
  BY <1>1 DEF Visit
<1> USE DEF clockVars
<1>3. ready \in Seq(Slots) /\ Distinct(ready) /\ s = Head(ready) /\ ready # <<>>
  BY <1>1, VisitFacts DEF IInv, TypeOK, FifoMatchesSlots, Visit
<1>4. /\ ready' \in Seq(Slots)
      /\ Len(ready') = Len(ready) - 1
      /\ \A i \in 1 .. Len(ready) - 1 : ready'[i] = ready[i + 1]
      /\ Distinct(ready')
      /\ Entries(ready') = Entries(ready) \ {s}
  BY <1>1, <1>3, PopFacts
<1>5. current' # NoTask /\ current'.slot = s /\ current'.generation = generation[s]
  BY <1>1, ConfigAssumption DEF NoTask, Slots
<1>6. TypeOK'
  <2>1. current' \in [slot : Slots, generation : 0 .. Generations, due : Clocks]
    BY <1>1 DEF IInv, TypeOK
  <2> QED
    <3>1. 0 \in 0 .. CallsPerStep
      BY ConfigAssumption
    <3>2. /\ remaining' \in Int
          /\ unvisited' \in SUBSET (Slots \X (0 .. Generations))
          /\ frame' \in [start : Clocks, now : Clocks, steps : 0 .. StepsPerFrame]
      BY <1>1, VisitFacts
    <3> QED
      BY <1>1, <1>2, <1>4, <2>1, <3>1, <3>2 DEF IInv, TypeOK
<1>7. FifoMatchesSlots'
  <2>1. InStep = {} /\ InStep' = {s}
    BY <1>1, <1>2, <1>5, VisitFacts DEF InStep, CurrentIsLive
  <2>2. Distinct(ready)' /\ Entries(ready)' = live' \ InStep'
    BY <1>2, <1>4, <2>1 DEF IInv, FifoMatchesSlots, Distinct, Entries
  <2> QED BY <1>2, <2>2 DEF IInv, FifoMatchesSlots
<1>8. WindowIsUnvisited'
  <2> SUFFICES ASSUME NEW i \in 1 .. remaining'
               PROVE  i \in 1 .. Len(ready') /\ TaskOf(ready[i])' \in unvisited'
    BY DEF WindowIsUnvisited
  <2>1. i + 1 \in 2 .. remaining
    BY <1>1, VisitFacts DEF IInv, TypeOK
  <2>2. i + 1 \in 1 .. Len(ready) /\ TaskOf(ready[i + 1]) \in unvisited'
    BY <1>1, <2>1, VisitFacts
  <2>3. i \in 1 .. Len(ready) - 1
    BY <1>3, <2>2
  <2> QED BY <1>2, <1>4, <2>2, <2>3 DEF TaskOf
<1>9. InsideUpdate' /\ OwnSlot'
  <2>1. generation[s] \in 1 .. Generations
    BY <1>1, VisitFacts DEF IInv, TypeOK, Numbered
  <2>2. 0 \in 0 .. Generations - 1 /\ Reused(0)'
    BY <1>1, <1>2, <1>5, <2>1, VisitFacts, ConfigAssumption DEF Reused
  <2> QED
    BY <1>1, <1>2, <1>5, <2>1, <2>2, VisitFacts DEF InsideUpdate, OwnSlot
<1> QED
  BY <1>1, <1>2, <1>6, <1>7, <1>8, <1>9, VisitFacts
     DEF IInv, TerminationIsFinal, Numbered

LEMMA DeferStep ==
  ASSUME IInv, Defer
  PROVE  IInv'
<1>1. PICK s \in Slots :
        /\ Visit(s)
        /\ ready' = IF s \in live THEN Push(Tail(ready), s) ELSE Tail(ready)
        /\ UNCHANGED <<current, calls>>
  BY DEF Defer
<1>2. UNCHANGED <<clockVars, live, due, generation, pending, updating, terminated>>
  BY <1>1 DEF Visit
<1> USE DEF clockVars
<1>3. ready \in Seq(Slots) /\ Distinct(ready) /\ s = Head(ready) /\ ready # <<>>
  BY <1>1, VisitFacts DEF IInv, TypeOK, FifoMatchesSlots, Visit
<1>4. /\ Tail(ready) \in Seq(Slots)
      /\ Len(Tail(ready)) = Len(ready) - 1
      /\ \A i \in 1 .. Len(ready) - 1 : Tail(ready)[i] = ready[i + 1]
      /\ Distinct(Tail(ready))
      /\ Entries(Tail(ready)) = Entries(ready) \ {s}
      /\ s \in Entries(ready)
  BY <1>3, PopFacts
<1>5. ready' = Push(Tail(ready), s)
  BY <1>1, VisitFacts
<1>6. /\ ready' \in Seq(Slots)
      /\ Len(ready') = Len(ready)
      /\ \A i \in 1 .. Len(ready) - 1 : ready'[i] = ready[i + 1]
      /\ Distinct(ready')
      /\ Entries(ready') = Entries(ready)
  <2>1. Len(ready) \in Nat \ {0}
    BY <1>3
  <2>2. /\ ready' \in Seq(Slots)
        /\ Len(ready') = Len(Tail(ready)) + 1
        /\ \A i \in 1 .. Len(Tail(ready)) : ready'[i] = Tail(ready)[i]
        /\ Distinct(ready')
        /\ Entries(ready') = Entries(Tail(ready)) \cup {s}
    <3> DEFINE t == Tail(ready)
    <3>1. t \in Seq(Slots) /\ Distinct(t) /\ s \in Slots /\ s \notin Entries(t)
      BY <1>4
    <3> HIDE DEF t
    <3>2. Push(t, s) \in Seq(Slots) /\ Distinct(Push(t, s))
      BY <3>1, PushFacts
    <3>3. Len(Push(t, s)) = Len(t) + 1 /\ \A i \in 1 .. Len(t) : Push(t, s)[i] = t[i]
      BY <3>1, PushFacts
    <3>4. Entries(Push(t, s)) = Entries(t) \cup {s}
      BY <3>1, PushFacts
    <3> QED BY <1>5, <3>2, <3>3, <3>4 DEF t
  <2> QED BY <1>4, <2>1, <2>2
<1>7. TypeOK'
  BY <1>1, <1>2, <1>6, VisitFacts DEF IInv, TypeOK
<1>8. FifoMatchesSlots'
  BY <1>1, <1>2, <1>6
     DEF IInv, FifoMatchesSlots, InStep, CurrentIsLive, Distinct, Entries
<1>9. WindowIsUnvisited'
  <2> SUFFICES ASSUME NEW i \in 1 .. remaining'
               PROVE  i \in 1 .. Len(ready') /\ TaskOf(ready[i])' \in unvisited'
    BY DEF WindowIsUnvisited
  <2>1. i + 1 \in 2 .. remaining
    BY <1>1, VisitFacts DEF IInv, TypeOK
  <2>2. i + 1 \in 1 .. Len(ready) /\ TaskOf(ready[i + 1]) \in unvisited'
    BY <1>1, <2>1, VisitFacts
  <2>3. i \in 1 .. Len(ready) - 1
    BY <1>3, <2>2
  <2>4. Len(ready) \in Nat
    BY <1>3
  <2>5. ready'[i] = ready[i + 1]
    BY <1>6, <2>3
  <2>6. TaskOf(ready[i])' = TaskOf(ready[i + 1])
    BY <1>2, <2>5 DEF TaskOf
  <2>7. Len(ready') = Len(ready)
    BY <1>6
  <2> QED BY <2>2, <2>3, <2>4, <2>6, <2>7
<1> QED
  BY <1>1, <1>2, <1>7, <1>8, <1>9, VisitFacts
     DEF IInv, TerminationIsFinal, Numbered, InsideUpdate, OwnSlot

-----------------------------------------------------------------------------
(* Calls made by the game or by the running step.                          *)

LEMMA CallsCounted ==
  ASSUME IInv
  PROVE  calls \in Nat /\ CallsPerStep \in Nat /\ calls <= CallsPerStep
<1>1. calls \in 0 .. CallsPerStep
  BY DEF IInv, TypeOK
<1>2. CallsPerStep \in Nat
  BY ConfigAssumption
<1> QED BY <1>1, <1>2

LEMMA CallFacts ==
  ASSUME IInv, MayCall
  PROVE  /\ calls' \in 0 .. CallsPerStep
         /\ current # NoTask => calls' = calls + 1
<1>1. calls \in 0 .. CallsPerStep
  BY DEF IInv, TypeOK
<1>2. CASE ~updating
  BY <1>1, <1>2 DEF MayCall, IInv, InsideUpdate
<1>3. CASE updating
  BY <1>1, <1>3, ConfigAssumption DEF MayCall
<1> QED BY <1>2, <1>3

(* A task is appended to the FIFO in a free slot, under a new generation.  *)
LEMMA EnqueueStep ==
  ASSUME IInv, MayCall, NEW deadline \in Clocks, Enqueue(deadline)
  PROVE  IInv'
<1> USE DEF Enqueue, Accepts, frameVars
<1>1. PICK s \in Slots :
        /\ s \notin live
        /\ live' = live \cup {s}
        /\ generation' = [generation EXCEPT ![s] = NextGeneration(@)]
        /\ due' = [due EXCEPT ![s] = deadline]
        /\ wait' = [wait EXCEPT ![s] = TicksUntil(deadline)]
        /\ ready' = Push(ready, s)
        /\ pending' = pending + 1
  BY DEF IsFirstFree, Free
<1>2. UNCHANGED <<clock, updating, remaining, frame, current, unvisited, terminated>>
  OBVIOUS
<1>3. live \in SUBSET Slots /\ ready \in Seq(Slots) /\ Len(ready) \in Nat
  BY DEF IInv, TypeOK
<1>4. generation[s] \in 0 .. Generations /\ NextGeneration(generation[s]) \in 1 .. Generations
  BY ConfigAssumption DEF IInv, TypeOK, NextGeneration
<1>5. s \notin Entries(ready)
  BY <1>1 DEF IInv, FifoMatchesSlots
<1>pushed. ready \in Seq(Slots) /\ Distinct(ready) /\ ready' = Push(ready, s)
  BY <1>1, <1>3 DEF IInv, FifoMatchesSlots
<1>6. /\ ready' \in Seq(Slots)
      /\ Distinct(ready')
  BY <1>5, <1>pushed, PushFacts
<1>7. /\ Len(ready') = Len(ready) + 1
      /\ \A i \in 1 .. Len(ready) : ready'[i] = ready[i]
  <2>1. /\ Len(Push(ready, s)) = Len(ready) + 1
        /\ \A i \in 1 .. Len(ready) : Push(ready, s)[i] = ready[i]
    BY <1>3, PushFacts
  <2> QED BY <1>pushed, <2>1
<1>8. Entries(ready') = Entries(ready) \cup {s}
  <2>1. Entries(Push(ready, s)) = Entries(ready) \cup {s}
    BY <1>3, PushFacts
  <2> QED BY <1>pushed, <2>1
<1>9. TypeOK'
  <2>1. pending' \in 0 .. Capacity
    BY SMTT(40), <1>1, <1>3, LiveIsFinite, ConfigAssumption DEF IInv, TypeOK, FifoMatchesSlots
  <2>2. generation' \in [Slots -> 0 .. Generations]
    BY <1>1, <1>4 DEF IInv, TypeOK
  <2>3. wait' \in [Slots -> Nat]
    BY <1>1, TicksType DEF IInv, TypeOK
  <2>4. due' \in [Slots -> Clocks]
    BY <1>1 DEF IInv, TypeOK
  <2> QED
    BY <1>1, <1>2, <1>3, <1>6, <2>1, <2>2, <2>3, <2>4, CallFacts DEF IInv, TypeOK
<1>10. OwnSlot'
  <2> SUFFICES ASSUME current # NoTask, ~terminated
               PROVE  \E k \in 0 .. Generations - 1 : Reused(k)'
    BY <1>2 DEF OwnSlot
  <2>1. PICK k \in 0 .. Generations - 1 : Reused(k)
    BY DEF IInv, OwnSlot
  <2>2. calls' = calls + 1 /\ calls' \in 0 .. CallsPerStep /\ calls \in Nat
    BY CallFacts, CallsCounted
  <2>3. current.generation \in 1 .. Generations /\ current.slot \in Slots
    BY DEF IInv, InsideUpdate, TypeOK
  <2>4. CASE current.slot # s
    <3>1. generation'[current.slot] = generation[current.slot]
      BY <1>1, <2>3, <2>4 DEF IInv, TypeOK
    <3>2. current.slot \in live' <=> current.slot \in live
      BY <1>1, <2>4
    <3>3. Reused(k)'
      BY <1>2, <2>1, <2>2, <3>1, <3>2 DEF Reused
    <3> QED BY <3>3
  <2>5. CASE current.slot = s
    <3>1. generation'[s] = NextGeneration(generation[s])
      BY <1>1 DEF IInv, TypeOK
    <3>2. s \notin live /\ s \in live'
      BY <1>1
    <3>3. 2 * k + 2 <= calls'
      BY <2>1, <2>2, <2>5, <3>2 DEF Reused
    <3>4. k + 1 \in 0 .. Generations - 1
      BY <2>2, <3>3, GenerationAssumption, ConfigAssumption
    <3>5. \/ generation'[s] = current.generation + (k + 1)
          \/ generation'[s] = current.generation + (k + 1) - Generations
      BY <1>4, <2>1, <2>3, <2>5, <3>1, <3>4, ConfigAssumption
         DEF Reused, NextGeneration
    <3>6. Reused(k + 1)'
      BY <1>2, <2>5, <3>2, <3>3, <3>5 DEF Reused
    <3> QED BY <3>4, <3>6
  <2> QED BY <2>4, <2>5
<1>11. FifoMatchesSlots'
  <2>1. InStep' = InStep
    <3>1. CASE current = NoTask
      BY <1>2, <3>1 DEF InStep
    <3>2. CASE current # NoTask /\ current.slot # s
      <4>1. current.slot \in Slots
        BY <3>2 DEF IInv, TypeOK
      <4>2. CurrentIsLive' <=> CurrentIsLive
        BY <1>1, <1>2, <3>2, <4>1 DEF CurrentIsLive, IInv, TypeOK
      <4> QED BY <1>2, <4>2 DEF InStep
    <3>3. CASE current # NoTask /\ current.slot = s
      <4>1. ~CurrentIsLive
        BY <1>1, <3>3 DEF CurrentIsLive
      <4>2. PICK k \in 0 .. Generations - 1 : Reused(k)'
        BY <1>2, <1>10, <3>3 DEF OwnSlot
      <4>3. PICK j \in 0 .. Generations - 1 : Reused(j)
        BY <3>3 DEF IInv, OwnSlot
      <4>4. ~CurrentIsLive'
        <5>1. generation'[s] = NextGeneration(generation[s])
          BY <1>1 DEF IInv, TypeOK
        <5>2. current.generation \in 1 .. Generations
          BY <3>3 DEF IInv, InsideUpdate
        <5>3. 2 * j + 1 <= calls /\ calls + 1 <= CallsPerStep
          BY SMTT(40), <1>1, <3>3, <4>3, CallFacts DEF Reused, IInv, TypeOK
        <5>4. j + 1 <= Generations - 1
          BY <5>3, GenerationAssumption, ConfigAssumption DEF IInv, TypeOK
        <5>5. NextGeneration(generation[s]) # current.generation
          BY <1>4, <3>3, <4>3, <5>2, <5>4, ConfigAssumption
             DEF Reused, NextGeneration
        <5> QED BY <1>2, <3>3, <5>1, <5>5 DEF CurrentIsLive
      <4> QED BY <1>2, <4>1, <4>4 DEF InStep
    <3> QED BY <3>1, <3>2, <3>3
  <2>2. s \notin InStep
    BY <1>1 DEF InStep, CurrentIsLive
  <2>3. Entries(ready') = live' \ InStep'
    BY <1>1, <1>8, <2>1, <2>2 DEF IInv, FifoMatchesSlots
  <2>4. pending' = Cardinality(live')
    BY <1>1, <1>3, LiveIsFinite DEF IInv, FifoMatchesSlots
  <2> QED BY <1>6, <2>3, <2>4 DEF FifoMatchesSlots, Distinct, Entries
<1>12. WindowIsUnvisited'
  <2> SUFFICES ASSUME updating', NEW i \in 1 .. remaining'
               PROVE  i \in 1 .. Len(ready') /\ TaskOf(ready[i])' \in unvisited'
    BY DEF WindowIsUnvisited
  <2>1. i \in 1 .. Len(ready) /\ TaskOf(ready[i]) \in unvisited
    BY <1>2 DEF IInv, WindowIsUnvisited
  <2>2. ready'[i] = ready[i] /\ ready[i] # s /\ ready[i] \in Slots
    BY <1>3, <1>5, <1>7, <2>1 DEF Entries
  <2>3. TaskOf(ready[i])' = TaskOf(ready[i])
    BY <1>1, <2>2 DEF TaskOf, IInv, TypeOK
  <2> QED BY <1>2, <1>3, <1>7, <2>1, <2>3
<1>13. Numbered'
  <2>1. ASSUME NEW t \in live' PROVE generation'[t] # 0
    <3>1. CASE t = s
      BY <1>1, <1>4, <3>1 DEF IInv, TypeOK
    <3>2. CASE t # s
      BY <1>1, <1>3, <3>2 DEF IInv, TypeOK, Numbered
    <3> QED BY <3>1, <3>2
  <2> QED BY <2>1 DEF Numbered
<1> QED
  BY <1>2, <1>9, <1>10, <1>11, <1>12, <1>13
     DEF IInv, TerminationIsFinal, InsideUpdate

LEMMA RemoveLive ==
  ASSUME IInv, NEW s \in live, Release(s)
  PROVE  /\ live' \in SUBSET Slots
         /\ pending' \in 0 .. Capacity
         /\ pending' = Cardinality(live')
<1>1. live \in SUBSET Slots /\ live' = live \ {s} /\ pending' = pending - 1
  BY DEF IInv, TypeOK, Release
<1>2. pending' = Cardinality(live')
  BY <1>1, LiveIsFinite DEF IInv, FifoMatchesSlots
<1>3. live' \in SUBSET Slots
  BY <1>1
<1> QED BY <1>2, <1>3, LiveIsFinite

(* The cancelled slot leaves the FIFO, and the window if it was inside.    *)
LEMMA CancelStep ==
  ASSUME IInv, NEW task \in Slots \X (1 .. Generations), Cancel(task)
  PROVE  IInv'
<1> DEFINE s == task[1]
<1>1. /\ s \in live
      /\ Release(s)
      /\ live' = live \ {s}
      /\ ready' = Without(ready, s)
      /\ remaining' = RemainingWithout(s)
      /\ MayCall
      /\ UNCHANGED <<clockVars, due, generation, updating, frame, current,
                     unvisited, terminated>>
  BY DEF Cancel, Identify, Release
<1> HIDE DEF s
<1> USE DEF clockVars
<1>2. /\ live' \in SUBSET Slots
      /\ pending' \in 0 .. Capacity
      /\ pending' = Cardinality(live')
  BY <1>1, RemoveLive
<1>3. ready \in Seq(Slots) /\ Distinct(ready) /\ Len(ready) \in Nat /\ remaining \in Int
  BY DEF IInv, TypeOK, FifoMatchesSlots
<1>4. /\ ready' \in Seq(Slots)
      /\ Distinct(ready')
      /\ Entries(ready') = Entries(ready) \ {s}
  <2>1. CASE s \in Entries(ready)
    BY <1>1, <1>3, <2>1, WithoutFacts
  <2>2. CASE s \notin Entries(ready)
    BY <1>1, <1>3, <2>2 DEF Without
  <2> QED BY <2>1, <2>2
<1>5. remaining' \in Int
  BY <1>1, <1>3 DEF RemainingWithout
<1>6. TypeOK'
  BY <1>1, <1>2, <1>4, <1>5, CallFacts DEF IInv, TypeOK
<1>7. InStep' = InStep \ {s}
  BY <1>1 DEF InStep, CurrentIsLive
<1>8. FifoMatchesSlots'
  <2>1. Entries(ready') = live' \ InStep'
    BY <1>1, <1>4, <1>7 DEF IInv, FifoMatchesSlots
  <2> QED BY <1>2, <1>4, <2>1 DEF FifoMatchesSlots, Distinct, Entries
<1>9. WindowIsUnvisited'
  <2> SUFFICES ASSUME updating', NEW i \in 1 .. remaining'
               PROVE  i \in 1 .. Len(ready') /\ TaskOf(ready[i])' \in unvisited'
    BY DEF WindowIsUnvisited
  <2>1. CASE s \notin Entries(ready)
    <3>1. ready' = ready /\ remaining' = remaining
      BY <1>1, <2>1 DEF Without, RemainingWithout
    <3> QED BY <1>1, <3>1 DEF IInv, WindowIsUnvisited, TaskOf
  <2>2. CASE s \in Entries(ready)
    <3>1. remaining' = remaining - 1
      BY <1>1, <2>2 DEF RemainingWithout
    <3>2. i \in 1 .. remaining /\ i + 1 \in 1 .. remaining
      BY <1>3, <3>1
    <3>3. /\ i \in 1 .. Len(ready) /\ i + 1 \in 1 .. Len(ready)
          /\ TaskOf(ready[i]) \in unvisited
          /\ TaskOf(ready[i + 1]) \in unvisited
      BY <1>1, <3>2 DEF IInv, WindowIsUnvisited
    <3>4. /\ Len(ready') = Len(ready) - 1
          /\ \A j \in 1 .. Len(ready) - 1 : ready'[j] = ready[j] \/ ready'[j] = ready[j + 1]
      BY <1>1, <1>3, <2>2, WithoutFacts
    <3>5. i \in 1 .. Len(ready) - 1
      BY <1>3, <3>3
    <3>6. ready'[i] = ready[i] \/ ready'[i] = ready[i + 1]
      BY <3>4, <3>5
    <3>7. TaskOf(ready[i])' = TaskOf(ready[i]) \/ TaskOf(ready[i])' = TaskOf(ready[i + 1])
      BY <1>1, <3>6 DEF TaskOf
    <3> QED BY <1>1, <3>3, <3>4, <3>5, <3>7
  <2> QED BY <2>1, <2>2
<1>10. OwnSlot'
  <2> SUFFICES ASSUME current # NoTask, ~terminated
               PROVE  \E k \in 0 .. Generations - 1 : Reused(k)'
    BY <1>1 DEF OwnSlot
  <2>1. PICK k \in 0 .. Generations - 1 : Reused(k)
    BY DEF IInv, OwnSlot
  <2>2. calls' = calls + 1 /\ calls \in Nat
    BY <1>1, CallFacts, CallsCounted
  <2>3. Reused(k)'
    BY <1>1, <2>1, <2>2 DEF Reused
  <2> QED BY <2>3
<1>11. ~terminated
  BY <1>1 DEF IInv, TerminationIsFinal
<1> QED
  BY <1>1, <1>6, <1>8, <1>9, <1>10, <1>11
     DEF IInv, TerminationIsFinal, Numbered, InsideUpdate

LEMMA TerminateStep ==
  ASSUME IInv, Terminate
  PROVE  IInv'
<1> USE DEF Terminate, clockVars
<1>1. TypeOK'
  BY CallFacts, ConfigAssumption DEF IInv, TypeOK
<1>2. FifoMatchesSlots'
  BY FS_EmptySet DEF FifoMatchesSlots, Distinct, Entries, InStep, CurrentIsLive
<1> QED
  BY <1>1, <1>2
     DEF IInv, WindowIsUnvisited, TerminationIsFinal, Numbered, InsideUpdate, OwnSlot

LEMMA CallStep ==
  ASSUME IInv, Call
  PROVE  IInv'
<1>1. clock \in Clocks /\ clock \in Int /\ Intervals \subseteq Int
  BY ClockFacts, ConfigAssumption DEF IInv, TypeOK, Clocks
<1>2. CASE Immediately
  BY <1>1, <1>2, EnqueueStep DEF Immediately
<1>3. ASSUME NEW ms \in Intervals, ScheduleAfter(ms) PROVE IInv'
  <2>1. Wrap(clock + ms) \in Clocks
    BY <1>1, ClockFacts
  <2> QED BY <1>3, <2>1, EnqueueStep DEF ScheduleAfter
<1>4. ASSUME NEW deadline \in Clocks, ScheduleAt(deadline) PROVE IInv'
  BY <1>4, EnqueueStep DEF ScheduleAt
<1>5. ASSUME NEW task \in Slots \X (1 .. Generations), Cancel(task) PROVE IInv'
  BY <1>5, CancelStep
<1>6. CASE Terminate
  BY <1>6, TerminateStep
<1> QED BY <1>2, <1>3, <1>4, <1>5, <1>6 DEF Call

-----------------------------------------------------------------------------
(* The step returns.                                                       *)

LEMMA LeaveFacts ==
  ASSUME IInv, Leave, live' \in SUBSET Slots, pending' \in 0 .. Capacity
  PROVE  /\ TypeOK'
         /\ WindowIsUnvisited' /\ InsideUpdate' /\ OwnSlot'
         /\ InStep' = {}
<1> USE DEF Leave, clockVars
<1>1. NoFrame \in [start : Clocks, now : Clocks, steps : 0 .. StepsPerFrame]
  BY ClockFacts, ConfigAssumption DEF NoFrame
<1>2. 0 \in 0 .. CallsPerStep
  BY ConfigAssumption
<1> QED
  BY <1>1, <1>2
     DEF IInv, TypeOK, WindowIsUnvisited, InsideUpdate, OwnSlot, InStep

LEMMA ReturnTerminatedStep ==
  ASSUME IInv, ReturnTerminated
  PROVE  IInv'
<1> USE DEF ReturnTerminated, Leave
<1>1. live = {} /\ ready = <<>> /\ pending = 0
  BY DEF IInv, TerminationIsFinal
<1>2. /\ TypeOK'
      /\ WindowIsUnvisited' /\ InsideUpdate' /\ OwnSlot'
      /\ InStep' = {}
  BY LeaveFacts DEF IInv, TypeOK
<1>3. FifoMatchesSlots'
  BY <1>1, <1>2, FS_EmptySet DEF FifoMatchesSlots, Distinct, Entries
<1> QED BY <1>1, <1>2, <1>3 DEF IInv, TerminationIsFinal, Numbered

LEMMA ReturnInvalidStep ==
  ASSUME IInv, ReturnInvalid
  PROVE  IInv'
<1> DEFINE s == current.slot
<1>1. /\ Leave /\ Release(s) /\ s \in live /\ ~terminated
      /\ current # NoTask /\ InStep = {s}
      /\ live' = live \ {s}
      /\ UNCHANGED <<generation, ready, terminated>>
  BY DEF ReturnInvalid, Returned, CurrentIsLive, InStep, Leave, Release
<1> HIDE DEF s
<1>2. /\ live' \in SUBSET Slots
      /\ pending' \in 0 .. Capacity
      /\ pending' = Cardinality(live')
  BY <1>1, RemoveLive
<1>3. /\ TypeOK'
      /\ WindowIsUnvisited' /\ InsideUpdate' /\ OwnSlot'
      /\ InStep' = {}
  BY <1>1, <1>2, LeaveFacts
<1>4. FifoMatchesSlots'
  BY <1>1, <1>2, <1>3 DEF IInv, FifoMatchesSlots, Distinct, Entries
<1> QED BY <1>1, <1>3, <1>4 DEF IInv, TerminationIsFinal, Numbered

LEMMA BackToLoopFacts ==
  ASSUME IInv, BackToLoop
  PROVE  /\ current # NoTask /\ current' = NoTask
         /\ frame' \in [start : Clocks, now : Clocks, steps : 0 .. StepsPerFrame]
         /\ calls' \in 0 .. CallsPerStep
         /\ InsideUpdate' /\ OwnSlot'
         /\ InStep' = {}
         /\ UNCHANGED <<clock, generation, updating, remaining, unvisited, terminated>>
<1>1. frame' \in [start : Clocks, now : Clocks, steps : 0 .. StepsPerFrame]
  <2>1. frame \in [start : Clocks, now : Clocks, steps : 0 .. StepsPerFrame]
    BY DEF IInv, TypeOK
  <2>2. frame.steps + 1 \in 0 .. StepsPerFrame
    BY <2>1, ConfigAssumption DEF IInv, InsideUpdate, BackToLoop
  <2>3. frame' = [frame EXCEPT !.steps = frame.steps + 1]
    BY DEF BackToLoop
  <2> QED BY <2>1, <2>2, <2>3
<1> QED
  BY <1>1, ConfigAssumption DEF BackToLoop, InsideUpdate, OwnSlot, InStep

LEMMA ReturnStaleStep ==
  ASSUME IInv, ReturnStale
  PROVE  IInv'
<1> USE DEF ReturnStale
<1>1. InStep = {}
  BY DEF InStep
<1>2. TypeOK'
  BY BackToLoopFacts DEF IInv, TypeOK
<1>3. FifoMatchesSlots'
  BY <1>1, BackToLoopFacts DEF IInv, FifoMatchesSlots, Distinct, Entries
<1>4. WindowIsUnvisited'
  BY BackToLoopFacts DEF IInv, WindowIsUnvisited, TaskOf
<1> QED
  BY <1>2, <1>3, <1>4, BackToLoopFacts DEF IInv, TerminationIsFinal, Numbered

LEMMA ReturnCompleteStep ==
  ASSUME IInv, ReturnComplete
  PROVE  IInv'
<1> DEFINE s == current.slot
<1>1. /\ BackToLoop /\ Release(s) /\ s \in live /\ ~terminated
      /\ InStep = {s}
      /\ live' = live \ {s}
      /\ UNCHANGED <<due, ready, wait>>
  BY DEF ReturnComplete, Returned, CurrentIsLive, InStep, BackToLoop, Release
<1> HIDE DEF s
<1>2. /\ live' \in SUBSET Slots
      /\ pending' \in 0 .. Capacity
      /\ pending' = Cardinality(live')
  BY <1>1, RemoveLive
<1>3. TypeOK'
  BY <1>1, <1>2, BackToLoopFacts DEF IInv, TypeOK
<1>4. FifoMatchesSlots'
  BY <1>1, <1>2, BackToLoopFacts DEF IInv, FifoMatchesSlots, Distinct, Entries
<1>5. WindowIsUnvisited'
  BY <1>1, BackToLoopFacts DEF IInv, WindowIsUnvisited, TaskOf
<1> QED
  BY <1>1, <1>3, <1>4, <1>5, BackToLoopFacts DEF IInv, TerminationIsFinal, Numbered

LEMMA RescheduleStep ==
  ASSUME IInv, NEW deadline \in Clocks, NEW ticks \in Nat, Reschedule(deadline, ticks)
  PROVE  IInv'
<1> DEFINE s == current.slot
<1>1. /\ BackToLoop /\ s \in live /\ ~terminated
      /\ InStep = {s}
      /\ due' = [due EXCEPT ![s] = deadline]
      /\ wait' = [wait EXCEPT ![s] = ticks]
      /\ UNCHANGED <<live, pending>>
  BY DEF Reschedule, Returned, CurrentIsLive, InStep, BackToLoop
<1>pushed. ready' = Push(ready, s)
  BY DEF Reschedule
<1> HIDE DEF s
<1>2. live \in SUBSET Slots /\ ready \in Seq(Slots) /\ Distinct(ready) /\ Len(ready) \in Nat
  BY DEF IInv, TypeOK, FifoMatchesSlots
<1>3. s \in Slots /\ s \notin Entries(ready)
  BY <1>1, <1>2 DEF IInv, FifoMatchesSlots
<1>4. /\ ready' \in Seq(Slots)
      /\ Distinct(ready')
  BY <1>2, <1>3, <1>pushed, PushFacts
<1>5. /\ Len(ready') = Len(ready) + 1
      /\ \A i \in 1 .. Len(ready) : ready'[i] = ready[i]
  <2>1. /\ Len(Push(ready, s)) = Len(ready) + 1
        /\ \A i \in 1 .. Len(ready) : Push(ready, s)[i] = ready[i]
    BY <1>2, <1>3, PushFacts
  <2> QED BY <1>pushed, <2>1
<1>6. Entries(ready') = Entries(ready) \cup {s}
  <2>1. Entries(Push(ready, s)) = Entries(ready) \cup {s}
    BY <1>2, <1>3, PushFacts
  <2> QED BY <1>pushed, <2>1
<1>7. TypeOK'
  BY <1>1, <1>4, BackToLoopFacts DEF IInv, TypeOK
<1>8. FifoMatchesSlots'
  <2>1. Entries(ready') = live' \ InStep'
    BY <1>1, <1>6, BackToLoopFacts DEF IInv, FifoMatchesSlots
  <2> QED BY <1>1, <1>4, <2>1 DEF IInv, FifoMatchesSlots, Distinct, Entries
<1>9. WindowIsUnvisited'
  <2> SUFFICES ASSUME updating', NEW i \in 1 .. remaining'
               PROVE  i \in 1 .. Len(ready') /\ TaskOf(ready[i])' \in unvisited'
    BY DEF WindowIsUnvisited
  <2>1. i \in 1 .. Len(ready) /\ TaskOf(ready[i]) \in unvisited
    BY <1>1, BackToLoopFacts DEF IInv, WindowIsUnvisited
  <2>2. TaskOf(ready[i])' = TaskOf(ready[i])
    BY <1>1, <1>5, <2>1, BackToLoopFacts DEF TaskOf
  <2>3. unvisited' = unvisited
    BY <1>1, BackToLoopFacts
  <2> QED BY <1>2, <1>5, <2>1, <2>2, <2>3
<1> QED
  BY <1>1, <1>7, <1>8, <1>9, BackToLoopFacts DEF IInv, TerminationIsFinal, Numbered

LEMMA StepReturnStep ==
  ASSUME IInv, StepReturn
  PROVE  IInv'
<1>1. clock \in Int /\ frame.now \in Clocks /\ Intervals \subseteq Int
  BY ClockFacts, ConfigAssumption DEF IInv, TypeOK, Clocks
<1>2. CASE ReturnYield
  BY <1>1, <1>2, RescheduleStep DEF ReturnYield
<1>3. ASSUME NEW ms \in Intervals, ReturnDelay(ms) PROVE IInv'
  <2>1. Wrap(clock + ms) \in Clocks /\ ms \in Nat
    BY <1>1, ClockFacts, ConfigAssumption DEF Clocks
  <2> QED BY <1>3, <2>1, RescheduleStep DEF ReturnDelay
<1>4. ASSUME NEW ms \in Intervals, ReturnRepeat(ms) PROVE IInv'
  <2> DEFINE next == Wrap(current.due + ms)
  <2>1. Reschedule(next, TicksUntil(next))
    BY <1>4 DEF ReturnRepeat
  <2>2. current # NoTask
    BY <2>1 DEF Reschedule, BackToLoop
  <2>3. current.due \in Int /\ ms \in Int
    BY <1>1, <2>2, ClockFacts DEF IInv, TypeOK, Clocks
  <2>4. next \in Clocks
    BY <2>3, ClockFacts
  <2> HIDE DEF next
  <2>5. TicksUntil(next) \in Nat
    BY <2>4, TicksType DEF IInv
  <2> QED BY <2>1, <2>4, <2>5, RescheduleStep
<1> QED
  BY <1>2, <1>3, <1>4, ReturnTerminatedStep, ReturnStaleStep, ReturnCompleteStep,
     ReturnInvalidStep DEF StepReturn

-----------------------------------------------------------------------------
LEMMA Induction == IInv /\ [Next]_vars => IInv'
<1> SUFFICES ASSUME IInv, [Next]_vars PROVE IInv'
  OBVIOUS
<1>1. CASE Tick
  BY <1>1, TickStep
<1>2. CASE Call
  BY <1>2, CallStep
<1>3. CASE Update
  BY <1>3, BeginUpdateStep, StartStepStep, DeferStep, EndUpdateStep DEF Update
<1>4. CASE StepReturn
  BY <1>4, StepReturnStep
<1>5. CASE UNCHANGED vars
  BY <1>5
     DEF vars, clockVars, taskVars, frameVars, IInv, TypeOK, FifoMatchesSlots,
         WindowIsUnvisited, TaskOf, TerminationIsFinal, Numbered, InsideUpdate,
         OwnSlot, Reused, InStep, CurrentIsLive, Distinct, Entries
<1> QED BY <1>1, <1>2, <1>3, <1>4, <1>5 DEF Next

LEMMA Invariance == Spec => []IInv
BY InitHolds, Induction, PTL DEF Spec

(* Every reachable state is well typed; in particular pending stays within *)
(* the capacity and no step is started beyond StepsPerFrame.               *)
THEOREM TypeCorrect == Spec => []TypeOK
<1>1. IInv => TypeOK
  BY DEF IInv
<1> QED BY <1>1, Invariance, PTL

(* Each scheduled task is in the FIFO exactly once, or its own step is     *)
(* running, and pending counts the scheduled tasks.                        *)
THEOREM TasksHaveOneHome == Spec => []OneHomePerTask
<1>1. IInv => OneHomePerTask
  <2> SUFFICES ASSUME IInv PROVE Len(ready) = Cardinality(Entries(ready))
    BY DEF IInv, FifoMatchesSlots, OneHomePerTask
  <2>1. ready \in Seq(Slots) /\ Distinct(ready) /\ Len(ready) \in Nat
    BY DEF IInv, TypeOK, FifoMatchesSlots
  <2>2. \A i \in 1 .. Len(ready) : ready[i] \in Entries(ready)
    BY DEF Entries
  <2>3. ready \in Bijection(1 .. Len(ready), Entries(ready))
    <3>1. ready \in [1 .. Len(ready) -> Entries(ready)]
      BY <2>1, <2>2
    <3>2. ready \in Injection(1 .. Len(ready), Entries(ready))
      BY <2>1, <3>1 DEF Injection, IsInjective, Distinct
    <3>3. ready \in Surjection(1 .. Len(ready), Entries(ready))
      BY <3>1 DEF Surjection, Entries
    <3> QED BY <3>2, <3>3 DEF Bijection
  <2>4. ExistsBijection(1 .. Len(ready), Entries(ready))
    BY <2>3 DEF ExistsBijection
  <2>5. IsFiniteSet(1 .. Len(ready)) /\ Cardinality(1 .. Len(ready)) = Len(ready)
    BY <2>1, FS_Interval
  <2> QED BY <2>4, <2>5, FS_Bijection
<1> QED BY <1>1, Invariance, PTL

(* What is left of an Update's visits are tasks that were pending when it  *)
(* began and that it has not visited.                                      *)
THEOREM WindowHolds == Spec => []WindowIsUnvisited
<1>1. IInv => WindowIsUnvisited
  BY DEF IInv
<1> QED BY <1>1, Invariance, PTL

(* Nothing is scheduled after Terminate, however late the call comes.      *)
THEOREM TerminationHolds == Spec => []TerminationIsFinal
<1>1. IInv => TerminationIsFinal
  BY DEF IInv
<1> QED BY <1>1, Invariance, PTL

(* Update runs each task at most once, and none enqueued during the call.  *)
THEOREM AtMostOncePerUpdate == Spec => RunsOncePerUpdate
<1>1. IInv /\ [Next]_vars =>
        [StepStarts => <<current'.slot, current'.generation>> \in unvisited]_vars
  <2> SUFFICES ASSUME IInv, [Next]_vars, StepStarts
               PROVE  <<current'.slot, current'.generation>> \in unvisited
    OBVIOUS
  <2>1. StartStep
    BY DEF StepStarts, Next, vars, frameVars, Tick, Call, Immediately, ScheduleAfter,
           ScheduleAt, Enqueue, Cancel, Terminate, Update, BeginUpdate, Defer,
           EndUpdate, StepReturn, ReturnTerminated, ReturnStale, ReturnComplete,
           ReturnInvalid, ReturnYield, ReturnDelay, ReturnRepeat, Reschedule,
           BackToLoop, Leave
  <2>2. PICK s \in Slots :
          /\ Visit(s)
          /\ current' = [slot |-> s, generation |-> generation[s], due |-> due[s]]
    BY <2>1 DEF StartStep
  <2>3. 1 \in 1 .. remaining /\ s = Head(ready) /\ updating
    BY <2>2 DEF Visit, Looping, VisitsLeft, IInv, TypeOK
  <2>4. 1 \in 1 .. Len(ready) /\ TaskOf(ready[1]) \in unvisited
    BY <2>3 DEF IInv, WindowIsUnvisited
  <2>5. s = ready[1]
    BY <2>3, <2>4 DEF IInv, TypeOK
  <2> QED BY <2>2, <2>4, <2>5 DEF TaskOf
<1> QED BY <1>1, Invariance, PTL DEF Spec, RunsOncePerUpdate

-----------------------------------------------------------------------------
(* What a step returns.                                                    *)

(* A step's return leaves every other task, also one that has taken over   *)
(* its slot, with its deadline.                                            *)
THEOREM ReturnsTouchOwnTask == Spec => ReturnTouchesOwnTask
<1>1. IInv /\ [Next]_vars =>
        [(StepEnds /\ ~terminated) =>
           \A s \in live :
             (s # current.slot \/ generation[s] # current.generation) =>
               s \in live' /\ due'[s] = due[s]]_vars
  <2> SUFFICES ASSUME IInv, [Next]_vars, StepEnds, ~terminated,
                      NEW s \in live, s # current.slot \/ generation[s] # current.generation
               PROVE  s \in live' /\ due'[s] = due[s]
    OBVIOUS
  <2>1. StepReturn
    BY DEF StepEnds, Next, vars, frameVars, Tick, Call, Immediately, ScheduleAfter,
           ScheduleAt, Enqueue, Cancel, Terminate, Update, BeginUpdate, StartStep, Defer,
           Visit, Looping, EndUpdate
  <2>2. CASE ReturnStale
    BY <2>2 DEF ReturnStale, BackToLoop
  <2>3. CASE ReturnComplete \/ ReturnInvalid
    BY <2>3 DEF ReturnComplete, ReturnInvalid, Returned, CurrentIsLive, Release, Leave
  <2>4. ASSUME NEW deadline, NEW ticks, Reschedule(deadline, ticks)
        PROVE  s \in live' /\ due'[s] = due[s]
    BY <2>4 DEF Reschedule, Returned, CurrentIsLive, IInv, TypeOK
  <2> QED
    BY <2>1, <2>2, <2>3, <2>4
       DEF StepReturn, ReturnTerminated, ReturnYield, ReturnDelay, ReturnRepeat
<1> QED BY <1>1, Invariance, PTL DEF Spec, ReturnTouchesOwnTask

-----------------------------------------------------------------------------
(* Deadlines on the wrapping clock.                                        *)

(* A task that still has to wait, at most half the clock's range, has its  *)
(* deadline just that far ahead of the clock.                              *)
WaitsAhead ==
  \A s \in live : wait[s] > 0 => wait[s] <= Half /\ Wrap(due[s] - clock) = wait[s]

LEMMA Remainder ==
  ASSUME NEW m \in Nat \ {0}, NEW n \in Int, -m <= n, n < 2 * m
  PROVE  n % m = IF n < 0 THEN n + m ELSE IF n < m THEN n ELSE n - m
OBVIOUS

LEMMA WrapFacts ==
  ASSUME NEW n \in Int, -Modulus <= n, n < 2 * Modulus
  PROVE  Wrap(n) = IF n < 0 THEN n + Modulus ELSE IF n < Modulus THEN n ELSE n - Modulus
BY Remainder, ClockFacts DEF Wrap

(* The distance of two times, and a time some ticks later.                 *)
LEMMA Distance ==
  ASSUME NEW a \in Clocks, NEW b \in Clocks
  PROVE  Wrap(a - b) = IF a < b THEN a - b + Modulus ELSE a - b
<1>1. a \in Nat /\ b \in Nat /\ a < Modulus /\ b < Modulus /\ Modulus \in Nat
  BY ClockFacts DEF Clocks
<1>2. a - b \in Int /\ -Modulus <= a - b /\ a - b < 2 * Modulus /\ a - b < Modulus
  BY <1>1
<1>3. Wrap(a - b) = IF a - b < 0 THEN a - b + Modulus ELSE a - b
  BY <1>2, WrapFacts
<1> QED BY <1>1, <1>3

LEMMA Later ==
  ASSUME NEW a \in Clocks, NEW k \in Clocks
  PROVE  Wrap(a + k) = IF a + k < Modulus THEN a + k ELSE a + k - Modulus
<1>1. a \in Nat /\ k \in Nat /\ a < Modulus /\ k < Modulus /\ Modulus \in Nat
  BY ClockFacts DEF Clocks
<1>2. a + k \in Int /\ -Modulus <= a + k /\ a + k < 2 * Modulus /\ ~(a + k < 0)
  BY <1>1
<1> QED BY <1>1, <1>2, WrapFacts

LEMMA ClocksAreNumbers ==
  /\ \A n \in Clocks : n \in Nat /\ n < Modulus
  /\ Half \in Nat \ {0} /\ Modulus \in Nat
BY ConfigAssumption, ClockFacts DEF Clocks

LEMMA TicksAhead ==
  ASSUME TypeOK, NEW deadline \in Clocks, TicksUntil(deadline) > 0
  PROVE  TicksUntil(deadline) <= Half /\ Wrap(deadline - clock) = TicksUntil(deadline)
<1>1. clock \in Clocks /\ clock \in Int /\ deadline \in Int /\ Half \in Nat
  BY ClocksAreNumbers DEF TypeOK
<1>2. ~Reached(clock, deadline) /\ TicksUntil(deadline) = Wrap(deadline - clock)
  BY DEF TicksUntil
<1>3. /\ Wrap(clock - deadline) = IF clock < deadline THEN clock - deadline + Modulus ELSE clock - deadline
      /\ Wrap(deadline - clock) = IF deadline < clock THEN deadline - clock + Modulus ELSE deadline - clock
  BY <1>1, Distance
<1>4. Wrap(clock - deadline) >= Half
  BY <1>1, <1>2, <1>3, ClockFacts DEF Reached
<1> QED BY <1>1, <1>2, <1>3, <1>4 DEF Modulus

LEMMA TickWaits ==
  ASSUME IInv, WaitsAhead, Tick
  PROVE  WaitsAhead'
<1> SUFFICES ASSUME NEW s \in live, wait'[s] > 0
             PROVE  wait'[s] <= Half /\ Wrap(due[s] - clock') = wait'[s]
  BY DEF Tick, taskVars, WaitsAhead
<1>1. /\ s \in Slots /\ wait[s] \in Nat /\ due[s] \in Clocks /\ clock \in Clocks
      /\ Half \in Nat \ {0}
  BY ConfigAssumption DEF IInv, TypeOK
<1>2. wait'[s] = wait[s] - 1 /\ wait[s] > 1
  BY <1>1 DEF Tick
<1>3. wait[s] <= Half /\ Wrap(due[s] - clock) = wait[s]
  BY <1>1, <1>2 DEF WaitsAhead
<1>4. 1 \in Clocks
  BY <1>1 DEF Clocks, Modulus
<1>5. clock' = IF clock + 1 < Modulus THEN clock + 1 ELSE clock + 1 - Modulus
  BY <1>1, <1>4, Later DEF Tick
<1>6. clock' \in Clocks
  BY <1>1, ClockFacts DEF Tick, Clocks
<1>7. /\ Wrap(due[s] - clock) = IF due[s] < clock THEN due[s] - clock + Modulus ELSE due[s] - clock
      /\ Wrap(due[s] - clock') = IF due[s] < clock' THEN due[s] - clock' + Modulus ELSE due[s] - clock'
  BY <1>1, <1>6, Distance
<1> QED BY <1>1, <1>2, <1>3, <1>5, <1>7, ClockFacts DEF Clocks

LEMMA CallWaits ==
  ASSUME IInv, WaitsAhead, Call
  PROVE  WaitsAhead'
<1>1. TypeOK /\ Slots \in SUBSET Int
  BY DEF IInv, Slots
<1>2. ASSUME NEW deadline \in Clocks, Enqueue(deadline)
      PROVE  WaitsAhead'
  <2>1. PICK s \in Slots :
          /\ live' = live \cup {s}
          /\ due' = [due EXCEPT ![s] = deadline]
          /\ wait' = [wait EXCEPT ![s] = TicksUntil(deadline)]
          /\ clock' = clock
    BY <1>2 DEF Enqueue
  <2>2. wait'[s] = TicksUntil(deadline) /\ due'[s] = deadline
    BY <1>1, <2>1 DEF TypeOK
  <2>3. \A x \in live \ {s} : wait'[x] = wait[x] /\ due'[x] = due[x]
    BY <1>1, <2>1 DEF TypeOK
  <2>4. wait'[s] > 0 => wait'[s] <= Half /\ Wrap(due'[s] - clock') = wait'[s]
    BY <1>1, <2>1, <2>2, TicksAhead
  <2> QED BY <2>1, <2>3, <2>4 DEF WaitsAhead
<1>3. \A ms \in Intervals : Wrap(clock + ms) \in Clocks
  <2>1. clock \in Int /\ \A ms \in Intervals : ms \in Int
    BY <1>1, ConfigAssumption, ClocksAreNumbers DEF TypeOK
  <2> QED BY <2>1, ClockFacts
<1>4. CASE Immediately
  BY <1>1, <1>2, <1>4 DEF Immediately, TypeOK
<1>5. CASE \E ms \in Intervals : ScheduleAfter(ms)
  BY <1>2, <1>3, <1>5 DEF ScheduleAfter
<1>6. CASE \E deadline \in Clocks : ScheduleAt(deadline)
  BY <1>2, <1>6 DEF ScheduleAt
<1>7. CASE \E task \in Slots \X (1 .. Generations) : Cancel(task)
  BY <1>7 DEF Cancel, Release, clockVars, WaitsAhead
<1>8. CASE Terminate
  BY <1>8 DEF Terminate, WaitsAhead
<1> QED BY <1>4, <1>5, <1>6, <1>7, <1>8 DEF Call

LEMMA ReturnWaits ==
  ASSUME IInv, WaitsAhead, StepReturn
  PROVE  WaitsAhead'
<1>1. CASE ReturnTerminated \/ ReturnStale \/ ReturnComplete \/ ReturnInvalid
  BY <1>1 DEF ReturnTerminated, ReturnStale, ReturnComplete, ReturnInvalid, Leave, BackToLoop,
              Release, clockVars, WaitsAhead
<1>2. ASSUME NEW deadline \in Clocks, NEW ticks, Reschedule(deadline, ticks),
             ticks > 0 => ticks <= Half /\ Wrap(deadline - clock) = ticks
      PROVE  WaitsAhead'
  <2> DEFINE s == current.slot
  <2>1. /\ live' = live /\ clock' = clock
        /\ due' = [due EXCEPT ![s] = deadline]
        /\ wait' = [wait EXCEPT ![s] = ticks]
        /\ s \in live
    BY <1>2 DEF Reschedule, BackToLoop, Returned, CurrentIsLive
  <2> HIDE DEF s
  <2>2. s \in Slots /\ due \in [Slots -> Clocks] /\ wait \in [Slots -> Nat] /\ live \subseteq Slots
    BY <2>1 DEF IInv, TypeOK
  <2>3. wait'[s] = ticks /\ due'[s] = deadline
    BY <2>1, <2>2
  <2>4. \A x \in live \ {s} : wait'[x] = wait[x] /\ due'[x] = due[x]
    BY <2>1, <2>2
  <2> QED BY <1>2, <2>1, <2>3, <2>4 DEF WaitsAhead
<1>3. /\ clock \in Clocks /\ clock \in Int /\ Half \in Nat /\ TypeOK
      /\ Intervals \subseteq Clocks /\ Intervals \subseteq Int
  BY ConfigAssumption, ClocksAreNumbers DEF IInv, TypeOK
<1>4. CASE ReturnYield
  <2>1. frame.now \in Clocks
    BY <1>3 DEF TypeOK
  <2>2. Reschedule(frame.now, 0) /\ ~(0 > 0)
    BY <1>4 DEF ReturnYield
  <2> QED BY <1>2, <2>1, <2>2
<1>5. ASSUME NEW ms \in Intervals, ReturnDelay(ms)
      PROVE  WaitsAhead'
  <2>1. /\ Wrap(clock + ms) \in Clocks
        /\ Wrap(clock + ms) = IF clock + ms < Modulus THEN clock + ms ELSE clock + ms - Modulus
    BY <1>3, ClockFacts, Later
  <2>2. Wrap(Wrap(clock + ms) - clock)
          = IF Wrap(clock + ms) < clock THEN Wrap(clock + ms) - clock + Modulus
                                        ELSE Wrap(clock + ms) - clock
    BY <1>3, <2>1, Distance
  <2>3. ms \in 0 .. MaxDelay
    BY <1>3, <1>5 DEF ReturnDelay, MaxDelay, Clocks
  <2>4. Wrap(Wrap(clock + ms) - clock) = ms
    BY <1>3, <2>1, <2>2, <2>3 DEF MaxDelay, Modulus, Clocks
  <2>5. ms <= Half
    BY <1>3, <2>3 DEF MaxDelay
  <2> QED BY <1>2, <1>5, <2>1, <2>4, <2>5 DEF ReturnDelay
<1>6. ASSUME NEW ms \in Intervals, ReturnRepeat(ms)
      PROVE  WaitsAhead'
  <2> DEFINE next == Wrap(current.due + ms)
  <2>1. current.due \in Int
    BY <1>6, ClockFacts DEF IInv, TypeOK, Clocks, ReturnRepeat, Reschedule, BackToLoop
  <2>2. next \in Clocks
    BY <1>3, <2>1, ClockFacts
  <2>3. Reschedule(next, TicksUntil(next))
    BY <1>6 DEF ReturnRepeat
  <2> HIDE DEF next
  <2> QED BY <1>2, <1>3, <2>2, <2>3, TicksAhead
<1> QED BY <1>1, <1>4, <1>5, <1>6 DEF StepReturn

LEMMA WaitsStay == Spec => []WaitsAhead
<1>1. Init => WaitsAhead
  BY DEF Init, WaitsAhead
<1>2. IInv /\ WaitsAhead /\ [Next]_vars => WaitsAhead'
  <2> SUFFICES ASSUME IInv, WaitsAhead, [Next]_vars PROVE WaitsAhead'
    OBVIOUS
  <2>1. CASE Tick
    BY <2>1, TickWaits
  <2>2. CASE Call
    BY <2>2, CallWaits
  <2>3. CASE Update
    BY <2>3 DEF Update, BeginUpdate, StartStep, Defer, Visit, EndUpdate, clockVars, taskVars,
                WaitsAhead
  <2>4. CASE StepReturn
    BY <2>4, ReturnWaits
  <2>5. CASE UNCHANGED vars
    BY <2>5 DEF vars, clockVars, taskVars, WaitsAhead
  <2> QED BY <2>1, <2>2, <2>3, <2>4, <2>5 DEF Next
<1> QED BY <1>1, <1>2, Invariance, PTL DEF Spec

(* No task runs sooner than it asked to, although the clock wraps: what    *)
(* the code takes for due has no ticks left to wait.                       *)
THEOREM NothingRunsEarly == Spec => NeverEarly
<1>1. IInv /\ WaitsAhead /\ [Next]_vars => [StepStarts => wait[current'.slot] = 0]_vars
  <2> SUFFICES ASSUME IInv, WaitsAhead, [Next]_vars, StepStarts
               PROVE  wait[current'.slot] = 0
    OBVIOUS
  <2>1. StartStep
    BY DEF StepStarts, Next, vars, frameVars, Tick, Call, Immediately, ScheduleAfter,
           ScheduleAt, Enqueue, Cancel, Terminate, Update, BeginUpdate, Defer,
           EndUpdate, StepReturn, ReturnTerminated, ReturnStale, ReturnComplete,
           ReturnInvalid, ReturnYield, ReturnDelay, ReturnRepeat, Reschedule,
           BackToLoop, Leave
  <2>2. PICK s \in Slots : current'.slot = s /\ s \in live /\ Reached(clock, due[s])
    BY <2>1 DEF StartStep, IsDue
  <2>3. wait[s] \in Nat /\ due[s] \in Clocks /\ clock \in Clocks /\ Half \in Nat
    BY <2>2, ConfigAssumption DEF IInv, TypeOK
  <2>4. Wrap(clock - due[s]) < Half
    BY <2>2 DEF Reached
  <2>5. /\ Wrap(clock - due[s]) = IF clock < due[s] THEN clock - due[s] + Modulus ELSE clock - due[s]
        /\ Wrap(due[s] - clock) = IF due[s] < clock THEN due[s] - clock + Modulus ELSE due[s] - clock
    BY <2>3, Distance
  <2>6. wait[s] > 0 => wait[s] <= Half /\ Wrap(due[s] - clock) = wait[s]
    BY <2>2 DEF WaitsAhead
  <2>7. ~(wait[s] > 0)
    BY <2>3, <2>4, <2>5, <2>6, ClockFacts DEF Clocks, Modulus
  <2> QED BY <2>2, <2>3, <2>7
<1> QED BY <1>1, Invariance, WaitsStay, PTL DEF Spec, NeverEarly

=============================================================================
