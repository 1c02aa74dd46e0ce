----------------------------- MODULE HostProofs -----------------------------
(***************************************************************************)
(* Proofs about the parts of the host tool that share state between        *)
(* goroutines or processes: the analyzer's executor, the language server   *)
(* with its engine, the builders that publish to one path, and the         *)
(* commands that wait for the device or a Simulator.                       *)
(*                                                                         *)
(* The executor, for every set of analyzers and packages whose             *)
(* requirements and imports lead back nowhere.  That no goroutines wait in *)
(* a circle needs to be known of all stacks at once: an execution is       *)
(* claimed exactly while it is in one stack, and what lies on top of it    *)
(* there is the input it asks for.  Among all claimed executions one has   *)
(* the least depth; it is on top of its stack, and the input that it asks  *)
(* for is less deep, hence not claimed.                                    *)
(*                                                                         *)
(* The server, for every number of calls, targets, snapshots and changes.  *)
(* That diagnostics go forward needs the versions of all calls that run:   *)
(* each is of the folder as it is now or of one that was removed, no two   *)
(* calls share one of now, and only the call that has published has that   *)
(* of what is stored.  That versions are bounded needs a notification for  *)
(* each: those that have become a version and those whose goroutine has    *)
(* yet to take one.                                                        *)
(*                                                                         *)
(* The builders, for every number of them and of failing calls.  Each has  *)
(* beside the output path and has published what its step and its failure  *)
(* say; a file at the path stays there; so what is set aside is a package, *)
(* and who sets it aside holds it until it has committed or restored.      *)
(*                                                                         *)
(* The commands, for every number of them.  One that is active has seen    *)
(* what the device is now, so an answer about the device as it is is one   *)
(* about what was seen; and its place tells which markers were there.      *)
(***************************************************************************)
EXTENDS Executor, LanguageServer, HostCommands, FiniteSetTheorems, WellFoundedInduction, TLAPS

(* An execution is claimed exactly while it is in one place of one stack.  *)
ClaimedInOnePlace ==
  /\ \A g \in Goroutines : \A i \in DOMAIN stack[g] : state[stack[g][i]] = "claimed"
  /\ \A g, h \in Goroutines : \A i \in DOMAIN stack[g], j \in DOMAIN stack[h] :
       stack[g][i] = stack[h][j] => g = h /\ i = j
  /\ \A k \in Keys : state[k] = "claimed" =>
       \E g \in Goroutines : \E i \in DOMAIN stack[g] : stack[g][i] = k

(* Each entry of a stack is the input that the entry below it asks for.    *)
Nested ==
  \A g \in Goroutines : \A i \in DOMAIN stack[g] : i + 1 \in DOMAIN stack[g] =>
    LET below == stack[g][i + 1]
    IN  /\ reached[below] + 1 \in DOMAIN Inputs(below)
        /\ stack[g][i] = Inputs(below)[reached[below] + 1]

ReturnedIsOut == \A g \in returned : stack[g] = <<>>

InputsTaken ==
  \A k \in Keys : /\ reached[k] <= Len(Inputs(k))
                  /\ \A i \in 1 .. reached[k] : result[Inputs(k)[i]] = "ok"

(* A pass is begun once the inputs are there, and by nobody twice.         *)
PassesOnce ==
  \A k \in Keys :
    /\ runs[k] <= 1
    /\ state[k] = "absent" => runs[k] = 0
    /\ state[k] = "claimed" => (k \in passes <=> runs[k] = 1)
    /\ state[k] # "claimed" => k \notin passes
    /\ runs[k] = 1 => reached[k] = Len(Inputs(k)) /\ ~Skipped(k)

Settled == \A k \in Keys : state[k] = "ready" <=> result[k] # "none"

(* What a ready execution tells of its inputs. *)
Outcomes ==
  ~canceled =>
    \A k \in Keys :
      /\ result[k] = "ok" => /\ \A d \in InputsOf(k) : result[d] = "ok"
                             /\ ~(k \in Faulty /\ ~Skipped(k))
      /\ result[k] = "error" => \/ \E d \in InputsOf(k) : result[d] = "error"
                                \/ k \in Faulty /\ ~Skipped(k)

IInv ==
  /\ TypeOK
  /\ ClaimedInOnePlace
  /\ Nested
  /\ ReturnedIsOut
  /\ InputsTaken
  /\ PassesOnce
  /\ Settled
  /\ Outcomes

-----------------------------------------------------------------------------
(* Inputs and their depth. *)

LEMMA InputParts ==
  ASSUME NEW k \in Keys
  PROVE  /\ [i \in DOMAIN Requires[k[1]] |-> <<Requires[k[1]][i], k[2]>>] \in Seq(Keys)
         /\ [i \in DOMAIN Imports[k[2]] |-> <<k[1], Imports[k[2]][i]>>] \in Seq(Keys)
<1>1. k[1] \in Analyzers /\ k[2] \in Packages
  BY DEF Keys
<1>2. Requires[k[1]] \in Seq(Analyzers) /\ Imports[k[2]] \in Seq(Packages)
  BY <1>1, ExecutorAssumption
<1>3. [i \in DOMAIN Requires[k[1]] |-> <<Requires[k[1]][i], k[2]>>] \in Seq(Keys)
  BY <1>1, <1>2 DEF Keys
<1>4. [i \in DOMAIN Imports[k[2]] |-> <<k[1], Imports[k[2]][i]>>] \in Seq(Keys)
  BY <1>1, <1>2 DEF Keys
<1> QED
  BY <1>3, <1>4

LEMMA InputsType == ASSUME NEW k \in Keys PROVE Inputs(k) \in Seq(Keys)
BY InputParts DEF Inputs

LEMMA InputIsOneOf ==
  ASSUME NEW k \in Keys, NEW i \in DOMAIN Inputs(k)
  PROVE  \/ \E j \in DOMAIN Requires[k[1]] : Inputs(k)[i] = <<Requires[k[1]][j], k[2]>>
         \/ \E j \in DOMAIN Imports[k[2]] : Inputs(k)[i] = <<k[1], Imports[k[2]][j]>>
<1> DEFINE required == [j \in DOMAIN Requires[k[1]] |-> <<Requires[k[1]][j], k[2]>>]
           imported == [j \in DOMAIN Imports[k[2]] |-> <<k[1], Imports[k[2]][j]>>]
<1>1. CASE k[1] \notin UsesFacts
  BY <1>1 DEF Inputs
<1>2. CASE k[1] \in UsesFacts
  <2>1. Inputs(k) = required \o imported
    BY <1>2 DEF Inputs
  <2>2. required \in Seq(Keys) /\ imported \in Seq(Keys)
    BY InputParts
  <2>3. \/ i \in DOMAIN required /\ Inputs(k)[i] = required[i]
        \/ /\ i - Len(required) \in DOMAIN imported
           /\ Inputs(k)[i] = imported[i - Len(required)]
    <3> HIDE DEF required, imported
    <3> QED
      BY <2>1, <2>2
  <2> QED
    BY <2>3
<1> QED
  BY <1>1, <1>2

LEMMA InputsAreLessDeep ==
  \E rank \in [Keys -> Nat] :
    \A k \in Keys : \A i \in DOMAIN Inputs(k) : rank[Inputs(k)[i]] < rank[k]
<1>1. Cardinality(Analyzers) \in Nat /\ Cardinality(Packages) \in Nat
  BY AcyclicAssumption, FS_CardinalityType
<1>2. PICK a \in [Analyzers -> 0 .. Cardinality(Analyzers)] :
        \A x \in Analyzers : \A i \in DOMAIN Requires[x] : a[Requires[x][i]] < a[x]
  BY AcyclicAssumption
<1>3. PICK p \in [Packages -> 0 .. Cardinality(Packages)] :
        \A x \in Packages : \A i \in DOMAIN Imports[x] : p[Imports[x][i]] < p[x]
  BY AcyclicAssumption
<1> DEFINE rank == [k \in Keys |-> a[k[1]] + p[k[2]]]
<1>4. /\ \A x \in Analyzers : a[x] \in Nat
      /\ \A x \in Packages : p[x] \in Nat
  BY <1>1
<1>5. rank \in [Keys -> Nat]
  BY <1>4 DEF Keys
<1>6. ASSUME NEW k \in Keys, NEW i \in DOMAIN Inputs(k)
      PROVE  rank[Inputs(k)[i]] < rank[k]
  <2>1. k[1] \in Analyzers /\ k[2] \in Packages
    BY DEF Keys
  <2>2. Requires[k[1]] \in Seq(Analyzers) /\ Imports[k[2]] \in Seq(Packages)
    BY <2>1, ExecutorAssumption
  <2>3. Inputs(k)[i] \in Keys
    BY InputsType
  <2>4. CASE \E j \in DOMAIN Requires[k[1]] : Inputs(k)[i] = <<Requires[k[1]][j], k[2]>>
    <3>1. PICK j \in DOMAIN Requires[k[1]] : Inputs(k)[i] = <<Requires[k[1]][j], k[2]>>
      BY <2>4
    <3>2. a[Requires[k[1]][j]] < a[k[1]] /\ Requires[k[1]][j] \in Analyzers
      BY <1>2, <2>1, <2>2
    <3>3. rank[Inputs(k)[i]] = a[Requires[k[1]][j]] + p[k[2]]
      BY <2>3, <3>1
    <3> QED
      BY <1>4, <2>1, <3>2, <3>3
  <2>5. CASE \E j \in DOMAIN Imports[k[2]] : Inputs(k)[i] = <<k[1], Imports[k[2]][j]>>
    <3>1. PICK j \in DOMAIN Imports[k[2]] : Inputs(k)[i] = <<k[1], Imports[k[2]][j]>>
      BY <2>5
    <3>2. p[Imports[k[2]][j]] < p[k[2]] /\ Imports[k[2]][j] \in Packages
      BY <1>3, <2>1, <2>2
    <3>3. rank[Inputs(k)[i]] = a[k[1]] + p[Imports[k[2]][j]]
      BY <2>3, <3>1
    <3> QED
      BY <1>4, <2>1, <3>2, <3>3
  <2> QED
    BY <2>4, <2>5, InputIsOneOf
<1> QED
  BY <1>5, <1>6

(* A set that is not empty has an element of least rank. *)
LEMMA LeastRank ==
  ASSUME NEW rank \in [Keys -> Nat], NEW S \in SUBSET Keys, S # {}
  PROVE  \E k \in S : \A j \in S : ~(rank[j] < rank[k])
<1> DEFINE ranks == {rank[k] : k \in S}
<1>1. ranks \subseteq Nat /\ ranks # {}
  OBVIOUS
<1>2. PICK n \in ranks : \A m \in ranks : ~(<<m, n>> \in OpToRel(<, Nat))
  BY <1>1, NatLessThanWellFounded, WFMin
<1>3. \A m \in ranks : ~(m < n)
  BY <1>1, <1>2 DEF OpToRel
<1> QED
  BY <1>3

-----------------------------------------------------------------------------
(* Types, and how an action changes a stack. *)

LEMMA Pushed ==
  ASSUME NEW s \in Seq(Keys), NEW k \in Keys
  PROVE  /\ <<k>> \o s \in Seq(Keys)
         /\ Len(<<k>> \o s) = Len(s) + 1
         /\ (<<k>> \o s)[1] = k
         /\ \A i \in DOMAIN s : (<<k>> \o s)[i + 1] = s[i]
         /\ \A i \in DOMAIN (<<k>> \o s) : i # 1 =>
              /\ i - 1 \in DOMAIN s
              /\ (<<k>> \o s)[i] = s[i - 1]
OBVIOUS

LEMMA Popped ==
  ASSUME NEW s \in Seq(Keys), s # <<>>
  PROVE  /\ Tail(s) \in Seq(Keys)
         /\ Len(Tail(s)) = Len(s) - 1
         /\ Head(s) = s[1] /\ s[1] \in Keys /\ 1 \in DOMAIN s
         /\ \A i \in DOMAIN Tail(s) : i + 1 \in DOMAIN s /\ Tail(s)[i] = s[i + 1]
OBVIOUS

LEMMA TopIsAKey ==
  ASSUME TypeOK, NEW g \in Goroutines, InExecution(g)
  PROVE  Top(g) \in Keys /\ Top(g) = stack[g][1] /\ 1 \in DOMAIN stack[g]
<1>1. stack[g] \in Seq(Keys) /\ stack[g] # <<>>
  BY DEF TypeOK, InExecution
<1> QED
  BY <1>1, Popped DEF Top

LEMMA GoroutinesAreKeys == Goroutines \subseteq Keys
BY ExecutorAssumption DEF Goroutines, Keys

LEMMA Typing == TypeOK /\ [Next]_vars => TypeOK'
<1> SUFFICES ASSUME TypeOK, [Next]_vars PROVE TypeOK'
  OBVIOUS
<1>1. ASSUME NEW g \in Goroutines, NEW k \in Keys, Claim(g, k) PROVE TypeOK'
  <2>1. <<k>> \o stack[g] \in Seq(Keys)
    BY Pushed DEF TypeOK
  <2> QED
    BY <1>1, <2>1 DEF TypeOK, Claim, Ready
<1>2. ASSUME NEW g \in Goroutines, NEW k \in Keys, Take(g, k) PROVE TypeOK'
  BY <1>2, TopIsAKey DEF TypeOK, Take
<1>3. ASSUME NEW g \in Goroutines, NEW k \in Keys, TakeError(g, k) PROVE TypeOK'
  <2>1. Tail(stack[g]) \in Seq(Keys)
    BY <1>3, Popped DEF TypeOK, TakeError, InExecution
  <2> QED
    BY <1>3, <2>1 DEF TypeOK, TakeError, Ready
<1>4. ASSUME NEW g \in Goroutines, Return(g) PROVE TypeOK'
  BY <1>4 DEF TypeOK, Return
<1>5. ASSUME NEW g \in Goroutines, Skip(g) PROVE TypeOK'
  <2>1. Tail(stack[g]) \in Seq(Keys)
    BY <1>5, Popped DEF TypeOK, Skip, InExecution
  <2> QED
    BY <1>5, <2>1 DEF TypeOK, Skip, Ready
<1>6. ASSUME NEW g \in Goroutines, BeginPass(g) PROVE TypeOK'
  BY <1>6, TopIsAKey DEF TypeOK, BeginPass
<1>7. ASSUME NEW g \in Goroutines, EndPass(g) PROVE TypeOK'
  <2>1. Tail(stack[g]) \in Seq(Keys)
    BY <1>7, Popped DEF TypeOK, EndPass, InExecution
  <2> QED
    BY <1>7, <2>1 DEF TypeOK, EndPass, Ready
<1>8. CASE Cancel
  BY <1>8 DEF TypeOK, Cancel
<1>9. CASE UNCHANGED vars
  BY <1>9 DEF TypeOK, vars
<1> QED
  BY <1>1, <1>2, <1>3, <1>4, <1>5, <1>6, <1>7, <1>8, <1>9 DEF Next, Step

-----------------------------------------------------------------------------
(* Where the claimed executions are. *)

StackPlaces == ClaimedInOnePlace /\ Nested /\ ReturnedIsOut

Push(g, k) ==
  /\ state[k] = "absent"
  /\ state' = [state EXCEPT ![k] = "claimed"]
  /\ stack' = [stack EXCEPT ![g] = <<k>> \o @]
  /\ UNCHANGED <<reached, returned>>

Pop(g) ==
  /\ InExecution(g)
  /\ state' = [state EXCEPT ![Top(g)] = "ready"]
  /\ stack' = [stack EXCEPT ![g] = Tail(@)]
  /\ UNCHANGED <<reached, returned>>

LEMMA EntriesAreKeys ==
  ASSUME TypeOK, NEW g \in Goroutines, NEW i \in DOMAIN stack[g]
  PROVE  stack[g][i] \in Keys /\ i \in Nat \ {0}
BY DEF TypeOK

(* What a goroutine needs is an execution, and less deep than the one that *)
(* needs it.                                                               *)
LEMMA NeededIsAnInput ==
  ASSUME TypeOK, InputsTaken, NEW g \in Goroutines, InExecution(g), NEW k, Needs(g, k)
  PROVE  /\ reached[Top(g)] + 1 \in DOMAIN Inputs(Top(g))
         /\ k = Inputs(Top(g))[reached[Top(g)] + 1]
<1>1. Top(g) \in Keys
  BY TopIsAKey
<1>2. ~HasInputs(g) /\ k = Inputs(Top(g))[reached[Top(g)] + 1]
  BY DEF Needs
<1>3. Inputs(Top(g)) \in Seq(Keys) /\ reached[Top(g)] \in Nat
  BY <1>1, InputsType DEF TypeOK
<1>4. reached[Top(g)] <= Len(Inputs(Top(g))) /\ reached[Top(g)] # Len(Inputs(Top(g)))
  BY <1>1, <1>2 DEF InputsTaken, HasInputs
<1> QED
  BY <1>2, <1>3, <1>4

LEMMA PushKeepsPlaces ==
  ASSUME TypeOK, TypeOK', StackPlaces, InputsTaken, NEW g \in Goroutines, NEW k \in Keys,
         Needs(g, k), Push(g, k)
  PROVE  StackPlaces'
<1>1. /\ \A h \in Goroutines : h # g => stack'[h] = stack[h]
      /\ stack'[g] = <<k>> \o stack[g]
      /\ stack[g] \in Seq(Keys)
  BY DEF TypeOK, Push
<1>2. \A j \in Keys : state'[j] = IF j = k THEN "claimed" ELSE state[j]
  BY DEF TypeOK, Push
<1>3. /\ 1 \in DOMAIN stack'[g] /\ stack'[g][1] = k
      /\ \A i \in DOMAIN stack[g] : i + 1 \in DOMAIN stack'[g] /\ stack'[g][i + 1] = stack[g][i]
      /\ \A i \in DOMAIN stack'[g] : i # 1 =>
           i - 1 \in DOMAIN stack[g] /\ stack'[g][i] = stack[g][i - 1]
  BY <1>1, Pushed
<1>4. \A h \in Goroutines : \A i \in DOMAIN stack[h] : stack[h][i] # k
  BY DEF StackPlaces, ClaimedInOnePlace, Push
(* The place in `stack` of an entry of stack' that is not the new one. *)
<1> DEFINE Was(h, i) == IF h = g THEN i - 1 ELSE i
           New(h, i) == h = g /\ i = 1
<1>5. \A h \in Goroutines : \A i \in DOMAIN stack'[h] : ~New(h, i) =>
        Was(h, i) \in DOMAIN stack[h] /\ stack'[h][i] = stack[h][Was(h, i)]
  BY <1>1, <1>3
<1>6. \A h \in Goroutines : \A i \in DOMAIN stack'[h] :
        stack'[h][i] = IF New(h, i) THEN k ELSE stack[h][Was(h, i)]
  BY <1>3, <1>5
<1>7. \A h \in Goroutines : \A i \in DOMAIN stack'[h] : i \in Nat \ {0}
  <2> SUFFICES ASSUME NEW h \in Goroutines PROVE \A i \in DOMAIN stack'[h] : i \in Nat \ {0}
    OBVIOUS
  <2>1. stack'[h] \in Seq(Keys)
    BY DEF TypeOK
  <2> QED
    BY <2>1
<1>8. ClaimedInOnePlace'
  <2>1. ASSUME NEW h \in Goroutines, NEW i \in DOMAIN stack'[h]
        PROVE  state'[stack'[h][i]] = "claimed"
    <3>1. CASE New(h, i)
      BY <1>2, <1>3, <3>1
    <3>2. CASE ~New(h, i)
      <4>1. stack'[h][i] \in Keys /\ state[stack'[h][i]] = "claimed"
        BY <1>5, <3>2, EntriesAreKeys DEF StackPlaces, ClaimedInOnePlace
      <4> QED
        BY <1>2, <4>1
    <3> QED
      BY <3>1, <3>2
  <2>2. ASSUME NEW h1 \in Goroutines, NEW h2 \in Goroutines,
               NEW i1 \in DOMAIN stack'[h1], NEW i2 \in DOMAIN stack'[h2],
               stack'[h1][i1] = stack'[h2][i2]
        PROVE  h1 = h2 /\ i1 = i2
    <3>1. i1 \in Nat /\ i2 \in Nat
      BY <1>7
    <3>2. New(h1, i1) <=> New(h2, i2)
      BY <1>4, <1>5, <1>6, <2>2
    <3>3. CASE New(h1, i1)
      BY <3>2, <3>3
    <3>4. CASE ~New(h1, i1)
      <4>1. h1 = h2 /\ Was(h1, i1) = Was(h2, i2)
        BY <1>5, <2>2, <3>2, <3>4 DEF StackPlaces, ClaimedInOnePlace
      <4> QED
        BY <3>1, <4>1
    <3> QED
      BY <3>3, <3>4
  <2>3. ASSUME NEW j \in Keys, state'[j] = "claimed"
        PROVE  \E h \in Goroutines : \E i \in DOMAIN stack'[h] : stack'[h][i] = j
    <3>1. CASE j = k
      BY <1>3, <3>1
    <3>2. CASE j # k
      <4>1. PICK h \in Goroutines : \E i \in DOMAIN stack[h] : stack[h][i] = j
        BY <1>2, <2>3, <3>2 DEF StackPlaces, ClaimedInOnePlace
      <4>2. PICK i \in DOMAIN stack[h] : stack[h][i] = j
        BY <4>1
      <4> QED
        BY ZenonT(40), <1>1, <1>3, <4>2
    <3> QED
      BY <3>1, <3>2
  <2> QED
    BY <2>1, <2>2, <2>3 DEF ClaimedInOnePlace
<1>9. Nested'
  <2> SUFFICES ASSUME NEW h \in Goroutines, NEW i \in DOMAIN stack'[h],
                      i + 1 \in DOMAIN stack'[h]
               PROVE  LET below == stack'[h][i + 1]
                      IN  /\ reached[below] + 1 \in DOMAIN Inputs(below)
                          /\ stack'[h][i] = Inputs(below)[reached[below] + 1]
    BY SMTT(40) DEF Nested, Push
  <2>1. i \in Nat \ {0}
    BY <1>7
  <2>2. CASE h # g
    <3>1. stack'[h] = stack[h]
      BY <1>1, <2>2
    <3> QED
      BY <3>1 DEF StackPlaces, Nested
  <2>3. CASE h = g /\ i = 1
    <3>1. 1 \in DOMAIN stack[g] /\ stack'[g][2] = stack[g][1]
      BY <1>3, <2>3
    <3>2. InExecution(g)
      BY <1>1, <3>1 DEF InExecution
    <3>3. Top(g) = stack[g][1] /\ Top(g) \in Keys
      BY <3>2, TopIsAKey
    <3>4. reached[Top(g)] + 1 \in DOMAIN Inputs(Top(g))
            /\ k = Inputs(Top(g))[reached[Top(g)] + 1]
      BY <3>2, NeededIsAnInput
    <3> QED
      BY <1>3, <2>3, <3>1, <3>3, <3>4
  <2>4. CASE h = g /\ i # 1
    <3>1. /\ i - 1 \in DOMAIN stack[g] /\ stack'[g][i] = stack[g][i - 1]
          /\ i \in DOMAIN stack[g] /\ stack'[g][i + 1] = stack[g][i]
      BY <1>3, <2>1, <2>4
    <3>2. (i - 1) + 1 = i
      BY <2>1
    <3> QED
      BY <2>4, <3>1, <3>2 DEF StackPlaces, Nested
  <2> QED
    BY <2>2, <2>3, <2>4
<1>10. ReturnedIsOut'
  <2>1. g \notin returned
    <3>1. CASE InExecution(g)
      BY <3>1 DEF InExecution, StackPlaces, ReturnedIsOut
    <3>2. CASE ~InExecution(g)
      BY <3>2 DEF Needs
    <3> QED
      BY <3>1, <3>2
  <2> QED
    BY <1>1, <2>1 DEF StackPlaces, ReturnedIsOut, Push, TypeOK
<1> QED
  BY <1>8, <1>9, <1>10 DEF StackPlaces

LEMMA PopKeepsPlaces ==
  ASSUME TypeOK, TypeOK', StackPlaces, NEW g \in Goroutines, Pop(g)
  PROVE  StackPlaces'
<1>1. /\ \A h \in Goroutines : h # g => stack'[h] = stack[h]
      /\ stack'[g] = Tail(stack[g])
      /\ stack[g] \in Seq(Keys)
      /\ stack[g] # <<>>
  BY DEF TypeOK, Pop, InExecution
<1>2. Top(g) \in Keys /\ Top(g) = stack[g][1] /\ 1 \in DOMAIN stack[g]
  BY TopIsAKey DEF Pop
<1>3. \A j \in Keys : state'[j] = IF j = Top(g) THEN "ready" ELSE state[j]
  BY <1>2 DEF TypeOK, Pop
(* The place in `stack` of an entry of stack'. *)
<1> DEFINE Was(h, i) == IF h = g THEN i + 1 ELSE i
<1>4. \A h \in Goroutines : \A i \in DOMAIN stack'[h] : i \in Nat \ {0}
  <2> SUFFICES ASSUME NEW h \in Goroutines PROVE \A i \in DOMAIN stack'[h] : i \in Nat \ {0}
    OBVIOUS
  <2>1. stack'[h] \in Seq(Keys)
    BY DEF TypeOK
  <2> QED
    BY <2>1
<1>5. \A i \in DOMAIN stack'[g] : i + 1 \in DOMAIN stack[g] /\ stack'[g][i] = stack[g][i + 1]
  BY <1>1, Popped
<1>6. \A h \in Goroutines : \A i \in DOMAIN stack'[h] :
        /\ Was(h, i) \in DOMAIN stack[h] /\ stack'[h][i] = stack[h][Was(h, i)]
        /\ stack'[h][i] # Top(g)
  <2>1. ASSUME NEW h \in Goroutines, NEW i \in DOMAIN stack'[h]
        PROVE  Was(h, i) \in DOMAIN stack[h] /\ stack'[h][i] = stack[h][Was(h, i)]
    BY <1>1, <1>5
  <2>2. ASSUME NEW h \in Goroutines, NEW i \in DOMAIN stack'[h], stack'[h][i] = Top(g)
        PROVE  FALSE
    <3>1. h = g /\ Was(h, i) = 1
      BY <1>2, <2>1, <2>2 DEF StackPlaces, ClaimedInOnePlace
    <3> QED
      BY <1>4, <3>1
  <2> QED
    BY <2>1, <2>2
<1>7. ClaimedInOnePlace'
  <2>1. ASSUME NEW h \in Goroutines, NEW i \in DOMAIN stack'[h]
        PROVE  state'[stack'[h][i]] = "claimed"
    <3>1. stack'[h][i] \in Keys /\ state[stack'[h][i]] = "claimed"
      BY <1>6, EntriesAreKeys DEF StackPlaces, ClaimedInOnePlace
    <3> QED
      BY <1>3, <1>6, <3>1
  <2>2. ASSUME NEW h1 \in Goroutines, NEW h2 \in Goroutines,
               NEW i1 \in DOMAIN stack'[h1], NEW i2 \in DOMAIN stack'[h2],
               stack'[h1][i1] = stack'[h2][i2]
        PROVE  h1 = h2 /\ i1 = i2
    <3>1. i1 \in Nat /\ i2 \in Nat
      BY <1>4
    <3>2. h1 = h2 /\ Was(h1, i1) = Was(h2, i2)
      BY <1>6, <2>2 DEF StackPlaces, ClaimedInOnePlace
    <3> QED
      BY <3>1, <3>2
  <2>3. ASSUME NEW j \in Keys, state'[j] = "claimed"
        PROVE  \E h \in Goroutines : \E i \in DOMAIN stack'[h] : stack'[h][i] = j
    <3>1. j # Top(g) /\ state[j] = "claimed"
      BY <1>3, <2>3
    <3>2. PICK h \in Goroutines : \E i \in DOMAIN stack[h] : stack[h][i] = j
      BY <3>1 DEF StackPlaces, ClaimedInOnePlace
    <3>3. PICK i \in DOMAIN stack[h] : stack[h][i] = j
      BY <3>2
    <3>4. CASE h # g
      BY <1>1, <3>3, <3>4
    <3>5. CASE h = g
      <4>1. i # 1 /\ stack[g][i] = j /\ i \in DOMAIN stack[g]
        BY <1>2, <3>1, <3>3, <3>5
      <4>2. i - 1 \in DOMAIN Tail(stack[g]) /\ Tail(stack[g])[i - 1] = stack[g][i]
        BY <1>1, <4>1
      <4> QED
        BY <1>1, <4>1, <4>2
    <3> QED
      BY <3>4, <3>5
  <2> QED
    BY <2>1, <2>2, <2>3 DEF ClaimedInOnePlace
<1>8. Nested'
  <2> SUFFICES ASSUME NEW h \in Goroutines, NEW i \in DOMAIN stack'[h],
                      i + 1 \in DOMAIN stack'[h]
               PROVE  LET below == stack'[h][i + 1]
                      IN  /\ reached[below] + 1 \in DOMAIN Inputs(below)
                          /\ stack'[h][i] = Inputs(below)[reached[below] + 1]
    BY DEF Nested, Pop
  <2>1. i \in Nat
    BY <1>4
  <2>2. /\ Was(h, i) \in DOMAIN stack[h] /\ stack'[h][i] = stack[h][Was(h, i)]
        /\ Was(h, i) + 1 \in DOMAIN stack[h] /\ stack'[h][i + 1] = stack[h][Was(h, i) + 1]
    BY <1>6, <2>1
  <2> QED
    BY <2>2 DEF StackPlaces, Nested
<1>9. ReturnedIsOut'
  BY <1>1 DEF StackPlaces, ReturnedIsOut, Pop, TypeOK
<1> QED
  BY <1>7, <1>8, <1>9 DEF StackPlaces

LEMMA OthersKeepPlaces ==
  ASSUME TypeOK, StackPlaces, UNCHANGED <<stack, reached, returned>>,
         \A k \in Keys : state'[k] = "claimed" <=> state[k] = "claimed"
  PROVE  StackPlaces'
<1>1. ClaimedInOnePlace'
  <2>1. \A g \in Goroutines : \A i \in DOMAIN stack[g] : stack[g][i] \in Keys
    BY EntriesAreKeys
  <2> QED
    BY <2>1 DEF StackPlaces, ClaimedInOnePlace
<1>2. Nested' /\ ReturnedIsOut'
  BY DEF StackPlaces, Nested, ReturnedIsOut
<1> QED
  BY <1>1, <1>2 DEF StackPlaces

LEMMA TopIsClaimed ==
  ASSUME TypeOK, StackPlaces, NEW g \in Goroutines, InExecution(g)
  PROVE  state[Top(g)] = "claimed"
BY TopIsAKey DEF StackPlaces, ClaimedInOnePlace

LEMMA PlacesKept == TypeOK /\ StackPlaces /\ InputsTaken /\ [Next]_vars => StackPlaces'
<1> SUFFICES ASSUME TypeOK, StackPlaces, InputsTaken, [Next]_vars PROVE StackPlaces'
  OBVIOUS
<1>1. TypeOK'
  BY Typing
<1>2. ASSUME NEW g \in Goroutines, NEW k \in Keys, Claim(g, k) PROVE StackPlaces'
  <2>1. CASE canceled
    <3>1. UNCHANGED <<stack, reached, returned>> /\ state[k] = "absent"
          /\ state' = [state EXCEPT ![k] = "ready"]
      BY <1>2, <2>1 DEF Claim, Ready, Unclaimed
    <3>2. \A j \in Keys : state'[j] = "claimed" <=> state[j] = "claimed"
      BY <3>1 DEF TypeOK
    <3> QED
      BY <3>1, <3>2, OthersKeepPlaces
  <2>2. CASE ~canceled
    <3>1. Needs(g, k) /\ Push(g, k)
      BY <1>2, <2>2 DEF Claim, Push, Unclaimed
    <3> QED
      BY <1>1, <3>1, PushKeepsPlaces
  <2> QED
    BY <2>1, <2>2
<1>3. ASSUME NEW g \in Goroutines, NEW k \in Keys, Take(g, k) PROVE StackPlaces'
  <2>1. /\ UNCHANGED <<state, stack, returned>> /\ InExecution(g)
        /\ reached' = [reached EXCEPT ![Top(g)] = @ + 1]
    BY <1>3 DEF Take
  <2>2. Top(g) = stack[g][1] /\ 1 \in DOMAIN stack[g]
    BY <2>1, TopIsAKey
  <2>3. ASSUME NEW h \in Goroutines, NEW i \in DOMAIN stack[h], i + 1 \in DOMAIN stack[h]
        PROVE  reached'[stack[h][i + 1]] = reached[stack[h][i + 1]]
    <3>1. i \in Nat \ {0} /\ stack[h][i + 1] \in Keys
      BY <2>3, EntriesAreKeys
    <3>2. stack[h][i + 1] # Top(g)
      BY <2>2, <2>3, <3>1 DEF StackPlaces, ClaimedInOnePlace
    <3> QED
      BY <2>1, <3>1, <3>2 DEF TypeOK
  <2>4. Nested'
    BY <2>1, <2>3 DEF StackPlaces, Nested
  <2>5. ClaimedInOnePlace' /\ ReturnedIsOut'
    BY <2>1 DEF StackPlaces, ClaimedInOnePlace, ReturnedIsOut
  <2> QED
    BY <2>4, <2>5 DEF StackPlaces
<1>4. ASSUME NEW g \in Goroutines, NEW k \in Keys, TakeError(g, k) PROVE StackPlaces'
  <2>1. Pop(g)
    BY <1>4 DEF TakeError, Pop, Ready
  <2> QED
    BY <1>1, <2>1, PopKeepsPlaces
<1>5. ASSUME NEW g \in Goroutines, Return(g) PROVE StackPlaces'
  <2>1. UNCHANGED <<state, stack, reached>> /\ returned' = returned \cup {g} /\ stack[g] = <<>>
    BY <1>5 DEF Return, InExecution
  <2>2. ReturnedIsOut'
    BY <2>1 DEF StackPlaces, ReturnedIsOut
  <2>3. ClaimedInOnePlace' /\ Nested'
    BY <2>1 DEF StackPlaces, ClaimedInOnePlace, Nested
  <2> QED
    BY <2>2, <2>3 DEF StackPlaces
<1>6. ASSUME NEW g \in Goroutines, Skip(g) PROVE StackPlaces'
  <2>1. Pop(g)
    BY <1>6 DEF Skip, Pop, Ready
  <2> QED
    BY <1>1, <2>1, PopKeepsPlaces
<1>7. ASSUME NEW g \in Goroutines, BeginPass(g) PROVE StackPlaces'
  BY <1>7, OthersKeepPlaces DEF BeginPass
<1>8. ASSUME NEW g \in Goroutines, EndPass(g) PROVE StackPlaces'
  <2>1. Pop(g)
    BY <1>8 DEF EndPass, Pop, Ready
  <2> QED
    BY <1>1, <2>1, PopKeepsPlaces
<1>9. CASE Cancel
  BY <1>9, OthersKeepPlaces DEF Cancel
<1>10. CASE UNCHANGED vars
  BY <1>10, OthersKeepPlaces DEF vars
<1> QED
  BY <1>2, <1>3, <1>4, <1>5, <1>6, <1>7, <1>8, <1>9, <1>10 DEF Next, Step

-----------------------------------------------------------------------------
(* What an execution has, whether its pass ran, and how it ended. *)

Record == InputsTaken /\ PassesOnce /\ Settled /\ Outcomes

LEMMA ReadyAgain ==
  ASSUME TypeOK, NEW k \in Keys, NEW outcome, Ready(k, outcome)
  PROVE  /\ \A j \in Keys : state'[j] = IF j = k THEN "ready" ELSE state[j]
         /\ \A j \in Keys : result'[j] = IF j = k THEN outcome ELSE result[j]
BY DEF TypeOK, Ready

(* The outcome of an execution that was not ready becomes known. *)
LEMMA BecomesReady ==
  ASSUME TypeOK, Record, NEW k \in Keys, NEW outcome \in {"ok", "error"},
         Ready(k, outcome), state[k] # "ready",
         UNCHANGED <<reached, runs, canceled>>,
         passes' = passes \ {k},
         ~canceled /\ outcome = "ok" =>
           /\ reached[k] = Len(Inputs(k))
           /\ ~(k \in Faulty /\ ~Skipped(k)),
         ~canceled /\ outcome = "error" =>
           \/ \E d \in InputsOf(k) : result[d] = "error"
           \/ k \in Faulty /\ ~Skipped(k)
  PROVE  Record'
<1>1. /\ \A j \in Keys : state'[j] = IF j = k THEN "ready" ELSE state[j]
      /\ \A j \in Keys : result'[j] = IF j = k THEN outcome ELSE result[j]
  BY ReadyAgain
<1>2. result[k] = "none"
  BY DEF Record, Settled, TypeOK
<1>3. \A j \in Keys : result[j] # "none" => result'[j] = result[j]
  BY <1>1, <1>2
<1>4. \A j \in Keys : \A i \in DOMAIN Inputs(j) : Inputs(j)[i] \in Keys
  BY InputsType
<1>5. InputsTaken'
  <2> SUFFICES ASSUME NEW j \in Keys
               PROVE  /\ reached[j] <= Len(Inputs(j))
                      /\ \A i \in 1 .. reached[j] : result'[Inputs(j)[i]] = "ok"
    BY DEF InputsTaken
  <2>1. /\ reached[j] <= Len(Inputs(j))
        /\ \A i \in 1 .. reached[j] : result[Inputs(j)[i]] = "ok"
    BY DEF Record, InputsTaken
  <2>2. Inputs(j) \in Seq(Keys) /\ reached[j] \in Nat
    BY InputsType DEF TypeOK
  <2>3. \A i \in 1 .. reached[j] : i \in DOMAIN Inputs(j)
    BY <2>1, <2>2
  <2> QED
    BY <1>3, <1>4, <2>1, <2>3
<1>6. PassesOnce'
  BY <1>1 DEF Record, PassesOnce
<1>7. Settled'
  BY <1>1 DEF Record, Settled
<1>8. Outcomes'
  <2> SUFFICES ASSUME ~canceled, NEW j \in Keys
               PROVE  /\ result'[j] = "ok" =>
                           /\ \A d \in InputsOf(j) : result'[d] = "ok"
                           /\ ~(j \in Faulty /\ ~Skipped(j))
                      /\ result'[j] = "error" =>
                           \/ \E d \in InputsOf(j) : result'[d] = "error"
                           \/ j \in Faulty /\ ~Skipped(j)
    BY DEF Outcomes
  <2>1. InputsOf(j) \subseteq Keys
    BY <1>4 DEF InputsOf
  <2>2. CASE j # k
    BY <1>1, <1>3, <2>1, <2>2 DEF Record, Outcomes
  <2>3. CASE j = k /\ outcome = "ok"
    <3>1. reached[k] = Len(Inputs(k)) /\ Inputs(k) \in Seq(Keys)
      BY <2>3, InputsType
    <3>2. \A i \in DOMAIN Inputs(k) : result[Inputs(k)[i]] = "ok"
      BY <3>1 DEF Record, InputsTaken
    <3>3. \A d \in InputsOf(k) : result'[d] = "ok"
      BY <1>3, <2>1, <2>3, <3>2 DEF InputsOf
    <3> QED
      BY <1>1, <2>3, <3>3
  <2>4. CASE j = k /\ outcome = "error"
    BY <1>1, <1>3, <2>1, <2>4
  <2> QED
    BY <2>2, <2>3, <2>4
<1> QED
  BY <1>5, <1>6, <1>7, <1>8 DEF Record

LEMMA RecordKept == TypeOK /\ StackPlaces /\ Record /\ [Next]_vars => Record'
<1> SUFFICES ASSUME TypeOK, StackPlaces, Record, [Next]_vars PROVE Record'
  OBVIOUS
<1>1. ASSUME NEW g \in Goroutines, NEW k \in Keys, Claim(g, k) PROVE Record'
  <2>1. CASE canceled
    <3>1. /\ Ready(k, "error") /\ state[k] = "absent" /\ UNCHANGED <<reached, runs, canceled>>
          /\ passes' = passes
      BY <1>1, <2>1 DEF Claim, Unclaimed
    <3>2. passes' = passes \ {k} /\ state[k] # "ready"
      BY <3>1 DEF Record, PassesOnce
    <3> QED
      BY <2>1, <3>1, <3>2, BecomesReady
  <2>2. CASE ~canceled
    <3>1. /\ state[k] = "absent" /\ state' = [state EXCEPT ![k] = "claimed"]
          /\ UNCHANGED <<result, reached, passes, runs, canceled>>
      BY <1>1, <2>2 DEF Claim, Unclaimed
    <3>2. \A j \in Keys : state'[j] = IF j = k THEN "claimed" ELSE state[j]
      BY <3>1 DEF TypeOK
    <3>3. PassesOnce' /\ Settled'
      BY <3>1, <3>2 DEF Record, PassesOnce, Settled
    <3> QED
      BY <3>1, <3>3 DEF Record, InputsTaken, Outcomes
  <2> QED
    BY <2>1, <2>2
<1>2. ASSUME NEW g \in Goroutines, NEW k \in Keys, Take(g, k) PROVE Record'
  <2>1. /\ UNCHANGED <<state, result, passes, runs, canceled>> /\ InExecution(g)
        /\ reached' = [reached EXCEPT ![Top(g)] = @ + 1]
        /\ result[k] # "error" /\ state[k] = "ready" /\ Needs(g, k)
    BY <1>2 DEF Take, Failed
  <2>2. /\ Top(g) \in Keys
        /\ reached[Top(g)] + 1 \in DOMAIN Inputs(Top(g))
        /\ k = Inputs(Top(g))[reached[Top(g)] + 1]
    BY <2>1, TopIsAKey, NeededIsAnInput DEF Record
  <2>3. Inputs(Top(g)) \in Seq(Keys) /\ reached[Top(g)] \in Nat
    BY <2>2, InputsType DEF TypeOK
  <2>4. result[k] = "ok"
    BY <2>1 DEF Record, Settled, TypeOK
  <2>5. InputsTaken'
    <3> SUFFICES ASSUME NEW j \in Keys
                 PROVE  /\ reached'[j] <= Len(Inputs(j))
                        /\ \A i \in 1 .. reached'[j] : result'[Inputs(j)[i]] = "ok"
      BY DEF InputsTaken
    <3>1. /\ reached[j] <= Len(Inputs(j)) /\ reached[j] \in Nat
          /\ \A i \in 1 .. reached[j] : result[Inputs(j)[i]] = "ok"
      BY DEF Record, InputsTaken, TypeOK
    <3>2. CASE j # Top(g)
      <4>1. reached'[j] = reached[j] /\ result' = result
        BY <2>1, <3>2 DEF TypeOK
      <4> QED
        BY <3>1, <4>1
    <3>3. CASE j = Top(g)
      <4>1. reached'[j] = reached[j] + 1 /\ result' = result
        BY <2>1, <3>3 DEF TypeOK
      <4>2. reached[j] + 1 <= Len(Inputs(j))
        BY <2>2, <2>3, <3>3
      <4>3. \A i \in 1 .. reached[j] + 1 : i = reached[j] + 1 \/ i \in 1 .. reached[j]
        BY <3>1
      <4> QED
        BY <2>2, <2>4, <3>1, <3>3, <4>1, <4>2, <4>3
    <3> QED
      BY <3>2, <3>3
  <2>6. runs[Top(g)] # 1
    BY <2>1, <2>2 DEF Record, PassesOnce, Needs, HasInputs
  <2>7. PassesOnce'
    BY <2>1, <2>2, <2>6 DEF Record, PassesOnce, TypeOK
  <2> QED
    BY <2>1, <2>5, <2>7 DEF Record, Settled, Outcomes
<1>3. ASSUME NEW g \in Goroutines, NEW k \in Keys, TakeError(g, k) PROVE Record'
  <2>1. /\ Ready(Top(g), "error") /\ InExecution(g) /\ Needs(g, k) /\ result[k] = "error"
        /\ UNCHANGED <<reached, passes, runs, canceled>>
    BY <1>3 DEF TakeError, Failed
  <2>2. /\ Top(g) \in Keys /\ state[Top(g)] = "claimed"
        /\ k \in InputsOf(Top(g))
    BY <2>1, TopIsAKey, TopIsClaimed, NeededIsAnInput DEF Record, InputsOf
  <2>3. runs[Top(g)] # 1
    BY <2>1, <2>2 DEF Record, PassesOnce, Needs, HasInputs
  <2>4. passes' = passes \ {Top(g)}
    BY <2>1, <2>2, <2>3 DEF Record, PassesOnce
  <2> QED
    BY <2>1, <2>2, <2>4, BecomesReady
<1>4. ASSUME NEW g \in Goroutines, Return(g) PROVE Record'
  BY <1>4 DEF Return, Record, InputsTaken, PassesOnce, Settled, Outcomes
<1>5. ASSUME NEW g \in Goroutines, Skip(g) PROVE Record'
  <2>1. /\ Ready(Top(g), "ok") /\ InExecution(g) /\ HasInputs(g) /\ Skipped(Top(g))
        /\ UNCHANGED <<reached, passes, runs, canceled>>
    BY <1>5 DEF Skip
  <2>2. Top(g) \in Keys /\ state[Top(g)] = "claimed"
    BY <2>1, TopIsAKey, TopIsClaimed
  <2>3. passes' = passes \ {Top(g)}
    BY <2>1, <2>2 DEF Record, PassesOnce
  <2> QED
    BY <2>1, <2>2, <2>3, BecomesReady DEF HasInputs
<1>6. ASSUME NEW g \in Goroutines, BeginPass(g) PROVE Record'
  <2>1. /\ InExecution(g) /\ HasInputs(g) /\ ~Skipped(Top(g)) /\ Top(g) \notin passes
        /\ passes' = passes \cup {Top(g)} /\ runs' = [runs EXCEPT ![Top(g)] = @ + 1]
        /\ UNCHANGED <<state, result, reached, canceled>>
    BY <1>6 DEF BeginPass
  <2>2. Top(g) \in Keys /\ state[Top(g)] = "claimed"
    BY <2>1, TopIsAKey, TopIsClaimed
  <2>3. runs[Top(g)] = 0
    BY <2>1, <2>2 DEF Record, PassesOnce, TypeOK
  <2>4. PassesOnce'
    BY <2>1, <2>2, <2>3 DEF Record, PassesOnce, HasInputs, TypeOK
  <2> QED
    BY <2>1, <2>4 DEF Record, InputsTaken, Settled, Outcomes
<1>7. ASSUME NEW g \in Goroutines, EndPass(g) PROVE Record'
  <2>1. /\ InExecution(g) /\ Top(g) \in passes /\ passes' = passes \ {Top(g)}
        /\ UNCHANGED <<reached, runs, canceled>>
    BY <1>7 DEF EndPass
  <2>2. PICK outcome \in {"ok", "error"} :
          /\ outcome = "ok" => Top(g) \notin Faulty
          /\ outcome = "error" => Top(g) \in Faulty \/ canceled
          /\ Ready(Top(g), outcome)
    BY <1>7 DEF EndPass
  <2>3. Top(g) \in Keys /\ state[Top(g)] = "claimed"
    BY <2>1, TopIsAKey, TopIsClaimed
  <2>4. reached[Top(g)] = Len(Inputs(Top(g))) /\ ~Skipped(Top(g))
    BY <2>1, <2>3 DEF Record, PassesOnce
  <2> QED
    BY <2>1, <2>2, <2>3, <2>4, BecomesReady
<1>8. CASE Cancel
  BY <1>8 DEF Cancel, Record, InputsTaken, PassesOnce, Settled, Outcomes
<1>9. CASE UNCHANGED vars
  BY <1>9 DEF vars, Record, InputsTaken, PassesOnce, Settled, Outcomes
<1> QED
  BY <1>1, <1>2, <1>3, <1>4, <1>5, <1>6, <1>7, <1>8, <1>9 DEF Next, Step

-----------------------------------------------------------------------------
(* The invariant, and the properties that follow from it. *)

LEMMA Starts == Init => IInv
<1> SUFFICES ASSUME Init PROVE IInv
  OBVIOUS
<1>1. TypeOK
  <2>1. stack \in [Goroutines -> Seq(Keys)]
    <3>1. <<>> \in Seq(Keys)
      OBVIOUS
    <3> QED
      BY <3>1 DEF Init
  <2> QED
    BY <2>1 DEF Init, TypeOK
<1>2. ClaimedInOnePlace /\ Nested /\ ReturnedIsOut
  BY GoroutinesAreKeys DEF Init, ClaimedInOnePlace, Nested, ReturnedIsOut
<1>3. InputsTaken
  <2> SUFFICES ASSUME NEW k \in Keys
               PROVE  reached[k] <= Len(Inputs(k)) /\ 1 .. reached[k] = {}
    BY DEF InputsTaken
  <2>1. reached[k] = 0
    BY DEF Init
  <2>2. Len(Inputs(k)) \in Nat
    BY InputsType
  <2> QED
    BY <2>1, <2>2
<1>4. PassesOnce /\ Settled /\ Outcomes
  BY DEF Init, PassesOnce, Settled, Outcomes
<1> QED
  BY <1>1, <1>2, <1>3, <1>4 DEF IInv

(* The executions, their stacks and their outcomes agree in every state.   *)
THEOREM Invariance == Spec => []IInv
<1>1. IInv /\ [Next]_vars => IInv'
  BY Typing, PlacesKept, RecordKept DEF IInv, StackPlaces, Record
<1> QED
  BY Starts, <1>1, PTL DEF Spec

THEOREM TypeCorrect == Spec => []TypeOK
<1>1. IInv => TypeOK
  BY DEF IInv
<1> QED
  BY Invariance, <1>1, PTL

LEMMA OneIsNotBlocked ==
  ASSUME IInv, returned # Goroutines
  PROVE  \E g \in Goroutines \ returned : ~Blocked(g)
<1> DEFINE claimed == {k \in Keys : state[k] = "claimed"}
<1>1. CASE claimed = {}
  <2>1. PICK g \in Goroutines : g \notin returned
    BY DEF IInv, TypeOK
  <2> QED
    BY <1>1, <2>1 DEF Blocked
<1>2. CASE claimed # {}
  <2>1. PICK rank \in [Keys -> Nat] :
          \A k \in Keys : \A i \in DOMAIN Inputs(k) : rank[Inputs(k)[i]] < rank[k]
    BY InputsAreLessDeep
  <2>2. PICK k \in claimed : \A j \in claimed : ~(rank[j] < rank[k])
    BY <1>2, LeastRank
  <2>3. PICK g \in Goroutines : \E i \in DOMAIN stack[g] : stack[g][i] = k
    BY <2>2 DEF IInv, ClaimedInOnePlace
  <2>4. PICK i \in DOMAIN stack[g] : stack[g][i] = k
    BY <2>3
  (* What lies on top of an entry is claimed, and one of its inputs. *)
  <2>5. i = 1
    <3> SUFFICES ASSUME i # 1 PROVE FALSE
      OBVIOUS
    <3>1. stack[g] \in Seq(Keys)
      BY DEF IInv, TypeOK
    <3>2. i - 1 \in DOMAIN stack[g] /\ (i - 1) + 1 = i
      BY <3>1
    <3>3. /\ reached[k] + 1 \in DOMAIN Inputs(k)
          /\ stack[g][i - 1] = Inputs(k)[reached[k] + 1]
      BY <2>4, <3>2 DEF IInv, Nested
    <3>4. stack[g][i - 1] \in claimed
      BY <3>1, <3>2 DEF IInv, ClaimedInOnePlace
    <3> QED
      BY <2>1, <2>2, <3>3, <3>4
  <2>6. stack[g] # <<>> /\ g \notin returned
    BY <2>4 DEF IInv, ReturnedIsOut
  <2>7. Top(g) = k
    BY <2>4, <2>5, <2>6, TopIsAKey DEF InExecution, IInv
  <2>8. ASSUME NEW j \in Keys, Needs(g, j), state[j] = "claimed" PROVE FALSE
    <3>1. reached[k] + 1 \in DOMAIN Inputs(k) /\ j = Inputs(k)[reached[k] + 1]
      BY <2>6, <2>7, <2>8, NeededIsAnInput DEF InExecution, IInv
    <3> QED
      BY <2>1, <2>2, <2>8, <3>1
  <2> QED
    BY <2>6, <2>8 DEF Blocked
<1> QED
  BY <1>1, <1>2

LEMMA InOrder == ASSUME IInv PROVE RunsOnceInOrder
<1> SUFFICES ASSUME NEW k \in Keys, runs[k] = 1
             PROVE  \A d \in InputsOf(k) : result[d] = "ok"
  BY DEF IInv, PassesOnce, RunsOnceInOrder
<1>1. reached[k] = Len(Inputs(k)) /\ Inputs(k) \in Seq(Keys)
  BY InputsType DEF IInv, PassesOnce
<1> QED
  BY <1>1 DEF IInv, InputsTaken, InputsOf

(* No analyzer runs twice on a package or before all it needs succeeded,   *)
(* and while a goroutine has not returned, one of them is not blocked:     *)
(* registry.go:137 and :171, for every acyclic set of analyzers.           *)
THEOREM AnalysisExecutesInOrder == Spec => []ExecutesInOrder
<1>1. IInv => ExecutesInOrder
  BY InOrder, OneIsNotBlocked DEF ExecutesInOrder, NoCircularWait
<1> QED
  BY Invariance, <1>1, PTL

(* Unless the context is canceled, an execution fails exactly if its       *)
(* analyzer does or one of its inputs failed, whoever claimed it when.     *)
THEOREM OutcomesAreDetermined == Spec => []OutcomeIsDetermined
<1>1. ASSUME IInv PROVE OutcomeIsDetermined
  <2> SUFFICES ASSUME ~canceled, NEW k \in Keys, state[k] = "ready"
               PROVE  result[k] = "error" <=> \/ \E d \in InputsOf(k) : result[d] = "error"
                                              \/ k \in Faulty /\ ~Skipped(k)
    BY DEF OutcomeIsDetermined
  <2>1. result[k] \in {"none", "ok", "error"} /\ result[k] # "none"
    BY <1>1 DEF IInv, Settled, TypeOK
  <2> QED
    BY <1>1, <2>1 DEF IInv, Outcomes
<1> QED
  BY Invariance, <1>1, PTL

-----------------------------------------------------------------------------
(* The language server. *)

Spawned == {c \in Calls : call[c].at = "spawned"}

(* Each version was paid for with a notification. *)
VersionsPaid ==
  /\ IsFiniteSet(Spawned)
  /\ version + Cardinality(Spawned) <= edits

(* What a call has at each place. *)
Carries(r) ==
  /\ r.at \in {"load", "analyze", "store"} => r.key # <<>>
  /\ r.at \in {"analyze", "hit", "store", "found"} => r.found # <<>>
  /\ r.at \notin {"publish", "refresh", "dropped"} => Len(r.all) < r.request.target
  /\ Len(r.all) <= Targets

CallsCarry == \A c \in Calls : Carries(call[c])

(* A running call has a version of its own, or one of a folder that was    *)
(* removed, and only one that has published has the version of what is     *)
(* stored.                                                                 *)
Running(c) == call[c].at \notin {"idle", "spawned"}

VersionsSeparate ==
  /\ \A c \in Calls : Running(c) => /\ call[c].version >= 1
                                    /\ call[c].version <= version \/ call[c].version <= used
  /\ \A c, d \in Calls : c # d /\ Running(c) /\ Running(d) /\ call[c].version = call[d].version
                           => call[c].version <= used
  /\ \A c \in Calls : Running(c) /\ call[c].at # "refresh" /\ call[c].version = stored.version
                        => call[c].version <= used

ServerInv == ServerTypeOK /\ VersionsPaid /\ CallsCarry /\ VersionsSeparate

-----------------------------------------------------------------------------
LEMMA RemovedAt ==
  ASSUME NEW S, NEW s \in Seq(S), NEW i \in DOMAIN s
  PROVE  /\ RemoveAt(s, i) \in Seq(S)
         /\ Len(RemoveAt(s, i)) = Len(s) - 1
         /\ \A j \in 1 .. Len(s) - 1 : RemoveAt(s, i)[j] = IF j < i THEN s[j] ELSE s[j + 1]
<1> DEFINE f == SubSeq(s, 1, i - 1)
           t == SubSeq(s, i + 1, Len(s))
<1>1. i \in 1 .. Len(s) /\ Len(s) \in Nat
  OBVIOUS
<1>2. f \in Seq(S) /\ Len(f) = i - 1 /\ \A j \in 1 .. i - 1 : f[j] = s[j]
  BY <1>1
<1>3. t \in Seq(S) /\ Len(t) = Len(s) - i /\ \A j \in 1 .. Len(s) - i : t[j] = s[i + j]
  BY <1>1
<1> HIDE DEF f, t
<1>4. RemoveAt(s, i) = f \o t
  BY DEF RemoveAt, f, t
<1>5. \A j \in 1 .. Len(s) - 1 : (f \o t)[j] = IF j < i THEN s[j] ELSE s[j + 1]
  BY <1>1, <1>2, <1>3
<1>6. f \o t \in Seq(S) /\ Len(f \o t) = Len(s) - 1
  BY <1>1, <1>2, <1>3
<1> QED
  BY <1>4, <1>5, <1>6

(* Moving an entry to the end, adding one, and dropping the first keep the *)
(* entries what they were, with keys of their own.                         *)
Cached(s) == \A i \in DOMAIN s : s[i].found = Findings(s[i].key[1], s[i].key[2])
KeysDiffer(s) == \A i, j \in DOMAIN s : s[i].key = s[j].key => i = j
Entries == [key : CacheKeys, found : Found]

LEMMA EntryAppended ==
  ASSUME NEW s \in Seq(Entries), KeysDiffer(s), NEW e \in Entries,
         \A i \in DOMAIN s : s[i].key # e.key
  PROVE  /\ Append(s, e) \in Seq(Entries) /\ Len(Append(s, e)) = Len(s) + 1
         /\ KeysDiffer(Append(s, e))
         /\ Cached(s) /\ e.found = Findings(e.key[1], e.key[2]) => Cached(Append(s, e))
<1>1. /\ Append(s, e) \in Seq(Entries) /\ Len(Append(s, e)) = Len(s) + 1
      /\ \A i \in 1 .. Len(s) + 1 : Append(s, e)[i] = IF i = Len(s) + 1 THEN e ELSE s[i]
  OBVIOUS
<1>2. DOMAIN s = 1 .. Len(s) /\ DOMAIN Append(s, e) = 1 .. Len(s) + 1 /\ Len(s) \in Nat
  OBVIOUS
<1>3. \A i \in 1 .. Len(s) + 1 : i # Len(s) + 1 => i \in 1 .. Len(s)
  BY <1>2
<1>4. KeysDiffer(Append(s, e))
  BY <1>1, <1>2, <1>3 DEF KeysDiffer
<1>5. Cached(s) /\ e.found = Findings(e.key[1], e.key[2]) => Cached(Append(s, e))
  BY <1>1, <1>2, <1>3 DEF Cached
<1> QED
  BY <1>1, <1>4, <1>5

LEMMA EntryRemoved ==
  ASSUME NEW s \in Seq(Entries), KeysDiffer(s), NEW i \in DOMAIN s
  PROVE  /\ RemoveAt(s, i) \in Seq(Entries) /\ Len(RemoveAt(s, i)) = Len(s) - 1
         /\ KeysDiffer(RemoveAt(s, i))
         /\ \A j \in DOMAIN RemoveAt(s, i) : RemoveAt(s, i)[j].key # s[i].key
         /\ Cached(s) => Cached(RemoveAt(s, i))
<1> DEFINE r == RemoveAt(s, i)
<1>1. /\ r \in Seq(Entries) /\ Len(r) = Len(s) - 1
      /\ \A j \in 1 .. Len(s) - 1 : r[j] = IF j < i THEN s[j] ELSE s[j + 1]
  BY RemovedAt
<1>2. i \in 1 .. Len(s) /\ Len(s) \in Nat /\ DOMAIN s = 1 .. Len(s)
        /\ DOMAIN r = 1 .. Len(s) - 1
  BY <1>1
<1> HIDE DEF r
<1>3. \A j \in 1 .. Len(s) - 1 : j \in 1 .. Len(s) /\ j + 1 \in 1 .. Len(s)
  BY <1>2
<1>4. KeysDiffer(r)
  <2> SUFFICES ASSUME NEW j \in 1 .. Len(s) - 1, NEW k \in 1 .. Len(s) - 1, r[j].key = r[k].key
               PROVE  j = k
    BY <1>2 DEF KeysDiffer
  <2> DEFINE from(m) == IF m < i THEN m ELSE m + 1
  <2>1. from(j) \in DOMAIN s /\ from(k) \in DOMAIN s
    BY <1>2, <1>3
  <2>2. r[j] = s[from(j)] /\ r[k] = s[from(k)]
    BY <1>1
  <2>3. from(j) = from(k)
    BY <2>1, <2>2 DEF KeysDiffer
  <2> QED
    BY <1>2, <2>3
<1>5. \A j \in 1 .. Len(s) - 1 : r[j].key # s[i].key
  BY SMTT(40), <1>1, <1>2, <1>3 DEF KeysDiffer
<1>6. Cached(s) => Cached(r)
  BY <1>1, <1>2, <1>3 DEF Cached
<1> QED
  BY <1>1, <1>2, <1>4, <1>5, <1>6 DEF r

LEMMA EntriesRetained ==
  ASSUME NEW s \in Seq(Entries), KeysDiffer(s), MaxSnapshots \in Nat, Len(s) <= MaxSnapshots + 1
  PROVE  /\ Retained(s) \in Seq(Entries) /\ Len(Retained(s)) <= MaxSnapshots
         /\ KeysDiffer(Retained(s))
         /\ Cached(s) => Cached(Retained(s))
<1>1. CASE Len(s) > MaxSnapshots
  <2>1. /\ Tail(s) \in Seq(Entries) /\ Len(Tail(s)) = Len(s) - 1
        /\ \A j \in 1 .. Len(s) - 1 : Tail(s)[j] = s[j + 1]
    BY <1>1
  <2>2. /\ DOMAIN Tail(s) = 1 .. Len(s) - 1 /\ DOMAIN s = 1 .. Len(s) /\ Len(s) \in Nat
        /\ \A j \in 1 .. Len(s) - 1 : j + 1 \in 1 .. Len(s)
    BY <2>1
  <2>3. KeysDiffer(Tail(s))
    <3> SUFFICES ASSUME NEW j \in 1 .. Len(s) - 1, NEW k \in 1 .. Len(s) - 1,
                        Tail(s)[j].key = Tail(s)[k].key
                 PROVE  j = k
      BY <2>2 DEF KeysDiffer
    <3> QED
      BY <2>1, <2>2 DEF KeysDiffer
  <2>4. Cached(s) => Cached(Tail(s))
    BY <2>1, <2>2 DEF Cached
  <2> QED
    BY <1>1, <2>1, <2>3, <2>4 DEF Retained
<1>2. CASE ~(Len(s) > MaxSnapshots)
  BY <1>2 DEF Retained
<1> QED
  BY <1>1, <1>2
-----------------------------------------------------------------------------
(* What a step makes of a call. *)

LEMMA IdleCarries ==
  ASSUME ServerSizes
  PROVE  Idle \in CallStates /\ Carries(Idle) /\ Idle.at = "idle"
<1>1. [text |-> 0, target |-> 1, rules |-> Default, schedule |-> "edit"] \in Requests
  BY DEF ServerSizes, Requests
<1> QED
  BY <1>1 DEF ServerSizes, Idle, CallStates, Places, Carries

LEMMA SpawnedFinite ==
  ASSUME ServerSizes
  PROVE  IsFiniteSet(Spawned) /\ IsFiniteSet(Spawned')
<1>1. IsFiniteSet(Calls)
  BY DEF ServerSizes, IsFiniteSet, IsFiniteSet
<1> QED
  BY <1>1, FS_Subset DEF Spawned

(* A call that ends or goes on with its version takes nobody else's. *)
LEMMA CallGoesOn ==
  ASSUME ServerSizes, ServerInv, NEW c \in Calls, NEW r \in CallStates,
         Carries(r),
         call' = [call EXCEPT ![c] = r], r.at # "spawned",
         r.at # "idle" => /\ Running(c) /\ r.version = call[c].version
                          /\ r.at # "refresh" => call[c].at # "refresh",
         UNCHANGED <<edits, version, used, stored>>
  PROVE  call' \in [Calls -> CallStates] /\ CallsCarry' /\ VersionsPaid'
           /\ VersionsSeparate'
<1>1. call \in [Calls -> CallStates]
  BY DEF ServerInv, ServerTypeOK
<1>2. call' \in [Calls -> CallStates]
  BY <1>1
<1>3. CallsCarry'
  BY <1>1 DEF ServerInv, CallsCarry
<1>4. VersionsPaid'
  <2>1. Spawned' \subseteq Spawned
    BY <1>1 DEF Spawned
  <2>2. Cardinality(Spawned') <= Cardinality(Spawned)
    BY <2>1, SpawnedFinite, FS_Subset
  <2>3. Cardinality(Spawned') \in Nat /\ Cardinality(Spawned) \in Nat
    BY SpawnedFinite, FS_CardinalityType
  <2> QED
    BY <2>2, <2>3, SpawnedFinite DEF ServerInv, ServerTypeOK, VersionsPaid
<1>5. VersionsSeparate'
  <2>1. \A d \in Calls : call'[d] = IF d = c THEN r ELSE call[d]
    BY <1>1
  <2>2. \A d \in Calls : Running(d)' => Running(d) /\ call'[d].version = call[d].version
                                        /\ (call'[d].at # "refresh" => call[d].at # "refresh")
    BY <2>1 DEF Running
  <2> QED
    BY <2>2 DEF ServerInv, VersionsSeparate
<1> QED
  BY <1>2, <1>3, <1>4, <1>5

(* The calls stay as they are but for a context that is canceled. *)
LEMMA CallsRest ==
  ASSUME ServerSizes, ServerInv, call' \in [Calls -> CallStates],
         \A c \in Calls : /\ call'[c].at = call[c].at /\ call'[c].version = call[c].version
                          /\ call'[c].key = call[c].key /\ call'[c].found = call[c].found
                          /\ call'[c].all = call[c].all /\ call'[c].request = call[c].request
  PROVE  /\ CallsCarry'
         /\ UNCHANGED <<edits, version>> => VersionsPaid'
         /\ UNCHANGED <<version, used, stored>> => VersionsSeparate'
<1>1. CallsCarry'
  BY DEF ServerInv, CallsCarry, Carries
<1>2. Spawned' = Spawned
  BY DEF Spawned
<1>3. UNCHANGED <<edits, version>> => VersionsPaid'
  BY <1>2 DEF ServerInv, VersionsPaid
<1>4. \A c \in Calls : Running(c)' = Running(c)
  BY DEF Running
<1>5. UNCHANGED <<version, used, stored>> => VersionsSeparate'
  BY <1>4 DEF ServerInv, VersionsSeparate
<1> QED
  BY <1>1, <1>3, <1>5

-----------------------------------------------------------------------------
(* The engine. *)

(* A step of the engine keeps the cache, and its call goes on. *)
EngineEffect(c) ==
  /\ entries' \in Seq(Entries) /\ KeysDiffer(entries') /\ Len(entries') <= MaxSnapshots
  /\ latest' \in 0 .. Edits /\ disk' = disk
  /\ \E r \in CallStates : /\ Carries(r) /\ call' = [call EXCEPT ![c] = r]
                           /\ r.at \notin {"spawned", "idle", "refresh"} /\ Running(c)
                           /\ r.version = call[c].version /\ call[c].at # "refresh"

LEMMA NeverEmpty == <<>> \notin Found /\ <<>> \notin CacheKeys
BY DEF Found, CacheKeys

LEMMA EngineKeeps ==
  ASSUME ServerSizes, ServerInv, NEW c \in Calls, EngineStep(c), Outside,
         UNCHANGED others
  PROVE  ServerInv'
<1>1. call \in [Calls -> CallStates] /\ call[c] \in CallStates /\ Carries(call[c])
  BY DEF ServerInv, ServerTypeOK, CallsCarry
<1>2. call[c].request \in Requests
  BY <1>1 DEF CallStates
<1>3. Key(call[c].request) \in CacheKeys
        /\ Findings(call[c].request, disk) \in Found
  BY <1>2 DEF Key, Findings, CacheKeys, Found, Requests,
       ServerInv, ServerTypeOK
<1>4. entries \in Seq(Entries) /\ KeysDiffer(entries) /\ Len(entries) <= MaxSnapshots
      /\ MaxSnapshots \in Nat
  BY DEF ServerInv, ServerTypeOK, Entries, KeysDiffer, ServerSizes
<1>5. EngineEffect(c)
  <2>1. CASE Enter(c)
    <3> DEFINE r == [call[c] EXCEPT !.at = IF Overtaken(c) THEN "dropped"
                                        ELSE "fingerprint"]
    <3>1. call' = [call EXCEPT ![c] = r] /\ disk' = disk /\ entries' = entries
          /\ call[c].at = "enter" /\ latest' \in {latest, call[c].version}
      BY <2>1 DEF Enter, Goes
    <3>2. r \in CallStates /\ Carries(r) /\ r.at \in {"dropped", "fingerprint"}
          /\ r.version = call[c].version
      BY <1>1, <3>1 DEF CallStates, Carries, Places
    <3>3. latest' \in 0 .. Edits
      BY <1>1, <3>1 DEF CallStates, ServerInv, ServerTypeOK
    <3> QED
      BY <1>4, <3>1, <3>2, <3>3 DEF Running, EngineEffect
  <2>2. CASE Fingerprint(c)
    <3>1. call[c].at = "fingerprint" /\ disk' = disk /\ latest' = latest
      BY <2>2 DEF Fingerprint
    <3>2. CASE /\ EntryOf(Key(call[c].request)) = {}
               /\ call' = [call EXCEPT ![c].at = "load", ![c].key = Key(call[c].request)]
               /\ UNCHANGED entries
      <4> DEFINE r == [call[c] EXCEPT !.at = "load", !.key = Key(call[c].request)]
      <4>1. call' = [call EXCEPT ![c] = r]
        BY <1>1, <3>2
      <4>2. r \in CallStates /\ Carries(r) /\ r.at = "load"
              /\ r.version = call[c].version
        BY <1>1, <1>3, <3>1 DEF CallStates, Carries, Places, Key
      <4> QED
        BY <1>4, <3>1, <3>2, <4>1, <4>2 DEF Running, ServerInv, ServerTypeOK, EngineEffect
    <3>3. ASSUME NEW i \in EntryOf(Key(call[c].request)),
                 call' = [call EXCEPT ![c].at = "hit", ![c].found = entries[i].found],
                 entries' = Append(RemoveAt(entries, i), entries[i])
          PROVE  EngineEffect(c)
      <4> DEFINE r == [call[c] EXCEPT !.at = "hit", !.found = entries[i].found]
      <4>1. i \in DOMAIN entries /\ entries[i] \in Entries
        BY <1>4 DEF EntryOf
      <4>2. call' = [call EXCEPT ![c] = r]
        BY <1>1, <3>3
      <4>3. entries[i].found \in Found
        BY <4>1 DEF Entries
      <4>4. r \in CallStates /\ Carries(r) /\ r.at = "hit" /\ r.version = call[c].version
        BY <1>1, <3>1, <4>3, NeverEmpty DEF CallStates, Carries, Places
      <4>5. entries' \in Seq(Entries) /\ KeysDiffer(entries') /\ Len(entries') = Len(entries)
        BY <1>4, <3>3, <4>1, EntryRemoved, EntryAppended
      <4> QED
        BY <1>4, <3>1, <4>2, <4>4, <4>5 DEF Running, ServerInv, ServerTypeOK, EngineEffect
    <3>4. \/ /\ EntryOf(Key(call[c].request)) = {}
             /\ call' = [call EXCEPT ![c].at = "load", ![c].key = Key(call[c].request)]
             /\ UNCHANGED entries
          \/ \E i \in EntryOf(Key(call[c].request)) :
               /\ call' = [call EXCEPT ![c].at = "hit", ![c].found = entries[i].found]
               /\ entries' = Append(RemoveAt(entries, i), entries[i])
      BY <2>2 DEF Fingerprint
    <3> QED
      BY <3>2, <3>3, <3>4
  <2>3. CASE Load(c)
    <3> DEFINE r == [call[c] EXCEPT !.at = "analyze",
                 !.found = Findings(call[c].request, disk)]
    <3>1. call' = [call EXCEPT ![c] = r] /\ disk' = disk /\ entries' = entries
          /\ call[c].at = "load" /\ latest' = latest
      BY <1>1, <2>3 DEF Load, engine
    <3>2. r \in CallStates /\ Carries(r) /\ r.at = "analyze"
            /\ r.version = call[c].version
      BY <1>1, <1>3, <3>1 DEF CallStates, Carries, Places, Findings
    <3> QED
      BY <1>4, <3>1, <3>2 DEF Running, ServerInv, ServerTypeOK, EngineEffect
  <2>4. CASE Analyze(c) \/ Reuse(c) \/ Fail(c)
    <3>1. PICK place \in {"dropped", "store", "found"} :
            /\ call' = [call EXCEPT ![c].at = place] /\ disk' = disk /\ entries' = entries
            /\ latest' = latest
            /\ call[c].at \in {"fingerprint", "load", "analyze", "hit"}
            /\ place = "store" => call[c].at = "analyze"
            /\ place = "found" => call[c].at = "hit"
      BY <2>4 DEF Analyze, Reuse, Fail, Goes, engine
    <3> DEFINE r == [call[c] EXCEPT !.at = place]
    <3>2. call' = [call EXCEPT ![c] = r]
      BY <1>1, <3>1
    <3>3. r \in CallStates /\ Carries(r) /\ r.at = place /\ r.version = call[c].version
      BY <1>1, <3>1 DEF CallStates, Carries, Places
    <3> QED
      BY <1>4, <3>1, <3>2, <3>3 DEF Running, ServerInv, ServerTypeOK, EngineEffect
  <2>5. CASE Store(c)
    <3> DEFINE r == [call[c] EXCEPT !.at = "found", !.key = <<>>]
               e == [key |-> call[c].key, found |-> call[c].found]
    <3>1. call' = [call EXCEPT ![c] = r] /\ disk' = disk /\ call[c].at = "store"
          /\ latest' = latest
      BY <1>1, <2>5 DEF Store
    <3>2. r \in CallStates /\ Carries(r) /\ r.at = "found" /\ r.version = call[c].version
      BY <1>1, <3>1 DEF CallStates, Carries, Places
    <3>3. e \in Entries /\ e.key = call[c].key
      BY <1>1, <3>1 DEF CallStates, Carries, Entries
    <3> HIDE DEF r, e
    <3>4. entries' \in Seq(Entries) /\ KeysDiffer(entries') /\ Len(entries') <= MaxSnapshots
      <4>1. CASE EntryOf(e.key) = {} /\ entries' = Retained(Append(entries, e))
        <5>1. \A i \in DOMAIN entries : entries[i].key # e.key
          BY <4>1 DEF EntryOf
        <5>2. /\ Append(entries, e) \in Seq(Entries) /\ KeysDiffer(Append(entries, e))
              /\ Len(Append(entries, e)) <= MaxSnapshots + 1
          BY <1>4, <3>3, <5>1, EntryAppended
        <5> QED
          BY <1>4, <4>1, <5>2, EntriesRetained
      <4>2. ASSUME NEW i \in EntryOf(e.key),
                   entries' = Retained(Append(RemoveAt(entries, i), e))
            PROVE  /\ entries' \in Seq(Entries) /\ KeysDiffer(entries')
                   /\ Len(entries') <= MaxSnapshots
        <5>1. i \in DOMAIN entries /\ entries[i].key = e.key
          BY DEF EntryOf
        <5>2. /\ RemoveAt(entries, i) \in Seq(Entries)
                   /\ KeysDiffer(RemoveAt(entries, i))
              /\ Len(RemoveAt(entries, i)) = Len(entries) - 1
              /\ \A j \in DOMAIN RemoveAt(entries, i) :
                    RemoveAt(entries, i)[j].key # e.key
          BY <1>4, <5>1, EntryRemoved
        <5> DEFINE rest == RemoveAt(entries, i)
        <5>3. /\ Append(rest, e) \in Seq(Entries) /\ KeysDiffer(Append(rest, e))
              /\ Len(Append(rest, e)) <= MaxSnapshots + 1
          BY <1>4, <3>3, <5>2, EntryAppended
        <5>4. entries' = Retained(Append(rest, e))
          BY <4>2
        <5> HIDE DEF rest
        <5> QED
          BY <1>4, <5>3, <5>4, EntriesRetained
      <4>3. \/ EntryOf(e.key) = {} /\ entries' = Retained(Append(entries, e))
            \/ \E i \in EntryOf(e.key) :
                 entries' = Retained(Append(RemoveAt(entries, i), e))
        BY <2>5 DEF Store, e
      <4> QED
        BY <4>1, <4>2, <4>3
    <3> QED
      BY <3>1, <3>2, <3>4 DEF Running, ServerInv, ServerTypeOK, EngineEffect
  <2> QED
    BY <2>1, <2>2, <2>3, <2>4, <2>5 DEF EngineStep
<1>6. UNCHANGED <<edits, docs, rules, open, version, current, stored, used, closed,
                  due, pulled>>
  BY DEF Outside, workspace, editor
<1>7. call' \in [Calls -> CallStates] /\ CallsCarry' /\ VersionsPaid'
        /\ VersionsSeparate'
  BY <1>5, <1>6, CallGoesOn DEF EngineEffect
<1>8. ServerTypeOK'
  <2>1. /\ entries' \in Seq([key : CacheKeys, found : Found])
             /\ Len(entries') <= MaxSnapshots
        /\ \A i, j \in DOMAIN entries' : entries'[i].key = entries'[j].key => i = j
        /\ latest' \in 0 .. Edits /\ disk' \in 0 .. Touches
    BY <1>5 DEF EngineEffect, Entries, KeysDiffer, ServerInv, ServerTypeOK
  <2>2. \A d \in Calls : Len(call'[d].all) <= Targets
    BY <1>7 DEF CallsCarry, Carries
  <2>3. stored' \in [version : 0 .. version', found : Seq(Found)]
    BY <1>6 DEF ServerInv, ServerTypeOK
  <2> QED
    BY <1>6, <1>7, <2>1, <2>2, <2>3 DEF ServerInv, ServerTypeOK
<1> QED
  BY <1>7, <1>8 DEF ServerInv
-----------------------------------------------------------------------------
(* The goroutines of the server. *)

LEMMA BeginKeeps ==
  ASSUME ServerSizes, ServerInv, NEW c \in Calls, Begin(c), UNCHANGED others
  PROVE  ServerInv'
<1> DEFINE q == [call[c].request EXCEPT !.text = docs, !.rules = rules]
           r == [call[c] EXCEPT !.at = "enter", !.version = version + 1, !.request = q]
<1>1. /\ call \in [Calls -> CallStates] /\ call[c] \in CallStates
           /\ Carries(call[c])
      /\ version \in Nat /\ edits \in Nat /\ Edits \in Nat /\ version <= edits /\ edits <= Edits
      /\ docs \in 0 .. Edits /\ rules \in Settings /\ used \in Nat
      /\ stored \in [version : 0 .. version, found : Seq(Found)]
  BY DEF ServerInv, ServerTypeOK, CallsCarry, ServerSizes
<1>2. /\ call[c].at = "spawned" /\ version' = version + 1 /\ current' = c
      /\ UNCHANGED <<disk, latest, entries, edits, docs, rules, open, stored, used, closed, due,
                     pulled, others>>
  BY DEF Begin, engine, editor
<1>3. \A d \in Calls : call'[d] = IF d = c THEN r
                                 ELSE IF d = current THEN [call[d] EXCEPT !.cancelled = TRUE]
                                 ELSE call[d]
  <2>1. call[c].request \in Requests
    BY <1>1 DEF CallStates
  <2> QED
    BY <1>1, <2>1 DEF Begin
<1>4. call'[c] = r
  BY <1>3
<1>5. ASSUME NEW d \in Calls, d # c
      PROVE  /\ call'[d] \in CallStates
             /\ call'[d].at = call[d].at /\ call'[d].version = call[d].version
             /\ call'[d].key = call[d].key /\ call'[d].found = call[d].found
             /\ call'[d].all = call[d].all /\ call'[d].request = call[d].request
  <2>1. call[d] \in CallStates
    BY <1>1
  <2>2. CASE d = current
    BY <1>3, <1>5, <2>1, <2>2 DEF CallStates
  <2>3. CASE d # current
    BY <1>3, <1>5, <2>1, <2>3
  <2> QED
    BY <2>2, <2>3
<1>6. r.at = "enter" /\ r.version = version + 1
  BY <1>1 DEF CallStates
<1>7. version + 1 <= edits /\ VersionsPaid'
  <2>1. c \in Spawned /\ Spawned' = Spawned \ {c}
    BY ZenonT(40), <1>2, <1>4, <1>5, <1>6 DEF Spawned
  <2>2. /\ IsFiniteSet(Spawned) /\ IsFiniteSet(Spawned') /\ Cardinality(Spawned) \in Nat
        /\ Cardinality(Spawned') = Cardinality(Spawned) - 1 /\ Cardinality(Spawned') \in Nat
    BY <2>1, SpawnedFinite, FS_RemoveElement, FS_CardinalityType
  <2> QED
    BY <1>1, <1>2, <2>2 DEF ServerInv, VersionsPaid
<1>8. r \in CallStates /\ Carries(r)
  <2>1. q \in Requests /\ q.target = call[c].request.target
    BY <1>1 DEF CallStates, Requests
  <2>2. version + 1 \in 0 .. Edits
    BY <1>1, <1>7
  <2> QED
    BY <1>1, <1>2, <2>1, <2>2 DEF CallStates, Places, Carries
<1>9. call' \in [Calls -> CallStates]
  <2>1. call' = [d \in Calls |-> call'[d]]
    BY DEF Begin
  <2> QED
    BY <1>4, <1>5, <1>8, <2>1
<1> HIDE DEF r
<1>10. CallsCarry'
  BY <1>4, <1>5, <1>8 DEF ServerInv, CallsCarry, Carries
<1>11. VersionsSeparate'
  <2>1. \A d \in Calls : d # c => (Running(d)' <=> Running(d))
    BY <1>5 DEF Running
  <2>2. \A d \in Calls : Running(d) => /\ call[d].version \in Nat /\ call[d].version >= 1
                                       /\ call[d].version <= version \/ call[d].version <= used
    BY <1>1 DEF ServerInv, VersionsSeparate, CallStates
  <2>3. \A d \in Calls : Running(d)' =>
          /\ call'[d].version >= 1
               /\ (call'[d].version <= version' \/ call'[d].version <= used')
    BY <1>1, <1>2, <1>4, <1>5, <1>6, <2>1, <2>2
  <2>4. ASSUME NEW d \in Calls, NEW e \in Calls, d # e, Running(d)', Running(e)',
               call'[d].version = call'[e].version
        PROVE  call'[d].version <= used'
    <3>1. CASE d # c /\ e # c
      BY <1>2, <1>5, <2>1, <2>4, <3>1 DEF ServerInv, VersionsSeparate
    <3>2. CASE d = c \/ e = c
      BY <1>1, <1>2, <1>4, <1>5, <1>6, <2>1, <2>2, <2>4, <3>2
    <3> QED
      BY <3>1, <3>2
  <2>5. ASSUME NEW d \in Calls, Running(d)', call'[d].at # "refresh",
               call'[d].version = stored'.version
        PROVE  call'[d].version <= used'
    <3>1. CASE d # c
      BY <1>2, <1>5, <2>1, <2>5, <3>1 DEF ServerInv, VersionsSeparate
    <3>2. CASE d = c
      BY <1>1, <1>2, <1>4, <1>6, <2>5, <3>2
    <3> QED
      BY <3>1, <3>2
  <2> QED
    BY <2>3, <2>4, <2>5 DEF VersionsSeparate
<1>12. ServerTypeOK'
  <2>1. version' \in 0 .. edits' /\ current' \in Calls \cup {None}
    BY <1>1, <1>2, <1>7
  <2>2. stored' \in [version : 0 .. version', found : Seq(Found)]
    BY <1>1, <1>2
  <2>3. \A d \in Calls : Len(call'[d].all) <= Targets
    BY <1>10 DEF CallsCarry, Carries
  <2> QED
    BY <1>2, <1>9, <2>1, <2>2, <2>3 DEF ServerInv, ServerTypeOK
<1> QED
  BY <1>7, <1>10, <1>11, <1>12 DEF ServerInv

(* Steps that end a call or let it go on, and keep the folder's versions. *)
LEMMA CallEndsKeeps ==
  ASSUME ServerSizes, ServerInv, NEW c \in Calls, NEW r \in CallStates,
         Carries(r),
         call' = [call EXCEPT ![c] = r], r.at # "spawned",
         r.at # "idle" => /\ Running(c) /\ r.version = call[c].version
                          /\ r.at # "refresh" => call[c].at # "refresh",
         UNCHANGED <<disk, latest, entries, edits, docs, rules, open, version, stored, used,
                     closed, pulled, others>>,
         current' \in Calls \cup {None}, due' \in BOOLEAN
  PROVE  ServerInv'
<1>1. call' \in [Calls -> CallStates] /\ CallsCarry' /\ VersionsPaid'
        /\ VersionsSeparate'
  BY CallGoesOn
<1>2. \A d \in Calls : Len(call'[d].all) <= Targets
  BY <1>1 DEF CallsCarry, Carries
<1>3. ServerTypeOK'
  BY <1>1, <1>2 DEF ServerInv, ServerTypeOK
<1> QED
  BY <1>1, <1>3 DEF ServerInv

LEMMA AbandonKeeps ==
  ASSUME ServerSizes, ServerInv, NEW c \in Calls,
         Abandon(c) \/ GiveUp(c) \/ Refresh(c)
           \/ (Publish(c) /\ ~Accepted(c)), UNCHANGED others
  PROVE  ServerInv'
<1>1. call' = [call EXCEPT ![c] = Idle]
  BY DEF Abandon, GiveUp, Refresh, Publish
<1>2. UNCHANGED <<disk, latest, entries, edits, docs, rules, open, version, stored, used,
                  closed, pulled, others>>
  BY DEF Abandon, GiveUp, Refresh, Publish, engine,
       workspace, editor
<1>3. current' \in Calls \cup {None} /\ due' \in BOOLEAN
  BY DEF Abandon, GiveUp, Refresh, Publish, workspace,
       editor, ServerInv, ServerTypeOK
<1> QED
  BY <1>1, <1>2, <1>3, IdleCarries, CallEndsKeeps

LEMMA CollectKeeps ==
  ASSUME ServerSizes, ServerInv, NEW c \in Calls, Collect(c), UNCHANGED others
  PROVE  ServerInv'
<1> DEFINE last == call[c].request.target = Targets
           q == [call[c].request EXCEPT !.target = IF last THEN call[c].request.target
                                                  ELSE call[c].request.target + 1]
           r == [call[c] EXCEPT !.all = Append(call[c].all, call[c].found), !.found = <<>>,
                                !.at = IF last THEN "publish" ELSE "enter", !.request = q]
<1>1. /\ call \in [Calls -> CallStates] /\ call[c] \in CallStates
           /\ Carries(call[c])
      /\ call[c].at = "found"
  BY DEF ServerInv, ServerTypeOK, CallsCarry, Collect
<1>2. call' = [call EXCEPT ![c] = r]
  BY ZenonT(40), <1>1 DEF Collect
<1>3. /\ call[c].found \in Found /\ call[c].all \in Seq(Found)
           /\ call[c].request \in Requests
      /\ Len(call[c].all) < call[c].request.target
  BY <1>1 DEF CallStates, Carries
<1>4. /\ Append(call[c].all, call[c].found) \in Seq(Found)
      /\ Len(Append(call[c].all, call[c].found)) = Len(call[c].all) + 1
      /\ Len(call[c].all) \in Nat
  BY <1>3
<1>5. q \in Requests /\ q.target = IF last THEN Targets ELSE call[c].request.target + 1
  BY SMTT(40), <1>3 DEF Requests, ServerSizes
<1>6. r \in CallStates /\ r.at \in {"publish", "enter"} /\ r.version = call[c].version
  BY <1>1, <1>4, <1>5 DEF CallStates, Places
<1>7. Carries(r)
  BY <1>1, <1>3, <1>4, <1>5 DEF Carries, CallStates, Requests, ServerSizes
<1>8. UNCHANGED <<disk, latest, entries, edits, docs, rules, open, version, stored, used,
                  closed, pulled, others>>
  BY DEF Collect, engine, workspace, editor
<1>9. current' \in Calls \cup {None} /\ due' \in BOOLEAN
  BY DEF Collect, workspace, editor, ServerInv, ServerTypeOK
<1> HIDE DEF r
<1> QED
  BY <1>1, <1>2, <1>6, <1>7, <1>8, <1>9, CallEndsKeeps DEF Running

LEMMA PublishKeeps ==
  ASSUME ServerSizes, ServerInv, NEW c \in Calls, Publish(c),
         Accepted(c), UNCHANGED others
  PROVE  ServerInv'
<1> DEFINE r == [call[c] EXCEPT !.at = "refresh"]
<1>1. /\ call \in [Calls -> CallStates] /\ call[c] \in CallStates
           /\ Carries(call[c])
      /\ call[c].at = "publish" /\ call[c].version = version
  BY DEF ServerInv, ServerTypeOK, CallsCarry, Publish, Accepted
<1>2. call' = [call EXCEPT ![c] = r] /\ r \in CallStates /\ r.at = "refresh"
        /\ Carries(r)
      /\ r.version = version
  BY <1>1 DEF Publish, Goes, CallStates, Places, Carries
<1>3. /\ stored' = [version |-> call[c].version, found |-> call[c].all]
           /\ current' = None
      /\ UNCHANGED <<disk, latest, entries, edits, docs, rules, open, version, used, closed,
                     due, pulled, others>>
  BY DEF Publish, engine, editor
<1> HIDE DEF r
<1>4. call' \in [Calls -> CallStates] /\ CallsCarry'
  BY <1>1, <1>2 DEF ServerInv, CallsCarry
<1>5. VersionsPaid'
  <2>1. Spawned' = Spawned
    BY <1>1, <1>2 DEF Spawned
  <2> QED
    BY <1>3, <2>1 DEF ServerInv, VersionsPaid
<1>6. VersionsSeparate'
  <2>1. \A d \in Calls : /\ Running(d)' <=> Running(d)
                         /\ call'[d].version = call[d].version
                         /\ d # c => call'[d].at = call[d].at
                         /\ d = c => call'[d].at = "refresh"
    BY <1>1, <1>2 DEF Running
  <2>2. stored'.version = version /\ Running(c)
    BY <1>1, <1>3 DEF Running
  <2>3. ASSUME NEW d \in Calls, Running(d), call'[d].at # "refresh", call[d].version = version
        PROVE  call[d].version <= used
    BY <1>1, <2>1, <2>2, <2>3 DEF ServerInv, VersionsSeparate
  <2> QED
    BY <1>3, <2>1, <2>2, <2>3 DEF ServerInv, VersionsSeparate
<1>7. ServerTypeOK'
  <2>1. stored' \in [version : 0 .. version', found : Seq(Found)]
    BY <1>1, <1>3 DEF CallStates, ServerInv, ServerTypeOK
  <2>2. \A d \in Calls : Len(call'[d].all) <= Targets
    BY <1>4 DEF CallsCarry, Carries
  <2> QED
    BY <1>3, <1>4, <2>1, <2>2 DEF ServerInv, ServerTypeOK
<1> QED
  BY <1>4, <1>5, <1>6, <1>7 DEF ServerInv
-----------------------------------------------------------------------------
(* The editor and what is around the server. *)

LEMMA ChangeDocumentKeeps ==
  ASSUME ServerSizes, ServerInv, ChangeDocument, UNCHANGED others
  PROVE  ServerInv'
<1>1. /\ call \in [Calls -> CallStates] /\ edits \in Nat /\ Edits \in Nat
           /\ edits < Edits
      /\ edits' = edits + 1 /\ docs' \in {edits', docs, 0} /\ docs \in 0 .. edits
      /\ UNCHANGED <<disk, latest, entries, rules, open, version, current, stored, used, closed,
                     due, pulled, others>>
  BY DEF ServerInv, ServerTypeOK, ServerSizes, ChangeDocument, engine,
       workspace, editor
<1>2. PICK c \in Calls :
        /\ call[c].at = "idle"
        /\ call' = IF open
                     THEN [call EXCEPT ![c].at = "spawned",
                                       ![c].request.schedule =
                                         IF docs' = docs THEN "save" ELSE "edit"]
                     ELSE call
  BY DEF ChangeDocument
<1>3. PICK w \in {"edit", "save"} :
        call' = IF open THEN [call EXCEPT ![c].at = "spawned", ![c].request.schedule = w]
                ELSE call
  BY <1>2
<1> DEFINE q == [call[c].request EXCEPT !.schedule = w]
           r == [call[c] EXCEPT !.at = "spawned", !.request = q]
<1>4. call[c] \in CallStates /\ call[c].request \in Requests /\ Carries(call[c])
  BY <1>1 DEF CallStates, ServerInv, CallsCarry
<1>5. call' = IF open THEN [call EXCEPT ![c] = r] ELSE call
  BY <1>1, <1>3, <1>4
<1>6. q \in Requests /\ q.target = call[c].request.target
  BY <1>4 DEF Requests
<1>7. r \in CallStates /\ Carries(r) /\ r.at = "spawned"
  BY <1>2, <1>4, <1>6 DEF CallStates, Places, Carries
<1> HIDE DEF r
<1>8. call' \in [Calls -> CallStates] /\ CallsCarry'
  BY <1>1, <1>5, <1>7 DEF ServerInv, CallsCarry
<1>9. VersionsPaid'
  <2>1. Spawned' = IF open THEN Spawned \cup {c} ELSE Spawned
    BY <1>1, <1>5, <1>7 DEF Spawned
  <2>2. c \notin Spawned
    BY <1>2 DEF Spawned
  <2>3. /\ IsFiniteSet(Spawned') /\ Cardinality(Spawned) \in Nat
        /\ Cardinality(Spawned') <= Cardinality(Spawned) + 1 /\ Cardinality(Spawned') \in Nat
    BY <2>1, <2>2, SpawnedFinite, FS_AddElement, FS_CardinalityType
  <2> QED
    BY <1>1, <2>3 DEF ServerInv, ServerTypeOK, VersionsPaid
<1>10. VersionsSeparate'
  <2>1. \A d \in Calls : /\ Running(d)' <=> Running(d)
                         /\ Running(d) => call'[d] = call[d]
    BY <1>1, <1>2, <1>5, <1>7 DEF Running
  <2> QED
    BY <1>1, <2>1 DEF ServerInv, VersionsSeparate
<1>11. ServerTypeOK'
  <2>1. \A d \in Calls : Len(call'[d].all) <= Targets
    BY <1>8 DEF CallsCarry, Carries
  <2>2. edits' \in 0 .. Edits /\ docs' \in 0 .. edits'
    BY <1>1
  <2>3. version' \in 0 .. edits' /\ used' \in 0 .. edits'
    BY <1>1 DEF ServerInv, ServerTypeOK
  <2> QED
    BY <1>1, <1>8, <2>1, <2>2, <2>3 DEF ServerInv, ServerTypeOK
<1> QED
  BY <1>8, <1>9, <1>10, <1>11 DEF ServerInv

LEMMA RemoveFolderKeeps ==
  ASSUME ServerSizes, ServerInv, RemoveFolder, others' \in 0 .. Others
  PROVE  ServerInv'
<1>1. /\ version \in 0 .. edits /\ used \in 0 .. edits /\ edits \in Nat
      /\ version' = 0 /\ current' = None /\ stored' = Nothing /\ open' = FALSE
      /\ used' = IF version > used THEN version ELSE used
      /\ UNCHANGED <<disk, latest, entries, call, edits, docs, rules, closed, due, pulled>>
  BY DEF ServerInv, ServerTypeOK, RemoveFolder, engine, editor
<1>2. CallsCarry' /\ \A c \in Calls : Running(c)' <=> Running(c)
  BY <1>1 DEF ServerInv, CallsCarry, Running
<1>3. VersionsPaid'
  <2>1. Spawned' = Spawned /\ Cardinality(Spawned) \in Nat
    BY <1>1, SpawnedFinite, FS_CardinalityType DEF Spawned
  <2> QED
    BY <1>1, <2>1 DEF ServerInv, VersionsPaid
<1>4. VersionsSeparate'
  <2>1. \A c \in Calls : Running(c) => call[c].version \in Nat /\ call[c].version >= 1
          /\ call[c].version <= used'
    BY <1>1 DEF ServerInv, ServerTypeOK, VersionsSeparate, CallStates
  <2>2. stored'.version = 0
    BY <1>1 DEF Nothing
  <2> QED
    BY <1>1, <1>2, <2>1, <2>2 DEF VersionsSeparate
<1>5. ServerTypeOK'
  <2>1. version' \in 0 .. edits' /\ used' \in 0 .. edits'
          /\ current' \in Calls \cup {None}
    BY <1>1
  <2>2. stored' \in [version : 0 .. version', found : Seq(Found)]
    BY <1>1 DEF Nothing
  <2> QED
    BY <1>1, <2>1, <2>2 DEF ServerInv, ServerTypeOK
<1> QED
  BY <1>2, <1>3, <1>4, <1>5 DEF ServerInv

(* What leaves the calls, the versions and what is stored alone. *)
LEMMA OtherKeeps ==
  ASSUME ServerSizes, ServerInv,
         \/ AddFolder /\ UNCHANGED others
         \/ ChangeConfiguration \/ Shutdown \/ (Touch /\ Outside)
         \/ PullDiagnostics
         \/ UNCHANGED server,
         others' \in 0 .. Others
  PROVE  ServerInv'
<1>1. call' \in [Calls -> CallStates]
      /\ \A c \in Calls : /\ call'[c].at = call[c].at /\ call'[c].version = call[c].version
                          /\ call'[c].key = call[c].key /\ call'[c].found = call[c].found
                          /\ call'[c].all = call[c].all /\ call'[c].request = call[c].request
  <2>1. call \in [Calls -> CallStates]
    BY DEF ServerInv, ServerTypeOK
  <2>2. CASE Shutdown
    <3>1. call' = [c \in Calls |-> IF c = current THEN [call[c] EXCEPT !.cancelled = TRUE]
                                   ELSE call[c]]
      BY <2>2 DEF Shutdown
    <3>2. ASSUME NEW c \in Calls
          PROVE  /\ call'[c] \in CallStates
                 /\ call'[c].at = call[c].at /\ call'[c].version = call[c].version
                 /\ call'[c].key = call[c].key /\ call'[c].found = call[c].found
                 /\ call'[c].all = call[c].all /\ call'[c].request = call[c].request
      <4>1. call[c] \in CallStates
        BY <2>1
      <4>2. CASE c = current
        BY <3>1, <4>1, <4>2 DEF CallStates
      <4>3. CASE c # current
        BY <3>1, <4>1, <4>3
      <4> QED
        BY <4>2, <4>3
    <3> QED
      BY <3>1, <3>2
  <2>3. CASE ~Shutdown
    BY <2>1, <2>3 DEF AddFolder, ChangeConfiguration, Touch,
         PullDiagnostics, server
  <2> QED
    BY <2>2, <2>3
<1>2. /\ UNCHANGED <<latest, entries, edits, docs, version, current, stored, used>>
      /\ disk' \in 0 .. Touches /\ open' \in BOOLEAN /\ closed' \in BOOLEAN /\ due' \in BOOLEAN
      /\ rules' \in Settings /\ pulled' \in {pulled, stored}
  BY DEF AddFolder, ChangeConfiguration, Shutdown, Touch,
       Outside, PullDiagnostics, server, engine, workspace,
       editor, ServerInv, ServerTypeOK, ServerSizes
<1>3. CallsCarry' /\ VersionsPaid' /\ VersionsSeparate'
  BY <1>1, <1>2, CallsRest
<1>4. ServerTypeOK'
  <2>1. pulled' \in [version : 0 .. Edits, found : Seq(Found)]
    <3>1. stored.version \in 0 .. version /\ stored.found \in Seq(Found)
          /\ stored = [version |-> stored.version, found |-> stored.found]
      BY DEF ServerInv, ServerTypeOK
    <3>2. stored.version \in 0 .. Edits
      BY <3>1 DEF ServerInv, ServerTypeOK, ServerSizes
    <3>3. stored \in [version : 0 .. Edits, found : Seq(Found)]
      BY <3>1, <3>2
    <3> QED
      BY <1>2, <3>3 DEF ServerInv, ServerTypeOK
  <2>2. \A d \in Calls : Len(call'[d].all) <= Targets
    BY <1>3 DEF CallsCarry, Carries
  <2>3. stored' \in [version : 0 .. version', found : Seq(Found)]
    BY <1>2 DEF ServerInv, ServerTypeOK
  <2> QED
    BY <1>1, <1>2, <2>1, <2>2, <2>3 DEF ServerInv, ServerTypeOK
<1> QED
  BY <1>3, <1>4 DEF ServerInv

LEMMA ServerStarts ==
  ASSUME ServerSizes, ServerInit
  PROVE  ServerInv
<1>1. \A c \in Calls : call[c] = Idle
  BY DEF ServerInit
<1>2. CallsCarry /\ \A c \in Calls : ~Running(c)
  BY <1>1, IdleCarries DEF CallsCarry, Running
<1>3. Spawned = {}
  BY <1>1, IdleCarries DEF Spawned
<1>4. VersionsPaid
  BY <1>3, FS_EmptySet DEF VersionsPaid, ServerInit
<1>5. VersionsSeparate
  BY <1>2 DEF VersionsSeparate
<1>6. ServerTypeOK
  <2>1. call \in [Calls -> CallStates] /\ \A c \in Calls : Len(call[c].all) <= Targets
    BY <1>1, IdleCarries DEF ServerInit, Carries
  <2>2. disk \in 0 .. Touches /\ latest \in 0 .. Edits /\ entries = <<>>
        /\ entries \in Seq([key : CacheKeys, found : Found])
    BY DEF ServerInit, EngineInit, ServerSizes
  <2>3. /\ Len(entries) <= MaxSnapshots
        /\ \A i, j \in DOMAIN entries : entries[i].key = entries[j].key => i = j
    BY <2>2 DEF ServerSizes
  <2>4. stored \in [version : 0 .. version, found : Seq(Found)]
        /\ pulled \in [version : 0 .. Edits, found : Seq(Found)]
    BY DEF ServerInit, Nothing, ServerSizes
  <2>5. /\ edits \in 0 .. Edits /\ docs \in 0 .. edits /\ rules \in Settings
        /\ open \in BOOLEAN /\ version \in 0 .. edits /\ current \in Calls \cup {None}
        /\ closed \in BOOLEAN /\ due \in BOOLEAN /\ used \in 0 .. edits
             /\ others \in 0 .. Others
    <3>1. /\ edits = 0 /\ docs = 0 /\ version = 0 /\ used = 0 /\ others = 0
          /\ rules = Default /\ open = TRUE /\ current = None /\ closed = FALSE
               /\ due = FALSE
      BY DEF ServerInit
    <3>2. Edits \in Nat /\ Others \in Nat /\ Default \in Settings
      BY DEF ServerSizes
    <3>3. open \in BOOLEAN /\ closed \in BOOLEAN /\ due \in BOOLEAN
      BY <3>1, Zenon
    <3>4. /\ edits \in 0 .. Edits /\ docs \in 0 .. edits /\ version \in 0 .. edits
          /\ used \in 0 .. edits /\ others \in 0 .. Others
      BY <3>1, <3>2
    <3>5. rules \in Settings /\ current \in Calls \cup {None}
      BY <3>1, <3>2
    <3> QED
      BY <3>3, <3>4, <3>5
  <2> QED
    BY <2>1, <2>2, <2>3, <2>4, <2>5 DEF ServerTypeOK
<1> QED
  BY <1>2, <1>4, <1>5, <1>6 DEF ServerInv

LEMMA ServerInductive ==
  ASSUME ServerSizes, ServerInv, [ServerNext]_server
  PROVE  ServerInv'
<1>1. others \in 0 .. Others /\ Others \in Nat
  BY DEF ServerInv, ServerTypeOK, ServerSizes
<1>2. CASE ChangeDocument /\ UNCHANGED others
  BY <1>2, ChangeDocumentKeeps
<1>3. CASE AddFolder /\ UNCHANGED others
  BY <1>1, <1>3, OtherKeeps
<1>4. CASE Other /\ others < Others /\ others' = others + 1
  BY <1>1, <1>4, OtherKeeps, RemoveFolderKeeps DEF Other
<1>5. ASSUME NEW c \in Calls, Work(c) PROVE ServerInv'
  BY <1>5, EngineKeeps, BeginKeeps, AbandonKeeps, CollectKeeps, PublishKeeps DEF Work
<1>6. CASE PullDiagnostics \/ UNCHANGED server
  <2>1. others' = others
    BY <1>6 DEF PullDiagnostics, server
  <2> QED
    BY <1>1, <1>6, <2>1, OtherKeeps
<1> QED
  BY <1>2, <1>3, <1>4, <1>5, <1>6 DEF ServerNext

(* What is known of documents, versions, running analyses and the cache is *)
(* what the server and the engine can represent.                           *)
THEOREM ServerTypeCorrect == ASSUME ServerSizes PROVE ServerSpec => []ServerTypeOK
<1>1. ServerInit => ServerInv
  BY ServerStarts
<1>2. ServerInv /\ [ServerNext]_server => ServerInv'
  BY ServerInductive
<1>3. ServerInv => ServerTypeOK
  BY DEF ServerInv
<1> QED
  BY <1>1, <1>2, <1>3, PTL DEF ServerSpec

(* Diagnostics that are stored are replaced only by those of a later       *)
(* analysis, in a folder with versions that were not used before it was    *)
(* removed (incremental.go:72).                                            *)
THEOREM DiagnosticsGoForward == ASSUME ServerSizes PROVE ServerSpec => NeverOlder
<1>1. ServerInit => ServerInv
  BY ServerStarts
<1>2. ServerInv /\ [ServerNext]_server => ServerInv'
  BY ServerInductive
<1>3. ServerInv /\ [ServerNext]_server =>
        [open /\ open' /\ stored' # stored /\ version > used
          => stored'.version > stored.version]_server
  <2> SUFFICES ASSUME ServerInv, [ServerNext]_server, open', stored' # stored,
                      version > used
               PROVE  stored'.version > stored.version
    OBVIOUS
  <2>1. PICK c \in Calls : Publish(c) /\ Accepted(c)
    BY DEF ServerNext, ChangeDocument, AddFolder, Other,
         ChangeConfiguration, RemoveFolder, Shutdown, Work,
         Outside, Begin, Abandon, Collect, GiveUp,
         Publish, Refresh, PullDiagnostics, workspace, server
  <2>2. /\ call[c].at = "publish" /\ call[c].version = version
        /\ stored'.version = call[c].version
    BY <2>1 DEF Publish, Accepted
  <2>3. stored.version \in 0 .. version /\ version \in Nat /\ used \in Nat
    BY DEF ServerInv, ServerTypeOK
  <2>4. stored.version # version
    <3> SUFFICES ASSUME stored.version = version PROVE FALSE
      OBVIOUS
    <3>1. Running(c) /\ call[c].at # "refresh" /\ call[c].version = stored.version
      BY <2>2 DEF Running
    <3>2. call[c].version <= used
      BY <3>1 DEF ServerInv, VersionsSeparate
    <3> QED
      BY <2>2, <2>3, <3>2
  <2> QED
    BY <2>2, <2>3, <2>4
<1> QED
  BY <1>1, <1>2, <1>3, PTL DEF ServerSpec, NeverOlder

-----------------------------------------------------------------------------
(* The cache.  Here the files do not change between the computation of a   *)
(* key and the reading of the files.                                       *)

(* A call that will store has read what its key says. *)
Reads(r, files) ==
  /\ r.at = "load" => r.key = <<r.request, files>>
  /\ r.at \in {"analyze", "store"} => r.found = Findings(r.key[1], r.key[2])

ReadsAsKeyed == \A c \in Calls : Reads(call[c], disk)

CacheInv == ReadsAsKeyed /\ Cached(entries)

LEMMA CacheStarts ==
  ASSUME ServerSizes, ServerInit
  PROVE  CacheInv
<1>1. \A c \in Calls : call[c].at = "idle"
  BY IdleCarries DEF ServerInit
<1>2. entries = <<>>
  BY DEF ServerInit, EngineInit
<1> QED
  BY <1>1, <1>2 DEF CacheInv, ReadsAsKeyed, Reads, Cached

LEMMA OneReads ==
  ASSUME ServerInv, CacheInv, NEW c \in Calls, NEW r, call' = [call EXCEPT ![c] = r],
         disk' = disk, Reads(r, disk)
  PROVE  ReadsAsKeyed'
<1>1. \A d \in Calls : call'[d] = IF d = c THEN r ELSE call[d]
  BY DEF ServerInv, ServerTypeOK
<1> QED
  BY <1>1 DEF CacheInv, ReadsAsKeyed

(* Each step of the engine. *)
LEMMA EngineReads ==
  ASSUME ServerSizes, ServerInv, CacheInv, NEW c \in Calls, EngineStep(c)
  PROVE  CacheInv'
<1>1. call \in [Calls -> CallStates] /\ call[c] \in CallStates
  BY DEF ServerInv, ServerTypeOK
<1>2. entries \in Seq(Entries) /\ KeysDiffer(entries) /\ Len(entries) <= MaxSnapshots
      /\ MaxSnapshots \in Nat
  BY DEF ServerInv, ServerTypeOK, Entries, KeysDiffer, ServerSizes
<1>3. Cached(entries) /\ Reads(call[c], disk)
  BY DEF CacheInv, ReadsAsKeyed
<1>4. CASE Fingerprint(c)
  <2>1. call[c].at = "fingerprint" /\ disk' = disk
    BY <1>4 DEF Fingerprint
  <2>2. CASE /\ call' = [call EXCEPT ![c].at = "load", ![c].key = Key(call[c].request)]
             /\ UNCHANGED entries
    <3> DEFINE r == [call[c] EXCEPT !.at = "load", !.key = Key(call[c].request)]
    <3>1. call' = [call EXCEPT ![c] = r]
      BY <1>1, <2>2
    <3>2. Reads(r, disk)
      BY <1>1 DEF Reads, Key, CallStates
    <3>3. ReadsAsKeyed'
      BY <2>1, <3>1, <3>2, OneReads
    <3> QED
      BY <1>3, <2>2, <3>3 DEF CacheInv
  <2>3. ASSUME NEW i \in EntryOf(Key(call[c].request)),
               call' = [call EXCEPT ![c].at = "hit", ![c].found = entries[i].found],
               entries' = Append(RemoveAt(entries, i), entries[i])
        PROVE  CacheInv'
    <3> DEFINE r == [call[c] EXCEPT !.at = "hit", !.found = entries[i].found]
    <3>1. i \in DOMAIN entries /\ entries[i] \in Entries
      BY <1>2 DEF EntryOf
    <3>2. call' = [call EXCEPT ![c] = r] /\ Reads(r, disk)
      BY <1>1, <2>3 DEF Reads, CallStates
    <3>3. entries[i].found = Findings(entries[i].key[1], entries[i].key[2])
      BY <1>3, <3>1 DEF Cached
    <3>4. /\ RemoveAt(entries, i) \in Seq(Entries)
               /\ KeysDiffer(RemoveAt(entries, i))
          /\ \A j \in DOMAIN RemoveAt(entries, i) :
                RemoveAt(entries, i)[j].key # entries[i].key
          /\ Cached(RemoveAt(entries, i))
      BY <1>2, <1>3, <3>1, EntryRemoved
    <3>5. Cached(entries')
      BY <2>3, <3>1, <3>3, <3>4, EntryAppended
    <3>6. ReadsAsKeyed'
      BY <2>1, <3>2, OneReads
    <3> QED
      BY <3>5, <3>6 DEF CacheInv, Cached
  <2> QED
    BY <1>4, <2>2, <2>3 DEF Fingerprint
<1>5. CASE Load(c)
  <2> DEFINE r == [call[c] EXCEPT !.at = "analyze",
               !.found = Findings(call[c].request, disk)]
  <2>1. call' = [call EXCEPT ![c] = r] /\ disk' = disk /\ entries' = entries
        /\ call[c].at = "load"
    BY <1>1, <1>5 DEF Load, engine
  <2>2. call[c].key = <<call[c].request, disk>>
    BY <1>3, <2>1 DEF Reads
  <2>3. Reads(r, disk)
    BY <1>1, <2>2 DEF Reads, CallStates
  <2>4. ReadsAsKeyed'
    BY <2>1, <2>3, OneReads
  <2> QED
    BY <1>3, <2>1, <2>4 DEF CacheInv
<1>6. CASE Enter(c) \/ Analyze(c) \/ Reuse(c) \/ Fail(c)
  <2>1. PICK place \in {"dropped", "fingerprint", "store", "found"} :
          /\ call' = [call EXCEPT ![c].at = place] /\ disk' = disk /\ entries' = entries
          /\ place = "store" => call[c].at = "analyze"
    BY <1>6 DEF Enter, Analyze, Reuse, Fail, Goes,
         engine
  <2> DEFINE r == [call[c] EXCEPT !.at = place]
  <2>2. call' = [call EXCEPT ![c] = r]
    BY <1>1, <2>1
  <2>3. Reads(r, disk)
    BY <1>1, <1>3, <2>1 DEF Reads, CallStates
  <2>4. ReadsAsKeyed'
    BY <2>1, <2>2, <2>3, OneReads
  <2> QED
    BY <1>3, <2>1, <2>4 DEF CacheInv
<1>7. CASE Store(c)
  <2> DEFINE r == [call[c] EXCEPT !.at = "found", !.key = <<>>]
             e == [key |-> call[c].key, found |-> call[c].found]
  <2>1. call' = [call EXCEPT ![c] = r] /\ disk' = disk /\ call[c].at = "store"
    BY <1>1, <1>7 DEF Store
  <2>2. Reads(r, disk)
    BY <1>1 DEF Reads, CallStates
  <2>3. e \in Entries /\ e.found = Findings(e.key[1], e.key[2])
    BY <1>1, <1>3, <2>1 DEF Reads, CallStates, Entries, ServerInv, CallsCarry, Carries
  <2>4. ReadsAsKeyed'
    BY <2>1, <2>2, OneReads
  <2> HIDE DEF r, e
  <2>5. CASE EntryOf(e.key) = {} /\ entries' = Retained(Append(entries, e))
    <3>1. \A i \in DOMAIN entries : entries[i].key # e.key
      BY <2>5 DEF EntryOf
    <3>2. /\ Append(entries, e) \in Seq(Entries) /\ KeysDiffer(Append(entries, e))
          /\ Len(Append(entries, e)) <= MaxSnapshots + 1 /\ Cached(Append(entries, e))
      BY <1>2, <1>3, <2>3, <3>1, EntryAppended
    <3>3. Cached(entries')
      BY <1>2, <2>5, <3>2, EntriesRetained
    <3> QED
      BY <2>4, <3>3 DEF CacheInv, Cached
  <2>6. ASSUME NEW i \in EntryOf(e.key),
               entries' = Retained(Append(RemoveAt(entries, i), e))
        PROVE  CacheInv'
    <3> DEFINE rest == RemoveAt(entries, i)
    <3>1. i \in DOMAIN entries /\ entries[i].key = e.key
      BY DEF EntryOf
    <3>2. /\ rest \in Seq(Entries) /\ KeysDiffer(rest) /\ Len(rest) = Len(entries) - 1
          /\ \A j \in DOMAIN rest : rest[j].key # e.key
          /\ Cached(rest)
      BY <1>2, <1>3, <3>1, EntryRemoved
    <3>3. entries' = Retained(Append(rest, e))
      BY <2>6
    <3> HIDE DEF rest
    <3>4. /\ Append(rest, e) \in Seq(Entries) /\ KeysDiffer(Append(rest, e))
          /\ Len(Append(rest, e)) <= MaxSnapshots + 1 /\ Cached(Append(rest, e))
      BY <1>2, <2>3, <3>2, EntryAppended
    <3>5. Cached(entries')
      BY <1>2, <3>3, <3>4, EntriesRetained
    <3> QED
      BY <2>4, <3>5 DEF CacheInv, Cached
  <2>7. \/ EntryOf(e.key) = {} /\ entries' = Retained(Append(entries, e))
        \/ \E i \in EntryOf(e.key) :
             entries' = Retained(Append(RemoveAt(entries, i), e))
    BY <1>7 DEF Store, e
  <2> QED
    BY <2>5, <2>6, <2>7
<1> QED
  BY <1>4, <1>5, <1>6, <1>7 DEF EngineStep

(* Every other step reads nothing and leaves the cache alone. *)
LEMMA RestReads ==
  ASSUME ServerSizes, ServerInv, CacheInv, entries' = entries,
         \A c \in Calls : \/ call'[c].at \notin {"load", "analyze", "store"}
                          \/ /\ call'[c].at = call[c].at /\ call'[c].key = call[c].key
                             /\ call'[c].request = call[c].request
                             /\ call'[c].found = call[c].found,
         disk' = disk \/ \A c \in Calls : call'[c].at # "load"
  PROVE  CacheInv'
<1>1. ASSUME NEW c \in Calls PROVE Reads(call'[c], disk')
  BY DEF CacheInv, ReadsAsKeyed, Reads
<1>2. ReadsAsKeyed'
  BY <1>1 DEF ReadsAsKeyed
<1> QED
  BY <1>2 DEF CacheInv, Cached

LEMMA CacheInductive ==
  ASSUME ServerSizes, TouchedMidway = FALSE, ServerInv, CacheInv,
         [ServerNext]_server
  PROVE  CacheInv'
<1>0. call \in [Calls -> CallStates]
  BY DEF ServerInv, ServerTypeOK
<1>1. CASE ChangeDocument
  BY <1>0, <1>1, RestReads DEF ChangeDocument, engine, CallStates
<1>2. CASE AddFolder \/ ChangeConfiguration \/ RemoveFolder
             \/ PullDiagnostics \/ UNCHANGED server
  <2>1. UNCHANGED <<disk, entries, call>>
    BY <1>2 DEF AddFolder, ChangeConfiguration, RemoveFolder,
         PullDiagnostics, server, engine
  <2> QED
    BY <2>1, RestReads
<1>3. CASE Shutdown
  BY <1>0, <1>3, RestReads DEF Shutdown, engine, CallStates
<1>4. CASE Touch
  BY <1>4, RestReads DEF Touch, engine
<1>5. ASSUME NEW c \in Calls, Work(c) PROVE CacheInv'
  <2>1. CASE EngineStep(c)
    BY <2>1, EngineReads
  <2>2. CASE Begin(c)
    <3>1. ASSUME NEW d \in Calls
          PROVE  \/ call'[d].at = "enter"
                 \/ /\ call'[d].at = call[d].at /\ call'[d].key = call[d].key
                    /\ call'[d].request = call[d].request /\ call'[d].found = call[d].found
      BY <1>0, <2>2 DEF Begin, CallStates
    <3> QED
      BY <2>2, <3>1, RestReads DEF Begin, engine
  <2>3. CASE Abandon(c) \/ GiveUp(c) \/ Refresh(c) \/ Publish(c)
               \/ Collect(c)
    <3>1. PICK r : call' = [call EXCEPT ![c] = r] /\ r.at \notin {"load", "analyze", "store"}
      BY <1>0, <2>3, IdleCarries DEF Abandon, GiveUp, Refresh,
           Publish, Collect, Goes, CallStates
    <3>2. UNCHANGED <<disk, entries>>
      BY <2>3 DEF Abandon, GiveUp, Refresh, Publish, Collect,
           engine
    <3> QED
      BY <1>0, <3>1, <3>2, RestReads
  <2> QED
    BY <1>5, <2>1, <2>2, <2>3 DEF Work
<1> QED
  BY <1>1, <1>2, <1>3, <1>4, <1>5 DEF ServerNext, Other

(* What is cached under a key is what an analysis of exactly those files   *)
(* and that request finds (incremental.go:92), as long as no other program *)
(* changes files between the computation of a key and the analysis.        *)
THEOREM CacheStaysFaithful ==
  ASSUME ServerSizes, TouchedMidway = FALSE
  PROVE  ServerSpec => []CacheFaithful
<1>1. ServerInit => ServerInv /\ CacheInv
  BY ServerStarts, CacheStarts
<1>2. ServerInv /\ CacheInv /\ [ServerNext]_server => ServerInv' /\ CacheInv'
  BY ServerInductive, CacheInductive
<1>3. CacheInv => CacheFaithful
  BY DEF CacheInv, Cached, CacheFaithful
<1> QED
  BY <1>1, <1>2, <1>3, PTL DEF ServerSpec

-----------------------------------------------------------------------------
(* Builders at one output path. *)

Early == {"plan", "find", "workspace"}
Working == {"prepare", "write", "resolve", "compile", "link", "inspect", "resources",
            "package", "verify", "stage"}
Making == Early \cup Working \cup {"copy", "look", "aside"}
Deploying == {"install", "launch", "wait", "start"}
Unsuccessful == {"restore", "unstage", "cleanup", "failed", "dead"}

(* What a builder has in its workspace and beside the output, by its step. *)
Keeps(p) ==
  /\ step[p] \in Early \cup {"start", "done", "failed"} => p \notin work
  /\ step[p] \in {"look", "aside", "commit"} => stage[p] = p
  /\ stage[p] # Absent =>
       step[p] \in {"copy", "look", "aside", "commit", "restore", "unstage", "dead"}
  /\ step[p] \in Making => backup[p] = Absent
  /\ step[p] = "commit" => backup[p] \in Products \cup {Absent}
  /\ step[p] \in {"restore", "drop"} => backup[p] \in Products
  /\ backup[p] # Absent =>
       /\ step[p] \in {"commit", "restore", "drop", "dead"} \/ failure[p] \in {"restore", "drop"}
       /\ config[p].replace
  /\ step[p] = "aside" => config[p].replace

(* What it has published, by its step and by what failed. *)
Published(p) ==
  /\ failure[p] # "none" => step[p] \in Unsuccessful
  /\ step[p] = "failed" => failure[p] # "none"
  /\ step[p] = "restore" => failure[p] = "commit"
  /\ step[p] \in Making \cup {"commit"} => p \notin published
  /\ p \in published => failure[p] \in {"none", "drop", "install", "launch", "start"}
  /\ step[p] = "drop" \/ (step[p] = "unstage" /\ failure[p] = "none") => p \in published
  /\ /\ config[p].output
     /\ \/ step[p] \in Deploying \cup {"done"}
        \/ step[p] = "cleanup" /\ failure[p] = "none"
        \/ failure[p] \in {"install", "launch", "start"}
     => p \in published

(* A file at the output path stays there, and nobody replaces it. *)
FileStays ==
  /\ target = File <=> original = File
  /\ original = File =>
       /\ published = {}
       /\ \A p \in Builders : step[p] \notin {"aside", "commit", "restore", "drop"}

BuildInv ==
  /\ BuildTypeOK
  /\ \A p \in Builders : Keeps(p) /\ Published(p)
  /\ FileStays
  /\ PackageIsWhole

-----------------------------------------------------------------------------
LEMMA BuildStarts == PathsDiffer /\ BuildInit => BuildInv
<1> SUFFICES ASSUME PathsDiffer, BuildInit PROVE BuildInv
  OBVIOUS
<1>1. BuildTypeOK
  BY DEF PathsDiffer, BuildInit, BuildTypeOK, BuildPlaces, Products
<1>2. \A p \in Builders : Keeps(p) /\ Published(p)
  BY DEF BuildInit, Keeps, Published, Early, Working, Making, Deploying
<1>3. FileStays
  BY DEF BuildInit, FileStays
<1>4. PackageIsWhole
  BY DEF PathsDiffer, BuildInit, PackageIsWhole, Products
<1> QED
  BY <1>1, <1>2, <1>3, <1>4 DEF BuildInv

(* A step of one builder is nothing to the others. *)
LEMMA OthersKeep ==
  ASSUME BuildTypeOK, NEW p \in Builders, NEW q \in Builders, q # p, Keeps(q), Published(q),
         UNCHANGED config, work' \ {p} = work \ {p}, published' \ {p} = published \ {p},
         step'[q] = step[q], failure'[q] = failure[q],
         stage'[q] = stage[q], backup'[q] = backup[q]
  PROVE  Keeps(q)' /\ Published(q)'
<1>1. (q \in work' <=> q \in work) /\ (q \in published' <=> q \in published)
  OBVIOUS
<1>2. Keeps(q)'
  BY <1>1 DEF Keeps
<1>3. Published(q)'
  BY <1>1 DEF Published
<1> QED
  BY <1>2, <1>3

(* The steps that a builder may take from one to another without touching  *)
(* any path.                                                               *)
Onward(p, from, to) ==
  \/ from = "plan" /\ to \in {"find", "workspace"}
  \/ from = "find" /\ to = "workspace"
  \/ from \in Working /\ to \in Working
  \/ from = "verify" /\ to \in {"install", "cleanup"} /\ ~config[p].output
  \/ from \in {"install", "launch", "wait"} /\ to \in {"launch", "wait", "cleanup"}
  \/ from = "start" /\ to = "done"

Breaks(p, where) ==
  /\ Fails(p, where)
  /\ \/ step[p] \in Making /\ where \in Making \cup {"conflict"}
     \/ step[p] \in Deploying /\ where \in {"install", "launch", "start"}

(* Such a step, and every failure but that of a rename or of a removal.    *)
LEMMA QuietStep ==
  ASSUME PathsDiffer, BuildInv, NEW p \in Builders,
         UNCHANGED <<config, work, paths, original>>,
         attempt' \in [Builders -> 1 .. Attempts], interrupted' \in SUBSET Builders,
         faults' \in 0 .. Faults,
         \/ \E to \in BuildPlaces \cup Rest :
              Onward(p, step[p], to) /\ Proceeds(p, to) /\ UNCHANGED failure
         \/ \E where \in BuildPlaces \cup {"conflict"} : Breaks(p, where)
  PROVE  BuildInv'
<1> USE DEF BuildInv
<1>1. step \in [Builders -> BuildPlaces \cup Rest]
      /\ failure \in [Builders -> BuildPlaces \cup {"none", "conflict"}]
      /\ Keeps(p) /\ Published(p)
  BY DEF BuildTypeOK
<1>2. UNCHANGED <<target, stage, backup, published>>
  BY DEF paths
<1>3. CASE \E to \in BuildPlaces \cup Rest :
             Onward(p, step[p], to) /\ Proceeds(p, to) /\ UNCHANGED failure
  <2>1. PICK to \in BuildPlaces \cup Rest :
          Onward(p, step[p], to) /\ step' = [step EXCEPT ![p] = to] /\ UNCHANGED failure
    BY <1>3 DEF Proceeds
  <2>2. step'[p] = to /\ \A q \in Builders \ {p} : step'[q] = step[q]
    BY <1>1, <2>1
  <2>3. BuildTypeOK'
    BY <1>1, <1>2, <2>1 DEF BuildTypeOK
  <2>4. Keeps(p)'
    BY <1>1, <1>2, <2>1, <2>2
    DEF Keeps, Onward, Early, Working, Making
  <2>5. Published(p)'
    BY <1>1, <1>2, <2>1, <2>2
    DEF Published, Onward, Early, Working, Making, Deploying, Unsuccessful
  <2>6. \A q \in Builders : Keeps(q)' /\ Published(q)'
    BY <1>2, <2>1, <2>2, <2>4, <2>5, OthersKeep
  <2>7. FileStays'
    BY <1>2, <2>1, <2>2 DEF FileStays, Onward, Working
  <2>8. \A q \in Builders : Holding(q) => Holding(q)'
    BY <1>2, <2>1, <2>2 DEF Holding, Onward, Working
  <2> QED
    BY <1>2, <2>3, <2>6, <2>7, <2>8 DEF PackageIsWhole, Products
<1>4. CASE \E where \in BuildPlaces \cup {"conflict"} : Breaks(p, where)
  <2>1. PICK where \in BuildPlaces \cup {"conflict"} : Breaks(p, where)
    BY <1>4
  <2>2. /\ step' = [step EXCEPT ![p] = Deferred(p)]
        /\ failure' = [failure EXCEPT ![p] = where]
        /\ Deferred(p) \in {"unstage", "cleanup", "failed"}
    BY <2>1 DEF Breaks, Fails, Proceeds, Deferred
  <2>3. /\ step'[p] = Deferred(p) /\ failure'[p] = where
        /\ \A q \in Builders \ {p} : step'[q] = step[q] /\ failure'[q] = failure[q]
    BY <1>1, <2>2
  <2>4. BuildTypeOK'
    BY <1>1, <1>2, <2>2 DEF BuildTypeOK, BuildPlaces, Rest
  <2>5. Keeps(p)'
    BY <1>1, <1>2, <2>1, <2>2, <2>3
    DEF Keeps, Published, Breaks, Deferred, Early, Working, Making, Deploying, Unsuccessful
  <2>6. Published(p)'
    BY <1>1, <1>2, <2>1, <2>2, <2>3
    DEF Published, Breaks, Early, Working, Making, Deploying, Unsuccessful
  <2>7. \A q \in Builders : Keeps(q)' /\ Published(q)'
    BY <1>2, <2>3, <2>5, <2>6, OthersKeep
  <2>8. FileStays'
    BY <1>2, <2>2, <2>3 DEF FileStays
  <2>9. \A q \in Builders : Holding(q) => Holding(q)'
    BY <1>1, <1>2, <2>1, <2>3
    DEF Holding, Breaks, Published, Early, Working, Making, Deploying, Unsuccessful
  <2> QED
    BY <1>2, <2>4, <2>7, <2>8, <2>9 DEF PackageIsWhole, Products
<1> QED
  BY <1>3, <1>4

(* The steps that make the package, install it and launch it. *)
LEMMA QuietKept ==
  ASSUME PathsDiffer, BuildInv, NEW p \in Builders,
         \/ PlanSimulator(p) \/ PlanDevice(p) \/ FindOutput(p)
         \/ PrepareSimulator(p) \/ CompileSimulator(p) \/ PackageSimulator(p)
         \/ WriteSources(p) \/ ResolveModules(p) \/ CompileDevice(p) \/ LinkDevice(p)
         \/ InspectImage(p) \/ StageResources(p) \/ PackageDevice(p) \/ VerifyPackage(p)
         \/ Deploy(p) \/ StartSimulator(p)
  PROVE  BuildInv'
<1>1. BuildTypeOK
  BY DEF BuildInv
<1>2. Faults \in Nat /\ Attempts \in Nat \ {0}
  BY DEF PathsDiffer
<1>3. ASSUME NEW from \in Making \cup Deploying, NEW to \in BuildPlaces \cup Rest,
             Command(p, from, to) \/ Do(p, from, to),
             Onward(p, from, to),
             from \in Deploying => from \in {"install", "launch", "start"}
      PROVE  BuildInv'
  <2>1. /\ UNCHANGED <<config, work, paths, original, attempt, interrupted>>
        /\ faults' = faults \/ (faults < Faults /\ faults' = faults + 1)
        /\ step[p] = from
    BY <1>3 DEF Command, Do, Fault
  <2>2. attempt' \in [Builders -> 1 .. Attempts] /\ interrupted' \in SUBSET Builders
        /\ faults' \in 0 .. Faults
    BY <1>1, <1>2, <2>1 DEF BuildTypeOK
  <2>3. \/ Proceeds(p, to) /\ UNCHANGED failure
        \/ Fails(p, from)
    BY <1>3, <2>1 DEF Command, Do, Fault
  <2>4. Fails(p, from) => Breaks(p, from) /\ from \in BuildPlaces \cup {"conflict"}
    BY <1>3, <2>1 DEF Breaks, Making, Early, Working, Deploying, BuildPlaces
  <2> QED
    BY <1>3, <2>1, <2>2, <2>3, <2>4, QuietStep
<1> USE DEF Onward, Making, Early, Working, Deploying, BuildPlaces, Rest
<1>4. CASE PlanSimulator(p)
  BY <1>3, <1>4 DEF PlanSimulator
<1>5. CASE PlanDevice(p)
  BY <1>3, <1>5 DEF PlanDevice
<1>6. CASE PrepareSimulator(p)
  BY <1>3, <1>6 DEF PrepareSimulator
<1>7. CASE CompileSimulator(p)
  BY <1>3, <1>7 DEF CompileSimulator
<1>8. CASE PackageSimulator(p)
  BY <1>3, <1>8 DEF PackageSimulator
<1>9. CASE WriteSources(p)
  BY <1>3, <1>9 DEF WriteSources
<1>10. CASE ResolveModules(p)
  BY <1>3, <1>10 DEF ResolveModules
<1>11. CASE CompileDevice(p)
  BY <1>3, <1>11 DEF CompileDevice
<1>12. CASE LinkDevice(p)
  BY <1>3, <1>12 DEF LinkDevice
<1>13. CASE InspectImage(p)
  BY <1>3, <1>13 DEF InspectImage
<1>14. CASE StageResources(p)
  BY <1>3, <1>14 DEF StageResources
<1>15. CASE PackageDevice(p)
  BY <1>3, <1>15 DEF PackageDevice
<1>16. CASE VerifyPackage(p)
  BY <1>3, <1>16 DEF VerifyPackage, Publishing
<1>17. CASE Install(p)
  BY <1>3, <1>17 DEF Install
<1>18. CASE LaunchGame(p)
  BY <1>3, <1>18 DEF LaunchGame
<1>19. CASE FindOutput(p)
  <2>1. /\ UNCHANGED <<config, work, paths, original, attempt, interrupted>>
        /\ faults' = faults \/ (faults < Faults /\ faults' = faults + 1)
        /\ step[p] = "find"
    BY <1>19 DEF FindOutput, Fault
  <2>2. attempt' \in [Builders -> 1 .. Attempts] /\ interrupted' \in SUBSET Builders
        /\ faults' \in 0 .. Faults
    BY <1>1, <1>2, <2>1 DEF BuildTypeOK
  <2>3. \/ Proceeds(p, "workspace") /\ UNCHANGED failure
        \/ Fails(p, "find")
        \/ Fails(p, "conflict")
    BY <1>19, <2>1 DEF FindOutput, Fault
  <2> QED
    BY <2>1, <2>2, <2>3, QuietStep DEF Breaks
<1>20. CASE LaunchAgain(p)
  <2>1. /\ UNCHANGED <<config, work, paths, original, interrupted, faults>>
        /\ step[p] = "launch"
        /\ attempt' = attempt \/ (attempt[p] # Attempts /\ attempt' = [attempt EXCEPT ![p] = @ + 1])
    BY <1>20 DEF LaunchAgain
  <2>2. attempt' \in [Builders -> 1 .. Attempts] /\ interrupted' \in SUBSET Builders
        /\ faults' \in 0 .. Faults
    BY <1>1, <1>2, <2>1 DEF BuildTypeOK
  <2>3. \/ Proceeds(p, "wait") /\ UNCHANGED failure
        \/ Fails(p, "launch")
    BY <1>20 DEF LaunchAgain
  <2> QED
    BY <2>1, <2>2, <2>3, QuietStep DEF Breaks
<1>21. CASE Wait(p)
  <2>1. /\ UNCHANGED <<config, work, paths, original, attempt, interrupted, faults>>
        /\ step[p] = "wait"
    BY <1>21 DEF Wait
  <2>2. attempt' \in [Builders -> 1 .. Attempts] /\ interrupted' \in SUBSET Builders
        /\ faults' \in 0 .. Faults
    BY <1>1, <2>1 DEF BuildTypeOK
  <2>3. \/ Proceeds(p, "launch") /\ UNCHANGED failure
        \/ Fails(p, "launch")
    BY <1>21 DEF Wait
  <2> QED
    BY <2>1, <2>2, <2>3, QuietStep DEF Breaks
<1>22. CASE StartSimulator(p)
  <2>1. /\ UNCHANGED <<config, work, paths, original, attempt, interrupted>>
        /\ faults' = faults \/ (faults < Faults /\ faults' = faults + 1)
        /\ step[p] = "start"
    BY <1>22 DEF StartSimulator, Fault
  <2>2. attempt' \in [Builders -> 1 .. Attempts] /\ interrupted' \in SUBSET Builders
        /\ faults' \in 0 .. Faults
    BY <1>1, <1>2, <2>1 DEF BuildTypeOK
  <2>3. \/ Proceeds(p, "done") /\ UNCHANGED failure
        \/ Fails(p, "start")
    BY <1>22, <2>1 DEF StartSimulator, Fault
  <2> QED
    BY <2>1, <2>2, <2>3, QuietStep DEF Breaks
<1> QED
  BY <1>4, <1>5, <1>6, <1>7, <1>8, <1>9, <1>10, <1>11, <1>12, <1>13, <1>14, <1>15, <1>16, <1>17, <1>18, <1>19, <1>20, <1>21, <1>22 DEF Deploy

(* Only what is this builder's changes, besides the output path. *)
Alone(p) ==
  /\ UNCHANGED <<config, original>>
  /\ work' \ {p} = work \ {p} /\ published' \ {p} = published \ {p}
  /\ \A q \in Builders \ {p} :
       /\ step'[q] = step[q] /\ failure'[q] = failure[q]
       /\ stage'[q] = stage[q] /\ backup'[q] = backup[q]

(* A builder leaves the output path alone, puts a package there, or takes  *)
(* one away that it then holds.                                            *)
LEMMA OneBuilder ==
  ASSUME PathsDiffer, BuildInv, NEW p \in Builders, Alone(p),
         BuildTypeOK', Keeps(p)', Published(p)',
         \/ /\ UNCHANGED target /\ (p \in published' => p \in published)
            /\ Holding(p) => Holding(p)'
            /\ original = File => step'[p] \notin {"aside", "commit", "restore", "drop"}
         \/ target' \in Products /\ original # File
         \/ target \in Products /\ target' = Absent /\ Holding(p)' /\ original # File
  PROVE  BuildInv'
<1>1. \A q \in Builders : Keeps(q)' /\ Published(q)'
  BY OthersKeep DEF BuildInv, Alone
<1>2. \A q \in Builders \ {p} : Holding(q)' <=> Holding(q)
  BY DEF Alone, Holding
<1>3. FileStays'
  BY DEF PathsDiffer, BuildInv, Alone, FileStays, Products
<1>4. PackageIsWhole'
  BY <1>2 DEF PathsDiffer, BuildInv, Alone, PackageIsWhole, Products
<1> QED
  BY <1>1, <1>3, <1>4 DEF BuildInv

(* What the steps that are not quiet have in common. *)
LEMMA BuilderIs ==
  ASSUME BuildInv, NEW p \in Builders
  PROVE  /\ step \in [Builders -> BuildPlaces \cup Rest]
         /\ failure \in [Builders -> BuildPlaces \cup {"none", "conflict"}]
         /\ stage \in [Builders -> Products \cup {Absent, Partial}]
         /\ backup \in [Builders -> Products \cup {Absent, Partial}]
         /\ target \in Products \cup {Absent, File}
         /\ Keeps(p) /\ Published(p) /\ FileStays /\ BuildTypeOK
BY DEF BuildInv, BuildTypeOK

LEMMA FailsQuietly ==
  ASSUME PathsDiffer, BuildInv, NEW p \in Builders,
         UNCHANGED <<config, work, paths, attempt, interrupted, original>>,
         faults' = faults \/ (faults < Faults /\ faults' = faults + 1),
         NEW where \in Making \cup {"conflict"}, step[p] \in Making, Fails(p, where)
  PROVE  BuildInv'
<1>1. /\ attempt' \in [Builders -> 1 .. Attempts] /\ interrupted' \in SUBSET Builders
      /\ faults' \in 0 .. Faults
  BY DEF PathsDiffer, BuildInv, BuildTypeOK
<1>2. Breaks(p, where) /\ where \in BuildPlaces \cup {"conflict"}
  BY DEF Breaks, Making, Early, Working, BuildPlaces
<1> QED
  BY <1>1, <1>2, QuietStep

LEMMA MakeWorkspaceKept ==
  ASSUME PathsDiffer, BuildInv, NEW p \in Builders, MakeWorkspace(p)
  PROVE  BuildInv'
<1>1. CASE Fault(p) /\ UNCHANGED work
  BY <1>1, FailsQuietly DEF MakeWorkspace, Fault, Making, Early
<1>2. CASE /\ Proceeds(p, IF config[p].device THEN "write" ELSE "prepare")
           /\ work' = work \cup {p} /\ UNCHANGED <<failure, faults>>
  <2>1. /\ UNCHANGED <<config, target, stage, backup, published, original, failure>>
        /\ Alone(p)
        /\ step[p] = "workspace" /\ step'[p] \in {"write", "prepare"}
        /\ step' = [step EXCEPT ![p] = step'[p]]
    BY <1>2, BuilderIs DEF MakeWorkspace, Proceeds, paths, Alone
  <2>2. BuildTypeOK'
    BY <1>2, <2>1, BuilderIs DEF MakeWorkspace, BuildTypeOK, BuildPlaces
  <2>3. Keeps(p)' /\ Published(p)'
    BY <2>1, BuilderIs
    DEF Keeps, Published, Early, Working, Making, Deploying, Unsuccessful
  <2>4. Holding(p) => Holding(p)'
    BY <2>1, BuilderIs DEF Holding, Keeps, Published, Making, Early, Unsuccessful
  <2> QED
    BY <2>1, <2>2, <2>3, <2>4, OneBuilder
<1> QED
  BY <1>1, <1>2 DEF MakeWorkspace

LEMMA MakeStageKept ==
  ASSUME PathsDiffer, BuildInv, NEW p \in Builders, MakeStage(p)
  PROVE  BuildInv'
<1>1. CASE Fault(p) /\ UNCHANGED stage
  BY <1>1, FailsQuietly DEF MakeStage, Fault, Making, Working, paths
<1>2. CASE /\ Proceeds(p, "copy") /\ stage' = [stage EXCEPT ![p] = Partial]
           /\ UNCHANGED <<failure, faults>>
  <2>1. /\ UNCHANGED <<config, work, target, backup, published, original, failure>>
        /\ Alone(p)
        /\ step[p] = "stage" /\ step'[p] = "copy"
        /\ step' = [step EXCEPT ![p] = step'[p]]
    BY <1>2, BuilderIs DEF MakeStage, Proceeds, Alone
  <2>2. BuildTypeOK'
    BY <1>2, <2>1, BuilderIs DEF MakeStage, BuildTypeOK, BuildPlaces
  <2>3. Keeps(p)' /\ Published(p)'
    BY <2>1, BuilderIs
    DEF Keeps, Published, Early, Working, Making, Deploying, Unsuccessful
  <2>4. Holding(p) => Holding(p)'
    BY <2>1, BuilderIs DEF Holding, Keeps, Published, Making, Working, Unsuccessful
  <2> QED
    BY <2>1, <2>2, <2>3, <2>4, OneBuilder
<1> QED
  BY <1>1, <1>2 DEF MakeStage

LEMMA CopyPackageKept ==
  ASSUME PathsDiffer, BuildInv, NEW p \in Builders, CopyPackage(p)
  PROVE  BuildInv'
<1>1. CASE UNCHANGED stage /\ (Fault(p) \/ (Fails(p, "copy") /\ UNCHANGED faults))
  <2>1. step[p] = "copy" /\ UNCHANGED <<config, work, paths, attempt, interrupted, original>>
    BY <1>1 DEF CopyPackage, paths
  <2> QED
    BY <1>1, <2>1, FailsQuietly DEF Fault, Making
<1>2. CASE /\ Proceeds(p, "look") /\ stage' = [stage EXCEPT ![p] = p]
           /\ UNCHANGED <<failure, faults>>
  <2>1. /\ UNCHANGED <<config, work, target, backup, published, original, failure>>
        /\ Alone(p)
        /\ step[p] = "copy" /\ step'[p] = "look" /\ stage'[p] = p
        /\ step' = [step EXCEPT ![p] = step'[p]]
    BY <1>2, BuilderIs DEF CopyPackage, Proceeds, Alone
  <2>2. BuildTypeOK'
    BY <1>2, <2>1, BuilderIs DEF CopyPackage, BuildTypeOK, BuildPlaces, Products
  <2>3. Keeps(p)' /\ Published(p)'
    BY <2>1, BuilderIs
    DEF Keeps, Published, Early, Working, Making, Deploying, Unsuccessful
  <2>4. Holding(p) => Holding(p)'
    BY <2>1, BuilderIs DEF Holding, Keeps, Published, Making, Unsuccessful
  <2> QED
    BY <2>1, <2>2, <2>3, <2>4, OneBuilder
<1> QED
  BY <1>1, <1>2 DEF CopyPackage

LEMMA LookAtTargetKept ==
  ASSUME PathsDiffer, BuildInv, NEW p \in Builders, LookAtTarget(p)
  PROVE  BuildInv'
<1>1. CASE Fault(p) \/ (Verdict(p) # "none" /\ Fails(p, Verdict(p)) /\ UNCHANGED faults)
  <2>1. /\ step[p] = "look" /\ UNCHANGED <<config, work, paths, attempt, interrupted, original>>
        /\ Verdict(p) # "none" => Verdict(p) \in {"copy", "conflict", "look"}
    BY DEF LookAtTarget, Verdict
  <2> QED
    BY <1>1, <2>1, FailsQuietly DEF Fault, Making
<1>2. CASE /\ Verdict(p) = "none" /\ UNCHANGED <<failure, faults>>
           /\ Proceeds(p, IF target = Absent THEN "commit" ELSE "aside")
  <2>1. /\ UNCHANGED <<config, work, target, stage, backup, published, original, failure>>
        /\ Alone(p)
        /\ step[p] = "look"
        /\ step'[p] = IF target = Absent THEN "commit" ELSE "aside"
        /\ step' = [step EXCEPT ![p] = step'[p]]
    BY <1>2, BuilderIs DEF LookAtTarget, Proceeds, Alone, paths
  <2>2. BuildTypeOK'
    BY <1>2, <2>1, BuilderIs DEF LookAtTarget, BuildTypeOK, BuildPlaces
  <2>3. target # File /\ (target # Absent => config[p].replace)
    BY <1>2 DEF PathsDiffer, Verdict
  <2>4. Keeps(p)' /\ Published(p)'
    BY <2>1, <2>3, BuilderIs
    DEF Keeps, Published, Early, Working, Making, Deploying, Unsuccessful
  <2>5. Holding(p) => Holding(p)'
    BY <2>1, BuilderIs DEF Holding, Keeps, Published, Making, Unsuccessful
  <2>6. original # File
    BY <2>3, BuilderIs DEF FileStays
  <2> QED
    BY <2>1, <2>2, <2>4, <2>5, <2>6, OneBuilder
<1> QED
  BY <1>1, <1>2 DEF LookAtTarget

LEMMA SetAsideKept ==
  ASSUME PathsDiffer, BuildInv, NEW p \in Builders, SetAside(p)
  PROVE  BuildInv'
<1>1. CASE UNCHANGED <<backup, target>> /\ (Fault(p) \/ (Fails(p, "aside") /\ UNCHANGED faults))
  <2>1. step[p] = "aside" /\ UNCHANGED <<config, work, paths, attempt, interrupted, original>>
    BY <1>1 DEF SetAside, paths
  <2> QED
    BY <1>1, <2>1, FailsQuietly DEF Fault, Making
<1>2. CASE /\ target # Absent /\ backup' = [backup EXCEPT ![p] = target] /\ target' = Absent
           /\ Proceeds(p, "commit") /\ UNCHANGED <<failure, faults>>
  <2>1. /\ UNCHANGED <<config, work, stage, published, original, failure>>
        /\ Alone(p)
        /\ step[p] = "aside" /\ step'[p] = "commit" /\ backup'[p] = target
        /\ step' = [step EXCEPT ![p] = step'[p]]
    BY <1>2, BuilderIs DEF SetAside, Proceeds, Alone
  <2>2. original # File /\ target \in Products /\ target # Partial
    BY <1>2, <2>1, BuilderIs DEF FileStays, BuildInv, PackageIsWhole
  <2>3. BuildTypeOK'
    BY <1>2, <2>1, <2>2, BuilderIs DEF SetAside, BuildTypeOK, BuildPlaces
  <2>4. Keeps(p)' /\ Published(p)'
    BY <2>1, <2>2, BuilderIs
    DEF Keeps, Published, Early, Working, Making, Deploying, Unsuccessful, Products
  <2>5. Holding(p)'
    BY <2>1, <2>2 DEF Holding, Products
  <2> QED
    BY <1>2, <2>1, <2>2, <2>3, <2>4, <2>5, OneBuilder
<1> QED
  BY <1>1, <1>2 DEF SetAside

LEMMA CommitKept ==
  ASSUME PathsDiffer, BuildInv, NEW p \in Builders, Commit(p)
  PROVE  BuildInv'
<1>1. /\ step[p] = "commit" /\ UNCHANGED <<config, work, backup, attempt, interrupted, original>>
      /\ stage[p] = p /\ p \notin published /\ original # File
      /\ backup[p] \in Products \cup {Absent}
  BY BuilderIs DEF Commit, Keeps, Published, FileStays
<1>2. CASE /\ target' = stage[p] /\ stage' = [stage EXCEPT ![p] = Absent]
           /\ published' = published \cup {p}
           /\ Proceeds(p, IF backup[p] = Absent THEN "unstage" ELSE "drop")
           /\ UNCHANGED <<failure, faults>>
  <2>1. /\ Alone(p) /\ failure'[p] = failure[p] /\ stage'[p] = Absent /\ backup'[p] = backup[p]
        /\ step'[p] = IF backup[p] = Absent THEN "unstage" ELSE "drop"
        /\ step' = [step EXCEPT ![p] = step'[p]]
        /\ target' \in Products
    BY <1>1, <1>2, BuilderIs DEF Proceeds, Alone, Products
  <2>2. BuildTypeOK'
    BY <1>1, <1>2, <2>1, BuilderIs DEF BuildTypeOK, BuildPlaces
  <2>3. Keeps(p)' /\ Published(p)'
    BY <1>1, <1>2, <2>1, BuilderIs
    DEF Keeps, Published, Early, Working, Making, Deploying, Unsuccessful
  <2> QED
    BY <1>1, <2>1, <2>2, <2>3, OneBuilder
<1>3. CASE /\ faults' = faults \/ (faults < Faults /\ faults' = faults + 1)
           /\ Proceeds(p, Uncommitted(p)) /\ failure' = [failure EXCEPT ![p] = "commit"]
           /\ UNCHANGED <<target, stage, published>>
  <2>1. /\ Alone(p) /\ failure'[p] = "commit" /\ stage'[p] = stage[p] /\ backup'[p] = backup[p]
        /\ step'[p] = IF backup[p] = Absent THEN "unstage" ELSE "restore"
        /\ step' = [step EXCEPT ![p] = step'[p]]
    BY <1>1, <1>3, BuilderIs DEF Proceeds, Alone, Uncommitted
  <2>2. BuildTypeOK'
    BY <1>1, <1>3, <2>1, BuilderIs DEF PathsDiffer, BuildTypeOK, BuildPlaces
  <2>3. Keeps(p)' /\ Published(p)'
    BY <1>1, <1>3, <2>1, BuilderIs
    DEF Keeps, Published, Early, Working, Making, Deploying, Unsuccessful
  <2>4. Holding(p) => Holding(p)'
    BY <1>1, <1>3, <2>1 DEF Holding, PathsDiffer, Products
  <2> QED
    BY <1>1, <1>3, <2>1, <2>2, <2>3, <2>4, OneBuilder
<1> QED
  BY <1>2, <1>3 DEF Commit

LEMMA RestoreKept ==
  ASSUME PathsDiffer, BuildInv, NEW p \in Builders, Restore(p)
  PROVE  BuildInv'
<1>1. /\ step[p] = "restore"
      /\ UNCHANGED <<config, work, stage, attempt, interrupted, original, published>>
      /\ failure[p] = "commit" /\ p \notin published /\ original # File
      /\ backup[p] \in Products
      /\ step' = [step EXCEPT ![p] = "unstage"] /\ step'[p] = "unstage"
  BY BuilderIs DEF Restore, Keeps, Published, FileStays, Proceeds
<1>2. CASE /\ target' = backup[p] /\ backup' = [backup EXCEPT ![p] = Absent]
           /\ UNCHANGED <<failure, faults>>
  <2>1. Alone(p) /\ failure'[p] = failure[p] /\ backup'[p] = Absent /\ target' \in Products
    BY <1>1, <1>2, BuilderIs DEF Alone
  <2>2. BuildTypeOK'
    BY <1>1, <1>2, <2>1, BuilderIs DEF BuildTypeOK, BuildPlaces
  <2>3. Keeps(p)' /\ Published(p)'
    BY <1>1, <1>2, <2>1, BuilderIs
    DEF Keeps, Published, Early, Working, Making, Deploying, Unsuccessful
  <2> QED
    BY <1>1, <2>1, <2>2, <2>3, OneBuilder
<1>3. CASE /\ faults' = faults \/ (faults < Faults /\ faults' = faults + 1)
           /\ failure' = [failure EXCEPT ![p] = "restore"] /\ UNCHANGED <<target, backup>>
  <2>1. Alone(p) /\ failure'[p] = "restore" /\ backup'[p] = backup[p]
    BY <1>1, <1>3, BuilderIs DEF Alone
  <2>2. BuildTypeOK'
    BY <1>1, <1>3, <2>1, BuilderIs DEF PathsDiffer, BuildTypeOK, BuildPlaces
  <2>3. Keeps(p)' /\ Published(p)'
    BY <1>1, <1>3, <2>1, BuilderIs
    DEF Keeps, Published, Early, Working, Making, Deploying, Unsuccessful
  <2>4. Holding(p)'
    BY <1>1, <2>1 DEF Holding, Products
  <2> QED
    BY <1>1, <1>3, <2>1, <2>2, <2>3, <2>4, OneBuilder
<1> QED
  BY <1>2, <1>3 DEF Restore

LEMMA DropBackupKept ==
  ASSUME PathsDiffer, BuildInv, NEW p \in Builders, DropBackup(p)
  PROVE  BuildInv'
<1>1. /\ step[p] = "drop" /\ failure[p] = "none" /\ p \in published
      /\ UNCHANGED <<config, work, target, stage, attempt, interrupted, original, published>>
      /\ step' = [step EXCEPT ![p] = "unstage"] /\ step'[p] = "unstage"
      /\ original # File
  BY BuilderIs DEF DropBackup, Published, FileStays, Proceeds, Unsuccessful
<1>2. PICK left \in {Absent, Partial} :
        /\ backup' = [backup EXCEPT ![p] = left]
        /\ failure' = [failure EXCEPT ![p] = IF left = Absent THEN "none" ELSE "drop"]
        /\ faults' = faults \/ (faults < Faults /\ faults' = faults + 1)
  <2>1. Absent # Partial /\ failure = [failure EXCEPT ![p] = "none"]
    BY <1>1, BuilderIs DEF PathsDiffer
  <2> QED
    BY <2>1 DEF DropBackup
<1>3. /\ Alone(p) /\ backup'[p] = left
      /\ failure'[p] = IF left = Absent THEN "none" ELSE "drop"
  BY <1>1, <1>2, BuilderIs DEF Alone
<1>4. BuildTypeOK'
  BY <1>1, <1>2, BuilderIs DEF PathsDiffer, BuildTypeOK, BuildPlaces
<1>5. Keeps(p)' /\ Published(p)'
  BY <1>1, <1>2, <1>3, BuilderIs
  DEF PathsDiffer, Keeps, Published, Early, Working, Making, Deploying, Unsuccessful, Products
<1>6. ~Holding(p)
  BY <1>1 DEF Holding
<1> QED
  BY <1>1, <1>3, <1>4, <1>5, <1>6, OneBuilder

LEMMA UnstageKept ==
  ASSUME PathsDiffer, BuildInv, NEW p \in Builders, Unstage(p)
  PROVE  BuildInv'
<1>1. /\ step[p] = "unstage"
      /\ step'[p] = IF failure[p] = "none" /\ config[p].install THEN "install" ELSE "cleanup"
      /\ step' = [step EXCEPT ![p] = step'[p]]
      /\ stage' = [stage EXCEPT ![p] = Absent] /\ stage'[p] = Absent
      /\ UNCHANGED <<config, failure, work, target, backup, attempt, interrupted,
                     faults, original, published>>
      /\ Alone(p)
  BY BuilderIs DEF Unstage, Proceeds, Alone
<1>2. BuildTypeOK'
  BY <1>1, BuilderIs DEF BuildTypeOK, BuildPlaces
<1>3. Keeps(p)' /\ Published(p)'
  BY <1>1, BuilderIs
  DEF Keeps, Published, Early, Working, Making, Deploying, Unsuccessful
<1>4. Holding(p) => Holding(p)'
  BY <1>1 DEF Holding
<1> QED
  BY <1>1, <1>2, <1>3, <1>4, OneBuilder

LEMMA CleanupKept ==
  ASSUME PathsDiffer, BuildInv, NEW p \in Builders, Cleanup(p)
  PROVE  BuildInv'
<1>1. /\ step[p] = "cleanup" /\ p \notin work' /\ work' = work \ {p}
      /\ step'[p] = IF failure[p] # "none" THEN "failed"
                    ELSE IF config[p].run /\ ~config[p].device THEN "start" ELSE "done"
      /\ step' = [step EXCEPT ![p] = step'[p]]
      /\ UNCHANGED <<config, failure, target, stage, backup, published, attempt, interrupted,
                     faults, original>>
      /\ Alone(p)
  BY BuilderIs DEF Cleanup, Proceeds, Alone, paths
<1>2. BuildTypeOK'
  BY <1>1, BuilderIs DEF BuildTypeOK, BuildPlaces, Rest
<1>3. Keeps(p)' /\ Published(p)'
  BY <1>1, BuilderIs
  DEF Keeps, Published, Early, Working, Making, Deploying, Unsuccessful
<1>4. Holding(p) => Holding(p)'
  BY <1>1 DEF Holding
<1> QED
  BY <1>1, <1>2, <1>3, <1>4, OneBuilder

(* An interruption, a death, a stuttering step. *)
LEMMA StruckKept ==
  ASSUME PathsDiffer, BuildInv, NEW p \in Builders,
         InterruptBuild(p) \/ Die(p) \/ UNCHANGED building
  PROVE  BuildInv'
<1>1. /\ UNCHANGED <<config, failure, work, paths, attempt, faults, original>>
      /\ interrupted' = interrupted \/ interrupted' = {p}
      /\ \/ UNCHANGED step
         \/ step' = [step EXCEPT ![p] = "dead"] /\ step'[p] = "dead" /\ ~Ended(p)
  BY BuilderIs DEF InterruptBuild, Die, Proceeds, building
<1>2. /\ UNCHANGED <<config, failure, work, target, stage, backup, published, original>>
      /\ Alone(p)
  BY <1>1, BuilderIs DEF paths, Alone
<1>3. BuildTypeOK'
  BY <1>1, <1>2, BuilderIs DEF BuildTypeOK, Rest
<1>4. Keeps(p)' /\ Published(p)'
  <2>1. CASE UNCHANGED step
    BY <1>2, <2>1, BuilderIs DEF Keeps, Published
  <2>2. CASE step'[p] = "dead" /\ ~Ended(p)
    BY <1>2, <2>2, BuilderIs
    DEF Keeps, Published, Early, Working, Making, Deploying, Unsuccessful, Ended, Rest
  <2> QED
    BY <1>1, <2>1, <2>2
<1>5. Holding(p) => Holding(p)'
  BY <1>1, <1>2 DEF Holding
<1>6. original = File => step'[p] \notin {"aside", "commit", "restore", "drop"}
  BY <1>1, BuilderIs DEF FileStays
<1> QED
  BY <1>2, <1>3, <1>4, <1>5, <1>6, OneBuilder

LEMMA BuildInductive == PathsDiffer /\ BuildInv /\ [BuildNext]_building => BuildInv'
<1> SUFFICES ASSUME PathsDiffer, BuildInv, [BuildNext]_building PROVE BuildInv'
  OBVIOUS
<1>1. ASSUME NEW p \in Builders, BuildStep(p) PROVE BuildInv'
  BY <1>1, QuietKept, MakeWorkspaceKept, MakeStageKept, CopyPackageKept, LookAtTargetKept,
     SetAsideKept, CommitKept, RestoreKept, DropBackupKept, UnstageKept, CleanupKept
  DEF BuildStep, Make, Replace
<1>2. ASSUME NEW p \in Builders, InterruptBuild(p) \/ Die(p) PROVE BuildInv'
  BY <1>2, StruckKept
<1>3. CASE UNCHANGED building
  BY <1>3 DEF building, paths, BuildInv, BuildTypeOK, Keeps, Published, FileStays,
     PackageIsWhole, Holding
<1> QED
  BY <1>1, <1>2, <1>3 DEF BuildNext, BuildSteps

LEMMA BuildInvariance == ASSUME PathsDiffer PROVE BuildSpec => []BuildInv
<1>1. PathsDiffer
  OBVIOUS
<1>2. BuildInit => BuildInv
  BY <1>1, BuildStarts
<1>3. BuildInv /\ [BuildNext]_building => BuildInv'
  BY <1>1, BuildInductive
<1> QED
  BY <1>2, <1>3, PTL DEF BuildSpec

(* Types and what builders have are what the code can represent.           *)
THEOREM BuildTypeCorrect == ASSUME PathsDiffer PROVE BuildSpec => []BuildTypeOK
<1>1. BuildInv => BuildTypeOK
  BY DEF BuildInv
<1> QED
  BY <1>1, BuildInvariance, PTL

(* Whatever fails, is interrupted or dies, and however many builders meet  *)
(* at the output path: once there is a package there is a whole one, in    *)
(* place or with a builder that is to restore it or has told that it could *)
(* not; and a builder that returns leaves nothing else (directory.go:14).  *)
THEOREM PackagesSurvive == ASSUME PathsDiffer PROVE BuildSpec => []PackageSurvives
<1>1. BuildInv => PackageSurvives
  <2> SUFFICES ASSUME BuildInv PROVE PackageSurvives
    OBVIOUS
  <2>1. ASSUME NEW p \in Builders, step[p] \in {"done", "failed"}
        PROVE  /\ p \notin work /\ stage[p] = Absent
               /\ backup[p] # Absent => failure[p] \in {"restore", "drop"}
    BY <2>1 DEF BuildInv, Keeps
  <2> QED
    BY <2>1 DEF PackageSurvives, Tidy, BuildInv
<1> QED
  BY <1>1, BuildInvariance, PTL

(* A builder that has returned tells what became of its package. *)
LEMMA InvReportsTruly == ASSUME BuildInv PROVE BuildsReportTruly
<1> SUFFICES ASSUME NEW p \in Builders
             PROVE  /\ step[p] = "done" /\ config[p].output => p \in published
                    /\ step[p] = "failed" /\ p \in published =>
                         failure[p] \in {"drop", "install", "launch", "start"}
                    /\ step[p] = "failed" => CASE
                         Category(p) \in {"deployment-failed", "launch-failed"} ->
                           config[p].output => p \in published
                      [] Category(p) \in {"output-conflict", "compilation-failed", "link-failed",
                                          "packaging-failed"} -> p \notin published
                      [] OTHER -> TRUE
                    /\ ~config[p].replace => backup[p] = Absent
  BY DEF BuildsReportTruly
<1>1. Keeps(p) /\ Published(p)
  BY DEF BuildInv
<1>2. Category(p) \in {"deployment-failed", "launch-failed"} =>
        failure[p] \in {"install", "launch", "start"}
  BY DEF Category
<1>3. Category(p) \in {"output-conflict", "compilation-failed", "link-failed",
                       "packaging-failed"} =>
        failure[p] \in {"conflict", "resolve", "compile", "link", "package"}
  BY DEF Category
<1>4. {"deployment-failed", "launch-failed"} \cap
        {"output-conflict", "compilation-failed", "link-failed", "packaging-failed"} = {}
  OBVIOUS
<1> QED
  BY <1>1, <1>2, <1>3, <1>4 DEF Keeps, Published, Deploying

-----------------------------------------------------------------------------
(* Commands that wait for the device or a Simulator. *)

(* What one command knows and has told. *)
Told(u) ==
  /\ Active(u) => mode \in seen[u]
  /\ answer[u] # "none" => at[u] \in {"kill", "returned"}
  /\ at[u] = "kill" => answer[u] \in {"none", "cancelled"}
  /\ simulator[u] = "running" => at[u] \in {"init", "update", "kill"}
  /\ at[u] = "update" => "init" \in markers[u]
  /\ at[u] = "kill" /\ answer[u] = "none" => markers[u] = {"init", "update"}
  /\ answer[u] \in {"disk", "log"} => "disk" \in seen[u]
  /\ answer[u] \in {"ready", "connected"} => "usb" \in seen[u]
  /\ answer[u] = "not-connected" => seen[u] # {"usb"}
  /\ answer[u] = "not-mounted" => seen[u] # {"disk"}
  /\ answer[u] = "reconnect-timeout" => u \in expired \ cancelled
  /\ answer[u] = "event" => markers[u] = {"init", "update"}

ProbeInv == ProbeTypeOK /\ \A u \in Users : Told(u)

LEMMA ProbeStarts == ProbeInit => ProbeInv
<1> SUFFICES ASSUME ProbeInit PROVE ProbeInv
  OBVIOUS
<1>1. ProbeTypeOK
  BY DEF ProbeInit, ProbeTypeOK, ProbePlaces, Modes
<1>2. \A u \in Users : Told(u)
  BY DEF ProbeInit, Told
<1> QED
  BY <1>1, <1>2 DEF ProbeInv

(* What a command is told of the others and of the device. *)
Beside(u) ==
  /\ at'[u] = at[u] /\ answer'[u] = answer[u]
  /\ simulator'[u] = simulator[u] /\ markers'[u] = markers[u]
  /\ expired \subseteq expired'
  /\ u \in cancelled' => u \in cancelled \/ Active(u)
  /\ \/ seen'[u] = Witnessed[u]
     \/ UNCHANGED mode /\ seen'[u] = seen[u]

LEMMA BesideKeeps ==
  ASSUME ProbeTypeOK, NEW u \in Users, Told(u), Beside(u)
  PROVE  Told(u)'
<1>1. Active(u)' <=> Active(u)
  BY DEF Beside, Active
<1>2. seen'[u] = IF Active(u) THEN seen[u] \cup {mode'} ELSE seen[u]
  BY DEF Beside, Witnessed, Told
<1>3. CASE Active(u)
  <2>1. answer[u] \in {"none", "cancelled"}
    BY <1>3 DEF Told, Active
  <2> QED
    BY <1>1, <1>2, <1>3, <2>1 DEF Told, Beside
<1>4. CASE ~Active(u)
  BY <1>1, <1>2, <1>4 DEF Told, Beside
<1> QED
  BY <1>3, <1>4

(* A command's step: where it goes and what it answers. *)
LEMMA CommandStep ==
  ASSUME ProbeInv, NEW u \in Users, ProbeTypeOK', Told(u)',
         \A v \in Users \ {u} : Beside(v)
  PROVE  ProbeInv'
BY BesideKeeps DEF ProbeInv

LEMMA Goings ==
  ASSUME ProbeTypeOK, NEW u \in Users
  PROVE  /\ \A to \in ProbePlaces : Continues(u, to) =>
              /\ at'[u] = to /\ answer'[u] = answer[u]
              /\ at' \in [Users -> ProbePlaces] /\ answer' = answer
              /\ \A v \in Users \ {u} : at'[v] = at[v]
         /\ \A a \in Results : Answers(u, a) =>
              /\ at'[u] = "returned" /\ answer'[u] = a
              /\ at' \in [Users -> ProbePlaces] /\ answer' \in [Users -> Results \cup {"none"}]
              /\ \A v \in Users \ {u} : at'[v] = at[v] /\ answer'[v] = answer[v]
BY DEF ProbeTypeOK, Continues, Answers, ProbePlaces

(* The steps of a command that change neither the Simulator nor what is    *)
(* known of time.                                                          *)
LEMMA SimpleStep ==
  ASSUME ProbeInv, NEW u \in Users,
         UNCHANGED <<command, simulator, markers, expired, cancelled>>, Watched,
         mode' \in Modes, logs' \in SUBSET Logs,
         at[u] \notin {"kill", "returned"}, simulator[u] # "running",
         \/ \E to \in ProbePlaces \ {"kill", "returned", "update"} : Continues(u, to)
         \/ \E a \in Results \ {"event"} :
              /\ Answers(u, a)
              /\ a \in {"disk", "log"} => "disk" \in {mode, mode'}
              /\ a \in {"ready", "connected"} => mode = "usb"
              /\ a = "not-connected" => mode # "usb"
              /\ a = "not-mounted" => mode # "disk"
              /\ a = "reconnect-timeout" => u \in expired \ cancelled
  PROVE  ProbeInv'
<1>1. ProbeTypeOK /\ Told(u)
  BY DEF ProbeInv
<1>2. /\ at' \in [Users -> ProbePlaces] /\ answer' \in [Users -> Results \cup {"none"}]
      /\ \A v \in Users \ {u} : at'[v] = at[v] /\ answer'[v] = answer[v]
  BY <1>1, Goings DEF ProbeTypeOK
<1>3. seen' = Witnessed /\ seen'[u] = seen[u] \cup {mode'} /\ mode \in seen[u]
  BY <1>1 DEF Watched, Witnessed, Told, Active
<1>4. seen' \in [Users -> SUBSET Modes]
  BY <1>1, <1>3 DEF Witnessed, ProbeTypeOK
<1>5. ProbeTypeOK'
  BY <1>1, <1>2, <1>4 DEF ProbeTypeOK
<1>6. \A v \in Users \ {u} : Beside(v)
  BY <1>2, <1>3 DEF Beside
<1>7. Told(u)'
  <2>1. answer[u] = "none"
    BY <1>1 DEF Told
  <2>2. CASE \E to \in ProbePlaces \ {"kill", "returned", "update"} : Continues(u, to)
    <3>1. PICK to \in ProbePlaces \ {"kill", "returned", "update"} : Continues(u, to)
      BY <2>2
    <3>2. at'[u] = to /\ answer'[u] = answer[u]
      BY <1>1, <3>1, Goings
    <3> QED
      BY <1>1, <1>3, <2>1, <3>1, <3>2 DEF Told, Active
  <2>3. CASE \E a \in Results \ {"event"} :
              /\ Answers(u, a)
              /\ a \in {"disk", "log"} => "disk" \in {mode, mode'}
              /\ a \in {"ready", "connected"} => mode = "usb"
              /\ a = "not-connected" => mode # "usb"
              /\ a = "not-mounted" => mode # "disk"
              /\ a = "reconnect-timeout" => u \in expired \ cancelled
    <3>1. PICK a \in Results \ {"event"} :
              /\ Answers(u, a)
              /\ a \in {"disk", "log"} => "disk" \in {mode, mode'}
              /\ a \in {"ready", "connected"} => mode = "usb"
              /\ a = "not-connected" => mode # "usb"
              /\ a = "not-mounted" => mode # "disk"
              /\ a = "reconnect-timeout" => u \in expired \ cancelled
      BY <2>3
    <3>2. at'[u] = "returned" /\ answer'[u] = a
      BY <1>1, <3>1, Goings
    <3> QED
      BY <1>3, <3>1, <3>2 DEF Told, Active
  <2> QED
    BY <2>2, <2>3
<1> QED
  BY <1>5, <1>6, <1>7, CommandStep

LEMMA SimpleKept ==
  ASSUME ProbeInv, NEW u \in Users,
         \/ FindDisk(u) \/ ToolMissing(u) \/ FindLog(u) \/ DataDisk(u) \/ ReadLog(u)
         \/ FindVolume(u) \/ Poll(u) \/ Pause(u) \/ AskDevice(u) \/ BuildGame(u)
  PROVE  ProbeInv'
<1>1. ProbeTypeOK /\ Told(u) /\ mode \in Modes /\ logs \in SUBSET Logs
  BY DEF ProbeInv, ProbeTypeOK
<1>2. at[u] \notin {"init", "update", "kill"} => simulator[u] # "running"
  BY <1>1 DEF Told
<1> USE DEF device, ProbePlaces, Results
<1>3. CASE FindDisk(u)
  BY <1>1, <1>2, <1>3, SimpleStep DEF FindDisk, Mounted
<1>4. CASE ToolMissing(u)
  BY <1>1, <1>2, <1>4, SimpleStep DEF ToolMissing
<1>5. CASE FindLog(u)
  BY <1>1, <1>2, <1>5, SimpleStep DEF FindLog
<1>6. CASE DataDisk(u)
  <2>1. at[u] = "datadisk" /\ mode' \in Modes
        /\ UNCHANGED <<command, logs, simulator, markers, expired, cancelled>> /\ Watched
    BY <1>1, <1>6 DEF DataDisk, Modes
  <2>2. \/ Continues(u, "read")
        \/ \E a \in {"disk", "cancelled", "disk-mode-failed", "retrieval-failed"} :
             Answers(u, a) /\ (a = "disk" => mode' = "disk")
        \/ Answers(u, "not-connected") /\ mode # "usb"
    BY <1>6 DEF DataDisk, Misread
  <2> QED
    BY <1>1, <1>2, <2>1, <2>2, SimpleStep
<1>7. CASE ReadLog(u)
  <2>1. at[u] = "read" /\ UNCHANGED <<command, mode, logs, simulator, markers, expired, cancelled>>
        /\ Watched
    BY <1>7 DEF ReadLog
  <2>2. \E a \in {"log", "log-not-found", "retrieval-failed", "cancelled"} :
          Answers(u, a) /\ (a = "log" => mode = "disk")
    BY <1>7 DEF ReadLog, Retrieved, Mounted
  <2> QED
    BY <1>1, <1>2, <2>1, <2>2, SimpleStep
<1>8. CASE FindVolume(u)
  BY <1>1, <1>2, <1>8, SimpleStep DEF FindVolume, Mounted
<1>9. CASE Poll(u)
  BY <1>1, <1>2, <1>9, SimpleStep DEF Poll, Reconnected
<1>10. CASE Pause(u)
  BY <1>1, <1>2, <1>10, SimpleStep DEF Pause, Over
<1>11. CASE AskDevice(u)
  BY <1>1, <1>2, <1>11, SimpleStep DEF AskDevice
<1>12. CASE BuildGame(u)
  BY <1>1, <1>2, <1>12, SimpleStep DEF BuildGame
<1> QED
  BY <1>3, <1>4, <1>5, <1>6, <1>7, <1>8, <1>9, <1>10, <1>11, <1>12

(* From an eject on what was seen of the device counts afresh. *)
LEMMA EjectKept == ASSUME ProbeInv, NEW u \in Users, Eject(u) PROVE ProbeInv'
<1>1. ProbeTypeOK /\ Told(u) /\ at[u] = "eject" /\ simulator[u] # "running"
  BY DEF ProbeInv, Eject, Told
<1>2. CASE Answers(u, "eject-failed") /\ UNCHANGED mode /\ Watched
  BY <1>1, <1>2, SimpleStep DEF Eject, ProbeTypeOK, Results
<1>3. CASE /\ mode' = "resetting" /\ Continues(u, "poll")
           /\ seen' = [Witnessed EXCEPT ![u] = {"resetting"}]
  <2>1. /\ at'[u] = "poll" /\ answer' = answer /\ at' \in [Users -> ProbePlaces]
        /\ \A v \in Users \ {u} : at'[v] = at[v]
    BY <1>1, <1>3, Goings DEF ProbePlaces
  <2>2. Witnessed \in [Users -> SUBSET Modes]
    BY <1>1, <1>3 DEF Witnessed, ProbeTypeOK, Modes
  <2>3. seen'[u] = {"resetting"} /\ (\A v \in Users \ {u} : seen'[v] = Witnessed[v])
        /\ seen' \in [Users -> SUBSET Modes]
    BY <1>3, <2>2 DEF Modes
  <2>4. UNCHANGED <<command, logs, simulator, markers, expired, cancelled>>
    BY DEF Eject
  <2>5. ProbeTypeOK'
    BY <1>1, <1>3, <2>1, <2>3, <2>4 DEF ProbeTypeOK, Modes
  <2>6. Told(u)'
    BY <1>1, <1>3, <2>1, <2>3, <2>4 DEF Told, Active
  <2>7. \A v \in Users \ {u} : Beside(v)
    BY <2>1, <2>3, <2>4 DEF Beside
  <2> QED
    BY <2>5, <2>6, <2>7, CommandStep
<1> QED
  BY <1>2, <1>3 DEF Eject

(* The steps of `probe simulator --run` once the game is built. *)
LEMMA SimulatorKept ==
  ASSUME ProbeInv, NEW u \in Users, Launch(u) \/ SeeMarker(u) \/ StopWaiting(u) \/ Kill(u)
  PROVE  ProbeInv'
<1>1. ProbeTypeOK /\ Told(u)
  BY DEF ProbeInv
<1>2. /\ UNCHANGED <<command, mode, logs, markers, expired, cancelled>>
      /\ seen' = Witnessed /\ at[u] \in {"launch", "init", "update", "kill"}
  BY DEF Launch, SeeMarker, StopWaiting, Kill, device, Watched
<1>3. /\ mode \in seen[u] /\ seen'[u] = seen[u] \cup {mode}
      /\ seen' \in [Users -> SUBSET Modes]
  BY <1>1, <1>2 DEF Told, Active, Witnessed, ProbeTypeOK
<1>4. ASSUME at' \in [Users -> ProbePlaces], answer' \in [Users -> Results \cup {"none"}],
             simulator' \in [Users -> {"none", "running", "killed"}],
             \A v \in Users \ {u} :
               at'[v] = at[v] /\ answer'[v] = answer[v] /\ simulator'[v] = simulator[v],
             Told(u)'
      PROVE  ProbeInv'
  <2>1. ProbeTypeOK'
    BY <1>1, <1>2, <1>3, <1>4 DEF ProbeTypeOK
  <2>2. \A v \in Users \ {u} : Beside(v)
    BY <1>2, <1>4 DEF Beside
  <2> QED
    BY <1>4, <2>1, <2>2, CommandStep
<1>5. CASE Launch(u)
  <2>1. \/ /\ Continues(u, "init") /\ simulator' = [simulator EXCEPT ![u] = "running"]
        \/ /\ \E a \in {"cancelled", "probe-failed"} : Answers(u, a)
           /\ UNCHANGED simulator
    BY <1>5 DEF Launch
  <2>2. at[u] = "launch" /\ answer[u] = "none" /\ simulator[u] # "running"
    BY <1>1, <1>5 DEF Launch, Told
  <2>3. CASE Continues(u, "init") /\ simulator' = [simulator EXCEPT ![u] = "running"]
    <3>1. /\ at'[u] = "init" /\ answer' = answer /\ at' \in [Users -> ProbePlaces]
          /\ \A v \in Users \ {u} : at'[v] = at[v]
      BY <1>1, <2>3, Goings DEF ProbePlaces
    <3>2. Told(u)'
      BY <1>1, <1>2, <1>3, <2>2, <2>3, <3>1 DEF Told, Active
    <3> QED
      BY <1>1, <1>4, <2>3, <3>1, <3>2 DEF ProbeTypeOK
  <2>4. CASE (\E a \in {"cancelled", "probe-failed"} : Answers(u, a)) /\ UNCHANGED simulator
    <3>1. PICK a \in {"cancelled", "probe-failed"} : Answers(u, a)
      BY <2>4
    <3>2. /\ at'[u] = "returned" /\ answer'[u] = a
          /\ at' \in [Users -> ProbePlaces] /\ answer' \in [Users -> Results \cup {"none"}]
          /\ \A v \in Users \ {u} : at'[v] = at[v] /\ answer'[v] = answer[v]
      BY <1>1, <3>1, Goings DEF Results
    <3>3. Told(u)'
      BY <1>1, <1>2, <1>3, <2>2, <2>4, <3>1, <3>2 DEF Told, Active
    <3> QED
      BY <1>1, <1>4, <2>4, <3>2, <3>3 DEF ProbeTypeOK
  <2> QED
    BY <2>1, <2>3, <2>4
<1>6. CASE SeeMarker(u)
  <2>1. /\ at[u] \in {"init", "update"} /\ at[u] \in markers[u] /\ answer[u] = "none"
        /\ UNCHANGED simulator
        /\ Continues(u, IF at[u] = "init" THEN "update" ELSE "kill")
    BY <1>1, <1>6 DEF SeeMarker, Following, Told
  <2>2. /\ at'[u] = (IF at[u] = "init" THEN "update" ELSE "kill") /\ answer' = answer
        /\ at' \in [Users -> ProbePlaces]
        /\ \A v \in Users \ {u} : at'[v] = at[v]
    BY <1>1, <2>1, Goings DEF ProbePlaces
  <2>3. markers[u] \subseteq {"init", "update"}
    BY <1>1 DEF ProbeTypeOK
  <2>4. Told(u)'
    BY <1>1, <1>2, <1>3, <2>1, <2>2, <2>3 DEF Told, Active
  <2> QED
    BY <1>1, <1>4, <2>1, <2>2, <2>4 DEF ProbeTypeOK
<1>7. CASE StopWaiting(u)
  <2>1. /\ at[u] \in {"init", "update"} /\ UNCHANGED simulator
        /\ at' = [at EXCEPT ![u] = "kill"] /\ answer' = [answer EXCEPT ![u] = "cancelled"]
    BY <1>7 DEF StopWaiting
  <2>2. /\ at'[u] = "kill" /\ answer'[u] = "cancelled"
        /\ at' \in [Users -> ProbePlaces] /\ answer' \in [Users -> Results \cup {"none"}]
        /\ \A v \in Users \ {u} : at'[v] = at[v] /\ answer'[v] = answer[v]
    BY <1>1, <2>1 DEF ProbeTypeOK, ProbePlaces, Results
  <2>3. Told(u)'
    BY <1>1, <1>2, <1>3, <2>1, <2>2 DEF Told, Active
  <2> QED
    BY <1>1, <1>4, <2>1, <2>2, <2>3 DEF ProbeTypeOK
<1>8. CASE Kill(u)
  <2>1. /\ at[u] = "kill" /\ answer[u] \in {"none", "cancelled"}
        /\ simulator' = [simulator EXCEPT ![u] = "killed"]
        /\ Answers(u, IF answer[u] = "none" THEN "event" ELSE answer[u])
    BY <1>1, <1>8 DEF Kill, Told
  <2>2. /\ at'[u] = "returned" /\ answer'[u] = (IF answer[u] = "none" THEN "event" ELSE answer[u])
        /\ at' \in [Users -> ProbePlaces] /\ answer' \in [Users -> Results \cup {"none"}]
        /\ \A v \in Users \ {u} : at'[v] = at[v] /\ answer'[v] = answer[v]
    BY <1>1, <2>1, Goings DEF Results
  <2>3. /\ simulator' \in [Users -> {"none", "running", "killed"}] /\ simulator'[u] = "killed"
        /\ \A v \in Users \ {u} : simulator'[v] = simulator[v]
    BY <1>1, <2>1 DEF ProbeTypeOK
  <2>4. Told(u)'
    BY <1>1, <1>2, <1>3, <2>1, <2>2, <2>3 DEF Told, Active
  <2> QED
    BY <1>4, <2>2, <2>3, <2>4
<1> QED
  BY <1>5, <1>6, <1>7, <1>8

(* What happens around the commands. *)
LEMMA AroundKept ==
  ASSUME ProbeInv,
         \/ TimePasses \/ DeviceActs \/ UNCHANGED probing
         \/ \E u \in Users : GameRuns(u) \/ Interrupt(u)
  PROVE  ProbeInv'
<1>1. ProbeTypeOK /\ \A u \in Users : Told(u)
  BY DEF ProbeInv
<1>2. CASE \E u \in Users : GameRuns(u)
  <2>1. PICK u \in Users, m \in {"init", "update"} :
          /\ simulator[u] = "running" /\ m \notin markers[u]
          /\ markers' = [markers EXCEPT ![u] = @ \cup {m}]
          /\ UNCHANGED <<command, at, answer, device, simulator, expired, cancelled, seen>>
    BY <1>2 DEF GameRuns
  <2>2. /\ markers'[u] = markers[u] \cup {m} /\ markers' \in [Users -> SUBSET {"init", "update"}]
        /\ \A v \in Users \ {u} : markers'[v] = markers[v]
    BY <1>1, <2>1 DEF ProbeTypeOK
  <2>3. ProbeTypeOK'
    BY <1>1, <2>1, <2>2 DEF ProbeTypeOK, device
  <2>4. Told(u)'
    BY <1>1, <2>1, <2>2 DEF Told, Active, device, ProbeTypeOK
  <2>5. \A v \in Users \ {u} : Beside(v)
    BY <2>1, <2>2 DEF Beside, device
  <2> QED
    BY <2>3, <2>4, <2>5, CommandStep
<1>3. CASE ~\E u \in Users : GameRuns(u)
  <2>1. ProbeTypeOK'
    BY <1>1, <1>3 DEF ProbeTypeOK, TimePasses, Expire, DeviceActs, Interrupt, probing, device,
       Watched, Witnessed, Modes
  <2>2. \A u \in Users : Beside(u)
    BY <1>1, <1>3 DEF Beside, TimePasses, Expire, DeviceActs, Interrupt, probing, device,
       Watched
  <2> QED
    BY <1>1, <2>1, <2>2, BesideKeeps DEF ProbeInv
<1> QED
  BY <1>2, <1>3

LEMMA ProbeInductive == ProbeInv /\ [ProbeNext]_probing => ProbeInv'
<1> SUFFICES ASSUME ProbeInv, [ProbeNext]_probing PROVE ProbeInv'
  OBVIOUS
<1>1. ASSUME NEW u \in Users, ProbeStep(u) PROVE ProbeInv'
  BY <1>1, SimpleKept, EjectKept, SimulatorKept DEF ProbeStep
<1> QED
  BY <1>1, AroundKept DEF ProbeNext, ProbeSteps

LEMMA ProbeInvariance == ProbeSpec => []ProbeInv
BY ProbeStarts, ProbeInductive, PTL DEF ProbeSpec

LEMMA InvAnswersTruly == ASSUME ProbeInv PROVE AnswersTruly
BY DEF ProbeInv, Told, AnswersTruly, Active

(* Types and what commands have seen are what the code can represent.      *)
THEOREM ProbeTypeCorrect == ProbeSpec => []ProbeTypeOK
<1>1. ProbeInv => ProbeTypeOK
  BY DEF ProbeInv
<1> QED
  BY <1>1, ProbeInvariance, PTL

(* What builders report of their package, and commands of the device and   *)
(* the Simulator, is what happened, whatever the device and the others did *)
(* meanwhile (API.md, "Failures are categorized by the last reached        *)
(* operation").                                                            *)
THEOREM ReportsAreTrue ==
  ASSUME PathsDiffer PROVE BuildSpec /\ ProbeSpec => []ReportsTruly
<1>1. BuildInv /\ ProbeInv => ReportsTruly
  BY InvReportsTruly, InvAnswersTruly DEF ReportsTruly
<1> QED
  BY <1>1, BuildInvariance, ProbeInvariance, PTL
=============================================================================
