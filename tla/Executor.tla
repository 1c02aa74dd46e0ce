------------------------------- MODULE Executor -------------------------------
(***************************************************************************)
(* Registry.Run: one goroutine for every package and root analyzer.  Each  *)
(* executes its analyzer on its package, and for that, recursively, the    *)
(* analyzers it requires on the same package and, if it imports facts,     *)
(* itself on the imported packages.  An execution is claimed in a shared   *)
(* map by whoever needs it first; the others wait until it is ready.       *)
(***************************************************************************)
EXTENDS Naturals, Sequences, FiniteSets

CONSTANTS
  Analyzers, Packages,
  Roots,      \* the selected analyzers
  Loaded,     \* snapshot.Loaded; imports may lie outside it
  Requires,   \* analyzer -> Analyzer.Requires
  Imports,    \* package -> its imports, sorted
  UsesFacts,  \* analyzers with fact types, sdkownership in the deep profile only
  IllTyped,   \* packages with type errors
  Despite,    \* analyzers with RunDespiteErrors
  Faulty      \* executions whose analyzer fails or panics

Keys == Analyzers \X Packages

ASSUME ExecutorAssumption ==
  /\ Roots \subseteq Analyzers /\ Loaded \subseteq Packages
  /\ Requires \in [Analyzers -> Seq(Analyzers)]
  /\ Imports \in [Packages -> Seq(Packages)]
  /\ Faulty \subseteq Keys

(* Neither analyzers nor packages lead back to themselves: NewRegistry     *)
(* calls analysis.Validate (registry.go:129), and Go refuses an import     *)
(* cycle.                                                                  *)
ASSUME AcyclicAssumption ==
  /\ IsFiniteSet(Analyzers) /\ IsFiniteSet(Packages)
  /\ \E depth \in [Analyzers -> 0 .. Cardinality(Analyzers)] :
       \A a \in Analyzers : \A i \in DOMAIN Requires[a] : depth[Requires[a][i]] < depth[a]
  /\ \E depth \in [Packages -> 0 .. Cardinality(Packages)] :
       \A p \in Packages : \A i \in DOMAIN Imports[p] : depth[Imports[p][i]] < depth[p]

VARIABLES
  state,     \* executor.executions: "absent", "claimed" or "ready"
  result,    \* its outcome, "none" until it is ready
  stack,     \* goroutine -> the executions it is in, the innermost first
  reached,   \* execution -> how many of its inputs it has
  passes,    \* executions whose pass is active
  runs,      \* execution -> how often its analyzer was run
  returned,  \* goroutines that have ended
  canceled   \* executor.ctx

vars == <<state, result, stack, reached, passes, runs, returned, canceled>>

Goroutines == Roots \X Loaded

(* The order of `run`: required analyzers first, then imported packages. *)
Inputs(k) ==
  LET required == [i \in DOMAIN Requires[k[1]] |-> <<Requires[k[1]][i], k[2]>>]
      imported == [i \in DOMAIN Imports[k[2]] |-> <<k[1], Imports[k[2]][i]>>]
  IN  IF k[1] \in UsesFacts THEN required \o imported ELSE required

Skipped(k) == k[2] \in IllTyped /\ k[1] \notin Despite

Init ==
  /\ state = [k \in Keys |-> "absent"]
  /\ result = [k \in Keys |-> "none"]
  /\ stack = [g \in Goroutines |-> <<>>]
  /\ reached = [k \in Keys |-> 0]
  /\ passes = {}
  /\ runs = [k \in Keys |-> 0]
  /\ returned = {}
  /\ canceled = FALSE

InExecution(g) == stack[g] # <<>>
Top(g) == Head(stack[g])
HasInputs(g) == reached[Top(g)] = Len(Inputs(Top(g)))

Needs(g, k) ==
  IF InExecution(g) THEN ~HasInputs(g) /\ k = Inputs(Top(g))[reached[Top(g)] + 1]
                    ELSE g \notin returned /\ k = g

(* The result is stored and `ready` closed. *)
Ready(k, outcome) ==
  /\ state' = [state EXCEPT ![k] = "ready"]
  /\ result' = [result EXCEPT ![k] = outcome]

UnclaimedUntilReady(k) == state[k] # "ready"
Unclaimed(k) == state[k] = "absent"

(* A canceled context ends an execution before it asks for its inputs. *)
Claim(g, k) ==
  /\ Needs(g, k)
  /\ Unclaimed(k)
  /\ IF canceled
       THEN Ready(k, "error") /\ UNCHANGED stack
       ELSE /\ state' = [state EXCEPT ![k] = "claimed"]
            /\ stack' = [stack EXCEPT ![g] = <<k>> \o @]
            /\ UNCHANGED result
  /\ UNCHANGED <<reached, passes, runs, returned, canceled>>

FailedNever(k) == FALSE
Failed(k) == result[k] = "error"

Take(g, k) ==
  /\ Needs(g, k)
  /\ state[k] = "ready"
  /\ InExecution(g) /\ ~Failed(k)
  /\ reached' = [reached EXCEPT ![Top(g)] = @ + 1]
  /\ UNCHANGED <<state, result, stack, passes, runs, returned, canceled>>

(* The error of an input is the error of the execution. *)
TakeError(g, k) ==
  /\ Needs(g, k)
  /\ state[k] = "ready"
  /\ InExecution(g) /\ Failed(k)
  /\ Ready(Top(g), "error")
  /\ stack' = [stack EXCEPT ![g] = Tail(@)]
  /\ UNCHANGED <<reached, passes, runs, returned, canceled>>

Return(g) ==
  /\ ~InExecution(g) /\ g \notin returned
  /\ state[g] = "ready"
  /\ returned' = returned \cup {g}
  /\ UNCHANGED <<state, result, stack, reached, passes, runs, canceled>>

Skip(g) ==
  /\ InExecution(g) /\ HasInputs(g)
  /\ Skipped(Top(g))
  /\ Ready(Top(g), "ok")
  /\ stack' = [stack EXCEPT ![g] = Tail(@)]
  /\ UNCHANGED <<reached, passes, runs, returned, canceled>>

BeginPass(g) ==
  /\ InExecution(g) /\ HasInputs(g)
  /\ ~Skipped(Top(g))
  /\ Top(g) \notin passes
  /\ passes' = passes \cup {Top(g)}
  /\ runs' = [runs EXCEPT ![Top(g)] = @ + 1]
  /\ UNCHANGED <<state, result, stack, reached, returned, canceled>>

(* A panic is recovered and counts as an error; so does an analyzer that   *)
(* gave up because its context was canceled.                               *)
EndPass(g) ==
  /\ InExecution(g)
  /\ Top(g) \in passes
  /\ passes' = passes \ {Top(g)}
  /\ \E outcome \in {"ok", "error"} :
       /\ outcome = "ok" => Top(g) \notin Faulty
       /\ outcome = "error" => Top(g) \in Faulty \/ canceled
       /\ Ready(Top(g), outcome)
  /\ stack' = [stack EXCEPT ![g] = Tail(@)]
  /\ UNCHANGED <<reached, runs, returned, canceled>>

Cancel ==
  /\ ~canceled
  /\ canceled' = TRUE
  /\ UNCHANGED <<state, result, stack, reached, passes, runs, returned>>

Step(g) ==
  \/ \E k \in Keys : Claim(g, k) \/ Take(g, k) \/ TakeError(g, k)
  \/ Return(g) \/ Skip(g) \/ BeginPass(g) \/ EndPass(g)

Next == Cancel \/ \E g \in Goroutines : Step(g)

Spec == Init /\ [][Next]_vars

-----------------------------------------------------------------------------
TypeOK ==
  /\ state \in [Keys -> {"absent", "claimed", "ready"}]
  /\ result \in [Keys -> {"none", "ok", "error"}]
  /\ stack \in [Goroutines -> Seq(Keys)]
  /\ reached \in [Keys -> Nat]
  /\ passes \subseteq Keys
  /\ runs \in [Keys -> Nat]
  /\ returned \subseteq Goroutines
  /\ canceled \in BOOLEAN

InputsOf(k) == {Inputs(k)[i] : i \in DOMAIN Inputs(k)}

(* registry.go:137, "analyzer prerequisites within one package run once in *)
(* dependency order": no analyzer is run twice on a package, and none      *)
(* before everything it needs has succeeded.                               *)
RunsOnceInOrder ==
  \A k \in Keys : /\ runs[k] <= 1
                  /\ runs[k] = 1 => \A d \in InputsOf(k) : result[d] = "ok"

(* Which executions fail depends on the analyzers and the packages alone,  *)
(* not on the order in which goroutines claimed them (registry.go:172-205, *)
(* where the failures of all roots are reported).                          *)
OutcomeIsDetermined ==
  ~canceled =>
    \A k \in Keys : state[k] = "ready" =>
      (result[k] = "error" <=> \/ \E d \in InputsOf(k) : result[d] = "error"
                               \/ k \in Faulty /\ ~Skipped(k))

Blocked(g) == \E k \in Keys : Needs(g, k) /\ state[k] = "claimed"

(* registry.go:171, group.Wait: goroutines that wait for each other's      *)
(* executions never wait in a circle, so some goroutine can go on until    *)
(* all have returned.                                                      *)
NoCircularWait ==
  returned # Goroutines => \E g \in Goroutines \ returned : ~Blocked(g)

(* Each execution is made once, after its inputs, and goroutines never     *)
(* wait in a circle (registry.go:137, :171).                               *)
ExecutesInOrder == RunsOnceInOrder /\ NoCircularWait
=============================================================================
