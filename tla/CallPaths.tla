----------------------------- MODULE CallPaths -----------------------------
(* The calls that an application's callbacks are said to make              *)
(* (analyzer/application_paths.go): the walk from a root through local     *)
(* functions, with what is known of their arguments, beside an execution   *)
(* of the root.  Where a branch is not decided, the walk goes on where     *)
(* every way out of the function leads.                                    *)
EXTENDS Naturals, Sequences, FiniteSets, SequencesExt

CONSTANTS
  Applications, \* packages: root, events, body
  Depth,        \* how far calls are followed; eight in the code
  Budget,       \* how many blocks are visited; 4096 in the code
  Frames        \* a bound on the calls that run, or wait for a function's end

VARIABLES
  application,
  event,        \* what the root is called with
  stack,
  ran,          \* the calls that were made
  end,          \* "open", "returned" or "panicked"
  beyond        \* the execution did what the walk does not follow

running == <<application, event, stack, ran, end, beyond>>

(* A block makes calls, deferred or not, and ends with a test, a jump, a   *)
(* return or a panic.  A value is a constant, a parameter or anything.     *)
Body(g) == application.body[g]
Own(g) == g \in DOMAIN application.body
PathBlocks(g) == DOMAIN Body(g)
Calls(g, b) == Body(g)[b].calls
Successors(g, b) == Body(g)[b].goes
Sites == {<<g, b, k>> : g \in DOMAIN application.body, b \in 1 .. 8, k \in 1 .. 3}

(* applicationScalar: what is known of a value or of a test, if anything.  *)
Scalar(value, known) ==
  CASE value.is = "constant" -> {value.of}
    [] value.is = "parameter" -> known[value.of]
    [] OTHER -> {}

Compared(test, x, y) ==
  (CASE test.op = "=" -> x = y [] test.op = "#" -> x # y [] test.op = "<" -> x < y) # test.not
Truth(test, known) ==
  IF test.op = "opaque" THEN {}
  ELSE {Compared(test, x, y) : x \in Scalar(test.left, known), y \in Scalar(test.right, known)}

-----------------------------------------------------------------------------
(* Blocks reached from the entry of g without passing d. *)
Avoiding(g, d) ==
  FoldLeft(LAMBDA S, k : (S \cup UNION {ToSet(Successors(g, b)) : b \in S}) \ {d},
           {1} \ {d}, Body(g))
Dominates(g, d, b) == d = b \/ b \notin Avoiding(g, d)
Exits(g) == {b \in PathBlocks(g) : Successors(g, b) = <<>>}

(* The blocks after b, of those that were not seen, without which g is not *)
(* left.                                                                   *)
AnyAfter(g, b, seen) == {c \in PathBlocks(g) \ seen : c # b /\ Dominates(g, b, c)}
Unavoidable(g, b, seen) == {c \in AnyAfter(g, b, seen) : \A e \in Exits(g) : Dominates(g, c, e)}

TakenSwapped(g, b, truth) == <<Successors(g, b)[IF truth THEN 2 ELSE 1]>>

Taken(g, b, truth) == <<Successors(g, b)[IF truth THEN 1 ELSE 2]>>
Onward(g, b, known, seen) ==
  IF Len(Successors(g, b)) # 2 THEN Successors(g, b)
  ELSE LET truth == Truth(Body(g)[b].test, known)
       IN IF truth # {} THEN Taken(g, b, CHOOSE x \in truth : TRUE)
          ELSE SetToSortSeq(Unavoidable(g, b, seen), <)

(* walkApplicationArguments; w is what is found so far and what is left of *)
(* the budget.                                                             *)
Passed(call, known) == [i \in DOMAIN call.args |-> Scalar(call.args[i], known)]

RECURSIVE Walk(_, _, _, _), Drain(_, _, _, _, _, _)
Walk(w, g, known, active) ==
  IF ~Own(g) \/ Len(active) > Depth \/ Contains(active, g) THEN w
  ELSE Drain(w, g, known, Append(active, g), <<1>>, {})

Drain(w, g, known, active, queue, seen) ==
  IF queue = <<>> \/ w.budget = 0 THEN w
  ELSE LET b == Head(queue)
           paid == [w EXCEPT !.budget = @ - 1]
           enter(x, k) ==
             LET call == Calls(g, b)[k]
             IN Walk([x EXCEPT !.found = @ \cup {<<g, b, k>>}], call.to, Passed(call, known), active)
       IN IF b \in seen THEN Drain(paid, g, known, active, Tail(queue), seen)
          ELSE Drain(FoldLeft(enter, paid, [k \in DOMAIN Calls(g, b) |-> k]), g, known, active,
                     Tail(queue) \o Onward(g, b, known, seen \cup {b}), seen \cup {b})

(* walkApplicationCalls: of events the values are known, one at a time. *)
RootKnown == <<IF application.events = {} THEN {} ELSE {event}>>
Found == Walk([found |-> {}, budget |-> Budget], application.root, RootKnown, <<>>).found

-----------------------------------------------------------------------------
(* The root runs.  A frame has the values of the parameters and what the   *)
(* callers show of them, where it is, and the calls that wait for its end. *)
Values == 0 .. 1
Frame(g, values, known) ==
  [fn |-> g, values |-> values, known |-> known, block |-> 1, at |-> 1, deferred |-> <<>>]
Top == Head(stack)
Here == Body(Top.fn)[Top.block]
Value(v, choice) ==
  CASE v.is = "constant" -> v.of [] v.is = "parameter" -> Top.values[v.of] [] OTHER -> choice

Init ==
  /\ application \in Applications
  /\ event \in IF application.events = {} THEN {0} ELSE application.events
  /\ stack = <<Frame(application.root, <<event>>, RootKnown)>>
  /\ ran = {} /\ end = "open" /\ beyond = FALSE

Enter(site, call, rest) ==
  /\ ran' = ran \cup {site}
  /\ IF Own(call.to) /\ Len(stack) < Frames
     THEN /\ \E choice \in Values :
               stack' = <<Frame(call.to, [i \in DOMAIN call.args |-> Value(call.args[i], choice)],
                                Passed(call, Top.known))>> \o rest
          /\ beyond' = (beyond \/ Len(stack) > Depth \/ \E k \in DOMAIN stack : stack[k].fn = call.to)
     ELSE stack' = rest /\ beyond' = (beyond \/ Own(call.to))
  /\ UNCHANGED <<application, event, end>>

MakeCall ==
  /\ stack # <<>> /\ Top.at <= Len(Here.calls)
  /\ ~Here.calls[Top.at].late
  /\ Enter(<<Top.fn, Top.block, Top.at>>, Here.calls[Top.at],
           <<[Top EXCEPT !.at = @ + 1]>> \o Tail(stack))

Defer ==
  /\ stack # <<>> /\ Top.at <= Len(Here.calls)
  /\ Here.calls[Top.at].late /\ Len(Top.deferred) < Frames
  /\ stack' = <<[Top EXCEPT !.at = @ + 1, !.deferred = <<<<Top.block, Top.at>>>> \o @]>> \o Tail(stack)
  /\ UNCHANGED <<application, event, ran, end, beyond>>

GoOn ==
  /\ stack # <<>> /\ Top.at > Len(Here.calls) /\ Here.goes # <<>>
  /\ \E truth \in
       IF Here.test.op = "opaque" THEN BOOLEAN
       ELSE {Compared(Here.test, Value(Here.test.left, x), Value(Here.test.right, x)) : x \in Values} :
         stack' = <<[Top EXCEPT !.block = IF Len(Here.goes) = 2 /\ ~truth THEN Here.goes[2]
                                          ELSE Here.goes[1], !.at = 1]>> \o Tail(stack)
  /\ beyond' = (beyond \/ (Len(Here.goes) = 2 /\ Truth(Here.test, Top.known) = {}))
  /\ UNCHANGED <<application, event, ran, end>>

Leaving == stack # <<>> /\ Top.at > Len(Here.calls) /\ Here.goes = <<>>

MakeDeferredCall ==
  /\ Leaving /\ Top.deferred # <<>>
  /\ LET d == Head(Top.deferred)
     IN Enter(<<Top.fn, d[1], d[2]>>, Body(Top.fn)[d[1]].calls[d[2]],
              <<[Top EXCEPT !.deferred = Tail(@)]>> \o Tail(stack))

Return ==
  /\ Leaving /\ Top.deferred = <<>>
  /\ stack' = IF Here.panics THEN <<>> ELSE Tail(stack)
  /\ end' = CASE Here.panics -> "panicked" [] Len(stack) = 1 -> "returned" [] OTHER -> end
  /\ UNCHANGED <<application, event, ran, beyond>>

Next == MakeCall \/ Defer \/ GoOn \/ MakeDeferredCall \/ Return

-----------------------------------------------------------------------------
TypeOK ==
  /\ ran \subseteq Sites /\ end \in {"open", "returned", "panicked"} /\ beyond \in BOOLEAN
  /\ \A k \in DOMAIN stack : Own(stack[k].fn) /\ stack[k].block \in PathBlocks(stack[k].fn)

(* application_paths.go:12, "never guessed feasibility": every call that   *)
(* is found is made whenever the root returns, whatever the branches that  *)
(* were not decided; and a call that is made is found while the execution  *)
(* passed decided branches only.                                           *)
PathsTrue ==
  /\ end = "returned" => Found \subseteq ran
  /\ ~beyond => ran \subseteq Found
=============================================================================
