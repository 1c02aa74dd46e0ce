---------------------------- MODULE Capabilities ----------------------------
(* The analysis of assertions that a context has an optional capability    *)
(* (analyzer/capability_*.go), beside a game of that code which runs: it   *)
(* is initialized and updated with one context, its closures are called    *)
(* back, and other packages call what it exports.                          *)
EXTENDS Naturals, Sequences, FiniteSets, SequencesExt

CONSTANTS
  Programs,   \* the games: their functions and how they may be called
  Methods,    \* what a context may have beyond Context
  Depth,      \* how far guards and calls are followed; eight in the code
  Frames      \* a bound on the calls that run

VARIABLES
  program,
  support,    \* the methods of the game's context
  phase,      \* "new", "initialized" or "over"
  stack,      \* the frames that run: function, block, context, error
  field,      \* the game's private field: "nil" or "set"
  captured,   \* what is in the variable that the closure captured, or "none"
  told        \* the assertions that were run and how they turned out

vars == <<program, support, phase, stack, field, captured, told>>

(* A block does one thing, and returns or goes on as its test turns out.   *)
(* A capability is a set of methods.  A test is on a check of the context, *)
(* on the private field, on an error, or on anything else; its steps are   *)
(* the negations and helpers that its value goes through.                  *)
Bodies == program.body
GameFunctions == DOMAIN program.body
Blocks(g) == DOMAIN Bodies[g]
Goes(g, b) == Bodies[g][b].goes
Test(g, b) == Bodies[g][b].test
Does(g, b) == Bodies[g][b].does
Judged == {"assert", "check"}

(* [op, target, calls, passes, value]: a judgement of the context, a call, *)
(* a write of the field, the making of a closure, a new value for the      *)
(* variable that closures capture, or none of these.                       *)
Places(ops) == {gb \in UNION {{g} \X Blocks(g) : g \in GameFunctions} : Does(gb[1], gb[2]).op \in ops}

(* Blocks reached from the entry of g without passing d. *)
Avoiding(g, d) ==
  FoldLeft(LAMBDA S, k : (S \cup UNION {ToSet(Goes(g, b)) : b \in S}) \ {d},
           {1} \ {d}, Bodies[g])
Dominates(g, d, b) == d = b \/ b \notin Avoiding(g, d)
StrictDominators(g, b) == {d \in Blocks(g) \ {b} : Dominates(g, d, b)}

Makes(g) == {p \in Places({"make"}) : p[1] = g}
Makers(g) == {p \in Places({"make"}) : Does(p[1], p[2]).calls = g}

Negations(test) == Cardinality({k \in DOMAIN test.steps : test.steps[k] = "not"})
Negated(test) == Negations(test) % 2 = 1

(* Helpers of any package tell something only if they return in one place. *)
Transparent(test) == "opaque" \notin ToSet(test.steps)

(* resolveCapabilityGuard *)
Resolved(test) == test.on = "check" /\ Transparent(test) /\ Len(test.steps) <= Depth

(* The side of a branch that leads to b, if only one does. *)
Side(g, d, b) ==
  IF Len(Goes(g, d)) # 2 THEN "none"
  ELSE IF Dominates(g, Goes(g, d)[1], b) THEN "true"
  ELSE IF Dominates(g, Goes(g, d)[2], b) THEN "false" ELSE "none"

Outcome(truth) == IF truth THEN "true" ELSE "false"

Verdict(g, d, b, target) ==
  LET test == Test(g, d)
      success == (Side(g, d, b) = "true") # Negated(test)
  IN IF Side(g, d, b) = "none" \/ ~Resolved(test) THEN "unknown"
     ELSE IF success /\ target \subseteq test.target THEN "present"
     ELSE IF ~success /\ test.target \subseteq target THEN "absent" ELSE "unknown"

(* A variable that closures capture is known by its first value, while     *)
(* nothing else is assigned; in a closure each use of it is another value. *)
Followed(g) == g \notin program.closures /\ (Places({"assign"}) = {} \/ Makes(g) = {})

(* capabilityOnPath: the nearest branch that decides. *)
OnPath(g, source, target, b) ==
  LET deciding == {d \in StrictDominators(g, b) : Verdict(g, d, b, target) # "unknown"}
      nearest == {d \in deciding : \A e \in deciding : Dominates(g, e, d)}
  IN IF source = "nil" THEN "absent"
     ELSE IF source # "context" \/ deciding = {} \/ ~Followed(g) THEN "unknown"
     ELSE Verdict(g, CHOOSE d \in nearest : TRUE, b, target)

(* capturedCapability: what is known where a closure is made, if nothing   *)
(* assigns the variable that it captures.                                  *)
Captured(g, target) ==
  IF Makers(g) = {} \/ Places({"assign"}) # {} THEN "unknown"
  ELSE LET p == CHOOSE q \in Makers(g) : TRUE IN OnPath(p[1], "context", target, p[2])

CapabilityAt(g, target, b) ==
  IF OnPath(g, "context", target, b) # "unknown" THEN OnPath(g, "context", target, b)
  ELSE Captured(g, target)

-----------------------------------------------------------------------------
(* What the callers of a function prove.                                   *)
CallSites(g) == {p \in Places({"call"}) : Does(p[1], p[2]).calls = g}

(* definitelyNonNilError, of what is returned in block b. *)
NonNilError(g, b) ==
  \/ Bodies[g][b].gives = "error"
  \/ /\ Bodies[g][b].gives = "err"
     /\ \E d \in StrictDominators(g, b) :
          Test(g, d).on = "err" /\ Side(g, d, b) = Outcome(~Negated(Test(g, d)))

(* fallbackExcluded: Init's only assignment of the field says that the     *)
(* block b of Update is not reached after this return.                     *)
FallbackExcluded(return, b) ==
  /\ Cardinality(Places({"store"})) = 1
  /\ \E p \in Places({"store"}), d \in StrictDominators("update", b) :
       /\ p[1] = "init" /\ Dominates("init", p[2], return)
       /\ Test("update", d).on = "field"
       /\ \/ Does(p[1], p[2]).value = "nil"
             /\ Side("update", d, b) = Outcome(~Negated(Test("update", d)))
          \/ Does(p[1], p[2]).value = "set"
             /\ Side("update", d, b) = Outcome(Negated(Test("update", d)))

(* initRequiresCapability: without the capability Init fails.  Here only   *)
(* Init's own checks count, not those of helpers.                          *)
Forced(test, target) ==
  test.on = "check" /\ ToSet(test.steps) \subseteq {"not"} /\ target \subseteq test.target
Onward(b, target) ==
  IF Forced(Test("init", b), target) /\ Len(Goes("init", b)) = 2
  THEN {Goes("init", b)[IF Negated(Test("init", b)) THEN 1 ELSE 2]}
  ELSE ToSet(Goes("init", b))

WithoutIt(from, target) ==
  FoldLeft(LAMBDA S, k : S \cup UNION {Onward(b, target) : b \in S}, from, Bodies["init"])

InitRequires(target, location) ==
  LET reached == WithoutIt({1}, target) IN
    /\ \E p \in Places({"check"}) : p[1] = "init" /\ target \subseteq Does(p[1], p[2]).target
    /\ \A b \in reached :
         /\ b \notin WithoutIt(Onward(b, target), target)
         /\ Goes("init", b) = <<>> => NonNilError("init", b) \/ FallbackExcluded(b, location)

RequirementInAnyCall(g, target, b) == g = "update" /\ InitRequires(target, b)
RuntimeRequirement(g, target, b) ==
  g = "update" /\ CallSites("update") = {} /\ InitRequires(target, b)

(* flow.present *)
RECURSIVE Present(_, _, _, _, _, _)
Present(g, source, target, b, active, depth) ==
  /\ depth <= Depth
  /\ \/ OnPath(g, source, target, b) = "present"
     \/ /\ OnPath(g, source, target, b) = "unknown" /\ source = "context"
        /\ <<g, target>> \notin active /\ g \notin program.escaped \cup program.closures
        /\ \/ RuntimeRequirement(g, target, b)
           \/ /\ g \notin program.exported /\ CallSites(g) # {}
              /\ \A p \in CallSites(g) :
                   Present(p[1], Does(p[1], p[2]).passes, target, p[2],
                           active \cup {<<g, target>>}, depth + 1)

(* The finding of an assertion, or "none" (capability_rules.go:54). *)
Related(g, target) ==
  \E p \in Places({"check"}) :
    /\ p[1] \notin {g} \cup {m[1] : m \in Makers(g)}
    /\ Does(p[1], p[2]).target = target

Finding(g, b) ==
  LET i == Does(g, b)
      at == CapabilityAt(g, i.target, b)
  IN CASE i.op = "check" -> IF at = "unknown" THEN "none" ELSE "redundant-" \o at
       [] at = "absent" -> "impossible"
       [] at = "present" \/ Present(g, "context", i.target, b, {}, 0) -> "none"
       [] OTHER -> IF Related(g, i.target) THEN "unproven" ELSE "unchecked"

-----------------------------------------------------------------------------
(* The game runs. *)
Supports(context) == IF context = "game's" THEN support ELSE {}
Frame(g, context, err) == [fn |-> g, block |-> 1, context |-> context, err |-> err]
Top == Head(stack)

Init ==
  /\ program \in Programs /\ support \in SUBSET Methods
  /\ phase = "new" /\ stack = <<>> /\ field = "nil" /\ captured = "none" /\ told = {}

Start(g, context) ==
  /\ stack = <<>>
  /\ \E err \in BOOLEAN : stack' = <<Frame(g, context, err)>>
  /\ UNCHANGED <<program, support, phase, field, captured, told>>

CallInit == phase = "new" /\ Start("init", "game's")
CallUpdate == phase = "initialized" /\ Start("update", "game's")
CallBack ==
  /\ phase = "initialized" /\ captured # "none"
  /\ \E g \in program.closures : Start(g, captured)
CallFromOutside ==
  /\ phase # "over"
  /\ \E g \in program.exported \cup program.escaped : Start(g, "other")

(* How the test of the top frame's block may turn out. *)
Outcomes ==
  LET test == Test(Top.fn, Top.block)
  IN CASE test.on = "check" -> {(test.target \subseteq Supports(Top.context)) # Negated(test)}
       [] test.on = "field" -> {(field = "set") # Negated(test)}
       [] test.on = "err" -> {Top.err # Negated(test)}
       [] OTHER -> BOOLEAN

Nexts ==
  LET goes == Goes(Top.fn, Top.block)
  IN IF Len(goes) = 2 THEN {goes[IF outcome THEN 1 ELSE 2] : outcome \in Outcomes}
     ELSE ToSet(goes)

Returned ==
  /\ Goes(Top.fn, Top.block) = <<>>
  /\ stack' = Tail(stack)
  /\ LET gives == Bodies[Top.fn][Top.block].gives
         fails == gives = "error" \/ (gives = "err" /\ Top.err)
     IN phase' = IF Top.fn # "init" THEN phase ELSE IF fails THEN "over" ELSE "initialized"

(* The top frame goes on with its context, above it what it calls. *)
Advanced(context, pushed) ==
  /\ \E b \in Nexts :
       stack' = pushed \o <<[Top EXCEPT !.block = b, !.context = context]>> \o Tail(stack)
  /\ UNCHANGED phase

Went(context) == Advanced(context, <<>>) \/ Returned

Judge ==
  LET i == Does(Top.fn, Top.block)
      holds == i.target \subseteq Supports(Top.context)
  IN /\ i.op \in Judged
     /\ told' = told \cup {<<Top.fn, Top.block, holds>>}
     /\ IF i.op = "assert" /\ ~holds THEN phase' = "over" /\ stack' = <<>> ELSE Went(Top.context)
     /\ UNCHANGED <<program, support, field, captured>>

Call ==
  LET i == Does(Top.fn, Top.block)
      context == CASE i.passes = "context" -> Top.context [] OTHER -> i.passes
  IN /\ i.op = "call"
     /\ Len(stack) < Frames
     /\ \E err \in BOOLEAN : Advanced(Top.context, <<Frame(i.calls, context, err)>>)
     /\ UNCHANGED <<program, support, field, captured, told>>

Assign ==
  LET i == Does(Top.fn, Top.block)
  IN /\ i.op \in {"store", "make", "assign", "none"}
     /\ field' = IF i.op = "store" THEN i.value ELSE field
     /\ captured' = IF i.op = "make" THEN Top.context
                    ELSE IF i.op = "assign" /\ captured # "none" THEN "other" ELSE captured
     /\ Went(IF i.op = "assign" THEN "other" ELSE Top.context)
     /\ UNCHANGED <<program, support, told>>

Step == stack # <<>> /\ (Judge \/ Call \/ Assign)

Next == CallInit \/ CallUpdate \/ CallBack \/ CallFromOutside \/ Step

-----------------------------------------------------------------------------
TypeOK ==
  /\ support \subseteq Methods
  /\ phase \in {"new", "initialized", "over"}
  /\ \A k \in DOMAIN stack :
       stack[k].fn \in GameFunctions /\ stack[k].block \in Blocks(stack[k].fn)
  /\ field \in {"nil", "set"}
  /\ captured \in {"none", "game's", "other", "nil"}
  /\ \A t \in told : <<t[1], t[2]>> \in Places(Judged)

Refuted(t) == t[3] /\ Finding(t[1], t[2]) \in {"impossible", "redundant-absent"}

Missed(t) ==
  LET finding == Finding(t[1], t[2])
  IN /\ ~t[3]
     /\ finding = "redundant-present" \/ (finding = "none" /\ Does(t[1], t[2]).op = "assert")

(* API.md:453, "is known to fail if reached": an assertion that is called  *)
(* impossible never succeeds, nor does a check that is called redundant    *)
(* because it fails (capability_rules.go:68).                              *)
ImpossibleFails == \A t \in told : ~Refuted(t)

(* API.md:452, "has no proven successful guard": besides, no assertion     *)
(* panics that is not reported, and a check that is called redundant       *)
(* because it succeeds does (capability_rules.go:54), whenever either is   *)
(* reached.                                                                *)
FindingsTrue == [][\A t \in told' \ told : ~Refuted(t) /\ ~Missed(t)]_vars
=============================================================================
