----------------------------- MODULE Summaries -----------------------------
(* What the ownership analysis learns of a package's functions before it   *)
(* looks at any of them (analyzer/ownership_summaries.go): for every       *)
(* parameter whether the function closes it or gives it away, which        *)
(* parameters it leaves retained, and whether its result is an owned or a  *)
(* borrowed handle.  The functions are summarised in turn, from what is    *)
(* known of the others, until a round changes nothing or Rounds are over.  *)
EXTENDS Naturals, Sequences, FiniteSets, SequencesExt

CONSTANTS
  Packages,   \* what a package may be: its functions in order and their bodies
  Facts,      \* the summaries imported of other packages' functions
  Rounds      \* eight in the code

VARIABLES
  package,    \* [order, body], one of Packages
  known,      \* the summaries so far
  round, turn, changed,
  exhausted   \* the budget ran out: "budget", not: "no", and undecided: "open"

summaries == <<package, known, round, turn, changed, exhausted>>

Params == 1 .. 2
Effects == {"close", "transfer"}

(* An instruction has an op, args (parameters, or 0 for another value),    *)
(* to (the functions it may call; more than one for an interface call)     *)
(* and kind (of the retention or of the result).                           *)
Summary ==
  [effects : [Params -> SUBSET Effects], kept : Seq(Params \X STRING),
   result : {"unknown", "owned", "borrowed"}]

Nothing == [effects |-> [p \in Params |-> {}], kept |-> <<>>, result |-> "unknown"]

Own == DOMAIN package.body
Imports == DOMAIN Facts
Names == Own \cup Imports

(* hasOwnershipSummary. *)
Tells(s) == s # Nothing

(* An interface call has a summary if those of its targets that tell       *)
(* something, at most four, tell the same; a target that tells nothing is  *)
(* passed over.                                                            *)
Callee(i) ==
  LET told == {known[g] : g \in {h \in i.to : Tells(known[h])}}
  IN IF Cardinality({h \in i.to : Tells(known[h])}) \in 1 .. 4 /\ Cardinality(told) = 1
     THEN CHOOSE s \in told : TRUE ELSE Nothing

(* Not a call of one function of this package. *)
Opaque(i) == Cardinality(i.to) # 1 \/ i.to \subseteq DOMAIN Facts

Affect(s, p, effects) ==
  IF p \in Params THEN [s EXCEPT !.effects[p] = @ \cup effects] ELSE s

(* appendUniqueRetention. *)
Keep(s, p, kind) ==
  IF p \in Params /\ ~Contains(s.kept, <<p, kind>>)
  THEN [s EXCEPT !.kept = Append(@, <<p, kind>>)] ELSE s

(* A call does to its arguments what the callee does to its parameters. *)
Through(s, i, callee) ==
  LET affected == FoldLeftDomain(LAMBDA t, j : Affect(t, i.args[j], callee.effects[j]), s, i.args)
  IN FoldLeft(LAMBDA t, k : IF k[1] \in DOMAIN i.args THEN Keep(t, i.args[k[1]], k[2]) ELSE t,
              affected, callee.kept)

GiveAway(s, i) == FoldLeft(LAMBDA t, p : Affect(t, p, {"transfer"}), s, i.args)

Add(s, i) ==
  CASE i.op = "close" -> Affect(s, i.args[1], {"close"})
    [] i.op = "keep" -> Keep(s, i.args[1], i.kind)
    [] i.op = "call" -> IF Tells(Callee(i)) THEN Through(s, i, Callee(i))
                        ELSE IF Opaque(i) THEN GiveAway(s, i) ELSE s
    [] i.op = "return" -> GiveAway(s, i)
    [] i.op = "make" -> [s EXCEPT !.result = i.kind]
    [] i.op = "yield" -> [s EXCEPT !.result = IF Callee(i).result = "unknown" THEN @
                                              ELSE Callee(i).result]

(* summarizeOwnershipFunction. *)
Summarised(f) == FoldLeft(Add, Nothing, package.body[f])

Init ==
  /\ package \in Packages
  /\ known = [f \in Names |-> IF f \in DOMAIN Facts THEN Facts[f] ELSE Nothing]
  /\ round = 1 /\ turn = 1 /\ changed = FALSE /\ exhausted = "open"

SummariseLast ==
  /\ exhausted = "open" /\ turn <= Len(package.order)
  /\ LET fn == package.order[turn] IN
       /\ known' = [known EXCEPT ![fn] = Summarised(fn)]
       /\ changed' = (round = 1 \/ Summarised(fn) # known[fn])
  /\ turn' = turn + 1
  /\ UNCHANGED <<package, round, exhausted>>

(* A function that was never summarised differs from any summary. *)
Summarise ==
  /\ exhausted = "open" /\ turn <= Len(package.order)
  /\ LET fn == package.order[turn] IN
       /\ known' = [known EXCEPT ![fn] = Summarised(fn)]
       /\ changed' = (changed \/ round = 1 \/ Summarised(fn) # known[fn])
  /\ turn' = turn + 1
  /\ UNCHANGED <<package, round, exhausted>>

NextRound ==
  /\ exhausted = "open" /\ turn > Len(package.order)
  /\ IF ~changed THEN exhausted' = "no" /\ UNCHANGED round
     ELSE IF round = Rounds THEN exhausted' = "budget" /\ UNCHANGED round
     ELSE round' = round + 1 /\ UNCHANGED exhausted
  /\ turn' = 1 /\ changed' = FALSE
  /\ UNCHANGED <<package, known>>

Next == Summarise \/ NextRound

-----------------------------------------------------------------------------
TypeOK ==
  /\ known \in [Names -> Summary]
  /\ round \in 1 .. Rounds /\ turn \in 1 .. Len(package.order) + 1
  /\ changed \in BOOLEAN /\ exhausted \in {"open", "no", "budget"}

(* What the functions do to their parameters through any chain of calls,   *)
(* where Follows says which targets a call certainly or possibly reaches.  *)
Direct(op) ==
  {fp \in Own \X Params :
     \E i \in ToSet(package.body[fp[1]]) : i.op = op /\ i.args[1] = fp[2]}

Imported(e) == {gp \in Imports \X Params : e \in Facts[gp[1]].effects[gp[2]]}

Chains(start, Follows(_)) ==
  LET step(s) ==
        s \cup {fp \in Own \X Params :
                  \E i \in ToSet(package.body[fp[1]]) :
                    /\ i.op = "call" /\ Follows(i)
                    /\ \E g \in i.to, j \in DOMAIN i.args : i.args[j] = fp[2] /\ <<g, j>> \in s}
  IN FoldLeft(LAMBDA s, k : step(s), start, [k \in 1 .. 2 * Len(package.order) |-> k])

Closing == {fp \in Names \X Params : "close" \in known[fp[1]].effects[fp[2]]}

(* ownership_summaries.go:38: after every round a function is said to      *)
(* close a parameter only if a chain of calls may close it, and after one  *)
(* that changed nothing, if calls of single functions do.                  *)
SummariesExact ==
  turn > Len(package.order) =>
    LET start == Direct("close") \cup Imported("close") IN
      /\ Closing \subseteq Chains(start, LAMBDA i : TRUE)
      /\ ~changed => Chains(start, LAMBDA i : Cardinality(i.to) = 1) \subseteq Closing
=============================================================================
