---------------------------- MODULE Terminations ----------------------------
(* The two proofs that a game loses a resource when it is terminated: of    *)
(* handles that HandleLifecycle itself obtains                              *)
(* (analyzer/application_termination.go), and of private fields that only   *)
(* constructors set (analyzer/application_fields.go).  Both walk the        *)
(* blocks of HandleLifecycle, a path at a time; beside them it is executed  *)
(* in every way its calls and branches may turn out.                        *)
EXTENDS Naturals, Sequences, SequencesExt

CONSTANTS
  Handlers,  \* [code: blocks of [does, test, goes], uses: field -> its uses elsewhere]
  Handles,   \* where HandleLifecycle obtains a handle
  Fields,    \* private fields of the game, of an owned type
  Steps      \* how many paths a proof visits; 256 in the code

VARIABLES
  handler,
  walks,    \* proof -> the paths it is to go on with
  steps,    \* proof -> the paths it visited
  told,     \* what is reported: a handle, or where a field is lost
  reached,  \* where executions are at a block's start
  fresh,    \* those that were not continued yet
  lost,     \* what executions lose
  owed      \* what of it a test had found to be set

terminations == <<handler, walks, steps, told, reached, fresh, lost, owed>>

Proofs == {"handles", "fields"}
code == handler.code

(* A test compares for equality: the event with LifecycleTerminate, the    *)
(* error of a handle or a field with nil; equal is whether the first       *)
(* successor is that of equal sides.  "opaque" is any other condition, and *)
(* a block whose test is "panic" does not return.                          *)
Equal(b) == IF code[b].test.equal THEN 1 ELSE 2
Returns(b) == code[b].goes = <<>> /\ code[b].test.on # "panic"
Start(b) == [block |-> b, live |-> {}, pending |-> {}, visited |-> {}]

Step(proof, onward, found) ==
  /\ steps' = [steps EXCEPT ![proof] = @ + 1]
  /\ walks' = [walks EXCEPT ![proof] = Tail(@) \o onward]
  /\ told' = told \cup found
  /\ UNCHANGED <<handler, reached, fresh, lost, owed>>

Walking(proof) == walks[proof] # <<>> /\ steps[proof] < Steps
Again(proof) ==
  /\ Walking(proof)
  /\ LET w == Head(walks[proof]) IN w.block \in w.visited /\ Step(proof, <<>>, {})

(* The paths on, to some of the successors, each with what it then knows. *)
Onto(w) == DOMAIN code[w.block].goes
Onward(w, followed, known) ==
  LET ways == SelectSeq([n \in Onto(w) |-> n], LAMBDA n : n \in followed)
  IN [k \in DOMAIN ways |->
        [known[ways[k]] EXCEPT !.block = code[w.block].goes[ways[k]],
                               !.visited = @ \cup {w.block}]]

-----------------------------------------------------------------------------
(* checkTerminationResources: handles are pending until their error is     *)
(* tested, and live where it is nil; unknown calls end what is known.      *)
Settle(w, h) == [w EXCEPT !.live = @ \ {h}, !.pending = @ \ {h}]
AfterLocal(w, i) ==
  CASE i.op = "acquire" -> [w EXCEPT !.pending = @ \cup {i.on}]
    [] i.op \in {"close", "store"} -> Settle(w, i.on)
    [] i.op \in {"call", "box"} -> [w EXCEPT !.live = {}, !.pending = {}]
    [] OTHER -> w

Understood(w, n) ==
  LET test == code[w.block].test IN
    CASE test.on = "none" -> TRUE
      [] test.on = "event" -> n = Equal(w.block)
      [] test.on = "error" -> test.of \in w.pending
      [] OTHER -> FALSE
Tested(w, n) ==
  LET test == code[w.block].test IN
    IF test.on # "error" THEN w
    ELSE [w EXCEPT !.pending = @ \ {test.of},
                   !.live = IF n = Equal(w.block) THEN @ \cup {test.of} ELSE @]

VisitHandles ==
  /\ Walking("handles")
  /\ LET w == Head(walks["handles"])
         ran == FoldLeft(AfterLocal, w, code[w.block].does) IN
       /\ w.block \notin w.visited
       /\ Step("handles",
               Onward(ran, {n \in Onto(ran) : Understood(ran, n)}, [n \in Onto(ran) |-> Tested(ran, n)]),
               IF Returns(w.block) THEN ran.live ELSE {})

-----------------------------------------------------------------------------
(* checkApplicationFields: a field is owned if it is only set to nil and   *)
(* to what a constructor returns for nothing else, and read to be compared *)
(* with nil; it is live where a test found it set, and pending, known to   *)
(* be nil, where not.                                                      *)
Harmless == {"acquired", "cleared", "compared"}
Uses(f) ==
  handler.uses[f] \cup
    (IF \E b \in DOMAIN code : \E n \in DOMAIN code[b].does :
          code[b].does[n].op = "use" /\ code[b].does[n].on = f THEN {"used"} ELSE {})
Owned(f) == "acquired" \in Uses(f) /\ Uses(f) \subseteq Harmless

Called == {"acquire", "close", "call", "use"}
Quiet(does) ==
  LET calls == {n \in DOMAIN does : does[n].op \in Called}
  IN IF calls = {} THEN does ELSE SubSeq(does, 1, (CHOOSE n \in calls : \A k \in calls : n <= k) - 1)
AfterField(s, i, place) ==
  IF i.op = "clear" /\ i.on \in s.walk.live
  THEN [walk |-> [s.walk EXCEPT !.live = @ \ {i.on}, !.pending = @ \cup {i.on}],
        found |-> s.found \cup {place}]
  ELSE s
RanFields(w) ==
  LET does == Quiet(code[w.block].does)
  IN FoldLeftDomain(LAMBDA s, n : AfterField(s, does[n], <<w.block, n>>),
                    [walk |-> w, found |-> {}], does)

Consistent(w, n) ==
  LET test == code[w.block].test IN
    CASE test.on = "none" -> TRUE
      [] test.on = "event" -> n = Equal(w.block)
      [] test.on = "field" -> /\ Owned(test.of)
                              /\ test.of \notin (IF n = Equal(w.block) THEN w.live ELSE w.pending)
      [] OTHER -> FALSE
Compared(w, n) ==
  LET test == code[w.block].test IN
    IF test.on # "field" THEN w
    ELSE IF n = Equal(w.block) THEN [w EXCEPT !.pending = @ \cup {test.of}]
    ELSE [w EXCEPT !.live = @ \cup {test.of}]

VisitFields ==
  /\ Walking("fields")
  /\ LET w == Head(walks["fields"])
         ran == RanFields(w)
         quiet == Quiet(code[w.block].does) = code[w.block].does IN
       /\ w.block \notin w.visited
       /\ Step("fields",
               IF ~quiet THEN <<>>
               ELSE Onward(ran.walk, {n \in Onto(ran.walk) : Consistent(ran.walk, n)},
                           [n \in Onto(ran.walk) |-> Compared(ran.walk, n)]),
               ran.found \cup
                 (IF quiet /\ Returns(w.block) /\ ran.walk.live # {} THEN {<<w.block, 0>>} ELSE {}))

-----------------------------------------------------------------------------
(* What happens when the game is terminated.  A handle is open, closed,    *)
(* given away or, if its constructor failed, nil; a field holds the only   *)
(* handle of something, or one that is used or closed elsewhere.           *)
FieldValues(f) ==
  {"nil"} \cup (IF Uses(f) \cap {"acquired", "shared"} # {} /\ "closed" \notin Uses(f)
               THEN {"held"} ELSE {})
    \cup (IF Uses(f) \subseteq Harmless THEN {} ELSE {"gone"})
Begun ==
  {[block |-> 1, handle |-> [h \in Handles |-> "nil"], field |-> g, shown |-> {}] :
     g \in {v \in [Fields -> {"nil", "held", "gone"}] : \A f \in Fields : v[f] \in FieldValues(f)}}

Handed(c, i, status) ==
  {[c EXCEPT !.handle[i.on] = IF @ = "open" THEN status ELSE @]}
Elsewhere(c) ==
  [c EXCEPT !.handle = [h \in Handles |-> IF @[h] = "open" THEN "closed" ELSE @[h]],
            !.field = [f \in Fields |-> IF @[f] = "held" THEN "gone" ELSE @[f]]]
Execute(c, i) ==
  CASE i.op = "acquire" -> {[c EXCEPT !.handle[i.on] = s] : s \in {"open", "nil"}}
    [] i.op = "close" -> IF c.handle[i.on] = "nil" THEN {} ELSE Handed(c, i, "closed")
    [] i.op \in {"store", "box", "insert"} -> Handed(c, i, "given")
    [] i.op = "call" -> {IF i.on = "cleanup" THEN Elsewhere(c) ELSE c}
    [] i.op = "use" -> IF c.field[i.on] = "nil" THEN {} ELSE {[c EXCEPT !.field[i.on] = "gone"]}
    [] i.op = "clear" -> {[c EXCEPT !.field[i.on] = "nil"]}
    [] OTHER -> {c}

Executed(b, start) ==
  FoldLeftDomain(
    LAMBDA s, n :
      LET i == code[b].does[n]
          losing == {c \in s.at : i.op = "clear" /\ c.field[i.on] = "held"} IN
        [at |-> UNION {Execute(c, i) : c \in s.at},
         lost |-> s.lost \cup {<<b, n>> : c \in losing},
         owed |-> s.owed \cup {<<b, n>> : c \in {d \in losing : i.on \in d.shown}}],
    [at |-> {start}, lost |-> {}, owed |-> {}], code[b].does)

Holds(c, n) ==
  LET test == code[c.block].test IN
    CASE test.on = "event" -> n = Equal(c.block)
      [] test.on = "error" -> (n = Equal(c.block)) <=> c.handle[test.of] # "nil"
      [] test.on = "field" -> (n = Equal(c.block)) <=> c.field[test.of] = "nil"
      [] OTHER -> TRUE
Went(c, n) ==
  LET test == code[c.block].test IN
    [c EXCEPT !.block = code[c.block].goes[n],
              !.shown = IF test.on = "field" /\ n # Equal(c.block) THEN @ \cup {test.of} ELSE @]
Open(c) == {h \in Handles : c.handle[h] = "open"}
AtReturn(c, among) == IF \E f \in among : c.field[f] = "held" THEN {<<c.block, 0>>} ELSE {}

(* All that were not continued yet go on for a block. *)
Continue ==
  LET ran == {Executed(c.block, c) : c \in fresh}
      ends == UNION {r.at : r \in ran}
      returned == {d \in ends : Returns(d.block)}
      onward == UNION {{Went(d, n) : n \in {m \in DOMAIN code[d.block].goes : Holds(d, m)}} : d \in ends}
  IN /\ fresh # {}
     /\ reached' = reached \cup onward
     /\ fresh' = onward \ reached
     /\ lost' = lost \cup UNION {r.lost : r \in ran}
                     \cup UNION {Open(d) \cup AtReturn(d, Fields) : d \in returned}
     /\ owed' = owed \cup UNION {r.owed : r \in ran}
                     \cup UNION {Open(d) \cup AtReturn(d, d.shown) : d \in returned}
     /\ UNCHANGED <<handler, walks, steps, told>>

-----------------------------------------------------------------------------
NothingTold ==
  /\ walks = [p \in Proofs |-> <<Start(1)>>] /\ steps = [p \in Proofs |-> 0] /\ told = {}
  /\ reached = Begun /\ fresh = Begun /\ lost = {} /\ owed = {}
Init == handler \in Handlers /\ NothingTold
(* One after the other; in which order is the same to all. *)
Next ==
  \/ \E p \in Proofs : Again(p)
  \/ VisitHandles
  \/ walks["handles"] = <<>> /\ VisitFields
  \/ (\A p \in Proofs : walks[p] = <<>>) /\ Continue
Spec == Init /\ [][Next]_terminations

Over == (\A p \in Proofs : ~Walking(p)) /\ fresh = {}

TypeOK ==
  /\ \A p \in Proofs : steps[p] \in 0 .. Steps
  /\ fresh \subseteq reached /\ owed \subseteq lost

(* API.md:324 and :351-360: what is reported is lost when the game is      *)
(* terminated, whatever is called meanwhile; and where no other calls and  *)
(* no loops are made and every condition is one that the proof resolves,   *)
(* what is lost where a test showed it to be set is reported.              *)
Ops(S) == \A b \in DOMAIN code : \A n \in DOMAIN code[b].does : code[b].does[n].op \in S
TestedAtOnce(b) ==
  \E n \in DOMAIN code[b].does :
    /\ code[b].does[n] = [op |-> "acquire", on |-> code[b].test.of]
    /\ \A k \in n + 1 .. Len(code[b].does) : code[b].does[k].op = "acquire"
Resolved(proof) ==
  \A b \in DOMAIN code :
    /\ \A n \in DOMAIN code[b].goes : code[b].goes[n] > b
    /\ \/ code[b].test.on \in {"none", "panic", "event"}
       \/ proof = "handles" /\ code[b].test.on = "error" /\ TestedAtOnce(b)
       \/ proof = "fields" /\ code[b].test.on = "field" /\ Owned(code[b].test.of)
LossesTold ==
  Over =>
    /\ told \subseteq lost
    /\ Resolved("handles") /\ Ops({"acquire", "close", "store", "clear"}) => owed \cap Handles \subseteq told
    /\ Resolved("fields") /\ Ops({"clear"}) => owed \ Handles \subseteq told
=============================================================================
