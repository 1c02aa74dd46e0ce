----------------------------- MODULE Ownership -----------------------------
(* The ownership analysis of one function of a game                        *)
(* (analyzer/ownership_rules.go): a work list of blocks, each with the     *)
(* handles' flags and who retains them on the way there.  Beside it the    *)
(* function is executed in every way its calls and branches may turn out,  *)
(* and what goes wrong then is compared with what the analysis reports.    *)
EXTENDS Summaries

CONSTANTS
  Functions,   \* the functions that may be analysed
  Handles,     \* where a function obtains a handle
  Maker,       \* Maker[h]: "owned", "borrowed", "wrapper", or a helper's name
  Parent,      \* Parent[h]: the handle that lends h, or Nobody
  Visits,      \* how many blocks an analysis visits at most; 256 in the code
  Nobody

VARIABLES
  code,      \* the function: a sequence of [does, test, goes], one a block
  deep,      \* whether the summaries of helpers are used
  pending,   \* the work list
  seen,      \* the blocks and states that were visited
  visits,
  found,     \* the findings: pairs of a rule and a place
  reached,   \* the configurations that executions reach at a block's start
  fresh,     \* those of them that were not continued yet
  happened,  \* what goes wrong in executions, like findings, and transfers
  owed       \* and what of it the analysis is to find

analysis == <<code, deep, pending, seen, visits, found>>
executions == <<reached, fresh, happened, owed>>

(* An instruction of a function has an op, the handle h, another handle    *)
(* other (what a constructor keeps, or the receiver of a setter), a slot   *)
(* and the helper it calls.  It gives h away by returning it or storing it *)
(* in a field, or a closure captures it.  A block's test is the handle     *)
(* whose error its branch compares with nil, success first.                *)
NoEdge == [owner |-> Nobody, slot |-> "none"]
Multiple == {"channel source"}

(* classifyHandleValue: helpers' results are known to deep analyses only. *)
KindOf(h) ==
  IF Maker[h] \in {"owned", "borrowed", "wrapper"} THEN Maker[h]
  ELSE IF deep THEN known[Maker[h]].result ELSE "unknown"
Tracked(h) == h # Nobody /\ KindOf(h) # "unknown"

(* A variable that a closure captures lives in memory: what calls get are  *)
(* values loaded from there, which are no aliases of the result.           *)
Captured(h) == \E b \in DOMAIN code : \E i \in ToSet(code[b].does) : i.op = "capture" /\ i.h = h
Named(h) == Tracked(h) /\ ~Captured(h)
OwnerNamed(o) == IF Named(o) THEN o ELSE Nobody

Start == [is |-> [h \in Handles |-> {}], keeper |-> [h \in Handles |-> NoEdge]]
Flag(s, h, flag) == [s EXCEPT !.is[h] = @ \cup {flag}]
Closed(s, h) == Named(h) /\ "closed" \in s.is[h]

(* Edges of one owner, and of one slot of a receiver if it is a handle. *)
DropOwner(s, o) ==
  [s EXCEPT !.keeper = [h \in Handles |-> IF @[h].owner = o THEN NoEdge ELSE @[h]]]
DropSlot(s, slot, o) ==
  [s EXCEPT !.keeper =
     [h \in Handles |-> IF @[h].slot = slot /\ (~Named(o) \/ @[h].owner = o)
                        THEN NoEdge ELSE @[h]]]
Retain(s, h, o, slot) ==
  IF Named(h) THEN [s EXCEPT !.keeper[h] = [owner |-> o, slot |-> slot]] ELSE s

(* Children of a closed handle are closed with it. *)
CloseNow(s, h) ==
  LET flagged == DropOwner(Flag(s, h, "closed"), h)
  IN [flagged EXCEPT !.is = [c \in Handles |->
        IF Parent[c] = h /\ Tracked(c) THEN @[c] \cup {"closed"} ELSE @[c]]]

Receiver(i) ==
  CASE i.op = "acquire" -> Parent[i.h]
    [] i.op = "use" -> i.h
    [] i.op \in {"retain", "clear", "remove"} -> i.other
    [] OTHER -> Nobody

(* The findings of one instruction. *)
Reports(s, i) ==
  IF i.op \in {"close", "defer"} /\ Named(i.h) THEN
    CASE KindOf(i.h) = "borrowed" -> {"borrowed-close"}
      [] i.op = "close" /\ Closed(s, i.h) -> {"double-close"}
      [] i.op = "close" /\ ~Closed(s, i.h) /\ s.keeper[i.h] # NoEdge -> {"close-order"}
      [] OTHER -> {}
  ELSE IF Closed(s, Receiver(i)) THEN {"use-after-close"} ELSE {}

(* applyOwnershipSummary: what a deep analysis makes of a helper's call. *)
Helped(s, h, summary) ==
  LET closed == IF "close" \in summary.effects[1] THEN Flag(s, h, "closed") ELSE s
      given == IF "transfer" \in summary.effects[1] THEN Flag(closed, h, "escaped") ELSE closed
      kept == {k \in ToSet(summary.kept) : k[1] = 1}
  IN IF kept = {} THEN given
     ELSE Flag(Retain(given, h, Nobody, (CHOOSE k \in kept : TRUE)[2]), h, "escaped")

After(s, i) ==
  CASE i.op = "acquire" ->
         LET kept == IF i.other # Nobody THEN Retain(s, i.other, IF Tracked(i.h) THEN i.h ELSE Nobody, i.slot)
                    ELSE s
         IN IF Tracked(i.h) THEN [kept EXCEPT !.is[i.h] = {}] ELSE kept
    [] i.op = "retain" ->
         Retain(IF i.slot \in Multiple THEN s ELSE DropSlot(s, i.slot, i.other),
                i.h, OwnerNamed(i.other), i.slot)
    [] i.op = "clear" -> DropSlot(s, i.slot, i.other)
    [] ~Named(i.h) -> s
    [] i.op \in {"close", "defer"} /\ Reports(s, i) # {} -> s
    [] i.op = "close" -> CloseNow(s, i.h)
    [] i.op = "defer" -> Flag(s, i.h, "deferred")
    [] i.op = "remove" -> [s EXCEPT !.keeper[i.h] = NoEdge]
    [] i.op = "pass" -> IF deep /\ Tells(known[i.helper])
                        THEN Helped(s, i.h, known[i.helper]) ELSE Flag(s, i.h, "escaped")
    [] i.op \in {"use", "give"} -> s

(* A block's instructions in order, with the findings on the way. *)
RunThrough(s, b) ==
  FoldLeftDomain(
    LAMBDA t, n : [state |-> After(t.state, code[b].does[n]),
                   found |-> t.found \cup (Reports(t.state, code[b].does[n]) \X {<<b, n>>})],
    [state |-> s, found |-> {}], code[b].does)

Leaking(s) ==
  {h \in Handles : /\ KindOf(h) = "owned" /\ "proven" \in s.is[h]
                   /\ s.is[h] \cap {"closed", "deferred", "escaped"} = {}}

(* acquisitionBranch: only on one side of the test there is a handle. *)
Onward(s, b, n) ==
  LET h == code[b].test IN
    IF ~Tracked(h) THEN s
    ELSE IF n = 1 THEN Flag(s, h, "proven")
    ELSE [s EXCEPT !.is[h] = {}, !.keeper[h] = NoEdge]

(* ownershipStateKey: a block is visited again with another state. *)
Key(b, s) == <<b, s>>

(* One visit of checkOwnershipFunction's loop. *)
Visit ==
  /\ exhausted # "open" /\ pending # <<>> /\ visits < Visits
  /\ visits' = visits + 1
  /\ LET b == Head(pending).block
         s == Head(pending).state
         ran == RunThrough(s, b)
         onward == [n \in DOMAIN code[b].goes |->
                      [block |-> code[b].goes[n], state |-> Onward(ran.state, b, n)]]
     IN IF Key(b, s) \in seen THEN pending' = Tail(pending) /\ UNCHANGED <<seen, found>>
        ELSE /\ seen' = seen \cup {Key(b, s)}
             /\ pending' = Tail(pending) \o onward
             /\ found' = found \cup ran.found \cup
                  (IF onward = <<>> THEN {"resource-leak"} \X Leaking(ran.state) ELSE {})
  /\ UNCHANGED <<code, deep, executions>>

-----------------------------------------------------------------------------
(* Executions.  A configuration has the block, each handle's status, who   *)
(* keeps it, what was tested, deferred or given away, and what went wrong. *)
Begin ==
  [block |-> 1, status |-> [h \in Handles |-> "nil"], keepers |-> [h \in Handles |-> {}],
   mark |-> [h \in Handles |-> {}], wrong |-> {}, owed |-> {}]

Open(c, h) == c.status[h] = "open"

(* A misuse is owed a finding unless the handle comes from or was given to *)
(* a function that the analysis knows nothing of, or it or what lends it   *)
(* is captured, or it was retained twice at a time: the analysis keeps the *)
(* last retention of a handle only.                                        *)
Wrong(c, rule, place, h) ==
  [c EXCEPT !.wrong = @ \cup {<<rule, place>>},
            !.owed = IF ~Named(h) \/ (Parent[h] # Nobody /\ Captured(Parent[h]))
                          \/ c.mark[h] \cap {"unseen", "shared"} # {}
                     THEN @ ELSE @ \cup {<<rule, place>>}]

Release(c, o) ==
  [c EXCEPT !.keepers = [h \in Handles |-> {k \in @[h] : k.owner # o}]]

(* Another handle at this place of the code: the last one is out of reach, *)
(* and keeps what it kept.                                                 *)
Forget(c, h) ==
  [c EXCEPT !.status[h] = "nil", !.mark[h] = {},
            !.keepers = [g \in Handles |-> IF g = h THEN {} ELSE
                           {IF k.owner = h THEN [k EXCEPT !.owner = Nobody] ELSE k : k \in @[g]}]]

KeptBy(c, h, edge) ==
  [c EXCEPT !.keepers[h] = @ \cup {edge},
            !.mark[h] = @ \cup (IF c.keepers[h] \subseteq {edge} THEN {} ELSE {"shared"})]

(* A constructor may fail, and then keeps nothing. *)
Construct(c, i, place) ==
  IF Parent[i.h] # Nobody /\ c.status[Parent[i.h]] = "closed"
  THEN {Forget(Wrong(c, "use-after-close", place, Parent[i.h]), i.h)}
  ELSE LET failed == Forget(c, i.h)
           made == [failed EXCEPT !.status[i.h] = "open"]
       IN {failed} \cup
          (IF i.other = Nobody THEN {made}
           ELSE IF Open(c, i.other) THEN {KeptBy(made, i.other, [owner |-> i.h, slot |-> i.slot])}
           ELSE {})

ClosedBy(c, h) ==
  [Release(c, h) EXCEPT !.status = [g \in Handles |->
     IF g = h \/ (Parent[g] = h /\ @[g] = "open") THEN "closed" ELSE @[g]]]

CloseHandle(c, h, place) ==
  IF Maker[h] = "borrowed" THEN {Wrong(c, "borrowed-close", place, h)}
  ELSE IF c.status[h] = "closed" THEN {Wrong(c, "double-close", place, h)}
  ELSE IF c.keepers[h] # {} THEN {Wrong(c, "close-order", place, h)}
  ELSE {ClosedBy(c, h)}

Set(c, i) ==
  LET cleared == IF i.slot \in Multiple THEN c
                 ELSE [c EXCEPT !.keepers =
                         [g \in Handles |-> @[g] \ {[owner |-> i.other, slot |-> i.slot]}]]
  IN IF i.op = "clear" THEN cleared
     ELSE KeptBy(cleared, i.h, [owner |-> i.other, slot |-> i.slot])

(* A helper does to a handle what its body or its chain of calls does,     *)
(* another function may keep or close what it is given for good.           *)
Does(g, op) ==
  IF g \in Own THEN <<g, 1>> \in Chains(Direct(op), LAMBDA i : TRUE)
  ELSE op \in Facts[g].effects[1]

Given(c, i) ==
  LET passed == [c EXCEPT !.mark[i.h] = @ \cup
                   (IF deep /\ Tells(known[i.helper]) THEN {"passed"} ELSE {"passed", "unseen"})]
      helped == IF Does(i.helper, "keep")
                THEN KeptBy(passed, i.h, [owner |-> Nobody, slot |-> "image"])
                ELSE passed
  IN IF Does(i.helper, "close") /\ Maker[i.h] # "borrowed" /\ c.keepers[i.h] = {}
     THEN {ClosedBy(passed, i.h)} ELSE {helped}

Execute(c, i, place) ==
  CASE i.op = "acquire" -> Construct(c, i, place)
    [] Receiver(i) # Nobody /\ c.status[Receiver(i)] = "closed" ->
         {Wrong(c, "use-after-close", place, Receiver(i))}
    [] Receiver(i) # Nobody /\ c.status[Receiver(i)] = "nil" -> {}
    [] i.op = "clear" -> {Set(c, i)}
    [] c.status[i.h] = "nil" -> {}
    [] i.op = "retain" -> {IF Open(c, i.h) THEN Set(c, i) ELSE c}
    [] i.op = "remove" -> {[c EXCEPT !.keepers[i.h] = {k \in @ : k.owner # i.other}]}
    [] i.op = "close" -> CloseHandle(c, i.h, place)
    [] i.op = "defer" -> IF Maker[i.h] = "borrowed" THEN {Wrong(c, "borrowed-close", place, i.h)}
                         ELSE {[c EXCEPT !.mark[i.h] = @ \cup {"deferred"}]}
    [] i.op = "pass" -> Given(c, i)
    [] i.op \in {"give", "capture"} -> {[c EXCEPT !.mark[i.h] = @ \cup {"given"}]}
    [] OTHER -> {c}

RunBlock(c) ==
  FoldLeftDomain(
    LAMBDA cs, n : UNION {Execute(d, code[c.block].does[n], <<c.block, n>>) : d \in cs},
    {c}, code[c.block].does)

Branch(c) ==
  LET b == code[c.block] IN
    IF b.test = Nobody THEN {[c EXCEPT !.block = b.goes[n]] : n \in DOMAIN b.goes}
    ELSE IF Open(c, b.test)
    THEN {[c EXCEPT !.block = b.goes[1], !.mark[b.test] = @ \cup {"proven"}]}
    ELSE {[c EXCEPT !.block = b.goes[2]]}

LeftOpen(c) ==
  {h \in Handles : Open(c, h) /\ KindOf(h) = "owned" /\ "proven" \in c.mark[h]
                /\ c.mark[h] \cap {"deferred", "passed"} = {}}
Transferred(c) == {h \in LeftOpen(c) : "given" \in c.mark[h]}
Leaked(c) == LeftOpen(c) \ Transferred(c)

(* All executions go on for a block, once the analysis has ended. *)
Analysed == exhausted # "open" /\ (pending = <<>> \/ visits = Visits)

Execution ==
  /\ Analysed /\ fresh # {}
  /\ LET ends == UNION {RunBlock(c) : c \in fresh}
         onward == UNION {Branch(c) : c \in ends}
         returning == {c \in ends : code[c.block].goes = <<>>}
         leaks == {"resource-leak"} \X UNION {Leaked(c) : c \in returning}
         transfers == {"transfer"} \X UNION {Transferred(c) : c \in returning}
     IN /\ happened' = happened \cup leaks \cup transfers \cup UNION {c.wrong : c \in ends}
        /\ owed' = owed \cup leaks \cup UNION {c.owed : c \in ends}
        /\ fresh' = onward \ reached
        /\ reached' = reached \cup onward
  /\ UNCHANGED analysis

NothingFound ==
  /\ pending = <<[block |-> 1, state |-> Start]>>
  /\ seen = {} /\ visits = 0 /\ found = {}
  /\ reached = {Begin} /\ fresh = {Begin} /\ happened = {} /\ owed = {}

FunctionInit == code \in Functions /\ deep \in BOOLEAN /\ NothingFound

FunctionNext == (Visit \/ Execution) /\ UNCHANGED summaries

-----------------------------------------------------------------------------
(* Rules and the places of their findings: a call, or a leaking handle. *)
Found ==
  ({"borrowed-close", "double-close", "close-order", "use-after-close"}
     \X (Nat \X Nat)) \cup {"resource-leak"} \X Handles

FunctionTypeOK ==
  /\ deep \in BOOLEAN
  /\ \A k \in DOMAIN pending : pending[k].block \in DOMAIN code
  /\ visits \in 0 .. Visits
  /\ found \subseteq Found /\ happened \subseteq Found \cup {"transfer"} \X Handles /\ owed \subseteq happened

Compared == Analysed /\ fresh = {}
Places(findings) == {finding[2] : finding \in findings}

Misuses == {misuse \in happened : misuse[1] # "transfer"}

(* API.md:333, "A successfully acquired local owned handle reaches a       *)
(* return without close or a visible transfer": a function of which no     *)
(* execution leaks or misuses a handle, because it closes it, returns it,  *)
(* stores it in a field or leaves it to a closure, is not said to leak one *)
(* (ownership_rules.go:545).                                               *)
LeaksAreReal == Compared /\ Misuses = {} => \A finding \in found : finding[1] # "resource-leak"

(* At the place of a finding some execution of the function misuses a      *)
(* handle.  Only a setter of a closed owner, once reported, still counts   *)
(* as a retention, and what it retains as not closed; and what was given   *)
(* away counts as leaking: but for calls the code looks at no transfer,    *)
(* see LeaksAreReal.                                                       *)
GivenAway(h) == <<"transfer", h>> \in happened \/ Captured(h)
Mistaken == "use-after-close" \in {misuse[1] : misuse \in Misuses}
ReportsHappen ==
  Compared => \A finding \in found :
    \/ finding[2] \in Places(Misuses)
    \/ finding[1] = "close-order" /\ Mistaken
    \/ finding[1] = "resource-leak" /\ Mistaken /\ "close-order" \in {other[1] : other \in found}
    \/ finding[1] = "resource-leak" /\ GivenAway(finding[2])

(* Whatever branches are taken, a misuse of handles that the function      *)
(* kept to itself has its place reported.                                  *)
MisuseFound == Compared => Places(owed) \subseteq Places(found)

(* API.md, "The analysis is deliberately silent when constructor success,  *)
(* an escape, or cross-function cleanup cannot be proved": what the        *)
(* ownership rules report happens in some execution, and what happens to   *)
(* handles of the function alone is reported (ownership_rules.go:86).      *)
MisuseReported == ReportsHappen /\ MisuseFound
=============================================================================
