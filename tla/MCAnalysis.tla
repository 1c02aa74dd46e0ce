------------------------------ MODULE MCAnalysis ------------------------------
(* Small packages and functions for the analyses of games' code.           *)
EXTENDS Ownership, CheckCommand

CONSTANTS
  t, o, f, n, \* a bitmap, an owner, a frame, and a helper's handle
  Joined      \* whether a guard without an else leads to where its body ends

-----------------------------------------------------------------------------
MCFacts ==
  [closes |-> [Nothing EXCEPT !.effects[1] = {"close"}],
   creates |-> [Nothing EXCEPT !.result = "owned"],
   ignores |-> Nothing]

Call(g, a) == [op |-> "call", to |-> {g}, args |-> a]
Dispatch(gs, a) == [op |-> "call", to |-> gs, args |-> a]
Closes(p) == [op |-> "close", args |-> <<p>>, to |-> {}]
Keeps(p) == [op |-> "keep", args |-> <<p>>, kind |-> "image", to |-> {}]
Returns(p) == [op |-> "return", args |-> <<p>>, to |-> {}]

(* Three functions: chains in every order, recursion and dispatch. *)
Bodies ==
  {<<>>, <<Closes(1)>>, <<Closes(2)>>, <<Keeps(1)>>, <<Returns(2), Keeps(2)>>,
   <<Call("a", <<1, 2>>)>>, <<Call("b", <<2, 1>>)>>, <<Call("c", <<2, 0>>), Closes(1)>>,
   <<Call("closes", <<2>>)>>, <<Dispatch({"a", "b"}, <<1, 2>>)>>,
   <<Call("a", <<2, 1>>), Keeps(1)>>, <<Call("ignores", <<1>>)>>}
Orders == {<<"a", "b", "c">>, <<"c", "b", "a">>}

Helpers ==
  [order |-> <<"chain", "closer", "keeper", "giver">>,
   body |-> [chain |-> <<Call("closer", <<1>>)>>, closer |-> <<Closes(1)>>,
             keeper |-> <<Keeps(1)>>, giver |-> <<Call("ignores", <<1>>)>>]]

MCPackages == {Helpers} \cup
  [order : Orders, body : {[a |-> x, b |-> y, c |-> z] : x \in Bodies, y \in Bodies, z \in Bodies}]

-----------------------------------------------------------------------------
MCMaker == [h \in {t, o, f, n} |->
  CASE h = f -> "borrowed" [] h = n -> "creates" [] OTHER -> "owned"]
MCParent == [h \in {t, o, f, n} |-> IF h = f THEN t ELSE Nobody]

I(op, h) == [op |-> op, h |-> h, other |-> Nobody, slot |-> "none", helper |-> "none"]
With(op, h, other, slot) == [I(op, h) EXCEPT !.other = other, !.slot = slot]
Pass(h, g) == [I("pass", h) EXCEPT !.helper = g]
Block(does, test, goes) == [does |-> does, test |-> test, goes |-> goes]

Plain(h) ==
  {<<>>, <<I("close", h)>>, <<I("close", o)>>, <<I("defer", h)>>, <<I("use", h)>>,
   <<I("acquire", f)>>}
Retaining ==
  {<<With("retain", t, o, "image")>>, <<With("retain", t, o, "channel source")>>,
   <<With("clear", t, o, "image")>>, <<With("remove", t, o, "channel source")>>}
Helping == {<<Pass(t, g)>> : g \in {"ignores", "chain", "keeper", "giver"}}
Leaving == {<<I("give", t)>>, <<I("capture", t)>>}

Frames ==
  {<<I("use", f)>>, <<I("close", f)>>, <<I("close", t), I("use", f)>>,
   <<I("capture", t), I("close", t), I("use", f)>>}
Ends(h) == {<<>>, <<I("close", h)>>, <<I("close", o), I("close", h)>>}

Owner(keeps) == IF keeps THEN With("acquire", o, t, "table") ELSE I("acquire", o)

(* The function obtains a handle, perhaps tests it, and an owner o that    *)
(* keeps t or nothing.  It does x and y, which may be the end, or in a     *)
(* loop, and z; cleanup is what it does when there is no o.                *)
Shape(first, test, keeps, x, y, after, z, cleanup) ==
  <<Block(<<I("acquire", first)>>, test, <<2, 6>>),
    Block(<<Owner(keeps)>>, o, <<3, 5>>),
    Block(x, Nobody, <<4>>),
    Block(y, Nobody, after),
    Block(cleanup, Nobody, <<>>),
    Block(<<>>, Nobody, <<>>),
    Block(z, Nobody, <<>>)>>

Once == {<<7>>, <<6, 7>>, <<4, 7>>}
Again == Once \cup {<<1, 7>>}

FunctionsOf(first, tests, keeps, ops, afters) ==
  UNION {{Shape(first, test, k, x, y, after, z, IF k THEN <<>> ELSE <<I("close", first)>>) :
            test \in tests, k \in keeps, after \in afters, z \in Ends(first),
            y \in IF x = <<I("acquire", f)>> THEN Frames ELSE ops} : x \in ops}

Trivial == Shape(n, n, FALSE, <<>>, <<>>, <<7>>, <<I("close", n)>>, <<>>)

MCFunctions ==
  FunctionsOf(t, {t}, BOOLEAN, Plain(t) \cup Retaining \cup Leaving, Once)
    \cup FunctionsOf(t, {t}, {FALSE}, Plain(t) \cup Helping \cup Leaving, Once)
    \cup FunctionsOf(t, {t, Nobody}, {FALSE}, Plain(t) \cup Leaving, Again)
    \cup FunctionsOf(n, {n}, {FALSE}, Plain(n) \ {<<I("acquire", f)>>}, Again)

-----------------------------------------------------------------------------
(* Games that ask their context for what it has, the methods of MCMethods. *)
MCMethods == {"a", "b"}
None == [op |-> "none", target |-> {}, calls |-> "none", passes |-> "none", value |-> "none"]
Untested == [on |-> "none", target |-> {}, steps |-> <<>>]

Doing(op, target) == [None EXCEPT !.op = op, !.target = target]
Calling(g, passes) == [None EXCEPT !.op = "call", !.calls = g, !.passes = passes]
Making(g) == [None EXCEPT !.op = "make", !.calls = g]
Storing(value) == [None EXCEPT !.op = "store", !.value = value]
On(on, steps) == [on |-> on, target |-> {}, steps |-> steps]

To(does, goes) == [does |-> does, test |-> Untested, goes |-> goes, gives |-> "none"]
Giving(does, gives) == [does |-> does, test |-> Untested, goes |-> <<>>, gives |-> gives]
Testing(test, goes) == [does |-> None, test |-> test, goes |-> goes, gives |-> "none"]
Checking(target, steps, goes) ==
  [does |-> IF "call" \in ToSet(steps) THEN None ELSE Doing("check", target),
   test |-> [on |-> "check", target |-> target, steps |-> steps],
   goes |-> goes, gives |-> "none"]

Nil == <<Giving(None, "none")>>
Targets == {{"a"}, {"b"}, {"a", "b"}}
Asserting(target) == Doing("assert", target)
Steps == {<<>>, <<"not">>, <<"call">>, <<"call", "not">>, <<"opaque">>}
Private(body) ==
  [body |-> body, exported |-> {}, escaped |-> {}, closures |-> {}]

(* An update with guards, one in the other, early returns and loops. *)
Guards ==
  {Private([init |-> Nil, update |->
     <<Checking({"a"}, steps, <<2, 3>>), To(x, <<after>>), To(y, other),
       Checking(inner, <<>>, <<6, IF Joined THEN 5 ELSE 7>>), Giving(Asserting({"a"}), "none"),
       To(Asserting({"a", "b"}), <<5>>), To(None, <<5>>)>>]) :
     steps \in Steps, inner \in Targets, after \in {1, 4, 5}, other \in {<<>>, <<4>>},
     x \in {None} \cup {Asserting(target) : target \in Targets},
     y \in {None, Asserting({"a"}), Asserting({"a", "b"}), Doing("check", {"a", "b"})}}

(* Helpers that update or one another call, and that others may call. *)
Calls ==
  {[body |-> [init |-> Nil,
              update |-> <<Checking({"a"}, <<>>, <<2, 3>>), To(x, <<4>>), To(y, <<4>>),
                           Giving(None, "none")>>,
              helper |-> <<To(Asserting({"a"}), <<2>>), Testing(On("other", <<>>), <<3, 4>>),
                           To(z, <<4>>), Giving(None, "none")>>,
              deeper |-> <<Giving(Asserting(target), "none")>>],
    exported |-> exported, escaped |-> escaped, closures |-> {}] :
     x \in {Calling("helper", "context"), Calling("helper", "nil")},
     y \in {None, Calling("helper", "context"), Calling("deeper", "other"),
            Calling("deeper", "context")},
     z \in {None, Calling("deeper", "context"), Calling("helper", "context")},
     target \in {{"a"}, {"a", "b"}},
     exported \in {{}, {"helper"}, {"deeper"}}, escaped \in {{}, {"helper"}}}

(* Init demands what update takes for granted, or keeps the lack of it in  *)
(* the field that update looks at.                                         *)
Required ==
  {[body |-> [init |-> <<Checking(demanded, steps, <<2, 3>>), Giving(x, present),
                         To(y, <<4>>), fails, Giving(None, "err"), Giving(None, "none")>>,
              update |-> <<Testing(On("field", negated), <<2, 3>>), To(z, <<4>>),
                           To(u, <<4>>), Giving(None, "none")>>,
              helper |-> <<To(w, <<2>>), Giving(None, "none")>>],
    exported |-> {"helper"}, escaped |-> {}, closures |-> {}] :
     demanded \in {{"a"}, {"a", "b"}}, steps \in {<<>>, <<"not">>, <<"call">>},
     present \in {"none", "error"}, x \in {None, Storing("set")},
     y \in {None, Storing("nil"), Storing("set")},
     fails \in {Giving(None, "error"), Giving(None, "err"), Giving(None, "none"),
                Testing(On("err", <<>>), <<5, 6>>), Testing(On("err", <<"not">>), <<6, 5>>),
                To(None, <<3>>)},
     negated \in {<<>>, <<"not">>},
     z \in {None, Asserting({"a"})}, u \in {Asserting({"a"})},
     w \in {None, Calling("update", "other")}}

(* A closure made where the capability is known, or not, whose variable    *)
(* may be assigned again.                                                  *)
Closures ==
  {[body |-> [init |-> <<Checking({"a"}, steps, <<2, 3>>), To(x, <<4>>), To(y, <<4>>),
                         Giving(again, "none")>>,
              update |-> Nil,
              closure |-> <<To(z, <<2>>), Giving(Asserting(target), "none")>>],
    exported |-> {}, escaped |-> {}, closures |-> {"closure"}] :
     steps \in Steps, x \in {None, Making("closure")}, y \in {None, Making("closure")},
     again \in {None, Doing("assign", {}), Making("closure")},
     z \in {None, Doing("assign", {}), Doing("check", {"a"})}, target \in Targets}

MCPrograms ==
  Guards \cup Calls \cup Required
    \cup {p \in Closures : Cardinality({b \in 2 .. 4 : p.body["init"][b].does.op = "make"}) <= 1}

VARIABLES program, support, phase, stack, field, captured, told

Game == INSTANCE Capabilities WITH
  Programs <- MCPrograms, Methods <- MCMethods, Depth <- 8, Frames <- 3
game == <<program, support, phase, stack, field, captured, told>>
Idle == Private([init |-> Nil, update |-> Nil])

NoGame ==
  /\ program = Idle /\ support = {} /\ phase = "over" /\ stack = <<>>
  /\ field = "nil" /\ captured = "none" /\ told = {}
NoFunction == code = Trivial /\ deep = TRUE /\ NothingFound

-----------------------------------------------------------------------------
(* A module with generated code and code for the device, to be checked.    *)
Both == {"simulator", "device"}
MCFiles ==
  [a |-> [targets |-> Both, generated |-> FALSE],
   b |-> [targets |-> Both, generated |-> FALSE],
   g |-> [targets |-> Both, generated |-> TRUE],
   d |-> [targets |-> {"device"}, generated |-> FALSE]]
Rule(family, severity, targets, experimental) ==
  [family |-> family, severity |-> severity, targets |-> targets, experimental |-> experimental]
MCRules ==
  [leak |-> Rule("ownership", "error", Both, FALSE),
   discard |-> Rule("result", "warning", Both, FALSE),
   copy |-> Rule("performance", "performance", {"device"}, FALSE),
   guess |-> Rule("result", "warning", Both, TRUE)]
Finds(file, line, rule, targets, span, bad) ==
  [file |-> file, line |-> line, rule |-> rule, targets |-> targets, edits |-> span,
   breaks |-> bad]
Span(from, to, text) == {[from |-> from, to |-> to, text |-> text]}
MCIssues ==
  <<Finds("a", 1, "discard", Both, Span(1, 3, "err"), {}),
    Finds("a", 1, "discard", {"device"}, {}, {}),
    Finds("a", 2, "leak", Both, Span(2, 4, "close"), {}),
    Finds("g", 1, "discard", Both, Span(1, 2, "err"), {}),
    Finds("b", 1, "copy", Both, Span(1, 2, "x"), {"device"}),
    Finds("b", 2, "guess", Both, Span(4, 5, "y"), {}),
    Finds("d", 1, "leak", Both, Span(1, 2, "close"), {})>>
Tree(issues, ignores, broken) ==
  [file \in DOMAIN MCFiles |->
     [issues |-> {i \in issues : MCIssues[i].file = file},
      ignores |-> IF file = "a" THEN ignores ELSE {}, moved |-> 0, harm |-> "none",
      broken |-> IF file = "b" THEN broken ELSE {}]]
Ignore(line, rule) == [line |-> line, rule |-> rule]

Flagged(flags) == [op |-> "check", flags |-> flags]
Keeping(op, reason) == [op |-> op, reason |-> reason]
Json == [format |-> "json"]
Rechecked(flags) == Flagged([format |-> "json", baseline |-> TRUE] @@ flags)

Fixing ==
  {[tree |-> Tree(issues, ignores, broken), config |-> config,
    commands |-> <<Flagged([fix |-> fix, failOn |-> failOn, generated |-> "include"])>>] :
     issues \in {{1, 2}, {3, 4}, {1, 3}, {1, 4, 7}, {2, 5}, {1, 6, 7}},
     ignores \in {{}, {Ignore(1, "discard")}, {Ignore(2, "leak")}}, broken \in {{}, {"device"}},
     config \in {<<>>, [profile |-> "deep"], [targets |-> <<"device">>]},
     fix \in {"preview", "apply"}, failOn \in {"warning", "none"}}
Adopting ==
  {[tree |-> Tree(kept[1], kept[2], {}), config |-> config,
    commands |-> <<Flagged(Json @@ flags), Keeping("create", "old"), Rechecked(flags),
                   Keeping(op, "new"), Rechecked(more)>>] :
     kept \in {<<{1, 2}, {}>>, <<{1, 2}, {Ignore(1, "discard")}>>, <<{3, 4, 7}, {}>>,
               <<{2, 5, 6}, {Ignore(1, "discard")}>>},
     config \in {<<>>, [severities |-> [result |-> "error"], failOn |-> "error"]},
     flags \in {<<>>, [tests |-> TRUE], [severities |-> [discard |-> "information"]]},
     more \in {<<>>, [targets |-> <<"device">>, changed |-> {"b", "d"}], [excluded |-> {"discard"}]},
     op \in {"update", "validate"}}
Refusing ==
  {[tree |-> Tree({1, 6}, ignores, {}), config |-> <<>>, commands |-> <<Flagged(flags), Rechecked(flags)>>] :
     ignores \in {{}, {Ignore(1, "unknown")}},
     flags \in {<<>>, [rules |-> {"guess"}], [profile |-> "deep", categories |-> {"result"}],
                [severities |-> [none |-> "error"]], [fix |-> "apply", format |-> "json"],
                [rules |-> {"none"}]}}
Renewing ==
  {[tree |-> Tree({1, 2}, {}, {}), config |-> <<>>,
    commands |-> <<Flagged(Json), Keeping("create", "old"), Keeping("update", "new"), Keeping("create", "newer"),
                   Keeping("update", "newest")>>]}
MCSessions == Fixing \cup Adopting \cup Refusing \cup Renewing

(* What the proofs take for granted. *)
ASSUME AnalysisAssumption == CheckAssumption /\ Noticed

NoCheck ==
  /\ tree = Tree({}, {}, {}) /\ baseline = Missing /\ backups = {} /\ report = Missing
  /\ session = Nobody /\ command = Defaults /\ step = "ended" /\ nth = 1
  /\ loaded = tree /\ findings = {} /\ unloadable = FALSE /\ fixed = <<>> /\ entries = Missing
  /\ status = 0 /\ edits = 0 /\ faults = 0 /\ past = NothingYet(tree)

-----------------------------------------------------------------------------
(* Handlers of a game's termination that obtain t, test it or not, do x,   *)
(* perhaps obtain o, and do z; and those of games with a field f.          *)
Do(op, on) == [op |-> op, on |-> on]
If(on, of, equal) == [on |-> on, of |-> of, equal |-> equal]
Always == If("none", "none", TRUE)
OrPanic == If("panic", "none", TRUE)
Unresolved == If("opaque", "none", TRUE)
Terminating(equal) == If("event", "none", equal)
Segment(does, test, goes) == [does |-> does, test |-> test, goes |-> goes]
Unseen == {<<>>, <<Do("call", "cleanup")>>, <<Do("call", "log")>>}

Locally ==
  Unseen \cup {<<Do("close", t)>>, <<Do("store", t)>>, <<Do("box", t)>>}
Lastly(test) ==
  Unseen \cup {<<Do("close", t)>>}
    \cup (IF test = If("error", o, TRUE) THEN {<<Do("close", o)>>, <<Do("close", o), Do("close", t)>>} ELSE {})
Firstly == {<<Do("acquire", t)>>} \cup {<<Do("acquire", t), i>> : i \in {Do("call", "log"), Do("store", t)}}
LocalHandlers ==
  UNION {{[code |-> <<Segment(<<>>, Terminating(equal), <<2, 7>>),
                      Segment(first, If("error", t, TRUE), <<3, 6>>),
                      Segment(x, Always, <<4>>),
                      Segment(IF test.of = o THEN <<Do("acquire", o)>> ELSE <<>>, test,
                              CASE test = Always -> <<5>> [] test = OrPanic -> <<>> [] OTHER -> <<5, back>>),
                      Segment(z, Always, <<>>), Segment(<<>>, Always, <<>>), Segment(<<>>, Always, <<>>)>>,
           uses |-> [g \in {f} |-> {}]] :
             equal \in BOOLEAN, first \in Firstly, x \in Locally, z \in Lastly(test), back \in {2, 3, 6}} :
           test \in {Always, OrPanic, Unresolved, If("error", o, TRUE), If("error", o, FALSE), If("error", t, TRUE)}}

Clearing == Unseen \cup {<<Do("clear", f)>>}
Member == Clearing \cup {<<Do("use", f)>>, <<Do("acquire", t)>>, <<Do("clear", f), Do("clear", f)>>}
FieldHandlers ==
  {[code |-> <<Segment(<<>>, Terminating(TRUE), <<2, 6>>),
               Segment(a, If("field", f, equal), <<3, 4>>),
               Segment(x, test, IF test = Always THEN <<5>> ELSE <<5, 6>>),
               Segment(y, Always, <<5>>), Segment(z, Always, <<>>), Segment(<<>>, Always, <<>>)>>,
    uses |-> [g \in {f} |-> used]] :
     a \in Unseen, equal \in BOOLEAN, x \in Member, y \in Member, z \in Clearing,
     test \in {Always, Unresolved, If("field", f, TRUE), If("field", f, FALSE)},
     used \in {{"acquired"}, {"cleared"}, {"acquired", "compared", "cleared"}, {"acquired", "closed"}, {"shared"}}}

VARIABLES handler, walks, walked, losses, places, recent, lost, lostOnceSet

Ending == INSTANCE Terminations WITH
  Handlers <- LocalHandlers \cup FieldHandlers, Handles <- {t, o}, Fields <- {f}, Steps <- 256,
  steps <- walked, told <- losses, reached <- places, fresh <- recent, owed <- lostOnceSet
terminations == <<handler, walks, walked, losses, places, recent, lost, lostOnceSet>>

NoHandler ==
  /\ handler = [code |-> <<Segment(<<>>, Always, <<>>)>>, uses |-> [g \in {f} |-> {}]]
  /\ walks = [p \in Ending!Proofs |-> <<>>] /\ walked = [p \in Ending!Proofs |-> 0]
  /\ losses = {} /\ places = {} /\ recent = {} /\ lost = {} /\ lostOnceSet = {}

-----------------------------------------------------------------------------
(* A game, a library and their dependencies, one of them a part of the     *)
(* standard library that is audited and one that is banned.                *)
CallOf(x) == [op |-> "call", to |-> x, rule |-> "none"]
MakesOnly(l) == [op |-> "make", to |-> l, rule |-> "none"]
Syntax(cause) == [op |-> "syntax", to |-> cause, rule |-> "go"]
MCNames ==
  [Now |-> 1, Parse |-> 2, Sprint |-> 3, go |-> 4, chan |-> 5, Format |-> 11, b |-> 12, c |-> 13,
   d |-> 14, init1 |-> 15, init2 |-> 15, time |-> 20, fmt |-> 21, lib |-> 22, game |-> 23, mid |-> 24,
   Use |-> 31, Helper |-> 32]
MCHomes ==
  [Now |-> "time", Parse |-> "time", Sprint |-> "fmt", Helper |-> "mid", Use |-> "game", k |-> "game"]
    @@ [x \in {"Format", "b", "c", "d", "init1", "init2", "l", "v", "w"} |-> "lib"]
Variable(values, addressed, globals) ==
  [values |-> values, addressed |-> addressed, globals |-> globals]
MCCode ==
  {[order |-> <<"time", "fmt", "lib", "mid", "game">>,
    imports |-> [time |-> {}, fmt |-> {"time"}, lib |-> {"time", "fmt"}, mid |-> {"lib"},
                 game |-> {"mid", "lib"}],
    banned |-> [fmt |-> "fmt"], audited |-> {"time"}, symbols |-> [Now |-> "time"],
    home |-> MCHomes, name |-> MCNames,
    exported |-> {"Now", "Parse", "Sprint", "Format", "Use", "Helper"},
    body |-> [Now |-> <<Syntax("go")>>, Parse |-> <<CallOf("Now")>>, Sprint |-> <<CallOf("Now")>>,
              Format |-> x, b |-> y, c |-> z, d |-> <<CallOf("Sprint")>>,
              init1 |-> <<CallOf("b"), CallOf("Sprint")>>,
              init2 |-> <<CallOf("c")>>, Helper |-> <<CallOf("Format")>>,
              Use |-> <<CallOf("Format"), CallOf("Parse"), MakesOnly("k")>>],
    literals |-> [l |-> <<CallOf("Sprint"), CallOf("c")>>, k |-> <<CallOf("Helper"), CallOf("Sprint")>>],
    values |-> [v |-> v.values, w |-> <<"v">>], addressed |-> v.addressed, globals |-> v.globals,
    starts |-> [time |-> <<Syntax("chan")>>, fmt |-> <<>>, lib |-> <<CallOf("w")>>, mid |-> <<>>,
                game |-> <<CallOf("Helper")>>],
    inits |-> {"init1", "init2"}] :
     x \in {<<CallOf("b"), CallOf("c")>>, <<CallOf("w")>>, <<MakesOnly("l"), CallOf("d"), CallOf("c")>>,
            <<CallOf("l")>>},
     y \in {<<CallOf("Now"), CallOf("d")>>, <<CallOf("c"), CallOf("Format")>>,
            <<Syntax("go"), Syntax("chan")>>},
     z \in {<<CallOf("b"), CallOf("Sprint")>>, <<CallOf("Format"), CallOf("v"), CallOf("Parse")>>},
     v \in {Variable(<<"l">>, {}, {}), Variable(<<"b", "c">>, {}, {}),
            Variable(<<"b">>, {"v"}, {}), Variable(<<"b">>, {}, {"v"})}}

VARIABLES sources, analysing, stage, taken, nearer, chains, passedOn, starting, reported

Reach == INSTANCE Reachability WITH
  Programs <- MCCode, DeviceRules <- {"time", "fmt", "go"}, code <- sources, nth <- analysing,
  phase <- stage, visited <- taken, improved <- nearer, paths <- chains, facts <- passedOn,
  reports <- reported
paths == <<sources, analysing, stage, taken, nearer, chains, passedOn, starting, reported>>

NoCode ==
  /\ sources = Nobody /\ analysing = 1 /\ stage = "reported" /\ taken = {} /\ nearer = FALSE
  /\ chains = <<>> /\ passedOn = <<>> /\ starting = <<>> /\ reported = {}

-----------------------------------------------------------------------------
(* Callbacks that go through five blocks, with a branch, another or a loop *)
(* and a panic, and call helpers that test what they are given.            *)
Constant(v) == [is |-> "constant", of |-> v]
Parameter(i) == [is |-> "parameter", of |-> i]
Anything == [is |-> "anything", of |-> 0]
Undecided == [op |-> "opaque", left |-> Anything, right |-> Anything, not |-> FALSE]
Compare(op, x, y, negated) == [op |-> op, left |-> x, right |-> y, not |-> negated]
Invoke(g, args) == [to |-> g, args |-> args, late |-> FALSE]
Deferring(g, args) == [to |-> g, args |-> args, late |-> TRUE]
Updating == Invoke("Update", <<>>)
Part(calls, test, goes) == [calls |-> calls, test |-> test, goes |-> goes, panics |-> FALSE]

MCApplications ==
  {[root |-> "root", events |-> events,
    body |-> [root |-> <<Part(first, test, <<2, 3>>), Part(second, Undecided, <<4>>),
                         [Part(<<Updating>>, Undecided, third) EXCEPT !.panics = TRUE],
                         Part(<<Invoke("helper", <<Parameter(1)>>)>>, again, <<back, 5>>),
                         Part(<<Updating>>, Undecided, <<>>)>>,
              helper |-> <<Part(<<>>, Compare(op, Parameter(1), Constant(1), negated), <<2, 3>>),
                           Part(<<Updating, Invoke("deeper", <<Parameter(1), Anything>>)>>, Undecided, <<3>>),
                           Part(<<Updating>>, Undecided, <<>>)>>,
              deeper |-> <<Part(<<Invoke("Log", <<>>)>>, Compare("=", Parameter(1), tested, FALSE), <<2, 3>>),
                           Part(<<Updating>>, Undecided, <<3>>),
                           Part(<<Invoke("helper", <<Parameter(2)>>)>>, Undecided, <<>>)>>]] :
     events \in {{}, {0, 1}}, first \in {<<>>, <<Deferring("helper", <<Parameter(1)>>)>>},
     test \in {Undecided, Compare("=", Parameter(1), Constant(1), FALSE), Compare("#", Constant(0), Parameter(1), TRUE),
               Compare("<", Parameter(1), Anything, FALSE)},
     second \in {<<Invoke("deeper", <<Constant(1), Constant(0)>>)>>, <<Invoke("helper", <<Constant(0)>>), Updating>>},
     third \in {<<>>, <<4>>}, again \in {Undecided, Compare("=", Constant(0), Constant(1), FALSE)},
     back \in {1, 3}, op \in {"=", "<"}, negated \in BOOLEAN, tested \in {Constant(1), Parameter(2)}}

VARIABLES application, event, calls, ran, end, beyond

Paths == INSTANCE CallPaths WITH
  Applications <- MCApplications, Depth <- 3, Budget <- 4096, Frames <- 3, stack <- calls
callbacks == <<application, event, calls, ran, end, beyond>>

NoCallback ==
  /\ application = Nobody /\ event = 0 /\ calls = <<>> /\ ran = {} /\ end = "returned" /\ beyond = TRUE

-----------------------------------------------------------------------------
Commanded == session # Nobody
Coded == sources # Nobody
CalledBack == application # Nobody

Handling == Len(handler.code) > 1

AnalysisInit ==
  \/ package = Helpers /\ Init /\ FunctionInit /\ NoGame /\ NoCheck /\ NoHandler
       /\ NoCode /\ NoCallback
  \/ Init /\ package # Helpers /\ NoFunction /\ NoGame /\ NoCheck /\ NoHandler
       /\ NoCode /\ NoCallback
  \/ package = Helpers /\ Init /\ NoFunction /\ Game!Init /\ NoCheck /\ NoHandler
       /\ NoCode /\ NoCallback
  \/ package = Helpers /\ Init /\ NoFunction /\ NoGame /\ CheckInit /\ NoHandler
       /\ NoCode /\ NoCallback
  \/ package = Helpers /\ Init /\ NoFunction /\ NoGame /\ NoCheck /\ Ending!Init
       /\ NoCode /\ NoCallback
  \/ package = Helpers /\ Init /\ NoFunction /\ NoGame /\ NoCheck /\ NoHandler /\ Reach!Init
       /\ NoCallback
  \/ package = Helpers /\ Init /\ NoFunction /\ NoGame /\ NoCheck /\ NoHandler /\ NoCode
       /\ Paths!Init
Alone == ~Commanded /\ ~Handling /\ ~Coded /\ ~CalledBack
AnalysisNext ==
  \/ Alone /\ program = Idle /\ Next
       /\ UNCHANGED <<analysis, executions, game, repository, terminations, paths, callbacks>>
  \/ Alone /\ program = Idle /\ FunctionNext
       /\ UNCHANGED <<game, repository, terminations, paths, callbacks>>
  \/ Alone /\ Game!Next
       /\ UNCHANGED <<summaries, analysis, executions, repository, terminations, paths, callbacks>>
  \/ Commanded /\ CheckNext
       /\ UNCHANGED <<summaries, analysis, executions, game, terminations, paths, callbacks>>
  \/ Handling /\ Ending!Next
       /\ UNCHANGED <<summaries, analysis, executions, game, repository, paths, callbacks>>
  \/ Coded /\ Reach!Next
       /\ UNCHANGED <<summaries, analysis, executions, game, repository, terminations, callbacks>>
  \/ CalledBack /\ Paths!Next
       /\ UNCHANGED <<summaries, analysis, executions, game, repository, terminations, paths>>
analyses ==
  <<summaries, analysis, executions, game, repository, terminations, paths, callbacks>>
AnalysisSpec == AnalysisInit /\ [][AnalysisNext]_analyses

(* The functions alone. *)
FunctionsSpec ==
  /\ package = Helpers /\ Init /\ FunctionInit /\ NoGame /\ NoCheck /\ NoHandler
  /\ NoCode /\ NoCallback
  /\ [][AnalysisNext]_analyses

AnalysisTypeOK ==
  /\ TypeOK /\ FunctionTypeOK /\ Game!TypeOK /\ CheckTypeOK
  /\ Ending!TypeOK /\ (Coded => Reach!TypeOK) /\ (CalledBack => Paths!TypeOK)

(* What the ownership rules report is misused when the function runs, and  *)
(* what a termination is said to lose is lost (API.md:324), what is        *)
(* misused or lost where the analyses look is reported, and the calls that *)
(* a callback is said to make are made (application_paths.go:12).          *)
MisusesTold ==
  MisuseReported /\ Ending!LossesTold /\ (CalledBack => Paths!PathsTrue)

(* ownership_summaries.go:38 and API.md:997: what is learnt of functions   *)
(* in rounds is what chains of their calls do, in whatever order they are  *)
(* visited.                                                                *)
SummariesTrue == SummariesExact /\ (Coded => Reach!PathsLeast)
FindingsTrue == Game!FindingsTrue
ImpossibleFails == Game!ImpossibleFails
=============================================================================
