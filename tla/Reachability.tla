---------------------------- MODULE Reachability ----------------------------
(* How code for the device is shown to lead to what the device does not    *)
(* have (analyzer/device_reachability.go).  Packages are analysed after    *)
(* those that they import.  In each, a function's path to a forbidden      *)
(* feature is improved from the paths of the functions that it calls, in   *)
(* rounds that take the functions in any order, until a round changes      *)
(* nothing; exported functions and the initialization of packages pass     *)
(* theirs on.                                                              *)
EXTENDS Naturals, Sequences, FiniteSets, SequencesExt

CONSTANTS
  Programs,   \* the packages of a game
  DeviceRules

VARIABLES
  code,       \* one of Programs
  nth,        \* the package that is analysed, in the order of dependencies
  phase,      \* "collect", "propagate" or "publish"
  visited, improved,
  paths,      \* for every function and rule the names on its path, or none
  facts,      \* the paths of exported functions
  starting,   \* the paths of packages' initializations
  reports

reachability == <<code, nth, phase, visited, improved, paths, facts, starting, reports>>

(* A package's functions, literals and variables have it as their home.    *)
(* An item calls one of these, only makes a literal, or is syntax that the *)
(* device does not have.  Of a variable, values are all that is written to *)
(* it.  Several init functions have one name; names are ordered.           *)
GamePackages == ToSet(code.order)
DeviceFunctions == DOMAIN code.body
Literals == DOMAIN code.literals
Variables == DOMAIN code.values
Home(x) == code.home[x]
Analysed == code.order[nth]
Local == {fn \in DeviceFunctions : Home(fn) = Analysed}

Unreached == [r \in DeviceRules |-> <<>>]

(* forbiddenPackageRule and deviceSymbolBoundary: fmt and encoding/json    *)
(* are banned; of time, reflect and runtime some symbols are forbidden,    *)
(* and the bodies of the others are not looked at.                         *)
RuleOf(fn) ==
  CASE Home(fn) \in DOMAIN code.banned -> code.banned[Home(fn)]
    [] fn \in DOMAIN code.symbols -> code.symbols[fn]
    [] OTHER -> "none"
Boundary(p) == p \in DOMAIN code.banned \cup code.audited

-----------------------------------------------------------------------------
(* localFunctionBindings: local variables with one write and no address    *)
(* taken; resolvedDeviceFunctionValue follows one to the other.            *)
Bound == {v \in Variables \ (code.addressed \cup code.globals) : Len(code.values[v]) = 1}
Resolve(x) ==
  LET follow(y, v) == IF y \in Bound THEN code.values[y][1] ELSE y
  IN FoldLeft(follow, x, SetToSeq(Variables))

Callees(items) == {Resolve(i.to) : i \in {j \in items : j.op = "call"}}

(* staticDeviceOperations: what the items do, and the literals they run. *)
Operations(items) ==
  LET enter(done, l) == done \cup UNION {ToSet(code.literals[k]) : k \in Literals \cap Callees(done)}
  IN FoldLeft(enter, ToSet(items), SetToSeq(Literals))

Precedes(s, u) ==
  \/ Len(s) < Len(u)
  \/ /\ Len(s) = Len(u)
     /\ \E i \in DOMAIN s : s[i] < u[i] /\ \A j \in 1 .. i - 1 : s[j] = u[j]

(* chooseReachabilityPath *)
Choose(current, candidate) ==
  IF candidate # <<>> /\ (current = <<>> \/ Precedes(candidate, current)) THEN candidate ELSE current

(* collectDeviceSyntax *)
Causes(items, r) == {i.to : i \in {j \in Operations(items) : j.op = "syntax" /\ j.rule = r}}
Best(start, candidates) == FoldLeft(Choose, start, SetToSeq(candidates))
OwnPath(fn, r) == Best(<<>>, {<<code.name[fn], code.name[c]>> : c \in Causes(code.body[fn], r)})

(* importedOrLocalPaths *)
KnownPath(fn, r) ==
  CASE RuleOf(fn) = r -> <<code.name[fn]>>
    [] RuleOf(fn) # "none" \/ Boundary(Home(fn)) -> <<>>
    [] Home(fn) = Analysed -> paths[fn][r]
    [] OTHER -> facts[fn][r]

Called(items) == DeviceFunctions \cap Callees(Operations(items))
After(n, path) == IF path = <<>> THEN <<>> ELSE <<code.name[n]>> \o path

-----------------------------------------------------------------------------
Init ==
  /\ code \in Programs
  /\ nth = 1 /\ phase = "collect" /\ visited = {} /\ improved = FALSE
  /\ paths = [fn \in DeviceFunctions |-> Unreached] /\ facts = paths
  /\ starting = [p \in GamePackages |-> Unreached]
  /\ reports = {}

Collect ==
  /\ phase = "collect"
  /\ paths' = [fn \in DeviceFunctions |->
                 IF fn \in Local THEN [r \in DeviceRules |-> OwnPath(fn, r)] ELSE paths[fn]]
  /\ phase' = "propagate"
  /\ UNCHANGED <<code, nth, visited, improved, facts, starting, reports>>

Improved(fn, r) == Best(paths[fn][r], {After(fn, KnownPath(g, r)) : g \in Called(code.body[fn])})

Propagate(fn) ==
  /\ phase = "propagate" /\ fn \in Local \ visited
  /\ paths' = [paths EXCEPT ![fn] = [r \in DeviceRules |-> Improved(fn, r)]]
  /\ improved' = (improved \/ paths' # paths)
  /\ visited' = visited \cup {fn}
  /\ UNCHANGED <<code, nth, phase, facts, starting, reports>>

EndRound ==
  /\ phase = "propagate" /\ visited = Local
  /\ phase' = IF improved THEN "propagate" ELSE "publish"
  /\ visited' = {} /\ improved' = FALSE
  /\ UNCHANGED <<code, nth, paths, facts, starting, reports>>

(* reportDeviceInitialization *)
Imports == {p \in code.imports[Analysed] : ~Boundary(p)}
Starting(r) ==
  After(Analysed, Best(<<>>,
    {paths[fn][r] : fn \in code.inits \cap Local}
      \cup {<<code.name[c]>> : c \in Causes(code.starts[Analysed], r)}
      \cup {KnownPath(g, r) : g \in Called(code.starts[Analysed])}
      \cup {starting[p][r] : p \in Imports}))

(* Every place in the package is looked at, called or not. *)
Places(p) ==
  {<<h, code.body[h]>> : h \in {fn \in DeviceFunctions : Home(fn) = p}}
    \cup {<<h, code.literals[h]>> : h \in {l \in Literals : Home(l) = p}}
    \cup {<<p, code.starts[p]>>}
Finding(place, to, rule, path) == [place |-> place, to |-> to, rule |-> rule, path |-> path]
Outside(items) ==
  {fn \in DeviceFunctions \cap Callees(ToSet(items)) :
     Home(fn) # Analysed /\ RuleOf(fn) = "none" /\ ~Boundary(Home(fn))}
BannedImports(p) ==
  {Finding(p, q, code.banned[q], <<>>) : q \in code.imports[p] \cap DOMAIN code.banned}
FoundCalls ==
  UNION {{Finding(place[1], fn, r, facts[fn][r]) : fn \in Outside(place[2]), r \in DeviceRules} :
           place \in Places(Analysed)}
FoundImports == {Finding(Analysed, p, r, starting[p][r]) : p \in Imports, r \in DeviceRules}

Publish ==
  /\ phase = "publish"
  /\ facts' = [fn \in DeviceFunctions |->
                 IF fn \in Local \cap code.exported THEN paths[fn] ELSE facts[fn]]
  /\ starting' = [starting EXCEPT ![Analysed] = [r \in DeviceRules |-> Starting(r)]]
  /\ reports' = reports \cup BannedImports(Analysed)
       \cup {found \in FoundCalls \cup FoundImports : found.path # <<>>}
  /\ IF nth < Len(code.order) THEN nth' = nth + 1 /\ phase' = "collect"
     ELSE phase' = "reported" /\ UNCHANGED nth
  /\ UNCHANGED <<code, visited, improved, paths>>

Next == Collect \/ (\E fn \in DeviceFunctions : Propagate(fn)) \/ EndRound \/ Publish

-----------------------------------------------------------------------------
TypeOK ==
  /\ nth \in 1 .. Len(code.order)
  /\ phase \in {"collect", "propagate", "publish", "reported"}
  /\ visited \subseteq Local /\ improved \in BOOLEAN
  /\ \A h \in {facts, paths} : h \in [DeviceFunctions -> [DeviceRules -> Seq(Nat)]]
  /\ starting \in [GamePackages -> [DeviceRules -> Seq(Nat)]]

(* What a call runs: anything, through a variable that others may write. *)
Runs(x) ==
  LET hold(xs, v) ==
        UNION {CASE y \in code.addressed \cup code.globals -> DeviceFunctions \cup Literals
                 [] y \in Variables -> ToSet(code.values[y])
                 [] OTHER -> {y} : y \in xs}
  IN FoldLeft(hold, {x}, SetToSeq(Variables))
Certain(x) == {y \in Runs(x) : Cardinality(Runs(x)) = 1}
Reached(items) == UNION {Certain(i.to) : i \in {j \in items : j.op = "call"}}
Happens(items) ==
  LET enter(done, l) ==
        done \cup UNION {ToSet(code.literals[k]) : k \in Literals \cap Reached(done)}
  IN FoldLeft(enter, ToSet(items), SetToSeq(Literals))

(* The chains of certain calls and initializations from n, a function or a *)
(* package, to a feature that the rule r forbids: their names.             *)
Does(n) == Happens(IF n \in GamePackages THEN code.starts[n] ELSE code.body[n])
Leads(n) ==
  (DeviceFunctions \cap Reached(Does(n)))
    \cup (IF n \in GamePackages
          THEN {fn \in code.inits : Home(fn) = n} \cup code.imports[n] ELSE {})
Opaque(n) == Boundary(IF n \in GamePackages THEN n ELSE Home(n))
Features(n, r) ==
  {i.to : i \in {j \in Does(n) : j.op = "syntax" /\ j.rule = r}}
    \cup {fn \in Leads(n) \cap DeviceFunctions : RuleOf(fn) = r}
Extensions(c) == {Append(c, m) : m \in {y \in Leads(Last(c)) \ ToSet(c) : ~Opaque(y)}}
Chains(n, r) ==
  LET reached[k \in Nat] ==
        IF k = 0 THEN {<<n>>} ELSE UNION {Extensions(c) : c \in reached[k - 1]}
      all == UNION {reached[k] : k \in 0 .. Cardinality(DeviceFunctions \cup GamePackages)}
      named(c) == [k \in DOMAIN c |-> code.name[c[k]]]
  IN UNION {{Append(named(c), code.name[e]) : e \in Features(Last(c), r)} : c \in all}

Least(n, r) ==
  IF Chains(n, r) = {} THEN <<>>
  ELSE CHOOSE c \in Chains(n, r) : \A d \in Chains(n, r) : d = c \/ Precedes(c, d)

Expected(p) ==
  BannedImports(p)
    \cup UNION {{Finding(place[1], fn, r, Least(fn, r)) :
                   r \in DeviceRules,
                   fn \in {g \in DeviceFunctions \cap Reached(ToSet(place[2])) :
                             Home(g) # p /\ RuleOf(g) = "none" /\ ~Opaque(g)}} : place \in Places(p)}
    \cup {Finding(p, q, r, Least(q, r)) : q \in {q \in code.imports[p] : ~Opaque(q)}, r \in DeviceRules}

(* API.md:997: the calls and imports that are reported are those that lead *)
(* to what the device does not have, each with the shortest chain of calls *)
(* and the first of these, in whatever order functions are visited         *)
(* (device_reachability.go:84).                                            *)
PathsLeast ==
  phase = "reported" =>
    reports = UNION {BannedImports(p) : p \in GamePackages}
      \cup {found \in UNION {Expected(p) : p \in GamePackages} : found.path # <<>>}
=============================================================================
