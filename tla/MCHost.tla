------------------------------- MODULE MCHost -------------------------------
(* Small instances of the host tool's concurrent parts: the analyzer's     *)
(* executor and its language server, builders that publish packages, and   *)
(* commands that wait for the device or the Simulator.  Each behaviour     *)
(* exercises one of them, its subject.                                     *)
EXTENDS Executor, LanguageServer, HostCommands

CONSTANTS
  fast, slow, base, facts, game, lib, util,  \* analyzers and packages
  b1, b2,                                    \* builders
  u1, u2                                     \* users of the device

VARIABLE subject   \* the part that is exercised

(* What the proofs about the server and the builders take for granted. *)
ASSUME HostAssumption == ServerSizes /\ PathsDiffer

(* Two rules share two prerequisites, one of which follows the imports. *)
RequiresOf ==
  [a \in Analyzers |->
     CASE a = fast -> <<base, facts>> [] a = slow -> <<facts, base>>
       [] a = facts -> <<base>> [] OTHER -> <<>>]
ImportsOf == [p \in Packages |-> IF p = util THEN <<>> ELSE <<util>>]
Failing == {<<base, lib>>, <<facts, util>>}

(* `build` with and without --force, `run`, and the same for the device. *)
Simulators ==
  {[device |-> FALSE, output |-> TRUE, replace |-> TRUE, install |-> FALSE, run |-> r] :
     r \in BOOLEAN}
Devices ==
  {[device |-> TRUE, output |-> TRUE, replace |-> r, install |-> TRUE, run |-> r] :
     r \in BOOLEAN}
Carefully ==
  [device |-> FALSE, output |-> TRUE, replace |-> FALSE, install |-> FALSE, run |-> FALSE]

ConfigOf ==
  [p \in {b1, b2} |-> IF p = b1 THEN Simulators \cup {Carefully} ELSE Devices]

CommandsOf ==
  [u \in {u1, u2} |-> IF u = u1 THEN {"mount", "crashlog", "simulator"}
                     ELSE {"unmount", "connection"}]

(* All but the part of that name stay as they are. *)
Exercised(s) ==
  /\ subject = s
  /\ UNCHANGED subject
  /\ IF s = "executor" THEN TRUE ELSE UNCHANGED vars
  /\ IF s = "server" THEN TRUE ELSE UNCHANGED server
  /\ IF s = "builders" THEN TRUE ELSE UNCHANGED building
  /\ IF s = "commands" THEN TRUE ELSE UNCHANGED probing

(* One choice of the parts that a behaviour leaves alone. *)
AtRest ==
  /\ subject # "builders" =>
       /\ original = Absent
       /\ config[b1] = Carefully /\ config[b2].replace
  /\ subject # "commands" =>
       mode = "away" /\ logs = {} /\ command[u1] = "mount" /\ command[u2] = "unmount"

HostInit ==
  /\ subject \in {"executor", "server", "builders", "commands"}
  /\ Init /\ ServerInit /\ BuildInit /\ ProbeInit
  /\ AtRest

HostNext ==
  \/ Exercised("executor") /\ Next
  \/ Exercised("server") /\ ServerNext
  \/ Exercised("builders") /\ BuildNext
  \/ Exercised("commands") /\ ProbeNext

every == <<subject, vars, server, building, probing>>

(* The fairness of the parts, each while it is the subject. *)
Fairness ==
  /\ ServerFairness
  /\ WF_building(subject = "builders" /\ BuildSteps)
  /\ WF_probing(subject = "commands" /\ ProbeSteps)
  /\ WF_probing(subject = "commands" /\ TimePasses)
  /\ SF_probing(subject = "commands" /\ TimeIsUp)

HostSpec == HostInit /\ [][HostNext]_every /\ Fairness

HostTypeOK == TypeOK /\ ServerTypeOK /\ BuildTypeOK /\ ProbeTypeOK

(* When the editor rests it has the diagnostics of its last text, and every *)
(* builder and every command of the device returns or dies.                 *)
EverythingEnds ==
  Settles /\
  <>[](/\ subject = "builders" => \A p \in {b1, b2} : Ended(p)
       /\ subject = "commands" => \A u \in {u1, u2} : ~Active(u))
=============================================================================
