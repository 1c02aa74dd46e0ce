------------------------------- MODULE Builds -------------------------------
(***************************************************************************)
(* Builders that make a Playdate package and publish it under one output   *)
(* path: `build` and `run` for the Simulator, `build device`, `probe       *)
(* device` and `run device`, which also install and launch it.  They work  *)
(* in a workspace of their own and meet at the output path, which each     *)
(* replaces by two renames.                                                *)
(*                                                                         *)
(* Any call that fails may do so, up to Faults times; one builder may be   *)
(* interrupted (its context is cancelled) and one may die between any two  *)
(* steps.  Assumed: a builder removes its own temporary directories when   *)
(* it gets to it, and no other program touches the output path.            *)
(***************************************************************************)
EXTENDS Naturals, Sequences, FiniteSets

CONSTANTS
  Builders,
  Config,     \* builder -> the commands it may have been started as
  Faults,     \* bound on failing calls
  Attempts,   \* of launching: 10 in the code
  Absent, File, Partial, Old   \* what may be at a path, besides a builder's package

(* What may be at a path is told apart; calls are counted. *)
PathsDiffer ==
  /\ Absent \notin {File, Partial, Old} \cup Builders
  /\ File \notin {Partial, Old} \cup Builders
  /\ Partial \notin {Old} \cup Builders
  /\ Faults \in Nat /\ Attempts \in Nat \ {0}

VARIABLES
  config,     \* builder -> [device, output, replace, install, run]
  step,       \* builder -> the step it is about to take
  failure,    \* builder -> the step that failed, or "none"
  work,       \* builders whose workspace exists
  target,     \* what is at the output path
  stage,      \* builder -> what is in its staging sibling
  backup,     \* builder -> what is in its backup sibling
  attempt,    \* builder -> launches that found no device
  interrupted, \* builders whose context is cancelled
  faults,     \* calls that failed so far
  original,   \* history: what was at the output path at first
  published   \* history: builders whose package has been there

paths == <<target, stage, backup, published>>
building == <<config, step, failure, work, paths, attempt, interrupted, faults, original>>

Products == Builders \cup {Old}
Rest == {"done", "failed", "dead"}

BuildInit ==
  /\ config \in {c \in [Builders -> UNION {Config[p] : p \in Builders}] :
                   \A p \in Builders : c[p] \in Config[p]}
  /\ step = [p \in Builders |-> "plan"]
  /\ failure = [p \in Builders |-> "none"]
  /\ work = {}
  /\ original \in {Absent, File, Old}
  /\ target = original
  /\ stage = [p \in Builders |-> Absent]
  /\ backup = [p \in Builders |-> Absent]
  /\ attempt = [p \in Builders |-> 1]
  /\ interrupted = {}
  /\ faults = 0
  /\ published = {}

-----------------------------------------------------------------------------
(* BuildSteps. *)

Ended(p) == step[p] \in Rest

Proceeds(p, to) == step' = [step EXCEPT ![p] = to]

(* A function returns an error: what it deferred comes next. *)
Deferred(p) ==
  IF stage[p] # Absent THEN "unstage" ELSE IF p \in work THEN "cleanup" ELSE "failed"
Fails(p, where) == Proceeds(p, Deferred(p)) /\ failure' = [failure EXCEPT ![p] = where]

Fault(p) ==
  /\ faults < Faults
  /\ faults' = faults + 1
  /\ Fails(p, step[p])

(* A step that leaves nothing behind but the workspace's contents. *)
Do(p, from, to) ==
  /\ step[p] = from
  /\ \/ Proceeds(p, to) /\ UNCHANGED <<failure, faults>>
     \/ Fault(p)
  /\ UNCHANGED <<config, work, paths, attempt, interrupted, original>>

(* An external program, which dies with its builder's context. *)
Command(p, from, to) ==
  \/ p \notin interrupted /\ Do(p, from, to)
  \/ /\ step[p] = from
     /\ p \in interrupted
     /\ Fails(p, from)
     /\ UNCHANGED <<config, work, paths, attempt, interrupted, faults, original>>

-----------------------------------------------------------------------------
(* Making the package. *)

PlanSimulator(p) == ~config[p].device /\ Command(p, "plan", "find")
PlanDevice(p) == config[p].device /\ Command(p, "plan", "workspace")

(* Only the Simulator's build asks at once whether it may publish. *)
Occupied(p) == target = File \/ (target # Absent /\ ~config[p].replace)

FindOutput(p) ==
  /\ step[p] = "find"
  /\ IF Occupied(p)
       THEN Fails(p, IF config[p].replace THEN "find" ELSE "conflict") /\ UNCHANGED faults
       ELSE \/ Proceeds(p, "workspace") /\ UNCHANGED <<failure, faults>>
            \/ Fault(p)
  /\ UNCHANGED <<config, work, paths, attempt, interrupted, original>>

(* From here on the workspace is removed however the function returns. *)
MakeWorkspace(p) ==
  /\ step[p] = "workspace"
  /\ \/ /\ Proceeds(p, IF config[p].device THEN "write" ELSE "prepare")
        /\ work' = work \cup {p}
        /\ UNCHANGED <<failure, faults>>
     \/ Fault(p) /\ UNCHANGED work
  /\ UNCHANGED <<config, paths, attempt, interrupted, original>>

(* The Simulator: resources and generated sources, compiler and pdc. *)
PrepareSimulator(p) == Do(p, "prepare", "compile")
CompileSimulator(p) == ~config[p].device /\ Command(p, "compile", "package")

Publishing(p) ==
  IF config[p].output THEN "stage" ELSE IF config[p].install THEN "install" ELSE "cleanup"

(* The device: sources, seven tools, three inspections, resources and pdc. *)
WriteSources(p) == Do(p, "write", "resolve")
ResolveModules(p) == Command(p, "resolve", "compile")
CompileDevice(p) == config[p].device /\ Command(p, "compile", "link")
LinkDevice(p) == Command(p, "link", "inspect")
InspectImage(p) == Command(p, "inspect", "resources")
StageResources(p) == Do(p, "resources", "package")
PackageSimulator(p) == ~config[p].device /\ Command(p, "package", "stage")
PackageDevice(p) == config[p].device /\ Command(p, "package", "verify")
VerifyPackage(p) == Do(p, "verify", Publishing(p))

-----------------------------------------------------------------------------
(* artifactreplace.Directory. *)

MakeStage(p) ==
  /\ step[p] = "stage"
  /\ \/ /\ Proceeds(p, "copy")
        /\ stage' = [stage EXCEPT ![p] = Partial]
        /\ UNCHANGED <<failure, faults>>
     \/ Fault(p) /\ UNCHANGED stage
  /\ UNCHANGED <<config, work, target, backup, attempt, interrupted, original,
                 published>>

(* copyDirectory asks for each entry whether it was interrupted. *)
CopyPackage(p) ==
  /\ step[p] = "copy"
  /\ \/ /\ p \notin interrupted
        /\ stage' = [stage EXCEPT ![p] = p]
        /\ Proceeds(p, "look")
        /\ UNCHANGED <<failure, faults>>
     \/ Fault(p) /\ UNCHANGED stage
     \/ p \in interrupted /\ Fails(p, "copy") /\ UNCHANGED <<stage, faults>>
  /\ UNCHANGED <<config, work, target, backup, attempt, interrupted, original,
                 published>>

Verdict(p) ==
  IF p \in interrupted THEN "copy"
  ELSE IF target = Absent THEN "none"
  ELSE IF ~config[p].replace THEN "conflict"
  ELSE IF target = File THEN "look" ELSE "none"

LookAtTarget(p) ==
  /\ step[p] = "look"
  /\ \/ /\ Verdict(p) = "none"
        /\ Proceeds(p, IF target = Absent THEN "commit" ELSE "aside")
        /\ UNCHANGED <<failure, faults>>
     \/ Verdict(p) # "none" /\ Fails(p, Verdict(p)) /\ UNCHANGED faults
     \/ Fault(p)
  /\ UNCHANGED <<config, work, paths, attempt, interrupted, original>>

(* The name of the backup is reserved first, by making and removing it. *)
SetAside(p) ==
  /\ step[p] = "aside"
  /\ \/ /\ target # Absent
        /\ backup' = [backup EXCEPT ![p] = target]
        /\ target' = Absent
        /\ Proceeds(p, "commit")
        /\ UNCHANGED <<failure, faults>>
     \/ Fault(p) /\ UNCHANGED <<backup, target>>
     \/ target = Absent /\ Fails(p, "aside") /\ UNCHANGED <<backup, target, faults>>
  /\ UNCHANGED <<config, work, stage, attempt, interrupted, original, published>>

UncommittedForgotten(p) == "unstage"
Uncommitted(p) == IF backup[p] = Absent THEN "unstage" ELSE "restore"

(* Renaming a directory fails where something exists. *)
Commit(p) ==
  /\ step[p] = "commit"
  /\ \/ /\ target = Absent
        /\ target' = stage[p]
        /\ stage' = [stage EXCEPT ![p] = Absent]
        /\ published' = published \cup {p}
        /\ Proceeds(p, IF backup[p] = Absent THEN "unstage" ELSE "drop")
        /\ UNCHANGED <<failure, faults>>
     \/ /\ \/ target # Absent /\ UNCHANGED faults
           \/ faults < Faults /\ faults' = faults + 1
        /\ Proceeds(p, Uncommitted(p))
        /\ failure' = [failure EXCEPT ![p] = "commit"]
        /\ UNCHANGED <<target, stage, published>>
  /\ UNCHANGED <<config, work, backup, attempt, interrupted, original>>

Restore(p) ==
  /\ step[p] = "restore"
  /\ Proceeds(p, "unstage")
  /\ \/ /\ target = Absent
        /\ target' = backup[p]
        /\ backup' = [backup EXCEPT ![p] = Absent]
        /\ UNCHANGED <<failure, faults>>
     \/ /\ \/ target # Absent /\ UNCHANGED faults
           \/ faults < Faults /\ faults' = faults + 1
        /\ failure' = [failure EXCEPT ![p] = "restore"]
        /\ UNCHANGED <<target, backup>>
  /\ UNCHANGED <<config, work, stage, attempt, interrupted, original, published>>

(* The new package is in place; what is left of the old one goes.  If that *)
(* fails the whole build fails.                                            *)
DropBackup(p) ==
  /\ step[p] = "drop"
  /\ Proceeds(p, "unstage")
  /\ \/ backup' = [backup EXCEPT ![p] = Absent] /\ UNCHANGED <<failure, faults>>
     \/ /\ faults < Faults /\ faults' = faults + 1
        /\ backup' = [backup EXCEPT ![p] = Partial]
        /\ failure' = [failure EXCEPT ![p] = "drop"]
  /\ UNCHANGED <<config, work, target, stage, attempt, interrupted, original,
                 published>>

Unstage(p) ==
  /\ step[p] = "unstage"
  /\ stage' = [stage EXCEPT ![p] = Absent]
  /\ Proceeds(p, IF failure[p] = "none" /\ config[p].install THEN "install" ELSE "cleanup")
  /\ UNCHANGED <<config, failure, work, target, backup, attempt, interrupted,
                 faults, original, published>>

-----------------------------------------------------------------------------
(* The device. *)

Install(p) == Command(p, "install", IF config[p].run THEN "launch" ELSE "cleanup")

LaunchGame(p) == Command(p, "launch", "cleanup")

(* The device is not back yet: another attempt after a second. *)
LaunchAgain(p) ==
  /\ step[p] = "launch"
  /\ p \notin interrupted
  /\ IF attempt[p] = Attempts
       THEN Fails(p, "launch") /\ UNCHANGED attempt
       ELSE /\ Proceeds(p, "wait")
            /\ attempt' = [attempt EXCEPT ![p] = @ + 1]
            /\ UNCHANGED failure
  /\ UNCHANGED <<config, work, paths, interrupted, faults, original>>

Wait(p) ==
  /\ step[p] = "wait"
  /\ \/ Proceeds(p, "launch") /\ UNCHANGED failure
     \/ p \in interrupted /\ Fails(p, "launch")
  /\ UNCHANGED <<config, work, paths, attempt, interrupted, faults, original>>

Cleanup(p) ==
  /\ step[p] = "cleanup"
  /\ work' = work \ {p}
  /\ Proceeds(p, IF failure[p] # "none" THEN "failed"
             ELSE IF config[p].run /\ ~config[p].device THEN "start" ELSE "done")
  /\ UNCHANGED <<config, failure, paths, attempt, interrupted, faults, original>>

(* `run` for the Simulator: the build has returned; the Simulator is left  *)
(* running, with the package that is at the output path by then.           *)
StartSimulator(p) ==
  /\ step[p] = "start"
  /\ \/ p \notin interrupted /\ target \in Products /\ Proceeds(p, "done") /\ UNCHANGED <<failure, faults>>
     \/ target \notin Products /\ Fails(p, "start") /\ UNCHANGED faults
     \/ p \in interrupted /\ Fails(p, "start") /\ UNCHANGED faults
     \/ Fault(p)
  /\ UNCHANGED <<config, work, paths, attempt, interrupted, original>>

-----------------------------------------------------------------------------
(* The user interrupts a builder; a builder dies. *)

InterruptBuild(p) ==
  /\ ~Ended(p)
  /\ interrupted = {}
  /\ interrupted' = {p}
  /\ UNCHANGED <<config, step, failure, work, paths, attempt, faults, original>>

Die(p) ==
  /\ ~Ended(p)
  /\ \A q \in Builders : step[q] # "dead"
  /\ Proceeds(p, "dead")
  /\ UNCHANGED <<config, failure, work, paths, attempt, interrupted, faults, original>>

Make(p) ==
  \/ PlanSimulator(p) \/ PlanDevice(p) \/ FindOutput(p) \/ MakeWorkspace(p)
  \/ PrepareSimulator(p) \/ CompileSimulator(p) \/ PackageSimulator(p)
  \/ WriteSources(p) \/ ResolveModules(p) \/ CompileDevice(p) \/ LinkDevice(p)
  \/ InspectImage(p) \/ StageResources(p) \/ PackageDevice(p) \/ VerifyPackage(p)
Replace(p) ==
  \/ MakeStage(p) \/ CopyPackage(p) \/ LookAtTarget(p) \/ SetAside(p) \/ Commit(p)
  \/ Restore(p) \/ DropBackup(p) \/ Unstage(p)
Deploy(p) == Install(p) \/ LaunchGame(p) \/ LaunchAgain(p) \/ Wait(p)
BuildStep(p) == Make(p) \/ Replace(p) \/ Deploy(p) \/ Cleanup(p) \/ StartSimulator(p)

BuildSteps == \E p \in Builders : BuildStep(p)

BuildNext == BuildSteps \/ \E p \in Builders : InterruptBuild(p) \/ Die(p)

(* Some builder that can go on does. *)
BuildFairness == WF_building(BuildSteps)
BuildSpec == BuildInit /\ [][BuildNext]_building /\ BuildFairness
-----------------------------------------------------------------------------
BuildPlaces == {"plan", "find", "workspace", "prepare", "write", "resolve", "compile", "link",
          "inspect", "resources", "package", "verify", "stage", "copy", "look",
          "aside", "commit", "restore", "drop", "unstage", "install", "launch",
          "wait", "cleanup", "start"}

BuildTypeOK ==
  /\ step \in [Builders -> BuildPlaces \cup Rest]
  /\ failure \in [Builders -> BuildPlaces \cup {"none", "conflict"}]
  /\ work \in SUBSET Builders
  /\ target \in Products \cup {Absent, File}
  /\ stage \in [Builders -> Products \cup {Absent, Partial}]
  /\ backup \in [Builders -> Products \cup {Absent, Partial}]
  /\ attempt \in [Builders -> 1 .. Attempts]
  /\ interrupted \in SUBSET Builders
  /\ faults \in 0 .. Faults

(* What build.go and protocol.go report of a failed build in JSON. *)
Category(p) ==
  IF p \in interrupted THEN "cancelled"
  ELSE IF config[p].run
    THEN CASE failure[p] = "install" -> "deployment-failed"
           [] failure[p] \in {"launch", "start"} -> "launch-failed"
           [] OTHER -> "build-failed"
    ELSE CASE failure[p] = "conflict" -> "output-conflict"
           [] failure[p] \in {"resolve", "compile"} -> "compilation-failed"
           [] failure[p] = "link" -> "link-failed"
           [] failure[p] = "package" -> "packaging-failed"
           [] OTHER -> "build-failed"

(* "An existing target is restored if the final rename fails"              *)
(* (directory.go:14): wherever failures, interruptions and deaths strike,  *)
(* once there is a package there is a whole one, at the output path or in  *)
(* the backup of a builder that is about to commit or restore, has died    *)
(* there, or has reported that it could not restore it.  The output path   *)
(* itself never has half a package.                                        *)
Holding(p) ==
  /\ backup[p] \in Products
  /\ step[p] \in {"commit", "restore", "dead"} \/ failure[p] = "restore"

PackageIsWhole ==
  /\ original = Old \/ published # {} =>
       target \in Products \/ \E p \in Builders : Holding(p)
  /\ target # Partial

(* A builder that returns leaves no workspace and no stage, and a backup   *)
(* only if it reported that it could not put it away.                      *)
Tidy ==
  \A p \in Builders : step[p] \in {"done", "failed"} =>
    /\ p \notin work
    /\ stage[p] = Absent
    /\ backup[p] # Absent => failure[p] \in {"restore", "drop"}

(* directory.go:14: a failing, interrupted or dying builder leaves a whole *)
(* package, and a returning one nothing else.                              *)
PackageSurvives == PackageIsWhole /\ Tidy

(* What a builder reports agrees with what it did: success means that its  *)
(* package has been published, a failure of the tools or a conflict that   *)
(* nothing of it has, one of the device that everything else is done.      *)
(* Without --force a package that was there is not taken away by it.       *)
BuildsReportTruly ==
  \A p \in Builders :
    /\ step[p] = "done" /\ config[p].output => p \in published
    /\ step[p] = "failed" /\ p \in published => failure[p] \in {"drop", "install", "launch", "start"}
    /\ step[p] = "failed" => CASE
         Category(p) \in {"deployment-failed", "launch-failed"} ->
           config[p].output => p \in published
      [] Category(p) \in {"output-conflict", "compilation-failed", "link-failed",
                          "packaging-failed"} -> p \notin published
      [] OTHER -> TRUE
    /\ ~config[p].replace => backup[p] = Absent

(* Every builder returns or dies, however often the device is not found. *)
EveryBuildEnds == <>[](\A p \in Builders : Ended(p))
=============================================================================
