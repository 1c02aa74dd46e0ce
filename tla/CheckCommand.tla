---------------------------- MODULE CheckCommand ----------------------------
(* gopdsdk check and gopdsdk baseline on a module whose sources are edited *)
(* meanwhile (analyzer/run.go, fixes.go, suppression.go, baseline.go,      *)
(* sourcepolicy.go, policy.go, catalog.go, administration.go).             *)
EXTENDS Naturals, Sequences, FiniteSets, FiniteSetsExt, SequencesExt

CONSTANTS
  Files,        \* file -> [targets: that it is built for, generated]
  Rules,        \* rule -> [family, severity, targets, experimental]
  Issues,       \* numbers, in the order of the source -> [file, line, rule,
                \*   targets: where it is found, edits, breaks: by the edits]
  Sessions,     \* sequences of commands on a tree: [tree, config, commands]
  EditedAt,     \* the steps of an applied fix at which someone edits a file
  Edits, Faults, \* bounds on edits, on failing calls, deaths and interrupts
  Missing

VARIABLES
  tree,         \* file -> [issues, ignores, moved, harm, broken]
  baseline,     \* the baseline's file: diagnostic -> reason, or Missing
  backups,      \* what hidden backups of it hold
  report,       \* the last report written, or Missing
  session,      \* the commands that follow, and the configuration
  command,      \* the options of the command that runs
  step,         \* where the command is
  nth,          \* which of the targets it is at
  loaded,       \* the tree as it was loaded for the target
  findings,     \* [issue, target, moved, copy, excuse]
  unloadable,   \* whether a package of some target does not load
  fixed,        \* file -> [before, after], the files that fixes change
  entries,      \* what a baseline command replaces, by what
  status,       \* the exit code of the last command
  edits, faults,
  past          \* what was known when a command ended; no part of the program's state

(* Severities, and the thresholds of failing. *)
Rank == [none |-> 0, information |-> 1, performance |-> 2, warning |-> 3, error |-> 4]

(* What the program takes for granted: an issue is in a file, for targets   *)
(* that there are; a session starts with files that nobody harmed, and with *)
(* commands for one target at least and with severities that there are.     *)
Platforms == {"simulator", "device"}
FileStates ==
  [issues : SUBSET DOMAIN Issues, ignores : SUBSET [line : Nat, rule : STRING], moved : Nat,
   harm : {"none", "torn", "misplaced"}, broken : SUBSET Platforms]
Aimed(options) == "targets" \in DOMAIN options => options.targets \in Seq(Platforms) \ {<<>>}
Graded(options) ==
  /\ "failOn" \in DOMAIN options => options.failOn \in DOMAIN Rank
  /\ "severities" \in DOMAIN options => \A s \in DOMAIN options.severities : options.severities[s] \in DOMAIN Rank
Commands == UNION {ToSet(s.commands) : s \in Sessions}
CheckAssumption ==
  /\ IsFiniteSet(DOMAIN Issues) /\ DOMAIN Issues \subseteq Nat
  /\ \A i \in DOMAIN Issues : Issues[i].file \in DOMAIN Files /\ Issues[i].breaks \subseteq Platforms
  /\ \A r \in DOMAIN Rules : Rules[r].severity \in DOMAIN Rank
  /\ \A s \in Sessions :
       /\ s.tree \in [DOMAIN Files -> FileStates] /\ s.commands \in Seq(Commands)
       /\ Aimed(s.config) /\ Graded(s.config)
       /\ \A file \in DOMAIN Files :
            /\ s.tree[file].moved = 0 /\ s.tree[file].harm = "none"
            /\ \A i \in s.tree[file].issues : Issues[i].file = file
  /\ \A c \in Commands : c.op \in {"check", "create", "update", "validate"}
                         /\ (c.op = "check" => Aimed(c.flags) /\ Graded(c.flags))
  /\ Edits \in Nat /\ Faults \in Nat

(* While a fix is applied files are edited only after they were read for it *)
(* and before they are compared, or after the last of them was written.    *)
Noticed == EditedAt \subseteq {"validate", "compare", "output", "ended"}

work == <<nth, loaded, findings, unloadable, fixed, entries>>
disk == <<tree, baseline, backups, report>>
repository == <<disk, session, command, step, work, status, edits, faults, past>>

-----------------------------------------------------------------------------
(* Options: a flag, or the repository's configuration, or the default.     *)
Defaults ==
  [format |-> "text", targets |-> <<"simulator", "device">>, tests |-> FALSE,
   profile |-> "default", rules |-> {}, categories |-> {}, excluded |-> {},
   failOn |-> "warning", baseline |-> FALSE, generated |-> "exclude", fix |-> "none",
   changed |-> {}, severities |-> <<>>]

Merged(flags, config) ==
  [name \in DOMAIN Defaults |->
     LET own == IF name \in DOMAIN config THEN config[name] ELSE Defaults[name]
     IN IF name = "severities" /\ name \in DOMAIN flags
        THEN [s \in DOMAIN own \cup DOMAIN flags[name] |->
                IF s \in DOMAIN flags[name] THEN flags[name][s] ELSE own[s]]
        ELSE IF name \in DOMAIN flags THEN flags[name] ELSE own]

Families == {Rules[r].family : r \in DOMAIN Rules}

(* RuleCatalog.Select *)
Wanted(c) ==
  {r \in DOMAIN Rules \ c.excluded :
     (c.rules = {} /\ c.categories = {}) \/ r \in c.rules \/ Rules[r].family \in c.categories}
Allowed(c, r) == Rules[r].experimental => c.profile # "default"
Selected(c) == {r \in Wanted(c) : Allowed(c, r)}

Invalid(c) ==
  \/ c.format = "json" /\ c.fix # "none"
  \/ ~(c.rules \cup c.excluded \subseteq DOMAIN Rules) \/ ~(c.categories \subseteq Families)
  \/ \E r \in Wanted(c) \cap c.rules : ~Allowed(c, r)
  \/ ~(DOMAIN c.severities \subseteq DOMAIN Rules \cup Families)

(* CheckPolicy.Resolve: a rule's override before its family's. *)
Severity(c, r) ==
  IF r \in DOMAIN c.severities THEN c.severities[r]
  ELSE IF Rules[r].family \in DOMAIN c.severities THEN c.severities[Rules[r].family]
  ELSE Rules[r].severity

Active(c, target) == {r \in Selected(c) : target \in Rules[r].targets}
Changed(c, file) == c.changed = {} \/ file \in c.changed
Built(target) == {file \in DOMAIN Files : target \in Files[file].targets}
Reporting(c, target) ==
  {file \in Built(target) : Changed(c, file) /\ (Files[file].generated => c.generated = "include")}

-----------------------------------------------------------------------------
(* What the analysis of a target finds and keeps: with tests, a package is *)
(* loaded a second time for its tests, and all is found in both.           *)
FoundIn(c, target, sources) ==
  {[issue |-> i, target |-> target, moved |-> sources[Issues[i].file].moved, copy |-> n,
    excuse |-> "none"] :
     n \in IF c.tests THEN {1, 2} ELSE {1},
     i \in {j \in UNION {sources[file].issues : file \in Reporting(c, target)} :
              target \in Issues[j].targets /\ Issues[j].rule \in Active(c, target)}}

(* The directives of files as they are now, [line, rule]; a directive for  *)
(* no rule is malformed.                                                   *)
Directives(target) ==
  UNION {{[file |-> file, line |-> d.line, moved |-> tree[file].moved, rule |-> d.rule] :
            d \in tree[file].ignores} : file \in Built(target)}
Malformed(target) == \E d \in Directives(target) : d.rule \notin DOMAIN Rules

Meant(d, f) ==
  /\ d.file = Issues[f.issue].file /\ d.line = Issues[f.issue].line
  /\ d.moved = f.moved /\ d.rule = Issues[f.issue].rule
Earlier(f, g) == f.issue < g.issue \/ (f.issue = g.issue /\ f.copy < g.copy)

(* A directive is used up by the first finding that it is meant for. *)
UsedBy(d, F) == {f \in F : Meant(d, f) /\ ~\E g \in F : Meant(d, g) /\ Earlier(g, f)}
Ignored(target, F) ==
  {IF \E d \in Directives(target) : f \in UsedBy(d, F) THEN [f EXCEPT !.excuse = "inline"]
   ELSE f : f \in F}
StaleDirectives(c, target, F) ==
  {d \in Directives(target) :
     d.file \in Reporting(c, target) /\ d.rule \in Active(c, target) /\ UsedBy(d, F) = {}}

(* The identity of a diagnostic in a baseline: its place, not its file.    *)
Identity(f) == [issue |-> f.issue, target |-> f.target, moved |-> f.moved]
Adopted(known, F) ==
  {IF f.excuse = "none" /\ Identity(f) \in DOMAIN known THEN [f EXCEPT !.excuse = "baseline"]
   ELSE f : f \in F}
StaleEntries(c, known, F) ==
  {e \in DOMAIN known : Changed(c, Issues[e.issue].file) /\ e \notin {Identity(f) : f \in F}}

FailsAbove(c, f) ==
  /\ f.excuse = "none" /\ Rank[c.failOn] # 0
  /\ Rank[Severity(c, Issues[f.issue].rule)] > Rank[c.failOn]

Fails(c, f) ==
  /\ f.excuse = "none" /\ Rank[c.failOn] # 0
  /\ Rank[Severity(c, Issues[f.issue].rule)] >= Rank[c.failOn]

-----------------------------------------------------------------------------
(* Safe fixes: the edits of a file, [from, to, text]. *)
FixableAnywhere(F) == {f \in F : f.excuse = "none" /\ Issues[f.issue].edits # {}}

Fixable(F) ==
  {f \in F : f.excuse = "none" /\ Issues[f.issue].edits # {}
             /\ ~Files[Issues[f.issue].file].generated}
ToFix(F, file) == {f \in Fixable(F) : Issues[f.issue].file = file}
EditsOf(F) == UNION {Issues[f.issue].edits : f \in F}
Conflict(F) ==
  \E a, b \in EditsOf(F) : a # b /\ (a.from = b.from \/ (a.from < b.from /\ b.from < a.to))

(* Edits are made at the places the analysis found, in the file as it is.  *)
Edited(content, F) ==
  IF \E f \in F : f.moved # content.moved THEN [content EXCEPT !.harm = "misplaced"]
  ELSE [content EXCEPT
         !.issues = {i \in @ : Issues[i].edits = {} \/ ~(Issues[i].edits \subseteq EditsOf(F))},
         !.broken = @ \cup UNION {Issues[f.issue].breaks : f \in F}]
Prepared(F) ==
  [file \in {g \in DOMAIN Files : ToFix(F, g) # {}} |->
     [before |-> tree[file], after |-> Edited(tree[file], ToFix(F, file))]]

-----------------------------------------------------------------------------
Quiet == [edits |-> edits, faults |-> faults]
Options(c) == [name \in DOMAIN c \ {"baseline", "format", "fix", "failOn", "severities"} |-> c[name]]

Fault == faults < Faults /\ faults' = faults + 1
Exits(c) == step' = "ended" /\ status' = c
Goes(to) == step' = to /\ UNCHANGED status

NothingYet(sources) ==
  [since |-> [edits |-> 0, faults |-> 0], first |-> sources, op |-> "none",
   typed |-> [file \in DOMAIN Files |-> 0], reported |-> Missing, adopted |-> Missing,
   known |-> {}, had |-> Missing]

CheckInit ==
  /\ \E s \in Sessions : tree = s.tree /\ session = [config |-> s.config, commands |-> s.commands]
  /\ past = NothingYet(tree)
  /\ baseline = Missing /\ backups = {} /\ report = Missing
  /\ command = Defaults /\ step = "ended" /\ status = 0
  /\ nth = 1 /\ loaded = tree /\ findings = {} /\ unloadable = FALSE
  /\ fixed = <<>> /\ entries = Missing /\ edits = 0 /\ faults = 0

Command == Head(session.commands)
Starts(op) ==
  /\ step = "ended" /\ session.commands # <<>> /\ Command.op = op
  /\ session' = [session EXCEPT !.commands = Tail(@)]
  /\ past' = [past EXCEPT !.since = Quiet, !.first = tree, !.op = op]
  /\ nth' = 1 /\ loaded' = tree /\ findings' = {} /\ unloadable' = FALSE /\ fixed' = <<>>

(* A report goes to a file that is emptied when the command starts. *)
StartCheck ==
  /\ Starts("check")
  /\ LET c == Merged(Command.flags, session.config) IN
       /\ command' = c
       /\ IF Invalid(c) THEN Exits(2) ELSE Goes("load")
       /\ report' = IF c.format = "json" THEN Missing ELSE report
  /\ UNCHANGED <<tree, baseline, backups, entries, edits, faults>>

Target == command.targets[nth]
Broken(sources) == \E file \in Built(Target) : Target \in sources[file].broken
NextTarget ==
  IF nth < Len(command.targets) THEN Goes("load") /\ nth' = nth + 1
  ELSE Goes("merge") /\ nth' = 1

Load ==
  /\ step = "load" /\ loaded' = tree
  /\ IF Broken(tree) THEN unloadable' = TRUE /\ NextTarget
     ELSE Goes("suppress") /\ UNCHANGED <<unloadable, nth>>
  /\ UNCHANGED <<disk, session, command, findings, fixed, entries, edits, faults, past>>

(* Directives are read from the files again, after the analysis. *)
Suppress ==
  /\ step = "suppress"
  /\ LET found == FoundIn(command, Target, loaded) IN
       IF Malformed(Target) \/ StaleDirectives(command, Target, found) # {}
       THEN Exits(2) /\ UNCHANGED <<findings, nth>>
       ELSE findings' = findings \cup Ignored(Target, found) /\ NextTarget
  /\ UNCHANGED <<disk, session, command, loaded, unloadable, fixed, entries, edits, faults, past>>

Merge ==
  /\ step = "merge"
  /\ IF unloadable THEN Exits(3) /\ UNCHANGED findings
     ELSE IF ~command.baseline THEN Goes("prepare") /\ UNCHANGED findings
     ELSE IF baseline = Missing THEN Exits(2) /\ UNCHANGED findings
     ELSE IF StaleEntries(command, baseline, findings) # {} THEN Exits(2) /\ UNCHANGED findings
     ELSE findings' = Adopted(baseline, findings) /\ Goes("prepare")
  /\ UNCHANGED <<disk, session, command, nth, loaded, unloadable, fixed, entries, edits, faults, past>>

(* Fixes are prepared whatever is asked for: a conflict fails any check. *)
Prepare ==
  /\ step = "prepare"
  /\ IF \E file \in DOMAIN Files : Conflict(ToFix(findings, file))
     THEN Exits(4) /\ UNCHANGED fixed
     ELSE /\ fixed' = Prepared(findings)
          /\ Goes(IF command.fix # "none" /\ fixed' # <<>> THEN "validate" ELSE "output")
  /\ UNCHANGED <<disk, session, command, nth, loaded, findings, unloadable, entries, edits, faults, past>>

Overlaid == [file \in DOMAIN Files |-> IF file \in DOMAIN fixed THEN fixed[file].after ELSE tree[file]]

Validate ==
  /\ step = "validate"
  /\ IF Broken(Overlaid) THEN Exits(4) /\ UNCHANGED nth
     ELSE IF nth < Len(command.targets) THEN nth' = nth + 1 /\ Goes("validate")
     ELSE nth' = 1 /\ Goes(IF command.fix = "apply" THEN "compare" ELSE "output")
  /\ UNCHANGED <<disk, session, command, loaded, findings, unloadable, fixed, entries, edits, faults, past>>

CompareNothing ==
  /\ step = "compare" /\ Goes("write")
  /\ UNCHANGED <<disk, session, command, work, edits, faults, past>>

CompareFiles ==
  /\ step = "compare"
  /\ IF \E file \in DOMAIN fixed : tree[file] # fixed[file].before THEN Exits(4) ELSE Goes("write")
  /\ UNCHANGED <<disk, session, command, work, edits, faults, past>>

(* Files are written one after the other. *)
Write ==
  /\ step = "write"
  /\ \E file \in DOMAIN fixed :
       /\ tree' = [tree EXCEPT ![file] = fixed[file].after]
       /\ fixed' = [g \in DOMAIN fixed \ {file} |-> fixed[g]]
  /\ Goes(IF fixed' = <<>> THEN "output" ELSE "write")
  /\ UNCHANGED <<baseline, backups, report, session, command, nth, loaded, findings,
                 unloadable, entries, edits, faults, past>>

Output ==
  /\ step = "output"
  /\ Exits(IF \E f \in findings : Fails(command, f) THEN 1 ELSE 0)
  /\ report' = IF command.format = "json" THEN findings ELSE report
  /\ past' = IF command.format = "json"
             THEN [past EXCEPT !.reported = IF past.since = Quiet THEN [tree |-> tree, options |-> Options(command)]
                                            ELSE Missing]
             ELSE past
  /\ UNCHANGED <<tree, baseline, backups, session, command, work, edits, faults>>

-----------------------------------------------------------------------------
(* gopdsdk baseline create, update and validate. *)

(* baselineFromReport: whatever the report shows, excused or not.          *)
Reasons(old, reason) ==
  [e \in {Identity(f) : f \in report} |->
     IF old # Missing /\ e \in DOMAIN old THEN old[e] ELSE reason]
Duplicated == \E f, g \in report : f # g /\ Identity(f) = Identity(g)

(* create looks for a baseline, the others read the one there is. *)
StartBaseline(op) ==
  /\ Starts(op)
  /\ IF (op = "create") # (baseline = Missing) THEN Exits(2) /\ entries' = Missing
     ELSE entries' = [old |-> baseline, new |-> baseline, reason |-> Command.reason] /\ Goes("read")
  /\ UNCHANGED <<disk, command, edits, faults>>

ReadReport ==
  /\ step = "read"
  /\ IF report = Missing THEN IF past.op = "validate" THEN Goes("show") /\ UNCHANGED entries
                           ELSE Exits(2) /\ UNCHANGED entries
     ELSE IF Duplicated THEN Exits(2) /\ UNCHANGED entries
     ELSE /\ entries' = [entries EXCEPT !.new = Reasons(entries.old, entries.reason)]
          /\ Goes(IF past.op = "validate" THEN "show" ELSE "aside")
  /\ UNCHANGED <<disk, session, command, nth, loaded, findings, unloadable, fixed, edits, faults, past>>

(* writeBaselineAtomic, once the new one is staged in a file of its own. *)
PutAside ==
  /\ step = "aside" /\ Goes("replace")
  /\ IF baseline = Missing THEN UNCHANGED <<baseline, backups>>
     ELSE backups' = backups \cup {baseline} /\ baseline' = Missing
  /\ entries' = [entries EXCEPT !.old = baseline]
  /\ UNCHANGED <<tree, report, session, command, nth, loaded, findings, unloadable, fixed, edits, faults, past>>

Replace ==
  /\ step = "replace" /\ Goes("drop") /\ baseline' = entries.new
  /\ past' = [past EXCEPT !.adopted = past.reported, !.known = DOMAIN entries.new]
  /\ UNCHANGED <<tree, backups, report, session, command, work, edits, faults>>

(* If the backup is not removed nobody is told. *)
DropBackup ==
  /\ step = "drop" /\ Goes("show") /\ past' = [past EXCEPT !.had = baseline]
  /\ \/ backups' = backups \ {entries.old} /\ UNCHANGED faults
     \/ Fault /\ UNCHANGED backups
  /\ UNCHANGED <<tree, baseline, report, session, command, work, edits>>

Show ==
  /\ step = "show" /\ Exits(0)
  /\ UNCHANGED <<disk, session, command, work, edits, faults, past>>

-----------------------------------------------------------------------------
(* Someone moves the code of a file, or adds to it. *)
Edit ==
  /\ edits < Edits /\ edits' = edits + 1
  /\ step \in EditedAt \/ past.op # "check" \/ command.fix # "apply"
  /\ \E file \in DOMAIN Files :
       \/ /\ tree' = [tree EXCEPT ![file].moved = @ + 1]
          /\ past' = [past EXCEPT !.typed[file] = @ + 1]
       \/ \E i \in {j \in DOMAIN Issues : Issues[j].file = file} \ tree[file].issues :
            tree' = [tree EXCEPT ![file].issues = @ \cup {i}] /\ UNCHANGED past
  /\ UNCHANGED <<baseline, backups, report, session, command, step, work, status, faults>>

(* What a command ends with when a call fails or it is interrupted. *)
Codes ==
  [load |-> {130, 2}, suppress |-> {130, 4, 2}, merge |-> {2}, prepare |-> {4}, validate |-> {4},
   compare |-> {4}, output |-> {4}, read |-> {2}, aside |-> {4}, show |-> {4}]
Fail ==
  /\ Fault /\ step \in DOMAIN Codes /\ \E c \in Codes[step] : Exits(c)
  /\ UNCHANGED <<disk, session, command, work, edits, past>>

(* The file is not opened, or is cut short. *)
FailWrite ==
  /\ Fault /\ step = "write" /\ Exits(4)
  /\ \/ UNCHANGED tree
     \/ \E file \in DOMAIN fixed : tree' = [tree EXCEPT ![file].harm = "torn"]
  /\ UNCHANGED <<baseline, backups, report, session, command, work, edits, past>>

(* What fails the replacement may fail the restoration, and nobody is told. *)
FailReplace ==
  /\ Fault /\ step = "replace" /\ Exits(4)
  /\ \/ baseline' = entries.old /\ backups' = backups \ {entries.old}
     \/ UNCHANGED <<baseline, backups>>
  /\ UNCHANGED <<tree, report, session, command, work, edits, past>>

Die ==
  /\ Fault /\ step # "ended" /\ Exits(137)
  /\ \/ UNCHANGED tree
     \/ step = "write" /\ \E file \in DOMAIN fixed : tree' = [tree EXCEPT ![file].harm = "torn"]
  /\ past' = [past EXCEPT !.had = IF step = "drop" THEN baseline ELSE @]
  /\ UNCHANGED <<baseline, backups, report, session, command, work, edits>>

Check ==
  StartCheck \/ Load \/ Suppress \/ Merge \/ Prepare \/ Validate \/ CompareFiles \/ Write \/ Output
Baseline ==
  (\E op \in {"create", "update", "validate"} : StartBaseline(op))
    \/ ReadReport \/ PutAside \/ Replace \/ DropBackup \/ Show
CheckNext == Check \/ Baseline \/ Edit \/ Fail \/ FailWrite \/ FailReplace \/ Die
CheckSpec == CheckInit /\ [][CheckNext]_repository

-----------------------------------------------------------------------------
CheckSteps == DOMAIN Codes \cup {"write", "replace", "drop", "ended"}

(* Type invariant: a command is at one of its steps, its findings are      *)
(* issues of its targets, and what was reported or adopted has an identity.*)
CheckTypeOK ==
  /\ step \in CheckSteps /\ status \in {0, 1, 2, 3, 4, 130, 137}
  /\ nth \in DOMAIN command.targets
  /\ \A f \in findings : f.issue \in DOMAIN Issues /\ f.excuse \in {"none", "inline", "baseline"}
  /\ \A file \in DOMAIN fixed : ~Files[file].generated
  /\ edits \in 0 .. Edits /\ faults \in 0 .. Faults

(* Applied fixes (fixes.go; API.md, "Application diagnostics"): whatever    *)
(* was typed into a file between the preparation of a fix and its writing   *)
(* is kept, no fix lands where it does not belong, only a fix that was      *)
(* asked for removes anything, never from a generated file; and once fixes  *)
(* were applied all targets load and another run has no copy of them.       *)
FixesAreSafe ==
  /\ \A file \in DOMAIN Files :
       /\ tree[file].moved = past.typed[file] /\ tree[file].harm # "misplaced"
       /\ past.op # "check" \/ command.fix # "apply" \/ Files[file].generated
            => past.first[file].issues \subseteq tree[file].issues
       /\ \A i \in past.first[file].issues \ tree[file].issues :
            Issues[i].edits # {} /\ Issues[i].edits \subseteq EditsOf({f \in findings : f.excuse = "none"})
  /\ past.op = "check" /\ step = "ended" /\ status \in {0, 1} /\ command.fix = "apply" =>
       /\ \A target \in ToSet(command.targets) :
            \A file \in Built(target) : target \notin tree[file].broken
       /\ past.since = Quiet =>
            \A f \in findings : LET i == Issues[f.issue] IN
              i.edits = {} \/ f.excuse # "none" \/ Files[i.file].generated
                \/ f.issue \notin tree[i.file].issues

(* Baselines (administration.go, "restoration if replacement fails" in      *)
(* API.md): until a new baseline replaced it the last one is in its place   *)
(* or, while it is replaced, after a death or if it was not restored, in a  *)
(* backup; a command that fails and leaves no backup leaves it in its place; *)
(* but for a baseline that is made anew, after one was lost, known           *)
(* identities keep their reasons.                                           *)
BaselineSurvives ==
  /\ past.had # Missing => past.had \in {baseline} \cup backups
  /\ step = "ended" /\ status # 137 /\ backups = {} => baseline = past.had
  /\ past.op # "create" /\ past.had # Missing /\ baseline # Missing =>
       \A e \in DOMAIN past.had \cap DOMAIN baseline : baseline[e] = past.had[e]

FilesSurvive == FixesAreSafe /\ BaselineSurvives

(* What a check has to excuse: issue i found for a target. *)
Worrying ==
  {[issue |-> i, target |-> target, moved |-> past.first[Issues[i].file].moved] :
     target \in ToSet(command.targets), i \in
       {j \in UNION {past.first[file].issues : file \in DOMAIN Files} :
          LET r == Issues[j].rule file == Issues[j].file IN
            /\ r \in Selected(command) /\ Changed(command, file)
            /\ ~Files[file].generated \/ command.generated = "include"
            /\ Rank[command.failOn] \in 1 .. Rank[Severity(command, r)]}}
OnItsLine(w) ==
  {i \in past.first[Issues[w.issue].file].issues :
     Issues[i].line = Issues[w.issue].line /\ Issues[i].rule = Issues[w.issue].rule}
Arises(w) ==
  LET i == Issues[w.issue] IN
    w.target \in i.targets \cap Files[i.file].targets \cap Rules[i.rule].targets
Excused(w) ==
  LET i == Issues[w.issue] IN
    \/ [line |-> i.line, rule |-> i.rule] \in past.first[i.file].ignores
    \/ command.baseline /\ w \in past.known

(* The exit code (run.go; API.md, "For gradual external-game adoption"): a  *)
(* check of sources that stay as they are passes only if all that it finds  *)
(* at its threshold for any of its targets is ignored on its line or was in *)
(* the report that the baseline was made from; fails only if something is   *)
(* not, or is one of several on an ignored line; and passes once the report *)
(* of the same check was adopted.                                           *)
AdoptionHolds ==
  past.op = "check" /\ step = "ended" /\ past.since = Quiet =>
    /\ status = 0 => \A w \in Worrying : Arises(w) => Excused(w)
    /\ status = 1 /\ ~command.tests =>
         \E w \in Worrying : Arises(w) /\ (Excused(w) => Cardinality(OnItsLine(w)) > 1)
    /\ past.adopted # Missing /\ command.baseline /\ past.adopted.tree = past.first
         /\ past.adopted.options = Options(command) /\ baseline # Missing /\ ~Invalid(command) => status = 0
=============================================================================
