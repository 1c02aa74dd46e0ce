------------------------- MODULE CheckCommandProofs -------------------------
(***************************************************************************)
(* Proofs about checks, their fixes and baselines, for any files, rules    *)
(* and issues, any commands one after the other, and any number of edits   *)
(* and faults: no edit, no baseline and no reason in one is lost, and the  *)
(* exit code of a check that nothing disturbs is the right one.            *)
(*                                                                         *)
(* For files edits are those that the program can notice (Noticed): while  *)
(* a fix is applied none between the analysis and the preparation or two   *)
(* writes.                                                                 *)
(***************************************************************************)
EXTENDS CheckCommand, FiniteSetTheorems, TLAPS

CheckAt == {"load", "suppress", "merge", "prepare", "validate", "compare", "write", "output"}
BaselineAt == {"read", "aside", "replace", "drop", "show"}
Unwritten == {"load", "suppress", "merge", "prepare", "validate", "compare"}
Trees == [DOMAIN Files -> FileStates]
Excuses == {"none", "inline", "baseline"}
Finding == [issue : DOMAIN Issues, target : Platforms, moved : Nat, copy : Nat, excuse : Excuses]

(* Options, and where the command is. *)
Commanded ==
  /\ session = [config |-> session.config, commands |-> session.commands]
  /\ Aimed(session.config) /\ session.commands \in Seq(Commands)
  /\ command.targets \in Seq(Platforms) /\ nth \in DOMAIN command.targets
  /\ step \in CheckAt \cup BaselineAt \cup {"ended"}
  /\ status \in {0, 1, 2, 3, 4, 130, 137}
  /\ step \in CheckAt => past.op = "check"
  /\ step \in BaselineAt => past.op \in {"create", "update", "validate"}
  /\ step \in {"compare", "write"} => command.fix = "apply"
  /\ step \in {"merge", "prepare"} => nth = 1

Recorded ==
  /\ past = [since |-> past.since, first |-> past.first, op |-> past.op, typed |-> past.typed,
             reported |-> past.reported, adopted |-> past.adopted, known |-> past.known,
             had |-> past.had]
  /\ past.since = [edits |-> past.since.edits, faults |-> past.since.faults]
  /\ past.first \in Trees /\ past.typed \in [DOMAIN Files -> Nat]
  /\ past.since.edits \in 0 .. edits /\ past.since.faults \in 0 .. faults

Typed ==
  /\ tree \in Trees /\ loaded \in Trees /\ findings \subseteq Finding
  /\ edits \in 0 .. Edits /\ faults \in 0 .. Faults
  /\ unloadable \in BOOLEAN
  /\ fixed = [file \in DOMAIN fixed |-> fixed[file]]
  /\ \A file \in DOMAIN fixed :
       /\ file \in DOMAIN Files /\ ~Files[file].generated
       /\ fixed[file].before \in FileStates /\ fixed[file].after \in FileStates
  /\ Commanded /\ Recorded

(* The baseline that was replaced last is there, or was put aside.         *)
Agrees(new) == \A e \in DOMAIN past.had \cap DOMAIN new : new[e] = past.had[e]
Kept ==
  /\ past.had # Missing => past.had \in {baseline} \cup backups
  /\ step # "drop" /\ baseline # Missing => baseline = past.had
  /\ step \in {"read", "aside", "replace"} =>
       entries = [old |-> entries.old, new |-> entries.new, reason |-> entries.reason]
  /\ step = "read" => entries.old = baseline
  /\ step \in {"read", "aside"} /\ past.op # "create" => baseline # Missing
  /\ step = "aside" /\ past.op # "create" => Agrees(entries.new)
  /\ step = "replace" => /\ baseline = Missing
                         /\ entries.old # Missing => entries.old = past.had /\ past.had \in backups
                         /\ past.op # "create" => Agrees(entries.new)
  /\ step = "drop" => /\ past.had # Missing => past.had \in backups
                      /\ past.op # "create" => Agrees(baseline)

(* Fixes, while they are applied. *)
Applying == past.op = "check" /\ command.fix = "apply"
Sound(sources, k) ==
  \A file \in Built(command.targets[k]) : command.targets[k] \notin sources[file].broken
SoundTo(sources, n) == \A k \in DOMAIN command.targets : k <= n => Sound(sources, k)
AllSound(sources) == \A k \in DOMAIN command.targets : Sound(sources, k)

Placed == \A f \in findings : f.moved = tree[Issues[f.issue].file].moved
Loads ==
  /\ step = "suppress" => loaded = tree
  /\ step \in {"load", "suppress", "merge", "prepare"} => Placed
  /\ step = "load" /\ ~unloadable => SoundTo(tree, nth - 1)
  /\ step = "suppress" /\ ~unloadable => SoundTo(tree, nth)
  /\ step = "merge" /\ ~unloadable => AllSound(tree)
  /\ step = "prepare" => AllSound(tree)

Prepares ==
  /\ \A file \in DOMAIN fixed :
       /\ fixed[file].after = Edited(fixed[file].before, ToFix(findings, file))
       /\ fixed[file].before.harm # "misplaced"
       /\ \A f \in ToFix(findings, file) : f.moved = fixed[file].before.moved
  /\ \A f \in Fixable(findings) :
       \/ Issues[f.issue].file \in DOMAIN fixed
       \/ step = "write" /\ f.issue \notin tree[Issues[f.issue].file].issues
  /\ step = "validate" => SoundTo(Overlaid, nth - 1)
  /\ step \in {"compare", "write"} => AllSound(Overlaid)
  /\ step = "write" => \A file \in DOMAIN fixed : fixed[file].before = tree[file]

Applied ==
  /\ AllSound(tree)
  /\ past.since = Quiet => \A f \in Fixable(findings) : f.issue \notin tree[Issues[f.issue].file].issues

Unharmed == \A file \in DOMAIN Files : tree[file].moved = past.typed[file] /\ tree[file].harm # "misplaced"
Additive ==
  \A file \in DOMAIN Files :
    step \in Unwritten \/ ~Applying \/ Files[file].generated => past.first[file].issues \subseteq tree[file].issues
OnlyFixed ==
  \A file \in DOMAIN Files : \A i \in past.first[file].issues \ tree[file].issues :
    Issues[i].edits # {} /\ Issues[i].edits \subseteq EditsOf({f \in findings : f.excuse = "none"})
Applies ==
  Applying =>
    /\ step \in {"load", "suppress", "merge", "prepare"} => Loads
    /\ step \in {"validate", "compare", "write"} => Prepares
    /\ step = "output" \/ (step = "ended" /\ status \in {0, 1}) => Applied

Safe == Unharmed /\ Additive /\ OnlyFixed /\ Applies

IInv == Typed /\ Kept /\ Safe

-----------------------------------------------------------------------------
(* The baseline. *)

(* What a command does that is not about baselines, or that ends one. *)
LEMMA Aside ==
  ASSUME Kept, step # "drop", step' \notin BaselineAt \ {"show"},
         UNCHANGED <<baseline, backups>>, past'.had = past.had
  PROVE  Kept'
BY DEF Kept, BaselineAt

LEMMA HadStays ==
  ASSUME Recorded
  PROVE  /\ StartCheck \/ (\E op \in {"create", "update", "validate"} : Starts(op)) \/ Output
              \/ Replace \/ Edit => past'.had = past.had
         /\ DropBackup => past'.had = baseline
         /\ Die => past'.had = IF step = "drop" THEN baseline ELSE past.had
         /\ past' = past => past'.had = past.had
BY DEF Recorded, StartCheck, Starts, Output, Replace, Edit, DropBackup, Die

LEMMA KeptStays ==
  ASSUME Typed, Kept, [CheckNext]_repository
  PROVE  Kept'
<1>0. Recorded /\ step \in CheckAt \cup BaselineAt \cup {"ended"}
      /\ (step \in CheckAt => past.op = "check")
  BY DEF Typed, Commanded
<1>1. CASE UNCHANGED repository
  BY <1>1 DEF Kept, repository, disk, work, Agrees
<1>2. CASE Check
  <2>1. step # "drop" /\ step' \in CheckAt \cup {"ended"}
    BY <1>2 DEF Check, StartCheck, Load, Suppress, Merge, Prepare, Validate, CompareFiles, Write, Output,
             Starts, Exits, Goes, NextTarget, CheckAt
  <2>2. UNCHANGED <<baseline, backups>> /\ past'.had = past.had
    BY <1>0, <1>2, HadStays DEF Check, StartCheck, Load, Suppress, Merge, Prepare, Validate, CompareFiles,
             Write, Output, disk
  <2> QED
    BY <2>1, <2>2, Aside DEF CheckAt, BaselineAt
<1>3. ASSUME NEW op \in {"create", "update", "validate"}, StartBaseline(op) PROVE Kept'
  <2>1. past'.had = past.had /\ past'.op = op /\ UNCHANGED <<baseline, backups>> /\ step = "ended"
    BY <1>0, <1>3, HadStays DEF StartBaseline, Starts, disk, Recorded
  <2>2. CASE (op = "create") # (baseline = Missing)
    BY <1>3, <2>1, <2>2, Aside DEF StartBaseline, Exits, BaselineAt
  <2>3. CASE ~((op = "create") # (baseline = Missing))
    BY <1>3, <2>1, <2>3 DEF StartBaseline, Goes, Kept
  <2> QED
    BY <2>2, <2>3
<1>4. CASE ReadReport
  <2>1. step = "read" /\ UNCHANGED <<baseline, backups, past>>
    BY <1>4 DEF ReadReport, disk
  <2>2. CASE step' # "aside"
    BY <1>4, <2>1, <2>2, Aside DEF ReadReport, Exits, Goes, BaselineAt
  <2>3. CASE step' = "aside"
    <3>0. entries' = [entries EXCEPT !.new = Reasons(entries.old, entries.reason)]
      BY <1>4, <2>1, <2>3 DEF ReadReport, Exits, Goes
    <3>1. /\ entries' = [old |-> entries'.old, new |-> entries'.new, reason |-> entries'.reason]
          /\ entries'.old = baseline /\ entries'.new = Reasons(baseline, entries.reason)
      BY <2>1, <3>0 DEF Kept
    <3>2. past.op # "create" => Agrees(entries'.new)
      <4> SUFFICES ASSUME past.op # "create", NEW e \in DOMAIN past.had \cap DOMAIN entries'.new
                   PROVE  entries'.new[e] = past.had[e]
        BY DEF Agrees
      <4>1. baseline # Missing /\ baseline = past.had
        BY <2>1 DEF Kept
      <4> QED
        BY <3>1, <4>1 DEF Reasons
    <3>3. past.op # "create" => baseline # Missing
      BY <2>1 DEF Kept
    <3> QED
      BY <2>1, <2>3, <3>1, <3>2, <3>3 DEF Kept, Agrees
  <2> QED
    BY <2>2, <2>3
<1>5. CASE PutAside
  <2>1. /\ step = "aside" /\ step' = "replace" /\ past' = past
        /\ entries' = [entries EXCEPT !.old = baseline]
        /\ IF baseline = Missing THEN UNCHANGED <<baseline, backups>>
           ELSE backups' = backups \cup {baseline} /\ baseline' = Missing
    BY <1>5 DEF PutAside, Goes
  <2>2. /\ entries' = [old |-> entries'.old, new |-> entries'.new, reason |-> entries'.reason]
        /\ entries'.old = baseline /\ entries'.new = entries.new
    BY <2>1 DEF Kept
  <2> QED
    BY <2>1, <2>2 DEF Kept, Agrees
<1>6. CASE Replace
  <2>1. step = "replace" /\ step' = "drop" /\ baseline' = entries.new /\ UNCHANGED <<backups, entries>>
        /\ past'.had = past.had /\ past'.op = past.op
    BY <1>0, <1>6, HadStays DEF Replace, Goes, work, Recorded
  <2> QED
    BY <2>1 DEF Kept, Agrees
<1>7. CASE DropBackup
  <2>1. step' = "show" /\ baseline' = baseline /\ past'.had = baseline
    BY <1>0, <1>7, HadStays DEF DropBackup, Goes
  <2> QED
    BY <2>1 DEF Kept
<1>8. CASE Show
  BY <1>8, Aside DEF Show, Exits, disk, BaselineAt
<1>9. CASE Edit
  <2>1. past'.had = past.had /\ past'.op = past.op /\ UNCHANGED <<step, baseline, backups, entries>>
    BY <1>0, <1>9, HadStays DEF Edit, work, Recorded
  <2> QED
    BY <2>1 DEF Kept, Agrees
<1>10. CASE Fail
  BY <1>10, Aside DEF Fail, Codes, Exits, disk, BaselineAt
<1>11. CASE FailWrite
  BY <1>11, Aside DEF FailWrite, Exits, BaselineAt
<1>12. CASE FailReplace
  BY <1>12 DEF FailReplace, Exits, Kept
<1>13. CASE Die
  <2>1. step' = "ended" /\ UNCHANGED <<baseline, backups>>
    BY <1>13 DEF Die, Exits
  <2>2. CASE step = "drop"
    BY <1>0, <1>13, <2>1, <2>2, HadStays DEF Kept
  <2>3. CASE step # "drop"
    BY <1>0, <1>13, <2>1, <2>3, HadStays, Aside DEF BaselineAt
  <2> QED
    BY <2>2, <2>3
<1> QED
  BY <1>1, <1>2, <1>3, <1>4, <1>5, <1>6, <1>7, <1>8, <1>9, <1>10, <1>11, <1>12, <1>13
     DEF CheckNext, Baseline

-----------------------------------------------------------------------------
(* Types. *)

LEMMA OptionsAimed ==
  ASSUME NEW flags, NEW config, Aimed(flags), Aimed(config)
  PROVE  Merged(flags, config).targets \in Seq(Platforms) \ {<<>>}
<1>1. "targets" \in DOMAIN Defaults /\ Defaults.targets = <<"simulator", "device">>
  BY DEF Defaults
<1>2. <<"simulator", "device">> \in Seq(Platforms) \ {<<>>}
  BY DEF Platforms
<1>3. Merged(flags, config).targets =
        IF "targets" \in DOMAIN flags THEN flags.targets
        ELSE IF "targets" \in DOMAIN config THEN config.targets ELSE Defaults.targets
  BY <1>1 DEF Merged
<1> QED
  BY <1>1, <1>2, <1>3 DEF Aimed

LEMMA StartIs ==
  ASSUME CheckAssumption, Typed, NEW op, Starts(op)
  PROVE  /\ session' = [config |-> session.config, commands |-> Tail(session.commands)]
         /\ session' = [config |-> session'.config, commands |-> session'.commands]
         /\ Aimed(session'.config)
         /\ session'.commands \in Seq(Commands) /\ Command \in Commands /\ Command.op = op
         /\ past' = [past EXCEPT !.since = Quiet, !.first = tree, !.op = op]
<1>1. session.commands \in Seq(Commands) /\ session.commands # <<>>
      /\ session = [config |-> session.config, commands |-> session.commands] /\ Aimed(session.config)
  BY DEF Starts, Typed, Commanded
<1>2. Head(session.commands) \in Commands /\ Tail(session.commands) \in Seq(Commands)
  BY <1>1
<1>3. session' = [session EXCEPT !.commands = Tail(@)]
  BY DEF Starts
<1>4. session' = [config |-> session.config, commands |-> Tail(session.commands)]
  BY <1>1, <1>3
<1>5. session'.config = session.config /\ session'.commands = Tail(session.commands)
  BY <1>4
<1> QED
  BY <1>1, <1>2, <1>4, <1>5 DEF Starts, Command

LEMMA NextTargetIs ==
  ASSUME command.targets \in Seq(Platforms), nth \in DOMAIN command.targets, NextTarget
  PROVE  /\ nth' \in DOMAIN command.targets
         /\ \/ step' = "load" /\ nth' = nth + 1
            \/ step' = "merge" /\ nth' = 1 /\ nth = Len(command.targets)
         /\ status' = status
BY DEF NextTarget, Goes

LEMMA CommandedStays ==
  ASSUME CheckAssumption, Typed, [CheckNext]_repository
  PROVE  Commanded'
<1>0. Commanded /\ Recorded
  BY DEF Typed
<1>1. CASE UNCHANGED repository
  BY <1>0, <1>1 DEF Commanded, repository, disk, work
<1>2. CASE StartCheck
  <2> DEFINE c == Merged(Command.flags, session.config)
  <2>1. Starts("check") /\ command' = c /\ ((step' = "ended" /\ status' = 2) \/ (step' = "load" /\ status' = status))
    BY <1>2 DEF StartCheck, Exits, Goes
  <2>2. Aimed(Command.flags)
    BY <2>1, StartIs DEF CheckAssumption
  <2>3. c.targets \in Seq(Platforms) \ {<<>>}
    BY <1>0, <2>2, OptionsAimed DEF Commanded
  <2>4. command'.targets \in Seq(Platforms) /\ 1 \in DOMAIN command'.targets
    BY <2>1, <2>3
  <2>5. past'.op = "check" /\ nth' = 1
    BY <1>0, <2>1, StartIs DEF Starts, Recorded
  <2>6. /\ session' = [config |-> session'.config, commands |-> session'.commands]
        /\ Aimed(session'.config) /\ session'.commands \in Seq(Commands)
    BY <2>1, StartIs
  <2> HIDE DEF c
  <2> QED
    BY <1>0, <2>1, <2>4, <2>5, <2>6 DEF Commanded, CheckAt, BaselineAt
<1>3. ASSUME Load \/ Suppress PROVE Commanded'
  <2>1. /\ UNCHANGED <<session, command, past>> /\ past.op = "check"
        /\ \/ NextTarget
           \/ step' = "suppress" /\ UNCHANGED <<nth, status>>
           \/ step' = "ended" /\ status' = 2 /\ UNCHANGED nth
    BY <1>0, <1>3 DEF Load, Suppress, Goes, Exits, Commanded, CheckAt
  <2> QED
    BY <1>0, <2>1, NextTargetIs DEF Commanded, CheckAt, BaselineAt
<1>4. CASE Merge
  BY <1>0, <1>4 DEF Merge, Commanded, CheckAt, BaselineAt, Goes, Exits
<1>5. CASE Prepare
  BY <1>0, <1>5 DEF Prepare, Commanded, CheckAt, BaselineAt, Goes, Exits
<1>6. CASE Validate
  BY <1>0, <1>6 DEF Validate, Commanded, CheckAt, BaselineAt, Goes, Exits
<1>7. CASE CompareFiles
  BY <1>0, <1>7 DEF CompareFiles, Commanded, CheckAt, BaselineAt, Goes, Exits, work
<1>8. CASE Write
  BY <1>0, <1>8 DEF Write, Commanded, CheckAt, BaselineAt, Goes, Exits
<1>9. CASE Output
  BY <1>0, <1>9 DEF Output, Commanded, CheckAt, BaselineAt, Goes, Exits, work
<1>10. ASSUME NEW op \in {"create", "update", "validate"}, StartBaseline(op) PROVE Commanded'
  <2>1. /\ past'.op = op /\ nth' = 1 /\ UNCHANGED command
        /\ (step' = "ended" /\ status' = 2) \/ (step' = "read" /\ status' = status)
    BY <1>0, <1>10, StartIs DEF StartBaseline, Starts, Recorded, Goes, Exits
  <2>2. 1 \in DOMAIN command.targets
    BY <1>0 DEF Commanded
  <2>3. /\ session' = [config |-> session'.config, commands |-> session'.commands]
        /\ Aimed(session'.config) /\ session'.commands \in Seq(Commands)
    BY <1>10, StartIs DEF StartBaseline
  <2> QED
    BY <1>0, <2>1, <2>2, <2>3 DEF Commanded, CheckAt, BaselineAt
<1>11. CASE ReadReport \/ PutAside \/ Show
  BY <1>0, <1>11 DEF ReadReport, PutAside, Show, Commanded, CheckAt, BaselineAt, Goes, Exits, disk, work
<1>12. CASE Replace \/ DropBackup
  <2>1. past'.op = past.op
    BY <1>0, <1>12 DEF Replace, DropBackup, Recorded
  <2>2. /\ UNCHANGED <<session, command, nth, status>>
        /\ step \in BaselineAt /\ step' \in {"drop", "show"}
    BY <1>12 DEF Replace, DropBackup, BaselineAt, Goes, work
  <2> QED
    BY <1>0, <2>1, <2>2 DEF Commanded, CheckAt, BaselineAt
<1>13. CASE Edit
  <2>1. past'.op = past.op
    BY <1>0, <1>13 DEF Edit, Recorded
  <2> QED
    BY <1>0, <1>13, <2>1 DEF Edit, Commanded, work
<1>14. CASE Fail
  BY <1>0, <1>14 DEF Fail, Codes, Commanded, CheckAt, BaselineAt, Exits, disk, work
<1>15. CASE FailWrite \/ FailReplace
  BY <1>0, <1>15 DEF FailWrite, FailReplace, Commanded, CheckAt, BaselineAt, Exits, work
<1>16. CASE Die
  BY <1>0, <1>16 DEF Die, Commanded, CheckAt, BaselineAt, Exits, work
<1> QED
  BY <1>1, <1>2, <1>3, <1>4, <1>5, <1>6, <1>7, <1>8, <1>9, <1>10, <1>11, <1>12, <1>13, <1>14, <1>15, <1>16
     DEF CheckNext, Check, Baseline

LEMMA CountsStay ==
  ASSUME CheckAssumption, Typed, [CheckNext]_repository
  PROVE  /\ edits' \in 0 .. Edits /\ faults' \in 0 .. Faults
         /\ edits <= edits' /\ faults <= faults'
         /\ Edit => edits' = edits + 1
<1>0. edits \in 0 .. Edits /\ faults \in 0 .. Faults /\ Edits \in Nat /\ Faults \in Nat
  BY DEF Typed, CheckAssumption
<1>1. \/ UNCHANGED <<edits, faults>>
      \/ Edit /\ edits < Edits /\ edits' = edits + 1 /\ faults' = faults
      \/ faults < Faults /\ faults' = faults + 1 /\ edits' = edits
  <2>1. CASE UNCHANGED repository
    BY <2>1 DEF repository
  <2>2. CASE Check
    BY <2>2 DEF Check, StartCheck, Load, Suppress, Merge, Prepare, Validate, CompareFiles, Write, Output
  <2>3. CASE Baseline
    BY <2>3 DEF Baseline, StartBaseline, ReadReport, PutAside, Replace, DropBackup, Show, Fault
  <2>4. CASE Edit
    BY <2>4 DEF Edit
  <2>5. CASE Fail \/ FailWrite \/ FailReplace \/ Die
    BY <2>5 DEF Fail, FailWrite, FailReplace, Die, Fault
  <2> QED
    BY <2>1, <2>2, <2>3, <2>4, <2>5 DEF CheckNext
<1>2. Edit => edits' = edits + 1
  BY DEF Edit
<1> QED
  BY <1>0, <1>1, <1>2

LEMMA FilesTyped ==
  ASSUME Typed, NEW file \in DOMAIN Files
  PROVE  /\ tree[file] \in FileStates
         /\ [tree EXCEPT ![file].harm = "torn"] \in Trees
         /\ [tree EXCEPT ![file].moved = @ + 1] \in Trees
         /\ \A i \in DOMAIN Issues : [tree EXCEPT ![file].issues = @ \cup {i}] \in Trees
         /\ file \in DOMAIN fixed => [tree EXCEPT ![file] = fixed[file].after] \in Trees
<1>1. tree[file] \in FileStates
  BY DEF Typed, Trees
<1>2. [tree[file] EXCEPT !.harm = "torn"] \in FileStates
  BY <1>1 DEF FileStates
<1>3. [tree[file] EXCEPT !.moved = @ + 1] \in FileStates
  BY <1>1 DEF FileStates
<1>4. \A i \in DOMAIN Issues : [tree[file] EXCEPT !.issues = @ \cup {i}] \in FileStates
  BY <1>1 DEF FileStates
<1> QED
  BY <1>1, <1>2, <1>3, <1>4 DEF Typed, Trees

LEMMA RecordedStays ==
  ASSUME CheckAssumption, Typed, [CheckNext]_repository
  PROVE  Recorded'
<1>0. Recorded /\ tree \in Trees /\ edits \in Nat /\ faults \in Nat
  BY DEF Typed
<1>1. edits <= edits' /\ faults <= faults' /\ edits' \in Nat /\ faults' \in Nat
  BY CountsStay
<1>2. ASSUME past' = past PROVE Recorded'
  BY <1>0, <1>1, <1>2 DEF Recorded
<1>3. ASSUME NEW op, Starts(op) PROVE Recorded'
  <2>1. past' = [past EXCEPT !.since = Quiet, !.first = tree, !.op = op]
    BY <1>3 DEF Starts
  <2>2. past' = [since |-> Quiet, first |-> tree, op |-> op, typed |-> past.typed,
                 reported |-> past.reported, adopted |-> past.adopted, known |-> past.known,
                 had |-> past.had]
    BY <1>0, <2>1 DEF Recorded
  <2>3. Quiet = [edits |-> Quiet.edits, faults |-> Quiet.faults] /\ Quiet.edits = edits /\ Quiet.faults = faults
    BY DEF Quiet
  <2>4. past'.since = Quiet /\ past'.first = tree /\ past'.typed = past.typed
    BY <2>2
  <2>5. past' = [since |-> past'.since, first |-> past'.first, op |-> past'.op, typed |-> past'.typed,
                 reported |-> past'.reported, adopted |-> past'.adopted, known |-> past'.known,
                 had |-> past'.had]
    BY <2>2
  <2> QED
    BY <1>0, <1>1, <2>3, <2>4, <2>5 DEF Recorded
<1>4. ASSUME NEW r, NEW a, NEW k, NEW h,
             past' = [since |-> past.since, first |-> past.first, op |-> past.op, typed |-> past.typed,
                      reported |-> r, adopted |-> a, known |-> k, had |-> h]
      PROVE  Recorded'
  <2>1. past'.since = past.since /\ past'.first = past.first /\ past'.typed = past.typed
    BY <1>4
  <2>2. past' = [since |-> past'.since, first |-> past'.first, op |-> past'.op, typed |-> past'.typed,
                 reported |-> past'.reported, adopted |-> past'.adopted, known |-> past'.known,
                 had |-> past'.had]
    BY <1>4
  <2> QED
    BY <1>0, <1>1, <2>1, <2>2 DEF Recorded
<1>5. ASSUME Output \/ Replace \/ DropBackup \/ Die PROVE Recorded'
  <2>1. \/ past' = past
        \/ \E x : past' = [past EXCEPT !.reported = x]
        \/ \E x, y : past' = [past EXCEPT !.adopted = x, !.known = y]
        \/ \E x : past' = [past EXCEPT !.had = x]
    BY <1>5 DEF Output, Replace, DropBackup, Die
  <2>2. ASSUME NEW x, past' = [past EXCEPT !.reported = x] PROVE Recorded'
    <3>1. past' = [since |-> past.since, first |-> past.first, op |-> past.op, typed |-> past.typed,
                   reported |-> x, adopted |-> past.adopted, known |-> past.known, had |-> past.had]
      BY <1>0, <2>2 DEF Recorded
    <3> QED
      BY <1>4, <3>1
  <2>3. ASSUME NEW x, NEW y, past' = [past EXCEPT !.adopted = x, !.known = y] PROVE Recorded'
    <3>1. past' = [since |-> past.since, first |-> past.first, op |-> past.op, typed |-> past.typed,
                   reported |-> past.reported, adopted |-> x, known |-> y, had |-> past.had]
      BY <1>0, <2>3 DEF Recorded
    <3> QED
      BY <1>4, <3>1
  <2>4. ASSUME NEW x, past' = [past EXCEPT !.had = x] PROVE Recorded'
    <3>1. past' = [since |-> past.since, first |-> past.first, op |-> past.op, typed |-> past.typed,
                   reported |-> past.reported, adopted |-> past.adopted, known |-> past.known, had |-> x]
      BY <1>0, <2>4 DEF Recorded
    <3> QED
      BY <1>4, <3>1
  <2> QED
    BY <1>2, <2>1, <2>2, <2>3, <2>4
<1>6. CASE Edit
  <2>1. PICK file \in DOMAIN Files : past' = past \/ past' = [past EXCEPT !.typed[file] = @ + 1]
    BY <1>6 DEF Edit
  <2>2. CASE past' = [past EXCEPT !.typed[file] = @ + 1]
    <3> DEFINE typed == [past.typed EXCEPT ![file] = @ + 1]
    <3>1. typed \in [DOMAIN Files -> Nat]
      BY <1>0 DEF Recorded
    <3> HIDE DEF typed
    <3>2. past' = [past EXCEPT !.typed = typed]
      BY <1>0, <2>2 DEF Recorded, typed
    <3>3. past' = [since |-> past.since, first |-> past.first, op |-> past.op, typed |-> typed,
                   reported |-> past.reported, adopted |-> past.adopted, known |-> past.known,
                   had |-> past.had]
      BY <1>0, <3>2 DEF Recorded
    <3>4. past'.since = past.since /\ past'.first = past.first /\ past'.typed = typed
      BY <3>3
    <3>5. past' = [since |-> past'.since, first |-> past'.first, op |-> past'.op, typed |-> past'.typed,
                   reported |-> past'.reported, adopted |-> past'.adopted, known |-> past'.known,
                   had |-> past'.had]
      BY <3>3
    <3> QED
      BY <1>0, <1>1, <3>1, <3>4, <3>5 DEF Recorded
  <2> QED
    BY <1>2, <2>1, <2>2
<1>7. \/ past' = past \/ (\E op : Starts(op))
      \/ Output \/ Replace \/ DropBackup \/ Die \/ Edit
  <2>1. CASE UNCHANGED repository
    BY <2>1 DEF repository
  <2>2. CASE Check
    BY <2>2 DEF Check, StartCheck, Load, Suppress, Merge, Prepare, Validate, CompareFiles, Write
  <2>3. CASE Baseline
    BY <2>3 DEF Baseline, StartBaseline, ReadReport, PutAside, Show
  <2>4. CASE Fail \/ FailWrite \/ FailReplace
    BY <2>4 DEF Fail, FailWrite, FailReplace
  <2> QED
    BY <2>1, <2>2, <2>3, <2>4 DEF CheckNext
<1> QED
  BY <1>2, <1>3, <1>5, <1>6, <1>7

LEMMA FoundTyped ==
  ASSUME CheckAssumption, NEW target \in Platforms, NEW sources \in Trees
  PROVE  FoundIn(command, target, sources) \subseteq Finding
<1> SUFFICES ASSUME NEW f \in FoundIn(command, target, sources) PROVE f \in Finding
  OBVIOUS
<1>1. PICK n \in {1, 2}, i \in UNION {sources[file].issues : file \in Reporting(command, target)} :
        f = [issue |-> i, target |-> target, moved |-> sources[Issues[i].file].moved, copy |-> n, excuse |-> "none"]
  BY DEF FoundIn
<1>2. \A file \in Reporting(command, target) : file \in DOMAIN Files /\ sources[file].issues \subseteq DOMAIN Issues
  BY DEF Reporting, Built, Trees, FileStates
<1>3. i \in DOMAIN Issues /\ Issues[i].file \in DOMAIN Files
  BY <1>2 DEF CheckAssumption
<1>4. sources[Issues[i].file].moved \in Nat
  BY <1>3 DEF Trees, FileStates
<1> QED
  BY <1>1, <1>3, <1>4 DEF Finding, Excuses

LEMMA ExcusedTyped ==
  ASSUME NEW F \in SUBSET Finding
  PROVE  /\ \A target : Ignored(target, F) \subseteq Finding
         /\ \A known : Adopted(known, F) \subseteq Finding
<1>1. \A f \in F : /\ [f EXCEPT !.excuse = "inline"] \in Finding
                   /\ [f EXCEPT !.excuse = "baseline"] \in Finding
  BY DEF Finding, Excuses
<1> QED
  BY <1>1 DEF Ignored, Adopted

LEMMA EditedTyped ==
  ASSUME CheckAssumption, NEW content \in FileStates, NEW F \in SUBSET Finding
  PROVE  Edited(content, F) \in FileStates
<1>1. [content EXCEPT !.harm = "misplaced"] \in FileStates
  BY DEF FileStates
<1>2. UNION {Issues[f.issue].breaks : f \in F} \subseteq Platforms
  BY DEF CheckAssumption, Finding
<1>3. [content EXCEPT !.issues = {i \in @ : Issues[i].edits = {} \/ ~(Issues[i].edits \subseteq EditsOf(F))},
                      !.broken = @ \cup UNION {Issues[f.issue].breaks : f \in F}] \in FileStates
  BY <1>2 DEF FileStates
<1> QED
  BY <1>1, <1>3 DEF Edited

(* What a step makes of the files. *)
LEMMA FilesAre ==
  ASSUME Typed, [CheckNext]_repository
  PROVE  \/ tree' = tree
         \/ \E file \in DOMAIN Files :
              \/ tree' = [tree EXCEPT ![file].harm = "torn"]
              \/ tree' = [tree EXCEPT ![file].moved = @ + 1]
              \/ \E i \in DOMAIN Issues : Issues[i].file = file /\ tree' = [tree EXCEPT ![file].issues = @ \cup {i}]
              \/ file \in DOMAIN fixed /\ tree' = [tree EXCEPT ![file] = fixed[file].after]
<1>0. DOMAIN fixed \subseteq DOMAIN Files
  BY DEF Typed
<1>1. CASE UNCHANGED repository
  BY <1>1 DEF repository, disk
<1>2. CASE Check
  BY <1>0, <1>2 DEF Check, StartCheck, Load, Suppress, Merge, Prepare, Validate, CompareFiles, Write, Output, disk
<1>3. CASE Baseline
  BY <1>3 DEF Baseline, StartBaseline, ReadReport, PutAside, Replace, DropBackup, Show, disk
<1>4. CASE Edit
  BY <1>4 DEF Edit
<1>5. CASE Fail \/ FailWrite \/ FailReplace \/ Die
  BY <1>0, <1>5 DEF Fail, FailWrite, FailReplace, Die, disk
<1> QED
  BY <1>1, <1>2, <1>3, <1>4, <1>5 DEF CheckNext

LEMMA FilesStay ==
  ASSUME Typed, [CheckNext]_repository
  PROVE  tree' \in Trees
<1>1. tree \in Trees
  BY DEF Typed
<1>2. ASSUME NEW file \in DOMAIN Files
      PROVE  /\ tree' = [tree EXCEPT ![file].harm = "torn"] => tree' \in Trees
             /\ tree' = [tree EXCEPT ![file].moved = @ + 1] => tree' \in Trees
             /\ \A i \in DOMAIN Issues : tree' = [tree EXCEPT ![file].issues = @ \cup {i}] => tree' \in Trees
             /\ file \in DOMAIN fixed /\ tree' = [tree EXCEPT ![file] = fixed[file].after] => tree' \in Trees
  <2>1. /\ [tree EXCEPT ![file].harm = "torn"] \in Trees
        /\ [tree EXCEPT ![file].moved = @ + 1] \in Trees
        /\ \A i \in DOMAIN Issues : [tree EXCEPT ![file].issues = @ \cup {i}] \in Trees
        /\ file \in DOMAIN fixed => [tree EXCEPT ![file] = fixed[file].after] \in Trees
    BY FilesTyped
  <2> QED
    BY <2>1
<1> QED
  BY <1>1, <1>2, FilesAre

LEMMA DataStays ==
  ASSUME CheckAssumption, Typed, [CheckNext]_repository
  PROVE  Typed'
<1>1. tree' \in Trees /\ Commanded' /\ Recorded' /\ edits' \in 0 .. Edits /\ faults' \in 0 .. Faults
  BY FilesStay, CommandedStays, RecordedStays, CountsStay
<1> DEFINE Data == /\ loaded \in Trees /\ findings \subseteq Finding /\ unloadable \in BOOLEAN
                   /\ fixed = [file \in DOMAIN fixed |-> fixed[file]]
                   /\ \A file \in DOMAIN fixed :
                        /\ file \in DOMAIN Files /\ ~Files[file].generated
                        /\ fixed[file].before \in FileStates /\ fixed[file].after \in FileStates
<1>0. Data /\ tree \in Trees
  BY DEF Typed
<1>2. ASSUME NEW op, Starts(op) PROVE Data'
  <2>1. fixed' = <<>> /\ DOMAIN fixed' = {} /\ fixed' = [file \in DOMAIN fixed' |-> fixed'[file]]
    BY <1>2 DEF Starts
  <2> QED
    BY <1>0, <1>2, <2>1 DEF Starts
<1>3. ASSUME Load PROVE Data'
  BY <1>0, <1>3 DEF Load
<1>4. ASSUME Suppress PROVE Data'
  <2>1. Target \in Platforms
    BY DEF Typed, Commanded, Target
  <2>2. Ignored(Target, FoundIn(command, Target, loaded)) \subseteq Finding
    BY <1>0, <2>1, FoundTyped, ExcusedTyped
  <2> QED
    BY <1>0, <1>4, <2>2 DEF Suppress
<1>5. ASSUME Merge PROVE Data'
  <2>1. Adopted(baseline, findings) \subseteq Finding
    BY <1>0, ExcusedTyped
  <2> QED
    BY <1>0, <1>5, <2>1 DEF Merge
<1>6. ASSUME Prepare PROVE Data'
  <2>1. ASSUME UNCHANGED fixed PROVE Data'
    BY <1>0, <1>6, <2>1 DEF Prepare
  <2>2. ASSUME fixed' = Prepared(findings) PROVE Data'
    <3> DEFINE D == {g \in DOMAIN Files : ToFix(findings, g) # {}}
    <3>1. fixed' = [file \in D |-> [before |-> tree[file], after |-> Edited(tree[file], ToFix(findings, file))]]
      BY <2>2 DEF Prepared
    <3>2. \A file \in D : ~Files[file].generated
      BY DEF ToFix, Fixable
    <3>3. \A file \in D : tree[file] \in FileStates /\ Edited(tree[file], ToFix(findings, file)) \in FileStates
      BY <1>0, EditedTyped DEF Trees, ToFix, Fixable
    <3> HIDE DEF D
    <3>4. DOMAIN fixed' = D /\ fixed' = [file \in DOMAIN fixed' |-> fixed'[file]]
      BY <3>1
    <3>5. \A file \in D : fixed'[file].before = tree[file] /\ fixed'[file].after = Edited(tree[file], ToFix(findings, file))
      BY <3>1
    <3> QED
      BY <1>0, <1>6, <3>2, <3>3, <3>4, <3>5 DEF Prepare, D
  <2> QED
    BY <1>6, <2>1, <2>2 DEF Prepare
<1>7. ASSUME Write PROVE Data'
  <2>1. PICK file \in DOMAIN fixed : fixed' = [g \in DOMAIN fixed \ {file} |-> fixed[g]]
    BY <1>7 DEF Write
  <2>2. DOMAIN fixed' = DOMAIN fixed \ {file} /\ fixed' = [g \in DOMAIN fixed' |-> fixed'[g]]
    BY <2>1
  <2>3. \A g \in DOMAIN fixed' : g \in DOMAIN fixed /\ fixed'[g] = fixed[g]
    BY <2>1
  <2> QED
    BY <1>0, <1>7, <2>2, <2>3 DEF Write
<1>8. ASSUME UNCHANGED <<loaded, findings, unloadable, fixed>> PROVE Data'
  BY <1>0, <1>8
<1>9. \/ UNCHANGED <<loaded, findings, unloadable, fixed>>
      \/ (\E op : Starts(op)) \/ Load \/ Suppress \/ Merge \/ Prepare \/ Write
  <2>1. CASE UNCHANGED repository
    BY <2>1 DEF repository, work
  <2>2. CASE Check
    BY <2>2 DEF Check, StartCheck, Validate, CompareFiles, Output, work
  <2>3. CASE Baseline
    BY <2>3 DEF Baseline, StartBaseline, ReadReport, PutAside, Replace, DropBackup, Show, work
  <2>4. CASE Edit
    BY <2>4 DEF Edit, work
  <2>5. CASE Fail \/ FailWrite \/ FailReplace \/ Die
    BY <2>5 DEF Fail, FailWrite, FailReplace, Die, work
  <2> QED
    BY <2>1, <2>2, <2>3, <2>4, <2>5 DEF CheckNext
<1>10. Data'
  BY <1>2, <1>3, <1>4, <1>5, <1>6, <1>7, <1>8, <1>9
<1> QED
  BY <1>1, <1>10 DEF Typed

-----------------------------------------------------------------------------
(* Fixes. *)

LEMMA EditedIs ==
  ASSUME NEW content \in FileStates, NEW F, \A f \in F : f.moved = content.moved
  PROVE  /\ Edited(content, F).moved = content.moved /\ Edited(content, F).harm = content.harm
         /\ Edited(content, F).issues =
              {i \in content.issues : Issues[i].edits = {} \/ ~(Issues[i].edits \subseteq EditsOf(F))}
BY DEF Edited, FileStates

(* How a step changes the files. *)
LEMMA TornIs ==
  ASSUME Typed, NEW file \in DOMAIN Files, tree' = [tree EXCEPT ![file].harm = "torn"], NEW g \in DOMAIN Files
  PROVE  /\ tree'[g].issues = tree[g].issues /\ tree'[g].moved = tree[g].moved
         /\ tree'[g].broken = tree[g].broken /\ tree'[g].harm \in {tree[g].harm, "torn"}
<1>1. tree'[g] = IF g = file THEN [tree[file] EXCEPT !.harm = "torn"] ELSE tree[g]
  BY DEF Typed, Trees
<1>2. tree[g] \in FileStates
  BY DEF Typed, Trees
<1> QED
  BY <1>1, <1>2 DEF FileStates

LEMMA MovedIs ==
  ASSUME Typed, NEW file \in DOMAIN Files, tree' = [tree EXCEPT ![file].moved = @ + 1], NEW g \in DOMAIN Files
  PROVE  /\ tree'[g].issues = tree[g].issues /\ tree'[g].harm = tree[g].harm /\ tree'[g].broken = tree[g].broken
         /\ tree'[g].moved = IF g = file THEN tree[g].moved + 1 ELSE tree[g].moved
<1>1. tree'[g] = IF g = file THEN [tree[file] EXCEPT !.moved = @ + 1] ELSE tree[g]
  BY DEF Typed, Trees
<1>2. tree[g] \in FileStates
  BY DEF Typed, Trees
<1> QED
  BY <1>1, <1>2 DEF FileStates

LEMMA AddedIs ==
  ASSUME Typed, NEW file \in DOMAIN Files, NEW i, tree' = [tree EXCEPT ![file].issues = @ \cup {i}],
         NEW g \in DOMAIN Files
  PROVE  /\ tree'[g].moved = tree[g].moved /\ tree'[g].harm = tree[g].harm /\ tree'[g].broken = tree[g].broken
         /\ tree'[g].issues = IF g = file THEN tree[g].issues \cup {i} ELSE tree[g].issues
<1>1. tree'[g] = IF g = file THEN [tree[file] EXCEPT !.issues = @ \cup {i}] ELSE tree[g]
  BY DEF Typed, Trees
<1>2. tree[g] \in FileStates
  BY DEF Typed, Trees
<1>3. CASE g = file
  BY <1>1, <1>2, <1>3 DEF FileStates
<1> QED
  BY <1>1, <1>3

(* Every step either starts a command or goes on with it. *)
LEMMA GoesOn ==
  ASSUME Typed, [CheckNext]_repository, \A op : ~Starts(op)
  PROVE  /\ command' = command /\ past'.op = past.op /\ past'.first = past.first /\ past'.since = past.since
         /\ ~Edit => past'.typed = past.typed
<1>0. Recorded
  BY DEF Typed
<1>1. CASE UNCHANGED repository
  BY <1>1 DEF repository
<1>2. CASE Load \/ Suppress \/ Merge \/ Prepare \/ Validate \/ CompareFiles \/ Write
  BY <1>2 DEF Load, Suppress, Merge, Prepare, Validate, CompareFiles, Write
<1>3. CASE Output
  BY <1>0, <1>3 DEF Output, Recorded
<1>4. CASE ReadReport \/ PutAside \/ Show
  BY <1>4 DEF ReadReport, PutAside, Show
<1>5. CASE Replace
  BY <1>0, <1>5 DEF Replace, Recorded
<1>6. CASE DropBackup
  BY <1>0, <1>6 DEF DropBackup, Recorded
<1>7. CASE Edit
  BY <1>0, <1>7 DEF Edit, Recorded
<1>8. CASE Fail \/ FailWrite \/ FailReplace
  BY <1>8 DEF Fail, FailWrite, FailReplace
<1>9. CASE Die
  BY <1>0, <1>9 DEF Die, Recorded
<1> QED
  BY <1>1, <1>2, <1>3, <1>4, <1>5, <1>6, <1>7, <1>8, <1>9 DEF CheckNext, Check, Baseline, StartCheck, StartBaseline

LEMMA StartSafe ==
  ASSUME CheckAssumption, Typed, Safe, NEW op, Starts(op), StartCheck \/ StartBaseline(op)
  PROVE  Safe'
<1>1. /\ past'.first = tree /\ past'.typed = past.typed /\ past'.op = op
      /\ tree' = tree /\ findings' = {} /\ nth' = 1
  BY StartIs DEF Typed, Recorded, Starts, StartCheck, StartBaseline, disk
<1>2. Unharmed' /\ Additive' /\ OnlyFixed'
  BY <1>1 DEF Safe, Unharmed, Additive, OnlyFixed
<1>3. ASSUME StartCheck PROVE Applies'
  <2>1. (step' = "ended" /\ status' = 2) \/ step' = "load"
    BY <1>3 DEF StartCheck, Exits, Goes
  <2>2. Placed' /\ SoundTo(tree, nth - 1)'
    <3>1. command'.targets \in Seq(Platforms)
      BY <1>3, CommandedStays DEF CheckNext, Check, Commanded
    <3> QED
      BY <1>1, <3>1 DEF Placed, SoundTo
  <2> QED
    BY <2>1, <2>2 DEF Applies, Loads
<1>4. ASSUME StartBaseline(op), op # "check" PROVE Applies'
  BY <1>1, <1>4 DEF Applies, Applying
<1>5. StartBaseline(op) /\ op = "check" => StartCheck \/ Applies'
  BY <1>1, CommandedStays DEF StartBaseline, Applies, Loads, Exits, Goes
<1> QED
  BY <1>2, <1>3, <1>4, <1>5 DEF Safe

(* Steps that leave the files and the findings as they are. *)
Going ==
  /\ command' = command /\ past'.op = past.op /\ past'.first = past.first
  /\ past'.since = past.since /\ past'.typed = past.typed

LEMMA SafeAside ==
  ASSUME Safe, Going, UNCHANGED <<tree, findings>>, step' \in Unwritten => step \in Unwritten, Applies'
  PROVE  Safe'
BY DEF Safe, Going, Unharmed, Additive, OnlyFixed, Applying

LEMMA LoadSafe ==
  ASSUME Typed, Safe, Going, Load
  PROVE  Safe'
<1>1. /\ step = "load" /\ loaded' = tree /\ UNCHANGED <<tree, findings>>
      /\ \/ Broken(tree) /\ unloadable' = TRUE /\ step' \in {"load", "merge"}
         \/ ~Broken(tree) /\ step' = "suppress" /\ UNCHANGED <<unloadable, nth>>
  BY DEF Load, disk, Goes, NextTarget
<1>2. ASSUME Applying PROVE Loads'
  <2>1. Loads
    BY <1>1, <1>2 DEF Safe, Applies
  <2>2. Placed'
    BY <1>1, <2>1 DEF Loads, Placed
  <2>3. ASSUME step' = "suppress", ~unloadable' PROVE SoundTo(tree, nth)'
    <3>1. SoundTo(tree, nth - 1) /\ Sound(tree, nth)
      BY <1>1, <2>1, <2>3 DEF Loads, Broken, Sound, Target
    <3>2. \A k \in DOMAIN command.targets : k <= nth => k <= nth - 1 \/ k = nth
      BY DEF Typed, Commanded
    <3> QED
      BY <1>1, <2>3, <3>1, <3>2 DEF SoundTo, Sound, Going
  <2> QED
    BY <1>1, <2>2, <2>3 DEF Loads
<1>3. Applies'
  BY <1>1, <1>2 DEF Applies, Applying, Going
<1> QED
  BY <1>1, <1>3, SafeAside DEF Unwritten

(* While nothing is written yet the findings take nothing from the files.  *)
LEMMA FindingsSafe ==
  ASSUME Typed, Safe, Going, UNCHANGED tree, step \in Unwritten, Applies'
  PROVE  Safe'
<1>1. \A file \in DOMAIN Files : past.first[file].issues \subseteq tree[file].issues
  BY DEF Safe, Additive
<1> QED
  BY <1>1 DEF Safe, Going, Unharmed, Additive, OnlyFixed

LEMMA SuppressSafe ==
  ASSUME CheckAssumption, Typed, Safe, Going, Suppress
  PROVE  Safe'
<1> DEFINE found == FoundIn(command, Target, loaded)
<1>1. /\ step = "suppress" /\ UNCHANGED <<tree, unloadable>>
      /\ \/ step' = "ended" /\ status' = 2
         \/ findings' = findings \cup Ignored(Target, found) /\ NextTarget
  BY DEF Suppress, disk, Exits
<1>2. ASSUME Applying, findings' = findings \cup Ignored(Target, found), NextTarget PROVE Loads'
  <2>1. Loads /\ loaded = tree /\ Placed
    BY <1>1, <1>2 DEF Safe, Applies, Loads
  <2>2. ASSUME NEW f \in Ignored(Target, found) PROVE f.moved = tree[Issues[f.issue].file].moved
    <3>1. PICK g \in found : f = [g EXCEPT !.excuse = "inline"] \/ f = g
      BY DEF Ignored
    <3>2. PICK n \in {1, 2}, i \in UNION {tree[file].issues : file \in Reporting(command, Target)} :
            g = [issue |-> i, target |-> Target, moved |-> tree[Issues[i].file].moved, copy |-> n, excuse |-> "none"]
      BY <2>1 DEF FoundIn
    <3> QED
      BY <3>1, <3>2
  <2>3. Placed'
    BY <1>1, <1>2, <2>1, <2>2 DEF Placed
  <2>4. \/ step' = "load" /\ nth' = nth + 1
        \/ step' = "merge" /\ nth = Len(command.targets)
    BY <1>2, NextTargetIs DEF Typed, Commanded
  <2>5. nth' = nth + 1 => nth' - 1 = nth
    BY DEF Typed, Commanded
  <2>6. ~unloadable => SoundTo(tree, nth)
    BY <1>1, <2>1 DEF Loads
  <2>7. nth = Len(command.targets) /\ ~unloadable => AllSound(tree)
    BY <2>6 DEF SoundTo, AllSound, Typed, Commanded
  <2>8. step' = "load" /\ ~unloadable' => SoundTo(tree, nth - 1)'
    BY <1>1, <2>4, <2>5, <2>6 DEF SoundTo, Sound, Going
  <2>9. step' = "merge" /\ ~unloadable' => AllSound(tree)'
    BY <1>1, <2>4, <2>7 DEF AllSound, Sound, Going
  <2> QED
    BY <2>3, <2>4, <2>8, <2>9 DEF Loads
<1>3. Applies'
  BY <1>1, <1>2, NextTargetIs DEF Applies, Applying, Going, Typed, Commanded
<1> QED
  BY <1>1, <1>3, FindingsSafe DEF Unwritten

LEMMA MergeSafe ==
  ASSUME CheckAssumption, Typed, Safe, Going, Merge
  PROVE  Safe'
<1>1. /\ step = "merge" /\ UNCHANGED <<tree, unloadable, nth>>
      /\ \/ step' = "ended" /\ status' \in {2, 3}
         \/ step' = "prepare" /\ ~unloadable /\ findings' \in {findings, Adopted(baseline, findings)}
  BY DEF Merge, disk, Exits, Goes
<1>2. ASSUME Applying, step' = "prepare" PROVE Loads'
  <2>1. Placed /\ AllSound(tree)
    BY <1>1, <1>2 DEF Safe, Applies, Loads
  <2>2. \A f \in Adopted(baseline, findings) :
          \E g \in findings : f.moved = g.moved /\ f.issue = g.issue
    <3>1. \A g \in findings : LET f == [g EXCEPT !.excuse = "baseline"] IN f.moved = g.moved /\ f.issue = g.issue
      BY DEF Typed, Finding
    <3> QED
      BY <3>1 DEF Adopted
  <2>3. Placed'
    BY <1>1, <1>2, <2>1, <2>2 DEF Placed
  <2>4. AllSound(tree)'
    BY <1>1, <2>1 DEF AllSound, Sound, Going
  <2> QED
    BY <1>2, <2>3, <2>4 DEF Loads
<1>3. Applies'
  BY <1>1, <1>2 DEF Applies, Applying, Going
<1> QED
  BY <1>1, <1>3, FindingsSafe DEF Unwritten

LEMMA PrepareSafe ==
  ASSUME CheckAssumption, Typed, Safe, Going, Prepare
  PROVE  Safe'
<1>1. /\ step = "prepare" /\ UNCHANGED <<tree, findings, nth>>
      /\ \/ step' = "ended" /\ status' = 4
         \/ /\ fixed' = Prepared(findings)
            /\ step' = IF command.fix # "none" /\ fixed' # <<>> THEN "validate" ELSE "output"
  BY DEF Prepare, disk, Exits, Goes
<1> DEFINE D == {g \in DOMAIN Files : ToFix(findings, g) # {}}
<1>2. ASSUME Applying, fixed' = Prepared(findings) PROVE /\ DOMAIN fixed' = D
        /\ \A file \in D : /\ fixed'[file].before = tree[file]
                           /\ fixed'[file].after = Edited(tree[file], ToFix(findings, file))
  <2>1. fixed' = [file \in D |-> [before |-> tree[file], after |-> Edited(tree[file], ToFix(findings, file))]]
    BY <1>2 DEF Prepared
  <2> HIDE DEF D
  <2> QED
    BY <2>1
<1>3. \A f \in Fixable(findings) : Issues[f.issue].file \in D
  BY DEF Fixable, ToFix, Typed, Finding, CheckAssumption
<1>4. ASSUME Applying PROVE Placed /\ AllSound(tree) /\ nth = 1
  BY <1>1, <1>4 DEF Safe, Applies, Loads, Typed, Commanded
<1>5. ASSUME Applying, fixed' = Prepared(findings), step' = "validate" PROVE Prepares'
  <2>1. \A file \in D : \A f \in ToFix(findings, file) : f.moved = tree[file].moved
    BY <1>4, <1>5 DEF Placed, ToFix, Fixable
  <2>2. \A file \in D : tree[file].harm # "misplaced"
    BY DEF Safe, Unharmed
  <2>3. SoundTo(Overlaid, nth - 1)'
    <3>1. \A k \in DOMAIN command.targets : ~(k <= nth - 1)
      BY <1>4, <1>5 DEF Typed, Commanded
    <3> QED
      BY <1>1, <3>1 DEF SoundTo, Going
  <2> QED
    BY <1>1, <1>2, <1>3, <1>5, <2>1, <2>2, <2>3 DEF Prepares
<1>6. ASSUME Applying, fixed' = Prepared(findings), step' = "output" PROVE Applied'
  <2>1. fixed' = <<>>
    BY <1>1, <1>6 DEF Applying
  <2>2. D = {}
    BY <1>2, <1>6, <2>1
  <2>3. Fixable(findings) = {}
    BY <1>3, <2>2
  <2> QED
    BY <1>1, <1>4, <1>6, <2>3 DEF Applied, AllSound, Sound, Going
<1>7. Applies'
  BY <1>1, <1>5, <1>6 DEF Applies, Applying, Going
<1> QED
  BY <1>1, <1>7, SafeAside DEF Unwritten

LEMMA ValidateSafe ==
  ASSUME CheckAssumption, Typed, Safe, Going, Validate
  PROVE  Safe'
<1>1. /\ step = "validate" /\ UNCHANGED <<tree, findings, fixed>>
      /\ \/ step' = "ended" /\ status' = 4
         \/ ~Broken(Overlaid) /\ nth < Len(command.targets) /\ nth' = nth + 1 /\ step' = "validate"
         \/ /\ ~Broken(Overlaid) /\ ~(nth < Len(command.targets))
            /\ step' = IF command.fix = "apply" THEN "compare" ELSE "output"
  BY DEF Validate, disk, Exits, Goes
<1>2. ASSUME Applying, step' # "ended" PROVE Prepares'
  <2>1. Prepares /\ SoundTo(Overlaid, nth - 1) /\ Sound(Overlaid, nth)
    BY <1>1, <1>2 DEF Safe, Applies, Prepares, Broken, Sound, Target
  <2>2. SoundTo(Overlaid, nth)
    <3>1. \A k \in DOMAIN command.targets : k <= nth => k <= nth - 1 \/ k = nth
      BY DEF Typed, Commanded
    <3> QED
      BY <2>1, <3>1 DEF SoundTo
  <2>3. ~(nth < Len(command.targets)) => AllSound(Overlaid)
    <3>1. \A k \in DOMAIN command.targets : ~(nth < Len(command.targets)) => k <= nth
      BY DEF Typed, Commanded
    <3> QED
      BY <2>2, <3>1 DEF SoundTo, AllSound
  <2>4. nth' = nth + 1 => nth' - 1 = nth
    BY DEF Typed, Commanded
  <2>5. Overlaid' = Overlaid
    BY <1>1 DEF Overlaid
  <2>6. step' = "validate" => SoundTo(Overlaid, nth - 1)'
    BY <1>1, <2>2, <2>4, <2>5 DEF SoundTo, Sound, Going
  <2>7. step' = "compare" => AllSound(Overlaid)'
    BY <1>1, <2>3, <2>5 DEF AllSound, Sound, Going
  <2> QED
    BY <1>1, <1>2, <2>1, <2>6, <2>7 DEF Prepares, Applying
<1>3. Applies'
  BY <1>1, <1>2 DEF Applies, Applying, Going
<1> QED
  BY <1>1, <1>3, SafeAside DEF Unwritten

LEMMA CompareSafe ==
  ASSUME CheckAssumption, Typed, Safe, Going, CompareFiles
  PROVE  Safe'
<1>1. /\ step = "compare" /\ UNCHANGED <<tree, findings, fixed>>
      /\ \/ step' = "ended" /\ status' = 4
         \/ step' = "write" /\ \A file \in DOMAIN fixed : tree[file] = fixed[file].before
  BY DEF CompareFiles, disk, work, Exits, Goes
<1>2. ASSUME Applying, step' = "write" PROVE Prepares'
  <2>1. Prepares /\ AllSound(Overlaid)
    BY <1>1, <1>2 DEF Safe, Applies, Prepares
  <2>2. Overlaid' = Overlaid
    BY <1>1 DEF Overlaid
  <2>3. AllSound(Overlaid)'
    BY <2>1, <2>2 DEF AllSound, Sound, Going
  <2> QED
    BY <1>1, <1>2, <2>1, <2>3 DEF Prepares
<1>3. Applies'
  BY <1>1, <1>2 DEF Applies, Applying, Going
<1> QED
  BY <1>1, <1>3, SafeAside DEF Unwritten

LEMMA OutputSafe ==
  ASSUME CheckAssumption, Typed, Safe, Going, Output
  PROVE  Safe'
<1>1. step = "output" /\ step' = "ended" /\ UNCHANGED <<tree, findings, edits, faults>>
  BY DEF Output, work, Exits
<1>2. ASSUME Applying PROVE Applied'
  <2>1. Applied
    BY <1>1, <1>2 DEF Safe, Applies
  <2> QED
    BY <1>1, <2>1 DEF Applied, AllSound, Sound, Quiet, Going
<1>3. Applies'
  BY <1>1, <1>2 DEF Applies, Applying, Going
<1> QED
  BY <1>1, <1>3, SafeAside DEF Unwritten

LEMMA WriteSafe ==
  ASSUME CheckAssumption, Typed, Safe, Going, Write
  PROVE  Safe'
<1>1. /\ step = "write" /\ UNCHANGED findings /\ Applying /\ Prepares
      /\ AllSound(Overlaid) /\ \A g \in DOMAIN fixed : fixed[g].before = tree[g]
  BY DEF Write, Typed, Commanded, CheckAt, Applying, Safe, Applies, Prepares
<1>2. PICK file \in DOMAIN fixed : /\ tree' = [tree EXCEPT ![file] = fixed[file].after]
                                   /\ fixed' = [g \in DOMAIN fixed \ {file} |-> fixed[g]]
  BY DEF Write
<1>3. file \in DOMAIN Files /\ ~Files[file].generated /\ tree[file] \in FileStates
  BY DEF Typed, Trees
<1>4. /\ DOMAIN fixed' = DOMAIN fixed \ {file}
      /\ \A g \in DOMAIN fixed' : fixed'[g] = fixed[g]
  BY <1>2
<1>5. \A g \in DOMAIN Files : tree'[g] = IF g = file THEN Edited(tree[file], ToFix(findings, file)) ELSE tree[g]
  BY <1>1, <1>2, <1>3 DEF Prepares, Typed, Trees
<1>6. /\ tree'[file].moved = tree[file].moved /\ tree'[file].harm = tree[file].harm
      /\ tree'[file].issues =
           {i \in tree[file].issues : Issues[i].edits = {} \/ ~(Issues[i].edits \subseteq EditsOf(ToFix(findings, file)))}
  BY <1>1, <1>3, <1>5, EditedIs DEF Prepares
<1>7. Unharmed'
  BY <1>3, <1>5, <1>6 DEF Safe, Unharmed, Going
<1>8. step' \in {"write", "output"} /\ (step' = "output" => fixed' = <<>>)
  BY DEF Write, Goes
<1>9. Additive'
  BY <1>1, <1>3, <1>5, <1>8 DEF Safe, Additive, Unwritten, Going, Applying
<1>10. EditsOf(ToFix(findings, file)) \subseteq EditsOf({f \in findings : f.excuse = "none"})
  BY DEF EditsOf, ToFix, Fixable
<1>11. OnlyFixed'
  <2> SUFFICES ASSUME NEW g \in DOMAIN Files, NEW i \in past.first[g].issues, i \notin tree'[g].issues
               PROVE  Issues[i].edits # {} /\ Issues[i].edits \subseteq EditsOf({f \in findings : f.excuse = "none"})
    BY <1>1 DEF OnlyFixed, Going
  <2>1. CASE i \notin tree[g].issues
    BY <2>1 DEF Safe, OnlyFixed
  <2>2. CASE i \in tree[g].issues
    <3>1. g = file /\ Issues[i].edits # {} /\ Issues[i].edits \subseteq EditsOf(ToFix(findings, file))
      BY <1>5, <1>6, <2>2
    <3> QED
      BY <1>10, <3>1
  <2> QED
    BY <2>1, <2>2
<1>12. \A f \in ToFix(findings, file) : f.issue \notin tree'[file].issues
  BY <1>6 DEF ToFix, Fixable, EditsOf
<1>13. \A f \in Fixable(findings) :
         Issues[f.issue].file \in DOMAIN fixed' \/ f.issue \notin tree'[Issues[f.issue].file].issues
  <2> SUFFICES ASSUME NEW f \in Fixable(findings), Issues[f.issue].file \notin DOMAIN fixed'
               PROVE  f.issue \notin tree'[Issues[f.issue].file].issues
    OBVIOUS
  <2>1. CASE Issues[f.issue].file = file
    BY <1>12, <2>1 DEF ToFix
  <2>2. CASE Issues[f.issue].file # file
    <3>1. f.issue \notin tree[Issues[f.issue].file].issues
      BY <1>1, <1>4, <2>2 DEF Prepares
    <3>2. Issues[f.issue].file \in DOMAIN Files
      BY DEF Fixable, Typed, Finding, CheckAssumption
    <3> QED
      BY <1>5, <2>2, <3>1, <3>2
  <2> QED
    BY <2>1, <2>2
<1>14. Overlaid' = Overlaid
  BY <1>1, <1>2, <1>3, <1>4 DEF Overlaid, Typed, Trees
<1>15. AllSound(Overlaid)'
  BY <1>1, <1>14 DEF AllSound, Sound, Going
<1>16. ASSUME step' = "write" PROVE Prepares'
  BY <1>1, <1>3, <1>4, <1>5, <1>13, <1>15, <1>16 DEF Prepares, Typed
<1>17. ASSUME step' = "output" PROVE Applied'
  <2>1. DOMAIN fixed' = {}
    BY <1>8, <1>17
  <2>2. Overlaid' = tree'
    BY <2>1, FilesStay DEF Overlaid, CheckNext, Check, Trees
  <2>3. AllSound(tree)'
    BY <1>15, <2>2 DEF AllSound, Sound
  <2> QED
    BY <1>1, <1>13, <2>1, <2>3 DEF Applied
<1>18. Applies'
  BY <1>8, <1>16, <1>17 DEF Applies
<1> QED
  BY <1>7, <1>9, <1>11, <1>18 DEF Safe

(* A baseline's commands, and the ends of commands that fail. *)
LEMMA BaselineSafe ==
  ASSUME Typed, Safe, Going, ReadReport \/ PutAside \/ Replace \/ DropBackup \/ Show
  PROVE  Safe'
<1>1. past.op # "check" /\ UNCHANGED <<tree, findings>> /\ step' \notin Unwritten
  BY DEF ReadReport, PutAside, Replace, DropBackup, Show, Typed, Commanded, CheckAt, BaselineAt,
         disk, work, Goes, Exits, Unwritten
<1>2. Applies'
  BY <1>1 DEF Applies, Applying, Going
<1> QED
  BY <1>1, <1>2, SafeAside

LEMMA FailureSafe ==
  ASSUME Typed, Safe, Going, Fail \/ FailWrite \/ FailReplace \/ Die
  PROVE  Safe'
<1>1. step' = "ended" /\ status' \notin {0, 1} /\ UNCHANGED findings
  BY DEF Fail, FailWrite, FailReplace, Die, Codes, Exits, work
<1>2. tree' = tree \/ \E file \in DOMAIN Files : tree' = [tree EXCEPT ![file].harm = "torn"]
  BY DEF Fail, FailWrite, FailReplace, Die, disk, Typed
<1>3. \A g \in DOMAIN Files : /\ tree'[g].issues = tree[g].issues /\ tree'[g].moved = tree[g].moved
                              /\ tree'[g].harm \in {tree[g].harm, "torn"}
  BY <1>2, TornIs
<1>4. Applies'
  BY <1>1 DEF Applies
<1> QED
  BY <1>1, <1>3, <1>4 DEF Safe, Going, Unharmed, Additive, OnlyFixed, Applying, Unwritten

(* Someone's edits are noticed: what a fix was prepared from stays as it was. *)
LEMMA EditSafe ==
  ASSUME CheckAssumption, Noticed, Typed, Safe, Edit
  PROVE  Safe'
<1>1. /\ UNCHANGED <<step, status, findings, fixed, nth, command, faults>> /\ edits' = edits + 1
      /\ past'.op = past.op /\ past'.first = past.first /\ past'.since = past.since
      /\ Applying => step \in {"validate", "compare", "output", "ended"}
  BY DEF Edit, work, Applying, Noticed, Typed, Recorded
<1>2. PICK file \in DOMAIN Files :
        \/ /\ tree' = [tree EXCEPT ![file].moved = @ + 1]
           /\ past' = [past EXCEPT !.typed[file] = @ + 1]
        \/ \E i \in DOMAIN Issues :
             tree' = [tree EXCEPT ![file].issues = @ \cup {i}] /\ UNCHANGED past
  BY DEF Edit
<1>3. \A g \in DOMAIN Files :
        /\ tree[g].issues \subseteq tree'[g].issues
        /\ tree'[g].broken = tree[g].broken /\ tree'[g].harm = tree[g].harm
        /\ (tree'[g].moved = past'.typed[g]) <=> (tree[g].moved = past.typed[g])
  <2> SUFFICES ASSUME NEW g \in DOMAIN Files
               PROVE  /\ tree[g].issues \subseteq tree'[g].issues
                      /\ tree'[g].broken = tree[g].broken /\ tree'[g].harm = tree[g].harm
                      /\ (tree'[g].moved = past'.typed[g]) <=> (tree[g].moved = past.typed[g])
    OBVIOUS
  <2>1. CASE tree' = [tree EXCEPT ![file].moved = @ + 1] /\ past' = [past EXCEPT !.typed[file] = @ + 1]
    <3>1. past.typed \in [DOMAIN Files -> Nat] /\ past'.typed = [past.typed EXCEPT ![file] = @ + 1]
      BY <2>1 DEF Typed, Recorded
    <3>2. past'.typed[g] = IF g = file THEN past.typed[g] + 1 ELSE past.typed[g]
      BY <3>1
    <3>3. tree[g].moved \in Nat /\ past.typed[g] \in Nat
      BY <3>1 DEF Typed, Trees, FileStates
    <3>4. /\ tree'[g].issues = tree[g].issues /\ tree'[g].harm = tree[g].harm /\ tree'[g].broken = tree[g].broken
          /\ tree'[g].moved = IF g = file THEN tree[g].moved + 1 ELSE tree[g].moved
      BY <2>1, MovedIs
    <3> QED
      BY <3>2, <3>3, <3>4
  <2>2. CASE \E i \in DOMAIN Issues : tree' = [tree EXCEPT ![file].issues = @ \cup {i}] /\ UNCHANGED past
    BY <2>2, AddedIs
  <2> QED
    BY <1>2, <2>1, <2>2
<1>4. Unharmed' /\ Additive' /\ OnlyFixed'
  BY <1>1, <1>3 DEF Safe, Unharmed, Additive, OnlyFixed, Applying
<1>5. ASSUME Applying, step \in {"validate", "compare"} PROVE Prepares'
  <2>1. Prepares
    BY <1>5 DEF Safe, Applies
  <2>2. \A g \in DOMAIN Files : Overlaid'[g].broken = Overlaid[g].broken
    BY <1>1, <1>3 DEF Overlaid
  <2>3. step = "validate" => SoundTo(Overlaid, nth - 1)'
    BY <1>1, <2>1, <2>2 DEF Prepares, SoundTo, Sound, Built
  <2>4. step = "compare" => AllSound(Overlaid)'
    BY <1>1, <2>1, <2>2 DEF Prepares, AllSound, Sound, Built
  <2> QED
    BY <1>1, <1>5, <2>1, <2>3, <2>4 DEF Prepares
<1>6. ASSUME Applying, step = "output" \/ (step = "ended" /\ status \in {0, 1}) PROVE Applied'
  <2>1. Applied
    BY <1>6 DEF Safe, Applies
  <2>2. AllSound(tree)'
    BY <1>1, <1>3, <2>1 DEF Applied, AllSound, Sound, Built
  <2>3. past'.since # Quiet'
    <3>1. past.since.edits \in 0 .. edits /\ edits \in Nat
      BY DEF Typed, Recorded
    <3>2. Quiet'.edits = edits + 1
      BY <1>1 DEF Quiet
    <3> QED
      BY <1>1, <3>1, <3>2
  <2> QED
    BY <2>2, <2>3 DEF Applied
<1>7. Applies'
  BY <1>1, <1>5, <1>6 DEF Applies, Applying
<1> QED
  BY <1>4, <1>7 DEF Safe

LEMMA SafeStays ==
  ASSUME CheckAssumption, Noticed, Typed, Safe, [CheckNext]_repository
  PROVE  Safe'
<1>1. CASE UNCHANGED repository
  <2>1. /\ Going /\ UNCHANGED <<tree, findings, fixed, loaded, unloadable, step, nth, status, edits, faults>>
    BY <1>1 DEF repository, disk, work, Going
  <2>2. Loads => Loads'
    BY <2>1 DEF Loads, Placed, SoundTo, AllSound, Sound, Going
  <2>3. Overlaid' = Overlaid
    BY <2>1 DEF Overlaid
  <2>4. Prepares => Prepares'
    BY <2>1, <2>3 DEF Prepares, SoundTo, AllSound, Sound, Going
  <2>5. Applied => Applied'
    BY <2>1 DEF Applied, AllSound, Sound, Quiet, Going
  <2>6. Applies'
    BY <2>1, <2>2, <2>4, <2>5 DEF Safe, Applies, Applying, Going
  <2> QED
    BY <2>1, <2>6, SafeAside
<1>2. ASSUME NEW op, Starts(op), StartCheck \/ StartBaseline(op) PROVE Safe'
  BY <1>2, StartSafe
<1>3. CASE Edit
  BY <1>3, EditSafe
<1>4. ASSUME Load \/ Suppress \/ Merge \/ Prepare \/ Validate \/ CompareFiles \/ Write \/ Output
               \/ ReadReport \/ PutAside \/ Replace \/ DropBackup \/ Show
               \/ Fail \/ FailWrite \/ FailReplace \/ Die
      PROVE  Safe'
  <2>1. step # "ended" /\ edits' = edits
    BY <1>4 DEF Load, Suppress, Merge, Prepare, Validate, CompareFiles, Write, Output, ReadReport, PutAside,
                Replace, DropBackup, Show, Fail, FailWrite, FailReplace, Die, Codes
  <2>2. ~Edit /\ \A op : ~Starts(op)
    <3>1. edits \in Nat /\ (Edit => edits' = edits + 1)
      BY DEF Edit, Typed
    <3>2. \A op : ~Starts(op)
      BY <2>1 DEF Starts
    <3> QED
      BY <2>1, <3>1, <3>2
  <2>3. Going
    BY <1>4, <2>2, GoesOn DEF Going
  <2> QED
    BY <1>4, <2>3, LoadSafe, SuppressSafe, MergeSafe, PrepareSafe, ValidateSafe, CompareSafe, WriteSafe,
       OutputSafe, BaselineSafe, FailureSafe
<1> QED
  BY <1>1, <1>2, <1>3, <1>4 DEF CheckNext, Check, Baseline, StartCheck, StartBaseline

LEMMA InitHolds ==
  ASSUME CheckAssumption, CheckInit
  PROVE  IInv
<1>1. PICK s \in Sessions : tree = s.tree /\ session = [config |-> s.config, commands |-> s.commands]
  BY DEF CheckInit
<1>2. /\ tree \in Trees /\ Aimed(s.config) /\ s.commands \in Seq(Commands)
      /\ \A file \in DOMAIN Files : tree[file].moved = 0 /\ tree[file].harm = "none"
  BY <1>1 DEF CheckAssumption, Trees
<1>3. /\ command.targets = <<"simulator", "device">> /\ command.fix = "none"
      /\ step = "ended" /\ status = 0 /\ nth = 1 /\ findings = {} /\ fixed = <<>> /\ edits = 0 /\ faults = 0
      /\ baseline = Missing /\ past = NothingYet(tree) /\ loaded = tree /\ unloadable = FALSE
  BY DEF CheckInit, Defaults
<1>4. /\ past.since = [edits |-> 0, faults |-> 0] /\ past.first = tree /\ past.op = "none"
      /\ past.typed = [file \in DOMAIN Files |-> 0] /\ past.had = Missing
  BY <1>3 DEF NothingYet
<1>5. Commanded
  <2>1. command.targets \in Seq(Platforms) /\ nth \in DOMAIN command.targets
    BY <1>3 DEF Platforms
  <2>2. session = [config |-> session.config, commands |-> session.commands]
        /\ session.config = s.config /\ session.commands = s.commands
    BY <1>1
  <2> QED
    BY <1>2, <1>3, <2>1, <2>2 DEF Commanded, CheckAt, BaselineAt
<1>6. Recorded
  <2>1. past = [since |-> past.since, first |-> past.first, op |-> past.op, typed |-> past.typed,
                reported |-> past.reported, adopted |-> past.adopted, known |-> past.known, had |-> past.had]
    BY <1>3 DEF NothingYet
  <2> QED
    BY <1>2, <1>3, <1>4, <2>1 DEF Recorded
<1>7. Typed
  <2>1. DOMAIN fixed = {} /\ fixed = [file \in DOMAIN fixed |-> fixed[file]]
    BY <1>3
  <2>2. edits \in 0 .. Edits /\ faults \in 0 .. Faults /\ unloadable \in BOOLEAN /\ findings \subseteq Finding
    <3>1. Edits \in Nat /\ Faults \in Nat
      BY DEF CheckAssumption
    <3>2. edits = 0 /\ faults = 0 /\ unloadable = FALSE /\ findings = {}
      BY <1>3
    <3>3. edits \in 0 .. Edits
      BY <3>1, <3>2
    <3>4. faults \in 0 .. Faults
      BY <3>1, <3>2
    <3> QED
      BY <3>2, <3>3, <3>4
  <2> QED
    BY <1>2, <1>3, <1>5, <1>6, <2>1, <2>2 DEF Typed
<1>8. Kept
  BY <1>3, <1>4 DEF Kept
<1>9. Safe
  BY <1>2, <1>3, <1>4 DEF Safe, Unharmed, Additive, OnlyFixed, Applies, Applying
<1> QED
  BY <1>7, <1>8, <1>9 DEF IInv

-----------------------------------------------------------------------------
(* What commands are like and where they are has its type at any time      *)
(* (analyzer/run.go, administration.go), whenever files are edited.        *)
THEOREM CheckTypeCorrect ==
  ASSUME CheckAssumption
  PROVE  CheckSpec => []CheckTypeOK
<1>1. Typed => CheckTypeOK
  BY DEF Typed, Commanded, CheckTypeOK, CheckSteps, Codes, CheckAt, BaselineAt, Finding, Excuses
<1>2. CheckInit => Typed
  BY InitHolds DEF IInv
<1>3. Typed /\ [CheckNext]_repository => Typed'
  BY DataStays
<1> QED
  BY <1>1, <1>2, <1>3, PTL DEF CheckSpec

LEMMA InvariantHolds ==
  ASSUME CheckAssumption, Noticed
  PROVE  CheckSpec => []IInv
<1>1. CheckInit => IInv
  BY InitHolds
<1>2. IInv /\ [CheckNext]_repository => IInv'
  BY DataStays, KeptStays, SafeStays DEF IInv
<1> QED
  BY <1>1, <1>2, PTL DEF CheckSpec

(* Applied fixes and baselines, for edits that the program notices         *)
(* (fixes.go; administration.go): nothing that someone typed is lost, no   *)
(* fix lands elsewhere or removes what it was not asked to, applied fixes  *)
(* load and leave nothing to apply; and the last baseline is in its place  *)
(* or in a backup, with the reasons that were given before.                *)
THEOREM FilesAreSafe ==
  ASSUME CheckAssumption, Noticed
  PROVE  CheckSpec => []FilesSurvive
<1>1. ASSUME IInv PROVE FixesAreSafe
  <2>1. Unharmed /\ Additive /\ OnlyFixed /\ Applies
    BY <1>1 DEF IInv, Safe
  <2>3. \A file \in DOMAIN Files :
          /\ tree[file].moved = past.typed[file] /\ tree[file].harm # "misplaced"
          /\ past.op # "check" \/ command.fix # "apply" \/ Files[file].generated
               => past.first[file].issues \subseteq tree[file].issues
          /\ \A i \in past.first[file].issues \ tree[file].issues :
               Issues[i].edits # {} /\ Issues[i].edits \subseteq EditsOf({f \in findings : f.excuse = "none"})
    BY <2>1 DEF Unharmed, Additive, OnlyFixed, Applying
  <2>4. ASSUME past.op = "check", step = "ended", status \in {0, 1}, command.fix = "apply"
        PROVE  /\ \A target \in ToSet(command.targets) :
                    \A file \in Built(target) : target \notin tree[file].broken
               /\ past.since = Quiet =>
                    \A f \in findings : LET i == Issues[f.issue] IN
                      i.edits = {} \/ f.excuse # "none" \/ Files[i.file].generated
                        \/ f.issue \notin tree[i.file].issues
    <3>1. Applied
      BY <2>1, <2>4 DEF Applies, Applying
    <3>2. \A target \in ToSet(command.targets) : \E k \in DOMAIN command.targets : target = command.targets[k]
      BY DEF ToSet
    <3> QED
      BY <3>1, <3>2 DEF Applied, AllSound, Sound, Fixable
  <2> QED
    BY <2>3, <2>4 DEF FixesAreSafe
<1>2. ASSUME IInv PROVE BaselineSurvives
  BY <1>2 DEF IInv, Kept, BaselineSurvives, Agrees
<1> QED
  BY <1>1, <1>2, InvariantHolds, PTL DEF FilesSurvive

-----------------------------------------------------------------------------
(* The exit code.  What a check finds and shows for sources as they were   *)
(* when it started.                                                        *)
DirectivesIn(S, target) ==
  UNION {{[file |-> file, line |-> d.line, moved |-> S[file].moved, rule |-> d.rule] :
            d \in S[file].ignores} : file \in Built(target)}
IgnoredIn(S, target, F) ==
  {IF \E d \in DirectivesIn(S, target) : f \in UsedBy(d, F) THEN [f EXCEPT !.excuse = "inline"]
   ELSE f : f \in F}
ShownFor(c, S, target) == IgnoredIn(S, target, FoundIn(c, target, S))
ShownTo(c, S, n) == UNION {ShownFor(c, S, c.targets[k]) : k \in {j \in DOMAIN c.targets : j <= n}}
Shown(c, S) == UNION {ShownFor(c, S, c.targets[k]) : k \in DOMAIN c.targets}
Identities(F) == {Identity(f) : f \in F}

(* A target at which the check does not end.                               *)
LoadsFor(S, target) == \A file \in Built(target) : target \notin S[file].broken
Used(c, S, target) ==
  \A d \in DirectivesIn(S, target) :
    /\ d.rule \in DOMAIN Rules
    /\ d.file \in Reporting(c, target) /\ d.rule \in Active(c, target) => UsedBy(d, FoundIn(c, target, S)) # {}
PassesFor(c, S, target) == LoadsFor(S, target) /\ Used(c, S, target)
PassesTo(c, S, n) == \A k \in DOMAIN c.targets : k <= n => PassesFor(c, S, c.targets[k])
Passes(c, S) == \A k \in DOMAIN c.targets : PassesFor(c, S, c.targets[k])

(* Every issue is in its own file. *)
Housed(S) == \A file \in DOMAIN Files : \A i \in S[file].issues : Issues[i].file = file
Homes ==
  /\ Housed(tree) /\ Housed(past.first)
  /\ \A file \in DOMAIN fixed : \A i \in fixed[file].after.issues : Issues[i].file = file

(* Options are those of a check that was not refused. *)
Optioned ==
  /\ DOMAIN command = DOMAIN Defaults /\ Graded(command) /\ Graded(session.config)
  /\ past.op = "check" /\ step # "ended" => ~Invalid(command)
  /\ past.op = "check" /\ command.fix = "none" => step \notin {"validate", "compare", "write"}

(* What was reported and adopted is what a check shows of its sources. *)
Adopts ==
  /\ baseline # Missing => DOMAIN baseline = past.known
  /\ past.adopted # Missing => /\ past.known = Identities(Shown(past.adopted.options, past.adopted.tree))
                               /\ Passes(past.adopted.options, past.adopted.tree)
  /\ past.reported # Missing =>
       /\ Passes(past.reported.options, past.reported.tree)
       /\ report # Missing => Identities(report) = Identities(Shown(past.reported.options, past.reported.tree))
  /\ step \in {"aside", "replace"} /\ past.reported # Missing =>
       DOMAIN entries.new = Identities(Shown(past.reported.options, past.reported.tree))
  /\ step = "replace" /\ entries.old # Missing => DOMAIN entries.old = past.known

(* A check that nothing disturbs. *)
Undisturbed == past.op = "check" /\ past.since = Quiet
Settled ==
  /\ Passes(command, past.first)
  /\ IF command.baseline THEN baseline # Missing /\ findings = Adopted(baseline, Shown(command, past.first))
     ELSE findings = Shown(command, past.first)
Expected ==
  /\ past.adopted # Missing /\ command.baseline /\ past.adopted.tree = past.first
  /\ past.adopted.options = Options(command) /\ baseline # Missing /\ ~Invalid(command)
Ended == step = "ended" /\ status \in {0, 1}
Checking ==
  /\ step \in Unwritten \/ command.fix # "apply" => tree = past.first
  /\ step = "suppress" => loaded = past.first /\ LoadsFor(past.first, Target)
  /\ step \in {"load", "suppress"} /\ ~unloadable =>
       findings = ShownTo(command, past.first, nth - 1) /\ PassesTo(command, past.first, nth - 1)
  /\ step = "merge" /\ ~unloadable => findings = Shown(command, past.first) /\ Passes(command, past.first)
  /\ step \in {"prepare", "validate", "compare", "write", "output"} \/ Ended => Settled
  /\ Ended => (status = 1 <=> \E f \in findings : Fails(command, f))
  /\ Expected => /\ step \in {"load", "suppress", "merge"} => ~unloadable
                 /\ step \notin {"validate", "compare", "write"}
                 /\ step = "ended" => status = 0
Checks == Undisturbed => Checking

Decided == Homes /\ Optioned /\ Adopts /\ Checks

(* Every step of a command keeps its options; the options that two checks  *)
(* have in common decide what they show.                                   *)
LEMMA OptionsSuffice ==
  ASSUME NEW c, DOMAIN c = DOMAIN Defaults
  PROVE  \A S : Shown(Options(c), S) = Shown(c, S) /\ (Passes(Options(c), S) <=> Passes(c, S))
<1>1. /\ Options(c).tests = c.tests /\ Options(c).changed = c.changed /\ Options(c).generated = c.generated
      /\ Options(c).excluded = c.excluded /\ Options(c).rules = c.rules /\ Options(c).profile = c.profile
      /\ Options(c).categories = c.categories /\ Options(c).targets = c.targets
  BY DEF Options, Defaults
<1>2. Selected(Options(c)) = Selected(c)
  BY <1>1 DEF Selected, Wanted, Allowed
<1>3. \A target : Active(Options(c), target) = Active(c, target) /\ Reporting(Options(c), target) = Reporting(c, target)
  BY <1>1, <1>2 DEF Active, Reporting, Changed
<1>4. \A S, target : FoundIn(Options(c), target, S) = FoundIn(c, target, S)
  BY <1>1, <1>3 DEF FoundIn
<1>5. \A S, target : ShownFor(Options(c), S, target) = ShownFor(c, S, target)
  BY <1>4 DEF ShownFor
<1>6. \A S, target : PassesFor(Options(c), S, target) <=> PassesFor(c, S, target)
  BY <1>3, <1>4 DEF PassesFor, Used
<1> QED
  BY <1>1, <1>5, <1>6 DEF Shown, Passes

LEMMA OptionsGraded ==
  ASSUME NEW flags, NEW config, Graded(flags), Graded(config)
  PROVE  DOMAIN Merged(flags, config) = DOMAIN Defaults /\ Graded(Merged(flags, config))
<1> DEFINE own(name) == IF name \in DOMAIN config THEN config[name] ELSE Defaults[name]
<1>1. DOMAIN Merged(flags, config) = DOMAIN Defaults
  BY DEF Merged
<1>2. /\ "failOn" \in DOMAIN Defaults /\ Defaults.failOn \in DOMAIN Rank
      /\ "severities" \in DOMAIN Defaults /\ DOMAIN Defaults.severities = {}
  BY DEF Defaults, Rank
<1>3. Merged(flags, config).failOn = IF "failOn" \in DOMAIN flags THEN flags.failOn ELSE own("failOn")
  BY <1>2 DEF Merged
<1>4. Merged(flags, config).failOn \in DOMAIN Rank
  BY <1>2, <1>3 DEF Graded
<1>5. \A s \in DOMAIN own("severities") : own("severities")[s] \in DOMAIN Rank
  BY <1>2 DEF Graded
<1>6. Merged(flags, config).severities =
        IF "severities" \in DOMAIN flags
        THEN [s \in DOMAIN own("severities") \cup DOMAIN flags.severities |->
                IF s \in DOMAIN flags.severities THEN flags.severities[s] ELSE own("severities")[s]]
        ELSE own("severities")
  BY <1>2 DEF Merged
<1>7. \A s \in DOMAIN Merged(flags, config).severities : Merged(flags, config).severities[s] \in DOMAIN Rank
  <2> HIDE DEF own
  <2>1. CASE "severities" \in DOMAIN flags
    BY <1>5, <1>6, <2>1 DEF Graded
  <2>2. CASE "severities" \notin DOMAIN flags
    BY <1>5, <1>6, <2>2
  <2> QED
    BY <2>1, <2>2
<1> QED
  BY <1>1, <1>4, <1>7 DEF Graded

(* Excuses do not change what a finding is. *)
LEMMA ExcusedIs ==
  ASSUME NEW F \in SUBSET Finding
  PROVE  /\ \A known : /\ Identities(Adopted(known, F)) = Identities(F)
                       /\ \A f \in Adopted(known, F) : f.excuse = "none" => f \in F /\ Identity(f) \notin DOMAIN known
         /\ \A S, target : Identities(IgnoredIn(S, target, F)) = Identities(F)
<1>1. \A f \in F : /\ Identity([f EXCEPT !.excuse = "baseline"]) = Identity(f)
                   /\ Identity([f EXCEPT !.excuse = "inline"]) = Identity(f)
                   /\ [f EXCEPT !.excuse = "baseline"].excuse = "baseline"
  BY DEF Identity, Finding
<1>2. ASSUME NEW known
      PROVE  /\ Identities(Adopted(known, F)) = Identities(F)
             /\ \A f \in Adopted(known, F) : f.excuse = "none" => f \in F /\ Identity(f) \notin DOMAIN known
  <2>1. \A f \in Adopted(known, F) : \E g \in F :
          \/ f = [g EXCEPT !.excuse = "baseline"]
          \/ f = g /\ ~(g.excuse = "none" /\ Identity(g) \in DOMAIN known)
    BY DEF Adopted
  <2>2. \A g \in F : \E f \in Adopted(known, F) : f \in {g, [g EXCEPT !.excuse = "baseline"]}
    BY DEF Adopted
  <2>3. \A f \in Adopted(known, F) : \E g \in F : Identity(f) = Identity(g)
    BY <1>1, <2>1
  <2>4. \A g \in F : \E f \in Adopted(known, F) : Identity(f) = Identity(g)
    BY <1>1, <2>2
  <2>5. \A f \in Adopted(known, F) : f.excuse = "none" => f \in F /\ Identity(f) \notin DOMAIN known
    BY <1>1, <2>1
  <2> QED
    BY <2>3, <2>4, <2>5 DEF Identities
<1>3. ASSUME NEW S, NEW target PROVE Identities(IgnoredIn(S, target, F)) = Identities(F)
  <2>1. \A f \in IgnoredIn(S, target, F) : \E g \in F : f \in {g, [g EXCEPT !.excuse = "inline"]}
    BY DEF IgnoredIn
  <2>2. \A g \in F : \E f \in IgnoredIn(S, target, F) : f \in {g, [g EXCEPT !.excuse = "inline"]}
    BY DEF IgnoredIn
  <2>3. \A f \in IgnoredIn(S, target, F) : \E g \in F : Identity(f) = Identity(g)
    BY <1>1, <2>1
  <2>4. \A g \in F : \E f \in IgnoredIn(S, target, F) : Identity(f) = Identity(g)
    BY <1>1, <2>2
  <2> QED
    BY <2>3, <2>4 DEF Identities
<1> QED
  BY <1>2, <1>3

LEMMA ShownTyped ==
  ASSUME CheckAssumption, Typed
  PROVE  \A S \in Trees : Shown(command, S) \in SUBSET Finding
<1> SUFFICES ASSUME NEW S \in Trees, NEW k \in DOMAIN command.targets
             PROVE  ShownFor(command, S, command.targets[k]) \subseteq Finding
  BY DEF Shown
<1>1. command.targets[k] \in Platforms
  BY DEF Typed, Commanded
<1>2. FoundIn(command, command.targets[k], S) \in SUBSET Finding
  BY <1>1, FoundTyped
<1>3. \A f \in FoundIn(command, command.targets[k], S) : [f EXCEPT !.excuse = "inline"] \in Finding
  BY <1>2 DEF Finding, Excuses
<1> QED
  BY <1>2, <1>3 DEF ShownFor, IgnoredIn

LEMMA HomesStay ==
  ASSUME CheckAssumption, Typed, Homes, [CheckNext]_repository
  PROVE  Homes'
<1>1. Housed(tree)'
  <2> SUFFICES ASSUME NEW g \in DOMAIN Files, NEW i \in tree'[g].issues PROVE Issues[i].file = g
    BY DEF Housed
  <2>0. \A j \in tree[g].issues : Issues[j].file = g
    BY DEF Homes, Housed
  <2>1. CASE tree' = tree
    BY <2>0, <2>1
  <2>2. ASSUME NEW file \in DOMAIN Files, tree' = [tree EXCEPT ![file].harm = "torn"] PROVE Issues[i].file = g
    BY <2>0, <2>2, TornIs
  <2>3. ASSUME NEW file \in DOMAIN Files, tree' = [tree EXCEPT ![file].moved = @ + 1] PROVE Issues[i].file = g
    BY <2>0, <2>3, MovedIs
  <2>4. ASSUME NEW file \in DOMAIN Files, NEW j \in DOMAIN Issues, Issues[j].file = file,
               tree' = [tree EXCEPT ![file].issues = @ \cup {j}]
        PROVE  Issues[i].file = g
    <3>1. tree'[g] = IF g = file THEN [tree[g] EXCEPT !.issues = @ \cup {j}] ELSE tree[g]
      BY <2>4 DEF Typed, Trees
    <3>2. tree[g] \in FileStates
      BY DEF Typed, Trees
    <3>3. [tree[g] EXCEPT !.issues = @ \cup {j}].issues = tree[g].issues \cup {j}
      BY <3>2 DEF FileStates
    <3>4. tree'[g].issues \subseteq tree[g].issues \cup (IF g = file THEN {j} ELSE {})
      BY <3>1, <3>3
    <3> QED
      BY <2>0, <2>4, <3>4
  <2>5. ASSUME NEW file \in DOMAIN fixed, file \in DOMAIN Files, tree' = [tree EXCEPT ![file] = fixed[file].after]
        PROVE  Issues[i].file = g
    <3>1. tree'[g] = IF g = file THEN fixed[file].after ELSE tree[g]
      BY <2>5 DEF Typed, Trees
    <3> QED
      BY <2>0, <3>1 DEF Homes
  <2> QED
    BY <2>1, <2>2, <2>3, <2>4, <2>5, FilesAre
<1>2. Housed(past.first)'
  <2>1. CASE \E op : Starts(op)
    <3>1. past'.first = tree
      BY <2>1, StartIs DEF Typed, Recorded
    <3> QED
      BY <3>1 DEF Homes, Housed
  <2>2. CASE \A op : ~Starts(op)
    <3>1. past'.first = past.first
      BY <2>2, GoesOn
    <3> QED
      BY <3>1 DEF Homes, Housed
  <2> QED
    BY <2>1, <2>2
<1>3. \A file \in DOMAIN fixed' : \A i \in fixed'[file].after.issues : Issues[i].file = file
  <2>1. ASSUME fixed' = <<>> \/ fixed' = fixed \/ Write
        PROVE  \A file \in DOMAIN fixed' : file \in DOMAIN fixed /\ fixed'[file] = fixed[file]
    <3>1. ASSUME fixed' = <<>> PROVE DOMAIN fixed' = {}
      BY <3>1
    <3>2. ASSUME Write PROVE \E file \in DOMAIN fixed : fixed' = [g \in DOMAIN fixed \ {file} |-> fixed[g]]
      BY <3>2 DEF Write
    <3> QED
      BY <2>1, <3>1, <3>2
  <2>2. ASSUME fixed' = Prepared(findings), NEW file \in DOMAIN fixed', NEW i \in fixed'[file].after.issues
        PROVE  Issues[i].file = file
    <3>1. file \in DOMAIN Files /\ fixed'[file].after = Edited(tree[file], ToFix(findings, file))
      BY <2>2 DEF Prepared
    <3>2. tree[file] \in FileStates
      BY <3>1 DEF Typed, Trees
    <3>3. i \in tree[file].issues
      BY <2>2, <3>1, <3>2 DEF Edited, FileStates
    <3> QED
      BY <3>1, <3>3 DEF Homes, Housed
  <2>3. fixed' = <<>> \/ fixed' = fixed \/ Write \/ fixed' = Prepared(findings)
    <3>1. CASE UNCHANGED repository
      BY <3>1 DEF repository, work
    <3>2. CASE Check
      BY <3>2 DEF Check, StartCheck, Starts, Load, Suppress, Merge, Prepare, Validate, CompareFiles, Output, work
    <3>3. CASE Baseline
      BY <3>3 DEF Baseline, StartBaseline, Starts, ReadReport, PutAside, Replace, DropBackup, Show, work
    <3>4. CASE Edit \/ Fail \/ FailWrite \/ FailReplace \/ Die
      BY <3>4 DEF Edit, Fail, FailWrite, FailReplace, Die, work
    <3> QED
      BY <3>1, <3>2, <3>3, <3>4 DEF CheckNext
  <2> QED
    BY <2>1, <2>2, <2>3 DEF Homes
<1> QED
  BY <1>1, <1>2, <1>3 DEF Homes

(* A command that starts is taken from those that follow. *)
LEMMA NoneStarts ==
  ASSUME CheckAssumption, Typed, [CheckNext]_repository, ~StartCheck,
         \A op \in {"create", "update", "validate"} : ~StartBaseline(op)
  PROVE  session' = session /\ \A op : ~Starts(op)
<1>1. session' = session
  <2>1. CASE UNCHANGED repository
    BY <2>1 DEF repository
  <2>2. CASE Check
    BY <2>2 DEF Check, Load, Suppress, Merge, Prepare, Validate, CompareFiles, Write, Output
  <2>3. CASE Baseline
    BY <2>3 DEF Baseline, ReadReport, PutAside, Replace, DropBackup, Show
  <2>4. CASE Edit \/ Fail \/ FailWrite \/ FailReplace \/ Die
    BY <2>4 DEF Edit, Fail, FailWrite, FailReplace, Die
  <2> QED
    BY <2>1, <2>2, <2>3, <2>4 DEF CheckNext
<1>2. ASSUME NEW op, Starts(op) PROVE FALSE
  <2>1. session.commands \in Seq(Commands) /\ session.commands # <<>> /\ session'.commands = Tail(session.commands)
    BY <1>2, StartIs DEF Typed, Commanded, Starts
  <2>2. Len(Tail(session.commands)) = Len(session.commands) - 1 /\ Len(session.commands) \in Nat
    BY <2>1
  <2>3. session.commands = Tail(session.commands)
    BY <1>1, <2>1
  <2>4. Len(session.commands) = Len(session.commands) - 1
    BY <2>2, <2>3
  <2> QED
    BY <2>2, <2>4
<1> QED
  BY <1>1, <1>2

LEMMA OptionedStays ==
  ASSUME CheckAssumption, Typed, Optioned, [CheckNext]_repository
  PROVE  Optioned'
<1>0. Recorded /\ Commanded
  BY DEF Typed
<1>1. CASE StartCheck
  <2> DEFINE c == Merged(Command.flags, session.config)
  <2>1. /\ Starts("check") /\ command' = c
        /\ IF Invalid(c) THEN step' = "ended" ELSE step' = "load"
    BY <1>1 DEF StartCheck, Exits, Goes
  <2>2. /\ Graded(Command.flags)
        /\ session' = [config |-> session.config, commands |-> Tail(session.commands)]
        /\ past' = [past EXCEPT !.since = Quiet, !.first = tree, !.op = "check"]
    BY <2>1, StartIs DEF CheckAssumption
  <2>3. DOMAIN c = DOMAIN Defaults /\ Graded(c) /\ session'.config = session.config
    BY <2>2, OptionsGraded DEF Optioned
  <2> HIDE DEF c
  <2> QED
    BY <2>1, <2>3 DEF Optioned
<1>2. ASSUME NEW op \in {"create", "update", "validate"}, StartBaseline(op) PROVE Optioned'
  <2>1. /\ past' = [past EXCEPT !.since = Quiet, !.first = tree, !.op = op]
        /\ session' = [config |-> session.config, commands |-> Tail(session.commands)]
    BY <1>2, StartIs DEF StartBaseline
  <2>2. past'.op = op /\ session'.config = session.config /\ command' = command
    BY <1>0, <1>2, <2>1 DEF Recorded, StartBaseline
  <2> QED
    BY <2>2 DEF Optioned
<1>3. ASSUME ~StartCheck, \A op \in {"create", "update", "validate"} : ~StartBaseline(op) PROVE Optioned'
  <2>1. UNCHANGED <<command, session>> /\ (step' # "ended" => step # "ended")
        /\ (step' = "validate" /\ step # "validate" => command.fix # "none")
        /\ (step' \in {"compare", "write"} => step \in {"validate", "compare", "write"})
    <3>1. CASE UNCHANGED repository
      BY <3>1 DEF repository
    <3>2. CASE Check
      BY <1>3, <3>2 DEF Check, Load, Suppress, Merge, Prepare, Validate, CompareFiles, Write, Output, NextTarget, Goes, Exits
    <3>3. CASE Baseline
      BY <1>3, <3>3 DEF Baseline, ReadReport, PutAside, Replace, DropBackup, Show, Goes, Exits
    <3>4. CASE Edit \/ Fail \/ FailWrite \/ FailReplace \/ Die
      BY <3>4 DEF Edit, Fail, FailWrite, FailReplace, Die, Exits
    <3> QED
      BY <3>1, <3>2, <3>3, <3>4 DEF CheckNext
  <2>2. past'.op = past.op
    BY <1>3, NoneStarts, GoesOn
  <2> QED
    BY <2>1, <2>2 DEF Optioned
<1> QED
  BY <1>1, <1>2, <1>3

(* What a step leaves of the past. *)
LEMMA PastIs ==
  ASSUME Typed, [CheckNext]_repository
  PROVE  /\ ~Output => past'.reported = past.reported
         /\ ~Replace => past'.adopted = past.adopted /\ past'.known = past.known
         /\ Replace => past'.adopted = past.reported /\ past'.known = DOMAIN entries.new
<1>0. Recorded
  BY DEF Typed
<1>1. ASSUME past' = past PROVE /\ past'.reported = past.reported /\ past'.adopted = past.adopted
                                /\ past'.known = past.known
  BY <1>1
<1>2. ASSUME NEW op, Starts(op) PROVE past'.reported = past.reported /\ past'.adopted = past.adopted
                                      /\ past'.known = past.known
  BY <1>0, <1>2 DEF Starts, Recorded
<1>3. ASSUME Output PROVE past'.adopted = past.adopted /\ past'.known = past.known /\ ~Replace
  BY <1>0, <1>3 DEF Output, Replace, Recorded
<1>4. ASSUME Replace PROVE /\ past'.reported = past.reported /\ past'.adopted = past.reported
                           /\ past'.known = DOMAIN entries.new
  BY <1>0, <1>4 DEF Replace, Recorded
<1>5. ASSUME DropBackup \/ Die \/ Edit PROVE past'.reported = past.reported /\ past'.adopted = past.adopted
                                            /\ past'.known = past.known
  BY <1>0, <1>5 DEF DropBackup, Die, Edit, Recorded
<1>6. \/ past' = past \/ (\E op : Starts(op)) \/ Output \/ Replace \/ DropBackup \/ Die \/ Edit
  <2>1. CASE UNCHANGED repository
    BY <2>1 DEF repository
  <2>2. CASE Check
    BY <2>2 DEF Check, StartCheck, Load, Suppress, Merge, Prepare, Validate, CompareFiles, Write
  <2>3. CASE Baseline
    BY <2>3 DEF Baseline, StartBaseline, ReadReport, PutAside, Show
  <2>4. CASE Fail \/ FailWrite \/ FailReplace
    BY <2>4 DEF Fail, FailWrite, FailReplace
  <2> QED
    BY <2>1, <2>2, <2>3, <2>4 DEF CheckNext
<1> QED
  BY <1>1, <1>2, <1>3, <1>4, <1>5, <1>6

LEMMA AdoptsAside ==
  ASSUME Adopts, step' \notin {"aside", "replace"}, baseline' = baseline, report' \in {report, Missing},
         past'.reported = past.reported, past'.adopted = past.adopted, past'.known = past.known
  PROVE  Adopts'
BY DEF Adopts

LEMMA AdoptsStay ==
  ASSUME CheckAssumption, Typed, Kept, Optioned, Adopts, Checks, [CheckNext]_repository
  PROVE  Adopts'
<1>0. /\ ~Output => past'.reported = past.reported
      /\ ~Replace => past'.adopted = past.adopted /\ past'.known = past.known
      /\ Replace => past'.adopted = past.reported /\ past'.known = DOMAIN entries.new
  BY PastIs
<1>1. CASE UNCHANGED repository \/ Edit
  <2>1. UNCHANGED <<baseline, report, entries, step>> /\ ~Output /\ ~Replace
    <3>1. CASE UNCHANGED repository
      BY <3>1 DEF repository, disk, work, Output, Replace, Exits, Goes
    <3>2. CASE Edit
      BY <3>2 DEF Edit, work, Output, Replace, Exits, Goes
    <3> QED
      BY <1>1, <3>1, <3>2
  <2> QED
    BY <1>0, <2>1 DEF Adopts
<1>2. CASE Check /\ ~Output
  <2>1. step' \notin {"aside", "replace"} /\ baseline' = baseline /\ report' \in {report, Missing} /\ ~Replace
    BY <1>2 DEF Check, StartCheck, Load, Suppress, Merge, Prepare, Validate, CompareFiles, Write, NextTarget,
                Starts, Replace, Goes, Exits, disk
  <2> QED
    BY <1>0, <1>2, <2>1, AdoptsAside
<1>3. CASE Output
  <2>0. step = "output" /\ step' = "ended" /\ UNCHANGED <<baseline, findings, tree>> /\ ~Replace
    BY <1>3 DEF Output, Replace, Exits, work
  <2>1. CASE command.format # "json"
    <3>1. report' = report /\ past' = past
      BY <1>3, <2>1 DEF Output
    <3> QED
      BY <2>0, <3>1, AdoptsAside
  <2>2. CASE command.format = "json"
    <3>1. /\ report' = findings
          /\ past' = [past EXCEPT !.reported = IF past.since = Quiet
                                               THEN [tree |-> tree, options |-> Options(command)] ELSE Missing]
      BY <1>3, <2>2 DEF Output
    <3>2. past'.reported = IF past.since = Quiet THEN [tree |-> tree, options |-> Options(command)] ELSE Missing
      BY <3>1 DEF Typed, Recorded
    <3>3. past'.adopted = past.adopted /\ past'.known = past.known
      BY <1>0, <2>0
    <3>4. CASE past.since # Quiet
      BY <2>0, <3>2, <3>3, <3>4 DEF Adopts
    <3>5. CASE past.since = Quiet
      <4>1. past.op = "check" /\ command.fix = "none"
        <5>1. past.op = "check"
          BY <2>0 DEF Typed, Commanded, CheckAt
        <5>2. ~Invalid(command)
          BY <2>0, <5>1 DEF Optioned
        <5> QED
          BY <2>2, <5>1, <5>2 DEF Invalid
      <4>2. Settled /\ tree = past.first
        BY <2>0, <3>5, <4>1 DEF Checks, Undisturbed, Checking
      <4>3. Shown(command, tree) \in SUBSET Finding
        BY ShownTyped DEF Typed
      <4>4. Identities(findings) = Identities(Shown(command, tree)) /\ Passes(command, tree)
        BY <4>2, <4>3, ExcusedIs DEF Settled
      <4>5. DOMAIN command = DOMAIN Defaults
        BY DEF Optioned
      <4>6. /\ Identities(findings) = Identities(Shown(Options(command), tree))
            /\ Passes(Options(command), tree)
        BY <4>4, <4>5, OptionsSuffice
      <4>7. past'.reported.tree = tree /\ past'.reported.options = Options(command)
        BY <3>2, <3>5
      <4>8. /\ Passes(past'.reported.options, past'.reported.tree)
            /\ Identities(report') = Identities(Shown(past'.reported.options, past'.reported.tree))
        BY <3>1, <4>6, <4>7
      <4> QED
        BY <2>0, <3>3, <4>8 DEF Adopts
    <3> QED
      BY <3>4, <3>5
  <2> QED
    BY <2>1, <2>2
<1>4. ASSUME NEW op \in {"create", "update", "validate"}, StartBaseline(op) PROVE Adopts'
  <2>1. step' \notin {"aside", "replace"} /\ baseline' = baseline /\ report' = report /\ ~Replace /\ ~Output
    BY <1>4 DEF StartBaseline, Starts, Replace, Output, Goes, Exits, disk
  <2> QED
    BY <1>0, <2>1, AdoptsAside
<1>5. CASE ReadReport
  <2>1. step = "read" /\ UNCHANGED <<baseline, report, past>> /\ step' # "replace"
    BY <1>5 DEF ReadReport, disk, Goes, Exits
  <2>2. CASE step' # "aside"
    BY <2>1, <2>2, AdoptsAside
  <2>3. CASE step' = "aside"
    <3>1. report # Missing /\ entries' = [entries EXCEPT !.new = Reasons(entries.old, entries.reason)]
      BY <1>5, <2>1, <2>3 DEF ReadReport, Exits, Goes
    <3>2. entries'.new = Reasons(entries.old, entries.reason)
      BY <2>1, <3>1 DEF Kept
    <3>3. DOMAIN entries'.new = Identities(report)
      BY <3>2 DEF Reasons, Identities
    <3> QED
      BY <2>1, <2>3, <3>1, <3>3 DEF Adopts
  <2> QED
    BY <2>2, <2>3
<1>6. CASE PutAside
  <2>1. /\ step = "aside" /\ step' = "replace" /\ UNCHANGED <<past, report>>
        /\ entries' = [entries EXCEPT !.old = baseline] /\ baseline' = Missing
    BY <1>6 DEF PutAside, Goes
  <2>2. entries'.old = baseline /\ entries'.new = entries.new
    BY <2>1 DEF Kept
  <2> QED
    BY <2>1, <2>2 DEF Adopts
<1>7. CASE Replace
  <2>1. step = "replace" /\ step' = "drop" /\ baseline' = entries.new /\ report' = report /\ ~Output
    BY <1>7 DEF Replace, Output, Goes, Exits
  <2> QED
    BY <1>0, <1>7, <2>1 DEF Adopts
<1>8. CASE DropBackup \/ Show \/ Fail \/ FailWrite \/ Die
  <2>1. step' \notin {"aside", "replace"} /\ baseline' = baseline /\ report' = report /\ ~Replace
    BY <1>8 DEF DropBackup, Show, Fail, FailWrite, Die, Goes, Exits, disk, Replace
  <2>2. past'.reported = past.reported
    BY <1>8 DEF DropBackup, Show, Fail, FailWrite, Die, Typed, Recorded
  <2> QED
    BY <1>0, <2>1, <2>2, AdoptsAside
<1>9. CASE FailReplace
  <2>1. /\ step = "replace" /\ step' = "ended" /\ UNCHANGED <<report, past>>
        /\ baseline' \in {baseline, entries.old}
    BY <1>9 DEF FailReplace, Exits
  <2> QED
    BY <2>1 DEF Adopts
<1> QED
  BY <1>1, <1>2, <1>3, <1>4, <1>5, <1>6, <1>7, <1>8, <1>9 DEF CheckNext, Baseline

LEMMA StillQuiet ==
  ASSUME CheckAssumption, Typed, [CheckNext]_repository, \A op : ~Starts(op), Undisturbed'
  PROVE  Undisturbed /\ UNCHANGED <<edits, faults>>
<1>1. past'.op = past.op /\ past'.since = past.since
  BY GoesOn
<1>2. past.since.edits \in 0 .. edits /\ past.since.faults \in 0 .. faults /\ edits \in Nat /\ faults \in Nat
  BY DEF Typed, Recorded
<1>3. edits <= edits' /\ faults <= faults' /\ edits' \in Nat /\ faults' \in Nat
  BY CountsStay
<1>4. past.since = Quiet'
  BY <1>1 DEF Undisturbed
<1>5. past.since.edits = edits' /\ past.since.faults = faults'
  BY <1>4 DEF Quiet
<1>6. edits' = edits /\ faults' = faults
  BY <1>2, <1>3, <1>5
<1> QED
  BY <1>1, <1>4, <1>6 DEF Undisturbed, Quiet

(* A check of what was adopted passes, and the baseline excuses it all.     *)
LEMMA ExpectedPasses ==
  ASSUME Optioned, Adopts, Expected
  PROVE  Passes(command, past.first) /\ DOMAIN baseline = Identities(Shown(command, past.first))
BY OptionsSuffice DEF Optioned, Adopts, Expected

LEMMA AllExcused ==
  ASSUME CheckAssumption, Typed, Optioned, Adopts, Expected, Settled
  PROVE  \A f \in findings : f.excuse # "none"
<1>1. Shown(command, past.first) \in SUBSET Finding
  BY ShownTyped DEF Typed, Recorded
<1>2. findings = Adopted(baseline, Shown(command, past.first))
  BY DEF Settled, Expected
<1>3. \A f \in Shown(command, past.first) : Identity(f) \in DOMAIN baseline
  BY ExpectedPasses DEF Identities
<1> QED
  BY <1>1, <1>2, <1>3, ExcusedIs

(* A step of a check that nothing disturbs. *)
Continues ==
  /\ CheckAssumption /\ Typed /\ Optioned /\ Adopts /\ Checking /\ Undisturbed
  /\ command' = command /\ baseline' = baseline
  /\ past'.first = past.first /\ past'.adopted = past.adopted

LEMMA ExpectedStays ==
  ASSUME Continues
  PROVE  Expected' <=> Expected
BY DEF Continues, Expected

LEMMA StartChecks ==
  ASSUME CheckAssumption, Typed, [CheckNext]_repository, StartCheck
  PROVE  Checking'
<1>1. /\ past'.first = tree /\ tree' = tree /\ nth' = 1 /\ findings' = {} /\ unloadable' = FALSE
      /\ IF Invalid(command') THEN step' = "ended" /\ status' = 2 ELSE step' = "load"
  BY StartIs DEF StartCheck, Starts, Exits, Goes, Typed, Recorded
<1>2. ~\E j \in DOMAIN command'.targets : j <= nth' - 1
  <2>1. command'.targets \in Seq(Platforms)
    BY CommandedStays DEF Commanded
  <2> QED
    BY <1>1, <2>1
<1>3. findings' = ShownTo(command, past.first, nth - 1)' /\ PassesTo(command, past.first, nth - 1)'
  BY <1>1, <1>2 DEF ShownTo, PassesTo
<1> QED
  BY <1>1, <1>3 DEF Checking, Unwritten, Ended, Expected

LEMMA LoadChecks ==
  ASSUME Continues, Load
  PROVE  Checking'
<1>1. /\ step = "load" /\ loaded' = tree /\ tree' = tree /\ findings' = findings
      /\ \/ Broken(tree) /\ unloadable' = TRUE /\ step' \in {"load", "merge"}
         \/ ~Broken(tree) /\ step' = "suppress" /\ UNCHANGED <<unloadable, nth>>
  BY DEF Load, disk, Goes, NextTarget
<1>2. tree = past.first
  BY <1>1 DEF Continues, Checking, Unwritten
<1>3. Broken(tree) <=> ~LoadsFor(past.first, Target)
  BY <1>2 DEF Broken, LoadsFor
<1>4. Expected => ~Broken(tree)
  BY <1>3, ExpectedPasses DEF Continues, Passes, PassesFor, Target, Typed, Commanded
<1>5. Expected' => ~unloadable'
  BY <1>1, <1>4, ExpectedStays DEF Continues, Checking
<1>6. step' = "suppress" => LoadsFor(past.first, Target)'
  BY <1>1, <1>3 DEF LoadsFor, Target, Continues
<1>7. step' = "suppress" /\ ~unloadable' =>
        findings' = ShownTo(command, past.first, nth - 1)' /\ PassesTo(command, past.first, nth - 1)'
  BY <1>1 DEF Continues, Checking, ShownTo, PassesTo
<1> QED
  BY <1>1, <1>2, <1>5, <1>6, <1>7 DEF Continues, Checking, Ended

LEMMA SuppressChecks ==
  ASSUME Continues, Suppress
  PROVE  Checking'
<1> DEFINE S == past.first
           found == FoundIn(command, Target, S)
<1>1. /\ step = "suppress" /\ tree' = tree /\ UNCHANGED <<unloadable, loaded>>
      /\ tree = S /\ loaded = S /\ LoadsFor(S, Target)
  BY DEF Suppress, disk, Continues, Checking, Unwritten
<1>2. Directives(Target) = DirectivesIn(S, Target)
  BY <1>1 DEF Directives, DirectivesIn
<1>3. Used(command, S, Target) <=> ~(Malformed(Target) \/ StaleDirectives(command, Target, found) # {})
  BY <1>2 DEF Used, Malformed, StaleDirectives
<1>4. Ignored(Target, found) = ShownFor(command, S, Target)
  BY <1>2 DEF Ignored, ShownFor, IgnoredIn
<1>5. IF Used(command, S, Target)
      THEN findings' = findings \cup ShownFor(command, S, Target) /\ NextTarget
      ELSE step' = "ended" /\ status' = 2
  BY <1>1, <1>3, <1>4 DEF Suppress, Exits
<1>6. Target = command.targets[nth] /\ nth \in DOMAIN command.targets /\ command.targets \in Seq(Platforms)
  BY DEF Target, Continues, Typed, Commanded
<1>7. Expected => Used(command, S, Target)
  BY <1>6, ExpectedPasses DEF Continues, Passes, PassesFor
<1>8. CASE ~Used(command, S, Target)
  BY <1>1, <1>5, <1>7, <1>8, ExpectedStays DEF Checking, Ended, Continues, Unwritten
<1>9. CASE Used(command, S, Target)
  <2>1. /\ findings' = findings \cup ShownFor(command, S, Target)
        /\ \/ step' = "load" /\ nth' = nth + 1
           \/ step' = "merge" /\ nth = Len(command.targets)
    BY <1>5, <1>6, <1>9, NextTargetIs
  <2>2. \A j \in DOMAIN command.targets : j <= nth <=> j <= nth - 1 \/ j = nth
    BY <1>6
  <2>3. ~unloadable => findings' = ShownTo(command, S, nth)
    <3>1. ~unloadable => findings = ShownTo(command, S, nth - 1)
      BY <1>1 DEF Continues, Checking
    <3> QED
      BY <1>6, <2>1, <2>2, <3>1 DEF ShownTo
  <2>4. ~unloadable => PassesTo(command, S, nth)
    <3>1. ~unloadable => PassesTo(command, S, nth - 1)
      BY <1>1 DEF Continues, Checking
    <3> QED
      BY <1>1, <1>6, <1>9, <2>2, <3>1 DEF PassesTo, PassesFor
  <2>5. nth' = nth + 1 => nth' - 1 = nth
    BY <1>6
  <2>6. step' = "load" /\ ~unloadable' =>
          findings' = ShownTo(command, past.first, nth - 1)' /\ PassesTo(command, past.first, nth - 1)'
    BY <1>1, <2>1, <2>3, <2>4, <2>5 DEF Continues, ShownTo, PassesTo
  <2>7. nth = Len(command.targets) => /\ ShownTo(command, S, nth) = Shown(command, S)
                                      /\ PassesTo(command, S, nth) => Passes(command, S)
    <3>1. nth = Len(command.targets) => \A j \in DOMAIN command.targets : j <= nth
      BY <1>6
    <3> QED
      BY <3>1 DEF ShownTo, Shown, PassesTo, Passes
  <2>8. step' = "merge" /\ ~unloadable' => findings' = Shown(command, past.first)' /\ Passes(command, past.first)'
    BY <1>1, <2>1, <2>3, <2>4, <2>7 DEF Continues, Shown, Passes
  <2>9. Expected' => ~unloadable'
    BY <1>1, ExpectedStays DEF Continues, Checking
  <2> QED
    BY <1>1, <2>1, <2>6, <2>8, <2>9 DEF Checking, Ended, Continues
<1> QED
  BY <1>8, <1>9

LEMMA MergeChecks ==
  ASSUME Continues, Merge
  PROVE  Checking'
<1>1. step = "merge" /\ tree' = tree /\ unloadable' = unloadable /\ tree = past.first
  BY DEF Merge, disk, Continues, Checking, Unwritten
<1>2. ASSUME ~unloadable PROVE findings = Shown(command, past.first) /\ Passes(command, past.first)
  BY <1>1, <1>2 DEF Continues, Checking
<1>3. Expected => ~unloadable
  BY <1>1 DEF Continues, Checking
<1>4. ASSUME Expected PROVE StaleEntries(command, baseline, findings) = {} /\ baseline # Missing
  <2>1. DOMAIN baseline = Identities(findings)
    BY <1>2, <1>3, <1>4, ExpectedPasses DEF Continues
  <2> QED
    BY <1>4, <2>1 DEF StaleEntries, Identities, Expected
<1>5. \/ /\ step' = "ended" /\ status' \in {2, 3}
         /\ unloadable \/ baseline = Missing \/ StaleEntries(command, baseline, findings) # {}
      \/ /\ step' = "prepare" /\ ~unloadable
         /\ IF command.baseline THEN baseline # Missing /\ findings' = Adopted(baseline, findings)
            ELSE findings' = findings
  BY DEF Merge, Exits, Goes
<1>6. step' = "prepare" => Settled'
  BY <1>1, <1>2, <1>5 DEF Continues, Settled, Shown, Passes
<1>7. Expected' => step' = "prepare"
  BY <1>3, <1>4, <1>5, ExpectedStays
<1> QED
  BY <1>1, <1>5, <1>6, <1>7 DEF Continues, Checking, Ended

LEMMA SettledStays ==
  ASSUME Continues, Settled, findings' = findings
  PROVE  Settled'
BY DEF Continues, Settled, Shown, Passes

LEMMA PrepareChecks ==
  ASSUME Continues, Prepare
  PROVE  Checking'
<1>1. /\ step = "prepare" /\ UNCHANGED <<tree, findings>> /\ tree = past.first /\ Settled
  BY DEF Prepare, disk, Continues, Checking, Unwritten
<1>2. \/ /\ step' = "ended" /\ status' = 4
         /\ \E file \in DOMAIN Files : Conflict(ToFix(findings, file))
      \/ /\ fixed' = Prepared(findings)
         /\ step' = IF command.fix # "none" /\ fixed' # <<>> THEN "validate" ELSE "output"
  BY DEF Prepare, Exits, Goes
<1>3. ASSUME Expected PROVE step' = "output"
  <2>1. \A file \in DOMAIN Files : ToFix(findings, file) = {}
    BY <1>1, <1>3, AllExcused DEF Continues, ToFix, Fixable
  <2>2. \A file \in DOMAIN Files : ~Conflict(ToFix(findings, file))
    BY <2>1 DEF Conflict, EditsOf
  <2>3. Prepared(findings) = <<>>
    <3>1. {g \in DOMAIN Files : ToFix(findings, g) # {}} = {}
      BY <2>1
    <3> QED
      BY <3>1 DEF Prepared
  <2> QED
    BY <1>2, <2>2, <2>3
<1>4. Expected' => step' = "output"
  BY <1>3, ExpectedStays
<1> QED
  BY <1>1, <1>2, <1>4, SettledStays DEF Continues, Checking, Ended

LEMMA ValidateChecks ==
  ASSUME Continues, Validate \/ CompareFiles \/ Write
  PROVE  Checking'
<1>1. /\ step \in {"validate", "compare", "write"} /\ findings' = findings
      /\ \/ step' = "ended" /\ status' = 4
         \/ step' \in {"validate", "compare", "write", "output"}
  BY DEF Validate, CompareFiles, Write, work, Exits, Goes
<1>2. ~Expected /\ Settled
  BY <1>1 DEF Continues, Checking
<1>3. step' \in Unwritten \/ command.fix # "apply" => tree' = past.first
  <2>1. Validate \/ CompareFiles => tree' = tree /\ step \in Unwritten
    BY DEF Validate, CompareFiles, disk, Unwritten
  <2>2. Write => command.fix = "apply" /\ step' \notin Unwritten
    BY DEF Write, Goes, Unwritten, Continues, Typed, Commanded
  <2> QED
    BY <2>1, <2>2 DEF Continues, Checking
<1> QED
  BY <1>1, <1>2, <1>3, ExpectedStays, SettledStays DEF Continues, Checking, Ended

LEMMA OutputChecks ==
  ASSUME Continues, Output
  PROVE  Checking'
<1>1. /\ step = "output" /\ step' = "ended" /\ UNCHANGED <<tree, findings>> /\ Settled
      /\ status' = IF \E f \in findings : Fails(command, f) THEN 1 ELSE 0
  BY DEF Output, work, Exits, Continues, Checking
<1>2. ASSUME Expected PROVE status' = 0
  BY <1>1, <1>2, AllExcused DEF Fails, Continues
<1>3. command.fix # "apply" => tree = past.first
  BY <1>1 DEF Continues, Checking
<1>4. status' = 1 <=> \E f \in findings' : Fails(command, f)'
  <2>1. \A f : Fails(command, f)' <=> Fails(command, f)
    BY DEF Fails, Severity, Continues
  <2>2. status' = 1 <=> \E f \in findings : Fails(command, f)
    BY <1>1
  <2> QED
    BY <1>1, <2>1, <2>2
<1> QED
  BY <1>1, <1>2, <1>3, <1>4, ExpectedStays, SettledStays DEF Continues, Checking, Ended, Unwritten

LEMMA ChecksStay ==
  ASSUME CheckAssumption, Typed, Optioned, Adopts, Checks, [CheckNext]_repository
  PROVE  Checks'
<1> SUFFICES ASSUME Undisturbed' PROVE Checking'
  BY DEF Checks
<1>1. CASE UNCHANGED repository
  <2>1. Undisturbed /\ Checking
    BY <1>1 DEF repository, Undisturbed, Quiet, Checks
  <2>2. UNCHANGED <<tree, baseline, command, step, nth, loaded, findings, unloadable, status, past>>
    BY <1>1 DEF repository, disk, work
  <2>3. (Expected' <=> Expected) /\ (Settled' <=> Settled)
    BY <2>2 DEF Expected, Settled, Shown, Passes
  <2>4. LoadsFor(past.first, Target)' <=> LoadsFor(past.first, Target)
    BY <2>2 DEF LoadsFor, Target
  <2>5. /\ ShownTo(command, past.first, nth - 1)' = ShownTo(command, past.first, nth - 1)
        /\ PassesTo(command, past.first, nth - 1)' <=> PassesTo(command, past.first, nth - 1)
        /\ Shown(command, past.first)' = Shown(command, past.first)
        /\ Passes(command, past.first)' <=> Passes(command, past.first)
    BY <2>2 DEF ShownTo, PassesTo, Shown, Passes
  <2>6. \A f : Fails(command, f)' <=> Fails(command, f)
    BY <2>2 DEF Fails, Severity
  <2> QED
    BY <2>1, <2>2, <2>3, <2>4, <2>5, <2>6 DEF Checking, Ended
<1>2. CASE StartCheck
  BY <1>2, StartChecks
<1>3. ASSUME NEW op \in {"create", "update", "validate"}, StartBaseline(op) PROVE FALSE
  <2>1. past'.op = op
    BY <1>3, StartIs DEF StartBaseline, Typed, Recorded
  <2> QED
    BY <2>1 DEF Undisturbed
<1>4. ASSUME ~StartCheck, \A op \in {"create", "update", "validate"} : ~StartBaseline(op), ~UNCHANGED repository
      PROVE  Checking'
  <2>0. \A op : ~Starts(op)
    BY <1>4, NoneStarts
  <2>1. Undisturbed /\ UNCHANGED <<edits, faults>>
    BY <2>0, StillQuiet
  <2>2. ~Edit /\ ~Fail /\ ~FailWrite /\ ~FailReplace /\ ~Die
    BY <2>1 DEF Edit, Fail, FailWrite, FailReplace, Die, Fault, Typed
  <2>3. ~ReadReport /\ ~PutAside /\ ~Replace /\ ~DropBackup /\ ~Show
    BY <2>1 DEF ReadReport, PutAside, Replace, DropBackup, Show, Undisturbed, Typed, Commanded, BaselineAt
  <2>4. Load \/ Suppress \/ Merge \/ Prepare \/ Validate \/ CompareFiles \/ Write \/ Output
    BY <1>4, <2>2, <2>3 DEF CheckNext, Check, Baseline
  <2>5. baseline' = baseline
    BY <2>4 DEF Load, Suppress, Merge, Prepare, Validate, CompareFiles, Write, Output, disk
  <2>6. past'.adopted = past.adopted
    BY <2>3, PastIs
  <2>7. Continues
    BY <2>0, <2>1, <2>5, <2>6, GoesOn DEF Continues, Checks
  <2> QED
    BY <2>4, <2>7, LoadChecks, SuppressChecks, MergeChecks, PrepareChecks, ValidateChecks, OutputChecks
<1> QED
  BY <1>1, <1>2, <1>3, <1>4

LEMMA DecidedAtFirst ==
  ASSUME CheckAssumption, CheckInit
  PROVE  Decided
<1>1. PICK s \in Sessions : tree = s.tree /\ session = [config |-> s.config, commands |-> s.commands]
  BY DEF CheckInit
<1>2. /\ command = Defaults /\ step = "ended" /\ fixed = <<>> /\ baseline = Missing
      /\ past.op = "none" /\ past.first = tree /\ past.reported = Missing /\ past.adopted = Missing
  BY DEF CheckInit, NothingYet
<1>3. Homes
  <2>1. Housed(tree)
    BY <1>1 DEF CheckAssumption, Housed
  <2>2. DOMAIN fixed = {}
    BY <1>2
  <2> QED
    BY <1>2, <2>1, <2>2 DEF Homes
<1>4. Optioned
  <2>1. command.failOn = "warning" /\ command.severities = <<>>
    BY <1>2 DEF Defaults
  <2>2. "warning" \in DOMAIN Rank /\ \A x : x \notin DOMAIN command.severities
    BY <2>1 DEF Rank
  <2>3. Graded(session.config)
    BY <1>1 DEF CheckAssumption
  <2> QED
    BY <1>2, <2>1, <2>2, <2>3 DEF Optioned, Graded
<1>5. Adopts
  BY <1>2 DEF Adopts
<1>6. Checks
  BY <1>2 DEF Checks, Undisturbed
<1> QED
  BY <1>3, <1>4, <1>5, <1>6 DEF Decided

LEMMA DecidedHolds ==
  ASSUME CheckAssumption
  PROVE  CheckSpec => [](Typed /\ Kept /\ Decided)
<1>1. CheckInit => Typed /\ Kept /\ Decided
  BY InitHolds, DecidedAtFirst DEF IInv
<1>2. Typed /\ Kept /\ Decided /\ [CheckNext]_repository => Typed' /\ Kept' /\ Decided'
  BY DataStays, KeptStays, HomesStay, OptionedStays, AdoptsStay, ChecksStay DEF Decided
<1> QED
  BY <1>1, <1>2, PTL DEF CheckSpec

(* Whatever has to be excused is found, unless it is ignored on its line;   *)
(* what a check shows without an excuse has to be excused.                  *)
LEMMA SeverityGraded ==
  ASSUME CheckAssumption, Optioned
  PROVE  /\ Rank[command.failOn] \in Nat
         /\ \A r \in DOMAIN Rules : Rank[Severity(command, r)] \in Nat
<1>1. \A s \in DOMAIN Rank : Rank[s] \in Nat
  BY DEF Rank
<1>2. "failOn" \in DOMAIN command /\ "severities" \in DOMAIN command
  BY DEF Optioned, Defaults
<1>3. command.failOn \in DOMAIN Rank /\ \A s \in DOMAIN command.severities : command.severities[s] \in DOMAIN Rank
  BY <1>2 DEF Optioned, Graded
<1>4. \A r \in DOMAIN Rules : Severity(command, r) \in DOMAIN Rank
  BY <1>3 DEF CheckAssumption, Severity
<1> QED
  BY <1>1, <1>3, <1>4

LEMMA IgnoredOnLine ==
  ASSUME NEW S \in Trees, NEW target, NEW d \in DirectivesIn(S, target), NEW f, Meant(d, f)
  PROVE  [line |-> Issues[f.issue].line, rule |-> Issues[f.issue].rule] \in S[Issues[f.issue].file].ignores
<1>1. PICK file \in Built(target) : \E x \in S[file].ignores :
        d = [file |-> file, line |-> x.line, moved |-> S[file].moved, rule |-> x.rule]
  BY DEF DirectivesIn
<1>2. PICK x \in S[file].ignores : d = [file |-> file, line |-> x.line, moved |-> S[file].moved, rule |-> x.rule]
  BY <1>1
<1>3. x \in [line : Nat, rule : STRING]
  BY DEF Trees, FileStates, Built
<1>4. x = [line |-> x.line, rule |-> x.rule]
  BY <1>3
<1>5. file = Issues[f.issue].file /\ x.line = Issues[f.issue].line /\ x.rule = Issues[f.issue].rule
  BY <1>2 DEF Meant
<1> QED
  BY <1>4, <1>5

LEMMA WorryingFound ==
  ASSUME Typed, Homes, NEW w \in Worrying, Arises(w)
  PROVE  LET f == [issue |-> w.issue, target |-> w.target, moved |-> w.moved, copy |-> 1, excuse |-> "none"]
         IN /\ f \in FoundIn(command, w.target, past.first)
            /\ Identity(f) = w /\ w.target \in ToSet(command.targets)
            /\ Issues[w.issue].rule \in DOMAIN Rules
            /\ Rank[command.failOn] \in 1 .. Rank[Severity(command, Issues[w.issue].rule)]
<1>1. PICK target \in ToSet(command.targets), i \in UNION {past.first[g].issues : g \in DOMAIN Files} :
        /\ w = [issue |-> i, target |-> target, moved |-> past.first[Issues[i].file].moved]
        /\ Issues[i].rule \in Selected(command) /\ Changed(command, Issues[i].file)
        /\ ~Files[Issues[i].file].generated \/ command.generated = "include"
        /\ Rank[command.failOn] \in 1 .. Rank[Severity(command, Issues[i].rule)]
  BY DEF Worrying
<1>2. PICK file \in DOMAIN Files : i \in past.first[file].issues /\ Issues[i].file = file
  BY <1>1 DEF Homes, Housed
<1>3. w.issue = i /\ w.target = target /\ w.moved = past.first[file].moved
  BY <1>1, <1>2
<1>4. target \in Issues[i].targets /\ target \in Files[file].targets /\ target \in Rules[Issues[i].rule].targets
  BY <1>2, <1>3 DEF Arises
<1>5. file \in Reporting(command, target) /\ Issues[i].rule \in Active(command, target)
  BY <1>1, <1>2, <1>4 DEF Reporting, Built, Active
<1>6. [issue |-> i, target |-> target, moved |-> past.first[Issues[i].file].moved, copy |-> 1, excuse |-> "none"]
        \in FoundIn(command, target, past.first)
  BY <1>2, <1>4, <1>5 DEF FoundIn
<1>7. Issues[i].rule \in DOMAIN Rules
  BY <1>1 DEF Selected, Wanted
<1> QED
  BY <1>1, <1>2, <1>3, <1>6, <1>7 DEF Identity

LEMMA PassesRightly ==
  ASSUME CheckAssumption, Typed, Decided, Settled, ~\E f \in findings : Fails(command, f),
         NEW w \in Worrying, Arises(w)
  PROVE  Excused(w)
<1> DEFINE S == past.first
           f == [issue |-> w.issue, target |-> w.target, moved |-> w.moved, copy |-> 1, excuse |-> "none"]
           found == FoundIn(command, w.target, S)
<1>1. /\ f \in found /\ Identity(f) = w /\ w.target \in ToSet(command.targets)
      /\ Issues[w.issue].rule \in DOMAIN Rules
      /\ Rank[command.failOn] \in 1 .. Rank[Severity(command, Issues[w.issue].rule)]
  BY WorryingFound DEF Decided
<1>2. f.issue = w.issue /\ f.excuse = "none"
  OBVIOUS
<1>3. S \in Trees /\ S[Issues[w.issue].file].ignores = past.first[Issues[w.issue].file].ignores
  BY DEF Typed, Recorded
<1> HIDE DEF f
<1>4. CASE \E d \in DirectivesIn(S, w.target) : f \in UsedBy(d, found)
  <2>1. PICK d \in DirectivesIn(S, w.target) : Meant(d, f)
    BY <1>4 DEF UsedBy
  <2>2. [line |-> Issues[w.issue].line, rule |-> Issues[w.issue].rule] \in S[Issues[w.issue].file].ignores
    BY <1>2, <1>3, <2>1, IgnoredOnLine
  <2> QED
    BY <2>2 DEF Excused
<1>5. CASE ~\E d \in DirectivesIn(S, w.target) : f \in UsedBy(d, found)
  <2>1. f \in ShownFor(command, S, w.target)
    BY <1>1, <1>5 DEF ShownFor, IgnoredIn
  <2>2. f \in Shown(command, S)
    BY <1>1, <2>1 DEF Shown, ToSet
  <2>3. Fails(command, f)
    <3>1. Rank[command.failOn] \in Nat /\ Rank[Severity(command, Issues[w.issue].rule)] \in Nat
      BY <1>1, SeverityGraded DEF Decided
    <3>2. Rank[command.failOn] # 0 /\ Rank[Severity(command, Issues[w.issue].rule)] >= Rank[command.failOn]
      BY <1>1, <3>1
    <3> QED
      BY <1>2, <3>2 DEF Fails
  <2>4. f \notin findings
    BY <2>3
  <2>5. command.baseline /\ baseline # Missing /\ findings = Adopted(baseline, Shown(command, S))
    BY <2>2, <2>4 DEF Settled
  <2>6. Identity(f) \in DOMAIN baseline
    BY <2>2, <2>4, <2>5 DEF Adopted
  <2>7. w \in past.known
    BY <1>1, <2>5, <2>6 DEF Decided, Adopts
  <2> QED
    BY <2>5, <2>7 DEF Excused
<1> QED
  BY <1>4, <1>5

(* A finding that fails the check, and what it is found for. *)
LEMMA FailingIs ==
  ASSUME CheckAssumption, Typed, Decided, Settled, ~command.tests, NEW f \in findings, Fails(command, f)
  PROVE  /\ command.baseline => Identity(f) \notin past.known
         /\ \E target \in ToSet(command.targets) :
              /\ f \in FoundIn(command, target, past.first)
              /\ \A d \in DirectivesIn(past.first, target) : f \notin UsedBy(d, FoundIn(command, target, past.first))
<1> DEFINE S == past.first
<1>0. S \in Trees /\ Shown(command, S) \in SUBSET Finding /\ f.excuse = "none"
  BY ShownTyped DEF Typed, Recorded, Fails
<1>1. f \in Shown(command, S) /\ (command.baseline => Identity(f) \notin past.known)
  <2>1. CASE command.baseline
    <3>1. findings = Adopted(baseline, Shown(command, S)) /\ DOMAIN baseline = past.known
      BY <2>1 DEF Settled, Decided, Adopts
    <3>2. \A g \in Adopted(baseline, Shown(command, S)) :
            g.excuse = "none" => g \in Shown(command, S) /\ Identity(g) \notin DOMAIN baseline
      BY <1>0, ExcusedIs
    <3> QED
      BY <1>0, <3>1, <3>2
  <2>2. CASE ~command.baseline
    BY <2>2 DEF Settled
  <2> QED
    BY <2>1, <2>2
<1>2. PICK k \in DOMAIN command.targets : f \in ShownFor(command, S, command.targets[k])
  BY <1>1 DEF Shown
<1> DEFINE target == command.targets[k]
           found == FoundIn(command, target, S)
<1>3. target \in Platforms /\ target \in ToSet(command.targets)
  BY DEF Typed, Commanded, ToSet
<1>4. found \in SUBSET Finding
  BY <1>0, <1>3, FoundTyped
<1>5. PICK g \in found : f = IF \E d \in DirectivesIn(S, target) : g \in UsedBy(d, found)
                             THEN [g EXCEPT !.excuse = "inline"] ELSE g
  BY <1>2 DEF ShownFor, IgnoredIn
<1>6. [g EXCEPT !.excuse = "inline"].excuse = "inline"
  BY <1>4 DEF Finding
<1>7. f = g /\ \A d \in DirectivesIn(S, target) : f \notin UsedBy(d, found)
  BY <1>0, <1>5, <1>6
<1> QED
  BY <1>1, <1>3, <1>7

LEMMA FoundIs ==
  ASSUME Typed, Homes, ~command.tests, NEW target, NEW f \in FoundIn(command, target, past.first)
  PROVE  /\ f = [issue |-> f.issue, target |-> target, moved |-> past.first[Issues[f.issue].file].moved,
                 copy |-> 1, excuse |-> "none"]
         /\ f.target = target /\ f.moved = past.first[Issues[f.issue].file].moved /\ f.copy = 1
         /\ Issues[f.issue].file \in Reporting(command, target)
         /\ f.issue \in past.first[Issues[f.issue].file].issues
         /\ target \in Issues[f.issue].targets /\ Issues[f.issue].rule \in Active(command, target)
<1>1. PICK i \in UNION {past.first[file].issues : file \in Reporting(command, target)} :
        /\ f = [issue |-> i, target |-> target, moved |-> past.first[Issues[i].file].moved,
                copy |-> 1, excuse |-> "none"]
        /\ target \in Issues[i].targets /\ Issues[i].rule \in Active(command, target)
  BY DEF FoundIn
<1>2. PICK file \in Reporting(command, target) : i \in past.first[file].issues
  BY <1>1
<1>3. Issues[i].file = file
  BY <1>2 DEF Homes, Housed, Reporting, Built
<1> QED
  BY <1>1, <1>2, <1>3

LEMMA SeveralOnLine ==
  ASSUME CheckAssumption, Typed, Homes, ~command.tests, NEW target,
         NEW f \in FoundIn(command, target, past.first),
         [line |-> Issues[f.issue].line, rule |-> Issues[f.issue].rule] \in past.first[Issues[f.issue].file].ignores,
         \A d \in DirectivesIn(past.first, target) : f \notin UsedBy(d, FoundIn(command, target, past.first))
  PROVE  Cardinality(OnItsLine(Identity(f))) > 1
<1> DEFINE i == f.issue
           file == Issues[i].file
           d == [file |-> file, line |-> Issues[i].line, moved |-> past.first[file].moved, rule |-> Issues[i].rule]
           line == OnItsLine(Identity(f))
<1>1. /\ f.target = target /\ f.moved = past.first[file].moved /\ f.copy = 1
      /\ file \in Built(target) /\ i \in past.first[file].issues
  BY FoundIs DEF Reporting
<1>2. d \in DirectivesIn(past.first, target)
  <2>1. /\ [line |-> Issues[i].line, rule |-> Issues[i].rule].line = Issues[i].line
        /\ [line |-> Issues[i].line, rule |-> Issues[i].rule].rule = Issues[i].rule
    OBVIOUS
  <2>2. \A g \in Built(target) : \A x \in past.first[g].ignores :
          [file |-> g, line |-> x.line, moved |-> past.first[g].moved, rule |-> x.rule]
            \in DirectivesIn(past.first, target)
    BY DEF DirectivesIn
  <2> QED
    BY <1>1, <2>1, <2>2
<1>3. Meant(d, f)
  BY <1>1 DEF Meant
<1>4. PICK g \in FoundIn(command, target, past.first) : Meant(d, g) /\ Earlier(g, f)
  BY <1>2, <1>3 DEF UsedBy
<1>5. g.copy = 1 /\ g.issue \in past.first[Issues[g.issue].file].issues
  BY FoundIs
<1>6. Issues[g.issue].file = file /\ Issues[g.issue].line = Issues[i].line /\ Issues[g.issue].rule = Issues[i].rule
  BY <1>4 DEF Meant
<1>7. file \in DOMAIN Files /\ past.first[file].issues \subseteq DOMAIN Issues
  BY <1>1 DEF Typed, Recorded, Trees, FileStates, Built
<1>8. g.issue # i
  <2>1. g.issue \in Nat /\ i \in Nat
    BY <1>1, <1>5, <1>6, <1>7 DEF CheckAssumption
  <2>2. g.issue < f.issue \/ g.copy < f.copy
    BY <1>4 DEF Earlier
  <2> QED
    BY <1>1, <1>5, <2>1, <2>2
<1>9. Identity(f).issue = i
  BY DEF Identity
<1>10. {i} \cup {g.issue} \subseteq line /\ line \subseteq DOMAIN Issues
  BY <1>1, <1>5, <1>6, <1>7, <1>9 DEF OnItsLine
<1>11. IsFiniteSet(line)
  BY <1>10, FS_Subset DEF CheckAssumption
<1>12. Cardinality({i} \cup {g.issue}) = 2
  <2>1. IsFiniteSet({i}) /\ Cardinality({i}) = 1
    BY FS_Singleton
  <2>2. g.issue \notin {i}
    BY <1>8
  <2>3. Cardinality({i} \cup {g.issue}) = Cardinality({i}) + 1
    BY <2>1, <2>2, FS_AddElement
  <2> QED
    BY <2>1, <2>3
<1>13. Cardinality({i} \cup {g.issue}) <= Cardinality(line)
  BY <1>10, <1>11, FS_Subset
<1>14. Cardinality(line) \in Nat
  BY <1>11, FS_CardinalityType
<1> QED
  BY <1>12, <1>13, <1>14

LEMMA FailsRightly ==
  ASSUME CheckAssumption, Typed, Decided, Settled, ~command.tests, NEW f \in findings, Fails(command, f)
  PROVE  \E w \in Worrying : Arises(w) /\ (Excused(w) => Cardinality(OnItsLine(w)) > 1)
<1> DEFINE i == f.issue
           file == Issues[i].file
           w == Identity(f)
<1>1. command.baseline => w \notin past.known
  BY FailingIs
<1>2. PICK target \in ToSet(command.targets) :
        /\ f \in FoundIn(command, target, past.first)
        /\ \A d \in DirectivesIn(past.first, target) : f \notin UsedBy(d, FoundIn(command, target, past.first))
  BY FailingIs
<1>3. /\ f.target = target /\ f.moved = past.first[file].moved
      /\ file \in Reporting(command, target) /\ i \in past.first[file].issues
      /\ target \in Issues[i].targets /\ Issues[i].rule \in Active(command, target)
  BY <1>2, FoundIs DEF Decided
<1>4. /\ w = [issue |-> i, target |-> target, moved |-> past.first[file].moved]
      /\ w.issue = i /\ w.target = target
  BY <1>3 DEF Identity
<1>5. /\ file \in DOMAIN Files /\ target \in Files[file].targets /\ Changed(command, file)
      /\ ~Files[file].generated \/ command.generated = "include"
  BY <1>3 DEF Reporting, Built
<1>6. Issues[i].rule \in Selected(command) /\ target \in Rules[Issues[i].rule].targets /\ Issues[i].rule \in DOMAIN Rules
  BY <1>3 DEF Active, Selected, Wanted
<1>7. Rank[command.failOn] \in 1 .. Rank[Severity(command, Issues[i].rule)]
  <2>1. Rank[command.failOn] \in Nat /\ Rank[Severity(command, Issues[i].rule)] \in Nat
    BY <1>6, SeverityGraded DEF Decided
  <2>2. Rank[command.failOn] # 0 /\ Rank[Severity(command, Issues[i].rule)] >= Rank[command.failOn]
    BY DEF Fails
  <2> QED
    BY <2>1, <2>2
<1>8. w \in Worrying
  <2>1. i \in UNION {past.first[g].issues : g \in DOMAIN Files}
    BY <1>3, <1>5
  <2> QED
    BY <1>4, <1>5, <1>6, <1>7, <2>1 DEF Worrying
<1>9. Arises(w)
  BY <1>3, <1>4, <1>5, <1>6 DEF Arises
<1>10. Excused(w) => Cardinality(OnItsLine(w)) > 1
  <2>1. Excused(w) => [line |-> Issues[i].line, rule |-> Issues[i].rule] \in past.first[file].ignores
    BY <1>1, <1>4 DEF Excused
  <2> QED
    BY <1>2, <2>1, SeveralOnLine DEF Decided
<1> HIDE DEF w
<1> QED
  BY <1>8, <1>9, <1>10

(* The exit code (run.go; suppression.go; baseline.go): a check of sources  *)
(* that nothing disturbs passes only if all that it finds at its threshold  *)
(* is excused, fails only if something is not or shares its ignored line,   *)
(* and passes once the report of the same check was adopted.                *)
THEOREM ChecksAreRight ==
  ASSUME CheckAssumption
  PROVE  CheckSpec => []AdoptionHolds
<1>1. Typed /\ Kept /\ Decided => AdoptionHolds
  <2> SUFFICES ASSUME Typed, Decided, past.op = "check", step = "ended", past.since = Quiet
               PROVE  /\ status = 0 => \A w \in Worrying : Arises(w) => Excused(w)
                      /\ status = 1 /\ ~command.tests =>
                           \E w \in Worrying : Arises(w) /\ (Excused(w) => Cardinality(OnItsLine(w)) > 1)
                      /\ Expected => status = 0
    BY DEF AdoptionHolds, Expected
  <2>1. Checking
    BY DEF Decided, Checks, Undisturbed
  <2>2. Expected => status = 0
    BY <2>1 DEF Checking
  <2>3. status \in {0, 1} => Settled /\ (status = 1 <=> \E f \in findings : Fails(command, f))
    BY <2>1 DEF Checking, Ended
  <2>4. ASSUME status = 0 PROVE \A w \in Worrying : Arises(w) => Excused(w)
    BY <2>3, <2>4, PassesRightly
  <2>5. ASSUME status = 1, ~command.tests
        PROVE  \E w \in Worrying : Arises(w) /\ (Excused(w) => Cardinality(OnItsLine(w)) > 1)
    BY <2>3, <2>5, FailsRightly
  <2> QED
    BY <2>2, <2>4, <2>5
<1> QED
  BY <1>1, DecidedHolds, PTL
=============================================================================
