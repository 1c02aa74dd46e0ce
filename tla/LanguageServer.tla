---------------------------- MODULE LanguageServer ----------------------------
(***************************************************************************)
(* `gopdsdk lsp` with one workspace folder and one document.  The editor's *)
(* notifications arrive one after another; each change of the document     *)
(* starts a goroutine that takes the next version of the workspace, copies *)
(* the open document, asks the engine for every target and publishes.      *)
(* Diagnostics are stored under the lock and sent after it, so the editor  *)
(* is told to ask again (`refresh`), and asks in a request of its own.     *)
(***************************************************************************)
EXTENDS IncrementalEngine

CONSTANTS
  Edits,     \* bound on the editor's notifications of the document
  Targets,   \* number of targets of an analysis
  Settings,  \* analysis settings that an editor chooses
  Default,   \* those of a folder that is added
  Others     \* bound on everything else that happens around the server

VARIABLES
  edits,      \* notifications of the document so far; they number its texts
  docs,       \* the open document's text, 0 when it is closed
  rules,      \* workspace.Rules and the other settings
  open,       \* server.roots has the workspace
  version,    \* workspace.Version
  current,    \* the call that workspace.Cancel cancels, or None
  stored,     \* workspace.Diagnostics, with the version they are of
  closed,     \* shutdown was requested
  due,        \* the editor was told to refresh
  pulled,     \* what the request of the editor was answered
  used,       \* the versions that the workspace had before it was removed
  others      \* events other than those of the document so far

workspace == <<open, version, current, stored, used>>
editor == <<due, pulled>>
server == <<disk, engine, call, edits, docs, rules, workspace, closed, editor, others>>

None == 0

(* The goroutines have numbers, the cache holds a snapshot at least        *)
(* (incremental.go:105), and an analysis has a target and settings.        *)
ServerSizes ==
  /\ IsFiniteSet(Calls) /\ Calls = 1 .. Cardinality(Calls)
  /\ MaxSnapshots \in Nat \ {0} /\ Targets \in Nat \ {0}
  /\ Touches \in Nat /\ Edits \in Nat /\ Others \in Nat
  /\ Default \in Settings

Nothing == [version |-> 0, found |-> <<>>]
Idle == [at |-> "idle", version |-> 0, cancelled |-> FALSE,
         request |-> [text |-> 0, target |-> 1, rules |-> Default, schedule |-> "edit"],
         key |-> <<>>, found |-> <<>>, all |-> <<>>]

ServerInit ==
  /\ EngineInit
  /\ call = [c \in Calls |-> Idle]
  /\ edits = 0 /\ docs = 0
  /\ rules = Default
  /\ open = TRUE /\ version = 0 /\ current = None
  /\ stored = Nothing
  /\ closed = FALSE
  /\ due = FALSE /\ pulled = Nothing
  /\ used = 0 /\ others = 0

(* didOpen and didChange put a new text, didSave the same one again,       *)
(* didClose none.  Nothing is analysed when no folder holds the document.  *)
ChangeDocument ==
  /\ edits < Edits
  /\ edits' = edits + 1
  /\ docs' \in {edits', docs, 0}
  /\ docs' = docs => docs # 0
  /\ \E c \in Calls :
       /\ call[c].at = "idle" /\ \A d \in 1 .. c - 1 : call[d].at # "idle"
       /\ call' = IF open
                    THEN [call EXCEPT ![c].at = "spawned",
                                      ![c].request.schedule = IF docs' = docs THEN "save" ELSE "edit"]
                    ELSE call
  /\ UNCHANGED <<disk, engine, rules, workspace, closed, editor>>

(* didChangeConfiguration refreshes and analyses nothing. *)
ChangeConfiguration ==
  /\ rules' \in IF open THEN Settings \ {rules} ELSE {rules}
  /\ due' = TRUE
  /\ UNCHANGED <<disk, engine, call, edits, docs, workspace, closed, pulled>>

(* changeRoots: the running analyses of a removed folder go on. *)
RemoveFolder ==
  /\ open
  /\ open' = FALSE
  /\ version' = 0 /\ current' = None /\ stored' = Nothing
  /\ used' = IF version > used THEN version ELSE used
  /\ UNCHANGED <<disk, engine, call, edits, docs, rules, closed, editor>>

(* A folder that is added later gets the default settings. *)
AddFolder ==
  /\ ~open
  /\ open' = TRUE
  /\ rules' = Default
  /\ UNCHANGED <<disk, engine, call, edits, docs, version, current, stored, used, closed,
                 editor>>

Shutdown ==
  /\ ~closed
  /\ closed' = TRUE
  /\ call' = [c \in Calls |-> IF c = current THEN [call[c] EXCEPT !.cancelled = TRUE] ELSE call[c]]
  /\ UNCHANGED <<disk, engine, edits, docs, rules, workspace, editor>>

-----------------------------------------------------------------------------
(* analyze *)

Abandon(c) ==
  /\ call[c].at = "spawned" /\ ~open
  /\ call' = [call EXCEPT ![c] = Idle]
  /\ UNCHANGED <<disk, engine, edits, docs, rules, workspace, closed, editor>>

Begin(c) ==
  /\ call[c].at = "spawned" /\ open
  /\ version' = version + 1
  /\ current' = c
  /\ call' = [d \in Calls |->
       CASE d = c -> [call[c] EXCEPT
                        !.at = "enter", !.version = version + 1,
                        !.request.text = docs, !.request.rules = rules]
         [] d = current /\ d # c -> [call[d] EXCEPT !.cancelled = TRUE]
         [] OTHER -> call[d]]
  /\ UNCHANGED <<disk, engine, edits, docs, rules, open, stored, used, closed, editor>>

Collect(c) ==
  /\ call[c].at = "found"
  /\ LET last == call[c].request.target = Targets
     IN  call' = [call EXCEPT ![c].all = Append(@, call[c].found), ![c].found = <<>>,
                              ![c].at = IF last THEN "publish" ELSE "enter",
                              ![c].request.target = IF last THEN @ ELSE @ + 1]
  /\ UNCHANGED <<disk, engine, edits, docs, rules, workspace, closed, editor>>

(* workspace.Cancel stays set, but cancels nothing once the call has ended. *)
GiveUp(c) ==
  /\ call[c].at = "dropped"
  /\ call' = [call EXCEPT ![c] = Idle]
  /\ current' = IF current = c THEN None ELSE current
  /\ UNCHANGED <<disk, engine, edits, docs, rules, open, version, stored, used, closed, editor>>

-----------------------------------------------------------------------------
(* publish *)

OpenOnly(c) == open
Accepted(c) == open /\ call[c].version = version

Publish(c) ==
  /\ call[c].at = "publish"
  /\ IF Accepted(c)
       THEN /\ stored' = [version |-> call[c].version, found |-> call[c].all]
            /\ current' = None
            /\ Goes(c, "refresh")
       ELSE /\ call' = [call EXCEPT ![c] = Idle]
            /\ current' = IF current = c THEN None ELSE current
            /\ UNCHANGED stored
  /\ UNCHANGED <<disk, engine, edits, docs, rules, open, version, used, closed, editor>>

Refresh(c) ==
  /\ call[c].at = "refresh"
  /\ due' = TRUE
  /\ call' = [call EXCEPT ![c] = Idle]
  /\ UNCHANGED <<disk, engine, edits, docs, rules, workspace, closed, pulled>>

-----------------------------------------------------------------------------
(* The editor's request of the diagnostics. *)

PullDiagnostics ==
  /\ due
  /\ due' = FALSE
  /\ pulled' = stored
  /\ UNCHANGED <<disk, engine, call, edits, docs, rules, workspace, closed, others>>

-----------------------------------------------------------------------------
Outside == UNCHANGED <<edits, docs, rules, workspace, closed, editor>>

Other == ChangeConfiguration \/ RemoveFolder \/ Shutdown \/ (Touch /\ Outside)

Work(c) ==
  /\ UNCHANGED others
  /\ \/ EngineStep(c) /\ Outside
     \/ Begin(c) \/ Abandon(c) \/ Collect(c) \/ GiveUp(c) \/ Publish(c) \/ Refresh(c)

ServerNext ==
  \/ (ChangeDocument \/ AddFolder) /\ UNCHANGED others
  \/ Other /\ others < Others /\ others' = others + 1
  \/ \E c \in Calls : Work(c)
  \/ PullDiagnostics

(* Goroutines are scheduled, and an editor that was told to refresh asks.  *)
ServerFairness == /\ \A c \in Calls : WF_server(Work(c))
            /\ WF_server(PullDiagnostics)

ServerSpec == ServerInit /\ [][ServerNext]_server /\ ServerFairness

-----------------------------------------------------------------------------
Places == {"idle", "spawned", "enter", "fingerprint", "load", "analyze", "hit", "store",
           "found", "dropped", "publish", "refresh"}

Requests ==
  [text : 0 .. Edits, target : 1 .. Targets, rules : Settings, schedule : {"edit", "save"}]
CacheKeys == Requests \X (0 .. Touches)
Found == (0 .. Edits) \X (1 .. Targets) \X Settings \X (0 .. Touches)
CallStates ==
  [at : Places, version : 0 .. Edits, cancelled : BOOLEAN, request : Requests,
   key : CacheKeys \cup {<<>>}, found : Found \cup {<<>>}, all : Seq(Found)]

ServerTypeOK ==
  /\ disk \in 0 .. Touches
  /\ latest \in 0 .. Edits
  /\ entries \in Seq([key : CacheKeys, found : Found])
  /\ Len(entries) <= MaxSnapshots
  /\ \A i, j \in DOMAIN entries : entries[i].key = entries[j].key => i = j
  /\ call \in [Calls -> CallStates]
  /\ \A c \in Calls : Len(call[c].all) <= Targets
  /\ edits \in 0 .. Edits /\ docs \in 0 .. edits
  /\ rules \in Settings
  /\ open \in BOOLEAN /\ version \in 0 .. edits /\ current \in Calls \cup {None}
  /\ stored \in [version : 0 .. version, found : Seq(Found)]
  /\ closed \in BOOLEAN /\ due \in BOOLEAN
  /\ pulled \in [version : 0 .. Edits, found : Seq(Found)]
  /\ used \in 0 .. edits /\ others \in 0 .. Others

(* incremental.go:72, "Callers must not publish its diagnostics": stored   *)
(* diagnostics are only replaced by those of a later analysis, once the    *)
(* folder has versions that the engine did not see before its removal.     *)
NeverOlder ==
  [][open /\ open' /\ stored' # stored /\ version > used
       => stored'.version > stored.version]_server

Shows(text) ==
  /\ Len(stored.found) = Targets
  /\ \A i \in 1 .. Targets : stored.found[i][1] = text /\ stored.found[i][2] = i

Analysable == open /\ ~closed /\ docs \notin Broken

(* When the editor rests, the diagnostics of its last text are stored for  *)
(* every target, and an editor that asks after a refresh has them.  The    *)
(* first holds once a folder has versions that were not used before.       *)
Settles ==
  /\ <>[](Analysable /\ version > used => Shows(docs))
  /\ <>[](open /\ stored # Nothing => pulled = stored)

(* API.md:296, "dynamic multi-root workspaces": the last text is analysed  *)
(* also in a folder that was removed and added again.                      *)
EditsAreAnalysed == <>[](Analysable /\ version > 0 => Shows(docs))
=============================================================================
