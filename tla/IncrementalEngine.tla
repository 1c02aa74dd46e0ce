-------------------------- MODULE IncrementalEngine --------------------------
(***************************************************************************)
(* IncrementalEngine.Analyze for one workspace: goroutines analyse         *)
(* versions of it side by side.  Each call registers its version, computes *)
(* a key from the request and the files on disk, and answers from the      *)
(* cache, or loads the files again, analyses them and stores the findings  *)
(* under the key.  A call that a newer version overtook is rejected.       *)
(*                                                                         *)
(* What an analysis finds is a function of what it read, so findings are   *)
(* modelled by the inputs they depend on.                                  *)
(***************************************************************************)
EXTENDS Naturals, Sequences, SequencesExt

CONSTANTS
  Calls,         \* 1 .. n, calls of Analyze in progress
  MaxSnapshots,  \* IncrementalOptions.MaxSnapshots
  Broken,        \* texts on which an analyzer fails
  Touches,       \* bound on the changes made on disk
  TouchedMidway  \* whether the disk may change between fingerprint and load

VARIABLES
  disk,          \* the other files of the workspace
  latest,        \* engine.latest
  entries,       \* engine.entries, the least recently used first
  call           \* call -> where it is, its request and its findings

engine == <<latest, entries>>

Findings(request, files) == <<request.text, request.target, request.rules, files>>

(* incrementalKey: the schedule separates entries, too. *)
KeyOfRequest(request) == <<request, 0>>
Key(request) == <<request, disk>>

(* The place of its entry, if there is one. *)
EntryOf(key) == {i \in DOMAIN entries : entries[i].key = key}

EngineInit ==
  /\ disk = 0
  /\ latest = 0
  /\ entries = <<>>

Goes(c, at) == call' = [call EXCEPT ![c].at = at]

Overtaken(c) == call[c].version < latest

(* The context is looked at while files are read and packages analysed. *)
Observed(c) == call[c].cancelled

Enter(c) ==
  /\ call[c].at = "enter"
  /\ IF Overtaken(c)
       THEN Goes(c, "dropped") /\ UNCHANGED latest
       ELSE Goes(c, "fingerprint") /\ latest' = call[c].version
  /\ UNCHANGED <<disk, entries>>

(* incrementalKey and cached: a hit becomes the most recently used entry.  *)
Fingerprint(c) ==
  /\ call[c].at = "fingerprint"
  /\ ~Observed(c)
  /\ LET key == Key(call[c].request)
     IN  \/ /\ EntryOf(key) = {}
            /\ call' = [call EXCEPT ![c].at = "load", ![c].key = key]
            /\ UNCHANGED entries
         \/ \E i \in EntryOf(key) :
              /\ call' = [call EXCEPT ![c].at = "hit", ![c].found = entries[i].found]
              /\ entries' = Append(RemoveAt(entries, i), entries[i])
  /\ UNCHANGED <<disk, latest>>

(* LoadPackages reads the disk again. *)
Load(c) ==
  /\ call[c].at = "load"
  /\ ~Observed(c)
  /\ call' = [call EXCEPT ![c].at = "analyze",
                          ![c].found = Findings(call[c].request, disk)]
  /\ UNCHANGED <<disk, engine>>

Analyze(c) ==
  /\ call[c].at = "analyze"
  /\ ~Observed(c) /\ call[c].request.text \notin Broken
  /\ Goes(c, IF Overtaken(c) THEN "dropped" ELSE "store")
  /\ UNCHANGED <<disk, engine>>

(* A canceled context, or a failing analyzer, is an error of the call. *)
Fail(c) ==
  /\ \/ call[c].at \in {"fingerprint", "load", "analyze"} /\ Observed(c)
     \/ call[c].at = "analyze" /\ call[c].request.text \in Broken
  /\ Goes(c, "dropped")
  /\ UNCHANGED <<disk, engine>>

(* Beyond the limit the least recently used entry goes. *)
RetainedAndOne(all) == IF Len(all) > MaxSnapshots + 1 THEN Tail(all) ELSE all
Retained(all) == IF Len(all) > MaxSnapshots THEN Tail(all) ELSE all

Store(c) ==
  /\ call[c].at = "store"
  /\ LET entry == [key |-> call[c].key, found |-> call[c].found]
     IN  \/ EntryOf(entry.key) = {} /\ entries' = Retained(Append(entries, entry))
         \/ \E i \in EntryOf(entry.key) :
              entries' = Retained(Append(RemoveAt(entries, i), entry))
  /\ call' = [call EXCEPT ![c].at = "found", ![c].key = <<>>]
  /\ UNCHANGED <<disk, latest>>

Reuse(c) ==
  /\ call[c].at = "hit"
  /\ Goes(c, IF Overtaken(c) THEN "dropped" ELSE "found")
  /\ UNCHANGED <<disk, engine>>

EngineStep(c) ==
  Enter(c) \/ Fingerprint(c) \/ Load(c) \/ Analyze(c) \/ Fail(c) \/ Store(c) \/ Reuse(c)

(* Another program changes the workspace and may change it back. *)
Touch ==
  /\ disk' \in (0 .. Touches) \ {disk}
  /\ TouchedMidway \/ \A c \in Calls : call[c].at # "load"
  /\ UNCHANGED <<engine, call>>

(* incremental.go:92, "no value can cross snapshots": what is cached under *)
(* a key is what an analysis of exactly those files and that request finds.*)
CacheFaithful ==
  \A i \in DOMAIN entries :
    entries[i].found = Findings(entries[i].key[1], entries[i].key[2])
=============================================================================
