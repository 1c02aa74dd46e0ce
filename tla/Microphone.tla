----------------------------- MODULE Microphone -----------------------------
(***************************************************************************)
(* The microphone: MicrophoneService of internal/features/runtime, the     *)
(* recorder that applicationContext keeps for the game, and the callback   *)
(* slots of the native adapter.  All of it runs on the game's thread; what *)
(* makes it hard is re-entry.  The native side calls the game from the     *)
(* adapter's slots, and the game may stop or restart the recording from    *)
(* inside that call, whose result is applied after it returns.             *)
(*                                                                         *)
(* Samples are abstracted away: a delivery is the call of one recorder's   *)
(* callback.  The native side answers a permission request at once or      *)
(* later, keeps one recording callback, and drops it when it returns 0.    *)
(***************************************************************************)
EXTENDS Naturals, Sequences

CONSTANTS
  Recorders,         \* bound on the recorders a game starts
  Requests,          \* bound on the service's request numbers
  Nesting            \* bound on callbacks inside callbacks

ASSUME MicrophoneAssumption ==
  Recorders \in Nat /\ Requests \in Nat /\ Nesting \in Nat

VARIABLES
  permission,   \* MicrophoneService.permission
  requestID,    \* MicrophoneService.requestID
  active,       \* MicrophoneService.active, or None
  opened,       \* recorders started so far
  closed,       \* recorders whose `closed` is set
  recorder,     \* applicationContext.microphoneRecorder, or None
  asked,        \* a permission dialog is up
  permissionCallback,  \* the adapter's slot: a request number, or None
  recordingCallback,   \* the adapter's slot: a recorder, or None
  native,       \* the native side has the adapter's recording callback
  stack,        \* game callbacks in progress, the innermost first
  terminated,   \* the game has been terminated
  latest,       \* history: the game's latest permission request
  answered,     \* history: the requests whose answer the game was given
  restarted,    \* history: a recorder was started inside a sample callback
  deniedAtOnce  \* history: a request was denied before it returned

services == <<permission, requestID, active, opened, closed>>
adapter  == <<asked, permissionCallback, recordingCallback, native>>
history == <<latest, answered, restarted, deniedAtOnce>>
vars == <<services, adapter, recorder, stack, terminated, history>>

None == 0
Ids == 1 .. Recorders

Frame(kind, id) == [kind |-> kind, id |-> id]
InSamples == stack # <<>> /\ Head(stack).kind = "samples"
InsideSamples == \E i \in DOMAIN stack : stack[i].kind = "samples"

Init ==
  /\ permission = "pending"
  /\ requestID = 0
  /\ active = None
  /\ opened = 0
  /\ closed = {}
  /\ recorder = None
  /\ asked = FALSE
  /\ permissionCallback = None
  /\ recordingCallback = None
  /\ native = FALSE
  /\ stack = <<>>
  /\ terminated = FALSE
  /\ latest = None
  /\ answered = {}
  /\ restarted = FALSE
  /\ deniedAtOnce = FALSE

(* Game code runs between callbacks and inside them. *)
MayCall == ~terminated

-----------------------------------------------------------------------------
(* stopActive, with what the adapter's Stop does. *)

StopActive ==
  IF active = None
    THEN UNCHANGED <<active, closed, recordingCallback, native>>
    ELSE /\ active' = None
         /\ closed' = closed \cup {active}
         /\ recordingCallback' = None
         /\ native' = FALSE

DenyOnly ==
  /\ permission' = "denied"
  /\ UNCHANGED <<active, closed, recordingCallback, native>>
Deny ==
  /\ permission' = "denied"
  /\ StopActive

-----------------------------------------------------------------------------
(* RequestMicrophoneAccess. *)

RequestPendingNotified ==
  /\ permission' = "pending"
  /\ requestID' = requestID + 1
  /\ asked' = TRUE
  /\ stack' = <<Frame("permission", requestID + 1)>> \o stack
  /\ UNCHANGED <<answered, deniedAtOnce>>
RequestPending ==
  /\ permission' = "pending"
  /\ requestID' = requestID + 1
  /\ asked' = TRUE
  /\ UNCHANGED <<stack, answered, deniedAtOnce>>

(* An immediate answer invalidates the request that is in the slot. *)
RequestAnswered(answer) ==
  /\ Len(stack) < Nesting
  /\ permission' = answer
  /\ requestID' = requestID + 2
  /\ stack' = <<Frame("permission", requestID + 1)>> \o stack
  /\ answered' = answered \cup {requestID + 1}
  /\ deniedAtOnce' = (deniedAtOnce \/ answer = "denied")
  /\ UNCHANGED asked

RequestAccess ==
  /\ MayCall
  /\ requestID < Requests
  /\ latest' = requestID + 1
  /\ permissionCallback' = requestID + 1
  /\ RequestPending \/ \E answer \in {"granted", "denied"} : RequestAnswered(answer)
  /\ UNCHANGED <<active, opened, closed, recorder, recordingCallback, native, terminated,
                 restarted>>

AnyRequest(id) == id # None
IsLatest(id) == id # None /\ id = requestID

(* The dialog's answer arrives; goMicrophonePermission empties the slot.   *)
Answer(allowed) ==
  /\ asked
  /\ stack = <<>>
  /\ asked' = FALSE
  /\ permissionCallback' = None
  /\ IF IsLatest(permissionCallback)
       THEN /\ stack' = <<Frame("permission", permissionCallback)>>
            /\ answered' = answered \cup {permissionCallback}
            /\ IF allowed
                 THEN /\ permission' = "granted"
                      /\ UNCHANGED <<active, closed, recordingCallback, native>>
                 ELSE Deny
       ELSE UNCHANGED <<permission, active, closed, recordingCallback, native, stack, answered>>
  /\ UNCHANGED <<requestID, opened, recorder, terminated, latest, restarted, deniedAtOnce>>

-----------------------------------------------------------------------------
(* StartMicrophoneRecording. *)

StartRefused ==
  /\ permission = "denied"
  /\ UNCHANGED <<services, recordingCallback, native>>
  /\ recorder' = None

(* The context closes the recorder it knows, the service the active one.   *)
Closing == IF active = None THEN {} ELSE {active}

StartSucceeds ==
  /\ opened' = opened + 1
  /\ active' = opened'
  /\ closed' = closed \cup Closing
  /\ recordingCallback' = opened'
  /\ native' = TRUE
  /\ recorder' = opened'
  /\ UNCHANGED <<permission, requestID>>

StartFails ==
  /\ opened' = opened + 1
  /\ active' = None
  /\ closed' = closed \cup Closing \cup {opened'}
  /\ recordingCallback' = None
  /\ native' = FALSE
  /\ recorder' = None
  /\ UNCHANGED <<permission, requestID>>

(* The context closes its recorder before the service looks at anything.   *)
ClosesFirst == recorder # None /\ recorder \notin closed

StartRecording ==
  /\ MayCall
  /\ opened < Recorders
  /\ restarted' = (restarted \/ InsideSamples)
  /\ \/ permission # "denied" /\ (StartSucceeds \/ StartFails)
     \/ ~ClosesFirst /\ StartRefused
     \/ /\ ClosesFirst
        /\ permission = "denied"
        /\ StopActive
        /\ recorder' = None
        /\ UNCHANGED <<permission, requestID, opened>>
  /\ UNCHANGED <<asked, permissionCallback, stack, terminated, latest, answered, deniedAtOnce>>

(* Stop and Close of a recorder the game holds. *)
Stop(r) ==
  /\ MayCall
  /\ r <= opened
  /\ r \notin closed
  /\ StopActive
  /\ UNCHANGED <<permission, requestID, opened, recorder, asked, permissionCallback,
                 stack, terminated, history>>

-----------------------------------------------------------------------------
(* The native side delivers samples: goMicrophoneSamples. *)

Delivers(r) == r # None /\ r \notin closed /\ active = r

Samples ==
  /\ native
  /\ stack = <<>>
  /\ IF Delivers(recordingCallback) /\ ~terminated
       THEN /\ stack' = <<Frame("samples", recordingCallback)>>
            /\ UNCHANGED <<recordingCallback, native>>
       ELSE /\ recordingCallback' = None
            /\ native' = FALSE
            /\ UNCHANGED stack
  /\ UNCHANGED <<services, recorder, asked, permissionCallback, terminated, history>>

(* The game's callback returns whether to go on.                           *)
ReturnKeep ==
  /\ InSamples
  /\ UNCHANGED <<active, closed, recordingCallback, native>>

(* Returning FALSE closes the recorder, forgets the active one, and the    *)
(* adapter and the native side drop what callback they have.               *)
ReturnStopKeepsActive ==
  /\ InSamples
  /\ recordingCallback' = None
  /\ native' = FALSE
  /\ UNCHANGED <<active, closed>>
ReturnStop ==
  /\ InSamples
  /\ closed' = closed \cup {Head(stack).id}
  /\ active' = None
  /\ recordingCallback' = None
  /\ native' = FALSE

ReturnSamples ==
  /\ ReturnKeep \/ ReturnStop
  /\ stack' = Tail(stack)
  /\ UNCHANGED <<permission, requestID, opened, recorder, asked, permissionCallback,
                 terminated, history>>

ReturnPermission ==
  /\ stack # <<>>
  /\ Head(stack).kind = "permission"
  /\ stack' = Tail(stack)
  /\ UNCHANGED <<services, adapter, recorder, terminated, history>>

(* LifecycleTerminate: the context closes its recorder, CloseMicrophone    *)
(* invalidates the request, stops the active one and empties the slots.    *)
Invalidated == requestID + 1

Terminate ==
  /\ ~terminated
  /\ stack = <<>>
  /\ terminated' = TRUE
  /\ recorder' = None
  /\ active' = None
  /\ closed' = closed \cup Closing
  /\ native' = (native /\ active = None)
  /\ requestID' = Invalidated
  /\ permissionCallback' = None
  /\ recordingCallback' = None
  /\ UNCHANGED <<permission, opened, asked, stack, history>>

Next ==
  \/ RequestAccess
  \/ \E allowed \in BOOLEAN : Answer(allowed)
  \/ StartRecording
  \/ \E r \in Ids : Stop(r)
  \/ Samples
  \/ ReturnSamples
  \/ ReturnPermission
  \/ Terminate

Spec == Init /\ [][Next]_vars

-----------------------------------------------------------------------------
TypeOK ==
  /\ permission \in {"pending", "granted", "denied"}
  /\ requestID \in 0 .. Requests + 2
  /\ active \in Ids \cup {None}
  /\ opened \in 0 .. Recorders
  /\ closed \in SUBSET Ids
  /\ recorder \in Ids \cup {None}
  /\ asked \in BOOLEAN
  /\ permissionCallback \in 0 .. Requests
  /\ recordingCallback \in Ids \cup {None}
  /\ native \in BOOLEAN
  /\ stack \in Seq([kind : {"samples", "permission"}, id : Nat])
  /\ Len(stack) <= Nesting + 1
  /\ terminated \in BOOLEAN
  /\ latest \in 0 .. Requests
  /\ answered \in SUBSET (1 .. Requests)
  /\ restarted \in BOOLEAN
  /\ deniedAtOnce \in BOOLEAN

(* playdate/audio.go:210, "MicrophoneRecorder owns the currently installed *)
(* native recording callback": a recorder that is still open is the active *)
(* one and the one both slots deliver to, so Stop stops its own recording. *)
OpenRecorderOwnsCallback ==
  \A r \in 1 .. opened :
    r \notin closed => active = r /\ recordingCallback = r /\ native

(* The service never believes in a recorder that it has closed or that the *)
(* native side does not call; and in a game that does not start a recorder *)
(* inside a sample callback, stops, failed starts, denials and a           *)
(* callback's FALSE leave no open recorder behind.                         *)
ActiveIsInstalled ==
  active # None => active \notin closed /\ recordingCallback = active /\ native
RecordersAgree == ActiveIsInstalled /\ (~restarted => OpenRecorderOwnsCallback)

(* playdate/audio.go:217, recording is "permission-gated": after a denial  *)
(* that arrives later than its request nothing is being recorded.  (A      *)
(* denial that arrives at once leaves a running recording alone,           *)
(* microphone.go:44.)                                                      *)
DeniedMeansSilent == permission = "denied" /\ ~deniedAtOnce => active = None

(* A recorder that is open is the one that samples go to, and after a      *)
(* denial nothing is recorded (playdate/audio.go:210 and 217).             *)
RecordingAsPermitted == RecordersAgree /\ DeniedMeansSilent

(* A permission answer reaches the game once, and only for its latest      *)
(* request (microphone.go:32): a dialog that a newer request, an immediate *)
(* answer or the termination has overtaken is not reported.                *)
PermissionStarts == Len(stack') > Len(stack) /\ Head(stack').kind = "permission"

AnswersLatestRequest ==
  [][PermissionStarts =>
       Head(stack').id = latest' /\ latest' \notin answered /\ ~terminated]_vars
=============================================================================
