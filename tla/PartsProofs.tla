----------------------------- MODULE PartsProofs -----------------------------
(***************************************************************************)
(* Proofs about the parts that MCParts runs side by side: the microphone,  *)
(* the scoreboards, an application, the store and the bounded queues.      *)
(* They share no variable, and each proof is of its own component.         *)
(***************************************************************************)
EXTENDS Microphone, Scoreboards, Application, Store, BoundedQueue, Integers, FiniteSetTheorems, SequenceTheorems, TLAPS

-----------------------------------------------------------------------------
(***************************************************************************)
(* Proofs about the microphone, for every number of recorders, of requests *)
(* and of nested callbacks.                                                *)
(*                                                                         *)
(* What the game does inside a callback is what the invariant is about: a  *)
(* sample callback in progress belongs to the active recorder or to one    *)
(* that was closed meanwhile, unless the game started another inside it,   *)
(* so the FALSE that it returns closes the right one; and the request in   *)
(* the adapter's slot is the game's latest and unanswered, or its number   *)
(* is no longer the service's.                                             *)
(***************************************************************************)
Frames == [kind : {"samples", "permission"}, id : Nat]

RecordersCounted ==
  /\ closed \subseteq 1 .. opened
  /\ active # None => active \in 1 .. opened
  /\ \A i \in DOMAIN stack : stack[i].kind = "samples" => stack[i].id \in 1 .. opened

FramesAreOfActive ==
  ~restarted => \A i \in DOMAIN stack :
                  stack[i].kind = "samples" => active \in {None, stack[i].id}

OpenIsActive == ~restarted => \A r \in 1 .. opened : r \notin closed => active = r

TerminatedIsSilent == terminated => active = None

RequestsCounted ==
  /\ ~terminated => requestID <= Requests + 1
  /\ answered \subseteq 1 .. requestID

SlotIsLatest ==
  IsLatest(permissionCallback) =>
    /\ permissionCallback = latest
    /\ latest \notin answered
    /\ ~terminated

MicInv ==
  /\ TypeOK
  /\ RecordersCounted
  /\ ActiveIsInstalled
  /\ FramesAreOfActive
  /\ OpenIsActive
  /\ TerminatedIsSilent
  /\ DeniedMeansSilent
  /\ RequestsCounted
  /\ SlotIsLatest

-----------------------------------------------------------------------------
(* The stack of callbacks. *)

LEMMA Called ==
  ASSUME NEW s \in Seq(Frames), NEW f \in Frames
  PROVE  /\ <<f>> \o s \in Seq(Frames)
         /\ Len(<<f>> \o s) = Len(s) + 1
         /\ Head(<<f>> \o s) = f
         /\ \A i \in DOMAIN (<<f>> \o s) :
              \/ (<<f>> \o s)[i] = f
              \/ \E j \in DOMAIN s : (<<f>> \o s)[i] = s[j]
OBVIOUS

LEMMA Returned ==
  ASSUME NEW s \in Seq(Frames), s # <<>>
  PROVE  /\ Tail(s) \in Seq(Frames)
         /\ Len(Tail(s)) = Len(s) - 1
         /\ Len(s) \in Nat
         /\ 1 \in DOMAIN s /\ Head(s) = s[1]
         /\ \A i \in DOMAIN Tail(s) : \E j \in DOMAIN s : Tail(s)[i] = s[j]
OBVIOUS

LEMMA NothingRuns ==
  /\ <<>> \in Seq(Frames) /\ Len(<<>>) = 0 /\ DOMAIN <<>> = {}
  /\ \A f \in Frames : /\ <<f>> \in Seq(Frames)
                       /\ Len(<<f>>) = 1 /\ Head(<<f>>) = f
                       /\ \A i \in DOMAIN <<f>> : <<f>>[i] = f
OBVIOUS

(* What stopActive leaves. *)
LEMMA MicStopped ==
  ASSUME MicInv, StopActive
  PROVE  /\ active' = None
         /\ closed' = closed \cup Closing
         /\ closed' \subseteq 1 .. opened /\ closed' \in SUBSET Ids
         /\ recordingCallback' \in Ids \cup {None}
         /\ native' \in BOOLEAN
BY DEF MicInv, TypeOK, RecordersCounted, StopActive, Closing, Ids

(* With all that was open closed, nothing is left to disagree about.       *)
LEMMA ClosedAgrees ==
  ASSUME MicInv, active' = None, closed \cup Closing \subseteq closed',
         closed' \subseteq 1 .. opened', opened' \in {opened, opened + 1},
         opened' = opened + 1 => opened' \in closed',
         restarted => restarted'
  PROVE  /\ ActiveIsInstalled' /\ OpenIsActive' /\ TerminatedIsSilent' /\ DeniedMeansSilent'
         /\ FramesAreOfActive'
<1>1. ~restarted' => \A r \in 1 .. opened' : r \in closed'
  <2> SUFFICES ASSUME ~restarted', NEW r \in 1 .. opened', r \notin closed'
               PROVE  FALSE
    OBVIOUS
  <2>1. r \in 1 .. opened
    BY DEF MicInv, TypeOK
  <2>2. active = r
    BY <2>1 DEF MicInv, OpenIsActive
  <2>3. r # None
    BY <2>1 DEF None
  <2> QED
    BY <2>2, <2>3 DEF Closing
<1> QED
  BY <1>1 DEF ActiveIsInstalled, OpenIsActive, TerminatedIsSilent, DeniedMeansSilent,
              FramesAreOfActive

-----------------------------------------------------------------------------
(* One lemma for every action. *)

LEMMA RequestAccessKept == ASSUME MicInv, RequestAccess PROVE MicInv'
<1>1. /\ ~terminated /\ requestID < Requests
      /\ latest' = requestID + 1 /\ permissionCallback' = requestID + 1
      /\ UNCHANGED <<active, opened, closed, recorder, recordingCallback, native, terminated,
                     restarted>>
  BY DEF RequestAccess, MayCall
<1>2. requestID \in Nat /\ requestID + 1 \in 1 .. Requests /\ Requests \in Nat
  BY <1>1, MicrophoneAssumption DEF MicInv, TypeOK
<1>3. CASE RequestPending
  <2>1. /\ permission' = "pending" /\ requestID' = requestID + 1 /\ asked' = TRUE
        /\ UNCHANGED <<stack, answered, deniedAtOnce>>
    BY <1>3 DEF RequestPending
  <2>2. TypeOK'
    BY <1>1, <1>2, <2>1 DEF MicInv, TypeOK
  <2>3. RequestsCounted' /\ SlotIsLatest'
    BY <1>1, <1>2, <2>1 DEF MicInv, RequestsCounted, SlotIsLatest, IsLatest
  <2> QED
    BY <1>1, <2>1, <2>2, <2>3
       DEF MicInv, RecordersCounted, ActiveIsInstalled, FramesAreOfActive, OpenIsActive,
           TerminatedIsSilent, DeniedMeansSilent
<1>4. ASSUME NEW answer \in {"granted", "denied"}, RequestAnswered(answer) PROVE MicInv'
  <2>1. /\ Len(stack) < Nesting
        /\ permission' = answer /\ requestID' = requestID + 2
        /\ stack' = <<Frame("permission", requestID + 1)>> \o stack
        /\ answered' = answered \cup {requestID + 1}
        /\ deniedAtOnce' = (deniedAtOnce \/ answer = "denied")
        /\ UNCHANGED asked
    BY <1>4 DEF RequestAnswered
  <2>2. Frame("permission", requestID + 1) \in Frames /\ stack \in Seq(Frames)
    BY <1>2 DEF MicInv, TypeOK, Frame, Frames
  <2>3. /\ stack' \in Seq(Frames) /\ Len(stack') = Len(stack) + 1
        /\ \A i \in DOMAIN stack' : \/ stack'[i].kind = "permission"
                                    \/ \E j \in DOMAIN stack : stack'[i] = stack[j]
    BY <2>1, <2>2, Called DEF Frame
  <2>4. TypeOK'
    <3>1. Len(stack') <= Nesting + 1
      BY <2>1, <2>2, <2>3, MicrophoneAssumption
    <3>2. permissionCallback' \in 0 .. Requests /\ requestID' \in 0 .. Requests + 2
          /\ latest' \in 0 .. Requests /\ answered' \in SUBSET (1 .. Requests)
      BY <1>1, <1>2, <2>1 DEF MicInv, TypeOK
    <3> QED
      BY <1>1, <2>1, <2>3, <3>1, <3>2 DEF MicInv, TypeOK, Frames
  <2>5. RequestsCounted' /\ SlotIsLatest'
    BY <1>1, <1>2, <2>1 DEF MicInv, RequestsCounted, SlotIsLatest, IsLatest
  <2>6. RecordersCounted' /\ FramesAreOfActive'
    BY <1>1, <2>3 DEF MicInv, RecordersCounted, FramesAreOfActive
  <2>7. DeniedMeansSilent'
    BY <1>1, <2>1 DEF DeniedMeansSilent
  <2> QED
    BY <1>1, <2>4, <2>5, <2>6, <2>7
       DEF MicInv, ActiveIsInstalled, OpenIsActive, TerminatedIsSilent
<1> QED
  BY <1>3, <1>4 DEF RequestAccess

LEMMA AnswerKept == ASSUME MicInv, NEW allowed \in BOOLEAN, Answer(allowed) PROVE MicInv'
<1>1. /\ stack = <<>> /\ asked' = FALSE /\ permissionCallback' = None
      /\ UNCHANGED <<requestID, opened, recorder, terminated, latest, restarted, deniedAtOnce>>
  BY DEF Answer
<1>2. /\ SlotIsLatest'
      /\ permissionCallback' \in 0 .. Requests
      /\ Nesting \in Nat
  BY <1>1, MicrophoneAssumption DEF SlotIsLatest, IsLatest, None
<1>3. CASE ~IsLatest(permissionCallback)
  <2>1. UNCHANGED <<permission, active, closed, recordingCallback, native, stack, answered>>
    BY <1>3 DEF Answer
  <2>2. TypeOK'
    BY <1>1, <1>2, <2>1 DEF MicInv, TypeOK
  <2> QED
    BY <1>1, <1>2, <2>1, <2>2
       DEF MicInv, RecordersCounted, ActiveIsInstalled, FramesAreOfActive, OpenIsActive,
           TerminatedIsSilent, DeniedMeansSilent, RequestsCounted
<1>4. CASE IsLatest(permissionCallback)
  <2>1. /\ stack' = <<Frame("permission", permissionCallback)>>
        /\ answered' = answered \cup {permissionCallback}
    BY <1>4 DEF Answer
  <2>2. permissionCallback \in 1 .. requestID /\ permissionCallback \in 1 .. Requests
    BY <1>4 DEF IsLatest, MicInv, TypeOK, None
  <2>3. /\ Frame("permission", permissionCallback) \in Frames
        /\ Frame("permission", permissionCallback).kind = "permission"
    BY <2>2 DEF Frame, Frames
  <2>4. /\ stack' \in Seq(Frames) /\ Len(stack') = 1
        /\ \A i \in DOMAIN stack' : stack'[i].kind = "permission"
    BY <2>1, <2>3, NothingRuns
  <2>5. Len(stack') <= Nesting + 1
    BY <1>2, <2>4
  <2>6. RequestsCounted' /\ answered' \in SUBSET (1 .. Requests)
    BY <1>1, <2>1, <2>2 DEF MicInv, RequestsCounted, TypeOK
  <2>7. CASE allowed
    <3>1. permission' = "granted" /\ UNCHANGED <<active, closed, recordingCallback, native>>
      BY <1>4, <2>7 DEF Answer
    <3>2. TypeOK'
      BY <1>1, <1>2, <2>4, <2>6, <2>5, <3>1 DEF MicInv, TypeOK, Frames
    <3> QED
      BY <1>1, <1>2, <2>4, <2>6, <3>1, <3>2
         DEF MicInv, RecordersCounted, ActiveIsInstalled, FramesAreOfActive, OpenIsActive,
             TerminatedIsSilent, DeniedMeansSilent
  <2>8. CASE ~allowed
    <3>1. permission' = "denied" /\ StopActive
      BY <1>4, <2>8 DEF Answer, Deny
    <3>2. /\ active' = None /\ closed' = closed \cup Closing
          /\ closed' \subseteq 1 .. opened /\ closed' \in SUBSET Ids
          /\ recordingCallback' \in Ids \cup {None} /\ native' \in BOOLEAN
      BY <3>1, MicStopped
    <3>3. TypeOK'
      BY <1>1, <1>2, <2>4, <2>6, <2>5, <3>1, <3>2 DEF MicInv, TypeOK, Frames
    <3>4. RecordersCounted'
      BY <1>1, <2>4, <3>2 DEF RecordersCounted
    <3>5. opened' # opened + 1
      BY <1>1 DEF MicInv, TypeOK
    <3> QED
      BY <1>1, <1>2, <2>6, <3>2, <3>3, <3>4, <3>5, ClosedAgrees DEF MicInv
  <2> QED
    BY <2>7, <2>8
<1> QED
  BY <1>3, <1>4

LEMMA StartRecordingKept == ASSUME MicInv, StartRecording PROVE MicInv'
<1>1. /\ ~terminated /\ opened < Recorders
      /\ restarted' = (restarted \/ InsideSamples)
      /\ UNCHANGED <<asked, permissionCallback, stack, terminated, latest, answered,
                     deniedAtOnce>>
  BY DEF StartRecording, MayCall
<1>2. /\ opened \in Nat /\ opened + 1 \in Ids /\ opened + 1 \in 0 .. Recorders
      /\ restarted' \in BOOLEAN
  BY <1>1, MicrophoneAssumption DEF MicInv, TypeOK, Ids, InsideSamples
<1>3. ~restarted' => ~restarted /\ \A i \in DOMAIN stack : stack[i].kind # "samples"
  BY <1>1 DEF InsideSamples
<1>4. requestID' = requestID => RequestsCounted' /\ SlotIsLatest'
  BY <1>1 DEF MicInv, RequestsCounted, SlotIsLatest, IsLatest
<1>5. CASE permission # "denied" /\ StartSucceeds
  <2>1. /\ opened' = opened + 1 /\ active' = opened + 1 /\ closed' = closed \cup Closing
        /\ recordingCallback' = opened + 1 /\ native' = TRUE /\ recorder' = opened + 1
        /\ UNCHANGED <<permission, requestID>>
    BY <1>5 DEF StartSucceeds
  <2>2. closed' \subseteq 1 .. opened /\ closed' \in SUBSET Ids
    BY <2>1 DEF MicInv, TypeOK, RecordersCounted, Closing, Ids
  <2>3. TypeOK'
    BY <1>1, <1>2, <2>1, <2>2 DEF MicInv, TypeOK
  <2>4. RecordersCounted'
    BY <1>1, <1>2, <2>1, <2>2 DEF MicInv, RecordersCounted
  <2>5. ActiveIsInstalled'
    BY <1>2, <2>1, <2>2 DEF ActiveIsInstalled
  <2>6. FramesAreOfActive'
    BY <1>1, <1>3 DEF FramesAreOfActive
  <2>7. OpenIsActive'
    <3> SUFFICES ASSUME ~restarted', NEW r \in 1 .. opened', r \notin closed'
                 PROVE  r = opened + 1
      BY <2>1 DEF OpenIsActive
    <3>1. CASE r \in 1 .. opened
      <4>1. active = r /\ r # None
        BY <1>3, <2>1, <3>1 DEF MicInv, OpenIsActive, None
      <4> QED
        BY <2>1, <4>1 DEF Closing
    <3> QED
      BY <1>2, <2>1, <3>1
  <2> QED
    BY <1>1, <1>4, <1>5, <2>1, <2>3, <2>4, <2>5, <2>6, <2>7
       DEF MicInv, TerminatedIsSilent, DeniedMeansSilent
<1>6. CASE permission # "denied" /\ StartFails
  <2>1. /\ opened' = opened + 1 /\ active' = None
        /\ closed' = closed \cup Closing \cup {opened + 1}
        /\ recordingCallback' = None /\ native' = FALSE /\ recorder' = None
        /\ UNCHANGED <<permission, requestID>>
    BY <1>6 DEF StartFails
  <2>2. closed' \subseteq 1 .. opened + 1 /\ closed' \in SUBSET Ids
    BY <1>2, <2>1 DEF MicInv, TypeOK, RecordersCounted, Closing, Ids
  <2>3. TypeOK'
    BY <1>1, <1>2, <2>1, <2>2 DEF MicInv, TypeOK
  <2>4. RecordersCounted'
    BY <1>1, <1>2, <2>1, <2>2 DEF MicInv, RecordersCounted
  <2> QED
    BY <1>1, <1>3, <1>4, <2>1, <2>2, <2>3, <2>4, ClosedAgrees DEF MicInv
<1>7. CASE StartRefused
  <2>1. UNCHANGED <<services, recordingCallback, native>> /\ recorder' = None
    BY <1>7 DEF StartRefused
  <2>2. TypeOK'
    BY <1>1, <1>2, <2>1 DEF MicInv, TypeOK, services
  <2> QED
    BY <1>1, <1>3, <1>4, <2>1, <2>2
       DEF MicInv, services, RecordersCounted, ActiveIsInstalled, FramesAreOfActive,
           OpenIsActive, TerminatedIsSilent, DeniedMeansSilent
<1>8. CASE /\ StopActive /\ recorder' = None /\ UNCHANGED <<permission, requestID, opened>>
  <2>1. /\ active' = None /\ closed' = closed \cup Closing
        /\ closed' \subseteq 1 .. opened /\ closed' \in SUBSET Ids
        /\ recordingCallback' \in Ids \cup {None} /\ native' \in BOOLEAN
    BY <1>8, MicStopped
  <2>2. TypeOK'
    BY <1>1, <1>2, <1>8, <2>1 DEF MicInv, TypeOK
  <2>3. RecordersCounted'
    BY <1>1, <1>8, <2>1 DEF MicInv, RecordersCounted
  <2>4. opened' # opened + 1
    BY <1>2, <1>8
  <2> QED
    BY <1>1, <1>3, <1>4, <1>8, <2>1, <2>2, <2>3, <2>4, ClosedAgrees DEF MicInv
<1> QED
  BY <1>5, <1>6, <1>7, <1>8 DEF StartRecording

LEMMA StopKept == ASSUME MicInv, NEW r \in Ids, Stop(r) PROVE MicInv'
<1>1. /\ StopActive
      /\ UNCHANGED <<permission, requestID, opened, recorder, asked, permissionCallback,
                     stack, terminated, history>>
  BY DEF Stop
<1>2. /\ active' = None /\ closed' = closed \cup Closing
      /\ closed' \subseteq 1 .. opened /\ closed' \in SUBSET Ids
      /\ recordingCallback' \in Ids \cup {None} /\ native' \in BOOLEAN
  BY <1>1, MicStopped
<1>3. TypeOK'
  BY <1>1, <1>2 DEF MicInv, TypeOK, history
<1>4. RecordersCounted' /\ RequestsCounted' /\ SlotIsLatest'
  BY <1>1, <1>2 DEF MicInv, RecordersCounted, RequestsCounted, SlotIsLatest, IsLatest, history
<1>5. opened' # opened + 1 /\ restarted' = restarted
  BY <1>1 DEF MicInv, TypeOK, history
<1> QED
  BY <1>1, <1>2, <1>3, <1>4, <1>5, ClosedAgrees DEF MicInv

LEMMA SamplesKept == ASSUME MicInv, Samples PROVE MicInv'
<1>1. /\ native /\ stack = <<>>
      /\ UNCHANGED <<services, recorder, asked, permissionCallback, terminated, history>>
  BY DEF Samples
<1>2. UNCHANGED <<permission, requestID, active, opened, closed, latest, answered, restarted,
                  deniedAtOnce>>
  BY <1>1 DEF services, history
<1>3. /\ RequestsCounted' /\ SlotIsLatest' /\ OpenIsActive' /\ TerminatedIsSilent'
      /\ DeniedMeansSilent'
  BY <1>1, <1>2 DEF MicInv, RequestsCounted, SlotIsLatest, IsLatest, OpenIsActive,
                    TerminatedIsSilent, DeniedMeansSilent
<1>4. CASE Delivers(recordingCallback) /\ ~terminated
  <2>1. /\ stack' = <<Frame("samples", recordingCallback)>>
        /\ UNCHANGED <<recordingCallback, native>>
    BY <1>4 DEF Samples
  <2>2. active = recordingCallback /\ active \in 1 .. opened /\ opened \in Nat
    BY <1>4 DEF Delivers, MicInv, RecordersCounted, TypeOK
  <2>3. Frame("samples", recordingCallback) \in Frames
    BY <2>2 DEF Frame, Frames
  <2>4. /\ stack' \in Seq(Frames) /\ Len(stack') = 1
        /\ \A i \in DOMAIN stack' : stack'[i].id = active
    BY <2>1, <2>2, <2>3, NothingRuns DEF Frame
  <2>5. TypeOK'
    BY <1>1, <1>2, <2>1, <2>4, MicrophoneAssumption DEF MicInv, TypeOK, Frames
  <2>6. RecordersCounted' /\ FramesAreOfActive' /\ ActiveIsInstalled'
    BY <1>2, <2>1, <2>2, <2>4
       DEF MicInv, RecordersCounted, FramesAreOfActive, ActiveIsInstalled
  <2> QED
    BY <1>3, <2>5, <2>6 DEF MicInv
<1>5. CASE ~(Delivers(recordingCallback) /\ ~terminated)
  <2>1. recordingCallback' = None /\ native' = FALSE /\ UNCHANGED stack
    BY <1>5 DEF Samples
  (* The native side had nobody to call. *)
  <2>2. active = None
    BY <1>5 DEF Delivers, MicInv, ActiveIsInstalled, TerminatedIsSilent
  <2>3. TypeOK'
    BY <1>1, <1>2, <2>1 DEF MicInv, TypeOK
  <2>4. RecordersCounted' /\ FramesAreOfActive' /\ ActiveIsInstalled'
    BY <1>2, <2>1, <2>2 DEF MicInv, RecordersCounted, FramesAreOfActive, ActiveIsInstalled
  <2> QED
    BY <1>3, <2>3, <2>4 DEF MicInv
<1> QED
  BY <1>4, <1>5

LEMMA ReturnSamplesKept == ASSUME MicInv, ReturnSamples PROVE MicInv'
<1>1. /\ stack # <<>> /\ Head(stack).kind = "samples"
      /\ stack' = Tail(stack)
      /\ UNCHANGED <<permission, requestID, opened, recorder, asked, permissionCallback,
                     terminated, history>>
  BY DEF ReturnSamples, ReturnKeep, ReturnStop, InSamples
<1>2. UNCHANGED <<latest, answered, restarted, deniedAtOnce>>
  BY <1>1 DEF history
<1>3. /\ stack' \in Seq(Frames) /\ Len(stack') <= Nesting + 1
      /\ 1 \in DOMAIN stack /\ Head(stack) = stack[1]
      /\ \A i \in DOMAIN stack' : \E j \in DOMAIN stack : stack'[i] = stack[j]
  <2>1. stack \in Seq(Frames) /\ Len(stack) <= Nesting + 1
    BY DEF MicInv, TypeOK, Frames
  <2>2. /\ Tail(stack) \in Seq(Frames) /\ Len(Tail(stack)) = Len(stack) - 1
        /\ Len(stack) \in Nat
        /\ 1 \in DOMAIN stack /\ Head(stack) = stack[1]
        /\ \A i \in DOMAIN Tail(stack) : \E j \in DOMAIN stack : Tail(stack)[i] = stack[j]
    BY <1>1, <2>1, Returned
  <2> QED
    BY <1>1, <2>1, <2>2, MicrophoneAssumption
<1>4. RequestsCounted' /\ SlotIsLatest'
  BY <1>1, <1>2 DEF MicInv, RequestsCounted, SlotIsLatest, IsLatest
<1>5. CASE ReturnKeep
  <2>1. UNCHANGED <<active, closed, recordingCallback, native>>
    BY <1>5 DEF ReturnKeep
  <2>2. TypeOK'
    BY <1>1, <1>2, <1>3, <2>1 DEF MicInv, TypeOK, Frames
  <2>3. RecordersCounted' /\ FramesAreOfActive'
    BY <1>1, <1>2, <1>3, <2>1 DEF MicInv, RecordersCounted, FramesAreOfActive
  <2> QED
    BY <1>1, <1>2, <1>4, <2>1, <2>2, <2>3
       DEF MicInv, ActiveIsInstalled, OpenIsActive, TerminatedIsSilent, DeniedMeansSilent
<1>6. CASE ReturnStop
  <2>1. /\ closed' = closed \cup {stack[1].id} /\ active' = None
        /\ recordingCallback' = None /\ native' = FALSE
    BY <1>3, <1>6 DEF ReturnStop
  <2>2. stack[1].kind = "samples" /\ stack[1].id \in 1 .. opened /\ opened <= Recorders
        /\ opened \in Nat
    BY <1>1, <1>3 DEF MicInv, RecordersCounted, TypeOK
  <2>3. closed' \subseteq 1 .. opened /\ closed' \in SUBSET Ids
    <3>1. stack[1].id \in Ids /\ closed \in SUBSET Ids
      BY SMTT(40), <2>2, MicrophoneAssumption DEF MicInv, TypeOK, Ids
    <3> QED
      BY <2>1, <2>2, <3>1 DEF MicInv, RecordersCounted
  <2>4. TypeOK'
    BY <1>1, <1>2, <1>3, <2>1, <2>3 DEF MicInv, TypeOK, Frames
  <2>5. RecordersCounted'
    BY <1>1, <1>3, <2>1, <2>3 DEF MicInv, RecordersCounted
  <2>6. OpenIsActive'
    <3>1. ~restarted => active \in {None, stack[1].id}
      BY <1>3, <2>2 DEF MicInv, FramesAreOfActive
    <3> QED
      BY <1>1, <1>2, <2>1, <3>1 DEF MicInv, OpenIsActive, None
  <2> QED
    BY <1>1, <1>4, <2>1, <2>4, <2>5, <2>6
       DEF MicInv, ActiveIsInstalled, FramesAreOfActive, TerminatedIsSilent, DeniedMeansSilent
<1> QED
  BY <1>5, <1>6 DEF ReturnSamples

LEMMA ReturnPermissionKept == ASSUME MicInv, ReturnPermission PROVE MicInv'
<1>1. /\ stack # <<>> /\ stack' = Tail(stack)
      /\ UNCHANGED <<services, adapter, recorder, terminated, history>>
  BY DEF ReturnPermission
<1>2. UNCHANGED <<permission, requestID, active, opened, closed, asked, permissionCallback,
                  recordingCallback, native, latest, answered, restarted, deniedAtOnce>>
  BY <1>1 DEF services, adapter, history
<1>3. /\ stack' \in Seq(Frames) /\ Len(stack') <= Nesting + 1
      /\ \A i \in DOMAIN stack' : \E j \in DOMAIN stack : stack'[i] = stack[j]
  <2>1. stack \in Seq(Frames) /\ Len(stack) <= Nesting + 1
    BY DEF MicInv, TypeOK, Frames
  <2>2. /\ Tail(stack) \in Seq(Frames) /\ Len(Tail(stack)) = Len(stack) - 1
        /\ Len(stack) \in Nat
        /\ \A i \in DOMAIN Tail(stack) : \E j \in DOMAIN stack : Tail(stack)[i] = stack[j]
    BY <1>1, <2>1, Returned
  <2> QED
    BY <1>1, <2>1, <2>2, MicrophoneAssumption
<1>4. TypeOK'
  BY <1>1, <1>2, <1>3 DEF MicInv, TypeOK, Frames
<1>5. RecordersCounted' /\ FramesAreOfActive'
  BY <1>2, <1>3 DEF MicInv, RecordersCounted, FramesAreOfActive
<1> QED
  BY <1>1, <1>2, <1>4, <1>5
     DEF MicInv, ActiveIsInstalled, OpenIsActive, TerminatedIsSilent, DeniedMeansSilent,
         RequestsCounted, SlotIsLatest, IsLatest

LEMMA MicTerminateKept == ASSUME MicInv, Terminate PROVE MicInv'
<1>1. /\ ~terminated /\ stack = <<>> /\ terminated' = TRUE /\ recorder' = None
      /\ active' = None /\ closed' = closed \cup Closing
      /\ native' = (native /\ active = None) /\ requestID' = requestID + 1
      /\ permissionCallback' = None /\ recordingCallback' = None
      /\ UNCHANGED <<permission, opened, asked, stack, history>>
  BY DEF Terminate, Invalidated
<1>2. UNCHANGED <<latest, answered, restarted, deniedAtOnce>>
  BY <1>1 DEF history
<1>3. closed' \subseteq 1 .. opened /\ closed' \in SUBSET Ids
  BY <1>1 DEF MicInv, TypeOK, RecordersCounted, Closing, Ids
<1>4. TypeOK'
  <2>1. requestID' \in 0 .. Requests + 2 /\ permissionCallback' \in 0 .. Requests
    BY <1>1, MicrophoneAssumption DEF MicInv, TypeOK, RequestsCounted, None
  <2> QED
    BY <1>1, <1>2, <1>3, <2>1 DEF MicInv, TypeOK
<1>5. RecordersCounted' /\ SlotIsLatest'
  BY <1>1, <1>3, NothingRuns DEF RecordersCounted, SlotIsLatest, IsLatest
<1>6. RequestsCounted'
  BY <1>1, <1>2, MicrophoneAssumption DEF MicInv, TypeOK, RequestsCounted
<1>7. opened' # opened + 1
  BY <1>1 DEF MicInv, TypeOK
<1> QED
  BY <1>1, <1>2, <1>3, <1>4, <1>5, <1>6, <1>7, ClosedAgrees DEF MicInv

-----------------------------------------------------------------------------
LEMMA MicStarts == Init => MicInv
<1> SUFFICES ASSUME Init PROVE MicInv
  OBVIOUS
<1>1. TypeOK
  <2>1. 0 \in 0 .. Recorders /\ 0 \in 0 .. Requests /\ 0 \in 0 .. Requests + 2
        /\ 0 <= Nesting + 1
    BY MicrophoneAssumption
  <2>2. <<>> \in Seq(Frames) /\ Len(<<>>) = 0
    BY NothingRuns
  <2> QED
    BY <2>1, <2>2 DEF Init, TypeOK, None, Frames
<1>2. RecordersCounted /\ ActiveIsInstalled /\ FramesAreOfActive /\ OpenIsActive
  BY NothingRuns DEF Init, RecordersCounted, ActiveIsInstalled, FramesAreOfActive, OpenIsActive
<1>3. /\ TerminatedIsSilent /\ DeniedMeansSilent /\ SlotIsLatest /\ RequestsCounted
  BY MicrophoneAssumption DEF Init, TerminatedIsSilent, DeniedMeansSilent, SlotIsLatest, IsLatest,
     RequestsCounted
<1> QED
  BY <1>1, <1>2, <1>3 DEF MicInv

LEMMA MicKept == MicInv /\ [Next]_vars => MicInv'
<1> SUFFICES ASSUME MicInv, [Next]_vars PROVE MicInv'
  OBVIOUS
<1>1. CASE UNCHANGED vars
  <2>1. UNCHANGED <<permission, requestID, active, opened, closed, asked, permissionCallback,
                    recordingCallback, native, recorder, stack, terminated, latest, answered,
                    restarted, deniedAtOnce>>
    BY <1>1 DEF vars, services, adapter, history
  <2>2. TypeOK'
    BY <2>1 DEF MicInv, TypeOK
  <2> QED
    BY <2>1, <2>2
       DEF MicInv, RecordersCounted, ActiveIsInstalled, FramesAreOfActive, OpenIsActive,
           TerminatedIsSilent, DeniedMeansSilent, RequestsCounted, SlotIsLatest, IsLatest
<1> QED
  BY <1>1, RequestAccessKept, AnswerKept, StartRecordingKept, StopKept, SamplesKept,
     ReturnSamplesKept, ReturnPermissionKept, MicTerminateKept DEF Next

(* The service, the context and the native slots agree in every state. *)
THEOREM Invariance == Spec => []MicInv
BY MicStarts, MicKept, PTL DEF Spec

THEOREM MicTypeCorrect == Spec => []TypeOK
<1>1. MicInv => TypeOK
  BY DEF MicInv
<1> QED
  BY Invariance, <1>1, PTL

(* Samples go to the open recorder, and after a denial that is not given   *)
(* at once nothing is recorded: playdate/audio.go:210 and 217.             *)
THEOREM RecordsAsPermitted == Spec => []RecordingAsPermitted
<1>1. MicInv => RecordingAsPermitted
  BY DEF MicInv, RecordingAsPermitted, RecordersAgree, DeniedMeansSilent, ActiveIsInstalled,
         OpenIsActive, OpenRecorderOwnsCallback, None
<1> QED
  BY Invariance, <1>1, PTL

LEMMA StepAnswersLatest ==
  ASSUME MicInv, Next, PermissionStarts
  PROVE  Head(stack').id = latest' /\ latest' \notin answered /\ ~terminated
<1>1. stack \in Seq(Frames)
  BY DEF MicInv, TypeOK, Frames
<1>2. CASE RequestAccess
  <2>1. /\ ~terminated /\ latest' = requestID + 1 /\ requestID \in Nat
        /\ RequestPending => stack' = stack
    BY <1>2 DEF RequestAccess, MayCall, RequestPending, MicInv, TypeOK
  <2>2. ~RequestPending
    BY <1>1, <2>1 DEF PermissionStarts
  <2>3. stack' = <<Frame("permission", requestID + 1)>> \o stack
    BY <1>2, <2>2 DEF RequestAccess, RequestAnswered
  <2>4. Frame("permission", requestID + 1) \in Frames
    BY <2>1 DEF Frame, Frames
  <2>5. Head(stack') = Frame("permission", requestID + 1)
    BY <1>1, <2>3, <2>4, Called
  <2>6. requestID + 1 \notin answered
    BY <2>1 DEF MicInv, RequestsCounted
  <2> QED
    BY <2>1, <2>5, <2>6 DEF Frame
<1>3. ASSUME NEW allowed \in BOOLEAN, Answer(allowed)
      PROVE  Head(stack').id = latest' /\ latest' \notin answered /\ ~terminated
  <2>1. IsLatest(permissionCallback)
    <3>1. ~IsLatest(permissionCallback) => stack' = stack
      BY <1>3 DEF Answer
    <3> QED
      BY <1>1, <3>1 DEF PermissionStarts
  <2>2. stack' = <<Frame("permission", permissionCallback)>> /\ latest' = latest
    BY <1>3, <2>1 DEF Answer
  <2>3. permissionCallback \in Nat
    BY DEF MicInv, TypeOK
  <2>4. Head(stack').id = permissionCallback
    BY <2>2, <2>3, NothingRuns DEF Frame, Frames
  <2> QED
    BY <2>1, <2>2, <2>4 DEF MicInv, SlotIsLatest
<1>4. CASE StartRecording \/ Terminate \/ \E r \in Ids : Stop(r)
  <2>1. stack' = stack
    BY <1>4 DEF StartRecording, Terminate, Stop
  <2> QED
    BY <1>1, <2>1 DEF PermissionStarts
<1>5. CASE Samples
  <2>1. stack = <<>> /\ stack' \in {stack, <<Frame("samples", recordingCallback)>>}
    BY <1>5 DEF Samples
  <2>2. Frame("samples", recordingCallback) \in Frames
    BY DEF MicInv, TypeOK, Frame, Frames, Ids, None
  <2>3. stack' = <<Frame("samples", recordingCallback)>>
    BY <1>1, <2>1 DEF PermissionStarts
  <2>4. Head(stack').kind = "samples"
    BY <2>2, <2>3, NothingRuns DEF Frame
  <2> QED
    BY <2>4 DEF PermissionStarts
<1>6. CASE ReturnSamples \/ ReturnPermission
  <2>1. stack # <<>> /\ stack' = Tail(stack)
    BY <1>6 DEF ReturnSamples, ReturnKeep, ReturnStop, InSamples, ReturnPermission
  <2>2. Len(stack') = Len(stack) - 1 /\ Len(stack) \in Nat
    BY <1>1, <2>1, Returned
  <2> QED
    BY <2>2 DEF PermissionStarts
<1> QED
  BY <1>2, <1>3, <1>4, <1>5, <1>6 DEF Next

(* A dialog that a newer request, an immediate answer or the termination   *)
(* has overtaken is never reported: microphone.go:32.                      *)
THEOREM LatestRequestIsAnswered == Spec => AnswersLatestRequest
<1>1. MicInv /\ [Next]_vars =>
        [PermissionStarts =>
           Head(stack').id = latest' /\ latest' \notin answered /\ ~terminated]_vars
  BY StepAnswersLatest
<1> QED
  BY Invariance, <1>1, PTL DEF Spec, AnswersLatestRequest

-----------------------------------------------------------------------------
(***************************************************************************)
(* Proofs about the scoreboards, for every set of kinds, every number of   *)
(* slots that covers them and every number of requests.                    *)
(*                                                                         *)
(* An answer is lost when the queue is full.  It never is: what is queued  *)
(* is of different kinds, all of them pending, and the kind whose answer   *)
(* arrives is pending and not queued.  No callback is called twice because *)
(* what was called is older than the one request that its kind may have.   *)
(***************************************************************************)
(* What is queued is the one request of a pending kind. *)
QueuedIsPending ==
  /\ \A i \in DOMAIN queue :
       /\ queue[i].kind \in pending
       /\ slot[queue[i].kind] = Vacant
       /\ completing[queue[i].kind] = {}
       /\ queue[i].request = requested[queue[i].kind]
       /\ queue[i].answer = queue[i].request
  /\ \A i, j \in DOMAIN queue : queue[i].kind = queue[j].kind => i = j

(* A pending kind's request is with the native side unless it is queued.   *)
PendingIsSomewhere ==
  \A k \in Kinds :
    /\ k \in pending =>
         \/ slot[k] = requested[k] /\ completing[k] = {requested[k]} /\ requested[k] # Vacant
         \/ \E i \in DOMAIN queue : queue[i].kind = k
    /\ k \notin pending => slot[k] = Vacant /\ (gone \/ completing[k] = {})

(* What was called is no newer than its kind's latest request, and older   *)
(* than one that is pending.                                               *)
CalledIsOver ==
  \A e \in replies :
    /\ e.request = e.answer
    /\ e.request <= requested[e.kind]
    /\ e.kind \in pending => e.request # requested[e.kind]

GoneIsEmpty == gone => pending = {}

BoardInv ==
  /\ BoardTypeOK
  /\ QueuedIsPending
  /\ PendingIsSomewhere
  /\ CalledIsOver
  /\ GoneIsEmpty

-----------------------------------------------------------------------------
(* The queue. *)

LEMMA EntryFields ==
  ASSUME NEW q \in Seq(Entry)
  PROVE  \A i \in DOMAIN q :
           q[i].kind \in Kinds /\ q[i].request \in Numbers /\ q[i].answer \in Numbers
<1>1. \A i \in DOMAIN q : q[i] \in Entry
  OBVIOUS
<1> QED
  BY <1>1 DEF Entry

LEMMA Appended ==
  ASSUME NEW q \in Seq(Entry), NEW e \in Entry
  PROVE  /\ Append(q, e) \in Seq(Entry)
         /\ Len(Append(q, e)) = Len(q) + 1
         /\ \A i \in DOMAIN q : i \in DOMAIN Append(q, e) /\ Append(q, e)[i] = q[i]
         /\ Len(q) + 1 \in DOMAIN Append(q, e)
         /\ Append(q, e)[Len(q) + 1] = e
         /\ \A i \in DOMAIN Append(q, e) : i \in DOMAIN q \/ i = Len(q) + 1
         /\ Len(q) + 1 \notin DOMAIN q
OBVIOUS

LEMMA BoardDropped ==
  ASSUME NEW q \in Seq(Entry), q # <<>>
  PROVE  /\ Tail(q) \in Seq(Entry)
         /\ Len(Tail(q)) = Len(q) - 1
         /\ Head(q) = q[1] /\ q[1] \in Entry /\ 1 \in DOMAIN q
         /\ \A i \in DOMAIN Tail(q) : /\ i + 1 \in DOMAIN q /\ i + 1 # 1
                                      /\ Tail(q)[i] = q[i + 1]
         /\ \A i \in DOMAIN q : i # 1 => i - 1 \in DOMAIN Tail(q) /\ Tail(q)[i - 1] = q[i]
         /\ \A i, j \in DOMAIN Tail(q) : i + 1 = j + 1 => i = j
OBVIOUS

(* Entries are of different kinds, so one kind that is not queued leaves   *)
(* room for its answer.                                                    *)
LEMMA RoomLeft ==
  ASSUME SlotsCoverKinds, BoardTypeOK, QueuedIsPending, NEW k \in Kinds,
         \A i \in DOMAIN queue : queue[i].kind # k
  PROVE  Len(queue) < EventSlots
<1> DEFINE kindOf == [i \in 1 .. Len(queue) |-> queue[i].kind]
<1>1. queue \in Seq(Entry) /\ Len(queue) \in Nat /\ DOMAIN queue = 1 .. Len(queue)
  BY DEF BoardTypeOK
<1>2. kindOf \in [1 .. Len(queue) -> Kinds \ {k}]
  BY <1>1, EntryFields
<1>3. \A i, j \in 1 .. Len(queue) : kindOf[i] = kindOf[j] => i = j
  BY <1>1 DEF QueuedIsPending
<1>4. kindOf \in Injection(1 .. Len(queue), Kinds \ {k})
  BY <1>2, <1>3 DEF Injection, IsInjective
<1>5. /\ IsFiniteSet(Kinds \ {k})
      /\ Cardinality(Kinds \ {k}) = Cardinality(Kinds) - 1
      /\ Cardinality(Kinds) \in Nat
  BY FS_RemoveElement, FS_CardinalityType DEF SlotsCoverKinds
<1>6. Cardinality(1 .. Len(queue)) <= Cardinality(Kinds \ {k})
  BY <1>4, <1>5, FS_Injection
<1>7. Cardinality(1 .. Len(queue)) = Len(queue)
  <2>1. 1 \in Int /\ Len(queue) \in Int
    BY <1>1
  <2>2. Cardinality(1 .. Len(queue)) = IF 1 > Len(queue) THEN 0 ELSE Len(queue) - 1 + 1
    BY <2>1, FS_Interval
  <2> QED
    BY <1>1, <2>2
<1> QED
  BY <1>1, <1>5, <1>6, <1>7 DEF SlotsCoverKinds

-----------------------------------------------------------------------------
(* One lemma for every action. *)

LEMMA RequestKept ==
  ASSUME SlotsCoverKinds, BoardInv, NEW k \in Kinds, Request(k)
  PROVE  BoardInv'
<1>1. /\ ~gone /\ k \notin pending
      /\ requested[k] < BoardRequests
      /\ requested' = [requested EXCEPT ![k] = @ + 1]
      /\ UNCHANGED <<queue, gone, draining, running, replies>>
      /\ Accepted(k) \/ Rejected(k)
  BY DEF Request, Free
<1>2. /\ requested[k] \in 0 .. BoardRequests /\ requested[k] + 1 \in Numbers
      /\ queue \in Seq(Entry)
  BY <1>1 DEF BoardInv, BoardTypeOK, SlotsCoverKinds, Numbers
<1>3. completing[k] = {}
  BY <1>1 DEF BoardInv, PendingIsSomewhere
<1>4. \A i \in DOMAIN queue : queue[i].kind # k
  BY <1>1 DEF BoardInv, QueuedIsPending
<1>5. /\ \A j \in Kinds : requested'[j] = IF j = k THEN requested[k] + 1 ELSE requested[j]
      /\ \A j \in Kinds : slot'[j] = IF j = k THEN slot'[k] ELSE slot[j]
      /\ \A j \in Kinds : completing'[j] = IF j = k THEN completing'[k] ELSE completing[j]
      /\ \/ pending' = pending \cup {k} /\ slot'[k] = requested[k] + 1
            /\ completing'[k] = {requested[k] + 1}
         \/ pending' = pending /\ slot'[k] = Vacant /\ completing'[k] = {}
  BY <1>1, <1>3 DEF BoardInv, BoardTypeOK, Accepted, Rejected
<1>6. BoardTypeOK'
  <2>1. CASE Accepted(k)
    BY <1>1, <1>2, <2>1 DEF BoardInv, BoardTypeOK, Accepted, Entry, Numbers, Vacant
  <2>2. CASE Rejected(k)
    <3>1. slot' \in [Kinds -> 0 .. BoardRequests]
      BY <2>2 DEF BoardInv, BoardTypeOK, Rejected, Vacant, SlotsCoverKinds
    <3>2. requested' \in [Kinds -> 0 .. BoardRequests]
      BY <1>1, <1>2 DEF BoardInv, BoardTypeOK, Numbers
    <3> QED
      BY <1>1, <2>2, <3>1, <3>2 DEF BoardInv, BoardTypeOK, Rejected
  <2> QED
    BY <1>1, <2>1, <2>2
<1>7. \A i \in DOMAIN queue : queue[i].kind \in Kinds
  BY <1>2, EntryFields
<1>8. QueuedIsPending'
  BY <1>1, <1>4, <1>5, <1>7 DEF BoardInv, QueuedIsPending
<1>9. PendingIsSomewhere'
  BY <1>1, <1>2, <1>5 DEF BoardInv, PendingIsSomewhere, Numbers, Vacant
<1>10. CalledIsOver'
  <2> SUFFICES ASSUME NEW e \in replies
               PROVE  /\ e.request = e.answer
                      /\ e.request <= requested'[e.kind]
                      /\ e.kind \in pending' => e.request # requested'[e.kind]
    BY <1>1 DEF CalledIsOver
  <2>1. e.kind \in Kinds /\ e.request \in Nat /\ requested[e.kind] \in Nat
    BY DEF BoardInv, BoardTypeOK, Entry, Numbers
  <2> QED
    BY <1>1, <1>5, <2>1 DEF BoardInv, CalledIsOver
<1>11. GoneIsEmpty'
  BY <1>1 DEF GoneIsEmpty
<1> QED
  BY <1>6, <1>8, <1>9, <1>10, <1>11 DEF BoardInv

LEMMA CompleteKept ==
  ASSUME SlotsCoverKinds, BoardInv, NEW k \in Kinds, Complete(k)
  PROVE  BoardInv'
<1>1. /\ UNCHANGED <<pending, gone, draining, running, requested, replies>>
      /\ slot' = [slot EXCEPT ![k] = Vacant]
  BY DEF Complete
<1>2. PICK n \in completing[k] :
        /\ completing' = [completing EXCEPT ![k] = @ \ {n}]
        /\ queue' = IF slot[k] = Vacant THEN queue
                    ELSE Push([kind |-> k, request |-> slot[k], answer |-> n])
  BY DEF Complete
<1>3. /\ \A j \in Kinds : slot'[j] = IF j = k THEN Vacant ELSE slot[j]
      /\ \A j \in Kinds : completing'[j] = IF j = k THEN completing[k] \ {n} ELSE completing[j]
      /\ queue \in Seq(Entry)
      /\ completing[k] \in SUBSET Numbers
  BY <1>1, <1>2 DEF BoardInv, BoardTypeOK
<1>4. CalledIsOver' /\ GoneIsEmpty'
  BY <1>1 DEF BoardInv, CalledIsOver, GoneIsEmpty
<1>5. CASE slot[k] = Vacant
  (* The answer is to a request from before the termination. *)
  <2>1. queue' = queue
    BY <1>2, <1>5
  <2>2. k \notin pending
    BY <1>2, <1>5 DEF BoardInv, PendingIsSomewhere, QueuedIsPending
  <2>3. BoardTypeOK'
    BY <1>1, <1>2, <1>3, <2>1 DEF BoardInv, BoardTypeOK, Vacant, SlotsCoverKinds
  <2>4. QueuedIsPending'
    <3>1. \A i \in DOMAIN queue : queue[i].kind \in Kinds /\ queue[i].kind # k
      BY <1>3, <2>2, EntryFields DEF BoardInv, QueuedIsPending
    <3> QED
      BY <1>1, <1>3, <2>1, <3>1 DEF BoardInv, QueuedIsPending
  <2>5. PendingIsSomewhere'
    BY <1>1, <1>3, <2>1, <2>2 DEF BoardInv, PendingIsSomewhere
  <2> QED
    BY <1>4, <2>3, <2>4, <2>5 DEF BoardInv
<1>6. CASE slot[k] # Vacant
  <2> DEFINE entry == [kind |-> k, request |-> slot[k], answer |-> n]
  <2>1. k \in pending /\ ~gone
    BY <1>6 DEF BoardInv, PendingIsSomewhere, GoneIsEmpty
  <2>2. \A i \in DOMAIN queue : queue[i].kind # k
    BY <1>6 DEF BoardInv, QueuedIsPending
  <2>3. slot[k] = requested[k] /\ completing[k] = {requested[k]} /\ n = requested[k]
    BY <1>2, <2>1, <2>2 DEF BoardInv, PendingIsSomewhere
  <2>4. Len(queue) < EventSlots
    BY <2>2, RoomLeft DEF BoardInv
  <2>5. queue' = Append(queue, entry)
    BY <1>2, <1>6, <2>1, <2>4 DEF Push
  <2>6. entry \in Entry
    BY <1>2, <1>3, <2>3 DEF Entry
  <2>7. BoardTypeOK'
    <3>1. queue' \in Seq(Entry) /\ Len(queue') <= EventSlots
      BY <1>3, <2>4, <2>5, <2>6, Appended DEF SlotsCoverKinds
    <3> QED
      BY <1>1, <1>2, <1>3, <3>1 DEF BoardInv, BoardTypeOK, Vacant, SlotsCoverKinds
  <2>8. QueuedIsPending'
    <3> SUFFICES ASSUME NEW i \in DOMAIN queue'
                 PROVE  /\ queue'[i].kind \in pending
                        /\ slot'[queue'[i].kind] = Vacant
                        /\ completing'[queue'[i].kind] = {}
                        /\ queue'[i].request = requested[queue'[i].kind]
                        /\ queue'[i].answer = queue'[i].request
                        /\ \A j \in DOMAIN queue' : queue'[i].kind = queue'[j].kind => i = j
      BY <1>1 DEF QueuedIsPending
    <3>1. \A j \in DOMAIN queue' :
            \/ j \in DOMAIN queue /\ queue'[j] = queue[j] /\ queue[j].kind # k
            \/ j = Len(queue) + 1 /\ queue'[j] = entry
      BY <1>3, <2>2, <2>5, <2>6, Appended
    <3>2. CASE i \in DOMAIN queue /\ queue'[i] = queue[i] /\ queue[i].kind # k
      <4>1. queue[i].kind \in Kinds
        BY <1>3, <3>2, EntryFields
      <4> QED
        BY <1>3, <3>1, <3>2, <4>1 DEF BoardInv, QueuedIsPending
    <3>3. CASE i = Len(queue) + 1 /\ queue'[i] = entry
      <4>1. completing[k] \ {n} = {}
        BY <2>3
      <4> QED
        BY <1>3, <2>1, <2>3, <3>1, <3>3, <4>1
    <3> QED
      BY <3>1, <3>2, <3>3
  <2>9. PendingIsSomewhere'
    <3>1. \A i \in DOMAIN queue : i \in DOMAIN queue' /\ queue'[i] = queue[i]
      BY <1>3, <2>5, <2>6, Appended
    <3>2. \E i \in DOMAIN queue' : queue'[i].kind = k
      BY <1>3, <2>5, <2>6, Appended
    <3> QED
      BY <1>1, <1>3, <2>1, <3>1, <3>2 DEF BoardInv, PendingIsSomewhere
  <2> QED
    BY <1>4, <2>7, <2>8, <2>9 DEF BoardInv
<1> QED
  BY <1>5, <1>6

LEMMA DrainNextKept ==
  ASSUME SlotsCoverKinds, BoardInv, DrainNext
  PROVE  BoardInv'
<1> DEFINE first == Head(queue)
<1>1. /\ queue # <<>> /\ ~gone
      /\ queue' = Tail(queue)
      /\ pending' = pending \ {first.kind}
      /\ running' = <<first.kind, first.request>>
      /\ replies' = replies \cup {first}
      /\ UNCHANGED <<slot, completing, gone, draining, requested>>
  BY DEF DrainNext, DrainLoops, Popped, Released
<1>2. queue \in Seq(Entry)
  BY DEF BoardInv, BoardTypeOK
<1>3. first = queue[1] /\ first \in Entry /\ 1 \in DOMAIN queue
  BY <1>1, <1>2, BoardDropped
<1>4. \A i \in DOMAIN queue' :
        i + 1 \in DOMAIN queue /\ i + 1 # 1 /\ queue'[i] = queue[i + 1]
  BY <1>1, <1>2, BoardDropped
<1>5. \A i \in DOMAIN queue' : queue'[i].kind # first.kind
  BY <1>3, <1>4 DEF BoardInv, QueuedIsPending
<1>6. BoardTypeOK'
  <2>1. queue' \in Seq(Entry) /\ Len(queue') <= Len(queue) /\ Len(queue') \in Nat
    BY <1>1, <1>2, BoardDropped
  <2>2. Len(queue') <= EventSlots
    <3>1. Len(queue) = Len(queue') + 1
      BY <1>1, <1>2, BoardDropped
    <3> QED
      BY <2>1, <3>1 DEF BoardInv, BoardTypeOK, SlotsCoverKinds
  <2>3. running' \in Kinds \X Numbers /\ replies' \in SUBSET Entry
    BY <1>1, <1>3 DEF BoardInv, BoardTypeOK, Entry
  <2> QED
    BY <1>1, <2>1, <2>2, <2>3 DEF BoardInv, BoardTypeOK
<1>7. QueuedIsPending'
  <2>1. \A i, j \in DOMAIN queue' : i + 1 = j + 1 => i = j
    BY <1>1, <1>2, BoardDropped
  <2>2. ASSUME NEW i \in DOMAIN queue'
        PROVE  /\ queue'[i].kind \in pending'
               /\ slot[queue'[i].kind] = Vacant
               /\ completing[queue'[i].kind] = {}
               /\ queue'[i].request = requested[queue'[i].kind]
               /\ queue'[i].answer = queue'[i].request
               /\ \A j \in DOMAIN queue' : queue'[i].kind = queue'[j].kind => i = j
    BY SMTT(40), <1>1, <1>4, <1>5, <2>1 DEF BoardInv, QueuedIsPending
  <2> QED
    BY <1>1, <2>2 DEF QueuedIsPending
<1>8. PendingIsSomewhere'
  <2> SUFFICES ASSUME NEW k \in Kinds
               PROVE  /\ k \in pending' =>
                           \/ /\ slot[k] = requested[k] /\ completing[k] = {requested[k]}
                              /\ requested[k] # Vacant
                           \/ \E i \in DOMAIN queue' : queue'[i].kind = k
                      /\ k \notin pending' => slot[k] = Vacant /\ (gone \/ completing[k] = {})
    BY <1>1 DEF PendingIsSomewhere
  <2>1. CASE k = first.kind
    BY <1>1, <1>3, <2>1 DEF BoardInv, QueuedIsPending
  <2>2. CASE k # first.kind
    <3>1. \A i \in DOMAIN queue : queue[i].kind = k =>
            i - 1 \in DOMAIN queue' /\ queue'[i - 1].kind = k
      BY <1>1, <1>2, <1>3, <2>2, BoardDropped
    <3> QED
      BY <1>1, <2>2, <3>1 DEF BoardInv, PendingIsSomewhere
  <2> QED
    BY <2>1, <2>2
<1>9. CalledIsOver'
  <2>1. /\ first.request = requested[first.kind] /\ first.request = first.answer
        /\ requested[first.kind] \in Nat
    BY <1>3 DEF BoardInv, QueuedIsPending, BoardTypeOK, Entry
  <2>2. \A e \in replies : e.kind \in pending' => e.kind \in pending
    BY <1>1
  <2>3. first.kind \notin pending'
    BY <1>1
  <2> QED
    BY <1>1, <2>1, <2>2, <2>3 DEF BoardInv, CalledIsOver
<1>10. GoneIsEmpty'
  BY <1>1 DEF GoneIsEmpty
<1> QED
  BY <1>6, <1>7, <1>8, <1>9, <1>10 DEF BoardInv

LEMMA BoardTerminateKept ==
  ASSUME SlotsCoverKinds, BoardInv, TerminateBoards
  PROVE  BoardInv'
<1>1. /\ gone' = TRUE /\ pending' = {} /\ queue' = <<>>
      /\ slot' = [k \in Kinds |-> Vacant]
      /\ UNCHANGED <<completing, draining, running, requested, replies>>
  BY DEF TerminateBoards
<1>2. <<>> \in Seq(Entry) /\ Len(<<>>) = 0 /\ DOMAIN <<>> = {}
  OBVIOUS
<1>3. BoardTypeOK'
  BY <1>1, <1>2 DEF BoardInv, BoardTypeOK, Vacant, SlotsCoverKinds
<1> QED
  BY <1>1, <1>2, <1>3
     DEF BoardInv, QueuedIsPending, PendingIsSomewhere, CalledIsOver, GoneIsEmpty

-----------------------------------------------------------------------------
LEMMA BoardStarts == SlotsCoverKinds /\ BoardInit => BoardInv
<1> SUFFICES ASSUME SlotsCoverKinds, BoardInit PROVE BoardInv
  OBVIOUS
<1>1. <<>> \in Seq(Entry) /\ Len(<<>>) = 0 /\ DOMAIN <<>> = {}
  OBVIOUS
<1>2. BoardTypeOK
  <2>1. /\ slot \in [Kinds -> 0 .. BoardRequests] /\ requested \in [Kinds -> 0 .. BoardRequests]
        /\ completing \in [Kinds -> SUBSET Numbers]
    BY DEF BoardInit, Vacant, SlotsCoverKinds
  <2>2. queue \in Seq(Entry) /\ Len(queue) <= EventSlots
    BY <1>1 DEF BoardInit, SlotsCoverKinds
  <2> QED
    BY <2>1, <2>2 DEF BoardInit, BoardTypeOK
<1> QED
  BY <1>1, <1>2
     DEF BoardInit, BoardInv, QueuedIsPending, PendingIsSomewhere, CalledIsOver, GoneIsEmpty

LEMMA BoardKept == SlotsCoverKinds /\ BoardInv /\ [BoardNext]_board => BoardInv'
<1> SUFFICES ASSUME SlotsCoverKinds, BoardInv, [BoardNext]_board PROVE BoardInv'
  OBVIOUS
<1>1. ASSUME UNCHANGED <<pending, slot, completing, queue, gone, requested, replies>>,
             draining' \in BOOLEAN, running' \in {NoRequest, running}
      PROVE  BoardInv'
  <2>1. BoardTypeOK'
    BY <1>1 DEF BoardInv, BoardTypeOK
  <2> QED
    BY <1>1, <2>1
       DEF BoardInv, QueuedIsPending, PendingIsSomewhere, CalledIsOver, GoneIsEmpty
<1>2. CASE BeginDrain \/ CallbackReturns \/ EndDrain \/ UNCHANGED board
  BY <1>1, <1>2 DEF BeginDrain, CallbackReturns, EndDrain, board, BoardInv, BoardTypeOK
<1> QED
  BY <1>2, RequestKept, CompleteKept, DrainNextKept, BoardTerminateKept DEF BoardNext

LEMMA Implied == ASSUME BoardInv PROVE EachRequestAnswered
<1>1. queue \in Seq(Entry) /\ DOMAIN queue \subseteq Nat
  BY DEF BoardInv, BoardTypeOK
<1>2. PendingIsOnItsWay
  <2> SUFFICES ASSUME NEW k \in Kinds
               PROVE  IF k \in pending
                        THEN \/ /\ slot[k] = requested[k] /\ completing[k] = {requested[k]}
                                /\ Queued(k) = {}
                             \/ /\ slot[k] = Vacant /\ completing[k] = {}
                                /\ \E i \in DOMAIN queue :
                                     Queued(k) = {i} /\ queue[i].request = requested[k]
                        ELSE slot[k] = Vacant /\ Queued(k) = {} /\ (gone \/ completing[k] = {})
    BY DEF PendingIsOnItsWay
  <2>1. CASE \E i \in DOMAIN queue : queue[i].kind = k
    <3>1. PICK i \in DOMAIN queue : queue[i].kind = k
      BY <2>1
    <3>2. Queued(k) = {i}
      BY <3>1 DEF Queued, BoardInv, QueuedIsPending
    <3> QED
      BY <3>1, <3>2 DEF BoardInv, QueuedIsPending
  <2>2. CASE \A i \in DOMAIN queue : queue[i].kind # k
    <3>1. Queued(k) = {}
      BY <2>2 DEF Queued
    <3> QED
      BY <2>2, <3>1 DEF BoardInv, PendingIsSomewhere
  <2> QED
    BY <2>1, <2>2
<1>3. AnswersOwnRequest
  BY DEF BoardInv, QueuedIsPending, CalledIsOver, AnswersOwnRequest
<1> QED
  BY <1>2, <1>3 DEF EachRequestAnswered

(* Every reachable state is well typed; in particular the queue is never   *)
(* longer than its slots.                                                  *)
THEOREM BoardTypeCorrect == ASSUME SlotsCoverKinds PROVE BoardSpec => []BoardTypeOK
<1>1. BoardInit => BoardInv
  BY BoardStarts
<1>2. BoardInv /\ [BoardNext]_board => BoardInv'
  BY BoardKept
<1>3. BoardInv => BoardTypeOK
  BY DEF BoardInv
<1> QED
  BY <1>1, <1>2, <1>3, PTL DEF BoardSpec

(* With as many slots as kinds no answer is lost: scoreboards.go:36. *)
THEOREM RequestsAreAnswered == ASSUME SlotsCoverKinds PROVE BoardSpec => []EachRequestAnswered
<1>1. BoardInit => BoardInv
  BY BoardStarts
<1>2. BoardInv /\ [BoardNext]_board => BoardInv'
  BY BoardKept
<1>3. BoardInv => EachRequestAnswered
  BY Implied
<1> QED
  BY <1>1, <1>2, <1>3, PTL DEF BoardSpec

-----------------------------------------------------------------------------
(***************************************************************************)
(* Proofs about an application, for every set of native handles and of     *)
(* bitmaps, every number of menu items and every size of the button queue. *)
(*                                                                         *)
(* What the native side has of the game is what the context's own records  *)
(* say that it has: the settings that differ from those at the start, the  *)
(* one image that is counted, the handles that no item has given up.  Two  *)
(* cleanups by those records therefore leave nothing, and no code of the   *)
(* game runs after the second, since a flag that stops events is set with  *)
(* it and the queue and the menu that could still call are empty.          *)
(***************************************************************************)
(* The records of the settings: what differs from the start is marked.     *)
SettingsRecorded ==
  /\ atStart.autoLock = FALSE /\ atStart.accelerometer = FALSE
  /\ settings.autoLock = autoLockDisabled
  /\ settings.accelerometer = accelerometerEnabled
  /\ crankTracked => crankInitial = atStart.crank
  /\ ~crankTracked => settings.crank = atStart.crank

(* The image that is shown is the one that is counted, and is not closed.  *)
ImageCounted ==
  /\ nativeImage = image
  /\ \A b \in Bitmaps : users[b] = IF b = image THEN 1 ELSE 0
  /\ image \notin closedBitmaps

(* The items that were never created have no handle. *)
NoHandleBefore == \A i \in MenuItems : i > created => handle[i] = Nothing

(* The first cleanup, and that nothing it restored is set again. *)
Restored ==
  systemTerminating => ~autoLockDisabled /\ ~crankTracked /\ ~buttons /\ image = Nothing

(* The second cleanup, and that no code of the game follows it. *)
Over ==
  /\ stage = "terminate" => systemTerminating
  /\ ended =>
       /\ systemTerminating
       /\ stage \in {"idle", "frame"}
       /\ failed \/ stopped
       /\ ~accelerometerEnabled
       /\ \A h \in Handles : menu[h] = Nothing

AppInv ==
  /\ ApplicationTypeOK
  /\ SettingsRecorded
  /\ ImageCounted
  /\ MenuItemsOwned
  /\ NoHandleBefore
  /\ Restored
  /\ Over

-----------------------------------------------------------------------------
(* What the helpers return. *)

(* The records of users that a replacement and a removal of the menu image *)
(* leave. *)
LEMMA UsersOfImage ==
  ASSUME HandlesAreSome, ApplicationTypeOK, ImageCounted
  PROVE  /\ \A b \in Bitmaps :
              /\ Replace(b) \in [Bitmaps -> 0 .. 1]
              /\ \A c \in Bitmaps : Replace(b)[c] = IF c = b THEN 1 ELSE 0
         /\ Cleared \in [Bitmaps -> 0 .. 1]
         /\ \A c \in Bitmaps : Cleared[c] = 0
<1>1. ASSUME NEW b \in Bitmaps
      PROVE  /\ Replace(b) \in [Bitmaps -> 0 .. 1]
             /\ \A c \in Bitmaps : Replace(b)[c] = IF c = b THEN 1 ELSE 0
  <2>1. CASE image = b
    BY <2>1 DEF Replace, ApplicationTypeOK, ImageCounted
  <2>2. CASE image # b
    <3>1. \A c \in Bitmaps : Replace(b)[c] = IF c = b THEN 1 ELSE 0
      BY <2>2 DEF Replace, ApplicationTypeOK, ImageCounted
    <3>2. Replace(b) = [c \in Bitmaps |-> Replace(b)[c]]
      BY <2>2 DEF Replace
    <3> QED
      BY <3>1, <3>2
  <2> QED
    BY <2>1, <2>2
<1>2. \A c \in Bitmaps : Cleared[c] = 0
  BY DEF Cleared, ApplicationTypeOK, ImageCounted
<1>3. Cleared \in [Bitmaps -> 0 .. 1]
  BY <1>2 DEF Cleared
<1> QED
  BY <1>1, <1>2, <1>3

(* A removal of items keeps the menu and the items in agreement, whether   *)
(* or not an item was removed before.                                      *)
LEMMA RemovalKeepsMenu ==
  ASSUME HandlesAreSome, ApplicationTypeOK, MenuItemsOwned, NoHandleBefore,
         NEW removed \in SUBSET (1 .. created), RemoveItems(removed)
  PROVE  /\ menu' \in [Handles -> 0 .. Items]
         /\ menuCallbacks' \in SUBSET MenuItems
         /\ handle' \in [MenuItems -> Handles \cup {Nothing}]
         /\ MenuItemsOwned'
         /\ NoHandleBefore'
         /\ removed = 1 .. created => \A h \in Handles : menu'[h] = Nothing
<1> DEFINE handles == {handle[i] : i \in removed} \ {Nothing}
<1> USE DEF HandlesAreSome, MenuItems, Nothing
<1>1. removed \subseteq MenuItems
  BY DEF ApplicationTypeOK
<1>2. /\ menu' = [h \in Handles |-> IF h \in handles THEN Nothing ELSE menu[h]]
      /\ menuCallbacks' = menuCallbacks \ {menu[h] : h \in handles}
      /\ handle' = [i \in MenuItems |-> IF i \in removed THEN Nothing ELSE handle[i]]
      /\ created' = created
  BY DEF RemoveItems, ForgottenHandles
<1>3. handles \subseteq Handles
  BY <1>1 DEF ApplicationTypeOK
<1>4. \A i \in MenuItems : handle[i] # Nothing => (handle[i] \in handles <=> i \in removed)
  BY <1>1 DEF ApplicationTypeOK, MenuItemsOwned
<1>5. \A h \in Handles : menu[h] # Nothing => (h \in handles <=> menu[h] \in removed)
  <2> SUFFICES ASSUME NEW h \in Handles, menu[h] # Nothing
               PROVE  h \in handles <=> menu[h] \in removed
    OBVIOUS
  <2>1. menu[h] \in MenuItems /\ handle[menu[h]] = h
    BY DEF ApplicationTypeOK, MenuItemsOwned
  <2> QED
    BY <1>4, <2>1
<1> HIDE DEF handles
<1>6. menu' \in [Handles -> 0 .. Items] /\ menuCallbacks' \in SUBSET MenuItems
  <2>1. menu' \in [Handles -> 0 .. Items]
    BY <1>2 DEF ApplicationTypeOK
  <2>2. menuCallbacks' \in SUBSET MenuItems
    BY <1>2 DEF ApplicationTypeOK
  <2> QED
    BY <2>1, <2>2
<1>7. handle' \in [MenuItems -> Handles \cup {Nothing}] /\ NoHandleBefore'
  BY <1>2 DEF ApplicationTypeOK, NoHandleBefore
<1>8. MenuItemsOwned'
  <2>1. \A i \in MenuItems : handle'[i] # Nothing => menu'[handle'[i]] = i
    BY <1>2, <1>4 DEF ApplicationTypeOK, MenuItemsOwned
  <2>2. \A h \in Handles : menu'[h] # Nothing => handle'[menu'[h]] = h
    BY <1>2, <1>5 DEF ApplicationTypeOK, MenuItemsOwned
  <2>3. menuCallbacks' = {menu'[h] : h \in Handles} \ {Nothing}
    <3>1. ASSUME NEW i \in menuCallbacks' PROVE i \in {menu'[h] : h \in Handles} \ {Nothing}
      <4>1. PICK h \in Handles : menu[h] = i /\ i # Nothing
        BY <1>2, <3>1 DEF MenuItemsOwned
      <4>2. h \notin handles
        BY <1>2, <3>1, <4>1
      <4> QED
        BY <1>2, <4>1, <4>2
    <3>2. ASSUME NEW h \in Handles, menu'[h] # Nothing PROVE menu'[h] \in menuCallbacks'
      <4>1. h \notin handles /\ menu'[h] = menu[h] /\ menu[h] \in menuCallbacks
        BY <1>2, <3>2 DEF MenuItemsOwned
      <4>2. ASSUME NEW g \in handles, menu[g] = menu[h] PROVE FALSE
        BY <1>3, <3>2, <4>1, <4>2 DEF MenuItemsOwned
      <4> QED
        BY <1>2, <4>1, <4>2
    <3> QED
      BY <3>1, <3>2
  <2> QED
    BY <2>1, <2>2, <2>3 DEF MenuItemsOwned
<1>9. removed = 1 .. created => \A h \in Handles : menu'[h] = Nothing
  <2> SUFFICES ASSUME removed = 1 .. created, NEW h \in Handles, menu[h] # Nothing
               PROVE  h \in handles
    BY <1>2
  <2>1. menu[h] \in MenuItems /\ handle[menu[h]] = h /\ h # Nothing
    BY DEF ApplicationTypeOK, MenuItemsOwned
  <2>2. menu[h] \in 1 .. created
    BY <2>1 DEF NoHandleBefore, ApplicationTypeOK
  <2> QED
    BY <1>5, <2>2
<1> QED
  BY <1>6, <1>7, <1>8, <1>9
-----------------------------------------------------------------------------
(* Each step of the game and of the native side. *)

LEMMA GameCallKeeps ==
  ASSUME HandlesAreSome, AppInv, GameCall
  PROVE  AppInv'
<1> USE DEF HandlesAreSome, Nothing
<1> DEFINE rest == <<lifecycle, atStart>>
<1>1. InGame /\ UNCHANGED rest
  BY DEF GameCall, ControlsOpen, SetAutoLockDisabled, SetCrankSoundsDisabled, SetButtonCallback,
         SetAccelerometerEnabled, SetMenuImage, CloseBitmap, ClearMenuImage, AddMenuItem,
         RemoveMenuItem
<1>2. Over'
  BY <1>1 DEF Over, AppInv, InGame, GameStages, lifecycle
<1>3. ASSUME NEW on \in BOOLEAN, SetAutoLockDisabled(on) PROVE AppInv'
  <2>1. ApplicationTypeOK'
    BY <1>3 DEF SetAutoLockDisabled, AppInv, ApplicationTypeOK, lifecycle, motion, menuVars, images
  <2>2. SettingsRecorded' /\ Restored'
    BY <1>3 DEF SetAutoLockDisabled, ControlsOpen, AppInv, ApplicationTypeOK, SettingsRecorded, Restored,
                lifecycle, motion, images
  <2>3. ImageCounted' /\ MenuItemsOwned' /\ NoHandleBefore'
    BY <1>3 DEF SetAutoLockDisabled, AppInv, ImageCounted, MenuItemsOwned, NoHandleBefore,
                menuVars, images
  <2> QED
    BY <1>2, <2>1, <2>2, <2>3 DEF AppInv
<1>4. ASSUME NEW on \in BOOLEAN, SetCrankSoundsDisabled(on) PROVE AppInv'
  <2>1. ApplicationTypeOK'
    BY <1>4 DEF SetCrankSoundsDisabled, TrackFirst, AppInv, ApplicationTypeOK, lifecycle, motion, menuVars,
                images
  <2>2. SettingsRecorded' /\ Restored'
    BY <1>4 DEF SetCrankSoundsDisabled, TrackFirst, ControlsOpen, AppInv, ApplicationTypeOK,
                SettingsRecorded, Restored, lifecycle, motion, images
  <2>3. ImageCounted' /\ MenuItemsOwned' /\ NoHandleBefore'
    BY <1>4 DEF SetCrankSoundsDisabled, AppInv, ImageCounted, MenuItemsOwned, NoHandleBefore,
                menuVars, images
  <2> QED
    BY <1>2, <2>1, <2>2, <2>3 DEF AppInv
<1>5. ASSUME NEW on \in BOOLEAN, SetButtonCallback(on) PROVE AppInv'
  <2>1. ApplicationTypeOK'
    BY <1>5 DEF SetButtonCallback, AppInv, ApplicationTypeOK, lifecycle, motion, menuVars, images
  <2>2. SettingsRecorded' /\ Restored'
    BY <1>5 DEF SetButtonCallback, ControlsOpen, AppInv, SettingsRecorded, Restored, lifecycle,
                motion, images
  <2>3. ImageCounted' /\ MenuItemsOwned' /\ NoHandleBefore'
    BY <1>5 DEF SetButtonCallback, AppInv, ImageCounted, MenuItemsOwned, NoHandleBefore,
                menuVars, images
  <2> QED
    BY <1>2, <2>1, <2>2, <2>3 DEF AppInv
<1>6. ASSUME NEW on \in BOOLEAN, SetAccelerometerEnabled(on) PROVE AppInv'
  <2>1. ApplicationTypeOK'
    BY <1>6 DEF SetAccelerometerEnabled, AppInv, ApplicationTypeOK, lifecycle, menuVars, images
  <2>2. SettingsRecorded' /\ Restored'
    BY <1>6 DEF SetAccelerometerEnabled, AppInv, ApplicationTypeOK, SettingsRecorded, Restored, lifecycle,
                images
  <2>3. ImageCounted' /\ MenuItemsOwned' /\ NoHandleBefore'
    BY <1>6 DEF SetAccelerometerEnabled, AppInv, ImageCounted, MenuItemsOwned, NoHandleBefore,
                menuVars, images
  <2> QED
    BY <1>2, <2>1, <2>2, <2>3 DEF AppInv
<1>7. ASSUME NEW b \in Bitmaps, SetMenuImage(b) PROVE AppInv'
  <2>1. /\ Replace(b) \in [Bitmaps -> 0 .. 1]
        /\ \A c \in Bitmaps : Replace(b)[c] = IF c = b THEN 1 ELSE 0
    BY UsersOfImage DEF AppInv
  <2>2. users' = Replace(b) /\ image' = b /\ nativeImage' = b /\ closedBitmaps' = closedBitmaps /\ b \notin closedBitmaps
    BY <1>7 DEF SetMenuImage
  <2>3. UNCHANGED <<lifecycle, controls, motion, menuVars, atStart>>
    BY <1>7 DEF SetMenuImage
  <2>4. ApplicationTypeOK'
    BY <2>1, <2>2, <2>3 DEF AppInv, ApplicationTypeOK, lifecycle, controls, motion, menuVars
  <2>5. ImageCounted'
    BY <2>1, <2>2 DEF ImageCounted
  <2>6. SettingsRecorded' /\ Restored'
    BY <1>7, <2>3 DEF SetMenuImage, ControlsOpen, AppInv, SettingsRecorded, Restored, lifecycle,
                      controls, motion
  <2>7. MenuItemsOwned' /\ NoHandleBefore'
    BY <2>3 DEF AppInv, MenuItemsOwned, NoHandleBefore, menuVars
  <2> QED
    BY <1>2, <2>4, <2>5, <2>6, <2>7 DEF AppInv
<1>8. ASSUME NEW b \in Bitmaps, CloseBitmap(b) PROVE AppInv'
  <2>1. ApplicationTypeOK'
    BY <1>8 DEF CloseBitmap, AppInv, ApplicationTypeOK, lifecycle, controls, motion, menuVars
  <2>2. ImageCounted'
    BY <1>8 DEF CloseBitmap, AppInv, ImageCounted
  <2>3. SettingsRecorded' /\ Restored' /\ MenuItemsOwned' /\ NoHandleBefore'
    BY <1>8 DEF CloseBitmap, AppInv, SettingsRecorded, Restored, MenuItemsOwned, NoHandleBefore,
                lifecycle, controls, motion, menuVars
  <2> QED
    BY <1>2, <2>1, <2>2, <2>3 DEF AppInv
<1>9. CASE ClearMenuImage
  <2>1. Cleared \in [Bitmaps -> 0 .. 1] /\ \A c \in Bitmaps : Cleared[c] = 0
    BY UsersOfImage DEF AppInv
  <2>2. users' = Cleared /\ image' = Nothing /\ nativeImage' = Nothing /\ closedBitmaps' = closedBitmaps
    BY <1>9 DEF ClearMenuImage
  <2>3. UNCHANGED <<lifecycle, controls, motion, menuVars, atStart>>
    BY <1>9 DEF ClearMenuImage
  <2>4. ApplicationTypeOK'
    BY <2>1, <2>2, <2>3 DEF AppInv, ApplicationTypeOK, lifecycle, controls, motion, menuVars
  <2>5. ImageCounted'
    BY <2>1, <2>2 DEF AppInv, ImageCounted, ApplicationTypeOK
  <2>6. SettingsRecorded' /\ Restored'
    BY <2>2, <2>3 DEF AppInv, SettingsRecorded, Restored, lifecycle, controls, motion
  <2>7. MenuItemsOwned' /\ NoHandleBefore'
    BY <2>3 DEF AppInv, MenuItemsOwned, NoHandleBefore, menuVars
  <2> QED
    BY <1>2, <2>4, <2>5, <2>6, <2>7 DEF AppInv
<1>10. CASE AddMenuItem
  <2>1. PICK h \in Handles :
          /\ menu[h] = Nothing
          /\ created' = created + 1
          /\ handle' = [handle EXCEPT ![created + 1] = h]
          /\ menu' = [menu EXCEPT ![h] = created + 1]
          /\ menuCallbacks' = menuCallbacks \cup {created + 1}
    BY <1>10 DEF AddMenuItem
  <2>2. created < Items /\ UNCHANGED <<lifecycle, controls, motion, images, atStart>>
    BY <1>10 DEF AddMenuItem
  <2>3. created + 1 \in MenuItems /\ created + 1 # Nothing /\ handle[created + 1] = Nothing
    BY <2>2 DEF AppInv, ApplicationTypeOK, NoHandleBefore, MenuItems
  <2>4. ApplicationTypeOK'
    <3>1. handle' \in [MenuItems -> Handles \cup {Nothing}] /\ menu' \in [Handles -> 0 .. Items]
      BY <2>1, <2>3 DEF AppInv, ApplicationTypeOK, MenuItems
    <3>2. menuCallbacks' \in SUBSET MenuItems /\ created' \in 0 .. Items
      BY <2>1, <2>3 DEF AppInv, ApplicationTypeOK, MenuItems
    <3> QED
      BY <2>2, <3>1, <3>2 DEF AppInv, ApplicationTypeOK, lifecycle, controls, motion, images
  <2>5. MenuItemsOwned'
    <3>1. \A i \in MenuItems : i # created + 1 /\ handle[i] # Nothing => handle[i] # h
      BY <2>1, <2>3 DEF AppInv, MenuItemsOwned, MenuItems
    <3>2. \A g \in Handles : g # h /\ menu[g] # Nothing => menu[g] # created + 1
      BY <2>3 DEF AppInv, MenuItemsOwned
    <3>3. \A i \in MenuItems : handle'[i] # Nothing => menu'[handle'[i]] = i
      BY <2>1, <2>3, <3>1 DEF AppInv, ApplicationTypeOK, MenuItemsOwned
    <3>4. \A g \in Handles : menu'[g] # Nothing => handle'[menu'[g]] = g
      BY <2>1, <2>3, <3>2 DEF AppInv, ApplicationTypeOK, MenuItemsOwned, MenuItems
    <3>5. menuCallbacks' = {menu'[g] : g \in Handles} \ {Nothing}
      <4>1. \A g \in Handles : menu'[g] = IF g = h THEN created + 1 ELSE menu[g]
        BY <2>1 DEF AppInv, ApplicationTypeOK
      <4>2. menuCallbacks = {menu[g] : g \in Handles} \ {Nothing}
        BY DEF AppInv, MenuItemsOwned
      <4> QED
        BY <2>1, <2>3, <4>1, <4>2
    <3> QED
      BY <3>3, <3>4, <3>5 DEF MenuItemsOwned
  <2>6. NoHandleBefore'
    BY <2>1, <2>3 DEF AppInv, ApplicationTypeOK, NoHandleBefore, MenuItems
  <2>7. SettingsRecorded' /\ Restored' /\ ImageCounted'
    BY <2>2 DEF AppInv, SettingsRecorded, Restored, ImageCounted, lifecycle, controls, motion, images
  <2> QED
    BY <1>2, <2>4, <2>5, <2>6, <2>7 DEF AppInv
<1>11. ASSUME NEW i \in MenuItems, RemoveMenuItem(i) PROVE AppInv'
  <2>1. {i} \in SUBSET (1 .. created) /\ RemoveItems({i})
    BY <1>11 DEF RemoveMenuItem, MenuItems, AppInv, ApplicationTypeOK
  <2>2. /\ menu' \in [Handles -> 0 .. Items]
        /\ menuCallbacks' \in SUBSET MenuItems
        /\ handle' \in [MenuItems -> Handles \cup {Nothing}]
        /\ MenuItemsOwned'
        /\ NoHandleBefore'
    BY <2>1, RemovalKeepsMenu DEF AppInv
  <2>3. UNCHANGED <<lifecycle, controls, motion, images, atStart, created>>
    BY <1>11 DEF RemoveMenuItem, RemoveItems
  <2>4. ApplicationTypeOK'
    BY <2>2, <2>3 DEF AppInv, ApplicationTypeOK, lifecycle, controls, motion, images
  <2>5. SettingsRecorded' /\ Restored' /\ ImageCounted'
    BY <2>3 DEF AppInv, SettingsRecorded, Restored, ImageCounted, lifecycle, controls, motion, images
  <2> QED
    BY <1>2, <2>2, <2>4, <2>5 DEF AppInv
<1> QED
  BY <1>3, <1>4, <1>5, <1>6, <1>7, <1>8, <1>9, <1>10, <1>11 DEF GameCall
(* The steps that change the lifecycle alone. *)
LEMMA LifecycleKeeps ==
  ASSUME HandlesAreSome, AppInv, UNCHANGED <<motion, menuVars, images, atStart>>,
         UNCHANGED <<autoLockDisabled, crankTracked, crankInitial, settings, buttons>>,
         UNCHANGED systemTerminating,
         buttonQueue' \in 0 .. ButtonEvents,
         initialized' \in BOOLEAN, failed' \in BOOLEAN, stopped' \in BOOLEAN,
         registered' \in BOOLEAN, stage' \in GameStages \cup {"idle", "frame"}, ended' \in BOOLEAN,
         Over'
  PROVE  AppInv'
<1>1. ApplicationTypeOK'
  BY DEF AppInv, ApplicationTypeOK, motion, menuVars, images
<1>2. SettingsRecorded' /\ ImageCounted' /\ MenuItemsOwned' /\ NoHandleBefore' /\ Restored'
  BY DEF AppInv, SettingsRecorded, ImageCounted, MenuItemsOwned, NoHandleBefore, Restored, motion,
         menuVars, images
<1> QED
  BY <1>1, <1>2 DEF AppInv

LEMMA EventKeeps ==
  ASSUME HandlesAreSome, AppInv, Event
  PROVE  AppInv'
<1> USE DEF HandlesAreSome, Nothing
<1>1. CASE EventInit \/ EventOther \/ ReturnInit \/ ReturnEvent
  <2>1. /\ UNCHANGED <<controls, motion, menuVars, images, atStart, systemTerminating, ended>>
        /\ initialized' \in BOOLEAN /\ failed' \in BOOLEAN /\ stopped' \in BOOLEAN
        /\ registered' \in BOOLEAN /\ stage' \in {"init", "event", "idle"}
    BY <1>1 DEF EventInit, EventOther, ReturnInit, ReturnEvent, AppInv, ApplicationTypeOK
  <2>2. ~ended
    BY <1>1 DEF EventInit, EventOther, ReturnInit, ReturnEvent, Listening, Stopped, AppInv, Over
  <2>3. Over'
    BY <2>1, <2>2 DEF Over
  <2>4. buttonQueue' \in 0 .. ButtonEvents /\ ended' \in BOOLEAN
    BY <2>1 DEF AppInv, ApplicationTypeOK, controls
  <2>5. stage' \in GameStages \cup {"idle", "frame"}
    BY <2>1 DEF GameStages
  <2>6. UNCHANGED <<autoLockDisabled, crankTracked, crankInitial, settings, buttons>>
    BY <2>1 DEF controls
  <2> QED
    BY <2>1, <2>3, <2>4, <2>5, <2>6, LifecycleKeeps
<1>2. CASE EventTerminate
  <2>1. Cleared \in [Bitmaps -> 0 .. 1] /\ \A c \in Bitmaps : Cleared[c] = 0
    BY UsersOfImage DEF AppInv
  <2>2. /\ stage' = "terminate" /\ systemTerminating' = TRUE
        /\ buttons' = FALSE /\ buttonQueue' = 0
        /\ nativeImage' = Nothing /\ users' = Cleared /\ image' = Nothing
        /\ autoLockDisabled' = FALSE /\ crankTracked' = FALSE
        /\ UNCHANGED <<initialized, failed, stopped, registered, ended, crankInitial, motion,
                       menuVars, closedBitmaps, atStart>>
    BY <1>2 DEF EventTerminate
  <2>3. settings' = [settings EXCEPT
                       !.autoLock = IF autoLockDisabled THEN FALSE ELSE settings.autoLock,
                       !.crank = IF crankTracked THEN crankInitial ELSE settings.crank]
    BY <1>2 DEF EventTerminate
  <2>4. ~ended
    BY <1>2 DEF EventTerminate, Listening, Stopped, AppInv, Over
  <2>5. settings'.autoLock = FALSE /\ settings'.crank = atStart.crank
        /\ settings'.accelerometer = settings.accelerometer
    BY <2>3 DEF AppInv, ApplicationTypeOK, SettingsRecorded
  <2>6. settings' \in [autoLock : BOOLEAN, crank : BOOLEAN, accelerometer : BOOLEAN]
    BY <2>3 DEF AppInv, ApplicationTypeOK
  <2>7. ApplicationTypeOK'
    <3>1. /\ initialized' \in BOOLEAN /\ failed' \in BOOLEAN /\ stopped' \in BOOLEAN
          /\ registered' \in BOOLEAN /\ systemTerminating' \in BOOLEAN /\ ended' \in BOOLEAN
          /\ autoLockDisabled' \in BOOLEAN /\ crankTracked' \in BOOLEAN /\ buttons' \in BOOLEAN
          /\ crankInitial' \in BOOLEAN /\ accelerometerEnabled' \in BOOLEAN
      BY <2>2 DEF AppInv, ApplicationTypeOK, motion
    <3>2. /\ stage' \in GameStages \cup {"idle", "frame"}
          /\ buttonQueue' \in 0 .. ButtonEvents
      BY <2>2 DEF GameStages
    <3>3. /\ users' \in [Bitmaps -> 0 .. 1] /\ closedBitmaps' \in SUBSET Bitmaps
          /\ image' \in Bitmaps \cup {Nothing} /\ nativeImage' \in Bitmaps \cup {Nothing}
      BY <2>1, <2>2 DEF AppInv, ApplicationTypeOK
    <3>4. /\ created' \in 0 .. Items /\ handle' \in [MenuItems -> Handles \cup {Nothing}]
          /\ menu' \in [Handles -> 0 .. Items] /\ menuCallbacks' \in SUBSET MenuItems
          /\ atStart' \in [autoLock : BOOLEAN, crank : BOOLEAN, accelerometer : BOOLEAN]
      BY <2>2 DEF AppInv, ApplicationTypeOK, menuVars
    <3> QED
      BY <2>6, <3>1, <3>2, <3>3, <3>4 DEF ApplicationTypeOK
  <2>8. SettingsRecorded' /\ Restored'
    BY <2>2, <2>5 DEF AppInv, SettingsRecorded, Restored, motion
  <2>9. ImageCounted'
    BY <2>1, <2>2 DEF AppInv, ApplicationTypeOK, ImageCounted
  <2>10. MenuItemsOwned' /\ NoHandleBefore'
    BY <2>2 DEF AppInv, MenuItemsOwned, NoHandleBefore, menuVars
  <2>11. Over'
    BY <2>2, <2>4 DEF Over
  <2> QED
    BY <2>7, <2>8, <2>9, <2>10, <2>11 DEF AppInv
<1>3. CASE ReturnTerminate
  <2>1. /\ stage = "terminate" /\ stage' = "idle" /\ ended' = TRUE
        /\ accelerometerEnabled' = FALSE
        /\ RemoveItems(1 .. created)
        /\ UNCHANGED <<initialized, registered, systemTerminating, autoLockDisabled,
                       crankTracked, crankInitial, buttons, buttonQueue, images, atStart>>
    BY <1>3 DEF ReturnTerminate
  <2>2. stopped' \in BOOLEAN /\ failed' \in BOOLEAN /\ (failed' \/ stopped')
    <3>1. PICK ok \in BOOLEAN : stopped' = ok /\ failed' = ~ok
      BY <1>3 DEF ReturnTerminate
    <3> QED
      BY <3>1
  <2>3. settings' = [settings EXCEPT
                       !.accelerometer = IF accelerometerEnabled THEN FALSE
                                         ELSE settings.accelerometer]
    BY <1>3 DEF ReturnTerminate
  <2>4. /\ menu' \in [Handles -> 0 .. Items]
        /\ menuCallbacks' \in SUBSET MenuItems
        /\ handle' \in [MenuItems -> Handles \cup {Nothing}]
        /\ MenuItemsOwned'
        /\ NoHandleBefore'
        /\ \A h \in Handles : menu'[h] = Nothing
    BY <2>1, RemovalKeepsMenu DEF AppInv
  <2>5. settings' \in [autoLock : BOOLEAN, crank : BOOLEAN, accelerometer : BOOLEAN]
    BY <2>3 DEF AppInv, ApplicationTypeOK
  <2>6. settings'.accelerometer = FALSE /\ settings'.autoLock = settings.autoLock
        /\ settings'.crank = settings.crank
    BY <2>3 DEF AppInv, ApplicationTypeOK, SettingsRecorded
  <2>7. created' = created
    BY <2>1 DEF RemoveItems
  <2>8. ApplicationTypeOK'
    <3>1. /\ stage' \in GameStages \cup {"idle", "frame"}
          /\ ended' \in BOOLEAN /\ accelerometerEnabled' \in BOOLEAN
      BY <2>1
    <3>2. /\ initialized' \in BOOLEAN /\ registered' \in BOOLEAN /\ systemTerminating' \in BOOLEAN
          /\ autoLockDisabled' \in BOOLEAN /\ crankTracked' \in BOOLEAN
          /\ crankInitial' \in BOOLEAN /\ buttons' \in BOOLEAN
      BY <2>1 DEF AppInv, ApplicationTypeOK
    <3>3. /\ atStart' \in [autoLock : BOOLEAN, crank : BOOLEAN, accelerometer : BOOLEAN]
          /\ buttonQueue' \in 0 .. ButtonEvents /\ created' \in 0 .. Items
          /\ image' \in Bitmaps \cup {Nothing} /\ nativeImage' \in Bitmaps \cup {Nothing}
          /\ users' \in [Bitmaps -> 0 .. 1] /\ closedBitmaps' \in SUBSET Bitmaps
      BY <2>1, <2>7 DEF AppInv, ApplicationTypeOK, images
    <3> QED
      BY <2>2, <2>4, <2>5, <3>1, <3>2, <3>3 DEF ApplicationTypeOK
  <2>9. SettingsRecorded' /\ Restored' /\ ImageCounted'
    BY <2>1, <2>6 DEF AppInv, SettingsRecorded, Restored, ImageCounted, images
  <2>10. Over'
    BY <2>1, <2>2, <2>4 DEF AppInv, Over
  <2> QED
    BY <2>4, <2>8, <2>9, <2>10 DEF AppInv
<1> QED
  BY <1>1, <1>2, <1>3 DEF Event

(* A frame, a transition of a button and a selection in the menu. *)
LEMMA FrameKeeps ==
  ASSUME HandlesAreSome, AppInv,
         FrameStep \/ ButtonPressed \/ (\E h \in Handles : MenuSelected(h)) \/ ReturnMenu
  PROVE  AppInv'
<1> USE DEF HandlesAreSome, Nothing
<1>1. /\ UNCHANGED <<motion, menuVars, images, atStart, systemTerminating, ended, registered,
                     initialized, stopped>>
      /\ UNCHANGED <<autoLockDisabled, crankTracked, crankInitial, settings, buttons>>
      /\ failed' \in BOOLEAN
      /\ stage' \in GameStages \cup {"idle", "frame"}
  BY DEF FrameStep, BeginFrame, PollButton, ReturnButton, Update, UpdateRefused, ReturnUpdate,
         StageOnly, ButtonPressed, MenuSelected, ReturnMenu, controls, lifecycle, AppInv, ApplicationTypeOK,
         GameStages
<1>2. buttonQueue' \in 0 .. ButtonEvents
  BY DEF FrameStep, BeginFrame, PollButton, ReturnButton, Update, UpdateRefused, ReturnUpdate,
         StageOnly, ButtonPressed, MenuSelected, ReturnMenu, controls, AppInv, ApplicationTypeOK
<1>3. ended => stage' \in {"idle", "frame"} /\ failed' = failed
  <2> SUFFICES ASSUME ended PROVE stage' \in {"idle", "frame"} /\ failed' = failed
    OBVIOUS
  <2>1. /\ ~buttons /\ (failed \/ stopped) /\ stage \in {"idle", "frame"}
        /\ \A h \in Handles : menu[h] \notin menuCallbacks
    BY DEF AppInv, Over, Restored, MenuItemsOwned
  <2> QED
    BY <2>1 DEF FrameStep, BeginFrame, PollButton, ReturnButton, Update, UpdateRefused, ReturnUpdate,
                StageOnly, Stopped, ButtonPressed, MenuSelected, ReturnMenu, lifecycle
<1>4. stage' = "terminate" => stage = "terminate"
  BY DEF FrameStep, BeginFrame, PollButton, ReturnButton, Update, UpdateRefused, ReturnUpdate,
         StageOnly, ButtonPressed, MenuSelected, ReturnMenu, lifecycle
<1>5. Over'
  BY <1>1, <1>3, <1>4 DEF AppInv, Over, motion, menuVars
<1> QED
  BY <1>1, <1>2, <1>5, LifecycleKeeps DEF AppInv, ApplicationTypeOK

-----------------------------------------------------------------------------
LEMMA Initially ==
  ASSUME HandlesAreSome, ApplicationInit
  PROVE  AppInv
<1> USE DEF HandlesAreSome, Nothing
<1>1. PICK crank \in BOOLEAN :
        settings = [autoLock |-> FALSE, crank |-> crank, accelerometer |-> FALSE]
  BY DEF ApplicationInit
<1>2. ApplicationTypeOK
  <2>1. /\ settings \in [autoLock : BOOLEAN, crank : BOOLEAN, accelerometer : BOOLEAN]
        /\ atStart \in [autoLock : BOOLEAN, crank : BOOLEAN, accelerometer : BOOLEAN]
    BY <1>1 DEF ApplicationInit
  <2>2. /\ handle \in [MenuItems -> Handles \cup {Nothing}]
        /\ menu \in [Handles -> 0 .. Items]
        /\ users \in [Bitmaps -> 0 .. 1]
        /\ created \in 0 .. Items /\ buttonQueue \in 0 .. ButtonEvents
    BY DEF ApplicationInit
  <2>3. /\ menuCallbacks \in SUBSET MenuItems /\ closedBitmaps \in SUBSET Bitmaps
        /\ image \in Bitmaps \cup {Nothing} /\ nativeImage \in Bitmaps \cup {Nothing}
        /\ stage \in GameStages \cup {"idle", "frame"}
    BY DEF ApplicationInit
  <2>4. /\ initialized \in BOOLEAN /\ failed \in BOOLEAN /\ stopped \in BOOLEAN
        /\ registered \in BOOLEAN /\ systemTerminating \in BOOLEAN /\ ended \in BOOLEAN
        /\ autoLockDisabled \in BOOLEAN /\ crankTracked \in BOOLEAN /\ crankInitial \in BOOLEAN
        /\ accelerometerEnabled \in BOOLEAN /\ buttons \in BOOLEAN
    BY DEF ApplicationInit
  <2> QED
    BY <2>1, <2>2, <2>3, <2>4 DEF ApplicationTypeOK
<1>3. SettingsRecorded /\ Restored /\ Over
  BY <1>1 DEF ApplicationInit, SettingsRecorded, Restored, Over
<1>4. ImageCounted /\ NoHandleBefore
  BY DEF ApplicationInit, ImageCounted, NoHandleBefore
<1>5. MenuItemsOwned
  BY DEF ApplicationInit, MenuItemsOwned
<1> QED
  BY <1>2, <1>3, <1>4, <1>5 DEF AppInv

LEMMA Stuttering ==
  ASSUME AppInv, UNCHANGED application
  PROVE  AppInv'
<1>1. UNCHANGED <<lifecycle, controls, motion, menuVars, images, atStart>>
  BY DEF application
<1>2. ApplicationTypeOK'
  BY <1>1 DEF AppInv, ApplicationTypeOK, lifecycle, controls, motion, menuVars, images
<1> QED
  BY <1>1, <1>2 DEF AppInv, SettingsRecorded, ImageCounted, MenuItemsOwned, NoHandleBefore,
                    Restored, Over, lifecycle, controls, motion, menuVars, images

LEMMA Inductive ==
  ASSUME HandlesAreSome, AppInv, [ApplicationNext]_application
  PROVE  AppInv'
BY GameCallKeeps, EventKeeps, FrameKeeps, Stuttering DEF ApplicationNext

(* The lifecycle, the settings, the menu and the images of an application  *)
(* are what the code can represent.                                        *)
THEOREM AppTypeCorrect == ASSUME HandlesAreSome PROVE ApplicationSpec => []ApplicationTypeOK
<1>1. ApplicationInit => AppInv
  BY Initially
<1>2. AppInv /\ [ApplicationNext]_application => AppInv'
  BY Inductive
<1>3. AppInv => ApplicationTypeOK
  BY DEF AppInv
<1> QED
  BY <1>1, <1>2, <1>3, PTL DEF ApplicationSpec

(* Before the game handles its termination its settings are restored, its  *)
(* button callback is gone and no image is retained (system_control.go:22);*)
(* when it has handled it, with an error or not, the native side is as it  *)
(* was before the game (API.md, "System integration"); and until then each *)
(* native menu item is one item's and no freed bitmap is shown.            *)
THEOREM NothingStays == ASSUME HandlesAreSome PROVE ApplicationSpec => []NothingLeftBehind
<1>1. ApplicationInit => AppInv
  BY Initially
<1>2. AppInv /\ [ApplicationNext]_application => AppInv'
  BY Inductive
<1>3. ASSUME AppInv PROVE NothingLeftBehind
  <2>1. ControlsRestored
    BY <1>3 DEF AppInv, ApplicationTypeOK, Restored, SettingsRecorded, ImageCounted, ControlsRestored,
                HandlesAreSome, Nothing
  <2>2. ASSUME ended PROVE settings = atStart /\ menuCallbacks = {}
    <3>1. /\ settings.autoLock = atStart.autoLock /\ settings.crank = atStart.crank
          /\ settings.accelerometer = atStart.accelerometer
      BY <1>3, <2>2 DEF AppInv, ApplicationTypeOK, Restored, SettingsRecorded, Over
    <3>2. settings = atStart
      BY <1>3, <3>1 DEF AppInv, ApplicationTypeOK
    <3>3. menuCallbacks = {}
      BY <1>3, <2>2 DEF AppInv, MenuItemsOwned, Over
    <3> QED
      BY <3>2, <3>3
  <2>3. MenuAndMotionEnded
    BY <1>3, <2>2 DEF AppInv, Over, MenuAndMotionEnded
  <2>4. MenuItemsOwned /\ MenuImageAlive
    BY <1>3 DEF AppInv, ImageCounted, MenuImageAlive
  <2> QED
    BY <2>1, <2>3, <2>4 DEF NothingLeftBehind
<1> QED
  BY <1>1, <1>2, <1>3, PTL DEF ApplicationSpec

(* No step after the termination of the game starts code of it: frames,    *)
(* waiting transitions of buttons, selections in the menu and events may   *)
(* still arrive, but find the runtime stopped, the callback gone, the menu *)
(* empty.                                                                  *)
THEOREM StaysSilent == ASSUME HandlesAreSome PROVE ApplicationSpec => SilentAfterTermination
<1>1. ApplicationInit => AppInv
  BY Initially
<1>2. AppInv /\ [ApplicationNext]_application => AppInv'
  BY Inductive
<1>3. AppInv /\ AppInv' /\ [ApplicationNext]_application => [CodeStarts => ~ended]_application
  <2> SUFFICES ASSUME AppInv, AppInv', [ApplicationNext]_application, CodeStarts, ended PROVE FALSE
    OBVIOUS
  <2>1. ended'
    BY DEF ApplicationNext, GameCall, Event, FrameStep, EventInit, EventOther, EventTerminate, ReturnInit,
           ReturnEvent, ReturnTerminate, BeginFrame, PollButton, ReturnButton, Update,
           UpdateRefused, ReturnUpdate, StageOnly, ButtonPressed, MenuSelected, ReturnMenu,
           SetAutoLockDisabled, SetCrankSoundsDisabled, SetButtonCallback, SetMenuImage,
           ClearMenuImage, CloseBitmap, SetAccelerometerEnabled, AddMenuItem, RemoveMenuItem,
           lifecycle, application
  <2>2. stage' \in {"idle", "frame"}
    BY <2>1 DEF AppInv, Over
  <2> QED
    BY <2>2 DEF CodeStarts, InGame, GameStages
<1> QED
  BY <1>1, <1>2, <1>3, PTL DEF ApplicationSpec, SilentAfterTermination

-----------------------------------------------------------------------------
(***************************************************************************)
(* Proofs about the store, for every set of payloads, every version and    *)
(* any number of failing calls and losses of power: Save and Load          *)
(* implement the AtomicStore, and a Load returns what is stored.           *)
(*                                                                         *)
(* The value is in danger while only the backup has it.  The invariant     *)
(* says when that may be: during a swap, after a loss of power, and after  *)
(* two renames have failed; and that the backup is dropped in neither      *)
(* case.  Where rename replaces an existing file, an old backup next to a  *)
(* new file would be as dangerous, since a Load could put it in its place. *)
(***************************************************************************)
Displaced == disk.final = Absent /\ disk.backup # Absent
Stale == disk.final # Absent /\ disk.backup # Absent
RenamesFail == "rename" \in trial.faulty
Swapping == {"dropBackup", "backup", "republish", "restore"}

TaskMatchesOp ==
  /\ task = "none" <=> op = "idle"
  /\ task = "save" => op \in SaveOps \cup {"cleanup", "saved", "failed"}
  /\ task = "load" => op \in LoadOps \cup SaveOps \cup {"cleanup", "loaded", "failed"}

(* What is known of the files at each call. *)
FilesMatchOp ==
  /\ op \in SaveOps \cup {"cleanup", "dropStale"} => payload \in Payloads
  /\ op \in {"publish", "dropBackup", "backup", "republish"} => disk.temporary = Written
  /\ op = "dropBackup" => ~Displaced
  /\ op \in {"republish", "restore"} => Displaced
  /\ op \in {"cleanup", "dropStale", "loaded"} => disk.final = Written
  /\ op = "recover" => disk.backup # Absent
  /\ op \in {"restat", "read"} => disk.final # Absent
  /\ op \in {"statBackup", "recover"} =>
       /\ ~faulted => disk.final = Absent
       /\ ~(overwrites /\ Stale)

(* Without failing renames, rename is one step wherever it can replace.    *)
NoSwapNeeded ==
  ~RenamesFail => /\ op # "restore"
                  /\ overwrites => disk.backup = Absent /\ op \notin Swapping

(* With them, what has failed for only the backup to have the value, or    *)
(* for an old backup to be left.                                           *)
FailuresCounted ==
  RenamesFail =>
    /\ op = "restore" => faults >= 1
    /\ Displaced /\ op \notin {"republish", "restore"} => faults >= 2
    /\ overwrites => /\ op \in Swapping => faults >= 1
                     /\ Stale => IF op = "cleanup" THEN faults >= 1 ELSE faults >= 2

(* A migration saves the value of the file that is older. *)
MigratesOlder ==
  task = "load" /\ op \in SaveOps =>
    /\ Recoverable \in Files
    /\ Recoverable.version < Current
    /\ Recoverable.value = payload

StoreInv ==
  /\ StoreTypeOK
  /\ TaskMatchesOp
  /\ FilesMatchOp
  /\ NoSwapNeeded
  /\ FailuresCounted
  /\ MigratesOlder
  /\ LoadFindsValue

-----------------------------------------------------------------------------
(* The filesystem. *)

Paths == {"final", "temporary", "backup"}

LEMMA DiskFields ==
  ASSUME StoreTypeOK
  PROVE  /\ disk.final \in FileStates /\ disk.temporary \in FileStates /\ disk.backup \in FileStates
         /\ disk = [final |-> disk.final, temporary |-> disk.temporary, backup |-> disk.backup]
         /\ DOMAIN disk = Paths
BY DEF StoreTypeOK, Paths

LEMMA NoFileIsAbsent ==
  ASSUME VersionsAndFiles
  PROVE  /\ Absent \notin Files /\ Absent \notin Payloads
         /\ Current \in Nat /\ Current \in 1 .. Newest
         /\ Files \subseteq FileStates /\ Absent \in FileStates /\ Torn \in FileStates
         /\ payload \in Payloads =>
              /\ Written \in Files /\ Written.version = Current /\ Written.value = payload
              /\ Written # Absent
BY DEF VersionsAndFiles, FileStates, Written, File, Files

(* A rename moves one file, or changes nothing and is not done. *)
LEMMA Renamed ==
  ASSUME StoreTypeOK, NEW from \in Paths, NEW to \in Paths \ {from}, NEW done, NEW undone,
         Rename(from, to, done, undone)
  PROVE  \/ /\ CanRename(from, to) /\ op' = done /\ NoFault
            /\ disk'[to] = disk[from] /\ disk'[from] = Absent
            /\ \A p \in Paths \ {from, to} : disk'[p] = disk[p]
            /\ disk' \in [final : FileStates, temporary : FileStates, backup : FileStates]
         \/ /\ (~CanRename(from, to) /\ NoFault) \/ Fault("rename")
            /\ op' = undone /\ disk' = disk
BY DEF Rename, StoreTypeOK, Paths, FileStates

LEMMA Removed ==
  ASSUME StoreTypeOK, NEW path \in Paths, NEW after, RemoveFile(path, after)
  PROVE  /\ op' = after
         /\ \A p \in Paths \ {path} : disk'[p] = disk[p]
         /\ disk' \in [final : FileStates, temporary : FileStates, backup : FileStates]
         /\ \/ disk'[path] = Absent /\ NoFault
            \/ disk' = disk /\ Fault("remove")
BY DEF RemoveFile, StoreTypeOK, Paths, FileStates

(* A call that fails on its own is counted, and there was one left.        *)
LEMMA Counted ==
  ASSUME StoreTypeOK, TrialsBounded, NEW kind, NoFault \/ Fault(kind)
  PROVE  /\ faults' \in 0 .. trial.faults /\ faulted' \in BOOLEAN
         /\ faults \in Nat /\ faults' \in Nat /\ faults' >= faults
         /\ RenamesFail => faults' <= 2
         /\ \/ faults' = faults /\ faulted' = faulted
            \/ kind \in trial.faulty /\ faults' = faults + 1 /\ faulted' = TRUE
<1>1. trial \in Trials /\ faults \in 0 .. trial.faults /\ trial.faults \in Nat
  BY DEF StoreTypeOK, TrialsBounded
<1>2. RenamesFail => trial.faults <= 2
  BY <1>1 DEF TrialsBounded, RenamesFail
<1>3. CASE NoFault
  BY <1>1, <1>2, <1>3 DEF NoFault, StoreTypeOK
<1>4. CASE Fault(kind)
  <2>1. kind \in trial.faulty /\ faults < trial.faults
    BY <1>4 DEF Fault
  <2>2. faults' = faults + 1 /\ faulted' = TRUE
    BY <1>4 DEF Fault
  <2>3. faults + 1 \in 0 .. trial.faults
    BY <1>1, <2>1
  <2>4. faults \in Nat /\ faults' \in Nat /\ faults' >= faults /\ (RenamesFail => faults' <= 2)
    BY <1>1, <1>2, <2>2, <2>3
  <2>5. faulted' \in BOOLEAN
    BY <2>2
  <2>6. faults' \in 0 .. trial.faults
    BY <2>2, <2>3
  <2> QED
    BY <2>1, <2>2, <2>4, <2>5, <2>6, Zenon
<1> QED
  BY <1>3, <1>4

-----------------------------------------------------------------------------
(* One lemma for every action of a Save. *)

LEMMA PublishKept ==
  ASSUME VersionsAndFiles, TrialsBounded, StoreInv, Publish
  PROVE  StoreInv'
<1>1. /\ op = "publish" /\ UNCHANGED <<trial, overwrites, task, payload, crashes>>
      /\ Rename("temporary", "final", "cleanup", "dropBackup")
  BY DEF Publish, Keep
<1>2. /\ payload \in Payloads /\ disk.temporary = Written
      /\ Written \in Files /\ Written # Absent /\ Written' = Written
  BY <1>1, NoFileIsAbsent DEF StoreInv, FilesMatchOp, SaveOps, Written
<1>3. TaskMatchesOp' /\ op' \in {"cleanup", "dropBackup"}
  BY <1>1 DEF StoreInv, TaskMatchesOp, Rename, SaveOps, LoadOps
<1>4. CASE /\ CanRename("temporary", "final") /\ op' = "cleanup" /\ NoFault
           /\ disk'.final = disk.temporary /\ disk'.backup = disk.backup
           /\ disk' \in [final : FileStates, temporary : FileStates, backup : FileStates]
  <2>1. StoreTypeOK'
    BY <1>1, <1>4 DEF StoreInv, StoreTypeOK, NoFault
  <2>2. FilesMatchOp'
    BY <1>1, <1>2, <1>4 DEF FilesMatchOp, SaveOps
  <2>3. NoSwapNeeded' /\ FailuresCounted'
    BY <1>1, <1>2, <1>4
       DEF StoreInv, StoreTypeOK, NoSwapNeeded, FailuresCounted, RenamesFail, Swapping, Displaced,
           Stale, NoFault
  <2>4. MigratesOlder' /\ LoadFindsValue'
    BY <1>4 DEF MigratesOlder, LoadFindsValue, SaveOps
  <2> QED
    BY <1>3, <2>1, <2>2, <2>3, <2>4 DEF StoreInv
<1>5. CASE /\ (~CanRename("temporary", "final") /\ NoFault) \/ Fault("rename")
           /\ op' = "dropBackup" /\ disk' = disk
  <2>1. /\ faults' \in 0 .. trial.faults /\ faulted' \in BOOLEAN
        /\ RenamesFail => faults' <= 2
        /\ \/ ~CanRename("temporary", "final") /\ faults' = faults
           \/ RenamesFail /\ faults' = faults + 1
    BY <1>5, Counted DEF StoreInv, NoFault, Fault, RenamesFail
  <2>2. StoreTypeOK'
    BY <1>1, <1>5, <2>1 DEF StoreInv, StoreTypeOK, SaveOps
  <2>3. ~Displaced
    BY <1>1, <1>2, <2>1 DEF StoreInv, StoreTypeOK, FailuresCounted, CanRename, Displaced
  <2>4. FilesMatchOp'
    BY <1>1, <1>2, <1>5, <2>3 DEF FilesMatchOp, Displaced
  <2>5. NoSwapNeeded'
    BY <1>1, <1>2, <1>5, <2>1
       DEF StoreInv, NoSwapNeeded, RenamesFail, Swapping, CanRename
  <2>6. FailuresCounted'
    BY <1>1, <1>2, <1>5, <2>1, <2>3
       DEF StoreInv, StoreTypeOK, FailuresCounted, RenamesFail, Swapping, CanRename, Displaced, Stale
  <2>7. MigratesOlder' /\ LoadFindsValue'
    BY <1>1, <1>5
       DEF StoreInv, MigratesOlder, LoadFindsValue, SaveOps, Recoverable
  <2> QED
    BY <1>3, <2>2, <2>4, <2>5, <2>6, <2>7 DEF StoreInv
<1>6. /\ "temporary" \in Paths /\ "final" \in Paths \ {"temporary"}
      /\ "backup" \in Paths \ {"temporary", "final"}
  BY DEF Paths
<1> QED
  BY <1>1, <1>4, <1>5, <1>6, Renamed DEF StoreInv

LEMMA BeginSaveKept ==
  ASSUME VersionsAndFiles, TrialsBounded, StoreInv, NEW v \in Payloads, BeginSave(v)
  PROVE  StoreInv'
<1>1. /\ op = "idle" /\ op' = "open" /\ task' = "save" /\ payload' = v /\ faulted' = FALSE
      /\ UNCHANGED <<trial, disk, overwrites, faults, crashes>>
  BY DEF BeginSave
<1>2. StoreTypeOK'
  BY <1>1 DEF StoreInv, StoreTypeOK, SaveOps
<1>3. TaskMatchesOp' /\ FilesMatchOp' /\ MigratesOlder' /\ LoadFindsValue'
  BY <1>1 DEF TaskMatchesOp, FilesMatchOp, MigratesOlder, LoadFindsValue, SaveOps
<1>4. NoSwapNeeded' /\ FailuresCounted'
  BY <1>1 DEF StoreInv, NoSwapNeeded, FailuresCounted, RenamesFail, Swapping, Displaced, Stale
<1> QED
  BY <1>2, <1>3, <1>4 DEF StoreInv

LEMMA OpenKept ==
  ASSUME VersionsAndFiles, TrialsBounded, StoreInv, Open
  PROVE  StoreInv'
<1>1. /\ op = "open" /\ UNCHANGED <<trial, overwrites, task, payload, crashes>>
      /\ \/ disk' = [disk EXCEPT !.temporary = Torn] /\ op' = "write" /\ NoFault
         \/ op' = "failed" /\ Fault("open") /\ UNCHANGED disk
  BY DEF Open, Keep
<1>2. /\ faults' \in 0 .. trial.faults /\ faulted' \in BOOLEAN
      /\ faults \in Nat /\ faults' >= faults
      /\ op' = "failed" => faulted'
  <2>1. NoFault \/ Fault("open")
    BY <1>1
  <2>2. op' = "failed" => faulted'
    BY <1>1 DEF Fault
  <2> QED
    BY <2>1, <2>2, Counted DEF StoreInv
<1>3. /\ disk'.final = disk.final /\ disk'.backup = disk.backup
      /\ disk' \in [final : FileStates, temporary : FileStates, backup : FileStates]
  BY <1>1 DEF StoreInv, StoreTypeOK, FileStates
<1>4. op' \in {"write", "failed"}
  BY <1>1
<1>5. StoreTypeOK'
  BY <1>1, <1>2, <1>3, <1>4 DEF StoreInv, StoreTypeOK, SaveOps
<1>6. TaskMatchesOp' /\ FilesMatchOp'
  BY <1>1, <1>4 DEF StoreInv, TaskMatchesOp, FilesMatchOp, SaveOps, LoadOps
<1>7. NoSwapNeeded' /\ FailuresCounted'
  BY <1>1, <1>2, <1>3, <1>4
     DEF StoreInv, StoreTypeOK, NoSwapNeeded, FailuresCounted, RenamesFail, Swapping, Displaced, Stale
<1>8. MigratesOlder' /\ LoadFindsValue'
  BY <1>1, <1>2, <1>3 DEF StoreInv, MigratesOlder, LoadFindsValue, SaveOps, Recoverable
<1> QED
  BY <1>5, <1>6, <1>7, <1>8 DEF StoreInv

LEMMA WriteKept ==
  ASSUME VersionsAndFiles, TrialsBounded, StoreInv, Write
  PROVE  StoreInv'
<1>1. /\ op = "write" /\ UNCHANGED <<trial, overwrites, task, payload, crashes>>
      /\ \/ disk' = [disk EXCEPT !.temporary = Written] /\ op' = "publish" /\ NoFault
         \/ /\ disk' \in {disk, [disk EXCEPT !.temporary = Written]}
            /\ op' = "failed" /\ Fault("write")
  BY DEF Write, Keep
<1>2. payload \in Payloads /\ Written \in Files /\ Written' = Written
  BY <1>1, NoFileIsAbsent DEF StoreInv, FilesMatchOp, SaveOps, Written
<1>3. /\ faults' \in 0 .. trial.faults /\ faulted' \in BOOLEAN
      /\ faults \in Nat /\ faults' >= faults
      /\ op' = "failed" => faulted'
  <2>1. NoFault \/ Fault("write")
    BY <1>1
  <2>2. op' = "failed" => faulted'
    BY <1>1 DEF Fault
  <2> QED
    BY <2>1, <2>2, Counted DEF StoreInv
<1>4. /\ disk'.final = disk.final /\ disk'.backup = disk.backup
      /\ op' = "publish" => disk'.temporary = Written
      /\ disk' \in [final : FileStates, temporary : FileStates, backup : FileStates]
  BY <1>1, <1>2 DEF StoreInv, StoreTypeOK, FileStates
<1>5. op' \in {"publish", "failed"}
  BY <1>1
<1>6. StoreTypeOK'
  BY <1>1, <1>3, <1>4, <1>5 DEF StoreInv, StoreTypeOK, SaveOps
<1>7. TaskMatchesOp' /\ FilesMatchOp'
  BY <1>1, <1>2, <1>4, <1>5 DEF StoreInv, TaskMatchesOp, FilesMatchOp, SaveOps, LoadOps
<1>8. NoSwapNeeded' /\ FailuresCounted'
  BY <1>1, <1>3, <1>4, <1>5
     DEF StoreInv, StoreTypeOK, NoSwapNeeded, FailuresCounted, RenamesFail, Swapping, Displaced, Stale
<1>9. MigratesOlder' /\ LoadFindsValue'
  BY <1>1, <1>3, <1>4 DEF StoreInv, MigratesOlder, LoadFindsValue, SaveOps, Recoverable
<1> QED
  BY <1>6, <1>7, <1>8, <1>9 DEF StoreInv

LEMMA DropBackupKept ==
  ASSUME VersionsAndFiles, TrialsBounded, StoreInv, DropBackup
  PROVE  StoreInv'
<1>1. /\ op = "dropBackup" /\ UNCHANGED <<trial, overwrites, task, payload, crashes>>
      /\ RemoveFile("backup", "backup")
  BY DEF DropBackup, Keep
<1>2. /\ payload \in Payloads /\ disk.temporary = Written /\ Written' = Written /\ ~Displaced
  BY <1>1 DEF StoreInv, FilesMatchOp, SaveOps, Written
<1>3. /\ op' = "backup" /\ disk'.final = disk.final /\ disk'.temporary = disk.temporary
      /\ disk' \in [final : FileStates, temporary : FileStates, backup : FileStates]
      /\ \/ disk'.backup = Absent /\ NoFault
         \/ disk'.backup = disk.backup /\ Fault("remove")
  BY <1>1, Removed DEF StoreInv, Paths
<1>4. /\ faults' \in 0 .. trial.faults /\ faulted' \in BOOLEAN
      /\ faults \in Nat /\ faults' >= faults
  <2>1. NoFault \/ Fault("remove")
    BY <1>3
  <2> QED
    BY <2>1, Counted DEF StoreInv
<1>5. StoreTypeOK'
  BY <1>1, <1>3, <1>4 DEF StoreInv, StoreTypeOK, SaveOps
<1>6. TaskMatchesOp' /\ FilesMatchOp'
  BY <1>1, <1>2, <1>3 DEF StoreInv, TaskMatchesOp, FilesMatchOp, SaveOps, LoadOps
<1>7. NoSwapNeeded' /\ FailuresCounted'
  BY <1>1, <1>2, <1>3, <1>4
     DEF StoreInv, StoreTypeOK, NoSwapNeeded, FailuresCounted, RenamesFail, Swapping, Displaced, Stale
<1>8. Recoverable' = Recoverable
  BY <1>2, <1>3 DEF Recoverable, Displaced
<1>9. MigratesOlder' /\ LoadFindsValue'
  BY <1>1, <1>3, <1>8 DEF StoreInv, MigratesOlder, LoadFindsValue, SaveOps
<1> QED
  BY <1>5, <1>6, <1>7, <1>9 DEF StoreInv

LEMMA BackupKept ==
  ASSUME VersionsAndFiles, TrialsBounded, StoreInv, Backup
  PROVE  StoreInv'
<1>1. /\ op = "backup" /\ UNCHANGED <<trial, overwrites, task, payload, crashes>>
      /\ Rename("final", "backup", "republish", "failed")
  BY DEF Backup, Keep
<1>2. /\ payload \in Payloads /\ disk.temporary = Written /\ Written' = Written
  BY <1>1 DEF StoreInv, FilesMatchOp, SaveOps, Written
<1>3. TaskMatchesOp' /\ op' \in {"republish", "failed"}
  BY <1>1 DEF StoreInv, TaskMatchesOp, Rename, SaveOps, LoadOps
<1>4. CASE /\ CanRename("final", "backup") /\ op' = "republish" /\ NoFault
           /\ disk'.backup = disk.final /\ disk'.final = Absent
           /\ disk'.temporary = disk.temporary
           /\ disk' \in [final : FileStates, temporary : FileStates, backup : FileStates]
  <2>1. StoreTypeOK'
    BY <1>1, <1>4 DEF StoreInv, StoreTypeOK, NoFault, SaveOps
  <2>2. FilesMatchOp'
    BY <1>1, <1>2, <1>4 DEF FilesMatchOp, SaveOps, Displaced, CanRename
  <2>3. NoSwapNeeded' /\ FailuresCounted'
    BY <1>1, <1>4
       DEF StoreInv, StoreTypeOK, NoSwapNeeded, FailuresCounted, RenamesFail, Swapping, Displaced,
           Stale, NoFault
  <2>4. Recoverable' = Recoverable
    BY <1>4 DEF Recoverable, CanRename
  <2>5. MigratesOlder' /\ LoadFindsValue'
    BY <1>1, <1>4, <2>4 DEF StoreInv, MigratesOlder, LoadFindsValue, SaveOps
  <2> QED
    BY <1>3, <2>1, <2>2, <2>3, <2>5 DEF StoreInv
<1>5. CASE /\ (~CanRename("final", "backup") /\ NoFault) \/ Fault("rename")
           /\ op' = "failed" /\ disk' = disk
  <2>1. /\ faults' \in 0 .. trial.faults /\ faulted' \in BOOLEAN
        /\ faults \in Nat /\ faults' >= faults
    <3>1. NoFault \/ Fault("rename")
      BY <1>5
    <3> QED
      BY <3>1, Counted DEF StoreInv
  <2>2. StoreTypeOK'
    BY <1>1, <1>5, <2>1 DEF StoreInv, StoreTypeOK
  <2>3. FilesMatchOp' /\ MigratesOlder'
    BY <1>5 DEF FilesMatchOp, MigratesOlder, SaveOps
  <2>4. NoSwapNeeded' /\ FailuresCounted'
    BY <1>1, <1>5, <2>1
       DEF StoreInv, StoreTypeOK, NoSwapNeeded, FailuresCounted, RenamesFail, Swapping, Displaced, Stale
  <2>5. LoadFindsValue'
    <3>1. /\ task' = task /\ Recoverable' = Recoverable /\ Current \in Nat
          /\ task = "load" => Recoverable.version < Current
      BY <1>1, <1>5, NoFileIsAbsent DEF StoreInv, MigratesOlder, SaveOps, Recoverable
    <3> QED
      BY <3>1 DEF LoadFindsValue
  <2> QED
    BY <1>3, <2>2, <2>3, <2>4, <2>5 DEF StoreInv
<1>6. /\ "final" \in Paths /\ "backup" \in Paths \ {"final"}
      /\ "temporary" \in Paths \ {"final", "backup"}
  BY DEF Paths
<1> QED
  BY <1>1, <1>4, <1>5, <1>6, Renamed DEF StoreInv

LEMMA RepublishKept ==
  ASSUME VersionsAndFiles, TrialsBounded, StoreInv, Republish
  PROVE  StoreInv'
<1>1. /\ op = "republish" /\ UNCHANGED <<trial, overwrites, task, payload, crashes>>
      /\ Rename("temporary", "final", "cleanup", "restore")
  BY DEF Republish, Keep
<1>2. /\ payload \in Payloads /\ disk.temporary = Written /\ Displaced
      /\ Written \in Files /\ Written # Absent /\ Written' = Written
  BY <1>1, NoFileIsAbsent DEF StoreInv, FilesMatchOp, SaveOps, Written
<1>3. TaskMatchesOp' /\ op' \in {"cleanup", "restore"}
  BY <1>1 DEF StoreInv, TaskMatchesOp, Rename, SaveOps, LoadOps
<1>4. CASE /\ op' = "cleanup" /\ NoFault
           /\ disk'.final = disk.temporary /\ disk'.backup = disk.backup
           /\ disk' \in [final : FileStates, temporary : FileStates, backup : FileStates]
  <2>1. StoreTypeOK'
    BY <1>1, <1>4 DEF StoreInv, StoreTypeOK, NoFault
  <2>2. FilesMatchOp'
    BY <1>1, <1>2, <1>4 DEF FilesMatchOp, SaveOps
  <2>3. NoSwapNeeded' /\ FailuresCounted'
    BY <1>1, <1>2, <1>4
       DEF StoreInv, StoreTypeOK, NoSwapNeeded, FailuresCounted, RenamesFail, Swapping, Displaced,
           Stale, NoFault
  <2>4. MigratesOlder' /\ LoadFindsValue'
    BY <1>4 DEF MigratesOlder, LoadFindsValue, SaveOps
  <2> QED
    BY <1>3, <2>1, <2>2, <2>3, <2>4 DEF StoreInv
<1>5. CASE /\ (~CanRename("temporary", "final") /\ NoFault) \/ Fault("rename")
           /\ op' = "restore" /\ disk' = disk
  <2>1. Fault("rename")
    BY <1>2, <1>5 DEF CanRename, Displaced
  <2>2. /\ faults' \in 0 .. trial.faults /\ faulted' \in BOOLEAN
        /\ faults \in Nat /\ faults' = faults + 1 /\ RenamesFail
    BY <2>1, Counted DEF StoreInv, Fault, RenamesFail
  <2>3. StoreTypeOK'
    BY <1>1, <1>5, <2>2 DEF StoreInv, StoreTypeOK, SaveOps
  <2>4. FilesMatchOp'
    BY <1>1, <1>2, <1>5 DEF FilesMatchOp, Displaced, SaveOps
  <2>5. NoSwapNeeded' /\ FailuresCounted'
    BY <1>1, <1>2, <1>5, <2>2
       DEF StoreInv, StoreTypeOK, NoSwapNeeded, FailuresCounted, RenamesFail, Swapping, Displaced, Stale
  <2>6. MigratesOlder' /\ LoadFindsValue'
    BY <1>1, <1>5 DEF StoreInv, MigratesOlder, LoadFindsValue, SaveOps, Recoverable
  <2> QED
    BY <1>3, <2>3, <2>4, <2>5, <2>6 DEF StoreInv
<1>6. /\ "temporary" \in Paths /\ "final" \in Paths \ {"temporary"}
      /\ "backup" \in Paths \ {"temporary", "final"}
  BY DEF Paths
<1> QED
  BY <1>1, <1>4, <1>5, <1>6, Renamed DEF StoreInv

LEMMA RestoreKept ==
  ASSUME VersionsAndFiles, TrialsBounded, StoreInv, Restore
  PROVE  StoreInv'
<1>1. /\ op = "restore" /\ UNCHANGED <<trial, overwrites, task, payload, crashes>>
      /\ Rename("backup", "final", "failed", "failed")
  BY DEF Restore, Keep
<1>2. Displaced /\ RenamesFail /\ faults >= 1
  BY <1>1 DEF StoreInv, FilesMatchOp, NoSwapNeeded, FailuresCounted
<1>3. TaskMatchesOp' /\ op' = "failed"
  BY <1>1 DEF StoreInv, TaskMatchesOp, Rename, SaveOps, LoadOps
<1>4. /\ \/ /\ NoFault /\ disk'.final = disk.backup /\ disk'.backup = Absent
         \/ /\ (~CanRename("backup", "final") /\ NoFault) \/ Fault("rename")
            /\ disk' = disk
      /\ disk' \in [final : FileStates, temporary : FileStates, backup : FileStates]
  <2>1. "backup" \in Paths /\ "final" \in Paths \ {"backup"}
    BY DEF Paths
  <2> QED
    BY <1>1, <2>1, Renamed DEF StoreInv, StoreTypeOK
<1>5. /\ faults' \in 0 .. trial.faults /\ faulted' \in BOOLEAN
      /\ faults \in Nat /\ faults' >= faults
      /\ disk' = disk => faults' = faults + 1 \/ disk'.final # Absent
  <2>1. NoFault \/ Fault("rename")
    BY <1>4
  <2>2. disk' = disk => Fault("rename") \/ disk'.final # Absent
    BY <1>2, <1>4 DEF CanRename, Displaced
  <2>3. Fault("rename") => faults' = faults + 1
    BY DEF Fault
  <2> QED
    BY <2>1, <2>2, <2>3, Counted DEF StoreInv
<1>6. StoreTypeOK'
  BY <1>1, <1>3, <1>4, <1>5 DEF StoreInv, StoreTypeOK
<1>7. FilesMatchOp' /\ MigratesOlder'
  BY <1>3 DEF FilesMatchOp, MigratesOlder, SaveOps
<1>8. NoSwapNeeded' /\ FailuresCounted'
  BY <1>1, <1>2, <1>3, <1>4, <1>5
     DEF StoreInv, StoreTypeOK, NoSwapNeeded, FailuresCounted, RenamesFail, Swapping, Displaced, Stale
<1>9. LoadFindsValue'
  <2>1. Recoverable' = Recoverable
    BY <1>2, <1>4 DEF Recoverable, Displaced
  <2>2. task' = task /\ Current \in Nat /\ (task = "load" => Recoverable.version < Current)
    BY <1>1, NoFileIsAbsent DEF StoreInv, MigratesOlder, SaveOps
  <2> QED
    BY <2>1, <2>2 DEF LoadFindsValue
<1> QED
  BY <1>3, <1>6, <1>7, <1>8, <1>9 DEF StoreInv

LEMMA CleanupKept ==
  ASSUME VersionsAndFiles, TrialsBounded, StoreInv, Cleanup
  PROVE  StoreInv'
<1>1. /\ op = "cleanup" /\ UNCHANGED <<trial, overwrites, task, payload, crashes>>
      /\ RemoveFile("backup", IF task = "save" THEN "saved" ELSE "loaded")
  BY DEF Cleanup, Keep
<1>2. disk.final = Written /\ Written # Absent /\ Written' = Written
  BY <1>1, NoFileIsAbsent DEF StoreInv, FilesMatchOp, Written
<1>3. /\ op' = (IF task = "save" THEN "saved" ELSE "loaded")
      /\ disk'.final = disk.final
      /\ disk' \in [final : FileStates, temporary : FileStates, backup : FileStates]
      /\ \/ disk'.backup = Absent /\ NoFault
         \/ disk' = disk /\ Fault("remove")
  BY <1>1, Removed DEF StoreInv, Paths
<1>4. /\ faults' \in 0 .. trial.faults /\ faulted' \in BOOLEAN
      /\ faults \in Nat /\ faults' \in Nat /\ faults' >= faults
      /\ disk'.backup # Absent => faults' = faults + 1
  <2>1. NoFault \/ Fault("remove")
    BY <1>3
  <2>2. disk'.backup # Absent => faults' = faults + 1
    BY <1>3 DEF Fault
  <2> QED
    BY <2>1, <2>2, Counted DEF StoreInv
<1>5. StoreTypeOK' /\ TaskMatchesOp'
  BY <1>1, <1>3, <1>4 DEF StoreInv, StoreTypeOK, TaskMatchesOp, SaveOps, LoadOps
<1>6. FilesMatchOp' /\ MigratesOlder' /\ LoadFindsValue'
  BY <1>2, <1>3 DEF FilesMatchOp, MigratesOlder, LoadFindsValue, SaveOps
<1>7. NoSwapNeeded' /\ FailuresCounted'
  BY <1>1, <1>2, <1>3, <1>4
     DEF StoreInv, StoreTypeOK, NoSwapNeeded, FailuresCounted, RenamesFail, Swapping, Displaced, Stale
<1> QED
  BY <1>5, <1>6, <1>7 DEF StoreInv

-----------------------------------------------------------------------------
(* One lemma for every action of a Load. *)

LEMMA BeginLoadKept ==
  ASSUME VersionsAndFiles, TrialsBounded, StoreInv, BeginLoad
  PROVE  StoreInv'
<1>1. /\ op = "idle" /\ op' = "stat" /\ task' = "load" /\ faulted' = FALSE
      /\ UNCHANGED <<trial, disk, overwrites, payload, faults, crashes>>
  BY DEF BeginLoad
<1>2. StoreTypeOK'
  BY <1>1 DEF StoreInv, StoreTypeOK, LoadOps
<1>3. TaskMatchesOp' /\ FilesMatchOp' /\ MigratesOlder' /\ LoadFindsValue'
  BY <1>1 DEF TaskMatchesOp, FilesMatchOp, MigratesOlder, LoadFindsValue, SaveOps, LoadOps
<1>4. NoSwapNeeded' /\ FailuresCounted'
  BY <1>1 DEF StoreInv, NoSwapNeeded, FailuresCounted, RenamesFail, Swapping, Displaced, Stale
<1> QED
  BY <1>2, <1>3, <1>4 DEF StoreInv

(* What the three Stats have in common. *)
LEMMA StatDoes ==
  ASSUME TrialsBounded, StoreInv, NEW path \in Paths, NEW found \in LoadOps,
         NEW missing \in {"statBackup", "failed"}, op \in LoadOps, StatOf(path, found, missing)
  PROVE  /\ UNCHANGED <<trial, overwrites, task, payload, crashes, disk>>
         /\ op' \in {found, missing}
         /\ op' \in LoadOps \cup {"failed"}
         /\ \/ disk[path] # Absent /\ op' = found /\ faults' = faults /\ faulted' = faulted
            \/ op' = missing /\ faults' = faults + 1 /\ faulted'
            \/ /\ disk[path] = Absent /\ op' = missing
               /\ faults' = faults /\ faulted' = faulted
         /\ RenamesFail => faults' <= 2
         /\ faults \in Nat
         /\ StoreTypeOK' /\ TaskMatchesOp'
         /\ found # "dropStale" => MigratesOlder'
<1>1. /\ UNCHANGED <<trial, overwrites, task, payload, crashes, disk>>
      /\ op' \in {found, missing}
      /\ op' \in LoadOps \cup {"failed"}
      /\ NoFault \/ Fault("stat")
  BY DEF StatOf, Keep, LoadOps
<1>2. \/ disk[path] # Absent /\ op' = found /\ faults' = faults /\ faulted' = faulted
      \/ op' = missing /\ faults' = faults + 1 /\ faulted'
      \/ /\ disk[path] = Absent /\ op' = missing
         /\ faults' = faults /\ faulted' = faulted
  BY DEF StatOf, NoFault, Fault
<1>3. /\ faults' \in 0 .. trial.faults /\ faulted' \in BOOLEAN
      /\ faults \in Nat
      /\ RenamesFail => faults' <= 2
  BY <1>1, Counted DEF StoreInv
<1>4. StoreTypeOK'
  BY <1>1, <1>3 DEF StoreInv, StoreTypeOK
<1>5. TaskMatchesOp' /\ MigratesOlder'
  BY <1>1 DEF StoreInv, TaskMatchesOp, MigratesOlder, SaveOps, LoadOps
<1> QED
  BY <1>1, <1>2, <1>3, <1>4, <1>5, Zenon

LEMMA StatKept ==
  ASSUME VersionsAndFiles, TrialsBounded, StoreInv, Stat
  PROVE  StoreInv'
<1>1. op = "stat" /\ StatOf("final", "read", "statBackup")
  BY DEF Stat
<1>2. /\ UNCHANGED <<trial, overwrites, task, payload, crashes, disk>>
      /\ \/ disk.final # Absent /\ op' = "read" /\ faults' = faults /\ faulted' = faulted
         \/ op' = "statBackup" /\ faults' = faults + 1 /\ faulted'
         \/ /\ disk.final = Absent /\ op' = "statBackup"
            /\ faults' = faults /\ faulted' = faulted
      /\ RenamesFail => faults' <= 2
      /\ faults \in Nat
      /\ StoreTypeOK' /\ TaskMatchesOp' /\ MigratesOlder'
  <2>1. "final" \in Paths /\ "read" \in LoadOps /\ "stat" \in LoadOps /\ "read" # "dropStale"
    BY DEF Paths, LoadOps
  <2> QED
    BY <1>1, <2>1, StatDoes
<1>3. op' \in {"read", "statBackup"}
  BY <1>2
(* A Stat that fails where rename replaces finds no old backup. *)
<1>4. faults' = faults + 1 => ~(overwrites /\ Stale)
  BY <1>1, <1>2 DEF StoreInv, NoSwapNeeded, FailuresCounted, Stale
<1>5. FilesMatchOp'
  BY <1>2, <1>3, <1>4 DEF FilesMatchOp, SaveOps, Stale
<1>6. NoSwapNeeded' /\ FailuresCounted'
  BY <1>1, <1>2, <1>3
     DEF StoreInv, NoSwapNeeded, FailuresCounted, RenamesFail, Swapping, Displaced, Stale
<1>7. LoadFindsValue'
  BY <1>3 DEF LoadFindsValue
<1> QED
  BY <1>2, <1>5, <1>6, <1>7 DEF StoreInv

LEMMA StatBackupKept ==
  ASSUME VersionsAndFiles, TrialsBounded, StoreInv, StatBackup
  PROVE  StoreInv'
<1>1. op = "statBackup" /\ StatOf("backup", "recover", "failed")
  BY DEF StatBackup
<1>2. /\ UNCHANGED <<trial, overwrites, task, payload, crashes, disk>>
      /\ \/ disk.backup # Absent /\ op' = "recover" /\ faults' = faults /\ faulted' = faulted
         \/ op' = "failed" /\ faults' = faults + 1 /\ faulted'
         \/ /\ disk.backup = Absent /\ op' = "failed"
            /\ faults' = faults /\ faulted' = faulted
      /\ faults \in Nat
      /\ StoreTypeOK' /\ TaskMatchesOp' /\ MigratesOlder'
  <2>1. /\ "backup" \in Paths /\ "recover" \in LoadOps /\ "statBackup" \in LoadOps
        /\ "recover" # "dropStale"
    BY DEF Paths, LoadOps
  <2> QED
    BY <1>1, <2>1, StatDoes
<1>3. op' \in {"recover", "failed"}
  BY <1>2
<1>4. /\ ~faulted => disk.final = Absent
      /\ ~(overwrites /\ Stale)
  BY <1>1 DEF StoreInv, FilesMatchOp
<1>5. FilesMatchOp'
  BY <1>2, <1>3, <1>4 DEF FilesMatchOp, SaveOps, Stale
<1>6. NoSwapNeeded' /\ FailuresCounted'
  BY <1>1, <1>2, <1>3
     DEF StoreInv, NoSwapNeeded, FailuresCounted, RenamesFail, Swapping, Displaced, Stale
<1>7. LoadFindsValue'
  BY <1>2, <1>4, NoFileIsAbsent DEF LoadFindsValue, Recoverable
<1> QED
  BY <1>2, <1>5, <1>6, <1>7 DEF StoreInv

LEMMA RecoverKept ==
  ASSUME VersionsAndFiles, TrialsBounded, StoreInv, Recover
  PROVE  StoreInv'
<1>1. /\ op = "recover" /\ UNCHANGED <<trial, overwrites, task, payload, crashes>>
      /\ Rename("backup", "final", "restat", "failed")
  BY DEF Recover, Keep
<1>2. /\ disk.backup # Absent
      /\ ~faulted => disk.final = Absent
      /\ ~(overwrites /\ Stale)
  BY <1>1 DEF StoreInv, FilesMatchOp
<1>3. TaskMatchesOp' /\ op' \in {"restat", "failed"}
  BY <1>1 DEF StoreInv, TaskMatchesOp, Rename, SaveOps, LoadOps
<1>4. MigratesOlder'
  BY <1>3 DEF MigratesOlder, SaveOps
<1>5. CASE /\ op' = "restat" /\ NoFault
           /\ disk'.final = disk.backup /\ disk'.backup = Absent
           /\ disk' \in [final : FileStates, temporary : FileStates, backup : FileStates]
  <2>1. StoreTypeOK'
    BY <1>1, <1>5 DEF StoreInv, StoreTypeOK, NoFault, LoadOps
  <2>2. FilesMatchOp' /\ LoadFindsValue'
    BY <1>2, <1>5 DEF FilesMatchOp, LoadFindsValue, SaveOps
  <2>3. NoSwapNeeded' /\ FailuresCounted'
    BY <1>1, <1>2, <1>5
       DEF StoreInv, NoSwapNeeded, FailuresCounted, RenamesFail, Swapping, Displaced, Stale
  <2> QED
    BY <1>3, <1>4, <2>1, <2>2, <2>3 DEF StoreInv
<1>6. CASE /\ (~CanRename("backup", "final") /\ NoFault) \/ Fault("rename")
           /\ op' = "failed" /\ disk' = disk
  <2>1. NoFault \/ Fault("rename")
    BY <1>6
  <2>2. /\ faults' \in 0 .. trial.faults /\ faulted' \in BOOLEAN
        /\ faults \in Nat /\ faults' >= faults
    BY <2>1, Counted DEF StoreInv
  <2>3. StoreTypeOK'
    BY <1>1, <1>6, <2>2 DEF StoreInv, StoreTypeOK
  <2>4. FilesMatchOp'
    BY <1>6 DEF FilesMatchOp, SaveOps
  <2>5. NoSwapNeeded' /\ FailuresCounted'
    BY <1>1, <1>6, <2>2
       DEF StoreInv, StoreTypeOK, NoSwapNeeded, FailuresCounted, RenamesFail, Swapping, Displaced, Stale
  <2>6. faulted'
    BY <1>2, <1>6 DEF CanRename, NoFault, Fault, StoreInv, StoreTypeOK
  <2>7. LoadFindsValue'
    BY <2>6 DEF LoadFindsValue
  <2> QED
    BY <1>3, <1>4, <2>3, <2>4, <2>5, <2>7 DEF StoreInv
<1>7. "backup" \in Paths /\ "final" \in Paths \ {"backup"}
  BY DEF Paths
<1> QED
  BY <1>1, <1>5, <1>6, <1>7, Renamed DEF StoreInv

LEMMA RestatKept ==
  ASSUME VersionsAndFiles, TrialsBounded, StoreInv, Restat
  PROVE  StoreInv'
<1>1. op = "restat" /\ StatOf("final", "read", "failed") /\ disk.final # Absent
  BY DEF Restat, StoreInv, FilesMatchOp
<1>2. /\ UNCHANGED <<trial, overwrites, task, payload, crashes, disk>>
      /\ \/ op' = "read" /\ faults' = faults
         \/ op' = "failed" /\ faults' = faults + 1 /\ faulted'
      /\ faults \in Nat
      /\ StoreTypeOK' /\ TaskMatchesOp' /\ MigratesOlder'
  <2>1. "final" \in Paths /\ "read" \in LoadOps /\ "restat" \in LoadOps /\ "read" # "dropStale"
    BY DEF Paths, LoadOps
  <2> QED
    BY <1>1, <2>1, StatDoes
<1>3. op' \in {"read", "failed"}
  BY <1>2
<1>4. FilesMatchOp' /\ LoadFindsValue'
  BY <1>1, <1>2, <1>3 DEF FilesMatchOp, LoadFindsValue, SaveOps
<1>5. NoSwapNeeded' /\ FailuresCounted'
  BY <1>1, <1>2, <1>3
     DEF StoreInv, NoSwapNeeded, FailuresCounted, RenamesFail, Swapping, Displaced, Stale
<1> QED
  BY <1>2, <1>4, <1>5 DEF StoreInv

LEMMA ReadFailsKept ==
  ASSUME VersionsAndFiles, TrialsBounded, StoreInv, ReadFails
  PROVE  StoreInv'
<1>1. /\ op = "read" /\ op' = "failed" /\ disk.final # Absent
      /\ UNCHANGED <<trial, overwrites, task, payload, crashes, disk>>
      /\ NoFault \/ Fault("read")
      /\ \/ Fault("read")
         \/ disk.final \in {Corrupt, Torn}
         \/ disk.final \in Files /\ disk.final.version > Current
  BY DEF ReadFails, Keep, StoreInv, FilesMatchOp
<1>2. /\ faults' \in 0 .. trial.faults /\ faulted' \in BOOLEAN
      /\ faults \in Nat /\ faults' >= faults
  BY <1>1, Counted DEF StoreInv
<1>3. StoreTypeOK' /\ TaskMatchesOp'
  BY <1>1, <1>2 DEF StoreInv, StoreTypeOK, TaskMatchesOp, SaveOps, LoadOps
<1>4. FilesMatchOp' /\ MigratesOlder'
  BY <1>1 DEF FilesMatchOp, MigratesOlder, SaveOps
<1>5. NoSwapNeeded' /\ FailuresCounted'
  BY <1>1, <1>2
     DEF StoreInv, NoSwapNeeded, FailuresCounted, RenamesFail, Swapping, Displaced, Stale
<1>6. LoadFindsValue'
  <2>1. CASE Fault("read")
    BY <2>1 DEF Fault, LoadFindsValue
  <2>2. CASE ~Fault("read")
    BY <1>1, <2>2 DEF LoadFindsValue, Recoverable, VersionsAndFiles
  <2> QED
    BY <2>1, <2>2
<1> QED
  BY <1>3, <1>4, <1>5, <1>6 DEF StoreInv

LEMMA ReadCurrentKept ==
  ASSUME VersionsAndFiles, TrialsBounded, StoreInv, ReadCurrent
  PROVE  StoreInv'
<1>1. /\ op = "read" /\ op' = "dropStale" /\ payload' = disk.final.value
      /\ disk.final \in Files /\ disk.final.version = Current
      /\ UNCHANGED <<trial, disk, overwrites, task, crashes, faults, faulted>>
  BY DEF ReadCurrent, NoFault
<1>2. payload' \in Payloads /\ disk.final = Written'
  BY <1>1 DEF Files, Written, File
<1>3. StoreTypeOK' /\ TaskMatchesOp'
  BY <1>1, <1>2 DEF StoreInv, StoreTypeOK, TaskMatchesOp, SaveOps, LoadOps
<1>4. FilesMatchOp' /\ MigratesOlder' /\ LoadFindsValue'
  BY <1>1, <1>2 DEF FilesMatchOp, MigratesOlder, LoadFindsValue, SaveOps
<1>5. NoSwapNeeded' /\ FailuresCounted'
  BY <1>1 DEF StoreInv, NoSwapNeeded, FailuresCounted, RenamesFail, Swapping, Displaced, Stale
<1> QED
  BY <1>3, <1>4, <1>5 DEF StoreInv

LEMMA MigrateKept ==
  ASSUME VersionsAndFiles, TrialsBounded, StoreInv, Migrate
  PROVE  StoreInv'
<1>1. /\ op = "read" /\ op' \in {"open", "failed"} /\ payload' = disk.final.value
      /\ disk.final \in Files /\ disk.final.version < Current
      /\ UNCHANGED <<trial, disk, overwrites, task, crashes, faults, faulted>>
  BY DEF Migrate, Migrated, NoFault
<1>2. payload' \in Payloads /\ disk.final # Absent /\ Current \in Nat
  BY <1>1, NoFileIsAbsent DEF Files
<1>3. StoreTypeOK' /\ TaskMatchesOp'
  BY <1>1, <1>2 DEF StoreInv, StoreTypeOK, TaskMatchesOp, SaveOps, LoadOps
<1>4. FilesMatchOp'
  BY <1>1, <1>2 DEF FilesMatchOp, SaveOps
<1>5. MigratesOlder' /\ LoadFindsValue'
  BY <1>1, <1>2 DEF MigratesOlder, LoadFindsValue, Recoverable
<1>6. NoSwapNeeded' /\ FailuresCounted'
  BY <1>1 DEF StoreInv, NoSwapNeeded, FailuresCounted, RenamesFail, Swapping, Displaced, Stale
<1> QED
  BY <1>3, <1>4, <1>5, <1>6 DEF StoreInv

LEMMA DropStaleKept ==
  ASSUME VersionsAndFiles, TrialsBounded, StoreInv, DropStale
  PROVE  StoreInv'
<1>1. /\ op = "dropStale" /\ UNCHANGED <<trial, overwrites, task, payload, crashes>>
      /\ RemoveFile("backup", "loaded")
  BY DEF DropStale, Keep
<1>2. disk.final = Written /\ Written # Absent /\ Written' = Written
  BY <1>1, NoFileIsAbsent DEF StoreInv, FilesMatchOp, Written
<1>3. /\ op' = "loaded" /\ disk'.final = disk.final
      /\ disk' \in [final : FileStates, temporary : FileStates, backup : FileStates]
      /\ \/ disk'.backup = Absent /\ NoFault
         \/ disk' = disk /\ Fault("remove")
  BY <1>1, Removed DEF StoreInv, Paths
<1>4. /\ faults' \in 0 .. trial.faults /\ faulted' \in BOOLEAN
      /\ faults \in Nat /\ faults' >= faults
  <2>1. NoFault \/ Fault("remove")
    BY <1>3
  <2> QED
    BY <2>1, Counted DEF StoreInv
<1>5. StoreTypeOK' /\ TaskMatchesOp'
  BY <1>1, <1>3, <1>4 DEF StoreInv, StoreTypeOK, TaskMatchesOp, SaveOps, LoadOps
<1>6. FilesMatchOp' /\ MigratesOlder' /\ LoadFindsValue'
  BY <1>2, <1>3 DEF FilesMatchOp, MigratesOlder, LoadFindsValue, SaveOps
<1>7. NoSwapNeeded' /\ FailuresCounted'
  BY <1>1, <1>2, <1>3, <1>4
     DEF StoreInv, StoreTypeOK, NoSwapNeeded, FailuresCounted, RenamesFail, Swapping, Displaced, Stale
<1> QED
  BY <1>5, <1>6, <1>7 DEF StoreInv

LEMMA ReturnKept ==
  ASSUME VersionsAndFiles, TrialsBounded, StoreInv, Return
  PROVE  StoreInv'
<1>1. /\ op \in {"saved", "loaded", "failed"} /\ op' = "idle" /\ task' = "none"
      /\ payload' = Absent
      /\ UNCHANGED <<trial, disk, overwrites, faults, faulted, crashes>>
  BY DEF Return
<1>2. StoreTypeOK' /\ TaskMatchesOp'
  BY <1>1 DEF StoreInv, StoreTypeOK, TaskMatchesOp
<1>3. FilesMatchOp' /\ MigratesOlder' /\ LoadFindsValue'
  BY <1>1 DEF FilesMatchOp, MigratesOlder, LoadFindsValue, SaveOps
<1>4. NoSwapNeeded' /\ FailuresCounted'
  BY <1>1 DEF StoreInv, NoSwapNeeded, FailuresCounted, RenamesFail, Swapping, Displaced, Stale
<1> QED
  BY <1>2, <1>3, <1>4 DEF StoreInv

(* Where renames fail the power stays on. *)
LEMMA CrashKept ==
  ASSUME VersionsAndFiles, TrialsBounded, StoreInv, Crash
  PROVE  StoreInv'
<1>1. /\ op' = "idle" /\ task' = "none" /\ payload' = Absent
      /\ crashes < trial.crashes /\ crashes' = crashes + 1
      /\ UNCHANGED <<trial, disk, overwrites, faults, faulted>>
  BY DEF Crash
<1>2. trial \in Trials /\ trial.crashes \in Nat /\ crashes \in 0 .. trial.crashes
  BY DEF StoreInv, StoreTypeOK, TrialsBounded
<1>3. ~RenamesFail
  BY <1>1, <1>2 DEF TrialsBounded, RenamesFail
<1>4. StoreTypeOK' /\ TaskMatchesOp'
  BY <1>1, <1>2 DEF StoreInv, StoreTypeOK, TaskMatchesOp
<1>5. FilesMatchOp' /\ MigratesOlder' /\ LoadFindsValue'
  BY <1>1 DEF FilesMatchOp, MigratesOlder, LoadFindsValue, SaveOps
<1>6. NoSwapNeeded' /\ FailuresCounted'
  BY <1>1, <1>3 DEF StoreInv, NoSwapNeeded, FailuresCounted, RenamesFail, Swapping
<1> QED
  BY <1>4, <1>5, <1>6 DEF StoreInv

-----------------------------------------------------------------------------
LEMMA StoreStarts == VersionsAndFiles /\ TrialsBounded /\ StoreInit => StoreInv
<1> SUFFICES ASSUME VersionsAndFiles, TrialsBounded, StoreInit PROVE StoreInv
  OBVIOUS
<1>1. trial \in Trials /\ trial.faults \in Nat /\ trial.crashes \in Nat
  BY DEF StoreInit, TrialsBounded
<1>2. disk \in [final : FileStates, temporary : FileStates, backup : FileStates]
  BY DEF StoreInit, FileStates
<1>3. StoreTypeOK
  <2>1. 0 \in 0 .. trial.faults /\ 0 \in 0 .. trial.crashes
    BY <1>1
  <2> QED
    BY <1>1, <1>2, <2>1, Zenon DEF StoreInit, StoreTypeOK
<1>4. TaskMatchesOp /\ FilesMatchOp /\ MigratesOlder /\ LoadFindsValue
  BY DEF StoreInit, TaskMatchesOp, FilesMatchOp, MigratesOlder, LoadFindsValue, SaveOps, LoadOps
<1>5. NoSwapNeeded /\ FailuresCounted
  BY DEF StoreInit, NoSwapNeeded, FailuresCounted, Swapping, Displaced, Stale
<1> QED
  BY <1>3, <1>4, <1>5 DEF StoreInv

LEMMA StoreKept == VersionsAndFiles /\ TrialsBounded /\ StoreInv /\ [StoreNext]_files => StoreInv'
<1> SUFFICES ASSUME VersionsAndFiles, TrialsBounded, StoreInv, [StoreNext]_files PROVE StoreInv'
  OBVIOUS
<1>1. CASE UNCHANGED files
  BY <1>1 DEF files, StoreInv, StoreTypeOK, TaskMatchesOp, FilesMatchOp, NoSwapNeeded, FailuresCounted,
      MigratesOlder, LoadFindsValue, RenamesFail, Displaced, Stale, Recoverable, Written
<1>2. CASE Save
  BY <1>2, OpenKept, WriteKept, PublishKept, DropBackupKept, BackupKept, RepublishKept,
     RestoreKept, CleanupKept DEF Save
<1>3. CASE Load
  BY <1>3, StatKept, StatBackupKept, RecoverKept, RestatKept, ReadFailsKept, ReadCurrentKept,
     MigrateKept, DropStaleKept DEF Load
<1> QED
  BY <1>1, <1>2, <1>3, BeginSaveKept, BeginLoadKept, ReturnKept, CrashKept DEF StoreNext

-----------------------------------------------------------------------------
(* Every reachable state is well typed; in particular no behaviour has     *)
(* more faults and losses of power than its trial grants.                  *)
THEOREM StoreTypeCorrect == ASSUME VersionsAndFiles, TrialsBounded PROVE StoreSpec => []StoreTypeOK
<1>1. StoreInit => StoreInv
  BY StoreStarts
<1>2. StoreInv /\ [StoreNext]_files => StoreInv'
  BY StoreKept
<1>3. StoreInv => StoreTypeOK
  BY DEF StoreInv
<1> QED
  BY <1>1, <1>2, <1>3, PTL DEF StoreSpec

(* What a Load returns is what is stored, at the current version, and a    *)
(* Load whose calls work finds the value wherever an interrupted Save left *)
(* it: store.go:120 and the README's "Load recovers the backup".           *)
THEOREM LoadsAreFaithful ==
  ASSUME VersionsAndFiles, TrialsBounded PROVE StoreSpec => []LoadsFaithfully
<1>1. StoreInit => StoreInv
  BY StoreStarts
<1>2. StoreInv /\ [StoreNext]_files => StoreInv'
  BY StoreKept
<1>3. StoreInv => LoadsFaithfully
  BY DEF StoreInv, FilesMatchOp, LoadsFaithfully, LoadedIsStored, Written
<1> QED
  BY <1>1, <1>2, <1>3, PTL DEF StoreSpec

-----------------------------------------------------------------------------
(* The store implements the AtomicStore: its value changes only when a     *)
(* Save's temporary file becomes the stored one.                           *)

Stored == ValueOf(Recoverable)

LEMMA FileMoves ==
  ASSUME VersionsAndFiles, StoreInv, Save \/ Load
  PROVE  \/ Stored' = Stored
         \/ /\ op \in {"publish", "republish"} /\ op' = "cleanup"
            /\ payload' = payload /\ Stored' = payload
<1> USE DEF Stored, Recoverable
<1>0. StoreTypeOK /\ FilesMatchOp
  BY DEF StoreInv
<1>1. CASE disk' = disk
  BY <1>1 DEF ValueOf
<1>2. CASE Open \/ Write
  BY <1>0, <1>2, DiskFields DEF Open, Write, ValueOf, StoreTypeOK
<1>3. CASE Publish \/ Republish
  <2>1. /\ payload' = payload /\ payload \in Payloads /\ disk.temporary = Written
        /\ op \in {"publish", "republish"}
    BY <1>0, <1>3 DEF Publish, Republish, Keep, FilesMatchOp, SaveOps
  <2>2. Written \in Files /\ Written # Absent /\ Written.value = payload
    BY <2>1, NoFileIsAbsent
  <2>3. disk' = disk \/ (op' = "cleanup" /\ disk'.final = disk.temporary)
    BY <1>0, <1>3, DiskFields DEF Publish, Republish, Rename, StoreTypeOK
  <2>4. CASE op' = "cleanup" /\ disk'.final = disk.temporary
    BY <2>1, <2>2, <2>4 DEF ValueOf
  <2> QED
    BY <1>1, <2>3, <2>4
<1>4. CASE DropBackup
  BY <1>0, <1>4, DiskFields DEF DropBackup, RemoveFile, FilesMatchOp, Displaced, StoreTypeOK
<1>5. CASE Backup
  BY <1>0, <1>5, DiskFields DEF Backup, Rename, CanRename, StoreTypeOK
<1>6. CASE Restore
  BY <1>0, <1>6, DiskFields DEF Restore, Rename, CanRename, FilesMatchOp, Displaced, StoreTypeOK
<1>7. CASE Cleanup \/ DropStale
  <2>1. payload \in Payloads /\ disk.final = Written
    BY <1>0, <1>7 DEF Cleanup, DropStale, FilesMatchOp
  <2>2. disk.final # Absent
    BY <2>1, NoFileIsAbsent
  <2> QED
    BY <1>0, <1>7, <2>2, DiskFields DEF Cleanup, DropStale, RemoveFile, StoreTypeOK
<1>8. CASE Recover
  BY <1>0, <1>8, DiskFields DEF Recover, Rename, CanRename, FilesMatchOp, Stale, StoreTypeOK
<1>9. Stat \/ StatBackup \/ Restat \/ ReadFails \/ ReadCurrent \/ Migrate => disk' = disk
  BY DEF Stat, StatBackup, Restat, StatOf, ReadFails, ReadCurrent, Migrate
<1> QED
  BY <1>1, <1>2, <1>3, <1>4, <1>5, <1>6, <1>7, <1>8, <1>9 DEF Save, Load

(* How the operation in progress goes on. *)
LEMMA OpMoves ==
  ASSUME StoreInv, Save \/ Load
  PROVE  /\ task' = task /\ task \in {"save", "load"}
         /\ task = "save" =>
              /\ payload' = payload
              /\ \/ op \in SaveOps /\ op' \in SaveOps \cup {"cleanup", "failed"}
                 \/ op = "cleanup" /\ op' = "saved"
<1>1. CASE Save
  <2>1. task' = task /\ payload' = payload /\ op \in SaveOps \cup {"cleanup"}
    BY <1>1
       DEF Save, Open, Write, Publish, DropBackup, Backup, Republish, Restore, Cleanup, Keep,
           SaveOps
  <2>2. task \in {"save", "load"}
    BY <2>1 DEF StoreInv, StoreTypeOK, TaskMatchesOp, SaveOps
  <2>3. op = "cleanup" => Cleanup
    BY <1>1 DEF Save, Open, Write, Publish, DropBackup, Backup, Republish, Restore
  <2>4. Cleanup => op = "cleanup" /\ (task = "save" => op' = "saved")
    BY DEF Cleanup, RemoveFile
  <2>5. Save /\ ~Cleanup => op \in SaveOps /\ op' \in SaveOps \cup {"cleanup", "failed"}
    BY DEF Save, Open, Write, Publish, DropBackup, Backup, Republish, Restore, Rename, RemoveFile,
           SaveOps
  <2> QED
    BY <1>1, <2>1, <2>2, <2>3, <2>4, <2>5
<1>2. CASE Load
  <2>1. op \in LoadOps /\ task' = task
    BY <1>2
       DEF Load, Stat, StatBackup, Recover, Restat, StatOf, ReadFails, ReadCurrent, Migrate,
           DropStale, Keep, LoadOps
  <2>2. task = "load"
    BY <2>1 DEF StoreInv, StoreTypeOK, TaskMatchesOp, LoadOps, SaveOps
  <2> QED
    BY <2>1, <2>2
<1> QED
  BY <1>1, <1>2

(* The value of a migrated file is the one that is saved again. *)
LEMMA LoadsKeepValue ==
  ASSUME VersionsAndFiles, StoreInv, Save \/ Load, task = "load"
  PROVE  Stored' = Stored
<1>1. CASE op \in {"publish", "republish"}
  <2>1. Stored = payload
    BY <1>1 DEF StoreInv, MigratesOlder, SaveOps, Stored, ValueOf
  <2> QED
    BY <2>1, FileMoves
<1> QED
  BY <1>1, FileMoves

Attempt == IF task = "save" THEN payload ELSE Absent

Outcome ==
  IF task # "save" THEN "idle"
  ELSE IF op \in SaveOps THEN "running"
  ELSE IF op = "failed" THEN "failed" ELSE "committed"

LEMMA OutcomeIs ==
  /\ task # "save" => Outcome = "idle"
  /\ task = "save" =>
       /\ op \in SaveOps => Outcome = "running"
       /\ op \in {"cleanup", "saved"} => Outcome = "committed"
       /\ op = "failed" => Outcome = "failed"
BY DEF Outcome, SaveOps

LEMMA StepsRefine ==
  ASSUME VersionsAndFiles, StoreInv, StoreInv', [StoreNext]_files
  PROVE  \/ \E v \in Payloads : /\ Outcome = "idle" /\ Attempt' = v
                              /\ Outcome' = "running" /\ Stored' = Stored
         \/ /\ Outcome = "running" /\ Stored' = Attempt
            /\ Outcome' = "committed" /\ Attempt' = Attempt
         \/ /\ Outcome = "running" /\ Outcome' = "failed"
            /\ Stored' = Stored /\ Attempt' = Attempt
         \/ /\ Outcome # "idle" /\ Attempt' = Absent
            /\ Outcome' = "idle" /\ Stored' = Stored
         \/ Stored' = Stored /\ Attempt' = Attempt /\ Outcome' = Outcome
<1>0. /\ task' # "save" => Outcome' = "idle"
      /\ task' = "save" =>
           /\ op' \in SaveOps => Outcome' = "running"
           /\ op' \in {"cleanup", "saved"} => Outcome' = "committed"
           /\ op' = "failed" => Outcome' = "failed"
  BY DEF Outcome, SaveOps
<1>1. CASE UNCHANGED files
  BY <1>1 DEF files, Stored, ValueOf, Recoverable, Attempt, Outcome
<1>2. ASSUME NEW v \in Payloads, BeginSave(v)
      PROVE  /\ Outcome = "idle" /\ Attempt' = v
             /\ Outcome' = "running" /\ Stored' = Stored
  BY <1>0, <1>2, OutcomeIs
     DEF BeginSave, StoreInv, TaskMatchesOp, Stored, ValueOf, Recoverable, Attempt, SaveOps
<1>3. CASE BeginLoad
  BY <1>0, <1>3, OutcomeIs
     DEF BeginLoad, StoreInv, TaskMatchesOp, Stored, ValueOf, Recoverable, Attempt
<1>4. CASE (Save \/ Load) /\ task = "load"
  BY <1>0, <1>4, OutcomeIs, OpMoves, LoadsKeepValue DEF Attempt
<1>5. CASE (Save \/ Load) /\ task = "save"
  <2>1. /\ task' = "save" /\ Attempt' = Attempt /\ Attempt = payload
        /\ \/ op \in SaveOps /\ op' \in SaveOps \cup {"cleanup", "failed"}
           \/ op = "cleanup" /\ op' = "saved"
    BY <1>5, OpMoves DEF Attempt
  <2>2. op' = "cleanup" /\ op \in SaveOps => Stored' = payload
    <3>1. SUFFICES ASSUME op' = "cleanup", op \in SaveOps PROVE Stored' = payload
      OBVIOUS
    <3>2. payload' = payload /\ payload \in Payloads
      BY <1>5, <3>1, OpMoves DEF StoreInv, FilesMatchOp, SaveOps
    <3>3. disk'.final = Written'
      BY <3>1 DEF StoreInv, FilesMatchOp
    <3>4. Written' = Written /\ Written \in Files /\ Written # Absent /\ Written.value = payload
      BY <3>2, NoFileIsAbsent DEF Written
    <3> QED
      BY <3>3, <3>4 DEF Stored, ValueOf, Recoverable
  <2>3. op' # "cleanup" => Stored' = Stored
    BY <1>5, FileMoves
  <2>4. CASE op \in SaveOps /\ op' \in SaveOps
    <3>1. op' # "cleanup"
      BY <2>4 DEF SaveOps
    <3> QED
      BY <1>0, <1>5, <2>1, <2>3, <2>4, <3>1, OutcomeIs
  <2>5. CASE op \in SaveOps /\ op' = "cleanup"
    BY <1>0, <1>5, <2>1, <2>2, <2>5, OutcomeIs
  <2>6. CASE op \in SaveOps /\ op' = "failed"
    BY <1>0, <1>5, <2>1, <2>3, <2>6, OutcomeIs
  <2>7. CASE op = "cleanup" /\ op' = "saved"
    BY <1>0, <1>5, <2>1, <2>3, <2>7, OutcomeIs
  <2> QED
    BY <2>1, <2>4, <2>5, <2>6, <2>7
<1>6. CASE Return \/ Crash
  <2>1. /\ task' = "none" /\ Attempt' = Absent /\ Outcome' = "idle" /\ Stored' = Stored
    BY <1>0, <1>6 DEF Return, Crash, Attempt, Stored, ValueOf, Recoverable
  <2>2. task = "save" => Outcome # "idle"
    BY OutcomeIs DEF StoreInv, TaskMatchesOp
  <2> QED
    BY <2>1, <2>2, OutcomeIs DEF Attempt
<1> QED
  BY <1>1, <1>2, <1>3, <1>4, <1>5, <1>6, OpMoves DEF StoreNext

(* Whatever fails and whenever power is lost, a Save replaces the stored   *)
(* value or leaves it, an error means it was left, and a Load never        *)
(* changes it: store.go:29 and the README's "preservation of the last      *)
(* valid value".                                                           *)
THEOREM SavesAreAtomic ==
  ASSUME VersionsAndFiles, TrialsBounded PROVE StoreSpec => SavesAtomically
<1>1. StoreInit => StoreInv
  BY StoreStarts
<1>2. StoreInv /\ [StoreNext]_files => StoreInv'
  BY StoreKept
<1>3. StoreInit => Atomic!Init
  BY DEF StoreInit, Atomic!Init
<1>4. StoreInv /\ StoreInv' /\ [StoreNext]_files => [Atomic!Next]_(Atomic!vars)
  <2> SUFFICES ASSUME StoreInv, StoreInv', [StoreNext]_files PROVE [Atomic!Next]_(Atomic!vars)
    OBVIOUS
  <2> QED
    BY StepsRefine
       DEF Stored, Attempt, Outcome, Atomic!vars, Atomic!Next, Atomic!Begin, Atomic!Commit,
           Atomic!Fail, Atomic!End
<1> QED
  BY <1>1, <1>2, <1>3, <1>4, PTL DEF StoreSpec, SavesAtomically, Atomic!Spec

-----------------------------------------------------------------------------
(***************************************************************************)
(* Proofs about the bounded queues and their poller, for any number of     *)
(* queues of any capacity: each queue is a FIFO and keeps nothing that it  *)
(* gave away, and every queue with a value gets its turn.                  *)
(*                                                                         *)
(* A queue that loses a poll comes nearer to the poller's priority by at   *)
(* least the winner and those before it, so the polls it lost and the      *)
(* distance that is left never exceed the number of queues.                *)
(***************************************************************************)
TurnComes ==
  \A q \in Indexes :
    IF length[q] = 0 THEN passed[q] = 0 ELSE passed[q] + Distance(q) <= Queues - 1

QueueInv == QueueTypeOK /\ NothingRetained /\ TurnComes

-----------------------------------------------------------------------------
(* Positions in a ring. *)

LEMMA Remainder ==
  ASSUME NEW m \in Nat \ {0}, NEW n \in Nat, n < 2 * m
  PROVE  n % m = (IF n < m THEN n ELSE n - m) /\ n % m \in 0 .. m - 1
OBVIOUS

LEMMA CellIs ==
  ASSUME SizesPositive, QueueTypeOK, NEW q \in Indexes, NEW o \in 0 .. Capacity
  PROVE  /\ CellAt(q, o) = IF head[q] + o < Capacity THEN head[q] + o ELSE head[q] + o - Capacity
         /\ CellAt(q, o) \in Cells
<1>1. Capacity \in Nat \ {0} /\ head[q] \in 0 .. Capacity - 1
  BY DEF SizesPositive, QueueTypeOK, Cells
<1>2. PICK s \in Nat : s = head[q] + o /\ s < 2 * Capacity
  BY <1>1
<1>3. s % Capacity = (IF s < Capacity THEN s ELSE s - Capacity) /\ s % Capacity \in Cells
  BY <1>1, <1>2, Remainder DEF Cells
<1>4. CellAt(q, o) = s % Capacity
  BY <1>2 DEF CellAt
<1> QED
  BY <1>1, <1>2, <1>3, <1>4

(* Two values of a queue lie in different cells. *)
LEMMA CellsDiffer ==
  ASSUME SizesPositive, QueueTypeOK, NEW q \in Indexes,
         NEW o \in 0 .. Capacity - 1, NEW p \in 0 .. Capacity - 1, CellAt(q, o) = CellAt(q, p)
  PROVE  o = p
<1>1. Capacity \in Nat \ {0} /\ head[q] \in 0 .. Capacity - 1
  BY DEF SizesPositive, QueueTypeOK, Cells
<1> QED
  BY <1>1, CellIs

LEMMA TurnIs ==
  ASSUME SizesPositive, NEW n \in Indexes, NEW o \in 0 .. Queues
  PROVE  /\ (n + o) % Queues = IF n + o < Queues THEN n + o ELSE n + o - Queues
         /\ (n + o) % Queues \in Indexes
<1>1. Queues \in Nat \ {0} /\ n \in 0 .. Queues - 1
  BY DEF SizesPositive, Indexes
<1>2. PICK s \in Nat : s = n + o /\ s < 2 * Queues
  BY <1>1
<1>3. s % Queues = (IF s < Queues THEN s ELSE s - Queues) /\ s % Queues \in Indexes
  BY <1>1, <1>2, Remainder DEF Indexes
<1> QED
  BY <1>1, <1>2, <1>3

(* How far a queue is from the poller's priority, wherever that stands. *)
LEMMA DistanceAt ==
  ASSUME SizesPositive, NEW n \in Indexes, NEW q \in Indexes
  PROVE  LET d == CHOOSE o \in Indexes : (n + o) % Queues = q
         IN  d = (IF q >= n THEN q - n ELSE q - n + Queues) /\ d \in Indexes
<1> DEFINE d == IF q >= n THEN q - n ELSE q - n + Queues
<1>1. Queues \in Nat \ {0} /\ n \in 0 .. Queues - 1 /\ q \in 0 .. Queues - 1
  BY DEF SizesPositive, Indexes
<1>2. d \in Indexes /\ (n + d) % Queues = q
  <2>1. d \in 0 .. Queues /\ d \in Indexes
    BY <1>1 DEF Indexes
  <2>2. (n + d) % Queues = IF n + d < Queues THEN n + d ELSE n + d - Queues
    BY <2>1, TurnIs
  <2> QED
    BY <1>1, <2>1, <2>2
<1>3. \A o \in Indexes : (n + o) % Queues = q => o = d
  <2> SUFFICES ASSUME NEW o \in Indexes, (n + o) % Queues = q PROVE o = d
    OBVIOUS
  <2>1. o \in 0 .. Queues - 1 /\ o \in 0 .. Queues
    BY <1>1 DEF Indexes
  <2>2. q = IF n + o < Queues THEN n + o ELSE n + o - Queues
    BY <2>1, TurnIs
  <2> QED
    BY <1>1, <2>1, <2>2
<1> HIDE DEF d
<1>4. (CHOOSE o \in Indexes : (n + o) % Queues = q) = d
  BY <1>2, <1>3
<1> QED
  BY <1>2, <1>4 DEF d

LEMMA DistanceIs ==
  ASSUME SizesPositive, next \in Indexes, NEW q \in Indexes
  PROVE  /\ Distance(q) = IF q >= next THEN q - next ELSE q - next + Queues
         /\ Distance(q) \in Indexes
BY DistanceAt DEF Distance, Turn

-----------------------------------------------------------------------------
(* Functions as sequences. *)

LEMMA FunctionAsSequence ==
  ASSUME NEW n \in Nat, NEW S, NEW f \in [1 .. n -> S]
  PROVE  f \in Seq(S) /\ Len(f) = n
OBVIOUS

LEMMA Extended ==
  ASSUME NEW n \in Nat, NEW S, NEW f \in [1 .. n -> S], NEW g \in [1 .. n + 1 -> S],
         \A i \in 1 .. n : g[i] = f[i]
  PROVE  g = Append(f, g[n + 1]) /\ Len(f) = n
<1> DEFINE h == Append(f, g[n + 1])
<1>1. f \in Seq(S) /\ Len(f) = n /\ g \in Seq(S) /\ Len(g) = n + 1 /\ g[n + 1] \in S
  BY FunctionAsSequence
<1>2. h \in Seq(S) /\ Len(h) = n + 1 /\ \A i \in 1 .. n + 1 : h[i] = g[i]
  BY <1>1
<1> QED
  BY <1>1, <1>2, SeqEqual

LEMMA Shortened ==
  ASSUME NEW n \in Nat \ {0}, NEW S, NEW f \in [1 .. n -> S], NEW g \in [1 .. n - 1 -> S],
         \A i \in 1 .. n - 1 : g[i] = f[i + 1]
  PROVE  f # <<>> /\ g = Tail(f) /\ Head(f) = f[1]
<1> DEFINE h == Tail(f)
<1>1. f \in Seq(S) /\ Len(f) = n /\ g \in Seq(S) /\ Len(g) = n - 1
  BY FunctionAsSequence
<1>2. f # <<>> /\ h \in Seq(S) /\ Len(h) = n - 1 /\ \A i \in 1 .. n - 1 : h[i] = g[i]
  BY <1>1
<1> QED
  BY <1>1, <1>2, SeqEqual

LEMMA NothingIn == ASSUME NEW S, NEW f \in [1 .. 0 -> S] PROVE f = <<>>
BY FunctionAsSequence

-----------------------------------------------------------------------------
(* Sends and receives, at one queue. *)

LEMMA Sent ==
  ASSUME SizesPositive, QueueTypeOK, NothingRetained, NEW q \in Indexes, NEW v \in Values, TrySend(q, v)
  PROVE  /\ QueueTypeOK' /\ NothingRetained'
         /\ length[q] < Capacity /\ Contents(q)' = Append(Contents(q), v)
         /\ \A p \in Indexes \ {q} : Contents(p)' = Contents(p)
<1> DEFINE c == CellAt(q, length[q])
<1>1. /\ Capacity \in Nat \ {0} /\ length[q] \in 0 .. Capacity /\ length[q] # Capacity
      /\ length[q] \in 0 .. Capacity - 1 /\ length[q] + 1 \in 0 .. Capacity
  <2>1. Capacity \in Nat \ {0} /\ length[q] \in 0 .. Capacity
    BY DEF SizesPositive, QueueTypeOK
  <2>2. length[q] # Capacity
    BY DEF TrySend, HasRoom
  <2> QED
    BY <2>1, <2>2
<1>2. c \in Cells
  BY <1>1, CellIs
<1>3. /\ values' = [values EXCEPT ![q][c] = v] /\ length' = [length EXCEPT ![q] = @ + 1]
      /\ UNCHANGED <<head, next, passed>>
  BY DEF TrySend
<1> HIDE DEF c
<1>4. /\ values' \in [Indexes -> [Cells -> Values \cup {Zero}]]
      /\ \A p \in Indexes, k \in Cells :
           values'[p][k] = IF p = q /\ k = c THEN v ELSE values[p][k]
  BY <1>2, <1>3 DEF QueueTypeOK
<1>5. /\ length' \in [Indexes -> 0 .. Capacity] /\ length'[q] = length[q] + 1
      /\ \A p \in Indexes : p # q => length'[p] = length[p]
  BY <1>1, <1>3 DEF QueueTypeOK
<1>6. QueueTypeOK'
  BY <1>3, <1>4, <1>5 DEF QueueTypeOK
<1>7. \A p \in Indexes, o \in 0 .. Capacity : CellAt(p, o)' = CellAt(p, o)
  BY <1>3 DEF CellAt
<1>8. NothingRetained'
  <2> SUFFICES ASSUME NEW p \in Indexes, NEW k \in Cells \ Occupied(p)' PROVE values'[p][k] = Zero
    BY DEF NothingRetained
  <2>1. k \notin Occupied(p) /\ ~(p = q /\ k = c)
    BY <1>1, <1>3, <1>5 DEF Occupied, CellAt, QueueTypeOK, c
  <2> QED
    BY <1>4, <2>1 DEF NothingRetained
<1>9. \A p \in Indexes \ {q} : Contents(p)' = Contents(p)
  BY <1>3, <1>4, <1>5, CellIs DEF Contents, CellAt, QueueTypeOK
<1>10. Contents(q)' = Append(Contents(q), v)
  <2>1. \A i \in 1 .. length[q] : CellAt(q, i - 1) # c /\ CellAt(q, i - 1) \in Cells
    <3> SUFFICES ASSUME NEW i \in 1 .. length[q]
                 PROVE  CellAt(q, i - 1) # c /\ CellAt(q, i - 1) \in Cells
      OBVIOUS
    <3>1. i - 1 \in 0 .. Capacity - 1 /\ i - 1 \in 0 .. Capacity /\ i - 1 # length[q]
      BY <1>1
    <3> QED
      BY <1>1, <3>1, CellsDiffer, CellIs DEF c
  <2>2. Contents(q)' = [i \in 1 .. length[q] + 1 |-> values'[q][CellAt(q, i - 1)]]
    BY <1>1, <1>3, <1>5 DEF Contents, CellAt
  <2>3. \A i \in 1 .. length[q] + 1 :
          values'[q][CellAt(q, i - 1)] =
            IF i = length[q] + 1 THEN v ELSE values[q][CellAt(q, i - 1)]
    BY <1>1, <1>2, <1>4, <2>1 DEF c
  <2>4. Contents(q) = [i \in 1 .. length[q] |-> values[q][CellAt(q, i - 1)]]
    BY DEF Contents
  <2>5. \A i \in 1 .. length[q] : values[q][CellAt(q, i - 1)] \in Values \cup {Zero}
    BY <2>1 DEF QueueTypeOK
  <2>6. /\ Contents(q) \in [1 .. length[q] -> Values \cup {Zero}]
        /\ Contents(q)' \in [1 .. length[q] + 1 -> Values \cup {Zero}]
    BY SMTT(40), <1>1, <2>2, <2>3, <2>4, <2>5
  <2>7. /\ \A i \in 1 .. length[q] : Contents(q)'[i] = Contents(q)[i]
        /\ Contents(q)'[length[q] + 1] = v
    BY <1>1, <2>2, <2>3, <2>4
  <2> QED
    BY <1>1, <2>6, <2>7, Extended
<1> QED
  BY <1>1, <1>6, <1>8, <1>9, <1>10

LEMMA QueueDropped ==
  ASSUME SizesPositive, QueueTypeOK, NothingRetained, NEW q \in Indexes, length[q] # 0, DropHead(q)
  PROVE  /\ values' \in [Indexes -> [Cells -> Values \cup {Zero}]]
         /\ head' \in [Indexes -> Cells] /\ length' \in [Indexes -> 0 .. Capacity]
         /\ NothingRetained'
         /\ Contents(q) # <<>> /\ Contents(q)' = Tail(Contents(q))
         /\ Head(Contents(q)) = values[q][head[q]]
         /\ \A p \in Indexes : p # q => length'[p] = length[p] /\ Contents(p)' = Contents(p)
<1> DEFINE c == head[q]
<1>1. /\ Capacity \in Nat \ {0} /\ length[q] \in 1 .. Capacity /\ length[q] - 1 \in 0 .. Capacity
      /\ c \in Cells /\ c \in 0 .. Capacity - 1
  <2>1. Capacity \in Nat \ {0} /\ length[q] \in 0 .. Capacity /\ c \in Cells
    BY DEF SizesPositive, QueueTypeOK
  <2> QED
    BY <2>1 DEF Cells
<1>2. /\ values' = [values EXCEPT ![q][c] = Zero]
      /\ head' = [head EXCEPT ![q] = (@ + 1) % Capacity]
      /\ length' = [length EXCEPT ![q] = @ - 1]
  BY DEF DropHead
<1>3. CellAt(q, 1) = (c + 1) % Capacity /\ CellAt(q, 1) \in Cells
  BY <1>1, CellIs DEF CellAt
<1>4. CellAt(q, 0) = c
  BY <1>1, CellIs
<1> HIDE DEF c
<1>5. /\ values' \in [Indexes -> [Cells -> Values \cup {Zero}]]
      /\ \A p \in Indexes, k \in Cells :
           values'[p][k] = IF p = q /\ k = c THEN Zero ELSE values[p][k]
  BY <1>1, <1>2 DEF QueueTypeOK
<1>6. /\ length' \in [Indexes -> 0 .. Capacity] /\ length'[q] = length[q] - 1
      /\ \A p \in Indexes : p # q => length'[p] = length[p]
  BY <1>1, <1>2 DEF QueueTypeOK
<1>7. /\ head' \in [Indexes -> Cells] /\ head'[q] = CellAt(q, 1)
      /\ \A p \in Indexes : p # q => head'[p] = head[p]
  BY <1>2, <1>3 DEF QueueTypeOK, c
(* What was the second is the first. *)
<1>8. \A o \in 0 .. Capacity - 1 : CellAt(q, o)' = CellAt(q, o + 1)
  <2> SUFFICES ASSUME NEW o \in 0 .. Capacity - 1 PROVE CellAt(q, o)' = CellAt(q, o + 1)
    OBVIOUS
  <2>1. CellAt(q, o)' = (CellAt(q, 1) + o) % Capacity
    BY <1>7 DEF CellAt
  <2>2. CellAt(q, 1) = IF c + 1 < Capacity THEN c + 1 ELSE c + 1 - Capacity
    BY <1>1, CellIs DEF c
  <2>3. CellAt(q, o + 1) =
          IF c + (o + 1) < Capacity THEN c + (o + 1) ELSE c + (o + 1) - Capacity
    BY <1>1, CellIs DEF c
  <2>4. PICK s \in Nat : s = CellAt(q, 1) + o /\ s < 2 * Capacity
    BY <1>1, <1>3 DEF Cells
  <2>5. s % Capacity = IF s < Capacity THEN s ELSE s - Capacity
    BY <1>1, <2>4, Remainder
  <2> QED
    BY <1>1, <2>1, <2>2, <2>3, <2>4, <2>5
<1>9. NothingRetained'
  <2> SUFFICES ASSUME NEW p \in Indexes, NEW k \in Cells \ Occupied(p)' PROVE values'[p][k] = Zero
    BY DEF NothingRetained
  <2>1. CASE p = q
    <3>1. CASE k = c
      BY <1>5, <2>1, <3>1
    <3>2. CASE k # c
      <4>1. k \notin Occupied(q)
        <5> SUFFICES ASSUME NEW o \in 0 .. length[q] - 1, k = CellAt(q, o) PROVE FALSE
          BY DEF Occupied
        <5>1. o # 0 /\ o - 1 \in 0 .. length'[q] - 1 /\ o - 1 \in 0 .. Capacity - 1
          BY <1>1, <1>4, <1>6, <3>2
        <5>2. CellAt(q, o - 1)' = CellAt(q, o)
          BY <1>8, <5>1
        <5>3. CellAt(q, o - 1)' \in Occupied(q)'
          BY <5>1 DEF Occupied
        <5> QED
          BY <2>1, <5>2, <5>3
      <4> QED
        BY <1>5, <2>1, <3>2, <4>1 DEF NothingRetained
    <3> QED
      BY <3>1, <3>2
  <2>2. CASE p # q
    BY <1>5, <1>6, <1>7, <2>2 DEF NothingRetained, Occupied, CellAt
  <2> QED
    BY <2>1, <2>2
<1>10. \A p \in Indexes : p # q => Contents(p)' = Contents(p)
  <2> SUFFICES ASSUME NEW p \in Indexes, p # q PROVE Contents(p)' = Contents(p)
    OBVIOUS
  <2>1. length[p] \in 0 .. Capacity
    BY DEF QueueTypeOK
  <2>2. \A i \in 1 .. length[p] : CellAt(p, i - 1) \in Cells /\ CellAt(p, i - 1)' = CellAt(p, i - 1)
    BY <1>1, <1>7, <2>1, CellIs DEF CellAt
  <2> QED
    BY <1>5, <1>6, <2>1, <2>2 DEF Contents
<1>11. \A i \in 1 .. length[q] : CellAt(q, i - 1) \in Cells
  BY <1>1, CellIs
<1>12. Contents(q) \in [1 .. length[q] -> Values \cup {Zero}]
  BY <1>11 DEF Contents, QueueTypeOK
<1>13. \A i \in 1 .. length[q] - 1 :
         /\ CellAt(q, i - 1)' = CellAt(q, i) /\ CellAt(q, i) \in Cells
         /\ values'[q][CellAt(q, i)] = values[q][CellAt(q, i)]
  <2> SUFFICES ASSUME NEW i \in 1 .. length[q] - 1
               PROVE  /\ CellAt(q, i - 1)' = CellAt(q, i) /\ CellAt(q, i) \in Cells
                      /\ values'[q][CellAt(q, i)] = values[q][CellAt(q, i)]
    OBVIOUS
  <2>1. i \in 0 .. Capacity - 1 /\ i - 1 \in 0 .. Capacity - 1 /\ i # 0 /\ (i - 1) + 1 = i
        /\ 0 \in 0 .. Capacity - 1 /\ i \in 0 .. Capacity
    BY <1>1
  <2>2. CellAt(q, i) # c /\ CellAt(q, i) \in Cells
    BY <1>4, <2>1, CellsDiffer, CellIs
  <2> QED
    BY <1>5, <1>8, <2>1, <2>2
<1>14. Contents(q)' = [i \in 1 .. length[q] - 1 |-> values'[q][CellAt(q, i - 1)']]
  BY <1>6 DEF Contents
<1>15. /\ Contents(q)' \in [1 .. length[q] - 1 -> Values \cup {Zero}]
       /\ \A i \in 1 .. length[q] - 1 : Contents(q)'[i] = Contents(q)[i + 1]
  <2>1. \A i \in 1 .. length[q] - 1 : /\ Contents(q)'[i] = values[q][CellAt(q, i)]
                                      /\ values[q][CellAt(q, i)] \in Values \cup {Zero}
    BY <1>13, <1>14 DEF QueueTypeOK
  <2>2. \A i \in 1 .. length[q] - 1 : Contents(q)[i + 1] = values[q][CellAt(q, i)]
    BY <1>1 DEF Contents
  <2> QED
    BY <1>14, <2>1, <2>2
<1>16. /\ Contents(q) # <<>> /\ Contents(q)' = Tail(Contents(q))
       /\ Head(Contents(q)) = Contents(q)[1]
  BY <1>1, <1>12, <1>15, Shortened
<1>17. Contents(q)[1] = values[q][c]
  BY <1>1, <1>4 DEF Contents
<1> QED
  BY <1>5, <1>6, <1>7, <1>9, <1>10, <1>16, <1>17 DEF c

LEMMA QueueCleared ==
  ASSUME SizesPositive, QueueTypeOK, NothingRetained, NEW q \in Indexes, Clear(q)
  PROVE  /\ QueueTypeOK' /\ NothingRetained' /\ Contents(q)' = <<>>
         /\ length'[q] = 0 /\ passed'[q] = 0
         /\ \A p \in Indexes : p # q => /\ length'[p] = length[p] /\ passed'[p] = passed[p]
                                        /\ Contents(p)' = Contents(p)
<1>1. /\ values' = [values EXCEPT ![q] = [k \in Cells |-> IF k \in Occupied(q) THEN Zero ELSE @[k]]]
      /\ head' = [head EXCEPT ![q] = 0] /\ length' = [length EXCEPT ![q] = 0]
      /\ passed' = [passed EXCEPT ![q] = 0] /\ next' = next
  BY DEF Clear
<1>2. /\ values' \in [Indexes -> [Cells -> Values \cup {Zero}]]
      /\ \A k \in Cells : values'[q][k] = Zero
      /\ \A p \in Indexes : p # q => values'[p] = values[p]
  <2> DEFINE zeroed == [k \in Cells |-> IF k \in Occupied(q) THEN Zero ELSE values[q][k]]
  <2>1. zeroed \in [Cells -> Values \cup {Zero}]
    BY DEF QueueTypeOK
  <2>2. \A k \in Cells : zeroed[k] = Zero
    BY DEF NothingRetained
  <2>3. values' = [values EXCEPT ![q] = zeroed]
    BY <1>1
  <2> HIDE DEF zeroed
  <2> QED
    BY <2>1, <2>2, <2>3 DEF QueueTypeOK
<1>3. /\ head' \in [Indexes -> Cells] /\ length' \in [Indexes -> 0 .. Capacity]
      /\ passed' \in [Indexes -> Nat]
      /\ length'[q] = 0 /\ passed'[q] = 0
      /\ \A p \in Indexes : p # q => /\ head'[p] = head[p] /\ length'[p] = length[p]
                                     /\ passed'[p] = passed[p]
  BY <1>1 DEF QueueTypeOK, SizesPositive, Cells
<1>4. QueueTypeOK'
  BY <1>1, <1>2, <1>3 DEF QueueTypeOK
<1>5. NothingRetained'
  <2> SUFFICES ASSUME NEW p \in Indexes, NEW k \in Cells \ Occupied(p)'
               PROVE  values'[p][k] = Zero
    BY DEF NothingRetained
  <2>1. CASE p = q
    BY <1>2, <2>1
  <2>2. CASE p # q
    <3>1. Occupied(p)' = Occupied(p)
      BY <1>3, <2>2 DEF Occupied, CellAt
    <3> QED
      BY <1>2, <2>2, <3>1 DEF NothingRetained
  <2> QED
    BY <2>1, <2>2
<1>6. Contents(q)' = <<>>
  <2>1. Contents(q)' = [i \in 1 .. 0 |-> values'[q][CellAt(q, i - 1)']]
    BY <1>3 DEF Contents
  <2> QED
    BY <2>1, NothingIn
<1>7. \A p \in Indexes : p # q => Contents(p)' = Contents(p)
  BY <1>2, <1>3 DEF Contents, CellAt
<1> QED
  BY <1>3, <1>4, <1>5, <1>6, <1>7

-----------------------------------------------------------------------------
(* A step touches one queue, and that as a FIFO. *)

LEMMA PollIs ==
  ASSUME Poll
  PROVE  \E q \in Indexes :
           /\ Selected(q) /\ length[q] # 0 /\ DropHead(q) /\ Received(q)
           /\ next' = (q + 1) % Queues
           /\ passed' = [p \in Indexes |->
                           IF p = q \/ length[p] = 0 THEN 0 ELSE passed[p] + 1]
BY DEF Poll, Selected

LEMMA StepsAreFifo ==
  ASSUME SizesPositive, QueueInv, QueueNext, NEW q \in Indexes
  PROVE  IF event'[1] = q THEN Abstract(q)!Next ELSE Contents(q)' = Contents(q)
<1>1. QueueTypeOK /\ NothingRetained
  BY DEF QueueInv
<1>2. ASSUME NEW p \in Indexes, length[p] # 0, DropHead(p), Received(p)
      PROVE  IF event'[1] = q THEN Abstract(q)!Next ELSE Contents(q)' = Contents(q)
  <2>1. event' = <<p, <<"pop", values[p][head[p]]>>>>
    BY <1>2 DEF Received
  <2>2. /\ Contents(p) # <<>> /\ Contents(p)' = Tail(Contents(p))
        /\ Head(Contents(p)) = values[p][head[p]]
        /\ q # p => Contents(q)' = Contents(q)
    BY <1>1, <1>2, QueueDropped
  <2> QED
    BY <2>1, <2>2 DEF Abstract!Next, Abstract!Pop
<1>3. ASSUME NEW p \in Indexes, NEW v \in Values, TrySend(p, v)
      PROVE  IF event'[1] = q THEN Abstract(q)!Next ELSE Contents(q)' = Contents(q)
  <2>1. event' = <<p, <<"push", v>>>>
    BY <1>3 DEF TrySend
  <2>2. /\ length[p] < Capacity /\ Contents(p)' = Append(Contents(p), v)
        /\ q # p => Contents(q)' = Contents(q)
    BY <1>1, <1>3, Sent
  <2>3. Len(Contents(p)) = length[p]
    BY <1>1 DEF Contents, QueueTypeOK
  <2> QED
    BY <2>1, <2>2, <2>3 DEF Abstract!Next, Abstract!Push
<1>4. ASSUME NEW p \in Indexes, Clear(p)
      PROVE  IF event'[1] = q THEN Abstract(q)!Next ELSE Contents(q)' = Contents(q)
  <2>1. event' = <<p, <<"clear">>>>
    BY <1>4 DEF Clear
  <2>2. Contents(p)' = <<>> /\ (q # p => Contents(q)' = Contents(q))
    BY <1>1, <1>4, QueueCleared
  <2> QED
    BY <2>1, <2>2 DEF Abstract!Next, Abstract!Clear
<1>5. ASSUME NEW p \in Indexes, TryReceive(p)
      PROVE  IF event'[1] = q THEN Abstract(q)!Next ELSE Contents(q)' = Contents(q)
  BY <1>2, <1>5 DEF TryReceive
<1>6. CASE Poll
  BY <1>2, <1>6, PollIs
<1> QED
  BY <1>3, <1>4, <1>5, <1>6 DEF QueueNext

-----------------------------------------------------------------------------
(* A queue that loses a poll comes nearer to its turn. *)
LEMMA TurnsComeNearer ==
  ASSUME SizesPositive, QueueInv, NEW q \in Indexes, Selected(q), next' = (q + 1) % Queues,
         NEW p \in Indexes, p # q, length[p] # 0
  PROVE  Distance(p)' + 1 <= Distance(p)
<1>1. /\ Queues \in Nat \ {0} /\ next \in 0 .. Queues - 1 /\ next \in Indexes
      /\ q \in 0 .. Queues - 1 /\ p \in 0 .. Queues - 1
  BY DEF SizesPositive, QueueInv, QueueTypeOK, Indexes
<1>2. next' = (IF q + 1 < Queues THEN q + 1 ELSE q + 1 - Queues) /\ next' \in Indexes
  BY <1>1, TurnIs
<1>3. /\ Distance(q) = IF q >= next THEN q - next ELSE q - next + Queues
      /\ Distance(p) = IF p >= next THEN p - next ELSE p - next + Queues
  BY <1>1, DistanceIs
<1>4. ~(Distance(p) < Distance(q))
  BY DEF Selected
<1>5. Distance(p)' = IF p >= next' THEN p - next' ELSE p - next' + Queues
  <2>1. ASSUME NEW n \in Indexes
        PROVE  (CHOOSE o \in Indexes : (n + o) % Queues = p) =
                 IF p >= n THEN p - n ELSE p - n + Queues
    BY DistanceAt
  <2> QED
    BY <1>2, <2>1 DEF Distance, Turn
<1> QED
  BY <1>1, <1>2, <1>3, <1>4, <1>5

LEMMA TurnsKept ==
  ASSUME SizesPositive, QueueInv, next' = next,
         \A p \in Indexes : \/ passed'[p] = 0
                            \/ passed'[p] = passed[p] /\ (length[p] = 0 <=> length'[p] = 0),
         \A p \in Indexes : length'[p] = 0 => passed'[p] = 0
  PROVE  TurnComes'
<1>1. \A p \in Indexes : Distance(p)' = Distance(p) /\ Distance(p) \in 0 .. Queues - 1
  BY DistanceIs DEF QueueInv, QueueTypeOK, Distance, Turn, Indexes
<1> QED
  BY <1>1 DEF QueueInv, TurnComes, SizesPositive

LEMMA StepKept ==
  ASSUME SizesPositive, QueueInv, QueueNext
  PROVE  QueueInv'
<1>1. QueueTypeOK /\ NothingRetained /\ TurnComes
  BY DEF QueueInv
<1>2. ASSUME NEW q \in Indexes, NEW v \in Values, TrySend(q, v)
      PROVE  QueueInv'
  <2>1. QueueTypeOK' /\ NothingRetained'
    BY <1>1, <1>2, Sent
  <2>2. next' = next /\ passed' = passed /\ length' = [length EXCEPT ![q] = @ + 1]
    BY <1>2 DEF TrySend
  <2>3. \A p \in Indexes : length'[p] = IF p = q THEN length[q] + 1 ELSE length[p]
    BY <1>1, <2>2 DEF QueueTypeOK
  <2>4. ASSUME NEW p \in Indexes
        PROVE  \/ passed'[p] = 0
               \/ passed'[p] = passed[p] /\ (length[p] = 0 <=> length'[p] = 0)
    <3>1. length[p] \in Nat
      BY <1>1 DEF QueueTypeOK
    <3> QED
      BY <1>1, <2>2, <2>3, <3>1 DEF TurnComes
  <2>5. ASSUME NEW p \in Indexes, length'[p] = 0 PROVE passed'[p] = 0
    <3>1. length[p] \in Nat /\ length[q] \in Nat
      BY <1>1 DEF QueueTypeOK
    <3> QED
      BY <1>1, <2>2, <2>3, <2>5, <3>1 DEF TurnComes
  <2>6. TurnComes'
    BY <2>2, <2>4, <2>5, TurnsKept
  <2> QED
    BY <2>1, <2>6 DEF QueueInv
<1>3. ASSUME NEW q \in Indexes, TryReceive(q)
      PROVE  QueueInv'
  <2>1. /\ length[q] # 0 /\ DropHead(q) /\ next' = next
        /\ passed' = [passed EXCEPT ![q] = 0]
    BY <1>3 DEF TryReceive
  <2>2. /\ values' \in [Indexes -> [Cells -> Values \cup {Zero}]]
        /\ head' \in [Indexes -> Cells] /\ length' \in [Indexes -> 0 .. Capacity]
        /\ NothingRetained' /\ \A p \in Indexes : p # q => length'[p] = length[p]
    BY <1>1, <2>1, QueueDropped
  <2>3. /\ passed' \in [Indexes -> Nat] /\ passed'[q] = 0
        /\ \A p \in Indexes : p # q => passed'[p] = passed[p]
    BY <1>1, <2>1 DEF QueueTypeOK
  <2>4. QueueTypeOK'
    BY <1>1, <2>1, <2>2, <2>3 DEF QueueTypeOK
  <2>5. TurnComes'
    BY <1>1, <2>1, <2>2, <2>3, TurnsKept DEF TurnComes
  <2> QED
    BY <2>2, <2>4, <2>5 DEF QueueInv
<1>4. ASSUME NEW q \in Indexes, Clear(q)
      PROVE  QueueInv'
  <2>1. next' = next
    BY <1>4 DEF Clear
  <2>2. /\ QueueTypeOK' /\ NothingRetained' /\ length'[q] = 0 /\ passed'[q] = 0
        /\ \A p \in Indexes : p # q => length'[p] = length[p] /\ passed'[p] = passed[p]
    BY <1>1, <1>4, QueueCleared
  <2>3. TurnComes'
    BY <1>1, <2>1, <2>2, TurnsKept DEF TurnComes
  <2> QED
    BY <2>2, <2>3 DEF QueueInv
<1>5. ASSUME Poll PROVE QueueInv'
  <2>1. PICK q \in Indexes :
          /\ Selected(q) /\ length[q] # 0 /\ DropHead(q) /\ next' = (q + 1) % Queues
          /\ passed' = [p \in Indexes |-> IF p = q \/ length[p] = 0 THEN 0 ELSE passed[p] + 1]
    BY <1>5, PollIs
  <2>2. /\ values' \in [Indexes -> [Cells -> Values \cup {Zero}]]
        /\ head' \in [Indexes -> Cells] /\ length' \in [Indexes -> 0 .. Capacity]
        /\ NothingRetained' /\ \A p \in Indexes : p # q => length'[p] = length[p]
    BY <1>1, <2>1, QueueDropped
  <2>3. Queues \in Nat \ {0} /\ next' \in Indexes
    BY <2>1, TurnIs DEF SizesPositive, Indexes
  <2>4. passed' \in [Indexes -> Nat]
    BY <1>1, <2>1 DEF QueueTypeOK
  <2>5. QueueTypeOK'
    BY <2>2, <2>3, <2>4 DEF QueueTypeOK
  <2>6. ASSUME NEW p \in Indexes
        PROVE  IF length'[p] = 0 THEN passed'[p] = 0 ELSE passed'[p] + Distance(p)' <= Queues - 1
    <3>1. Distance(p)' \in 0 .. Queues - 1
      BY <2>3, DistanceAt DEF Distance, Turn, Indexes
    <3>2. CASE p = q \/ length[p] = 0
      BY <2>1, <2>3, <3>1, <3>2
    <3>3. CASE p # q /\ length[p] # 0
      <4>1. Distance(p)' + 1 <= Distance(p)
        BY <2>1, <3>3, TurnsComeNearer
      <4>2. passed[p] \in Nat /\ passed'[p] = passed[p] + 1 /\ length'[p] # 0
        BY <1>1, <2>1, <2>2, <3>3 DEF QueueTypeOK
      <4>3. Distance(p) \in Nat /\ passed[p] + Distance(p) <= Queues - 1
        BY <1>1, <3>3, DistanceIs DEF TurnComes, QueueTypeOK, Indexes, SizesPositive
      <4> QED
        BY <2>3, <3>1, <4>1, <4>2, <4>3
    <3> QED
      BY <3>2, <3>3
  <2> QED
    BY <2>2, <2>5, <2>6 DEF QueueInv, TurnComes
<1> QED
  BY <1>2, <1>3, <1>4, <1>5 DEF QueueNext

LEMMA Unchanged == ASSUME QueueInv, UNCHANGED queues PROVE QueueInv'
BY DEF queues, QueueInv, QueueTypeOK, NothingRetained, Occupied, CellAt, TurnComes, Distance, Turn

LEMMA QueueStarts == SizesPositive /\ QueueInit => QueueInv
<1> SUFFICES ASSUME SizesPositive, QueueInit PROVE QueueInv
  OBVIOUS
<1>1. 0 \in Cells /\ 0 \in Indexes /\ 0 \in 0 .. Capacity
  BY DEF SizesPositive, Cells, Indexes
<1>2. QueueTypeOK /\ NothingRetained /\ TurnComes
  BY <1>1 DEF QueueInit, QueueTypeOK, NothingRetained, TurnComes
<1> QED
  BY <1>2 DEF QueueInv

LEMMA InitIsFifo ==
  ASSUME SizesPositive, QueueInit, NEW q \in Indexes
  PROVE  Abstract(q)!Init
<1>1. Contents(q) = [i \in 1 .. 0 |-> values[q][CellAt(q, i - 1)]]
  BY DEF QueueInit, Contents
<1>2. Contents(q) = <<>>
  BY <1>1, NothingIn
<1> QED
  BY <1>2 DEF QueueInit, Abstract!Init

LEMMA QueueKept == SizesPositive /\ QueueInv /\ [QueueNext]_queues => QueueInv'
BY StepKept, Unchanged

(* Every reachable state is well typed; in particular no queue has more    *)
(* values than cells.                                                      *)
THEOREM QueueTypeCorrect == ASSUME SizesPositive PROVE QueueSpec => []QueueTypeOK
<1>1. QueueInit => QueueInv
  BY QueueStarts
<1>2. QueueInv /\ [QueueNext]_queues => QueueInv'
  BY QueueKept
<1>3. QueueInv => QueueTypeOK
  BY DEF QueueInv
<1> QED
  BY <1>1, <1>2, <1>3, PTL DEF QueueSpec

(* A queue keeps no value that it gave away (queue.go:58), and of n queues *)
(* none with a value loses n polls in a row (queue.go:67).                 *)
THEOREM QueuesStayFair == ASSUME SizesPositive PROVE QueueSpec => []QueuesAreFair
<1>1. QueueInit => QueueInv
  BY QueueStarts
<1>2. QueueInv /\ [QueueNext]_queues => QueueInv'
  BY QueueKept
<1>3. ASSUME QueueInv PROVE QueuesAreFair
  <2>1. ASSUME NEW q \in Indexes PROVE passed[q] < Queues
    <3>1. /\ passed[q] \in Nat /\ Queues \in Nat \ {0} /\ Distance(q) \in 0 .. Queues - 1
          /\ length[q] # 0 => passed[q] + Distance(q) <= Queues - 1
          /\ length[q] = 0 => passed[q] = 0
      BY <1>3, DistanceIs DEF QueueInv, QueueTypeOK, TurnComes, SizesPositive, Indexes
    <3> QED
      BY <3>1
  <2> QED
    BY <1>3, <2>1 DEF QueueInv, QueuesAreFair, NobodyStarves
<1> QED
  BY <1>1, <1>2, <1>3, PTL DEF QueueSpec

(* Each queue is a FIFO of its capacity, wherever its head stands, and no  *)
(* operation on one queue shows in another: API.md, "Bounded cooperative   *)
(* scheduling".                                                            *)
THEOREM QueuesAreFifos == ASSUME SizesPositive PROVE QueueSpec => Implements
<1>1. QueueInit => QueueInv
  BY QueueStarts
<1>2. QueueInv /\ [QueueNext]_queues => QueueInv'
  BY QueueKept
<1>3. QueueInit => \A q \in Indexes : Abstract(q)!Init
  BY InitIsFifo
<1>4. QueueInv /\ [QueueNext]_queues =>
        [\A q \in Indexes :
           IF event'[1] = q THEN Abstract(q)!Next ELSE Contents(q)' = Contents(q)]_queues
  BY StepsAreFifo
<1> QED
  BY <1>1, <1>2, <1>3, <1>4, PTL DEF QueueSpec, Implements
=============================================================================
