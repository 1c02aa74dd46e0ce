----------------------------- MODULE Scoreboards -----------------------------
(***************************************************************************)
(* The scoreboards: ScoreboardService, which allows one pending request of *)
(* each kind, the adapter's callback slot of each kind, and                *)
(* ScoreboardCallbackQueue, which keeps the native answers until goUpdate  *)
(* drains it at the next frame.                                            *)
(*                                                                         *)
(* The native side accepts a request or rejects it at once, and answers an *)
(* accepted one later, between frames.  It cannot cancel: an answer may    *)
(* arrive after the game was terminated.  Scores and messages are abstract *)
(* and a request is the number of its kind's requests so far.              *)
(***************************************************************************)
EXTENDS Naturals, Sequences, FiniteSets

CONSTANTS
  Kinds,          \* add score, personal best, scoreboards, scores
  EventSlots,     \* len(ScoreboardCallbackQueue.events)
  BoardRequests   \* bound on the requests of a kind

(* scoreboards.go:36, "Four slots cover the one permitted request of each  *)
(* operation kind": there are as many slots as kinds.                      *)
SlotsCoverKinds ==
  /\ IsFiniteSet(Kinds) /\ EventSlots \in Nat /\ BoardRequests \in Nat
  /\ Cardinality(Kinds) <= EventSlots

VARIABLES
  pending,      \* kinds with ScoreboardService.pending set
  slot,         \* kind -> the request whose callback the adapter holds
  completing,   \* kind -> requests the native side is working on
  queue,        \* ScoreboardCallbackQueue: kinds with their request
  gone,         \* the service and the queue are terminated
  draining,     \* goUpdate is in Drain
  running,      \* the request whose callback is running, or NoRequest
  requested,    \* kind -> requests made so far
  replies      \* history: requests whose callback was called, with the
                \* native request that the answer was for

board == <<pending, slot, completing, queue, gone, draining, running, requested, replies>>

Vacant == 0
Numbers == 1 .. BoardRequests
NoRequest == <<>>

BoardInit ==
  /\ pending = {}
  /\ slot = [k \in Kinds |-> Vacant]
  /\ completing = [k \in Kinds |-> {}]
  /\ queue = <<>>
  /\ gone = FALSE
  /\ draining = FALSE
  /\ running = NoRequest
  /\ requested = [k \in Kinds |-> 0]
  /\ replies = {}

-----------------------------------------------------------------------------
(* The game asks, in a frame's own code or inside a callback. *)

GameRuns == ~draining \/ running # NoRequest

FreeWhileQueued(k) == slot[k] = Vacant
AlwaysFree(k) == TRUE
Free(k) == k \notin pending

Accepted(k) ==
  /\ pending' = pending \cup {k}
  /\ slot' = [slot EXCEPT ![k] = requested[k] + 1]
  /\ completing' = [completing EXCEPT ![k] = @ \cup {requested[k] + 1}]

Rejected(k) ==
  /\ slot' = [slot EXCEPT ![k] = Vacant]
  /\ UNCHANGED <<pending, completing>>

Request(k) ==
  /\ GameRuns
  /\ ~gone
  /\ Free(k)
  /\ requested[k] < BoardRequests
  /\ requested' = [requested EXCEPT ![k] = @ + 1]
  /\ Accepted(k) \/ Rejected(k)
  /\ UNCHANGED <<queue, gone, draining, running, replies>>

-----------------------------------------------------------------------------
(* A native answer takes the callback out of the kind's slot and queues it *)
(* with the answer; with no callback there it is discarded.                *)

Push(entry) == IF gone \/ Len(queue) = EventSlots THEN queue ELSE Append(queue, entry)

Complete(k) ==
  /\ ~draining
  /\ \E n \in completing[k] :
       /\ completing' = [completing EXCEPT ![k] = @ \ {n}]
       /\ slot' = [slot EXCEPT ![k] = Vacant]
       /\ queue' = IF slot[k] = Vacant THEN queue
                   ELSE Push([kind |-> k, request |-> slot[k], answer |-> n])
  /\ UNCHANGED <<pending, gone, draining, running, requested, replies>>

-----------------------------------------------------------------------------
(* Drain. *)

BeginDrain ==
  /\ ~draining
  /\ draining' = TRUE
  /\ UNCHANGED <<pending, slot, completing, queue, gone, running, requested, replies>>

(* The kind is free again before its callback runs, which may ask anew.    *)
ReleasedNever(k) == pending
Released(k) == pending \ {k}

Popped == Tail(queue)

DrainLoops == queue # <<>> /\ ~gone

DrainNext ==
  /\ draining
  /\ running = NoRequest
  /\ DrainLoops
  /\ LET first == Head(queue) IN
       /\ queue' = Popped
       /\ pending' = Released(first.kind)
       /\ running' = <<first.kind, first.request>>
       /\ replies' = replies \cup {first}
  /\ UNCHANGED <<slot, completing, gone, draining, requested>>

CallbackReturns ==
  /\ running # NoRequest
  /\ running' = NoRequest
  /\ UNCHANGED <<pending, slot, completing, queue, gone, draining, requested, replies>>

EndDrain ==
  /\ draining
  /\ running = NoRequest
  /\ ~DrainLoops
  /\ draining' = FALSE
  /\ UNCHANGED <<pending, slot, completing, queue, gone, running, requested, replies>>

(* eventHandler: the service, the queue and the slots are emptied before   *)
(* the application hears of it; a callback may be running.                 *)
TerminateBoards ==
  /\ GameRuns
  /\ ~gone
  /\ gone' = TRUE
  /\ pending' = {}
  /\ queue' = <<>>
  /\ slot' = [k \in Kinds |-> Vacant]
  /\ UNCHANGED <<completing, draining, running, requested, replies>>

BoardNext ==
  \/ \E k \in Kinds : Request(k) \/ Complete(k)
  \/ BeginDrain
  \/ DrainNext
  \/ CallbackReturns
  \/ EndDrain
  \/ TerminateBoards

BoardSpec == BoardInit /\ [][BoardNext]_board

(* The native side answers what it accepted, frames go on, and the game's  *)
(* callbacks return.  An answer has to wait while a frame is draining, so  *)
(* it is enabled again and again rather than always.                       *)
BoardFairness ==
  /\ \A k \in Kinds : SF_board(Complete(k))
  /\ WF_board(BeginDrain)
  /\ WF_board(DrainNext)
  /\ WF_board(CallbackReturns)
  /\ WF_board(EndDrain)

-----------------------------------------------------------------------------
Entry == [kind : Kinds, request : Numbers, answer : Numbers]

BoardTypeOK ==
  /\ pending \in SUBSET Kinds
  /\ slot \in [Kinds -> 0 .. BoardRequests]
  /\ completing \in [Kinds -> SUBSET Numbers]
  /\ queue \in Seq(Entry)
  /\ Len(queue) <= EventSlots
  /\ gone \in BOOLEAN
  /\ draining \in BOOLEAN
  /\ running = NoRequest \/ running \in Kinds \X Numbers
  /\ requested \in [Kinds -> 0 .. BoardRequests]
  /\ replies \in SUBSET Entry

Queued(k) == {i \in DOMAIN queue : queue[i].kind = k}

(* scoreboards.go:36, "Four slots cover the one permitted request of each  *)
(* operation kind": a kind that is pending has its one request either with *)
(* the native side, its callback in the slot, or once in the queue; a kind *)
(* that is not pending has neither.  So nothing is left to call once the   *)
(* game is terminated.                                                     *)
PendingIsOnItsWay ==
  \A k \in Kinds :
    IF k \in pending
      THEN \/ slot[k] = requested[k] /\ completing[k] = {requested[k]} /\ Queued(k) = {}
           \/ /\ slot[k] = Vacant /\ completing[k] = {}
              /\ \E i \in DOMAIN queue :
                   Queued(k) = {i} /\ queue[i].request = requested[k]
      ELSE slot[k] = Vacant /\ Queued(k) = {} /\ (gone \/ completing[k] = {})

(* A callback is called once, with the answer to its own request. *)
AnswersOwnRequest ==
  /\ \A e \in replies : e.request = e.answer
  /\ \A i \in DOMAIN queue : queue[i] \notin replies

(* scoreboards.go:36: a pending kind has its one request with the native   *)
(* side or in the queue, and each callback is called once, for its own     *)
(* request.                                                                *)
EachRequestAnswered == PendingIsOnItsWay /\ AnswersOwnRequest

(* Every request that was accepted is answered, unless the game is         *)
(* terminated: the kind does not stay busy for ever.                       *)
NeverStuck == \A k \in Kinds : k \in pending ~> k \notin pending

=============================================================================
