----------------------------- MODULE AtomicStore -----------------------------
(***************************************************************************)
(* What playdate/store promises its caller: one value that a Save replaces *)
(* completely or not at all.  A Save that reports success has committed    *)
(* its value, one that reports an error has not, and one that a crash cuts *)
(* short may have done either.  Nothing else changes the value.            *)
(***************************************************************************)
CONSTANTS Values, None

VARIABLES
  committed,   \* the value a Load would find
  attempt,     \* the value of the Save in progress, or None
  outcome      \* "idle", "running", "committed" or "failed"

vars == <<committed, attempt, outcome>>

Init == attempt = None /\ outcome = "idle"

Begin(v) ==
  /\ outcome = "idle"
  /\ attempt' = v
  /\ outcome' = "running"
  /\ UNCHANGED committed

Commit ==
  /\ outcome = "running"
  /\ committed' = attempt
  /\ outcome' = "committed"
  /\ UNCHANGED attempt

Fail ==
  /\ outcome = "running"
  /\ outcome' = "failed"
  /\ UNCHANGED <<committed, attempt>>

(* The Save returns after its outcome is known, or a crash ends it. *)
End ==
  /\ outcome # "idle"
  /\ attempt' = None
  /\ outcome' = "idle"
  /\ UNCHANGED committed

Next == (\E v \in Values : Begin(v)) \/ Commit \/ Fail \/ End

Spec == Init /\ [][Next]_vars
=============================================================================
