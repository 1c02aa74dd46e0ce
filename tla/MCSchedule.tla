----------------------------- MODULE MCSchedule -----------------------------
(* Small instances of the scheduler.  A clock of Modulus 2 * Half wraps    *)
(* several times in every run, and the generations wrap too.               *)
EXTENDS Schedule

MCIntervals == {0, 1, MaxDelay, MaxDelay + 1}
MCShortIntervals == {1, MaxDelay}
=============================================================================
