----------------------------- MODULE MCSpinLock -----------------------------
(* Three cores for the spin lock: one that holds it, one that naps and one   *)
(* that comes in between.                                                    *)
EXTENDS SpinLock
=============================================================================
