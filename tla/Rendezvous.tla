---------------------------- MODULE Rendezvous ----------------------------
(***************************************************************************)
(* What a single-use barrier promises: nobody goes on until everybody has  *)
(* arrived, and then everybody goes on.  class Barrier (kernel/atomic.h)   *)
(* is used twice, for the way into kernelMain() and for the way out.       *)
(***************************************************************************)
CONSTANT Party      \* who has to come

VARIABLE side       \* side[p] \in {"before", "waiting", "after"}

Init == side = [p \in Party |-> "before"]

Arrive(p) == side[p] = "before" /\ side' = [side EXCEPT ![p] = "waiting"]

Pass(p) ==
    /\ side[p] = "waiting"
    /\ \A q \in Party : side[q] # "before"
    /\ side' = [side EXCEPT ![p] = "after"]

Next == \E p \in Party : Arrive(p) \/ Pass(p)

SafeSpec == Init /\ [][Next]_side

Spec == SafeSpec /\ \A p \in Party : WF_side(Pass(p))
=============================================================================
