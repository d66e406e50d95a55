------------------------------- MODULE Mutex -------------------------------
(***************************************************************************)
(* What a lock of the kernel promises its callers: at most one core is     *)
(* inside at a time, and as long as cores leave, a waiting core gets in.   *)
(* It says nothing of how the waiting is done nor of who is next: the      *)
(* kernel's locks are not fair.                                            *)
(***************************************************************************)
CONSTANT Core       \* the processors that share the lock

VARIABLE where      \* where[c]: "out", "waiting" or "in"

Init == where = [c \in Core |-> "out"]

\* Core c asks for the lock.
Request(c) ==
    /\ where[c] = "out"
    /\ where' = [where EXCEPT ![c] = "waiting"]

\* Core c gets the lock, which nobody has.
Enter(c) ==
    /\ where[c] = "waiting"
    /\ \A d \in Core : where[d] # "in"
    /\ where' = [where EXCEPT ![c] = "in"]

\* Core c gives the lock back.
Leave(c) ==
    /\ where[c] = "in"
    /\ where' = [where EXCEPT ![c] = "out"]

Next == \E c \in Core : Request(c) \/ Enter(c) \/ Leave(c)

\* Some waiting core gets a free lock, not any particular one.
Fairness == WF_where(\E c \in Core : Enter(c))

SafeSpec == Init /\ [][Next]_where

Spec == SafeSpec /\ Fairness
============================================================================
