------------------------------ MODULE SpinLock ------------------------------
(***************************************************************************)
(* The spin lock of the x86 kernel (kernel/atomic.h, class SpinLock),      *)
(* which sleeps in MWAIT between two attempts.  A core arms the address    *)
(* monitor of the processor on the lock word, tries an atomic exchange,    *)
(* and, when it loses, naps until somebody stores to the word.             *)
(*                                                                         *)
(* The order of the three calls is the whole difficulty: a release between *)
(* a lost exchange and the nap must not be slept through.  Interrupts are  *)
(* off from the first instruction on (mbr.S), so nothing else would ever   *)
(* wake the core.                                                          *)
(*                                                                         *)
(* MONITOR and MWAIT are the processor's.  What is assumed of them: a      *)
(* store to the word by another core fires an armed monitor; a core's own  *)
(* store may or may not fire its own; MWAIT returns at once when the       *)
(* monitor is not armed, may return for no reason, and disarms it.         *)
(***************************************************************************)
EXTENDS Naturals

CONSTANT Core       \* the processors

VARIABLES
    taken,          \* SpinLock::taken
    armed,          \* armed[c]: core c's monitor is set on taken and has not fired
    pc              \* where each core is in lock() and unlock()

vars == <<taken, armed, pc>>

Places == {"idle", "arm", "test", "nap", "rearm", "held"}

GoTo(c, from, to) == pc[c] = from /\ pc' = [pc EXCEPT ![c] = to]

(***************************************************************************)
(* The machine.                                                            *)
(***************************************************************************)

\* taken.monitor_value()
ArmMonitor(c) == armed' = [armed EXCEPT ![c] = TRUE]

\* A store of v to taken by core c, as the monitors of all cores see it.
Store(c, v) ==
    /\ taken' = v
    /\ \E own \in {armed[c], FALSE} :
          armed' = [d \in Core |-> d = c /\ own]

\* mwait() returns: the monitor has fired.
Wake(c) == ~armed[c] /\ UNCHANGED armed

\* mwait() returns for a reason of the processor's own.
SpuriousWake(c) == armed[c] /\ armed' = [armed EXCEPT ![c] = FALSE]

(***************************************************************************)
(* lock() and unlock().                                                    *)
(***************************************************************************)

\* A LockGuard, or a caller, enters lock().
Lock(c) == GoTo(c, "idle", "arm") /\ UNCHANGED <<taken, armed>>

\* The first monitor_value(), before any attempt.
Monitor(c) == GoTo(c, "arm", "test") /\ ArmMonitor(c) /\ UNCHANGED taken

\* A plain load and store in the place of the atomic exchange of true: two
\* cores can both read a free lock.
ExchangeNotAtomic(c) ==
    \/ /\ pc[c] = "test"
       /\ pc' = [pc EXCEPT ![c] = IF taken THEN "nap" ELSE "rearm"]
       /\ UNCHANGED <<taken, armed>>
    \/ GoTo(c, "rearm", "held") /\ Store(c, TRUE)

\* while (taken.exchange(true)): the store happens whether c wins or not.
Exchange(c) ==
    /\ pc[c] = "test"
    /\ pc' = [pc EXCEPT ![c] = IF taken THEN "nap" ELSE "held"]
    /\ Store(c, TRUE)

\* The loop body with its two calls swapped: the monitor is armed again after
\* the lost exchange.
RetrySwapped(c) ==
    \/ GoTo(c, "nap", "rearm") /\ ArmMonitor(c) /\ UNCHANGED taken
    \/ GoTo(c, "rearm", "test") /\ Wake(c) /\ UNCHANGED taken

\* The body of the loop: iAmStuckInALoop(true), then monitor_value(), then
\* back to the exchange.
Retry(c) ==
    \/ GoTo(c, "nap", "rearm") /\ Wake(c) /\ UNCHANGED taken
    \/ GoTo(c, "rearm", "test") /\ ArmMonitor(c) /\ UNCHANGED taken

\* The nap of iAmStuckInALoop(true) ends for no reason.
RetryEarly(c) == GoTo(c, "nap", "rearm") /\ SpuriousWake(c) /\ UNCHANGED taken

\* unlock() that forgets the store.
UnlockNoStore(c) == GoTo(c, "held", "idle") /\ UNCHANGED <<taken, armed>>

\* unlock()
Unlock(c) == GoTo(c, "held", "idle") /\ Store(c, FALSE)

Init ==
    /\ taken = FALSE
    /\ armed = [c \in Core |-> FALSE]
    /\ pc = [c \in Core |-> "idle"]

\* What a core does by itself once it has called lock().
Step(c) == Monitor(c) \/ Exchange(c) \/ Retry(c) \/ Unlock(c)

Next == \E c \in Core : Lock(c) \/ Step(c) \/ RetryEarly(c)

\* The cores are real processors, never descheduled, and every critical
\* section of the kernel ends.  Nobody is obliged to call lock(), and nothing
\* is assumed of spurious wake-ups.
Fairness == \A c \in Core : WF_vars(Step(c))

SafeSpec == Init /\ [][Next]_vars

Spec == SafeSpec /\ Fairness

(***************************************************************************)
(* Properties.                                                             *)
(***************************************************************************)

TypeOK ==
    /\ taken \in BOOLEAN
    /\ armed \in [Core -> BOOLEAN]
    /\ pc \in [Core -> Places]

\* lock() gives the lock to one core at a time: the exchange that finds the
\* word clear is the only way in.
MutualExclusion ==
    \A c, d \in Core : pc[c] = "held" /\ pc[d] = "held" => c = d

\* The word is set exactly while some core is between lock() and unlock().
TakenIffHeld == taken <=> \E c \in Core : pc[c] = "held"

\* A core in the retry loop whose monitor is still armed has not been passed
\* by a release: were it to nap now, a store would still come to wake it.
NoLostWakeup ==
    \A c \in Core : pc[c] \in {"nap", "rearm"} /\ armed[c] => taken

\* The inductive invariant: mutual exclusion needs the word to tell the truth.
Inv == TypeOK /\ TakenIffHeld /\ MutualExclusion /\ NoLostWakeup

\* The three places of the abstract lock.
where ==
    [c \in Core |-> IF pc[c] = "idle" THEN "out"
                    ELSE IF pc[c] = "held" THEN "in" ELSE "waiting"]

M == INSTANCE Mutex

\* The spin lock is a lock, with its progress: whenever the lock is free and
\* cores want it, one of them gets it, however the naps fall.
ImplementsMutex == M!Spec
============================================================================
