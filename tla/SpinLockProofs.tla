--------------------------- MODULE SpinLockProofs ---------------------------
(***************************************************************************)
(* Proofs about the spin lock, for any set of cores: the inductive         *)
(* invariant, mutual exclusion, no lost wake-up, and that every step is a  *)
(* step of the abstract lock or changes nothing it can see.                *)
(***************************************************************************)
EXTENDS SpinLock, TLAPS

\* The lock starts free, with nobody napping.
LEMMA InitInv == Init => Inv
BY DEF Init, Inv, TypeOK, TakenIffHeld, MutualExclusion, NoLostWakeup, Places

\* A store of TRUE or FALSE leaves the monitors well typed, and fires every
\* other core's.
LEMMA StoreFires ==
    ASSUME TypeOK, NEW c \in Core, NEW v \in BOOLEAN, Store(c, v)
    PROVE  /\ taken' = v
           /\ armed' \in [Core -> BOOLEAN]
           /\ \A d \in Core : armed'[d] => d = c
BY DEF Store, TypeOK

\* Each action of one core keeps the invariant.
LEMMA StepInv == Inv /\ [Next]_vars => Inv'
<1> SUFFICES ASSUME Inv, [Next]_vars PROVE Inv'
  OBVIOUS
<1> USE DEF Inv, TypeOK, TakenIffHeld, MutualExclusion, NoLostWakeup, Places
<1>1. ASSUME NEW c \in Core, Lock(c) PROVE Inv'
  BY <1>1 DEF Lock, GoTo
<1>2. ASSUME NEW c \in Core, Monitor(c) PROVE Inv'
  BY <1>2 DEF Monitor, GoTo, ArmMonitor
<1>3. ASSUME NEW c \in Core, Exchange(c) PROVE Inv'
  <2>1. /\ taken' = TRUE
        /\ armed' \in [Core -> BOOLEAN]
        /\ \A d \in Core : armed'[d] => d = c
    BY <1>3, StoreFires DEF Exchange
  <2>2. CASE taken
    BY <1>3, <2>1, <2>2 DEF Exchange
  <2>3. CASE ~taken
    BY <1>3, <2>1, <2>3 DEF Exchange
  <2> QED BY <2>2, <2>3
<1>4. ASSUME NEW c \in Core, Retry(c) PROVE Inv'
  <2>1. CASE GoTo(c, "nap", "rearm") /\ Wake(c) /\ UNCHANGED taken
    BY <2>1 DEF GoTo, Wake
  <2>2. CASE GoTo(c, "rearm", "test") /\ ArmMonitor(c) /\ UNCHANGED taken
    BY <2>2 DEF GoTo, ArmMonitor
  <2> QED BY <1>4, <2>1, <2>2 DEF Retry
<1>5. ASSUME NEW c \in Core, RetryEarly(c) PROVE Inv'
  BY <1>5 DEF RetryEarly, GoTo, SpuriousWake
<1>6. ASSUME NEW c \in Core, Unlock(c) PROVE Inv'
  <2>1. /\ taken' = FALSE
        /\ armed' \in [Core -> BOOLEAN]
        /\ \A d \in Core : armed'[d] => d = c
    BY <1>6, StoreFires DEF Unlock
  <2> QED BY <1>6, <2>1 DEF Unlock, GoTo
<1>7. CASE UNCHANGED vars
  BY <1>7 DEF vars
<1> QED
  BY <1>1, <1>2, <1>3, <1>4, <1>5, <1>6, <1>7 DEF Next, Step

\* The inductive invariant holds throughout lock() and unlock() on any
\* number of cores.
THEOREM Invariance == SafeSpec => []Inv
BY InitInv, StepInv, PTL DEF SafeSpec

\* At most one core is between lock() and unlock() (kernel/atomic.h).
THEOREM Exclusion == SafeSpec => []MutualExclusion
<1>1. Inv => MutualExclusion
  BY DEF Inv
<1> QED BY <1>1, Invariance, PTL

\* No release is slept through: a core in the retry loop with an armed
\* monitor is waiting for a lock somebody holds.
THEOREM NoReleaseMissed == SafeSpec => []NoLostWakeup
<1>1. Inv => NoLostWakeup
  BY DEF Inv
<1> QED BY <1>1, Invariance, PTL

\* Every step of the spin lock is a step of the abstract lock, or changes
\* nothing that the abstract lock can see.
LEMMA StepRefines == Inv /\ [Next]_vars => [M!Next]_where
<1> SUFFICES ASSUME Inv, [Next]_vars PROVE [M!Next]_where
  OBVIOUS
<1> USE DEF Inv, TypeOK, Places, where, M!Next
<1>1. ASSUME NEW c \in Core, Lock(c) PROVE M!Request(c)
  BY <1>1 DEF Lock, GoTo, M!Request
<1>2. ASSUME NEW c \in Core, Monitor(c) PROVE where' = where
  BY <1>2 DEF Monitor, GoTo
<1>3. ASSUME NEW c \in Core, Exchange(c) PROVE [M!Next]_where
  <2>1. CASE taken
    <3>1. where' = where
      BY <1>3, <2>1 DEF Exchange
    <3> QED BY <3>1
  <2>2. CASE ~taken
    <3>1. \A d \in Core : pc[d] # "held"
      BY <2>2 DEF TakenIffHeld
    <3>2. M!Enter(c)
      BY <1>3, <2>2, <3>1 DEF Exchange, M!Enter
    <3> QED BY <3>2
  <2> QED BY <2>1, <2>2
<1>4. ASSUME NEW c \in Core, Retry(c) \/ RetryEarly(c) PROVE where' = where
  BY <1>4 DEF Retry, RetryEarly, GoTo
<1>5. ASSUME NEW c \in Core, Unlock(c) PROVE M!Leave(c)
  BY <1>5 DEF Unlock, GoTo, M!Leave
<1>6. CASE UNCHANGED vars
  BY <1>6 DEF vars
<1> QED
  BY <1>1, <1>2, <1>3, <1>4, <1>5, <1>6 DEF Next, Step

\* The spin lock implements the abstract lock, as far as safety goes: its
\* progress is checked by TLC.
THEOREM Refinement == SafeSpec => M!SafeSpec
<1>1. Init => M!Init
  BY DEF Init, M!Init, where
<1> QED
  BY <1>1, StepRefines, Invariance, PTL DEF SafeSpec, M!SafeSpec
============================================================================
