--------------------------- MODULE CriticalProofs ---------------------------
(***************************************************************************)
(* What critical() keeps on any number of cores, when work does not call   *)
(* it again: one core at a time is inside.  With nesting it is false, as   *)
(* the run Critical_nested shows, and so is progress.                      *)
(***************************************************************************)
EXTENDS Critical, TLAPS

\* The shared variables start as critical.cc declares them, with no core inside.
LEMMA InitInv == Init => Inv
<1> SUFFICES ASSUME Init PROVE Inv
  OBVIOUS
<1> USE CriticalAssumption DEF CriticalAssumption, Init
<1>0. team \in Teams
  OBVIOUS
<1>1. critical_flag \in BOOLEAN
  OBVIOUS
<1>5. critical_depth \in 0 .. Word - 1 /\ critical_owner \in Core \cup {NoCore}
  OBVIOUS
<1>2. pc \in [Core -> Places]
  BY DEF Places, Outside
<1>3. /\ reg \in [Core -> 0 .. Word - 1]
      /\ nest \in [Core -> 0 .. MaxNest]
      /\ calls \in [Core -> 0 .. MaxCalls]
  OBVIOUS
<1>4. NestMatches /\ OneHolder /\ OwnerIsSafe
  BY DEF NestMatches, OneHolder, OwnerIsSafe, Holds, Outside
<1> QED BY <1>0, <1>1, <1>2, <1>3, <1>4, <1>5 DEF Inv, TypeOK

\* Arithmetic of a counter of width Word.
LEMMA Wraps ==
    ASSUME NEW n \in 0 .. Word - 1
    PROVE  (n + 1) % Word \in 0 .. Word - 1 /\ (n - 1) % Word \in 0 .. Word - 1
BY CriticalAssumption DEF CriticalAssumption

\* What TypeOK says of the variables other than the flag.
NumbersOK ==
    /\ critical_depth \in 0 .. Word - 1
    /\ critical_owner \in Core \cup {NoCore}
    /\ pc \in [Core -> Places]
    /\ reg \in [Core -> 0 .. Word - 1]
    /\ nest \in [Core -> 0 .. MaxNest]
    /\ calls \in [Core -> 0 .. MaxCalls]

\* The flag stays a truth value, and the team is the same throughout.
LEMMA StepFlagType ==
    ASSUME critical_flag \in BOOLEAN, [Next]_vars
    PROVE  critical_flag' \in BOOLEAN /\ team' = team
BY DEF Next, Step, Finished, vars, Call, Try, FreshDepth, FreshOwner, NestedDepth,
       NestedOwner, Spin, Take, Own, EnterLoad, EnterStore, LeaveLoad, LeaveStore,
       LastDepth, LastOwner, Release, ResetDepth, ResetOwner, Reads

\* What NestMatches says where no work nests.
NestFlat == \A c \in Core : (nest[c] = 0 <=> pc[c] = "out") /\ nest[c] <= 1

\* Both before a step and after it.
LEMMA FlatMeans ==
    ASSUME NestingTeams = {}
    PROVE  (NestMatches <=> NestFlat) /\ (NestMatches' <=> NestFlat')
BY DEF NestMatches, NestFlat

\* A call that is not nested returns to the caller.
LEMMA Returns ==
    ASSUME NestingTeams = {}, NumbersOK, NestFlat,
           NEW c \in Core, pc[c] # "out", Return(c)
    PROVE  /\ pc' \in [Core -> Places]
           /\ nest' \in [Core -> 0 .. MaxNest]
           /\ calls' = calls
           /\ NestFlat'
<1>1. nest[c] = 1
  BY CriticalAssumption DEF CriticalAssumption, NumbersOK, NestFlat
<1>2. pc' = [pc EXCEPT ![c] = "out"] /\ nest' = [nest EXCEPT ![c] = 0] /\ calls' = calls
  BY <1>1 DEF Return, NumbersOK
<1>3. NestFlat'
  BY <1>2 DEF NestFlat, NumbersOK
<1>4. pc' \in [Core -> Places]
  BY <1>2 DEF NumbersOK, Places, Outside
<1>5. nest' \in [Core -> 0 .. MaxNest]
  BY <1>2, CriticalAssumption DEF NumbersOK, CriticalAssumption
<1> QED BY <1>2, <1>3, <1>4, <1>5

\* The other types, and that only a core that is out is in no call.
LEMMA StepTypes ==
    ASSUME NestingTeams = {}, NumbersOK, NestFlat, [Next]_vars
    PROVE  NumbersOK' /\ NestFlat'
<1>a. MaxNest \in Nat \ {0} /\ MaxCalls \in Nat /\ Word \in Nat /\ 0 \in 0 .. Word - 1
  BY CriticalAssumption DEF CriticalAssumption
<1>b. /\ {"out", "try", "nested?", "mine?", "spin", "reset depth"} \subseteq Places
      /\ {"reset owner", "fresh depth?", "fresh owner?", "take", "own"} \subseteq Places
      /\ {"enter load", "enter store", "work", "leave store"} \subseteq Places
      /\ {"last?", "release mine?", "release"} \subseteq Places
  BY DEF Places, Outside
<1> USE DEF NumbersOK, NestFlat, GoTo, Reads
<1>1. ASSUME NEW c \in Core, Call(c) PROVE NumbersOK' /\ NestFlat'
  <2>1. calls[c] < MaxCalls /\ pc[c] = "out"
    BY <1>1 DEF Call
  <2>2. nest[c] = 0
    BY <2>1
  <2>3. calls[c] + 1 \in 0 .. MaxCalls
    BY <1>a, <2>1
  <2>4. pc' = [pc EXCEPT ![c] = "try"] /\ nest' = [nest EXCEPT ![c] = 1]
    BY <1>1, <2>2 DEF Call
  <2>5. NestFlat' /\ nest' \in [Core -> 0 .. MaxNest]
    BY <1>a, <2>4
  <2>8. pc' \in [Core -> Places]
    BY <1>b, <2>4
  <2>6. calls' \in [Core -> 0 .. MaxCalls]
    BY <1>a, <1>1, <2>3 DEF Call
  <2>7. /\ critical_depth' \in 0 .. Word - 1
        /\ critical_owner' \in Core \cup {NoCore}
        /\ reg' \in [Core -> 0 .. Word - 1]
    BY <1>1 DEF Call
  <2> QED BY <2>5, <2>6, <2>7, <2>8
<1>2. ASSUME NEW c \in Core, Try(c) PROVE NumbersOK' /\ NestFlat'
  BY <1>a, <1>b, <1>2 DEF Try
<1>3. ASSUME NEW c \in Core, FreshDepth(c) PROVE NumbersOK' /\ NestFlat'
  BY <1>a, <1>b, <1>3 DEF FreshDepth
<1>4. ASSUME NEW c \in Core, FreshOwner(c) PROVE NumbersOK' /\ NestFlat'
  BY <1>a, <1>b, <1>4 DEF FreshOwner
<1>5. ASSUME NEW c \in Core, NestedDepth(c) PROVE NumbersOK' /\ NestFlat'
  BY <1>a, <1>b, <1>5 DEF NestedDepth
<1>6. ASSUME NEW c \in Core, NestedOwner(c) PROVE NumbersOK' /\ NestFlat'
  BY <1>a, <1>b, <1>6 DEF NestedOwner
<1>7. ASSUME NEW c \in Core, Spin(c) PROVE NumbersOK' /\ NestFlat'
  BY <1>a, <1>b, <1>7 DEF Spin
<1>8. ASSUME NEW c \in Core, Take(c) PROVE NumbersOK' /\ NestFlat'
  BY <1>a, <1>b, <1>8 DEF Take
<1>9. ASSUME NEW c \in Core, Own(c) PROVE NumbersOK' /\ NestFlat'
  BY <1>a, <1>b, <1>9 DEF Own
<1>10. ASSUME NEW c \in Core, EnterLoad(c) PROVE NumbersOK' /\ NestFlat'
  BY <1>a, <1>b, <1>10 DEF EnterLoad
<1>11. ASSUME NEW c \in Core, EnterStore(c) PROVE NumbersOK' /\ NestFlat'
  <2>1. critical_depth' \in 0 .. Word - 1
    BY <1>a, <1>b, <1>11, Wraps DEF EnterStore
  <2> QED BY <1>a, <1>b, <1>11, <2>1 DEF EnterStore
<1>12. ASSUME NEW c \in Core, LeaveLoad(c) PROVE NumbersOK' /\ NestFlat'
  BY <1>a, <1>b, <1>12 DEF LeaveLoad
<1>13. ASSUME NEW c \in Core, LeaveStore(c) PROVE NumbersOK' /\ NestFlat'
  <2>1. critical_depth' \in 0 .. Word - 1
    BY <1>a, <1>b, <1>13, Wraps DEF LeaveStore
  <2> QED BY <1>a, <1>b, <1>13, <2>1 DEF LeaveStore
<1>14. ASSUME NEW c \in Core, LastDepth(c) PROVE NumbersOK' /\ NestFlat'
  <2>1. CASE Return(c)
    <3>1. pc[c] # "out"
      BY <1>14 DEF LastDepth
    <3> QED BY <1>14, <2>1, <3>1, Returns DEF LastDepth
  <2>2. CASE ~Return(c)
    BY <1>a, <1>b, <1>14, <2>2 DEF LastDepth
  <2> QED BY <2>1, <2>2
<1>15. ASSUME NEW c \in Core, LastOwner(c) PROVE NumbersOK' /\ NestFlat'
  <2>1. CASE Return(c)
    <3>1. pc[c] # "out"
      BY <1>15 DEF LastOwner
    <3> QED BY <1>15, <2>1, <3>1, Returns DEF LastOwner
  <2>2. CASE ~Return(c)
    BY <1>a, <1>b, <1>15, <2>2 DEF LastOwner
  <2> QED BY <2>1, <2>2
<1>16. ASSUME NEW c \in Core, Release(c) PROVE NumbersOK' /\ NestFlat'
  BY <1>a, <1>b, <1>16 DEF Release
<1>17. ASSUME NEW c \in Core, ResetDepth(c) PROVE NumbersOK' /\ NestFlat'
  <2>1. critical_depth' \in 0 .. Word - 1
    BY <1>a, <1>b, <1>17 DEF ResetDepth
  <2> QED BY <1>a, <1>b, <1>17, <2>1 DEF ResetDepth
<1>18. ASSUME NEW c \in Core, ResetOwner(c) PROVE NumbersOK' /\ NestFlat'
  BY <1>18, Returns DEF ResetOwner
<1>19. CASE UNCHANGED vars
  BY <1>a, <1>b, <1>19 DEF vars
<1> QED
  BY <1>1, <1>2, <1>3, <1>4, <1>5, <1>6, <1>7, <1>8, <1>9, <1>10, <1>11, <1>12,
     <1>13, <1>14, <1>15, <1>16, <1>17, <1>18, <1>19 DEF Next, Step, Finished

\* The flag and the owner.  A core comes to hold the flag by an exchange that
\* finds it clear, or by finding itself the owner; neither can happen beside
\* another holder.
LEMMA StepFlag ==
    ASSUME NestingTeams = {}, Inv, [Next]_vars
    PROVE  OneHolder' /\ OwnerIsSafe'
<1> pc \in [Core -> Places] /\ critical_flag \in BOOLEAN
  BY DEF Inv, TypeOK
<1> OneHolder /\ OwnerIsSafe /\ NestMatches
  BY DEF Inv
<1> nest \in [Core -> {0, 1}]
  BY CriticalAssumption DEF Inv, TypeOK, NestMatches, CriticalAssumption
<1> NoCore \notin Core
  BY CriticalAssumption DEF CriticalAssumption
<1> USE DEF OneHolder, OwnerIsSafe, Holds, Outside, GoTo, Reads
<1>1. ASSUME NEW c \in Core, Call(c) PROVE OneHolder' /\ OwnerIsSafe'
  BY <1>1 DEF Call, NestMatches
<1>2. ASSUME NEW c \in Core, Try(c) \/ Spin(c) PROVE OneHolder' /\ OwnerIsSafe'
  <2>1. CASE critical_flag
    BY <1>2, <2>1 DEF Try, Spin
  <2>2. CASE ~critical_flag
    BY <1>2, <2>2 DEF Try, Spin
  <2> QED BY <2>1, <2>2
<1>3. ASSUME NEW c \in Core, FreshDepth(c) \/ FreshOwner(c) \/ NestedDepth(c)
      PROVE  OneHolder' /\ OwnerIsSafe'
  BY <1>3 DEF FreshDepth, FreshOwner, NestedDepth
<1>4. ASSUME NEW c \in Core, NestedOwner(c) PROVE OneHolder' /\ OwnerIsSafe'
  BY <1>4 DEF NestedOwner
<1>5. ASSUME NEW c \in Core, Take(c) \/ Own(c) PROVE OneHolder' /\ OwnerIsSafe'
  BY <1>5 DEF Take, Own
<1>6. ASSUME NEW c \in Core, EnterLoad(c) \/ EnterStore(c) \/ LeaveLoad(c) \/ LeaveStore(c)
      PROVE  OneHolder' /\ OwnerIsSafe'
  BY <1>6 DEF EnterLoad, EnterStore, LeaveLoad, LeaveStore
<1>7. ASSUME NEW c \in Core, LastDepth(c) \/ LastOwner(c)
      PROVE  OneHolder' /\ OwnerIsSafe'
  BY <1>7 DEF LastDepth, LastOwner, Return, NestMatches
<1>8. ASSUME NEW c \in Core, Release(c) PROVE OneHolder' /\ OwnerIsSafe'
  BY <1>8 DEF Release
<1>9. ASSUME NEW c \in Core, ResetDepth(c) \/ ResetOwner(c)
      PROVE  OneHolder' /\ OwnerIsSafe'
  BY <1>9 DEF ResetDepth, ResetOwner, Return, NestMatches
<1>10. CASE UNCHANGED vars
  BY <1>10 DEF vars
<1> QED
  BY <1>1, <1>2, <1>3, <1>4, <1>5, <1>6, <1>7, <1>8, <1>9, <1>10 DEF Next, Step, Finished

\* The inductive invariant of critical() without nesting, on any number of
\* cores and for any number of calls.
THEOREM FlatInvariance == NestingTeams = {} /\ SafeSpec => []Inv
<1>1. ASSUME NestingTeams = {} PROVE Inv /\ [Next]_vars => Inv'
  BY <1>1, StepFlagType, StepTypes, StepFlag, FlatMeans DEF Inv, TypeOK, NumbersOK
<1>2. CASE NestingTeams = {}
  BY <1>1, <1>2, InitInv, PTL DEF SafeSpec
<1> QED BY <1>2

\* Only one core is in the critical section at a time (critical.h), as long as
\* work does not call critical() again.
THEOREM FlatExclusion == NestingTeams = {} /\ SafeSpec => []MutualExclusion
<1>1. ASSUME NestingTeams = {} PROVE Inv => MutualExclusion
  <2>1. Inv => nest \in [Core -> 0 .. 1]
    BY <1>1, CriticalAssumption DEF Inv, TypeOK, NestMatches, CriticalAssumption
  <2>2. Inv => \A c \in Core : AtWork(c) => Holds(c)
    <3> SUFFICES ASSUME Inv, NEW c \in Core, AtWork(c) PROVE Holds(c)
      OBVIOUS
    <3>1. nest[c] \in 0 .. 1
      BY <2>1
    <3>2. pc[c] = "work"
      BY <3>1 DEF AtWork
    <3> QED BY <3>2 DEF Holds, Outside
  <2> QED BY <2>2 DEF Inv, OneHolder, MutualExclusion
<1>2. CASE NestingTeams = {}
  BY <1>1, <1>2, FlatInvariance, PTL
<1> QED BY <1>2
=============================================================================
