------------------------------ MODULE Critical ------------------------------
(***************************************************************************)
(* critical(work) of the x86 kernel (kernel/critical.h): a re-entrant      *)
(* critical section kept in three shared variables, of which only the flag *)
(* is atomic.  Each access to one of them is a step of its own, so the     *)
(* cores interleave at every one; depth++ and depth-- are a load and a     *)
(* store.  The variables are volatile, so each access is made, in the      *)
(* order of the source.  Memory is taken to be sequentially consistent: a  *)
(* store buffer could keep the two resets back a little longer, and the    *)
(* interleavings keep them back as long as they like.                      *)
(*                                                                         *)
(* A team of cores makes the calls, MaxCalls each (t0.cc and t1.cc make    *)
(* one on every core); the work of some teams calls critical() again, up   *)
(* to MaxNest calls deep.                                                  *)
(***************************************************************************)
EXTENDS Integers

CONSTANTS
    Core,           \* the processors, as SMP::me() names them
    NoCore,         \* uint32_t(-1), the owner when there is none
    Teams,          \* the sets of cores that may make the calls
    NestingTeams,   \* those of them whose work calls critical() again
    MaxNest,        \* how deep it does
    MaxCalls,       \* calls that one core makes, nested ones included
    Word            \* 2^32 in the code: the width of critical_depth

ASSUME CriticalAssumption ==
    /\ NoCore \notin Core
    /\ Teams \subseteq SUBSET Core
    /\ MaxNest \in Nat \ {0}
    /\ MaxCalls \in Nat \ {0}
    /\ Word \in Nat /\ Word > MaxNest + 1

VARIABLES
    team,           \* the cores that make the calls
    critical_flag,
    critical_depth,
    critical_owner,
    pc,             \* the next access of each core
    reg,            \* the depth a core has loaded for a ++ or a --
    nest,           \* how many calls of critical() a core is inside of
    calls           \* calls a core has made

vars == <<team, critical_flag, critical_depth, critical_owner, pc, reg, nest, calls>>

GoTo(c, from, to) == pc[c] = from /\ pc' = [pc EXCEPT ![c] = to]

\* What a step that only reads the shared variables leaves alone.
Reads == UNCHANGED <<team, critical_flag, critical_depth, critical_owner, reg, nest, calls>>

Init ==
    /\ team \in Teams
    /\ critical_flag = FALSE
    /\ critical_depth = 0
    /\ critical_owner = NoCore
    /\ pc = [c \in Core |-> "out"]
    /\ reg = [c \in Core |-> 0]
    /\ nest = [c \in Core |-> 0]
    /\ calls = [c \in Core |-> 0]

(***************************************************************************)
(* Getting in.                                                             *)
(***************************************************************************)

\* kernelMain() calls critical(work), or work does once more.
Call(c) ==
    /\ c \in team /\ calls[c] < MaxCalls
    /\ \/ pc[c] = "out"
       \/ pc[c] = "work" /\ nest[c] < MaxNest /\ team \in NestingTeams
    /\ pc' = [pc EXCEPT ![c] = "try"]
    /\ nest' = [nest EXCEPT ![c] = @ + 1]
    /\ calls' = [calls EXCEPT ![c] = @ + 1]
    /\ UNCHANGED <<team, critical_flag, critical_depth, critical_owner, reg>>

\* The first operand of the if: !critical_flag.exchange(true).  It takes the
\* flag whatever the operands after it say.
Try(c) ==
    /\ pc[c] = "try"
    /\ pc' = [pc EXCEPT ![c] = IF critical_flag THEN "nested?" ELSE "fresh depth?"]
    /\ critical_flag' = TRUE
    /\ UNCHANGED <<team, critical_depth, critical_owner, reg, nest, calls>>

\* ... && critical_depth == 0
FreshDepth(c) ==
    /\ pc[c] = "fresh depth?"
    /\ pc' = [pc EXCEPT ![c] = IF critical_depth = 0 THEN "fresh owner?" ELSE "nested?"]
    /\ Reads

\* ... && critical_owner == uint32_t(-1)
FreshOwner(c) ==
    /\ pc[c] = "fresh owner?"
    /\ pc' = [pc EXCEPT ![c] = IF critical_owner = NoCore THEN "take" ELSE "nested?"]
    /\ Reads

\* else if (critical_depth > 0
NestedDepth(c) ==
    /\ pc[c] = "nested?"
    /\ pc' = [pc EXCEPT ![c] = IF critical_depth > 0 THEN "mine?" ELSE "spin"]
    /\ Reads

\* The nested branch that forgets to compare the owner.
NestedOwnerUnchecked(c) == GoTo(c, "mine?", "enter load") /\ Reads

\* ... && critical_owner == SMP::me()): the owner goes straight to depth++.
NestedOwner(c) ==
    /\ pc[c] = "mine?"
    /\ pc' = [pc EXCEPT ![c] = IF critical_owner = c THEN "enter load" ELSE "spin"]
    /\ Reads

\* The wait that tests the flag and sets it later, at critical_flag.set(true).
SpinNotAtomic(c) ==
    /\ pc[c] = "spin"
    /\ pc' = [pc EXCEPT ![c] = IF critical_flag THEN "spin" ELSE "take"]
    /\ Reads

\* else while (critical_flag.exchange(true));
Spin(c) ==
    /\ pc[c] = "spin"
    /\ pc' = [pc EXCEPT ![c] = IF critical_flag THEN "spin" ELSE "take"]
    /\ critical_flag' = TRUE
    /\ UNCHANGED <<team, critical_depth, critical_owner, reg, nest, calls>>

\* critical_flag is set once more, by whoever has just got it.
Take(c) ==
    /\ GoTo(c, "take", "own")
    /\ critical_flag' = TRUE
    /\ UNCHANGED <<team, critical_depth, critical_owner, reg, nest, calls>>

\* critical_owner = SMP::me()
Own(c) ==
    /\ GoTo(c, "own", "enter load")
    /\ critical_owner' = c
    /\ UNCHANGED <<team, critical_flag, critical_depth, reg, nest, calls>>

\* critical_depth++, in all three branches.
EnterLoad(c) ==
    /\ GoTo(c, "enter load", "enter store")
    /\ reg' = [reg EXCEPT ![c] = critical_depth]
    /\ UNCHANGED <<team, critical_flag, critical_depth, critical_owner, nest, calls>>

EnterStore(c) ==
    /\ GoTo(c, "enter store", "work")
    /\ critical_depth' = (reg[c] + 1) % Word
    /\ UNCHANGED <<team, critical_flag, critical_owner, reg, nest, calls>>

(***************************************************************************)
(* Getting out.                                                            *)
(***************************************************************************)

\* work() returns, and critical_depth-- loads.
LeaveLoad(c) ==
    /\ GoTo(c, "work", "leave store")
    /\ reg' = [reg EXCEPT ![c] = critical_depth]
    /\ UNCHANGED <<team, critical_flag, critical_depth, critical_owner, nest, calls>>

LeaveStore(c) ==
    /\ GoTo(c, "leave store", "last?")
    /\ critical_depth' = (reg[c] - 1) % Word
    /\ UNCHANGED <<team, critical_flag, critical_owner, reg, nest, calls>>

\* The end of critical(): back to the work of the outer call, or to the caller.
Return(c) ==
    /\ nest' = [nest EXCEPT ![c] = @ - 1]
    /\ pc' = [pc EXCEPT ![c] = IF nest[c] = 1 THEN "out" ELSE "work"]
    /\ UNCHANGED calls

\* if (critical_depth == 0
LastDepth(c) ==
    /\ pc[c] = "last?"
    /\ UNCHANGED <<team, critical_flag, critical_depth, critical_owner, reg>>
    /\ IF critical_depth = 0
       THEN pc' = [pc EXCEPT ![c] = "release mine?"] /\ UNCHANGED <<nest, calls>>
       ELSE Return(c)

\* ... && critical_owner == SMP::me())
LastOwner(c) ==
    /\ pc[c] = "release mine?"
    /\ UNCHANGED <<team, critical_flag, critical_depth, critical_owner, reg>>
    /\ IF critical_owner = c
       THEN pc' = [pc EXCEPT ![c] = "release"] /\ UNCHANGED <<nest, calls>>
       ELSE Return(c)

\* critical_flag.exchange(false), first of the three.
Release(c) ==
    /\ GoTo(c, "release", "reset depth")
    /\ critical_flag' = FALSE
    /\ UNCHANGED <<team, critical_depth, critical_owner, reg, nest, calls>>

\* critical_depth = uint32_t(0), with the flag already given away.
ResetDepth(c) ==
    /\ GoTo(c, "reset depth", "reset owner")
    /\ critical_depth' = 0
    /\ UNCHANGED <<team, critical_flag, critical_owner, reg, nest, calls>>

\* The reset of the owner is left out.
ResetOwnerMissing(c) ==
    /\ pc[c] = "reset owner"
    /\ Return(c)
    /\ UNCHANGED <<team, critical_flag, critical_depth, critical_owner, reg>>

\* critical_owner = uint32_t(-1)
ResetOwner(c) ==
    /\ pc[c] = "reset owner"
    /\ critical_owner' = NoCore
    /\ Return(c)
    /\ UNCHANGED <<team, critical_flag, critical_depth, reg>>

\* What a core does by itself once it is inside critical(), its work included.
Step(c) ==
    \/ Try(c) \/ FreshDepth(c) \/ FreshOwner(c) \/ NestedDepth(c) \/ NestedOwner(c)
    \/ Spin(c) \/ Take(c) \/ Own(c) \/ EnterLoad(c) \/ EnterStore(c)
    \/ LeaveLoad(c) \/ LeaveStore(c) \/ LastDepth(c) \/ LastOwner(c)
    \/ Release(c) \/ ResetDepth(c) \/ ResetOwner(c)

\* Every core has made its calls: kernelMain() is over.
Finished ==
    /\ \A c \in team : pc[c] = "out" /\ calls[c] = MaxCalls
    /\ UNCHANGED vars

Next == (\E c \in Core : Call(c) \/ Step(c)) \/ Finished

\* The cores never stop, kernelMain() makes its call on each of them, and the
\* nesting of work is bounded.
Fairness == \A c \in Core : WF_vars(Call(c) \/ Step(c)) /\ WF_vars(Step(c))

SafeSpec == Init /\ [][Next]_vars

Spec == SafeSpec /\ Fairness

(***************************************************************************)
(* Properties.                                                             *)
(***************************************************************************)

Outside == {"out", "try", "nested?", "mine?", "spin", "reset depth", "reset owner"}

Places == Outside \cup
    {"fresh depth?", "fresh owner?", "take", "own", "enter load", "enter store",
     "work", "leave store", "last?", "release mine?", "release"}

TypeOK ==
    /\ team \in Teams
    /\ critical_flag \in BOOLEAN
    /\ critical_depth \in 0 .. Word - 1
    /\ critical_owner \in Core \cup {NoCore}
    /\ pc \in [Core -> Places]
    /\ reg \in [Core -> 0 .. Word - 1]
    /\ nest \in [Core -> 0 .. MaxNest]
    /\ calls \in [Core -> 0 .. MaxCalls]

\* work of c is under way, at any depth: c is inside the outermost work, or in
\* the calls of critical() that it makes.
AtWork(c) == pc[c] = "work" \/ nest[c] > 1

\* Only one core is in the critical section at a time.
MutualExclusion == \A c, d \in Core : AtWork(c) /\ AtWork(d) => c = d

\* c has got the flag, or got to nest, and has not given the flag back.
Holds(c) == pc[c] \notin Outside

\* Two cores never both take the flag for theirs, not even while they read
\* and write the depth and the owner around their work.
OneHolder ==
    /\ \A c, d \in Core : Holds(c) /\ Holds(d) => c = d
    /\ \A c \in Core : Holds(c) => critical_flag

\* The owner is never a leftover that lets its core in beside another one: once
\* the named core has finished its resets, the flag is set and nobody else
\* holds it.
OwnerIsSafe ==
    \A d \in Core :
        critical_owner = d /\ pc[d] \notin {"reset depth", "reset owner"} =>
            /\ critical_flag
            /\ \A c \in Core \ {d} : ~Holds(c)

NestMatches ==
    \A c \in Core : /\ nest[c] = 0 <=> pc[c] = "out"
                    /\ team \notin NestingTeams => nest[c] <= 1

\* The inductive invariant for work that does not call critical() again: the
\* owner is written outside of the flag as well, and what it may name is all
\* that keeps the nested branch shut.
Inv == TypeOK /\ NestMatches /\ OneHolder /\ OwnerIsSafe

\* Every core returns from every call of critical(): the expected output of the
\* tests (t0.ok, t1.ok) has the lines of all four cores.
EveryCoreReturns == <>(\A c \in team : pc[c] = "out" /\ calls[c] = MaxCalls)

\* A core that is alone does, however deep its calls nest: it never waits for a
\* flag that it has itself.
AloneReturns == (\E c \in Core : team = {c}) => EveryCoreReturns
============================================================================
