------------------------------- MODULE Console -------------------------------
(***************************************************************************)
(* The debug output of the x86 kernel (kernel/debug.cc, kernel/u8250.cc):  *)
(* every core prints through one serial port, one character at a time,     *)
(* under one SpinLock; a check that fails and a piece of missing code end  *)
(* in a panic, which forces the lock open, prints and switches the machine *)
(* off; processor 0 switches it off when all are done.                     *)
(*                                                                         *)
(* A character is known by its core and by its place in its line; what it  *)
(* looks like is left to vsnprintf.  The lock is its word: how cores nap   *)
(* on it is shown in module SpinLock, and an unlock by a core that does    *)
(* not hold it is what is new here.  The barrier before the shutdown is    *)
(* module Rendezvous, seen from processor 0.  The cores print from the     *)
(* first barrier on, when sink is set.                                     *)
(***************************************************************************)
EXTENDS Integers, FiniteSets

CONSTANTS
    Core,           \* the processors
    First,          \* processor 0, which shuts the machine down
    MaxCalls,       \* calls that kernelMain() makes on one core
    Chars,          \* the characters of a line
    Empty,          \* nothing in the register of the port
    None            \* nothing printed yet

ASSUME ConsoleAssumption ==
    /\ First \in Core /\ IsFiniteSet(Core)
    /\ MaxCalls \in Nat \ {0} /\ Chars \in Nat \ {0}
    /\ Empty \notin [core : Core, k : Nat]

VARIABLES
    lock,           \* the word of the SpinLock
    checks,         \* Debug::checks
    missing_flag,
    thr,            \* the transmitter holding register of the port
    on,             \* the machine is on
    pc,
    lines,          \* lines[c]: how many vprintf has still to print, in a row
    exit,           \* exit[c]: and whether c then switches the machine off
    k,              \* k[c]: the characters of its line that it has put
    calls,          \* the calls c has made
    last,           \* the last character that the port has sent
    forced, made, reported, absent
                    \* auxiliary: the unlocks by force, the calls that were checks,
                    \* the number shutdown() prints, who found missing code

print == <<lines, exit, k>>
seen == <<forced, made, reported, absent>>
vars == <<lock, checks, missing_flag, thr, on, pc, print, calls, last, seen>>

GoTo(c, from, to) == on /\ pc[c] = from /\ pc' = [pc EXCEPT ![c] = to]

Init ==
    /\ lock = FALSE /\ checks = 0 /\ missing_flag = 0
    /\ thr = Empty /\ on = TRUE /\ last = Empty
    /\ pc = [c \in Core |-> "kernelMain"]
    /\ lines = [c \in Core |-> 0] /\ exit = [c \in Core |-> FALSE]
    /\ k = [c \in Core |-> 0] /\ calls = [c \in Core |-> 0]
    /\ forced = 0 /\ made = {} /\ reported = None /\ absent = {}

(***************************************************************************)
(* What kernelMain() may call.                                             *)
(***************************************************************************)

\* c is to print n lines, and then goes on or switches the machine off.
Queue(c, n, off) ==
    /\ lines' = [lines EXCEPT ![c] = n]
    /\ exit' = [exit EXCEPT ![c] = off]
    /\ UNCHANGED k

Calls(c, to) ==
    /\ calls[c] < MaxCalls
    /\ calls' = [calls EXCEPT ![c] = @ + 1]
    /\ GoTo(c, "kernelMain", to)

\* printf is one call of vprintf; debug(), when it is switched on, is three.
Printf(c) ==
    /\ Calls(c, "lock")
    /\ \E n \in {1, 3} : Queue(c, n, FALSE)
    /\ UNCHANGED <<lock, checks, missing_flag, thr, on, last, seen>>

\* CHECK: checks.fetch_add(1), and a panic if the invariant does not hold.
Check(c) ==
    /\ checks' = checks + 1
    /\ made' = made \cup {<<c, calls[c]>>}
    /\ \E holds \in BOOLEAN : Calls(c, IF holds THEN "kernelMain" ELSE "panic")
    /\ UNCHANGED <<lock, missing_flag, thr, on, print, last, forced, reported, absent>>

\* missing() that looks at the flag after it was raised.
MissingAddFetch(c) ==
    /\ missing_flag' = missing_flag + 1
    /\ absent' = IF missing_flag' = 0 THEN absent \cup {c} ELSE absent
    /\ Calls(c, IF missing_flag' = 0 THEN "panic" ELSE "hlt")
    /\ UNCHANGED <<lock, checks, thr, on, print, last, forced, made, reported>>

\* missing(): only the first core says so, the others halt.
Missing(c) ==
    /\ missing_flag' = missing_flag + 1
    /\ absent' = IF missing_flag = 0 THEN absent \cup {c} ELSE absent
    /\ Calls(c, IF missing_flag = 0 THEN "panic" ELSE "hlt")
    /\ UNCHANGED <<lock, checks, thr, on, print, last, forced, made, reported>>

\* vpanic(): the lock is unlocked, whoever has it; two lines are printed, the
\* message and the one about the processor, and then the machine goes off.
Panic(c) ==
    /\ GoTo(c, "panic", "lock")
    /\ lock' = FALSE
    /\ forced' = forced + 1
    /\ Queue(c, 2, TRUE)
    /\ UNCHANGED <<checks, missing_flag, thr, on, calls, last, made, reported, absent>>

\* kernelMain() returns, to the second barrier.
Return(c) ==
    /\ GoTo(c, "kernelMain", "stopping")
    /\ UNCHANGED <<lock, checks, missing_flag, thr, on, print, calls, last, seen>>

\* The shutdown that does not wait for the others.
ShutdownAtOnce(c) ==
    /\ c = First
    /\ GoTo(c, "stopping", IF checks > 0 THEN "report" ELSE "lock")
    /\ Queue(c, 1, TRUE)
    /\ UNCHANGED <<lock, checks, missing_flag, thr, on, calls, last, seen>>

\* Debug::shutdown(), behind the barrier: the number of checks if there are any, a
\* last line, and the machine goes off.
Shutdown(c) ==
    /\ c = First
    /\ \A d \in Core : pc[d] = "stopping"
    /\ GoTo(c, "stopping", IF checks > 0 THEN "report" ELSE "lock")
    /\ Queue(c, 1, TRUE)
    /\ UNCHANGED <<lock, checks, missing_flag, thr, on, calls, last, seen>>

\* The number is read once more, for a line in front of the last.
Report(c) ==
    /\ GoTo(c, "report", "lock")
    /\ reported' = checks
    /\ Queue(c, 2, TRUE)
    /\ UNCHANGED <<lock, checks, missing_flag, thr, on, calls, last, forced, made, absent>>

(***************************************************************************)
(* vprintf() and the port.                                                 *)
(***************************************************************************)

\* lock() that lets c in whatever the word says.
LockAnyway(c) ==
    /\ GoTo(c, "lock", "poll")
    /\ lock' = TRUE
    /\ k' = [k EXCEPT ![c] = 0]
    /\ UNCHANGED <<checks, missing_flag, thr, on, lines, exit, calls, last, seen>>

\* lock.lock(): the exchange that finds the word clear.
Lock(c) ==
    /\ GoTo(c, "lock", "poll")
    /\ ~lock
    /\ lock' = TRUE
    /\ k' = [k EXCEPT ![c] = 0]
    /\ UNCHANGED <<checks, missing_flag, thr, on, lines, exit, calls, last, seen>>

\* put() that does not look whether the register is empty.
PollNot(c) ==
    /\ GoTo(c, "poll", "out")
    /\ UNCHANGED <<lock, checks, missing_flag, thr, on, print, calls, last, seen>>

\* put(): while (!(inb(0x3F8+5) & 0x20));
Poll(c) ==
    /\ GoTo(c, "poll", "out")
    /\ thr = Empty
    /\ UNCHANGED <<lock, checks, missing_flag, thr, on, print, calls, last, seen>>

\* put(): outb(0x3F8, c), over whatever the register holds by now.
Out(c) ==
    /\ GoTo(c, "out", IF k[c] + 1 < Chars THEN "poll" ELSE "unlock")
    /\ thr' = [core |-> c, k |-> k[c] + 1]
    /\ k' = [k EXCEPT ![c] = @ + 1]
    /\ UNCHANGED <<lock, checks, missing_flag, on, lines, exit, calls, last, seen>>

\* lock.unlock(), and what the caller of vprintf has to do next.
Unlock(c) ==
    /\ GoTo(c, "unlock", IF lines[c] > 1 THEN "lock" ELSE IF exit[c] THEN "off" ELSE "kernelMain")
    /\ lock' = FALSE
    /\ lines' = [lines EXCEPT ![c] = @ - 1]
    /\ UNCHANGED <<checks, missing_flag, thr, on, exit, k, calls, last, seen>>

\* outb(0xf4, 0), which ends the emulator, and with it every core.
Off(c) ==
    /\ on /\ pc[c] = "off"
    /\ on' = FALSE
    /\ UNCHANGED <<lock, checks, missing_flag, thr, pc, print, calls, last, seen>>

\* The port sends what is in its register.
Transmit ==
    /\ thr # Empty
    /\ last' = thr
    /\ thr' = Empty
    /\ UNCHANGED <<lock, checks, missing_flag, on, pc, print, calls, seen>>

\* while (true) asm volatile("hlt");
Halt(c) == on /\ pc[c] = "hlt" /\ UNCHANGED vars

Ended == ~on /\ thr = Empty /\ UNCHANGED vars

Step(c) ==
    \/ Panic(c) \/ Shutdown(c) \/ Report(c)
    \/ Lock(c) \/ Poll(c) \/ Out(c) \/ Unlock(c) \/ Off(c)

MayCall(c) == Printf(c) \/ Check(c) \/ Missing(c)

Next ==
    \/ \E c \in Core : Step(c) \/ MayCall(c) \/ Return(c) \/ Halt(c)
    \/ Transmit
    \/ Ended

\* The cores run, kernelMain() comes to its end, and the port sends.
Fairness ==
    /\ \A c \in Core : WF_vars(Step(c)) /\ WF_vars(MayCall(c) \/ Return(c))
    /\ WF_vars(Transmit)

SafeSpec == Init /\ [][Next]_vars

Spec == SafeSpec /\ Fairness

(***************************************************************************)
(* Properties.                                                             *)
(***************************************************************************)

Places == {"kernelMain", "panic", "stopping", "report", "lock", "poll", "out", "unlock", "off", "hlt"}

Char == [core : Core, k : 1 .. Chars]

TypeOK ==
    /\ lock \in BOOLEAN /\ on \in BOOLEAN
    /\ checks \in Nat /\ missing_flag \in Nat /\ forced \in Nat
    /\ thr \in Char \cup {Empty} /\ last \in Char \cup {Empty}
    /\ pc \in [Core -> Places]
    /\ lines \in [Core -> 0 .. 3] /\ exit \in [Core -> BOOLEAN]
    /\ k \in [Core -> 0 .. Chars]
    /\ calls \in [Core -> 0 .. MaxCalls]
    /\ made \subseteq Core \X (0 .. MaxCalls) /\ reported \in Nat \cup {None} /\ absent \subseteq Core

\* The cores between lock.lock() and lock.unlock().
Printing == {c \in Core : pc[c] \in {"poll", "out", "unlock"}}

\* Each unlock by force lets at most one more core print at the same time, and
\* with none the lock is taken exactly while a core prints.  (An unlock by force
\* makes the cores that are printing clear the word under one another; what is
\* bounded is their number together with the room for one more.)
DamageBounded ==
    /\ Cardinality(Printing) + (IF lock THEN 0 ELSE 1) <= 1 + forced
    /\ forced = 0 => (lock <=> Printing # {})

\* Where c is in what it prints.
Counts ==
    \A c \in Core :
        /\ pc[c] = "lock" \/ c \in Printing => lines[c] > 0
        /\ pc[c] \in {"poll", "out"} => k[c] < Chars
        /\ pc[c] = "unlock" => k[c] = Chars

\* b comes after a when lines are printed one after the other.
IsComplete(a) == a = Empty \/ a.k = Chars

Follows(a, b) == IF IsComplete(a) THEN b.k = 1 ELSE b = [a EXCEPT !.k = @ + 1]

\* Until a panic forces the lock, the lines of the cores do not mix and no
\* character of them is lost: what is in the register, or is written into it
\* over something else, follows what was sent.
LinesWhole ==
    forced = 0 /\ thr # Empty => Follows(last, thr)

\* What makes LinesWhole inductive: the latest character in the port is the one
\* before the next of the core that is printing, which finds the register as
\* empty as it has seen it.
Latest == IF thr = Empty THEN last ELSE thr

PortTidy ==
    forced = 0 =>
        /\ Printing = {} => IsComplete(Latest)
        /\ \A c \in Printing :
              /\ pc[c] = "out" => thr = Empty
              /\ IF k[c] = 0 THEN IsComplete(Latest) ELSE Latest = [core |-> c, k |-> k[c]]

\* The inductive invariant, without LinesWhole.
Inv == TypeOK /\ Counts /\ DamageBounded /\ PortTidy

\* shutdown() reports every check that was made, on any core: CHECK is there "for
\* testing", and "*** passed %d checkes" is all that is seen of one that holds.
ChecksReported ==
    reported # None => reported = Cardinality(made)

\* However many cores run into missing code, one of them says so.
MissingOnce == Cardinality(absent) <= 1 /\ (missing_flag > 0 => absent # {})

\* The machine goes off in the end, with or without a panic: the cores that
\* halt in missing() do so only because another one is on its way to a panic.
GoesOff == <>~on
=============================================================================
