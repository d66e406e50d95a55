----------------------------- MODULE ArmKernel -----------------------------
(***************************************************************************)
(* kernel_init() of the Raspberry Pi (src/init.cc) on the cores that run   *)
(* it: each sets up the one mini UART (src/mini_uart.cc), prints a line    *)
(* and echoes what is typed.  None of it takes a lock, nor does critical() *)
(* (include/critical.h), whose lock is commented out.  The call of         *)
(* kernelMain(), which runs work() in critical(), is commented out as      *)
(* well: the model has the kernel without the call and the one with it.    *)
(*                                                                         *)
(* Of the device this is assumed: bit 5 of its status says that the queue  *)
(* to the wire has room, bit 0 that there is a character to read; a write  *)
(* to a full queue and what is typed with the receiver off or without room *)
(* are lost, and a read of an empty queue returns none of what is typed.   *)
(*                                                                         *)
(* A character is a pair: what it is a part of, and a number.  The text of *)
(* a line up to its end is one character.                                  *)
(***************************************************************************)
EXTENDS Integers, Sequences, FiniteSets

CONSTANTS
    Kernels,        \* [cores : who runs kernel_init(), kernelMain : whether it is called]
    FIFO,           \* the room in each queue of the device
    MaxTyped,       \* bound: the characters that are typed and arrive
    Word            \* 2^32 in the code

ASSUME ArmKernelAssumption == FIFO \in Nat \ {0} /\ MaxTyped \in Nat /\ Word \in Nat /\ Word > 4

Core == 0 .. 3

ASSUME KernelsAssumption == \A k \in Kernels : k.cores \subseteq Core /\ k.kernelMain \in BOOLEAN

NoOwner == Word - 1

Junk == <<"junk", 0>>

VARIABLES
    kernel,                     \* the kernel, one of Kernels
    pc, reg,                    \* where each core is, and what it has loaded
    out,                        \* what each core still has to send
    room,                       \* it has seen that there is room for it
    cntl, rx, tx,               \* the device: its control register and its queues
    typed,                      \* how many characters have arrived
    wire,                       \* what went out while one core ran alone
    owner, depth, counter,      \* critical_owner, critical_depth and counter
    overlap                     \* whether two cores have been in critical() at once

cores == <<pc, reg>>
sending == <<out, room>>
device == <<cntl, rx, tx, typed, wire>>
critical == <<owner, depth, counter, overlap>>
vars == <<kernel, cores, sending, device, critical>>

Init ==
    /\ kernel \in Kernels
    /\ pc = [c \in Core |-> IF c \in kernel.cores THEN "uart_init" ELSE "off"]
    /\ reg = [c \in Core |-> 0]
    /\ out = [c \in Core |-> <<>>] /\ room = [c \in Core |-> FALSE]
    /\ cntl = 0 /\ rx = <<>> /\ tx = <<>> /\ typed = 0 /\ wire = <<>>
    /\ owner = NoOwner /\ depth = 0 /\ counter = 0 /\ overlap = FALSE

\* A core goes on when it has sent what it had to.
GoTo(c, from, to) == pc[c] = from /\ out[c] = <<>> /\ pc' = [pc EXCEPT ![c] = to]

Goes(c, from, to) == GoTo(c, from, to) /\ UNCHANGED reg

Loads(c, from, to, value) == GoTo(c, from, to) /\ reg' = [reg EXCEPT ![c] = value]

(***************************************************************************)
(* mini_uart.cc                                                            *)
(***************************************************************************)

\* The last two stores of uart_init() to AUX_MU_CNTL_REG the other way round.
UartInitSwapped(c) ==
    /\ \/ Goes(c, "uart_init", "enable") /\ cntl' = 3
       \/ Goes(c, "enable", "hello") /\ cntl' = 0
    /\ UNCHANGED <<kernel, sending, rx, tx, typed, wire, critical>>

\* The stores of uart_init() to AUX_MU_CNTL_REG: the device is off in between.
UartInit(c) ==
    /\ \/ Goes(c, "uart_init", "enable") /\ cntl' = 0
       \/ Goes(c, "enable", "hello") /\ cntl' = 3
    /\ UNCHANGED <<kernel, sending, rx, tx, typed, wire, critical>>

\* No wait for room.
SendAtOnce(c) ==
    /\ out[c] # <<>> /\ ~room[c]
    /\ room' = [room EXCEPT ![c] = TRUE]
    /\ UNCHANGED <<kernel, cores, out, device, critical>>

\* The wait of uart_send() ...
SendWait(c) ==
    /\ out[c] # <<>> /\ ~room[c] /\ Len(tx) < FIFO
    /\ room' = [room EXCEPT ![c] = TRUE]
    /\ UNCHANGED <<kernel, cores, out, device, critical>>

\* ... and its store, whatever has happened to the room.
SendStore(c) ==
    /\ room[c]
    /\ room' = [room EXCEPT ![c] = FALSE]
    /\ out' = [out EXCEPT ![c] = Tail(@)]
    /\ tx' = IF Len(tx) < FIFO THEN Append(tx, Head(out[c])) ELSE tx
    /\ UNCHANGED <<kernel, cores, cntl, rx, typed, wire, critical>>

\* uart_send(uart_recv()): the wait for a character, the load of it, and the call.
RecvWait(c) ==
    /\ rx # <<>>
    /\ Goes(c, "recv", "read")
    /\ UNCHANGED <<kernel, sending, device, critical>>

RecvLoad(c) ==
    /\ Goes(c, "read", "recv")
    /\ out' = [out EXCEPT ![c] = IF rx = <<>> THEN <<Junk>> ELSE <<Head(rx)>>]
    /\ rx' = IF rx = <<>> THEN rx ELSE Tail(rx)
    /\ UNCHANGED <<kernel, room, cntl, tx, typed, wire, critical>>

\* The loops of the two waits.
Spin(c) ==
    /\ \/ out[c] # <<>> /\ ~room[c] /\ Len(tx) = FIFO
       \/ pc[c] = "recv" /\ out[c] = <<>> /\ rx = <<>>
    /\ UNCHANGED vars

(***************************************************************************)
(* init.cc                                                                 *)
(***************************************************************************)

\* What is sent for a character of a printf: a line feed has a return in front.
putc(ch) == IF ch[1] = "\n" THEN <<<<"\r", 0>>, ch>> ELSE <<ch>>

\* A line.
Line(text, value) == putc(<<text, value>>) \o putc(<<"\n", 0>>)

Puts(c, text, value) == out' = [out EXCEPT ![c] = Line(text, value)]

\* printf("Hello world: %d\r\n", num)
Hello(c) ==
    /\ Goes(c, "hello", IF kernel.kernelMain THEN "critical" ELSE "recv")
    /\ Puts(c, "Hello world", c)
    /\ UNCHANGED <<kernel, room, device, critical>>

\* The two lines of work(), and counter++.
Work(c) ==
    \/ /\ \/ Goes(c, "work", "goodbye") /\ Puts(c, "hello", counter)
          \/ Goes(c, "goodbye", "count") /\ Puts(c, "goodbye", counter)
       /\ UNCHANGED <<kernel, room, device, critical>>
    \/ /\ Loads(c, "count", "count store", counter)
       /\ UNCHANGED <<kernel, sending, device, critical>>
    \/ /\ Goes(c, "count store", "depth--")
       /\ counter' = (reg[c] + 1) % Word
       /\ UNCHANGED <<kernel, sending, device, owner, depth, overlap>>

(***************************************************************************)
(* critical.h                                                              *)
(***************************************************************************)

Inside == {"owner", "depth++", "depth++ store", "work", "goodbye", "count", "count store",
           "depth--", "depth-- store", "last", "owner reset"}

\* if (critical_owner != thread_id) critical_owner = thread_id
Enter(c) ==
    \/ /\ Goes(c, "critical", IF owner = c THEN "depth++" ELSE "owner")
       /\ overlap' = (overlap \/ \E d \in Core : pc[d] \in Inside)
       /\ UNCHANGED <<kernel, sending, device, owner, depth, counter>>
    \/ /\ Goes(c, "owner", "depth++")
       /\ owner' = c
       /\ UNCHANGED <<kernel, sending, device, depth, counter, overlap>>

\* critical_depth++ and critical_depth--, each a load and a store.
Nest(c) ==
    \/ /\ Loads(c, "depth++", "depth++ store", depth) \/ Loads(c, "depth--", "depth-- store", depth)
       /\ UNCHANGED <<kernel, sending, device, critical>>
    \/ /\ \/ Goes(c, "depth++ store", "work") /\ depth' = (reg[c] + 1) % Word
          \/ Goes(c, "depth-- store", "last") /\ depth' = (reg[c] - 1) % Word
       /\ UNCHANGED <<kernel, sending, device, owner, counter, overlap>>

\* The owner stays.
LeaveOwned(c) ==
    /\ Goes(c, "last", "recv")
    /\ UNCHANGED <<kernel, sending, device, critical>>

\* if (critical_depth == 0) critical_owner = -1
Leave(c) ==
    \/ /\ Goes(c, "last", IF depth = 0 THEN "owner reset" ELSE "recv")
       /\ UNCHANGED <<kernel, sending, device, critical>>
    \/ /\ Goes(c, "owner reset", "recv")
       /\ owner' = NoOwner
       /\ UNCHANGED <<kernel, sending, device, depth, counter, overlap>>

(***************************************************************************)
(* The device and who types.                                               *)
(***************************************************************************)

\* Only this core has started.
Alone(c) == \A d \in Core \ {c} : pc[d] \in {"off", "uart_init"}

\* A character is typed, and not lost.
Type ==
    /\ cntl = 3 /\ Len(rx) < FIFO /\ typed < MaxTyped
    /\ typed' = typed + 1
    /\ rx' = Append(rx, <<"typed", typed + 1>>)
    /\ UNCHANGED <<kernel, cores, sending, cntl, tx, wire, critical>>

Transmit ==
    /\ cntl = 3 /\ tx # <<>>
    /\ tx' = Tail(tx)
    /\ wire' = IF \E c \in Core : Alone(c) THEN Append(wire, Head(tx)) ELSE <<>>
    /\ UNCHANGED <<kernel, cores, sending, cntl, rx, typed, critical>>

Uart(c) == UartInit(c) \/ SendWait(c) \/ SendStore(c) \/ RecvWait(c) \/ RecvLoad(c)

Step(c) == Uart(c) \/ Hello(c) \/ Enter(c) \/ Nest(c) \/ Work(c) \/ Leave(c)

Next == (\E c \in Core : Step(c) \/ Spin(c)) \/ Type \/ Transmit

SafeSpec == Init /\ [][Next]_vars

\* Cores run, and the device sends while it is on.  Nobody has to type.
Spec == SafeSpec /\ (\A c \in Core : WF_vars(Step(c))) /\ WF_vars(Transmit)

(***************************************************************************)
(* Properties.                                                             *)
(***************************************************************************)

Echoing == {"recv", "read"}

Done(c) == kernel.kernelMain /\ pc[c] \in Echoing

Character == {"\r", "\n", "Hello world", "hello", "goodbye", "typed", "junk"} \X Nat

TypeOK ==
    /\ pc \in [Core -> {"off", "uart_init", "enable", "hello", "critical"} \cup Inside \cup Echoing]
    /\ reg \in [Core -> 0 .. Word - 1]
    /\ out \in [Core -> Seq(Character)] /\ room \in [Core -> BOOLEAN]
    /\ cntl \in {0, 3} /\ rx \in Seq(Character) /\ tx \in Seq(Character)
    /\ typed \in Nat /\ wire \in Seq(Character) /\ overlap \in BOOLEAN /\ kernel \in Kernels
    /\ owner \in Core \cup {NoOwner} /\ {depth, counter} \subseteq 0 .. Word - 1

\* Although each core switches the device off once, it is on when the last of them is
\* through with that.
LeftOn ==
    \/ \E c \in Core : pc[c] = "enable"
    \/ \A c \in Core : pc[c] \in {"off", "uart_init"}
    \/ cntl = 3

\* What the cores count without a lock is never more than they have done, and never
\* nothing once one of them is through.
Through == {c \in Core : pc[c] \in {"depth--", "depth-- store", "last", "owner reset"} \/ Done(c)}

CountWithin ==
    /\ counter <= Cardinality(Through) /\ (Through # {} => counter > 0)
    /\ \A c \in Core : pc[c] = "count store" => reg[c] <= Cardinality(Through)

\* The cores that have come to uart_init(), and what the others have not done: nothing
\* is sent, received or typed before the first.
Started == {c \in Core : pc[c] \notin {"off", "uart_init"}}

Untouched ==
    /\ \A c \in Core : /\ c \in kernel.cores <=> pc[c] # "off"
                       /\ c \notin Started => out[c] = <<>>
                       /\ room[c] => out[c] # <<>>
                       /\ pc[c] \in Inside \cup {"critical"} => kernel.kernelMain
    /\ Started = {} => /\ wire = <<>> /\ tx = <<>> /\ rx = <<>>
                       /\ typed = 0 /\ cntl = 0

\* What is typed behind the character m, up to the character n.
Keys(m, n) == [i \in 1 .. n - m |-> <<"typed", m + i>>]

\* What a core has printed, up to where it is.
Printed(c) ==
    (IF pc[c] \in {"uart_init", "enable", "hello"} THEN <<>> ELSE Line("Hello world", c))
    \o (IF pc[c] \in Inside \ {"owner", "depth++", "depth++ store", "work"} \/ Done(c)
        THEN Line("hello", 0) ELSE <<>>)
    \o (IF pc[c] \in Inside \ {"owner", "depth++", "depth++ store", "work", "goodbye"} \/ Done(c)
        THEN Line("goodbye", 0) ELSE <<>>)

\* What a core that runs alone has sent is what it has printed and then what it has
\* read, and the rest of what has been typed is there to be read.
Echo(c) ==
    /\ room[c] => Len(tx) < FIFO
    /\ pc[c] = "read" => rx # <<>>
    /\ pc[c] \notin Echoing => Len(rx) = typed
    /\ Len(rx) <= typed /\ rx = Keys(typed - Len(rx), typed)
    /\ wire \o tx \o out[c] = Printed(c) \o Keys(0, typed - Len(rx))

EchoInv == \A c \in Started : Alone(c) => Echo(c)

\* Where the core is that is in critical() while no two have been there at once.
Turn(c) ==
    /\ pc[c] \in {"owner", "depth++", "depth++ store", "last", "owner reset"} <=> depth = 0
    /\ owner = IF pc[c] = "owner" THEN NoOwner ELSE c
    /\ depth \in {0, 1}
    /\ pc[c] \in {"depth++ store", "depth-- store"} => reg[c] = depth
    /\ pc[c] = "count store" => reg[c] = counter
    /\ counter = Cardinality(Through)

ByTurns ==
    ~overlap =>
        /\ \A c, d \in Core : pc[c] \in Inside /\ pc[d] \in Inside => c = d
        /\ \A c \in Core : pc[c] \in Inside => Turn(c)
        /\ (\A c \in Core : pc[c] \notin Inside) =>
               depth = 0 /\ owner = NoOwner /\ counter = Cardinality(Through)

\* The inductive invariant.
Inv == TypeOK /\ LeftOn /\ CountWithin /\ Untouched /\ EchoInv /\ ByTurns

\* As long as one core runs alone nothing is lost, doubled, made up or out of order
\* between its printf, the keyboard and the wire, also where a character is typed
\* before the echo loop or while a queue is full.
EchoAlone ==
    \A c \in kernel.cores :
        Alone(c) /\ pc[c] # "uart_init" =>
            wire \o tx \o out[c] \o rx
            = Printed(c) \o Keys(0, typed)

\* Cores that come to critical() one after the other leave it as they found it and
\* count exactly; who is inside is its owner.
OneByOne ==
    ~overlap =>
        /\ \A c \in Core : /\ pc[c] \in Inside \ {"owner", "owner reset"} => owner = c
                           /\ pc[c] \in {"work", "goodbye", "count", "count store", "depth--"} => depth = 1
        /\ (\A c \in Core : pc[c] \notin Inside) =>
               /\ depth = 0 /\ owner = NoOwner
               /\ counter = Cardinality({c \in Core : Done(c)})

\* Whatever the cores do to each other, each comes to its echo loop, and in the end
\* everything that has been typed is read and everything that has been sent is out.
ComesToRest ==
    <>[](/\ \A c \in kernel.cores : pc[c] = "recv" /\ out[c] = <<>>
         /\ rx = <<>> /\ tx = <<>>)
=============================================================================
