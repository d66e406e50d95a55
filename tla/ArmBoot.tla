------------------------------ MODULE ArmBoot ------------------------------
(***************************************************************************)
(* How the cores of the Raspberry Pi come up (src/boot.S, src/mm.S,        *)
(* src/init.cc): core 0 clears the bss, stores the addresses at which the  *)
(* other cores are to start in the mailboxes of a spin table, and sends an *)
(* event; every core then takes a stack of its own and runs kernel_init(), *)
(* which ends in an echo loop.                                             *)
(*                                                                         *)
(* The image is linked to start at address 0 (src/linker.ld).  On the      *)
(* board, with kernel_old=1 (src/config.txt), it is loaded there, and all  *)
(* cores start at _start; the others wait in proc_hang.  The mailboxes are *)
(* then words of the image, its literals among them.  launch.sh has QEMU   *)
(* load the image at another address; the other cores wait in the spin     *)
(* table of QEMU.                                                          *)
(*                                                                         *)
(* WFE returns when the event register of the core is set, which it        *)
(* clears; the architecture allows it to return at any other time as well. *)
(***************************************************************************)
EXTENDS Integers

CONSTANTS
    Words,                  \* the length of the bss
    stdout_putf,            \* the word of it that printf jumps through
    Machines,               \* the kinds of machines
    Loaded,                 \* where QEMU loads the image
    LOW_MEMORY, PAGE_SIZE

ASSUME ArmBootAssumption ==
    /\ Words \in Nat /\ stdout_putf \in 1 .. Words
    /\ Machines \subseteq {"_start", "spin_table"}
    /\ PAGE_SIZE \in Nat \ {0} /\ LOW_MEMORY \in Nat /\ Loaded \in Nat \ {0}

Core == 0 .. 3

Others == 1 .. 3

\* Where the image has start_core_1, 2 and 3 and, for each of these, the literals with
\* its address and with that of the mailbox; and the mailbox.
start_core(c) == 120 + 20 * c
CoreLiteral(c) == 192 + 16 * c
BoxLiteral(c) == 200 + 16 * c
Mailbox(c) == 216 + 8 * c

\* The words from 0xD0 to 0xF8, which are all of these.
Low == {208, 216, 224, 232, 240, 248}

Literals ==
    [a \in Low |-> IF a % 16 = 0 THEN start_core((a - 192) \div 16) ELSE Mailbox((a - 200) \div 16)]

VARIABLES
    machine,        \* what it is
    spurious,       \* whether its WFE may return without an event
    pc,             \* where each core is
    sp,             \* its stack pointer, 0 before it has one
    event,          \* its event register
    low,            \* the words of the memory at the addresses Low
    id,             \* the core that core 0 has to tell next
    cleared,        \* how far core 0 is with the bss
    bss             \* each word of the bss: "junk", "zero" or "used"

machinery == <<machine, spurious>>
vars == <<machinery, pc, sp, event, low, id, cleared, bss>>

\* Where the image is loaded, and what a load of one of its literals gives.
Base == IF machine = "_start" THEN 0 ELSE Loaded

Literal(a) == IF machine = "_start" THEN low[a] ELSE Literals[a]

GoTo(c, from, to) == pc[c] = from /\ pc' = [pc EXCEPT ![c] = to]

Init ==
    /\ machine \in Machines /\ spurious \in BOOLEAN
    /\ pc = [c \in Core |-> IF c = 0 \/ machine = "_start" THEN "_start" ELSE "table_wfe"]
    /\ sp = [c \in Core |-> 0]
    /\ event = [c \in Core |-> FALSE]
    /\ low = IF machine = "_start" THEN Literals ELSE [a \in Low |-> 0]
    /\ id = 1
    /\ cleared = 0
    /\ bss = [w \in 1 .. Words |-> "junk"]

\* cbz x0, el1_entry; b proc_hang
Start(c) ==
    /\ GoTo(c, "_start", IF c = 0 THEN "memzero" ELSE "proc_hang")
    /\ UNCHANGED <<machinery, sp, event, low, id, cleared, bss>>

(***************************************************************************)
(* el1_entry, on core 0.                                                   *)
(***************************************************************************)

\* One round of memzero, which also returns when it is through.
memzero ==
    /\ pc[0] = "memzero"
    /\ IF cleared < Words
       THEN /\ bss' = [bss EXCEPT ![cleared + 1] = "zero"]
            /\ cleared' = cleared + 1
            /\ UNCHANGED pc
       ELSE GoTo(0, "memzero", "mov_sp") /\ UNCHANGED <<bss, cleared>>
    /\ UNCHANGED <<machinery, sp, event, low, id>>

\* mov sp, #LOW_MEMORY
MovSp ==
    /\ GoTo(0, "mov_sp", "mailboxes")
    /\ sp' = [sp EXCEPT ![0] = LOW_MEMORY]
    /\ UNCHANGED <<machinery, event, low, id, cleared, bss>>

\* The stores to 0xE0, 0xE8 and 0xF0, in turn, of what was loaded.
Mailboxes ==
    /\ pc[0] = "mailboxes" /\ id <= 3
    /\ low' = [low EXCEPT ![Literal(BoxLiteral(id))] = Literal(CoreLiteral(id))]
    /\ id' = id + 1
    /\ UNCHANGED <<machinery, pc, sp, event, cleared, bss>>

\* No event is sent.
SevMissing ==
    /\ id > 3
    /\ GoTo(0, "mailboxes", "uart_init")
    /\ UNCHANGED <<machinery, sp, event, low, id, cleared, bss>>

\* sev; bl kernel_init
Sev ==
    /\ id > 3
    /\ GoTo(0, "mailboxes", "uart_init")
    /\ event' = [c \in Core |-> TRUE]
    /\ UNCHANGED <<machinery, sp, low, id, cleared, bss>>

(***************************************************************************)
(* The other cores.                                                        *)
(***************************************************************************)

Wfe(c) ==
    /\ event[c] \/ spurious
    /\ event' = [event EXCEPT ![c] = FALSE]
    /\ UNCHANGED <<machinery, sp, low, id, cleared, bss>>

\* proc_hang: wfe, and b.eq start_core_1, 2 or 3, whatever has ended the wfe.
ProcHang(c) == GoTo(c, "proc_hang", "start_core") /\ Wfe(c)

\* The spin table: wfe, and a look at the mailbox, whose address the core jumps to.
TableWfe(c) == GoTo(c, "table_wfe", "table_look") /\ Wfe(c)

TableLook(c) ==
    /\ GoTo(c, "table_look", IF low[Mailbox(c)] = 0 THEN "table_wfe"
                             ELSE IF low[Mailbox(c)] = Base + start_core(c) THEN "start_core"
                             ELSE "astray")
    /\ UNCHANGED <<machinery, sp, event, low, id, cleared, bss>>

\* Each core clears the bss for itself.
StartCoreClears(c) ==
    /\ GoTo(c, "start_core", "uart_init")
    /\ sp' = [sp EXCEPT ![c] = LOW_MEMORY + c * PAGE_SIZE]
    /\ bss' = [w \in 1 .. Words |-> "zero"]
    /\ UNCHANGED <<machinery, event, low, id, cleared>>

\* The pages are not counted by the core.
StartCoreNextPage(c) ==
    /\ GoTo(c, "start_core", "uart_init")
    /\ sp' = [sp EXCEPT ![c] = LOW_MEMORY + PAGE_SIZE]
    /\ UNCHANGED <<machinery, event, low, id, cleared, bss>>

\* start_core_1, 2 and 3.
StartCore(c) ==
    /\ GoTo(c, "start_core", "uart_init")
    /\ sp' = [sp EXCEPT ![c] = LOW_MEMORY + c * PAGE_SIZE]
    /\ UNCHANGED <<machinery, event, low, id, cleared, bss>>

(***************************************************************************)
(* kernel_init(), on every core.                                           *)
(***************************************************************************)

\* uart_init() has registers of the port for its state only.
UartInit(c) ==
    /\ GoTo(c, "uart_init", "init_printf")
    /\ UNCHANGED <<machinery, sp, event, low, id, cleared, bss>>

\* init_printf(0, putc)
InitPrintf(c) ==
    /\ GoTo(c, "init_printf", "printf")
    /\ bss' = [bss EXCEPT ![stdout_putf] = "used"]
    /\ UNCHANGED <<machinery, sp, event, low, id, cleared>>

\* printf("Hello world: %d\r\n", num), which jumps through stdout_putf.  Where that is
\* 0 again, on the board, it jumps to _start.
Hello(c) ==
    /\ GoTo(c, "printf", CASE bss[stdout_putf] = "used" -> "echo"
                           [] bss[stdout_putf] = "zero" /\ Base = 0 -> "_start"
                           [] OTHER -> "astray")
    /\ UNCHANGED <<machinery, sp, event, low, id, cleared, bss>>

\* The echo loop, for ever.
Echo(c) == pc[c] = "echo" /\ UNCHANGED vars

\* What a core does that is not in the image is not known.
Astray(c) == pc[c] = "astray" /\ UNCHANGED vars

EL1Entry == memzero \/ MovSp \/ Mailboxes \/ Sev

KernelInit(c) == UartInit(c) \/ InitPrintf(c) \/ Hello(c)

Wait(c) == ProcHang(c) \/ TableWfe(c)

Next ==
    \/ EL1Entry
    \/ \E c \in Core : \/ Start(c) \/ TableLook(c) \/ Wait(c) \/ StartCore(c)
                      \/ KernelInit(c) \/ Echo(c) \/ Astray(c)

\* Cores run; a WFE is sure to return only when there has been an event.
Fairness ==
    /\ WF_vars(EL1Entry)
    /\ \A c \in Core :
          /\ WF_vars(Start(c) \/ TableLook(c) \/ StartCore(c) \/ KernelInit(c))
          /\ WF_vars(event[c] /\ Wait(c))

SafeSpec == Init /\ [][Next]_vars

Spec == SafeSpec /\ Fairness

(***************************************************************************)
(* Properties.                                                             *)
(***************************************************************************)

Waiting == {"_start", "proc_hang", "table_wfe"}

Clearing == {"memzero", "mov_sp", "mailboxes"}

Running == {"uart_init", "init_printf", "printf", "echo"}

TypeOK ==
    /\ machine \in {"_start", "spin_table"} /\ spurious \in BOOLEAN
    /\ pc \in [Core -> Waiting \cup Clearing \cup {"table_look", "start_core", "astray"} \cup Running]
    /\ sp \in [Core -> Int]
    /\ event \in [Core -> BOOLEAN]
    /\ low \in [Low -> Nat] /\ id \in 1 .. 4
    /\ cleared \in 0 .. Words
    /\ bss \in [1 .. Words -> {"junk", "zero", "used"}]

\* The stores of core 0 go to the mailboxes, although on the board each of them changes
\* a literal: the first one the address that is loaded for core 2 next, the others
\* literals that have just been used.
BoxesFound == \A c \in Others : c >= id => Literal(BoxLiteral(c)) = Mailbox(c)

\* Unless a WFE returns for no reason, the bss is clear before another core starts,
\* and whatever a core finds there it or another one has put there since.
BssInTime ==
    ~spurious =>
        /\ \A w \in 1 .. cleared : bss[w] # "junk"
        /\ pc[0] \in {"_start", "memzero"} => \A w \in 1 .. Words : bss[w] # "used"
        /\ \A c \in Others : event[c] \/ pc[c] \notin Waiting => pc[0] \in Running
        /\ \A c \in Core : pc[c] \in {"printf", "echo"} => bss[stdout_putf] = "used"

\* The cores that run have a page of stack each.
StacksApart ==
    \A c, d \in Core :
        c < d /\ pc[c] \in Running /\ pc[d] \in Running => sp[d] - sp[c] >= PAGE_SIZE

\* On the board no core leaves the image: even when a WFE returns early, and what a
\* core has put into the bss is cleared under it, printf only jumps to _start.
InImage ==
    machine = "_start" => \A c \in Core : /\ pc[c] # "astray"
                                         /\ pc[c] = "printf" => bss[stdout_putf] # "junk"

\* What makes the others inductive: where a core can be on which machine, and the
\* stack pointer of a core that runs.
InPlace ==
    /\ pc[0] \in {"_start"} \cup Clearing \cup Running
    /\ pc[0] \notin {"_start", "memzero"} => cleared = Words
    /\ pc[0] \in {"printf", "echo"} => bss[stdout_putf] = "used"
    /\ machine = "spin_table" =>
          /\ \A c \in Others : pc[c] \in {"table_wfe", "table_look", "astray"}
          /\ \A c \in Others : low[Mailbox(c)] \in {0, start_core(c)}
    /\ machine = "_start" =>
          \A c \in Others : pc[c] \in {"_start", "proc_hang", "start_core"} \cup Running

OwnStack ==
    \A c \in Core : pc[c] \in {"mailboxes"} \cup Running => sp[c] = LOW_MEMORY + c * PAGE_SIZE

Inv ==
    /\ TypeOK /\ InPlace /\ BoxesFound /\ BssInTime /\ InImage
    /\ OwnStack /\ StacksApart

\* Unless a WFE returns for no reason, nothing that a core has stored in the bss is
\* cleared after it.
BssKept ==
    [][~spurious => \A w \in 1 .. Words : bss[w] = "used" => bss'[w] = "used"]_vars

\* On the board every core comes to its echo loop: the event is not lost on a core that
\* is just on its way to its wfe, and a core that has started too early starts again.
EveryCoreUp == machine = "_start" => \A c \in Core : <>(pc[c] = "echo")

\* "Address to jump to for secondary cores" (src/boot.S): a core that is told to start
\* does so at its start_core.
StartsThere == \A c \in Core : pc[c] # "astray"
=============================================================================
