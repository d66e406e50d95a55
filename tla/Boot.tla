-------------------------------- MODULE Boot --------------------------------
(***************************************************************************)
(* How the processors of the x86 kernel come up, run kernelMain() and stop *)
(* (kernel/mbr.S, init.cc, smp.cc, smp.h, idt.cc, and class Barrier).      *)
(*                                                                         *)
(* Processor 0 is started by the BIOS.  It loads the kernel and sets the   *)
(* system up alone, then wakes the others one after the other with an INIT *)
(* and a startup interrupt, and waits for each to be counted in            *)
(* SMP::running.  Every processor starts on the one stack tempStack and    *)
(* leaves it for its own.                                                  *)
(*                                                                         *)
(* What the local APIC and a sleeping processor do is assumed: an          *)
(* interrupt is delivered some time after icr_low is written, which shows  *)
(* in its delivery bit; INIT puts a processor into the wait for a startup  *)
(* interrupt, and a startup interrupt is ignored in any other state.       *)
(***************************************************************************)
EXTENDS Integers, FiniteSets, Sequences, Config, Loader

CONSTANTS
    N,              \* the processors that the firmware lists, with the ids 0 .. N - 1
    Machines,       \* the machines: what their firmware says, and what there is
    Word            \* 2^32 in the code: the width of the counters

ASSUME BootAssumption == N \in Nat \ {0} /\ Word \in Nat /\ Word > N

Cpu == 0 .. N - 1

\* The stacks in use: the shared one, the one of a processor, none.
CONSTANTS tempStack, NoStack

ASSUME StackAssumption == tempStack \notin Cpu /\ NoStack \notin Cpu \cup {tempStack}

ASSUME MachineAssumption == \A m \in Machines : m.sectors \in Nat

\* What the firmware of the machines keeps to.
ASSUME FirmwareAssumption ==
    \A m \in Machines :
        /\ ListsProcessors(findSDT(findRSD(m.roots), "APIC"), N)
        /\ MemInfoPlausible(m.memInfo) => ReportsMemory(m.memInfo, m.kb)

VARIABLES
    machine,        \* the machine, one of Machines
    kConfig,        \* what configInit() has made of them
    running,        \* SMP::running
    smpInitDone,
    starting,       \* the counters of the two barriers
    stopping,
    icr,            \* the interrupt that processor 0 is sending
    id,             \* the variable of the loop that wakes the others
    pc,             \* where each processor is
    esp,            \* the stack each processor is on
    gate,           \* how many words of the gate of interrupt 0xff are written
    lapics          \* the processors whose local APIC is enabled

setting == <<machine, kConfig, loader, gate, lapics>>
vars == <<setting, running, smpInitDone, starting, stopping, icr, id, pc, esp>>

NoIpi == [to |-> 0, num |-> "none"]

GoTo(c, from, to) == pc[c] = from /\ pc' = [pc EXCEPT ![c] = to]

\* The bss is zero, although nothing clears it: the barriers are null pointers.
Init ==
    /\ machine \in Machines
    /\ LoaderInit(machine.sectors)
    /\ kConfig = [apicInfo |-> <<>>, totalProcs |-> 0, memSize |-> 0, ioAPIC |-> 0]
    /\ gate = 0 /\ lapics = {}
    /\ running = 0
    /\ smpInitDone = FALSE
    /\ starting = 0
    /\ stopping = 0
    /\ icr = NoIpi
    /\ id = 0
    /\ pc = [c \in Cpu |-> IF c = 0 THEN "mbr" ELSE "off"]
    /\ esp = [c \in Cpu |-> NoStack]

(***************************************************************************)
(* mbr.S: from the boot sector to kernelInit().                            *)
(***************************************************************************)

\* The loop over the sectors.
Load(c) ==
    /\ pc[c] = "mbr"
    /\ IF LastSector
       THEN pc' = [pc EXCEPT ![c] = "kk"] /\ UNCHANGED loader
       ELSE ReadSector /\ pc' = [pc EXCEPT ![c] = IF Wrapped THEN "lost" ELSE "mbr"]
    /\ UNCHANGED <<machine, kConfig, gate, lapics,
                   running, smpInitDone, starting, stopping, icr, id, esp>>

\* mov $tempStack,%esp
UseTempStack(c) ==
    /\ GoTo(c, "kk", "pick")
    /\ esp' = [esp EXCEPT ![c] = tempStack]
    /\ UNCHANGED <<setting, running, smpInitDone, starting, stopping, icr, id>>

\* call pickKernelStack; mov %eax,%esp
PickKernelStack(c) ==
    /\ GoTo(c, "pick", "kernelInit")
    /\ esp' = [esp EXCEPT ![c] = IF smpInitDone THEN c ELSE 0]
    /\ UNCHANGED <<setting, running, smpInitDone, starting, stopping, icr, id>>

(***************************************************************************)
(* kernelInit() of the first processor.                                    *)
(***************************************************************************)

\* The test of smpInitDone.
WhichInit(c) ==
    /\ pc[c] = "kernelInit"
    /\ pc' = [pc EXCEPT ![c] = IF smpInitDone THEN "join" ELSE "constructors"]
    /\ UNCHANGED <<setting, running, smpInitDone, starting, stopping, icr, id, esp>>

\* configInit, whose ASSERT may end everything, heapInit and CRT::init(), which runs
\* the constructor of SMP::running among others.
Construct(c) ==
    /\ IF MemInfoPlausible(machine.memInfo)
       THEN /\ GoTo(c, "constructors", "barriers")
            /\ kConfig' = configInit(machine.roots, machine.memInfo)
            /\ running' = 0
       ELSE GoTo(c, "constructors", "panic") /\ UNCHANGED <<kConfig, running>>
    /\ UNCHANGED <<machine, loader, gate, lapics, smpInitDone, starting, stopping, icr, id, esp>>

\* starting = new Barrier(kConfig.totalProcs), and stopping.
NewBarriers(c) ==
    /\ GoTo(c, "barriers", "gate")
    /\ starting' = kConfig.totalProcs
    /\ stopping' = kConfig.totalProcs
    /\ UNCHANGED <<setting, running, smpInitDone, icr, id, esp>>

\* IDT::interrupt(0xff, spuriousHandler_), one word after the other.
Interrupt(c) ==
    /\ pc[c] = "gate"
    /\ gate' = gate + 1
    /\ pc' = [pc EXCEPT ![c] = IF gate' = 2 THEN "first lapic" ELSE "gate"]
    /\ UNCHANGED <<machine, kConfig, loader, lapics,
                   running, smpInitDone, starting, stopping, icr, id, esp>>

\* The rest of SMP::init(): from now on interrupt 0xff may be raised.
EnableLapic(c) ==
    /\ lapics' = lapics \cup {c}
    /\ UNCHANGED <<machine, kConfig, loader, gate>>

\* smpInitDone is left for later.
FirstLapicOnly(c) ==
    /\ GoTo(c, "first lapic", "count")
    /\ EnableLapic(c)
    /\ UNCHANGED <<running, smpInitDone, starting, stopping, icr, id, esp>>

\* SMP::init(true) behind the gate, smpInitDone = true and IDT::init().
FirstLapic(c) ==
    /\ GoTo(c, "first lapic", "count")
    /\ EnableLapic(c)
    /\ smpInitDone' = TRUE
    /\ UNCHANGED <<running, starting, stopping, icr, id, esp>>

\* SMP::running.fetch_add(1), in both branches: the first goes on to wake the
\* others, from id 1 on, the second to SMP::init(false).
Count(c) ==
    /\ running' = (running + 1) % Word
    /\ \/ GoTo(c, "count", "wake") /\ id' = 1
       \/ GoTo(c, "join", "lapic") /\ UNCHANGED id
    /\ UNCHANGED <<setting, smpInitDone, starting, stopping, icr, esp>>

\* The condition of the loop, and SMP::ipi(id, 0x4500).
Wake(c) ==
    /\ pc[c] = "wake"
    /\ IF id < kConfig.totalProcs
       THEN pc' = [pc EXCEPT ![c] = "INIT sent"] /\ icr' = [to |-> id, num |-> "INIT"]
       ELSE pc' = [pc EXCEPT ![c] = "arrive"] /\ UNCHANGED icr
    /\ UNCHANGED <<setting, running, smpInitDone, starting, stopping, id, esp>>

\* The wait for the delivery of INIT, and SMP::ipi(id, 0x4600 | page).
Startup(c) ==
    /\ GoTo(c, "INIT sent", "startup sent")
    /\ icr.num = "none"
    /\ icr' = [to |-> id, num |-> "startup"]
    /\ UNCHANGED <<setting, running, smpInitDone, starting, stopping, id, esp>>

\* The wait for the delivery of the startup interrupt.
Delivered(c) ==
    /\ GoTo(c, "startup sent", "await")
    /\ icr.num = "none"
    /\ UNCHANGED <<setting, running, smpInitDone, starting, stopping, icr, id, esp>>

\* while (SMP::running < id);
AwaitTooFew(c) ==
    /\ GoTo(c, "await", "wake")
    /\ running >= id
    /\ id' = id + 1
    /\ UNCHANGED <<setting, running, smpInitDone, starting, stopping, icr, esp>>

\* while (SMP::running < id + 2);
AwaitTooMany(c) ==
    /\ GoTo(c, "await", "wake")
    /\ running >= id + 2
    /\ id' = id + 1
    /\ UNCHANGED <<setting, running, smpInitDone, starting, stopping, icr, esp>>

\* The loop of that wait.
AwaitSpin(c) == pc[c] = "await" /\ running <= id /\ UNCHANGED vars

\* while (SMP::running <= id);
Await(c) ==
    /\ GoTo(c, "await", "wake")
    /\ running > id
    /\ id' = id + 1
    /\ UNCHANGED <<setting, running, smpInitDone, starting, stopping, icr, esp>>

(***************************************************************************)
(* kernelInit() of the others, and what follows for all.                   *)
(***************************************************************************)

\* SMP::init(false)
Lapic(c) ==
    /\ GoTo(c, "lapic", "arrive")
    /\ EnableLapic(c)
    /\ UNCHANGED <<running, smpInitDone, starting, stopping, icr, id, esp>>

\* starting->sync(): counter.add_fetch(-1)
Arrive(c) ==
    /\ GoTo(c, "arrive", "starting")
    /\ starting' = (starting - 1) % Word
    /\ UNCHANGED <<setting, running, smpInitDone, stopping, icr, id, esp>>

\* The barrier opens for the last to arrive but one.
StartOneShort(c) ==
    /\ GoTo(c, "starting", "kernelMain")
    /\ starting <= 1
    /\ UNCHANGED <<setting, running, smpInitDone, starting, stopping, icr, id, esp>>

\* ... while (counter.get() != 0)
Start(c) ==
    /\ GoTo(c, "starting", "kernelMain")
    /\ starting = 0
    /\ UNCHANGED <<setting, running, smpInitDone, starting, stopping, icr, id, esp>>

\* kernelMain() returns, and stopping->sync() counts c out.
Leave(c) ==
    /\ GoTo(c, "kernelMain", "stopping")
    /\ stopping' = (stopping - 1) % Word
    /\ UNCHANGED <<setting, running, smpInitDone, starting, icr, id, esp>>

\* Processor 0 shuts down without a look at the counter.
EndAtOnce(c) ==
    /\ pc[c] = "stopping"
    /\ c = 0 \/ stopping = 0
    /\ pc' = [pc EXCEPT ![c] = IF c = 0 THEN "shutdown" ELSE "hlt"]
    /\ UNCHANGED <<setting, running, smpInitDone, starting, stopping, icr, id, esp>>

\* ... while (counter.get() != 0), then Debug::shutdown() on processor 0, hlt
\* on the others, for ever.
End(c) ==
    /\ pc[c] = "stopping"
    /\ stopping = 0
    /\ pc' = [pc EXCEPT ![c] = IF c = 0 THEN "shutdown" ELSE "hlt"]
    /\ UNCHANGED <<setting, running, smpInitDone, starting, stopping, icr, id, esp>>

(***************************************************************************)
(* The machine.                                                            *)
(***************************************************************************)

\* The local APIC delivers the interrupt that is being sent, if there is somebody.
Deliver ==
    /\ icr.num # "none"
    /\ icr' = NoIpi
    /\ \/ /\ icr.to \notin machine.present
          /\ UNCHANGED <<pc, esp>>
       \/ /\ icr.num = "INIT" /\ icr.to \in machine.present
          /\ pc' = [pc EXCEPT ![icr.to] = "wait for startup"]
          /\ esp' = [esp EXCEPT ![icr.to] = NoStack]
       \/ /\ icr.num = "startup" /\ icr.to \in machine.present
          /\ pc' = [pc EXCEPT ![icr.to] = IF @ = "wait for startup" THEN "kk" ELSE @]
          /\ UNCHANGED esp
    /\ UNCHANGED <<setting, running, smpInitDone, starting, stopping, id>>

FirstInit(c) == Construct(c) \/ NewBarriers(c) \/ Interrupt(c) \/ FirstLapic(c)

WakeOthers(c) == Wake(c) \/ Startup(c) \/ Delivered(c) \/ Await(c)

Step(c) ==
    \/ Load(c) \/ UseTempStack(c) \/ PickKernelStack(c) \/ WhichInit(c) \/ FirstInit(c)
    \/ Count(c) \/ WakeOthers(c) \/ Lapic(c)
    \/ Arrive(c) \/ Start(c) \/ Leave(c) \/ End(c)

\* Everything has come to its end: the machine is switched off, or the boot has failed.
Off ==
    /\ pc[0] \in {"panic", "lost"} \/ \A c \in Cpu : pc[c] \in {"shutdown", "hlt"}
    /\ UNCHANGED vars

Next == (\E c \in Cpu : Step(c) \/ AwaitSpin(c)) \/ Deliver \/ Off

\* A processor that has been started runs, kernelMain() returns on each, and
\* interrupts are delivered.
Fairness == (\A c \in Cpu : WF_vars(Step(c))) /\ WF_vars(Deliver)

SafeSpec == Init /\ [][Next]_vars

Spec == SafeSpec /\ Fairness

(***************************************************************************)
(* Properties.                                                             *)
(***************************************************************************)

\* The places in the order in which a processor goes through them.
Asleep == {"off", "wait for startup"}
Loading == {"mbr", "lost"}
Early == Loading \cup {"kk", "pick", "kernelInit", "constructors", "panic", "barriers",
                       "gate", "first lapic", "count", "join"}
Unmade == Early \ {"gate", "first lapic", "count", "join"}
Waking == {"wake", "INIT sent", "startup sent", "await"}
Late == {"starting", "kernelMain", "stopping", "shutdown", "hlt"}
Done == {"stopping", "shutdown", "hlt"}

Places == Asleep \cup Early \cup Waking \cup {"lapic", "arrive"} \cup Late

TypeOK ==
    /\ machine \in Machines
    /\ cx \in 0 .. CountWord - 1 /\ di \in 0 .. Pieces - 1 /\ bp \in 0 .. CountWord - 1
    /\ memory \in [0 .. Pieces - 1 -> Int]
    /\ gate \in 0 .. 2 /\ lapics \subseteq Cpu
    /\ running \in 0 .. N
    /\ smpInitDone \in BOOLEAN
    /\ icr \in [to : Nat, num : {"none", "INIT", "startup"}]
    /\ id \in Nat
    /\ pc \in [Cpu -> Places]
    /\ esp \in [Cpu -> Cpu \cup {tempStack, NoStack}]

\* No two processors are ever on one stack, the shared tempStack included: the
\* next processor is woken only when the last one has left it.
NoSharedStack ==
    \A c, d \in Cpu : c # d /\ esp[c] = esp[d] => esp[c] = NoStack

\* Once a processor has picked its stack, the stack is its own for good; the shared
\* one is used before that, and no longer.
OwnStack ==
    \A c \in Cpu :
        esp[c] = IF pc[c] \in Asleep \cup Loading \cup {"kk"} THEN NoStack
                 ELSE IF pc[c] = "pick" THEN tempStack ELSE c

\* The processors behind their fetch_add, those that have come to the first barrier,
\* and those that have come to the second.
Counted == {c \in Cpu : pc[c] \notin Asleep \cup Early}
Arrived == {c \in Cpu : pc[c] \in Late}
Back == {c \in Cpu : pc[c] \in Done}

\* The counters count processors: SMP::running those behind their fetch_add ...
RunningExact == running = Cardinality(Counted)

\* ... and each barrier, from the time it is made, those still to come; when the first
\* processor comes to it, the loop has woken all there are.
BarriersExact ==
    /\ id <= N
    /\ pc[0] \notin Loading \cup {"kk", "pick", "kernelInit", "constructors", "panic"} =>
           kConfig.totalProcs = N
    /\ pc[0] \notin Unmade =>
           /\ starting = N - Cardinality(Arrived)
           /\ stopping = N - Cardinality(Back)
    /\ pc[0] \in {"arrive"} \cup Late => id = N

\* Which branch of kernelInit() each processor takes: the second is only ever taken
\* when the first one has made what it needs.
SetUpOnce ==
    /\ pc[0] \notin Asleep \cup {"join", "lapic", "hlt"}
    /\ smpInitDone <=> pc[0] \notin Early \ {"count"}
    /\ \A c \in Cpu \ {0} :
          /\ pc[c] \in Asleep \cup {"kk", "pick", "kernelInit", "join", "lapic", "arrive"}
                         \cup (Late \ {"shutdown"})
          /\ pc[c] \notin Asleep => pc[0] \notin Early

\* The processors are woken in the order of their numbers: those below id have counted
\* themselves, those above it are off, and id itself is off until its INIT is sent and
\* asleep until its startup interrupt is delivered.
WokenInTurn ==
    /\ \A c \in Cpu \ {0} :
          /\ pc[0] \in Early \/ c > id => pc[c] = "off"
          /\ pc[0] \notin Early /\ c < id => c \in Counted
    /\ pc[0] \notin Early => id > 0
    /\ id \in Cpu \ {0} =>
          /\ pc[0] \notin {"INIT sent", "startup sent", "await"} => pc[id] = "off"
          /\ pc[0] = "INIT sent" \/ icr.num = "startup" => pc[id] \in Asleep
    /\ icr.num = "INIT" => pc[0] = "INIT sent" /\ icr.to = id
    /\ icr.num = "startup" => pc[0] = "startup sent" /\ icr.to = id

\* No local APIC may raise its spurious interrupt before the handler is in the table.
GateFirst ==
    /\ lapics # {} => gate = 2
    /\ gate = 2 <=> pc[0] \notin Unmade \cup {"gate"}

\* Where the loop of the boot sector is, when the number of sectors fits into 16 bits:
\* what it has read is in its place until the segments wrap.
SectorsInPlace ==
    machine.sectors \in Image .. CountWord - 1 =>
        /\ pc[0] = "mbr" =>
              /\ bp > 0 /\ cx > 0 /\ cx + bp = machine.sectors + 1
              /\ di = First - 1 + bp \/ (di = 0 /\ First - 1 + bp = Pieces)
              /\ \A s \in 0 .. Image - 1 : s < bp => memory[First - 1 + s] = s
        /\ pc[0] \notin Loading => Loaded

\* What holds whatever the tables of the firmware say, and whoever is missing.
Order ==
    TypeOK /\ OwnStack /\ RunningExact /\ SetUpOnce /\ WokenInTurn /\ GateFirst /\ SectorsInPlace

\* The inductive invariant, where the tables list every processor.
Inv == Order /\ BarriersExact

\* The walk over the table enters each processor but the first once, finds the I/O
\* APIC, and so the barriers and the loop that wakes the others are for exactly the
\* processors there are, although the walk leaves out the first entry of the table
\* and looks at what is behind the last.
EveryProcessorFound ==
    kConfig.totalProcs > 0 =>
        /\ kConfig.totalProcs = N
        /\ {kConfig.apicInfo[i] : i \in DOMAIN kConfig.apicInfo} = Cpu \ {0}
        /\ kConfig.ioAPIC # 0

\* When the boot sector jumps to the kernel, all of it is in its place, whatever else
\* the drive holds: only the number of its sectors has to fit into 16 bits.
ImageLoaded ==
    machine.sectors \in Image .. CountWord - 1 =>
        \A c \in Cpu : pc[c] \notin Asleep \cup Loading => Loaded

\* The size of the memory is the one that the machine has.
MemoryKnown == kConfig.totalProcs > 0 => kConfig.memSize = machine.kb

\* What the kernel needs: every listed processor is there, under its number; the BIOS
\* reports all memory below 16 MB if there is more; and the drive ends where the
\* segments do.
Supported ==
    /\ machine.present = Cpu
    /\ MemInfoPlausible(machine.memInfo)
    /\ machine.sectors \in Image .. CountWord - 1 /\ machine.sectors - 1 <= Pieces - First

\* Processor 0 never shuts the machine down under a processor that is still in
\* kernelMain(), or that has not come there yet.
NobodyCutOff == pc[0] = "shutdown" => \A c \in Cpu : pc[c] \in Done

\* The two barriers, seen from outside.
SideOf(c, late, waiting) ==
    IF pc[c] \notin late THEN "before" ELSE IF pc[c] = waiting THEN "waiting" ELSE "after"

StartBarrier == INSTANCE Rendezvous
    WITH Party <- Cpu, side <- [c \in Cpu |-> SideOf(c, Late, "starting")]

StopBarrier == INSTANCE Rendezvous
    WITH Party <- Cpu, side <- [c \in Cpu |-> SideOf(c, Done, "stopping")]

\* starting is a barrier: nobody is in kernelMain() before everybody is up, and
\* everybody then gets there.
StartsTogether == StartBarrier!Spec

\* stopping is a barrier: nobody stops before everybody is back.
StopsTogether == StopBarrier!Spec

\* A machine that has what the kernel needs runs kernelMain() on every processor and
\* then shuts down.
ShutsDown == Supported => (\A c \in Cpu : <>(pc[c] = "kernelMain")) /\ <>(pc[0] = "shutdown")
=============================================================================
