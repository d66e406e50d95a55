# Verification of the two kernels

The repository holds two small multi-core kernels in C++ and assembly: a finished
one for x86 under QEMU (`src/kernel/`, with the tests `src/t0.cc`, `src/t1.cc`) and
the port of it to the Raspberry Pi 3 that has been begun (`src/src/`,
`src/include/`). This directory models their logic in TLA+, checks the models with
TLC on small instances and proves the most important results for instances of any
size with TLAPS.

    tlc -workers 2 -config MCCritical.cfg MCCritical        # one run of PROJECT.json
    tlapm CriticalProofs.tla                                # one module of proofs

`PROJECT.json` says which lines of the source each definition stands for (`map`),
which run checks what (`runs`), which plausible bug each property would catch
(`mutants`), where the code disagrees with its own comments and tests (`findings`)
and what in this code is hard to test (`hazards`).

## 1. Inventory

### x86 kernel

| Component | State | Operations | Hard because |
|---|---|---|---|
| Spin lock, barrier (`atomic.h`, `loop.h`, `machine.S`) | the word `taken`, the address monitor of every core; a counter | `lock`, `unlock`, `sync` | a core sleeps in MWAIT with interrupts off: a release it misses is missed for ever; a barrier counts down past 0 |
| Critical section (`critical.h`) | `critical_flag`, `critical_depth`, `critical_owner` | `critical(work)`, which may nest | three variables stand for one state and are written one after the other, in part outside of the flag |
| Bring-up and shutdown (`mbr.S` from `kk`, `init.cc`, `smp.h`, `smp.cc`, `idt.cc`, `crti.cc`) | `SMP::running`, `smpInitDone`, the two barriers, the local APIC's command register, one stack per processor and a shared one | INIT and startup interrupts, `kernelInit`, `kernelMain`, `shutdown` | every processor starts on the one stack; the order of constructors, counters and flags |
| Heap (`heap.cc`) | the array of words, the list of available blocks, the lock | `heapInit`, `malloc`, `free` | links, headers and footers live in the memory that is handed out; the lock is allocated by the heap it protects |
| Debug output (`debug.cc`, `u8250.cc`) | the output lock, the serial port | `printf`, `panic`, `missing`, `check`, `shutdown` | a panic forces the lock open |
| Configuration (`config.cc`) | `kConfig` | the search for the ACPI tables, the walk over the MADT, the size of the memory | lengths read from memory steer the loop |
| Formatted output (`snprintf.cc`, `libk.cc`) | a format state machine | `vsnprintf` into a buffer or a stream | widths, precisions and lengths at their limits |
| Boot sector (`mbr.S` up to `kk`) | three registers, the disk address packet | load the kernel, switch modes | counts and segments of 16 bits |
| Random numbers, ports | a few words | | one step each |

Everything above the machine comes together in `kernelMain()`: each core calls
`critical()`, whose work prints through `Debug::printf`, which takes the output
lock; the barriers bracket it, and the heap provides both barriers and every
stack.

### ARM kernel

| Component | State | Operations | Hard because |
|---|---|---|---|
| Boot (`boot.S`, `mm.S`, `init.cc`) | the bss, four stacks | `_start`, `el1_entry`, `kernel_init` | three cores wait in `wfe`, which may end for any reason, while the fourth clears the bss; the addresses it gives them are absolute, and on the board its mailboxes are words of the image |
| Critical section (`include/critical.h`) | the same three variables | `critical(work)` | its lock is commented out |
| Mini UART (`mini_uart.cc`) | the port's registers | `uart_init`, `uart_send`, `uart_recv` | test and transfer are two accesses, made by four cores |
| printf (`printf.cc`) | | `tfp_printf` and its conversions | padding |

### What would be wrong, and where

The complete list is in `PROJECT.json` under `hazards`, each at its line, with the
properties that would catch it. For each component what makes it correct is:

* spin lock: one holder; no nap on a free lock; it behaves as a lock, with progress;
* critical section: one core at work; every call returns; nesting;
* bring-up: one processor per stack; the counters count; both barriers are barriers;
  the machine is not switched off under a processor at work; it does come to its end;
* heap: blocks tile the memory; the list holds exactly the available ones; no word is
  given twice or lost; neighbours are joined; a request is refused only for want of room;
* output: lines of different cores do not mix, and a panic is always printed;
* boot sector: the whole kernel is in its place, whatever the size of the drive;
* configuration: every processor of the table is found once, whatever the order of the table, and
  the memory has the size that the BIOS reports;
* formatting: the format and the arguments are read as far as they go and not further; what
  comes out is what C wants, ends with the item that reaches the limit, and reads back as the value;
* ARM boot: nothing a core wrote is cleared after it, no two cores share a stack, and every
  core comes up in the kernel;
* ARM kernel: what one core prints and echoes goes out once and in order; several cores, which have no
  lock, do each other a bounded harm, and none of them waits for ever.

## 2. Modules

Each component has a module with one action per access, handler or step of the code;
an abstract module beside it says what the component promises, without its
mechanism; a `MC` module has the values TLC needs.

| Module | Models | Abstract module | Proofs |
|---|---|---|---|
| `SpinLock` | class `SpinLock` and the address monitor | `Mutex` | `SpinLockProofs` |
| `Critical` | `critical()` of the x86 kernel | | `CriticalProofs` |
| `Boot` | `kk` to `hlt` on all processors; class `Barrier` | `Rendezvous` (twice) | `BootProofs` |
| `Heap` | `heapInit`, `malloc`, `free` on the words of the heap | `Allocator` | `HeapProofs` |
| `Console` | class `Debug` and the serial port `U8250` | | `ConsoleProofs` |
| `Loader` | the boot sector, as steps of `Boot` | | in `BootProofs` |
| `Config` | `configInit()`, as a step of `Boot` | | in `BootProofs` |
| `Snprintf` | `dopr()` and what it calls | `Meaning`, in the same module | `SnprintfProofs` |
| `TfpPrintf` | `tfp_format()`, as a function | | |
| `Formats` | the two formatters beside each other | | |
| `ArmBoot` | `boot.S` and `kernel_init()` on the four cores of the Pi | | `ArmBootProofs` |
| `ArmKernel` | what `kernel_init()` does with the serial port, and `critical()` of the ARM kernel | | `ArmKernelProofs` |

### SpinLock

`taken` is the lock word. `armed[c]` says that core `c` has executed MONITOR on it and
that no store has fired the monitor since. `lock()` is cut at its accesses: `Monitor`
(the first `monitor_value()`), `Exchange` (the loop condition), `Retry` (the two
statements of the loop body). The loop condition stores `true` whether it wins or not,
so a losing core fires the monitors of the others; the model keeps that. MONITOR and
MWAIT are assumed as the header of the module states them, the weakest reading of the
manual: a store of another core fires, an own store may or may not, spurious
wake-ups happen. `iAmStuckInALoop(true)` executes `mwait` in both of its branches.

`ImplementsMutex` is the refinement of `Mutex!Spec`, with its progress.

### Critical

Each access to `critical_flag`, `critical_depth` or `critical_owner` is an action, and
`depth++` and `depth--` are two. `Call(c)` is `kernelMain()` (or `work`) calling
`critical()`; `nest[c]` counts how deep `c` is, so that `Return` knows whether it
returns to an outer `work`. The three conditions of the first `if` are three actions
(`Try`, `FreshDepth`, `FreshOwner`), since the exchange takes the flag before the
others are evaluated: that order is what the code gets wrong (section 4).
`critical_depth` wraps at `Word`. `team` says which cores take part: those of `NestingTeams` nest, others
do not.

### Boot

Processors go from `kk` in `mbr.S` over `pickKernelStack`, `kernelInit` (either branch),
the barriers and `kernelMain` to `hlt` or `Debug::shutdown()`. `icr` is the local APIC's
interrupt command register, with what is being sent; `Deliver` is the machine, at any
later time. `esp[c]` is the stack that `c` is on: `tempStack` is shared by all. The
constructors, the allocation of the barriers and `SMP::init` are actions of their own,
because their order against `smpInitDone` and the counter is what matters. `WhichInit` is the test of `smpInitDone` that chooses the
branch; both count, one to wake the others (`"count"`), one to go on (`"join"`).
`StartBarrier` and `StopBarrier` map the two barriers to `Rendezvous`. `gate` counts the words of the gate of
interrupt 0xff that are written, `lapics` has the processors that may raise it.

`machine` says what there is: the tables and their place, the memory, the drive, and the processors that
are present. One that is listed and not present never counts itself; processor 0 then waits for ever, and
`StartsTogether` says that nobody runs `kernelMain()` without it. `Supported` is what the kernel needs to come to
its end (`ShutsDown`).

### Loader

`cx`, `di` and `bp` are the registers of the loop, 16 bits wide, with `di` counted in sectors
(0x20 segments). `memory` says which sector each piece of the memory holds. The loop reads the whole drive, not only
the kernel. A drive that is longer than the segments reach (1986 sectors), or whose number of sectors is a multiple of
2^16, makes it overwrite the interrupt table of the BIOS, by which it reads: it is `"lost"`.

### Config

The walk over the entries of the MADT is `Rounds`, a function from the number of rounds of the loop to what it has
found: it moves to the next entry before it looks (`Look`), so the first entry is never looked at and the word behind the
table is. `Boot` calls `configInit` where `kernelInit` does, with the tables of its machine, and takes the number of
processors from it. `EveryProcessorFound` holds because of what firmware does (`ListsProcessors`: processor 0 or something
else comes first, and what is behind is the head of another table, whose first letter is no entry
type), and the run has the entries in different orders; the proof covers every order and length.
`memAbove1M` combines the registers of the BIOS bit by bit, in KB; its assertion fails on a machine with
memory above 16 MB and a hole below, which the model has panic.

### Heap

`array` is the memory, word for word; headers, footers and links are where the code has
them, and negative sizes are taken blocks. `Size`, `Left`, `Right`, `Remove`,
`MakeAvail` and `MakeTaken` are the helpers of the code as functions of the memory.
`theLock` is the block that holds the lock: while it is 0, `Guard` takes nothing, as
`LockGuardP` does. The lock itself is `holder`, which is module `Mutex` with its
waiting left out. Under the lock an iteration of the search is one step, what is done
with the block found is one, and so is the joining in `free`. Between calls, `Write`
lets the cores put anything from `Value` into the words they were given, values that look
like headers among them. `blocks` and `order` are auxiliary: nothing reads them, and
the invariants say that they agree with what the memory says. `operator new` calls `malloc`, and its panic on a null result is
not in the model.

`setup` is one of the heaps of the run, with the cores that use it.

`Allocator` answers a request at one moment between call and return, and may refuse it
only if no run of unused words is long enough, whatever blocks they belong to.

### Console

All cores call `Debug::printf`, `debug`, `check`, `missing` and `panic` between the two
barriers, and processor 0 calls `shutdown` behind the second. `lock` is the word of the
output lock (how cores nap on it is `SpinLock`); `thr` is the transmitter holding
register. `put()` is cut between its test of the line status and its write, and
`Transmit` is the port, at any time. `shutdown` reads the number of checks twice: to see whether there are any (`Shutdown`) and to
print them (`Report`). `panic` clears the word whoever holds it, prints
two lines and switches the machine off, which ends all other cores. A line is
its core and the places of its characters: what they are is the formatter's. `made` is the set of the calls of
`check()` that were made, each named by its core and its number, with which `ChecksReported` compares the counter.

### Snprintf, TfpPrintf, Formats

`Snprintf` is the loop of `dopr()`, one iteration an action, one action per state of the loop. The
characters of the format are single strings, `pos` is the pointer into it, and `next` counts the calls
of `va_arg`. `FmtInt` and `FmtStr` compute what the padding loops put out, from the same intermediate
lengths as the code. What is to be formatted is a *program* of literal characters and
directives; `Spelled` writes it as a caller would, and `Meaning` says what C makes of a directive, without
its spelling. `AsInC` lists where the formatter differs from C (`0` with a precision or with
`-`, a precision 0 of the number 0, a field wider than the precision of a string, a wide field of a
character, `#`, negative widths in arguments, signed pointers, numbers with `h` that are none of a short, and some of `%f`) and `Formatted` is about all the others; `ReadsBack` is about
every number. `Word` is the number of values of an int, `Short` that of a short, which `%hn` stores. `ProgramsAssumption` says what a program is (`%w`, which takes the
character behind it with it, is not put before a directive). At the end of a format `%w` takes the terminator with it, and the loop
goes on behind (`Overrun`): a program therefore says what lies in memory behind its format (`behind`, and then a
terminator) and what `va_arg` gives there (`left`, a value for each kind that is asked for). A floating point number is a sign and a fraction; `FmtFp` computes with those what `fmtfp` computes with
the registers of the processor.

`TfpPrintf` has the functions of `printf.cc`, each as a function of its arguments; the buffer `bf` is left out.
`Formats` evaluates it on the formats and arguments of `Snprintf`: `Portable` says that it prints the
same, for the directives that both know, but for the place of the sign of a number in a field with zeros
(`SignBehindZeros`).

### ArmBoot

Each core goes from `_start`, or from the spin table, to the echo loop of `kernel_init()`. There are two
machines. On the board (`"_start"`, with `kernel_old=1`) the image is at 0, where it is linked to be, and all
cores start at `_start`. `launch.sh` starts QEMU (`"spin_table"`) with the image at 0x80000 (`Loaded`), and
cores 1 to 3 wait in the spin table of QEMU. `low` is the memory from 0xD0 to 0xF8: on the board the
literals of `el1_entry`, the mailboxes among them, so that each store changes a literal; under QEMU the spin table. The
places of the literals are those in `kernel8.img`, which is the image of this `boot.S`.

WFE clears the event register and returns; with `spurious` it may return without an event (debuggers
and QEMU itself do that). `bss[w]` tells words that hold what the firmware left there, zeros and
values of the kernel apart; `stdout_putf` is the pointer that `init_printf` sets and `printf` jumps
through. A jump through 0 is, on the board, a jump to `_start`: a core that has started too early and
whose pointer is cleared under it starts again, which is why `EveryCoreUp` holds there with
`spurious` as well. A core that jumps out of the image is `"astray"`.

### ArmKernel

What `ArmBoot` leaves out: each core switches the one serial port off and on (`UartInit`), prints a line and echoes,
all through `uart_send` and `uart_recv`, each of which is a test of the status and then an access of the data.
`out[c]` is what `c` still has to send, `room[c]` that its test has succeeded. `tx` and `rx` are the queues of the
port; a write to a full one is lost, a read of an empty one gives something else (`Junk`). Typed characters
that do not arrive change nothing and are not modelled; those that do are numbered. `wire` records what has gone out while one core
ran alone.

Every load and store of `critical_owner`, `critical_depth` and `counter` is a step. In `kernel_init()` the call of
`kernelMain()` is commented out, so none of this runs in the kernel as it is; `kernel.kernelMain`
has the kernel with the call beside the one without. `overlap` remembers whether two cores have been in
`critical()` at once.

## 3. Runs

| Run | Instance | What it shows |
|---|---|---|
| `spinlock` | 3 cores | the invariant, exclusion, no lost wake-up, refinement of `Mutex` with progress |
| `critical` | 3 cores without nesting and 1 core nested up to 3 deep, 3 calls each | exclusion, the invariant of the proof; a core that is alone always returns and can enter again |
| `critical_nested` | 3 cores, nested once | a violation: two cores at work at once |
| `critical_return` | 2 cores, 1 call each | a violation: a core never returns |
| `boot` | 4 processors, tables in 5 orders; 7 machines with another drive, memory or root, or without processor 2 | the kernel is loaded, every processor is found, one at a time on the shared stack, exact counters, two barriers, orderly shutdown |
| `heap` | 1 core, 28 words, 1-byte requests, search limit 2; 2 cores, 20 words, requests of 1 and 9 bytes, payloads that look like headers | tiling, list, joining, the choice of the search; nothing given twice or lost, no panic, refinement of `Allocator`, the search ends |
| `console` | 3 cores, 1 call each, lines of 2 characters | lines stay whole until a panic, what a forced unlock does, checks are all reported, the machine goes off |
| `formats` | words of 8 bits, shorts of 4, limits 4 and 30, two directives in a row, 9 texts behind a format that ends in `%w` | the formatter stays in the format, prints what C wants, numbers read back, both kernels print the same |
| `formats_float` | 0.5, 1.05 and 1.5 with three digits | a violation: 1.05 is printed as 1.500 |
| `arm_kernel` | core 0 alone, 2 cores, 3 cores; queues of 2, 2 typed characters; with and without `kernelMain()` | a core alone loses nothing; cores one by one leave `critical()` as they found it; the port is left on, and everything comes to rest |
| `arm_boot` | 4 cores, 2 words of bss, both machines, WFE returning early or not | stacks, mailboxes, the bss, and every core of the board up |
| `arm_boot_qemu` | 4 cores under QEMU | a violation: a core is sent to where the kernel is not |

### Bounds, and why they are enough

* Three cores are one that holds, one that loses and one that comes in between; every
  argument in the proofs of `SpinLock` and `Critical` looks at two cores at a time.
  The proofs then hold for any number.
* With two calls a core meets the owner that its own earlier call left behind; the run has three.
  Nesting twice (`MaxNest = 2`) is enough for the violation of exclusion, and 3, all that three calls allow, shows that depth as such is harmless. A core that
  is alone never sees a late reset, so that its depth cannot wrap there. `Word` stands for 2^32, and is
  large enough for the depth to wrap only by going below 0, as in the code.
* Four processors are what `t1.ok` expects. In `boot` they do not differ but in their
  number, and the third one woken meets nothing that the second did not. The segments wrap after 16 pieces
  and the count after 20, so that a drive can be longer than either; the kernel has 4 sectors.
* A heap of 28 words has, between its two ends of 2 words, room for exactly 6 blocks of 4 words,
  one of which is the lock: enough for three available blocks that are not
  neighbours, which with `MaxFits = 2` makes the limit of the search bite. In 20
  words, requests of 1 and 9 bytes (4 and 5 words) leave remainders of 1, 3, 4 and more
  words, on both sides of the limit of 4 below which no block is split.
* In `console`, one call per core already lets a panic meet a core that prints and one that waits,
  and `debug` prints three lines in one call. Two characters are a first and a last one; the proof
  covers lines of any length and any number of calls.
* In `formats` the first directive is one of all combinations of flags, width, precision,
  conversion and value that differ in what the code does (no width, one below and one above
  the text; no precision, 0, one below and one above; the flags alone and in the combinations that
  meet in one line of `fmtint`; numbers of one digit, of more, and both ends of the range), the second shows what
  the first leaves behind. Words of 8 bits have their ends like words of 32; the array of 20 digits is long
  enough for either. Limit 4 is reached inside of the first directive, 30 by none. Formats are broken
  off after each of their first characters. Behind a format that ends in `%w` there is nothing, a letter, a directive of each kind
  of argument, a star in either place, `%hn`, and another `%w`.
* In `arm_kernel` a line and its end are three characters, more than the queue of 2 holds, so a core has to wait for room;
  a third typed character would find the queue full and be lost. `critical()` is entered by two cores at most, which
  is enough for each of its lost updates; three cores that send show a second overrun on top of a first.
* In `arm_boot` there are the four cores of the Pi; one word of the bss is the pointer of `printf`, the other stands for the rest.
* `malloc(0)`, `free(nullptr)` and requests beyond the memory are left out of the runs:
  the first two return at once.

### Fairness

Cores are processors of their own: nothing deschedules them, and interrupts are off
from the boot sector on. So each core's own next step is weakly fair (`WF_vars(Step(c))`).
Calling is not: nobody is obliged to call `lock`, `malloc` or `free`; only in `Critical`
is `Call` fair, because `kernelMain()` does make its call on every core, and in `Console`
`kernelMain()` comes to its end (`MayCall` or `Return`). In `ArmBoot` a WFE is fair only while there is
an event (`WF_vars(event[c] /\ Wait(c))`), so that nothing relies on its returning early; `Snprintf` has no liveness. Interrupts
that are being sent are delivered (`WF_vars(Deliver)`), and the serial port of the Pi sends while it is on (`WF_vars(Transmit)`; nobody has to type). No strong fairness is assumed
anywhere: the kernel's locks are not fair, and `Mutex` promises only that *some*
waiting core gets in.

Deadlock is checked in every run. `Critical` has a `Finished` step, `Boot` an
`Off` step (for a boot that has failed as well) and `Console` an `Ended` step for the end of the program, and `Halt` in
`Console` is the `hlt` loop of `missing`; `Returned` in `Snprintf` is a formatter that has returned, and
`Echo` and `Astray` in `ArmBoot` are the echo loop and a core that is lost; `AwaitSpin` in `Boot` and `Spin` in `ArmKernel`
are waits in a loop. Nothing else stutters.

## 4. Findings

1. `critical_return`: `critical()` clears the flag before it resets the depth and the
   owner. A core that takes the flag in that window finds the owner still set, falls
   to the last branch, and spins for ever on the flag it has set itself. `t1.ok` expects
   the output of all four cores.
2. `critical_nested`: the late `critical_depth = 0` can fall into a nested call of the next
   owner, whose inner call then sees depth 0 at its end and releases the section under
   the outer one. The comment at the head of `critical.h` promises one core at a time.
   The same store can fall between `critical_depth++` and `critical_depth--` of the next owner: the depth wraps to
   2^32-1, without any nesting, and nobody clears the flag again. Several cores can come to that in the model as in
   the code, but no property of a run is about it (`AloneReturns` is about one core).
3. `formats_float`: `fmtfp` puts the zeros that the fraction of a number starts with behind its digits, so that `%.3f` prints
   1.05 as 1.500. The head of the file says that the formatter understands just about everything.
4. `arm_boot_qemu`: the addresses that core 0 stores for the others are absolute and the image is linked
   to be at 0, where `launch.sh` does not load it. Core 0 runs there, the others do not.

Four comments say more than the code does, without a run of their own: `include/critical.h` promises one core at a time, above a
lock that is commented out (`OneByOne` says what is left of it); `mbr.S` says that its count limits the drive to
32 MB, while the segments end before the first MB does (`Supported`); the heap calls itself first-fit and
takes the best of the first 20 blocks that fit (`BestOfFirst` says which); and the comment at the head of
`snprintf.cc` praises its limit checks, while the limit is looked at between two characters of the format
only, so that the item that reaches it is printed whole (`Formatted` says so). In this kernel the output is a
stream, and nothing is overrun.

## 5. Proofs

| Theorem | Statement |
|---|---|
| `SpinLockProofs!Invariance` | `SafeSpec => []Inv` |
| `SpinLockProofs!Exclusion` | `SafeSpec => []MutualExclusion` |
| `SpinLockProofs!NoReleaseMissed` | `SafeSpec => []NoLostWakeup` |
| `SpinLockProofs!Refinement` | `SafeSpec => M!SafeSpec`, the safety part of `ImplementsMutex` |
| `ConsoleProofs!Invariance` | `SafeSpec => []Inv` |
| `ConsoleProofs!Lines` | `SafeSpec => []LinesWhole` |
| `ConsoleProofs!Reported` | `SafeSpec => []MissingOnce` |
| `ConsoleProofs!Counted` | `SafeSpec => []ChecksReported` |
| `BootProofs!Ordered` | `SafeSpec => []Order` |
| `BootProofs!StacksApart` | `SafeSpec => []NoSharedStack` |
| `BootProofs!ImagePlaced` | `SafeSpec => []ImageLoaded` |
| `BootProofs!ProcessorsFound` | `SafeSpec => []EveryProcessorFound` |
| `BootProofs!MemoryFound` | `SafeSpec => []MemoryKnown` |
| `BootProofs!Invariance` | `SafeSpec => []Inv` |
| `BootProofs!Together` | `SafeSpec => []NobodyCutOff` |
| `BootProofs!Rendezvoused` | `SafeSpec => StartBarrier!SafeSpec /\ StopBarrier!SafeSpec`, the safety part of `StartsTogether` and `StopsTogether` |
| `HeapProofs!Invariance` | `SafeSpec => []Inv` |
| `HeapProofs!Joined` | `SafeSpec => []Coalesced` |
| `HeapProofs!OneOwner` | `SafeSpec => []GivenExact` |
| `HeapProofs!Untouched` | `SafeSpec => []PayloadIntact` |
| `HeapProofs!Calm` | `SafeSpec => []NoPanic` |
| `HeapProofs!Best` | `SafeSpec => []BestOfFirst` |
| `HeapProofs!Implemented` | `SafeSpec => ImplementsAllocator` |
| `ArmBootProofs!Invariance` | `SafeSpec => []Inv` |
| `ArmBootProofs!Kept` | `SafeSpec => BssKept` |
| `ArmKernelProofs!Invariance` | `SafeSpec => []Inv` |
| `ArmKernelProofs!Echoed` | `SafeSpec => []EchoAlone` |
| `ArmKernelProofs!Serial` | `SafeSpec => []OneByOne` |
| `SnprintfProofs!Invariance` | `Spec => []IInv` |
| `SnprintfProofs!StaysInside` | `Spec => []Inv` |
| `SnprintfProofs!NumbersReadBack` | `Spec => ReadsBack` |
| `CriticalProofs!FlatInvariance` | `NestingTeams = {} /\ SafeSpec => []Inv` |
| `CriticalProofs!FlatExclusion` | `NestingTeams = {} /\ SafeSpec => []MutualExclusion` |

Those of the x86 kernel hold for every set of cores, of any size. `SpinLockProofs`, `CriticalProofs` and
`ConsoleProofs` put no bound on the calls; `BootProofs` takes any processors, drives, kernels and tables
(`BootAssumption`, `LoaderAssumption`, `StackAssumption`, `MachineAssumption`), as long as the firmware lists the
processors and the BIOS reports the memory as `FirmwareAssumption` says; `HeapProofs` any heap of 12 words and more, any
requests of at least one byte and any values that the cores write (`HeapAssumption`). `SnprintfProofs` takes any set of
programs of any length (`ProgramsAssumption`), any limits, and any even number of values of an int below 2^57
(`SnprintfAssumption`); `PrintedAssumption` says that the characters which the formatter has in itself are strings. Those of the ARM kernel are for the four cores of
the Pi: `ArmBootProofs` for any bss, page size and place of the image (`ArmBootAssumption`), `ArmKernelProofs` for queues
of any length, any number of typed characters and any set of cores that send (`ArmKernelAssumption`, `KernelsAssumption`).

**Spin lock.** Exclusion is not inductive alone: a core that finds the word clear must
know that nobody holds the lock. `TakenIffHeld` says that the word tells the truth, and
`NoLostWakeup` is added to it. A core that loses the exchange has stored `true` over
`true`; a release stores `false` and, in the same step, fires every other monitor, so that
no armed monitor outlives the release it was armed for. The refinement maps `idle` to `out`,
`held` to `in` and everything between to `waiting`; the invariant is needed for `Enter`,
whose guard says that nobody is in.

**Critical section.** Assumed are `CriticalAssumption` (the constants are of their types
and the depth can hold more than it needs to) and that no team nests (`NestingTeams = {}`). A core *holds* the section
from the moment a branch lets it through to the moment it clears the flag (`Holds`).
That at most one does (`OneHolder`) rests on the flag for two of the branches, and for the
nested branch on the owner, which is written outside of the flag as well. `OwnerIsSafe`
is the strengthening that makes it inductive: if the owner names a core that is not at its
resets, the flag is set and no *other* core holds it, so that the core named could come in
by the nested branch without meeting anybody. For a team of several that nests the theorem
is false, by finding 2.

**Debug output.** A forced unlock breaks the usual invariant of a lock, and not only once: every
core that prints clears the word when it is done, under whoever printed beside it.
`DamageBounded` is what remains inductive: the number of cores that print, plus one if the word
is clear, never exceeds one plus the number of forced unlocks. With none it says that the core
that prints is alone. `PortTidy` then follows the port: the latest character in it is the one
before the next of the core that prints (or the last of a line), and a core about to write finds the
register as empty as it saw it. `Lines` is `LinesWhole` from the two. `MissingOnce` needs that the flag of
`missing()` is 0 exactly as long as nobody has found it so: the increment is atomic, so whoever comes later finds more.
`ChecksReported` is about a sum over the cores. It is stated as the size of a set of calls, to which each increment
adds one that was not in it, since a core numbers its calls.

**Formatter.** `IInv` says where `dopr()` is: between two items of the program, or in a directive, in front of the character
and the argument that the state of the loop wants next (`Parsed`, `Phase`). For that one has to know where the characters
and arguments of every item are in what the caller passes. `Layout` and `ArgLayout` are about one directive, as spelled with any flags,
width, precision and modifier; `Places` about a whole program, whose spelling is a sequence of texts put one behind the other
(`Flattened`, by `Recursion` again). The steps follow: a digit ends neither flags nor conversion, a star is in the width exactly where an argument
is, and so on. Where the format breaks off, the terminator ends the loop before it moves on. %w is the exception that
`Inside` names; behind it the invariant keeps only the types (`OverrunInv`), since nothing is known there but that `va_arg` gives
something of the kind that is asked for.

`ReadsBack` is a statement about one step, and in the invariant only so far as the conversion takes the argument that belongs to
it. The rest is about `fmtint()`: its text consists of blanks, a sign, zeros, digits and blanks (`Parted`). The digits are those of
`Rests`, which divides 20 times; nothing is left after 19 divisions, by a chain of bounds from 2^57 down (`LastRest`). `Read` goes the same
way back: after `j` digits it has what was left when the others were taken away (`MagnitudeRead`), and neither zeros in front nor
blanks and signs change it (`Passed`).

**Bring-up.** `Order` is what holds whatever the tables say. It is about the loop that wakes the others: while processor `id`
is on its way from its startup interrupt to the count of `running`, those above it sleep and those below have counted themselves,
hence have left the shared stack (`WokenInTurn`, `RunningExact`). `OwnStack` gives each place in the code its stack; two
processors on one stack would both be at the two instructions of `mbr.S` that use `tempStack`, and both be the one being
woken. `SetUpOnce` says that what processor 0 sets up is there before `smpInitDone`, so that only
processor 0 takes the first branch. `SectorsInPlace` is the invariant of the loader: the pieces that are read so far hold their
sectors until the segments wrap, which is after more pieces than the kernel has. Like `ImageLoaded` it is about drives that hold the
whole kernel and whose number of sectors fits into 16 bits.

The barriers are set to what `configInit()` has found. The walk over the table is a recursive function, and what
such a function computes takes induction, for which there is no rule here that the provers can use. `Induction` is therefore proved
from the pigeonhole principle: if a set has 0, and with each number the next one, but not n, then adding one takes those of its
numbers below n into themselves without 0. From it come `Recursion` (there is a function that goes by given steps) and
`ByRounds` (what each round keeps, all rounds keep), and `Walking` is what the rounds of the loop keep: the bytes that are
left are those of the entries behind, `apicInfo` has the other processors among the entries looked at, each once,
and the I/O APIC is known once it was passed. The loop ends exactly where the table does, because no entry has length 0. `Walked` concludes
from `ListsProcessors` that each of the other processors is entered once, and `MemoryAdded` does the same for the or of two words, one
of which is 0. With this, each counter is what is left of `N` after those that have
passed it (`BarriersExact`), so it reaches 0 with the last one, and the abstract barrier opens in that step. `NobodyCutOff`
adds that whoever is behind the second barrier has seen it at 0.

**Heap.** The blocks are the auxiliary `blocks`, the places of the list the auxiliary `order`. The first half of the module is about
functions, with neither processes nor time: what a memory looks like whose words tile into blocks with equal headers and
footers (`Heaped`), and what one call of `Remove`, `MakeAvail`, `MakeTaken` or a whole `Carve` and `Coalesce` does with
it. The list is followed in both directions, so removing a block from its middle, or putting one to its front, is a
statement about three neighbours in `order`. The second half has one lemma for each action. Two parts of `Inv` are not about the
memory: `Knows` says what the registers of a core under the lock still mean, that is, why the pointer that it follows is in
the list and the block that it frees is its own; and `GivenExact` accounts for the taken blocks: each is the lock, or a
user's, or in the hands of one call, and never two of these. In its proof this is a statement about sets of
places (`Exactly`), in which each action moves one block from one set to another. `PayloadIntact` is what lets the users write whatever they like: their words are
in no header, footer or link.

`Best` is about the choice. A search that has looked at the first `k` places of the list has counted those that fit, and has the smallest of
them (`Looked`, `Chosen`); it is an invariant because nobody changes the list while the lock is held. From it comes
the case of the refinement that is not mechanical: `malloc` returns null only if no block in the list is large
enough, while the abstract allocator may refuse only if no run of unused words is long enough, whatever blocks it may touch.
The two agree since a run of unused words lies in one available block (`OneBlock`): on both sides of an available block are taken ones, by
`Coalesced`, or the ends of the heap. The allocator answers a request in the step that carves the block, or finds none, and
a block is released in the step that joins it with its neighbours; all other steps but the two calls stutter.

**Start of the Pi.** `InPlace` says where each core can be on which machine, and that core 0 is through with the bss
once it has left `memzero`; `OwnStack` gives the stack pointer of each core that runs, from which
`StacksApart` follows by arithmetic. `BssInTime` is inductive because an event, or a core that has left its
wait, implies that core 0 is in `kernel_init()` already. `BoxesFound` is about the literals: those of the cores
still to be told are intact, because no mailbox lies on the literal of a later mailbox's address. `InImage` needs that a
core that is about to print has set the pointer itself, so that it is `"used"` or has been cleared, never what the
firmware left.

**Serial port of the Pi.** `LeftOn` says that the port is on unless a core is between the two stores of `uart_init()`, or none
has come there: each core that switches it off still has to switch it on. `EchoInv` is `EchoAlone` while one
core runs: what has gone out, the queue, what the core holds and what is typed are, in a row, what was printed and
typed. Its steps move the border between two of the four. A core that has seen room for a
character (`room`) finds it still there, as long as no other core fills the queue. For `critical()`, `ByTurns` holds until two cores have
been inside at once; `Turn` says what a core alone inside finds in the owner and the depth at each of its accesses. `Untouched` says
what is still as it was before the first core has come to the port, and that `critical()` is entered only in the kernel with the call
of `kernelMain()`; the proof covers both kernels.

### Only model-checked

Everything with progress in it (`ImplementsMutex` beyond its safety part, `StartsTogether`
and `StopsTogether` with their progress, `ShutsDown`, `SearchEnds`, `AloneReturns`, `GoesOff`, `EveryCoreUp`, `ComesToRest`):
liveness under fairness is out of the prover's reach.

`Formatted` and `Portable`, which compare whole texts: the one with what C prints for a program, the other with
what the other kernel prints.

## 6. Not modelled, and why

* Taking interrupts: they are never enabled. `IDT::trap` is not called.
* Random numbers (`random.h`): nothing includes the file.
* Errors of the drive: `mbr.S` does not look at what the BIOS returns and would start whatever is in the memory. The bss, which nothing
  clears, is assumed to be zero, as QEMU leaves it.
* The wrappers of single instructions (`machine.S`, `atomic.cc`, `AtomicPtr`): they are the
  atomic steps of the other modules.
* `%e` and `%g` only skip their argument, in the code as in the model.
* In `config.cc` a missing root or a missing MADT, which the code does not handle: it would go on with address 0.
* Scripts, images, device trees, and the commented-out code of the ARM port.
* Memory orders weaker than sequential consistency. The x86 kernel's atomics are
  sequentially consistent and its plain accesses are made in order but for store buffering;
  where that matters the module says so.
* More than 17 processors: `apicInfo` has 16 places and the code does not look.
* Requests to the heap that wrap (`bytes + 3`), and blocks that are freed twice.

## 7. Plan

Done: `Mutex`, `SpinLock`, `Critical`, `Rendezvous`, `Boot` with `Loader` and `Config`, `Allocator`, `Heap`, `Console`,
`Snprintf`, `TfpPrintf`, `Formats`, `ArmBoot`, `ArmKernel`; the proofs of `SpinLock`, `Critical`, `Console`, `ArmBoot`,
`Boot`, `ArmKernel`, `Heap` and `Snprintf`, with every safety refinement of theirs.

Left: a proof of `Formatted`, for which the texts of `fmtint()`, `fmtstr()` and `fmtfp()` have to be compared with those of
`Meaning`, and of `Portable`, which needs the same of `TfpPrintf`.
