------------------------------- MODULE Config -------------------------------
(***************************************************************************)
(* The configuration of the x86 kernel (kernel/config.cc): the search for  *)
(* the table of the processors among the tables of the firmware, and the   *)
(* walk over its entries.                                                  *)
(*                                                                         *)
(* The root of the tables is in one of two places; the tables it refers to *)
(* are a sequence, which is empty where there is no root.  A table has a   *)
(* signature, a length in bytes, and what the memory holds from its first  *)
(* entry on: its entries, and then the head of whatever table is next.     *)
(* Sizes of the memory are in KB.                                          *)
(***************************************************************************)
LOCAL INSTANCE Integers
LOCAL INSTANCE Sequences

sizeofMADT == 44

\* findRSD(): the range below 1 MB, then the extended BIOS data area.
findRSD(roots) == IF roots.bios # <<>> THEN roots.bios ELSE roots.ebda

\* findSDT(): the first table of that name.
findSDT(tables, name) ==
    tables[CHOOSE i \in DOMAIN tables :
               /\ tables[i].signature = name
               /\ \A j \in 1 .. i - 1 : tables[j].signature # name]

\* The entries that go to apicInfo.
IsOther(entry) == entry.type = 0 /\ entry.processorId # 0

IsIOApic(entry) == entry.type = 1

\* Processor 0 is entered as well.
LookAtAll(entry, config) ==
    IF entry.type = 0 THEN [config EXCEPT !.apicInfo = Append(@, entry.processorId)]
    ELSE IF IsIOApic(entry) THEN [config EXCEPT !.ioAPIC = entry.address]
    ELSE config

\* The loop looks at an entry.  A later I/O APIC replaces an earlier one.
Look(entry, config) ==
    IF IsOther(entry) THEN [config EXCEPT !.apicInfo = Append(@, entry.processorId)]
    ELSE IF IsIOApic(entry) THEN [config EXCEPT !.ioAPIC = entry.address]
    ELSE config

\* What the loop has found after n rounds.  It moves on before it looks: the entry it
\* starts at is not among those it looks at, and the one behind the last is.
Rounds(madt) ==
    LET round[n \in 0 .. Len(madt.memory) - 1] ==
            IF n = 0 THEN [bytesForEntries |-> madt.length - sizeofMADT, apicInfo |-> <<>>, ioAPIC |-> 0]
            ELSE Look(madt.memory[n + 1],
                      [round[n - 1] EXCEPT !.bytesForEntries = @ - madt.memory[n].len])
    IN  round

\* while (bytesForEntries > 0)
Walk(madt) ==
    LET round == Rounds(madt)
    IN  round[CHOOSE n \in DOMAIN round : /\ round[n].bytesForEntries <= 0
                                          /\ \A m \in 0 .. n - 1 : round[m].bytesForEntries > 0]

\* a | b, of 16 bits.
Or(a, b) ==
    LET low[n \in 0 .. 16] ==
            IF n = 0 THEN 0
            ELSE low[n - 1] + (IF (a \div 2^(n - 1)) % 2 = 1 \/ (b \div 2^(n - 1)) % 2 = 1
                               THEN 2^(n - 1) ELSE 0)
    IN  low[16]

\* The ASSERT of memAbove1M().
MemInfoPlausible(memInfo) == memInfo.cx = 15 * 1024 \/ memInfo.dx = 0

\* The two halves of what the BIOS reports are added.
memAbove1MSum(memInfo) == memInfo.ax + memInfo.cx + 64 * (memInfo.bx + memInfo.dx)

\* The BIOS reports the memory below and above 16 MB, in either pair of registers or
\* in both.
memAbove1M(memInfo) == Or(memInfo.ax, memInfo.cx) + 64 * Or(memInfo.bx, memInfo.dx)

\* What configInit() makes of the tables.
configInit(roots, memInfo) ==
    LET found == Walk(findSDT(findRSD(roots), "APIC"))
    IN  [apicInfo |-> found.apicInfo,
         totalProcs |-> Len(found.apicInfo) + 1,
         memSize |-> (memAbove1M(memInfo) + 1024) % 2^22,
         ioAPIC |-> found.ioAPIC]

(***************************************************************************)
(* The tables as the firmware writes them, for a machine with N            *)
(* processors.  The entry of another processor than 0 never comes first;   *)
(* behind a table there is another one, which starts with a letter.        *)
(***************************************************************************)

Processor(number) == [type |-> 0, len |-> 8, processorId |-> number]
IOApic(base) == [type |-> 1, len |-> 12, address |-> base]
Override == [type |-> 2, len |-> 10]
Letter == [type |-> 72, len |-> 80]

\* How many bytes the first entries take.
Bytes(entries) ==
    LET bytes[i \in 0 .. Len(entries)] == IF i = 0 THEN 0 ELSE bytes[i - 1] + entries[i].len
    IN  bytes

\* A table with these entries.
Table(name, entries) ==
    [signature |-> name, length |-> sizeofMADT + Bytes(entries)[Len(entries)],
     memory |-> Append(entries, Letter)]

Entry == [type : {0}, len : Nat \ {0}, processorId : Nat]
         \cup [type : {1}, len : Nat \ {0}, address : Nat \ {0}]
         \cup [type : Nat \ {0, 1}, len : Nat \ {0}]

\* The table of the processors: each of the others has one entry, not the first, and
\* neither is the I/O APIC; what follows the table is of another kind.
ListsProcessors(madt, N) ==
    LET entries == SubSeq(madt.memory, 1, Len(madt.memory) - 1)
        others == {i \in DOMAIN entries : IsOther(entries[i])}
    IN  /\ madt.memory \in Seq(Entry)
        /\ madt = Table("APIC", entries)
        /\ 1 \notin others
        /\ {entries[i].processorId : i \in others} = 1 .. N - 1
        /\ \A i, j \in others : entries[i].processorId = entries[j].processorId => i = j
        /\ \E i \in DOMAIN entries \ {1} : IsIOApic(entries[i])

\* The BIOS reports the memory above 1 MB in one pair of registers or in both, and it
\* can be addressed.
ReportsMemory(memInfo, kb) ==
    \E low \in {memInfo.ax, memInfo.cx}, high \in {memInfo.bx, memInfo.dx} :
        /\ {low, high} \subseteq 0 .. 2^16 - 1
        /\ (memInfo.ax = low /\ memInfo.bx = high) \/ (memInfo.ax = 0 /\ memInfo.bx = 0)
        /\ (memInfo.cx = low /\ memInfo.dx = high) \/ (memInfo.cx = 0 /\ memInfo.dx = 0)
        /\ kb = 1024 + low + 64 * high /\ kb < 2^22
=============================================================================
