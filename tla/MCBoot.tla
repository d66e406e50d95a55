------------------------------- MODULE MCBoot -------------------------------
(* Four processors, listed in any order, with the I/O APIC and an override *)
(* behind them, before them or in between; and machines that differ from   *)
(* one of these in one respect.                                            *)
EXTENDS Boot

Orders == {<<1, 2, 3>>, <<3, 1, 2>>}

List(order) == [i \in DOMAIN order |-> Processor(order[i])]

Entries ==
    UNION {{<<Processor(0)>> \o List(o) \o <<IOApic(64), Override>>,
            <<IOApic(32), IOApic(64), Override>> \o List(o) \o <<Processor(0)>>,
            <<Override, Processor(3), IOApic(64)>> \o SelectSeq(List(o), LAMBDA e : e.processorId # 3)}
           : o \in Orders}

Tables(e) == <<Table("FACP", <<Override>>), Table("APIC", e), Table("HPET", <<>>)>>

\* 16 MB and then some, as either pair of registers says.
Registers(a, b, c, d) == [ax |-> a, bx |-> b, cx |-> c, dx |-> d]

Standard(e) ==
    [roots |-> [bios |-> Tables(e), ebda |-> <<>>], present |-> Cpu, sectors |-> Image,
     memInfo |-> Registers(15360, 1791, 15360, 1791), kb |-> 131008]

Some == Standard(CHOOSE e \in Entries : TRUE)

MCMachines ==
    {Standard(e) : e \in Entries}
    \cup {[Some EXCEPT !.roots = [bios |-> <<>>, ebda |-> Some.roots.bios],
                       !.memInfo = Registers(15360, 5, 0, 0), !.kb = 16384 + 5 * 64],
          [Some EXCEPT !.memInfo = Registers(3072, 0, 3072, 0), !.kb = 4096,
                       !.sectors = Image + 4],
          [Some EXCEPT !.memInfo = Registers(0, 0, 15360, 9), !.kb = 16384 + 9 * 64,
                       !.sectors = Pieces - First + 1],
          [Some EXCEPT !.sectors = Pieces],
          [Some EXCEPT !.sectors = CountWord],
          [Some EXCEPT !.memInfo = Registers(14336, 9, 14336, 9)],
          [Some EXCEPT !.present = Cpu \ {2}]}
=============================================================================
