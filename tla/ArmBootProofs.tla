---------------------------- MODULE ArmBootProofs ----------------------------
(***************************************************************************)
(* Proofs about the start of the cores of the Pi, for any bss and any size *)
(* of the pages: the inductive invariant of module ArmBoot, and that no    *)
(* word a core has used is cleared.                                        *)
(***************************************************************************)
EXTENDS ArmBoot, TLAPS

Places == Waiting \cup Clearing \cup {"table_look", "start_core", "astray"} \cup Running

\* The steps that one core takes alone, core 0 in el1_entry apart.
CoreStep(c) ==
    \/ Start(c) \/ TableLook(c) \/ Wait(c) \/ StartCore(c)
    \/ KernelInit(c) \/ Echo(c) \/ Astray(c)

\* There is a core 0, and the others have other numbers.
LEMMA CoreFacts ==
    /\ 0 \in Core /\ Others \subseteq Core /\ Core \subseteq Int
    /\ \A c \in Core : c = 0 \/ c \in Others
    /\ \A c \in Others : c # 0 /\ (c = 1 \/ c = 2 \/ c = 3)
    /\ stdout_putf \in 1 .. Words /\ Words \in Nat
BY ArmBootAssumption DEF ArmBootAssumption, Core, Others

\* Where the literals and the mailboxes are, and what the literals are.
LEMMA LowFacts ==
    /\ Literals \in [Low -> Nat]
    /\ \A c \in Others :
          /\ CoreLiteral(c) \in Low /\ BoxLiteral(c) \in Low /\ Mailbox(c) \in Low
          /\ Literals[BoxLiteral(c)] = Mailbox(c)
          /\ Literals[CoreLiteral(c)] = start_core(c)
          /\ start_core(c) \in Nat
          /\ \A d \in Others : Mailbox(c) = Mailbox(d) => c = d
          /\ \A d \in Others : d > c => BoxLiteral(d) # Mailbox(c)
<1>1. Literals \in [Low -> Nat]
  <2>1. \A a \in Low : Literals[a] \in Nat
    BY DEF Literals, Low, start_core, Mailbox
  <2> QED
    BY <2>1 DEF Literals
<1>2. ASSUME NEW c \in Others
      PROVE  /\ CoreLiteral(c) \in Low /\ BoxLiteral(c) \in Low /\ Mailbox(c) \in Low
             /\ Literals[BoxLiteral(c)] = Mailbox(c)
             /\ Literals[CoreLiteral(c)] = start_core(c)
             /\ start_core(c) \in Nat
             /\ \A d \in Others : Mailbox(c) = Mailbox(d) => c = d
             /\ \A d \in Others : d > c => BoxLiteral(d) # Mailbox(c)
  <2>1. CASE c = 1
    BY <2>1, CoreFacts DEF CoreLiteral, BoxLiteral, Mailbox, Low, Literals, start_core
  <2>2. CASE c = 2
    BY <2>2, CoreFacts DEF CoreLiteral, BoxLiteral, Mailbox, Low, Literals, start_core
  <2>3. CASE c = 3
    BY <2>3, CoreFacts DEF CoreLiteral, BoxLiteral, Mailbox, Low, Literals, start_core
  <2> QED
    BY <2>1, <2>2, <2>3, CoreFacts
<1> QED
  BY <1>1, <1>2

\* In the initial states nothing has started.
LEMMA InitInv == Init => Inv
<1> SUFFICES ASSUME Init PROVE Inv
  OBVIOUS
<1> USE ArmBootAssumption DEF ArmBootAssumption
<1>1. TypeOK
  <2>1. machine \in {"_start", "spin_table"} /\ spurious \in BOOLEAN /\ id \in 1 .. 4
    BY DEF Init
  <2>2. pc \in [Core -> Waiting]
    BY DEF Init, Waiting
  <2>3. sp \in [Core -> Int] /\ cleared \in 0 .. Words
    BY DEF Init
  <2>4. event \in [Core -> BOOLEAN]
    BY DEF Init
  <2>5. bss \in [1 .. Words -> {"junk", "zero", "used"}]
    BY DEF Init
  <2>6. low \in [Low -> Nat]
    BY LowFacts DEF Init
  <2> QED
    BY <2>1, <2>2, <2>3, <2>4, <2>5, <2>6 DEF TypeOK
<1>2. BssInTime
  <2>1. pc[0] = "_start" /\ cleared = 0 /\ \A c \in Core : ~event[c]
    BY CoreFacts DEF Init
  <2>2. \A c \in Core : pc[c] \in Waiting
    BY DEF Init, Waiting
  <2>3. \A w \in 1 .. Words : bss[w] = "junk"
    BY DEF Init
  <2> QED
    BY <2>1, <2>2, <2>3, CoreFacts DEF BssInTime, Waiting, Running
<1>3. OwnStack /\ StacksApart
  BY DEF Init, OwnStack, StacksApart, Running
<1>4. InPlace
  BY CoreFacts, LowFacts DEF Init, InPlace, Clearing, Running
<1>5. BoxesFound
  BY LowFacts DEF Init, BoxesFound, Literal
<1>6. InImage
  BY DEF Init, InImage
<1> QED
  BY <1>1, <1>2, <1>3, <1>4, <1>5, <1>6 DEF Inv

\* What core 0 stores goes to the mailbox it is meant for.
LEMMA Stores ==
    ASSUME Inv, Mailboxes
    PROVE  /\ id \in Others /\ id' = id + 1
           /\ Literal(CoreLiteral(id)) \in Nat
           /\ low' = [low EXCEPT ![Mailbox(id)] = Literal(CoreLiteral(id))]
           /\ machine = "spin_table" => Literal(CoreLiteral(id)) = start_core(id)
<1>1. id \in Others
  BY DEF Inv, TypeOK, Mailboxes, Others
<1>2. Literal(BoxLiteral(id)) = Mailbox(id)
  BY <1>1 DEF Inv, TypeOK, BoxesFound, Others
<1>3. Literal(CoreLiteral(id)) \in Nat
  BY <1>1, LowFacts DEF Inv, TypeOK, Literal
<1>4. machine = "spin_table" => Literal(CoreLiteral(id)) = start_core(id)
  BY <1>1, LowFacts DEF Literal
<1> QED
  BY <1>1, <1>2, <1>3, <1>4 DEF Mailboxes

\* el1_entry keeps the types.
LEMMA EntryTypes == Inv /\ EL1Entry => TypeOK'
<1> SUFFICES ASSUME Inv, EL1Entry PROVE TypeOK'
  OBVIOUS
<1>0. TypeOK
  BY DEF Inv
<1> USE <1>0 DEF TypeOK, GoTo, Waiting, Clearing, Running, machinery
<1>1. CASE memzero
  <2>1. CASE cleared < Words
    <3>1. cleared' \in 0 .. Words /\ pc' = pc
      BY <1>1, <2>1, CoreFacts DEF memzero
    <3>2. bss' \in [1 .. Words -> {"junk", "zero", "used"}]
      BY <1>1, <2>1 DEF memzero
    <3> QED
      BY <1>1, <3>1, <3>2 DEF memzero
  <2>2. CASE ~(cleared < Words)
    BY <1>1, <2>2 DEF memzero
  <2> QED
    BY <2>1, <2>2
<1>2. CASE MovSp
  <2>1. sp' \in [Core -> Int]
    BY <1>2, CoreFacts, ArmBootAssumption DEF MovSp, ArmBootAssumption
  <2> QED
    BY <1>2, <2>1 DEF MovSp
<1>3. CASE Mailboxes
  <2>0. /\ id \in Others /\ id' = id + 1 /\ Literal(CoreLiteral(id)) \in Nat
        /\ low' = [low EXCEPT ![Mailbox(id)] = Literal(CoreLiteral(id))]
    BY <1>3, Stores
  <2>1. id' \in 1 .. 4
    BY <2>0 DEF Others
  <2>2. low' \in [Low -> Nat]
    BY <2>0
  <2> QED
    BY <1>3, <2>1, <2>2 DEF Mailboxes
<1>4. CASE Sev
  BY <1>4, CoreFacts DEF Sev
<1> QED
  BY <1>1, <1>2, <1>3, <1>4 DEF EL1Entry

\* Every other step keeps the types.
LEMMA CoreTypes == ASSUME NEW c \in Core, TypeOK, CoreStep(c) PROVE TypeOK'
<1> USE DEF TypeOK, GoTo, Waiting, Clearing, Running, machinery
<1>1. CASE Start(c)
  BY <1>1 DEF Start
<1>2. CASE TableLook(c)
  BY <1>2 DEF TableLook
<1>3. CASE Wait(c)
  BY <1>3 DEF Wait, ProcHang, TableWfe, Wfe
<1>4. CASE StartCore(c)
  <2>1. LOW_MEMORY + c * PAGE_SIZE \in Int
    BY ArmBootAssumption DEF ArmBootAssumption, Core
  <2>2. sp' \in [Core -> Int]
    BY <1>4, <2>1 DEF StartCore
  <2> QED
    BY <1>4, <2>2 DEF StartCore
<1>5. CASE UartInit(c)
  BY <1>5 DEF UartInit
<1>6. CASE InitPrintf(c)
  BY <1>6 DEF InitPrintf
<1>7. CASE Hello(c)
  BY <1>7 DEF Hello
<1>8. CASE Echo(c) \/ Astray(c)
  BY <1>8 DEF Echo, Astray, vars
<1> QED
  BY <1>1, <1>2, <1>3, <1>4, <1>5, <1>6, <1>7, <1>8 DEF CoreStep, KernelInit

\* The machine stays what it is.
LEMMA SameMachine == [Next]_vars => machine' = machine /\ spurious' = spurious
BY DEF Next, EL1Entry, memzero, MovSp, Mailboxes, Sev, Start, TableLook, Wait, ProcHang, TableWfe,
       Wfe, StartCore, KernelInit, UartInit, InitPrintf, Hello, Echo, Astray, vars, machinery

\* The stores go on finding their mailboxes: none of them changes a literal that a
\* later one takes its address from.
LEMMA Boxes == Inv /\ [Next]_vars => BoxesFound'
<1> SUFFICES ASSUME Inv, [Next]_vars PROVE BoxesFound'
  OBVIOUS
<1>1. BoxesFound /\ low \in [Low -> Nat] /\ id \in 1 .. 4 /\ machine' = machine
  BY SameMachine DEF Inv, TypeOK
<1>2. CASE Mailboxes
  <2> SUFFICES ASSUME NEW c \in Others, c >= id' PROVE Literal(BoxLiteral(c))' = Mailbox(c)
    BY DEF BoxesFound
  <2>1. id \in Others /\ c > id /\ low' = [low EXCEPT ![Mailbox(id)] = Literal(CoreLiteral(id))]
    BY <1>2, Stores DEF Others
  <2>2. Literal(BoxLiteral(c)) = Mailbox(c)
    BY <1>1, <2>1 DEF BoxesFound, Others
  <2>3. BoxLiteral(c) # Mailbox(id) /\ BoxLiteral(c) \in Low
    BY <2>1, LowFacts
  <2> QED
    BY <1>1, <2>1, <2>2, <2>3 DEF Literal
<1>3. CASE low' = low /\ id' = id
  BY <1>1, <1>3 DEF BoxesFound, Literal
<1>4. Mailboxes \/ (low' = low /\ id' = id)
  BY DEF Next, EL1Entry, memzero, MovSp, Sev, Start, TableLook, Wait, ProcHang, TableWfe, Wfe,
         StartCore, KernelInit, UartInit, InitPrintf, Hello, Echo, Astray, vars
<1> QED
  BY <1>2, <1>3, <1>4

\* An address in an image that is loaded elsewhere is not the one it was linked at.
LEMMA Elsewhere ==
    ASSUME NEW base \in Nat \ {0}, NEW linked \in Nat, NEW address \in {0, linked}
    PROVE  address # base + linked \/ address = 0
OBVIOUS

\* One core moves at a time, from a place to one that it may be in.
LEMMA Moves == Inv /\ [Next]_vars => InPlace'
<1> SUFFICES ASSUME Inv, [Next]_vars PROVE InPlace'
  OBVIOUS
<1>1. /\ InPlace /\ pc \in [Core -> Places]
      /\ low \in [Low -> Nat] /\ cleared \in 0 .. Words
      /\ bss \in [1 .. Words -> {"junk", "zero", "used"}]
  BY DEF Inv, TypeOK, Places
<1>0. machine' = machine
  BY SameMachine
<1> USE <1>0, <1>1, CoreFacts DEF InPlace, GoTo, Clearing, Running
<1>2. CASE memzero
  BY <1>2 DEF memzero
<1>3. CASE MovSp \/ Sev
  <2>1. UNCHANGED <<low, cleared, bss>> /\ pc[0] \in {"mov_sp", "mailboxes"}
    BY <1>3 DEF MovSp, Sev
  <2>2. pc'[0] \in {"mailboxes", "uart_init"} /\ \A c \in Others : pc'[c] = pc[c]
    BY <1>3 DEF MovSp, Sev
  <2> QED
    BY <2>1, <2>2
<1>4. CASE Mailboxes
  <2>1. /\ pc' = pc /\ bss' = bss /\ cleared' = cleared /\ id \in Others
        /\ low' = [low EXCEPT ![Mailbox(id)] = Literal(CoreLiteral(id))]
        /\ machine = "spin_table" => Literal(CoreLiteral(id)) = start_core(id)
    BY <1>4, Stores DEF Mailboxes
  <2>2. machine = "spin_table" => \A c \in Others : low'[Mailbox(c)] \in {0, start_core(c)}
    <3> SUFFICES ASSUME machine = "spin_table", NEW c \in Others
                 PROVE  low'[Mailbox(c)] \in {0, start_core(c)}
      OBVIOUS
    <3>1. CASE c = id
      BY <2>1, <3>1, LowFacts
    <3>2. CASE c # id
      BY <2>1, <3>2, LowFacts
    <3> QED
      BY <3>1, <3>2
  <2> QED
    BY <2>1, <2>2
<1>5. ASSUME NEW c \in Core, CoreStep(c) PROVE InPlace'
  <2>1. CASE Start(c)
    BY <2>1 DEF Start
  <2>2. CASE TableLook(c)
    <3>1. c # 0 /\ c \in Others /\ machine = "spin_table"
      BY <2>2, ArmBootAssumption DEF TableLook, Inv, TypeOK
    <3>2. low[Mailbox(c)] # Base + start_core(c) \/ low[Mailbox(c)] = 0
      <4>1. low[Mailbox(c)] \in {0, start_core(c)} /\ start_core(c) \in Nat
        BY <3>1, LowFacts
      <4>2. Base \in Nat \ {0}
        BY <3>1, ArmBootAssumption DEF Base, ArmBootAssumption
      <4> QED
        BY <4>1, <4>2, Elsewhere, Zenon
    <3> QED
      BY <2>2, <3>1, <3>2 DEF TableLook
  <2>3. CASE Wait(c)
    BY <2>3 DEF Wait, ProcHang, TableWfe, Wfe
  <2>4. CASE StartCore(c)
    BY <2>4 DEF StartCore
  <2>5. CASE UartInit(c)
    BY <2>5 DEF UartInit
  <2>6. CASE InitPrintf(c)
    BY <2>6 DEF InitPrintf
  <2>7. CASE Hello(c)
    <3>1. c # 0 => machine = "_start"
      BY <2>7 DEF Hello, Inv, TypeOK
    <3>2. c # 0 => pc'[c] \in {"echo", "_start"}
      BY <2>7, <3>1 DEF Hello, Inv, InImage, Base
    <3>3. c = 0 => pc'[c] = "echo"
      BY <2>7 DEF Hello
    <3> QED
      BY <2>7, <3>1, <3>2, <3>3 DEF Hello
  <2>8. CASE Echo(c) \/ Astray(c)
    BY <2>8 DEF Echo, Astray, vars
  <2> QED
    BY <1>5, <2>1, <2>2, <2>3, <2>4, <2>5, <2>6, <2>7, <2>8 DEF CoreStep, KernelInit
<1>6. CASE UNCHANGED vars
  BY <1>6 DEF vars
<1> QED
  BY <1>2, <1>3, <1>4, <1>5, <1>6 DEF Next, EL1Entry, CoreStep

\* On the board no step leads out of the image.
LEMMA Image == Inv /\ [Next]_vars => InImage'
<1> SUFFICES ASSUME Inv, [Next]_vars, machine = "_start" PROVE InImage'
  BY SameMachine DEF InImage
<1>1. /\ InImage /\ InPlace' /\ machine' = machine
      /\ pc \in [Core -> Places] /\ bss \in [1 .. Words -> {"junk", "zero", "used"}]
  BY Moves, SameMachine DEF Inv, TypeOK, Places
<1>2. \A c \in Core : pc'[c] # "astray"
  BY <1>1, CoreFacts DEF InPlace, Clearing, Running
<1>3. bss[stdout_putf] # "junk" => bss'[stdout_putf] # "junk"
  BY <1>1, CoreFacts
     DEF Next, EL1Entry, memzero, MovSp, Mailboxes, Sev, Start, TableLook, Wait, ProcHang, TableWfe,
         Wfe, StartCore, KernelInit, UartInit, InitPrintf, Hello, Echo, Astray, vars
<1>4. ASSUME NEW c \in Core, pc'[c] = "printf" PROVE bss'[stdout_putf] # "junk"
  <2>1. CASE pc[c] = "printf"
    BY <1>1, <1>3, <2>1 DEF InImage
  <2>2. CASE pc[c] # "printf"
    <3>1. InitPrintf(c)
      BY <1>1, <1>4, <2>2, CoreFacts
         DEF Next, EL1Entry, memzero, MovSp, Mailboxes, Sev, Start, TableLook, Wait, ProcHang, TableWfe,
             Wfe, StartCore, KernelInit, UartInit, InitPrintf, Hello, Echo, Astray, vars, GoTo
    <3> QED
      BY <1>1, <3>1, CoreFacts DEF InitPrintf
  <2> QED
    BY <2>1, <2>2
<1> QED
  BY <1>2, <1>4 DEF InImage

\* A core gets its stack pointer before it runs, and keeps it.
LEMMA Stacks == Inv /\ [Next]_vars => OwnStack'
<1> SUFFICES ASSUME Inv, [Next]_vars PROVE OwnStack'
  OBVIOUS
<1>1. OwnStack /\ InPlace /\ sp \in [Core -> Int] /\ pc \in [Core -> Places]
  BY DEF Inv, TypeOK, Places
<1>0. LOW_MEMORY + 0 * PAGE_SIZE = LOW_MEMORY
  BY ArmBootAssumption DEF ArmBootAssumption
<1> USE <1>1, CoreFacts DEF OwnStack, GoTo, Running
<1>2. CASE EL1Entry
  BY <1>0, <1>2 DEF EL1Entry, memzero, MovSp, Mailboxes, Sev
<1>3. ASSUME NEW c \in Core, CoreStep(c) PROVE OwnStack'
  <2>1. CASE Start(c)
    BY <2>1 DEF Start
  <2>2. CASE TableLook(c)
    BY <2>2 DEF TableLook
  <2>3. CASE Wait(c)
    BY <2>3 DEF Wait, ProcHang, TableWfe, Wfe
  <2>4. CASE StartCore(c)
    BY <2>4 DEF StartCore
  <2>5. CASE KernelInit(c)
    BY <2>5 DEF KernelInit, UartInit, InitPrintf, Hello
  <2>6. CASE Echo(c) \/ Astray(c)
    BY <2>6 DEF Echo, Astray, vars
  <2> QED
    BY <1>3, <2>1, <2>2, <2>3, <2>4, <2>5, <2>6 DEF CoreStep
<1>4. CASE UNCHANGED vars
  BY <1>4 DEF vars
<1> QED
  BY <1>2, <1>3, <1>4 DEF Next, CoreStep

\* Stack pointers that are counted in pages are a page apart.
LEMMA Apart == OwnStack => StacksApart
<1> SUFFICES ASSUME OwnStack, NEW c \in Core, NEW d \in Core, c < d,
                    pc[c] \in Running, pc[d] \in Running
             PROVE  sp[d] - sp[c] >= PAGE_SIZE
  BY DEF StacksApart
<1>1. sp[c] = LOW_MEMORY + c * PAGE_SIZE /\ sp[d] = LOW_MEMORY + d * PAGE_SIZE
  BY DEF OwnStack
<1>2. (d - c - 1) * PAGE_SIZE >= 0
  BY CoreFacts, ArmBootAssumption DEF ArmBootAssumption
<1>3. d * PAGE_SIZE = (d - c - 1) * PAGE_SIZE + c * PAGE_SIZE + PAGE_SIZE
  BY CoreFacts, ArmBootAssumption DEF ArmBootAssumption
<1> QED
  BY <1>1, <1>2, <1>3, CoreFacts, ArmBootAssumption DEF ArmBootAssumption

\* When a WFE returns for events only, the bss is cleared before another core starts,
\* and what is used after that stays used.
LEMMA Bss == Inv /\ [Next]_vars /\ ~spurious =>
                 BssInTime' /\ \A w \in 1 .. Words : bss[w] = "used" => bss'[w] = "used"
<1> SUFFICES ASSUME Inv, [Next]_vars, ~spurious
             PROVE  BssInTime' /\ \A w \in 1 .. Words : bss[w] = "used" => bss'[w] = "used"
  OBVIOUS
<1>1. /\ pc \in [Core -> Places] /\ event \in [Core -> BOOLEAN]
      /\ cleared \in 0 .. Words
      /\ bss \in [1 .. Words -> {"junk", "zero", "used"}]
      /\ InPlace /\ BssInTime
  BY DEF Inv, TypeOK, Places
<1> USE <1>1, CoreFacts DEF GoTo, InPlace, BssInTime, Clearing, Running
<1>2. CASE memzero
  <2>1. CASE cleared < Words
    <3>1. /\ \A c \in Core : pc[c] \notin Running
          /\ \A c \in Others : pc[c] \in Waiting /\ ~event[c]
      BY <1>2 DEF memzero, Waiting
    <3>2. cleared + 1 \in 1 .. Words /\ cleared' = cleared + 1 /\ pc' = pc /\ event' = event
      BY <1>2, <2>1 DEF memzero
    <3>3. bss' = [bss EXCEPT ![cleared + 1] = "zero"]
      BY <1>2, <2>1 DEF memzero
    <3>4. \A w \in 1 .. cleared' : bss'[w] # "junk"
      BY <3>2, <3>3
    <3>5. \A w \in 1 .. Words : bss[w] # "used" /\ bss'[w] # "used"
      BY <1>2, <3>2, <3>3 DEF memzero
    <3> QED
      BY <1>2, <3>1, <3>2, <3>4, <3>5 DEF memzero
  <2>2. CASE ~(cleared < Words)
    BY <1>2, <2>2 DEF memzero, Waiting
  <2> QED
    BY <2>1, <2>2
<1>3. CASE MovSp
  BY <1>3 DEF MovSp, Waiting
<1>4. CASE Mailboxes
  BY <1>4 DEF Mailboxes
<1>5. CASE Sev
  BY <1>5 DEF Sev, Waiting
<1>6. ASSUME NEW c \in Core, CoreStep(c)
      PROVE  BssInTime' /\ \A w \in 1 .. Words : bss[w] = "used" => bss'[w] = "used"
  <2>1. CASE Start(c)
    BY <2>1 DEF Start, Waiting
  <2>2. CASE TableLook(c)
    <3>1. c \in Others /\ event' = event /\ bss' = bss /\ cleared' = cleared /\ pc'[0] = pc[0]
      BY <2>2 DEF TableLook
    <3> QED
      BY <2>2 DEF TableLook, Waiting
  <2>3. CASE Wait(c)
    BY <2>3 DEF Wait, ProcHang, TableWfe, Wfe, Waiting
  <2>4. CASE StartCore(c)
    BY <2>4 DEF StartCore, Waiting
  <2>5. CASE UartInit(c)
    BY <2>5 DEF UartInit, Waiting
  <2>6. CASE InitPrintf(c)
    BY <2>6 DEF InitPrintf, Waiting
  <2>7. CASE Hello(c)
    BY <2>7 DEF Hello, Waiting
  <2>8. CASE Echo(c) \/ Astray(c)
    BY <2>8 DEF Echo, Astray, vars
  <2> QED
    BY <1>6, <2>1, <2>2, <2>3, <2>4, <2>5, <2>6, <2>7, <2>8 DEF CoreStep, KernelInit
<1>7. CASE UNCHANGED vars
  BY <1>7 DEF vars
<1> QED
  BY <1>2, <1>3, <1>4, <1>5, <1>6, <1>7 DEF Next, EL1Entry, CoreStep

\* Every step keeps the invariant.
LEMMA StepInv == Inv /\ [Next]_vars => Inv'
<1> SUFFICES ASSUME Inv, [Next]_vars PROVE Inv'
  OBVIOUS
<1>1. TypeOK'
  <2>1. CASE UNCHANGED vars
    BY <2>1 DEF vars, machinery, Inv, TypeOK
  <2> QED
    BY <2>1, EntryTypes, CoreTypes DEF Inv, Next, CoreStep
<1>2. BssInTime'
  BY SameMachine, Bss DEF BssInTime
<1>3. StacksApart'
  <2>1. OwnStack'
    BY Stacks
  <2>2. (OwnStack => StacksApart)'
    BY Apart, PTL
  <2> QED
    BY <2>1, <2>2
<1> QED
  BY <1>1, <1>2, <1>3, Moves, Boxes, Image, Stacks DEF Inv

\* The invariant of the start of the cores (src/boot.S), on both machines: the stores
\* find their mailboxes; on the board no core leaves the image; the stacks of cores
\* that run are a page apart; and when a WFE returns for events only, the bss is clear
\* before another core starts.
THEOREM Invariance == SafeSpec => []Inv
BY InitInv, StepInv, PTL DEF SafeSpec

\* When a WFE returns for events only, nothing that a core has stored in the bss is
\* cleared after it (memzero in src/mm.S, called from el1_entry).
THEOREM Kept == SafeSpec => BssKept
<1>1. Inv /\ [Next]_vars =>
          [~spurious => \A w \in 1 .. Words : bss[w] = "used" => bss'[w] = "used"]_vars
  BY Bss
<1> QED
  BY <1>1, Invariance, PTL DEF SafeSpec, BssKept
=============================================================================
