--------------------------- MODULE ArmKernelProofs ---------------------------
(***************************************************************************)
(* Proofs about kernel_init() on the four cores of the Raspberry Pi, for   *)
(* queues of any size and anything that is typed.                          *)
(***************************************************************************)
EXTENDS ArmKernel, FiniteSetTheorems, TLAPS

\* What the assumptions say of the constants: four cores, and counters wider than they need to be.
LEMMA KernelFacts ==
    /\ FIFO \in Nat \ {0} /\ MaxTyped \in Nat /\ Word \in Nat /\ Word > 4
    /\ Core = {0, 1, 2, 3} /\ NoOwner \notin Core /\ NoOwner \in Nat
    /\ IsFiniteSet(Core) /\ Cardinality(Core) = 4
<1>1. FIFO \in Nat \ {0} /\ MaxTyped \in Nat /\ Word \in Nat /\ Word > 4
  BY ArmKernelAssumption DEF ArmKernelAssumption
<1>2. \A n \in Nat : IsFiniteSet(0 .. n) /\ Cardinality(0 .. n) = n + 1
  BY FS_Interval
<1>3. IsFiniteSet(Core) /\ Cardinality(Core) = 3 + 1
  BY ONLY <1>2 DEF Core
<1>4. Core = {0, 1, 2, 3}
  BY DEF Core
<1>5. NoOwner \in Nat /\ NoOwner > 3
  BY <1>1 DEF NoOwner
<1> QED
  BY <1>1, <1>3, <1>4, <1>5

\* One and two elements make a sequence.
LEMMA Short == ASSUME NEW S, NEW a \in S, NEW b \in S PROVE <<a>> \in Seq(S) /\ <<a, b>> \in Seq(S)
OBVIOUS

\* What is reduced to the width of a word fits in it.
LEMMA InWord == ASSUME NEW w \in Nat, w > 0, NEW n \in Int PROVE n % w \in 0 .. w - 1
OBVIOUS

\* A counter that is far from its width is an ordinary number.
LEMMA Counting ==
    ASSUME NEW w \in Nat, w > 4, NEW k \in 0 .. 3, NEW n \in Nat, n <= k
    PROVE  (n + 1) % w = n + 1 /\ n + 1 <= k + 1 /\ n <= k + 1 /\ n + 1 > 0
OBVIOUS

\* depth goes from 0 to 1 and back without wrapping.
LEMMA Nesting == ASSUME NEW w \in Nat, w > 4 PROVE (0 + 1) % w = 1 /\ (1 - 1) % w = 0
OBVIOUS

\* Two texts put together are a text.
LEMMA Joined == ASSUME NEW S, NEW s \in Seq(S), NEW t \in Seq(S) PROVE s \o t \in Seq(S)
OBVIOUS

\* What is put at the end of a text leaves a text.
LEMMA Pushed == ASSUME NEW S, NEW s \in Seq(S), NEW e \in S PROVE Append(s, e) \in Seq(S)
OBVIOUS

\* What is taken off the head of a text leaves a text.
LEMMA Popped == ASSUME NEW S, NEW s \in Seq(S), s # <<>> PROVE Head(s) \in S /\ Tail(s) \in Seq(S)
OBVIOUS

\* A line is made of characters.
LEMMA Lines ==
    ASSUME NEW text \in {"Hello world", "hello", "goodbye"}, NEW value \in Nat
    PROVE  Line(text, value) \in Seq(Character)
<1>1. <<text, value>> \in Character /\ <<"\r", 0>> \in Character /\ <<"\n", 0>> \in Character
  BY DEF Character
<1>2. ASSUME NEW ch \in Character PROVE putc(ch) \in Seq(Character)
  <2>1. <<<<"\r", 0>>, ch>> \in Seq(Character) /\ <<ch>> \in Seq(Character)
    BY <1>1, Short
  <2> QED
    BY <2>1 DEF putc
<1>3. putc(<<text, value>>) \in Seq(Character) /\ putc(<<"\n", 0>>) \in Seq(Character)
  BY <1>1, <1>2
<1> QED
  BY <1>3, Joined DEF Line

\* What a step of a core leaves as it is, and where it goes.
LEMMA Placed ==
    ASSUME TypeOK, NEW c \in Core, Step(c)
    PROVE  /\ pc' \in [Core -> {"off", "uart_init", "enable", "hello", "critical"} \cup Inside \cup Echoing]
           /\ reg' \in [Core -> 0 .. Word - 1]
<1> USE DEF TypeOK, GoTo, Goes, Loads
<1>1. CASE Uart(c)
  BY <1>1 DEF Uart, UartInit, SendWait, SendStore, RecvWait, RecvLoad, cores, Echoing
<1>2. CASE Hello(c) \/ Leave(c)
  BY <1>2 DEF Hello, Leave, Inside, Echoing
<1>3. CASE Work(c)
  BY <1>3 DEF Work, Inside
<1>4. CASE Enter(c) \/ Nest(c)
  BY <1>4 DEF Enter, Nest, Inside
<1> QED
  BY <1>1, <1>2, <1>3, <1>4 DEF Step

\* A step of a core that nobody has disturbed keeps every variable in its type.
LEMMA StepTypes == ASSUME TypeOK, Untouched, NEW c \in Core, Step(c) PROVE TypeOK'
<1>a. /\ pc' \in [Core -> {"off", "uart_init", "enable", "hello", "critical"} \cup Inside \cup Echoing]
      /\ reg' \in [Core -> 0 .. Word - 1]
  BY Placed
<1>b. /\ out \in [Core -> Seq(Character)] /\ room \in [Core -> BOOLEAN]
      /\ cntl \in {0, 3} /\ rx \in Seq(Character) /\ tx \in Seq(Character)
      /\ typed \in Nat /\ wire \in Seq(Character) /\ overlap \in BOOLEAN /\ kernel \in Kernels
      /\ owner \in Core \cup {NoOwner} /\ depth \in 0 .. Word - 1 /\ counter \in 0 .. Word - 1
      /\ reg \in [Core -> 0 .. Word - 1]
  BY DEF TypeOK
<1>c. ASSUME /\ out' \in [Core -> Seq(Character)] /\ room' \in [Core -> BOOLEAN]
             /\ cntl' \in {0, 3} /\ rx' \in Seq(Character) /\ tx' \in Seq(Character)
             /\ typed' \in Nat /\ wire' \in Seq(Character) /\ overlap' \in BOOLEAN /\ kernel' \in Kernels
             /\ owner' \in Core \cup {NoOwner} /\ depth' \in 0 .. Word - 1 /\ counter' \in 0 .. Word - 1
      PROVE  TypeOK'
  BY <1>a, <1>c DEF TypeOK, Inside, Echoing
<1>1. CASE UartInit(c) \/ RecvWait(c)
  BY <1>b, <1>c, <1>1 DEF UartInit, RecvWait, device, critical, sending
<1>2. CASE SendWait(c)
  <2>1. room' \in [Core -> BOOLEAN]
    BY <1>b, <1>2 DEF SendWait
  <2> QED
    BY <1>b, <1>c, <1>2, <2>1 DEF SendWait, device, critical
<1>3. CASE SendStore(c)
  <2>0. out[c] # <<>>
    BY <1>3 DEF SendStore, Untouched
  <2>1. Head(out[c]) \in Character /\ Tail(out[c]) \in Seq(Character)
    BY <1>b, <2>0, Popped
  <2>2. tx' \in Seq(Character)
    BY <1>b, <1>3, <2>1, Pushed DEF SendStore
  <2>3. out' \in [Core -> Seq(Character)] /\ room' \in [Core -> BOOLEAN]
    BY <1>b, <1>3, <2>1 DEF SendStore
  <2> QED
    BY <1>b, <1>c, <1>3, <2>2, <2>3 DEF SendStore, critical
<1>4. CASE RecvLoad(c)
  <2>1. rx # <<>> => Head(rx) \in Character /\ Tail(rx) \in Seq(Character)
    BY <1>b, Popped
  <2>2. Junk \in Character
    BY DEF Junk, Character
  <2>3. (IF rx = <<>> THEN <<Junk>> ELSE <<Head(rx)>>) \in Seq(Character)
    BY <2>1, <2>2, Short
  <2>4. out' \in [Core -> Seq(Character)] /\ rx' \in Seq(Character)
    BY <1>b, <1>4, <2>1, <2>3 DEF RecvLoad
  <2> QED
    BY <1>b, <1>c, <1>4, <2>4 DEF RecvLoad, critical
<1>5. ASSUME NEW text \in {"Hello world", "hello", "goodbye"}, NEW value \in Nat, Puts(c, text, value)
      PROVE  out' \in [Core -> Seq(Character)]
  BY <1>b, <1>5, Lines DEF Puts
<1>6. CASE Hello(c)
  <2>1. c \in Nat
    BY KernelFacts
  <2> QED
    BY <1>b, <1>c, <1>5, <1>6, <2>1 DEF Hello, device, critical
<1>7. CASE Work(c)
  <2>1. counter \in Nat /\ reg[c] + 1 \in Int
    BY <1>b, KernelFacts
  <2>2. (reg[c] + 1) % Word \in 0 .. Word - 1
    BY <2>1, KernelFacts, InWord
  <2> QED
    BY <1>b, <1>c, <1>5, <1>7, <2>1, <2>2 DEF Work, device, critical, sending
<1>8. CASE Enter(c) \/ Leave(c)
  BY <1>b, <1>c, <1>8 DEF Enter, Leave, device, critical, sending
<1>9. CASE Nest(c)
  <2>1. reg[c] + 1 \in Int /\ reg[c] - 1 \in Int
    BY <1>b, KernelFacts
  <2>2. (reg[c] + 1) % Word \in 0 .. Word - 1 /\ (reg[c] - 1) % Word \in 0 .. Word - 1
    BY <2>1, KernelFacts, InWord
  <2> QED
    BY <1>b, <1>c, <1>9, <2>2 DEF Nest, device, critical, sending
<1> QED
  BY <1>1, <1>2, <1>3, <1>4, <1>6, <1>7, <1>8, <1>9 DEF Step, Uart

\* So does every step, those of the port and of the typist too.
LEMMA TypesStep == TypeOK /\ Untouched /\ [Next]_vars => TypeOK'
<1> SUFFICES ASSUME TypeOK, Untouched, [Next]_vars PROVE TypeOK'
  OBVIOUS
<1>1. ASSUME NEW c \in Core, Step(c) PROVE TypeOK'
  BY <1>1, StepTypes
<1>2. CASE Type
  <2>1. rx \in Seq(Character) /\ typed \in Nat /\ typed + 1 \in Nat
    BY DEF TypeOK
  <2>2. \A n \in Nat : <<"typed", n>> \in Character
    BY DEF Character
  <2>3. rx' \in Seq(Character) /\ typed' \in Nat
    BY <1>2, <2>1, <2>2, Pushed DEF Type
  <2> QED
    BY <1>2, <2>3 DEF Type, TypeOK, cores, sending, critical, Inside, Echoing
<1>3. CASE Transmit
  <2>1. tx \in Seq(Character) /\ wire \in Seq(Character) /\ tx # <<>>
    BY <1>3 DEF Transmit, TypeOK
  <2>2. tx' \in Seq(Character) /\ wire' \in Seq(Character)
    <3>1. Head(tx) \in Character /\ Tail(tx) \in Seq(Character)
      BY <2>1, Popped
    <3>2. Append(wire, Head(tx)) \in Seq(Character)
      BY <2>1, <3>1, Pushed
    <3> QED
      BY <1>3, <3>1, <3>2 DEF Transmit
  <2> QED
    BY <1>3, <2>2 DEF Transmit, TypeOK, cores, sending, critical, Inside, Echoing
<1>4. CASE UNCHANGED vars
  BY <1>4 DEF vars, TypeOK, cores, sending, device, critical, Inside, Echoing
<1> QED
  BY <1>1, <1>2, <1>3, <1>4 DEF Next, Spin

(***************************************************************************)
(* The steps of a core behind its uart_init().                             *)
(***************************************************************************)
Live == {"hello", "critical"} \cup Inside \cup Echoing

\* The places of a core whose port is on, one by one.
LEMMA LiveList ==
    /\ Live = {"hello", "critical", "owner", "depth++", "depth++ store", "work", "goodbye", "count",
               "count store", "depth--", "depth-- store", "last", "owner reset", "recv", "read"}
    /\ Inside = {"owner", "depth++", "depth++ store", "work", "goodbye", "count", "count store",
                 "depth--", "depth-- store", "last", "owner reset"}
    /\ Echoing = {"recv", "read"}
BY DEF Live, Inside, Echoing

\* Only uart_init() touches the control register; a core that is behind it stays there.
LEMMA Onward ==
    ASSUME TypeOK, Untouched, NEW c \in Core, Step(c), ~UartInit(c)
    PROVE  /\ kernel' = kernel /\ cntl' = cntl /\ typed' = typed /\ wire' = wire
           /\ c \in Started
           /\ pc' = pc \/ (pc[c] \in Live /\ \E to \in Live : pc' = [pc EXCEPT ![c] = to])
           /\ \A d \in Core \ {c} : out'[d] = out[d] /\ room'[d] = room[d] /\ reg'[d] = reg[d]
<1>0. /\ pc \in [Core -> {"off", "uart_init", "enable", "hello", "critical"} \cup Inside \cup Echoing]
      /\ out \in [Core -> Seq(Character)] /\ room \in [Core -> BOOLEAN] /\ reg \in [Core -> 0 .. Word - 1]
  BY DEF TypeOK
<1>1. c \notin Started => out[c] = <<>> /\ ~room[c]
  BY DEF Untouched
<1>2. \A place \in Live : place # "off" /\ place # "uart_init"
  BY LiveList
<1>3. CASE SendWait(c) \/ SendStore(c)
  BY <1>0, <1>1, <1>3 DEF SendWait, SendStore, cores, device, critical
<1>4. ASSUME pc[c] \in Live, NEW to \in Live, pc' = [pc EXCEPT ![c] = to]
      PROVE  /\ c \in Started
             /\ pc[c] \in Live /\ \E l \in Live : pc' = [pc EXCEPT ![c] = l]
  BY <1>2, <1>4 DEF Started
<1>5. CASE RecvWait(c)
  <2>1. pc[c] \in Live /\ \E to \in Live : pc' = [pc EXCEPT ![c] = to]
    BY <1>5, LiveList DEF RecvWait, Goes, GoTo
  <2> QED
    BY <1>4, <1>5, <2>1 DEF RecvWait, Goes, sending, device
<1>6. CASE RecvLoad(c)
  <2>1. pc[c] \in Live /\ \E to \in Live : pc' = [pc EXCEPT ![c] = to]
    BY <1>6, LiveList DEF RecvLoad, Goes, GoTo
  <2> QED
    BY <1>0, <1>4, <1>6, <2>1 DEF RecvLoad, Goes
<1>7. CASE Hello(c)
  <2>1. pc[c] \in Live /\ \E to \in Live : pc' = [pc EXCEPT ![c] = to]
    BY <1>7, LiveList DEF Hello, Goes, GoTo
  <2> QED
    BY <1>0, <1>4, <1>7, <2>1 DEF Hello, Goes, Puts, device
<1>8. CASE Enter(c)
  <2>1. pc[c] \in Live /\ \E to \in Live : pc' = [pc EXCEPT ![c] = to]
    BY <1>8, LiveList DEF Enter, Goes, GoTo
  <2> QED
    BY <1>4, <1>8, <2>1 DEF Enter, Goes, sending, device
<1>9. CASE Nest(c)
  <2>1. pc[c] \in Live /\ \E to \in Live : pc' = [pc EXCEPT ![c] = to]
    BY <1>9, LiveList DEF Nest, Goes, Loads, GoTo
  <2>2. \A d \in Core \ {c} : reg'[d] = reg[d]
    BY <1>0, <1>9 DEF Nest, Goes, Loads
  <2> QED
    BY <1>4, <1>9, <2>1, <2>2 DEF Nest, sending, device
<1>10. CASE Work(c)
  <2>1. pc[c] \in Live /\ \E to \in Live : pc' = [pc EXCEPT ![c] = to]
    BY <1>10, LiveList DEF Work, Goes, Loads, GoTo
  <2>2. \A d \in Core \ {c} : reg'[d] = reg[d] /\ out'[d] = out[d]
    BY <1>0, <1>10 DEF Work, Goes, Loads, Puts, sending
  <2>3. room' = room
    BY <1>10 DEF Work, sending
  <2> QED
    BY <1>4, <1>10, <2>1, <2>2, <2>3 DEF Work, device
<1>11. CASE Leave(c)
  <2>1. pc[c] \in Live /\ \E to \in Live : pc' = [pc EXCEPT ![c] = to]
    BY <1>11, LiveList DEF Leave, Goes, GoTo
  <2> QED
    BY <1>4, <1>11, <2>1 DEF Leave, Goes, sending, device
<1> QED
  BY <1>3, <1>5, <1>6, <1>7, <1>8, <1>9, <1>10, <1>11 DEF Step, Uart

\* The device is on when the last core is through with uart_init().
LEMMA LeftOnStep == TypeOK /\ Untouched /\ LeftOn /\ [Next]_vars => LeftOn'
<1> SUFFICES ASSUME TypeOK, Untouched, LeftOn, [Next]_vars PROVE LeftOn'
  OBVIOUS
<1>0. pc \in [Core -> {"off", "uart_init", "enable", "hello", "critical"} \cup Inside \cup Echoing]
  BY DEF TypeOK
<1>1. ASSUME NEW c \in Core, UartInit(c) PROVE LeftOn'
  BY <1>0, <1>1 DEF UartInit, Goes, GoTo, LeftOn
<1>2. ASSUME NEW c \in Core, Step(c), ~UartInit(c) PROVE LeftOn'
  <2>1. cntl' = cntl /\ c \in Started
    BY <1>2, Onward
  <2>2. CASE pc' = pc
    BY <2>1, <2>2 DEF LeftOn
  <2>3. ASSUME pc[c] \in Live, NEW to \in Live, pc' = [pc EXCEPT ![c] = to] PROVE LeftOn'
    <3>1. pc[c] # "enable" /\ pc[c] \notin {"off", "uart_init"}
      BY <2>3, LiveList
    <3> QED
      BY <1>0, <2>1, <2>3, <3>1 DEF LeftOn
  <2> QED
    BY <1>2, <2>2, <2>3, Onward
<1>3. CASE Type \/ Transmit
  BY <1>3 DEF Type, Transmit, cores, LeftOn
<1>4. CASE UNCHANGED vars
  BY <1>4 DEF vars, cores, device, LeftOn
<1> QED
  BY <1>1, <1>2, <1>3, <1>4 DEF Next, Spin

\* What has not been started has done nothing.
LEMMA UntouchedStep == TypeOK /\ Untouched /\ [Next]_vars => Untouched'
<1> SUFFICES ASSUME TypeOK, Untouched, [Next]_vars PROVE Untouched'
  OBVIOUS
<1>0. /\ pc \in [Core -> {"off", "uart_init", "enable", "hello", "critical"} \cup Inside \cup Echoing]
      /\ out \in [Core -> Seq(Character)] /\ room \in [Core -> BOOLEAN]
  BY DEF TypeOK
<1>a. /\ \A c \in Core : /\ c \in kernel.cores <=> pc[c] # "off"
                         /\ pc[c] \in {"off", "uart_init"} => out[c] = <<>>
                         /\ room[c] => out[c] # <<>>
                         /\ pc[c] \in Inside \cup {"critical"} => kernel.kernelMain
      /\ Started = {} => /\ wire = <<>> /\ tx = <<>> /\ rx = <<>>
                         /\ typed = 0 /\ cntl = 0
  BY DEF Untouched, Started
<1>1. ASSUME NEW c \in Core, UartInit(c) PROVE Untouched'
  <2>1. /\ pc[c] # "off" /\ kernel' = kernel /\ out' = out /\ room' = room
        /\ \E to \in {"enable", "hello"} : pc' = [pc EXCEPT ![c] = to]
    BY <1>1 DEF UartInit, Goes, GoTo, sending
  <2>2. c \in Started' /\ \A d \in Core : d \notin Started' => d \notin Started
    BY <1>0, <2>1 DEF Started
  <2>3. {"enable", "hello"} \cap (Inside \cup {"critical"}) = {}
    BY LiveList
  <2>4. \A d \in Core : pc'[d] \in Inside \cup {"critical"} => pc[d] \in Inside \cup {"critical"}
    BY <1>0, <2>1, <2>3
  <2>5. \A d \in Core : pc'[d] # "off" <=> pc[d] # "off"
    BY <1>0, <2>1
  <2> QED
    BY <1>a, <2>1, <2>2, <2>4, <2>5 DEF Untouched, Started, Inside
<1>2. ASSUME NEW c \in Core, Step(c), ~UartInit(c) PROVE Untouched'
  <2>1. /\ kernel' = kernel /\ c \in Started
        /\ pc' = pc \/ (pc[c] \in Live /\ \E to \in Live : pc' = [pc EXCEPT ![c] = to])
        /\ \A d \in Core \ {c} : out'[d] = out[d] /\ room'[d] = room[d]
    BY <1>2, Onward
  <2>2. \A place \in Live : place \notin {"off", "uart_init"}
    BY LiveList
  <2>3. Started' = Started
    BY <1>0, <2>1, <2>2 DEF Started
  <2>4. \A d \in Core : pc'[d] = "off" <=> pc[d] = "off"
    BY <1>0, <2>1, <2>2
  <2>5. room'[c] => out'[c] # <<>>
    <3>1. CASE SendWait(c) \/ SendStore(c)
      BY <1>0, <3>1 DEF SendWait, SendStore
    <3>2. CASE RecvWait(c) \/ Enter(c) \/ Nest(c) \/ Leave(c)
      BY <1>a, <3>2 DEF RecvWait, Enter, Nest, Leave, sending
    <3>3. CASE RecvLoad(c) \/ Hello(c) \/ Work(c)
      <4>1. room' = room /\ out[c] = <<>>
        BY <3>3 DEF RecvLoad, Hello, Work, Goes, Loads, GoTo, sending
      <4> QED
        BY <1>a, <4>1
    <3> QED
      BY <1>2, <3>1, <3>2, <3>3 DEF Step, Uart
  <2>6. pc'[c] \in Inside \cup {"critical"} => kernel.kernelMain
    <3>1. CASE pc' = pc
      BY <1>a, <3>1
    <3>2. CASE pc[c] \in Inside \cup {"critical"}
      BY <1>a, <3>2
    <3>3. CASE pc' # pc /\ pc[c] \notin Inside \cup {"critical"}
      <4> USE <1>0, LiveList DEF Goes, Loads, GoTo
      <4>1. CASE SendWait(c) \/ SendStore(c)
        BY <3>3, <4>1 DEF SendWait, SendStore, cores
      <4>2. CASE RecvWait(c) \/ RecvLoad(c)
        BY <4>2 DEF RecvWait, RecvLoad
      <4>3. CASE Hello(c)
        BY <4>3 DEF Hello
      <4>4. CASE Enter(c) \/ Leave(c)
        BY <3>3, <4>4 DEF Enter, Leave
      <4>5. CASE Nest(c)
        BY <3>3, <4>5 DEF Nest
      <4>6. CASE Work(c)
        BY <3>3, <4>6 DEF Work
      <4> QED
        BY <1>2, <4>1, <4>2, <4>3, <4>4, <4>5, <4>6 DEF Step, Uart
    <3> QED
      BY <3>1, <3>2, <3>3
  <2>7. \A d \in Core \ {c} : pc'[d] = pc[d]
    BY <1>0, <2>1
  <2> QED
    BY <1>a, <2>1, <2>3, <2>4, <2>5, <2>6, <2>7 DEF Untouched, Started, Inside
<1>3. CASE Type \/ Transmit
  <2>1. kernel' = kernel /\ pc' = pc /\ out' = out /\ room' = room /\ cntl = 3
    BY <1>3 DEF Type, Transmit, cores, sending
  <2>2. Started' = Started /\ Started # {}
    BY <1>a, <2>1 DEF Started
  <2> QED
    BY <1>a, <2>1, <2>2 DEF Untouched, Started, Inside
<1>4. CASE UNCHANGED vars
  BY <1>a, <1>4 DEF vars, cores, sending, device, Untouched, Started, Inside
<1> QED
  BY <1>1, <1>2, <1>3, <1>4 DEF Next, Spin

(***************************************************************************)
(* What the cores count.                                                   *)
(***************************************************************************)
Stores(c) ==
    /\ Goes(c, "count store", "depth--")
    /\ counter' = (reg[c] + 1) % Word
    /\ UNCHANGED <<kernel, sending, device, owner, depth, overlap>>

\* The cores that are through, by their places.
LEMMA ThroughList ==
    Through = {c \in Core : \/ pc[c] \in {"depth--", "depth-- store", "last", "owner reset"}
                            \/ kernel.kernelMain /\ pc[c] \in {"recv", "read"}}
BY DEF Through, Done, Echoing

\* The number of cores that are through, and that of one more.
LEMMA Sizes ==
    /\ Cardinality(Through) \in 0 .. 4
    /\ Through # {} => Cardinality(Through) > 0
    /\ \A c \in Core \ Through : Cardinality(Through \cup {c}) = Cardinality(Through) + 1
                                 /\ Cardinality(Through) + 1 <= 4
<1>1. Through \in SUBSET Core /\ IsFiniteSet(Core) /\ Cardinality(Core) = 4
  BY KernelFacts DEF Through
<1>2. IsFiniteSet(Through) /\ Cardinality(Through) <= 4 /\ Cardinality(Through) \in Nat
  BY <1>1, FS_Subset, FS_CardinalityType
<1>3. Through # {} => Cardinality(Through) # 0
  BY <1>2, FS_EmptySet
<1>4. ASSUME NEW c \in Core \ Through
      PROVE  Cardinality(Through \cup {c}) = Cardinality(Through) + 1 /\ Cardinality(Through) + 1 <= 4
  <2>1. Cardinality(Through \cup {c}) = Cardinality(Through) + 1
    BY <1>2, FS_AddElement
  <2>2. Through \cup {c} \in SUBSET Core
    BY <1>1
  <2>3. Cardinality(Through \cup {c}) <= 4
    BY <1>1, <2>2, FS_Subset
  <2> QED
    BY <2>1, <2>3
<1> QED
  BY <1>2, <1>3, <1>4

\* Who is through changes with the store to the counter, and with nothing else.
LEMMA ThroughStep ==
    ASSUME TypeOK, Untouched, NEW c \in Core, Step(c)
    PROVE  IF Stores(c) THEN c \notin Through /\ Through' = Through \cup {c}
           ELSE Through' = Through /\ counter' = counter
<1>0. pc \in [Core -> {"off", "uart_init", "enable", "hello", "critical"} \cup Inside \cup Echoing]
  BY DEF TypeOK
<1>a. pc[c] \in Inside => kernel.kernelMain
  BY DEF Untouched
<1>b. ASSUME kernel' = kernel, NEW to, pc' = [pc EXCEPT ![c] = to],
             \/ pc[c] \in {"uart_init", "enable", "critical", "owner", "depth++", "depth++ store", "work",
                           "goodbye", "count"}
                /\ to \in {"enable", "hello", "critical", "owner", "depth++", "depth++ store", "work",
                           "goodbye", "count", "count store"}
             \/ pc[c] \in {"depth--", "depth-- store", "last", "owner reset"}
                /\ (to \in {"depth-- store", "last", "owner reset"} \/ (to = "recv" /\ kernel.kernelMain))
             \/ pc[c] = "hello" /\ to = IF kernel.kernelMain THEN "critical" ELSE "recv"
             \/ pc[c] \in {"recv", "read"} /\ to \in {"recv", "read"}
      PROVE  Through' = Through
  <2>1. \A d \in Core : pc'[d] = IF d = c THEN to ELSE pc[d]
    BY <1>0, <1>b
  <2>2. c \in Through' <=> c \in Through
    BY <1>b, <2>1, ThroughList DEF Through, Done, Echoing
  <2>3. \A d \in Core \ {c} : d \in Through' <=> d \in Through
    BY <1>b, <2>1 DEF Through, Done, Echoing
  <2>4. Through \subseteq Core /\ Through' \subseteq Core
    BY DEF Through
  <2> QED
    BY <2>2, <2>3, <2>4
<1>c. ASSUME pc' = pc, kernel' = kernel PROVE Through' = Through
  BY <1>c DEF Through, Done, Echoing
<1> USE DEF Goes, Loads, GoTo
<1>1. CASE SendWait(c) \/ SendStore(c)
  <2>1. pc' = pc /\ kernel' = kernel /\ counter' = counter
    BY <1>1 DEF SendWait, SendStore, cores, critical
  <2>2. ~Stores(c)
    BY <1>0, <2>1 DEF Stores
  <2> QED
    BY <1>c, <2>1, <2>2
<1>2. CASE UartInit(c)
  BY <1>2, <1>b DEF UartInit, critical, Stores
<1>3. CASE RecvWait(c) \/ RecvLoad(c)
  BY <1>3, <1>b DEF RecvWait, RecvLoad, critical, Stores
<1>4. CASE Hello(c)
  BY <1>4, <1>b DEF Hello, critical, Stores
<1>5. CASE Enter(c)
  BY <1>5, <1>b DEF Enter, Stores
<1>6. CASE Nest(c)
  BY <1>6, <1>b DEF Nest, critical, Stores
<1>7. CASE Leave(c)
  <2>1. pc[c] \in {"last", "owner reset"} /\ kernel.kernelMain
    BY <1>a, <1>7, LiveList DEF Leave
  <2> QED
    BY <1>7, <1>b, <2>1 DEF Leave, critical, Stores
<1>8. CASE Work(c) /\ ~Stores(c)
  BY <1>8, <1>b DEF Work, critical, Stores
<1>9. CASE Stores(c)
  <2>1. pc[c] = "count store" /\ pc' = [pc EXCEPT ![c] = "depth--"] /\ kernel' = kernel
    BY <1>9 DEF Stores
  <2>2. c \notin Through
    BY <2>1, ThroughList
  <2>3. Through' = Through \cup {c}
    BY <1>0, <2>1 DEF Through, Done, Echoing
  <2> QED
    BY <1>9, <2>2, <2>3
<1> QED
  BY <1>1, <1>2, <1>3, <1>4, <1>5, <1>6, <1>7, <1>8, <1>9 DEF Step, Uart

\* No core counts what nobody has done: what it has loaded was no more than that.
LEMMA CountStep == TypeOK /\ Untouched /\ CountWithin /\ [Next]_vars => CountWithin'
<1> SUFFICES ASSUME TypeOK, Untouched, CountWithin, [Next]_vars PROVE CountWithin'
  OBVIOUS
<1>0. /\ pc \in [Core -> {"off", "uart_init", "enable", "hello", "critical"} \cup Inside \cup Echoing]
      /\ reg \in [Core -> 0 .. Word - 1] /\ counter \in 0 .. Word - 1
  BY DEF TypeOK
<1>a. /\ counter <= Cardinality(Through) /\ (Through # {} => counter > 0)
      /\ \A c \in Core : pc[c] = "count store" => reg[c] <= Cardinality(Through)
  BY DEF CountWithin
<1>b. \A c \in Core : reg[c] \in Nat
  <2>1. \A v \in 0 .. Word - 1 : v \in Nat
    BY KernelFacts
  <2> QED
    BY <1>0, <2>1
<1>1. ASSUME NEW c \in Core, Step(c), Stores(c) PROVE CountWithin'
  <2>1. /\ pc[c] = "count store" /\ pc' = [pc EXCEPT ![c] = "depth--"] /\ reg' = reg
        /\ counter' = (reg[c] + 1) % Word
    BY <1>1 DEF Stores, Goes, GoTo
  <2>2. c \notin Through /\ Through' = Through \cup {c}
    BY <1>1, ThroughStep
  <2>3. Cardinality(Through') = Cardinality(Through) + 1 /\ Cardinality(Through) \in 0 .. 3
    BY <2>2, Sizes
  <2>4. reg[c] \in Nat /\ reg[c] <= Cardinality(Through)
    BY <1>a, <1>b, <2>1
  <2>5. Word \in Nat /\ Word > 4
    BY KernelFacts
  <2>6. counter' = reg[c] + 1 /\ reg[c] + 1 <= Cardinality(Through) + 1 /\ reg[c] + 1 > 0
    BY <2>1, <2>3, <2>4, <2>5, Counting
  <2>7. \A d \in Core : pc'[d] = "count store" => pc[d] = "count store"
    BY <1>0, <2>1
  <2>8. \A d \in Core : pc'[d] = "count store" => reg'[d] <= Cardinality(Through')
    <3> SUFFICES ASSUME NEW d \in Core, pc[d] = "count store" PROVE reg[d] <= Cardinality(Through')
      BY <2>1, <2>7
    <3> QED
      <4>1. reg[d] \in Nat /\ reg[d] <= Cardinality(Through)
        BY <1>a, <1>b
      <4>2. reg[d] <= Cardinality(Through) + 1
        BY <2>3, <2>5, <4>1, Counting
      <4> QED
        BY <2>3, <4>2
  <2>9. counter' <= Cardinality(Through') /\ counter' > 0
    BY <2>3, <2>6
  <2> QED
    BY <2>8, <2>9 DEF CountWithin
<1>2. ASSUME NEW c \in Core, Step(c), ~Stores(c) PROVE CountWithin'
  <2>1. Through' = Through /\ counter' = counter
    BY <1>2, ThroughStep
  <2>2. \A d \in Core : pc'[d] = "count store" =>
            (pc[d] = "count store" /\ reg'[d] = reg[d]) \/ reg'[d] = counter
    <3> USE <1>0 DEF Goes, Loads, GoTo
    <3>1. CASE SendWait(c) \/ SendStore(c) \/ UartInit(c) \/ RecvWait(c) \/ RecvLoad(c) \/ Hello(c)
      BY <3>1 DEF SendWait, SendStore, UartInit, RecvWait, RecvLoad, Hello, cores
    <3>2. CASE Enter(c) \/ Leave(c)
      BY <3>2 DEF Enter, Leave
    <3>3. CASE Nest(c)
      BY <3>3 DEF Nest
    <3>4. CASE Work(c)
      BY <3>4 DEF Work
    <3> QED
      BY <1>2, <3>1, <3>2, <3>3, <3>4 DEF Step, Uart
  <2> QED
    BY <1>a, <2>1, <2>2 DEF CountWithin
<1>3. CASE Type \/ Transmit \/ UNCHANGED vars
  <2>1. pc' = pc /\ reg' = reg /\ kernel' = kernel /\ counter' = counter
    BY <1>3 DEF Type, Transmit, vars, cores, critical
  <2>2. Through' = Through
    BY <2>1 DEF Through, Done, Echoing
  <2> QED
    BY <1>a, <2>1, <2>2 DEF CountWithin
<1> QED
  BY <1>1, <1>2, <1>3 DEF Next, Spin

\* As long as no two cores have been in critical() at once, each finds it as the first
\* one did.
LEMMA TurnStep == TypeOK /\ Untouched /\ ByTurns /\ [Next]_vars => ByTurns'
<1> SUFFICES ASSUME TypeOK, Untouched, ByTurns, [Next]_vars, ~overlap' PROVE ByTurns'
  BY DEF ByTurns
<1>0. /\ pc \in [Core -> {"off", "uart_init", "enable", "hello", "critical"} \cup Inside \cup Echoing]
      /\ reg \in [Core -> 0 .. Word - 1] /\ overlap \in BOOLEAN
  BY DEF TypeOK
<1>a. ~overlap =>
        /\ \A c, d \in Core : pc[c] \in Inside /\ pc[d] \in Inside => c = d
        /\ \A c \in Core : pc[c] \in Inside => Turn(c)
        /\ (\A c \in Core : pc[c] \notin Inside) =>
               depth = 0 /\ owner = NoOwner /\ counter = Cardinality(Through)
  BY DEF ByTurns
<1>i. Inside' = Inside
  BY DEF Inside
<1>b. ASSUME ~overlap, UNCHANGED <<owner, depth, counter>>, Through' = Through,
             \A d \in Core : pc'[d] \in Inside => pc'[d] = pc[d] /\ reg'[d] = reg[d],
             \A d \in Core : pc[d] \in Inside => pc'[d] \in Inside
      PROVE  ByTurns'
  <2>1. \A d \in Core : pc'[d] \in Inside => Turn(d)'
    <3> SUFFICES ASSUME NEW d \in Core, pc'[d] \in Inside PROVE Turn(d)'
      OBVIOUS
    <3>1. Turn(d) /\ pc'[d] = pc[d] /\ reg'[d] = reg[d]
      BY <1>a, <1>b
    <3> QED
      BY <1>b, <3>1 DEF Turn
  <2>2. (\A d \in Core : pc'[d] \notin Inside) =>
            depth' = 0 /\ owner' = NoOwner /\ counter' = Cardinality(Through')
    BY <1>a, <1>b
  <2>3. \A d, e \in Core : pc'[d] \in Inside /\ pc'[e] \in Inside => d = e
    BY <1>a, <1>b
  <2> QED
    BY <1>i, <2>1, <2>2, <2>3 DEF ByTurns, NoOwner
<1>c. ASSUME NEW c \in Core, \A d \in Core \ {c} : pc[d] \notin Inside /\ pc'[d] = pc[d],
             pc'[c] \in Inside, Turn(c)'
      PROVE  ByTurns'
  BY <1>c, <1>i DEF ByTurns
<1>d. ASSUME NEW c \in Core, \A d \in Core \ {c} : pc[d] \notin Inside /\ pc'[d] = pc[d],
             pc'[c] \notin Inside, depth' = 0, owner' = NoOwner, counter' = Cardinality(Through')
      PROVE  ByTurns'
  BY <1>d, <1>i DEF ByTurns, NoOwner
<1>1. ASSUME NEW c \in Core, Step(c) PROVE ByTurns'
  <2>0. IF Stores(c) THEN c \notin Through /\ Through' = Through \cup {c}
        ELSE Through' = Through /\ counter' = counter
    BY <1>1, ThroughStep
  <2>a. ASSUME pc[c] \in Inside, ~overlap
        PROVE  Turn(c) /\ \A d \in Core \ {c} : pc[d] \notin Inside
    BY <1>a, <2>a
  <2>b. c \in Core /\ c # NoOwner
    BY KernelFacts
  <2>1. CASE SendWait(c) \/ SendStore(c)
    <3>1. UNCHANGED <<pc, reg, kernel, owner, depth, counter, overlap>>
      BY <2>1 DEF SendWait, SendStore, cores, critical
    <3>2. Through' = Through
      BY <3>1 DEF Through, Done, Echoing
    <3> QED
      BY <1>b, <3>1, <3>2
  <2>2. CASE UartInit(c) \/ RecvWait(c) \/ RecvLoad(c) \/ Hello(c)
    <3>1. /\ UNCHANGED <<reg, owner, depth, counter, overlap>>
          /\ pc[c] \notin Inside
          /\ \E to : to \notin Inside /\ pc' = [pc EXCEPT ![c] = to]
      BY <2>2, LiveList DEF UartInit, RecvWait, RecvLoad, Hello, Goes, GoTo, critical
    <3>2. ~Stores(c)
      <4>1. pc[c] # "count store"
        BY <3>1, LiveList
      <4> QED
        BY <4>1 DEF Stores, Goes, GoTo
    <3>3. \A d \in Core : (pc'[d] \in Inside <=> pc[d] \in Inside) /\ (d # c => pc'[d] = pc[d])
      BY <1>0, <3>1
    <3> QED
      BY <1>b, <2>0, <3>1, <3>2, <3>3
  <2>3. CASE Enter(c)
    <3>0. ~Stores(c) /\ ~overlap /\ UNCHANGED <<depth, counter, reg>>
      BY <1>0, <2>3 DEF Enter, Stores, Goes, GoTo
    <3>1. CASE pc[c] = "critical"
      <4>1. /\ owner' = owner /\ ~overlap' /\ \A d \in Core : pc[d] \notin Inside
            /\ pc' = [pc EXCEPT ![c] = IF owner = c THEN "depth++" ELSE "owner"]
        BY <2>3, <3>1 DEF Enter, Goes, GoTo
      <4>2. depth = 0 /\ owner = NoOwner /\ counter = Cardinality(Through)
        BY <1>a, <3>0, <4>1
      <4>3. pc'[c] = "owner" /\ \A d \in Core \ {c} : pc'[d] = pc[d]
        BY <1>0, <2>b, <4>1, <4>2
      <4>4. Turn(c)'
        BY <2>0, <3>0, <4>1, <4>2, <4>3 DEF Turn, NoOwner
      <4> QED
        <5>1. pc'[c] \in Inside
          BY <4>3, LiveList
        <5> QED
          BY <1>c, <4>1, <4>3, <4>4, <5>1
    <3>2. CASE pc[c] # "critical"
      <4>1. pc[c] = "owner" /\ pc' = [pc EXCEPT ![c] = "depth++"] /\ owner' = c
        BY <2>3, <3>2 DEF Enter, Goes, GoTo
      <4>2. Turn(c) /\ \A d \in Core \ {c} : pc[d] \notin Inside
        BY <2>a, <3>0, <4>1, LiveList
      <4>3. pc'[c] = "depth++" /\ \A d \in Core \ {c} : pc'[d] = pc[d]
        BY <1>0, <4>1
      <4>4. Turn(c)'
        BY <2>0, <3>0, <4>1, <4>2, <4>3 DEF Turn
      <4> QED
        BY <1>c, <4>2, <4>3, <4>4, LiveList
    <3> QED
      BY <3>1, <3>2
  <2>4. ASSUME NEW from \in Inside, NEW to, pc[c] = from, pc' = [pc EXCEPT ![c] = to], overlap' = overlap
        PROVE  /\ Turn(c) /\ ~overlap /\ pc'[c] = to
               /\ \A d \in Core \ {c} : pc[d] \notin Inside /\ pc'[d] = pc[d]
    BY <1>0, <2>4, <2>a
  <2>5. CASE Nest(c)
    <3>0. ~Stores(c) /\ UNCHANGED <<owner, counter, overlap>>
      BY <1>0, <2>5 DEF Nest, Stores, Goes, Loads, GoTo, critical
    <3>w. Word \in Nat /\ Word > 4
      BY KernelFacts
    <3>1. CASE pc[c] = "depth++" \/ pc[c] = "depth--"
      <4>1. /\ reg' = [reg EXCEPT ![c] = depth] /\ depth' = depth
            /\ pc' = [pc EXCEPT ![c] = IF pc[c] = "depth++" THEN "depth++ store" ELSE "depth-- store"]
        BY <2>5, <3>1 DEF Nest, Goes, Loads, GoTo, critical
      <4>2. /\ Turn(c) /\ pc'[c] = (IF pc[c] = "depth++" THEN "depth++ store" ELSE "depth-- store")
            /\ \A d \in Core \ {c} : pc[d] \notin Inside /\ pc'[d] = pc[d]
        BY <2>4, <3>0, <3>1, <4>1, LiveList
      <4>3. reg'[c] = depth'
        BY <1>0, <4>1
      <4>4. Turn(c)'
        <5>1. pc'[c] \notin {"owner", "depth++", "last", "owner reset", "count store"}
              /\ (pc'[c] = "depth++ store" <=> pc[c] = "depth++")
          BY <3>1, <4>2
        <5>2. /\ (pc[c] = "depth++" <=> depth = 0) /\ owner = c /\ depth \in {0, 1}
              /\ counter = Cardinality(Through)
          BY <3>1, <4>2 DEF Turn
        <5> QED
          BY <2>0, <3>0, <4>1, <4>3, <5>1, <5>2 DEF Turn
      <4>5. pc'[c] \in Inside
        BY <4>2, LiveList
      <4> QED
        BY <1>c, <4>2, <4>4, <4>5
    <3>2. CASE pc[c] = "depth++ store"
      <4>1. depth' = (reg[c] + 1) % Word /\ pc' = [pc EXCEPT ![c] = "work"]
        BY <2>5, <3>2 DEF Nest, Goes, Loads, GoTo
      <4>2. /\ Turn(c) /\ pc'[c] = "work"
            /\ \A d \in Core \ {c} : pc[d] \notin Inside /\ pc'[d] = pc[d]
        BY <2>4, <3>0, <3>2, <4>1, LiveList
      <4>3. reg[c] = 0
        BY <3>2, <4>2 DEF Turn
      <4>4. depth' = 1
        BY <3>w, <4>1, <4>3, Nesting
      <4>5. owner = c /\ counter = Cardinality(Through)
        BY <3>2, <4>2 DEF Turn
      <4>6. Turn(c)'
        <5>1. owner' = c /\ counter' = Cardinality(Through') /\ pc'[c] = "work"
          BY <2>0, <3>0, <4>2, <4>5
        <5> QED
          BY <4>4, <5>1 DEF Turn
      <4> QED
        BY <1>c, <4>2, <4>6, LiveList
    <3>3. CASE pc[c] = "depth-- store"
      <4>1. depth' = (reg[c] - 1) % Word /\ pc' = [pc EXCEPT ![c] = "last"]
        BY <2>5, <3>3 DEF Nest, Goes, Loads, GoTo
      <4>2. /\ Turn(c) /\ pc'[c] = "last"
            /\ \A d \in Core \ {c} : pc[d] \notin Inside /\ pc'[d] = pc[d]
        BY <2>4, <3>0, <3>3, <4>1, LiveList
      <4>3. reg[c] = 1
        BY <3>3, <4>2 DEF Turn
      <4>4. depth' = 0
        BY <3>w, <4>1, <4>3, Nesting
      <4>5. Turn(c)'
        BY <2>0, <3>0, <3>3, <4>2, <4>4 DEF Turn
      <4> QED
        BY <1>c, <4>2, <4>5, LiveList
    <3> QED
      BY <2>5, <3>1, <3>2, <3>3 DEF Nest, Goes, Loads, GoTo
  <2>6. CASE Work(c) /\ ~Stores(c)
    <3>1. /\ UNCHANGED <<owner, depth, counter, overlap>>
          /\ \/ pc[c] = "work" /\ pc' = [pc EXCEPT ![c] = "goodbye"] /\ reg' = reg
             \/ pc[c] = "goodbye" /\ pc' = [pc EXCEPT ![c] = "count"] /\ reg' = reg
             \/ pc[c] = "count" /\ pc' = [pc EXCEPT ![c] = "count store"]
                /\ reg' = [reg EXCEPT ![c] = counter]
      BY <2>6 DEF Work, Stores, Goes, Loads, GoTo, critical
    <3>2. PICK to \in {"goodbye", "count", "count store"} : pc' = [pc EXCEPT ![c] = to]
      BY <3>1
    <3>3. pc[c] \in {"work", "goodbye", "count"} /\ {"work", "goodbye", "count"} \subseteq Inside
      BY <3>1, LiveList
    <3>4. /\ Turn(c) /\ pc'[c] = to
          /\ \A d \in Core \ {c} : pc[d] \notin Inside /\ pc'[d] = pc[d]
      BY <2>4, <3>1, <3>2, <3>3
    <3>5. to = "count store" => reg'[c] = counter
      BY <1>0, <3>1, <3>4
    <3>6. Turn(c)'
      BY <2>0, <2>6, <3>1, <3>2, <3>3, <3>4, <3>5 DEF Turn
    <3>7. pc'[c] \in Inside
      BY <3>4, LiveList
    <3> QED
      BY <1>c, <3>4, <3>6, <3>7
  <2>7. CASE Stores(c)
    <3>1. /\ pc[c] = "count store" /\ pc' = [pc EXCEPT ![c] = "depth--"]
          /\ counter' = (reg[c] + 1) % Word /\ UNCHANGED <<reg, owner, depth, overlap>>
      BY <2>7 DEF Stores, Goes, GoTo
    <3>2. /\ Turn(c) /\ pc'[c] = "depth--"
          /\ \A d \in Core \ {c} : pc[d] \notin Inside /\ pc'[d] = pc[d]
      BY <2>4, <3>1, LiveList
    <3>3. reg[c] = Cardinality(Through)
      BY <3>1, <3>2 DEF Turn
    <3>4. Cardinality(Through') = Cardinality(Through) + 1 /\ Cardinality(Through) \in 0 .. 3
      BY <2>0, <2>7, Sizes
    <3>5. Word \in Nat /\ Word > 4
      BY KernelFacts
    <3>6. counter' = Cardinality(Through')
      <4>1. Cardinality(Through) \in Nat /\ Cardinality(Through) <= Cardinality(Through)
        BY <3>4
      <4> QED
        BY <3>1, <3>3, <3>4, <3>5, <4>1, Counting
    <3>7. Turn(c)'
      BY <3>1, <3>2, <3>6 DEF Turn
    <3> QED
      BY <1>c, <3>2, <3>7, LiveList
  <2>8. CASE Leave(c)
    <3>0. ~Stores(c) /\ UNCHANGED <<reg, depth, counter, overlap>>
      BY <1>0, <2>8 DEF Leave, Stores, Goes, GoTo, critical
    <3>1. CASE pc[c] = "last"
      <4>1. owner' = owner /\ pc' = [pc EXCEPT ![c] = IF depth = 0 THEN "owner reset" ELSE "recv"]
        BY <2>8, <3>1 DEF Leave, Goes, GoTo, critical
      <4>2. Turn(c) /\ \A d \in Core \ {c} : pc[d] \notin Inside /\ pc'[d] = pc[d]
        BY <2>4, <3>0, <3>1, <4>1, LiveList
      <4>3. depth = 0
        BY <3>1, <4>2 DEF Turn
      <4>4. pc'[c] = "owner reset"
        BY <1>0, <4>1, <4>3
      <4>5. Turn(c)'
        BY <2>0, <3>0, <3>1, <4>1, <4>2, <4>4 DEF Turn
      <4> QED
        BY <1>c, <4>2, <4>4, <4>5, LiveList
    <3>2. CASE pc[c] # "last"
      <4>1. pc[c] = "owner reset" /\ owner' = NoOwner /\ pc' = [pc EXCEPT ![c] = "recv"]
        BY <2>8, <3>2 DEF Leave, Goes, GoTo
      <4>2. Turn(c) /\ pc'[c] = "recv" /\ \A d \in Core \ {c} : pc[d] \notin Inside /\ pc'[d] = pc[d]
        BY <2>4, <3>0, <4>1, LiveList
      <4>3. depth = 0 /\ counter = Cardinality(Through)
        BY <4>1, <4>2 DEF Turn
      <4> QED
        <5>1. pc'[c] \notin Inside
          BY <4>2, LiveList
        <5> QED
          BY <1>d, <2>0, <3>0, <4>1, <4>2, <4>3, <5>1
    <3> QED
      BY <3>1, <3>2
  <2> QED
    BY <1>1, <2>1, <2>2, <2>3, <2>5, <2>6, <2>7, <2>8 DEF Step, Uart
<1>2. CASE Type \/ Transmit \/ UNCHANGED vars
  <2>1. UNCHANGED <<pc, reg, kernel, counter, owner, depth, overlap>>
    BY <1>2 DEF Type, Transmit, vars, cores, critical
  <2>2. Through' = Through
    BY <2>1 DEF Through, Done, Echoing
  <2> QED
    BY <1>b, <2>1, <2>2
<1> QED
  BY <1>1, <1>2 DEF Next, Spin

(***************************************************************************)
(* What a core that runs alone sends.                                      *)
(***************************************************************************)
LEMMA Empty == ASSUME NEW S, NEW s \in Seq(S) PROVE s \o <<>> = s /\ <<>> \o s = s
OBVIOUS

\* The empty text is a text.
LEMMA Nothing == ASSUME NEW S PROVE <<>> \in Seq(S)
OBVIOUS

\* It does not matter which of three texts are put together first.
LEMMA Along == ASSUME NEW S, NEW s \in Seq(S), NEW t \in Seq(S), NEW u \in Seq(S)
               PROVE  (s \o t) \o u = s \o (t \o u)
OBVIOUS

\* The first of the second goes to the end of the first.
LEMMA Over == ASSUME NEW S, NEW s \in Seq(S), NEW t \in Seq(S), t # <<>>
              PROVE  Append(s, Head(t)) \o Tail(t) = s \o t
OBVIOUS

\* An element goes to the end of the whole, by way of its last part.
LEMMA Pushing == ASSUME NEW S, NEW s \in Seq(S), NEW t \in Seq(S), NEW e \in S
                 PROVE  s \o Append(t, e) = Append(s \o t, e)
OBVIOUS

\* A text of one element at the end is that element at the end.
LEMMA One == ASSUME NEW S, NEW s \in Seq(S), NEW e \in S PROVE s \o <<e>> = Append(s, e)
OBVIOUS

\* A length is a number.
LEMMA Size == ASSUME NEW S, NEW s \in Seq(S) PROVE Len(s) \in Nat
OBVIOUS

\* Arithmetic of what has been typed, t, and what of it is still waiting, l.
LEMMA Numbers ==
    ASSUME NEW t \in Nat, NEW l \in Nat, l <= t
    PROVE  /\ t - l \in Nat /\ t - l <= t /\ 0 <= t - l /\ (t + 1) - (l + 1) = t - l /\ l + 1 <= t + 1
           /\ l > 0 => /\ t - l < t /\ (t - l) + 1 \in Nat /\ t - (l - 1) = (t - l) + 1
                       /\ l - 1 <= t
OBVIOUS

\* The length of a text with one element more or less.
LEMMA Lengths ==
    ASSUME NEW S, NEW s \in Seq(S)
    PROVE  /\ Len(s) \in Nat /\ (Len(s) = 0 <=> s = <<>>)
           /\ s # <<>> => Len(Tail(s)) = Len(s) - 1
           /\ \A e \in S : Len(Append(s, e)) = Len(s) + 1
OBVIOUS

\* A function on 1 .. k is a sequence of length k.
LEMMA Made ==
    ASSUME NEW S, NEW k \in Nat, NEW s \in [1 .. k -> S] PROVE s \in Seq(S) /\ Len(s) = k
OBVIOUS

\* Sequences of the same length with the same elements are the same.
LEMMA Alike ==
    ASSUME NEW S, NEW s \in Seq(S), NEW t \in Seq(S), Len(s) = Len(t),
           \A i \in 1 .. Len(s) : s[i] = t[i]
    PROVE  s = t
OBVIOUS

\* Head and Tail, element by element.
LEMMA Rest ==
    ASSUME NEW S, NEW s \in Seq(S), s # <<>>
    PROVE  /\ Head(s) = s[1] /\ Tail(s) \in Seq(S) /\ Len(Tail(s)) = Len(s) - 1
           /\ \A i \in 1 .. Len(s) - 1 : Tail(s)[i] = s[i + 1]
OBVIOUS

\* The keys from m to n are a text of n - m characters.
LEMMA KeysType ==
    ASSUME NEW m \in Nat, NEW n \in Nat, m <= n
    PROVE  Keys(m, n) \in Seq(Character) /\ Len(Keys(m, n)) = n - m
<1>0. \A k \in Nat : <<"typed", k>> \in Character
  BY DEF Character
<1>1. \A i \in 1 .. n - m : <<"typed", m + i>> \in Character
  BY <1>0
<1>2. n - m \in Nat /\ Keys(m, n) \in [1 .. n - m -> Character]
  BY <1>1 DEF Keys
<1> QED
  BY <1>2, Made

\* No keys have been typed from m to m.
LEMMA KeysNone == ASSUME NEW m \in Nat PROVE Keys(m, m) = <<>>
<1>1. Keys(m, m) \in Seq(Character) /\ Len(Keys(m, m)) = 0
  BY KeysType
<1> QED
  BY ONLY <1>1, Lengths

\* The next key goes to the end of the keys.
LEMMA KeysMore ==
    ASSUME NEW m \in Nat, NEW n \in Nat, m <= n
    PROVE  Append(Keys(m, n), <<"typed", n + 1>>) = Keys(m, n + 1)
BY DEF Keys

\* The first of the keys is the one after m; the rest are the keys after that.
LEMMA KeysFirst ==
    ASSUME NEW m \in Nat, NEW n \in Nat, m < n
    PROVE  Head(Keys(m, n)) = <<"typed", m + 1>> /\ Tail(Keys(m, n)) = Keys(m + 1, n)
<1>0. m <= n /\ m + 1 \in Nat /\ m + 1 <= n /\ n - m > 0
  OBVIOUS
<1>1. /\ Keys(m, n) \in Seq(Character) /\ Len(Keys(m, n)) = n - m
      /\ Keys(m + 1, n) \in Seq(Character) /\ Len(Keys(m + 1, n)) = n - (m + 1)
  BY <1>0, KeysType
<1>2. Keys(m, n) # <<>>
  BY <1>0, <1>1, Lengths
<1>3. /\ Head(Keys(m, n)) = Keys(m, n)[1] /\ Tail(Keys(m, n)) \in Seq(Character)
      /\ Len(Tail(Keys(m, n))) = n - m - 1
      /\ \A i \in 1 .. n - m - 1 : Tail(Keys(m, n))[i] = Keys(m, n)[i + 1]
  BY <1>1, <1>2, Rest
<1>4. \A i \in 1 .. n - m : Keys(m, n)[i] = <<"typed", m + i>>
  BY DEF Keys
<1>5. \A i \in 1 .. n - m - 1 : Keys(m + 1, n)[i] = <<"typed", m + 1 + i>>
  BY DEF Keys
<1>6. \A i \in 1 .. n - m - 1 : Tail(Keys(m, n))[i] = Keys(m + 1, n)[i]
  <2>1. ASSUME NEW i \in 1 .. n - m - 1
        PROVE  i + 1 \in 1 .. n - m /\ m + (i + 1) = m + 1 + i
    OBVIOUS
  <2> QED
    BY <1>3, <1>4, <1>5, <2>1
<1>7. Len(Tail(Keys(m, n))) = Len(Keys(m + 1, n)) /\ Len(Tail(Keys(m, n))) = n - m - 1
  BY <1>1, <1>3
<1>8. Tail(Keys(m, n)) = Keys(m + 1, n)
  BY <1>1, <1>3, <1>6, <1>7, Alike
<1>9. Keys(m, n)[1] = <<"typed", m + 1>>
  BY <1>0, <1>4
<1> QED
  BY <1>3, <1>8, <1>9

\* The keys up to m and those from m to n are the keys up to n.
LEMMA KeysJoin ==
    ASSUME NEW m \in Nat, NEW n \in Nat, m <= n PROVE Keys(0, m) \o Keys(m, n) = Keys(0, n)
BY DEF Keys

\* What has been printed, by the lines.
Hailed(c) == pc[c] \notin {"uart_init", "enable", "hello"}
Said(c) == pc[c] \in Inside \ {"owner", "depth++", "depth++ store", "work"} \/ Done(c)
Parted(c) == pc[c] \in Inside \ {"owner", "depth++", "depth++ store", "work", "goodbye"} \/ Done(c)

Three(c, h, s, p) ==
    (IF h THEN Line("Hello world", c) ELSE <<>>)
    \o (IF s THEN Line("hello", 0) ELSE <<>>)
    \o (IF p THEN Line("goodbye", 0) ELSE <<>>)

\* The three lines are a text, and each goes behind those before it.
LEMMA ThreeLines ==
    ASSUME NEW c \in Core
    PROVE  /\ \A h, s, p \in BOOLEAN : Three(c, h, s, p) \in Seq(Character)
           /\ Three(c, FALSE, FALSE, FALSE) = <<>>
           /\ Three(c, TRUE, FALSE, FALSE) = <<>> \o Line("Hello world", c)
           /\ Three(c, TRUE, TRUE, FALSE) = Three(c, TRUE, FALSE, FALSE) \o Line("hello", 0)
           /\ Three(c, TRUE, TRUE, TRUE) = Three(c, TRUE, TRUE, FALSE) \o Line("goodbye", 0)
<1>1. c \in Nat /\ 0 \in Nat
  BY KernelFacts
<1>2. /\ Line("Hello world", c) \in Seq(Character) /\ Line("hello", 0) \in Seq(Character)
      /\ Line("goodbye", 0) \in Seq(Character) /\ <<>> \in Seq(Character)
  BY <1>1, Lines, Nothing
<1>3. ASSUME NEW h \in BOOLEAN, NEW s \in BOOLEAN, NEW p \in BOOLEAN
      PROVE  Three(c, h, s, p) \in Seq(Character)
  <2>1. /\ (IF h THEN Line("Hello world", c) ELSE <<>>) \in Seq(Character)
        /\ (IF s THEN Line("hello", 0) ELSE <<>>) \in Seq(Character)
        /\ (IF p THEN Line("goodbye", 0) ELSE <<>>) \in Seq(Character)
    BY <1>2
  <2> QED
    BY <2>1, Joined DEF Three
<1>4. \A s \in Seq(Character) : s \o <<>> = s /\ <<>> \o s = s
  BY Empty
<1>5. Three(c, FALSE, FALSE, FALSE) = <<>>
  BY <1>2, <1>4 DEF Three
<1>6. Three(c, TRUE, FALSE, FALSE) = <<>> \o Line("Hello world", c)
  BY <1>2, <1>4 DEF Three
<1>7. Three(c, TRUE, TRUE, FALSE) = Line("Hello world", c) \o Line("hello", 0)
  <2>1. Line("Hello world", c) \o Line("hello", 0) \in Seq(Character)
    BY <1>2, Joined
  <2> QED
    BY <1>4, <2>1 DEF Three
<1>8. Three(c, TRUE, TRUE, TRUE) = Three(c, TRUE, TRUE, FALSE) \o Line("goodbye", 0)
  BY <1>7 DEF Three
<1> QED
  BY <1>2, <1>3, <1>4, <1>5, <1>6, <1>7, <1>8

\* What a core has printed is the lines it has come past.
LEMMA Prints ==
    ASSUME NEW c \in Core
    PROVE  /\ ~Hailed(c) /\ ~Said(c) /\ ~Parted(c) => Printed(c) = Three(c, FALSE, FALSE, FALSE)
           /\ Hailed(c) /\ ~Said(c) /\ ~Parted(c) => Printed(c) = Three(c, TRUE, FALSE, FALSE)
           /\ Hailed(c) /\ Said(c) /\ ~Parted(c) => Printed(c) = Three(c, TRUE, TRUE, FALSE)
           /\ Hailed(c) /\ Said(c) /\ Parted(c) => Printed(c) = Three(c, TRUE, TRUE, TRUE)
BY DEF Printed, Three, Hailed, Said, Parted

\* The same of the next state.
LEMMA PrintsNext ==
    ASSUME NEW c \in Core
    PROVE  /\ ~Hailed(c)' /\ ~Said(c)' /\ ~Parted(c)' => Printed(c)' = Three(c, FALSE, FALSE, FALSE)
           /\ Hailed(c)' /\ ~Said(c)' /\ ~Parted(c)' => Printed(c)' = Three(c, TRUE, FALSE, FALSE)
           /\ Hailed(c)' /\ Said(c)' /\ ~Parted(c)' => Printed(c)' = Three(c, TRUE, TRUE, FALSE)
           /\ Hailed(c)' /\ Said(c)' /\ Parted(c)' => Printed(c)' = Three(c, TRUE, TRUE, TRUE)
BY DEF Printed, Three, Hailed, Said, Parted, Inside, Done, Echoing

\* A step past no line leaves what is printed as it was.
LEMMA PrintsSame ==
    ASSUME NEW c \in Core, Hailed(c)' <=> Hailed(c), Said(c)' <=> Said(c), Parted(c)' <=> Parted(c)
    PROVE  Printed(c)' = Printed(c)
BY DEF Printed, Hailed, Said, Parted

\* What a core has printed is a text.
LEMMA PrintsText == ASSUME NEW c \in Core PROVE Printed(c) \in Seq(Character)
<1>1. c \in Nat /\ 0 \in Nat
  BY KernelFacts
<1>2. /\ Line("Hello world", c) \in Seq(Character) /\ Line("hello", 0) \in Seq(Character)
      /\ Line("goodbye", 0) \in Seq(Character) /\ <<>> \in Seq(Character)
  BY <1>1, Lines, Nothing
<1>3. ASSUME NEW s \in Seq(Character), NEW t \in Seq(Character), NEW u \in Seq(Character)
      PROVE  s \o t \o u \in Seq(Character)
  BY Joined
<1> QED
  BY <1>2, <1>3 DEF Printed

\* A step with which nothing is sent, printed or read.
LEMMA SameEcho ==
    ASSUME NEW c \in Core, Echo(c), UNCHANGED <<rx, tx, wire, typed>>, out'[c] = out[c],
           room'[c] => Len(tx) < FIFO, Printed(c)' = Printed(c),
           pc'[c] = "read" => rx # <<>>, pc'[c] \notin Echoing => pc[c] \notin Echoing
    PROVE  Echo(c)'
BY DEF Echo, Keys, Echoing

\* A step that prints a line.
LEMMA LineEcho ==
    ASSUME TypeOK, NEW c \in Core, Echo(c), UNCHANGED <<rx, tx, wire, typed, room>>,
           out[c] = <<>>, pc[c] \notin Echoing, pc'[c] # "read",
           Printed(c) \in Seq(Character), out'[c] \in Seq(Character), Printed(c)' = Printed(c) \o out'[c]
    PROVE  Echo(c)'
<1>0. typed \in Nat /\ rx \in Seq(Character) /\ wire \in Seq(Character) /\ tx \in Seq(Character)
  BY DEF TypeOK
<1>1. Len(rx) = typed /\ rx = Keys(typed - Len(rx), typed)
      /\ wire \o tx \o out[c] = Printed(c) \o Keys(0, typed - Len(rx))
      /\ (room[c] => Len(tx) < FIFO) /\ Len(rx) <= typed
  BY DEF Echo
<1>2. typed - Len(rx) = 0 /\ Keys(0, 0) = <<>>
  BY <1>0, <1>1, KeysNone
<1>3. wire \o tx \in Seq(Character)
  BY <1>0, Joined
<1>4. wire \o tx = Printed(c)
  <2>1. wire \o tx \o <<>> = wire \o tx /\ Printed(c) \o <<>> = Printed(c)
    BY <1>3, Empty
  <2> QED
    BY <1>1, <1>2, <2>1
<1>5. Printed(c)' \in Seq(Character)
  BY Joined
<1>6. Printed(c)' \o <<>> = Printed(c)'
  BY <1>5, Empty
<1>7. (wire \o tx \o out[c])' = Printed(c)' \o Keys(0, 0)
  BY <1>2, <1>4, <1>6
<1> QED
  BY <1>1, <1>2, <1>7 DEF Echo, Keys

\* A core that runs alone and has not counted yet finds nothing counted.
LEMMA NobodyThrough ==
    ASSUME TypeOK, CountWithin, NEW c \in Core, Alone(c), pc[c] \in {"work", "goodbye"} PROVE counter = 0
<1>1. Through = {}
  BY ThroughList DEF Alone
<1>2. Cardinality(Through) = 0
  BY <1>1, FS_EmptySet
<1>3. counter \in 0 .. Word - 1 /\ counter <= Cardinality(Through)
  BY DEF TypeOK, CountWithin
<1> QED
  BY <1>2, <1>3, KernelFacts

\* No step lets a core that is alone lose, double or reorder a character.
LEMMA EchoStep == TypeOK /\ Untouched /\ CountWithin /\ EchoInv /\ [Next]_vars => EchoInv'
<1> SUFFICES ASSUME TypeOK, Untouched, CountWithin, EchoInv, [Next]_vars,
                    NEW c \in Core, c \in Started', Alone(c)'
             PROVE  Echo(c)'
  BY DEF EchoInv, Started
<1>0. /\ pc \in [Core -> {"off", "uart_init", "enable", "hello", "critical"} \cup Inside \cup Echoing]
      /\ out \in [Core -> Seq(Character)] /\ room \in [Core -> BOOLEAN]
      /\ typed \in Nat /\ rx \in Seq(Character) /\ tx \in Seq(Character) /\ wire \in Seq(Character)
  BY DEF TypeOK
<1>f. Len(rx) \in Nat
  BY <1>0, Size
<1>a. ASSUME c \in Started, Alone(c) PROVE Echo(c)
  BY <1>a DEF EchoInv
<1>b. \A place \in Live : place \notin {"off", "uart_init"}
  BY LiveList
<1>c. Printed(c) \in Seq(Character)
  BY PrintsText
<1>d. ASSUME pc' = pc PROVE c \in Started /\ Alone(c)
  BY <1>d DEF Started, Alone
<1>e. ASSUME pc' = pc, kernel' = kernel PROVE Printed(c)' = Printed(c)
  BY <1>e DEF Printed, Done, Echoing, Inside
<1>1. ASSUME NEW d \in Core \ {c}, Step(d) PROVE FALSE
  <2>1. CASE UartInit(d)
    <3>1. pc'[d] \in {"enable", "hello"}
      BY <1>0, <2>1 DEF UartInit, Goes, GoTo
    <3> QED
      BY <3>1 DEF Alone
  <2>2. CASE ~UartInit(d)
    <3>1. d \in Started /\ (pc' = pc \/ (pc[d] \in Live /\ \E to \in Live : pc' = [pc EXCEPT ![d] = to]))
      BY <1>1, <2>2, Onward
    <3>2. pc'[d] \notin {"off", "uart_init"}
      BY <1>0, <1>b, <3>1 DEF Started
    <3> QED
      BY <3>2 DEF Alone
  <2> QED
    BY <2>1, <2>2
<1>2. CASE UartInit(c)
  <2>1. CASE pc[c] = "uart_init"
    <3>1. /\ pc' = [pc EXCEPT ![c] = "enable"] /\ UNCHANGED <<kernel, out, room, rx, tx, typed, wire>>
          /\ out[c] = <<>>
      BY <1>2, <2>1 DEF UartInit, Goes, GoTo, sending
    <3>2. Started = {}
      BY <1>0, <2>1, <3>1 DEF Alone, Started
    <3>3. wire = <<>> /\ tx = <<>> /\ rx = <<>> /\ typed = 0 /\ ~room[c]
      BY <3>1, <3>2 DEF Untouched
    <3>4. ~Hailed(c)' /\ ~Said(c)' /\ ~Parted(c)'
      BY <1>0, <3>1, LiveList DEF Hailed, Said, Parted, Done
    <3>5. Printed(c)' = <<>>
      BY <3>4, Prints, PrintsNext, ThreeLines
    <3>6. <<>> \o <<>> = <<>> /\ Len(<<>>) = 0 /\ Keys(0, 0) = <<>>
      <4>1. Keys(0, 0) = <<>>
        BY KeysNone
      <4> QED
        BY <4>1, Nothing, Empty
    <3>7. typed' - Len(rx') = 0 /\ Len(rx') = 0 /\ 0 <= 0 /\ typed' = 0
      <4>1. typed' = 0 /\ Len(rx') = 0 /\ 0 - 0 = 0 /\ 0 <= 0
        BY <3>1, <3>3, <3>6
      <4> QED
        BY <4>1
    <3>8. (wire \o tx \o out[c])' = Printed(c)' \o Keys(0, 0)
      BY <3>1, <3>3, <3>5, <3>6
    <3>9. ~room'[c] /\ pc'[c] # "read" /\ rx' = Keys(0, 0)
      BY <1>0, <3>1, <3>3, <3>6
    <3> QED
      BY <3>7, <3>8, <3>9 DEF Echo, Keys
  <2>2. CASE pc[c] # "uart_init"
    <3>1. /\ pc[c] = "enable" /\ pc' = [pc EXCEPT ![c] = "hello"]
          /\ UNCHANGED <<kernel, out, room, rx, tx, typed, wire>>
      BY <1>2, <2>2 DEF UartInit, Goes, GoTo, sending
    <3>2. c \in Started /\ Alone(c)
      BY <1>0, <3>1 DEF Started, Alone
    <3>3. /\ ~Hailed(c) /\ ~Said(c) /\ ~Parted(c)
          /\ ~Hailed(c)' /\ ~Said(c)' /\ ~Parted(c)'
      BY <1>0, <3>1, LiveList DEF Hailed, Said, Parted, Done
    <3>4. Printed(c)' = Printed(c)
      BY <3>3, PrintsSame
    <3>5. pc'[c] = "hello" /\ pc[c] \notin Echoing
      BY <1>0, <3>1, LiveList
    <3>6. Echo(c)
      BY <1>a, <3>2
    <3>7. room[c] => Len(tx) < FIFO
      BY <3>6 DEF Echo
    <3> QED
      BY <3>1, <3>4, <3>5, <3>6, <3>7, SameEcho
  <2> QED
    BY <2>1, <2>2
<1>3. ASSUME Step(c), ~UartInit(c) PROVE Echo(c)'
  <2>a. /\ kernel' = kernel /\ typed' = typed /\ wire' = wire /\ c \in Started
        /\ pc' = pc \/ (pc[c] \in Live /\ \E to \in Live : pc' = [pc EXCEPT ![c] = to])
    BY <1>3, Onward
  <2>b. \A d \in Core \ {c} : pc'[d] = pc[d]
    BY <1>0, <2>a
  <2>c. Alone(c)
    BY <2>b DEF Alone
  <2>d. Echo(c)
    BY <1>a, <2>a, <2>c
  <2>e. /\ room[c] => Len(tx) < FIFO
        /\ pc[c] = "read" => rx # <<>>
        /\ pc[c] \notin Echoing => Len(rx) = typed
        /\ Len(rx) <= typed /\ rx = Keys(typed - Len(rx), typed)
        /\ wire \o tx \o out[c] = Printed(c) \o Keys(0, typed - Len(rx))
    BY <2>d DEF Echo
  <2>f. out[c] \in Seq(Character) /\ wire \o tx \in Seq(Character)
    BY <1>0, Joined
  <2>1. CASE SendWait(c)
    <3>1. UNCHANGED <<pc, kernel, rx, tx, wire, typed, out>> /\ Len(tx) < FIFO
      BY <2>1 DEF SendWait, cores, device
    <3>2. Printed(c)' = Printed(c)
      BY <1>e, <3>1
    <3> QED
      BY <2>d, <2>e, <3>1, <3>2, SameEcho
  <2>2. CASE SendStore(c)
    <3>1. /\ UNCHANGED <<pc, kernel, rx, wire, typed>> /\ room[c] /\ ~room'[c]
          /\ out'[c] = Tail(out[c])
          /\ tx' = IF Len(tx) < FIFO THEN Append(tx, Head(out[c])) ELSE tx
      BY <1>0, <2>2 DEF SendStore, cores
    <3>2. Printed(c)' = Printed(c)
      BY <1>e, <3>1
    <3>3. tx' = Append(tx, Head(out[c])) /\ out[c] # <<>>
      BY <2>e, <3>1 DEF Untouched
    <3>4. Head(out[c]) \in Character /\ Tail(out[c]) \in Seq(Character)
      BY <2>f, <3>3, Popped
    <3>5. wire \o Append(tx, Head(out[c])) = Append(wire \o tx, Head(out[c]))
      BY <1>0, <3>4, Pushing
    <3>6. Append(wire \o tx, Head(out[c])) \o Tail(out[c]) = wire \o tx \o out[c]
      BY <2>f, <3>3, Over
    <3>7. (wire \o tx \o out[c])' = wire \o tx \o out[c]
      BY <3>1, <3>3, <3>5, <3>6
    <3> QED
      BY <2>e, <3>1, <3>2, <3>7 DEF Echo, Keys, Echoing
  <2>3. CASE RecvWait(c)
    <3>1. /\ pc[c] = "recv" /\ pc' = [pc EXCEPT ![c] = "read"] /\ rx # <<>>
          /\ UNCHANGED <<kernel, rx, tx, wire, typed, out, room>>
      BY <2>3 DEF RecvWait, Goes, GoTo, sending, device
    <3>2. pc'[c] = "read"
      BY <1>0, <3>1
    <3>3. (Hailed(c)' <=> Hailed(c)) /\ (Said(c)' <=> Said(c)) /\ (Parted(c)' <=> Parted(c))
      BY <3>1, <3>2 DEF Hailed, Said, Parted, Done, Echoing, Inside
    <3>4. Printed(c)' = Printed(c)
      BY <3>3, PrintsSame
    <3>5. pc'[c] \in Echoing
      BY <3>2 DEF Echoing
    <3> QED
      BY <2>d, <2>e, <3>1, <3>2, <3>4, <3>5, SameEcho
  <2>4. CASE RecvLoad(c)
    <3>1. /\ pc[c] = "read" /\ pc' = [pc EXCEPT ![c] = "recv"] /\ out[c] = <<>>
          /\ UNCHANGED <<kernel, tx, wire, typed, room>>
      BY <2>4 DEF RecvLoad, Goes, GoTo
    <3>2. rx # <<>> /\ out'[c] = <<Head(rx)>> /\ rx' = Tail(rx)
      BY <1>0, <2>4, <2>e, <3>1 DEF RecvLoad
    <3>3. pc'[c] = "recv" /\ pc'[c] \in Echoing
      BY <1>0, <3>1 DEF Echoing
    <3>4. (Hailed(c)' <=> Hailed(c)) /\ (Said(c)' <=> Said(c)) /\ (Parted(c)' <=> Parted(c))
      BY <3>1, <3>3 DEF Hailed, Said, Parted, Done, Echoing, Inside
    <3>5. Printed(c)' = Printed(c)
      BY <3>4, PrintsSame
    <3>6. PICK k \in Nat : k = typed - Len(rx)
      BY <1>0, <1>f, <2>e, Numbers
    <3>7. Len(rx) > 0 /\ Len(Tail(rx)) = Len(rx) - 1
      <4>1. Len(rx) # 0 /\ Len(Tail(rx)) = Len(rx) - 1
        BY <1>0, <3>2, Lengths
      <4> QED
        BY <1>f, <4>1
    <3>8. /\ k < typed /\ k <= typed /\ k + 1 \in Nat /\ typed - Len(Tail(rx)) = k + 1
          /\ Len(Tail(rx)) <= typed /\ 0 <= k
      <4>1. /\ typed - Len(rx) < typed /\ typed - Len(rx) <= typed /\ (typed - Len(rx)) + 1 \in Nat
            /\ typed - (Len(rx) - 1) = (typed - Len(rx)) + 1 /\ Len(rx) - 1 <= typed
        BY <1>0, <1>f, <2>e, <3>7, Numbers
      <4> QED
        BY <3>6, <3>7, <4>1
    <3>9. Head(rx) = <<"typed", k + 1>> /\ Tail(rx) = Keys(k + 1, typed)
      BY <1>0, <2>e, <3>6, <3>8, KeysFirst
    <3>10. Head(rx) \in Character
      BY <1>0, <3>2, Popped
    <3>11. Keys(0, k) \in Seq(Character) /\ Append(Keys(0, k), Head(rx)) = Keys(0, k + 1)
      BY <3>8, <3>9, KeysType, KeysMore
    <3>12. wire \o tx = Printed(c) \o Keys(0, k)
      <4>1. wire \o tx \o <<>> = wire \o tx
        BY <2>f, Empty
      <4> QED
        BY <2>e, <3>1, <3>6, <4>1
    <3>13. wire \o tx \o <<Head(rx)>> = Append(wire \o tx, Head(rx))
      BY <2>f, <3>10, One
    <3>14. Printed(c) \o Append(Keys(0, k), Head(rx)) = Append(Printed(c) \o Keys(0, k), Head(rx))
      BY <1>c, <3>10, <3>11, Pushing
    <3>15. (wire \o tx \o out[c])' = Printed(c)' \o Keys(0, k + 1)
      BY <3>1, <3>2, <3>5, <3>11, <3>12, <3>13, <3>14
    <3>16. typed' - Len(rx') = k + 1 /\ rx' = Keys(k + 1, typed') /\ Len(rx') <= typed'
      BY <3>1, <3>2, <3>8, <3>9
    <3> QED
      BY <2>e, <3>1, <3>3, <3>15, <3>16 DEF Echo, Keys
  <2>5. CASE Hello(c)
    <3>1. /\ pc[c] = "hello" /\ out[c] = <<>> /\ UNCHANGED <<kernel, rx, tx, wire, typed, room>>
          /\ pc' = [pc EXCEPT ![c] = IF kernel.kernelMain THEN "critical" ELSE "recv"]
          /\ out' = [out EXCEPT ![c] = Line("Hello world", c)]
      BY <2>5 DEF Hello, Goes, GoTo, Puts, device
    <3>2. /\ \/ kernel.kernelMain /\ pc'[c] = "critical"
             \/ ~kernel.kernelMain /\ pc'[c] = "recv"
          /\ out'[c] = Line("Hello world", c)
      <4>1. CASE kernel.kernelMain
        BY <1>0, <3>1, <4>1
      <4>2. CASE ~kernel.kernelMain
        BY <1>0, <3>1, <4>2
      <4> QED
        BY <4>1, <4>2
    <3>3. /\ ~Hailed(c) /\ ~Said(c) /\ ~Parted(c)
          /\ Hailed(c)' /\ ~Said(c)' /\ ~Parted(c)'
      <4>1. /\ pc[c] \notin Inside /\ pc'[c] \notin Inside' /\ pc[c] \notin Echoing
            /\ pc'[c] \in Echoing' => ~kernel.kernelMain
        BY <3>1, <3>2 DEF Inside, Echoing
      <4> QED
        BY <3>1, <3>2, <4>1 DEF Hailed, Said, Parted, Done
    <3>4. Printed(c)' = Printed(c) \o out'[c]
      BY <3>2, <3>3, Prints, PrintsNext, ThreeLines
    <3>5. out'[c] \in Seq(Character)
      BY <3>2, KernelFacts, Lines
    <3>6. pc[c] \notin Echoing /\ pc'[c] # "read"
      BY <3>1, <3>2 DEF Echoing
    <3> QED
      BY <1>c, <2>d, <3>1, <3>4, <3>5, <3>6, LineEcho
  <2>6. CASE Enter(c) \/ Nest(c) \/ Leave(c)
    <3>1. /\ pc[c] \in Inside \cup {"critical"} /\ kernel.kernelMain
          /\ UNCHANGED <<kernel, rx, tx, wire, typed, out, room>>
      <4>1. pc[c] \in {"critical", "owner", "depth++", "depth--", "depth++ store", "depth-- store",
                       "last", "owner reset"}
        BY <2>6 DEF Enter, Nest, Leave, Goes, Loads, GoTo
      <4> QED
        BY <2>6, <4>1, LiveList DEF Enter, Nest, Leave, sending, device, Untouched
    <3>2. (Hailed(c)' <=> Hailed(c)) /\ (Said(c)' <=> Said(c)) /\ (Parted(c)' <=> Parted(c)) /\ pc'[c] # "read"
      <4> USE <1>0, LiveList DEF Goes, Loads, GoTo, Hailed, Said, Parted, Done
      <4>1. CASE Enter(c)
        BY <4>1, <3>1 DEF Enter
      <4>2. CASE Nest(c)
        BY <4>2, <3>1 DEF Nest
      <4>3. CASE Leave(c)
        BY <4>3, <3>1 DEF Leave
      <4> QED
        BY <2>6, <4>1, <4>2, <4>3
    <3>3. Printed(c)' = Printed(c)
      BY <3>2, PrintsSame
    <3>4. pc[c] \notin Echoing
      BY <3>1, LiveList
    <3> QED
      BY <2>d, <2>e, <3>1, <3>2, <3>3, <3>4, SameEcho
  <2>7. CASE Work(c)
    <3>0. UNCHANGED <<kernel, rx, tx, wire, typed, room>> /\ out[c] = <<>>
      BY <2>7 DEF Work, Goes, Loads, GoTo, sending, device
    <3>1. CASE pc[c] = "work"
      <4>1. /\ pc' = [pc EXCEPT ![c] = "goodbye"] /\ out' = [out EXCEPT ![c] = Line("hello", counter)]
        BY <2>7, <3>1 DEF Work, Goes, Loads, GoTo, Puts
      <4>2. pc'[c] = "goodbye" /\ out'[c] = Line("hello", 0)
        <5>1. counter = 0
          BY <2>c, <3>1, NobodyThrough
        <5> QED
          BY <1>0, <4>1, <5>1
      <4>3. /\ Hailed(c) /\ ~Said(c) /\ ~Parted(c)
            /\ Hailed(c)' /\ Said(c)' /\ ~Parted(c)'
        BY <3>1, <4>2, LiveList DEF Hailed, Said, Parted, Done
      <4>4. Printed(c)' = Printed(c) \o out'[c]
        BY <4>2, <4>3, Prints, PrintsNext, ThreeLines
      <4>5. out'[c] \in Seq(Character)
        BY <4>2, KernelFacts, Lines
      <4>6. pc[c] \notin Echoing /\ pc'[c] # "read"
        BY <3>1, <4>2, LiveList
      <4> QED
        BY <1>c, <2>d, <3>0, <4>4, <4>5, <4>6, LineEcho
    <3>2. CASE pc[c] = "goodbye"
      <4>1. /\ pc' = [pc EXCEPT ![c] = "count"] /\ out' = [out EXCEPT ![c] = Line("goodbye", counter)]
        BY <2>7, <3>2 DEF Work, Goes, Loads, GoTo, Puts
      <4>2. pc'[c] = "count" /\ out'[c] = Line("goodbye", 0)
        <5>1. counter = 0
          BY <2>c, <3>2, NobodyThrough
        <5> QED
          BY <1>0, <4>1, <5>1
      <4>3. /\ Hailed(c) /\ Said(c) /\ ~Parted(c)
            /\ Hailed(c)' /\ Said(c)' /\ Parted(c)'
        BY <3>2, <4>2, LiveList DEF Hailed, Said, Parted, Done
      <4>4. Printed(c)' = Printed(c) \o out'[c]
        BY <4>2, <4>3, Prints, PrintsNext, ThreeLines
      <4>5. out'[c] \in Seq(Character)
        BY <4>2, KernelFacts, Lines
      <4>6. pc[c] \notin Echoing /\ pc'[c] # "read"
        BY <3>2, <4>2, LiveList
      <4> QED
        BY <1>c, <2>d, <3>0, <4>4, <4>5, <4>6, LineEcho
    <3>3. CASE pc[c] \notin {"work", "goodbye"}
      <4>1. /\ pc[c] \in {"count", "count store"} /\ out' = out
            /\ \E to \in {"count store", "depth--"} : pc' = [pc EXCEPT ![c] = to]
        BY <2>7, <3>3 DEF Work, Goes, Loads, GoTo, sending
      <4>2. pc'[c] \in {"count store", "depth--"}
        BY <1>0, <4>1
      <4>3. /\ Hailed(c) /\ Said(c) /\ Parted(c)
            /\ Hailed(c)' /\ Said(c)' /\ Parted(c)'
        BY <4>1, <4>2, LiveList DEF Hailed, Said, Parted
      <4>4. Printed(c)' = Printed(c)
        BY <4>3, PrintsSame
      <4>5. pc[c] \notin Echoing /\ pc'[c] # "read"
        BY <4>1, <4>2, LiveList
      <4> QED
        BY <2>d, <2>e, <3>0, <4>1, <4>4, <4>5, SameEcho
    <3> QED
      BY <3>1, <3>2, <3>3
  <2> QED
    BY <1>3, <2>1, <2>2, <2>3, <2>4, <2>5, <2>6, <2>7 DEF Step, Uart
<1>4. CASE Type
  <2>1. /\ UNCHANGED <<kernel, pc, out, room, tx, wire>>
        /\ typed' = typed + 1 /\ rx' = Append(rx, <<"typed", typed + 1>>)
    BY <1>4 DEF Type, cores, sending
  <2>2. Echo(c) /\ Printed(c)' = Printed(c)
    BY <1>a, <1>d, <1>e, <2>1
  <2>3. /\ Len(rx) <= typed /\ rx = Keys(typed - Len(rx), typed)
    BY <2>2 DEF Echo
  <2>4. PICK k \in Nat : k = typed - Len(rx)
    BY <1>0, <1>f, <2>3, Numbers
  <2>5. <<"typed", typed + 1>> \in Character
    <3>1. \A n \in Nat : <<"typed", n>> \in Character
      BY DEF Character
    <3> QED
      BY <1>0, <3>1
  <2>6. Len(rx) \in Nat /\ Len(rx') = Len(rx) + 1
    BY <1>0, <2>1, <2>5, Lengths
  <2>7. k <= typed /\ typed' - Len(rx') = k /\ Len(rx') <= typed'
    BY <1>0, <2>1, <2>3, <2>4, <2>6
  <2>8. rx' = Keys(k, typed')
    BY <1>0, <2>1, <2>3, <2>4, <2>7, KeysMore
  <2>9. /\ room[c] => Len(tx) < FIFO
        /\ pc[c] \notin Echoing => Len(rx) = typed
        /\ wire \o tx \o out[c] = Printed(c) \o Keys(0, k)
    BY <2>2, <2>4 DEF Echo
  <2>10. rx' # <<>>
    <3>1. rx' \in Seq(Character) /\ Len(rx') # 0
      BY <1>0, <2>1, <2>5, <2>6, Pushed
    <3> QED
      BY <3>1, Lengths
  <2>11. pc[c] \notin Echoing => Len(rx') = typed'
    BY <2>1, <2>6, <2>9
  <2>12. (wire \o tx \o out[c])' = Printed(c)' \o Keys(0, k)
    BY <2>1, <2>2, <2>9
  <2> QED
    BY <2>1, <2>7, <2>8, <2>9, <2>10, <2>11, <2>12 DEF Echo, Keys, Echoing
<1>5. CASE Transmit
  <2>1. /\ UNCHANGED <<kernel, pc, out, room, rx, typed>> /\ tx # <<>> /\ tx' = Tail(tx)
        /\ wire' = IF \E d \in Core : Alone(d) THEN Append(wire, Head(tx)) ELSE <<>>
    BY <1>5 DEF Transmit, cores, sending
  <2>2. Echo(c) /\ Alone(c) /\ Printed(c)' = Printed(c)
    BY <1>a, <1>d, <1>e, <2>1
  <2>3. wire' = Append(wire, Head(tx))
    BY <2>1, <2>2
  <2>4. Append(wire, Head(tx)) \o Tail(tx) = wire \o tx
    BY <1>0, <2>1, Over
  <2>5. (wire \o tx \o out[c])' = wire \o tx \o out[c]
    BY <2>1, <2>3, <2>4
  <2>6. room'[c] => Len(tx') < FIFO
    <3>1. Len(tx) \in Nat /\ Len(tx') = Len(tx) - 1
      BY <1>0, <2>1, Lengths
    <3>2. room[c] => Len(tx) < FIFO
      BY <2>2 DEF Echo
    <3> QED
      BY <2>1, <3>1, <3>2, KernelFacts
  <2> QED
    BY <2>1, <2>2, <2>5, <2>6 DEF Echo, Keys, Echoing
<1>6. CASE UNCHANGED vars
  <2>1. UNCHANGED <<kernel, pc, out, room, rx, tx, wire, typed>>
    BY <1>6 DEF vars, cores, sending, device
  <2>2. Echo(c) /\ Printed(c)' = Printed(c)
    BY <1>a, <1>d, <1>e, <2>1
  <2>3. /\ room[c] => Len(tx) < FIFO
        /\ pc[c] = "read" => rx # <<>>
    BY <2>2 DEF Echo
  <2> QED
    BY <2>1, <2>2, <2>3, SameEcho
<1> QED
  BY <1>1, <1>2, <1>3, <1>4, <1>5, <1>6 DEF Next, Spin

(***************************************************************************)
(* The theorems.                                                           *)
(***************************************************************************)
LEMMA InitInv == Init => Inv
<1> SUFFICES ASSUME Init PROVE Inv
  OBVIOUS
<1>1. /\ kernel \in Kernels /\ kernel.cores \subseteq Core
      /\ pc = [c \in Core |-> IF c \in kernel.cores THEN "uart_init" ELSE "off"]
      /\ reg = [c \in Core |-> 0]
      /\ out = [c \in Core |-> <<>>] /\ room = [c \in Core |-> FALSE]
      /\ cntl = 0 /\ rx = <<>> /\ tx = <<>> /\ typed = 0 /\ wire = <<>>
      /\ owner = NoOwner /\ depth = 0 /\ counter = 0 /\ overlap = FALSE
  BY KernelsAssumption DEF Init
<1>2. /\ \A c \in Core : pc[c] \in {"uart_init", "off"}
      /\ \A c \in Core : pc[c] = "uart_init" <=> c \in kernel.cores
      /\ \A c \in Core : pc[c] = "off" <=> c \notin kernel.cores
  BY <1>1
<1>3. {"uart_init", "off"} \cap (Inside \cup Echoing \cup {"critical"}) = {}
  BY LiveList
<1>4. Through = {} /\ Started = {}
  <2>1. \A c \in Core : /\ pc[c] \notin {"depth--", "depth-- store", "last", "owner reset"}
                        /\ pc[c] \notin Echoing
    BY <1>2, <1>3
  <2> QED
    BY <1>2, <2>1 DEF Through, Started, Done
<1>5. Cardinality(Through) = 0
  BY <1>4, FS_EmptySet
<1>6. TypeOK
  <2>1. 0 \in 0 .. Word - 1
    BY KernelFacts
  <2>2. <<>> \in Seq(Character)
    BY Nothing
  <2>3. pc \in [Core -> {"off", "uart_init", "enable", "hello", "critical"} \cup Inside \cup Echoing]
    BY <1>1
  <2>4. /\ reg \in [Core -> 0 .. Word - 1]
        /\ out \in [Core -> Seq(Character)] /\ room \in [Core -> BOOLEAN]
    BY <1>1, <2>1, <2>2
  <2> QED
    BY <1>1, <2>1, <2>2, <2>3, <2>4 DEF TypeOK
<1>7. LeftOn
  BY <1>2 DEF LeftOn
<1>8. CountWithin
  BY <1>1, <1>2, <1>4, <1>5 DEF CountWithin
<1>9. Untouched
  BY <1>1, <1>2, <1>3, <1>4 DEF Untouched
<1>10. EchoInv
  BY <1>4 DEF EchoInv
<1>11. ByTurns
  <2>1. \A c \in Core : pc[c] \notin Inside
    BY <1>2, <1>3
  <2> QED
    BY <1>1, <1>5, <2>1 DEF ByTurns
<1> QED
  BY <1>6, <1>7, <1>8, <1>9, <1>10, <1>11 DEF Inv

\* Types hold, the device is left on, nobody counts what nobody has done, nothing goes
\* before the first uart_init(), a core alone is echoed and critical() is found as it
\* was left: in every state of every kernel, whatever the queues hold.
THEOREM Invariance == SafeSpec => []Inv
<1>1. Init => Inv
  BY InitInv
<1>2. Inv /\ [Next]_vars => Inv'
  BY TypesStep, LeftOnStep, CountStep, UntouchedStep, EchoStep, TurnStep DEF Inv
<1> QED
  BY <1>1, <1>2, PTL DEF SafeSpec

\* What one core sends by itself goes out as it was printed and typed: no wait of
\* uart_send() or uart_recv() loses, doubles or reorders a character.
THEOREM Echoed == SafeSpec => []EchoAlone
<1>1. Inv => EchoAlone
  <2> SUFFICES ASSUME Inv, NEW c \in kernel.cores, Alone(c), pc[c] # "uart_init"
               PROVE  wire \o tx \o out[c] \o rx = Printed(c) \o Keys(0, typed)
    BY DEF EchoAlone
  <2>0. /\ typed \in Nat /\ rx \in Seq(Character) /\ tx \in Seq(Character) /\ wire \in Seq(Character)
        /\ out \in [Core -> Seq(Character)] /\ kernel \in Kernels
    BY DEF Inv, TypeOK
  <2>1. c \in Core
    BY <2>0, KernelsAssumption
  <2>2. c \in Started
    BY <2>1 DEF Inv, Untouched, Started
  <2>3. Echo(c)
    BY <2>1, <2>2 DEF Inv, EchoInv
  <2>4. /\ Len(rx) <= typed /\ rx = Keys(typed - Len(rx), typed)
        /\ wire \o tx \o out[c] = Printed(c) \o Keys(0, typed - Len(rx))
    BY <2>3 DEF Echo
  <2>5. Len(rx) \in Nat
    BY <2>0, Size
  <2>6. PICK k \in Nat : k = typed - Len(rx)
    BY <2>0, <2>4, <2>5, Numbers
  <2>7. k <= typed /\ 0 <= k /\ 0 \in Nat
    BY <2>0, <2>5, <2>6
  <2>8. Keys(0, k) \in Seq(Character) /\ Keys(k, typed) \in Seq(Character)
    BY <2>0, <2>7, KeysType
  <2>9. Printed(c) \in Seq(Character)
    BY <2>1, PrintsText
  <2>10. Keys(0, k) \o Keys(k, typed) = Keys(0, typed)
    BY <2>0, <2>7, KeysJoin
  <2>11. (Printed(c) \o Keys(0, k)) \o Keys(k, typed) = Printed(c) \o (Keys(0, k) \o Keys(k, typed))
    BY <2>8, <2>9, Along
  <2>12. wire \o tx \o out[c] \o rx = (Printed(c) \o Keys(0, k)) \o Keys(k, typed)
    BY <2>4, <2>6
  <2> QED
    BY <2>10, <2>11, <2>12
<1> QED
  BY <1>1, Invariance, PTL

\* Cores that do not meet in critical() leave it as they found it and count exactly.
THEOREM Serial == SafeSpec => []OneByOne
<1>1. Inv => OneByOne
  <2> SUFFICES ASSUME Inv, ~overlap PROVE OneByOne
    BY DEF OneByOne
  <2>1. /\ \A c \in Core : pc[c] \in Inside => Turn(c)
        /\ (\A c \in Core : pc[c] \notin Inside) =>
               depth = 0 /\ owner = NoOwner /\ counter = Cardinality(Through)
    BY DEF Inv, ByTurns
  <2>2. ASSUME NEW c \in Core, pc[c] \in Inside \ {"owner", "owner reset"} PROVE owner = c
    <3>1. Turn(c) /\ pc[c] # "owner"
      BY <2>1, <2>2
    <3> QED
      BY <3>1 DEF Turn
  <2>3. ASSUME NEW c \in Core, pc[c] \in {"work", "goodbye", "count", "count store", "depth--"}
        PROVE  depth = 1
    <3>1. pc[c] \in Inside
      BY <2>3, LiveList
    <3>2. Turn(c)
      BY <2>1, <3>1
    <3> QED
      BY <2>3, <3>2 DEF Turn
  <2>4. ASSUME \A c \in Core : pc[c] \notin Inside PROVE Through = {c \in Core : Done(c)}
    <3>1. \A c \in Core : pc[c] \notin {"depth--", "depth-- store", "last", "owner reset"}
      BY <2>4, LiveList
    <3> QED
      BY <3>1 DEF Through
  <2> QED
    BY <2>1, <2>2, <2>3, <2>4 DEF OneByOne
<1> QED
  BY <1>1, Invariance, PTL
=============================================================================
