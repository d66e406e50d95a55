-------------------------------- MODULE Heap --------------------------------
(***************************************************************************)
(* The heap of the x86 kernel (kernel/heap.cc), word for word: an array of *)
(* ints cut into blocks, each with its size in its first and last word,    *)
(* negative when the block is taken; the available blocks are in a doubly  *)
(* linked list whose links are their second and third words.  An index     *)
(* into the array stands for an address, 0 ends the list.                  *)
(*                                                                         *)
(* malloc and free run under theLock, a SpinLock, which is what module     *)
(* Mutex says of it.  Between the lock and the unlock, one iteration of    *)
(* the search is one step, and so is what is done with the block found:    *)
(* nobody else may touch those words, which is what is to be shown.  The   *)
(* cores meanwhile write what they like into the blocks they were given.   *)
(*                                                                         *)
(* safe is 0 and nothing sets it, so sanity() returns its argument and is  *)
(* left out.  What malloc gave is freed once, by any core.                 *)
(***************************************************************************)
EXTENDS Integers, Sequences, FiniteSets

CONSTANTS
    Core,           \* the processors
    Boot,           \* the one that calls heapInit()
    NoCore,         \* nobody
    Setups,         \* [len, fits, callers, bytes, values]: how many words a heap
                    \* has, after how many fits the search stops (20 in the code),
                    \* and which cores ask for which sizes and write which words
    Bytes,          \* the sizes that are asked for
    Value,          \* what the cores write into their blocks
    Unset           \* nothing has been written into the block yet

ASSUME HeapAssumption ==
    /\ Boot \in Core /\ NoCore \notin Core
    /\ Bytes \subseteq Nat \ {0}
    /\ Value \subseteq Int
    /\ \A s \in Setups : /\ s.len \in Nat /\ s.len >= 12
                        /\ s.fits \in Nat \ {0}
                        /\ s.callers \subseteq Core
                        /\ s.bytes \subseteq Bytes /\ s.values \subseteq Value

VARIABLES
    setup,          \* the one of Setups
    array,          \* the memory of the heap
    avail,          \* the head of the list of available blocks
    theLock,        \* the block that holds the lock, 0 before there is one
    holder,         \* the core that has the lock
    pc, reg,        \* where each core is, and its local variables
    owned,          \* the blocks in use: records of at, bytes and fill
    blocks, order   \* auxiliary: where the blocks begin, the list in its order

heap == <<setup, array, avail, blocks, order>>

vars == <<heap, theLock, holder, pc, reg, owned>>

len == setup.len

MaxFits == setup.fits

GoTo(c, from, to) == pc[c] = from /\ pc' = [pc EXCEPT ![c] = to]

\* 0x7FFFFFFF, more than any block has.
Huge == len

Idle == [ints |-> 0, p |-> 0, mx |-> 0, it |-> 0, countDown |-> 0, bytes |-> 0]

(***************************************************************************)
(* The helpers, as functions of a memory m and of a heap h.                *)
(***************************************************************************)

\* size(i), whether the block is taken or not.
Size(m, i) == IF m[i] < 0 THEN -m[i] ELSE m[i]

IsAvail(m, i) == m[i] > 0

IsTaken(m, i) == m[i] < 0

Right(m, i) == i + Size(m, i)

Left(m, i) == i - Size(m, i - 1)

NextOf(m, i) == m[i + 1]

PrevOf(m, i) == m[i + 2]

\* Word i of memory m becomes x, unless i is the end of the list.
Link(m, i, off, x) == IF i = 0 THEN m ELSE [m EXCEPT ![i + off] = x]

\* The sequence without i, which is in it once.
Without(s, i) ==
    LET k == CHOOSE n \in DOMAIN s : s[n] = i
    IN  [j \in 1 .. Len(s) - 1 |-> IF j < k THEN s[j] ELSE s[j + 1]]

\* remove(i) that leaves the link back alone.
RemoveOneWay(h, i) ==
    LET before == PrevOf(h.array, i)
        after == NextOf(h.array, i)
    IN  [h EXCEPT !.array = Link(@, before, 1, after),
                  !.avail = IF before = 0 THEN after ELSE @,
                  !.order = Without(@, i)]

\* remove(i)
Remove(h, i) ==
    LET before == PrevOf(h.array, i)
        after == NextOf(h.array, i)
    IN  [h EXCEPT !.array = Link(Link(@, before, 1, after), after, 2, before),
                  !.avail = IF before = 0 THEN after ELSE @,
                  !.order = Without(@, i)]

\* The header and the footer of a block.
Stamp(m, i, x, n) == [m EXCEPT ![i] = x, ![i + n - 1] = x]

\* makeAvail(i, ints) that moves the head before it reads it for the link.
MakeAvailTooSoon(h, i, ints) ==
    [h EXCEPT !.array = [Stamp(@, i, ints, ints) EXCEPT ![i + 1] = i, ![i + 2] = i],
              !.avail = i,
              !.blocks = @ \cup {i},
              !.order = <<i>> \o @]

\* makeAvail(i, ints): the new head of the list.
MakeAvail(h, i, ints) ==
    LET m == [Stamp(h.array, i, ints, ints) EXCEPT ![i + 1] = h.avail, ![i + 2] = 0]
    IN  [h EXCEPT !.array = Link(m, h.avail, 2, i),
                  !.avail = i,
                  !.blocks = @ \cup {i},
                  !.order = <<i>> \o @]

\* makeTaken(i, ints) that leaves the footer as it was.
MakeTakenHeaderOnly(h, i, ints) ==
    [h EXCEPT !.array[i] = -ints, !.blocks = @ \cup {i}]

\* makeTaken(i, ints)
MakeTaken(h, i, ints) ==
    [h EXCEPT !.array = Stamp(@, i, -ints, ints), !.blocks = @ \cup {i}]

Now == [array |-> array, avail |-> avail, blocks |-> blocks, order |-> order]

Becomes(h) ==
    /\ setup' = setup
    /\ array' = h.array
    /\ avail' = h.avail
    /\ blocks' = h.blocks
    /\ order' = h.order

\* The words asked for, rounded down.
IntsRoundedDown(bytes) ==
    LET ints == (bytes \div 4) + 2 IN IF ints < 4 THEN 4 ELSE ints

\* The words asked for, and two for the header and the footer, at least 4.
Ints(bytes) ==
    LET ints == ((bytes + 3) \div 4) + 2 IN IF ints < 4 THEN 4 ELSE ints

(***************************************************************************)
(* heapInit()                                                              *)
(***************************************************************************)

Init ==
    /\ setup \in Setups
    /\ array = [i \in 0 .. len - 1 |-> 0]
    /\ avail = 0
    /\ theLock = 0
    /\ holder = NoCore
    /\ pc = [c \in Core |-> IF c = Boot THEN "heapInit" ELSE "idle"]
    /\ reg = [c \in Core |-> Idle]
    /\ owned = {}
    /\ blocks = {}
    /\ order = <<>>

\* The two ends are taken blocks that nobody frees; then new SpinLock() calls
\* malloc(1), with theLock still null.
HeapInit(c) ==
    /\ GoTo(c, "heapInit", "malloc")
    /\ Becomes(MakeTaken(MakeAvail(MakeTaken(Now, 0, 2), 2, len - 4), len - 2, 2))
    /\ reg' = [reg EXCEPT ![c] = [Idle EXCEPT !.ints = Ints(1), !.bytes = 1]]
    /\ UNCHANGED <<theLock, holder, owned>>

(***************************************************************************)
(* malloc()                                                                *)
(***************************************************************************)

\* A core calls malloc(bytes); malloc(0) returns at once and is left out.
Malloc(c) ==
    /\ theLock # 0 /\ c \in setup.callers
    /\ GoTo(c, "idle", "malloc")
    /\ \E bytes \in setup.bytes :
          reg' = [reg EXCEPT ![c] = [Idle EXCEPT !.ints = Ints(bytes), !.bytes = bytes]]
    /\ UNCHANGED <<heap, theLock, holder, owned>>

\* LockGuardP g{theLock}: no lock is taken when there is none yet.
Guard(c) ==
    IF theLock = 0 THEN UNCHANGED holder ELSE holder = NoCore /\ holder' = c

\* The guard that takes no lock.
StartSearchUnlocked(c) ==
    /\ GoTo(c, "malloc", "search")
    /\ reg' = [reg EXCEPT ![c].p = avail, ![c].mx = Huge, ![c].countDown = MaxFits]
    /\ UNCHANGED <<heap, theLock, holder, owned>>

\* The guard, and the variables of the search.
StartSearch(c) ==
    /\ GoTo(c, "malloc", "search")
    /\ Guard(c)
    /\ reg' = [reg EXCEPT ![c].p = avail, ![c].mx = Huge, ![c].countDown = MaxFits]
    /\ UNCHANGED <<heap, theLock, owned>>

\* The search that keeps the last block that fits.
SearchLast(c) ==
    /\ pc[c] = "search"
    /\ LET r == reg[c]
           fits == Size(array, r.p) >= r.ints
           down == IF fits THEN r.countDown - 1 ELSE r.countDown
       IN  IF r.p = 0
           THEN pc' = [pc EXCEPT ![c] = "carve"] /\ UNCHANGED reg
           ELSE /\ pc' = [pc EXCEPT ![c] = IF down = 0 THEN "carve" ELSE "search"]
                /\ reg' = [reg EXCEPT ![c] = [r EXCEPT
                     !.mx = IF fits THEN Size(array, r.p) ELSE @,
                     !.it = IF fits THEN r.p ELSE @,
                     !.countDown = down,
                     !.p = IF down = 0 THEN @ ELSE NextOf(array, @)]]
    /\ UNCHANGED <<heap, theLock, holder, owned>>

\* One iteration of while (p != 0): the smallest block so far is kept, and the
\* loop is left after MaxFits blocks that fit.
Search(c) ==
    /\ pc[c] = "search"
    /\ LET r == reg[c]
           sz == Size(array, r.p)
           fits == sz >= r.ints
           better == fits /\ sz < r.mx
           down == IF fits THEN r.countDown - 1 ELSE r.countDown
       IN  IF r.p = 0
           THEN pc' = [pc EXCEPT ![c] = "carve"] /\ UNCHANGED reg
           ELSE IF ~IsAvail(array, r.p)
           THEN pc' = [pc EXCEPT ![c] = "panic"] /\ UNCHANGED reg
           ELSE /\ pc' = [pc EXCEPT ![c] = IF down = 0 THEN "carve" ELSE "search"]
                /\ reg' = [reg EXCEPT ![c] = [r EXCEPT
                     !.mx = IF better THEN sz ELSE @,
                     !.it = IF better THEN r.p ELSE @,
                     !.countDown = down,
                     !.p = IF down = 0 THEN @ ELSE NextOf(array, @)]]
    /\ UNCHANGED <<heap, theLock, holder, owned>>

\* The block found leaves the list; what is left over of it, if it is at least
\* 4 words, becomes a block of its own.
Carve(c) ==
    /\ GoTo(c, "carve", "malloc return")
    /\ LET it == reg[c].it
           ints == reg[c].ints
           extra == reg[c].mx - ints
           h == Remove(Now, it)
       IN  IF it = 0 THEN UNCHANGED heap
           ELSE IF extra >= 4
                THEN Becomes(MakeAvail(MakeTaken(h, it, ints), it + ints, extra))
                ELSE Becomes(MakeTaken(h, it, reg[c].mx))
    /\ UNCHANGED <<theLock, holder, reg, owned>>

\* The guard unlocks, and the core has its block, or a null pointer; in
\* heapInit() the block becomes theLock.
MallocReturn(c) ==
    /\ GoTo(c, "malloc return", "idle")
    /\ LET it == reg[c].it
           mine == [at |-> it, bytes |-> reg[c].bytes, fill |-> Unset]
       IN  IF theLock = 0
           THEN theLock' = it /\ UNCHANGED <<holder, owned>>
           ELSE /\ holder' = NoCore
                /\ owned' = IF it = 0 THEN owned ELSE owned \cup {mine}
                /\ UNCHANGED theLock
    /\ reg' = [reg EXCEPT ![c] = Idle]
    /\ UNCHANGED heap

(***************************************************************************)
(* free()                                                                  *)
(***************************************************************************)

\* A core calls free() on a block in use; free of a null pointer, and of what
\* malloc(0) returned, returns at once and is left out.
Free(c) ==
    /\ c \in setup.callers
    /\ GoTo(c, "idle", "free")
    /\ \E b \in owned :
          /\ owned' = owned \ {b}
          /\ reg' = [reg EXCEPT ![c].p = b.at]
    /\ UNCHANGED <<heap, theLock, holder>>

\* The guard, and the check for a block that is already free.
StartFree(c) ==
    /\ pc[c] = "free"
    /\ Guard(c)
    /\ pc' = [pc EXCEPT ![c] = IF IsTaken(array, reg[c].p) THEN "coalesce" ELSE "panic"]
    /\ UNCHANGED <<heap, theLock, reg, owned>>

\* The block joins its right neighbour only.
CoalesceRightOnly(c) ==
    /\ GoTo(c, "coalesce", "free return")
    /\ LET idx == reg[c].p
           r == Right(array, idx)
           h1 == [Now EXCEPT !.blocks = @ \ {idx}]
           h2 == IF IsAvail(array, r)
                 THEN [Remove(h1, r) EXCEPT !.blocks = @ \ {r}] ELSE h1
           sz == Size(array, idx) + (IF IsAvail(array, r) THEN Size(array, r) ELSE 0)
       IN  Becomes(MakeAvail(h2, idx, sz))
    /\ UNCHANGED <<theLock, holder, reg, owned>>

\* The block joins each neighbour that is available, which leaves the list
\* first, and enters the list at its head.
Coalesce(c) ==
    /\ GoTo(c, "coalesce", "free return")
    /\ LET idx == reg[c].p
           joinsLeft == IsAvail(array, Left(array, idx))
           joinsRight == IsAvail(array, Right(array, idx))
           l == Left(array, idx)
           r == Right(array, idx)
           Drop(h, i) == [Remove(h, i) EXCEPT !.blocks = @ \ {i}]
           h0 == [Now EXCEPT !.blocks = @ \ {idx}]
           h1 == IF joinsLeft THEN Drop(h0, l) ELSE h0
           h2 == IF joinsRight THEN Drop(h1, r) ELSE h1
           sz == Size(array, idx) + (IF joinsLeft THEN Size(array, l) ELSE 0)
                                  + (IF joinsRight THEN Size(array, r) ELSE 0)
       IN  Becomes(MakeAvail(h2, IF joinsLeft THEN l ELSE idx, sz))
    /\ UNCHANGED <<theLock, holder, reg, owned>>

\* The guard unlocks.
FreeReturn(c) ==
    /\ GoTo(c, "free return", "idle")
    /\ holder' = NoCore
    /\ reg' = [reg EXCEPT ![c] = Idle]
    /\ UNCHANGED <<heap, theLock, owned>>

(***************************************************************************)
(* The cores.                                                              *)
(***************************************************************************)

\* The words that were asked for with block b.
Payload(b) == b.at + 1 .. b.at + (b.bytes + 3) \div 4

\* A core that is in neither function fills a block in use.
Write ==
    /\ \E b \in owned, v \in setup.values :
          /\ array' = [i \in DOMAIN array |-> IF i \in Payload(b) THEN v ELSE array[i]]
          /\ owned' = (owned \ {b}) \cup {[b EXCEPT !.fill = v]}
    /\ UNCHANGED <<setup, avail, theLock, holder, pc, reg, blocks, order>>

\* What a core does by itself once it has called.
Step(c) ==
    \/ HeapInit(c)
    \/ StartSearch(c) \/ Search(c) \/ Carve(c) \/ MallocReturn(c)
    \/ StartFree(c) \/ Coalesce(c) \/ FreeReturn(c)

Next == (\E c \in Core : Step(c) \/ Malloc(c) \/ Free(c)) \/ Write

\* A core inside malloc or free runs on; nobody is obliged to call.
Fairness == \A c \in Core : WF_vars(Step(c))

SafeSpec == Init /\ [][Next]_vars

Spec == SafeSpec /\ Fairness

(***************************************************************************)
(* Properties.                                                             *)
(***************************************************************************)

Locked == {"search", "carve", "malloc return", "coalesce", "free return"}

TypeOK ==
    /\ setup \in Setups
    /\ array \in [0 .. len - 1 -> Int]
    /\ avail \in 0 .. len - 1
    /\ theLock \in 0 .. len - 1
    /\ holder \in Core \cup {NoCore}
    /\ pc \in [Core -> Locked \cup {"heapInit", "idle", "malloc", "free", "panic"}]
    /\ reg \in [Core -> [ints : Int, p : 0 .. len - 1, mx : Int, it : 0 .. len - 1,
                         countDown : Int, bytes : Nat]]
    /\ owned \subseteq [at : blocks, bytes : Bytes, fill : Value \cup {Unset}]
    /\ blocks \subseteq 0 .. len - 1
    /\ order \in Seq(blocks)

Ends == {0, len - 2}

Available == {b \in blocks : IsAvail(array, b)}

\* The blocks that were handed out, or are about to be.
Given == blocks \ (Available \cup Ends)

\* The blocks B cover n words of the memory m without a hole and without an overlap,
\* and each says its size at both of its ends.
Tiles(m, B, n) ==
    \A b \in B :
        /\ Size(m, b) >= 2
        /\ m[b + Size(m, b) - 1] = m[b]
        /\ Right(m, b) \in B \cup {n}
        /\ \A d \in B : b < d => Right(m, b) <= d
        /\ b # 0 => \E d \in B : Right(m, d) = b

\* The heap is covered by its blocks, whatever the cores write; those between the two
\* ends have room for the links, and those in use for what was asked for.
Tiled ==
    /\ Tiles(array, blocks, len)
    /\ blocks # {} => Ends \subseteq blocks /\ array[0] = -2 /\ array[len - 2] = -2
    /\ \A b \in blocks \ Ends : Size(array, b) >= 4
    /\ \A b \in owned : Size(array, b.at) >= Ints(b.bytes)

\* Two available blocks are never neighbours: free() joined them.
Coalesced ==
    \A b \in Available : Size(array, b) >= 4 /\ Right(array, b) \notin Available

\* The links of the list o in the memory m agree in both directions.
Linked(m, o) ==
    \A k \in DOMAIN o :
        /\ NextOf(m, o[k]) = IF k = Len(o) THEN 0 ELSE o[k + 1]
        /\ PrevOf(m, o[k]) = IF k = 1 THEN 0 ELSE o[k - 1]

\* The list holds every available block once.
ListExact ==
    /\ {order[k] : k \in DOMAIN order} = Available
    /\ \A j, k \in DOMAIN order : order[j] = order[k] => j = k
    /\ avail = IF order = <<>> THEN 0 ELSE order[1]
    /\ Linked(array, order)

\* The block that a core is being given, or is giving back.
InFlight(c) ==
    IF pc[c] = "malloc return" /\ reg[c].it # 0 THEN {reg[c].it}
    ELSE IF pc[c] \in {"free", "coalesce"} THEN {reg[c].p} ELSE {}

\* Every block handed out is known to one of: the users, one call under way, the
\* lock.  No block is given to two, and none is lost.
GivenExact ==
    /\ Given = {b.at : b \in owned} \cup (UNION {InFlight(c) : c \in Core})
                  \cup ({theLock} \ {0})
    /\ \A b, d \in owned : b.at = d.at => b = d
    /\ theLock \notin {b.at : b \in owned}
    /\ \A c, d \in Core : InFlight(c) \cap InFlight(d) # {} => c = d
    /\ \A c \in Core : InFlight(c) \cap ({theLock} \cup {b.at : b \in owned}) = {}

\* Only the core that has the lock is between the guard and its end.
UnderLock == theLock # 0 => \A c \in Core : pc[c] \in Locked <=> holder = c

\* Until there is a lock only one core is about.
Begun ==
    /\ blocks = {} <=> pc[Boot] = "heapInit"
    /\ \A c \in Core \ {Boot} : pc[c] # "heapInit"
    /\ theLock = 0 => /\ owned = {} /\ holder = NoCore
                      /\ \A c \in Core \ {Boot} : pc[c] = "idle"
                      /\ pc[Boot] \notin {"free", "coalesce", "free return"}

\* What the variables of a core in malloc() say of the heap while it searches, and of
\* its block when it has one.
Knows(c) ==
    LET r == reg[c] IN
    /\ pc[c] \in {"malloc", "search", "carve", "malloc return"} =>
          /\ r.ints = Ints(r.bytes)
          /\ r.bytes \in Bytes \cup (IF theLock = 0 THEN {1} ELSE {})
    /\ pc[c] = "malloc" => r.it = 0
    /\ pc[c] = "search" /\ r.p # 0 => r.p \in Available
    /\ pc[c] \in {"search", "carve"} /\ r.it # 0 => r.it \in Available /\ r.mx = Size(array, r.it)
    /\ pc[c] \in {"search", "carve", "malloc return"} /\ r.it # 0 => r.ints <= Size(array, r.it)

\* What a core has written into its block stays there until it is freed, and
\* the words it asked for are all inside its block.
PayloadIntact ==
    \A b \in owned :
        /\ Payload(b) \subseteq b.at + 1 .. Right(array, b.at) - 2
        /\ b.fill # Unset => \A i \in Payload(b) : array[i] = b.fill

\* Used as it should be, the heap never meets a block in the wrong state.
NoPanic == \A c \in Core : pc[c] # "panic"

\* The inductive invariant.
Inv ==
    /\ TypeOK /\ UnderLock /\ Begun /\ Tiled /\ ListExact /\ (\A c \in Core : Knows(c))
    /\ Coalesced /\ GivenExact /\ PayloadIntact /\ NoPanic

\* Whether block b is big enough for core c.
Fits(c, b) == Size(array, b) >= reg[c].ints

\* The places in the list of the blocks that fit, among the first k.
FittingUpTo(c, k) == {j \in 1 .. k : Fits(c, order[j])}

\* The search ends with a smallest block among the first MaxFits that fit, and
\* with none only when none does.  (It is not the first-fit heap that the comment at
\* the head of heap.cc calls it.)
BestOfFirst ==
    \A c \in Core : pc[c] = "carve" =>
        LET seen == {k \in FittingUpTo(c, Len(order)) :
                        Cardinality(FittingUpTo(c, k)) <= MaxFits}
        IN  IF seen = {} THEN reg[c].it = 0
            ELSE /\ \E k \in seen : reg[c].it = order[k]
                 /\ reg[c].mx = Size(array, reg[c].it)
                 /\ \A k \in seen : reg[c].mx <= Size(array, order[k])

\* The search comes to the end of the list.
SearchEnds == \A c \in Core : pc[c] = "search" ~> pc[c] = "carve"

Extent(b) == [at |-> b, size |-> Size(array, b)]

A == INSTANCE Allocator WITH
    room <- 2 .. len - 3,
    Request <- {Ints(bytes) : bytes \in Bytes \cup {1}}, Slack <- 3,
    live <- {Extent(b) : b \in Given},
    call <- [c \in Core |->
        IF pc[c] \in {"malloc", "search", "carve"} THEN [op |-> "malloc", words |-> reg[c].ints]
        ELSE IF pc[c] \in {"free", "coalesce"} THEN [op |-> "free", extent |-> Extent(reg[c].p)]
        ELSE [op |-> "none"]]

\* malloc gives disjoint extents, and refuses a request only when no run of
\* unused words, whatever block they are in, is long enough.
ImplementsAllocator == A!SafeSpec
=============================================================================
