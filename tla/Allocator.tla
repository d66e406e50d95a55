------------------------------ MODULE Allocator ------------------------------
(***************************************************************************)
(* What malloc and free promise to the cores that call them, whatever the  *)
(* heap does inside: a request is answered at one moment between the call  *)
(* and the return, by an extent of the heap that overlaps no other in use, *)
(* and is refused only when no run of unused words is long enough for it.  *)
(* That last promise is the hard one: it says that nothing is lost and     *)
(* that neighbouring free extents are as good as one.                      *)
(***************************************************************************)
EXTENDS Integers

CONSTANTS
    Core,           \* who calls
    Request,        \* how many words, header and footer included, are asked for
    Slack           \* by how many words an extent may exceed the request

VARIABLES
    room,           \* the words that may be handed out, which stay the same
    live,           \* the extents in use: records of at and size
    call            \* what each core is waiting for

vars == <<room, live, call>>

None == [op |-> "none"]
Malloc(n) == [op |-> "malloc", words |-> n]
Free(e) == [op |-> "free", extent |-> e]

Span(at, n) == at .. at + n - 1

Overlap(e, at, n) == Span(e.at, e.size) \cap Span(at, n) # {}

\* n words from at on are in the heap and unused.
Vacant(at, n) == Span(at, n) \subseteq room /\ \A e \in live : ~Overlap(e, at, n)

Init ==
    /\ live = {}
    /\ call = [c \in Core |-> None]

AskMalloc(c) ==
    /\ call[c] = None
    /\ \E n \in Request : call' = [call EXCEPT ![c] = Malloc(n)]
    /\ UNCHANGED <<room, live>>

AskFree(c) ==
    /\ call[c] = None
    /\ \E e \in live : call' = [call EXCEPT ![c] = Free(e)]
    /\ UNCHANGED <<room, live>>

Grant(c) ==
    /\ call[c].op = "malloc"
    /\ \E at \in room, extra \in 0 .. Slack :
          /\ Vacant(at, call[c].words + extra)
          /\ live' = live \cup {[at |-> at, size |-> call[c].words + extra]}
    /\ call' = [call EXCEPT ![c] = None]
    /\ UNCHANGED room

Refuse(c) ==
    /\ call[c].op = "malloc"
    /\ \A at \in room : ~Vacant(at, call[c].words)
    /\ call' = [call EXCEPT ![c] = None]
    /\ UNCHANGED <<room, live>>

Release(c) ==
    /\ call[c].op = "free"
    /\ live' = live \ {call[c].extent}
    /\ call' = [call EXCEPT ![c] = None]
    /\ UNCHANGED room

Next == \E c \in Core : AskMalloc(c) \/ AskFree(c) \/ Grant(c) \/ Refuse(c) \/ Release(c)

SafeSpec == Init /\ [][Next]_vars
==============================================================================
