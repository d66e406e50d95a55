------------------------------- MODULE MCHeap -------------------------------
(* One core on a heap of 28 words, in which three blocks can be available    *)
(* apart, so that a search that stops after two fits is cut short; and two   *)
(* cores on a smaller one, which write words that look like the header of a  *)
(* taken block of four words.                                                *)
EXTENDS Heap

LikeTaken == {-4}

MCSetups ==
    {[len |-> 28, fits |-> 2, callers |-> {Boot}, bytes |-> {1}, values |-> {}],
     [len |-> 20, fits |-> 20, callers |-> Core, bytes |-> Bytes, values |-> LikeTaken]}
=============================================================================
