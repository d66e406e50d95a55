------------------------------- MODULE Loader -------------------------------
(***************************************************************************)
(* The boot sector of the x86 kernel (kernel/mbr.S up to resetEIP): it     *)
(* reads the drive, sector by sector, to where the BIOS has put itself.    *)
(*                                                                         *)
(* Everything is in words of 16 bits: the number of sectors of the drive,  *)
(* of which the upper bits are dropped, the number of the next sector, and *)
(* the segment it is read to.  The memory is counted in pieces of the size *)
(* of a sector, 0x20 segments.                                             *)
(***************************************************************************)
LOCAL INSTANCE Integers

CONSTANTS
    CountWord,      \* 2^16 in the code
    Pieces,         \* 2^16 / 0x20 in the code: the pieces that segments reach
    Ram,            \* 0xA000 / 0x20 in the code: the pieces that are memory
    First,          \* 0x7e0 / 0x20 in the code: where sector 1 goes
    Image           \* the sectors of the kernel, the boot sector included

ASSUME LoaderAssumption ==
    /\ {CountWord, Pieces, Ram, First} \subseteq Nat \ {0} /\ Image \in Nat \ {0, 1}
    /\ First - 1 + Image <= Ram /\ Ram <= Pieces /\ Image <= CountWord

VARIABLES
    cx,             \* the sectors still to be read, and one
    di,             \* where the next one goes
    bp,             \* its number
    memory          \* which sector each piece of the memory holds, -1 for none

loader == <<cx, di, bp, memory>>

\* The BIOS has read the boot sector; the parameters of the drive are known.
LoaderInit(sectors) ==
    /\ cx = sectors % CountWord
    /\ di = First
    /\ bp = 1
    /\ memory = [p \in 0 .. Pieces - 1 |-> IF p = First - 1 THEN 0 ELSE -1]

\* add $-1,%cx; jz
LastSector == (cx - 1) % CountWord = 0

\* The number is increased before it is used.
ReadSectorNext ==
    /\ cx' = (cx - 1) % CountWord
    /\ bp' = (bp + 1) % CountWord
    /\ memory' = IF di < Ram THEN [memory EXCEPT ![di] = bp'] ELSE memory
    /\ di' = (di + 1) % Pieces

\* One round of the loop: what is read to where there is no memory is lost.
ReadSector ==
    /\ cx' = (cx - 1) % CountWord
    /\ memory' = IF di < Ram THEN [memory EXCEPT ![di] = bp] ELSE memory
    /\ di' = (di + 1) % Pieces
    /\ bp' = (bp + 1) % CountWord

\* The next round overwrites the interrupt table of the BIOS.
Wrapped == di < First

\* The kernel is where it is linked to be.
Loaded == \A s \in 0 .. Image - 1 : memory[First - 1 + s] = s
=============================================================================
