----------------------------- MODULE TfpPrintf -----------------------------
(***************************************************************************)
(* The formatter of the ARM kernel (src/printf.cc), as functions: what     *)
(* tfp_format() prints for a format and its arguments.  A number is below  *)
(* Word, 2^32 in the code; PRINTF_LONG_SUPPORT is not set.                 *)
(***************************************************************************)
LOCAL INSTANCE Integers
LOCAL INSTANCE Sequences
LOCAL INSTANCE SequencesExt

CONSTANTS Word, Nul

Digit(n, uc) ==
    IF uc THEN <<"0", "1", "2", "3", "4", "5", "6", "7", "8", "9", "A", "B", "C", "D", "E", "F">>[n + 1]
    ELSE <<"0", "1", "2", "3", "4", "5", "6", "7", "8", "9", "a", "b", "c", "d", "e", "f">>[n + 1]

\* a2d; the digits of base 16 come after 9.
a2d(c) ==
    LET is == {n \in 0 .. 15 : c \in {Digit(n, FALSE), Digit(n, TRUE)}}
    IN  IF is = {} THEN -1 ELSE CHOOSE n \in is : TRUE

\* The first loop of ui2a finds the place of the first digit, the second writes
\* the digits; there is no leading zero that n and dgt would have to suppress.
ui2a(num, base, uc) ==
    LET top[d \in Nat] == IF num \div d >= base THEN top[d * base] ELSE d
        write[d \in Nat, rest \in Nat] ==
            IF d = 0 THEN <<>>
            ELSE <<Digit(rest \div d, uc)>> \o write[d \div base, rest % d]
    IN  write[top[1], num]

\* num = -num, which leaves the smallest number as it is.
i2a(word) ==
    IF 2 * word < Word THEN ui2a(word, 10, FALSE)
    ELSE <<"-">> \o ui2a((0 - word) % Word, 10, FALSE)

\* putchw whose first loop counts the terminator too.
putchwShort(w, z, text) == [i \in 1 .. w - Len(text) - 1 |-> IF z THEN "0" ELSE " "] \o text

\* putchw: the field is filled up before the sign, with zeros too.
putchw(w, z, text) == [i \in 1 .. w - Len(text) |-> IF z THEN "0" ELSE " "] \o text

\* What tfp_format prints for the format from its character p on, the arguments
\* from a on.
tfp_format(format, args) ==
    LET At(p) == IF p <= Len(format) THEN format[p] ELSE Nul
        \* a2i: the number that starts at p, and the place behind it
        digits[p \in Nat, num \in Nat] ==
            IF a2d(At(p)) \in 0 .. 10 THEN digits[p + 1, num * 10 + a2d(At(p))]
            ELSE [num |-> num, end |-> p]
        print[p \in Nat, a \in Nat] ==
            IF At(p) = Nul THEN <<>>
            ELSE IF At(p) # "%" THEN <<At(p)>> \o print[p + 1, a]
            ELSE
            LET lz == At(p + 1) = "0"
                q == IF lz THEN p + 2 ELSE p + 1
                width == IF a2d(At(q)) \in 0 .. 9 THEN digits[q, 0] ELSE [num |-> 0, end |-> q]
                conv == At(width.end)
                Put(text, taken) == text \o print[width.end + 1, a + taken]
            IN  CASE conv = Nul -> <<>>
                  [] conv = "u" -> Put(putchw(width.num, lz, ui2a(args[a], 10, FALSE)), 1)
                  [] conv = "d" -> Put(putchw(width.num, lz, i2a(args[a])), 1)
                  [] conv \in {"x", "X"} ->
                        Put(putchw(width.num, lz, ui2a(args[a], 16, conv = "X")), 1)
                  [] conv = "c" -> Put(<<args[a]>>, 1)
                  [] conv = "s" -> Put(putchw(width.num, FALSE, args[a]), 1)
                  [] conv = "%" -> Put(<<"%">>, 0)
                  [] OTHER -> Put(<<>>, 0)
    IN  print[1, 1]
=============================================================================
