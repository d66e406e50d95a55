------------------------------ MODULE Formats ------------------------------
(***************************************************************************)
(* The two formatters beside each other: the ARM kernel prints with        *)
(* tfp_format() what the x86 kernel, of which it is a port, prints with    *)
(* dopr().                                                                 *)
(***************************************************************************)
EXTENDS Snprintf

Tfp == INSTANCE TfpPrintf

\* The directives that both know: a width with or without a 0 in front.
InBoth(d) ==
    /\ d.flags \in {<<>>, <<"0">>} /\ d.prec < 0 /\ d.star = {} /\ d.mod = <<>>
    /\ d.conv \in {"u", "d", "x", "X", "c", "s", "%"}
    /\ d.conv = "s" => d.value # Null

AllInBoth == \A i \in DOMAIN program.items :
                IsDirective(program.items[i]) => InBoth(program.items[i])

\* A number below 0 in a field with zeros, and what becomes of it: 00-42.
SignInZeros(item) ==
    IsDirective(item) /\ item.conv = "d" /\ item.flags = <<"0">> /\ Signed(item.value) < 0

SignBehindZeros(item) ==
    LET digits == Numeral(0 - Signed(item.value), 10, Lower)
    IN  Times(item.width - Len(digits) - 1, "0") \o <<"-">> \o digits

\* What both know is printed by both in the same way, but for the place of a sign among
\* zeros: what was ported prints what it did before, as long as the limit, which
\* tfp_format has not, is not reached.
Portable ==
    LET items == program.items
        Ported(item) == IF SignInZeros(item) THEN SignBehindZeros(item) ELSE Meaning(item)
    IN  state = "done" /\ Complete /\ AllInBoth /\ Len(out) < maxlen =>
            Tfp!tfp_format(format, args) =
                IF \A i \in DOMAIN items : ~SignInZeros(items[i]) THEN out
                ELSE FlattenSeq([i \in DOMAIN items |-> Ported(items[i])])
=============================================================================
