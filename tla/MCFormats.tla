----------------------------- MODULE MCFormats -----------------------------
(* A directive in brackets, of every kind there is, and one behind it,     *)
(* which shows what the first has left behind; formats that break off; and *)
(* formats that end in %w, in front of something in memory.                *)
EXTENDS Formats

Directive(fl, w, p, st, m, cv, v) ==
    [flags |-> fl, width |-> w, prec |-> p, star |-> st, mod |-> m, conv |-> cv, value |-> v]

FlagLists == {<<>>, <<"-">>, <<"0">>, <<"+">>, <<" ", "0">>, <<"#", "-">>, <<"+", "-", "0">>}

Words == {0, 9, 42, 127, 128, 200, 255}

Ints ==
    {Directive(fl, w, p, {}, m, cv, v) :
        fl \in FlagLists, w \in {0, 5}, p \in {-1, 0, 4}, m \in {<<>>},
        cv \in {"d", "u", "o", "x", "X", "p"}, v \in Words}
    \cup {Directive(fl, w, p, st, <<"h">>, cv, v) :
        fl \in FlagLists, w \in {-3, 12}, p \in {-1, 2}, st \in SUBSET {"width", "prec"},
        cv \in {"i", "x"}, v \in {5, 200, 253}}

Strs ==
    {Directive(fl, w, p, {}, <<>>, "s", v) :
        fl \in {<<>>, <<"-">>, <<"0">>}, w \in {0, 4}, p \in {-1, 0, 2, 5},
        v \in {Null, <<>>, <<"a", "b", "c">>, <<"a", "b", "c", "d", "e">>}}

Fraction(neg, num, den) == [neg |-> neg, num |-> num, den |-> den]

Floats ==
    {Directive(fl, w, p, {}, <<>>, "f", v) :
        fl \in FlagLists, w \in {0, 9}, p \in {-1, 0, 1, 3},
        v \in {Fraction(FALSE, 1, 2), Fraction(TRUE, 11, 4), Fraction(FALSE, 0, 1),
               Fraction(FALSE, 31, 32), Fraction(TRUE, 127, 64), Fraction(FALSE, 21, 20)}}
    \cup {Directive(<<>>, 14, 12, {}, <<>>, "f", Fraction(FALSE, n, 2)) : n \in {0, 1}}

Others ==
    {Directive(<<>>, w, -1, {}, <<>>, "c", "z") : w \in {0, 3}}
    \cup {Directive(<<>>, 0, -1, {}, <<>>, cv, 0) : cv \in {"%", "n", "e", "g", "w", "?"}}

Second ==
    {Directive(<<>>, 0, -1, {}, <<>>, "d", 42), Directive(<<>>, 4, -1, {}, <<>>, "x", 160),
     Directive(<<>>, 0, -1, {}, <<>>, "n", 0), Directive(<<>>, 0, -1, {}, <<"h">>, "n", 0)}

Is(c) == [char |-> c]

\* A format that is not left has a %s behind it, for which there is no argument.
Program(items, cut) ==
    [items |-> items, cut |-> cut, behind |-> <<"%", "s">>,
     left |-> [star |-> 2, number |-> 200, text |-> <<"m">>,
               real |-> Fraction(FALSE, 1, 2), char |-> "m"]]

EndsInW == <<Is("["), Directive(<<>>, 0, -1, {}, <<>>, "w", 0), Is("]"), CHOOSE d \in Second : d.conv = "d">>

Behinds ==
    {<<>>, <<"a">>, <<"%", "*", "d", "a">>, <<"%", ".", "*", "s">>, <<"%", "5", "c">>, <<"%", "f">>,
     <<"%", "h", "n">>, <<"%", "e">>, <<"%", "w", Nul, "%", "x">>}

MCPrograms ==
    {Program(<<Is("["), d, Is("]"), e>>, 99) :
        d \in Ints \cup Strs \cup Floats \cup Others, e \in Second}
    \cup {Program(<<Is("["), d, Is("]"), e>>, n) :
        d \in {x \in Ints : x.mod # <<>> /\ x.conv = "i" /\ x.value = 5} \cup Others,
        e \in {CHOOSE x \in Second : TRUE}, n \in 0 .. 7}
    \cup {[Program(EndsInW, 3) EXCEPT !.behind = b] : b \in Behinds}

\* 1.05, 1.5 and 0.5, to three digits.
MCFloats ==
    {Program(<<Directive(<<>>, 0, 3, {}, <<>>, "f", Fraction(FALSE, n, 20))>>, 99) :
        n \in {10, 21, 30}}
=============================================================================
