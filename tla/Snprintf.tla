------------------------------ MODULE Snprintf ------------------------------
(***************************************************************************)
(* The formatter of the x86 kernel (kernel/snprintf.cc), through which all *)
(* of Debug::printf goes: dopr() reads the format one character at a time, *)
(* as a state machine, and fmtint() and fmtstr() lay out one argument.     *)
(* One action is one iteration of the loop of dopr(), in one of its        *)
(* states.                                                                 *)
(*                                                                         *)
(* What is formatted is a program: literal characters and directives, with *)
(* the values to be printed.  Spelled() writes it as a format and Args()   *)
(* lists the arguments, the way a caller does; Meaning() says what C wants *)
(* to be printed, from the directive and without the format.  dopr() can   *)
(* leave a format that ends in %w, and then goes on in what is behind it   *)
(* in memory: that is part of the program as well.                         *)
(*                                                                         *)
(* A floating point number is a fraction, which is what it is: fmtfp() is  *)
(* exact on it as long as it has few digits.  int and long have the same   *)
(* width, as they do in this kernel; a fraction is taken to fit into it.   *)
(***************************************************************************)
EXTENDS Integers, Sequences, SequencesExt

CONSTANTS
    Programs,       \* [items, cut, behind, left]: what is formatted; the format
                    \* ends after cut characters; what is behind its terminator,
                    \* and what va_arg() gives there
    Limits,         \* the lengths that callers of vsnprintf() allow
    Word,           \* 2^32 in the code: the numbers of an int or a long
    Short           \* 2^16 in the code: those of a short

\* A number has at most 19 digits in base 8.
ASSUME SnprintfAssumption ==
    /\ Word \in Nat \ {0} /\ Word % 2 = 0 /\ Word \div 2^28 < 2^29
    /\ Short \in Nat \ {0} /\ Limits \subseteq Nat

Nul == "nul"        \* the terminator of a string

Null == <<Nul>>     \* a char pointer that is 0

Signed(word) == IF 2 * word < Word THEN word ELSE word - Word

\* A long that is assigned to a short.
ToShort(n) == IF 2 * (n % Short) < Short THEN n % Short ELSE (n % Short) - Short

Lower == <<"0", "1", "2", "3", "4", "5", "6", "7", "8", "9", "a", "b", "c", "d", "e", "f">>

Upper == <<"0", "1", "2", "3", "4", "5", "6", "7", "8", "9", "A", "B", "C", "D", "E", "F">>

Number == [digit \in ToSet(Lower) |-> (CHOOSE i \in DOMAIN Lower : Lower[i] = digit) - 1]

\* What the formatter puts in the buffer that is in no argument.
Printed == {Lower[i] : i \in 1 .. 16} \cup {Upper[i] : i \in 1 .. 16}
               \cup {" ", "+", "-", ".", "%", "<", "N", "U", "L", ">"}

\* A literal is a string, which a prover has to be told.
ASSUME PrintedAssumption == Printed \subseteq STRING

isdigit(c) == \E i \in 1 .. 10 : c = Lower[i]

Times(n, c) == [i \in 1 .. n |-> c]

Larger(p, q) == IF p >= q THEN p ELSE q

Smaller(p, q) == IF p <= q THEN p ELSE q

(***************************************************************************)
(* Programs, their spelling and their meaning.                             *)
(***************************************************************************)

\* A number in base b, the most significant digit first.
Numeral(number, b, digits) ==
    LET write[n \in Nat] ==
            IF n < b THEN <<digits[n + 1]>> ELSE Append(write[n \div b], digits[(n % b) + 1])
    IN  write[number]

IsDirective(item) == "conv" \in DOMAIN item

IntConv == {"d", "i", "u", "o", "x", "X", "p"}

FlagChars == {"-", "+", " ", "#", "0"}

DirectiveOf(convs, values) ==
    [flags : Seq(FlagChars), width : Int, prec : Int, star : SUBSET {"width", "prec"},
     mod : {<<>>, <<"h">>, <<"l">>, <<"L">>}, conv : convs, value : values]

Item ==
    [char : STRING \ {"%"}]
    \cup DirectiveOf(IntConv, 0 .. Word - 1)
    \cup DirectiveOf({"s"}, Seq(STRING))
    \cup DirectiveOf({"f"}, [neg : BOOLEAN, num : Nat, den : Nat \ {0}])
    \cup DirectiveOf({"c"}, STRING)
    \cup DirectiveOf({"n", "e", "E", "g", "G", "%", "w", "?"}, Nat)

\* What va_arg() gives when nothing is left to give, as a width or a precision, a
\* number, a string, a floating point number or a character.
Left ==
    [star : Int, number : 0 .. Word - 1, text : Seq(STRING),
     real : [neg : BOOLEAN, num : Nat, den : Nat \ {0}], char : STRING]

\* %w, which takes the character behind it with it, is not put before a directive.
ASSUME ProgramsAssumption ==
    \A p \in Programs :
        /\ p.items \in Seq(Item) /\ p.cut \in Nat
        /\ p.behind \in Seq(STRING) /\ p.left \in Left
        /\ \A i \in 1 .. Len(p.items) - 1 :
              IsDirective(p.items[i]) /\ p.items[i].conv = "w" => ~IsDirective(p.items[i + 1])

\* width 0 and prec -1 say that the directive has none; star says which of them
\* are arguments; "?" stands for a conversion that dopr() does not know.
SpelledWidth(d) ==
    IF "width" \in d.star THEN <<"*">>
    ELSE IF d.width > 0 THEN Numeral(d.width, 10, Lower) ELSE <<>>

SpelledPrec(d) ==
    IF "prec" \in d.star THEN <<".", "*">>
    ELSE IF d.prec >= 0 THEN <<".">> \o Numeral(d.prec, 10, Lower) ELSE <<>>

SpelledItem(item) ==
    IF ~IsDirective(item) THEN <<item.char>>
    ELSE <<"%">> \o item.flags \o SpelledWidth(item) \o SpelledPrec(item) \o item.mod \o <<item.conv>>

ArgsOf(item) ==
    IF ~IsDirective(item) THEN <<>>
    ELSE (IF "width" \in item.star THEN <<item.width>> ELSE <<>>)
         \o (IF "prec" \in item.star THEN <<item.prec>> ELSE <<>>)
         \o (IF item.conv \in {"%", "w", "?"} THEN <<>> ELSE <<item.value>>)

Spelled(items) == FlattenSeq([i \in DOMAIN items |-> SpelledItem(items[i])])

Args(items) == FlattenSeq([i \in DOMAIN items |-> ArgsOf(items[i])])

BaseOf(conv) == CASE conv = "o" -> 8 [] conv \in {"x", "X", "p"} -> 16 [] OTHER -> 10

\* The text of a directive in a field of its width.
InField(text, d) ==
    LET blanks == Times(d.width - Len(text), " ")
    IN  IF "-" \in ToSet(d.flags) THEN text \o blanks ELSE blanks \o text

IntMeaning(d) ==
    LET number == IF d.conv \in {"d", "i"} THEN Signed(d.value) ELSE d.value
        flags == ToSet(d.flags)
        sign == IF number < 0 THEN <<"-">>
                ELSE IF d.conv \notin {"d", "i"} THEN <<>>
                ELSE IF "+" \in flags THEN <<"+">>
                ELSE IF " " \in flags THEN <<" ">> ELSE <<>>
        digits == Numeral(IF number < 0 THEN 0 - number ELSE number, BaseOf(d.conv),
                          IF d.conv = "X" THEN Upper ELSE Lower)
        least == IF "0" \in flags THEN d.width - Len(sign) ELSE d.prec
    IN  InField(sign \o Times(least - Len(digits), "0") \o digits, d)

StrMeaning(d) ==
    LET text == IF d.value = Null THEN <<"<", "N", "U", "L", "L", ">">> ELSE d.value
    IN  InField(IF d.prec < 0 THEN text ELSE SubSeq(text, 1, Smaller(d.prec, Len(text))), d)

\* A number [neg, num, den], rounded to the nearest one with that many digits.
FloatMeaning(d) ==
    LET p == IF d.prec < 0 THEN 6 ELSE d.prec
        flags == ToSet(d.flags)
        nearest == (2 * d.value.num * 10^p + d.value.den) \div (2 * d.value.den)
        decimals == Numeral(nearest % 10^p, 10, Lower)
        sign == IF d.value.neg THEN <<"-">>
                ELSE IF "+" \in flags THEN <<"+">>
                ELSE IF " " \in flags THEN <<" ">> ELSE <<>>
        text == Numeral(nearest \div 10^p, 10, Lower)
                \o (IF p = 0 THEN <<>>
                    ELSE <<".">> \o Times(p - Len(decimals), "0") \o decimals)
        zeros == IF "0" \in flags /\ "-" \notin flags THEN d.width - Len(sign \o text) ELSE 0
    IN  InField(sign \o Times(zeros, "0") \o text, d)

Meaning(item) ==
    CASE ~IsDirective(item) -> <<item.char>>
      [] IsDirective(item) /\ item.conv \in IntConv -> IntMeaning(item)
      [] IsDirective(item) /\ item.conv = "s" -> StrMeaning(item)
      [] IsDirective(item) /\ item.conv = "f" -> FloatMeaning(item)
      [] IsDirective(item) /\ item.conv = "c" -> <<item.value>>
      [] IsDirective(item) /\ item.conv = "%" -> <<"%">>
      [] OTHER -> <<>>

\* The modifiers that C has for a conversion.
ModsOf(conv) ==
    CASE conv \in (IntConv \ {"p"}) \cup {"n"} -> {<<>>, <<"h">>, <<"l">>}
      [] conv = "f" -> {<<>>, <<"l">>, <<"L">>}
      [] OTHER -> {<<>>}

\* The directives that are printed as in C.  The others: 0 together with - or with
\* a precision, a precision of 0 for the number 0, a width from an argument
\* below 0, a character in a wide field, a string in a field that is wider than its
\* precision, a # that C would write a prefix or a point for, an address that is in
\* the upper half of the memory or printed with a sign, a number with h that is none
\* of a short, which C makes it, and the directives that are not supported.  Of %f:
\* a fraction that starts with a 0 but is not 0, more than 9 digits, half of a last
\* digit, and a field that has room left for a number without a point, or for a sign
\* in front of zeros.
AsInC(d) ==
    /\ d.conv \notin {"e", "g", "w"}
    /\ d.mod \in ModsOf(d.conv)
    /\ d.conv \in {"d", "i"} /\ d.mod = <<"h">> => Signed(d.value) = ToShort(d.value)
    /\ d.conv \in {"u", "o", "x", "X"} /\ d.mod = <<"h">> => d.value < Short
    /\ d.conv = "p" => Signed(d.value) >= 0 /\ {"+", " "} \cap ToSet(d.flags) = {}
    /\ d.width >= 0
    /\ d.conv = "c" => d.width <= 1
    /\ d.conv \in {"o", "x", "X", "p", "f"} => "#" \notin ToSet(d.flags)
    /\ d.conv \in IntConv =>
          /\ "0" \in ToSet(d.flags) => "-" \notin ToSet(d.flags) /\ d.prec < 0
          /\ d.prec = 0 => d.value # 0
    /\ d.conv = "s" => d.prec < 0 \/ (d.width <= d.prec /\ d.value # Null)
    /\ d.conv = "f" =>
          LET p == IF d.prec < 0 THEN 6 ELSE d.prec
              decimals == ((2 * d.value.num * 10^p + d.value.den) \div (2 * d.value.den)) % 10^p
          IN  /\ p <= 9
              /\ (2 * d.value.num * 10^p) % (2 * d.value.den) # d.value.den
              /\ p > 0 => decimals = 0 \/ 10 * decimals >= 10^p
              /\ p = 0 => d.width <= 1
              /\ "0" \in ToSet(d.flags) => ~d.value.neg /\ {"+", " "} \cap ToSet(d.flags) = {}

(***************************************************************************)
(* fmtint(), fmtstr() and fmtfp().                                         *)
(***************************************************************************)

\* The digits of u, the least significant first; at most 20 are converted.
Rests(u, b) ==
    LET rest[n \in 0 .. 20] == IF n = 0 THEN u ELSE rest[n - 1] \div b
    IN  rest

PlaceIn(size, u, b) ==
    LET rest == Rests(u, b)
        place == CHOOSE n \in 1 .. size : /\ rest[n] = 0 \/ n = size
                                          /\ \A m \in 1 .. n - 1 : rest[m] # 0
    IN  IF place = size THEN size - 1 ELSE place

\* With a smaller array.
PlaceTight(u, b) == PlaceIn(3, u, b)

Place(u, b) == PlaceIn(20, u, b)

Convert(u, b, caps) ==
    [i \in 0 .. Place(u, b) - 1 |-> (IF caps THEN Upper ELSE Lower)[(Rests(u, b)[i] % b) + 1]]

Digits(u, b, caps) ==
    [j \in 1 .. Place(u, b) |-> Convert(u, b, caps)[Place(u, b) - j]]

\* A number: blanks, sign, zeros, digits, blanks.
FmtInt(value, b, mn, mx, fl) ==
    LET sign == IF "unsigned" \in fl THEN <<>>
                ELSE IF value < 0 THEN <<"-">>
                ELSE IF "+" \in fl THEN <<"+">>
                ELSE IF " " \in fl THEN <<" ">> ELSE <<>>
        u == (IF sign = <<"-">> THEN 0 - value ELSE value) % Word
        place == Place(u, b)
        zeros == Larger(Larger(mx, 0) - place, 0)
        room == Larger(mn - Larger(Larger(mx, 0), place) - Len(sign), 0)
        zpadlen == IF "0" \in fl THEN Larger(zeros, room) ELSE zeros
        spaces == Times(IF "0" \in fl THEN 0 ELSE room, " ")
    IN  (IF "-" \in fl THEN <<>> ELSE spaces)
        \o sign
        \o Times(zpadlen, "0")
        \o Digits(u, b, "caps" \in fl)
        \o (IF "-" \in fl THEN spaces ELSE <<>>)

\* A string: what is counted against max includes the blanks.
FmtStr(value, fl, mn, mx) ==
    LET text == IF value = Null THEN <<"<", "N", "U", "L", "L", ">">> ELSE value
        blanks == Times(Larger(mn - Len(text), 0), " ")
        all == IF "-" \in fl THEN text \o blanks ELSE blanks \o text
    IN  SubSeq(all, 1, Smaller(mx, Len(all)))

\* xround() of num / den.
Xround(num, den) == (num \div den) + (IF 2 * (num % den) >= den THEN 1 ELSE 0)

\* A floating point number.  Both parts are converted as numbers, so the zeros that
\* a fraction starts with are lost, and as many are put behind it.
FmtFp(value, mn, mx, fl) ==
    LET p == IF mx < 0 THEN 6 ELSE Smaller(mx, 9)
        sign == IF value.neg THEN <<"-">>
                ELSE IF "+" \in fl THEN <<"+">>
                ELSE IF " " \in fl THEN <<" ">> ELSE <<>>
        rounded == Xround(10^p * (value.num % value.den), value.den)
        carry == IF rounded >= 10^p THEN 1 ELSE 0
        int == Digits((value.num \div value.den) + carry, 10, FALSE)
        frac == Digits(rounded - carry * 10^p, 10, FALSE)
        room == Larger(mn - Len(int) - p - 1 - Len(sign), 0)
        zeros == IF "0" \notin fl \/ "-" \in fl \/ room = 0 THEN 0 ELSE room - Len(sign)
        blanks == IF "0" \in fl THEN <<>> ELSE Times(room, " ")
    IN  (IF "-" \in fl THEN <<>> ELSE blanks)
        \o sign
        \o Times(zeros, "0")
        \o int
        \o (IF p > 0 THEN <<".">> \o frac ELSE <<>>)
        \o Times(p - Len(frac), "0")
        \o (IF "-" \in fl THEN Times(room, " ") ELSE <<>>)

(***************************************************************************)
(* dopr().                                                                 *)
(***************************************************************************)

VARIABLES
    program, maxlen,    \* what is formatted, and the limit
    format, args,       \* its format and its arguments
    state,              \* of the loop
    pos,                \* the place of ch in the format
    next,               \* the argument that va_arg() gives next
    flags, min, max,
    cflags,             \* the modifier, if any
    out,                \* what was put in the buffer; currlen is its length
    stored              \* what %n has stored

given == <<program, maxlen, format, args>>
spec == <<flags, min, max, cflags>>
vars == <<given, state, pos, next, spec, out, stored>>

\* The format has been left: its terminator was skipped.
Overrun == pos > Len(format) + 1

ch == IF pos <= Len(format) THEN format[pos]
      ELSE IF pos - Len(format) - 1 \in DOMAIN program.behind
           THEN program.behind[pos - Len(format) - 1] ELSE Nul

\* va_arg(): the next argument, or what lies there that is of that kind.
Arg(kind) == IF Overrun THEN program.left[kind] ELSE args[next]

Init ==
    /\ program \in Programs /\ maxlen \in Limits
    /\ format = LET spelled == Spelled(program.items)
                IN  SubSeq(spelled, 1, Smaller(program.cut, Len(spelled)))
    /\ args = Args(program.items)
    /\ state = "default" /\ pos = 1 /\ next = 1
    /\ flags = {} /\ min = 0 /\ max = -1 /\ cflags = "none"
    /\ out = <<>> /\ stored = <<>>

\* The end that is noticed between two directives only.
AtEndOfText == state = "default" /\ (ch = Nul \/ Len(out) >= maxlen)

AtEnd == ch = Nul \/ Len(out) >= maxlen

In(s) == state = s /\ ~AtEnd /\ UNCHANGED given

GoOn(s, n) == state' = s /\ pos' = pos + n

\* if ((ch == '\0') || (currlen >= maxlen)) state = DP_S_DONE
Finish ==
    /\ state # "done" /\ AtEnd
    /\ state' = "done"
    /\ UNCHANGED <<given, pos, next, spec, out, stored>>

Default ==
    /\ In("default")
    /\ IF ch = "%" THEN GoOn("flags", 1) /\ UNCHANGED out
       ELSE GoOn("default", 1) /\ out' = Append(out, ch)
    /\ UNCHANGED <<next, spec, stored>>

Flags ==
    /\ In("flags")
    /\ IF ch \in FlagChars
       THEN GoOn("flags", 1) /\ flags' = flags \cup {ch}
       ELSE GoOn("min", 0) /\ UNCHANGED flags
    /\ UNCHANGED <<next, min, max, cflags, out, stored>>

Width ==
    /\ In("min")
    /\ \/ /\ isdigit(ch)
          /\ min' = 10 * min + Number[ch]
          /\ GoOn("min", 1) /\ UNCHANGED next
       \/ /\ ch = "*"
          /\ min' = Arg("star") /\ next' = next + 1
          /\ GoOn("dot", 1)
       \/ /\ ~isdigit(ch) /\ ch # "*"
          /\ GoOn("dot", 0) /\ UNCHANGED <<min, next>>
    /\ UNCHANGED <<flags, max, cflags, out, stored>>

Dot ==
    /\ In("dot")
    /\ IF ch = "." THEN GoOn("max", 1) ELSE GoOn("mod", 0)
    /\ UNCHANGED <<next, spec, out, stored>>

Precision ==
    /\ In("max")
    /\ \/ /\ isdigit(ch)
          /\ max' = 10 * Larger(max, 0) + Number[ch]
          /\ GoOn("max", 1) /\ UNCHANGED next
       \/ /\ ch = "*"
          /\ max' = Arg("star") /\ next' = next + 1
          /\ GoOn("mod", 1)
       \/ /\ ~isdigit(ch) /\ ch # "*"
          /\ GoOn("mod", 0) /\ UNCHANGED <<max, next>>
    /\ UNCHANGED <<flags, min, cflags, out, stored>>

\* The arguments that cflags tells apart have the same width here, also those with h,
\* which a caller passes as an int; only what %n stores depends on it.
Mod ==
    /\ In("mod")
    /\ IF ch \in {"h", "l", "L"}
       THEN GoOn("conv", 1) /\ cflags' = ch
       ELSE GoOn("conv", 0) /\ UNCHANGED cflags
    /\ UNCHANGED <<next, flags, min, max, out, stored>>

\* One argument or none is printed.
Put(text, taken) ==
    /\ out' = out \o text
    /\ next' = next + taken
    /\ UNCHANGED stored

Integer ==
    /\ ch \in IntConv
    /\ Put(FmtInt(Signed(Arg("number")), BaseOf(ch), min, max,
                  flags \cup (IF ch \in {"o", "u", "x", "X"} THEN {"unsigned"} ELSE {})
                        \cup (IF ch = "X" THEN {"caps"} ELSE {})), 1)

String ==
    /\ ch = "s"
    /\ Put(FmtStr(Arg("text"), flags, min, IF max < 0 THEN maxlen ELSE max), 1)

Float == ch = "f" /\ Put(FmtFp(Arg("real"), min, max, flags), 1)

\* %n stores currlen where its argument points to, %hn as a short.
Count ==
    /\ ch = "n"
    /\ stored' = Append(stored, IF cflags = "h" THEN ToShort(Len(out)) ELSE Len(out))
    /\ next' = next + 1
    /\ UNCHANGED out

Other ==
    \/ ch = "c" /\ Put(<<Arg("char")>>, 1)
    \/ ch = "%" /\ Put(<<"%">>, 0)
    \/ ch \in {"e", "E", "g", "G"} /\ Put(<<>>, 1)
    \/ ch \notin IntConv \cup {"s", "f", "n", "c", "%", "e", "E", "g", "G"} /\ Put(<<>>, 0)

\* The conversion that leaves the width to the next directive.
ConvKeepsMin ==
    /\ In("conv")
    /\ Integer \/ String \/ Float \/ Count \/ Other
    /\ GoOn("default", IF ch = "w" THEN 2 ELSE 1)
    /\ flags' = {} /\ max' = -1 /\ cflags' = "none" /\ UNCHANGED min

\* The conversion, and the reset for the next directive; %w skips the character
\* behind it as well, whatever that is, be it the terminator.
Conv ==
    /\ In("conv")
    /\ Integer \/ String \/ Float \/ Count \/ Other
    /\ GoOn("default", IF ch = "w" THEN 2 ELSE 1)
    /\ flags' = {} /\ min' = 0 /\ max' = -1 /\ cflags' = "none"

\* The formatter returns.
Returned == state = "done" /\ UNCHANGED vars

Next == Default \/ Flags \/ Width \/ Dot \/ Precision \/ Mod \/ Conv \/ Finish \/ Returned

Spec == Init /\ [][Next]_vars

(***************************************************************************)
(* Properties.                                                             *)
(***************************************************************************)

States == {"default", "flags", "min", "dot", "max", "mod", "conv", "done"}

TypeOK ==
    /\ state \in States
    /\ pos \in Nat \ {0} /\ next \in Nat \ {0}
    /\ flags \subseteq FlagChars /\ min \in Int /\ max \in Int
    /\ out \in Seq(STRING)
    /\ cflags \in {"none", "h", "l", "L"}
    /\ stored \in Seq(Int)

\* dopr() never looks behind the terminator of the format, wherever the format
\* breaks off, but for a format that ends in %w; and as long as it has not, it never
\* asks for an argument that the caller of a complete format has not given.
Inside ==
    /\ Overrun => Last(format) = "w"
    /\ ~Overrun => next <= Len(args) + 1

Inv == TypeOK /\ Inside

Complete == program.cut >= Len(Spelled(program.items))

\* What the first n items of the program print.
Text(n) == FlattenSeq([i \in 1 .. n |-> Meaning(program.items[i])])

\* What C wants %n, or %hn, to store behind a text.
CountMeaning(d, text) == IF d.mod = <<"h">> THEN ToShort(Len(text)) ELSE Len(text)

AllAsInC == \A i \in DOMAIN program.items :
                IsDirective(program.items[i]) => AsInC(program.items[i])

\* A format with directives that are supported prints what C wants, argument by
\* argument, and stops after the first item that has reached the limit (a string
\* without a precision is cut at the limit as well).  %n stores what was printed before it.
Formatted ==
    state = "done" /\ Complete /\ AllAsInC =>
        LET items == program.items
            n == IF \E i \in DOMAIN items : Len(Text(i)) >= maxlen
                 THEN CHOOSE i \in DOMAIN items :
                          Len(Text(i)) >= maxlen /\ Len(Text(i - 1)) < maxlen
                 ELSE Len(items)
            text == IF IsDirective(items[n]) /\ items[n].conv = "s" /\ items[n].prec < 0
                    THEN Text(n - 1) \o SubSeq(Meaning(items[n]), 1,
                                               Smaller(maxlen, Len(Meaning(items[n]))))
                    ELSE Text(n)
        IN  /\ out = text
            /\ \A i \in DOMAIN stored :
                  \E j \in DOMAIN items :
                      /\ IsDirective(items[j]) /\ items[j].conv = "n"
                      /\ stored[i] = CountMeaning(items[j], Text(j - 1))

\* "the formatter understands just about everything from the normal C string format"
\* and "added some minimal floating point support" (src/kernel/snprintf.cc): %f prints
\* the number that it is given.
FloatsAsInC == state = "done" /\ Complete => out = Text(Len(program.items))

\* The value of a text with blanks, a sign and digits.
DigitOf(c) == IF c \in ToSet(Lower) THEN Number[c]
              ELSE (CHOOSE i \in DOMAIN Upper : Upper[i] = c) - 1

Read(text, b) ==
    LET number[n \in 0 .. Len(text)] ==
            IF n = 0 THEN 0
            ELSE IF text[n] \in {" ", "+", "-"} THEN number[n - 1]
            ELSE b * number[n - 1] + DigitOf(text[n])
    IN  IF "-" \in ToSet(text) THEN 0 - number[Len(text)] ELSE number[Len(text)]

\* Whatever flags, width and precision a number is printed with, as in C or not,
\* what is put in the buffer reads back as that number.
ReadsBack ==
    [][state = "conv" /\ ~AtEnd /\ ch \in IntConv =>
          Read(SubSeq(out', Len(out) + 1, Len(out')), BaseOf(ch)) % Word = Arg("number")]_vars
=============================================================================
