------------------------------- MODULE Format -------------------------------
(***************************************************************************)
(* common/printk.c, _doprnt: the interpreter of format strings behind      *)
(* printf.  A format is a sequence of characters; one step looks at one    *)
(* character, or performs one conversion.  What it puts is kept in pieces, *)
(* one for each conversion and each plain character.                       *)
(***************************************************************************)
EXTENDS Integers, Sequences, SequencesExt

CONSTANTS
    Half,       \* half the patterns of a natlong_t: 2^31 or 2^63
    radix,      \* the default radix: 16 in printf
    Calls       \* the calls there may be, as sequences of directives

ASSUME WordAssumption == Half \in Nat \ {0} /\ radix \in 2 .. 16

(* Arguments: bit patterns (natlong_t), pointers to strings, and pointers  *)
(* to the descriptions %b takes.                                           *)
Num(n)             == [v |-> n, str |-> <<>>, items |-> <<>>]
Str(s)             == [v |-> 1, str |-> s, items |-> <<>>]
Null               == Num(0)
Names(base, items) == [v |-> base, str |-> <<>>, items |-> items]

lower == <<"0", "1", "2", "3", "4", "5", "6", "7", "8", "9", "a", "b", "c", "d", "e", "f">>
upper == SubSeq(lower, 1, 10) \o <<"A", "B", "C", "D", "E", "F">>

isdigit(c) == \E k \in 1 .. 10 : lower[k] = c
Ctod(c)    == (CHOOSE k \in 1 .. 10 : lower[k] = c) - 1

(* u % base of each turn of the loop that divides u by base, last first. *)
Digits(u, base) ==
    LET f[v \in 0 .. u] ==
            IF v < base THEN <<v>> ELSE Append(f[v \div base], (v % base))
    IN  f[u]

(* Variant: the digits in the order the divisions give them. *)
Backwards(u, base, digits) ==
    LET ds == Reverse(Digits(u, base)) IN [k \in DOMAIN ds |-> digits[ds[k] + 1]]

Rendered(u, base, digits) ==
    LET ds == Digits(u, base) IN [k \in DOMAIN ds |-> digits[ds[k] + 1]]

printnum(u, base) == Rendered(u, base, lower)

FlagChars   == {"#", "-", "+", " "}
SignedConvs == {"d", "D", "z", "Z", "r", "R"}
NumberConvs == SignedConvs \cup {"o", "O", "u", "U", "p", "x", "X", "n", "N"}

(* A call is made of directives, each with the arguments it takes; width   *)
(* and precision are absent, in the format, or passed for a * in it.  Only *)
(* in the last directive may the conversion be missing.                    *)
Arguments  == [v : 0 .. 2 * Half - 1, str : Seq(STRING),
               items : Seq([i : 1 .. 32, j : 0 .. 32, name : Seq(STRING)])]
Fields     == [by : {"none", "digits", "star"}, n : Int]
Directives == [flags : Seq(FlagChars), zero : BOOLEAN, width : Fields, prec : Fields,
               size : {<<>>, <<"l">>}, arg : Seq(Arguments),
               conv : NumberConvs \cup {"s", "c", "b", "B", "%", "missing"}]

Taken(conv) ==
    IF conv \in NumberConvs \cup {"s", "c"} THEN 1 ELSE IF conv \in {"b", "B"} THEN 2 ELSE 0

WellFormed(d) ==
    /\ d \in Directives
    /\ d.width.by = "none"   => d.width.n = 0
    /\ d.width.by = "digits" => d.width.n \in 1 .. 99
    /\ d.width.by = "star"   => d.width.n \in 1 - Half .. Half - 1
    /\ d.prec.by  = "digits" => d.prec.n \in 0 .. 99
    /\ d.prec.by  = "star"   => d.prec.n \in -Half .. Half - 1
    /\ Len(d.arg) = Taken(d.conv)
    /\ d.conv = "s" /\ d.arg[1].v = 0 => d.arg[1].str = <<>>

ASSUME CallAssumption ==
    \A cs \in Calls :
        /\ cs \in Seq(Directives)
        /\ \A k \in DOMAIN cs : WellFormed(cs[k]) /\ (cs[k].conv = "missing" => k = Len(cs))

-----------------------------------------------------------------------------

VARIABLES
    call,       \* the directives
    fmt, pos,   \* the format and the position in it
    args, ap,   \* the arguments and the next one
    phase,      \* the part of _doprnt
    length, prec, ladjust, padc, plus_sign, altfmt,
    out         \* the pieces put

spec == <<length, prec, ladjust, padc, plus_sign, altfmt>>
vars == <<call, fmt, pos, args, ap, phase, spec, out>>

Number(n) == IF n < 10 THEN <<lower[n + 1]>> ELSE <<lower[(n \div 10) + 1], lower[(n % 10) + 1]>>

Field(mark, f) ==
    CASE f.by = "none"   -> <<>>
      [] f.by = "digits" -> mark \o Number(f.n)
      [] f.by = "star"   -> mark \o <<"*">>

Pattern(n) == n % (2 * Half)

(* The format and the arguments of a call; a colon ends each directive.    *)
Spelling(d) ==
    <<"%">> \o d.flags \o (IF d.zero THEN <<"0">> ELSE <<>>)
        \o Field(<<>>, d.width) \o Field(<<".">>, d.prec) \o d.size
        \o (IF d.conv = "missing" THEN <<>> ELSE <<d.conv, ":">>)

Passed(d) ==
    (IF d.width.by = "star" THEN <<Num(Pattern(d.width.n))>> ELSE <<>>)
        \o (IF d.prec.by = "star" THEN <<Num(Pattern(d.prec.n))>> ELSE <<>>)
        \o d.arg

Init ==
    /\ call \in Calls
    /\ fmt = FlattenSeq([k \in DOMAIN call |-> Spelling(call[k])])
    /\ args = FlattenSeq([k \in DOMAIN call |-> Passed(call[k])])
    /\ pos = 1
    /\ ap = 1
    /\ phase = "text"
    /\ length = 0 /\ prec = -1 /\ ladjust = FALSE
    /\ padc = " " /\ plus_sign = <<>> /\ altfmt = FALSE
    /\ out = <<>>

c == IF pos <= Len(fmt) THEN fmt[pos] ELSE "NUL"

(* The argument as a signed number. *)
Signed(v) == IF v < Half THEN v ELSE v - 2 * Half

Input == <<call, fmt, args>>

-----------------------------------------------------------------------------

Text ==
    /\ phase = "text"
    /\ c \notin {"%", "NUL"}
    /\ out' = Append(out, <<c>>)
    /\ pos' = pos + 1
    /\ UNCHANGED <<Input, ap, phase, spec>>

(* Variant: the precision of the last directive stays. *)
PercentKeepsPrec ==
    /\ phase = "text"
    /\ c = "%"
    /\ length' = 0 /\ ladjust' = FALSE /\ padc' = " " /\ plus_sign' = <<>> /\ altfmt' = FALSE
    /\ pos' = pos + 1
    /\ phase' = "flags"
    /\ UNCHANGED <<Input, ap, prec, out>>

Percent ==
    /\ phase = "text"
    /\ c = "%"
    /\ length' = 0
    /\ prec' = -1
    /\ ladjust' = FALSE
    /\ padc' = " "
    /\ plus_sign' = <<>>
    /\ altfmt' = FALSE
    /\ pos' = pos + 1
    /\ phase' = "flags"
    /\ UNCHANGED <<Input, ap, out>>

(* Variant: the same character again. *)
FlagStays ==
    /\ phase = "flags"
    /\ c \in FlagChars
    /\ ladjust' = (ladjust \/ c = "-")
    /\ UNCHANGED <<Input, pos, ap, phase, length, prec, padc, plus_sign, altfmt, out>>

Flag ==
    /\ phase = "flags"
    /\ c \in FlagChars
    /\ altfmt' = (altfmt \/ c = "#")
    /\ ladjust' = (ladjust \/ c = "-")
    /\ plus_sign' = IF c = "+" \/ (c = " " /\ plus_sign = <<>>) THEN <<c>> ELSE plus_sign
    /\ pos' = pos + 1
    /\ UNCHANGED <<Input, ap, phase, length, prec, padc, out>>

ZeroFlag ==
    /\ phase = "flags"
    /\ c \notin FlagChars
    /\ IF c = "0" THEN padc' = "0" /\ pos' = pos + 1 ELSE UNCHANGED <<padc, pos>>
    /\ phase' = "width"
    /\ UNCHANGED <<Input, ap, length, prec, ladjust, plus_sign, altfmt, out>>

WidthDigit ==
    /\ phase \in {"width", "width digits"}
    /\ isdigit(c)
    /\ length' = 10 * length + Ctod(c)
    /\ pos' = pos + 1
    /\ phase' = "width digits"
    /\ UNCHANGED <<Input, ap, prec, ladjust, padc, plus_sign, altfmt, out>>

WidthStar ==
    /\ phase = "width"
    /\ c = "*"
    /\ LET n == Signed(args[ap].v)
       IN  /\ length' = IF n < 0 THEN -n ELSE n
           /\ ladjust' = IF n < 0 THEN ~ladjust ELSE ladjust
    /\ ap' = ap + 1
    /\ pos' = pos + 1
    /\ phase' = "dot"
    /\ UNCHANGED <<Input, prec, padc, plus_sign, altfmt, out>>

(* Past the width, to the precision if there is a point. *)
Dot ==
    /\ \/ phase = "width" /\ ~isdigit(c) /\ c # "*"
       \/ phase = "width digits" /\ ~isdigit(c)
       \/ phase = "dot"
    /\ IF c = "." THEN phase' = "prec" /\ pos' = pos + 1
                  ELSE phase' = "size" /\ UNCHANGED pos
    /\ UNCHANGED <<Input, ap, spec, out>>

PrecDigit ==
    /\ phase \in {"prec", "prec digits"}
    /\ isdigit(c)
    /\ prec' = (IF phase = "prec" THEN 0 ELSE 10 * prec) + Ctod(c)
    /\ pos' = pos + 1
    /\ phase' = "prec digits"
    /\ UNCHANGED <<Input, ap, length, ladjust, padc, plus_sign, altfmt, out>>

(* Variant: the argument of the precision not passed over. *)
PrecStarKeepsArg ==
    /\ phase = "prec"
    /\ c = "*"
    /\ prec' = Signed(args[ap].v)
    /\ pos' = pos + 1
    /\ phase' = "size"
    /\ UNCHANGED <<Input, ap, length, ladjust, padc, plus_sign, altfmt, out>>

PrecStar ==
    /\ phase = "prec"
    /\ c = "*"
    /\ prec' = Signed(args[ap].v)
    /\ ap' = ap + 1
    /\ pos' = pos + 1
    /\ phase' = "size"
    /\ UNCHANGED <<Input, length, ladjust, padc, plus_sign, altfmt, out>>

PrecEnd ==
    /\ \/ phase = "prec" /\ ~isdigit(c) /\ c # "*"
       \/ phase = "prec digits" /\ ~isdigit(c)
    /\ phase' = "size"
    /\ UNCHANGED <<Input, pos, ap, spec, out>>

Size ==
    /\ phase = "size"
    /\ pos' = IF c = "l" THEN pos + 1 ELSE pos
    /\ phase' = "conv"
    /\ UNCHANGED <<Input, ap, spec, out>>

-----------------------------------------------------------------------------
(* The conversions. *)

(* Variant: while (--length > 0). *)
PadLess(ch, n) == [k \in 1 .. n - 1 |-> ch]

Pad(ch, n) == [k \in 1 .. n |-> ch]

(* A conversion puts a piece, takes n arguments, and the loop goes on. *)
Put(piece, n) ==
    /\ out' = Append(out, piece)
    /\ ap' = ap + n
    /\ pos' = pos + 1
    /\ phase' = "text"
    /\ UNCHANGED <<Input, spec>>

Base(conv) ==
    CASE conv \in {"o", "O"} -> 8
      [] conv \in {"d", "D", "u", "U"} -> 10
      [] conv \in {"p", "x", "X", "z", "Z"} -> 16
      [] conv \in {"r", "R", "n", "N"} -> radix

(* print_num: room is what is left of length, and each of the loops that    *)
(* pad uses it up.                                                         *)
print_num ==
    /\ phase = "conv"
    /\ c \in NumberConvs
    /\ LET v      == args[ap].v
           neg    == c \in SignedConvs /\ Signed(v) < 0
           u      == IF neg THEN Pattern(-Signed(v)) ELSE v
           sign   == IF neg THEN <<"-">> ELSE IF c \in SignedConvs THEN plus_sign ELSE <<>>
           prefix == IF u = 0 \/ ~(altfmt \/ c = "p") THEN <<>>
                     ELSE IF Base(c) = 8 THEN <<"0">>
                     ELSE IF Base(c) = 16 THEN <<"0", "x">> ELSE <<>>
           digits == Rendered(u, Base(c), IF c \in {"X", "Z"} THEN upper ELSE lower)
           room   == length - Len(digits) - Len(sign) - Len(prefix)
           blanks == IF padc = " " /\ ~ladjust THEN Pad(" ", room) ELSE <<>>
           zeros  == IF padc = "0" THEN Pad("0", room) ELSE <<>>
           behind == IF padc = " " /\ ladjust THEN Pad(" ", room) ELSE <<>>
       IN  Put(blanks \o sign \o prefix \o zeros \o digits \o behind, 1)

(* At most prec characters of the string (a negative one but -1 counts as  *)
(* none), and at most length of them if there is a length; the count that  *)
(* decides about padding behind them is one more when the string was cut.  *)
PutString ==
    /\ phase = "conv"
    /\ c = "s"
    /\ LET p      == IF args[ap].v = 0 THEN <<>> ELSE args[ap].str
           limit  == IF prec = -1 THEN Len(p) ELSE IF prec < 0 THEN 0 ELSE prec
           some   == IF Len(p) < limit THEN Len(p) ELSE limit
           cut    == IF length > 0 /\ length < limit THEN length ELSE limit
           shown  == IF Len(p) < cut THEN Len(p) ELSE cut
           n      == IF Len(p) > cut THEN cut + 1 ELSE Len(p)
           blanks == IF length > 0 /\ ~ladjust THEN Pad(" ", length - some) ELSE <<>>
           behind == IF ladjust THEN Pad(" ", length - n) ELSE <<>>
       IN  Put(blanks \o SubSeq(p, 1, shown) \o behind, 1)

PutChar ==
    /\ phase = "conv"
    /\ c = "c"
    /\ Put(<<args[ap].v>>, 1)

(* %b: the value in the base the description names, and the names of the    *)
(* bits that are set, or of bit fields with their values.  An item is         *)
(* [i, j, name], with j = 0 if it names one bit.                           *)
Named(u, base, items, big) ==
    LET Bit(x)   == IF big THEN 33 - x.i ELSE x.i
        Low(x)   == IF big THEN 32 - x.j ELSE x.j
        shown    == SelectSeq(items, LAMBDA x : x.j # 0 \/ (u \div 2^(Bit(x) - 1)) % 2 = 1)
        Value(x) == printnum((u \div 2^(Low(x) - 1)) % 2^(Bit(x) - Low(x) + 1), base)
        Item(x)  == IF x.j = 0 THEN x.name ELSE x.name \o Value(x)
    IN  FlattenSeq([k \in DOMAIN shown |->
            (IF k = 1 THEN <<"<">> ELSE <<",">>) \o Item(shown[k])])
        \o (IF shown = <<>> THEN <<>> ELSE <<">">>)

PutBits ==
    /\ phase = "conv"
    /\ c \in {"b", "B"}
    /\ LET u     == args[ap].v
           base  == args[ap + 1].v
           names == Named(u, base, args[ap + 1].items, c = "B")
       IN  Put(printnum(u, base) \o (IF u = 0 THEN <<>> ELSE names), 2)

(* Any other character is put as it is; the end of the format ends it. *)
Unknown ==
    /\ phase = "conv"
    /\ c \notin NumberConvs \cup {"s", "c", "b", "B", "NUL"}
    /\ Put(<<c>>, 0)

(* Variant: without fmt--. *)
PastTheEnd ==
    /\ phase = "conv"
    /\ c = "NUL"
    /\ pos' = pos + 1
    /\ phase' = "text"
    /\ UNCHANGED <<Input, ap, spec, out>>

EndInDirective ==
    /\ phase = "conv"
    /\ c = "NUL"
    /\ phase' = "text"
    /\ UNCHANGED <<Input, pos, ap, spec, out>>

Return ==
    /\ phase = "text"
    /\ c = "NUL"
    /\ phase' = "done"
    /\ UNCHANGED <<Input, pos, ap, spec, out>>

Next ==
    \/ Text \/ Percent \/ Flag \/ ZeroFlag \/ WidthDigit \/ WidthStar
    \/ Dot \/ PrecDigit \/ PrecStar \/ PrecEnd \/ Size
    \/ print_num \/ PutString \/ PutChar \/ PutBits \/ Unknown
    \/ EndInDirective \/ Return

Spec == Init /\ [][Next]_vars /\ WF_vars(Next)

-----------------------------------------------------------------------------

(* What follows is about the directives as they were meant, not as they    *)
(* were parsed.                                                            *)
Has(d, f) == f \in ToSet(d.flags)
Wide(d)   == IF d.width.n < 0 THEN -d.width.n ELSE d.width.n
Left(d)   == Has(d, "-") # (d.width.n < 0)
Piece(k)  == out[2 * k - 1]     \* the pieces between are the colons

Done(k) == phase = "done" /\ k \in DOMAIN call

(* The number a piece shows: its digits, read in the base, and its sign. *)
IsFigure(x)  == \E k \in 1 .. 16 : x \in {lower[k], upper[k]}
FigureOf(x)  == (CHOOSE k \in 1 .. 16 : x \in {lower[k], upper[k]}) - 1
Shown(piece, base) ==
    LET h[i \in 0 .. Len(piece)] ==
            IF i = 0 THEN 0
            ELSE IF IsFigure(piece[i]) THEN base * h[i - 1] + FigureOf(piece[i])
            ELSE h[i - 1]
        value == h[Len(piece)]
    IN  IF \E i \in DOMAIN piece : piece[i] = "-" THEN -value ELSE value

(* Every conversion of a call puts one piece and takes its own arguments,   *)
(* those of * before it included, whatever came before: afterwards none is *)
(* left and none was read twice, and the format was read to its end and    *)
(* not behind it.                                                          *)
ArgumentsInStep ==
    phase = "done" => /\ ap = Len(args) + 1
                      /\ pos = Len(fmt) + 1
                      /\ \A k \in DOMAIN call :
                            IF call[k].conv = "missing" THEN Len(out) = 2 * k - 2
                            ELSE Len(out) >= 2 * k /\ out[2 * k] = <<":">>

(* A printed number reads back as the argument, the most negative one and   *)
(* the largest unsigned one included, whatever flags and padding.          *)
ReadsBack(d, f) ==
    Shown(f, Base(d.conv)) = IF d.conv \in SignedConvs THEN Signed(d.arg[1].v) ELSE d.arg[1].v

NumbersReadBack ==
    \A k \in DOMAIN call : Done(k) /\ call[k].conv \in NumberConvs => ReadsBack(call[k], Piece(k))

(* A number's field is as wide as asked and wider only when the number is,  *)
(* with the padding on the side that was asked for, and zeros, if asked    *)
(* for, behind the sign and no more of them than fill it.                  *)
NumberField(d, f) ==
    /\ Len(f) >= Wide(d)
    /\ (\E i \in DOMAIN f : f[i] = " ") => Len(f) = Wide(d) /\ ~d.zero
    /\ IF Left(d) THEN f[1] # " " ELSE f[Len(f)] # " "
    /\ d.zero => \A i \in DOMAIN f : f[i] \in {"-", "+"} => i = 1
    /\ (~d.zero \/ Len(f) > Wide(d)) /\ ~Has(d, "#") /\ d.conv # "p" /\ d.arg[1].v # 0 =>
          \E i \in DOMAIN f : /\ f[i] \notin {"+", "-", " ", "0"}
                             /\ \A j \in 1 .. i - 1 : f[j] \in {"+", "-", " "}

NumberFields ==
    \A k \in DOMAIN call :
        Done(k) /\ call[k].conv \in NumberConvs /\ ~Has(call[k], " ") =>
            NumberField(call[k], Piece(k))

(* A string's field is as wide as asked -- except that it is one column    *)
(* short when a left-adjusted string is cut by its precision -- and never  *)
(* wider; it shows the longest part of the string that precision and       *)
(* width allow, on the side that was asked for, and blanks beside it.      *)
StringField(d, f) ==
    LET s     == d.arg[1].str
        most == d.prec.n
        limit == IF d.prec.by = "none" \/ most = -1 THEN Len(s) ELSE IF most < 0 THEN 0 ELSE most
        part  == IF limit < Len(s) THEN limit ELSE Len(s)
        shown == IF 0 < Wide(d) /\ Wide(d) < part THEN Wide(d) ELSE part
        short == Left(d) /\ part < Len(s) /\ part < Wide(d)
        at    == IF Left(d) \/ Wide(d) = 0 THEN 0 ELSE Wide(d) - shown
    IN  /\ Len(f) = IF Wide(d) = 0 THEN part ELSE IF short THEN Wide(d) - 1 ELSE Wide(d)
        /\ \A i \in DOMAIN f :
              f[i] = IF i > at /\ i <= at + shown THEN s[i - at] ELSE " "

StringFields ==
    \A k \in DOMAIN call : Done(k) /\ call[k].conv = "s" => StringField(call[k], Piece(k))

(* Every call returns, also when the format ends inside a directive. *)
Returns == <>(phase = "done")

=============================================================================
