------------------------------ MODULE MCFormat ------------------------------
(***************************************************************************)
(* Format with eight-bit numbers.                                          *)
(***************************************************************************)
EXTENDS Format

None      == [by |-> "none", n |-> 0]
ByDigits(n) == [by |-> "digits", n |-> n]
Star(n)   == [by |-> "star", n |-> n]

D(flags, zero, width, p, conv, arg) ==
    [flags |-> flags, zero |-> zero, width |-> width, prec |-> p, size |-> <<>>,
     conv |-> conv, arg |-> arg]

Flags  == {<<>>, <<"-">>, <<"+">>, <<"#">>, <<" ">>, <<"#", "-">>, <<"+", "-">>, <<" ", "+">>}
Widths == {None, ByDigits(3), ByDigits(12), Star(6), Star(-6)}

NumberCalls ==
    {<<D(f, z, w, None, v, <<Num(n)>>)>> :
        f \in Flags, z \in BOOLEAN, w \in Widths,
        v \in {"d", "u", "x", "X", "o", "p", "Z", "n"}, n \in {0, 1, 100, 127, 128, 255}}

Strings == {Null, Str(<<>>), Str(<<"h", "i">>), Str(<<"h", "e", "l", "l", "o">>)}

StringCalls ==
    {<<D(f, FALSE, w, p, "s", <<s>>)>> :
        f \in {<<>>, <<"-">>}, w \in {None, ByDigits(3), ByDigits(10), Star(-4)},
        p \in {None, ByDigits(0), ByDigits(2), Star(4), ByDigits(11), Star(-1), Star(-2)}, s \in Strings}

(* Calls of two conversions: what the first leaves behind. *)
PairCalls ==
    LET Firsts == {D(<<"-", "#", "+">>, TRUE, Star(4), Star(2), "x", <<Num(7)>>),
                   D(<<"-">>, FALSE, ByDigits(3), ByDigits(1), "s", <<Str(<<"h", "i">>)>>),
                   D(<<>>, FALSE, None, None, "c", <<Num(65)>>),
                   D(<<>>, FALSE, ByDigits(2), None, "%", <<>>),
                   D(<<>>, FALSE, None, None, "b", <<Num(6), Names(8,
                       << [i |-> 2, j |-> 0, name |-> <<"R">>], [i |-> 1, j |-> 0, name |-> <<"W">>],
                          [i |-> 4, j |-> 3, name |-> <<"n", "=">>] >>)>>),
                   D(<<>>, FALSE, None, None, "B", <<Num(6), Names(16,
                       << [i |-> 30, j |-> 0, name |-> <<"X">>] >>)>>) }
        Seconds == {D(<<>>, FALSE, ByDigits(4), None, "d", <<Num(n)>>) : n \in {0, 255}}
                       \cup {D(<<>>, FALSE, ByDigits(4), None, "s", <<Str(<<"h", "e", "l", "l", "o">>)>>)}
        Long    == [D(<<>>, FALSE, None, None, "x", <<Num(200)>>) EXCEPT !.size = <<"l">>]
        Ends    == {D(<<"-">>, z, w, p, "missing", <<>>) :
                       z \in BOOLEAN, w \in {None, ByDigits(3)}, p \in {None, ByDigits(2)}}
    IN  {<<a, b>> : a \in Firsts \cup Seconds, b \in Firsts \cup Seconds \cup Ends \cup {Long}}

MCCalls == NumberCalls \cup StringCalls \cup PairCalls

=============================================================================
