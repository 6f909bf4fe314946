----------------------------- MODULE MCLibrary -----------------------------
(***************************************************************************)
(* The library on small inputs: all arrays of up to five elements, every   *)
(* conversion of vsnprintf with the flags, widths and precisions that      *)
(* change it and buffers that cut it anywhere, strings that end on either  *)
(* side of a word boundary, lists of three entries on two heads.           *)
(***************************************************************************)
EXTENDS Library

\* An argument of vsnprintf: what va_arg yields as a number or a pointer, as a
\* character, as a string, as the bytes a pointer points to.
Arg(n) == [num |-> n, char |-> "q", text |-> <<"a", "b", "c", "d">>,
           bytes |-> <<1, 127, 128, 255, 16, 10>>]

\* width and precision: as written, and their values (-1 if there is none).
Directive(flags, width, precision, qualifier, conversion, extension, stars, n) ==
  [lead |-> <<>>, flags |-> flags, width |-> width[1], widthValue |-> width[2],
   precision |-> precision[1], precisionValue |-> precision[2], qualifier |-> qualifier,
   conversion |-> conversion, extension |-> extension, stars |-> stars,
   arg |-> Arg(n), trail |-> <<"!">>]

None == << <<>>, -1>>

IntegerDirectives ==
  {Directive(f, w, p, q, c, <<>>, <<>>, n) :
     f \in {<<>>, <<"-">>, <<"0">>, <<"#">>, <<"+">>, <<" ">>, <<"#", "0">>, <<"-", "0">>,
            <<"+", "0">>, <<" ", "+">>},
     w \in {None, << <<"6">>, 6>>}, p \in {None, << <<".", "3">>, 3>>},
     q \in {<<>>, <<"h", "h">>}, c \in {"d", "u", "x", "X", "o"}, n \in {0, 255, -200}}

\* A precision of zero, written and implied.
ZeroPrecisionDirectives ==
  {Directive(f, w, p, <<>>, c, <<>>, <<>>, n) :
     f \in {<<>>, <<"0">>, <<"#">>}, w \in {None, << <<"4">>, 4>>},
     p \in {<< <<".">>, -1>>, << <<".", "0">>, 0>>}, c \in {"d", "x", "o"}, n \in {0, 56}}

QualifierDirectives ==
  {Directive(<<>>, None, None, q, c, <<>>, <<>>, n) :
     q \in {<<"l">>, <<"l", "l">>, <<"z">>, <<"t">>, <<"h">>, <<"L">>}, c \in {"i", "u"},
     n \in {100, 32768, -12345678, 100000007}}

TextDirectives ==
  {Directive(f, w, p, <<>>, c, <<>>, <<>>, n) :
     f \in {<<>>, <<"-">>},
     w \in {None, << <<"2">>, 2>>, << <<"6">>, 6>>, << <<"1", "2">>, 12>>},
     p \in {None, << <<".">>, -1>>, << <<".", "0">>, 0>>, << <<".", "3">>, 3>>},
     c \in {"s", "c"}, n \in {0, 1}}

PointerDirectives ==
  {Directive(f, w, None, <<>>, "p", e, <<>>, n) :
     f \in {<<>>, <<"-">>, <<"#">>}, w \in {None, << <<"2">>, 2>>, << <<"4">>, 4>>},
     e \in {<<>>, <<"S">>, <<"F", "R">>, <<"h">>, <<"h", "C">>, <<"h", "D">>, <<"h", "N">>,
            <<"M">>, <<"M", "F">>, <<"M", "R">>, <<"m">>, <<"x">>},
     n \in {0, 4660}}

StarDirectives ==
  {Directive(f, <<w, -1>>, <<p, -1>>, <<>>, c, IF c = "p" THEN <<"h">> ELSE <<>>,
             [k \in 1 .. (Len(w) + Len(p) \div 2) |-> Arg(IF k = 1 THEN v ELSE v2)], 77) :
     f \in {<<>>, <<"0">>}, w \in {<<>>, <<"*">>}, p \in {<<>>, <<".", "*">>},
     c \in {"d", "s", "c", "p"}, v \in {-6, -1, 0, 3, 6}, v2 \in {-1, 0, 2, 5}}

OtherDirectives ==
  {[Directive(<<>>, None, None, q, c, <<>>, <<>>, 1) EXCEPT !.lead = <<"o", "k", " ">>] :
     q \in {<<>>, <<"l">>}, c \in {"n", "%", "a", "d"}}

MCDirectives == IntegerDirectives \cup ZeroPrecisionDirectives \cup QualifierDirectives \cup TextDirectives
                  \cup PointerDirectives \cup StarDirectives \cup OtherDirectives

\* %#x of zero.
C99Directives == {Directive(<<"#">>, None, None, <<>>, "x", <<>>, <<>>, 0)}

\* A filler, a NUL at a position (or none), another filler.
MCSources ==
  {[k \in 0 .. (SourceSize - 1) |-> IF k < z THEN f ELSE IF k = z THEN 0 ELSE t] :
     f \in {1, 127, 128}, t \in {0, 1, 255}, z \in {0, 1, 6, 7, 8, 15, 16, SourceSize}}

MCHexSources ==
  {<<x, y>> : x, y \in {47, 48, 57, 58, 64, 65, 70, 71, 96, 97, 102, 103, 200}}
    \cup {<<52, 66, x, 102>> : x \in {48, 71}}

MCBinSources == {<<x, y>> : x, y \in {0, 9, 10, 15, 16, 159, 255}}

Limbs == {0, 1, 9, 10, 99, 100, 101, 9999, 10000, 999999, 1000000, 12345678, 99999900, 99999999}
MCNumbers == {<<x, y, z>> : x, y \in Limbs, z \in {0, 1, 10, 100, 1843}}
=============================================================================
