------------------------------ MODULE Vsprintf ------------------------------
(***************************************************************************)
(* vsnprintf() and vscnprintf() of lib/vsprintf.c, which printk() formats  *)
(* every message with.                                                     *)
(*                                                                         *)
(* The format is a sequence of characters (one-character strings), the     *)
(* buffer a function from offsets to characters.  As in the code `str' may *)
(* run past the end of the buffer: what is written there is dropped, and   *)
(* still counted.  One iteration of the loop over the format is one step.  *)
(*                                                                         *)
(* A call is drawn from Directives: the format string is the rendering of  *)
(* a directive between ordinary text, so that its meaning is known without *)
(* format_decode.                                                          *)
(***************************************************************************)
EXTENDS PutDec, SequencesExt

CONSTANTS
  Directives,  \* the calls: records with the fields of Directive below
  Sizes,       \* bound: values of the argument size
  Tops,        \* bound: bytes from the buffer to the end of the address space
  Cells,       \* bound: bytes of the buffer and what follows it
  IntBits,     \* bound: width of int
  LongBits,    \* bound: width of long, long long and pointers
  INT_MAX      \* bound: the largest size that is accepted

VARIABLES
  directive,   \* the directive the format renders
  fmt, fpos,   \* the format string and the next character of it
  spec,        \* struct printf_spec
  args,        \* the arguments not yet fetched
  str,         \* the offset of the next character of output
  out,         \* the buffer
  size, top,   \* its size, and the bytes up to the end of the address space
  fpc,         \* "entry", "format", "out", "returned"
  ret, retc    \* what vsnprintf and vscnprintf return

vsVars == <<directive, fmt, fpos, spec, args, str, out, size, top, fpc, ret, retc>>

NUL == "NUL"
Garbage == "garbage"
Digits == <<"0", "1", "2", "3", "4", "5", "6", "7", "8", "9">>
hex_asc == Digits \o <<"a", "b", "c", "d", "e", "f">>
hex_asc_upper == Digits \o <<"A", "B", "C", "D", "E", "F">>
Letters == {"C", "D", "F", "M", "N", "R", "S", "X", "a", "c", "d", "h", "i", "l",
            "m", "o", "p", "s", "t", "u", "x", "z"}

isdigit(c) == c \in Range(Digits)
isalnum == Range(Digits) \cup Letters

Char(p) == IF p <= Len(fmt) THEN fmt[p] ELSE NUL

\* The first position from p on whose character is not in S.
SkipOver(p, S) == CHOOSE q \in p .. (Len(fmt) + 1) :
                    /\ Char(q) \notin S
                    /\ \A k \in p .. (q - 1) : Char(k) \in S

Maximum(x, y) == IF x > y THEN x ELSE y
Minimum(x, y) == IF x < y THEN x ELSE y
Repeat(c, n) == [k \in 1 .. Maximum(n, 0) |-> c]

\* The value of the low w bits of x, unsigned and signed.
Unsigned(x, w) == x % (2^w)
Signed(x, w) == LET u == x % (2^w) IN IF u >= 2^(w - 1) THEN u - 2^w ELSE u

-----------------------------------------------------------------------------
(***************************************************************************)
(* Output.  end is the offset of the first byte behind the buffer: an      *)
(* `end' that wraps around is moved back to the last address.              *)
(***************************************************************************)
end == IF size >= top THEN top - 1 ELSE size

\* if (buf < end) *buf = c; ++buf; for each character.
Put(b, at, chars) ==
  [k \in DOMAIN b |-> IF k >= at /\ k < at + Len(chars) /\ k < end
                      THEN chars[k - at + 1] ELSE b[k]]


move_right(b, at, len, spaces) ==
  IF at >= end THEN b
  ELSE LET room == end - at
           moved == Minimum(len, room - spaces)
       IN  IF room <= spaces THEN Put(b, at, Repeat(" ", room))
           ELSE [k \in DOMAIN b |->
                   IF k >= at /\ k < at + spaces THEN " "
                   ELSE IF k >= at + spaces /\ k < at + spaces + moved
                        THEN b[k - spaces] ELSE b[k]]

\* The conversions return the buffer and the next position.
Result(b, at) == [b |-> b, at |-> at]
Emit(b, at, chars) == Result(Put(b, at, chars), at + Len(chars))

\* at: the position behind a string of n characters that was put already.
widen_string(b, at, n, sp) ==
  LET spaces == sp.field_width - n
  IN  CASE n >= sp.field_width -> Result(b, at)
        [] n < sp.field_width /\ "LEFT" \notin sp.flags ->
             Result(move_right(b, at - n, n, spaces), at + spaces)
        [] n < sp.field_width /\ "LEFT" \in sp.flags ->
             Emit(b, at, Repeat(" ", spaces))

\* The precision is the most characters taken; -1, as a size_t, is no limit.
string(b, at, s, sp) ==
  LET len == IF sp.precision < 0 THEN Len(s) ELSE Minimum(Len(s), sp.precision)
  IN  widen_string(Put(b, at, SubSeq(s, 1, len)), at + len, len, sp)

NullText == <<"(", "n", "u", "l", "l", ")">>

\* tmp[] of number(), most significant digit first.
NumberDigits(num, base, small) ==
  LET shift == IF base = 16 THEN 4 ELSE 3
      count == CHOOSE n \in 1 .. LongBits :
                 /\ num < 2^(Minimum(shift * n, LongBits))
                 /\ (n = 1 \/ num >= 2^(shift * (n - 1)))
      table == IF small THEN hex_asc ELSE hex_asc_upper
      tmp == IF num < base THEN <<num>>
             ELSE IF base # 10
                  THEN [k \in 1 .. count |-> (num \div 2^(shift * (k - 1))) % base]
                  ELSE put_dec(<<num % TenToEight, num \div TenToEight, 0>>)
  IN  [k \in DOMAIN tmp |-> table[tmp[Len(tmp) + 1 - k] + 1]]

\* num is an unsigned long long.
number(b, at, num, sp) ==
  LET left == "LEFT" \in sp.flags
      zeropad == "ZEROPAD" \in sp.flags /\ ~left
      negative == "SIGN" \in sp.flags /\ num >= 2^(LongBits - 1)
      small == "SMALL" \in sp.flags
      sign == CASE negative -> <<"-">>
                [] ~negative /\ {"SIGN", "PLUS"} \subseteq sp.flags -> <<"+">>
                [] ~negative /\ {"SIGN", "SPACE"} \subseteq sp.flags
                     /\ "PLUS" \notin sp.flags -> <<" ">>
                [] OTHER -> <<>>
      prefix == CASE "SPECIAL" \in sp.flags /\ sp.base = 16 ->
                       <<"0", IF small THEN "x" ELSE "X">>
                  [] "SPECIAL" \in sp.flags /\ sp.base = 8 /\ num # 0 -> <<"0">>
                  [] OTHER -> <<>>
      digits == NumberDigits(IF negative THEN Unsigned(-num, LongBits) ELSE num,
                             sp.base, small)
      precision == Maximum(Len(digits), sp.precision)
      padding == sp.field_width - Len(sign) - Len(prefix) - precision
  IN  Emit(b, at,
           (IF ~zeropad /\ ~left THEN Repeat(" ", padding) ELSE <<>>)
             \o sign \o prefix
             \o (IF zeropad THEN Repeat("0", padding) ELSE <<>>)
             \o Repeat("0", precision - Len(digits)) \o digits
             \o (IF left THEN Repeat(" ", padding) ELSE <<>>))

special_hex_number(b, at, num) ==
  number(b, at, num,
         [type |-> "PTR", field_width |-> 2 + LongBits \div 4, precision |-> -1,
          base |-> 16, flags |-> {"SPECIAL", "SMALL", "ZEROPAD"}])

HexByte(x) == <<hex_asc[(x \div 16) + 1], hex_asc[(x % 16) + 1]>>
HexBytes(bytes, separator) ==
  FoldLeft(LAMBDA acc, k : acc \o HexByte(bytes[k])
                             \o IF k < Len(bytes) THEN separator ELSE <<>>,
           <<>>, [k \in DOMAIN bytes |-> k])

\* %ph: the field width is the number of bytes, 1 if there is none.
hex_string(b, at, addr, sp, ext) ==
  LET len == IF sp.field_width > 0 THEN Minimum(sp.field_width, 64) ELSE 1
      separator == CASE ext = "C" -> <<":">> [] ext = "D" -> <<"-">>
                     [] ext = "N" -> <<>> [] OTHER -> <<" ">>
  IN  IF sp.field_width = 0 THEN Result(b, at)
      ELSE Emit(b, at, HexBytes([k \in 1 .. len |-> addr[k]], separator))

\* %pM, %pm: the separator is there for M only.
mac_address_string(b, at, addr, sp, kind, ext) ==
  LET bytes == [k \in 1 .. 6 |-> IF ext = "R" THEN addr[7 - k] ELSE addr[k]]
      separator == IF ext = "F" THEN <<"-">> ELSE <<":">>
  IN  string(b, at, HexBytes(bytes, IF kind = "M" THEN separator ELSE <<>>), sp)

pointer_string(b, at, num, sp) ==
  number(b, at, num,
         IF sp.field_width = -1
         THEN [sp EXCEPT !.base = 16, !.field_width = LongBits \div 4,
                         !.flags = @ \cup {"SMALL", "ZEROPAD"}]
         ELSE [sp EXCEPT !.base = 16, !.flags = @ \cup {"SMALL"}])

\* p: the position of the letters behind %p.
pointer(b, at, p, arg, sp) ==
  LET kind == Char(p)
      ext == Char(p + 1)
  IN  CASE arg.num = 0 ->
             string(b, at, NullText,
                    IF sp.field_width = -1 THEN [sp EXCEPT !.field_width = LongBits \div 4]
                    ELSE sp)
        [] arg.num # 0 /\ kind \in {"F", "f", "S", "s", "B"} ->
             special_hex_number(b, at, arg.num)
        [] arg.num # 0 /\ kind = "h" -> hex_string(b, at, arg.bytes, sp, ext)
        [] arg.num # 0 /\ kind \in {"M", "m"} ->
             mac_address_string(b, at, arg.bytes, sp, kind, ext)
        [] OTHER -> pointer_string(b, at, arg.num, sp)

-----------------------------------------------------------------------------
(***************************************************************************)
(* format_decode(): reads the next token from position p.  It returns the  *)
(* new spec and position, and comes back in the middle of a directive when *)
(* a width or a precision is the next argument.                            *)
(***************************************************************************)
Token(sp, next) == [spec |-> sp, next |-> next]

\* The value of the digits at p; at least one character is taken.
skip_atoi(p) ==
  FoldLeft(LAMBDA n, c : 10 * n + SelectInSeq(Digits, LAMBDA d : d = c) - 1, 0,
           SubSeq(fmt, p, SkipOver(p, Range(Digits)) - 1))

IntegerType(qualifier, signed) ==
  CASE qualifier = "L" -> "LONG_LONG"
    [] qualifier = "l" -> IF signed THEN "LONG" ELSE "ULONG"
    [] qualifier = "z" -> "SIZE_T"
    [] qualifier = "t" -> "PTRDIFF"
    [] qualifier = "H" -> IF signed THEN "BYTE" ELSE "UBYTE"
    [] qualifier = "h" -> IF signed THEN "SHORT" ELSE "USHORT"
    [] OTHER -> IF signed THEN "INT" ELSE "UINT"

\* label qualifier: also the conversion.
DecodeConversion(p, sp) ==
  LET qualified == Char(p) \in {"h", "l", "L", "z", "t"}
      doubled == Char(p) \in {"h", "l"} /\ Char(p + 1) = Char(p)
      qualifier == CASE doubled -> IF Char(p) = "l" THEN "L" ELSE "H"
                     [] qualified /\ ~doubled -> Char(p)
                     [] OTHER -> NUL
      at == p + (IF qualified THEN 1 ELSE 0) + (IF doubled THEN 1 ELSE 0)
      c == Char(at)
      signed == c \in {"d", "i"}
      plain == [c |-> "CHAR", s |-> "STR", p |-> "PTR"]
  IN  CASE c \in DOMAIN plain -> Token([sp EXCEPT !.base = 10, !.type = plain[c]], at + 1)
        [] c = "%" -> Token([sp EXCEPT !.base = 10, !.type = "PERCENT_CHAR"], at + 1)
        [] c \in {"o", "x", "X", "d", "i", "u"} ->
             Token([sp EXCEPT
                      !.type = IntegerType(qualifier, signed),
                      !.base = CASE c = "o" -> 8 [] c \in {"x", "X"} -> 16 [] OTHER -> 10,
                      !.flags = @ \cup (IF c = "x" THEN {"SMALL"} ELSE {})
                                  \cup (IF signed THEN {"SIGN"} ELSE {})], at + 1)
        [] OTHER -> Token([sp EXCEPT !.base = 10, !.type = "INVALID"], at)

\* label precision
DecodePrecision(p, sp) ==
  CASE Char(p) = "." /\ isdigit(Char(p + 1)) ->
         DecodeConversion(SkipOver(p + 1, Range(Digits)),
                          [sp EXCEPT !.precision =
                                       Maximum(Signed(skip_atoi(p + 1), 16), 0)])
    [] Char(p) = "." /\ Char(p + 1) = "*" ->
         Token([sp EXCEPT !.precision = -1, !.type = "PRECISION"], p + 2)
    [] OTHER -> DecodeConversion(IF Char(p) = "." THEN p + 1 ELSE p,
                                 [sp EXCEPT !.precision = -1])

FlagOf == [c \in {"-", "+", " ", "#", "0"} |->
             CASE c = "-" -> "LEFT" [] c = "+" -> "PLUS" [] c = " " -> "SPACE"
               [] c = "#" -> "SPECIAL" [] c = "0" -> "ZEROPAD"]

DecodeFlags(p, sp) ==
  LET at == SkipOver(p, DOMAIN FlagOf)
      with == [sp EXCEPT !.type = "NONE", !.field_width = -1,
                         !.flags = {FlagOf[fmt[k]] : k \in p .. (at - 1)}]
  IN  CASE isdigit(Char(at)) ->
             DecodePrecision(SkipOver(at, Range(Digits)),
                             [with EXCEPT !.field_width = Signed(skip_atoi(at), 24)])
        [] Char(at) = "*" -> Token([with EXCEPT !.type = "WIDTH"], at + 1)
        [] OTHER -> DecodePrecision(at, with)

format_decode(p, sp) ==
  CASE sp.type = "WIDTH" ->
         DecodePrecision(p, IF sp.field_width < 0
                            THEN [sp EXCEPT !.type = "NONE", !.flags = @ \cup {"LEFT"},
                                            !.field_width = Signed(-@, 24)]
                            ELSE [sp EXCEPT !.type = "NONE"])
    [] sp.type = "PRECISION" ->
         DecodeConversion(p, [sp EXCEPT !.type = "NONE", !.precision = Maximum(@, 0)])
    [] sp.type \notin {"WIDTH", "PRECISION"} /\ Char(p) = "%" -> DecodeFlags(p + 1, sp)
    [] OTHER -> Token([sp EXCEPT !.type = "NONE"],
                      CHOOSE q \in (p + 1) .. (Len(fmt) + 1) :
                        /\ Char(q) \in {"%", NUL}
                        /\ \A k \in p .. (q - 1) : Char(k) # "%")

-----------------------------------------------------------------------------
(***************************************************************************)
(* vsnprintf(): one action per case of the switch in its loop.             *)
(***************************************************************************)
NoSpec == [type |-> "NONE", field_width |-> 0, flags |-> {}, base |-> 0, precision |-> 0]

\* The format string of a directive: text before it, and text behind it.
Render(d) ==
  d.lead \o <<"%">> \o d.flags \o d.width
    \o (IF d.precision = <<>> THEN <<>> ELSE <<".">> \o Tail(d.precision))
    \o d.qualifier \o <<d.conversion>> \o d.extension \o d.trail

FormatStart(d, n, t) ==
  /\ directive = d
  /\ fmt = Render(d)
  /\ fpos = 1
  /\ spec = NoSpec
  /\ args = d.stars \o <<d.arg>>
  /\ str = 0
  /\ out = [k \in 0 .. (Cells - 1) |-> Garbage]
  /\ size = n
  /\ top = t
  /\ fpc = "entry"
  /\ ret = 0
  /\ retc = 0

VsprintfInit == \E d \in Directives, n \in Sizes, t \in Tops : FormatStart(d, n, t)

FormatEntry ==
  /\ fpc = "entry"
  /\ size <= INT_MAX
  /\ fpc' = "format"
  /\ UNCHANGED <<directive, fmt, fpos, spec, args, str, out, size, top, ret, retc>>

FormatRejected ==
  /\ fpc = "entry"
  /\ size > INT_MAX
  /\ fpc' = "returned"
  /\ UNCHANGED <<directive, fmt, fpos, spec, args, str, out, size, top, ret, retc>>

Decoded == format_decode(fpos, spec)

\* An iteration: the token is of one of the given types, its output is r.
Iteration(types, r, next) ==
  /\ fpc = "format"
  /\ Char(fpos) # NUL
  /\ Decoded.spec.type \in types
  /\ fpos' = next
  /\ out' = r.b
  /\ str' = r.at
  /\ UNCHANGED <<directive, fmt, size, top, fpc, ret, retc>>

FormatText ==
  /\ Iteration({"NONE"}, Emit(out, str, SubSeq(fmt, fpos, Decoded.next - 1)), Decoded.next)
  /\ spec' = Decoded.spec
  /\ UNCHANGED args

FetchWidth ==
  /\ Iteration({"WIDTH"}, Result(out, str), Decoded.next)
  /\ spec' = [Decoded.spec EXCEPT !.field_width = Signed(Head(args).num, 24)]
  /\ args' = Tail(args)

FetchPrecision ==
  /\ Iteration({"PRECISION"}, Result(out, str), Decoded.next)
  /\ spec' = [Decoded.spec EXCEPT !.precision = Signed(Head(args).num, 16)]
  /\ args' = Tail(args)

FormatChar ==
  LET spaces == Repeat(" ", Decoded.spec.field_width - 1)
      c == <<Head(args).char>>
  IN  /\ Iteration({"CHAR"},
                   Emit(out, str, IF "LEFT" \in Decoded.spec.flags THEN c \o spaces
                                  ELSE spaces \o c), Decoded.next)
      /\ spec' = Decoded.spec
      /\ args' = Tail(args)

FormatString ==
  /\ Iteration({"STR"},
               string(out, str, IF Head(args).num = 0 THEN NullText ELSE Head(args).text,
                      Decoded.spec), Decoded.next)
  /\ spec' = Decoded.spec
  /\ args' = Tail(args)

\* The letters and digits behind %p are skipped, whether they mean anything.
FormatPointer ==
  /\ Iteration({"PTR"}, pointer(out, str, Decoded.next, Head(args), Decoded.spec),
               SkipOver(Decoded.next, isalnum))
  /\ spec' = Decoded.spec
  /\ args' = Tail(args)

FormatPercent ==
  /\ Iteration({"PERCENT_CHAR"}, Emit(out, str, <<"%">>), Decoded.next)
  /\ spec' = Decoded.spec
  /\ UNCHANGED args

\* What va_arg and the casts make of the argument.
Fetch(type, n) ==
  Unsigned(CASE type \in {"LONG_LONG", "ULONG", "LONG", "SIZE_T", "PTRDIFF"} -> n
             [] type = "UBYTE" -> Unsigned(n, 8)
             [] type = "BYTE" -> Signed(n, 8)
             [] type = "USHORT" -> Unsigned(n, 16)
             [] type = "SHORT" -> Signed(n, 16)
             [] type = "INT" -> Signed(n, IntBits)
             [] type = "UINT" -> Unsigned(n, IntBits), LongBits)

IntegerTypes == {"LONG_LONG", "ULONG", "LONG", "SIZE_T", "PTRDIFF", "UBYTE", "BYTE",
                 "USHORT", "SHORT", "INT", "UINT"}

FormatNumber ==
  /\ Iteration(IntegerTypes,
               number(out, str, Fetch(Decoded.spec.type, Head(args).num), Decoded.spec),
               Decoded.next)
  /\ spec' = Decoded.spec
  /\ args' = Tail(args)

\* goto out: an invalid directive ends the output.
FormatInvalid ==
  /\ fpc = "format"
  /\ Char(fpos) # NUL
  /\ Decoded.spec.type = "INVALID"
  /\ fpc' = "out"
  /\ UNCHANGED <<directive, fmt, fpos, spec, args, str, out, size, top, ret, retc>>

vscnprintf(i) == IF i < size THEN i ELSE IF size # 0 THEN size - 1 ELSE 0

FormatReturn ==
  /\ \/ fpc = "out"
     \/ fpc = "format" /\ Char(fpos) = NUL
  /\ out' = IF end > 0 THEN [out EXCEPT ![Minimum(str, end - 1)] = NUL] ELSE out
  /\ ret' = str
  /\ retc' = vscnprintf(str)
  /\ fpc' = "returned"
  /\ UNCHANGED <<directive, fmt, fpos, spec, args, str, size, top>>

VsprintfNext ==
  \/ FormatEntry \/ FormatRejected \/ FormatText \/ FetchWidth \/ FetchPrecision
  \/ FormatChar \/ FormatString \/ FormatPointer \/ FormatPercent \/ FormatNumber
  \/ FormatInvalid \/ FormatReturn

-----------------------------------------------------------------------------
(***************************************************************************)
(* Properties.  What a directive means is stated on the directive and      *)
(* after C99, never after the code.  Where C99 is silent or the comments   *)
(* of vsprintf.c announce something else it is what they announce: the     *)
(* %p extensions, (null) for a NULL pointer, and the end of the output at  *)
(* %n and at any other conversion that is not supported.                   *)
(***************************************************************************)
Flagged(d, c) == c \in Range(d.flags)

\* The width, written in the format or fetched; -1 if there is none.
DirectiveWidth(d) == IF d.width = <<"*">> THEN d.stars[1].num ELSE d.widthValue

\* The precision: a period alone means 0, and a negative argument is taken as
\* if the precision were omitted (-1).
DirectivePrecision(d) ==
  CASE d.precision = <<>> -> -1
    [] d.precision = <<".">> -> 0
    [] d.precision = <<".", "*">> -> Maximum(d.stars[Len(d.stars)].num, -1)
    [] OTHER -> d.precisionValue

LeftAdjusted(d) == Flagged(d, "-") \/ (d.width = <<"*">> /\ DirectiveWidth(d) < 0)
FieldWidth(d) == IF d.width = <<"*">> /\ DirectiveWidth(d) < 0
                 THEN -DirectiveWidth(d) ELSE DirectiveWidth(d)

Padded(text, d) ==
  LET spaces == Repeat(" ", FieldWidth(d) - Len(text))
  IN  IF LeftAdjusted(d) THEN text \o spaces ELSE spaces \o text

\* The digits of n without a leading zero.
Numeral(n, base) ==
  LET len == CHOOSE m \in 1 .. 10 : n < base^m /\ (m = 1 \/ n >= base^(m - 1))
  IN  [k \in 1 .. len |-> (n \div base^(len - k)) % base]

ReferenceWidth(d) ==
  LET q == d.qualifier
  IN  CASE q = <<"h", "h">> -> 8 [] q = <<"h">> -> 16 [] q = <<>> -> IntBits [] OTHER -> LongBits

ReferenceBase(d) ==
  CASE d.conversion = "o" -> 8 [] d.conversion \in {"x", "X"} -> 16 [] OTHER -> 10

ReferenceValue(d) ==
  IF d.conversion \in {"d", "i"} THEN Signed(d.arg.num, ReferenceWidth(d))
  ELSE Unsigned(d.arg.num, ReferenceWidth(d))

\* Zero converted with a precision of zero is no digits at all.
ReferenceDigits(d) ==
  LET value == ReferenceValue(d)
  IN  IF value = 0 /\ DirectivePrecision(d) = 0 THEN <<>>
      ELSE Numeral(IF value < 0 THEN -value ELSE value, ReferenceBase(d))

ReferenceSign(d) ==
  LET signed == d.conversion \in {"d", "i"}
  IN  CASE ReferenceValue(d) < 0 -> <<"-">>
        [] ReferenceValue(d) >= 0 /\ signed /\ Flagged(d, "+") -> <<"+">>
        [] ReferenceValue(d) >= 0 /\ signed /\ ~Flagged(d, "+") /\ Flagged(d, " ") -> <<" ">>
        [] OTHER -> <<>>

\* With # a hexadecimal number other than 0 has a prefix, and an octal number
\* as many digits as it takes to begin with a zero.  The flag 0 fills the
\* field with zeros unless the number is left-adjusted or has a precision.
ReferenceNumeral(d) ==
  LET digits == ReferenceDigits(d)
      table == IF d.conversion = "X" THEN hex_asc_upper ELSE hex_asc
      prefix == IF Flagged(d, "#") /\ ReferenceBase(d) = 16 /\ ReferenceValue(d) # 0
                THEN <<"0", d.conversion>> ELSE <<>>
      room == IF Flagged(d, "0") /\ ~LeftAdjusted(d) /\ DirectivePrecision(d) = -1
              THEN FieldWidth(d) - Len(ReferenceSign(d)) - Len(prefix) ELSE 0
      octal == IF Flagged(d, "#") /\ ReferenceBase(d) = 8 /\ digits # <<0>>
               THEN Len(digits) + 1 ELSE 0
      zeros == Maximum(DirectivePrecision(d), Maximum(room, octal)) - Len(digits)
  IN  ReferenceSign(d) \o prefix \o Repeat("0", zeros)
        \o [k \in DOMAIN digits |-> table[digits[k] + 1]]

ReferenceNumber(d) == Padded(ReferenceNumeral(d), d)

\* A string, a NULL string, and a MAC address; the precision shortens them.
ReferenceText(text, d) ==
  Padded(IF DirectivePrecision(d) < 0 \/ DirectivePrecision(d) > Len(text) THEN text
         ELSE SubSeq(text, 1, DirectivePrecision(d)), d)

ReferencePointer(d) ==
  LET x == [d EXCEPT !.conversion = "x", !.qualifier = <<"l">>]
      default == [d EXCEPT !.widthValue = LongBits \div 4]
      kind == IF d.extension = <<>> THEN NUL ELSE d.extension[1]
      ext == IF Len(d.extension) < 2 THEN NUL ELSE d.extension[2]
      count == IF d.width = <<>> THEN 1 ELSE FieldWidth(d)
  IN  CASE d.arg.num = 0 -> ReferenceText(NullText, IF DirectiveWidth(d) = -1 THEN default ELSE d)
        [] d.arg.num # 0 /\ kind \in {"S", "F"} ->
             ReferenceNumber([x EXCEPT !.flags = <<"#", "0">>, !.precision = <<>>,
                                       !.width = <<>>, !.widthValue = 2 + LongBits \div 4])
        [] d.arg.num # 0 /\ kind = "h" ->
             HexBytes(SubSeq(d.arg.bytes, 1, count),
                      CASE ext = "C" -> <<":">> [] ext = "D" -> <<"-">>
                        [] ext = "N" -> <<>> [] OTHER -> <<" ">>)
        [] d.arg.num # 0 /\ kind \in {"M", "m"} ->
             ReferenceText(HexBytes(IF ext = "R" THEN Reverse(d.arg.bytes) ELSE d.arg.bytes,
                                    CASE kind = "m" -> <<>> [] kind = "M" /\ ext = "F" -> <<"-">>
                                      [] OTHER -> <<":">>), d)
        [] OTHER -> ReferenceNumber(IF DirectiveWidth(d) = -1 /\ d.width = <<>>
                                    THEN [x EXCEPT !.widthValue = LongBits \div 4,
                                                   !.flags = @ \o <<"0">>]
                                    ELSE x)

\* The whole output, were the buffer large enough.
FullOutput(d) ==
  IF d.conversion \notin {"c", "s", "p", "%", "d", "i", "u", "o", "x", "X"} THEN d.lead
  ELSE d.lead \o
       (CASE d.conversion = "c" -> Padded(<<d.arg.char>>, d)
          [] d.conversion = "s" ->
               ReferenceText(IF d.arg.num = 0 THEN NullText ELSE d.arg.text, d)
          [] d.conversion = "p" -> ReferencePointer(d)
          [] d.conversion = "%" -> <<"%">>
          [] OTHER -> ReferenceNumber(d)) \o d.trail

\* At no time has vsnprintf stored a character at or behind the end of the
\* buffer, not even while move_right shifts a string that does not fit.
FormatStaysInside == \A k \in DOMAIN out : k >= end => out[k] = Garbage

\* When vsnprintf returns, the buffer holds as much of the output the
\* directive has in C99 as fits in front of the NUL, the result is the length
\* of the whole output, and that of vscnprintf the length of what is there
\* (unless the buffer wraps around the end of the address space).  The comment
\* of vsnprintf says so (vsprintf.c:758-762); number() and format_decode() do
\* something else for the directives that Deviates names.
FormatFollowsC99 ==
  fpc = "returned" =>
    IF size > INT_MAX THEN ret = 0
    ELSE LET full == FullOutput(directive)
             kept == Minimum(Len(full), end - 1)
         IN  /\ ret = Len(full)
             /\ end > 0 => /\ \A k \in 0 .. (kept - 1) : out[k] = full[k + 1]
                           /\ out[kept] = NUL
             /\ size < top => retc = Maximum(kept, 0)

\* The directives on which number() is not C99's:
\*   # prints the prefix 0x for zero too (vsprintf.c:207-209, 251-261);
\*   # prints an octal zero in front of those of the precision (210, 252-256);
\*   the flag 0 is kept although there is a precision (263-270);
\*   zero with a precision of zero is printed as a digit (216-217).
NumberDeviates(d) ==
  LET digits == Len(ReferenceDigits(d))
      special(base) == Flagged(d, "#") /\ ReferenceBase(d) = base
  IN  \/ special(16) /\ ReferenceValue(d) = 0
      \/ special(8) /\ ReferenceValue(d) # 0 /\ DirectivePrecision(d) > digits
      \/ /\ Flagged(d, "0") /\ ~LeftAdjusted(d) /\ DirectivePrecision(d) # -1
         /\ FieldWidth(d) > Len(ReferenceNumeral(d))
      \/ digits = 0 /\ ~special(8)

\* A string is printed whole for a period alone (vsprintf.c:640-652) and not at
\* all for a negative precision that is an argument (587-589).
Deviates(d) ==
  \/ d.conversion \in {"d", "i", "u", "o", "x", "X"} /\ NumberDeviates(d)
  \/ /\ d.conversion = "s"
     /\ \/ d.precision = <<".">>
        \/ d.precision = <<".", "*">> /\ DirectivePrecision(d) = -1

=============================================================================
