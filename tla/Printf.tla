------------------------------- MODULE Printf -------------------------------
(***************************************************************************)
(* Formatted output: vsnprintf of lib/sprintf.c, from the characters of    *)
(* the format and the arguments to the bytes of the buffer, and what the   *)
(* C standard asks of it.  One conversion is checked at a time, between    *)
(* two ordinary characters.                                                *)
(***************************************************************************)
EXTENDS Integers, Sequences, SequencesExt

CONSTANTS
    CharBits, IntBits,   \* width of a char and of an int; a long has no bound here
    Values,              \* bound: the numbers printed
    MaxWidth,            \* bound: field widths and precisions
    Sizes                \* bound: the sizes of the buffer

VARIABLE printing        \* the conversion that is checked

printfVars == <<printing>>

Bigger(a, b) == IF a >= b THEN a ELSE b
Magnitude(v) == IF v < 0 THEN -v ELSE v

Low(v, bits) == v % 2 ^ bits
Signed(v, bits) ==
    IF Low(v, bits) >= 2 ^ (bits - 1) THEN Low(v, bits) - 2 ^ bits ELSE Low(v, bits)

DigitChars == <<"0", "1", "2", "3", "4", "5", "6", "7", "8", "9",
                "a", "b", "c", "d", "e", "f">>
CapitalChars == SubSeq(DigitChars, 1, 10) \o <<"A", "B", "C", "D", "E", "F">>
DecimalDigit == ToSet(SubSeq(DigitChars, 1, 10))
ValueOf(c) == CHOOSE d \in 0..9 : DigitChars[d + 1] = c

Fill(c, n) == [i \in 1 .. Bigger(n, 0) |-> c]

-----------------------------------------------------------------------------
(* Output: what lies within the limit is stored, everything is counted     *)
(* (printf_string, printf_fill and single characters).                     *)

(* Mutant: the limit is not looked at once the text began below it.        *)
OutputUnlessPast(o, text) ==
    [o EXCEPT !.opos = @ + Len(text),
              !.buf = [i \in DOMAIN @ |->
                  IF o.opos < o.limit /\ i \in o.opos .. o.opos + Len(text) - 1
                  THEN text[i - o.opos + 1] ELSE @[i]]]

Output(o, text) ==
    [o EXCEPT !.opos = @ + Len(text),
              !.buf = [i \in DOMAIN @ |->
                  IF i < o.limit /\ i \in o.opos .. o.opos + Len(text) - 1
                  THEN text[i - o.opos + 1] ELSE @[i]]]

(* The digits, most significant first.                                     *)
NumberIn(chars, radix) ==
    LET digits[u \in Nat] ==
          (IF u < radix THEN <<>> ELSE digits[u \div radix]) \o <<chars[(u % radix) + 1]>>
    IN  digits

-----------------------------------------------------------------------------
(* printf_num                                                              *)

SignOf(value, flags) ==
    CASE "num_signed" \notin flags -> <<>>
      [] value < 0 -> <<"-">>
      [] value >= 0 /\ "always_sign" \in flags -> <<"+">>
      [] value >= 0 /\ "always_sign" \notin flags /\ "leave_blank" \in flags -> <<" ">>
      [] OTHER -> <<>>

DigitsOf(value, radix, precision, flags) ==
    LET uval == IF "num_signed" \in flags THEN Magnitude(value) ELSE value
        chars == IF "capital_hex" \in flags THEN CapitalChars ELSE DigitChars
    IN  IF uval = 0 /\ "has_precision" \in flags /\ precision = 0 THEN <<>>
        ELSE NumberIn(chars, radix)[uval]

(* The zeros of the precision; the octal alternative form asks for one.    *)
ZerosOf(digits, value, radix, precision, flags) ==
    LET octal == /\ "alt_form" \in flags /\ value # 0 /\ radix = 8
                 /\ "has_precision" \notin flags \/ precision <= Len(digits)
    IN  CASE octal -> <<"0">>
          [] ~octal /\ "has_precision" \in flags -> Fill("0", precision - Len(digits))
          [] OTHER -> <<>>

Prefix(value, radix, flags) ==
    IF "alt_form" \in flags /\ value # 0 /\ radix = 16 THEN <<"0", "x">> ELSE <<>>

(* The sign and the prefix go out before the padding on the left.          *)
Padded(head, body, width, flags) ==
    LET room == width - Len(head) - Len(body)
    IN  IF "left_justify" \in flags THEN head \o body \o Fill(" ", room)
        ELSE head \o Fill(IF "zero_pad" \in flags THEN "0" ELSE " ", room) \o body

printf_num(value, radix, width, precision, flags) ==
    LET digits == DigitsOf(value, radix, precision, flags)
    IN  Padded(SignOf(value, flags) \o Prefix(value, radix, flags),
               ZerosOf(digits, value, radix, precision, flags) \o digits, width, flags)

(* %s: no more than the precision, and blanks.                             *)
PaddedString(arg, width, precision, flags) ==
    LET len == IF "has_precision" \in flags /\ precision < Len(arg) THEN precision ELSE Len(arg)
    IN  Padded(<<>>, SubSeq(arg, 1, len), width, flags \ {"zero_pad"})

-----------------------------------------------------------------------------
(* vsnprintf, one character of the format at a time.  "run" is the number  *)
(* the next digit belongs to.                                              *)

StartFormat(size, room, args) ==
    [state |-> 0, flags |-> {}, width |-> 0, precision |-> 0, run |-> "none", args |-> args,
     opos |-> 0, limit |-> size - 1, buf |-> [i \in 0 .. room - 1 |-> "?"]]

Flag(p, f) == [p EXCEPT !.flags = @ \cup {f}, !.run = "none"]
FlagChars == [c \in {"#", "-", " ", "+"} |->
    CASE c = "#" -> "alt_form" [] c = "-" -> "left_justify"
      [] c = " " -> "leave_blank" [] OTHER -> "always_sign"]

Ordinary(p, c) == [Output(p, <<c>>) EXCEPT !.state = 0]

Times(number, c) == number * 10 + ValueOf(c)

Digit(p, c) ==
    CASE p.run \in {"dot", "precision"} ->
           [p EXCEPT !.precision = Times(@, c), !.run = "precision"]
      [] p.run = "width" -> [p EXCEPT !.width = Times(@, c)]
      [] p.run = "none" /\ "has_precision" \in p.flags -> Ordinary(p, c)
      [] OTHER -> IF c = "0" THEN Flag(p, "zero_pad")
                  ELSE [p EXCEPT !.width = Times(@, c), !.run = "width"]

Star(p) ==
    CASE p.run = "dot" ->
           [p EXCEPT !.precision = Bigger(p.args[1], 0), !.args = Tail(@), !.run = "none"]
      [] p.run # "dot" /\ (p.width # 0 \/ "has_precision" \in p.flags) -> Ordinary(p, "*")
      [] OTHER -> [p EXCEPT !.width = Magnitude(p.args[1]), !.args = Tail(@), !.run = "none",
                            !.flags = @ \cup (IF p.args[1] < 0 THEN {"left_justify"} ELSE {})]

(* "h" once is a short, twice a char; "l" makes it a long.                 *)
Length(p, c) ==
    Flag(p, CASE c = "h" /\ "short_arg" \in p.flags -> "short_short_arg"
              [] c = "h" /\ "short_arg" \notin p.flags -> "short_arg"
              [] OTHER -> "long_arg")

Bits(flags) == IF "short_short_arg" \in flags THEN CharBits ELSE IntBits
Wide(flags) == "long_arg" \in flags

Number(p, text) == [Output(p, text) EXCEPT !.state = 0, !.args = Tail(@)]

Decimal(p) ==
    Number(p, printf_num(IF Wide(p.flags) THEN p.args[1] ELSE Signed(p.args[1], Bits(p.flags)),
                         10, p.width, p.precision, p.flags \cup {"num_signed"}))

Radix(c) == CASE c = "o" -> 8 [] c \in {"d", "u"} -> 10 [] OTHER -> 16

Unsigned(p, c) ==
    Number(p, printf_num(IF Wide(p.flags) THEN Magnitude(p.args[1])
                         ELSE Low(p.args[1], Bits(p.flags)),
                         Radix(c), p.width, p.precision,
                         p.flags \cup (IF c = "X" THEN {"capital_hex"} ELSE {})))

(* %c: the argument is taken only if there is room for it.                 *)
Character(p) ==
    IF p.opos < p.limit THEN Number(p, <<p.args[1]>>)
    ELSE [p EXCEPT !.opos = @ + 1, !.state = 0]

Directive(p, c) ==
    CASE c \in DOMAIN FlagChars -> Flag(p, FlagChars[c])
      [] c \in DecimalDigit -> Digit(p, c)
      [] c = "*" -> Star(p)
      [] c = "." -> [p EXCEPT !.flags = @ \cup {"has_precision"}, !.run = "dot"]
      [] c \in {"h", "l"} -> Length(p, c)
      [] c = "d" -> Decimal(p)
      [] c \in {"u", "o", "x", "X"} -> Unsigned(p, c)
      [] c = "c" -> Character(p)
      [] c = "s" -> Number(p, PaddedString(p.args[1], p.width, p.precision, p.flags))
      [] OTHER -> Ordinary(p, c)

FormatChar(p, c) ==
    CASE p.state = 1 -> Directive(p, c)
      [] c = "%" -> [p EXCEPT !.state = 1, !.flags = {}, !.width = 0, !.precision = 0,
                              !.run = "none"]
      [] OTHER -> Ordinary(p, c)

(* The zero goes after the text, or into the last byte.                    *)
Terminate(p, size) ==
    [p.buf EXCEPT ![IF p.opos < size THEN p.opos ELSE size - 1] = "NUL"]

-----------------------------------------------------------------------------
(* The conversions, as a caller means them and as a format                 *)

Numeral(n) == NumberIn(DigitChars, 10)[n]

FlagOrder == <<"-", "+", " ", "#", "0">>

Format(c) ==
    <<"v", "%">> \o SelectSeq(FlagOrder, LAMBDA f : f \in c.flags)
    \o (CASE c.width = 0 -> <<>> [] c.star -> <<"*">> [] OTHER -> Numeral(c.width))
    \o (IF c.precision < 0 THEN <<>> ELSE <<".">> \o Numeral(c.precision))
    \o Fill("h", c.short) \o <<c.conversion>>
    \o (IF c.conversion = "c" THEN <<"%", "d", "w">> ELSE <<"w">>)

Arguments(c) ==
    (IF c.star /\ c.width # 0 THEN <<c.width>> ELSE <<>>)
    \o (CASE c.conversion = "s" -> <<c.text>>
          [] c.conversion = "c" -> <<"s", c.value>>
          [] OTHER -> <<c.value>>)

Conversions ==
    [flags : SUBSET {"-", "+", "#", "0"}, width : {0, MaxWidth}, star : BOOLEAN,
     precision : {-1, 0, MaxWidth - 1}, short : {0, 2}, value : Values, text : {<<>>},
     conversion : {"d", "u", "o", "X"}, size : Sizes]

StringConversions ==
    [flags : SUBSET {"-"}, width : {0, MaxWidth}, star : BOOLEAN,
     precision : {-1, 0, MaxWidth - 1}, short : {0}, value : {0},
     text : {<<>>, Fill("s", MaxWidth)}, conversion : {"s"}, size : Sizes]

(* A character and then a number.                                          *)
CharConversions ==
    [flags : {{}}, width : {0}, star : {FALSE}, precision : {-1}, short : {0}, value : {5},
     text : {<<>>}, conversion : {"c"}, size : Sizes]

(* What the standard asks for.                                             *)
StandardString(c) ==
    LET len == IF c.precision \in 0..Len(c.text) THEN c.precision ELSE Len(c.text)
        blanks == Fill(" ", c.width - len)
    IN  IF "-" \in c.flags THEN SubSeq(c.text, 1, len) \o blanks
        ELSE blanks \o SubSeq(c.text, 1, len)

StandardNumber(c) ==
    LET bits == IF c.short = 2 THEN CharBits ELSE IntBits
        signed == c.conversion = "d"
        value == IF signed THEN Signed(c.value, bits) ELSE Low(c.value, bits)
        radix == Radix(c.conversion)
        chars == IF c.conversion = "X" THEN CapitalChars ELSE DigitChars
        digits == IF value = 0 /\ c.precision = 0 THEN <<>>
                  ELSE NumberIn(chars, radix)[Magnitude(value)]
        zeros == Fill("0", c.precision - Len(digits))
        octal == c.conversion = "o" /\ "#" \in c.flags /\ zeros = <<>>
                 /\ (value # 0 \/ digits = <<>>)
        body == (IF octal THEN <<"0">> ELSE zeros) \o digits
        head == CASE signed /\ value < 0 -> <<"-">>
                  [] signed /\ value >= 0 /\ "+" \in c.flags -> <<"+">>
                  [] c.conversion = "X" /\ "#" \in c.flags /\ value # 0 -> <<"0", "X">>
                  [] OTHER -> <<>>
        room == c.width - Len(head) - Len(body)
    IN  CASE "-" \in c.flags -> head \o body \o Fill(" ", room)
          [] "-" \notin c.flags /\ "0" \in c.flags /\ c.precision < 0 ->
                 head \o Fill("0", room) \o body
          [] OTHER -> Fill(" ", room) \o head \o body

Standard(c) ==
    CASE c.conversion = "s" -> StandardString(c)
      [] c.conversion = "c" -> <<"s">> \o Numeral(c.value)
      [] OTHER -> StandardNumber(c)

(* Where it goes another way: blanks after the sign or the prefix, zeros   *)
(* as padding in spite of a precision, a small x in the prefix of X, no    *)
(* octal zero for a zero, and a character beyond the buffer whose argument *)
(* the next conversion gets.                                               *)
AsStandard(c) ==
  /\ c.conversion = "c" => c.size > 2
  /\ c.conversion \notin {"s", "c"} =>
    /\ c.width = 0 \/ "-" \in c.flags \/ ("0" \in c.flags /\ c.precision < 0)
       \/ ("0" \notin c.flags /\ c.conversion \in {"u", "o"})
       \/ ("0" \notin c.flags /\ c.conversion = "d" /\ "+" \notin c.flags /\ c.value >= 0
           /\ c.value < 2 ^ (CharBits - 1))
    /\ c.conversion = "X" => "#" \notin c.flags
    /\ c.conversion = "o" /\ "#" \in c.flags => Low(c.value, CharBits) # 0

NoConversion == [conversion |-> "none"]

Choose ==
    /\ printing = NoConversion
    /\ \/ \E c \in Conversions : printing' = c
       \/ \E c \in StringConversions \cup CharConversions : printing' = c

PrintfInit == printing = NoConversion

PrintfNext == Choose

-----------------------------------------------------------------------------

(* vsnprintf as a whole: the buffer holds the standard's text as far as it *)
(* fits, with a zero after it, no byte beyond size is touched, and the     *)
(* result is the length of the whole text.                                 *)
PrintExact ==
    printing # NoConversion /\ AsStandard(printing) =>
        LET whole == <<"v">> \o Standard(printing) \o <<"w">>
            size == printing.size
            room == size + Len(whole)
            p == FoldLeft(FormatChar, StartFormat(size, room, Arguments(printing)), Format(printing))
        IN  /\ p.opos = Len(whole)
            /\ Terminate(p, size) =
                 [i \in 0 .. room - 1 |->
                     CASE i < Len(whole) /\ i < size - 1 -> whole[i + 1]
                       [] i = Len(whole) /\ i < size -> "NUL"
                       [] i = size - 1 /\ i < Len(whole) -> "NUL"
                       [] OTHER -> "?"]
=============================================================================
