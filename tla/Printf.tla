------------------------------ MODULE Printf -------------------------------
(***************************************************************************)
(* terminal_printf of terminal.c: what the kernel's formats are taken to   *)
(* mean, which argument each directive takes, and the hexadecimal text a   *)
(* number becomes.  One step is one turn of the loop over the format.      *)
(*                                                                         *)
(* The printing of a character, wrapping and scrolling are in Terminal.    *)
(* A machine word has WordDigits hexadecimal digits (16 on a PC), an int   *)
(* IntDigits (8) and a short ShortDigits (4).  Floating point arguments    *)
(* come from registers of their own and are not counted.                   *)
(***************************************************************************)
EXTENDS Integers, SequencesExt

CONSTANTS
  Calls,                                \* [fmt |-> characters, args |-> words]
  WordDigits, IntDigits, ShortDigits

\* A format ends where its first 0 is; its other characters are none of the
\* words used below for what a turn of the loop shows.
ASSUME PrintfAssumption ==
  /\ {WordDigits, IntDigits, ShortDigits} \subseteq Nat \ {0}
  /\ ShortDigits <= IntDigits /\ IntDigits <= WordDigits
  /\ \A c \in Calls :
       /\ Len(c.fmt) \in Nat /\ DOMAIN c.fmt = 1 .. Len(c.fmt)
       /\ \A k \in DOMAIN c.fmt : c.fmt[k] \notin {"nul", "nothing", "number", "string"}
       /\ Len(c.args) \in Nat /\ DOMAIN c.args = 1 .. Len(c.args)
       /\ \A k \in DOMAIN c.args : c.args[k] \in 0 .. 16 ^ WordDigits - 1

\* What a power is, which the provers are not told.
ASSUME PowersAssumption ==
  \A n \in 0 .. WordDigits - 1 : 16 ^ (n + 1) = 16 * 16 ^ n

VARIABLES
  fmt, args,   \* the arguments of the call
  pc,
  i,           \* the character of fmt the loop is at, from 1
  next_arg,    \* the argument va_arg takes next, from 1
  out          \* for each turn: the text it passed, what it took and showed

vars == <<fmt, args, pc, i, next_arg, out>>

-----------------------------------------------------------------------------

Char(k) == IF k <= Len(fmt) THEN fmt[k] ELSE "nul"

\* What va_arg finds behind the last argument is not the caller's.
Arg(k) == IF k <= Len(args) THEN args[k] ELSE 0

Nothing == [text |-> <<>>, width |-> 0, arg |-> 0, shown |-> "nothing",
            prefix |-> "", digits |-> <<>>, at |-> 0]

Init ==
  /\ \E c \in Calls : fmt = c.fmt /\ args = c.args
  /\ pc = "run"
  /\ i = 1
  /\ next_arg = 1
  /\ out = <<>>

-----------------------------------------------------------------------------
(* get_format: flags, width, precision, length and specifier, each from      *)
(* where the one before ended                                                *)

FlagChars == {"-", "+", " ", "#", "0"}
get_flags(k) == IF Char(k) \in FlagChars THEN 1 ELSE 0

DigitValue ==
  [c \in {"0", "1", "2", "3", "4", "5", "6", "7", "8", "9"} |->
     CASE c = "0" -> 0 [] c = "1" -> 1 [] c = "2" -> 2 [] c = "3" -> 3 [] c = "4" -> 4
       [] c = "5" -> 5 [] c = "6" -> 6 [] c = "7" -> 7 [] c = "8" -> 8 [] c = "9" -> 9]

\* read_decimal: how many digits there are, and their value, the first digit
\* being the one of the lowest power.
DigitsFrom(k) ==
  CHOOSE n \in 0 .. Len(fmt) :
    /\ \A j \in k .. k + n - 1 : Char(j) \in DOMAIN DigitValue
    /\ Char(k + n) \notin DOMAIN DigitValue

read_decimal(k) ==
  SumFunction([j \in 0 .. DigitsFrom(k) - 1 |-> DigitValue[Char(k + j)] * 10 ^ j])

get_width(k) == IF Char(k) = "*" THEN 1 ELSE DigitsFrom(k)

\* The digits are read from the second character behind the point on and the
\* first is never counted; a star there is overwritten.  No conversion uses
\* the precision.
get_precision(k) == IF Char(k) = "." THEN 1 + DigitsFrom(k + 2) ELSE 0

\* The letters that may stand in front of a specifier.
Lengths ==
  {<<>>, <<"h">>, <<"h", "h">>, <<"l">>, <<"l", "l">>, <<"j">>, <<"z">>, <<"t">>, <<"L">>}

LengthType ==
  [t \in Lengths |->
     CASE t = <<>> -> "INT" [] t = <<"h">> -> "SHORT_INT" [] t = <<"h", "h">> -> "S_CHAR"
       [] t = <<"l">> -> "LONG_INT" [] t = <<"l", "l">> -> "LONG_LONG_INT"
       [] t = <<"j">> -> "INTMAX_T" [] t = <<"z">> -> "SIZE_T" [] t = <<"t">> -> "PTRDIFF_T"
       [] t = <<"L">> -> "LONG_DOUBLE"]

\* Mutant: the second letter of a length is not looked for.
get_length_Short(k) == IF <<Char(k)>> \in Lengths THEN <<Char(k)>> ELSE <<>>

get_length(k) ==
  IF <<Char(k), Char(k + 1)>> \in Lengths THEN <<Char(k), Char(k + 1)>>
  ELSE IF <<Char(k)>> \in Lengths THEN <<Char(k)>> ELSE <<>>

Floating == {"f", "F", "e", "E", "g", "G", "a", "A"}

\* The assertions about a specifier; a pointer passes them and fails in
\* terminal_printf's own switch.
Accepted(type, specifier) ==
  \/ specifier \in {"d", "i"} /\ type # "LONG_DOUBLE"
  \/ specifier \in {"u", "o", "x", "X"}
  \/ specifier \in Floating /\ type \in {"LONG_DOUBLE", "INT"}
  \/ specifier \in {"c", "s"} /\ type \in {"LONG_INT", "INT"}

TypeFor(type, specifier) ==
  CASE specifier \in Floating /\ type = "INT" -> "DOUBLE"
    [] specifier = "c" /\ type = "LONG_INT" -> "WINT_T"
    [] specifier = "s" -> IF type = "INT" THEN "CHAR" ELSE "WCHAR_T"
    [] OTHER -> type

get_format(k) ==
  LET w == k + get_flags(k)
      p == w + get_width(w)
      l == p + get_precision(p)
      end == l + Len(get_length(l))
      type == LengthType[get_length(l)]
  IN  [flag |-> Char(k), star |-> Char(w) = "*", width |-> read_decimal(w),
       end |-> end, specifier |-> Char(end), type |-> TypeFor(type, Char(end)),
       ok |-> Accepted(type, Char(end))]

-----------------------------------------------------------------------------
(* Conversions *)

\* The lowest n digits of a word, read as a signed number in two's complement.
Signed(v, n) ==
  LET low == v % 16 ^ n IN IF low < 16 ^ n \div 2 THEN low ELSE low - 16 ^ n

\* The word the number printers get: a short is signed whatever the specifier
\* says, an unsigned int is not.
Word(type, v) ==
  CASE type = "INT" -> v % 16 ^ IntDigits
    [] type = "SHORT_INT" -> Signed(v, ShortDigits) % 16 ^ WordDigits
    [] OTHER -> v

\* Reads in front of the buffer find bytes of the stack; -1 is no digit.
Junk == <<-1>>

\* The buffer once the number is in it, from 0.
buf(num, j) == (num \div 16 ^ (WordDigits - 1 - j)) % 16

\* Mutant: the digits left of the width are cut off.
StartOfText_Cut(num, width) == WordDigits - 1 - width

\* The first digit that is not 0, or further left if the width asks for it:
\* then one digit more than the width.
StartOfText(num, width) ==
  Min({WordDigits, WordDigits - 1 - width}
        \cup {j \in 0 .. WordDigits - 1 : buf(num, j) # 0})

print_integer_as_hex(num, width) ==
  LET from == StartOfText(num, width)
  IN  IF from < 0 THEN Junk ELSE [k \in 1 .. WordDigits - from |-> buf(num, from + k - 1)]

Numbers == {"INT", "SHORT_INT", "LONG_INT", "LONG_LONG_INT", "INTMAX_T", "SIZE_T",
            "PTRDIFF_T"}

\* The address of a string is taken from the arguments as an int.
PointerArg(v) == Signed(v, IntDigits) % 16 ^ WordDigits

\* What a directive shows: decimal numbers, characters, wide characters and
\* floating point numbers nothing at all.
Converted(f, width, v) ==
  CASE f.specifier \in {"x", "X"} /\ f.type \in Numbers ->
         [Nothing EXCEPT !.shown = "number",
            !.prefix = IF f.flag # "#" THEN "" ELSE IF f.specifier = "X" THEN "0X" ELSE "0x",
            !.digits = print_integer_as_hex(Word(f.type, v), width)]
    [] f.type = "CHAR" ->
         [Nothing EXCEPT !.shown = "string", !.at = PointerArg(v)]
    [] OTHER -> Nothing

\* No argument of those counted here is taken for these.
NoArgument == {"S_CHAR", "WINT_T", "DOUBLE", "LONG_DOUBLE"}

-----------------------------------------------------------------------------
(* terminal_printf *)

More == pc = "run" /\ i <= Len(fmt)

\* A character goes to the screen, the first of the two or the second.
PrintChar ==
  LET two == Char(i) = "\\" \/ (Char(i) = "%" /\ Char(i + 1) = "%")
      last == IF two THEN i + 1 ELSE i
  IN  /\ More
      /\ Char(i) = "%" => two
      /\ out' = Append(out, [Nothing EXCEPT !.text = SubSeq(fmt, i, last),
                                            !.shown = Char(last)])
      /\ i' = last + 1
      /\ UNCHANGED <<fmt, args, pc, next_arg>>

AtDirective == More /\ Char(i) = "%" /\ Char(i + 1) # "%"

\* Mutant: the width's argument is read but not taken.
ValueArg_Same(f) == next_arg

\* The argument of a directive, behind the width's if that is a star.
ValueArg(f) == IF f.star THEN next_arg + 1 ELSE next_arg

Directive ==
  LET f == get_format(i + 1)
      v == Arg(ValueArg(f))
      width == IF f.star THEN Signed(Arg(next_arg), IntDigits) ELSE f.width
  IN  /\ AtDirective
      /\ f.ok
      /\ out' = Append(out, [Converted(f, width, v) EXCEPT
                               !.text = SubSeq(fmt, i, f.end), !.width = width, !.arg = v])
      /\ next_arg' = IF f.type \in NoArgument THEN ValueArg(f) ELSE ValueArg(f) + 1
      /\ i' = f.end + 1
      /\ UNCHANGED <<fmt, args, pc>>

\* A failed assertion stops the machine.
AssertFails ==
  /\ AtDirective
  /\ ~get_format(i + 1).ok
  /\ pc' = "assert"
  /\ UNCHANGED <<fmt, args, i, next_arg, out>>

Return ==
  /\ pc = "run"
  /\ i > Len(fmt)
  /\ pc' = "done"
  /\ UNCHANGED <<fmt, args, i, next_arg, out>>

Next == PrintChar \/ Directive \/ AssertFails \/ Return

Spec == Init /\ [][Next]_vars

-----------------------------------------------------------------------------
(* Properties *)

\* The directives of the language terminal_printf speaks, precision aside:
\* at most one flag, a star or digits, a length and a specifier it goes with.
Specified ==
  ((Lengths \ {<<"L">>}) \X {"d", "i"})
    \cup (Lengths \X {"u", "o", "x", "X"})
    \cup ({<<>>, <<"L">>} \X Floating)
    \cup ({<<>>, <<"l">>} \X {"c", "s"})

IsDirective(t) ==
  \E f \in 1 .. 2, w \in 1 .. Len(t) - 1 :
    LET width == SubSeq(t, f + 1, w)
    IN  /\ t[1] = "%" /\ f <= w
        /\ f = 2 => t[2] \in FlagChars
        /\ width = <<"*">> \/ Range(width) \subseteq DOMAIN DigitValue
        /\ <<SubSeq(t, w + 1, Len(t) - 1), Last(t)>> \in Specified

Taken == {k \in DOMAIN out : IsDirective(out[k].text)}

\* The turns pass the format piece by piece, each piece one character, one
\* escape or one directive of the language: a directive never swallows the
\* text behind it nor leaves some of itself to be printed, and the loop stops in
\* an assertion only where no directive begins.  What it passes with a point
\* in it, which mostly stops it, is left aside.
FormatUnderstood ==
  /\ FlattenSeq([k \in DOMAIN out |-> out[k].text]) = SubSeq(fmt, 1, i - 1)
  /\ \A k \in DOMAIN out :
       out[k].shown \in {"nothing", "number", "string"} /\ ~Contains(out[k].text, ".") =>
         k \in Taken
  /\ pc = "assert" => \A n \in i .. Len(fmt) : ~IsDirective(SubSeq(fmt, i, n))

\* Each directive takes the argument meant for it: a star one and the
\* directive itself one more, as long as none of the four types came by whose
\* argument is left for the next directive.  The address of a string survives
\* its passage through an int as long as it lies in the lower half of what an
\* int can hold, as the kernel's do.
ArgumentsInStep ==
  LET due == [k \in DOMAIN out |-> IF Contains(out[k].text, "*") THEN 2 ELSE 1]
      took == {k \in DOMAIN out : out[k].shown \in {"nothing", "number", "string"}}
      left == {k \in took : \/ Last(out[k].text) \in Floating \cup {"L"}
                            \/ Contains(out[k].text, "L")
                            \/ IsSuffix(<<"l", "c">>, out[k].text)
                            \/ IsSuffix(<<"h", "h", Last(out[k].text)>>, out[k].text)}
  IN  /\ left = {} => next_arg = 1 + SumFunctionOnSet(due, took)
      /\ \A k \in DOMAIN out :
           out[k].shown = "string" /\ out[k].arg < 16 ^ IntDigits \div 2 =>
             out[k].at = out[k].arg

\* The digits of a number are digits and read back as its argument, of which an int shows
\* its own digits and a short at least these; they are as many as the number
\* has, or one more than a width of one digit or a star asks for, and the
\* buffer is left only for a width of a whole word.
NumbersReadBack ==
  \A k \in DOMAIN out :
    out[k].shown = "number" =>
      LET t == out[k].text
          n == Len(out[k].digits)
          value == SumFunction([j \in 1 .. n |-> out[k].digits[j] * 16 ^ (n - j)])
          width == out[k].width
      IN  IF out[k].digits = Junk THEN width >= WordDigits
          ELSE /\ width < WordDigits /\ Range(out[k].digits) \subseteq 0 .. 15
               /\ CASE Contains(t, "h") -> value % 16 ^ ShortDigits = out[k].arg % 16 ^ ShortDigits
                    [] t[Len(t) - 1] \in {"l", "z", "j", "t"} -> value = out[k].arg
                    [] OTHER -> value = out[k].arg % 16 ^ IntDigits
               /\ n = width + 1 \/ (n > width /\ (n > 0 => out[k].digits[1] # 0))
=============================================================================
