------------------------------- MODULE Format -------------------------------
(***************************************************************************)
(* BufferStream::format and the writing of padded strings and numbers      *)
(* (stream/buffer.cpp): an automaton that reads a format character by      *)
(* character and echoes what turns out not to be a directive.              *)
(*                                                                         *)
(* The variable format is the automaton with the modifiers of the stream   *)
(* and what has been written so far, a sequence of characters (Stream says *)
(* how it leaves the buffer); text is what has been read, and the          *)
(* arguments that were taken meanwhile.                                    *)
(***************************************************************************)
EXTENDS Integers, Sequences, SequencesExt, FiniteSets, FiniteSetsExt, TLC

CONSTANTS
  Alphabet,     (* the characters directives are made of                   *)
  Literals,     (* the characters between them (a bound)                   *)
  MaxLength,    (* the length of a format (a bound)                        *)
  Numbers,      (* the integers callers pass to %d ... %X where they fit   *)
  Stars,        (* the integers callers pass for a *                       *)
  Argument,     (* the string callers pass to %s, a sequence of characters *)
                (* whose first one they pass to %c                         *)
  Size,         (* the number of values of a "short", "int" and "long"     *)
  WidthSize,    (* the number of values of _width, an uint8_t              *)
  Unlimited,    (* SIZE_MAX: there is no precision                         *)
  Running       (* the value of status while this module runs              *)

(* What the instance of a model has to satisfy, assumed by the MC module.  *)
FormatAssumption ==
  /\ "%" \notin Literals /\ MaxLength \in Nat /\ Numbers \cup Stars \subseteq Int
  /\ Size \in [{"short", "int", "long"} -> Nat \ {0}]
  /\ Unlimited \in Nat /\ \A c \in Numbers \cup Stars : c < Unlimited

VARIABLES format, text, status
vars == <<format, text, status>>

Flags == {"-", "+", " ", "0", "#"}
ValueOfDigit == ("0" :> 0) @@ ("1" :> 1) @@ ("2" :> 2) @@ ("3" :> 3) @@ ("4" :> 4)
      @@ ("5" :> 5) @@ ("6" :> 6) @@ ("7" :> 7) @@ ("8" :> 8) @@ ("9" :> 9)
DigitChars(hexchar) ==
  <<"0", "1", "2", "3", "4", "5", "6", "7", "8", "9">>
  \o IF hexchar = "A" THEN <<"A", "B", "C", "D", "E", "F">>
                      ELSE <<"a", "b", "c", "d", "e", "f">>
Lengths == {"h", "l", "j", "z", "t"}

(* Those of integers, with and without sign, and all of them but %p, which *)
(* writes as %#lx does, and %n, which writes nothing.                      *)
SignedInts == {"d", "i"}
BaseOf == ("b" :> 2) @@ ("o" :> 8) @@ ("u" :> 10) @@ ("x" :> 16) @@ ("X" :> 16)
Specifiers == SignedInts \cup DOMAIN BaseOf \cup {"c", "s"}

Repeat(c, n) == [i \in 1..n |-> c]

(* The conversion of an integer to a signed type.                          *)
Signed(v, type) ==
  LET m == v % Size[type] IN IF 2 * m < Size[type] THEN m ELSE m - Size[type]

-----------------------------------------------------------------------------
(* Writing.                                                                *)

Written(f, chars) == [f EXCEPT !.out = @ \o chars]

(* operator<<(char): a width is filled, too.                               *)
PutChar(f, c) ==
  LET fill == IF f.width > 1 THEN Repeat(f.fill, f.width - 1) ELSE <<>>
  IN [Written(f, IF f.left THEN <<c>> \o fill ELSE fill \o <<c>>) EXCEPT !.width = 0]

PutChars(f, chars) == FoldLeft(PutChar, f, chars)

(* writefill(string, precision): the width is filled up from the           *)
(* precision, whatever the length of the string.                           *)
FillString(f, chars, precision) ==
  LET fill == IF f.width > precision THEN Repeat(f.fill, f.width - precision) ELSE <<>>
      shown == SubSeq(chars, 1, Min({precision, Len(chars)}))
  IN [Written(f, IF f.left THEN shown \o fill ELSE fill \o shown) EXCEPT !.width = 0]

(* The digits of a natural number, without leading zeros.                  *)
DigitsOf(v, base, hexchar) ==
  LET n == CHOOSE n \in 1..20 : v < base ^ n /\ \A m \in 1..(n - 1) : v >= base ^ m
  IN [i \in 1..n |-> DigitChars(hexchar)[((v \div (base ^ (n - i))) % base) + 1]]

(* writefill(number, minus, precision): nothing is written, and the width  *)
(* kept, for 0 with a precision of 0.                                      *)
FillNumber(f, v, minus, precision) ==
  LET digits == DigitsOf(v, f.base, f.hexchar)
      zeros == IF precision # Unlimited /\ Len(digits) < precision
               THEN Repeat("0", precision - Len(digits)) ELSE <<>>
      octal == f.base = 8 /\ f.prefix /\ zeros = <<>> /\ v # 0
      mark == CASE f.base = 10 -> IF minus THEN <<"-">>
                                  ELSE IF f.sign = "plus" THEN <<"+">>
                                  ELSE IF f.sign = "space" THEN <<" ">> ELSE <<>>
                [] f.base = 8 -> IF octal THEN <<"0">> ELSE <<>>
                [] f.base = 2 -> IF f.prefix THEN <<"0", "b">> ELSE <<>>
                [] f.base = 16 -> IF f.prefix THEN <<"0", IF f.hexchar = "A" THEN "X" ELSE "x">>
                                  ELSE <<>>
      n == Len(mark) + Len(zeros) + Len(digits)
      fill == IF f.width > n THEN Repeat(f.fill, f.width - n) ELSE <<>>
      before == ~f.left /\ (f.fill # "0" \/ (~minus /\ f.sign # "plus" /\ f.base = 10))
      number == CASE before -> fill \o mark \o zeros \o digits
                  [] ~before /\ ~f.left -> mark \o zeros \o fill \o digits
                  [] f.left -> mark \o zeros \o digits \o fill
  IN IF v = 0 /\ precision = 0
     THEN Written(f, Repeat(f.fill, f.width))
     ELSE [Written(f, number) EXCEPT !.width = 0]

(* writefill(long long): the sign is written apart in base 10 only.        *)
FillSigned(f, v, precision) ==
  IF v < 0 /\ f.base = 10 THEN FillNumber(f, -v, TRUE, precision)
  ELSE FillNumber(f, v % Size["long"], FALSE, precision)

-----------------------------------------------------------------------------
(* The automaton.  A state whose condition does not hold for a character   *)
(* falls through to the next one, from flags to specifier.                 *)

Init ==
  /\ format = [state |-> "none", out |-> <<>>, start |-> 0, width |-> 0, left |-> TRUE,
               fill |-> " ", prefix |-> FALSE, base |-> 10, hexchar |-> "a", sign |-> "minus",
               precision |-> Unlimited, length |-> "int"]
  /\ text = [read |-> <<>>, args |-> <<>>]
  /\ status = Running

Position == Len(text.read) + 1

(* What was echoed so late is known to be no directive.                    *)
Pending(f) == IF f.start = 0 THEN <<>> ELSE SubSeq(text.read, f.start, Position - 1)

Goes(f) ==
  /\ format' = f
  /\ UNCHANGED status
Reads(c, args) == text' = [read |-> Append(text.read, c), args |-> text.args \o args]

Reading(c, states) ==
  /\ status = Running /\ Len(text.read) < MaxLength
  /\ format.state \in states

(* Between the directives.                                                 *)
Marker(c) ==
  /\ Reading(c, {"none"}) /\ c = "%"
  /\ Goes([PutChars(format, Pending(format)) EXCEPT
             !.state = "marker", !.start = Position, !.width = 0, !.left = FALSE, !.fill = " ",
             !.prefix = FALSE, !.base = 10, !.hexchar = "a", !.sign = "minus",
             !.precision = Unlimited, !.length = "int"])
  /\ Reads(c, <<>>)

(* A bound: a format starts with a directive.                              *)
Literal(c) ==
  /\ Reading(c, {"none"}) /\ text.read # <<>>
  /\ Goes([PutChar(PutChars(format, Pending(format)), c) EXCEPT !.start = 0])
  /\ Reads(c, <<>>)

Percent(c) ==
  /\ Reading(c, {"marker"}) /\ c = "%"
  /\ Goes([PutChar(format, c) EXCEPT !.state = "none", !.start = 0])
  /\ Reads(c, <<>>)

Flag(c) ==
  /\ Reading(c, {"marker", "flags"}) /\ c \in Flags
  /\ Goes(LET f == [format EXCEPT !.state = "flags"]
          IN CASE c = "-" -> [f EXCEPT !.left = TRUE]
               [] c = "+" -> [f EXCEPT !.sign = "plus"]
               [] c = " " -> [f EXCEPT !.sign = IF @ = "plus" THEN @ ELSE "space"]
               [] c = "0" -> [f EXCEPT !.fill = "0"]
               [] c = "#" -> [f EXCEPT !.prefix = TRUE])
  /\ Reads(c, <<>>)

(* Flags end where something else stands; left aligned, 0 is no filler.    *)
AfterFlags(c) == {"flags"} \cup (IF c = "%" THEN {} ELSE {"marker"})
PastFlags == IF format.left /\ format.state \in {"marker", "flags"}
             THEN [format EXCEPT !.fill = " "] ELSE format

(* A width that is passed as an argument; a negative one means left.       *)
StarWidth(c, arg) ==
  /\ Reading(c, AfterFlags(c)) /\ c = "*"
  /\ Goes([PastFlags EXCEPT !.width = (IF arg < 0 THEN -arg ELSE arg) % WidthSize,
                            !.left = @ \/ arg < 0, !.state = "precisiondot"])
  /\ Reads(c, <<arg>>)

(* Mutant: a width of two digits is read from the right.                   *)
WidthDigitReversed(c) ==
  /\ Reading(c, AfterFlags(c) \cup {"width"}) /\ c \in DOMAIN ValueOfDigit
  /\ format.state \in {"marker", "flags"} => c \notin Flags
  /\ Goes([PastFlags EXCEPT !.width = (@ + 10 * ValueOfDigit[c]) % WidthSize, !.state = "width"])
  /\ Reads(c, <<>>)

WidthDigit(c) ==
  /\ Reading(c, AfterFlags(c) \cup {"width"}) /\ c \in DOMAIN ValueOfDigit
  /\ format.state \in {"marker", "flags"} => c \notin Flags
  /\ Goes([PastFlags EXCEPT !.width = (@ * 10 + ValueOfDigit[c]) % WidthSize, !.state = "width"])
  /\ Reads(c, <<>>)

(* A precision that is passed as an argument; the automaton takes a star   *)
(* after the digits of a width for one as well.                            *)
StarPrecision(c, arg) ==
  /\ Reading(c, {"width", "precisionstar"}) /\ c = "*"
  /\ Goes([format EXCEPT !.precision = IF arg < 0 THEN -arg ELSE arg, !.state = "length"])
  /\ Reads(c, <<arg>>)

PrecisionDigit(c) ==
  /\ Reading(c, {"precisionstar", "precision"}) /\ c \in DOMAIN ValueOfDigit
  /\ Goes([format EXCEPT !.precision = @ * 10 + ValueOfDigit[c], !.state = "precision"])
  /\ Reads(c, <<>>)

Dot(c) ==
  /\ Reading(c, AfterFlags(c) \cup {"width", "precisionstar", "precision", "precisiondot"})
  /\ c = "."
  /\ Goes([PastFlags EXCEPT !.precision = 0, !.fill = " ", !.state = "precisionstar"])
  /\ Reads(c, <<>>)

AtSpecifier(c) ==
  Reading(c, AfterFlags(c)
             \cup {"width", "precisionstar", "precision", "precisiondot", "length"})

Ended(f) == [f EXCEPT !.state = "none", !.start = 0]

(* long long is as long as long.                                          *)
LengthChar(c) ==
  /\ AtSpecifier(c) /\ c \in Lengths
  /\ Goes([PastFlags EXCEPT !.state = "length", !.length = IF c = "h" THEN "short" ELSE
                              IF c = "l" /\ @ = "long" THEN "longlong" ELSE "long"])
  /\ Reads(c, <<>>)

(* A caller passes an int for a short, too.                                *)
Fits(v, length) == length \in {"long", "longlong"} \/ v = Signed(v, "int")

(* A long is read as an int with a sign, and as itself without.            *)
SpecifierNumber(c, arg) ==
  /\ AtSpecifier(c) /\ c \in SignedInts \cup DOMAIN BaseOf /\ Fits(arg, format.length)
  /\ LET f == PastFlags
         n == f.length
         taken == CASE n = "short" -> Signed(arg, "short")
                    [] n \in {"int", "long"} -> Signed(arg, "int")
                    [] n = "longlong" -> arg
         unsigned == arg % Size[IF n = "longlong" THEN "long" ELSE n]
         plain == [f EXCEPT !.base = BaseOf[c], !.hexchar = IF c = "X" THEN "A" ELSE @,
                            !.sign = IF c = "u" THEN "minus" ELSE @]
     IN Goes(Ended(IF c \in SignedInts THEN FillSigned(f, taken, f.precision)
                   ELSE FillNumber(plain, unsigned, FALSE, f.precision)))
  /\ Reads(c, <<arg>>)

(* The precision is of no account.                                         *)
SpecifierChar(c) ==
  /\ AtSpecifier(c) /\ c = "c"
  /\ Goes(Ended(PutChar(PastFlags, Argument[1])))
  /\ Reads(c, <<>>)

SpecifierString(c) ==
  /\ AtSpecifier(c) /\ c = "s"
  /\ Goes(Ended(CASE format.precision # Unlimited ->
                       FillString(PastFlags, Argument, format.precision)
                  [] format.precision = Unlimited ->
                       FillString(PastFlags, Argument, Len(Argument))))
  /\ Reads(c, <<>>)

(* Whether c still has a place in a directive.                             *)
IsPart(c) ==
  \/ c \in Flags /\ format.state \in {"marker", "flags"}
  \/ c \in DOMAIN ValueOfDigit /\ format.state \notin {"precisiondot", "length"}
  \/ c = "*" /\ format.state \notin {"precision", "precisiondot", "length"}
  \/ c = "." /\ format.state # "length"
  \/ c \in Lengths \cup Specifiers

(* Anything else is no directive: it is echoed with the next character.    *)
Invalid(c) ==
  /\ AtSpecifier(c) /\ ~IsPart(c)
  /\ Goes([PastFlags EXCEPT !.state = "none"])
  /\ Reads(c, <<>>)

(* The end of the text: what is left is echoed, and the modifiers are what *)
(* they were before.                                                       *)
Finish ==
  /\ status = Running /\ format.state # "done"
  /\ Goes([PutChars(format, Pending(format)) EXCEPT
             !.state = "done", !.start = 0, !.width = 0, !.left = TRUE, !.fill = " ",
             !.prefix = FALSE, !.base = 10, !.hexchar = "a", !.sign = "minus"])
  /\ UNCHANGED text

Next ==
  \/ \E c \in Alphabet : Marker(c)
  \/ \E c \in Literals : Literal(c)
  \/ \E c \in Alphabet : Percent(c)
  \/ \E c \in Alphabet : Flag(c)
  \/ \E c \in Alphabet, arg \in Stars : StarWidth(c, arg)
  \/ \E c \in Alphabet : WidthDigit(c)
  \/ \E c \in Alphabet, arg \in Stars : StarPrecision(c, arg)
  \/ \E c \in Alphabet : PrecisionDigit(c)
  \/ \E c \in Alphabet : Dot(c)
  \/ \E c \in Alphabet : LengthChar(c)
  \/ \E c \in Alphabet, arg \in Numbers : SpecifierNumber(c, arg)
  \/ \E c \in Alphabet : SpecifierChar(c)
  \/ \E c \in Alphabet : SpecifierString(c)
  \/ \E c \in Alphabet : Invalid(c)
  \/ Finish

Spec == Init /\ [][Next]_vars

-----------------------------------------------------------------------------
(* What C says of the same directives.                                     *)

(* The first place from i on where t has none of these characters.         *)
RunEnd(t, i, chars) == Min({j \in i..(Len(t) + 1) : j = Len(t) + 1 \/ t[j] \notin chars})
CharAt(t, i) == IF i <= Len(t) THEN t[i] ELSE ""
NumberIn(t, i, j) == FoldLeft(LAMBDA v, c : v * 10 + ValueOfDigit[c], 0, SubSeq(t, i, j - 1))

(* % flags width .precision length specifier, from place i of t on, with   *)
(* the arguments that are left.                                            *)
Directive(t, i, args) ==
  LET width == RunEnd(t, i + 1, Flags)
      starWidth == CharAt(t, width) = "*"
      dot == IF starWidth THEN width + 1 ELSE RunEnd(t, width, DOMAIN ValueOfDigit)
      starPrecision == CharAt(t, dot) = "." /\ CharAt(t, dot + 1) = "*"
      length == IF CharAt(t, dot) # "." THEN dot
                ELSE IF starPrecision THEN dot + 2 ELSE RunEnd(t, dot + 1, DOMAIN ValueOfDigit)
      end == RunEnd(t, length, Lengths)
      stars == (IF starWidth THEN 1 ELSE 0) + (IF starPrecision THEN 1 ELSE 0)
      modifiers == SubSeq(t, length, end - 1)
      w == IF starWidth THEN args[1] ELSE NumberIn(t, width, dot)
  IN [end |-> end,
      spec |-> CharAt(t, end),
      flags |-> ToSet(SubSeq(t, i + 1, width - 1)) \cup (IF w < 0 THEN {"-"} ELSE {}),
      negative |-> w < 0,
      width |-> IF w < 0 THEN -w ELSE w,
      precision |-> CASE CharAt(t, dot) # "." -> Unlimited
                      [] starPrecision -> args[stars]
                      [] OTHER -> NumberIn(t, dot + 1, length),
      type |-> CASE modifiers = <<>> -> "int"
                 [] modifiers = <<"h">> -> "short"
                 [] OTHER -> "long",
      usual |-> modifiers \in {<<>>, <<"h">>, <<"l">>, <<"l", "l">>},
      long |-> modifiers = <<"l">>,
      args |-> SubSeq(args, stars + 1, Len(args))]

Padded(d, mark, body, filler) ==
  LET n == Len(mark) + Len(body)
      fill == IF d.width > n THEN d.width - n ELSE 0
  IN CASE "-" \in d.flags -> mark \o body \o Repeat(" ", fill)
       [] "-" \notin d.flags /\ filler = "0" -> mark \o Repeat("0", fill) \o body
       [] "-" \notin d.flags /\ filler # "0" -> Repeat(" ", fill) \o mark \o body

Meaning(d) ==
  LET v == Head(d.args)
      value == IF d.spec \in SignedInts THEN Signed(v, d.type) ELSE v % Size[d.type]
      digits == CASE value = 0 /\ d.precision = 0 -> <<>>
                  [] (value # 0 \/ d.precision # 0) /\ d.spec \in SignedInts ->
                       DigitsOf(IF value < 0 THEN -value ELSE value, 10, "a")
                  [] (value # 0 \/ d.precision # 0) /\ d.spec \in DOMAIN BaseOf ->
                       DigitsOf(value, BaseOf[d.spec], IF d.spec = "X" THEN "A" ELSE "a")
      least == CASE d.precision # Unlimited /\ Len(digits) < d.precision -> d.precision
                 [] (d.precision = Unlimited \/ Len(digits) >= d.precision)
                    /\ d.spec = "o" /\ "#" \in d.flags /\ value # 0 -> Len(digits) + 1
                 [] OTHER -> Len(digits)
      body == Repeat("0", least - Len(digits)) \o digits
      mark == CASE d.spec \in SignedInts /\ value < 0 -> <<"-">>
                [] d.spec \in SignedInts /\ value >= 0 /\ "+" \in d.flags -> <<"+">>
                [] d.spec \in SignedInts /\ value >= 0 /\ "+" \notin d.flags /\ " " \in d.flags ->
                     <<" ">>
                [] d.spec \in {"b", "x", "X"} /\ value # 0 /\ "#" \in d.flags -> <<"0", d.spec>>
                [] OTHER -> <<>>
  IN CASE d.spec = "s" -> Padded(d, <<>>, SubSeq(Argument, 1, Min({d.precision, Len(Argument)})), " ")
       [] d.spec = "c" -> Padded(d, <<>>, <<Argument[1]>>, " ")
       [] d.spec \notin {"c", "s"} ->
            Padded(d, mark, body, IF "0" \in d.flags /\ d.precision = Unlimited THEN "0" ELSE " ")

(* What format does in its own way: it takes the width modulo 256, fills a *)
(* short string up to the precision only, writes no sign of a 0 that is    *)
(* not written, nor the 0 that # asks for in base 8, and leaves the width  *)
(* of such a 0 to what follows, takes a negative precision for a positive  *)
(* one, fills strings, characters, and left aligned numbers with a         *)
(* negative *, with 0, reads a long as an int for %ld and %li, writes 0x   *)
(* and 0b for a 0 with #, and zeros before the space of a space flag.      *)
OwnWay(d) ==
  \/ d.width >= WidthSize
  \/ d.spec = "s" /\ d.precision # Unlimited /\ d.precision > Len(Argument) /\ d.width > Len(Argument)
  \/ d.spec \notin {"c", "s"} /\ d.precision = 0 /\ Head(d.args) = 0
     /\ (\/ d.width > 1
         \/ d.spec \in SignedInts /\ d.flags \cap {"+", " "} # {}
         \/ d.spec = "o" /\ "#" \in d.flags)
  \/ d.precision < 0
  \/ "0" \in d.flags /\ (d.spec \in {"c", "s"} \/ d.negative)
  \/ d.spec \in SignedInts /\ d.long /\ Head(d.args) # Signed(Head(d.args), "int")
  \/ ~d.usual
  \/ d.spec \in {"b", "x", "X"} /\ "#" \in d.flags /\ Head(d.args) % Size[d.type] = 0
  \/ d.spec \in SignedInts /\ {"0", " "} \subseteq d.flags /\ "+" \notin d.flags /\ d.width > 1

(* All pieces of a text: characters, %% and directives, from the left.     *)
Pieces(t, args) ==
  LET Piece(p, i) ==
        LET d == Directive(t, p.at, p.args)
        IN CASE p.at > Len(t) \/ ~p.proper -> p
             [] p.at <= Len(t) /\ p.proper /\ t[p.at] # "%" ->
                  [p EXCEPT !.at = @ + 1, !.out = Append(@, t[p.at])]
             [] p.at <= Len(t) /\ p.proper /\ t[p.at] = "%" /\ CharAt(t, p.at + 1) = "%" ->
                  [p EXCEPT !.at = @ + 2, !.out = Append(@, "%")]
             [] OTHER ->
                  IF d.spec \in Specifiers
                  THEN [p EXCEPT !.at = d.end + 1, !.out = @ \o Meaning(d),
                                 !.args = IF d.spec \in {"c", "s"} THEN d.args ELSE Tail(d.args),
                                 !.proper = ~OwnWay(d)]
                  ELSE [p EXCEPT !.at = d.end + 1, !.out = @ \o SubSeq(t, p.at, Min({d.end, Len(t)})),
                                 !.args = d.args,
                                 !.proper = d.spec \notin {"*", "."} /\ d.width <= 1]
  IN FoldLeft(Piece, [at |-> 1, out |-> <<>>, args |-> args, proper |-> TRUE],
              [i \in 1..Len(t) |-> i])

(***************************************************************************)
(* What has been written in the end is what C's printf writes for the same *)
(* text and the same arguments in their order, but for what OwnWay lists,  *)
(* and invalid directives, which are echoed as they are and padded by the  *)
(* width they give.                                                        *)
(***************************************************************************)
Agrees ==
  status = Running /\ format.state = "done" =>
    LET p == Pieces(text.read, text.args) IN p.proper => format.out = p.out

=============================================================================
