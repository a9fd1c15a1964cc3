------------------------------ MODULE Numbers -------------------------------
(***************************************************************************)
(* Parser::string (parser/string.cpp, parser/string.hpp): how options turn *)
(* text into numbers.                                                      *)
(*                                                                         *)
(* A text is a sequence of characters that grows; parsing one gives        *)
(* whether the function returns true, whether it stores something, and     *)
(* what.                                                                   *)
(***************************************************************************)
EXTENDS Integers, Sequences, Functions, FiniteSetsExt

CONSTANTS
  Alphabet,     (* the characters of texts                                 *)
  MaxLength,    (* the length of a text (a bound)                          *)
  Digit,        (* the value of a character, as far as it is a digit       *)
  Size,         (* the number of values of each unsigned type              *)
  Running       (* the value of status while this module runs              *)

Largest == "long long"
Spaces == {" ", ",", "'"}

(* What the instance of a model has to satisfy, assumed by the MC module.  *)
NumbersAssumption ==
  /\ MaxLength \in Nat
  /\ Digit \in [DOMAIN Digit -> 0..15] /\ DOMAIN Digit \cap Spaces = {}
  /\ Largest \in DOMAIN Size /\ \A type \in DOMAIN Size : Size[type] \in 1..Size[Largest]
  /\ \E half \in 1..Size[Largest] : Size[Largest] = 2 * half

VARIABLES text, target, status
vars == <<text, target, status>>

Decimal == {c \in DOMAIN Digit : Digit[c] < 10}

(* What is left of t from the first character that is not a space.         *)
Trimmed(t) ==
  LET from == Min({i \in 1..(Len(t) + 1) : i = Len(t) + 1 \/ t[i] # " "})
  IN SubSeq(t, from, Len(t))

(* The first character of a text.                                          *)
Sign(t) == IF t # <<>> THEN t[1] ELSE ""

Fails == [ok |-> FALSE, stores |-> FALSE, value |-> 0]
Stores(ok, value) == [ok |-> ok, stores |-> TRUE, value |-> value]

(* The base, and the digits behind its prefix; base 0 stands for an        *)
(* invalid format.                                                         *)
Based(t) ==
  LET second == IF Len(t) > 1 /\ t[1] = "0" THEN t[2] ELSE ""
      from(n) == SubSeq(t, n, Len(t))
  IN CASE second = "" -> [base |-> 10, digits |-> t]
       [] second \in {"x", "X"} -> [base |-> 16, digits |-> from(3)]
       [] second \in {"b", "B"} -> [base |-> 2, digits |-> from(3)]
       [] second \in Decimal /\ Digit[second] \in 1..7 -> [base |-> 8, digits |-> from(2)]
       [] OTHER -> [base |-> 0, digits |-> <<>>]

(* Mutant: a second kind of space is accepted, too.                        *)
NextDigitAnySpace(n, c, base) ==
  CASE c \in Spaces -> n
    [] c \in DOMAIN Digit ->
         LET v == (n.value * base + Digit[c]) % Size[Largest]
         IN [n EXCEPT !.value = v, !.ok = @ /\ Digit[c] <= base /\ v >= n.value]
    [] OTHER -> [n EXCEPT !.ok = FALSE]

(* One kind of space only; a digit may be the base, and a value that wraps *)
(* around is noticed if it gets smaller.                                   *)
NextDigit(n, c, base) ==
  CASE c \in Spaces -> [n EXCEPT !.ok = @ /\ n.spacer \in {"", c}, !.spacer = c]
    [] c \in DOMAIN Digit ->
         LET v == (n.value * base + Digit[c]) % Size[Largest]
         IN [n EXCEPT !.value = v, !.ok = @ /\ Digit[c] <= base /\ v >= n.value]
    [] OTHER -> [n EXCEPT !.ok = FALSE]

(* string(unsigned long long &): nothing is stored if it fails.            *)
Digits(b) ==
  LET after[i \in 0..Len(b.digits)] ==
        IF i = 0 THEN [ok |-> b.base # 0, value |-> 0, spacer |-> ""]
        ELSE NextDigit(after[i - 1], b.digits[i], b.base)
  IN after[Len(b.digits)]

Unsigned(t) ==
  LET trimmed == Trimmed(t)
      n == Digits(Based(IF Sign(trimmed) = "+" THEN Trimmed(Tail(trimmed)) ELSE trimmed))
  IN IF n.ok THEN Stores(TRUE, n.value) ELSE Fails

Wrapped(v, size) ==
  LET m == v % size IN IF 2 * m < size THEN m ELSE m - size

(* string(long long &): stores a number that is out of range, too.         *)
WithSign(n, sign) ==
  LET half == Size[Largest] \div 2
  IN IF ~n.ok \/ sign \notin {"", "-", "+"} \cup Decimal THEN Fails
     ELSE Stores(IF sign = "-" THEN n.value <= half ELSE n.value < half,
                 Wrapped(IF sign = "-" THEN -n.value ELSE n.value, Size[Largest]))

Signed(t) ==
  LET trimmed == Trimmed(t)
      sign == Sign(trimmed)
  IN WithSign(Unsigned(IF sign \in {"-", "+"} THEN Tail(trimmed) ELSE trimmed), sign)

(* The smaller types: something is stored in any case.                     *)
Narrowed(n, signed, size) ==
  LET v == IF signed THEN Wrapped(n.value, size) ELSE n.value % size
  IN Stores(n.ok /\ v = n.value, v)

As(n, signed, type) == IF type = Largest THEN n ELSE Narrowed(n, signed, Size[type])
Parse(t, signed, type) == As(IF signed THEN Signed(t) ELSE Unsigned(t), signed, type)

(* string(bool &)                                                          *)
ParseBool(t) == t # <<>> /\ t[1] \notin {"0", "n", "N", "f", "F"}

-----------------------------------------------------------------------------
Init ==
  /\ text = <<>> /\ target = 0
  /\ status = Running

Grow(c) ==
  /\ status = Running /\ Len(text) < MaxLength
  /\ text' = Append(text, c)
  /\ UNCHANGED <<target, status>>

Next == \E c \in Alphabet : Grow(c)

Spec == Init /\ [][Next]_vars

-----------------------------------------------------------------------------
(* The number that digits mean, whatever their number; spaces mean nothing. *)
NextPlace(v, c, base) == IF c \in Spaces THEN v ELSE v * base + Digit[c]
Meant(b) ==
  LET value[i \in 0..Len(b.digits)] ==
        IF i = 0 THEN 0 ELSE NextPlace(value[i - 1], b.digits[i], b.base)
  IN value[Len(b.digits)]

(* The reading of a text: signs and spaces, a prefix, and digits with one  *)
(* kind of space.                                                          *)
Reading(t, signed) ==
  LET trimmed == Trimmed(t)
      start == Sign(trimmed)
      one == IF signed /\ start \in {"-", "+"} THEN Trimmed(Tail(trimmed)) ELSE trimmed
      b == Based(IF Sign(one) = "+" THEN Trimmed(Tail(one)) ELSE one)
      spaces == Range(b.digits) \cap Spaces
      digits == Range(b.digits) \ Spaces
  IN IF \/ b.base = 0
        \/ ~(digits \subseteq DOMAIN Digit)
        \/ \E c, d \in spaces : c # d
        \/ signed /\ start \notin {"", "-", "+"} \cup Decimal
     THEN [valid |-> FALSE, exact |-> FALSE, value |-> 0]
     ELSE [valid |-> \A c \in digits : Digit[c] <= b.base,
           exact |-> Meant(b) < Size[Largest],
           value |-> IF signed /\ start = "-" THEN -Meant(b) ELSE Meant(b)]

InRange(v, signed, type) ==
  IF signed THEN 2 * v \in (-Size[type])..(Size[type] - 1) ELSE v \in 0..(Size[type] - 1)

(***************************************************************************)
(* A text is taken for a number exactly if it reads as one that fits into  *)
(* the type, and then for that number, over all types; but a digit may be  *)
(* as great as the base (1a is 20), and a number that does not even fit    *)
(* into the largest type may pass for another one.                         *)
(***************************************************************************)
Agrees ==
  status = Running =>
    \A signed \in BOOLEAN, type \in DOMAIN Size :
      LET r == Reading(text, signed)
          p == Parse(text, signed, type)
      IN /\ ~r.valid => ~p.ok
         /\ r.valid /\ r.exact =>
              /\ p.ok <=> InRange(r.value, signed, type)
              /\ p.ok => p.stores /\ p.value = r.value

=============================================================================
