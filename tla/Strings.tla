------------------------------ MODULE Strings -------------------------------
(***************************************************************************)
(* The functions of string.cpp that search, replace and split, as they go  *)
(* through their strings, next to what their documentation promises.       *)
(*                                                                         *)
(* A string is the sequence of the characters in front of its final zero,  *)
(* a pointer into it is an index from 0 on, as in the code.  The two       *)
(* arguments grow character by character.                                  *)
(***************************************************************************)
EXTENDS Integers, Sequences, SequencesExt, FiniteSets, FiniteSetsExt

CONSTANTS
  Code,         (* the code of each character of the alphabet              *)
  Lower,        (* its lower case                                          *)
  MaxHaystack,  (* bounds: the lengths of the two arguments                *)
  MaxNeedle,
  Replacements, (* what callers replace with                               *)
  Maxima,       (* the limits callers give                                 *)
  Running       (* the value of status while this module runs              *)

(* What the instance of a model has to satisfy, assumed by the MC module.  *)
StringsAssumption ==
  /\ Code \in [DOMAIN Code -> Nat \ {0}] /\ Lower \in [DOMAIN Code -> DOMAIN Code]
  /\ MaxHaystack \in Nat /\ MaxNeedle \in Nat /\ Maxima \subseteq Nat
  /\ \A to \in Replacements : to \in Seq(DOMAIN Code)

VARIABLES haystack, needle, status
vars == <<haystack, needle, status>>

Null == <<"nullptr">>
None == -1
Zero == "zero"              (* the character that ends a string            *)
Garbage == <<"garbage">>    (* whatever follows where none was written     *)
Aborted == <<"aborted">>    (* an assertion fails                          *)

Length(s) == IF s = Null THEN 0 ELSE Len(s)
At(s, i) == IF i < Len(s) THEN s[i + 1] ELSE Zero
Part(s, from, to) == SubSeq(s, from + 1, to)

-----------------------------------------------------------------------------
(* Searching: a table of prefixes of the needle tells where to go on after *)
(* a mismatch.                                                             *)

(* Mutant: no look at the character where a prefix may start.              *)
PrefixAlways(t) ==
  FoldLeft(LAMBDA n, i : [n EXCEPT ![i + 1] = 1], [j \in 0..Len(t) |-> 0],
           [i \in 1..(Len(t) - 1) |-> i])

(* The search for a shorter prefix starts at n[i + 1], which is still 0.   *)
Prefix(t) ==
  LET Step(n, i) ==
        LET shorter[j \in 0..Len(t)] ==
              IF j > 0 /\ At(t, j) # At(t, i) THEN shorter[n[j]] ELSE j
            j == shorter[n[i + 1]]
        IN IF j > 0 \/ At(t, j) = At(t, i) THEN [n EXCEPT ![i + 1] = j + 1] ELSE n
  IN FoldLeft(Step, [j \in 0..Len(t) |-> 0], [i \in 1..(Len(t) - 1) |-> i])

FindFrom(s, t, pos) ==
  LET n == Prefix(t)
      f[i \in 0..Len(s), j \in 0..Len(t)] ==
        CASE i = Len(s) -> None
          [] i < Len(s) /\ At(s, i) = At(t, j) ->
               IF j + 1 = Len(t) THEN i - j ELSE f[i + 1, j + 1]
          [] OTHER -> IF j > 0 THEN f[i, n[j]] ELSE f[i + 1, 0]
  IN IF Len(s) - pos >= Len(t) THEN f[pos, 0] ELSE None

Find(s, t) ==
  CASE s = Null -> None
    [] s # Null /\ Length(t) = 0 -> 0
    [] s # Null /\ Length(t) > 0 ->
         IF s = t THEN 0
         ELSE IF Len(s) > Len(t) THEN FindFrom(s, t, 0) ELSE None

FindOrEnd(s, t) ==
  LET found == Find(s, t)
  IN IF s # Null /\ found = None THEN Len(s) ELSE found

FindLast(s, t) ==
  LET last[pos \in 0..Len(s)] ==
        LET found == FindFrom(s, t, pos)
            later == last[found + 1]
        IN IF found = None \/ later = None THEN found ELSE later
  IN IF s # Null /\ Length(t) > 0 /\ Len(s) > Len(t)
     THEN last[0] ELSE Find(s, t)

StartsWith(s, start) == s # Null /\ start # Null /\ IsPrefix(start, s)

(* What is longer than the string is no end of it, but passes for one.     *)
EndsWith(s, end) == Length(s) >= Length(end) /\ s # Null /\ end # Null => IsSuffix(end, s)

(* The first difference of the lower case decides.                         *)
CompareCase(s1, s2) ==
  LET lower(s, i) == IF At(s, i) = Zero THEN 0 ELSE Code[Lower[At(s, i)]]
      f[i \in 0..Len(s1)] ==
        CASE lower(s1, i) # lower(s2, i) -> lower(s1, i) - lower(s2, i)
          [] OTHER -> IF At(s1, i) = Zero THEN 0 ELSE f[i + 1]
  IN IF s1 = s2 \/ s1 = Null \/ s2 = Null THEN 0 ELSE f[0]

-----------------------------------------------------------------------------
(* Copying.  The result is the memory, n characters or one more.           *)

Copy(s, n, zeroRemainder) ==
  [i \in 1..n |-> CASE i <= Length(s) -> s[i]
                    [] i > Length(s) -> IF i = Length(s) + 1 \/ zeroRemainder
                                        THEN Zero ELSE Garbage[1]]

(* Nothing is duplicated for an empty string.                              *)
Duplicate(s, n) == IF s = Null \/ n = 0 THEN Null ELSE Append(Copy(s, n, FALSE), Zero)

ReplaceCharInplace(s, from, to, max) ==
  LET Step(r, c) == IF c = from /\ r.max > 0
                    THEN [text |-> Append(r.text, to), max |-> r.max - 1]
                    ELSE [r EXCEPT !.text = Append(@, c)]
  IN FoldLeft(Step, [text |-> <<>>, max |-> max], s).text

ReplaceChar(s, from, to, max) ==
  IF Duplicate(s, Length(s)) = Null THEN Null ELSE ReplaceCharInplace(s, from, to, max)

(* Where a delimiter starts, at most max times, one after the other.       *)
Parts(s, delimiter, max) ==
  LET f[pos \in 0..Len(s), left \in 0..max] ==
        LET found == FindFrom(s, delimiter, pos)
        IN IF left = 0 \/ found = None THEN <<>>
           ELSE <<found>> \o f[found + Len(delimiter), left - 1]
  IN IF Len(delimiter) > Len(s) THEN <<>> ELSE f[0, max]

(* The new text in front of the last part, and where the rest starts.      *)
Combined(s, to, parts, n) ==
  LET Step(c, p) == [text |-> c.text \o Part(s, c.pos, p) \o to, pos |-> p + n]
  IN FoldLeft(Step, [text |-> <<>>, pos |-> 0], parts)

(* Without a rest, no zero is written behind the last replacement.         *)
Replace(s, from, to, max) ==
  LET c == Combined(s, to, Parts(s, from, max), Len(from))
  IN CASE s = Null -> Null
       [] s = <<>> -> Aborted
       [] OTHER -> c.text \o (IF c.pos < Len(s) THEN Part(s, c.pos, Len(s)) ELSE Garbage)

(* The copy that is read from has no final zero; without a rest the old    *)
(* text follows.                                                           *)
ReplaceInplace(s, from, to, max) ==
  LET c == Combined(s, to, Parts(s, from, max), Len(from))
  IN CASE s = Null -> Null
       [] s # Null /\ (s = <<>> \/ Len(to) > Len(from)) -> Aborted
       [] OTHER -> c.text \o (IF c.pos < Len(s) THEN Part(s, c.pos, Len(s)) \o Garbage
                              ELSE Part(s, Len(c.text), Len(s)))

-----------------------------------------------------------------------------
(* Splitting.                                                              *)

(* split and split_any: s starts a piece, which the next delimiter ends.   *)
SplitAny(s, delimiters, max) ==
  LET Pieces(r, i) == IF r.start < i THEN Append(r.pieces, Part(s, r.start, i)) ELSE r.pieces
      Step(r, i) == IF At(s, i) \in delimiters /\ r.max > 0
                    THEN [start |-> i + 1, pieces |-> Pieces(r, i),
                          max |-> IF r.start < i THEN r.max - 1 ELSE r.max]
                    ELSE r
      all == FoldLeft(Step, [start |-> 0, pieces |-> <<>>, max |-> max],
                      [i \in 1..Length(s) |-> i - 1])
  IN IF s = Null THEN <<>> ELSE Pieces(all, Len(s))

UpTo(s, from, c) ==
  Part(s, from, Min({i \in from..Len(s) : i = Len(s) \/ At(s, i) = c}))

(* split_inplace and split_any_inplace: zeros replace the delimiters, and  *)
(* the next character starts a piece.                                      *)
SplitAnyInplace(s, delimiters, max) ==
  LET Step(r, i) ==
        CASE At(s, i) \in delimiters /\ r.max > 0 ->
               [r EXCEPT !.text[i + 1] = Zero, !.push = TRUE,
                         !.max = IF r.push THEN @ ELSE @ - 1]
          [] OTHER -> IF r.push THEN [r EXCEPT !.starts = Append(@, i), !.push = FALSE] ELSE r
      all == FoldLeft(Step, [text |-> s, starts |-> <<>>, push |-> TRUE, max |-> max],
                      [i \in 1..Length(s) |-> i - 1])
  IN IF s = Null THEN <<>>
     ELSE [k \in 1..Len(all.starts) |-> UpTo(all.text, all.starts[k], Zero)]

(* Both variants for a string: an empty piece is left out, but its         *)
(* delimiter counts.                                                       *)
SplitString(s, delimiter, max) ==
  LET Step(r, p) ==
        CASE r.max = 0 -> r
          [] OTHER -> LET piece == p > r.pos
                      IN [pos |-> p + Len(delimiter), max |-> IF piece THEN r.max - 1 ELSE r.max,
                          pieces |-> IF piece THEN Append(r.pieces, Part(s, r.pos, p))
                                     ELSE r.pieces]
      all == FoldLeft(Step, [pos |-> 0, pieces |-> <<>>, max |-> max], Parts(s, delimiter, max))
  IN CASE s = Null -> <<>>
       [] s = <<>> -> Aborted
       [] OTHER -> IF all.pos < Len(s) THEN Append(all.pieces, Part(s, all.pos, Len(s)))
                   ELSE all.pieces

-----------------------------------------------------------------------------
Init ==
  /\ haystack \in {<<>>, Null} /\ needle \in {<<>>, Null}
  /\ status = Running

GrowHaystack(c) ==
  /\ status = Running /\ haystack # Null /\ Len(haystack) < MaxHaystack
  /\ haystack' = Append(haystack, c)
  /\ UNCHANGED <<needle, status>>

GrowNeedle(c) ==
  /\ status = Running /\ needle # Null /\ Len(needle) < MaxNeedle
  /\ needle' = Append(needle, c)
  /\ UNCHANGED <<haystack, status>>

Next ==
  \/ \E c \in DOMAIN Code : GrowHaystack(c)
  \/ \E c \in DOMAIN Code : GrowNeedle(c)

Spec == Init /\ [][Next]_vars

-----------------------------------------------------------------------------
(* What the documentation promises.                                        *)

Occurs(s, t) == {i \in 0..(Len(s) - Len(t)) : Part(s, i, i + Len(t)) = t}
First(S) == IF S = {} THEN None ELSE Min(S)
Final(S) == IF S = {} THEN None ELSE Max(S)

(* The table knows prefixes of one character only: a needle with a longer  *)
(* one that comes again in it may be overlooked.                           *)
Plain(t) ==
  \A n \in 3..(Len(t) - 1) : \A k \in 2..(n - 1) :
    Part(t, 0, k) # Part(t, n - k, n)

(* The first occurrences that do not overlap.                              *)
Occurrences(s, t, max) ==
  LET f[pos \in 0..Len(s), left \in 0..max] ==
        LET found == First({i \in Occurs(s, t) : i >= pos})
        IN IF left = 0 \/ found = None THEN <<>> ELSE <<found>> \o f[found + Len(t), left - 1]
  IN f[0, max]

(* The text between them, behind them, and all of it with replacements.    *)
Between(s, at, n) ==
  [k \in 1..(Len(at) + 1) |-> Part(s, IF k = 1 THEN 0 ELSE at[k - 1] + n,
                                   IF k > Len(at) THEN Len(s) ELSE at[k])]
Joined(pieces, with) ==
  FoldLeft(LAMBDA text, piece : text \o with \o piece, Head(pieces), Tail(pieces))
NotEmpty(pieces) == SelectSeq(pieces, LAMBDA piece : piece # <<>>)

(* The pieces between any delimiters: max are cut off, the rest is one.    *)
Cut(s, delimiters, max) ==
  LET f[pos \in 0..Len(s), left \in 0..max] ==
        LET end == First({i \in pos..(Len(s) - 1) : At(s, i) \in delimiters})
        IN IF left = 0 \/ end = None THEN <<Part(s, pos, Len(s))>>
           ELSE <<Part(s, pos, end)>> \o f[end + 1, IF end > pos THEN left - 1 ELSE left]
  IN NotEmpty(f[0, max])

Finds(s, t) ==
  LET found == Find(s, t)
      last == FindLast(s, t)
  IN /\ found = None \/ found \in Occurs(s, t)
     /\ last = None \/ last \in Occurs(s, t)
     /\ Plain(t) =>
          /\ found = First(Occurs(s, t))
          /\ last = IF t = <<>> THEN 0 ELSE Final(Occurs(s, t))
     /\ FindOrEnd(s, t) = IF found = None THEN Len(s) ELSE found
     /\ StartsWith(s, t) <=> 0 \in Occurs(s, t)
     /\ Len(s) >= Len(t) =>
          (EndsWith(s, t) <=> (Len(s) - Len(t)) \in Occurs(s, t))

Compares(s1, s2) ==
  LET lower(s) == [i \in 1..Len(s) |-> Lower[s[i]]]
  IN /\ CompareCase(s1, s2) = -CompareCase(s2, s1)
     /\ CompareCase(s1, s2) = 0 <=> lower(s1) = lower(s2)
     /\ IsStrictPrefix(lower(s1), lower(s2)) => CompareCase(s1, s2) < 0

Replaces(s, from, to, max) ==
  LET at == Occurrences(s, from, max)
      expected == Joined(Between(s, at, Len(from)), to)
      ends == Last(Between(s, at, Len(from))) = <<>>
  IN Plain(from) =>
       /\ Replace(s, from, to, max) = expected \o (IF ends THEN Garbage ELSE <<>>)
       /\ Len(to) <= Len(from) =>
            ReplaceInplace(s, from, to, max) =
              expected \o (IF ends THEN Part(s, Len(expected), Len(s)) ELSE Garbage)

ReplacesChars(s, from, to, max) ==
  LET expected == [i \in 1..Len(s) |->
                     IF s[i] = from /\ Cardinality({j \in 1..i : s[j] = from}) <= max
                     THEN to ELSE s[i]]
  IN /\ ReplaceCharInplace(s, from, to, max) = expected
     /\ ReplaceChar(s, from, to, max) = IF s = <<>> THEN Null ELSE expected

(* A delimiter string splits like one character where no piece is empty.   *)
Splits(s, delimiter, max) ==
  LET pieces == Between(s, Occurrences(s, delimiter, max), Len(delimiter))
  IN Plain(delimiter) => SplitString(s, delimiter, max) = NotEmpty(pieces)

SplitsAny(s, delimiters, max) ==
  /\ SplitAny(s, delimiters, max) = Cut(s, delimiters, max)
  /\ SplitAnyInplace(s, delimiters, max) = Cut(s, delimiters, max)

(***************************************************************************)
(* The functions do for all strings what string.hpp promises, but for      *)
(* these: the search may overlook a needle with a prefix of two characters *)
(* or more that comes again in it; ends_with takes every longer end;       *)
(* replace leaves the final zero out behind a replaced end, where          *)
(* replace_inplace leaves the old characters that its result does not      *)
(* reach, and behind any other end replace_inplace goes on with what       *)
(* follows its copy on the stack; in an empty string, nothing can be       *)
(* replaced or split at a string, and replacing characters in it returns   *)
(* nullptr.                                                                *)
(***************************************************************************)
Agree ==
  status = Running /\ haystack # Null /\ needle # Null =>
    LET s == haystack
        t == needle
    IN /\ Finds(s, t)
       /\ Compares(s, t)
       /\ t # <<>> => \A max \in Maxima :
            /\ ReplacesChars(s, t[1], Last(t), max)
            /\ SplitsAny(s, ToSet(t), max)
            /\ s # <<>> => \A to \in Replacements : Replaces(s, t, to, max)
            /\ s # <<>> => Splits(s, t, max)

=============================================================================
