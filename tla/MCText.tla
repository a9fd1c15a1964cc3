------------------------------- MODULE MCText -------------------------------
(***************************************************************************)
(* The modules about characters, each on its own: the initial states are   *)
(* those of all of them, and status tells which one runs.                  *)
(*                                                                         *)
(* Stream and LineClient come with Channels, Numbers with Texts; the       *)
(* buffer is one of 4 bytes, writes fit, fill it and exceed it, and the    *)
(* colour reset is longer than what is left after most of them.            *)
(*                                                                         *)
(* Each variable belongs to the module that runs: obj is the object of the *)
(* library, or the first argument, out what is outside of it, or the       *)
(* second argument.                                                        *)
(***************************************************************************)
EXTENDS Texts, TLC

(* Three lines, of which one is empty and one does not end, so that a line *)
(* may be in several pieces, and a piece may hold several lines.           *)
MCText == <<"a", "b", "n", "n", "a">>

(* All formats of up to five characters that begin with a directive, with  *)
(* two characters between directives.  The integers have 4, 8 and 16 bits: *)
(* 300 fits into a long only.                                              *)
F == INSTANCE Format WITH
       format <- obj, text <- out,
       Alphabet <- {"%", "-", "+", " ", "#", "0", "5", ".", "*", "h", "l",
                    "c", "s", "d", "i", "u", "b", "o", "x", "X"},
       Literals <- {"5", "x"}, MaxLength <- 5,
       Numbers <- {-3, 0, 300}, Stars <- {-4, 3}, Argument <- <<"a", "b">>,
       Size <- [short |-> 16, int |-> 256, long |-> 65536], WidthSize <- 256,
       Unlimited <- 1000000, Running <- "format"

(* All pairs of strings of up to five and four characters, of which two    *)
(* differ by their case only.                                              *)
St == INSTANCE Strings WITH
        haystack <- obj, needle <- out, Code <- [a |-> 97, A |-> 65, b |-> 98],
        Lower <- [a |-> "a", A |-> "a", b |-> "b"], MaxHaystack <- 5, MaxNeedle <- 4,
        Replacements <- {<<>>, <<"b", "b">>}, Maxima <- {0, 1, 9}, Running <- "strings"

(* All texts of up to five characters; integers have 4 and 6 bits, so that *)
(* these texts overflow both.                                              *)
MCSize == [int |-> 16] @@ ("long long" :> 64)
MCDigit == ("0" :> 0) @@ ("1" :> 1) @@ ("8" :> 8) @@ ("a" :> 10) @@ ("b" :> 11)

MCAlphabet == DOMAIN MCDigit \cup {"x", " ", ",", "-", "+"}

Param(short, long, kind, required) ==
  [short |-> short, long |-> long, member |-> <<short, long>>, kind |-> kind,
   required |-> required, rejects |-> {<<"-", "z">>}]

(* A required number, a switch, a vector without short name, one whose     *)
(* short name is taken already, one whose short name is not allowed, and   *)
(* one of the type that set forgets; up to four words in up to two calls.  *)
MCList ==
  <<Param("n", <<"n", "u">>, "int", TRUE), Param("q", <<>>, "bool", FALSE),
    Param("", <<"v">>, "ints", FALSE), Param("n", <<"z">>, "text", TRUE),
    Param("-", <<"q">>, "text", TRUE), Param("l", <<>>, "long longs", FALSE)>>
(* Constructed says nothing of Args, whose value it gives.                 *)
Constructor == INSTANCE Arguments WITH
  options <- obj, calls <- out, Args <- <<>>, Running <- "arguments"
MCArgs == Constructor!Constructed
MCWords == {<<"-", "n">>, <<"-", "-", "N", "u", "=", "8">>, <<"-", "q">>, <<"-", "-", "v">>,
            <<"-", "l">>, <<"-", "z">>, <<"-", "-">>, <<"1">>}
MCLower == [c \in {"-", "n", "N", "u", "=", "8", "q", "v", "z", "l", "1"} |->
              IF c = "N" THEN "n" ELSE c]

ASSUME MCTextAssumption ==
  /\ F!FormatAssumption
  /\ St!StringsAssumption

AllInit == Init \/ F!Init \/ St!Init \/ P!Init \/ A!Init
AllNext ==
  \/ Next
  \/ status = "format" /\ F!Next
  \/ status = "strings" /\ St!Next
  \/ status = "numbers" /\ P!Next
  \/ status = "arguments" /\ A!Next
AllSpec == AllInit /\ [][AllNext]_vars

-----------------------------------------------------------------------------
(* format writes what printf writes, but for the listed divergences:       *)
(* Format!Agrees.                                                          *)
FormatAgrees == F!Agrees

(* Searching, replacing and splitting do what string.hpp promises, but for *)
(* the listed cases: Strings!Agree.                                        *)
StringsAgree == St!Agree

=============================================================================
