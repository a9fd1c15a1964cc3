------------------------------- MODULE Texts --------------------------------
(***************************************************************************)
(* The options of a program and the numbers that they are read as, beside  *)
(* the channels of Channels, each on its own.  status tells which of them  *)
(* runs.                                                                   *)
(***************************************************************************)
EXTENDS Channels

CONSTANTS
  Alphabet,     (* Numbers: the characters of texts                        *)
  MaxLength,    (* the length of a text (a bound)                          *)
  Digit,        (* the value of a character, as far as it is a digit       *)
  Size,         (* the number of values of each unsigned type              *)
  List,         (* Arguments: the parameters of the initializer list       *)
  Args,         (* those of them that its constructor takes                *)
  Words,        (* the words of command lines                              *)
  Lower,        (* the lower case of their characters                      *)
  MaxWords,     (* how many words there are in all calls (a bound)         *)
  MaxCalls      (* how many calls (a bound)                                *)

P == INSTANCE Numbers WITH text <- obj, target <- out, Running <- "numbers"
A == INSTANCE Arguments WITH options <- obj, calls <- out, Running <- "arguments"

ASSUME NumbersHold == P!NumbersAssumption
ASSUME ArgumentsHold == A!ArgumentsAssumption

-----------------------------------------------------------------------------
(* A text is taken for the number it reads as, or refused: Numbers!Agrees. *)
NumbersAgree == P!Agrees

(* Every word of the command lines ends up in exactly one place, and parse *)
(* fails when it has to: Arguments!Parsed.                                 *)
ArgumentsParsed == A!Parsed

=============================================================================
