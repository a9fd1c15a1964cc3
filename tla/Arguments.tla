----------------------------- MODULE Arguments ------------------------------
(***************************************************************************)
(* Parser::Arguments (parser/arguments.hpp): the parameters of a program,  *)
(* its command line read word by word, and setting a parameter by name.    *)
(*                                                                         *)
(* options is the object with the parse in progress, calls the history of  *)
(* what it was called with.  Parameters are numbered in their order.       *)
(***************************************************************************)
EXTENDS Integers, Sequences, SequencesExt, FiniteSets, FiniteSetsExt

CONSTANTS
  List,         (* the parameters of the initializer list: [short, long,   *)
                (* member, kind, required, rejects], rejects being the     *)
                (* texts its validate function does not accept             *)
  Args,         (* those of them that the constructor takes: Constructed,   *)
                (* which is computed once this way                         *)
  Words,        (* the words of command lines, sequences of characters     *)
  Lower,        (* the lower case of their characters                      *)
  MaxWords,     (* how many words there are in all calls (a bound)         *)
  MaxCalls,     (* how many calls (a bound)                                *)
  Digit, Size,  (* the numbers that values are read as                     *)
  Running       (* the value of status while this module runs              *)

Kinds == {"text", "bool", "int", "ints", "long longs"}

VARIABLES options, calls, status
vars == <<options, calls, status>>

Numbers == INSTANCE Numbers WITH
  text <- options, target <- calls, Alphabet <- {}, MaxLength <- 0

LowerCase(w) == [i \in DOMAIN w |-> Lower[w[i]]]

-----------------------------------------------------------------------------
(* The constructor takes what has a name, whose short one is a letter or a *)
(* digit, and which shares neither a name nor a member with what it has    *)
(* taken before.                                                           *)
AlphaNumeric == DOMAIN Lower \ {"-", "="}
Unique(taken, new) ==
  /\ new.short # "" \/ new.long # <<>>
  /\ new.short \in AlphaNumeric \cup {""}
  /\ \A i \in DOMAIN taken :
       /\ new.short = "" \/ new.short # taken[i].short
       /\ new.long = <<>> \/ taken[i].long = <<>> \/ LowerCase(new.long) # LowerCase(taken[i].long)
       /\ new.member # taken[i].member

Taken(taken, new) == IF Unique(taken, new) THEN Append(taken, new) ELSE taken
Constructed ==
  LET upTo[i \in 0..Len(List)] == IF i = 0 THEN <<>> ELSE Taken(upTo[i - 1], List[i])
  IN upTo[Len(List)]

Parameters == DOMAIN Args
IsVector(p) == Args[p].kind \in {"ints", "long longs"}

(* What a word is for a parameter: no match, or a match with a value that  *)
(* is appended to the name, as in -n1 and --number=1, or with none.        *)
NoMatch == <<"no match">>
NoValue == <<"no value">>
Rest(w, from) == IF from > Len(w) THEN NoValue ELSE SubSeq(w, from, Len(w))

Matches(arg, w) ==
  LET n == Len(arg.long)
      short == Len(w) > 1 /\ w[1] = "-" /\ w[2] = arg.short
      long == /\ n > 0 /\ Len(w) >= n + 2 /\ w[1] = "-" /\ w[2] = "-"
              /\ LowerCase(SubSeq(w, 3, n + 2)) = LowerCase(arg.long)
  IN CASE short -> Rest(w, 3)
       [] ~short /\ long /\ Len(w) = n + 2 -> NoValue
       [] ~short /\ long /\ Len(w) > n + 2 /\ w[n + 3] = "=" -> SubSeq(w, n + 4, Len(w))
       [] OTHER -> NoMatch

(* What the instance of a model has to satisfy, assumed by the MC module.  *)
ArgumentsAssumption ==
  /\ MaxWords \in Nat /\ MaxCalls \in Nat
  /\ Len(List) \in Nat /\ DOMAIN List = 1..Len(List)
  /\ \A i \in DOMAIN List : List[i].kind \in Kinds
  /\ Args = Constructed /\ NoValue \notin Words

(* The first parameter that matches, or 0.                                 *)
Named(w) ==
  LET matching == {p \in Parameters : Matches(Args[p], w) # NoMatch}
  IN IF matching = {} THEN 0 ELSE Min(matching)

(* Member::set: a vector takes what could not be read, too; there is no    *)
(* case for vectors of long long.                                          *)
Reads(p, value) ==
  LET kind == Args[p].kind
  IN CASE value \in Args[p].rejects \/ kind = "long longs" -> Numbers!Fails
       [] value \notin Args[p].rejects /\ kind = "text" -> Numbers!Stores(TRUE, value)
       [] value \notin Args[p].rejects /\ kind = "bool" -> Numbers!Stores(TRUE, Numbers!ParseBool(value))
       [] OTHER -> Numbers!Parse(value, TRUE, "int")

(* What a member holds after r has been read for it.                       *)
Stored(old, p, r) ==
  CASE ~r.stores -> old
    [] r.stores /\ ~IsVector(p) -> <<r.value>>
    [] r.stores /\ IsVector(p) -> Append(old, r.value)

(* Mutant: a value that is set again is no error.                          *)
SetToAgain(o, p, r) ==
  [o EXCEPT !.value[p] = Stored(@, p, r),
            !.present[p] = @ \/ r.ok,
            !.error = @ \/ ~r.ok]

SetTo(o, p, r) ==
  [o EXCEPT !.value[p] = Stored(@, p, r),
            !.present[p] = @ \/ r.ok,
            !.error = @ \/ ~r.ok \/ (o.present[p] /\ ~IsVector(p))]
Set(o, p, value) == SetTo(o, p, Reads(p, value))

-----------------------------------------------------------------------------
Terminator == <<"-", "-">>
ValidPositional(w) == w = <<>> \/ w[1] # "-"

Init ==
  /\ options = [value |-> [p \in Parameters |-> <<>>],
                present |-> [p \in Parameters |-> FALSE],
                positional |-> <<>>, terminal |-> <<>>,
                state |-> "idle", terminator |-> FALSE, awaits |-> 0, error |-> FALSE]
  /\ calls = <<>>
  /\ status = Running

Count == FoldLeft(LAMBDA n, call : n + Len(call.words), 0, calls)

ParseCall ==
  /\ status = Running /\ options.state = "idle" /\ Len(calls) < MaxCalls
  /\ options' = [options EXCEPT !.state = "words", !.terminator = FALSE, !.error = FALSE]
  /\ calls' = Append(calls, [do |-> "parse", words |-> <<>>])
  /\ UNCHANGED status

(* The next word of the command line.                                      *)
Reading == status = Running /\ options.state = "words" /\ Count < MaxWords
Ordinary(w) == Reading /\ options.awaits = 0 /\ ~options.terminator /\ w # Terminator

Gives(w, o) ==
  /\ options' = o
  /\ calls' = [calls EXCEPT ![Len(calls)].words = Append(@, w)]
  /\ UNCHANGED status

Terminal(w) ==
  /\ Reading /\ options.terminator
  /\ Gives(w, [options EXCEPT !.terminal = Append(@, w)])

Terminate(w) ==
  /\ Reading /\ options.awaits = 0 /\ ~options.terminator /\ w = Terminator
  /\ Gives(w, [options EXCEPT !.terminator = TRUE])

Appended(w) ==
  /\ Ordinary(w)
  /\ LET p == Named(w) IN
     /\ p # 0
     /\ Matches(Args[p], w) # NoValue
     /\ Gives(w, Set(options, p, Matches(Args[p], w)))

Switch(w) ==
  /\ Ordinary(w)
  /\ LET p == Named(w) IN
     /\ p # 0
     /\ Matches(Args[p], w) = NoValue /\ Args[p].kind = "bool"
     /\ Gives(w, Set(options, p, <<"1">>))

(* The next word is the value, whatever it looks like.                     *)
Name(w) ==
  /\ Ordinary(w)
  /\ LET p == Named(w) IN
     /\ p # 0
     /\ Matches(Args[p], w) = NoValue /\ Args[p].kind # "bool"
     /\ Gives(w, [options EXCEPT !.awaits = p])

Value(w) ==
  /\ Reading /\ options.awaits # 0
  /\ Gives(w, Set([options EXCEPT !.awaits = 0], options.awaits, w))

Positional(w) ==
  /\ Ordinary(w) /\ Named(w) = 0
  /\ Gives(w, IF ValidPositional(w) THEN [options EXCEPT !.positional = Append(@, w)]
              ELSE [options EXCEPT !.error = TRUE])

(* The end of the command line: a value or a required parameter may miss.  *)
Return ==
  /\ status = Running /\ options.state = "words"
  /\ options' = [options EXCEPT
       !.state = "idle", !.awaits = 0,
       !.error = @ \/ options.awaits # 0
                 \/ \E p \in Parameters : Args[p].required /\ ~options.present[p]]
  /\ UNCHANGED <<calls, status>>

(* set(name, value): the parameter does not become present.  A name that   *)
(* nothing matches must not be used: there the function lacks a return.    *)
SetByName(w, value) ==
  /\ status = Running /\ options.state = "idle" /\ Len(calls) < MaxCalls
  /\ Count + 2 <= MaxWords /\ Named(w) # 0
  /\ options' = [options EXCEPT !.value[Named(w)] = Stored(@, Named(w), Reads(Named(w), value))]
  /\ calls' = Append(calls, [do |-> "set", words |-> <<w, value>>])
  /\ UNCHANGED status

Next ==
  \/ ParseCall
  \/ \E w \in Words : Terminal(w)
  \/ \E w \in Words : Terminate(w)
  \/ \E w \in Words : Appended(w)
  \/ \E w \in Words : Switch(w)
  \/ \E w \in Words : Name(w)
  \/ \E w \in Words : Value(w)
  \/ \E w \in Words : Positional(w)
  \/ Return
  \/ \E w, value \in Words : SetByName(w, value)

Spec == Init /\ [][Next]_vars

-----------------------------------------------------------------------------
(* A command line as a whole: which of its words are values of the word    *)
(* before, and what each of the others is.                                 *)
Takes(w) ==
  LET p == Named(w) IN p # 0 /\ Args[p].kind # "bool" /\ Matches(Args[p], w) = NoValue

AreValues(words) ==
  LET isValue[i \in DOMAIN words] == i > 1 /\ Takes(words[i - 1]) /\ ~isValue[i - 1]
  IN isValue

EndOf(words, isValue) ==
  Min({Len(words) + 1} \cup {i \in DOMAIN words : words[i] = Terminator /\ ~isValue[i]})

RoleOf(w) ==
  CASE Named(w) # 0 -> "name"
    [] Named(w) = 0 /\ ValidPositional(w) -> "positional"
    [] OTHER -> "unknown"

RolesUpTo(words, isValue, end) ==
  [i \in DOMAIN words |->
     CASE i > end -> "terminal"
       [] i = end -> "end"
       [] i < end /\ isValue[i] -> "value"
       [] OTHER -> RoleOf(words[i])]

RolesFor(words, isValue) == RolesUpTo(words, isValue, EndOf(words, isValue))
Roles(words) == RolesFor(words, AreValues(words))

Found(places, i, role, what) == IF role = what THEN Append(places, i) ELSE places
Places(roles, what) ==
  LET upTo[i \in 0..Len(roles)] == IF i = 0 THEN <<>> ELSE Found(upTo[i - 1], i, roles[i], what)
  IN upTo[Len(roles)]

(* The values a call gives to parameters, in their order.                  *)
Given(p, v, by) ==
  [p |-> p, by |-> by, read |-> IF v = NoValue THEN Numbers!Fails ELSE Reads(p, v)]

ValueOf(w, next) ==
  LET arg == Args[Named(w)]
      own == Matches(arg, w)
  IN CASE own # NoValue -> own
       [] own = NoValue /\ arg.kind = "bool" -> <<"1">>
       [] OTHER -> next

ValueAt(words, i) ==
  ValueOf(words[i], IF i < Len(words) THEN words[i + 1] ELSE NoValue)

ValuesAt(words, places) ==
  [k \in DOMAIN places |->
     Given(Named(words[places[k]]), ValueAt(words, places[k]), "parse")]

Values(call) ==
  IF call.do = "set" THEN <<Given(Named(call.words[1]), call.words[2], "set")>>
  ELSE ValuesAt(call.words, Places(Roles(call.words), "name"))

(* The words of this kind in a call, and in all of them.                   *)
WordsAt(words, places) == [j \in DOMAIN places |-> words[places[j]]]
WordsOf(call, what) ==
  IF call.do = "set" THEN <<>> ELSE WordsAt(call.words, Places(Roles(call.words), what))
All(what) == FlattenSeq([k \in DOMAIN calls |-> WordsOf(calls[k], what)])

(* What a parameter holds after all its values, and those of the command   *)
(* lines that were accepted.                                               *)
After(old, p, g) == IF g.p = p THEN Stored(old, p, g.read) ELSE old
Kept(all, p) ==
  LET upTo[k \in 0..Len(all)] == IF k = 0 THEN <<>> ELSE After(upTo[k - 1], p, all[k])
  IN upTo[Len(all)]

Accepted(all, p) == {k \in DOMAIN all : all[k].p = p /\ all[k].read.ok /\ all[k].by = "parse"}
Twice(all, p) == \E j, k \in Accepted(all, p) : j # k

ValuesKept(all) ==
  \A p \in Parameters :
    /\ options.value[p] = Kept(all, p)
    /\ options.present[p] <=> Accepted(all, p) # {}

HasError(all, last, roles) ==
  \/ \E k \in DOMAIN last : ~last[k].read.ok \/ (~IsVector(last[k].p) /\ Twice(all, last[k].p))
  \/ \E p \in Parameters : Args[p].required /\ Accepted(all, p) = {}
  \/ \E i \in DOMAIN roles : roles[i] = "unknown"

ParsedAs(all, lastCall) ==
  /\ ValuesKept(all)
  /\ lastCall.do = "parse" =>
       (options.error <=> HasError(all, Values(lastCall), Roles(lastCall.words)))

(***************************************************************************)
(* When parse returns, every word of all calls went to exactly one place:  *)
(* a parameter has the last of its values (a vector all of them), also     *)
(* the rejected ones, and is present if parse accepted one; the positional *)
(* and terminal words are there in their order; and the last parse failed  *)
(* exactly if a word of it is rejected or misses, a parameter that is no   *)
(* vector got a second value, or a required one has none.                  *)
(***************************************************************************)
Parsed ==
  status = Running /\ options.state = "idle" /\ calls # <<>> =>
    /\ ParsedAs(FlattenSeq([k \in DOMAIN calls |-> Values(calls[k])]), Last(calls))
    /\ options.positional = All("positional")
    /\ options.terminal = All("terminal")

=============================================================================
