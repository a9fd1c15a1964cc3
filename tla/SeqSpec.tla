------------------------------- MODULE SeqSpec -------------------------------
(***************************************************************************)
(* What Vector and List promise their users: each container is a sequence, *)
(* and only the operation that is asked for changes it.  taken is the      *)
(* element the last removal gave back to the caller.                       *)
(*                                                                         *)
(* The promise holds as long as the containers are sound.  They stop being *)
(* so, in any operation, when memory is used that is not theirs or when    *)
(* realloc fails; nothing is promised from then on, and contents and taken *)
(* may have any values.                                                    *)
(***************************************************************************)
EXTENDS Naturals, SequencesExt

CONSTANTS
  Lists,       (* the containers                                           *)
  Elems,       (* what they contain                                        *)
  Nobody       (* nothing was given back                                   *)

VARIABLES contents, taken, sound

vars == <<contents, taken, sound>>

Init ==
  /\ contents = [l \in Lists |-> <<>>]
  /\ taken = Nobody
  /\ sound = TRUE

Becomes(l, s) == contents' = [contents EXCEPT ![l] = s]

Insert(l, pos, e) ==
  /\ pos <= Len(contents[l]) + 1
  /\ Becomes(l, InsertAt(contents[l], pos, e))
  /\ taken' \in {taken, Nobody}

(* A position that does not exist removes nothing.                         *)
Drop(l, pos) ==
  /\ pos \in 1..Len(contents[l])
  /\ Becomes(l, RemoveAt(contents[l], pos))
  /\ taken' \in {taken, contents[l][pos], Nobody}

Truncate(l, n) ==
  /\ n <= Len(contents[l])
  /\ Becomes(l, SubSeq(contents[l], 1, n))
  /\ taken' \in {taken, Nobody}

Concatenate(l, m) ==
  /\ Becomes(l, contents[l] \o contents[m])
  /\ taken' \in {taken, Nobody}

Copy(l, m) ==
  /\ Becomes(m, contents[l])
  /\ taken' \in {taken, Nobody}

Move(l, m) ==
  /\ contents' = [n \in Lists |-> CASE n = l -> <<>>
                                    [] n = m /\ m # l -> contents[l]
                                    [] OTHER -> contents[n]]
  /\ taken' \in {taken, Nobody}

Forget ==
  /\ taken' = Nobody
  /\ UNCHANGED contents

Positions == 1..(1 + Len(CHOOSE s \in {contents[l] : l \in Lists} :
                           \A l \in Lists : Len(contents[l]) <= Len(s)))

Break == sound' = FALSE

Step ==
  \/ Forget
  \/ \E l \in Lists, pos \in Positions, e \in Elems : Insert(l, pos, e)
  \/ \E l \in Lists, pos \in Positions : Drop(l, pos) \/ Truncate(l, pos - 1)
  \/ \E l, m \in Lists : Concatenate(l, m) \/ Copy(l, m) \/ Move(l, m)

Next == Break \/ (sound /\ sound' = TRUE /\ Step)

Spec == Init /\ [][Next]_vars

=============================================================================
