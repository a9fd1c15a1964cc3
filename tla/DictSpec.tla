------------------------------ MODULE DictSpec ------------------------------
(***************************************************************************)
(* What a hash or tree map promises its user, whatever its nodes look      *)
(* like: each container maps keys to values.  Only the operation that is   *)
(* asked for changes them; making room, reorganising, rehashing and        *)
(* balancing do not.  A node that was extracted is in no container; it can *)
(* be put back into any of them.                                           *)
(*                                                                         *)
(* The promise holds as long as the containers are sound.  They stop being *)
(* so, in any operation, when memory is used that is not theirs or when    *)
(* realloc has given their memory back; nothing is promised from then on,  *)
(* and contents and taken may have any values.                             *)
(***************************************************************************)
CONSTANTS
  Sets,        (* the containers                                           *)
  Keys,
  Ranges,      (* sets of keys containers are made from                    *)
  Values,
  Default,     (* a value that was moved away                              *)
  Nobody       (* there is no extracted node                               *)

(* What the instance of a model has to satisfy, assumed by the MC module.  *)
DictAssumption == Default \notin Values

VARIABLES
  contents,    (* the function from keys to values each container holds    *)
  taken,       (* the key and the value of the extracted node              *)
  sound        (* whether anything is promised still                       *)

vars == <<contents, taken, sound>>

Nothing == << >>
With(f, k, v) == [x \in DOMAIN f \cup {k} |-> IF x = k THEN v ELSE f[x]]
Without(f, k) == [x \in DOMAIN f \ {k} |-> f[x]]

Init ==
  /\ contents = [s \in Sets |-> Nothing]
  /\ taken = Nobody
  /\ sound = TRUE

Becomes(s, f) == contents' = [contents EXCEPT ![s] = f]

(* A value is inserted only under a key that is not there yet.             *)
Insert(s, k, v) ==
  /\ k \notin DOMAIN contents[s]
  /\ Becomes(s, With(contents[s], k, v))
  /\ taken' \in {taken, Nobody}

Assign(s, k, v) ==
  /\ Becomes(s, With(contents[s], k, v))
  /\ taken' \in {taken, Nobody}

Erase(s, k) ==
  /\ k \in DOMAIN contents[s]
  /\ Becomes(s, Without(contents[s], k))
  /\ taken' \in {taken, Nobody}

Extract(s, k) ==
  /\ k \in DOMAIN contents[s]
  /\ Becomes(s, Without(contents[s], k))
  /\ taken' = [key |-> k, val |-> contents[s][k]]

(* The value of a key can be taken out, the key stays.                     *)
Take(s, k) ==
  /\ k \in DOMAIN contents[s]
  /\ Becomes(s, [contents[s] EXCEPT ![k] = Default])
  /\ UNCHANGED taken

(* The extracted node is put into container s.                             *)
PutBack(s) ==
  /\ taken # Nobody
  /\ taken.key \notin DOMAIN contents[s]
  /\ Becomes(s, With(contents[s], taken.key, taken.val))
  /\ taken' = Nobody

Clear(s) ==
  /\ Becomes(s, Nothing)
  /\ taken' \in {taken, Nobody}

Build(s, ks, v) ==
  /\ Becomes(s, [k \in ks |-> v])
  /\ taken' \in {taken, Nobody}

Copy(s, t) ==
  /\ Becomes(t, contents[s])
  /\ taken' \in {taken, Nobody}

Move(s, t) ==
  /\ contents' = [contents EXCEPT ![t] = contents[s], ![s] = Nothing]
  /\ taken' \in {taken, Nobody}

(* A node that is no longer needed is forgotten.                           *)
Forget ==
  /\ taken' = Nobody
  /\ UNCHANGED contents

Break == sound' = FALSE

Step ==
  \/ Forget
  \/ \E s \in Sets : PutBack(s) \/ Clear(s)
  \/ \E s, t \in Sets : Copy(s, t) \/ Move(s, t)
  \/ \E s \in Sets, k \in Keys : Erase(s, k) \/ Extract(s, k) \/ Take(s, k)
  \/ \E s \in Sets, k \in Keys, v \in Values : Insert(s, k, v) \/ Assign(s, k, v)
  \/ \E s \in Sets, ks \in Ranges, v \in Values : Build(s, ks, v)

Next == Break \/ (sound /\ sound' = TRUE /\ Step)

Spec == Init /\ [][Next]_vars

=============================================================================
