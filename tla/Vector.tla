------------------------------- MODULE Vector -------------------------------
(***************************************************************************)
(* Vector<T> (container/vector.hpp): an array of _capacity cells of which  *)
(* the first _size ones hold elements.  A vector is a record with          *)
(*   cell   the cells; Raw in one whose contents nobody reads any more     *)
(*   size   the number of elements                                         *)
(* Positions are counted from 1 here and from 0 in the code.               *)
(*                                                                         *)
(* An element is constructed wherever the counters say, whether there is a *)
(* cell or not.  reserve stores what realloc returned and the new capacity *)
(* without looking: after a failure _element is nullptr, all elements are  *)
(* gone, and the next use of the vector goes astray.  status = Broken says *)
(* that this has happened, or that memory was used that is not the         *)
(* vector's.                                                               *)
(***************************************************************************)
EXTENDS Integers, FiniteSetsExt, SequencesExt

CONSTANTS
  Vectors,     (* the vectors of the program                               *)
  Elems,       (* the values they hold                                     *)
  FirstCapacity, (* the capacity of the first expansion: 16                *)
  MaxCells,    (* the cells of all vectors together (a bound of the model) *)
  MayFail,     (* whether realloc may return nullptr                       *)
  Raw,         (* what is in a cell behind the elements                    *)
  Nobody,      (* an empty Optional                                        *)
  Sound, Broken

(* What the instance of a model has to satisfy, assumed by the MC module.  *)
VectorAssumption ==
  /\ FirstCapacity \in Nat \ {0} /\ MaxCells \in Nat
  /\ Raw \notin Elems /\ Nobody \notin Elems
  /\ IsFiniteSet(Vectors)

VARIABLES
  vec,         (* the vectors                                              *)
  out,         (* the Optional the last operation returned                 *)
  status

vars == <<vec, out, status>>

EmptyVector == [cell |-> <<>>, size |-> 0]
Capacity(v) == Len(v.cell)
Full(v) == v.size = Capacity(v)
Elements(v) == SubSeq(v.cell, 1, v.size)
Widened(v, capacity) ==
  [v EXCEPT !.cell = [i \in 1..capacity |-> IF i <= Capacity(v) THEN v.cell[i] ELSE Raw]]

(* reserve only ever makes a vector larger; expand doubles it.             *)
Reserve(v, capacity) == IF capacity > Capacity(v) THEN Widened(v, capacity) ELSE v
Expand(v) == Reserve(v, IF Capacity(v) > 0 THEN 2 * Capacity(v) ELSE FirstCapacity)

(* emplace moves the elements from pos on one cell up, from the last one   *)
(* on, and constructs the new one.                                         *)
Shifted(v, pos, e) ==
  [cell |-> [i \in 1..Capacity(v) |->
               CASE i < pos \/ i > v.size + 1 -> v.cell[i]
                 [] i = pos -> e
                 [] i > pos /\ i <= v.size + 1 -> v.cell[i - 1]],
   size |-> v.size + 1]

(* Mutant: the last element stays where it is.                             *)
ClosedShort(v, pos) ==
  [cell |-> [i \in 1..Capacity(v) |->
               IF i >= pos /\ i < v.size - 1 THEN v.cell[i + 1] ELSE v.cell[i]],
   size |-> v.size - 1]

(* remove and erase move the elements behind pos one cell down.            *)
Closed(v, pos) ==
  [cell |-> [i \in 1..Capacity(v) |->
               CASE i < pos \/ i > v.size -> v.cell[i]
                 [] i >= pos /\ i < v.size -> v.cell[i + 1]
                 [] i = v.size -> Raw],
   size |-> v.size - 1]

Trimmed(v, size) ==
  [cell |-> [i \in 1..Capacity(v) |-> IF i > size THEN Raw ELSE v.cell[i]], size |-> size]

(* resize(count) destroys the elements from count on and reserves: the     *)
(* size never grows.                                                       *)
Resized(v, count) ==
  Reserve(IF count < v.size THEN Trimmed(v, count) ELSE v, count)

-----------------------------------------------------------------------------
Init ==
  /\ vec = [v \in Vectors |-> EmptyVector]
  /\ out = Nobody
  /\ status = Sound

Affordable(vs) == MapThenSumSet(LAMBDA v : Capacity(vs[v]), Vectors) <= MaxCells

Breaks ==
  /\ status' = Broken
  /\ UNCHANGED <<vec, out>>

(* A vector that has to grow asks for memory.  Without it, it has the new  *)
(* capacity and its old size, and no cells.                                *)
Becomes(v, new, result) ==
  \/ /\ vec' = [vec EXCEPT ![v] = new]
     /\ Affordable(vec')
     /\ out' = result
     /\ UNCHANGED status
  \/ /\ MayFail /\ Capacity(new) > Capacity(vec[v])
     /\ vec' = [vec EXCEPT ![v].cell = [i \in 1..Capacity(new) |-> Raw]]
     /\ UNCHANGED out
     /\ status' = Broken

(* emplace_back expands a vector that is full.                             *)
EmplaceBack(v, e) ==
  /\ status = Sound
  /\ LET room == IF Full(vec[v]) THEN Expand(vec[v]) ELSE vec[v]
     IN Becomes(v, Shifted(room, room.size + 1, e), Nobody)

(* An element of the vector itself is pushed: expand may have released it  *)
(* by the time it is copied.                                               *)
PushOwn(v, i) ==
  /\ status = Sound
  /\ i <= vec[v].size
  /\ IF Full(vec[v])
     THEN Breaks
     ELSE Becomes(v, Shifted(vec[v], vec[v].size + 1, vec[v].cell[i]), Nobody)

(* emplace expands if the position is the capacity, which is not whether   *)
(* the vector is full.  A position behind the end inserts nothing.         *)
Emplace(v, pos, e) ==
  /\ status = Sound
  /\ LET room == IF pos - 1 = Capacity(vec[v]) THEN Expand(vec[v]) ELSE vec[v]
     IN CASE pos > vec[v].size + 1 -> out' = Nobody /\ UNCHANGED <<vec, status>>
          [] pos <= vec[v].size + 1 /\ Full(room) -> Breaks
          [] pos <= vec[v].size + 1 /\ ~Full(room) -> Becomes(v, Shifted(room, pos, e), Nobody)

(* pop_back only counts down.                                              *)
PopBack(v) ==
  /\ status = Sound
  /\ IF vec[v].size = 0
     THEN Becomes(v, vec[v], Nobody)
     ELSE Becomes(v, Trimmed(vec[v], vec[v].size - 1), vec[v].cell[vec[v].size])

(* remove, and pop_front for position 1; erase does not return the value.  *)
Drop(v, pos) ==
  /\ status = Sound
  /\ IF pos <= vec[v].size
     THEN \E result \in {vec[v].cell[pos], Nobody} : Becomes(v, Closed(vec[v], pos), result)
     ELSE Becomes(v, vec[v], Nobody)

(* clear sets the size and destroys nothing.                               *)
Clear(v) ==
  /\ status = Sound
  /\ Becomes(v, Trimmed(vec[v], 0), Nobody)

ResizeTo(v, count) ==
  /\ status = Sound
  /\ \/ Becomes(v, Resized(vec[v], count), Nobody)
     \/ Becomes(v, Reserve(vec[v], count), Nobody)

(* One emplace_back after the other.                                       *)
Extended(v, es) ==
  LET add[n \in 0..Len(es)] ==
        IF n = 0 THEN v
        ELSE LET room == IF Full(add[n - 1]) THEN Expand(add[n - 1]) ELSE add[n - 1]
             IN Shifted(room, room.size + 1, es[n])
  IN add[Len(es)]

(* The copy constructor and the copy assignment (except to itself) append  *)
(* one element after the other.                                            *)
CopyFrom(v, w) ==
  /\ status = Sound /\ v # w
  /\ \E old \in {EmptyVector, Resized(vec[w], 0)} :
       Becomes(w, Extended(old, Elements(vec[v])), Nobody)

(* The move constructor and the move assignment, to itself as well.        *)
MoveFrom(v, w) ==
  /\ status = Sound
  /\ vec' = [vec EXCEPT ![w] = vec[v], ![v] = EmptyVector]
  /\ out' = Nobody
  /\ UNCHANGED status

(* operator+= makes room for the sum first.  v += v never ends, as the     *)
(* bound of its loop grows with every round: no caller may do that.        *)
Concatenate(v, w) ==
  /\ status = Sound /\ v # w
  /\ Becomes(v, Extended(Reserve(vec[v], vec[v].size + vec[w].size), Elements(vec[w])), Nobody)

Next ==
  \/ \E v \in Vectors, e \in Elems : EmplaceBack(v, e)
  \/ \E v \in Vectors, i \in 1..MaxCells : PushOwn(v, i)
  \/ \E v \in Vectors, pos \in 1..MaxCells, e \in Elems : Emplace(v, pos, e)
  \/ \E v \in Vectors : PopBack(v)
  \/ \E v \in Vectors, pos \in 1..MaxCells : Drop(v, pos)
  \/ \E v \in Vectors : Clear(v)
  \/ \E v \in Vectors, count \in 0..MaxCells : ResizeTo(v, count)
  \/ \E v, w \in Vectors : CopyFrom(v, w)
  \/ \E v, w \in Vectors : MoveFrom(v, w)
  \/ \E v, w \in Vectors : Concatenate(v, w)

Spec == Init /\ [][Next]_vars

=============================================================================
