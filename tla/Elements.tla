------------------------------ MODULE Elements ------------------------------
(***************************************************************************)
(* Elements<T> (container/internal/elements.hpp): the array of nodes below *)
(* HashSet and TreeSet.  A container is a record with                      *)
(*   capacity  the slots of its array, of which slot 0 is never used       *)
(*   next      the first slot that has not been used yet                   *)
(*   count     the number of active slots                                  *)
(*   node      the slots from 1 on: the node of an active slot, NoNode for *)
(*             any other one, whose contents nobody reads                  *)
(***************************************************************************)
EXTENDS Integers, FiniteSets

CONSTANT NoNode    (* what is in a slot that is not active                    *)

EmptyElements == [capacity |-> 0, next |-> 1, count |-> 0, node |-> <<>>]

Slots(e) == 1..(e.capacity - 1)
ActiveSlots(e) == {i \in Slots(e) : e.node[i] # NoNode}

(* A container that was moved away from holds nothing and can be refilled. *)
MovedFrom(e) ==
  [e EXCEPT !.capacity = 0, !.next = 1, !.count = 0, !.node = <<>>]

(* realloc keeps the slots the old and the new array have in common.  The  *)
(* callers clear the slots that are new.                                   *)
Resized(e, capacity) ==
  [e EXCEPT !.capacity = capacity,
            !.node = [i \in 1..(capacity - 1) |->
                        IF i \in Slots(e) THEN e.node[i] ELSE NoNode]]

(* clear starts over at slot 1, unless there is nothing to deactivate:     *)
(* then the used slots stay used.                                          *)
Cleared(e) ==
  IF e.count = 0
  THEN e
  ELSE [e EXCEPT !.next = 1, !.count = 0, !.node = [i \in Slots(e) |-> NoNode]]

(* Whether a node lies in the array of container t, and in a slot in use.  *)
IsNode(t, e, handle) == handle.from = t /\ handle.slot < e.next

(***************************************************************************)
(* What all containers rely on: count is the number of active slots, and   *)
(* all of them lie below next.                                             *)
(***************************************************************************)
ElementsOK(e) ==
  /\ e.node \in [Slots(e) -> {e.node[i] : i \in Slots(e)}]
  /\ e.next \in 1..(IF e.capacity = 0 THEN 1 ELSE e.capacity)
  /\ e.count = Cardinality(ActiveSlots(e))
  /\ \A i \in ActiveSlots(e) : i < e.next

=============================================================================
