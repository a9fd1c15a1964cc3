-------------------------------- MODULE List --------------------------------
(***************************************************************************)
(* List<T> (container/list.hpp): doubly linked lists of nodes the lists    *)
(* do not own for ever: extract takes a node out, and the node may be      *)
(* inserted again, into any list.  The heap is a record with               *)
(*   of     head, tail and size of each list                               *)
(*   link   next and prev of each node                                     *)
(* Null stands for nullptr.  Callers insert nodes that are in no list and  *)
(* name positions in the list they call.                                   *)
(***************************************************************************)
EXTENDS Integers, Sequences, FiniteSets

CONSTANTS
  Lists,       (* the lists of the program                                 *)
  Nodes,       (* the nodes there is memory for (a bound of the model)     *)
  Null,        (* nullptr                                                  *)
  Nobody,      (* no node is extracted                                     *)
  Sound        (* the value of status                                      *)

(* What the instance of a model has to satisfy, assumed by the MC module.  *)
ListAssumption == Null \notin Nodes /\ Nobody \notin Nodes /\ IsFiniteSet(Nodes)

VARIABLES
  heap,        (* the lists and the nodes                                  *)
  out,         (* a node that was extracted                                *)
  status

vars == <<heap, out, status>>

EmptyList == [head |-> Null, tail |-> Null, size |-> 0]
Unlinked == [next |-> Null, prev |-> Null]

(* The nodes from the head on.                                             *)
NodesOf(l) ==
  LET walk[n \in 0..Cardinality(Nodes)] ==
        IF n = 0 THEN <<>>
        ELSE LET sofar == walk[n - 1]
                 i == IF sofar = <<>> THEN heap.of[l].head ELSE heap.link[sofar[Len(sofar)]].next
             IN IF Len(sofar) < n - 1 \/ i = Null THEN sofar ELSE Append(sofar, i)
  IN walk[Cardinality(Nodes)]

Members(l) == {NodesOf(l)[n] : n \in 1..Len(NodesOf(l))}
Unused == {n \in Nodes : n # out /\ \A l \in Lists : n \notin Members(l)}

Init ==
  /\ heap = [of |-> [l \in Lists |-> EmptyList], link |-> [n \in Nodes |-> Unlinked]]
  /\ out = Nobody
  /\ status = Sound

(* insert before a node of the list.                                       *)
InsertBefore(l, position, node) ==
  LET before == heap.link[position].prev
  IN [heap EXCEPT
        !.of[l].head = IF before = Null THEN node ELSE @,
        !.of[l].size = @ + 1,
        !.link = [n \in Nodes |->
                    CASE n = node -> [next |-> position, prev |-> before]
                      [] n = position -> [heap.link[n] EXCEPT !.prev = node]
                      [] n = before -> [heap.link[n] EXCEPT !.next = node]
                      [] OTHER -> heap.link[n]]]

(* Mutant: the new head points behind the old one.                         *)
PushFrontSkips(l, node) ==
  LET head == heap.of[l].head
  IN [heap EXCEPT
        !.of[l] = [head |-> node, tail |-> IF head = Null THEN node ELSE @.tail,
                   size |-> @.size + 1],
        !.link = [n \in Nodes |->
                    CASE n = node -> [next |-> IF head = Null THEN Null ELSE heap.link[head].next,
                                      prev |-> Null]
                      [] n = head -> [heap.link[n] EXCEPT !.prev = node]
                      [] OTHER -> heap.link[n]]]

PushFront(l, node) ==
  LET head == heap.of[l].head
  IN [heap EXCEPT
        !.of[l] = [head |-> node, tail |-> IF head = Null /\ @.tail = Null THEN node ELSE @.tail,
                   size |-> @.size + 1],
        !.link = [n \in Nodes |->
                    CASE n = node -> [next |-> head, prev |-> Null]
                      [] n = head -> [heap.link[n] EXCEPT !.prev = node]
                      [] OTHER -> heap.link[n]]]

PushBack(l, node) ==
  LET tail == heap.of[l].tail
  IN [heap EXCEPT
        !.of[l] = [head |-> IF tail = Null /\ @.head = Null THEN node ELSE @.head, tail |-> node,
                   size |-> @.size + 1],
        !.link = [n \in Nodes |->
                    CASE n = node -> [next |-> Null, prev |-> tail]
                      [] n = tail -> [heap.link[n] EXCEPT !.next = node]
                      [] OTHER -> heap.link[n]]]

(* Mutant: the successor keeps its old predecessor.                        *)
UnlinkOneWay(h, l, node) ==
  LET next == h.link[node].next
      prev == h.link[node].prev
  IN [h EXCEPT
        !.of[l] = [head |-> IF prev = Null THEN next ELSE @.head,
                   tail |-> IF next = Null THEN prev ELSE @.tail,
                   size |-> @.size - 1],
        !.link = [n \in Nodes |->
                    IF n = prev THEN [h.link[n] EXCEPT !.next = next] ELSE h.link[n]]]

(* extract leaves the links of the node itself alone.                      *)
Unlink(h, l, node) ==
  LET next == h.link[node].next
      prev == h.link[node].prev
  IN [h EXCEPT
        !.of[l] = [head |-> IF prev = Null THEN next ELSE @.head,
                   tail |-> IF next = Null THEN prev ELSE @.tail,
                   size |-> @.size - 1],
        !.link = [n \in Nodes |->
                    CASE n = next -> [h.link[n] EXCEPT !.prev = prev]
                      [] n = prev -> [h.link[n] EXCEPT !.next = next]
                      [] OTHER -> h.link[n]]]

(* The links of a node that is deleted are gone.                           *)
Delete(h, l, node) == [Unlink(h, l, node) EXCEPT !.link[node] = Unlinked]

-----------------------------------------------------------------------------
(* A node that is inserted is new or was extracted before; Null as the     *)
(* position is the end.                                                    *)
Insertion(l, node, after) ==
  /\ status = Sound
  /\ \/ node = out
     \/ Unused # {} /\ node = CHOOSE n \in Unused : TRUE
  /\ heap' = after
  /\ out' = IF node = out THEN Nobody ELSE out
  /\ UNCHANGED status

Insert(l, position, node) ==
  /\ status = Sound /\ position \in Members(l) \cup {Null}
  /\ Insertion(l, node, IF position = Null THEN PushBack(l, node) ELSE InsertBefore(l, position, node))

PushesFront(l, node) == Insertion(l, node, PushFront(l, node))
PushesBack(l, node) == Insertion(l, node, PushBack(l, node))

Extract(l, node) ==
  /\ status = Sound /\ node \in Members(l)
  /\ heap' = Unlink(heap, l, node)
  /\ out' = node
  /\ UNCHANGED status

(* erase, and pop_front and pop_back for the first and the last node.      *)
Erase(l, node) ==
  /\ status = Sound /\ node \in Members(l)
  /\ heap' = Delete(heap, l, node)
  /\ UNCHANGED <<out, status>>

PopFront(l) == status = Sound /\ Erase(l, heap.of[l].head)
PopBack(l) == status = Sound /\ Erase(l, heap.of[l].tail)

(* clear pops the first node as long as pop_front returns true: it returns *)
(* whether a node is left.                                                 *)
Clear(l) ==
  /\ status = Sound
  /\ LET pop[n \in 0..Cardinality(Nodes)] ==
           IF n = 0 THEN heap
           ELSE LET h == pop[n - 1]
                IN IF h.of[l].head = Null THEN h ELSE Delete(h, l, h.of[l].head)
     IN heap' = pop[Cardinality(Nodes)]
  /\ UNCHANGED <<out, status>>

(* The owner of the extracted node deletes it.                             *)
DeleteOut ==
  /\ status = Sound
  /\ out # Nobody
  /\ heap' = [heap EXCEPT !.link[out] = Unlinked]
  /\ out' = Nobody
  /\ UNCHANGED status

Next ==
  \/ \E l \in Lists, node \in Nodes, position \in Nodes \cup {Null} : Insert(l, position, node)
  \/ \E l \in Lists, node \in Nodes : PushesFront(l, node)
  \/ \E l \in Lists, node \in Nodes : PushesBack(l, node)
  \/ \E l \in Lists, node \in Nodes : Extract(l, node)
  \/ \E l \in Lists, node \in Nodes : Erase(l, node)
  \/ \E l \in Lists : PopFront(l)
  \/ \E l \in Lists : PopBack(l)
  \/ \E l \in Lists : Clear(l)
  \/ DeleteOut

Spec == Init /\ [][Next]_vars

-----------------------------------------------------------------------------
(***************************************************************************)
(* The nodes of a list form one chain, the same in both directions, from   *)
(* its head to its tail, as long as its size says; no node is in two       *)
(* lists, and an extracted node is in none (the assertions of insert,      *)
(* push_front, push_back, extract and size).                               *)
(***************************************************************************)
LinksAgree ==
  status = Sound =>
    /\ \A l \in Lists :
         LET nodes == NodesOf(l)
             length == Len(nodes)
         IN /\ length = heap.of[l].size /\ length = Cardinality(Members(l))
            /\ IF length = 0 THEN heap.of[l].tail = Null
               ELSE /\ heap.of[l].tail = nodes[length]
                    /\ heap.link[nodes[length]].next = Null
            /\ \A n \in 1..length :
                 heap.link[nodes[n]].prev = IF n = 1 THEN Null ELSE nodes[n - 1]
    /\ \A l, m \in Lists : l # m => Members(l) \cap Members(m) = {}
    /\ \A l \in Lists : out \notin Members(l)

=============================================================================
