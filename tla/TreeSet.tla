------------------------------- MODULE TreeSet -------------------------------
(***************************************************************************)
(* TreeSet<T> and TreeMap<K, V> (container/tree.hpp): an AVL tree whose    *)
(* nodes refer to each other by their slots in the array of Elements.      *)
(*                                                                         *)
(* To the record of Elements a tree adds root, and a node is [data,        *)
(* balance, parent, left, right]; slot 0 stands for no node.  Nothing      *)
(* checks that there is a slot before a node is constructed (status =      *)
(* Broken: memory that is not the tree's was written, an assertion of the  *)
(* code failed, or realloc has released the nodes).                        *)
(***************************************************************************)
EXTENDS Elements, FiniteSetsExt, SequencesExt

CONSTANTS
  Sets,         (* the containers of the program                           *)
  Keys, Values,
  Lists,        (* the sequences of keys trees are made from               *)
  Inserted,     (* the keys callers insert one by one (a bound)            *)
  Erased,       (* the keys callers erase (a bound)                        *)
  Extracted,    (* the keys callers extract the nodes of (a bound)          *)
  Asked,        (* the keys callers ask TreeMap::at for (a bound)          *)
  Default,      (* a value that was moved away, as no caller inserts it    *)
  MinCapacity,  (* the smallest capacity resize asks for: 16               *)
  MaxCapacity,  (* the memory there is, in slots (a bound of the model)    *)
  Requests,     (* the capacities callers ask resize for                   *)
  MayFail,      (* whether realloc may return nullptr                      *)
  Nobody,       (* there is no extracted node                              *)
  Sound, Broken (* the values of status                                    *)

(* What the instance of a model has to satisfy, assumed by the MC module.  *)
TreeAssumption ==
  /\ Keys \subseteq Int /\ Inserted \cup Erased \subseteq Keys /\ Asked \subseteq Keys
  /\ Default \notin Values
  /\ MinCapacity \in Nat \ 0..2 /\ MaxCapacity \in Nat /\ MayFail \in BOOLEAN
  /\ Sound # Broken

VARIABLES
  set,          (* the trees                                               *)
  out,          (* the node that extract returned a reference to           *)
  status        (* Sound, or Broken                                        *)

vars == <<set, out, status>>

EmptyTree == [root |-> 0] @@ EmptyElements

Left == TRUE
Right == FALSE
Child(t, i, side) == IF side = Left THEN t.node[i].left ELSE t.node[i].right
SideOf(t, p, i) == IF t.node[p].left = i THEN Left ELSE Right

(* What a balance grows by when this side of a node grows.                 *)
Weight(side) == IF side = Left THEN -1 ELSE 1

WithChild(n, side, i) ==
  IF side = Left THEN [n EXCEPT !.left = i] ELSE [n EXCEPT !.right = i]
Adopt(t, p, side, i) == [t EXCEPT !.node[p] = WithChild(@, side, i)]
SetParent(t, i, p) == IF i = 0 THEN t ELSE [t EXCEPT !.node[i].parent = p]
SetBalance(t, i, balance) == [t EXCEPT !.node[i].balance = balance]

-----------------------------------------------------------------------------
(* Looking up.                                                             *)

(* The nodes contains_node and its like visit on their way from the root:  *)
(* to the key, or to the last node that is in its place.                   *)
Path(t, key) ==
  LET walk[n \in 0..t.count] ==
        IF n = 0 THEN IF t.root = 0 THEN <<>> ELSE <<t.root>>
        ELSE LET sofar == walk[n - 1]
                 here == Last(sofar)
                 next == Child(t, here, key < t.node[here].data.key)
             IN IF sofar = <<>> \/ t.node[here].data.key = key \/ next = 0
                THEN sofar ELSE Append(sofar, next)
  IN walk[t.count]

(* From node i to the left, or right, as long as there is a child.         *)
Outermost(t, i, side) ==
  LET walk[n \in 0..t.count] ==
        IF n = 0 THEN i
        ELSE LET here == walk[n - 1]
             IN IF here = 0 \/ Child(t, here, side) = 0 THEN here ELSE Child(t, here, side)
  IN walk[t.count]

MinNode(t, i) == Outermost(t, i, Left)
MaxNode(t, i) == Outermost(t, i, Right)

KeyAt(t, i) == t.node[i].data.key

(* find: 0 unless the walk ends at the key.                                *)
Find(t, key) ==
  LET path == Path(t, key)
  IN IF path # <<>> /\ KeyAt(t, Last(path)) = key THEN Last(path) ELSE 0

(* The last node of the way to a key that is smaller, or greater, than it. *)
LastSmaller(t, key) ==
  LET smaller == SelectSeq(Path(t, key), LAMBDA i : KeyAt(t, i) < key)
  IN IF smaller = <<>> THEN 0 ELSE Last(smaller)
LastGreater(t, key) ==
  LET greater == SelectSeq(Path(t, key), LAMBDA i : KeyAt(t, i) > key)
  IN IF greater = <<>> THEN 0 ELSE Last(greater)

LowerNode(t, key) ==
  LET i == Find(t, key)
  IN IF i # 0 /\ t.node[i].left # 0 THEN MaxNode(t, t.node[i].left) ELSE LastSmaller(t, key)
HigherNode(t, key) ==
  LET i == Find(t, key)
  IN IF i # 0 /\ t.node[i].right # 0 THEN MinNode(t, t.node[i].right) ELSE LastGreater(t, key)
FloorNode(t, key) == LET i == Find(t, key) IN IF i # 0 THEN i ELSE LastSmaller(t, key)
CeilNode(t, key) == LET i == Find(t, key) IN IF i # 0 THEN i ELSE LastGreater(t, key)

(* next and prev of an iterator: the outermost node of the subtree on that *)
(* side, or the first ancestor that has the node on the other side.        *)
Step(t, i, side) ==
  LET climb[n \in 0..t.count] ==
        IF n = 0 THEN <<i, t.node[i].parent>>
        ELSE LET last == climb[n - 1]
                 p == last[2]
             IN IF p = 0 \/ Child(t, p, ~side) = last[1] THEN last
                ELSE <<p, t.node[p].parent>>
  IN IF Child(t, i, side) # 0 THEN Outermost(t, Child(t, i, side), ~side)
     ELSE climb[t.count][2]

(* The nodes a loop from begin, or from rbegin, meets in count steps.      *)
Walk(t, side) ==
  LET Visit(sofar, n) ==
        Append(sofar, IF n = 1 THEN Outermost(t, t.root, ~side) ELSE Step(t, Last(sofar), side))
  IN FoldLeft(Visit, <<>>, [n \in 1..t.count |-> n])

-----------------------------------------------------------------------------
(* The tree operations.                                                    *)

(* replace_node: the parent of target takes replacement, which may take    *)
(* over the children and the balance of target, too.                       *)
Replaced(t, parent, target, replacement) ==
  SetParent(IF parent = 0 THEN [t EXCEPT !.root = replacement]
            ELSE Adopt(t, parent, SideOf(t, parent, target), replacement),
            replacement, parent)

ReplacedWithChildren(t, target, replacement) ==
  LET old == t.node[target]
      linked == Replaced(t, old.parent, target, replacement)
      heir == [linked EXCEPT
                 !.node[replacement] = [@ EXCEPT !.balance = old.balance,
                                                 !.left = linked.node[target].left,
                                                 !.right = linked.node[target].right]]
  IN SetParent(SetParent(heir, heir.node[replacement].left, replacement),
               heir.node[replacement].right, replacement)

(* rotate lifts node, the child of parent on the heavy side, or its child  *)
(* on the other side.  The result is the tree, the new root of the subtree *)
(* and whether the height has stayed the same.                             *)
RotateOnce(t, node, parent, heavy) ==
  LET n == t.node[node]
      inner == Child(t, node, ~heavy)
      flat == n.balance = 0
      hung == SetParent(Adopt(Adopt(t, parent, heavy, inner), node, ~heavy, parent), inner, parent)
      lifted == SetParent(hung, parent, node)
      weighed == SetBalance(SetBalance(lifted, parent, IF flat THEN Weight(heavy) ELSE 0),
                            node, IF flat THEN Weight(~heavy) ELSE 0)
  IN [tree |-> Replaced(weighed, t.node[parent].parent, parent, node), at |-> node, done |-> flat]

RotateTwice(t, node, parent, heavy) ==
  LET sub == Child(t, node, ~heavy)
      s == t.node[sub]
      outer == Child(t, sub, heavy)
      inner == Child(t, sub, ~heavy)
      hungNode == SetParent(Adopt(Adopt(t, node, ~heavy, outer), sub, heavy, node), outer, node)
      hungParent == SetParent(Adopt(Adopt(hungNode, parent, heavy, inner), sub, ~heavy, parent),
                              inner, parent)
      lifted == SetParent(SetParent(hungParent, parent, sub), node, sub)
      weighed == SetBalance(SetBalance(SetBalance(lifted,
                   parent, IF s.balance = Weight(heavy) THEN Weight(~heavy) ELSE 0),
                   node, IF s.balance = Weight(~heavy) THEN Weight(heavy) ELSE 0),
                   sub, 0)
  IN [tree |-> Replaced(weighed, t.node[parent].parent, parent, sub), at |-> sub, done |-> FALSE]

(* Mutant: one rotation has to do.                                         *)
RotateOnceOnly(t, node, parent, heavy) == RotateOnce(t, node, parent, heavy)

Rotate(t, node, parent, heavy) ==
  IF t.node[node].balance = Weight(~heavy)
  THEN RotateTwice(t, node, parent, heavy)
  ELSE RotateOnce(t, node, parent, heavy)

(* The ancestors of a node, from its parent to the root.                   *)
Ancestors(t, i) ==
  LET climb[n \in 0..t.count] ==
        IF n = 0 THEN IF t.node[i].parent = 0 THEN <<>> ELSE <<t.node[i].parent>>
        ELSE LET sofar == climb[n - 1]
             IN IF sofar = <<>> \/ t.node[Last(sofar)].parent = 0 THEN sofar
                ELSE Append(sofar, t.node[Last(sofar)].parent)
  IN climb[t.count]

(* Where a loop towards the root has got to.                               *)
GoOn(t, i) == [tree |-> t, at |-> i, done |-> FALSE]
Done(t) == [tree |-> t, at |-> 0, done |-> TRUE]

(* insert(parent, element, c): the element becomes a leaf below parent,    *)
(* then the heights are adjusted upwards until one has not grown.          *)
Link(t, parent, i, data) ==
  LET side == data.key < KeyAt(t, parent)
      leaf == [data |-> data, balance |-> 0, parent |-> parent, left |-> 0, right |-> 0]
      added == [t EXCEPT !.node[i] = leaf, !.next = IF i = @ THEN @ + 1 ELSE @]
      hung == IF t.root = 0 THEN [added EXCEPT !.root = i] ELSE Adopt(added, parent, side, i)
      Grow(state, p) ==
        LET u == state.tree
            grown == SideOf(u, p, state.at)
            balance == u.node[p].balance
        IN CASE state.done -> state
             [] ~state.done /\ balance = Weight(~grown) -> Done(SetBalance(u, p, 0))
             [] ~state.done /\ balance = Weight(grown) -> Done(Rotate(u, state.at, p, grown).tree)
             [] ~state.done /\ balance = 0 -> GoOn(SetBalance(u, p, Weight(grown)), p)
  IN [FoldLeft(Grow, GoOn(hung, i), Ancestors(hung, i)).tree EXCEPT !.count = @ + 1]

(* erase(element) of a node with one child at most: the heights are        *)
(* adjusted upwards until one has not shrunk, then its child replaces it.  *)
Detach(t, i) ==
  LET Shrink(state, p) ==
        LET u == state.tree
            shrunk == SideOf(u, p, state.at)
            balance == u.node[p].balance
            turned == Rotate(u, Child(u, p, ~shrunk), p, ~shrunk)
        IN CASE state.done -> state
             [] ~state.done /\ balance = Weight(shrunk) -> GoOn(SetBalance(u, p, 0), p)
             [] ~state.done /\ balance = 0 -> Done(SetBalance(u, p, Weight(~shrunk)))
             [] ~state.done /\ balance = Weight(~shrunk) -> turned
      balanced == FoldLeft(Shrink, GoOn(t, i), Ancestors(t, i)).tree
      n == balanced.node[i]
  IN Replaced(balanced, n.parent, i, IF n.left # 0 THEN n.left ELSE n.right)

(* Mutant: the slot of the node that takes the place is freed.             *)
UnlinkFreesHeir(t, i) ==
  LET two == t.node[i].left # 0 /\ t.node[i].right # 0
      heir == MinNode(t, t.node[i].right)
      rest == IF two THEN ReplacedWithChildren(Detach(t, heir), i, heir) ELSE Detach(t, i)
  IN [rest EXCEPT !.node[IF two THEN heir ELSE i] = NoNode, !.count = @ - 1]

(* extract: the next greater node takes the place of one with two          *)
(* children.                                                               *)
Unlink(t, i) ==
  LET heir == MinNode(t, t.node[i].right)
      rest == IF t.node[i].left # 0 /\ t.node[i].right # 0
              THEN ReplacedWithChildren(Detach(t, heir), i, heir)
              ELSE Detach(t, i)
  IN [rest EXCEPT !.node[i] = NoNode, !.count = @ - 1]

-----------------------------------------------------------------------------
(* Making room.                                                            *)

HasGaps(t) == t.count + 1 < t.next

(* reorder moves the last active node into the first free slot among       *)
(* 1..count, and so on.                                                    *)
Filled(t, gap) ==
  LET source == Max(ActiveSlots(t))
  IN [ReplacedWithChildren([t EXCEPT !.node[gap] = t.node[source]], source, gap)
        EXCEPT !.node[source] = NoNode]

Reorder(t) ==
  LET gaps == SetToSortSeq({i \in 1..t.count : t.node[i] = NoNode}, <)
  IN IF HasGaps(t) THEN [FoldLeft(Filled, t, gaps) EXCEPT !.next = t.count + 1] ELSE t

(* resize orders the nodes before it asks for memory.  ~memory is a        *)
(* refusal that leaves the old block alone: there is none yet, or a        *)
(* mapping is asked for (for a small block see ReallocLoses).              *)
Resize(t, wanted, memory) ==
  LET capacity == IF wanted < MinCapacity THEN MinCapacity ELSE wanted
  IN CASE wanted <= t.count -> t
       [] wanted > t.count /\ capacity # t.capacity /\ memory -> Resized(Reorder(t), capacity)
       [] wanted > t.count /\ (capacity = t.capacity \/ ~memory) -> Reorder(t)

Reorganize(t) == IF t.count # 0 THEN Reorder(t) ELSE t

Increase(t, memory) ==
  CASE t.capacity = 0 -> Resize(t, MinCapacity, memory)
    [] t.capacity # 0 /\ t.next < t.capacity -> t
    [] t.capacity # 0 /\ t.next >= t.capacity ->
         IF t.count * 2 <= t.capacity THEN Reorder(t) ELSE Resize(t, t.capacity * 2, memory)

-----------------------------------------------------------------------------
(* The operations.                                                         *)

Init ==
  /\ set = [s \in Sets |-> EmptyTree]
  /\ out = Nobody
  /\ status = Sound

(* The bound of the model: what all containers occupy.                     *)
Affordable(s, new) ==
  new.capacity + MapThenSumSet(LAMBDA r : set[r].capacity, Sets \ {s}) <= MaxCapacity

Memory == IF MayFail THEN BOOLEAN ELSE {TRUE}
MemoryFor(t) == IF t.next < t.capacity THEN {TRUE} ELSE Memory

(* A node that was extracted stays where it is: whatever moves or releases *)
(* the slots of its container ends its life.                               *)
Becomes(s, tidied, new) ==
  /\ Affordable(s, new)
  /\ set' = [set EXCEPT ![s] = new]
  /\ out' = IF out # Nobody /\ out.from = s /\ tidied # set[s] THEN Nobody ELSE out

Breaks ==
  /\ status' = Broken
  /\ UNCHANGED <<set, out>>

HasSlot(t) == t.next < t.capacity

(* The tree with a new key: the place of the leaf is where its way ends.   *)
WithKey(t, slot, data) ==
  LET path == Path(t, data.key)
  IN Link(t, IF path = <<>> THEN 0 ELSE Last(path), slot, data)

(* emplace constructs the element in the next slot before it looks whether *)
(* the key is there already.                                               *)
Emplace(s, key, val) ==
  /\ status = Sound
  /\ \E memory \in MemoryFor(set[s]) :
       LET grown == Increase(set[s], memory)
       IN IF ~HasSlot(grown)
          THEN Breaks
          ELSE /\ Becomes(s, grown, IF Find(grown, key) # 0 THEN grown
                                    ELSE WithKey(grown, grown.next, [key |-> key, val |-> val]))
               /\ UNCHANGED status

(* insert(const T &) looks first and constructs then.                      *)
Insert(s, key, val) ==
  /\ status = Sound
  /\ \E memory \in MemoryFor(set[s]) :
       LET grown == Increase(set[s], memory)
       IN IF ~HasSlot(grown) /\ Find(grown, key) = 0
          THEN Breaks
          ELSE /\ Becomes(s, grown, IF Find(grown, key) # 0 THEN grown
                                    ELSE WithKey(grown, grown.next, [key |-> key, val |-> val]))
               /\ UNCHANGED status

(* TreeMap::operator[] emplaces the key with a default value, to which the *)
(* caller assigns.                                                         *)
Subscript(s, key, val) ==
  /\ status = Sound
  /\ \E memory \in MemoryFor(set[s]) :
       LET grown == Increase(set[s], memory)
           i == Find(grown, key)
       IN IF ~HasSlot(grown)
          THEN Breaks
          ELSE /\ Becomes(s, grown, IF i # 0 THEN [grown EXCEPT !.node[i].data.val = val]
                                    ELSE WithKey(grown, grown.next, [key |-> key, val |-> val]))
               /\ UNCHANGED status

(* insert(Node &&) puts the extracted node back: into the slot it still    *)
(* occupies if it came from this tree, else into the next one.  It makes   *)
(* no room.                                                                *)
InsertNode(s) ==
  /\ status = Sound
  /\ out # Nobody
  /\ LET to == set[s]
         slot == IF IsNode(s, to, out) THEN out.slot ELSE to.next
     IN CASE Find(to, out.data.key) # 0 -> UNCHANGED vars
          [] Find(to, out.data.key) = 0 /\ slot = to.next /\ ~HasSlot(to) -> Breaks
          [] Find(to, out.data.key) = 0 /\ (slot # to.next \/ HasSlot(to)) ->
               /\ set' = [set EXCEPT ![s] = WithKey(to, slot, out.data)]
               /\ out' = Nobody
               /\ UNCHANGED status

Extract(s, key) ==
  /\ status = Sound
  /\ LET i == Find(set[s], key)
     IN /\ i # 0
        /\ out' = [from |-> s, slot |-> i, data |-> set[s].node[i].data]
        /\ set' = [set EXCEPT ![s] = Unlink(set[s], i)]
  /\ UNCHANGED status

Erase(s, key) ==
  /\ status = Sound
  /\ LET i == Find(set[s], key)
     IN set' = IF i # 0 THEN [set EXCEPT ![s] = Unlink(set[s], i)] ELSE set
  /\ UNCHANGED <<out, status>>

(* TreeMap::at moves the value it returns out of the map.                  *)
At(s, key) ==
  /\ status = Sound
  /\ LET i == Find(set[s], key)
     IN /\ i # 0
        /\ set' = [set EXCEPT ![s].node[i].data.val = Default]
  /\ UNCHANGED <<out, status>>

ResizeTo(s, capacity) ==
  /\ status = Sound
  /\ \E memory \in Memory :
       LET new == Resize(set[s], capacity, memory) IN Becomes(s, new, new)
  /\ UNCHANGED status

(* resize(capacity) is asked for, by a caller or by increase in emplace,   *)
(* insert or operator[], the block is small, and there is no memory:       *)
(* Memory::realloc has released the old block when it returns nullptr, but *)
(* Elements::resize keeps _node and _capacity.  The nodes are gone.        *)
ReallocLoses(s, capacity) ==
  /\ status = Sound
  /\ MayFail
  /\ set[s].capacity # 0
  /\ capacity > set[s].count
  /\ Max({capacity, MinCapacity}) # set[s].capacity
  /\ set' = [set EXCEPT ![s].node = [i \in Slots(set[s]) |-> NoNode]]
  /\ out' = IF out # Nobody /\ out.from = s THEN Nobody ELSE out
  /\ status' = Broken

(* What increase asks resize for when there is a block already.            *)
Doubled(t) ==
  IF ~HasSlot(t) /\ t.count * 2 > t.capacity THEN {t.capacity * 2} ELSE {}

Reorganizes(s) ==
  /\ status = Sound
  /\ LET new == Reorganize(set[s]) IN Becomes(s, new, new)
  /\ UNCHANGED status

Clear(s) ==
  /\ status = Sound
  /\ LET new == [Cleared(set[s]) EXCEPT !.root = 0] IN Becomes(s, new, new)
  /\ UNCHANGED status

-----------------------------------------------------------------------------
(* The constructors; container t is destroyed before it is constructed.    *)

Constructed(t, new) ==
  /\ Affordable(t, new)
  /\ set' = [set EXCEPT ![t] = new]
  /\ out' = IF out # Nobody /\ out.from = t THEN Nobody ELSE out
  /\ UNCHANGED status

CopyFrom(s, t) ==
  /\ status = Sound /\ s # t
  /\ Constructed(t, set[s])

MoveFrom(s, t) ==
  /\ status = Sound /\ s # t
  /\ set' = [set EXCEPT ![t] = set[s], ![s] = [MovedFrom(set[s]) EXCEPT !.root = 0]]
  /\ out' = IF out # Nobody /\ out.from \in {s, t} THEN Nobody ELSE out
  /\ UNCHANGED status

(* TreeSet(const Elements &) inserts the nodes again where they are, from  *)
(* slot 1 on, into a tree without a root.                                  *)
Rebuilt(e) ==
  LET Add(t, i) == WithKey(t, i, e.node[i].data)
      bare == [e EXCEPT !.root = 0, !.count = 0]
  IN FoldLeft(Add, bare, SetToSortSeq(ActiveSlots(e), <))

CopyElements(s, t) ==
  /\ status = Sound /\ s # t
  /\ Constructed(t, Rebuilt(set[s]))

(* TreeSet(Elements &&) asserts that the container it has just moved away  *)
(* still has as many nodes as itself: only one without any may be moved.   *)
MoveElements(s, t) ==
  /\ status = Sound /\ s # t
  /\ IF set[s].next # 1
     THEN Breaks
     ELSE /\ set' = [set EXCEPT ![t] = set[s], ![s] = [MovedFrom(set[s]) EXCEPT !.root = 0]]
          /\ out' = IF out # Nobody /\ out.from \in {s, t} THEN Nobody ELSE out
          /\ UNCHANGED status

(* The range and initializer list constructors: room for all elements,     *)
(* which are then emplaced one by one.                                     *)
FromList(t, keys) ==
  /\ status = Sound
  /\ LET room == Resize(EmptyTree, Len(keys) + 1, TRUE)
         Add(u, key) == WithKey(u, u.next, [key |-> key, val |-> CHOOSE v \in Values : TRUE])
     IN Constructed(t, FoldLeft(Add, room, keys))

Next ==
  \/ \E s \in Sets, key \in Inserted, val \in Values : Emplace(s, key, val)
  \/ \E s \in Sets, key \in Inserted, val \in Values : Insert(s, key, val)
  \/ \E s \in Sets, key \in Inserted, val \in Values : Subscript(s, key, val)
  \/ \E s \in Sets : InsertNode(s)
  \/ \E s \in Sets, key \in Extracted : Extract(s, key)
  \/ \E s \in Sets, key \in Erased : Erase(s, key)
  \/ \E s \in Sets, key \in Asked : At(s, key)
  \/ \E s \in Sets, capacity \in Requests : ResizeTo(s, capacity)
  \/ \E s \in Sets : \E capacity \in Requests \cup Doubled(set[s]) : ReallocLoses(s, capacity)
  \/ \E s \in Sets : Reorganizes(s)
  \/ \E s \in Sets : Clear(s)
  \/ \E s, t \in Sets : CopyFrom(s, t)
  \/ \E s, t \in Sets : MoveFrom(s, t)
  \/ \E s, t \in Sets : CopyElements(s, t)
  \/ \E s, t \in Sets : MoveElements(s, t)
  \/ \E t \in Sets, keys \in Lists : FromList(t, keys)

Spec == Init /\ [][Next]_vars

-----------------------------------------------------------------------------
(***************************************************************************)
(* Parents and children agree, all active nodes hang below the root, and   *)
(* the balance of each node is the difference of the heights of its        *)
(* subtrees, which is at most one (check and check_node of tree.hpp, and   *)
(* the assertions of rotate and replace_node).                             *)
(***************************************************************************)
Height(t) ==
  LET below[i \in 0..t.count, n \in {0} \cup ActiveSlots(t)] ==
        IF n = 0 \/ i = 0 THEN 0
        ELSE LET l == below[i - 1, t.node[n].left]
                 r == below[i - 1, t.node[n].right]
             IN 1 + (IF l > r THEN l ELSE r)
  IN [n \in {0} \cup ActiveSlots(t) |-> below[t.count, n]]

TreeOK(t) ==
  LET height == Height(t)
  IN /\ ElementsOK(t)
     /\ t.root = 0 <=> t.count = 0
     /\ \A i \in ActiveSlots(t) :
          LET n == t.node[i]
          IN /\ {n.left, n.right} \subseteq ActiveSlots(t) \cup {0}
             /\ n.parent = 0 <=> t.root = i
             /\ n.left # 0 => t.node[n.left].parent = i
             /\ n.right # 0 => t.node[n.right].parent = i /\ n.left # n.right
             /\ n.parent # 0 => n.parent \in ActiveSlots(t) /\ i \in {t.node[n.parent].left, t.node[n.parent].right}
             /\ n.balance = height[n.right] - height[n.left]
             /\ n.balance \in {-1, 0, 1}
Balanced == status = Sound => \A s \in Sets : TreeOK(set[s])

(***************************************************************************)
(* The walk from the lowest node to the end, and back, meets the keys in   *)
(* their order; a key is found if and only if a node holds it; and lower,  *)
(* floor, ceil and higher name the neighbours they promise.                *)
(***************************************************************************)
Ordered ==
  status = Sound => \A s \in Sets :
    LET t == set[s]
        keys == {KeyAt(t, i) : i \in ActiveSlots(t)}
        ascending == Walk(t, Right)
        descending == Walk(t, Left)
        Names(i, candidates, Best(_)) ==
          IF candidates = {} THEN i = 0 ELSE i # 0 /\ KeyAt(t, i) = Best(candidates)
    IN /\ Cardinality(keys) = t.count
       /\ \A n \in 1..t.count :
            /\ ascending[n] = descending[t.count + 1 - n]
            /\ n > 1 => KeyAt(t, ascending[n - 1]) < KeyAt(t, ascending[n])
       /\ t.count > 0 => Step(t, Last(ascending), Right) = 0 /\ Step(t, Last(descending), Left) = 0
       /\ \A key \in Keys :
            /\ Find(t, key) # 0 <=> key \in keys
            /\ Names(LowerNode(t, key), {k \in keys : k < key}, Max)
            /\ Names(FloorNode(t, key), {k \in keys : k <= key}, Max)
            /\ Names(CeilNode(t, key), {k \in keys : k >= key}, Min)
            /\ Names(HigherNode(t, key), {k \in keys : k > key}, Min)

(* The mapping that a container stands for.                                *)
Contents(s) ==
  [key \in {KeyAt(set[s], i) : i \in ActiveSlots(set[s])} |->
     set[s].node[CHOOSE i \in ActiveSlots(set[s]) : KeyAt(set[s], i) = key].data.val]
Taken == IF out = Nobody THEN Nobody ELSE out.data

=============================================================================
