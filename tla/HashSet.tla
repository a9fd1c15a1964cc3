------------------------------- MODULE HashSet -------------------------------
(***************************************************************************)
(* HashSet<T> and HashMap<K, V> (container/hash.hpp): an array of nodes    *)
(* (Elements) with an array of buckets behind it, in the same block of     *)
(* memory.  A bucket holds the first slot of a doubly linked chain of the  *)
(* active nodes whose hash selects the bucket; 0 ends a chain.             *)
(*                                                                         *)
(* To the record of Elements a set adds                                    *)
(*   bucket    the function from 0.._bucket_capacity - 1 to slots          *)
(*   pointer   "own": _bucket points to these buckets; "stale": to those   *)
(*             of a set that was moved away from this one; "null": to none *)
(*             although _bucket_capacity is not 0                          *)
(* and a node is [data, prev, next, temp], where temp is the hash.         *)
(*                                                                         *)
(* The code checks neither that there is a slot before it constructs a     *)
(* node nor that there are buckets before it computes h % _bucket_capacity *)
(* (status = Broken: it wrote into memory that is not its own, divided by  *)
(* zero or ran into an assertion, or realloc has released its nodes, and   *)
(* what follows is undefined).                                             *)
(***************************************************************************)
EXTENDS Elements, FiniteSetsExt, SequencesExt

CONSTANTS
  Sets,         (* the containers of the program                           *)
  Keys, Values,
  Default,      (* a value that was moved away, as no caller inserts it    *)
  HashOf,       (* C::hash of each key                                     *)
  MinCapacity,  (* the smallest capacity resize asks for: 16               *)
  Load,         (* the template parameter L: buckets per 100 slots         *)
  MaxCapacity,  (* the memory there is, in slots (a bound of the model)    *)
  Extracted,    (* the keys callers extract the nodes of (a bound)         *)
  Asked,        (* the keys callers ask HashMap::at for (a bound)          *)
  Requests,     (* the capacities callers ask resize for                   *)
  MayFail,      (* whether realloc may return nullptr                      *)
  Nobody,       (* there is no extracted node                              *)
  Sound, Broken (* the values of status                                    *)

(* What a node holds.                                                      *)
Entries == [key : Keys, val : Values \cup {Default}]

(* What the instance of a model has to satisfy, assumed by the MC module.  *)
HashAssumption ==
  /\ Default \notin Values
  /\ Nobody \notin Entries \cup [from : Sets, slot : Nat, data : Entries]
  /\ NoNode \notin [data : Entries, prev : Nat, next : Nat, temp : Nat]
  /\ HashOf \in [Keys -> Nat]
  /\ MinCapacity \in Nat \ 0..2 /\ Load \in Nat /\ MinCapacity * Load >= 100
  /\ MaxCapacity \in Nat /\ MayFail \in BOOLEAN
  /\ Extracted \subseteq Keys /\ Asked \subseteq Keys /\ Requests \subseteq Nat
  /\ Sound # Broken

VARIABLES
  set,          (* the containers                                          *)
  out,          (* the node that extract returned a reference to           *)
  status        (* Sound, or Broken                                        *)

vars == <<set, out, status>>

EmptyHashSet ==
  [capacity |-> 0, next |-> 1, count |-> 0, node |-> << >>,
   bucket |-> << >>, pointer |-> "own"]

Buckets(capacity) == (capacity * Load) \div 100
Cells(s) == DOMAIN s.bucket
Active(s, i) == i \in Slots(s) /\ s.node[i] # NoNode
CellOf(s, hash) == hash % Cardinality(Cells(s))
NoChains(capacity) == [b \in 0..(Buckets(capacity) - 1) |-> 0]

(* The slots of the chain of a bucket, in its order.                       *)
Chain(s, b) ==
  LET follow[n \in 0..s.capacity] ==
        IF n = 0 THEN <<>>
        ELSE LET sofar == follow[n - 1]
                 i == IF sofar = <<>> THEN s.bucket[b] ELSE s.node[Last(sofar)].next
             IN IF Active(s, i) THEN Append(sofar, i) ELSE sofar
  IN follow[s.capacity]

FindIn(s, b, key) ==
  LET chain == Chain(s, b)
      hits == {n \in 1..Len(chain) : s.node[chain[n]].data.key = key}
  IN IF hits = {} THEN s.next ELSE chain[Min(hits)]

Find(s, key) ==
  IF s.count = 0 THEN s.next ELSE FindIn(s, CellOf(s, HashOf[key]), key)

Has(s, key) == s.count # 0 /\ Find(s, key) # s.next

-----------------------------------------------------------------------------
(* Making room.                                                            *)

(* reorder looks at the slots from 1 to count and moves the last active    *)
(* node into each one that is free.                                        *)
Moved(s) ==
  LET f[i \in 0..s.count] ==
        IF i = 0 THEN s.node
        ELSE LET node == f[i - 1]
                 last == Max({j \in Slots(s) : node[j] # NoNode})
             IN IF node[i] # NoNode THEN node
                ELSE [node EXCEPT ![i] = node[last], ![last] = NoNode]
  IN f[s.count]

HasGaps(s) == s.count + 1 < s.next

(* Mutant: the slot count is taken for the first free one.                 *)
ReorderShort(s) ==
  IF HasGaps(s)
  THEN [s EXCEPT !.next = s.count + 1,
                 !.node = [i \in Slots(s) |-> IF i > s.count THEN NoNode ELSE s.node[i]]]
  ELSE s

Reorder(s) ==
  IF HasGaps(s) THEN [s EXCEPT !.next = s.count + 1, !.node = Moved(s)] ELSE s

(* bucketize takes the active slots in ascending order and puts each one   *)
(* at the head of its chain.                                               *)
Bucketize(s, rehash) ==
  LET hash == [i \in ActiveSlots(s) |->
                 IF rehash THEN HashOf[s.node[i].data.key] ELSE s.node[i].temp]
      cell == [i \in ActiveSlots(s) |-> CellOf(s, hash[i])]
      With(b) == {i \in ActiveSlots(s) : cell[i] = b}
      Below(i) == {j \in With(cell[i]) : j < i}
      Above(i) == {j \in With(cell[i]) : j > i}
  IN [s EXCEPT
        !.bucket = [b \in Cells(s) |-> Max(With(b) \cup {0})],
        !.node = [i \in Slots(s) |->
                    IF s.node[i] = NoNode THEN NoNode
                    ELSE [s.node[i] EXCEPT
                            !.temp = hash[i],
                            !.next = Max(Below(i) \cup {0}),
                            !.prev = IF Above(i) = {} THEN 0 ELSE Min(Above(i))]]]

(* resize gives up for a capacity that is too small.  The nodes are put in *)
(* order before it asks for memory.  ~memory is a refusal that leaves the  *)
(* old block alone: there is none yet, or a mapping is asked for (when     *)
(* Memory::realloc refuses a small block see ReallocLoses).                *)
Resize(s, wanted, memory) ==
  LET capacity == IF wanted < MinCapacity THEN MinCapacity ELSE wanted
      ordered == Reorder(s)
  IN CASE wanted <= s.count -> s
       [] wanted > s.count /\ capacity # s.capacity /\ memory ->
            Bucketize([Resized(ordered, capacity) EXCEPT !.bucket = NoChains(capacity),
                                                         !.pointer = "own"], FALSE)
       [] wanted > s.count /\ (capacity = s.capacity \/ ~memory) ->
            IF HasGaps(s) THEN Bucketize(ordered, FALSE) ELSE s

Rehash(s) == IF s.count = 0 THEN s ELSE Bucketize(s, TRUE)

Reorganize(s) == IF s.count # 0 /\ HasGaps(s) THEN Bucketize(Reorder(s), FALSE) ELSE s

Increase(s, memory) ==
  CASE s.capacity = 0 -> Resize(s, MinCapacity, memory)
    [] s.capacity # 0 /\ s.next < s.capacity -> s
    [] s.capacity # 0 /\ s.next >= s.capacity ->
         IF s.count * 2 <= s.capacity THEN Reorganize(s)
                                      ELSE Resize(s, s.capacity * 2, memory)


-----------------------------------------------------------------------------
(* Linking and unlinking a node.                                           *)

(* insert(element, bucket) puts slot i at the head of its chain.           *)
Link(s, i, data) ==
  LET hash == HashOf[data.key]
      b == CellOf(s, hash)
      first == s.bucket[b]
      node == [data |-> data, prev |-> 0, next |-> first, temp |-> hash]
  IN [s EXCEPT !.node = [j \in Slots(s) |->
                           CASE j = i -> node
                             [] j = first /\ j # i -> [s.node[j] EXCEPT !.prev = i]
                             [] OTHER -> s.node[j]],
               !.bucket[b] = i,
               !.count = @ + 1,
               !.next = IF i = @ THEN @ + 1 ELSE @]

(* Mutant: the rest of the chain is dropped with the node.                 *)
UnlinkLosesRest(s, i) ==
  LET e == s.node[i]
      b == CellOf(s, e.temp)
  IN [s EXCEPT !.node = [j \in Slots(s) |->
                           CASE j = i -> NoNode
                             [] j = e.prev /\ j # i -> [s.node[j] EXCEPT !.next = 0]
                             [] OTHER -> s.node[j]],
               !.bucket[b] = IF @ = i THEN 0 ELSE @,
               !.count = @ - 1]

(* extract takes slot i out of its chain.                                  *)
Unlink(s, i) ==
  LET e == s.node[i]
      b == CellOf(s, e.temp)
  IN [s EXCEPT !.node = [j \in Slots(s) |->
                           CASE j = i -> NoNode
                             [] j = e.next -> [s.node[j] EXCEPT !.prev = e.prev]
                             [] j = e.prev /\ s.bucket[b] # i -> [s.node[j] EXCEPT !.next = e.next]
                             [] OTHER -> s.node[j]],
               !.bucket[b] = IF @ = i THEN e.next ELSE @,
               !.count = @ - 1]

-----------------------------------------------------------------------------
(* The operations.                                                         *)

(* The bound of the model: what all containers occupy.                     *)
Affordable(t, new) ==
  new.capacity + MapThenSumSet(LAMBDA s : set[s].capacity, Sets \ {t}) <= MaxCapacity

Init ==
  /\ set = [s \in Sets |-> EmptyHashSet]
  /\ out = Nobody
  /\ status = Sound

(* Whether realloc succeeds, if it is asked for memory at all.             *)
Memory == IF MayFail THEN BOOLEAN ELSE {TRUE}
MemoryFor(s) == IF s.next < s.capacity THEN {TRUE} ELSE Memory

(* A node that was extracted stays where it is: whatever moves or releases *)
(* the slots of its container ends its life.  tidied is container s before *)
(* a node is linked into it.                                               *)
Becomes(s, tidied, new) ==
  /\ Affordable(s, new)
  /\ set' = [set EXCEPT ![s] = new]
  /\ out' = IF out # Nobody /\ out.from = s /\ tidied # set[s] THEN Nobody ELSE out

Breaks ==
  /\ status' = Broken
  /\ UNCHANGED <<set, out>>

HasBuckets(s) == Cells(s) # {} /\ s.pointer = "own"
HasSlot(s) == s.next < s.capacity

(* emplace constructs the element in the next slot before it looks whether *)
(* the key is there already.  What increase returned does not matter.      *)
Emplace(s, key, val) ==
  /\ status = Sound
  /\ \E memory \in MemoryFor(set[s]) :
       LET grown == Increase(set[s], memory)
           i == FindIn(grown, CellOf(grown, HashOf[key]), key)
       IN IF ~(HasBuckets(grown) /\ HasSlot(grown))
          THEN Breaks
          ELSE /\ Becomes(s, grown, IF i # grown.next THEN grown
                             ELSE Link(grown, grown.next, [key |-> key, val |-> val]))
               /\ UNCHANGED status

(* insert(const T &) looks first and constructs then.                      *)
Insert(s, key, val) ==
  /\ status = Sound
  /\ \E memory \in MemoryFor(set[s]) :
       LET grown == Increase(set[s], memory)
           i == FindIn(grown, CellOf(grown, HashOf[key]), key)
       IN IF ~HasBuckets(grown) \/ (i = grown.next /\ ~HasSlot(grown))
          THEN Breaks
          ELSE /\ Becomes(s, grown, IF i # grown.next THEN grown
                             ELSE Link(grown, grown.next, [key |-> key, val |-> val]))
               /\ UNCHANGED status

(* HashMap::operator[] emplaces the key with a default value, to which the *)
(* caller assigns.                                                         *)
Subscript(s, key, val) ==
  /\ status = Sound
  /\ \E memory \in MemoryFor(set[s]) :
       LET grown == Increase(set[s], memory)
           i == FindIn(grown, CellOf(grown, HashOf[key]), key)
       IN IF ~(HasBuckets(grown) /\ HasSlot(grown))
          THEN Breaks
          ELSE /\ Becomes(s, grown, IF i # grown.next
                             THEN [grown EXCEPT !.node[i].data.val = val]
                             ELSE Link(grown, grown.next, [key |-> key, val |-> val]))
               /\ UNCHANGED status

(* insert(Node &&) puts the extracted node back: into the slot it still    *)
(* occupies if it came from this container, else into the next one.  It    *)
(* makes no room.                                                          *)
InsertNode(s) ==
  /\ status = Sound
  /\ out # Nobody
  /\ LET to == set[s]
         i == FindIn(to, CellOf(to, HashOf[out.data.key]), out.data.key)
         slot == IF IsNode(s, to, out) THEN out.slot ELSE to.next
     IN IF ~HasBuckets(to) \/ (i = to.next /\ slot = to.next /\ ~HasSlot(to))
        THEN Breaks
        ELSE /\ IF i # to.next
                THEN UNCHANGED <<set, out>>
                ELSE /\ set' = [set EXCEPT ![s] = Link(to, slot, out.data)]
                     /\ out' = Nobody
             /\ UNCHANGED status

Extract(s, key) ==
  /\ status = Sound
  /\ LET i == Find(set[s], key)
     IN /\ Active(set[s], i)
        /\ out' = [from |-> s, slot |-> i, data |-> set[s].node[i].data]
        /\ set' = [set EXCEPT ![s] = Unlink(set[s], i)]
  /\ UNCHANGED status

Erase(s, key) ==
  /\ status = Sound
  /\ LET i == Find(set[s], key)
     IN set' = IF Active(set[s], i) THEN [set EXCEPT ![s] = Unlink(set[s], i)] ELSE set
  /\ UNCHANGED <<out, status>>

(* HashMap::at moves the value it returns out of the map.                  *)
At(s, key) ==
  /\ status = Sound
  /\ LET i == Find(set[s], key)
     IN /\ Active(set[s], i)
        /\ set' = [set EXCEPT ![s].node[i].data.val = Default]
  /\ UNCHANGED <<out, status>>

ResizeTo(s, capacity) ==
  /\ status = Sound
  /\ \E memory \in Memory : LET new == Resize(set[s], capacity, memory) IN Becomes(s, new, new)
  /\ UNCHANGED status

Reorganizes(s) ==
  /\ status = Sound
  /\ \/ LET new == Reorganize(set[s]) IN Becomes(s, new, new)
     \/ LET new == Rehash(set[s]) IN Becomes(s, new, new)
  /\ UNCHANGED status

(* resize(capacity) is asked for, by a caller or by increase in emplace,   *)
(* insert or operator[], the block is small, and there is no memory:       *)
(* Memory::realloc has released the old block when it returns nullptr, but *)
(* Elements::resize keeps _node and _capacity.  The nodes are gone.        *)
ReallocLoses(s, capacity) ==
  /\ status = Sound
  /\ MayFail
  /\ set[s].capacity # 0
  /\ capacity > set[s].count
  /\ Max({capacity, MinCapacity}) # set[s].capacity
  /\ set' = [set EXCEPT ![s].node = [i \in Slots(set[s]) |-> NoNode]]
  /\ out' = IF out # Nobody /\ out.from = s THEN Nobody ELSE out
  /\ status' = Broken

(* What increase asks resize for when there is a block already.            *)
Doubled(s) ==
  IF ~HasSlot(s) /\ s.count * 2 > s.capacity THEN {s.capacity * 2} ELSE {}

(* clear wipes the buckets _bucket points to, whoever owns them by now.    *)
Clear(s) ==
  /\ status = Sound
  /\ IF set[s].pointer = "stale"
     THEN Breaks
     ELSE /\ LET new == [Cleared(set[s]) EXCEPT !.bucket = [b \in Cells(set[s]) |-> 0]]
             IN Becomes(s, new, new)
          /\ UNCHANGED status

-----------------------------------------------------------------------------
(* The constructors; container t is destroyed before it is constructed.    *)

Constructed(t, new) ==
  /\ Affordable(t, new)
  /\ set' = [set EXCEPT ![t] = new]
  /\ out' = IF out # Nobody /\ out.from = t THEN Nobody ELSE out

(* The copy of a set that was moved away has buckets but no memory.        *)
CopyFrom(s, t) ==
  /\ status = Sound /\ s # t
  /\ IF set[s].pointer # "own"
     THEN Breaks
     ELSE Constructed(t, set[s]) /\ UNCHANGED status

(* The new set takes the memory; the old one keeps the pointer and the     *)
(* number of its buckets.                                                  *)
Abandoned(s) ==
  [MovedFrom(s) EXCEPT !.bucket = << >>,
                       !.pointer = IF Cells(s) # {} THEN "stale" ELSE @]

MoveFrom(s, t) ==
  /\ status = Sound /\ s # t
  /\ set' = [set EXCEPT
               ![t] = [set[s] EXCEPT !.pointer = IF @ = "own" THEN "own" ELSE "null"],
               ![s] = Abandoned(set[s])]
  /\ out' = IF out # Nobody /\ out.from \in {s, t} THEN Nobody ELSE out
  /\ UNCHANGED status

(* HashSet(const Elements &): no buckets for a container without elements. *)
CopyElements(s, t) ==
  /\ status = Sound /\ s # t
  /\ LET e == [set[s] EXCEPT !.bucket = << >>, !.pointer = "own"]
     IN Constructed(t, IF e.count = 0 THEN e
                       ELSE Bucketize([e EXCEPT !.bucket = NoChains(e.capacity)], TRUE))
  /\ UNCHANGED status

(* HashSet(Elements &&): without memory for buckets no use of the set is    *)
(* defined any more.                                                       *)
MoveElements(s, t) ==
  /\ status = Sound /\ s # t
  /\ \E memory \in Memory :
       LET e == [set[s] EXCEPT !.bucket = << >>, !.pointer = "own"]
       IN IF e.count # 0 /\ ~memory
          THEN Breaks
          ELSE /\ set' = [set EXCEPT
                           ![t] = IF e.count = 0 THEN e
                                  ELSE Bucketize([e EXCEPT !.bucket = NoChains(e.capacity)], TRUE),
                           ![s] = Abandoned(set[s])]
               /\ out' = IF out # Nobody /\ out.from \in {s, t} THEN Nobody ELSE out
               /\ UNCHANGED status

(* HashSet(begin, end, capacity) and the initializer list: room for all of *)
(* the elements, which are then emplaced one by one.                       *)
Refilled(e) ==
  LET f[i \in 0..(e.next - 1)] ==
        IF i = 0 THEN Resize(EmptyHashSet, e.count + 1, TRUE)
        ELSE IF Active(e, i) THEN Link(f[i - 1], f[i - 1].next, e.node[i].data) ELSE f[i - 1]
  IN f[e.next - 1]

FromRange(s, t) ==
  /\ status = Sound /\ s # t
  /\ Constructed(t, Refilled(set[s]))
  /\ UNCHANGED status

Next ==
  \/ \E s \in Sets, key \in Keys, val \in Values : Emplace(s, key, val)
  \/ \E s \in Sets, key \in Keys, val \in Values : Insert(s, key, val)
  \/ \E s \in Sets, key \in Keys, val \in Values : Subscript(s, key, val)
  \/ \E s \in Sets : InsertNode(s)
  \/ \E s \in Sets, key \in Extracted : Extract(s, key)
  \/ \E s \in Sets, key \in Keys : Erase(s, key)
  \/ \E s \in Sets, key \in Asked : At(s, key)
  \/ \E s \in Sets, capacity \in Requests : ResizeTo(s, capacity)
  \/ \E s \in Sets : \E capacity \in Requests \cup Doubled(set[s]) : ReallocLoses(s, capacity)
  \/ \E s \in Sets : Reorganizes(s)
  \/ \E s \in Sets : Clear(s)
  \/ \E s, t \in Sets : CopyFrom(s, t)
  \/ \E s, t \in Sets : MoveFrom(s, t)
  \/ \E s, t \in Sets : CopyElements(s, t)
  \/ \E s, t \in Sets : MoveElements(s, t)
  \/ \E s, t \in Sets : FromRange(s, t)

Spec == Init /\ [][Next]_vars

-----------------------------------------------------------------------------
(* Iterators: next and prev of an iterator at slot i.                      *)

Begin(s) == IF s.count = 0 THEN s.next ELSE Min(ActiveSlots(s))
RBegin(s) == IF s.count = 0 THEN 0 ELSE Max(ActiveSlots(s))
NextOf(s, i) == Min({j \in (i + 1)..s.capacity : j >= s.next \/ Active(s, j)})
PrevOf(s, i) == Max({j \in 0..(i - 1) : j = 0 \/ Active(s, j)})
BucketCount(s) == Cardinality({b \in Cells(s) : s.bucket[b] # 0})

-----------------------------------------------------------------------------
(***************************************************************************)
(* The nodes, the buckets and the counters agree: each active node is in   *)
(* the chain of its bucket and in no other one, the chains are linked the  *)
(* same way in both directions, no key is there twice, and the number of   *)
(* the chains is that of the buckets in use (find, extract and bucketize   *)
(* of hash.hpp assert parts of it).                                        *)
(***************************************************************************)
ChainsAgree(s) ==
  /\ ElementsOK(s)
  /\ s.count # 0 => Cells(s) # {}
  /\ s.capacity # 0 => s.pointer = "own"
  /\ \A b \in Cells(s) :
       LET chain == Chain(s, b)
       IN /\ ToSet(chain) = {i \in ActiveSlots(s) : CellOf(s, HashOf[s.node[i].data.key]) = b}
          /\ \A n \in 1..Len(chain) :
               LET e == s.node[chain[n]]
               IN /\ e.temp = HashOf[e.data.key]
                  /\ e.prev = IF n = 1 THEN 0 ELSE chain[n - 1]
                  /\ e.next = IF n = Len(chain) THEN 0 ELSE chain[n + 1]
  /\ \A i, j \in ActiveSlots(s) : s.node[i].data.key = s.node[j].data.key => i = j
  /\ BucketCount(s) <= s.count

Chains == status = Sound => \A s \in Sets : ChainsAgree(set[s])

(***************************************************************************)
(* A key is found if and only if an active node holds it, and a walk from  *)
(* begin to end, or back, meets every active node once.                    *)
(***************************************************************************)
Found ==
  status = Sound => \A s \in Sets :
    /\ \A key \in Keys :
         Has(set[s], key) <=> \E i \in ActiveSlots(set[s]) : set[s].node[i].data.key = key
    /\ LET e == set[s]
           forward[n \in 0..e.count] == IF n = 0 THEN Begin(e) ELSE NextOf(e, forward[n - 1])
           backward[n \in 0..e.count] == IF n = 0 THEN RBegin(e) ELSE PrevOf(e, backward[n - 1])
       IN /\ {forward[n] : n \in 0..e.count} = ActiveSlots(e) \cup {e.next}
          /\ {backward[n] : n \in 0..e.count} = ActiveSlots(e) \cup {0}

(* The mapping that a container stands for.                                *)
Contents(s) ==
  [key \in {set[s].node[i].data.key : i \in ActiveSlots(set[s])} |->
     (CHOOSE e \in {set[s].node[i] : i \in ActiveSlots(set[s])} : e.data.key = key).data.val]
Taken == IF out = Nobody THEN Nobody ELSE out.data

=============================================================================
