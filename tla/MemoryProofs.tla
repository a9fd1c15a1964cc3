---------------------------- MODULE MemoryProofs ----------------------------
(***************************************************************************)
(* Memory for any number of threads, addresses and sizes: every block has  *)
(* exactly one owner, the size read without the mutex is right when it is  *)
(* used, the allocator runs one call at a time, and blocks keep what is    *)
(* stored in them.                                                         *)
(*                                                                         *)
(* The invariant says of each place in the code what the call in progress  *)
(* looks like there (Shape), where the block in its hands lives (Kind),    *)
(* and that all blocks together belong to the threads, one each (Owned).   *)
(* A step of a thread touches only blocks it owns and blocks that nobody   *)
(* owned (Frame), so that it disturbs no other thread.  Upon this a second *)
(* invariant follows the contents and sizes of blocks (Stored).            *)
(***************************************************************************)
EXTENDS Memory, TLAPS

Pool == heap \cup maps

Section == {"in", "new", "old", "leave"}

Shape(t) ==
  LET j == job[t] IN
    /\ at[t] = "idle" => j = NoJob
    /\ at[t] # "idle" => j.op # "none"
    /\ j.op \in {"alloc", "array"} =>
         at[t] \in {"map", "lock", "in", "leave"} /\ j.addr = Null /\ j.size # 0
    /\ j.op = "free" =>
         /\ j.size = 0
         /\ at[t] \in {"size", "unmap", "lock", "in", "leave"}
         /\ (at[t] = "leave") <=> (j.addr = Null)
    /\ j.op = "realloc" => at[t] # "map"
    /\ j.op = "realloc" /\ j.size = 0 =>
         (at[t] \in {"size", "lock", "in"} => j.addr # Null) /\ at[t] # "new"
    /\ j.new # Null => at[t] \in {"old", "leave"}
    /\ at[t] = "old" => j.new # j.addr
    /\ at[t] = "leave" /\ j.addr # Null => j.new \in {Null, j.addr}
    /\ j.addr \in {Null, held[t].addr}
    /\ held[t].addr = Null => held[t] = NoBlock

Kind(t) ==
  /\ at[t] \in {"remap", "unmap"} => job[t].addr \in maps
  /\ at[t] = "old" => job[t].addr \in heap
  /\ at[t] \in {"lock", "in", "new"} => job[t].addr \in heap \cup {Null}

Owned ==
  /\ \A t \in Threads : Mine(t) \subseteq Pool \ lost
  /\ \A t, u \in Threads : t # u => Mine(t) \cap Mine(u) = {}
  /\ \A a \in Pool : a \in lost \/ \E t \in Threads : a \in Mine(t)
  /\ lost \subseteq Pool

(* No block of the allocator has size 0, which would make it a mapping.    *)
Sized == \A a \in heap : size[a] # 0

IInv ==
  /\ TypeOK
  /\ Serial
  /\ Owned
  /\ Sized
  /\ \A t \in Threads : Shape(t) /\ Kind(t)

(* A step of t that gives the blocks Gone back and gets the blocks Fresh.  *)
Frame(t, Gone, Fresh) ==
  /\ \A u \in Threads \ {t} : at'[u] = at[u] /\ job'[u] = job[u] /\ held'[u] = held[u]
  /\ \A a \in Addr \ (Mine(t) \cup Fresh) :
       (a \in heap' <=> a \in heap) /\ (a \in maps' <=> a \in maps)
  /\ Gone \subseteq Mine(t)
  /\ Fresh \cap Pool = {}
  /\ Pool' = (Pool \ Gone) \cup Fresh
  /\ lost \subseteq lost'
  /\ Mine(t)' \cup (lost' \ lost) = (Mine(t) \ Gone) \cup Fresh
  /\ Mine(t)' \cap lost' = {}

(* The greatest size is one, and its half and a header do not wrap around. *)
LEMMA SizesAreNumbers ==
  /\ Modulus \in Nat \ {0} /\ MapHeader \in Nat
  /\ MaxSize \in Nat /\ 0 \in 0..MaxSize /\ MaxSize + MapHeader < Modulus
<1>1. Modulus \in Nat /\ MapHeader \in Nat /\ Threshold \in 1..MaxSize
  BY MemoryAssumption
<1>2. MaxSize \in Int /\ 1 <= MaxSize
  BY <1>1 DEF MaxSize
<1>3. MaxSize + MapHeader = Modulus \div 2
  BY <1>1 DEF MaxSize
<1>4. Modulus # 0
  BY <1>1, <1>2, <1>3
<1> QED
  BY <1>1, <1>2, <1>3, <1>4

(* The initial state satisfies the invariant.                              *)
LEMMA InitInv == Init => IInv
<1> SUFFICES ASSUME Init PROVE IInv
  OBVIOUS
<1> USE MemoryAssumption, SizesAreNumbers DEF Init, NoJob, NoBlock
<1>1. TypeOK
  BY DEF TypeOK, Place, Data, Addr
<1>2. Serial
  BY DEF Serial
<1>3. Owned
  BY DEF Owned, Mine, Pool
<1>4. Sized /\ \A t \in Threads : Shape(t) /\ Kind(t)
  BY DEF Sized, Shape, Kind
<1> QED
  BY <1>1, <1>2, <1>3, <1>4 DEF IInv

(* A thread that does not move keeps its shape, its kind and its blocks.   *)
LEMMA Others ==
  ASSUME IInv, NEW t \in Threads, NEW Gone, NEW Fresh, Frame(t, Gone, Fresh),
         NEW u \in Threads, u # t
  PROVE  Shape(u)' /\ Kind(u)' /\ Mine(u)' = Mine(u)
<1>1. at'[u] = at[u] /\ job'[u] = job[u] /\ held'[u] = held[u]
  BY DEF Frame
<1>2. Mine(u)' = Mine(u)
  BY <1>1 DEF Mine
<1>3. Shape(u)'
  BY <1>1 DEF IInv, Shape
<1>4. Kind(u)'
  <2>1. ASSUME job[u].addr \in Pool PROVE job[u].addr \in Mine(u)
    BY <2>1, MemoryAssumption DEF IInv, TypeOK, Shape, NoJob, Mine, Pool, Addr
  <2>2. ASSUME NEW a \in Mine(u)
        PROVE  (a \in heap' <=> a \in heap) /\ (a \in maps' <=> a \in maps)
    <3>1. a \in Pool /\ a \notin Mine(t)
      BY <2>2 DEF IInv, Owned
    <3>2. a \in Addr \ (Mine(t) \cup Fresh)
      BY <3>1 DEF Frame, IInv, TypeOK, Pool, Addr
    <3> QED
      BY <3>2 DEF Frame
  <2> QED
    BY <1>1, <2>1, <2>2 DEF IInv, Kind, Pool
<1> QED
  BY <1>2, <1>3, <1>4

(* Such a step leaves every block with one owner.                          *)
LEMMA OwnedStep ==
  ASSUME IInv, NEW t \in Threads, NEW Gone, NEW Fresh, Frame(t, Gone, Fresh)
  PROVE  Owned'
<1>1. \A u \in Threads \ {t} : Mine(u)' = Mine(u)
  BY Others
<1>2. Owned
  BY DEF IInv
<1>3. Mine(t)' \subseteq (Mine(t) \ Gone) \cup Fresh
  BY DEF Frame
<1>4. ASSUME NEW u \in Threads PROVE Mine(u)' \subseteq Pool' \ lost'
  <2>1. CASE u = t
    BY <2>1, <1>2, <1>3 DEF Frame, Owned
  <2>2. CASE u # t
    BY <2>2, <1>1, <1>2 DEF Frame, Owned
  <2> QED
    BY <2>1, <2>2
<1>5. ASSUME NEW u \in Threads, NEW v \in Threads, u # v
      PROVE  Mine(u)' \cap Mine(v)' = {}
  <2>1. ASSUME NEW w \in Threads, w # t PROVE Mine(w)' \cap Mine(t)' = {}
    BY <2>1, <1>1, <1>2, <1>3 DEF Frame, Owned
  <2> QED
    BY <1>5, <2>1, <1>1, <1>2 DEF Owned
<1>6. ASSUME NEW a \in Pool'
      PROVE  a \in lost' \/ \E u \in Threads : a \in Mine(u)'
  <2>1. CASE a \in Fresh \cup Mine(t)
    <3>1. a \in (Mine(t) \ Gone) \cup Fresh
      BY <2>1 DEF Frame
    <3> QED
      BY <3>1 DEF Frame
  <2>2. CASE a \notin Fresh \cup Mine(t)
    <3>1. a \in Pool
      BY <2>2 DEF Frame
    <3>2. a \in lost \/ \E u \in Threads \ {t} : a \in Mine(u)
      BY <3>1, <2>2, <1>2 DEF Owned
    <3> QED
      BY <3>2, <1>1 DEF Frame
  <2> QED
    BY <2>1, <2>2
<1>7. lost' \subseteq Pool'
  BY <1>2 DEF Frame, Owned
<1> QED
  BY <1>4, <1>5, <1>6, <1>7 DEF Owned

(* What remains to be shown of a step of t.                                *)
LEMMA Local ==
  ASSUME IInv, NEW t \in Threads, NEW Gone, NEW Fresh,
         TypeOK', Serial', Sized', Frame(t, Gone, Fresh), Shape(t)', Kind(t)'
  PROVE  IInv'
BY Others, OwnedStep DEF IInv

-----------------------------------------------------------------------------
(* A mapping is as large as asked for.                                     *)
LEMMA RoomRule == \A n \in 0..MaxSize : Room(n) = n
<1> SUFFICES ASSUME NEW n \in 0..MaxSize PROVE Room(n) = n
  OBVIOUS
<1>1. n \in Nat /\ n + MapHeader \in Nat /\ n + MapHeader < Modulus
  BY SizesAreNumbers
<1>2. \A p \in Nat : p < Modulus => p % Modulus = p
  BY SizesAreNumbers
<1>3. (n + MapHeader) % Modulus = n + MapHeader
  BY <1>1, <1>2
<1> QED
  BY <1>1, <1>3, SizesAreNumbers DEF Room

(* A product that has passed the test of alloc_array has not wrapped       *)
(* around.                                                                 *)
LEMMA NoOverflow ==
  ASSUME NEW n \in Counts, NEW s \in Sizes, s # 0, ArrayBytes(n, s) \div s = n
  PROVE  ArrayBytes(n, s) = n * s /\ n * s \in 0..MaxSize
<1>1. n \in Nat /\ s \in Nat \ {0} /\ n * s \in Nat
  BY MemoryAssumption, SizeAssumption, SizesAreNumbers
<1>2. ArrayBytes(n, s) \in Nat /\ ArrayBytes(n, s) < Modulus /\ ArrayBytes(n, s) <= n * s
  <2>1. \A p \in Nat : p % Modulus \in Nat /\ p % Modulus < Modulus /\ p % Modulus <= p
    BY SizesAreNumbers
  <2> QED
    BY <1>1, <2>1 DEF ArrayBytes
<1>3. n * s <= ArrayBytes(n, s)
  <2>1. \A q \in Nat : (q \div s) * s <= q
    BY <1>1, SMTT(30)
  <2> QED
    BY <1>1, <1>2, <2>1
<1>4. ArrayBytes(n, s) = n * s /\ n * s < Modulus
  BY <1>1, <1>2, <1>3
<1> QED
  BY <1>1, <1>4, SizeAssumption, SizesAreNumbers

(* Storing a size or contents, and the end of a call, keep the types.      *)
LEMMA StoreSize ==
  ASSUME TypeOK, NEW a, NEW n \in 0..MaxSize
  PROVE  [size EXCEPT ![a] = n] \in [Addr -> 0..MaxSize]
BY DEF TypeOK

LEMMA StoreData ==
  ASSUME TypeOK, NEW a, NEW d \in Data
  PROVE  [data EXCEPT ![a] = d] \in [Addr -> Data]
BY DEF TypeOK

LEMMA StoreJob ==
  ASSUME TypeOK, NEW t \in Threads, NEW a \in Addr \cup {Null}
  PROVE  /\ [job EXCEPT ![t].new = a] \in [Threads ->
              [op : {"none", "alloc", "array", "free", "realloc"}, addr : Addr \cup {Null},
               size : 0..MaxSize, asked : Nat, new : Addr \cup {Null}]]
         /\ [job EXCEPT ![t].addr = a] \in [Threads ->
              [op : {"none", "alloc", "array", "free", "realloc"}, addr : Addr \cup {Null},
               size : 0..MaxSize, asked : Nat, new : Addr \cup {Null}]]
BY DEF TypeOK

LEMMA ReturnTypes ==
  ASSUME TypeOK, NEW t \in Threads, NEW addr, NEW new \in Addr \cup {Null},
         NEW content \in Data, Return(t, addr, new, content)
  PROVE  /\ at' \in [Threads -> Place]
         /\ job' \in [Threads ->
              [op : {"none", "alloc", "array", "free", "realloc"}, addr : Addr \cup {Null},
               size : 0..MaxSize, asked : Nat, new : Addr \cup {Null}]]
         /\ held' \in [Threads -> [addr : Addr \cup {Null}, asked : Nat, data : Data]]
<1>1. at' \in [Threads -> Place]
  BY DEF TypeOK, Return, Place
<1>2. 0 \in 0..MaxSize
  BY SizesAreNumbers
<1>3. NoJob \in [op : {"none", "alloc", "array", "free", "realloc"}, addr : Addr \cup {Null},
                  size : 0..MaxSize, asked : Nat, new : Addr \cup {Null}]
  BY <1>2 DEF NoJob
<1>4. NoBlock \in [addr : Addr \cup {Null}, asked : Nat, data : Data]
  BY DEF NoBlock, Data
<1>5. [addr |-> new, asked |-> job[t].asked, data |-> content]
        \in [addr : Addr \cup {Null}, asked : Nat, data : Data]
  BY DEF TypeOK
<1> QED
  BY <1>1, <1>3, <1>4, <1>5 DEF TypeOK, Return

(* Every step keeps the variables in their ranges.                         *)
LEMMA TypeStep == IInv /\ [Next]_vars => TypeOK'
<1> SUFFICES ASSUME IInv, [Next]_vars PROVE TypeOK'
  OBVIOUS
<1>a. TypeOK
  BY DEF IInv
<1>b. 0 \in 0..MaxSize /\ Junk \in Data /\ Zero \in Data
  BY SizesAreNumbers DEF Data
<1>c. ASSUME NEW t \in Threads
      PROVE  /\ job[t].size \in 0..MaxSize
             /\ job[t].addr \in Addr \cup {Null} /\ job[t].new \in Addr \cup {Null}
             /\ held[t].data \in Data
             /\ \A a \in Addr : data[a] \in Data
  BY <1>a DEF TypeOK
<1>1. ASSUME NEW t \in Threads, NEW s \in Sizes, Alloc(t, s) PROVE TypeOK'
  BY <1>a, <1>1, SizeAssumption DEF Alloc, TypeOK, Place, Goto, Start
<1>2. ASSUME NEW t \in Threads, NEW s \in Sizes, NEW n \in Counts, AllocArray(t, n, s)
      PROVE  TypeOK'
  BY <1>a, <1>2, NoOverflow DEF AllocArray, TypeOK, Place, Goto, Start
<1>3. ASSUME NEW t \in Threads, Free(t) PROVE TypeOK'
  BY <1>a, <1>b, <1>3 DEF Free, TypeOK, Place, Goto, Start
<1>4. ASSUME NEW t \in Threads, NEW s \in Sizes, Realloc(t, s) PROVE TypeOK'
  BY <1>a, <1>4, SizeAssumption DEF Realloc, TypeOK, Place, Goto, Start
<1>5. ASSUME NEW t \in Threads, Write(t) PROVE TypeOK'
  <2>1. data' \in [Addr -> Data]
    BY <1>a, <1>5, StoreData DEF Write, Data
  <2>2. held' \in [Threads -> [addr : Addr \cup {Null}, asked : Nat, data : Data]]
    BY <1>a, <1>5 DEF Write, TypeOK, Data
  <2> QED
    BY <1>a, <1>5, <2>1, <2>2 DEF Write, TypeOK
<1>6. ASSUME NEW t \in Threads, ReadSize(t) PROVE TypeOK'
  BY <1>a, <1>6 DEF ReadSize, TypeOK, Place, Goto
<1>7. ASSUME NEW t \in Threads, Map(t) PROVE TypeOK'
  <2>1. PICK a \in MapAddr :
          Create(a, job[t].size) /\ data' = [data EXCEPT ![a] = Zero] /\ Return(t, Null, a, Zero)
    BY <1>7 DEF Map
  <2>2. maps' \subseteq MapAddr /\ size' \in [Addr -> 0..MaxSize]
    BY RoomRule, <1>a, <1>c, <2>1, StoreSize DEF Create, TypeOK
  <2>3. data' \in [Addr -> Data]
    BY <1>a, <1>b, <2>1, StoreData
  <2> QED
    BY <1>a, <1>b, <1>7, <2>1, <2>2, <2>3, ReturnTypes DEF Map, TypeOK, Addr
<1>8. ASSUME NEW t \in Threads, MapFails(t) \/ RemapFails(t) PROVE TypeOK'
  BY <1>a, <1>b, <1>8, ReturnTypes DEF MapFails, RemapFails, TypeOK
<1>9. ASSUME NEW t \in Threads, Remap(t) PROVE TypeOK'
  <2>1. job[t].addr \in maps
    BY <1>9 DEF IInv, Kind, Remap
  <2>2. PICK a \in (MapAddr \ maps) \cup {job[t].addr} :
          /\ maps' = (maps \ {job[t].addr}) \cup {a}
          /\ size' = [size EXCEPT ![job[t].addr] = 0, ![a] = Room(job[t].size)]
          /\ data' = [data EXCEPT ![job[t].addr] = Junk, ![a] = data[job[t].addr]]
          /\ Return(t, Null, a, held[t].data)
    BY <1>9 DEF Remap
  <2>3. a \in MapAddr /\ maps' \subseteq MapAddr /\ job[t].addr \in MapAddr
    BY <1>a, <2>1, <2>2 DEF TypeOK
  <2>4. size' \in [Addr -> 0..MaxSize]
    BY RoomRule, <1>a, <1>b, <1>c, <2>2 DEF TypeOK
  <2>5. data' \in [Addr -> Data]
    BY <1>a, <1>b, <1>c, <2>2, <2>3 DEF TypeOK, Addr
  <2> QED
    BY <1>a, <1>c, <1>9, <2>2, <2>3, <2>4, <2>5, ReturnTypes DEF Remap, TypeOK, Addr
<1>10. ASSUME NEW t \in Threads, Unmap(t) PROVE TypeOK'
  <2>1. job[t].addr \in MapAddr
    BY <1>a, <1>10 DEF IInv, Kind, Unmap, TypeOK
  <2>2. maps' \subseteq MapAddr /\ lost' \subseteq MapAddr
    BY <1>a, <1>10, <2>1 DEF Unmap, TypeOK
  <2>3. size' \in [Addr -> 0..MaxSize]
    <3>1. size' = size \/ size' = [size EXCEPT ![job[t].addr] = 0]
      BY <1>10 DEF Unmap
    <3> QED
      BY <1>a, <1>b, <3>1, StoreSize DEF TypeOK
  <2>4. data' \in [Addr -> Data]
    <3>1. data' = data \/ data' = [data EXCEPT ![job[t].addr] = Junk]
      BY <1>10 DEF Unmap
    <3> QED
      BY <1>a, <1>b, <3>1, StoreData DEF TypeOK
  <2> QED
    BY <1>a, <1>b, <1>10, <2>2, <2>3, <2>4, ReturnTypes DEF Unmap, TypeOK
<1>11. ASSUME NEW t \in Threads, Enter(t) PROVE TypeOK'
  BY <1>a, <1>11 DEF Enter, Mutex!Take, TypeOK, Place, Goto
<1>12. ASSUME NEW t \in Threads, SmallAlloc(t) PROVE TypeOK'
  <2>1. CASE UNCHANGED <<heap, size, data, job>>
    BY <1>a, <1>12, <2>1 DEF SmallAlloc, TypeOK, Place, Goto
  <2>2. ASSUME NEW a \in HeapAddr, Malloc(a, job[t].size),
               data' = [data EXCEPT ![a] = Junk], job' = [job EXCEPT ![t].new = a]
        PROVE  TypeOK'
    <3>1. heap' \subseteq HeapAddr /\ size' \in [Addr -> 0..MaxSize]
      BY <1>a, <1>c, <2>2, StoreSize DEF Malloc, TypeOK
    <3>2. data' \in [Addr -> Data]
      BY <1>a, <1>b, <2>2, StoreData
    <3>3. at' \in [Threads -> Place]
      BY <1>a, <1>12 DEF SmallAlloc, TypeOK, Place, Goto
    <3> QED
      BY <1>a, <1>12, <2>2, <3>1, <3>2, <3>3, StoreJob DEF SmallAlloc, TypeOK, Addr
  <2> QED
    BY <1>12, <2>1, <2>2 DEF SmallAlloc
<1>13. ASSUME NEW t \in Threads, SmallFree(t) \/ FreeOld(t) PROVE TypeOK'
  <2>1. FreeBlock(t) /\ \E from \in Place : Goto(t, from, "leave")
    BY <1>13 DEF SmallFree, FreeOld, Place
  <2>2. size' \in [Addr -> 0..MaxSize] /\ data' \in [Addr -> Data]
    BY <1>a, <1>b, <2>1, StoreSize, StoreData DEF FreeBlock
  <2>3. at' \in [Threads -> Place]
    BY <1>a, <2>1 DEF TypeOK, Goto, Place
  <2> QED
    BY <1>a, <2>1, <2>2, <2>3, StoreJob DEF FreeBlock, TypeOK
<1>14. ASSUME NEW t \in Threads, ReallocToNothing(t) \/ ResizeFails(t) PROVE TypeOK'
  BY <1>a, <1>14 DEF ReallocToNothing, ResizeFails, TypeOK, Place, Goto
<1>15. ASSUME NEW t \in Threads, Resize(t) PROVE TypeOK'
  <2>1. size' \in [Addr -> 0..MaxSize]
    BY <1>a, <1>c, <1>15, StoreSize DEF Resize
  <2> QED
    BY <1>a, <1>15, <2>1 DEF Resize, TypeOK, Place, Goto, Addr
<1>16. ASSUME NEW t \in Threads, ReallocToMap(t) \/ ReallocToHeap(t) PROVE TypeOK'
  <2>1. at' \in [Threads -> Place]
    BY <1>a, <1>16 DEF ReallocToMap, ReallocToHeap, TypeOK, Place, Goto
  <2>2. ASSUME NEW a \in Addr, NEW d \in {Zero, Junk}, CopyTo(t, a, d)
        PROVE  /\ data' \in [Addr -> Data]
               /\ job' \in [Threads ->
                    [op : {"none", "alloc", "array", "free", "realloc"},
                     addr : Addr \cup {Null}, size : 0..MaxSize,
                     asked : Nat, new : Addr \cup {Null}]]
    <3>1. (IF job[t].addr = Null THEN d ELSE data[job[t].addr]) \in Data
      BY <1>b, <1>c
    <3> QED
      BY <1>a, <2>2, <3>1, StoreData, StoreJob DEF CopyTo
  <2>3. CASE UNCHANGED <<heap, maps, size, data, job>>
    BY <1>a, <1>16, <2>1, <2>3 DEF ReallocToMap, ReallocToHeap, TypeOK
  <2>4. ASSUME ReallocToMap(t), NEW a \in MapAddr, Create(a, job[t].size), CopyTo(t, a, Zero)
        PROVE  TypeOK'
    <3>1. maps' \subseteq MapAddr /\ size' \in [Addr -> 0..MaxSize]
      BY RoomRule, <1>a, <1>c, <2>4, StoreSize DEF Create, TypeOK
    <3> QED
      BY <1>a, <2>1, <2>2, <2>4, <3>1 DEF ReallocToMap, TypeOK, Addr
  <2>5. ASSUME ReallocToHeap(t), NEW a \in HeapAddr, Malloc(a, job[t].size), CopyTo(t, a, Junk)
        PROVE  TypeOK'
    <3>1. heap' \subseteq HeapAddr /\ size' \in [Addr -> 0..MaxSize]
      BY <1>a, <1>c, <2>5, StoreSize DEF Malloc, TypeOK
    <3> QED
      BY <1>a, <2>1, <2>2, <2>5, <3>1 DEF ReallocToHeap, TypeOK, Addr
  <2> QED
    BY <1>16, <2>3, <2>4, <2>5 DEF ReallocToMap, ReallocToHeap
<1>17. ASSUME NEW t \in Threads, Leave(t) PROVE TypeOK'
  <2>1. PICK content \in Data : Return(t, job[t].addr, job[t].new, content)
    BY <1>b, <1>c, <1>17 DEF Leave
  <2>2. data' \in [Addr -> Data]
    BY <1>a, <1>b, <1>17, StoreData DEF Leave, TypeOK
  <2> QED
    BY <1>a, <1>c, <1>17, <2>1, <2>2, ReturnTypes DEF Leave, Mutex!Release, Mutex!Free, TypeOK
<1>18. CASE UNCHANGED vars
  BY <1>a, <1>18 DEF vars, TypeOK
<1> QED
  BY <1>1, <1>2, <1>3, <1>4, <1>5, <1>6, <1>7, <1>8, <1>9, <1>10, <1>11, <1>12,
     <1>13, <1>14, <1>15, <1>16, <1>17, <1>18 DEF Next, Call, Continue

(* Only Enter and Leave cross the border of the section, and they take and *)
(* release the mutex.                                                      *)
LEMMA SerialStep == TypeOK /\ Serial /\ [Next]_vars => Serial'
<1> SUFFICES ASSUME TypeOK, Serial, [Next]_vars PROVE Serial'
  OBVIOUS
<1> USE MemoryAssumption DEF TypeOK, Serial, Goto, Return
<1>1. ASSUME NEW t \in Threads, Call(t) PROVE Serial'
  BY <1>1 DEF Call, Alloc, AllocArray, Free, Realloc, Write
<1>2. ASSUME NEW t \in Threads, ReadSize(t) PROVE Serial'
  BY <1>2 DEF ReadSize
<1>3. ASSUME NEW t \in Threads,
             Map(t) \/ MapFails(t) \/ Remap(t) \/ RemapFails(t) \/ Unmap(t)
      PROVE  Serial'
  BY <1>3 DEF Map, MapFails, Remap, RemapFails, Unmap
<1>4. ASSUME NEW t \in Threads, Enter(t) PROVE Serial'
  BY <1>4 DEF Enter, Mutex!Take, Mutex!Free
<1>5. ASSUME NEW t \in Threads,
             \/ SmallAlloc(t) \/ SmallFree(t) \/ ReallocToNothing(t)
             \/ Resize(t) \/ ResizeFails(t) \/ FreeOld(t)
      PROVE  Serial'
  BY <1>5 DEF SmallAlloc, SmallFree, ReallocToNothing, Resize, ResizeFails,
              FreeOld, FreeBlock
<1>6. ASSUME NEW t \in Threads, ReallocToMap(t) \/ ReallocToHeap(t) PROVE Serial'
  BY <1>6 DEF ReallocToMap, ReallocToHeap
<1>7. ASSUME NEW t \in Threads, Leave(t) PROVE Serial'
  BY <1>7 DEF Leave, Mutex!Release, Mutex!Free
<1>8. CASE UNCHANGED vars
  BY <1>8 DEF vars
<1> QED
  BY <1>1, <1>2, <1>3, <1>4, <1>5, <1>6, <1>7, <1>8 DEF Next, Continue

-----------------------------------------------------------------------------
(* The steps of one thread t, action by action.  Elsewhere(t) is all that  *)
(* an action on t says of the other threads.                               *)
Elsewhere(t) ==
  \A u \in Threads \ {t} : at'[u] = at[u] /\ job'[u] = job[u] /\ held'[u] = held[u]

Kept == heap' = heap /\ maps' = maps /\ lost' = lost

(* What an action on t must be shown to do, when TypeOK' and Serial' hold. *)
Step(t) ==
  /\ Sized' /\ Shape(t)' /\ Kind(t)'
  /\ \E Gone, Fresh \in SUBSET Addr : Frame(t, Gone, Fresh)

(* A step that moves no block.                                             *)
LEMMA Quiet ==
  ASSUME IInv, NEW t \in Threads, Elsewhere(t), Kept, Mine(t)' = Mine(t),
         Sized', Shape(t)', Kind(t)'
  PROVE  Step(t)
<1>1. Mine(t) \cap lost = {}
  BY DEF IInv, Owned
<1>2. Frame(t, {}, {})
  BY <1>1 DEF Frame, Elsewhere, Kept, Pool
<1> QED
  BY <1>2 DEF Step

(* The calls begin, and write, with the block the thread owns.             *)
LEMMA CallStep == ASSUME IInv, NEW t \in Threads, Call(t) PROVE Step(t)
<1> USE MemoryAssumption
<1>a. TypeOK /\ Shape(t) /\ Sized
  BY DEF IInv
<1> USE DEF TypeOK, Goto, Start, NoJob, NoBlock, Addr
<1>1. ASSUME NEW s \in Sizes, Alloc(t, s) PROVE Step(t)
  <2>1. Elsewhere(t) /\ Kept
    BY <1>a, <1>1 DEF Alloc, Elsewhere, Kept
  <2>2. Mine(t)' = Mine(t)
    BY <1>a, <1>1 DEF Alloc, Mine
  <2>3. Sized' /\ Shape(t)' /\ Kind(t)'
    BY <1>a, <1>1 DEF Alloc, Sized, Shape, Kind
  <2> QED
    BY <2>1, <2>2, <2>3, Quiet
<1>2. ASSUME NEW s \in Sizes, NEW n \in Counts, AllocArray(t, n, s) PROVE Step(t)
  <2>1. Elsewhere(t) /\ Kept
    BY <1>a, <1>2 DEF AllocArray, Elsewhere, Kept
  <2>2. Mine(t)' = Mine(t)
    BY <1>a, <1>2 DEF AllocArray, Mine
  <2>3. Sized' /\ Shape(t)' /\ Kind(t)'
    BY <1>a, <1>2 DEF AllocArray, Sized, Shape, Kind
  <2> QED
    BY <2>1, <2>2, <2>3, Quiet
<1>3. ASSUME Free(t) PROVE Step(t)
  <2>1. Elsewhere(t) /\ Kept
    BY <1>a, <1>3 DEF Free, Elsewhere, Kept
  <2>2. Mine(t)' = Mine(t)
    BY <1>a, <1>3 DEF Free, Mine
  <2>3. Sized' /\ Shape(t)' /\ Kind(t)'
    BY <1>a, <1>3 DEF Free, Sized, Shape, Kind
  <2> QED
    BY <2>1, <2>2, <2>3, Quiet
<1>4. ASSUME NEW s \in Sizes, Realloc(t, s) PROVE Step(t)
  <2>1. Elsewhere(t) /\ Kept
    BY <1>a, <1>4 DEF Realloc, Elsewhere, Kept
  <2>2. Mine(t)' = Mine(t)
    BY <1>a, <1>4 DEF Realloc, Mine
  <2>3. Sized' /\ Shape(t)' /\ Kind(t)'
    BY <1>a, <1>4 DEF Realloc, Sized, Shape, Kind
  <2> QED
    BY <2>1, <2>2, <2>3, Quiet
<1>5. ASSUME Write(t) PROVE Step(t)
  <2>1. Elsewhere(t) /\ Kept
    BY <1>a, <1>5 DEF Write, Elsewhere, Kept
  <2>2. Mine(t)' = Mine(t)
    BY <1>a, <1>5 DEF Write, Mine
  <2>3. Sized' /\ Shape(t)' /\ Kind(t)'
    BY <1>a, <1>5 DEF Write, Sized, Shape, Kind
  <2> QED
    BY <2>1, <2>2, <2>3, Quiet
<1> QED
  BY <1>1, <1>2, <1>3, <1>4, <1>5 DEF Call

(* The size that is read without the mutex tells mappings from the blocks  *)
(* of the allocator, because the block is the thread's own and no block of *)
(* the allocator has size 0.                                               *)
LEMMA ReadSizeStep == ASSUME IInv, NEW t \in Threads, ReadSize(t) PROVE Step(t)
<1> USE MemoryAssumption
<1>a. TypeOK /\ Shape(t) /\ Sized
  BY DEF IInv
<1>b. job[t].addr # Null => job[t].addr \in Pool
  BY <1>a DEF IInv, Owned, Mine, ReadSize, Goto
<1> USE DEF TypeOK, Goto, NoJob, NoBlock, Addr
<1>1. Elsewhere(t) /\ Kept
  BY <1>a DEF ReadSize, Elsewhere, Kept
<1>2. Mine(t)' = Mine(t)
  BY <1>a DEF ReadSize, Mine
<1>3. Sized'
  BY <1>a DEF ReadSize, Sized
<1>4. Kind(t)'
  BY <1>a, <1>b DEF ReadSize, Kind, SizeOf, Sized, Pool
<1>5. Shape(t)'
  BY <1>a DEF ReadSize, Shape
<1> QED
  BY <1>1, <1>2, <1>3, <1>4, <1>5, Quiet

(* Mappings are created for, resized for and removed for their owner.      *)
LEMMA MapStep ==
  ASSUME IInv, NEW t \in Threads,
         Map(t) \/ MapFails(t) \/ Remap(t) \/ RemapFails(t) \/ Unmap(t)
  PROVE  Step(t)
<1> USE MemoryAssumption
<1>a. TypeOK /\ Shape(t) /\ Kind(t) /\ Sized
  BY DEF IInv
<1>b. Mine(t) \subseteq Pool \ lost /\ lost \subseteq Pool
  BY DEF IInv, Owned
<1> USE DEF TypeOK, Return, NoJob, NoBlock, Addr
<1>1. Elsewhere(t)
  BY <1>a DEF Map, MapFails, Remap, RemapFails, Unmap, Elsewhere
<1>2. at'[t] = "idle" /\ job'[t] = NoJob
  BY <1>a DEF Map, MapFails, Remap, RemapFails, Unmap
<1>3. Kind(t)'
  BY <1>2 DEF Kind
<1>4. heap' = heap
  BY DEF Map, MapFails, Remap, RemapFails, Unmap
<1>5. CASE Map(t)
  <2>1. PICK a \in MapAddr : Create(a, job[t].size) /\ Return(t, Null, a, Zero)
    BY <1>5 DEF Map
  <2>2. held'[t].addr = a /\ Mine(t)' = {a} /\ Mine(t) = {}
    BY <1>a, <1>5, <2>1, <1>2 DEF Map, Mine, Shape
  <2>3. Frame(t, {}, {a})
    BY <1>a, <1>b, <1>1, <1>4, <1>5, <2>1, <2>2 DEF Frame, Elsewhere, Pool, Create, Map
  <2>4. Sized' /\ Shape(t)'
    BY <1>a, <1>2, <1>4, <2>1, <2>2 DEF Sized, Shape, Create
  <2> QED
    BY <1>3, <2>3, <2>4 DEF Step
<1>6. CASE MapFails(t) \/ RemapFails(t)
  <2>1. Kept
    BY <1>6 DEF MapFails, RemapFails, Kept
  <2>2. Mine(t)' = Mine(t) /\ Shape(t)'
    BY <1>a, <1>2, <1>6 DEF MapFails, RemapFails, Mine, Shape, Kind
  <2>3. Sized'
    BY <1>a, <1>6 DEF MapFails, RemapFails, Sized
  <2> QED
    BY <1>1, <1>3, <2>1, <2>2, <2>3, Quiet
<1>7. CASE Remap(t)
  <2> DEFINE old == job[t].addr
  <2>1. PICK a \in (MapAddr \ maps) \cup {old} :
          /\ maps' = (maps \ {old}) \cup {a}
          /\ size' = [size EXCEPT ![old] = 0, ![a] = Room(job[t].size)]
          /\ Return(t, Null, a, held[t].data)
    BY <1>7 DEF Remap
  <2>2. old \in maps /\ Mine(t) = {old}
    BY <1>a, <1>7 DEF Remap, Kind, Shape, Mine
  <2>3. held'[t].addr = a /\ Mine(t)' = {a}
    BY <1>a, <1>2, <2>1, <2>2 DEF Mine
  <2>4. Frame(t, {old} \ {a}, {a} \ {old})
    BY <1>a, <1>b, <1>1, <1>4, <1>7, <2>1, <2>2, <2>3 DEF Frame, Elsewhere, Pool, Remap
  <2>5. Sized' /\ Shape(t)'
    BY <1>a, <1>2, <1>4, <2>1, <2>2, <2>3 DEF Sized, Shape
  <2> QED
    BY <1>a, <1>3, <2>1, <2>2, <2>4, <2>5 DEF Step
<1>8. CASE Unmap(t)
  <2> DEFINE old == job[t].addr
  <2>1. old \in maps /\ Mine(t) = {old}
    BY <1>a, <1>8 DEF Unmap, Kind, Shape, Mine
  <2>2. held'[t] = NoBlock /\ Mine(t)' = {}
    BY <1>a, <1>2, <1>8 DEF Unmap, Mine
  <2>3. Sized' /\ Shape(t)'
    BY <1>a, <1>2, <1>4, <1>8, <2>1, <2>2 DEF Unmap, Sized, Shape
  <2>4. CASE maps' = maps \ {old} /\ UNCHANGED lost
    <3>1. Frame(t, {old}, {})
      BY <1>a, <1>b, <1>1, <1>4, <2>1, <2>2, <2>4 DEF Frame, Elsewhere, Pool
    <3> QED
      BY <1>a, <1>3, <2>1, <2>3, <3>1 DEF Step
  <2>5. CASE lost' = lost \cup {old} /\ UNCHANGED maps
    <3>1. Frame(t, {}, {})
      BY <1>a, <1>b, <1>1, <1>4, <2>1, <2>2, <2>5 DEF Frame, Elsewhere, Pool
    <3> QED
      BY <1>3, <2>3, <3>1 DEF Step
  <2> QED
    BY <1>8, <2>4, <2>5 DEF Unmap
<1> QED
  BY <1>5, <1>6, <1>7, <1>8

(* Into the section and out of it.                                         *)
LEMMA BorderStep == ASSUME IInv, NEW t \in Threads, Enter(t) \/ Leave(t) PROVE Step(t)
<1> USE MemoryAssumption
<1>a. TypeOK /\ Shape(t) /\ Kind(t) /\ Sized
  BY DEF IInv
<1> USE DEF TypeOK, Goto, Return, NoJob, NoBlock, Addr
<1>1. CASE Enter(t)
  <2>1. Elsewhere(t) /\ Kept
    BY <1>a, <1>1 DEF Enter, Elsewhere, Kept
  <2>2. Mine(t)' = Mine(t)
    BY <1>a, <1>1 DEF Enter, Mine
  <2>3. Sized' /\ Shape(t)' /\ Kind(t)'
    BY <1>a, <1>1 DEF Enter, Sized, Shape, Kind
  <2> QED
    BY <2>1, <2>2, <2>3, Quiet
<1>2. CASE Leave(t)
  <2>1. Elsewhere(t) /\ Kept
    BY <1>a, <1>2 DEF Leave, Elsewhere, Kept
  <2>2. Mine(t)' = Mine(t)
    BY <1>a, <1>2 DEF Leave, Mine, Shape
  <2>3. Sized' /\ Kind(t)'
    BY <1>a, <1>2 DEF Leave, Sized, Kind
  <2>4. Shape(t)'
    BY <1>a, <1>2 DEF Leave, Shape
  <2> QED
    BY <2>1, <2>2, <2>3, <2>4, Quiet
<1> QED
  BY <1>1, <1>2

(* Inside the section, where the allocator hands out blocks and gets them  *)
(* back.                                                                   *)
LEMMA AllocatorStep ==
  ASSUME IInv, NEW t \in Threads,
         \/ SmallAlloc(t) \/ SmallFree(t) \/ FreeOld(t)
         \/ ReallocToNothing(t) \/ Resize(t) \/ ResizeFails(t)
  PROVE  Step(t)
<1> USE MemoryAssumption
<1>a. TypeOK /\ Shape(t) /\ Kind(t) /\ Sized
  BY DEF IInv
<1>b. Mine(t) \subseteq Pool \ lost /\ lost \subseteq Pool
  BY DEF IInv, Owned
<1> USE DEF TypeOK, Goto, NoJob, NoBlock, Addr
<1>1. CASE SmallAlloc(t)
  <2>1. Elsewhere(t)
    BY <1>a, <1>1 DEF SmallAlloc, Elsewhere
  <2>2. CASE UNCHANGED <<heap, size, data, job>>
    <3>1. Kept /\ Mine(t)' = Mine(t)
      BY <1>a, <1>1, <2>2 DEF SmallAlloc, Kept, Mine
    <3>2. Sized' /\ Shape(t)' /\ Kind(t)'
      BY <1>a, <1>1, <2>2 DEF SmallAlloc, Sized, Shape, Kind
    <3> QED
      BY <2>1, <3>1, <3>2, Quiet
  <2>3. ASSUME NEW a \in HeapAddr, Malloc(a, job[t].size), job' = [job EXCEPT ![t].new = a]
        PROVE  Step(t)
    <3>1. Mine(t) = {} /\ Mine(t)' = {a}
      BY <1>a, <1>1, <2>3 DEF SmallAlloc, Mine, Shape
    <3>2. Frame(t, {}, {a})
      BY <1>a, <1>b, <1>1, <2>1, <2>3, <3>1
      DEF Frame, Elsewhere, Pool, Malloc, SmallAlloc
    <3>3. Sized' /\ Shape(t)' /\ Kind(t)'
      BY <1>a, <1>1, <2>3 DEF SmallAlloc, Malloc, Sized, Shape, Kind
    <3> QED
      BY <3>2, <3>3 DEF Step
  <2> QED
    BY <1>1, <2>2, <2>3 DEF SmallAlloc
<1>2. CASE SmallFree(t) \/ FreeOld(t)
  <2> DEFINE old == job[t].addr
  <2>1. Elsewhere(t)
    BY <1>a, <1>2 DEF SmallFree, FreeOld, FreeBlock, Elsewhere
  <2>2. old \in heap
    BY <1>a, <1>2 DEF SmallFree, FreeOld, Shape, Kind
  <2>3. old \in Mine(t) /\ Mine(t)' = Mine(t) \ {old}
    BY <1>a, <1>2, <2>2 DEF SmallFree, FreeOld, FreeBlock, Mine, Shape
  <2>4. Frame(t, {old}, {})
    BY <1>a, <1>b, <1>2, <2>1, <2>2, <2>3
    DEF Frame, Elsewhere, Pool, SmallFree, FreeOld, FreeBlock
  <2>5. Sized' /\ Kind(t)'
    BY <1>a, <1>2 DEF SmallFree, FreeOld, FreeBlock, Sized, Kind
  <2>6. Shape(t)'
    BY <1>a, <1>2 DEF SmallFree, FreeOld, FreeBlock, Shape
  <2> QED
    BY <1>a, <2>2, <2>4, <2>5, <2>6 DEF Step
<1>3. CASE ReallocToNothing(t) \/ ResizeFails(t)
  <2>1. Elsewhere(t) /\ Kept
    BY <1>a, <1>3 DEF ReallocToNothing, ResizeFails, Elsewhere, Kept
  <2>2. Mine(t)' = Mine(t)
    BY <1>a, <1>3 DEF ReallocToNothing, ResizeFails, Mine
  <2>3. Sized' /\ Shape(t)' /\ Kind(t)'
    BY <1>a, <1>3 DEF ReallocToNothing, ResizeFails, Sized, Shape, Kind
  <2> QED
    BY <2>1, <2>2, <2>3, Quiet
<1>4. CASE Resize(t)
  <2>1. Elsewhere(t) /\ Kept
    BY <1>a, <1>4 DEF Resize, Elsewhere, Kept
  <2>2. Mine(t)' = Mine(t)
    BY <1>a, <1>4 DEF Resize, Mine, Shape
  <2>3. Sized' /\ Shape(t)' /\ Kind(t)'
    BY <1>a, <1>4 DEF Resize, Sized, Shape, Kind
  <2> QED
    BY <2>1, <2>2, <2>3, Quiet
<1> QED
  BY <1>1, <1>2, <1>3, <1>4

(* realloc gets its new block while it still has the old one.              *)
LEMMA ReallocStep ==
  ASSUME IInv, NEW t \in Threads, ReallocToMap(t) \/ ReallocToHeap(t)
  PROVE  Step(t)
<1> USE MemoryAssumption
<1>a. TypeOK /\ Shape(t) /\ Kind(t) /\ Sized
  BY DEF IInv
<1>b. Mine(t) \subseteq Pool \ lost /\ lost \subseteq Pool
  BY DEF IInv, Owned
<1> USE DEF TypeOK, Goto, NoJob, NoBlock, Addr
<1>1. Elsewhere(t)
  BY <1>a DEF ReallocToMap, ReallocToHeap, CopyTo, Elsewhere
<1>2. job[t].addr \in heap \cup {Null} /\ job[t].new = Null
  BY <1>a DEF ReallocToMap, ReallocToHeap, Shape, Kind
<1>3. CASE UNCHANGED <<heap, maps, size, data, job>>
  <2>1. Kept /\ Mine(t)' = Mine(t)
    BY <1>a, <1>3 DEF ReallocToMap, ReallocToHeap, Kept, Mine
  <2>2. Sized' /\ Shape(t)' /\ Kind(t)'
    BY <1>a, <1>2, <1>3 DEF ReallocToMap, ReallocToHeap, Sized, Shape, Kind
  <2> QED
    BY <1>1, <2>1, <2>2, Quiet
<1>4. ASSUME NEW a \in Addr \ Pool, job' = [job EXCEPT ![t].new = a], lost' = lost,
             held' = held, at[t] = "new", job[t].size # 0,
             size' = [size EXCEPT ![a] = job[t].size],
             at' = [at EXCEPT ![t] = IF job[t].addr = Null THEN "leave" ELSE "old"],
             \/ a \in HeapAddr /\ heap' = heap \cup {a} /\ maps' = maps
             \/ a \in MapAddr /\ maps' = maps \cup {a} /\ heap' = heap
      PROVE  Step(t)
  <2>1. Mine(t)' = Mine(t) \cup {a}
    BY <1>a, <1>2, <1>4 DEF Mine
  <2>2. Frame(t, {}, {a})
    BY <1>a, <1>b, <1>1, <1>4, <2>1 DEF Frame, Elsewhere, Pool
  <2>3. Sized' /\ Kind(t)'
    BY <1>a, <1>2, <1>4 DEF Sized, Kind
  <2>4. Shape(t)'
    BY <1>a, <1>2, <1>4 DEF Shape, Pool
  <2> QED
    BY <2>2, <2>3, <2>4 DEF Step
<1>5. job[t].size # 0
  BY <1>a DEF ReallocToMap, ReallocToHeap, Shape
<1>6. CASE ReallocToMap(t)
  BY RoomRule, <1>a, <1>3, <1>4, <1>5, <1>6 DEF ReallocToMap, Create, CopyTo, Pool
<1>7. CASE ReallocToHeap(t)
  BY <1>a, <1>3, <1>4, <1>5, <1>7 DEF ReallocToHeap, Malloc, CopyTo, Pool
<1> QED
  BY <1>6, <1>7

-----------------------------------------------------------------------------
(* Every step of every call is one that Local asks for.                    *)
LEMMA ThreadStep == ASSUME IInv, NEW t \in Threads, Call(t) \/ Continue(t) PROVE Step(t)
<1>1. CASE Call(t)
  BY <1>1, CallStep
<1>2. CASE Continue(t)
  BY <1>2, ReadSizeStep, MapStep, BorderStep, AllocatorStep, ReallocStep DEF Continue
<1> QED
  BY <1>1, <1>2

(* Every step preserves the invariant.                                     *)
LEMMA InvStep == IInv /\ [Next]_vars => IInv'
<1> SUFFICES ASSUME IInv, [Next]_vars PROVE IInv'
  OBVIOUS
<1>1. TypeOK' /\ Serial'
  BY TypeStep, SerialStep DEF IInv
<1>2. ASSUME NEW t \in Threads, Call(t) \/ Continue(t) PROVE IInv'
  <2>1. Step(t)
    BY <1>2, ThreadStep
  <2> QED
    BY <1>1, <2>1, Local DEF Step
<1>3. CASE UNCHANGED vars
  <2>1. Sized' /\ \A t \in Threads : Shape(t)' /\ Kind(t)'
    BY <1>3 DEF IInv, vars, Sized, Shape, Kind
  <2>2. Pool' = Pool /\ lost' = lost /\ \A t \in Threads : Mine(t)' = Mine(t)
    BY <1>3 DEF vars, Pool, Mine
  <2>3. Owned'
    BY <2>2 DEF IInv, Owned
  <2> QED
    BY <1>1, <2>1, <2>3 DEF IInv
<1> QED
  BY <1>2, <1>3 DEF Next

(* The invariant holds whatever the threads do and the kernel answers.     *)
THEOREM Invariant == Spec => []IInv
BY InitInv, InvStep, PTL DEF Spec

(* Every variable stays in its range, sizes in that of a size_t.           *)
THEOREM TypeCorrect == Spec => []TypeOK
<1>1. IInv => TypeOK
  BY DEF IInv
<1> QED
  BY <1>1, Invariant, PTL

(* Every block that is out and every mapping has exactly one owner, or is  *)
(* one that munmap has refused.                                            *)
THEOREM Owners == Spec => []OneOwner
<1>1. IInv => OneOwner
  BY DEF IInv, OneOwner, Owned, Pool
<1> QED
  BY <1>1, Invariant, PTL

(* The size that realloc and free read before they lock the mutex still    *)
(* tells mappings from the allocator's blocks when they use it.            *)
THEOREM Kinds == Spec => []RightKind
<1>1. IInv => RightKind
  BY DEF IInv, RightKind, Kind
<1> QED
  BY <1>1, Invariant, PTL

(* The allocator runs one call at a time, and no call returns with the     *)
(* mutex locked.                                                           *)
THEOREM Serialised == Spec => []Serial
<1>1. IInv => Serial
  BY DEF IInv
<1> QED
  BY <1>1, Invariant, PTL

-----------------------------------------------------------------------------
(* What blocks contain and how large they are: Stored says this of the     *)
(* blocks of a thread at each place of a call.                             *)

(* The block that has the contents the thread has stored.                  *)
Current(t) == IF at[t] = "idle" THEN held[t].addr ELSE job[t].addr

Stored(t) ==
  /\ held[t].data # Junk /\ job[t].op # "free" =>
       /\ Current(t) # Null => data[Current(t)] = held[t].data
       /\ job[t].new # Null => data[job[t].new] = held[t].data
  /\ job[t].op \in {"alloc", "array"} => held[t] = NoBlock
  /\ at[t] \in {"size", "lock", "in", "new"} /\ job[t].op = "realloc" =>
       job[t].addr = held[t].addr
  /\ job[t].asked <= job[t].size
  /\ job[t].new # Null => size[job[t].new] = job[t].size
  /\ job[t].op \in {"none", "realloc"} /\ Current(t) \notin {Null, job[t].new} =>
       held[t].asked <= size[Current(t)]

(* A step of t changes only blocks of t and blocks that nobody had.        *)
Untouched(t) ==
  \A a \in Pool \ Mine(t) : data'[a] = data[a] /\ size'[a] = size[a]

(* The threads that do not move find everything as it was.                 *)
LEMMA OthersStored ==
  ASSUME IInv, NEW t \in Threads, Elsewhere(t), Untouched(t),
         NEW u \in Threads, u # t, Stored(u)
  PROVE  Stored(u)'
<1>1. at'[u] = at[u] /\ job'[u] = job[u] /\ held'[u] = held[u]
  BY DEF Elsewhere
<1>2. \A a \in Mine(u) : data'[a] = data[a] /\ size'[a] = size[a]
  BY DEF IInv, Owned, Untouched
<1>3. Current(u) # Null => Current(u) \in Mine(u)
  BY DEF Current, Mine
<1>4. job[u].new # Null => job[u].new \in Mine(u)
  BY DEF IInv, Shape, Mine
<1>5. Current(u)' = Current(u)
  BY <1>1 DEF Current
<1> QED
  BY <1>1, <1>2, <1>3, <1>4, <1>5 DEF Stored

(* The calls begin with what the thread has stored, and Write stores.      *)
LEMMA CallStored ==
  ASSUME IInv, NEW t \in Threads, Stored(t), Call(t)
  PROVE  Elsewhere(t) /\ Untouched(t) /\ Stored(t)'
<1> USE MemoryAssumption
<1>a. TypeOK /\ Shape(t)
  BY DEF IInv
<1> USE DEF TypeOK, Goto, Start, NoJob, NoBlock, Addr
<1>1. ASSUME NEW s \in Sizes, Alloc(t, s) PROVE Elsewhere(t) /\ Untouched(t) /\ Stored(t)'
  BY SizeAssumption, <1>a, <1>1 DEF Alloc, Elsewhere, Untouched, Stored, Current
<1>2. ASSUME NEW s \in Sizes, NEW n \in Counts, AllocArray(t, n, s)
      PROVE  Elsewhere(t) /\ Untouched(t) /\ Stored(t)'
  <2>1. n * s <= ArrayBytes(n, s)
    BY <1>2, NoOverflow DEF AllocArray
  <2> QED
    BY <1>a, <1>2, <2>1 DEF AllocArray, Elsewhere, Untouched, Stored, Current
<1>3. ASSUME Free(t) PROVE Elsewhere(t) /\ Untouched(t) /\ Stored(t)'
  BY <1>a, <1>3 DEF Free, Elsewhere, Untouched, Stored, Current
<1>4. ASSUME NEW s \in Sizes, Realloc(t, s)
      PROVE  Elsewhere(t) /\ Untouched(t) /\ Stored(t)'
  BY SizeAssumption, <1>a, <1>4 DEF Realloc, Elsewhere, Untouched, Stored, Current, Shape
<1>5. ASSUME Write(t) PROVE Elsewhere(t) /\ Untouched(t) /\ Stored(t)'
  <2>1. held[t].addr \in Addr /\ held[t].addr \in Mine(t)
    BY <1>a, <1>5 DEF Write, Shape, Mine
  <2> QED
    BY <1>a, <1>5, <2>1 DEF Write, Elsewhere, Untouched, Stored, Current, Shape, Pool
<1> QED
  BY <1>1, <1>2, <1>3, <1>4, <1>5 DEF Call

(* Reading the size, and the steps into and out of the section.            *)
LEMMA BorderStored ==
  ASSUME IInv, NEW t \in Threads, Stored(t), ReadSize(t) \/ Enter(t) \/ Leave(t)
  PROVE  Elsewhere(t) /\ Untouched(t) /\ Stored(t)'
<1> USE MemoryAssumption
<1>a. TypeOK /\ Shape(t)
  BY DEF IInv
<1> USE DEF TypeOK, Goto, Return, NoJob, NoBlock, Addr
<1>1. CASE ReadSize(t)
  <2>1. at'[t] # "idle" /\ Elsewhere(t) /\ Untouched(t)
    BY <1>a, <1>1 DEF ReadSize, Elsewhere, Untouched
  <2> QED
    BY <1>a, <1>1, <2>1 DEF ReadSize, Stored, Current
<1>2. CASE Enter(t)
  BY <1>a, <1>2 DEF Enter, Elsewhere, Untouched, Stored, Current
<1>3. CASE Leave(t)
  <2>1. Elsewhere(t)
    BY <1>a, <1>3 DEF Leave, Elsewhere
  <2>2. job[t].new # Null => job[t].new \in Mine(t) /\ job[t].new \in Addr
    BY <1>a, <1>3 DEF Leave, Mine
  <2>3. Untouched(t)
    BY <1>a, <1>3, <2>2 DEF Leave, Untouched, Pool
  <2>4. at'[t] = "idle" /\ job'[t] = NoJob /\ Current(t)' = held'[t].addr
    BY <1>a, <1>3 DEF Leave, Current
  <2>5. CASE job[t].new # Null
    <3>1. held'[t].addr = job[t].new /\ held'[t].asked = job[t].asked
      BY <1>a, <1>3, <2>5 DEF Leave
    <3>2. held'[t].asked <= size'[held'[t].addr]
      BY <1>a, <1>3, <2>2, <2>5, <3>1 DEF Leave, Stored
    <3>3. held'[t].data # Junk => data'[held'[t].addr] = held'[t].data
      <4>1. CASE job[t].op = "array"
        BY <1>a, <1>3, <2>2, <2>5, <4>1 DEF Leave
      <4>2. CASE job[t].op = "realloc"
        BY <1>a, <1>3, <2>2, <2>5, <4>2 DEF Leave, Stored
      <4>3. CASE job[t].op \notin {"array", "realloc"}
        BY <1>a, <1>3, <2>5, <4>3 DEF Leave
      <4> QED
        BY <4>1, <4>2, <4>3
    <3> QED
      BY <2>1, <2>3, <2>4, <3>2, <3>3 DEF Stored
  <2>6. CASE job[t].new = Null /\ job[t].addr # Null
    BY <1>a, <1>3, <2>4, <2>6, <2>1, <2>3 DEF Leave, Stored, Shape, Current
  <2>7. CASE job[t].new = Null /\ job[t].addr = Null
    BY <1>a, <1>3, <2>1, <2>3, <2>4, <2>7 DEF Leave, Stored
  <2> QED
    BY <2>1, <2>3, <2>5, <2>6, <2>7
<1> QED
  BY <1>1, <1>2, <1>3

(* Mappings are created empty and moved with their contents.               *)
LEMMA MapStored ==
  ASSUME IInv, NEW t \in Threads, Stored(t),
         Map(t) \/ MapFails(t) \/ Remap(t) \/ RemapFails(t) \/ Unmap(t)
  PROVE  Elsewhere(t) /\ Untouched(t) /\ Stored(t)'
<1> USE MemoryAssumption
<1>a. TypeOK /\ Shape(t) /\ Kind(t)
  BY DEF IInv
<1> USE DEF TypeOK, Return, NoJob, NoBlock, Addr
<1>1. Elsewhere(t)
  BY <1>a DEF Map, MapFails, Remap, RemapFails, Unmap, Elsewhere
<1>2. at'[t] = "idle" /\ job'[t] = NoJob /\ Current(t)' = held'[t].addr
  BY <1>a DEF Map, MapFails, Remap, RemapFails, Unmap, Current
<1>3. CASE Map(t)
  <2>1. PICK a \in MapAddr : /\ Create(a, job[t].size)
                             /\ data' = [data EXCEPT ![a] = Zero]
                             /\ Return(t, Null, a, Zero)
    BY <1>3 DEF Map
  <2>2. a \notin Pool
    BY <1>a, <2>1 DEF Create, Pool
  <2>3. Untouched(t)
    BY <1>a, <2>1, <2>2 DEF Untouched, Create, Pool
  <2>4. held'[t] = [addr |-> a, asked |-> job[t].asked, data |-> Zero]
    BY <1>a, <2>1
  <2>5. data'[a] = Zero /\ size'[a] = job[t].size
    BY RoomRule, <1>a, <2>1 DEF Create
  <2>6. Stored(t)'
    BY <1>2, <2>4, <2>5 DEF Stored
  <2> QED
    BY <1>1, <2>3, <2>6
<1>4. CASE MapFails(t)
  BY <1>a, <1>1, <1>2, <1>4 DEF MapFails, Untouched, Stored
<1>5. CASE RemapFails(t)
  <2>1. job[t].addr \in maps /\ job[t].new = Null /\ held[t].addr = job[t].addr
    BY <1>a, <1>5 DEF RemapFails, Kind, Shape
  <2>2. job[t].op = "realloc"
    BY <1>a, <1>5 DEF RemapFails, Shape
  <2>3. Current(t) = job[t].addr
    BY <1>5 DEF RemapFails, Current
  <2> QED
    BY <1>a, <1>1, <1>2, <1>5, <2>1, <2>2, <2>3 DEF RemapFails, Untouched, Stored
<1>6. CASE Remap(t)
  <2> DEFINE old == job[t].addr
  <2>1. PICK a \in (MapAddr \ maps) \cup {old} :
          /\ size' = [size EXCEPT ![old] = 0, ![a] = Room(job[t].size)]
          /\ data' = [data EXCEPT ![old] = Junk, ![a] = data[old]]
          /\ Return(t, Null, a, held[t].data)
    BY <1>6 DEF Remap
  <2>2. old \in maps /\ old \in Mine(t)
    BY <1>a, <1>6 DEF Remap, Kind, Mine
  <2>3. Untouched(t)
    BY <1>a, <2>1, <2>2 DEF Untouched, Pool
  <2>4. held'[t] = [addr |-> a, asked |-> job[t].asked, data |-> held[t].data]
    BY <1>a, <2>1, <2>2
  <2>5. data'[a] = data[old] /\ size'[a] = job[t].size
    BY RoomRule, <1>a, <2>1, <2>2
  <2>6. held[t].data # Junk => data[old] = held[t].data
    BY <1>a, <1>6, <2>2 DEF Remap, Stored, Shape, Current
  <2>7. Stored(t)'
    BY <1>2, <2>4, <2>5, <2>6, Stored(t) DEF Stored
  <2> QED
    BY <1>1, <2>3, <2>7
<1>7. CASE Unmap(t)
  <2>1. job[t].addr \in Mine(t)
    BY <1>a, <1>7 DEF Unmap, Kind, Mine
  <2>2. Untouched(t)
    BY <1>a, <1>7, <2>1 DEF Unmap, Untouched, Pool
  <2>3. held'[t] = NoBlock
    BY <1>a, <1>7 DEF Unmap
  <2> QED
    BY <1>1, <1>2, <2>2, <2>3 DEF Stored
<1> QED
  BY <1>3, <1>4, <1>5, <1>6, <1>7

(* The allocator's blocks come with junk in them and go with it.           *)
LEMMA AllocatorStored ==
  ASSUME IInv, NEW t \in Threads, Stored(t),
         \/ SmallAlloc(t) \/ SmallFree(t) \/ FreeOld(t)
         \/ ReallocToNothing(t) \/ Resize(t) \/ ResizeFails(t)
  PROVE  Elsewhere(t) /\ Untouched(t) /\ Stored(t)'
<1> USE MemoryAssumption
<1>a. TypeOK /\ Shape(t) /\ Kind(t)
  BY DEF IInv
<1> USE DEF TypeOK, Goto, NoJob, NoBlock, Addr
<1>1. CASE SmallAlloc(t)
  <2>1. Elsewhere(t)
    BY <1>a, <1>1 DEF SmallAlloc, Elsewhere
  <2>2. held[t] = NoBlock /\ job[t].addr = Null
    BY <1>a, <1>1 DEF SmallAlloc, Stored, Shape
  <2>3. CASE UNCHANGED <<heap, size, data, job>>
    BY <1>a, <1>1, <2>1, <2>2, <2>3 DEF SmallAlloc, Untouched, Stored, Current
  <2>4. ASSUME NEW a \in HeapAddr, Malloc(a, job[t].size),
               data' = [data EXCEPT ![a] = Junk], job' = [job EXCEPT ![t].new = a]
        PROVE  Untouched(t) /\ Stored(t)'
    <3>1. Untouched(t)
      BY <1>a, <2>4 DEF Malloc, Untouched, Pool
    <3>2. Stored(t)'
      BY <1>a, <1>1, <2>2, <2>4 DEF SmallAlloc, Malloc, Stored, Current
    <3> QED
      BY <3>1, <3>2
  <2> QED
    BY <1>1, <2>1, <2>3, <2>4 DEF SmallAlloc
<1>2. CASE SmallFree(t) \/ FreeOld(t)
  <2>1. Elsewhere(t)
    BY <1>a, <1>2 DEF SmallFree, FreeOld, FreeBlock, Elsewhere
  <2>2. job[t].addr \in Mine(t) /\ job[t].addr \in Addr
    BY <1>a, <1>2 DEF SmallFree, FreeOld, Shape, Kind, Mine
  <2>3. Untouched(t)
    BY <1>a, <1>2, <2>2 DEF SmallFree, FreeOld, FreeBlock, Untouched, Pool
  <2>4. /\ job'[t] = [job[t] EXCEPT !.addr = Null]
        /\ at'[t] = "leave" /\ held' = held /\ Current(t)' = Null
    BY <1>a, <1>2 DEF SmallFree, FreeOld, FreeBlock, Current
  <2>5. job[t].new # Null =>
          data'[job[t].new] = data[job[t].new] /\ size'[job[t].new] = size[job[t].new]
    BY <1>a, <1>2, <2>2 DEF SmallFree, FreeOld, FreeBlock, Shape
  <2> QED
    BY <1>a, <2>1, <2>3, <2>4, <2>5 DEF Stored
<1>3. CASE ReallocToNothing(t) \/ ResizeFails(t)
  BY <1>a, <1>3 DEF ReallocToNothing, ResizeFails, Elsewhere, Untouched, Stored, Current
<1>4. CASE Resize(t)
  <2>1. Elsewhere(t)
    BY <1>a, <1>4 DEF Resize, Elsewhere
  <2>2. job[t].addr \in Mine(t) /\ job[t].addr \in Addr /\ Current(t) = job[t].addr
    BY <1>a, <1>4 DEF Resize, Mine, Current
  <2>3. Untouched(t)
    BY <1>a, <1>4, <2>2 DEF Resize, Untouched, Pool
  <2>4. Stored(t)'
    BY <1>a, <1>4, <2>2 DEF Resize, Stored, Current
  <2> QED
    BY <2>1, <2>3, <2>4
<1> QED
  BY <1>1, <1>2, <1>3, <1>4

(* realloc copies the contents into the new block.                         *)
LEMMA ReallocStored ==
  ASSUME IInv, NEW t \in Threads, Stored(t), ReallocToMap(t) \/ ReallocToHeap(t)
  PROVE  Elsewhere(t) /\ Untouched(t) /\ Stored(t)'
<1> USE MemoryAssumption
<1>a. TypeOK /\ Shape(t) /\ Kind(t)
  BY DEF IInv
<1> USE DEF TypeOK, Goto, NoJob, NoBlock, Addr
<1>1. Elsewhere(t)
  BY <1>a DEF ReallocToMap, ReallocToHeap, CopyTo, Elsewhere
<1>2. /\ at[t] = "new" /\ at'[t] \in {"leave", "old"} /\ held' = held
      /\ job[t].addr \in heap \cup {Null} /\ job[t].new = Null
      /\ job[t].addr \in {Null, held[t].addr}
      /\ job[t].op = "realloc" /\ Current(t) = job[t].addr
  BY <1>a DEF ReallocToMap, ReallocToHeap, Shape, Kind, Current
<1>3. CASE UNCHANGED <<size, data, job>>
  BY <1>1, <1>2, <1>3 DEF Untouched, Stored, Current
<1>4. job[t].addr = Null => held[t].data = Junk
  BY <1>a, <1>2 DEF Stored, Shape
<1>5. ASSUME NEW a \in Addr \ Pool, NEW content, CopyTo(t, a, content),
             size' = [size EXCEPT ![a] = job[t].size]
      PROVE  Untouched(t) /\ Stored(t)'
  <2>1. Untouched(t)
    BY <1>a, <1>5 DEF CopyTo, Untouched, Pool
  <2>2. /\ job'[t] = [job[t] EXCEPT !.new = a] /\ size'[a] = job[t].size
        /\ data'[a] = IF job[t].addr = Null THEN content ELSE data[job[t].addr]
    BY <1>a, <1>5 DEF CopyTo
  <2>3. /\ Current(t)' = job[t].addr
        /\ job[t].addr # Null =>
             data'[job[t].addr] = data[job[t].addr] /\ size'[job[t].addr] = size[job[t].addr]
    BY <1>a, <1>2, <1>5, <2>2 DEF Current, CopyTo, Pool
  <2> QED
    BY <1>2, <1>4, <1>5, <2>1, <2>2, <2>3 DEF Stored
<1>6. CASE ReallocToMap(t)
  BY RoomRule, <1>a, <1>1, <1>3, <1>5, <1>6 DEF ReallocToMap, Create, Pool
<1>7. CASE ReallocToHeap(t)
  BY <1>a, <1>1, <1>3, <1>5, <1>7 DEF ReallocToHeap, Malloc, Pool
<1> QED
  BY <1>6, <1>7

(* Every step of every call keeps what the threads have stored.            *)
LEMMA StoredStep ==
  IInv /\ (\A t \in Threads : Stored(t)) /\ [Next]_vars => \A t \in Threads : Stored(t)'
<1> SUFFICES ASSUME IInv, \A t \in Threads : Stored(t), [Next]_vars
             PROVE  \A t \in Threads : Stored(t)'
  OBVIOUS
<1>1. ASSUME NEW t \in Threads, Call(t) \/ Continue(t)
      PROVE  Elsewhere(t) /\ Untouched(t) /\ Stored(t)'
  <2>1. CASE Call(t)
    BY <2>1, CallStored
  <2>2. CASE Continue(t)
    BY <2>2, BorderStored, MapStored, AllocatorStored, ReallocStored DEF Continue
  <2> QED
    BY <1>1, <2>1, <2>2
<1>2. ASSUME NEW t \in Threads, Call(t) \/ Continue(t)
      PROVE  \A u \in Threads : Stored(u)'
  BY <1>1, <1>2, OthersStored
<1>3. CASE UNCHANGED vars
  <2>1. ASSUME NEW t \in Threads PROVE Stored(t)'
    <3>1. Stored(t) /\ Current(t)' = Current(t)
      BY <1>3 DEF vars, Current
    <3> QED
      BY <1>3, <3>1 DEF vars, Stored
  <2> QED
    BY <2>1
<1> QED
  BY <1>2, <1>3 DEF Next

(* A block that a thread owns between its calls contains what the thread   *)
(* has stored there, or zeros if it got these, and is as large as it has   *)
(* asked for, through every realloc, move and failure.                     *)
THEOREM Contents == Spec => []ContentsKept
<1> DEFINE AllStored == \A t \in Threads : Stored(t)
<1>1. Init => AllStored
  <2> SUFFICES ASSUME Init, NEW t \in Threads PROVE Stored(t)
    OBVIOUS
  <2>1. at[t] = "idle" /\ job[t] = NoJob /\ held[t] = NoBlock
    BY DEF Init
  <2>2. Current(t) = Null
    BY <2>1 DEF Current, NoBlock
  <2> QED
    BY <2>1, <2>2 DEF Stored, NoJob, NoBlock
<1>2. IInv /\ AllStored /\ [Next]_vars => AllStored'
  BY StoredStep
<1>3. IInv /\ AllStored => ContentsKept
  <2> SUFFICES ASSUME IInv, AllStored, NEW t \in Threads,
                      at[t] = "idle", held[t] # NoBlock
               PROVE  /\ held[t].data # Junk => data[held[t].addr] = held[t].data
                      /\ held[t].asked <= size[held[t].addr]
    BY DEF ContentsKept
  <2>1. job[t] = NoJob /\ held[t].addr # Null /\ Current(t) = held[t].addr
    BY DEF IInv, Shape, Current
  <2> QED
    BY <2>1 DEF Stored, NoJob
<1> HIDE DEF AllStored
<1> QED
  BY <1>1, <1>2, <1>3, Invariant, PTL DEF Spec

=============================================================================
