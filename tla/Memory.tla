------------------------------- MODULE Memory -------------------------------
(***************************************************************************)
(* Memory::alloc, alloc_array, realloc and free (src/mem.cpp): small       *)
(* blocks come from the buddy allocator, under one mutex; large ones are   *)
(* mappings of their own with a header (MemoryMap).  realloc moves a block *)
(* between the two.  Which of them a block belongs to is not recorded: it  *)
(* is read off allocator.size(addr), before the mutex is taken.            *)
(*                                                                         *)
(* The buddy allocator appears as what HeapSpec, which it implements, says *)
(* of it: any address that is not out may be handed out, any call may      *)
(* fail.  So does the kernel (mmap, mremap, munmap).                       *)
(*                                                                         *)
(* at[t] says where thread t is in the code:                               *)
(*   "idle"    in no call                                                  *)
(*   "size"    in free or realloc, about to read allocator.size            *)
(*   "map", "remap", "unmap"  about to create, resize, remove a mapping    *)
(*   "lock"    about to lock the mutex                                     *)
(*   "in"      the mutex is locked: the first operation on the allocator   *)
(*   "new"     in realloc: the block cannot be resized where it is         *)
(*   "old"     in realloc: about to free the old block                     *)
(*   "leave"   about to unlock the mutex and to return                     *)
(***************************************************************************)
EXTENDS Integers

CONSTANTS
  Threads,     (* the threads of the program                               *)
  NoThread,    (* the holder of the free mutex                             *)
  HeapAddr,    (* the addresses of the allocator's range                   *)
  MapAddr,     (* the addresses mmap returns                               *)
  Null,        (* the address 0                                            *)
  Sizes,       (* the sizes callers ask for                                *)
  Counts,      (* the numbers of array elements they ask for               *)
  Threshold,   (* MMAP_ALLOC_THREASHOLD                                    *)
  MapHeader,   (* sizeof(MemoryMap)                                        *)
  Modulus      (* 2^(width of size_t)                                      *)

(* The largest block that is asked for.  Beyond that the allocator cannot  *)
(* find the bucket of a size (see Buddy), and closer to Modulus a size and *)
(* a header together wrap around.                                          *)
MaxSize == Modulus \div 2 - MapHeader

ASSUME MemoryAssumption ==
  /\ NoThread \notin Threads
  /\ HeapAddr \cap MapAddr = {}
  /\ Null \notin HeapAddr \cup MapAddr
  /\ Modulus \in Nat /\ MapHeader \in Nat /\ Threshold \in 1..MaxSize
  /\ Counts \subseteq 0..(Modulus - 1)

(* Nobody asks for more; a product may be larger if it does not fit into a *)
(* size_t at all, which alloc_array finds out.                             *)
ASSUME SizeAssumption ==
  /\ Sizes \subseteq 0..MaxSize
  /\ \A s \in Sizes, n \in Counts : n * s < Modulus => n * s <= MaxSize

VARIABLES
  heap,        (* the addresses of the allocator's blocks that are out     *)
  maps,        (* the addresses of the mappings                            *)
  size,        (* the size in the header of the block at each address      *)
  data,        (* what is stored in the block at each address              *)
  holder,      (* the holder of the mutex                                  *)
  at,          (* where each thread is                                     *)
  job,         (* the call each thread is in                               *)
  held,        (* the block each thread owns, when it is in no call        *)
  lost         (* mappings that the kernel has refused to remove           *)

vars == <<heap, maps, size, data, holder, at, job, held, lost>>

Addr == HeapAddr \cup MapAddr
Place == {"idle", "size", "map", "remap", "unmap", "lock", "in", "new", "old", "leave"}

(* What a block may contain: whatever was there, zeros, or what a thread   *)
(* has written.                                                            *)
Junk == "junk"
Zero == "zero"
Data == {Junk, Zero} \cup Threads

NoJob == [op |-> "none", addr |-> Null, size |-> 0, asked |-> 0, new |-> Null]
NoBlock == [addr |-> Null, asked |-> 0, data |-> Junk]

Mutex == INSTANCE LockSpec WITH call <- [t \in Threads |-> "none"]

Goto(t, from, to) ==
  /\ at[t] = from
  /\ at' = [at EXCEPT ![t] = to]

(* The call of t ends.  The block it has returned, and what is in it; if   *)
(* it has returned none then what is left of the block it was given.       *)
Return(t, addr, new, content) ==
  /\ at' = [at EXCEPT ![t] = "idle"]
  /\ job' = [job EXCEPT ![t] = NoJob]
  /\ held' = [held EXCEPT ![t] =
       IF new # Null THEN [addr |-> new, asked |-> job[t].asked, data |-> content]
       ELSE IF addr # Null THEN held[t]
       ELSE NoBlock]

-----------------------------------------------------------------------------
(* The calls, up to the first thing they share with other threads          *)

Start(t, op, s, asked) ==
  job' = [job EXCEPT ![t] =
    [op |-> op, addr |-> held[t].addr, size |-> s, asked |-> asked, new |-> Null]]

(* Mutant: a size of zero is not special.                                  *)
AllocZero(t, s) ==
  /\ held[t] = NoBlock
  /\ Goto(t, "idle", IF s >= Threshold THEN "map" ELSE "lock")
  /\ Start(t, "alloc", s, s)
  /\ UNCHANGED <<heap, maps, size, data, holder, held, lost>>

Alloc(t, s) ==
  /\ held[t] = NoBlock
  /\ s # 0
  /\ Goto(t, "idle", IF s >= Threshold THEN "map" ELSE "lock")
  /\ Start(t, "alloc", s, s)
  /\ UNCHANGED <<heap, maps, size, data, holder, held, lost>>

(* nmemb * size, as the machine computes it.                               *)
ArrayBytes(n, s) == (n * s) % Modulus

(* Mutant: no test for an overflow.                                        *)
AllocArrayUnchecked(t, n, s) ==
  /\ held[t] = NoBlock
  /\ ArrayBytes(n, s) # 0
  /\ Goto(t, "idle", IF ArrayBytes(n, s) >= Threshold THEN "map" ELSE "lock")
  /\ Start(t, "array", ArrayBytes(n, s), n * s)
  /\ UNCHANGED <<heap, maps, size, data, holder, held, lost>>

(* alloc_array returns 0 at once for an empty element, for a product that  *)
(* overflows, and (in alloc) for an empty array.                           *)
AllocArray(t, n, s) ==
  /\ held[t] = NoBlock
  /\ s # 0 /\ ArrayBytes(n, s) \div s = n
  /\ ArrayBytes(n, s) # 0
  /\ Goto(t, "idle", IF ArrayBytes(n, s) >= Threshold THEN "map" ELSE "lock")
  /\ Start(t, "array", ArrayBytes(n, s), n * s)
  /\ UNCHANGED <<heap, maps, size, data, holder, held, lost>>

Free(t) ==
  /\ held[t] # NoBlock
  /\ Goto(t, "idle", "size")
  /\ Start(t, "free", 0, 0)
  /\ UNCHANGED <<heap, maps, size, data, holder, held, lost>>

Realloc(t, s) ==
  /\ held[t] # NoBlock \/ s # 0
  /\ Goto(t, "idle", "size")
  /\ Start(t, "realloc", s, s)
  /\ UNCHANGED <<heap, maps, size, data, holder, held, lost>>

(* allocator.size: 0 for an address outside the allocator's range.         *)
SizeOf(a) == IF a \in heap THEN size[a] ELSE 0

(* free and realloc read the size without the mutex; a block of size 0 is  *)
(* taken for a mapping.  realloc goes the way of mappings too when the new *)
(* size is large.                                                          *)
ReadSize(t) ==
  LET mapped == job[t].addr # Null /\ SizeOf(job[t].addr) = 0
      s == job[t].size IN
    /\ Goto(t, "size",
         IF mapped /\ s = 0 THEN "unmap" ELSE IF mapped THEN "remap" ELSE "lock")
    /\ UNCHANGED <<heap, maps, size, data, holder, job, held, lost>>

-----------------------------------------------------------------------------
(* MemoryMap                                                               *)

(* The bytes behind the header of a mapping that is made for s bytes: the  *)
(* sum of both is a size_t.                                                *)
Room(s) == ((s + MapHeader) % Modulus) - MapHeader

(* create: a new mapping, which the kernel has filled with zeros.          *)
Create(a, s) ==
  /\ a \in MapAddr \ maps
  /\ maps' = maps \cup {a}
  /\ size' = [size EXCEPT ![a] = Room(s)]

(* alloc of a large block.                                                 *)
Map(t) ==
  /\ at[t] = "map"
  /\ \E a \in MapAddr :
       /\ Create(a, job[t].size)
       /\ data' = [data EXCEPT ![a] = Zero]
       /\ Return(t, Null, a, Zero)
  /\ UNCHANGED <<heap, holder, lost>>

MapFails(t) ==
  /\ at[t] = "map"
  /\ Return(t, Null, Null, Junk)
  /\ UNCHANGED <<heap, maps, size, data, holder, lost>>

(* resize: mremap keeps the contents, but perhaps not the address.         *)
Remap(t) ==
  /\ at[t] = "remap"
  /\ \E a \in (MapAddr \ maps) \cup {job[t].addr} :
       /\ maps' = (maps \ {job[t].addr}) \cup {a}
       /\ size' = [size EXCEPT ![job[t].addr] = 0, ![a] = Room(job[t].size)]
       /\ data' = [data EXCEPT ![job[t].addr] = Junk, ![a] = data[job[t].addr]]
       /\ Return(t, Null, a, held[t].data)
  /\ UNCHANGED <<heap, holder, lost>>

RemapFails(t) ==
  /\ at[t] = "remap"
  /\ Return(t, job[t].addr, Null, Junk)
  /\ UNCHANGED <<heap, maps, size, data, holder, lost>>

(* remove, for free and for a realloc to size 0.  If munmap fails that is  *)
(* logged, and nobody knows of the mapping any more.                       *)
Unmap(t) ==
  /\ at[t] = "unmap"
  /\ \/ /\ maps' = maps \ {job[t].addr}
        /\ size' = [size EXCEPT ![job[t].addr] = 0]
        /\ data' = [data EXCEPT ![job[t].addr] = Junk]
        /\ UNCHANGED lost
     \/ /\ lost' = lost \cup {job[t].addr}
        /\ UNCHANGED <<maps, size, data>>
  /\ Return(t, Null, Null, Junk)
  /\ UNCHANGED <<heap, holder>>

-----------------------------------------------------------------------------
(* The section that the mutex guards                                       *)

(* Mutant: the mutex is not locked.                                        *)
EnterUnlocked(t) ==
  /\ Goto(t, "lock", "in")
  /\ UNCHANGED <<heap, maps, size, data, holder, job, held, lost>>

Enter(t) ==
  /\ Goto(t, "lock", "in")
  /\ Mutex!Take(t)
  /\ UNCHANGED <<heap, maps, size, data, job, held, lost>>

(* allocator.malloc hands out a block that is not out, with whatever is in *)
(* it.                                                                     *)
Malloc(a, s) ==
  /\ a \in HeapAddr \ heap
  /\ heap' = heap \cup {a}
  /\ size' = [size EXCEPT ![a] = s]

(* alloc and alloc_array: malloc, which may fail.                          *)
SmallAlloc(t) ==
  /\ job[t].op \in {"alloc", "array"}
  /\ Goto(t, "in", "leave")
  /\ \/ \E a \in HeapAddr :
          /\ Malloc(a, job[t].size)
          /\ data' = [data EXCEPT ![a] = Junk]
          /\ job' = [job EXCEPT ![t].new = a]
     \/ UNCHANGED <<heap, size, data, job>>
  /\ UNCHANGED <<maps, holder, held, lost>>

(* allocator.free puts the block on a list, whose links overwrite it and   *)
(* its header.                                                             *)
FreeBlock(t) ==
  /\ heap' = heap \ {job[t].addr}
  /\ size' = [size EXCEPT ![job[t].addr] = 0]
  /\ data' = [data EXCEPT ![job[t].addr] = Junk]
  /\ job' = [job EXCEPT ![t].addr = Null]
  /\ UNCHANGED <<maps, holder, held, lost>>

SmallFree(t) ==
  /\ job[t].op = "free"
  /\ Goto(t, "in", "leave")
  /\ FreeBlock(t)

(* realloc to size 0 frees the block.                                      *)
ReallocToNothing(t) ==
  /\ job[t].op = "realloc" /\ job[t].size = 0
  /\ Goto(t, "in", "old")
  /\ UNCHANGED <<heap, maps, size, data, holder, job, held, lost>>

(* allocator.resize succeeds, and realloc returns from within the section. *)
Resize(t) ==
  /\ job[t].op = "realloc" /\ job[t].size # 0
  /\ job[t].addr \in heap
  /\ Goto(t, "in", "leave")
  /\ size' = [size EXCEPT ![job[t].addr] = job[t].size]
  /\ job' = [job EXCEPT ![t].new = job[t].addr]
  /\ UNCHANGED <<heap, maps, data, holder, held, lost>>

(* There is nothing to resize, or it needs a block of another size.        *)
ResizeFails(t) ==
  /\ job[t].op = "realloc" /\ job[t].size # 0
  /\ Goto(t, "in", "new")
  /\ UNCHANGED <<heap, maps, size, data, holder, job, held, lost>>

(* The new block, a mapping or a block of the allocator, gets the contents *)
(* of the old one.                                                         *)
CopyTo(t, a, content) ==
  /\ data' = [data EXCEPT ![a] =
       IF job[t].addr = Null THEN content ELSE data[job[t].addr]]
  /\ job' = [job EXCEPT ![t].new = a]

(* Mutant: the old block is not freed.                                     *)
ReallocToMapKeepsOld(t) ==
  /\ at[t] = "new" /\ job[t].size >= Threshold
  /\ Goto(t, "new", "leave")
  /\ \/ \E a \in MapAddr : Create(a, job[t].size) /\ CopyTo(t, a, Zero)
     \/ UNCHANGED <<maps, size, data, job>>
  /\ UNCHANGED <<heap, holder, held, lost>>

(* realloc to a large size.  If the mapping cannot be created the old      *)
(* block stays.                                                            *)
ReallocToMap(t) ==
  /\ at[t] = "new" /\ job[t].size >= Threshold
  /\ \/ /\ Goto(t, "new", IF job[t].addr = Null THEN "leave" ELSE "old")
        /\ \E a \in MapAddr : Create(a, job[t].size) /\ CopyTo(t, a, Zero)
     \/ /\ Goto(t, "new", "leave")
        /\ UNCHANGED <<maps, size, data, job>>
  /\ UNCHANGED <<heap, holder, held, lost>>

(* realloc to a small size.  The old block is freed whether malloc has     *)
(* found a new one or not.                                                 *)
ReallocToHeap(t) ==
  /\ at[t] = "new" /\ job[t].size < Threshold
  /\ Goto(t, "new", IF job[t].addr = Null THEN "leave" ELSE "old")
  /\ \/ \E a \in HeapAddr : Malloc(a, job[t].size) /\ CopyTo(t, a, Junk)
     \/ UNCHANGED <<heap, size, data, job>>
  /\ UNCHANGED <<maps, holder, held, lost>>

FreeOld(t) ==
  /\ Goto(t, "old", "leave")
  /\ FreeBlock(t)

(* The mutex is unlocked and the call returns.  alloc_array fills the      *)
(* block with zeros.                                                       *)
Leave(t) ==
  LET new == job[t].new
      content == IF job[t].op = "array" THEN Zero
                 ELSE IF job[t].op = "realloc" THEN held[t].data
                 ELSE Junk IN
    /\ at[t] = "leave"
    /\ Mutex!Release
    /\ Return(t, job[t].addr, new, content)
    /\ data' = IF job[t].op = "array" /\ new # Null
               THEN [data EXCEPT ![new] = Zero] ELSE data
    /\ UNCHANGED <<heap, maps, size, lost>>

-----------------------------------------------------------------------------

(* Between its calls a thread writes to the block it owns.                 *)
Write(t) ==
  /\ at[t] = "idle" /\ held[t] # NoBlock
  /\ held' = [held EXCEPT ![t].data = t]
  /\ data' = [data EXCEPT ![held[t].addr] = t]
  /\ UNCHANGED <<heap, maps, size, holder, at, job, lost>>

Init ==
  /\ heap = {} /\ maps = {} /\ lost = {}
  /\ size = [a \in Addr |-> 0]
  /\ data = [a \in Addr |-> Junk]
  /\ holder = NoThread
  /\ at = [t \in Threads |-> "idle"]
  /\ job = [t \in Threads |-> NoJob]
  /\ held = [t \in Threads |-> NoBlock]

Call(t) ==
  \/ \E s \in Sizes : Alloc(t, s)
  \/ \E s \in Sizes, n \in Counts : AllocArray(t, n, s)
  \/ Free(t)
  \/ \E s \in Sizes : Realloc(t, s)
  \/ Write(t)

(* A call goes on.                                                         *)
Continue(t) ==
  \/ ReadSize(t)
  \/ Map(t)
  \/ MapFails(t)
  \/ Remap(t)
  \/ RemapFails(t)
  \/ Unmap(t)
  \/ Enter(t)
  \/ SmallAlloc(t)
  \/ SmallFree(t)
  \/ ReallocToNothing(t)
  \/ Resize(t)
  \/ ResizeFails(t)
  \/ ReallocToMap(t)
  \/ ReallocToHeap(t)
  \/ FreeOld(t)
  \/ Leave(t)

Next == \E t \in Threads : Call(t) \/ Continue(t)

Spec == Init /\ [][Next]_vars

-----------------------------------------------------------------------------
(* Properties                                                              *)

(* Every variable stays in its range.                                      *)
TypeOK ==
  /\ heap \subseteq HeapAddr /\ maps \subseteq MapAddr /\ lost \subseteq MapAddr
  /\ size \in [Addr -> 0..MaxSize]
  /\ data \in [Addr -> Data]
  /\ holder \in Threads \cup {NoThread}
  /\ at \in [Threads -> Place]
  /\ job \in [Threads -> [op : {"none", "alloc", "array", "free", "realloc"},
                          addr : Addr \cup {Null}, size : 0..MaxSize,
                          asked : Nat, new : Addr \cup {Null}]]
  /\ held \in [Threads -> [addr : Addr \cup {Null}, asked : Nat, data : Data]]

(* The blocks a thread answers for: its own, or those its call has in hand. *)
Mine(t) ==
  (IF at[t] = "idle" THEN {held[t].addr} ELSE {job[t].addr, job[t].new}) \ {Null}

(* Every block that is out and every mapping has exactly one owner, at     *)
(* every step of every call and on every path out of it: nothing is owned  *)
(* twice, nothing is owned that was given back, and nothing is forgotten   *)
(* but the mappings that munmap has refused.                               *)
OneOwner ==
  /\ heap \cup maps = lost \cup UNION {Mine(t) : t \in Threads}
  /\ \A t \in Threads : Mine(t) \cap lost = {}
  /\ \A t, u \in Threads : t # u => Mine(t) \cap Mine(u) = {}

(* What a thread has stored in its block, or got as zeros, is still there  *)
(* when it is in no call, whatever realloc has copied or moved and others  *)
(* have freed; and the block is as large as the thread has asked for, also *)
(* if that was a product, and also behind the header of a mapping.         *)
ContentsKept ==
  \A t \in Threads : at[t] = "idle" /\ held[t] # NoBlock =>
    /\ held[t].data # Junk => data[held[t].addr] = held[t].data
    /\ held[t].asked <= size[held[t].addr]

(* The size that was read before the mutex was locked still tells the      *)
(* truth when it is used: only mappings are given to MemoryMap (the        *)
(* assertions on the magic), only blocks of the allocator to the allocator.*)
RightKind ==
  \A t \in Threads :
    /\ at[t] \in {"remap", "unmap"} => job[t].addr \in maps
    /\ at[t] = "old" => job[t].addr \in heap
    /\ at[t] \in {"in", "new"} => job[t].addr \in heap \cup {Null}

(* The allocator, which is sequential code, runs one call at a time; and   *)
(* no way out of the guarded section, the early returns of realloc         *)
(* included, leaves the mutex locked.                                      *)
Serial ==
  \A t \in Threads : at[t] \in {"in", "new", "old", "leave"} <=> holder = t

(* "The contents will be unchanged in the range from the start of the      *)
(* region up to the minimum of the old and new sizes" (mem.hpp:38-39): a   *)
(* realloc to a size other than 0 that returns 0 ("on error") has left the *)
(* block it was given.                                                     *)
ErrorKeepsBlock ==
  \A t \in Threads :
    at[t] = "leave" /\ job[t].op = "realloc" /\ job[t].size # 0 /\ job[t].new = Null
      => job[t].addr = held[t].addr

=============================================================================
