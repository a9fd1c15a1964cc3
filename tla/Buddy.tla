-------------------------------- MODULE Buddy --------------------------------
(***************************************************************************)
(* Allocator::Buddy (src/alloc_buddy.hpp): a buddy allocator over one      *)
(* address range that grows as it is used.  Addresses count from base_ptr. *)
(*                                                                         *)
(* The range is a binary tree.  A node at depth b stands for a block of    *)
(* bucket b; the nodes are numbered as in the code (root 0, children 2i+1  *)
(* and 2i+2).  Only the left-most subtree whose root lies at bucket_limit  *)
(* is in use; the limit falls as the tree grows.  One bit per node says    *)
(* whether exactly one of its children is unused, and so whether a block   *)
(* that is freed can merge with its buddy.                                 *)
(*                                                                         *)
(* The allocator runs under the mutex of Memory, one call at a time.  A    *)
(* step is one round of a loop of the code:                                *)
(*   "idle"     no call is running                                         *)
(*   "search"   malloc: in the loop that looks for a free block            *)
(*   "split"    malloc: dividing the block it took                         *)
(*   "merge"    free: uniting the block with its buddies                   *)
(*   "spin"     resize: looking for the bucket of a size without one       *)
(***************************************************************************)
EXTENDS Integers, Sequences, FiniteSets, SequencesExt

CONSTANTS
  Depth,       (* MAX_ALLOC_LOG2 - MIN_ALLOC_LOG2: the last bucket         *)
  MinAlloc,    (* MIN_ALLOC                                                *)
  HeaderSize,  (* HEADER_SIZE                                              *)
  ListSize,    (* sizeof(List): what a free block must hold                *)
  Modulus,     (* 2^(width of size_t)                                      *)
  Chunk,       (* the block size of the RESERVE function                   *)
  Prefix,      (* what lies before base_ptr in the reserved memory         *)
  Requests     (* the sizes callers ask for                                *)

ASSUME BuddyAssumption ==
  /\ {Depth, MinAlloc, HeaderSize, ListSize, Chunk} \subseteq Nat \ {0}
  /\ Prefix \in Nat
  /\ ListSize <= MinAlloc /\ HeaderSize < MinAlloc
  /\ Modulus \in Nat \ {0} /\ Requests \subseteq 1..(Modulus - 1)

VARIABLES
  ready,       (* base_ptr # 0                                             *)
  max,         (* max_ptr, the end of the reserved memory                  *)
  limit,       (* bucket_limit                                             *)
  free,        (* buckets: the addresses of the free blocks, for the lists *)
               (* from limit on; the others have never been initialised    *)
  split,       (* node_is_split: the nodes whose bit is set                *)
  out,         (* the headers: the size of each allocation, by address     *)
  pc,          (* where the running call is                                *)
  request,     (* the argument of malloc                                   *)
  bucket,      (* the local variables of malloc and free: the bucket,      *)
  goal,        (* the argument of lower_bucket_limit,                      *)
  node         (* and the index of the node that the call has in hand      *)

heap == <<ready, max, limit, free, split>>
local == <<pc, request, bucket, goal, node>>
vars == <<heap, out, local>>

Buckets == 0..Depth

(* 1 << n                                                                  *)
Pow2[n \in 0..(Depth + 1)] == IF n = 0 THEN 1 ELSE 2 * Pow2[n - 1]

Nodes == 0..(Pow2[Depth + 1] - 2)

(* The size of the blocks of bucket b, and of the whole range.             *)
Size(b) == MinAlloc * Pow2[Depth - b]
MaxAlloc == Size(0)

(* The sizes of the blocks are powers of two, far below the greatest one   *)
(* that a size_t can hold.                                                 *)
ASSUME WidthAssumption == MaxAlloc <= Modulus \div 2

PtrForNode(i, b) == (i - Pow2[b] + 1) * Size(b)
NodeForPtr(a, b) == a \div Size(b) + Pow2[b] - 1

Parent(i) == (i - 1) \div 2
Sibling(i) == IF i % 2 = 1 THEN i + 1 ELSE i - 1
Root == NodeForPtr(0, limit)

(* request + HEADER_SIZE, as the machine computes it.                      *)
Gross(r) == (r + HeaderSize) % Modulus

(* The bucket whose blocks just hold n bytes, -1 for any that is none.     *)
BucketForRequest(n) ==
  IF n > MaxAlloc THEN -1
  ELSE CHOOSE b \in Buckets : Size(b) >= n /\ (b = Depth \/ Size(b + 1) < n)

(* Its loop doubles a size until n fits; beyond the greatest power of two  *)
(* the size is 0 and the loop does not end.                                *)
LoopEnds(n) == n <= Modulus \div 2

(* Mutant: the header is forgotten.                                        *)
OriginalBare == BucketForRequest(request)

Original == BucketForRequest(Gross(request))

(* flip_parent_is_split and parent_is_split.                               *)
Flip(bits, i) ==
  IF Parent(i) \in bits THEN bits \ {Parent(i)} ELSE bits \cup {Parent(i)}
ParentIsSplit(bits, i) == Parent(i) \in bits

(* update_max_ptr(end): the memory up to end is reserved already, or the   *)
(* end is inside the range and RESERVE gets memory, in whole chunks.       *)
UpdateMax(end) ==
  \/ /\ end <= max
     /\ UNCHANGED max
  \/ /\ max < end /\ end < MaxAlloc
     /\ max' = max + Chunk * ((end - max + Chunk - 1) \div Chunk)

(* The same call without success: the range ends there, or the system has  *)
(* no memory.                                                              *)
CannotReach(end) == max < end

Return ==
  /\ pc' = "idle"
  /\ request' = 0 /\ bucket' = 0 /\ goal' = 0 /\ node' = 0

(* malloc returns 0 and leaves the heap as it is.                          *)
ReturnNothing ==
  /\ Return
  /\ UNCHANGED <<heap, out>>

-----------------------------------------------------------------------------
(* malloc                                                                  *)

(* The first call sets up a tree of one block of the smallest size.        *)
SetUp ==
  /\ ready' = TRUE
  /\ max' = Chunk * ((Prefix + ListSize + Chunk - 1) \div Chunk) - Prefix
  /\ limit' = Depth
  /\ free' = [b \in {Depth} |-> <<0>>]
  /\ UNCHANGED split

(* malloc up to its loop.  A request that can never succeed, and a first   *)
(* call for which nothing can be reserved, return 0 and change nothing.    *)
MallocCall(r) ==
  /\ pc = "idle"
  /\ Gross(r) <= MaxAlloc
  /\ IF ready THEN UNCHANGED heap ELSE SetUp
  /\ pc' = "search"
  /\ request' = r
  /\ bucket' = BucketForRequest(Gross(r))
  /\ goal' = bucket'
  /\ UNCHANGED <<out, node>>

(* lower_bucket_limit, everything is free: the one free block, which is    *)
(* at the base, takes the size of the larger tree.                         *)
GrowFree ==
  /\ pc = "search" /\ goal < limit
  /\ ~ParentIsSplit(split, Root)
  /\ limit' = limit - 1
  /\ free' = [b \in limit'..Depth |->
                IF b = limit' THEN <<0>> ELSE RemoveFirst(free[b], 0)]
  /\ UNCHANGED <<ready, max, split, out, local>>

(* Mutant: the grandparent's bit is left alone.                            *)
GrowUsedUnmarked ==
  /\ pc = "search" /\ goal < limit
  /\ ParentIsSplit(split, Root)
  /\ UpdateMax(PtrForNode(Root + 1, limit) + ListSize)
  /\ limit' = limit - 1
  /\ free' = [b \in limit'..Depth |->
                IF b = limit' THEN << >>
                ELSE IF b = limit THEN Append(free[b], PtrForNode(Root + 1, limit))
                ELSE free[b]]
  /\ UNCHANGED <<ready, split, out, local>>

(* lower_bucket_limit, something is in use: the root becomes the left      *)
(* child of the new root, and the right child is free.                     *)
GrowUsed ==
  /\ pc = "search" /\ goal < limit
  /\ ParentIsSplit(split, Root)
  /\ UpdateMax(PtrForNode(Root + 1, limit) + ListSize)
  /\ limit' = limit - 1
  /\ free' = [b \in limit'..Depth |->
                IF b = limit' THEN << >>
                ELSE IF b = limit THEN Append(free[b], PtrForNode(Root + 1, limit))
                ELSE free[b]]
  /\ split' = IF Parent(Root) # 0 THEN Flip(split, Parent(Root)) ELSE split
  /\ UNCHANGED <<ready, out, local>>

(* There is no memory for the list entry of the right child.               *)
GrowFails ==
  /\ pc = "search" /\ goal < limit
  /\ ParentIsSplit(split, Root)
  /\ CannotReach(PtrForNode(Root + 1, limit) + ListSize)
  /\ ReturnNothing

(* The list is empty and the tree has larger blocks: try these.            *)
TryLarger ==
  /\ pc = "search" /\ goal = bucket /\ limit <= goal
  /\ free[bucket] = << >>
  /\ bucket # limit \/ bucket = 0
  /\ IF bucket = 0 THEN Return
     ELSE bucket' = bucket - 1 /\ goal' = bucket' /\ UNCHANGED <<pc, request, node>>
  /\ UNCHANGED <<heap, out>>

(* Mutant: lower_bucket_limit is called for the bucket the root has.       *)
GrowOnceNot ==
  /\ pc = "search" /\ goal = bucket /\ limit <= goal
  /\ free[bucket] = << >>
  /\ bucket = limit /\ bucket # 0
  /\ goal' = bucket
  /\ UNCHANGED <<heap, out, pc, request, bucket, node>>

(* The list of the root is empty: lower_bucket_limit(bucket - 1) is called *)
(* so that the root gets a buddy.                                          *)
GrowOnce ==
  /\ pc = "search" /\ goal = bucket /\ limit <= goal
  /\ free[bucket] = << >>
  /\ bucket = limit /\ bucket # 0
  /\ goal' = bucket - 1
  /\ UNCHANGED <<heap, out, pc, request, bucket, node>>

(* Mutant: the list entry of the right half is not counted.                *)
BytesNeededHalf ==
  IF bucket < Original THEN Size(bucket) \div 2 ELSE Size(bucket)

(* What must be reserved of a block from the list: all of it, or the left  *)
(* half and the list entry of the right one.                               *)
BytesNeeded ==
  IF bucket < Original THEN Size(bucket) \div 2 + ListSize ELSE Size(bucket)

(* pop, and the block changes from unused to used.                         *)
Take ==
  /\ pc = "search" /\ limit <= goal
  /\ free[bucket] # << >>
  /\ UpdateMax(Last(free[bucket]) + BytesNeeded)
  /\ free' = [free EXCEPT ![bucket] = Front(@)]
  /\ node' = NodeForPtr(Last(free[bucket]), bucket)
  /\ split' = IF node' # 0 THEN Flip(split, node') ELSE split
  /\ pc' = "split"
  /\ UNCHANGED <<ready, limit, out, request, bucket, goal>>

(* The memory of the block cannot be reserved: it is pushed back.          *)
TakeFails ==
  /\ pc = "search" /\ limit <= goal
  /\ free[bucket] # << >>
  /\ CannotReach(Last(free[bucket]) + BytesNeeded)
  /\ ReturnNothing

(* Keep the left child and put the right one on its list.                  *)
Split ==
  /\ pc = "split" /\ bucket < Original
  /\ node' = 2 * node + 1
  /\ bucket' = bucket + 1
  /\ split' = Flip(split, node')
  /\ free' = [free EXCEPT ![bucket'] = Append(@, PtrForNode(node' + 1, bucket'))]
  /\ UNCHANGED <<ready, max, limit, out, pc, request, goal>>

(* The block has the right size: malloc writes the header and returns.     *)
MallocReturns ==
  /\ pc = "split" /\ bucket = Original
  /\ out' = [a \in DOMAIN out \cup {PtrForNode(node, bucket)} |->
               IF a = PtrForNode(node, bucket) THEN request ELSE out[a]]
  /\ Return
  /\ UNCHANGED heap

-----------------------------------------------------------------------------
(* resize and free                                                         *)

(* resize changes the header if the new size needs the same bucket, and    *)
(* nothing (it returns false) if not.  It is called with any size.         *)
Resize(a, r) ==
  /\ pc = "idle" /\ a \in DOMAIN out
  /\ LoopEnds(Gross(r))
  /\ BucketForRequest(Gross(out[a])) = BucketForRequest(Gross(r))
  /\ out' = [out EXCEPT ![a] = r]
  /\ UNCHANGED <<heap, local>>

ResizeSpins(a, r) ==
  /\ pc = "idle" /\ a \in DOMAIN out
  /\ ~LoopEnds(Gross(r))
  /\ pc' = "spin"
  /\ UNCHANGED <<heap, out, request, bucket, goal, node>>

Spin == pc = "spin" /\ UNCHANGED vars

(* free up to its loop: the header tells the bucket.                       *)
FreeCall(a) ==
  /\ pc = "idle" /\ a \in DOMAIN out
  /\ bucket' = BucketForRequest(Gross(out[a]))
  /\ node' = NodeForPtr(a, bucket')
  /\ pc' = "merge"
  /\ out' = [b \in DOMAIN out \ {a} |-> out[b]]
  /\ UNCHANGED <<heap, request, goal>>

(* Mutant: free stops one level below the root.                            *)
StopsAtBelow(bits, i) == ParentIsSplit(bits, i) \/ bucket - 1 = limit

(* The buddy is in use, or the node is the root and has none.              *)
StopsAt(bits, i) == ParentIsSplit(bits, i) \/ bucket = limit

(* Mutant: the buddy stays on its list.                                    *)
MergeLeavesBuddy ==
  /\ pc = "merge" /\ node # 0
  /\ split' = Flip(split, node)
  /\ ~StopsAt(split', node)
  /\ node' = Parent(node)
  /\ bucket' = bucket - 1
  /\ UNCHANGED <<ready, max, limit, free, out, pc, request, goal>>

(* A round of the loop that finds the buddy unused takes it off its list   *)
(* and goes on with the parent.                                            *)
Merge ==
  /\ pc = "merge" /\ node # 0
  /\ split' = Flip(split, node)
  /\ ~StopsAt(split', node)
  /\ free' = [b \in limit..Depth |->
                RemoveFirst(free[b], PtrForNode(Sibling(node), bucket))]
  /\ node' = Parent(node)
  /\ bucket' = bucket - 1
  /\ UNCHANGED <<ready, max, limit, out, pc, request, goal>>

(* The loop ends and free puts the block at the end of its list.           *)
FreeReturns ==
  /\ pc = "merge"
  /\ IF node = 0 THEN UNCHANGED split
     ELSE split' = Flip(split, node) /\ StopsAt(split', node)
  /\ free' = [free EXCEPT ![bucket] = Append(@, PtrForNode(node, bucket))]
  /\ Return
  /\ UNCHANGED <<ready, max, limit, out>>

-----------------------------------------------------------------------------

(* (Before the first malloc nothing looks at the tree, which is static     *)
(* memory: its values here are those that malloc finds or stores first.)   *)
Init ==
  /\ ready = FALSE
  /\ max = 0
  /\ limit = Depth
  /\ free = [b \in {Depth} |-> << >>]
  /\ split = {}
  /\ out = << >>
  /\ pc = "idle"
  /\ request = 0 /\ bucket = 0 /\ goal = 0 /\ node = 0

(* The call that runs goes on.                                             *)
Continue ==
  \/ GrowFree
  \/ GrowUsed
  \/ GrowFails
  \/ TryLarger
  \/ GrowOnce
  \/ Take
  \/ TakeFails
  \/ Split
  \/ MallocReturns
  \/ Merge
  \/ FreeReturns

Next ==
  \/ \E r \in Requests : MallocCall(r)
  \/ \E a \in DOMAIN out, r \in Requests : Resize(a, r)
  \/ \E a \in DOMAIN out, r \in Requests : ResizeSpins(a, r)
  \/ Spin
  \/ \E a \in DOMAIN out : FreeCall(a)
  \/ Continue

Spec == Init /\ [][Next]_vars

(* A call that runs is not abandoned.  Nobody has to call.                 *)
FairSpec == Spec /\ WF_vars(Continue)

-----------------------------------------------------------------------------
(* Properties                                                              *)

(* Every variable stays in its range.                                      *)
TypeOK ==
  /\ ready \in BOOLEAN
  /\ max \in Int
  /\ limit \in Buckets
  /\ DOMAIN free = limit..Depth
  /\ \A b \in limit..Depth : \A k \in DOMAIN free[b] : free[b][k] \in 0..(MaxAlloc - 1)
  /\ split \subseteq 0..(Pow2[Depth] - 2)
  /\ DOMAIN out \subseteq 0..(MaxAlloc - 1)
  /\ \A a \in DOMAIN out : out[a] \in Requests
  /\ pc \in {"idle", "search", "split", "merge", "spin"}
  /\ request \in Requests \cup {0}
  /\ bucket \in Buckets /\ goal \in Buckets /\ node \in Nodes

(* Blocks as pairs <<address, bucket>>: the free ones, those that are out, *)
(* and the one that a running call has in hand.                            *)
FreeBlocks ==
  UNION {{<<free[b][k], b>> : k \in DOMAIN free[b]} : b \in limit..Depth}
OutBlocks == {<<a, BucketForRequest(Gross(out[a]))>> : a \in DOMAIN out}
Hand ==
  IF pc \in {"split", "merge"} THEN {<<PtrForNode(node, bucket), bucket>>} ELSE {}

Bytes(block) == block[1]..(block[1] + Size(block[2]) - 1)
Memory(blocks) == UNION {Bytes(block) : block \in blocks}

(* Nothing is lost and nothing is handed out twice: at every step of every *)
(* call the blocks on the lists, those that are out and the one in hand    *)
(* are disjoint and together are the tree.  No list holds a block twice    *)
(* (and every variable is in its range).                                   *)
Partition ==
  LET blocks == FreeBlocks \cup OutBlocks \cup Hand IN
    /\ TypeOK
    /\ ready =>
      /\ Memory(blocks) = 0..(Size(limit) - 1)
      /\ \A c, d \in blocks : c # d => Bytes(c) \cap Bytes(d) = {}
      /\ FreeBlocks \cap (OutBlocks \cup Hand) = {}
      /\ OutBlocks \cap Hand = {}
      /\ \A b \in limit..Depth : IsInjective(free[b])

NodesOf(b) == (Pow2[b] - 1)..(Pow2[b + 1] - 2)
Unused(i, b) ==
  Bytes(<<PtrForNode(i, b), b>>) \subseteq Memory(FreeBlocks)

(* The bits tell the truth: inside the tree a bit is set if and only if    *)
(* exactly one child is unused; above the root only the bit of the root's  *)
(* parent may be set, and it is if and only if the tree is in use.         *)
BitsAreRight ==
  ready =>
    split = {i \in 0..(Pow2[Depth] - 2) :
      \/ \E b \in limit..(Depth - 1) :
           /\ i \in NodesOf(b) /\ PtrForNode(i, b) < Size(limit)
           /\ Unused(2 * i + 1, b + 1) # Unused(2 * i + 2, b + 1)
      \/ limit # 0 /\ i = Parent(Root) /\ ~Unused(Root, limit)}

(* Free memory does not stay in pieces: no two buddies are both on a list, *)
(* so the largest free block is as large as it can be.                     *)
Coalesced ==
  \A b \in (limit + 1)..Depth : \A k, l \in DOMAIN free[b] :
    NodeForPtr(free[b][k], b) # Sibling(NodeForPtr(free[b][l], b))

(* No byte is touched that is not reserved: the block of an allocation     *)
(* lies in reserved memory to its end, and so does the list entry in a     *)
(* free block.                                                             *)
TouchesReserved ==
  /\ \A block \in FreeBlocks : ready => block[1] + ListSize <= max
  /\ \A block \in OutBlocks : block[1] + Size(block[2]) <= max

(* Every call of malloc and free returns, whatever the loops of malloc do  *)
(* to the tree.  (A resize to more than half of what a size_t can hold     *)
(* does not.)                                                              *)
CallsReturn == pc \in {"search", "split", "merge"} ~> pc = "idle"

(* The allocations of which the size and the header together are a number  *)
(* that a size_t can hold.                                                 *)
Genuine == {a \in DOMAIN out : out[a] + HeaderSize < Modulus}

(* The buddy allocator is an allocator for these: no step of it lets two   *)
(* of them share a byte or leave the range, and free gives back only its   *)
(* argument.  What malloc and resize grant to a size that wraps around is  *)
(* one of the smallest blocks: it is no allocation of that size, and does  *)
(* no harm to the others as long as its owner stays inside the block.      *)
Heap == INSTANCE HeapSpec WITH
  HeapSize <- MaxAlloc, Overhead <- HeaderSize, out <- [a \in Genuine |-> out[a]]
ImplementsHeap == Heap!HeapSpec

=============================================================================
