----------------------------- MODULE BuddyProofs -----------------------------
(***************************************************************************)
(* Proofs about Buddy for a range of any size, any size of the header and  *)
(* of the list entries, any width of a size_t and any requests it can hold,*)
(* those included to which the header is added with an overflow: at every  *)
(* step of every call the blocks partition the tree, the bits and the      *)
(* lists agree, no two buddies stay free side by side, and no byte outside *)
(* the reserved memory is touched.  For the genuine allocations (those     *)
(* whose size does not overflow so) the allocator is a HeapSpec.  (That    *)
(* calls return stays with TLC.)                                           *)
(*                                                                         *)
(* The first half is about numbers and sets only: powers of two, where a   *)
(* block of the tree lies, and what an exchange of blocks preserves.       *)
(***************************************************************************)
EXTENDS Buddy, SequenceTheorems, WellFoundedInduction, TLAPS

(* The k-th block of bucket b and its node; the blocks of bucket b in the  *)
(* tree with the root at bucket l; and the buddy of the k-th block.        *)
Block(b, k) == <<k * Size(b), b>>
Index(b, k) == Pow2[b] - 1 + k
Width(l, b) == 0..(Pow2[b - l] - 1)
Blocks(l) == UNION {{Block(b, k) : k \in Width(l, b)} : b \in l..Depth}
Other(k) == IF k % 2 = 0 THEN k + 1 ELSE k - 1

(* The blocks B partition the tree with the root at bucket l.              *)
Tiles(B, l) ==
  /\ B \subseteq Blocks(l)
  /\ Memory(B) = 0..(Size(l) - 1)
  /\ \A c, d \in B : c # d => Bytes(c) \cap Bytes(d) = {}

(* The bits S fit the free blocks F: the bit of a block's parent is set if *)
(* either the block or its buddy is free, but not both.  The buddy of the  *)
(* root lies outside the tree, where nothing is used.                      *)
Fits(S, F, l) ==
  /\ \A i \in S : \E b \in l..Depth : \E k \in Width(l, b) :
       b # 0 /\ i = Index(b - 1, k \div 2)
  /\ \A b \in l..Depth : \A k \in Width(l, b) :
       b # 0 => (Index(b - 1, k \div 2) \in S
                   <=> ~(Block(b, k) \in F <=> (b = l \/ Block(b, Other(k)) \in F)))

(* No two buddies are both free.                                           *)
Apart(F, l) ==
  \A b \in (l + 1)..Depth : \A k \in Width(l, b) :
    ~(Block(b, k) \in F /\ Block(b, Other(k)) \in F)

(* The lists as sets of blocks.                                            *)
Listed(f, l) == UNION {{<<f[b][k], b>> : k \in DOMAIN f[b]} : b \in l..Depth}
AreLists(f, l) ==
  /\ f \in [l..Depth -> Seq(Nat)]
  /\ \A b \in l..Depth : IsInjective(f[b])

-----------------------------------------------------------------------------
(* The inductive invariant.                                                *)

Types ==
  /\ ready \in BOOLEAN
  /\ max \in Int
  /\ limit \in Buckets
  /\ AreLists(free, limit)
  /\ out \in [DOMAIN out -> Requests]
  /\ \A a \in DOMAIN out : Gross(out[a]) <= MaxAlloc
  /\ pc \in {"idle", "search", "split", "merge", "spin"}
  /\ bucket \in Buckets /\ goal \in Buckets

(* What a running call knows: the bucket it looks at is not smaller than   *)
(* the request, and the node in its hand is a block of the tree.           *)
Calls ==
  /\ pc # "idle" => ready
  /\ pc \in {"idle", "search", "spin"} => node = 0
  /\ pc \in {"idle", "merge", "spin"} => request = 0
  /\ pc \in {"search", "split"} =>
       request \in Requests /\ Gross(request) <= MaxAlloc /\ bucket <= Original
  /\ pc = "search" => goal <= bucket
  /\ pc \in {"split", "merge"} =>
       limit <= bucket /\ \E k \in Width(limit, bucket) : node = Index(bucket, k)

(* Before the first call nothing exists.                                   *)
Fresh ==
  /\ out = << >> /\ split = {} /\ limit = Depth
  /\ free = [b \in {Depth} |-> << >>]

Whole ==
  /\ Tiles(FreeBlocks \cup OutBlocks \cup Hand, limit)
  /\ FreeBlocks \cap (OutBlocks \cup Hand) = {}
  /\ OutBlocks \cap Hand = {}

Reserved ==
  /\ \A c \in FreeBlocks : c[1] + ListSize <= max
  /\ \A c \in OutBlocks : c[1] + Size(c[2]) <= max
  /\ pc = "split" => PtrForNode(node, bucket) + BytesNeeded <= max
  /\ pc = "merge" => PtrForNode(node, bucket) + ListSize <= max

Healthy ==
  /\ Whole
  /\ Fits(split, FreeBlocks, limit)
  /\ Apart(FreeBlocks, limit)
  /\ Reserved

IInv ==
  /\ Types
  /\ Calls
  /\ ready => Healthy
  /\ ~ready => Fresh

-----------------------------------------------------------------------------
(* Induction, and the powers of two.                                       *)

Less == {p \in Nat \X Nat : p[1] < p[2]}

(* Less is well-founded on the numbers.                                    *)
LEMMA LessIsWellFounded == IsWellFoundedOn(Less, Nat)
BY NatLessThanWellFounded DEF OpToRel, Less

(* A set of numbers that is not empty has a least one.                     *)
LEMMA LeastNumber ==
  ASSUME NEW T, T \subseteq Nat, T # {}
  PROVE  \E x \in T : \A y \in T : x <= y
<1>1. PICK x \in T : \A y \in T : ~ (<<y, x>> \in Less)
  BY LessIsWellFounded, WFMin
<1>2. ASSUME NEW y \in T PROVE x <= y
  <2>1. x \in Nat /\ y \in Nat
    BY <1>2
  <2>2. <<y, x>> \in Nat \X Nat
    BY <2>1
  <2>3. ~ (y < x)
    BY <1>1, <1>2, <2>2 DEF Less
  <2> QED
    BY <2>1, <2>3
<1> QED
  BY <1>2

(* A set of numbers that is bounded and not empty has a greatest one.      *)
LEMMA GreatestNumber ==
  ASSUME NEW n \in Nat, NEW T, T \subseteq 0..n, T # {}
  PROVE  \E x \in T : \A y \in T : y <= x
<1> DEFINE U == {m \in Nat : n - m \in T}
<1>1. U \subseteq Nat
  OBVIOUS
<1>2. U # {}
  <2>1. PICK y \in T : TRUE
    OBVIOUS
  <2>2. y \in 0..n
    BY <2>1
  <2>3. n - y \in Nat /\ n - (n - y) = y
    BY <2>2
  <2> QED
    BY <2>1, <2>3
<1>3. PICK m \in U : \A k \in U : m <= k
  <2> HIDE DEF U
  <2> QED
    BY <1>1, <1>2, LeastNumber
<1>4. ASSUME NEW y \in T PROVE y <= n - m
  <2>1. y \in 0..n
    BY <1>4
  <2>2. n - y \in Nat /\ n - (n - y) = y
    BY <2>1
  <2>3. n - y \in U
    BY <2>2
  <2>4. m <= n - y
    BY <1>3, <2>3
  <2> QED
    BY <2>1, <2>4
<1> QED
  BY <1>3, <1>4

(* Induction over the numbers, for a set.                                  *)
LEMMA NumberInduction ==
  ASSUME NEW S, 0 \in S, \A n \in Nat : n \in S => n + 1 \in S
  PROVE  Nat \subseteq S
<1> SUFFICES ASSUME NEW m \in Nat, m \notin S PROVE FALSE
  OBVIOUS
<1>1. PICK x \in Nat \ S : \A y \in Nat \ S : x <= y
  <2> DEFINE T == Nat \ S
  <2>1. T \subseteq Nat /\ T # {}
    OBVIOUS
  <2> HIDE DEF T
  <2>2. \E x \in T : \A y \in T : x <= y
    BY <2>1, LeastNumber
  <2> QED
    BY <2>2 DEF T
<1>2. x # 0 /\ x \in Nat
  OBVIOUS
<1>3. x - 1 \in Nat /\ x - 1 \in S
  BY <1>1, <1>2
<1>4. (x - 1) + 1 \in S
  BY <1>3
<1>5. (x - 1) + 1 = x
  BY <1>2
<1> QED
  BY <1>4, <1>5

(* The recursive definition of Pow2 has a solution, and so Pow2 is one.    *)
LEMMA PowerEquation ==
  Pow2 = [n \in 0..(Depth + 1) |-> IF n = 0 THEN 1 ELSE 2 * Pow2[n - 1]]
<1> DEFINE Solves(g, m) == g = [n \in 0..m |-> IF n = 0 THEN 1 ELSE 2 * g[n - 1]]
           S == {m \in Nat : \E g : Solves(g, m)}
<1>1. 0 \in S
  <2>1. Solves([n \in 0..0 |-> 1], 0)
    OBVIOUS
  <2> QED
    BY <2>1
<1>2. ASSUME NEW m \in Nat, m \in S PROVE m + 1 \in S
  <2>1. PICK g : Solves(g, m)
    BY <1>2
  <2> DEFINE h == [n \in 0..(m + 1) |-> IF n = 0 THEN 1 ELSE 2 * g[n - 1]]
  <2>2. ASSUME NEW n \in 0..m PROVE h[n] = g[n]
    BY <2>1, <2>2
  <2>3. Solves(h, m + 1)
    <3>1. ASSUME NEW n \in 0..(m + 1), n # 0 PROVE g[n - 1] = h[n - 1]
      <4>1. n - 1 \in 0..m
        BY <3>1
      <4> HIDE DEF h
      <4> QED
        BY <2>2, <4>1
    <3> QED
      BY <3>1
  <2>4. \E s : Solves(s, m + 1)
    <3> HIDE DEF h, Solves
    <3> QED
      BY <2>3
  <2> HIDE DEF Solves
  <2> QED
    BY <2>4
<1>3. Depth + 1 \in S
  <2>1. Depth + 1 \in Nat
    BY BuddyAssumption
  <2> HIDE DEF S
  <2> QED
    BY <1>1, <1>2, <2>1, NumberInduction
<1>4. \E g : Solves(g, Depth + 1)
  BY <1>3
<1> QED
  BY <1>4 DEF Pow2

(* The recursion of Pow2, and that its values are numbers.                 *)
LEMMA PowerRule ==
  /\ Depth \in Nat \ {0}
  /\ Pow2[0] = 1
  /\ \A n \in 1..(Depth + 1) : Pow2[n] = 2 * Pow2[n - 1]
<1>1. Depth \in Nat \ {0}
  BY BuddyAssumption
<1>2. \A n \in 0..(Depth + 1) : Pow2[n] = IF n = 0 THEN 1 ELSE 2 * Pow2[n - 1]
  BY PowerEquation
<1> QED
  BY <1>1, <1>2

LEMMA PowerIsNumber ==
  \A n \in 0..(Depth + 1) : Pow2[n] \in Nat \ {0}
<1> DEFINE S == {n \in Nat : n <= Depth + 1 => Pow2[n] \in Nat \ {0}}
<1>1. 0 \in S
  BY PowerRule
<1>2. ASSUME NEW n \in Nat, n \in S PROVE n + 1 \in S
  <2>1. CASE n + 1 <= Depth + 1
    <3>1. n + 1 \in 1..(Depth + 1) /\ (n + 1) - 1 = n /\ n <= Depth + 1
      BY <2>1, PowerRule
    <3>2. Pow2[n] \in Nat \ {0}
      BY <1>2, <3>1
    <3>3. Pow2[n + 1] = 2 * Pow2[n]
      BY <3>1, PowerRule
    <3> QED
      BY <3>2, <3>3
  <2>2. CASE ~(n + 1 <= Depth + 1)
    BY <2>2
  <2> QED
    BY <2>1, <2>2
<1>3. Nat \subseteq S
  <2> HIDE DEF S
  <2> QED
    BY <1>1, <1>2, NumberInduction
<1> QED
  BY <1>3, PowerRule

(* Powers of two multiply by adding the exponents.                         *)
LEMMA PowerSum ==
  ASSUME NEW m \in Nat, NEW n \in Nat, m + n <= Depth + 1
  PROVE  Pow2[m + n] = Pow2[m] * Pow2[n]
<1> DEFINE S == {i \in Nat : m + i <= Depth + 1 => Pow2[m + i] = Pow2[m] * Pow2[i]}
<1>1. 0 \in S
  <2>1. m + 0 <= Depth + 1 => m \in 0..(Depth + 1)
    BY PowerRule
  <2>2. m + 0 = m
    OBVIOUS
  <2> QED
    BY <2>1, <2>2, PowerRule, PowerIsNumber
<1>2. ASSUME NEW i \in Nat, i \in S PROVE i + 1 \in S
  <2>1. CASE m + (i + 1) <= Depth + 1
    <3>1. /\ m + i <= Depth + 1 /\ i + 1 \in 1..(Depth + 1)
          /\ m + (i + 1) \in 1..(Depth + 1)
          /\ (i + 1) - 1 = i /\ (m + (i + 1)) - 1 = m + i
      BY <2>1, PowerRule
    <3>2. Pow2[m + i] = Pow2[m] * Pow2[i]
      BY <1>2, <3>1
    <3>3. Pow2[i + 1] = 2 * Pow2[i] /\ Pow2[m + (i + 1)] = 2 * Pow2[m + i]
      BY <3>1, PowerRule
    <3>4. Pow2[m] \in Nat /\ Pow2[i] \in Nat
      BY <3>1, PowerIsNumber, PowerRule
    <3>5. Pow2[m] * (2 * Pow2[i]) = 2 * (Pow2[m] * Pow2[i])
      BY <3>4
    <3> QED
      BY <3>2, <3>3, <3>5
  <2>2. CASE ~(m + (i + 1) <= Depth + 1)
    BY <2>2
  <2> QED
    BY <2>1, <2>2
<1>3. Nat \subseteq S
  <2> HIDE DEF S
  <2> QED
    BY <1>1, <1>2, NumberInduction
<1> QED
  BY <1>3

-----------------------------------------------------------------------------
(* Sizes, places and nodes of blocks.                                      *)

(* A bucket's blocks hold a list entry, and halve with every bucket.       *)
LEMMA SizeRule ==
  /\ \A b \in Buckets : Size(b) \in Nat /\ MinAlloc <= Size(b)
  /\ \A b \in Buckets : 0 < Size(b) /\ ListSize <= Size(b)
  /\ \A b \in Buckets : b # Depth => Size(b) = 2 * Size(b + 1)
<1>1. ASSUME NEW b \in Buckets PROVE Size(b) \in Nat /\ MinAlloc <= Size(b)
  <2>1. Depth - b \in 0..(Depth + 1)
    BY PowerRule DEF Buckets
  <2>2. Pow2[Depth - b] \in Nat \ {0}
    BY <2>1, PowerIsNumber
  <2> QED
    BY <2>2, BuddyAssumption DEF Size
<1>2. ASSUME NEW b \in Buckets, b # Depth PROVE Size(b) = 2 * Size(b + 1)
  <2>1. Depth - b \in 1..(Depth + 1) /\ (Depth - b) - 1 = Depth - (b + 1)
    BY <1>2, PowerRule DEF Buckets
  <2>2. Depth - (b + 1) \in 0..(Depth + 1)
    BY <2>1, PowerRule
  <2>3. Pow2[Depth - b] = 2 * Pow2[Depth - (b + 1)]
    BY <2>1, PowerRule
  <2>4. Pow2[Depth - (b + 1)] \in Nat
    BY <2>2, PowerIsNumber
  <2> QED
    BY <2>3, <2>4, BuddyAssumption DEF Size
<1> QED
  BY <1>1, <1>2, BuddyAssumption

(* Pow2 is monotonic.                                                      *)
LEMMA PowerGrows ==
  ASSUME NEW m \in Nat, NEW n \in 0..(Depth + 1), m <= n
  PROVE  Pow2[m] <= Pow2[n]
<1>1. /\ n - m \in Nat /\ m + (n - m) = n /\ m + (n - m) <= Depth + 1
      /\ m \in 0..(Depth + 1) /\ n - m \in 0..(Depth + 1)
  BY PowerRule
<1>2. Pow2[n] = Pow2[m] * Pow2[n - m]
  BY <1>1, PowerSum
<1>3. Pow2[m] \in Nat \ {0} /\ Pow2[n - m] \in Nat \ {0}
  BY <1>1, PowerIsNumber
<1> QED
  BY <1>2, <1>3

(* A block has room for so many blocks of a deeper bucket.                 *)
LEMMA SizeScale ==
  ASSUME NEW b \in Buckets, NEW c \in Buckets, b <= c
  PROVE  /\ Pow2[c - b] \in Nat \ {0}
         /\ Size(b) = Pow2[c - b] * Size(c)
         /\ Size(c) <= Size(b)
<1>1. /\ c - b \in Nat /\ Depth - c \in Nat /\ c - b \in 0..(Depth + 1)
      /\ Depth - c \in 0..(Depth + 1)
      /\ (c - b) + (Depth - c) = Depth - b /\ (c - b) + (Depth - c) <= Depth + 1
  BY PowerRule DEF Buckets
<1>2. Pow2[Depth - b] = Pow2[c - b] * Pow2[Depth - c]
  BY <1>1, PowerSum
<1>3. Pow2[c - b] \in Nat \ {0} /\ Pow2[Depth - c] \in Nat \ {0}
  BY <1>1, PowerIsNumber
<1>4. MinAlloc * (Pow2[c - b] * Pow2[Depth - c]) = Pow2[c - b] * (MinAlloc * Pow2[Depth - c])
  BY <1>3, BuddyAssumption
<1>5. Size(b) = Pow2[c - b] * Size(c)
  BY <1>2, <1>4 DEF Size
<1>6. Size(c) \in Nat
  BY SizeRule
<1>7. Size(c) <= Pow2[c - b] * Size(c)
  BY <1>3, <1>6
<1> QED
  BY <1>3, <1>5, <1>7

(* A bucket of the tree has blocks, and no more than in the whole range.   *)
LEMMA WidthRule ==
  ASSUME NEW l \in Buckets, NEW b \in l..Depth
  PROVE  /\ b \in Buckets
         /\ Pow2[b - l] \in Nat \ {0}
         /\ Pow2[b] \in Nat \ {0}
         /\ Pow2[b - l] <= Pow2[b]
         /\ 0 \in Width(l, b)
<1>1. b \in Nat /\ b - l \in Nat /\ b \in 0..(Depth + 1) /\ b - l \in 0..(Depth + 1) /\ b - l <= b
  BY PowerRule DEF Buckets
<1>2. Pow2[b - l] \in Nat \ {0} /\ Pow2[b] \in Nat \ {0}
  BY <1>1, PowerIsNumber
<1>3. Pow2[b - l] <= Pow2[b]
  BY <1>1, PowerGrows
<1> QED
  BY <1>1, <1>2, <1>3, PowerRule DEF Buckets, Width

(* The bucket of the root has one block.                                   *)
LEMMA RootWidth ==
  ASSUME NEW l \in Buckets
  PROVE  Width(l, l) = {0}
<1>1. l - l = 0
  BY DEF Buckets
<1> QED
  BY <1>1, PowerRule DEF Width

(* The halves of a block of the tree are blocks of the tree.               *)
LEMMA HalvesWidth ==
  ASSUME NEW l \in Buckets, NEW b \in l..Depth, b # Depth, NEW k \in Width(l, b)
  PROVE  b + 1 \in l..Depth /\ 2 * k \in Width(l, b + 1) /\ 2 * k + 1 \in Width(l, b + 1)
<1>1. (b + 1) - l \in 1..(Depth + 1) /\ ((b + 1) - l) - 1 = b - l /\ b + 1 \in l..Depth
  BY PowerRule DEF Buckets
<1>2. Pow2[(b + 1) - l] = 2 * Pow2[b - l]
  BY <1>1, PowerRule
<1>3. Pow2[b - l] \in Nat
  BY WidthRule
<1> QED
  BY <1>1, <1>2, <1>3 DEF Width

(* So are the block that a block is a half of, and its buddy.              *)
LEMMA ParentWidth ==
  ASSUME NEW l \in Buckets, NEW b \in l..Depth, b # l, NEW k \in Width(l, b)
  PROVE  /\ b - 1 \in l..Depth /\ b - 1 # Depth
         /\ k \div 2 \in Width(l, b - 1)
         /\ Other(k) \in Width(l, b)
<1>1. b - l \in 1..(Depth + 1) /\ (b - l) - 1 = (b - 1) - l /\ b - 1 \in l..Depth /\ b - 1 # Depth
  BY PowerRule DEF Buckets
<1>2. Pow2[b - l] = 2 * Pow2[(b - 1) - l]
  BY <1>1, PowerRule
<1>3. Pow2[(b - 1) - l] \in Nat
  BY <1>1, WidthRule
<1>4. k \in 0..(2 * Pow2[(b - 1) - l] - 1)
  BY <1>2 DEF Width
<1>5. k \div 2 \in 0..(Pow2[(b - 1) - l] - 1)
  BY <1>3, <1>4
<1>6. Other(k) \in 0..(2 * Pow2[(b - 1) - l] - 1)
  BY <1>3, <1>4 DEF Other
<1> QED
  BY <1>1, <1>2, <1>5, <1>6 DEF Width

(* A larger tree has the blocks of a smaller one, at the same places.      *)
LEMMA LargerWidth ==
  ASSUME NEW l \in Buckets, l # 0, NEW b \in l..Depth, NEW k \in Width(l, b)
  PROVE  /\ l - 1 \in Buckets /\ b \in (l - 1)..Depth
         /\ k \in Width(l - 1, b)
<1>1. /\ b - (l - 1) \in 0..(Depth + 1) /\ b - l \in Nat /\ b - l <= b - (l - 1)
      /\ l - 1 \in Buckets /\ b \in (l - 1)..Depth
  BY PowerRule DEF Buckets
<1>2. Pow2[b - l] <= Pow2[b - (l - 1)]
  BY <1>1, PowerGrows
<1>3. Pow2[b - l] \in Nat /\ Pow2[b - (l - 1)] \in Nat
  BY <1>1, WidthRule
<1> QED
  BY <1>1, <1>2, <1>3 DEF Width

(* A block and its buddy are the two halves of one block.                  *)
LEMMA OtherRule ==
  ASSUME NEW k \in Nat
  PROVE  /\ Other(k) \in Nat /\ Other(k) # k /\ Other(Other(k)) = k
         /\ Other(k) \div 2 = k \div 2
         /\ \A j \in Nat : j \div 2 = k \div 2 => j = k \/ j = Other(k)
         /\ Other(2 * k) = 2 * k + 1 /\ Other(2 * k + 1) = 2 * k
         /\ {k, Other(k)} = {2 * (k \div 2), 2 * (k \div 2) + 1}
<1>1. PICK i \in Nat : (k = 2 * i \/ k = 2 * i + 1) /\ k \div 2 = i
  OBVIOUS
<1>2. ASSUME NEW j \in Nat PROVE Other(2 * j) = 2 * j + 1 /\ Other(2 * j + 1) = 2 * j
  BY DEF Other
<1>3. ASSUME NEW j \in Nat, j \div 2 = i PROVE j = 2 * i \/ j = 2 * i + 1
  BY <1>3
<1>4. (2 * i) \div 2 = i /\ (2 * i + 1) \div 2 = i
  OBVIOUS
<1>5. CASE k = 2 * i
  <2>1. Other(k) = 2 * i + 1 /\ Other(2 * i + 1) = k /\ (2 * i + 1) \div 2 = k \div 2
    BY <1>1, <1>2, <1>4, <1>5
  <2>2. \A j \in Nat : j \div 2 = k \div 2 => j = k \/ j = Other(k)
    BY <1>1, <1>3, <1>5, <2>1
  <2>3. {k, Other(k)} = {2 * (k \div 2), 2 * (k \div 2) + 1}
    BY <1>1, <1>5, <2>1
  <2>4. Other(2 * k) = 2 * k + 1 /\ Other(2 * k + 1) = 2 * k
    BY <1>2
  <2> QED
    BY <1>5, <2>1, <2>2, <2>3, <2>4
<1>6. CASE k = 2 * i + 1
  <2>1. Other(k) = 2 * i /\ Other(2 * i) = k /\ (2 * i) \div 2 = k \div 2
    BY <1>1, <1>2, <1>4, <1>6
  <2>2. \A j \in Nat : j \div 2 = k \div 2 => j = k \/ j = Other(k)
    BY <1>1, <1>3, <1>6, <2>1
  <2>3. {k, Other(k)} = {2 * (k \div 2), 2 * (k \div 2) + 1}
    BY <1>1, <1>6, <2>1
  <2>4. Other(2 * k) = 2 * k + 1 /\ Other(2 * k + 1) = 2 * k
    BY <1>2
  <2> QED
    BY <1>6, <2>1, <2>2, <2>3, <2>4
<1> QED
  BY <1>1, <1>5, <1>6

(* The node of a block, and the address of a node.                         *)
LEMMA NodeRule ==
  ASSUME NEW b \in Buckets, NEW k \in Nat
  PROVE  /\ PtrForNode(Index(b, k), b) = k * Size(b)
         /\ NodeForPtr(k * Size(b), b) = Index(b, k)
         /\ Index(b, k) \in Nat
         /\ k * Size(b) \in Nat
<1>1. Pow2[b] \in Nat \ {0} /\ Size(b) \in Nat \ {0}
  <2>1. b \in 0..(Depth + 1)
    BY PowerRule DEF Buckets
  <2> QED
    BY <2>1, PowerIsNumber, SizeRule
<1>2. Pow2[b] - 1 + k - Pow2[b] + 1 = k
  BY <1>1
<1>3. k * Size(b) \in Nat
  BY <1>1
<1>4. (k * Size(b)) \div Size(b) = k
  BY <1>1
<1>5. k + Pow2[b] - 1 = Pow2[b] - 1 + k /\ Pow2[b] - 1 + k \in Nat
  BY <1>1
<1>6. PtrForNode(Index(b, k), b) = (Pow2[b] - 1 + k - Pow2[b] + 1) * Size(b)
  BY <1>1 DEF PtrForNode, Index
<1>7. NodeForPtr(k * Size(b), b) = (k * Size(b)) \div Size(b) + Pow2[b] - 1
  BY DEF NodeForPtr
<1> QED
  BY <1>2, <1>3, <1>4, <1>5, <1>6, <1>7 DEF Index

(* Walking the tree by arithmetic on the index.                            *)
LEMMA ChildRule ==
  ASSUME NEW b \in Buckets, b # Depth, NEW k \in Nat
  PROVE  /\ 2 * Index(b, k) + 1 = Index(b + 1, 2 * k)
         /\ 2 * Index(b, k) + 2 = Index(b + 1, 2 * k + 1)
<1>1. b + 1 \in 1..(Depth + 1) /\ (b + 1) - 1 = b /\ b \in 0..(Depth + 1)
  BY PowerRule DEF Buckets
<1>2. Pow2[b + 1] = 2 * Pow2[b] /\ Pow2[b] \in Nat
  BY <1>1, PowerRule, PowerIsNumber
<1> QED
  BY <1>2 DEF Index

(* Parent and Sibling in terms of blocks.                                  *)
LEMMA ParentRule ==
  ASSUME NEW b \in Buckets, b # 0, NEW k \in Nat
  PROVE  /\ Parent(Index(b, k)) = Index(b - 1, k \div 2)
         /\ Sibling(Index(b, k)) = Index(b, Other(k))
         /\ Index(b, k) # 0
<1>1. b \in 1..(Depth + 1) /\ b - 1 \in 0..(Depth + 1)
  BY PowerRule DEF Buckets
<1>2. Pow2[b] = 2 * Pow2[b - 1] /\ Pow2[b - 1] \in Nat \ {0}
  BY <1>1, PowerRule, PowerIsNumber
<1>3. PICK p \in Nat : Pow2[b - 1] = p + 1 /\ Pow2[b] - 1 = 2 * p + 1
  <2>1. Pow2[b - 1] - 1 \in Nat /\ Pow2[b - 1] = (Pow2[b - 1] - 1) + 1
    BY <1>2
  <2>2. Pow2[b] - 1 = 2 * (Pow2[b - 1] - 1) + 1
    BY <1>2
  <2> QED
    BY <2>1, <2>2
<1>4. PICK i \in Nat : (k = 2 * i \/ k = 2 * i + 1) /\ k \div 2 = i
  OBVIOUS
<1>5. CASE k = 2 * i
  <2>1. 2 * p + 1 + k = 2 * (p + i) + 1
    BY <1>5
  <2>2. (2 * (p + i) + 1 - 1) \div 2 = p + i /\ (2 * (p + i) + 1) % 2 = 1
    OBVIOUS
  <2>3. k % 2 = 0
    BY <1>5
  <2> QED
    BY <1>3, <1>4, <2>1, <2>2, <2>3 DEF Index, Parent, Sibling, Other
<1>6. CASE k = 2 * i + 1
  <2>1. 2 * p + 1 + k = 2 * (p + i) + 2
    BY <1>6
  <2>2. (2 * (p + i) + 2 - 1) \div 2 = p + i /\ (2 * (p + i) + 2) % 2 = 0
    OBVIOUS
  <2>3. k % 2 = 1
    BY <1>6
  <2> QED
    BY <1>3, <1>4, <2>1, <2>2, <2>3 DEF Index, Parent, Sibling, Other
<1> QED
  BY <1>4, <1>5, <1>6

(* No two blocks of the tree have the same node.                           *)
LEMMA IndexIsUnique ==
  ASSUME NEW b \in Buckets, NEW c \in Buckets,
         NEW j \in Width(0, b), NEW k \in Width(0, c),
         Index(b, j) = Index(c, k)
  PROVE  b = c /\ j = k
<1> DEFINE Between(x, i) == Pow2[x] - 1 <= Index(x, i) /\ Index(x, i) < Pow2[x + 1] - 1
<1>1. ASSUME NEW x \in Buckets, NEW i \in Width(0, x) PROVE Between(x, i)
  <2>1. x + 1 \in 1..(Depth + 1) /\ (x + 1) - 1 = x /\ x \in 0..(Depth + 1) /\ x - 0 = x
    BY PowerRule DEF Buckets
  <2>2. Pow2[x + 1] = 2 * Pow2[x] /\ Pow2[x] \in Nat
    BY <2>1, PowerRule, PowerIsNumber
  <2> QED
    BY <2>1, <2>2 DEF Index, Width
<1>2. ASSUME NEW x \in Buckets, NEW y \in Buckets, x < y,
             NEW i \in Width(0, x), NEW h \in Width(0, y),
             Index(x, i) = Index(y, h)
      PROVE  FALSE
  <2>1. x + 1 \in Nat /\ y \in 0..(Depth + 1) /\ x + 1 <= y /\ x + 1 \in 0..(Depth + 1)
    BY <1>2, PowerRule DEF Buckets
  <2>2. Pow2[x + 1] <= Pow2[y] /\ Pow2[x + 1] \in Nat /\ Pow2[y] \in Nat
    BY <2>1, PowerGrows, PowerIsNumber
  <2>3. Between(x, i) /\ Between(y, h)
    BY <1>1, <1>2
  <2>4. Index(x, i) \in Nat
    BY <1>2, NodeRule DEF Width
  <2> QED
    BY <1>2, <2>2, <2>3, <2>4
<1>3. b = c
  <2>1. b \in Nat /\ c \in Nat
    BY DEF Buckets
  <2>2. ~(b < c) /\ ~(c < b)
    BY <1>2
  <2> QED
    BY <2>1, <2>2
<1>4. j \in Nat /\ k \in Nat /\ Pow2[b] \in Nat
  <2>1. b \in 0..(Depth + 1)
    BY PowerRule DEF Buckets
  <2> QED
    BY <2>1, PowerIsNumber DEF Width
<1> QED
  BY <1>3, <1>4 DEF Index

(* The bytes of a block, and of its halves.                                *)
LEMMA BytesRule ==
  ASSUME NEW b \in Buckets, NEW k \in Nat
  PROVE  /\ Bytes(Block(b, k)) = (k * Size(b))..(k * Size(b) + Size(b) - 1)
         /\ k * Size(b) \in Nat /\ Size(b) \in Nat \ {0}
         /\ k * Size(b) \in Bytes(Block(b, k))
         /\ Block(b, k)[1] = k * Size(b) /\ Block(b, k)[2] = b
<1>1. Size(b) \in Nat \ {0} /\ k * Size(b) \in Nat
  BY SizeRule, NodeRule
<1>2. Block(b, k)[1] = k * Size(b) /\ Block(b, k)[2] = b
  BY DEF Block
<1>3. Bytes(Block(b, k)) = (k * Size(b))..(k * Size(b) + Size(b) - 1)
  BY <1>2 DEF Bytes
<1> QED
  BY <1>1, <1>2, <1>3

(* The halves of a block divide its bytes.                                 *)
LEMMA HalvesBytes ==
  ASSUME NEW b \in Buckets, b # Depth, NEW k \in Nat
  PROVE  /\ Bytes(Block(b, k))
              = Bytes(Block(b + 1, 2 * k)) \cup Bytes(Block(b + 1, 2 * k + 1))
         /\ Bytes(Block(b + 1, 2 * k)) \cap Bytes(Block(b + 1, 2 * k + 1)) = {}
         /\ (2 * k) * Size(b + 1) = k * Size(b)
         /\ (2 * k + 1) * Size(b + 1) = k * Size(b) + Size(b + 1)
         /\ Size(b) = 2 * Size(b + 1)
<1>1. b + 1 \in Buckets /\ Size(b) = 2 * Size(b + 1) /\ Size(b + 1) \in Nat \ {0}
  BY PowerRule, SizeRule DEF Buckets
<1> DEFINE s == Size(b + 1)
<1>2. (2 * k) * s = k * Size(b) /\ (2 * k + 1) * s = k * Size(b) + s
  BY <1>1
<1>3. k * Size(b) \in Nat
  BY <1>1, NodeRule
<1>4. Bytes(Block(b, k)) = (k * Size(b))..(k * Size(b) + 2 * s - 1)
  BY <1>1, BytesRule
<1>5. /\ Bytes(Block(b + 1, 2 * k)) = (k * Size(b))..(k * Size(b) + s - 1)
      /\ Bytes(Block(b + 1, 2 * k + 1)) = (k * Size(b) + s)..(k * Size(b) + s + s - 1)
  <2>1. 2 * k \in Nat /\ 2 * k + 1 \in Nat
    OBVIOUS
  <2> QED
    BY <1>1, <1>2, <2>1, BytesRule
<1> HIDE DEF s
<1>6. s \in Nat \ {0}
  BY <1>1 DEF s
<1>7. \A x \in Nat : x..(x + 2 * s - 1) = (x..(x + s - 1)) \cup ((x + s)..(x + s + s - 1))
  BY <1>6
<1>8. \A x \in Nat : (x..(x + s - 1)) \cap ((x + s)..(x + s + s - 1)) = {}
  BY <1>6
<1> QED
  BY <1>1, <1>2, <1>3, <1>4, <1>5, <1>7, <1>8 DEF s

(* The blocks of a tree lie in it.                                         *)
LEMMA BytesInTree ==
  ASSUME NEW l \in Buckets, NEW b \in l..Depth, NEW k \in Width(l, b)
  PROVE  Bytes(Block(b, k)) \subseteq 0..(Size(l) - 1)
<1>1. b \in Buckets /\ k \in Nat /\ l <= b /\ Pow2[b - l] \in Nat \ {0} /\ k + 1 <= Pow2[b - l]
  BY WidthRule DEF Width, Buckets
<1>2. Size(l) = Pow2[b - l] * Size(b) /\ Size(b) \in Nat
  BY <1>1, SizeScale, SizeRule
<1>3. (k + 1) * Size(b) <= Pow2[b - l] * Size(b)
  BY <1>1, <1>2
<1>4. (k + 1) * Size(b) = k * Size(b) + Size(b)
  BY <1>1, <1>2
<1>5. Bytes(Block(b, k)) = (k * Size(b))..(k * Size(b) + Size(b) - 1) /\ k * Size(b) \in Nat
  BY <1>1, BytesRule
<1>6. k * Size(b) + Size(b) <= Size(l) /\ Size(l) \in Nat
  BY <1>2, <1>3, <1>4, SizeRule
<1>7. ASSUME NEW x \in Nat, NEW y \in Nat, NEW z \in Nat, x + y <= z
      PROVE  x..(x + y - 1) \subseteq 0..(z - 1)
  BY <1>7
<1> QED
  BY <1>2, <1>5, <1>6, <1>7

(* A block is given by its bucket and its number.                          *)
LEMMA BlockIsUnique ==
  ASSUME NEW b \in Buckets, NEW c \in Buckets, NEW j \in Nat, NEW k \in Nat,
         Block(b, j) = Block(c, k)
  PROVE  b = c /\ j = k
<1>1. b = c /\ j * Size(b) = k * Size(b)
  BY DEF Block
<1>2. Size(b) \in Nat \ {0}
  BY SizeRule
<1> QED
  BY <1>1, <1>2

(* A block that shares a byte with a block of a deeper bucket contains it. *)
LEMMA BlocksNest ==
  ASSUME NEW b \in Buckets, NEW c \in Buckets, b <= c, NEW j \in Nat, NEW k \in Nat,
         Bytes(Block(b, j)) \cap Bytes(Block(c, k)) # {}
  PROVE  Bytes(Block(c, k)) \subseteq Bytes(Block(b, j))
<1> DEFINE s == Size(c)
           m == Pow2[c - b]
<1>1. m \in Nat \ {0} /\ Size(b) = m * s /\ s \in Nat \ {0}
  BY SizeScale, SizeRule
<1>2. PICK x \in Bytes(Block(b, j)) \cap Bytes(Block(c, k)) : TRUE
  OBVIOUS
<1>3. /\ Bytes(Block(b, j)) = (j * (m * s))..(j * (m * s) + m * s - 1)
      /\ Bytes(Block(c, k)) = (k * s)..(k * s + s - 1)
      /\ j * (m * s) \in Nat /\ k * s \in Nat /\ m * s \in Nat
  BY <1>1, BytesRule
<1>4. /\ x \in Nat
      /\ j * (m * s) <= x /\ x <= j * (m * s) + m * s - 1
      /\ k * s <= x /\ x <= k * s + s - 1
  BY <1>2, <1>3
<1> HIDE DEF s, m
<1>5. (j * m) * s = j * (m * s) /\ (j * m + m) * s = j * (m * s) + m * s /\ (k + 1) * s = k * s + s
  BY <1>1
<1>6. j * m \in Nat /\ j * m + m \in Nat
  BY <1>1
<1>7. ASSUME NEW y \in Nat, NEW z \in Nat, y * s < z * s PROVE y + 1 <= z /\ (y + 1) * s <= z * s
  <2>1. y < z
    BY <1>1, <1>7
  <2>2. y + 1 <= z
    BY <2>1
  <2> QED
    BY <1>1, <2>2
<1>8. (j * m) * s < (k + 1) * s
  BY <1>3, <1>4, <1>5, <1>1
<1>9. k * s < (j * m + m) * s
  BY <1>3, <1>4, <1>5, <1>1
<1>10. j * m <= k
  BY <1>6, <1>7, <1>8
<1>11. (j * m) * s <= k * s
  BY <1>1, <1>6, <1>10
<1>12. (k + 1) * s <= (j * m + m) * s
  BY <1>6, <1>7, <1>9
<1> QED
  BY <1>1, <1>3, <1>5, <1>11, <1>12

(* bucket_for_request finds a bucket whose blocks hold the request.        *)
LEMMA RequestFits ==
  ASSUME NEW n \in Nat, n <= MaxAlloc
  PROVE  BucketForRequest(n) \in Buckets /\ n <= Size(BucketForRequest(n))
<1> DEFINE T == {b \in Buckets : n <= Size(b)}
<1>1. 0 \in T /\ T \subseteq 0..Depth /\ Depth \in Nat /\ MaxAlloc \in Nat
  BY PowerRule, SizeRule DEF Buckets, MaxAlloc
<1>2. PICK b \in T : \A c \in T : c <= b
  <2> HIDE DEF T
  <2> QED
    BY <1>1, GreatestNumber
<1>3. b = Depth \/ Size(b + 1) < n
  <2>1. CASE b # Depth
    <3>1. b + 1 \in Buckets /\ ~(b + 1 <= b)
      BY <2>1, PowerRule DEF Buckets
    <3>2. ~(n <= Size(b + 1))
      BY <1>2, <3>1
    <3> QED
      BY <3>1, <3>2, SizeRule
  <2> QED
    BY <2>1
<1>4. \E c \in Buckets : Size(c) >= n /\ (c = Depth \/ Size(c + 1) < n)
  <2>1. b \in Buckets /\ Size(b) >= n
    BY SizeRule
  <2> QED
    BY <1>3, <2>1
<1>5. BucketForRequest(n)
        = CHOOSE c \in Buckets : Size(c) >= n /\ (c = Depth \/ Size(c + 1) < n)
  BY <1>1 DEF BucketForRequest
<1>6. BucketForRequest(n) \in Buckets /\ Size(BucketForRequest(n)) >= n
  BY <1>4, <1>5
<1> QED
  BY <1>6, SizeRule

-----------------------------------------------------------------------------
(* What an exchange of blocks preserves.                                   *)

(* The blocks of a tree, by bucket and number.                             *)
LEMMA BlockInTree ==
  ASSUME NEW l \in Buckets
  PROVE  /\ \A b \in l..Depth : \A k \in Width(l, b) : Block(b, k) \in Blocks(l)
         /\ \A c \in Blocks(l) : \E b \in l..Depth : \E k \in Width(l, b) : c = Block(b, k)
BY DEF Blocks

(* The blocks of a partition are known by their addresses.                 *)
LEMMA AddressIsUnique ==
  ASSUME NEW l \in Buckets, NEW B, Tiles(B, l), NEW c \in B, NEW d \in B,
         Bytes(c) \cap Bytes(d) # {} \/ c[1] = d[1]
  PROVE  c = d
<1>1. ASSUME NEW e \in B PROVE e[1] \in Bytes(e)
  <2>1. PICK b, k : b \in l..Depth /\ k \in Width(l, b) /\ e = Block(b, k)
    BY BlockInTree DEF Tiles
  <2>2. b \in Buckets /\ k \in Nat
    BY <2>1, WidthRule DEF Width
  <2>3. Block(b, k)[1] \in Bytes(Block(b, k))
    BY <2>2, BytesRule
  <2> QED
    BY <2>1, <2>3
<1>2. Bytes(c) \cap Bytes(d) # {}
  BY <1>1
<1> QED
  BY <1>2 DEF Tiles

(* The root alone is a partition, and none with the root has more.         *)
LEMMA TilesRoot ==
  ASSUME NEW l \in Buckets
  PROVE  /\ Tiles({Block(l, 0)}, l)
         /\ \A B : Tiles(B, l) /\ Block(l, 0) \in B => B = {Block(l, 0)}
<1>1. l \in l..Depth /\ 0 \in Width(l, l)
  BY RootWidth DEF Buckets
<1>2. Bytes(Block(l, 0)) = 0..(Size(l) - 1)
  <2>1. 0 * Size(l) = 0 /\ 0 + Size(l) - 1 = Size(l) - 1
    BY SizeRule
  <2> QED
    BY <2>1, BytesRule
<1>3. Tiles({Block(l, 0)}, l)
  BY <1>1, <1>2, BlockInTree DEF Tiles, Memory
<1>4. ASSUME NEW B, Tiles(B, l), Block(l, 0) \in B, NEW c \in B PROVE c = Block(l, 0)
  <2>1. PICK b, k : b \in l..Depth /\ k \in Width(l, b) /\ c = Block(b, k)
    BY <1>4, BlockInTree DEF Tiles
  <2>2. b \in Buckets /\ k \in Nat
    BY <2>1, WidthRule DEF Width
  <2>3. Bytes(c) \subseteq Bytes(Block(l, 0)) /\ Bytes(c) # {}
    BY <1>2, <2>1, <2>2, BytesInTree, BytesRule
  <2> QED
    BY <1>4, <2>3 DEF Tiles
<1> QED
  BY <1>3, <1>4

(* A partition in which a block is divided,                                *)
LEMMA TilesSplit ==
  ASSUME NEW l \in Buckets, NEW B, Tiles(B, l),
         NEW b \in l..Depth, b # Depth, NEW k \in Width(l, b), Block(b, k) \in B
  PROVE  /\ Block(b + 1, 2 * k) \notin B /\ Block(b + 1, 2 * k + 1) \notin B
         /\ Block(b + 1, 2 * k) # Block(b + 1, 2 * k + 1)
         /\ Tiles((B \ {Block(b, k)})
                    \cup {Block(b + 1, 2 * k), Block(b + 1, 2 * k + 1)}, l)
<1> DEFINE c == Block(b, k)
           d == Block(b + 1, 2 * k)
           e == Block(b + 1, 2 * k + 1)
           C == (B \ {c}) \cup {d, e}
<1>1. /\ b \in Buckets /\ b + 1 \in l..Depth /\ b + 1 \in Buckets /\ b + 1 # b /\ k \in Nat
      /\ 2 * k \in Width(l, b + 1) /\ 2 * k + 1 \in Width(l, b + 1)
      /\ 2 * k \in Nat /\ 2 * k + 1 \in Nat
  BY HalvesWidth, WidthRule DEF Width
<1>2. Bytes(c) = Bytes(d) \cup Bytes(e) /\ Bytes(d) \cap Bytes(e) = {}
  BY <1>1, HalvesBytes
<1>3. Bytes(d) # {} /\ Bytes(e) # {} /\ d[2] = b + 1 /\ e[2] = b + 1 /\ c[2] = b
  BY <1>1, BytesRule
<1>4. d \in Blocks(l) /\ e \in Blocks(l)
  BY <1>1, BlockInTree
<1> HIDE DEF c, d, e
<1>5. c \in B /\ c # d /\ c # e
  BY <1>1, <1>3 DEF c
<1>6. \A x \in B : x # c => Bytes(x) \cap Bytes(c) = {}
  BY <1>5 DEF Tiles
<1>7. d \notin B /\ e \notin B
  BY <1>2, <1>3, <1>5, <1>6
<1>8. d # e
  BY <1>2, <1>3
<1>9. C \subseteq Blocks(l)
  BY <1>4 DEF Tiles
<1>10. Memory(C) = Memory(B)
  <2>1. Memory(C) = Memory(B \ {c}) \cup (Bytes(d) \cup Bytes(e))
    BY DEF Memory
  <2>2. Memory(B) = Memory(B \ {c}) \cup Bytes(c)
    BY <1>5 DEF Memory
  <2> QED
    BY <1>2, <2>1, <2>2
<1>11. ASSUME NEW x \in C, NEW y \in C, x # y PROVE Bytes(x) \cap Bytes(y) = {}
  <2>1. CASE x \in B \ {c} /\ y \in B \ {c}
    BY <1>11, <2>1 DEF Tiles
  <2>2. CASE x \in B \ {c} /\ y \in {d, e}
    BY <1>2, <1>6, <2>2
  <2>3. CASE x \in {d, e} /\ y \in B \ {c}
    BY <1>2, <1>6, <2>3
  <2>4. CASE x \in {d, e} /\ y \in {d, e}
    BY <1>2, <1>11, <2>4
  <2> QED
    BY <2>1, <2>2, <2>3, <2>4
<1>12. Tiles(C, l)
  BY <1>9, <1>10, <1>11 DEF Tiles
<1> QED
  BY <1>7, <1>8, <1>12 DEF c, d, e

(* and one in which two buddies are united.                                *)
LEMMA TilesMerge ==
  ASSUME NEW l \in Buckets, NEW B, Tiles(B, l),
         NEW b \in l..Depth, b # Depth, NEW k \in Width(l, b),
         Block(b + 1, 2 * k) \in B, Block(b + 1, 2 * k + 1) \in B
  PROVE  /\ Block(b, k) \notin B
         /\ Tiles((B \ {Block(b + 1, 2 * k), Block(b + 1, 2 * k + 1)})
                    \cup {Block(b, k)}, l)
<1> DEFINE c == Block(b, k)
           d == Block(b + 1, 2 * k)
           e == Block(b + 1, 2 * k + 1)
           C == (B \ {d, e}) \cup {c}
<1>1. /\ b \in Buckets /\ b + 1 \in l..Depth /\ b + 1 \in Buckets /\ b + 1 # b /\ k \in Nat
      /\ 2 * k \in Nat /\ 2 * k + 1 \in Nat
  BY HalvesWidth, WidthRule DEF Width
<1>2. Bytes(c) = Bytes(d) \cup Bytes(e) /\ Bytes(d) \cap Bytes(e) = {}
  BY <1>1, HalvesBytes
<1>3. Bytes(d) # {} /\ Bytes(e) # {} /\ d[2] = b + 1 /\ e[2] = b + 1 /\ c[2] = b
  BY <1>1, BytesRule
<1>4. c \in Blocks(l)
  BY BlockInTree
<1> HIDE DEF c, d, e
<1>5. d \in B /\ e \in B /\ c # d /\ c # e
  BY <1>1, <1>3 DEF d, e
<1>6. \A x \in B : x # d /\ x # e => Bytes(x) \cap Bytes(c) = {}
  BY <1>2, <1>5 DEF Tiles
<1>7. c \notin B
  BY <1>2, <1>3, <1>5 DEF Tiles
<1>8. C \subseteq Blocks(l)
  BY <1>4 DEF Tiles
<1>9. Memory(C) = Memory(B)
  <2>1. Memory(C) = Memory(B \ {d, e}) \cup Bytes(c)
    BY DEF Memory
  <2>2. Memory(B) = Memory(B \ {d, e}) \cup (Bytes(d) \cup Bytes(e))
    BY <1>5 DEF Memory
  <2> QED
    BY <1>2, <2>1, <2>2
<1>10. ASSUME NEW x \in C, NEW y \in C, x # y PROVE Bytes(x) \cap Bytes(y) = {}
  <2>1. CASE x # c /\ y # c
    BY <1>10, <2>1 DEF Tiles
  <2>2. CASE x = c \/ y = c
    BY <1>6, <1>10, <2>2
  <2> QED
    BY <2>1, <2>2
<1>11. Tiles(C, l)
  BY <1>8, <1>9, <1>10 DEF Tiles
<1> QED
  BY <1>7, <1>11 DEF c, d, e

(* The old tree becomes the left half of the new one.                      *)
LEMMA TilesGrow ==
  ASSUME NEW l \in Buckets, l # 0, NEW B, Tiles(B, l)
  PROVE  /\ Block(l, 1) \notin B
         /\ Block(l, 1) \in Blocks(l - 1) /\ Blocks(l) \subseteq Blocks(l - 1)
         /\ Tiles(B \cup {Block(l, 1)}, l - 1)
<1> DEFINE d == Block(l, 1)
           C == B \cup {d}
<1>1. /\ l - 1 \in Buckets /\ l - 1 # Depth /\ (l - 1) + 1 = l /\ l \in l..Depth
      /\ l - 1 \in (l - 1)..Depth
  BY PowerRule DEF Buckets
<1>2. 0 \in Width(l - 1, l - 1) /\ 2 * 0 = 0 /\ 2 * 0 + 1 = 1
  BY <1>1, RootWidth
<1>3. d \in Blocks(l - 1)
  BY <1>1, <1>2, HalvesWidth, BlockInTree
<1>4. Blocks(l) \subseteq Blocks(l - 1)
  <2> SUFFICES ASSUME NEW x \in Blocks(l) PROVE x \in Blocks(l - 1)
    OBVIOUS
  <2>1. PICK b, k : b \in l..Depth /\ k \in Width(l, b) /\ x = Block(b, k)
    BY BlockInTree
  <2>2. b \in (l - 1)..Depth /\ k \in Width(l - 1, b)
    BY <2>1, LargerWidth
  <2> QED
    BY <1>1, <2>1, <2>2, BlockInTree
<1>5. /\ Bytes(Block(l - 1, 0)) = Bytes(Block(l, 0)) \cup Bytes(d)
      /\ Bytes(Block(l, 0)) \cap Bytes(d) = {}
  <2>1. /\ Bytes(Block(l - 1, 0)) = Bytes(Block((l - 1) + 1, 2 * 0))
                                        \cup Bytes(Block((l - 1) + 1, 2 * 0 + 1))
        /\ Bytes(Block((l - 1) + 1, 2 * 0)) \cap Bytes(Block((l - 1) + 1, 2 * 0 + 1)) = {}
    BY <1>1, HalvesBytes
  <2> QED
    BY <1>1, <1>2, <2>1, Zenon
<1>6. Bytes(Block(l - 1, 0)) = 0..(Size(l - 1) - 1) /\ Bytes(Block(l, 0)) = 0..(Size(l) - 1)
  <2>1. \A c : Memory({c}) = Bytes(c)
    BY DEF Memory
  <2>2. Tiles({Block(l - 1, 0)}, l - 1) /\ Tiles({Block(l, 0)}, l)
    BY <1>1, TilesRoot
  <2> QED
    BY <2>1, <2>2 DEF Tiles
<1>7. Bytes(d) # {}
  BY BytesRule
<1> HIDE DEF d
<1>8. Memory(B) = Bytes(Block(l, 0))
  BY <1>6 DEF Tiles
<1>9. \A x \in B : Bytes(x) \cap Bytes(d) = {}
  BY <1>5, <1>8 DEF Memory
<1>10. d \notin B
  BY <1>7, <1>9
<1>11. Memory(C) = 0..(Size(l - 1) - 1)
  <2>1. Memory(C) = Memory(B) \cup Bytes(d)
    BY DEF Memory
  <2> QED
    BY <1>5, <1>6, <1>8, <2>1
<1>12. C \subseteq Blocks(l - 1)
  BY <1>3, <1>4 DEF Tiles
<1>13. \A x, y \in C : x # y => Bytes(x) \cap Bytes(y) = {}
  BY <1>9 DEF Tiles
<1>14. Tiles(C, l - 1)
  BY <1>11, <1>12, <1>13 DEF Tiles
<1> QED
  BY <1>3, <1>4, <1>10, <1>14 DEF d

-----------------------------------------------------------------------------
(* The bits.                                                               *)

(* Flip changes the bit of the parent, and no other.                       *)
LEMMA FlipRule ==
  ASSUME NEW S, NEW i
  PROVE  \A j : j \in Flip(S, i) <=> IF j = Parent(i) THEN j \notin S ELSE j \in S
BY DEF Flip

(* When one block is taken off the lists or put on one and the bit of its  *)
(* parent is flipped, the bits fit again.                                  *)
LEMMA FitsToggle ==
  ASSUME NEW l \in Buckets, NEW S, NEW F, Fits(S, F, l),
         NEW b \in l..Depth, NEW k \in Width(l, b),
         NEW G, \A c : c \in G <=> IF c = Block(b, k) THEN c \notin F ELSE c \in F,
         NEW R, b = 0 => R = S, b # 0 => R = Flip(S, Index(b, k))
  PROVE  Fits(R, G, l)
<1>1. b \in Buckets /\ k \in Nat /\ b \in Nat
  BY WidthRule DEF Width, Buckets
<1>2. ASSUME b # 0, NEW j
      PROVE  j \in R <=> IF j = Index(b - 1, k \div 2) THEN j \notin S ELSE j \in S
  <2>1. Parent(Index(b, k)) = Index(b - 1, k \div 2)
    BY <1>1, <1>2, ParentRule
  <2> QED
    BY <1>2, <2>1, FlipRule
<1>3. ASSUME NEW i \in R
      PROVE  \E c \in l..Depth : \E j \in Width(l, c) : c # 0 /\ i = Index(c - 1, j \div 2)
  <2>1. CASE i \in S
    BY <2>1 DEF Fits
  <2>2. CASE i \notin S
    <3>1. b # 0
      BY <2>2
    <3>2. i = Index(b - 1, k \div 2)
      BY <1>2, <2>2, <3>1
    <3> QED
      BY <3>1, <3>2
  <2> QED
    BY <2>1, <2>2
<1>4. ASSUME NEW c \in l..Depth, NEW j \in Width(l, c), c # 0
      PROVE  Index(c - 1, j \div 2) \in R
               <=> ~(Block(c, j) \in G <=> (c = l \/ Block(c, Other(j)) \in G))
  <2>1. c \in Buckets /\ j \in Nat /\ Other(j) \in Nat
    BY WidthRule, OtherRule DEF Width
  <2>2. Index(c - 1, j \div 2) \in S
          <=> ~(Block(c, j) \in F <=> (c = l \/ Block(c, Other(j)) \in F))
    BY <1>4 DEF Fits
  <2>3. ASSUME NEW i \in Nat, Block(c, i) = Block(b, k) PROVE c = b /\ i = k
    BY <1>1, <2>1, <2>3, BlockIsUnique
  <2>4. CASE c # b \/ j \div 2 # k \div 2
    <3>1. Block(c, j) # Block(b, k) /\ Block(c, Other(j)) # Block(b, k)
      BY <2>1, <2>3, <2>4, OtherRule
    <3>2. CASE b = 0
      BY <2>2, <3>1, <3>2
    <3>3. CASE b # 0
      <4>1. ASSUME Index(c - 1, j \div 2) = Index(b - 1, k \div 2) PROVE FALSE
        <5>1. /\ c - 1 \in Buckets /\ b - 1 \in Buckets
              /\ j \div 2 \in Width(0, c - 1) /\ k \div 2 \in Width(0, b - 1)
          <6>1. 0 \in Buckets /\ b \in 0..Depth /\ c \in 0..Depth
                /\ k \in Width(0, b) /\ j \in Width(0, c)
            <7>1. ASSUME NEW x \in l..Depth, NEW i \in Width(l, x)
                  PROVE  x \in 0..Depth /\ i \in Width(0, x)
              <8>1. Pow2[x - l] <= Pow2[x] /\ Pow2[x] \in Nat /\ Pow2[x - l] \in Nat
                    /\ x \in Buckets /\ x - 0 = x
                BY <7>1, WidthRule DEF Buckets
              <8> QED
                BY <8>1 DEF Width, Buckets
            <7> QED
              BY <7>1, PowerRule DEF Buckets
          <6>2. b - 1 \in 0..Depth /\ c - 1 \in 0..Depth
            BY <3>3, <1>4, <6>1, PowerRule
          <6> QED
            BY <3>3, <1>4, <6>1, <6>2, ParentWidth DEF Buckets
        <5>2. c - 1 = b - 1 /\ j \div 2 = k \div 2
          BY <4>1, <5>1, IndexIsUnique
        <5> QED
          BY <1>1, <2>1, <2>4, <5>2 DEF Buckets
      <4>2. Index(c - 1, j \div 2) \in R <=> Index(c - 1, j \div 2) \in S
        BY <1>2, <3>3, <4>1
      <4> QED
        BY <2>2, <3>1, <4>2
    <3> QED
      BY <3>2, <3>3
  <2>5. CASE c = b /\ j \div 2 = k \div 2
    <3>1. Index(c - 1, j \div 2) \in R <=> Index(c - 1, j \div 2) \notin S
      BY <1>2, <1>4, <2>5
    <3>2. CASE j = k
      <4>1. Other(j) # k
        BY <2>1, <3>2, OtherRule
      <4>2. Block(c, Other(j)) # Block(b, k)
        BY <2>1, <2>3, <4>1
      <4> QED
        BY <2>2, <2>5, <3>1, <3>2, <4>2
    <3>3. CASE j = Other(k) /\ j # k
      <4>1. Block(c, j) # Block(b, k)
        BY <2>1, <2>3, <3>3
      <4>2. Other(j) = k
        BY <1>1, <3>3, OtherRule
      <4>3. c # l
        BY <2>5, <3>3, RootWidth
      <4> QED
        BY <2>2, <2>5, <3>1, <4>1, <4>2, <4>3
    <3> QED
      BY <1>1, <2>1, <2>5, <3>2, <3>3, OtherRule
  <2> QED
    BY <2>4, <2>5
<1> QED
  BY <1>3, <1>4 DEF Fits

(* Flipping the bit above a node or above its sibling is the same.         *)
LEMMA FlipSibling ==
  ASSUME NEW b \in Buckets, b # 0, NEW k \in Nat, NEW S
  PROVE  Flip(S, Index(b, Other(k))) = Flip(S, Index(b, k))
<1>1. Parent(Index(b, Other(k))) = Parent(Index(b, k))
  BY ParentRule, OtherRule
<1> QED
  BY <1>1 DEF Flip

(* No bit is set if the root is all there is, and it is free.              *)
LEMMA FitsRoot ==
  ASSUME NEW l \in Buckets, NEW S
  PROVE  Fits(S, {Block(l, 0)}, l) <=> S = {}
<1>1. ASSUME NEW b \in l..Depth, NEW k \in Width(l, b), b # 0
      PROVE  Block(b, k) \in {Block(l, 0)}
               <=> (b = l \/ Block(b, Other(k)) \in {Block(l, 0)})
  <2>1. b \in Buckets /\ k \in Nat /\ Other(k) \in Nat
    BY WidthRule, OtherRule DEF Width
  <2>2. \A i \in Nat : Block(b, i) = Block(l, 0) => b = l /\ i = 0
    BY <2>1, BlockIsUnique
  <2>3. CASE b = l
    <3>1. k = 0
      BY <2>3, RootWidth
    <3> QED
      BY <2>3, <3>1
  <2>4. CASE b # l
    BY <2>1, <2>2, <2>4
  <2> QED
    BY <2>3, <2>4
<1>2. Fits(S, {Block(l, 0)}, l) => S = {}
  <2> SUFFICES ASSUME Fits(S, {Block(l, 0)}, l), NEW i \in S PROVE FALSE
    OBVIOUS
  <2>1. PICK b, k : b \in l..Depth /\ k \in Width(l, b) /\ b # 0 /\ i = Index(b - 1, k \div 2)
    BY DEF Fits
  <2>2. Index(b - 1, k \div 2) \notin S
    BY <1>1, <2>1 DEF Fits
  <2> QED
    BY <2>1, <2>2
<1>3. Fits({}, {Block(l, 0)}, l)
  BY <1>1 DEF Fits
<1> QED
  BY <1>2, <1>3

(* The tree grows with the root in use: its buddy is free from then on,    *)
(* and the bit above the new root tells that the new root is in use.       *)
LEMMA FitsGrow ==
  ASSUME NEW l \in Buckets, l # 0, NEW S, NEW F, F \subseteq Blocks(l), Fits(S, F, l),
         Index(l - 1, 0) \in S,
         NEW R, l - 1 = 0 => R = S, l - 1 # 0 => R = Flip(S, Index(l - 1, 0))
  PROVE  /\ Block(l, 0) \notin F
         /\ Fits(R, F \cup {Block(l, 1)}, l - 1)
<1> DEFINE m == l - 1
           G == F \cup {Block(l, 1)}
<1>1. /\ m \in Buckets /\ l \in Nat /\ m \in Nat /\ m + 1 = l /\ l \in l..Depth
      /\ m \in m..Depth /\ l \in m..Depth /\ m # Depth
  BY PowerRule DEF Buckets
<1>2. Width(m, m) = {0} /\ Width(l, l) = {0} /\ 0 \div 2 = 0 /\ 1 \div 2 = 0
      /\ Other(0) = 1 /\ Other(1) = 0
  BY <1>1, RootWidth DEF Other
<1>3. Width(m, l) = {0, 1}
  <2>1. l - m = 1 /\ 1 \in 1..(Depth + 1) /\ 1 - 1 = 0
    BY <1>1, PowerRule
  <2>2. Pow2[1] = 2
    BY <2>1, PowerRule
  <2> QED
    BY <2>1, <2>2 DEF Width
<1>4. Block(l, 0) \notin F
  BY <1>1, <1>2 DEF Fits
<1>5. ASSUME NEW b \in Nat, NEW k \in Nat, Block(b, k) \in F, b \in Buckets
      PROVE  b \in l..Depth /\ k \in Width(l, b)
  <2>1. PICK c, j : c \in l..Depth /\ j \in Width(l, c) /\ Block(b, k) = Block(c, j)
    BY <1>5, BlockInTree
  <2>2. c \in Buckets /\ j \in Nat
    BY <2>1, WidthRule DEF Width
  <2>3. b = c /\ k = j
    BY <1>5, <2>1, <2>2, BlockIsUnique
  <2> QED
    BY <2>1, <2>3
<1>6. ASSUME NEW b \in Buckets, NEW k \in Nat, Block(b, k) = Block(l, 1) PROVE b = l /\ k = 1
  BY <1>6, BlockIsUnique
<1>7. ASSUME NEW b \in m..Depth, NEW k \in Width(m, b), b # 0,
             NEW c \in m..Depth, NEW j \in Width(m, c), c # 0,
             Index(b - 1, k \div 2) = Index(c - 1, j \div 2)
      PROVE  b = c /\ k \div 2 = j \div 2
  <2>1. ASSUME NEW x \in m..Depth, NEW i \in Width(m, x), x # 0
        PROVE  x \in Nat /\ x - 1 \in Buckets /\ i \div 2 \in Width(0, x - 1)
    <3>1. Pow2[x - m] <= Pow2[x] /\ Pow2[x] \in Nat /\ Pow2[x - m] \in Nat
          /\ x \in Buckets /\ x - 0 = x /\ 0 \in Buckets
      BY <1>1, <2>1, WidthRule, PowerRule DEF Buckets
    <3>2. x \in 0..Depth /\ i \in Width(0, x)
      BY <3>1 DEF Width, Buckets
    <3> QED
      BY <2>1, <3>1, <3>2, ParentWidth DEF Buckets
  <2>2. b - 1 = c - 1 /\ k \div 2 = j \div 2
    BY <1>7, <2>1, IndexIsUnique
  <2> QED
    BY <1>7, <2>1, <2>2
<1>8. m # 0 => Index(m - 1, 0) \notin S
  <2> SUFFICES ASSUME m # 0, Index(m - 1, 0) \in S PROVE FALSE
    OBVIOUS
  <2>1. PICK c, j : c \in l..Depth /\ j \in Width(l, c) /\ c # 0
                      /\ Index(m - 1, 0) = Index(c - 1, j \div 2)
    BY DEF Fits
  <2>2. c \in m..Depth /\ j \in Width(m, c)
    BY <2>1, LargerWidth
  <2>3. m = c
    BY <1>1, <1>2, <1>7, <2>1, <2>2
  <2> QED
    BY <1>1, <2>1, <2>3
<1>9. ASSUME NEW j
      PROVE  j \in R <=> (j \in S \/ (m # 0 /\ j = Index(m - 1, 0)))
  <2>1. CASE m = 0
    BY <2>1
  <2>2. CASE m # 0
    <3>1. Parent(Index(m, 0)) = Index(m - 1, 0)
      BY <1>1, <1>2, <2>2, ParentRule
    <3> QED
      BY <1>8, <2>2, <3>1, FlipRule
  <2> QED
    BY <2>1, <2>2
<1>10. ASSUME NEW i \in R
       PROVE  \E c \in m..Depth : \E j \in Width(m, c) : c # 0 /\ i = Index(c - 1, j \div 2)
  <2>1. CASE i \in S
    <3>1. PICK c, j : c \in l..Depth /\ j \in Width(l, c) /\ c # 0 /\ i = Index(c - 1, j \div 2)
      BY <2>1 DEF Fits
    <3>2. c \in m..Depth /\ j \in Width(m, c)
      BY <3>1, LargerWidth
    <3> QED
      BY <3>1, <3>2
  <2>2. CASE m # 0 /\ i = Index(m - 1, 0)
    BY <1>1, <1>2, <2>2
  <2> QED
    BY <1>9, <2>1, <2>2
<1>11. ASSUME NEW b \in m..Depth, NEW k \in Width(m, b), b # 0
       PROVE  Index(b - 1, k \div 2) \in R
                <=> ~(Block(b, k) \in G <=> (b = m \/ Block(b, Other(k)) \in G))
  <2>1. b \in Buckets /\ b \in Nat /\ k \in Nat /\ Other(k) \in Nat
    <3>1. b \in Buckets /\ b \in Nat
      BY <1>1, <1>11, WidthRule DEF Buckets
    <3>2. k \in Nat
      BY <1>1, <1>11, WidthRule DEF Width
    <3> QED
      BY <3>1, <3>2, OtherRule
  <2>2. CASE b = m
    <3>1. k = 0
      BY <1>2, <2>2
    <3>2. Block(b, k) \notin G
      BY <1>1, <1>5, <1>6, <2>1, <2>2
    <3> QED
      BY <1>2, <1>9, <1>11, <2>2, <3>1, <3>2
  <2>3. CASE b = l
    <3>1. k \in {0, 1} /\ k \div 2 = 0 /\ Index(b - 1, k \div 2) \in R
      BY <1>2, <1>3, <1>9, <2>3
    <3>2. Block(l, 0) \notin G /\ Block(l, 1) \in G
      BY <1>1, <1>4, <1>6
    <3>3. b # m
      BY <1>1, <2>3
    <3> QED
      BY <1>2, <2>3, <3>1, <3>2, <3>3
  <2>4. CASE b # m /\ b # l
    <3>1. b \in l..Depth /\ b # l
      BY <1>1, <2>1, <2>4
    <3>2. \A i \in Nat : Block(b, i) \in G <=> Block(b, i) \in F
      BY <1>6, <2>1, <3>1
    <3>3. Index(b - 1, k \div 2) \in R <=> Index(b - 1, k \div 2) \in S
      <4>1. m # 0 => Index(b - 1, k \div 2) # Index(m - 1, 0)
        BY <1>1, <1>2, <1>7, <1>11, <2>4
      <4> QED
        BY <1>9, <4>1
    <3>4. CASE k \in Width(l, b)
      <4>1. Index(b - 1, k \div 2) \in S
              <=> ~(Block(b, k) \in F <=> (b = l \/ Block(b, Other(k)) \in F))
        BY <1>11, <3>1, <3>4 DEF Fits
      <4> QED
        BY <2>1, <2>4, <3>1, <3>2, <3>3, <4>1
    <3>5. CASE k \notin Width(l, b)
      <4>1. Other(k) \notin Width(l, b)
        <5>1. Other(k) \in Width(l, b) => Other(Other(k)) \in Width(l, b)
          BY <3>1, ParentWidth
        <5> QED
          BY <2>1, <3>5, <5>1, OtherRule
      <4>2. Block(b, k) \notin F /\ Block(b, Other(k)) \notin F
        BY <1>5, <2>1, <3>5, <4>1
      <4>3. Index(b - 1, k \div 2) \notin S
        <5> SUFFICES ASSUME Index(b - 1, k \div 2) \in S PROVE FALSE
          OBVIOUS
        <5>1. PICK c, j : c \in l..Depth /\ j \in Width(l, c) /\ c # 0
                            /\ Index(b - 1, k \div 2) = Index(c - 1, j \div 2)
          BY DEF Fits
        <5>2. c \in m..Depth /\ j \in Width(m, c) /\ j \in Nat
          BY <5>1, LargerWidth DEF Width
        <5>3. b = c /\ k \div 2 = j \div 2
          BY <1>7, <1>11, <5>1, <5>2
        <5>4. k = j \/ k = Other(j)
          BY <2>1, <5>2, <5>3, OtherRule
        <5>5. k \in Width(l, b)
          BY <3>1, <5>1, <5>3, <5>4, ParentWidth
        <5> QED
          BY <3>5, <5>5
      <4> QED
        BY <2>1, <2>4, <3>2, <3>3, <4>2, <4>3
    <3> QED
      BY <3>4, <3>5
  <2> QED
    BY <2>2, <2>3, <2>4
<1>12. Fits(R, G, m)
  BY <1>10, <1>11 DEF Fits
<1> QED
  BY <1>4, <1>12

-----------------------------------------------------------------------------
(* Buddies.                                                                *)

(* A block whose buddy is in use may go on a list.                         *)
LEMMA ApartAdd ==
  ASSUME NEW l \in Buckets, NEW F, Apart(F, l),
         NEW b \in l..Depth, NEW k \in Width(l, b),
         b = l \/ Block(b, Other(k)) \notin F
  PROVE  Apart(F \cup {Block(b, k)}, l)
<1> SUFFICES ASSUME NEW c \in (l + 1)..Depth, NEW j \in Width(l, c),
                    Block(c, j) \in F \cup {Block(b, k)},
                    Block(c, Other(j)) \in F \cup {Block(b, k)}
             PROVE  FALSE
  BY DEF Apart
<1>1. /\ c \in l..Depth /\ c # l /\ c \in Buckets /\ b \in Buckets /\ k \in Nat
      /\ j \in Nat /\ Other(j) \in Nat
  <2>1. c \in l..Depth /\ c # l
    BY DEF Buckets
  <2>2. c \in Buckets /\ b \in Buckets
    BY <2>1, WidthRule
  <2>3. k \in Nat /\ j \in Nat
    BY <2>1, WidthRule DEF Width
  <2> QED
    BY <2>1, <2>2, <2>3, OtherRule
<1>2. \A i \in Nat : Block(c, i) = Block(b, k) => c = b /\ i = k
  BY <1>1, BlockIsUnique
<1>3. ~(Block(c, j) \in F /\ Block(c, Other(j)) \in F)
  BY DEF Apart
<1>4. CASE Block(c, j) = Block(b, k)
  <2>1. c = b /\ j = k
    BY <1>1, <1>2, <1>4
  <2>2. Block(b, Other(k)) # Block(b, k)
    BY <1>1, <1>2, <2>1, OtherRule
  <2> QED
    BY <1>1, <2>1, <2>2
<1>5. CASE Block(c, Other(j)) = Block(b, k)
  <2>1. c = b /\ Other(j) = k
    BY <1>1, <1>2, <1>5
  <2>2. Other(k) = j
    BY <1>1, <2>1, OtherRule
  <2>3. Block(b, Other(k)) # Block(b, k)
    BY <1>1, <1>2, <2>1, OtherRule
  <2> QED
    BY <1>1, <2>1, <2>2, <2>3
<1> QED
  BY <1>3, <1>4, <1>5

(* The root gets a buddy, which is free.                                   *)
LEMMA ApartGrow ==
  ASSUME NEW l \in Buckets, l # 0, NEW F, F \subseteq Blocks(l), Apart(F, l),
         Block(l, 0) \notin F
  PROVE  Apart(F \cup {Block(l, 1)}, l - 1)
<1>1. /\ l - 1 \in Buckets /\ (l - 1) + 1 = l /\ l \in l..Depth /\ l \in (l - 1)..Depth
      /\ Other(1) = 0
  BY PowerRule DEF Buckets, Other
<1>2. Apart(F, l - 1)
  <2> SUFFICES ASSUME NEW c \in l..Depth, NEW j \in Width(l - 1, c),
                      Block(c, j) \in F, Block(c, Other(j)) \in F
               PROVE  FALSE
    BY <1>1 DEF Apart
  <2>1. c \in Buckets /\ j \in Nat /\ Other(j) \in Nat
    <3>1. c \in Buckets /\ c \in (l - 1)..Depth
      BY <1>1, WidthRule DEF Buckets
    <3>2. j \in Nat
      BY <1>1, <3>1, WidthRule DEF Width
    <3> QED
      BY <3>1, <3>2, OtherRule
  <2>2. ASSUME NEW i \in Nat, Block(c, i) \in F PROVE i \in Width(l, c)
    <3>1. PICK x, h : x \in l..Depth /\ h \in Width(l, x) /\ Block(c, i) = Block(x, h)
      BY <2>2, BlockInTree
    <3>2. x \in Buckets /\ h \in Nat
      BY <3>1, WidthRule DEF Width
    <3>3. c = x /\ i = h
      BY <2>1, <2>2, <3>1, <3>2, BlockIsUnique
    <3> QED
      BY <3>1, <3>3
  <2>3. CASE c = l
    <3>1. j = 0
      BY <2>1, <2>2, <2>3, RootWidth
    <3> QED
      BY <2>3, <3>1
  <2>4. CASE c # l
    <3>1. c \in (l + 1)..Depth /\ j \in Width(l, c)
      BY <2>1, <2>2, <2>4 DEF Buckets
    <3> QED
      BY <3>1 DEF Apart
  <2> QED
    BY <2>3, <2>4
<1>3. 1 \in Width(l - 1, l)
  <2>1. l - 1 \in (l - 1)..Depth /\ l - 1 # Depth /\ 2 * 0 + 1 = 1
    BY <1>1 DEF Buckets
  <2>2. 0 \in Width(l - 1, l - 1)
    BY <1>1, RootWidth
  <2>3. 2 * 0 + 1 \in Width(l - 1, (l - 1) + 1)
    BY <1>1, <2>1, <2>2, HalvesWidth
  <2> QED
    BY <1>1, <2>1, <2>3
<1> QED
  BY <1>1, <1>2, <1>3, ApartAdd

-----------------------------------------------------------------------------
(* The lists.                                                              *)

(* Append adds an element to a list without repetitions.                   *)
LEMMA Pushed ==
  ASSUME NEW s \in Seq(Nat), NEW a \in Nat
  PROVE  /\ Append(s, a) \in Seq(Nat)
         /\ Range(Append(s, a)) = Range(s) \cup {a}
         /\ IsInjective(s) /\ a \notin Range(s) => IsInjective(Append(s, a))
<1> DEFINE t == Append(s, a)
<1>1. /\ t \in Seq(Nat) /\ Len(t) = Len(s) + 1 /\ Len(s) \in Nat
      /\ DOMAIN t = 1..(Len(s) + 1) /\ DOMAIN s = 1..Len(s)
      /\ t[Len(s) + 1] = a /\ \A i \in 1..Len(s) : t[i] = s[i]
  OBVIOUS
<1> HIDE DEF t
<1>2. \A i \in DOMAIN t : i = Len(s) + 1 \/ i \in DOMAIN s
  BY <1>1
<1>3. Range(t) = Range(s) \cup {a}
  <2>1. ASSUME NEW x \in Range(t) PROVE x \in Range(s) \cup {a}
    BY <1>1, <1>2 DEF Range
  <2>2. ASSUME NEW x \in Range(s) PROVE x \in Range(t)
    <3>1. PICK i \in 1..Len(s) : x = s[i]
      BY <1>1 DEF Range
    <3>2. i \in DOMAIN t /\ t[i] = x
      BY <1>1, <3>1
    <3> QED
      BY <3>2 DEF Range
  <2>3. a \in Range(t)
    BY <1>1 DEF Range
  <2> QED
    BY <2>1, <2>2, <2>3
<1>4. ASSUME IsInjective(s), a \notin Range(s) PROVE IsInjective(t)
  <2> SUFFICES ASSUME NEW i \in DOMAIN t, NEW j \in DOMAIN t, t[i] = t[j] PROVE i = j
    BY DEF IsInjective
  <2>1. \A k \in DOMAIN s : s[k] # a /\ t[k] = s[k]
    BY <1>1, <1>4 DEF Range
  <2>2. \A k, m \in DOMAIN s : s[k] = s[m] => k = m
    BY <1>4 DEF IsInjective
  <2> QED
    BY <1>1, <1>2, <2>1, <2>2
<1> QED
  BY <1>1, <1>3, <1>4 DEF t

(* Front takes the last element away.                                      *)
LEMMA Popped ==
  ASSUME NEW s \in Seq(Nat), IsInjective(s), s # << >>
  PROVE  /\ Front(s) \in Seq(Nat) /\ IsInjective(Front(s))
         /\ Last(s) \in Nat /\ Last(s) \in Range(s)
         /\ Range(Front(s)) = Range(s) \ {Last(s)}
<1> DEFINE t == Front(s)
<1>1. PICK n \in Nat \ {0} : n = Len(s) /\ DOMAIN s = 1..n
  OBVIOUS
<1>2. /\ t \in Seq(Nat) /\ DOMAIN t = 1..(n - 1)
      /\ \A i \in 1..(n - 1) : t[i] = s[i]
  BY <1>1 DEF Front
<1>3. Last(s) = s[n] /\ n \in DOMAIN s
  BY <1>1 DEF Last
<1>4. s[n] \in Nat
  BY <1>3
<1> HIDE DEF t
<1>5. \A i, j \in DOMAIN s : s[i] = s[j] => i = j
  BY DEF IsInjective
<1>6. IsInjective(t)
  <2>1. \A i \in DOMAIN t : i \in DOMAIN s /\ t[i] = s[i]
    BY <1>1, <1>2
  <2> QED
    BY <1>5, <2>1 DEF IsInjective
<1>7. Range(t) = Range(s) \ {Last(s)}
  <2>1. ASSUME NEW x \in Range(t) PROVE x \in Range(s) \ {Last(s)}
    <3>1. PICK i \in 1..(n - 1) : x = s[i]
      BY <1>2, <2>1 DEF Range
    <3>2. i \in DOMAIN s /\ i # n
      BY <1>1, <3>1
    <3> QED
      BY <1>3, <1>5, <3>1, <3>2 DEF Range
  <2>2. ASSUME NEW x \in Range(s), x # Last(s) PROVE x \in Range(t)
    <3>1. PICK i \in 1..n : x = s[i]
      BY <1>1, <2>2 DEF Range
    <3>2. i \in 1..(n - 1)
      BY <1>1, <1>3, <2>2, <3>1
    <3> QED
      BY <1>2, <3>1, <3>2 DEF Range
  <2> QED
    BY <2>1, <2>2
<1> QED
  BY <1>2, <1>3, <1>4, <1>6, <1>7 DEF t, Range

(* RemoveFirst takes the element away, wherever it is.                     *)
LEMMA Unlinked ==
  ASSUME NEW s \in Seq(Nat), IsInjective(s), NEW a
  PROVE  /\ RemoveFirst(s, a) \in Seq(Nat) /\ IsInjective(RemoveFirst(s, a))
         /\ Range(RemoveFirst(s, a)) = Range(s) \ {a}
<1>1. PICK n \in Nat : n = Len(s) /\ DOMAIN s = 1..n /\ \A i \in DOMAIN s : s[i] \in Nat
  OBVIOUS
<1>2. \A i, j \in DOMAIN s : s[i] = s[j] => i = j
  BY DEF IsInjective
<1>3. CASE ~ \E i \in 1..Len(s) : s[i] = a
  <2>1. RemoveFirst(s, a) = s
    BY <1>3 DEF RemoveFirst
  <2>2. a \notin Range(s)
    BY <1>1, <1>3 DEF Range
  <2> QED
    BY <2>1, <2>2
<1>4. CASE \E i \in 1..Len(s) : s[i] = a
  <2> DEFINE I == {i \in 1..Len(s) : s[i] = a}
             k == Min(I)
             t == RemoveAt(s, k)
  <2>1. I \subseteq Nat /\ I # {}
    BY <1>1, <1>4
  <2>2. k \in I
    <3> HIDE DEF I
    <3>1. \E x \in I : \A y \in I : x <= y
      BY <2>1, LeastNumber
    <3> QED
      BY <3>1 DEF Min
  <2>3. RemoveFirst(s, a) = t
    BY <1>4, <2>1 DEF RemoveFirst, SelectInSeq
  <2> HIDE DEF I
  <2>4. k \in 1..n /\ s[k] = a
    BY <1>1, <2>2 DEF I
  <2> HIDE DEF k
  <2>5. \A i \in DOMAIN s : i # k => s[i] # a
    BY <1>1, <1>2, <2>4
  <2>6. /\ SubSeq(s, 1, k - 1) \in Seq(Nat) /\ Len(SubSeq(s, 1, k - 1)) = k - 1
        /\ \A i \in 1..(k - 1) : SubSeq(s, 1, k - 1)[i] = s[i]
    <3>1. 1 \in Int /\ k - 1 \in Int /\ \A i \in 1..(k - 1) : s[i] \in Nat
      BY <1>1, <2>4
    <3>2. /\ SubSeq(s, 1, k - 1) \in Seq(Nat)
          /\ Len(SubSeq(s, 1, k - 1)) = IF 1 <= k - 1 THEN (k - 1) - 1 + 1 ELSE 0
          /\ \A i \in 1..((k - 1) - 1 + 1) : SubSeq(s, 1, k - 1)[i] = s[1 + i - 1]
      BY <3>1, SubSeqProperties
    <3> QED
      BY <2>4, <3>2
  <2>7. /\ SubSeq(s, k + 1, Len(s)) \in Seq(Nat) /\ Len(SubSeq(s, k + 1, Len(s))) = n - k
        /\ \A i \in 1..(n - k) : SubSeq(s, k + 1, Len(s))[i] = s[i + k]
    <3> DEFINE v == SubSeq(s, k + 1, n)
    <3>1. k + 1 \in Int /\ n \in Int /\ \A i \in (k + 1)..n : s[i] \in Nat
      BY <1>1, <2>4
    <3>2. /\ v \in Seq(Nat)
          /\ Len(v) = IF k + 1 <= n THEN n - (k + 1) + 1 ELSE 0
          /\ \A i \in 1..(n - (k + 1) + 1) : v[i] = s[(k + 1) + i - 1]
      BY <3>1, SubSeqProperties
    <3> HIDE DEF v
    <3>3. v \in Seq(Nat) /\ Len(v) = n - k /\ \A i \in 1..(n - k) : v[i] = s[i + k]
      BY <2>4, <3>2
    <3> QED
      BY <1>1, <3>3 DEF v
  <2>8. /\ t \in Seq(Nat) /\ DOMAIN t = 1..(n - 1)
        /\ \A i \in 1..(n - 1) : t[i] = IF i < k THEN s[i] ELSE s[i + 1]
    <3> DEFINE u == SubSeq(s, 1, k - 1)
               v == SubSeq(s, k + 1, Len(s))
    <3>1. t = u \o v
      BY DEF RemoveAt
    <3>2. /\ u \in Seq(Nat) /\ Len(u) = k - 1
          /\ \A i \in 1..(k - 1) : u[i] = s[i]
      BY <2>6
    <3>3. /\ v \in Seq(Nat) /\ Len(v) = n - k
          /\ \A i \in 1..(n - k) : v[i] = s[i + k]
      BY <2>7
    <3> HIDE DEF u, v, t
    <3>4. /\ t \in Seq(Nat) /\ Len(t) = Len(u) + Len(v)
          /\ \A i \in 1..(Len(u) + Len(v)) :
               t[i] = IF i <= Len(u) THEN u[i] ELSE v[i - Len(u)]
      BY <3>1, <3>2, <3>3, ConcatProperties
    <3>5. Len(t) = n - 1 /\ Len(u) + Len(v) = n - 1 /\ DOMAIN t = 1..(n - 1)
      BY <1>1, <2>4, <3>2, <3>3, <3>4
    <3>6. ASSUME NEW i \in 1..(n - 1)
          PROVE  t[i] = IF i < k THEN s[i] ELSE s[i + 1]
      <4>1. CASE i < k
        <5>1. i \in 1..(k - 1) /\ i <= k - 1
          BY <2>4, <4>1
        <5> QED
          BY <3>2, <3>4, <3>5, <4>1, <5>1
      <4>2. CASE ~(i < k)
        <5>1. ~(i <= k - 1) /\ i - (k - 1) \in 1..(n - k) /\ (i - (k - 1)) + k = i + 1
          BY <1>1, <2>4, <4>2
        <5>2. t[i] = v[i - (k - 1)]
          BY <3>2, <3>4, <3>5, <5>1
        <5> QED
          BY <3>3, <4>2, <5>1, <5>2
      <4> QED
        BY <4>1, <4>2
    <3> QED
      BY <3>4, <3>5, <3>6
  <2> HIDE DEF t
  <2> DEFINE p(i) == IF i < k THEN i ELSE i + 1
  <2>9. ASSUME NEW i \in DOMAIN t PROVE p(i) \in DOMAIN s /\ p(i) # k /\ t[i] = s[p(i)]
    <3>1. i \in 1..(n - 1) /\ i \in Nat /\ k \in Nat
      BY <2>4, <2>8, <2>9
    <3>2. p(i) \in 1..n /\ p(i) # k
      BY <3>1
    <3>3. t[i] = s[p(i)]
      BY <2>8, <3>1
    <3> HIDE DEF p
    <3> QED
      BY <1>1, <3>2, <3>3
  <2>10. ASSUME NEW i \in DOMAIN t, NEW j \in DOMAIN t, p(i) = p(j) PROVE i = j
    <3>1. i \in Nat /\ j \in Nat /\ k \in Nat
      BY <2>4, <2>8, <2>10
    <3> QED
      BY <2>10, <3>1
  <2>11. \A i \in DOMAIN s : i # k => \E j \in DOMAIN t : p(j) = i
    <3> SUFFICES ASSUME NEW i \in DOMAIN s, i # k PROVE \E j \in DOMAIN t : p(j) = i
      OBVIOUS
    <3>0. i \in 1..n /\ i \in Nat /\ k \in Nat /\ k \in 1..n
      BY <1>1, <2>4
    <3>1. CASE i < k
      <4>1. i \in DOMAIN t /\ p(i) = i
        BY <2>8, <3>0, <3>1
      <4> QED
        BY <4>1
    <3>2. CASE i > k
      <4>1. i - 1 \in DOMAIN t
        <5>1. n \in Nat /\ k < i /\ 1 <= k /\ i <= n
          BY <3>0, <3>2
        <5>2. i - 1 \in 1..(n - 1)
          BY <3>0, <5>1
        <5> QED
          BY <2>8, <5>2
      <4>2. p(i - 1) = i
        BY <3>0, <3>2
      <4> QED
        BY <4>1, <4>2
    <3> QED
      BY <3>0, <3>1, <3>2
  <2> HIDE DEF p
  <2>12. IsInjective(t)
    BY <1>2, <2>9, <2>10 DEF IsInjective
  <2>13. ASSUME NEW x \in Range(t) PROVE x \in Range(s) \ {a}
    BY <2>5, <2>9 DEF Range
  <2>14. ASSUME NEW x \in Range(s), x # a PROVE x \in Range(t)
    <3>1. PICK i \in DOMAIN s : x = s[i]
      BY DEF Range
    <3>2. i # k
      BY <2>4, <2>14, <3>1
    <3>3. PICK j \in DOMAIN t : p(j) = i
      BY <2>11, <3>2
    <3> QED
      BY <2>9, <3>1, <3>3 DEF Range
  <2> QED
    BY <2>3, <2>8, <2>12, <2>13, <2>14
<1> QED
  BY <1>3, <1>4

(* The blocks on the lists, by bucket and address.                         *)
LEMMA ListedRule ==
  ASSUME NEW f, NEW l
  PROVE  /\ \A c : c \in Listed(f, l) <=> \E b \in l..Depth : \E a \in Range(f[b]) : c = <<a, b>>
         /\ \A b \in l..Depth : \A a : <<a, b>> \in Listed(f, l) <=> a \in Range(f[b])
<1>1. ASSUME NEW c
      PROVE  c \in Listed(f, l) <=> \E b \in l..Depth : \E k \in DOMAIN f[b] : c = <<f[b][k], b>>
  BY DEF Listed
<1>2. ASSUME NEW c
      PROVE  c \in Listed(f, l) <=> \E b \in l..Depth : \E a \in Range(f[b]) : c = <<a, b>>
  BY <1>1 DEF Range
<1> QED
  BY <1>2

(* Two families of lists hold the same blocks, but for some.               *)
LEMMA ListedEqual ==
  ASSUME NEW f, NEW l, NEW B, \A c \in B : \E b \in l..Depth : \E a : c = <<a, b>>,
         \A b \in l..Depth : \A a : a \in Range(f[b]) <=> <<a, b>> \in B
  PROVE  Listed(f, l) = B
<1>1. ASSUME NEW c \in Listed(f, l) PROVE c \in B
  BY ListedRule
<1>2. ASSUME NEW c \in B PROVE c \in Listed(f, l)
  <2>1. PICK b, a : b \in l..Depth /\ c = <<a, b>>
    BY <1>2
  <2>2. a \in Range(f[b])
    BY <1>2, <2>1
  <2> QED
    BY <2>1, <2>2, ListedRule
<1> QED
  BY <1>1, <1>2

(* A pop takes one block off the lists, an unlink those of an address.     *)
LEMMA ListsPop ==
  ASSUME NEW l \in Buckets, NEW f, AreLists(f, l), NEW b \in l..Depth, f[b] # << >>
  PROVE  /\ Last(f[b]) \in Nat /\ <<Last(f[b]), b>> \in Listed(f, l)
         /\ AreLists([f EXCEPT ![b] = Front(@)], l)
         /\ Listed([f EXCEPT ![b] = Front(@)], l) = Listed(f, l) \ {<<Last(f[b]), b>>}
<1> DEFINE g == [f EXCEPT ![b] = Front(@)]
           a == Last(f[b])
<1>1. f[b] \in Seq(Nat) /\ IsInjective(f[b])
  BY DEF AreLists
<1>2. g[b] = Front(f[b]) /\ \A c \in l..Depth : c # b => g[c] = f[c]
  BY DEF AreLists
<1>3. /\ g[b] \in Seq(Nat) /\ IsInjective(g[b]) /\ Range(g[b]) = Range(f[b]) \ {a}
      /\ a \in Nat /\ a \in Range(f[b])
  BY <1>1, <1>2, Popped
<1>4. AreLists(g, l)
  <2>1. g \in [l..Depth -> Seq(Nat)]
    BY <1>1, Popped DEF AreLists
  <2> HIDE DEF g
  <2> QED
    BY <1>2, <1>3, <2>1 DEF AreLists
<1> HIDE DEF g, a
<1>5. \A c \in l..Depth : \A x : x \in Range(g[c]) <=> x \in Range(f[c]) /\ ~(c = b /\ x = a)
  BY <1>2, <1>3
<1>6. Listed(g, l) = Listed(f, l) \ {<<a, b>>}
  <2> DEFINE B == Listed(f, l) \ {<<a, b>>}
  <2>1. \A c \in B : \E e \in l..Depth : \E x : c = <<x, e>>
    BY ListedRule
  <2>2. ASSUME NEW e \in l..Depth, NEW x PROVE x \in Range(g[e]) <=> <<x, e>> \in B
    BY <1>5, ListedRule
  <2>3. Listed(g, l) = B
    <3> HIDE DEF B
    <3> QED
      BY <2>1, <2>2, ListedEqual
  <2> QED
    BY <2>3
<1>7. <<a, b>> \in Listed(f, l)
  BY <1>3, ListedRule
<1> QED
  BY <1>3, <1>4, <1>6, <1>7 DEF g, a

(* The round of free that unlinks an address from all lists.               *)
LEMMA ListsUnlink ==
  ASSUME NEW l \in Buckets, NEW f, AreLists(f, l), NEW a \in Nat,
         NEW g, g = [b \in l..Depth |-> RemoveFirst(f[b], a)]
  PROVE  AreLists(g, l) /\ Listed(g, l) = {c \in Listed(f, l) : c[1] # a}
<1>1. ASSUME NEW b \in l..Depth
      PROVE  g[b] \in Seq(Nat) /\ IsInjective(g[b]) /\ Range(g[b]) = Range(f[b]) \ {a}
  <2>1. f[b] \in Seq(Nat) /\ IsInjective(f[b]) /\ g[b] = RemoveFirst(f[b], a)
    BY DEF AreLists
  <2> QED
    BY <2>1, Unlinked
<1>2. g = [b \in l..Depth |-> g[b]]
  OBVIOUS
<1>3. AreLists(g, l)
  BY <1>1, <1>2 DEF AreLists
<1>4. Listed(g, l) = {c \in Listed(f, l) : c[1] # a}
  <2> DEFINE B == {c \in Listed(f, l) : c[1] # a}
  <2>1. \A c \in B : \E e \in l..Depth : \E x : c = <<x, e>>
    BY ListedRule
  <2>2. ASSUME NEW e \in l..Depth, NEW x PROVE x \in Range(g[e]) <=> <<x, e>> \in B
    <3>1. x \in Range(g[e]) <=> x \in Range(f[e]) /\ x # a
      BY ONLY <1>1
    <3>2. x \in Range(f[e]) <=> <<x, e>> \in Listed(f, l)
      BY ONLY ListedRule
    <3> QED
      BY ONLY <3>1, <3>2
  <2>3. Listed(g, l) = B
    <3> HIDE DEF B
    <3> QED
      BY ONLY <2>1, <2>2, ListedEqual
  <2> QED
    BY <2>3
<1> QED
  BY <1>3, <1>4

(* lower_bucket_limit when everything is free, and when something is used. *)
LEMMA ListsGrowFree ==
  ASSUME NEW l \in Buckets, l # 0, NEW f, AreLists(f, l),
         NEW g, g = [b \in (l - 1)..Depth |->
                       IF b = l - 1 THEN << 0 >> ELSE RemoveFirst(f[b], 0)]
  PROVE  /\ AreLists(g, l - 1)
         /\ Listed(g, l - 1) = {c \in Listed(f, l) : c[1] # 0} \cup {<<0, l - 1>>}
<1>1. \A b \in (l - 1)..Depth : b = l - 1 \/ b \in l..Depth
  BY DEF Buckets
<1>2. l - 1 \in (l - 1)..Depth /\ l - 1 \notin l..Depth /\ l..Depth \subseteq (l - 1)..Depth
  BY PowerRule DEF Buckets
<1>3. << 0 >> \in Seq(Nat) /\ IsInjective(<< 0 >>) /\ Range(<< 0 >>) = {0}
  BY DEF IsInjective, Range
<1>4. g[l - 1] \in Seq(Nat) /\ IsInjective(g[l - 1]) /\ Range(g[l - 1]) = {0}
  BY <1>2, <1>3
<1>5. ASSUME NEW b \in l..Depth
      PROVE  g[b] \in Seq(Nat) /\ IsInjective(g[b]) /\ Range(g[b]) = Range(f[b]) \ {0}
  <2>1. f[b] \in Seq(Nat) /\ IsInjective(f[b]) /\ g[b] = RemoveFirst(f[b], 0)
    BY <1>2 DEF AreLists
  <2> QED
    BY <2>1, Unlinked
<1>6. g = [b \in (l - 1)..Depth |-> g[b]]
  OBVIOUS
<1>7. AreLists(g, l - 1)
  BY <1>1, <1>4, <1>5, <1>6 DEF AreLists
<1>8. Listed(g, l - 1) = {c \in Listed(f, l) : c[1] # 0} \cup {<<0, l - 1>>}
  <2> DEFINE B == {c \in Listed(f, l) : c[1] # 0} \cup {<<0, l - 1>>}
             m == l - 1
  <2>1. \A c \in B : \E e \in m..Depth : \E x : c = <<x, e>>
    BY <1>2, ListedRule
  <2>2. ASSUME NEW e \in m..Depth, NEW x PROVE x \in Range(g[e]) <=> <<x, e>> \in B
    <3>1. CASE e = l - 1
      <4>1. <<x, e>> \notin Listed(f, l)
        BY <1>2, <3>1, ListedRule
      <4> QED
        BY <1>4, <3>1, <4>1
    <3>2. CASE e \in l..Depth
      <4>1. e # l - 1
        BY <1>2, <3>2
      <4>2. <<x, e>> \in Listed(f, l) <=> x \in Range(f[e])
        BY <3>2, ListedRule
      <4> QED
        BY <1>5, <3>2, <4>1, <4>2
    <3> QED
      BY <1>1, <3>1, <3>2
  <2>3. \A e \in m..Depth : \A x : x \in Range(g[e]) <=> <<x, e>> \in B
    BY <2>2
  <2>4. Listed(g, m) = B
    <3> HIDE DEF B, m
    <3> QED
      BY ONLY <2>1, <2>3, ListedEqual
  <2> QED
    BY <2>4
<1> QED
  BY <1>7, <1>8

(* The root of a tree in use becomes a left child, the right one is free.  *)
LEMMA ListsGrowUsed ==
  ASSUME NEW l \in Buckets, l # 0, NEW f, AreLists(f, l), NEW a \in Nat,
         <<a, l>> \notin Listed(f, l),
         NEW g, g = [b \in (l - 1)..Depth |->
                       IF b = l - 1 THEN << >>
                       ELSE IF b = l THEN Append(f[b], a) ELSE f[b]]
  PROVE  /\ AreLists(g, l - 1)
         /\ Listed(g, l - 1) = Listed(f, l) \cup {<<a, l>>}
<1>1. \A b \in (l - 1)..Depth : b = l - 1 \/ b \in l..Depth
  BY DEF Buckets
<1>2. /\ l - 1 \in (l - 1)..Depth /\ l - 1 \notin l..Depth /\ l..Depth \subseteq (l - 1)..Depth
      /\ l \in l..Depth
  BY PowerRule DEF Buckets
<1>3. << >> \in Seq(Nat) /\ IsInjective(<< >>) /\ Range(<< >>) = {}
  BY DEF IsInjective, Range
<1>4. g[l - 1] \in Seq(Nat) /\ IsInjective(g[l - 1]) /\ Range(g[l - 1]) = {}
  BY <1>2, <1>3
<1>5. ASSUME NEW b \in l..Depth
      PROVE  /\ g[b] \in Seq(Nat) /\ IsInjective(g[b])
             /\ \A x : x \in Range(g[b]) <=> x \in Range(f[b]) \/ (b = l /\ x = a)
  <2>1. f[b] \in Seq(Nat) /\ IsInjective(f[b])
    BY DEF AreLists
  <2>2. CASE b = l
    <3>1. g[b] = Append(f[b], a) /\ a \notin Range(f[b])
      BY <1>2, <2>2, ListedRule
    <3> QED
      BY <2>1, <2>2, <3>1, Pushed
  <2>3. CASE b # l
    <3>1. g[b] = f[b]
      BY <1>2, <2>3
    <3> QED
      BY <2>1, <2>3, <3>1
  <2> QED
    BY <2>2, <2>3
<1>6. g = [b \in (l - 1)..Depth |-> g[b]]
  OBVIOUS
<1>7. AreLists(g, l - 1)
  BY <1>1, <1>4, <1>5, <1>6 DEF AreLists
<1>8. Listed(g, l - 1) = Listed(f, l) \cup {<<a, l>>}
  <2> DEFINE B == Listed(f, l) \cup {<<a, l>>}
             m == l - 1
  <2>1. \A c \in B : \E e \in m..Depth : \E x : c = <<x, e>>
    BY <1>2, ListedRule
  <2>2. ASSUME NEW e \in m..Depth, NEW x PROVE x \in Range(g[e]) <=> <<x, e>> \in B
    <3>1. CASE e = l - 1
      <4>1. <<x, e>> \notin Listed(f, l) /\ e # l
        BY <1>2, <3>1, ListedRule
      <4> QED
        BY <1>4, <3>1, <4>1
    <3>2. CASE e \in l..Depth
      <4>1. <<x, e>> \in Listed(f, l) <=> x \in Range(f[e])
        BY <3>2, ListedRule
      <4> QED
        BY <1>5, <3>2, <4>1
    <3> QED
      BY <1>1, <3>1, <3>2
  <2>3. \A e \in m..Depth : \A x : x \in Range(g[e]) <=> <<x, e>> \in B
    BY <2>2
  <2>4. Listed(g, m) = B
    <3> HIDE DEF B, m
    <3> QED
      BY ONLY <2>1, <2>3, ListedEqual
  <2> QED
    BY <2>4
<1> QED
  BY <1>7, <1>8

-----------------------------------------------------------------------------
(* The invariant.                                                          *)

(* A block of the tree, taken apart.                                       *)
LEMMA TreeBlock ==
  ASSUME NEW l \in Buckets, NEW c \in Blocks(l)
  PROVE  /\ c[2] \in l..Depth /\ c[2] \in Buckets /\ c[1] \in Nat
         /\ c = <<c[1], c[2]>>
         /\ \E k \in Width(l, c[2]) : c = Block(c[2], k) /\ c[1] = k * Size(c[2])
<1>1. PICK b, k : b \in l..Depth /\ k \in Width(l, b) /\ c = Block(b, k)
  BY BlockInTree
<1>2. b \in Buckets /\ k \in Nat
  BY <1>1, WidthRule DEF Width
<1>3. c[1] = k * Size(b) /\ c[2] = b /\ k * Size(b) \in Nat /\ c = <<k * Size(b), b>>
  BY <1>1, <1>2, BytesRule DEF Block
<1> QED
  BY <1>1, <1>2, <1>3

(* Of a node of the tree: only the one of the whole range is 0.            *)
LEMMA NodeInTree ==
  ASSUME NEW l \in Buckets, NEW b \in l..Depth, NEW k \in Width(l, b)
  PROVE  /\ b \in Buckets /\ k \in Nat /\ Index(b, k) \in Nodes
         /\ PtrForNode(Index(b, k), b) = k * Size(b) /\ k * Size(b) \in Nat
         /\ <<PtrForNode(Index(b, k), b), b>> = Block(b, k)
         /\ Index(b, k) = 0 <=> b = 0
<1>1. b \in Buckets /\ k \in Nat /\ Pow2[b - l] \in Nat \ {0} /\ Pow2[b] \in Nat \ {0}
      /\ Pow2[b - l] <= Pow2[b]
  BY WidthRule DEF Width
<1>2. PtrForNode(Index(b, k), b) = k * Size(b) /\ k * Size(b) \in Nat
  BY <1>1, NodeRule
<1>3. Index(b, k) \in Nodes
  <2>1. b + 1 \in 1..(Depth + 1) /\ (b + 1) - 1 = b /\ b + 1 \in Nat /\ b + 1 <= Depth + 1
        /\ Depth + 1 \in 0..(Depth + 1)
    BY <1>1, PowerRule DEF Buckets
  <2>2. Pow2[b + 1] = 2 * Pow2[b]
    BY <2>1, PowerRule
  <2>3. Pow2[b + 1] <= Pow2[Depth + 1] /\ Pow2[Depth + 1] \in Nat
    BY <2>1, PowerGrows, PowerIsNumber
  <2>4. k <= Pow2[b] - 1
    BY <1>1 DEF Width
  <2> QED
    BY <1>1, <2>2, <2>3, <2>4 DEF Nodes, Index
<1>4. Index(b, k) = 0 <=> b = 0
  <2>1. CASE b = 0
    <3>1. l = 0
      BY <2>1 DEF Buckets
    <3>2. k = 0
      BY <2>1, <3>1, RootWidth
    <3> QED
      BY <2>1, <3>2, PowerRule DEF Index
  <2>2. CASE b # 0
    BY <1>1, <2>2, ParentRule
  <2> QED
    BY <2>1, <2>2
<1> QED
  BY <1>1, <1>2, <1>3, <1>4 DEF Block

(* update_max_ptr reserves at least what is asked for.                     *)
LEMMA MaxGrows ==
  ASSUME max \in Int, NEW end \in Int, UpdateMax(end)
  PROVE  max' \in Int /\ max <= max' /\ end <= max'
<1>1. CASE end <= max /\ max' = max
  BY <1>1
<1>2. CASE max < end /\ max' = max + Chunk * ((end - max + Chunk - 1) \div Chunk)
  <2>1. ASSUME NEW c \in Nat \ {0}, NEW x \in Nat
        PROVE  c * ((x + c - 1) \div c) >= x /\ c * ((x + c - 1) \div c) \in Int
    OBVIOUS
  <2>2. Chunk \in Nat \ {0} /\ end - max \in Nat
    BY <1>2, BuddyAssumption
  <2>3. Chunk * ((end - max + Chunk - 1) \div Chunk) >= end - max
        /\ Chunk * ((end - max + Chunk - 1) \div Chunk) \in Int
    BY <2>1, <2>2
  <2> DEFINE x == Chunk * ((end - max + Chunk - 1) \div Chunk)
  <2> HIDE DEF x
  <2> QED
    BY <1>2, <2>3 DEF x
<1> QED
  BY <1>1, <1>2 DEF UpdateMax

(* While a call looks for a block, and between calls, no block is in hand; *)
(* otherwise there is one, a block of the tree.                            *)
LEMMA HandIsEmpty ==
  ASSUME pc \in {"idle", "search", "spin"}
  PROVE  Hand = {}
BY DEF Hand

(* The node in hand is a block of the tree.                                *)
LEMMA HandIsBlock ==
  ASSUME IInv, pc \in {"split", "merge"}
  PROVE  /\ bucket \in limit..Depth /\ bucket \in Buckets /\ limit \in Buckets
         /\ \E k \in Width(limit, bucket) :
              /\ k \in Nat /\ node = Index(bucket, k)
              /\ PtrForNode(node, bucket) = k * Size(bucket)
              /\ Hand = {Block(bucket, k)}
<1>1. bucket \in Buckets /\ limit \in Buckets /\ limit <= bucket
  BY DEF IInv, Types, Calls
<1>2. bucket \in limit..Depth
  BY <1>1, PowerRule DEF Buckets
<1>3. PICK k \in Width(limit, bucket) : node = Index(bucket, k)
  BY DEF IInv, Calls
<1>4. k \in Nat /\ PtrForNode(node, bucket) = k * Size(bucket)
      /\ <<PtrForNode(node, bucket), bucket>> = Block(bucket, k)
  BY <1>1, <1>2, <1>3, NodeInTree
<1> QED
  BY <1>1, <1>2, <1>3, <1>4 DEF Hand

(* A request and the header, as the machine adds them.                     *)
LEMMA GrossIsNumber ==
  ASSUME NEW r \in Requests
  PROVE  /\ Gross(r) \in Nat
         /\ r + HeaderSize < Modulus => Gross(r) = r + HeaderSize
<1>1. r \in Nat /\ HeaderSize \in Nat /\ Modulus \in Nat \ {0}
  BY BuddyAssumption
<1>2. r + HeaderSize \in Nat
  BY <1>1
<1>3. \A n \in Nat, m \in Nat \ {0} : n % m \in Nat /\ (n < m => n % m = n)
  OBVIOUS
<1> QED
  BY <1>1, <1>2, <1>3 DEF Gross

(* The blocks that are out, by address.                                    *)
LEMMA OutRule ==
  ASSUME NEW a
  PROVE  /\ a \in DOMAIN out => <<a, BucketForRequest(Gross(out[a]))>> \in OutBlocks
         /\ \A c \in OutBlocks : c[1] \in DOMAIN out
BY DEF OutBlocks

(* The property's FreeBlocks are the blocks on the lists.                  *)
LEMMA FreeIsListed ==
  FreeBlocks = Listed(free, limit)
BY DEF FreeBlocks, Listed

(* A step that leaves the heap alone and holds no block.                   *)
LEMMA Quiet ==
  ASSUME IInv, UNCHANGED <<heap, out>>,
         pc \in {"idle", "search"}, pc' \in {"idle", "search", "spin"},
         bucket' \in Buckets, goal' \in Buckets, node' = 0,
         ready, pc' # "search" => request' = 0,
         pc' = "search" => /\ request' \in Requests /\ Gross(request') <= MaxAlloc
                           /\ bucket' <= BucketForRequest(Gross(request'))
                           /\ goal' <= bucket'
  PROVE  IInv'
<1>1. UNCHANGED <<ready, max, limit, free, split, out>>
  BY DEF heap
<1>2. Types'
  BY <1>1 DEF IInv, Types, MaxAlloc
<1>3. Calls'
  BY <1>1 DEF Calls, Original
<1>4. Hand = {} /\ Hand' = {}
  BY DEF Hand
<1>5. FreeBlocks' = FreeBlocks /\ OutBlocks' = OutBlocks
  BY <1>1 DEF FreeBlocks, OutBlocks
<1>6. Healthy
  BY DEF IInv
<1>7. Whole'
  BY <1>1, <1>4, <1>5, <1>6 DEF Healthy, Whole
<1>8. Fits(split, FreeBlocks, limit)' /\ Apart(FreeBlocks, limit)'
  BY <1>1, <1>5, <1>6 DEF Healthy
<1>9. Reserved'
  BY <1>1, <1>5, <1>6 DEF Healthy, Reserved
<1> QED
  BY <1>1, <1>2, <1>3, <1>7, <1>8, <1>9 DEF IInv, Healthy


(* A smaller summand keeps a sum below its bound.                          *)
LEMMA SumRule ==
  ASSUME NEW u \in Int, NEW v \in Int, NEW w \in Int, NEW m \in Int, u + v <= m, w <= v
  PROVE  u + w <= m
OBVIOUS

(* The free blocks after a push and after a pop.                           *)
LEMMA PushFree ==
  ASSUME limit \in Buckets, AreLists(free, limit), limit' = limit,
         NEW b \in limit..Depth, NEW x \in Nat, <<x, b>> \notin FreeBlocks,
         free' = [free EXCEPT ![b] = Append(@, x)]
  PROVE  AreLists(free', limit) /\ FreeBlocks' = FreeBlocks \cup {<<x, b>>}
<1> DEFINE B == FreeBlocks \cup {<<x, b>>}
<1>1. PICK g : g = free'
  OBVIOUS
<1>2. free[b] \in Seq(Nat) /\ IsInjective(free[b]) /\ x \notin Range(free[b])
  BY FreeIsListed, ListedRule DEF AreLists
<1>3. /\ Append(free[b], x) \in Seq(Nat) /\ IsInjective(Append(free[b], x))
      /\ Range(Append(free[b], x)) = Range(free[b]) \cup {x}
  BY <1>2, Pushed
<1>4. /\ g[b] = Append(free[b], x) /\ \A c \in limit..Depth : c # b => g[c] = free[c]
      /\ g \in [limit..Depth -> Seq(Nat)]
  BY <1>1, <1>3 DEF AreLists
<1>5. AreLists(g, limit)
  BY <1>3, <1>4 DEF AreLists
<1>6. ASSUME NEW c \in limit..Depth, NEW y
      PROVE  y \in Range(g[c]) <=> <<y, c>> \in B
  <2>1. y \in Range(g[c]) <=> y \in Range(free[c]) \/ (c = b /\ y = x)
    BY <1>3, <1>4
  <2>2. y \in Range(free[c]) <=> <<y, c>> \in FreeBlocks
    BY FreeIsListed, ListedRule
  <2> QED
    BY <2>1, <2>2
<1>7. \A c \in B : \E e \in limit..Depth : \E y : c = <<y, e>>
  BY FreeIsListed, ListedRule
<1>8. Listed(g, limit) = B
  <2> HIDE DEF B
  <2> QED
    BY ONLY <1>6, <1>7, ListedEqual
<1>9. FreeBlocks' = Listed(free', limit)
  BY DEF FreeBlocks, Listed
<1> QED
  BY <1>1, <1>5, <1>8, <1>9

(* The free blocks after a pop,                                            *)
LEMMA PopFree ==
  ASSUME limit \in Buckets, AreLists(free, limit), limit' = limit,
         NEW b \in limit..Depth, free[b] # << >>,
         free' = [free EXCEPT ![b] = Front(@)]
  PROVE  /\ Last(free[b]) \in Nat /\ <<Last(free[b]), b>> \in FreeBlocks
         /\ AreLists(free', limit)
         /\ FreeBlocks' = FreeBlocks \ {<<Last(free[b]), b>>}
<1> DEFINE g == [free EXCEPT ![b] = Front(@)]
           x == Last(free[b])
<1>1. /\ x \in Nat /\ <<x, b>> \in Listed(free, limit)
      /\ AreLists(g, limit) /\ Listed(g, limit) = Listed(free, limit) \ {<<x, b>>}
  BY ListsPop
<1>2. FreeBlocks' = Listed(free', limit)
  BY DEF FreeBlocks, Listed
<1>3. free' = g
  OBVIOUS
<1> HIDE DEF g, x
<1>4. /\ x \in Nat /\ <<x, b>> \in FreeBlocks
      /\ AreLists(free', limit) /\ FreeBlocks' = FreeBlocks \ {<<x, b>>}
  BY <1>1, <1>2, <1>3, FreeIsListed
<1> QED
  BY <1>4 DEF x

(* and after an unlink.                                                    *)
LEMMA UnlinkFree ==
  ASSUME limit \in Buckets, AreLists(free, limit), limit' = limit, NEW x \in Nat,
         free' = [b \in limit..Depth |-> RemoveFirst(free[b], x)]
  PROVE  /\ AreLists(free', limit)
         /\ FreeBlocks' = {c \in FreeBlocks : c[1] # x}
<1>1. PICK g : g = free'
  OBVIOUS
<1>2. g = [b \in limit..Depth |-> RemoveFirst(free[b], x)]
  BY <1>1
<1>3. limit \in Buckets /\ AreLists(free, limit) /\ x \in Nat
  OBVIOUS
<1>4. AreLists(g, limit) /\ Listed(g, limit) = {c \in Listed(free, limit) : c[1] # x}
  BY ONLY <1>2, <1>3, ListsUnlink
<1>5. FreeBlocks' = Listed(free', limit)
  BY DEF FreeBlocks, Listed
<1> QED
  BY <1>1, <1>4, <1>5, FreeIsListed
(* The inductive invariant holds at first, and each action keeps it.       *)
LEMMA InitHolds ==
  ASSUME Init
  PROVE  IInv
<1>1. Depth \in Buckets
  BY PowerRule DEF Buckets
<1>2. free \in [Depth..Depth -> Seq(Nat)]
  <2>1. Depth..Depth = {Depth}
    BY PowerRule
  <2>2. << >> \in Seq(Nat)
    OBVIOUS
  <2> QED
    BY <2>1, <2>2 DEF Init
<1>3. \A b \in Depth..Depth : IsInjective(free[b])
  <2>1. Depth..Depth = {Depth}
    BY PowerRule
  <2>2. IsInjective(<< >>)
    BY DEF IsInjective
  <2> QED
    BY <2>1, <2>2 DEF Init
<1>4. out \in [DOMAIN out -> Requests] /\ \A a \in DOMAIN out : Gross(out[a]) <= MaxAlloc
  BY DEF Init
<1>5. 0 \in Buckets
  BY PowerRule DEF Buckets
<1>6. AreLists(free, limit)
  BY <1>2, <1>3 DEF Init, AreLists
<1>7. Types
  <2>1. ready \in BOOLEAN
    BY Zenon DEF Init
  <2>2. max \in Int
    BY DEF Init
  <2>3. limit \in Buckets /\ bucket \in Buckets /\ goal \in Buckets
    BY <1>1, <1>5, Zenon DEF Init
  <2>4. pc \in {"idle", "search", "split", "merge", "spin"}
    BY DEF Init
  <2> QED
    BY <1>4, <1>6, <2>1, <2>2, <2>3, <2>4 DEF Types
<1>8. Calls /\ Fresh
  BY DEF Init, Calls, Fresh
<1> QED
  BY <1>7, <1>8 DEF Init, IInv

(* The first call: the tree is one block of the smallest size.             *)
LEMMA SetUpHolds ==
  ASSUME IInv, ~ready, SetUp, UNCHANGED out, pc' = "search"
  PROVE  Healthy' /\ max' \in Int /\ limit' = Depth
         /\ AreLists(free, limit)'
<1>1. out = << >> /\ split = {} /\ split' = {}
  BY DEF IInv, Fresh, SetUp
<1>2. Depth \in Buckets /\ Depth..Depth = {Depth} /\ limit' = Depth
      /\ free' = [b \in {Depth} |-> << 0 >>] /\ 0 * Size(Depth) = 0
  BY PowerRule, SizeRule DEF Buckets, SetUp
<1>3. << 0 >> \in Seq(Nat) /\ IsInjective(<< 0 >>) /\ Range(<< 0 >>) = {0}
  BY DEF IsInjective, Range
<1>4. AreLists(free', Depth)
  BY <1>2, <1>3 DEF AreLists
<1>5. FreeBlocks' = {Block(Depth, 0)}
  <2>1. FreeBlocks' = Listed(free', Depth)
    BY <1>2 DEF FreeBlocks, Listed
  <2>2. \A b \in Depth..Depth : \A a : a \in Range(free'[b]) <=> <<a, b>> \in {<<0, Depth>>}
    BY <1>2, <1>3
  <2>3. \A c \in {<<0, Depth>>} : \E b \in Depth..Depth : \E a : c = <<a, b>>
    BY <1>2
  <2>4. Listed(free', Depth) = {<<0, Depth>>}
    <3> DEFINE B == {<<0, Depth>>}
    <3>1. /\ \A c \in B : \E b \in Depth..Depth : \E a : c = <<a, b>>
          /\ \A b \in Depth..Depth : \A a : a \in Range(free'[b]) <=> <<a, b>> \in B
      BY <2>2, <2>3
    <3>2. Listed(free', Depth) = B
      <4> HIDE DEF B
      <4> QED
        BY ONLY <3>1, ListedEqual
    <3> QED
      BY <3>2
  <2> QED
    BY <1>2, <2>1, <2>4 DEF Block
<1>6. OutBlocks' = {} /\ Hand' = {}
  BY <1>1 DEF OutBlocks, Hand
<1>7. Whole'
  BY <1>2, <1>5, <1>6, TilesRoot DEF Whole
<1>8. Fits(split', FreeBlocks', Depth)
  BY <1>1, <1>2, <1>5, FitsRoot
<1>9. Apart(FreeBlocks', Depth)
  BY <1>2, PowerRule DEF Apart
<1>10. max' \in Int /\ ListSize <= max'
  <2>1. max' = Chunk * ((Prefix + ListSize + Chunk - 1) \div Chunk) - Prefix
    BY DEF SetUp
  <2>2. ASSUME NEW c \in Nat \ {0}, NEW x \in Nat
        PROVE  c * ((x + c - 1) \div c) >= x /\ c * ((x + c - 1) \div c) \in Int
    OBVIOUS
  <2>3. Chunk * ((Prefix + ListSize + Chunk - 1) \div Chunk) >= Prefix + ListSize
        /\ Chunk * ((Prefix + ListSize + Chunk - 1) \div Chunk) \in Int
    BY <2>2, BuddyAssumption
  <2> DEFINE x == Chunk * ((Prefix + ListSize + Chunk - 1) \div Chunk)
  <2> HIDE DEF x
  <2> QED
    BY <2>1, <2>3, BuddyAssumption DEF x
<1>11. Reserved'
  <2>1. Block(Depth, 0)[1] = 0 /\ 0 + ListSize <= max'
    BY <1>2, <1>10, BuddyAssumption DEF Block
  <2> QED
    BY <1>5, <1>6, <2>1 DEF Reserved
<1> QED
  BY <1>2, <1>4, <1>7, <1>8, <1>9, <1>10, <1>11 DEF Healthy

(* malloc is called.                                                       *)
LEMMA MallocCallKeeps ==
  ASSUME IInv, NEW r \in Requests, MallocCall(r)
  PROVE  IInv'
<1>1. /\ pc = "idle" /\ Gross(r) <= MaxAlloc /\ pc' = "search" /\ request' = r
      /\ bucket' = BucketForRequest(Gross(r)) /\ goal' = bucket'
      /\ UNCHANGED <<out, node>>
  BY DEF MallocCall
<1>2. Gross(r) \in Nat
  BY GrossIsNumber
<1>3. bucket' \in Buckets /\ goal' \in Buckets /\ bucket' \in Int
  BY <1>1, <1>2, RequestFits DEF Buckets
<1>4. node' = 0 /\ goal' <= bucket' /\ bucket' <= BucketForRequest(Gross(request'))
  BY <1>1, <1>3 DEF IInv, Calls
<1>5. CASE ready
  <2>1. UNCHANGED <<heap, out>>
    BY <1>1, <1>5 DEF MallocCall
  <2> QED
    BY <1>1, <1>3, <1>4, <1>5, <2>1, Quiet
<1>6. CASE ~ready
  <2>1. SetUp
    BY <1>6 DEF MallocCall
  <2>2. Healthy' /\ max' \in Int /\ limit' = Depth /\ AreLists(free, limit)'
    BY <1>1, <1>6, <2>1, SetUpHolds
  <2>3. ready' = TRUE /\ limit' \in Buckets
    BY <2>1, <2>2, PowerRule DEF SetUp, Buckets
  <2>4. Types'
    BY <1>1, <1>3, <2>2, <2>3 DEF IInv, Types, MaxAlloc
  <2>5. Calls'
    BY <1>1, <1>3, <1>4, <2>3 DEF Calls, Original, MaxAlloc
  <2> QED
    BY <2>2, <2>3, <2>4, <2>5 DEF IInv
<1> QED
  BY <1>5, <1>6

(* malloc gives up, in its loop or in one of the calls it makes.           *)
LEMMA ReturnNothingKeeps ==
  ASSUME IInv, pc = "search", ReturnNothing
  PROVE  IInv'
<1>1. 0 \in Buckets
  BY PowerRule DEF Buckets
<1>2. ready
  BY DEF IInv, Calls
<1> QED
  BY <1>1, <1>2, Quiet DEF ReturnNothing, Return

(* malloc looks at the next larger bucket.                                 *)
LEMMA TryLargerKeeps ==
  ASSUME IInv, TryLarger
  PROVE  IInv'
<1>1. /\ ready /\ pc = "search" /\ node = 0 /\ bucket \in Buckets
      /\ request \in Requests /\ Gross(request) <= MaxAlloc /\ bucket <= Original
      /\ UNCHANGED <<heap, out>>
  BY DEF IInv, Types, Calls, TryLarger
<1>2. CASE bucket = 0
  <2>1. Return
    BY <1>2 DEF TryLarger
  <2> QED
    BY <1>1, <2>1, ReturnNothingKeeps DEF ReturnNothing
<1>3. CASE bucket # 0
  <2>1. bucket' = bucket - 1 /\ goal' = bucket' /\ UNCHANGED <<pc, request, node>>
    BY <1>3 DEF TryLarger
  <2>2. bucket' \in Buckets /\ goal' <= bucket'
    BY <1>1, <1>3, <2>1, PowerRule DEF Buckets
  <2>3. bucket' <= Original
    <3>1. Gross(request) \in Nat
      BY <1>1, GrossIsNumber
    <3>2. Original \in Buckets
      BY <1>1, <3>1, RequestFits DEF Original
    <3> QED
      BY <1>1, <2>1, <3>2 DEF Buckets
  <2> QED
    BY <1>1, <2>1, <2>2, <2>3, Quiet DEF Original
<1> QED
  BY <1>2, <1>3

(* malloc asks for a larger tree.                                          *)
LEMMA GrowOnceKeeps ==
  ASSUME IInv, GrowOnce
  PROVE  IInv'
<1>1. /\ ready /\ pc = "search" /\ node = 0 /\ bucket \in Buckets /\ bucket # 0
      /\ request \in Requests /\ Gross(request) <= MaxAlloc /\ bucket <= Original
      /\ goal' = bucket - 1
      /\ UNCHANGED <<heap, out, pc, request, bucket, node>>
  BY DEF IInv, Types, Calls, GrowOnce
<1>2. goal' \in Buckets /\ goal' <= bucket'
  BY <1>1, PowerRule DEF Buckets
<1> QED
  BY <1>1, <1>2, Quiet DEF Original

(* The root and its buddy to be.                                           *)
LEMMA RootRule ==
  ASSUME NEW l \in Buckets
  PROVE  /\ NodeForPtr(0, l) = Index(l, 0)
         /\ PtrForNode(NodeForPtr(0, l) + 1, l) = Size(l)
         /\ l # 0 => Parent(NodeForPtr(0, l)) = Index(l - 1, 0)
         /\ Block(l, 0) = <<0, l>> /\ Block(l, 1) = <<Size(l), l>>
         /\ l \in l..Depth /\ 0 \in Width(l, l)
<1>1. Size(l) \in Nat /\ 0 * Size(l) = 0 /\ 1 * Size(l) = Size(l) /\ 0 \div 2 = 0
  BY SizeRule
<1>2. NodeForPtr(0 * Size(l), l) = Index(l, 0)
  BY NodeRule
<1>3. Index(l, 0) + 1 = Index(l, 1)
  <2>1. Pow2[l] \in Nat
    BY PowerIsNumber, PowerRule DEF Buckets
  <2> QED
    BY <2>1 DEF Index
<1>4. PtrForNode(Index(l, 1), l) = 1 * Size(l)
  BY NodeRule
<1>5. l # 0 => Parent(Index(l, 0)) = Index(l - 1, 0 \div 2)
  BY ParentRule
<1>6. l \in l..Depth /\ 0 \in Width(l, l)
  BY RootWidth DEF Buckets
<1> QED
  BY <1>1, <1>2, <1>3, <1>4, <1>5, <1>6 DEF Block

(* The tree grows while everything is free.                                *)
LEMMA GrowFreeKeeps ==
  ASSUME IInv, GrowFree
  PROVE  IInv'
<1> DEFINE m == limit - 1
<1>1. /\ pc = "search" /\ goal < limit /\ ~ParentIsSplit(split, Root)
      /\ limit' = m
      /\ UNCHANGED <<ready, max, split, out, local>>
  BY DEF GrowFree
<1>2. ready /\ Types /\ Calls /\ Healthy
  BY <1>1 DEF IInv, Calls
<1>3. limit \in Buckets /\ limit # 0 /\ m \in Buckets /\ max \in Int /\ AreLists(free, limit)
  BY <1>1, <1>2, PowerRule DEF Types, Buckets
<1>4. Index(m, 0) \notin split
  BY <1>1, <1>3, RootRule DEF ParentIsSplit, Root
<1>5. Block(limit, 0) \in FreeBlocks
  <2>1. 0 \div 2 = 0 /\ limit \in limit..Depth /\ 0 \in Width(limit, limit)
    BY <1>3, RootRule
  <2> QED
    BY <1>2, <1>3, <1>4, <2>1 DEF Healthy, Fits
<1>6. FreeBlocks \cup OutBlocks \cup Hand = {Block(limit, 0)}
  BY <1>2, <1>3, <1>5, TilesRoot DEF Healthy, Whole
<1>7. FreeBlocks = {Block(limit, 0)} /\ OutBlocks = {} /\ Hand = {}
  BY <1>2, <1>5, <1>6 DEF Healthy, Whole
<1>8. split = {}
  BY <1>2, <1>3, <1>7, FitsRoot DEF Healthy
<1>9. AreLists(free', m) /\ FreeBlocks' = {Block(m, 0)}
  <2>1. free' = [b \in m..Depth |-> IF b = m THEN << 0 >> ELSE RemoveFirst(free[b], 0)]
    BY <1>1 DEF GrowFree
  <2>2. AreLists(free', m)
        /\ Listed(free', m) = {c \in Listed(free, limit) : c[1] # 0} \cup {<<0, m>>}
    BY <1>3, <2>1, ListsGrowFree
  <2>3. FreeBlocks' = Listed(free', m)
    BY <1>1 DEF FreeBlocks, Listed
  <2>4. Listed(free, limit) = {<<0, limit>>} /\ Block(m, 0) = <<0, m>>
    BY <1>3, <1>7, FreeIsListed, RootRule
  <2>5. {c \in Listed(free, limit) : c[1] # 0} = {}
    BY <2>4
  <2> QED
    BY <2>2, <2>3, <2>4, <2>5
<1>10. OutBlocks' = {} /\ Hand' = {}
  <2>1. UNCHANGED <<pc, out, node, bucket>>
    BY <1>1 DEF local
  <2> QED
    BY <1>7, <2>1 DEF OutBlocks, Hand
<1>11. Whole'
  BY <1>1, <1>3, <1>9, <1>10, TilesRoot DEF Whole
<1>12. Fits(split, FreeBlocks, limit)'
  BY <1>1, <1>3, <1>8, <1>9, FitsRoot
<1>13. Apart(FreeBlocks, limit)'
  <2> SUFFICES ASSUME NEW b \in (m + 1)..Depth, NEW k \in Width(m, b), Block(b, k) = Block(m, 0)
               PROVE  FALSE
    BY <1>1, <1>9 DEF Apart
  <2>1. b = m
    BY DEF Block
  <2> QED
    BY <1>3, <2>1 DEF Buckets
<1>14. Reserved'
  <2>1. Block(limit, 0)[1] = 0 /\ Block(m, 0)[1] = 0
    BY <1>3, RootRule
  <2>2. 0 + ListSize <= max
    BY <1>2, <1>5, <2>1 DEF Healthy, Reserved
  <2>3. pc' = "search"
    BY <1>1 DEF local
  <2> QED
    BY <1>1, <1>9, <1>10, <2>1, <2>2, <2>3 DEF Reserved
<1>15. Types'
  BY <1>1, <1>2, <1>3, <1>9 DEF Types, local, MaxAlloc
<1>16. Calls'
  BY <1>1, <1>2 DEF Calls, local, Original, MaxAlloc
<1> QED
  BY <1>1, <1>2, <1>11, <1>12, <1>13, <1>14, <1>15, <1>16 DEF IInv, Healthy

(* The tree grows while something is in use.                               *)
LEMMA GrowUsedKeeps ==
  ASSUME IInv, GrowUsed
  PROVE  IInv'
<1> DEFINE m == limit - 1
<1>1. /\ pc = "search" /\ goal < limit /\ ParentIsSplit(split, Root)
      /\ UpdateMax(PtrForNode(Root + 1, limit) + ListSize)
      /\ limit' = m
      /\ split' = IF Parent(Root) # 0 THEN Flip(split, Parent(Root)) ELSE split
      /\ UNCHANGED <<ready, out, local>>
  BY DEF GrowUsed
<1>2. ready /\ Types /\ Calls /\ Healthy
  BY <1>1 DEF IInv, Calls
<1>3. limit \in Buckets /\ limit # 0 /\ m \in Buckets /\ max \in Int /\ AreLists(free, limit)
      /\ Size(limit) \in Nat
  <2>1. limit \in Buckets /\ limit # 0 /\ m \in Buckets
    BY <1>1, <1>2, PowerRule DEF Types, Buckets
  <2>2. max \in Int /\ AreLists(free, limit)
    BY <1>2 DEF Types
  <2> QED
    BY <2>1, <2>2, SizeRule
<1>4. PtrForNode(Root + 1, limit) = Size(limit) /\ Parent(Root) = Index(m, 0)
      /\ Block(limit, 1) = <<Size(limit), limit>>
  BY <1>3, RootRule DEF Root
<1>5. max' \in Int /\ max <= max' /\ Size(limit) + ListSize <= max'
  <2>1. Size(limit) + ListSize \in Int
    BY <1>3, BuddyAssumption
  <2> QED
    BY <1>1, <1>3, <1>4, <2>1, MaxGrows
<1>6. Index(m, 0) \in split
  BY <1>1, <1>4 DEF ParentIsSplit
<1>7. m = 0 <=> Index(m, 0) = 0
  <2>1. m \in m..Depth /\ 0 \in Width(m, m)
    BY <1>3, RootRule
  <2> QED
    BY <1>3, <2>1, NodeInTree
<1>8. (m = 0 => split' = split) /\ (m # 0 => split' = Flip(split, Index(m, 0)))
  BY <1>1, <1>4, <1>7
<1> DEFINE B == FreeBlocks \cup OutBlocks \cup Hand
<1>9. Tiles(B, limit) /\ FreeBlocks \subseteq Blocks(limit)
  BY <1>2 DEF Healthy, Whole, Tiles
<1>10. Block(limit, 1) \notin B /\ Tiles(B \cup {Block(limit, 1)}, m)
  BY <1>3, <1>9, TilesGrow
<1>11. AreLists(free', m) /\ FreeBlocks' = FreeBlocks \cup {Block(limit, 1)}
  <2>1. free' = [b \in m..Depth |->
                   IF b = m THEN << >>
                   ELSE IF b = limit THEN Append(free[b], Size(limit)) ELSE free[b]]
    BY <1>1, <1>4 DEF GrowUsed
  <2>2. <<Size(limit), limit>> \notin Listed(free, limit)
    BY <1>4, <1>10, FreeIsListed
  <2>3. AreLists(free', m)
        /\ Listed(free', m) = Listed(free, limit) \cup {<<Size(limit), limit>>}
    <3>1. limit \in Buckets /\ limit # 0 /\ AreLists(free, limit) /\ Size(limit) \in Nat
      BY <1>3
    <3> QED
      BY ONLY <3>1, <2>1, <2>2, ListsGrowUsed
  <2>4. FreeBlocks' = Listed(free', m)
    BY <1>1 DEF FreeBlocks, Listed
  <2> QED
    BY <1>4, <2>3, <2>4, FreeIsListed
<1>12. OutBlocks' = OutBlocks /\ Hand' = {} /\ Hand = {} /\ pc' = "search"
  <2>1. UNCHANGED <<pc, out, node, bucket>>
    BY <1>1 DEF local
  <2> QED
    BY <1>1, <2>1 DEF OutBlocks, Hand
<1>13. Whole'
  <2>1. FreeBlocks' \cup OutBlocks' \cup Hand' = B \cup {Block(limit, 1)}
    BY <1>11, <1>12
  <2>2. Tiles(FreeBlocks' \cup OutBlocks' \cup Hand', m)
    BY <1>10, <2>1
  <2>3. FreeBlocks \cap OutBlocks = {}
    BY <1>2 DEF Healthy, Whole
  <2> QED
    BY <1>1, <1>10, <1>11, <1>12, <2>2, <2>3 DEF Whole
<1>14. Block(limit, 0) \notin FreeBlocks /\ Fits(split', FreeBlocks \cup {Block(limit, 1)}, m)
  <2>1. Fits(split, FreeBlocks, limit)
    BY <1>2 DEF Healthy
  <2> QED
    BY <1>3, <1>6, <1>8, <1>9, <2>1, FitsGrow
<1>15. Apart(FreeBlocks \cup {Block(limit, 1)}, m)
  <2>1. Apart(FreeBlocks, limit)
    BY <1>2 DEF Healthy
  <2> QED
    BY <1>3, <1>9, <1>14, <2>1, ApartGrow
<1>16. Reserved'
  <2>1. ASSUME NEW c \in FreeBlocks' PROVE c[1] + ListSize <= max'
    <3>1. CASE c \in FreeBlocks
      <4>1. c[1] \in Nat
        BY <1>3, <1>9, <3>1, TreeBlock
      <4>2. c[1] + ListSize <= max
        BY <1>2, <3>1 DEF Healthy, Reserved
      <4> QED
        BY <1>3, <1>5, <4>1, <4>2, BuddyAssumption
    <3>2. CASE c = Block(limit, 1)
      BY <1>4, <1>5, <3>2
    <3> QED
      BY <1>11, <3>1, <3>2
  <2>2. ASSUME NEW c \in OutBlocks PROVE c[1] + Size(c[2]) <= max'
    <3>1. c \in Blocks(limit)
      BY <1>9 DEF Tiles
    <3>2. c[1] \in Nat /\ Size(c[2]) \in Nat
      BY <1>3, <3>1, TreeBlock, SizeRule
    <3>3. c[1] + Size(c[2]) <= max
      BY <1>2 DEF Healthy, Reserved
    <3> QED
      BY <1>3, <1>5, <3>2, <3>3
  <2> QED
    BY <1>12, <2>1, <2>2 DEF Reserved
<1>17. Types'
  BY <1>1, <1>2, <1>3, <1>5, <1>11 DEF Types, local, MaxAlloc
<1>18. Calls'
  BY <1>1, <1>2 DEF Calls, local, Original, MaxAlloc
<1>19. Fits(split, FreeBlocks, limit)' /\ Apart(FreeBlocks, limit)'
  BY <1>1, <1>11, <1>14, <1>15
<1> QED
  BY <1>1, <1>2, <1>13, <1>16, <1>17, <1>18, <1>19 DEF IInv, Healthy

(* What holds of the blocks of a healthy heap, for reuse below.            *)
LEMMA HealthyBlocks ==
  ASSUME IInv, ready
  PROVE  /\ limit \in Buckets /\ max \in Int /\ AreLists(free, limit)
         /\ Tiles(FreeBlocks \cup OutBlocks \cup Hand, limit)
         /\ FreeBlocks \cap (OutBlocks \cup Hand) = {} /\ OutBlocks \cap Hand = {}
         /\ \A c \in FreeBlocks \cup OutBlocks : c \in Blocks(limit) /\ c[1] \in Nat
         /\ \A c \in FreeBlocks : c[1] + ListSize <= max
         /\ \A c \in OutBlocks : c[1] + Size(c[2]) <= max /\ Size(c[2]) \in Nat
<1>1. Types /\ Whole /\ Reserved
  BY DEF IInv, Healthy
<1>2. limit \in Buckets /\ max \in Int /\ AreLists(free, limit)
  BY <1>1 DEF Types
<1>3. \A c \in FreeBlocks \cup OutBlocks : c \in Blocks(limit)
  BY <1>1 DEF Whole, Tiles
<1>4. \A c \in FreeBlocks \cup OutBlocks : c[1] \in Nat /\ c[2] \in Buckets
  BY <1>2, <1>3, TreeBlock
<1>5. \A c \in FreeBlocks : c[1] + ListSize <= max
  BY <1>1 DEF Reserved
<1>6. \A c \in OutBlocks : c[1] + Size(c[2]) <= max /\ Size(c[2]) \in Nat
  BY <1>1, <1>4, SizeRule DEF Reserved
<1> QED
  BY <1>1, <1>2, <1>3, <1>4, <1>5, <1>6 DEF Whole

(* What is reserved stays so when max grows.                               *)
LEMMA StaysReserved ==
  ASSUME IInv, ready, max' \in Int, max <= max'
  PROVE  /\ \A c \in FreeBlocks : c[1] + ListSize <= max'
         /\ \A c \in OutBlocks : c[1] + Size(c[2]) <= max'
<1>1. /\ max \in Int
      /\ \A c \in FreeBlocks \cup OutBlocks : c[1] \in Nat
      /\ \A c \in FreeBlocks : c[1] + ListSize <= max
      /\ \A c \in OutBlocks : c[1] + Size(c[2]) <= max /\ Size(c[2]) \in Nat
  BY HealthyBlocks
<1>2. ListSize \in Nat
  BY BuddyAssumption
<1> QED
  BY <1>1, <1>2

(* malloc takes a block off its list.                                      *)
LEMMA TakeKeeps ==
  ASSUME IInv, Take
  PROVE  IInv'
<1> DEFINE a == Last(free[bucket])
           c == <<a, bucket>>
           B == FreeBlocks \cup OutBlocks \cup Hand
<1>1. /\ pc = "search" /\ limit <= goal /\ free[bucket] # << >>
      /\ UpdateMax(a + BytesNeeded)
      /\ free' = [free EXCEPT ![bucket] = Front(@)]
      /\ node' = NodeForPtr(a, bucket)
      /\ split' = IF node' # 0 THEN Flip(split, node') ELSE split
      /\ pc' = "split"
      /\ UNCHANGED <<ready, limit, out, request, bucket, goal>>
  BY DEF Take
<1>2. ready /\ Types /\ Calls /\ Healthy
  BY <1>1 DEF IInv, Calls
<1>3. /\ limit \in Buckets /\ bucket \in Buckets /\ limit <= bucket /\ bucket \in limit..Depth
      /\ AreLists(free, limit) /\ max \in Int
      /\ request \in Requests /\ Gross(request) <= MaxAlloc /\ bucket <= Original
  <2>1. /\ limit \in Buckets /\ bucket \in Buckets /\ goal \in Buckets /\ goal <= bucket
        /\ AreLists(free, limit) /\ max \in Int
        /\ request \in Requests /\ Gross(request) <= MaxAlloc /\ bucket <= Original
    BY <1>1, <1>2 DEF Types, Calls
  <2> QED
    BY <1>1, <2>1 DEF Buckets
<1>4. /\ a \in Nat /\ c \in FreeBlocks
      /\ AreLists(free', limit) /\ FreeBlocks' = FreeBlocks \ {c}
  BY <1>1, <1>3, PopFree
<1>5. PICK k \in Width(limit, bucket) : c = Block(bucket, k) /\ a = k * Size(bucket)
  <2>1. c \in Blocks(limit)
    BY <1>2, <1>4, HealthyBlocks
  <2>2. c[1] = a /\ c[2] = bucket
    OBVIOUS
  <2> HIDE DEF c
  <2> QED
    BY <1>3, <2>1, <2>2, TreeBlock
<1>6. /\ k \in Nat /\ node' = Index(bucket, k)
      /\ PtrForNode(node', bucket) = a
      /\ (node' = 0 <=> bucket = 0)
  <2>1. k \in Nat
    BY <1>3, NodeInTree
  <2>2. node' = Index(bucket, k)
    BY <1>1, <1>3, <1>5, <2>1, NodeRule
  <2> QED
    BY <1>3, <1>5, <2>1, <2>2, NodeInTree
<1>7. OutBlocks' = OutBlocks /\ Hand = {} /\ Hand' = {c}
  <2>1. OutBlocks' = OutBlocks /\ Hand = {}
    BY <1>1 DEF OutBlocks, Hand
  <2>2. Hand' = {<<PtrForNode(node', bucket), bucket>>}
    BY <1>1 DEF Hand
  <2> QED
    BY <1>6, <2>1, <2>2
<1>8. Whole'
  <2>1. Whole
    BY <1>2 DEF Healthy
  <2>2. FreeBlocks' \cup OutBlocks' \cup Hand' = B
    BY <1>4, <1>7
  <2>3. Tiles(FreeBlocks' \cup OutBlocks' \cup Hand', limit)
    BY <2>1, <2>2 DEF Whole
  <2>4. /\ FreeBlocks' \cap (OutBlocks' \cup Hand') = {}
        /\ OutBlocks' \cap Hand' = {}
    BY <1>4, <1>7, <2>1 DEF Whole
  <2> QED
    BY <1>1, <2>3, <2>4 DEF Whole
<1>9. Fits(split', FreeBlocks', limit)
  <2>1. (bucket = 0 => split' = split) /\ (bucket # 0 => split' = Flip(split, Index(bucket, k)))
    BY <1>1, <1>6
  <2>2. \A d : d \in FreeBlocks' <=> IF d = Block(bucket, k) THEN d \notin FreeBlocks ELSE d \in FreeBlocks
    BY <1>4, <1>5
  <2>3. Fits(split, FreeBlocks, limit)
    BY <1>2 DEF Healthy
  <2> QED
    BY <1>3, <2>1, <2>2, <2>3, FitsToggle
<1>10. Apart(FreeBlocks', limit)
  BY <1>2, <1>4 DEF Healthy, Apart
<1>11. max' \in Int /\ max <= max' /\ a + BytesNeeded <= max'
  <2>1. BytesNeeded \in Int
    <3>1. Size(bucket) \in Nat /\ ListSize \in Nat
      BY <1>3, SizeRule, BuddyAssumption
    <3>2. Size(bucket) \div 2 \in Int
      BY <3>1
    <3> QED
      BY <3>1, <3>2 DEF BytesNeeded
  <2> QED
    BY <1>1, <1>3, <1>4, <2>1, MaxGrows
<1>12. Reserved'
  <2>1. BytesNeeded' = BytesNeeded
    BY <1>1 DEF BytesNeeded, Original
  <2>2. PtrForNode(node', bucket') + BytesNeeded' <= max'
    BY <1>1, <1>6, <1>11, <2>1
  <2>3. /\ \A d \in FreeBlocks' : d[1] + ListSize <= max'
        /\ \A d \in OutBlocks' : d[1] + Size(d[2]) <= max'
    BY <1>2, <1>4, <1>7, <1>11, StaysReserved
  <2> QED
    BY <1>1, <2>2, <2>3 DEF Reserved
<1>13. Types'
  BY <1>1, <1>2, <1>4, <1>11 DEF Types, MaxAlloc
<1>14. Calls'
  <2>1. \E j \in Width(limit, bucket) : node' = Index(bucket, j)
    BY <1>6
  <2> QED
    BY <1>1, <1>2, <1>3, <2>1 DEF Calls, Original, MaxAlloc
<1> QED
  BY <1>1, <1>2, <1>8, <1>9, <1>10, <1>12, <1>13, <1>14 DEF IInv, Healthy

(* malloc divides the block in its hand.                                   *)
LEMMA SplitKeeps ==
  ASSUME IInv, Split
  PROVE  IInv'
<1> DEFINE B == FreeBlocks \cup OutBlocks \cup Hand
<1>1. /\ pc = "split" /\ bucket < Original
      /\ node' = 2 * node + 1
      /\ bucket' = bucket + 1
      /\ split' = Flip(split, node')
      /\ free' = [free EXCEPT ![bucket'] = Append(@, PtrForNode(node' + 1, bucket'))]
      /\ UNCHANGED <<ready, max, limit, out, pc, request, goal>>
  BY DEF Split
<1>2. ready /\ Types /\ Calls /\ Healthy
  BY <1>1 DEF IInv, Calls
<1>3. PICK k \in Width(limit, bucket) :
        /\ k \in Nat /\ node = Index(bucket, k)
        /\ PtrForNode(node, bucket) = k * Size(bucket)
        /\ Hand = {Block(bucket, k)}
  BY <1>1, HandIsBlock
<1>4. /\ limit \in Buckets /\ bucket \in limit..Depth /\ bucket \in Buckets
      /\ AreLists(free, limit) /\ max \in Int
      /\ request \in Requests /\ Gross(request) <= MaxAlloc
  BY <1>1, <1>2, HandIsBlock DEF Types, Calls
<1>5. bucket # Depth /\ bucket + 1 <= Original /\ Original \in Buckets
  <2>1. Gross(request) \in Nat
    BY <1>4, GrossIsNumber
  <2>2. Original \in Buckets
    BY <1>4, <2>1, RequestFits DEF Original
  <2> QED
    BY <1>1, <1>4, <2>2, PowerRule DEF Buckets
<1>6. /\ bucket + 1 \in limit..Depth /\ bucket + 1 \in Buckets /\ bucket + 1 # 0
      /\ 2 * k \in Width(limit, bucket + 1) /\ 2 * k + 1 \in Width(limit, bucket + 1)
      /\ 2 * k \in Nat /\ 2 * k + 1 \in Nat
  <2>1. /\ bucket + 1 \in limit..Depth
        /\ 2 * k \in Width(limit, bucket + 1) /\ 2 * k + 1 \in Width(limit, bucket + 1)
    BY <1>4, <1>5, HalvesWidth
  <2>2. bucket + 1 \in Buckets /\ bucket + 1 # 0
    BY <1>4, <2>1, WidthRule DEF Buckets
  <2> QED
    BY <1>3, <2>1, <2>2
<1> DEFINE d == Block(bucket + 1, 2 * k)
           e == Block(bucket + 1, 2 * k + 1)
           s == Size(bucket + 1)
<1>7. /\ node' = Index(bucket + 1, 2 * k)
      /\ PtrForNode(node', bucket + 1) = k * Size(bucket)
      /\ PtrForNode(node' + 1, bucket + 1) = k * Size(bucket) + s
      /\ d = <<k * Size(bucket), bucket + 1>>
      /\ e = <<k * Size(bucket) + s, bucket + 1>>
      /\ Size(bucket) = 2 * s /\ s \in Nat /\ k * Size(bucket) \in Nat
  <2>1. /\ (2 * k) * s = k * Size(bucket) /\ (2 * k + 1) * s = k * Size(bucket) + s
        /\ Size(bucket) = 2 * s
    BY <1>3, <1>4, <1>5, HalvesBytes
  <2>2. node' = Index(bucket + 1, 2 * k) /\ node' + 1 = Index(bucket + 1, 2 * k + 1)
    <3>1. 2 * Index(bucket, k) + 1 = Index(bucket + 1, 2 * k)
          /\ 2 * Index(bucket, k) + 2 = Index(bucket + 1, 2 * k + 1)
      BY <1>3, <1>4, <1>5, ChildRule
    <3>2. Index(bucket, k) \in Nat
      BY <1>3, <1>4, NodeRule
    <3>3. (2 * Index(bucket, k) + 1) + 1 = 2 * Index(bucket, k) + 2
      BY <3>2
    <3> QED
      BY <1>1, <1>3, <3>1, <3>3
  <2>3. /\ PtrForNode(Index(bucket + 1, 2 * k), bucket + 1) = (2 * k) * s
        /\ PtrForNode(Index(bucket + 1, 2 * k + 1), bucket + 1) = (2 * k + 1) * s
    BY <1>6, NodeRule
  <2>4. d = <<(2 * k) * s, bucket + 1>> /\ e = <<(2 * k + 1) * s, bucket + 1>>
    BY DEF Block
  <2>5. s \in Nat /\ k * Size(bucket) \in Nat
    BY <1>3, <1>4, <1>6, SizeRule, NodeRule
  <2> QED
    BY <2>1, <2>2, <2>3, <2>4, <2>5
<1>8. /\ Tiles(B, limit)
      /\ FreeBlocks \cap (OutBlocks \cup Hand) = {} /\ OutBlocks \cap Hand = {}
  BY <1>2, HealthyBlocks
<1>9. /\ d \notin B /\ e \notin B /\ d # e
      /\ Tiles((B \ {Block(bucket, k)}) \cup {d, e}, limit)
  <2>1. Block(bucket, k) \in B
    BY <1>3
  <2> QED
    BY <1>4, <1>5, <1>8, <2>1, TilesSplit
<1>10. AreLists(free', limit) /\ FreeBlocks' = FreeBlocks \cup {e}
  <2> DEFINE x == k * Size(bucket) + s
  <2>1. free' = [free EXCEPT ![bucket + 1] = Append(@, x)]
    BY <1>1, <1>7
  <2>2. x \in Nat
    BY <1>7
  <2>3. e = <<x, bucket + 1>>
    BY <1>7
  <2>4. <<x, bucket + 1>> \notin FreeBlocks
    BY <1>9, <2>3
  <2> HIDE DEF x, e
  <2>5. PICK m : m = bucket + 1
    OBVIOUS
  <2>6. AreLists(free', limit) /\ FreeBlocks' = FreeBlocks \cup {<<x, m>>}
    BY <1>1, <1>4, <1>6, <2>1, <2>2, <2>4, <2>5, PushFree
  <2> QED
    BY <2>3, <2>5, <2>6
<1>11. OutBlocks' = OutBlocks /\ Hand' = {d}
  <2>1. OutBlocks' = OutBlocks
    BY <1>1 DEF OutBlocks
  <2>2. Hand' = {<<PtrForNode(node', bucket + 1), bucket + 1>>}
    BY <1>1 DEF Hand
  <2> QED
    BY <1>7, <2>1, <2>2
<1> HIDE DEF d, e
<1>12. Whole'
  <2>1. FreeBlocks' \cup OutBlocks' \cup Hand' = (B \ {Block(bucket, k)}) \cup {d, e}
    BY <1>3, <1>8, <1>10, <1>11
  <2>2. Tiles(FreeBlocks' \cup OutBlocks' \cup Hand', limit)
    BY <1>9, <2>1
  <2>3. FreeBlocks' \cap (OutBlocks' \cup Hand') = {} /\ OutBlocks' \cap Hand' = {}
    BY <1>8, <1>9, <1>10, <1>11
  <2> QED
    BY <1>1, <2>2, <2>3 DEF Whole
<1>13. Fits(split', FreeBlocks', limit)
  <2>1. Other(2 * k) = 2 * k + 1
    BY <1>3, OtherRule
  <2>2. split' = Flip(split, Index(bucket + 1, 2 * k + 1))
    BY <1>1, <1>6, <1>7, <2>1, FlipSibling
  <2>3. \A x : x \in FreeBlocks'
                 <=> IF x = Block(bucket + 1, 2 * k + 1) THEN x \notin FreeBlocks ELSE x \in FreeBlocks
    BY <1>9, <1>10 DEF e
  <2>4. Fits(split, FreeBlocks, limit)
    BY <1>2 DEF Healthy
  <2> QED
    BY <1>4, <1>6, <2>2, <2>3, <2>4, FitsToggle
<1>14. Apart(FreeBlocks', limit)
  <2>1. Block(bucket + 1, Other(2 * k + 1)) \notin FreeBlocks
    BY <1>3, <1>9, OtherRule DEF d
  <2>2. Apart(FreeBlocks, limit)
    BY <1>2 DEF Healthy
  <2> QED
    BY <1>4, <1>6, <1>10, <2>1, <2>2, ApartAdd DEF e
<1>15. Reserved'
  <2> DEFINE a == k * Size(bucket)
  <2>1. /\ a \in Nat /\ s \in Nat /\ ListSize \in Nat /\ Size(bucket) = 2 * s
        /\ e[1] = a + s /\ PtrForNode(node', bucket + 1) = a
    BY <1>7, BuddyAssumption
  <2>2. a + BytesNeeded <= max
    BY <1>1, <1>2, <1>3 DEF Healthy, Reserved
  <2>3. BytesNeeded = Size(bucket) \div 2 + ListSize
    BY <1>1 DEF BytesNeeded
  <2>4. BytesNeeded' = IF bucket + 1 < Original THEN s \div 2 + ListSize ELSE s
    BY <1>1 DEF BytesNeeded, Original
  <2>5. max \in Int
    BY <1>4
  <2> HIDE DEF a, s, e
  <2>6. BytesNeeded = s + ListSize
    BY <2>1, <2>3
  <2>7. BytesNeeded' <= s + ListSize /\ BytesNeeded' \in Int
    BY <2>1, <2>4
  <2>8. a + BytesNeeded' <= max /\ e[1] + ListSize <= max
    <3>1. a + (s + ListSize) <= max
      BY <2>2, <2>6
    <3>2. (a + s) + ListSize <= max
      BY <2>1, <3>1
    <3>3. e[1] + ListSize <= max
      BY <2>1, <3>2
    <3>4. a \in Int /\ s + ListSize \in Int
      BY <2>1
    <3>5. a + BytesNeeded' <= max
      BY <2>5, <2>7, <3>1, <3>4, SumRule
    <3> QED
      BY <3>3, <3>5
  <2>9. PtrForNode(node', bucket') + BytesNeeded' <= max'
    BY <1>1, <2>1, <2>8
  <2>10. /\ \A c \in FreeBlocks : c[1] + ListSize <= max
         /\ \A c \in OutBlocks : c[1] + Size(c[2]) <= max
    BY <1>2, HealthyBlocks
  <2> QED
    BY <1>1, <1>10, <1>11, <2>8, <2>9, <2>10 DEF Reserved
<1>16. Types'
  BY <1>1, <1>2, <1>6, <1>10 DEF Types, MaxAlloc
<1>17. Calls'
  <2>1. \E j \in Width(limit, bucket + 1) : node' = Index(bucket + 1, j)
    BY <1>6, <1>7
  <2>2. limit <= bucket + 1
    BY <1>4, <1>6 DEF Buckets
  <2> QED
    BY <1>1, <1>2, <1>4, <1>5, <2>1, <2>2 DEF Calls, Original, MaxAlloc
<1> QED
  BY <1>1, <1>2, <1>12, <1>13, <1>14, <1>15, <1>16, <1>17 DEF IInv, Healthy


(* The block in hand is not out.                                           *)
LEMMA HandIsNotOut ==
  ASSUME IInv, pc \in {"split", "merge"}
  PROVE  PtrForNode(node, bucket) \notin DOMAIN out
<1> DEFINE a == PtrForNode(node, bucket)
           B == FreeBlocks \cup OutBlocks \cup Hand
<1>1. ready
  BY DEF IInv, Calls
<1>2. /\ limit \in Buckets
      /\ Tiles(B, limit)
      /\ OutBlocks \cap Hand = {}
  BY <1>1, HealthyBlocks
<1>3. <<a, bucket>> \in Hand
  BY DEF Hand
<1> HIDE DEF a
<1> SUFFICES ASSUME a \in DOMAIN out PROVE FALSE
  BY DEF a
<1>4. <<a, BucketForRequest(Gross(out[a]))>> \in OutBlocks
  BY OutRule
<1>5. PICK c \in OutBlocks : c[1] = a
  BY <1>4
<1>6. c \in B /\ <<a, bucket>> \in B /\ <<a, bucket>>[1] = a
  BY <1>3
<1>7. c = <<a, bucket>>
  BY <1>2, <1>5, <1>6, AddressIsUnique
<1> QED
  BY <1>2, <1>3, <1>7

(* malloc hands out the block in its hand.                                 *)
LEMMA MallocReturnsKeeps ==
  ASSUME IInv, MallocReturns
  PROVE  IInv'
<1> DEFINE a == PtrForNode(node, bucket)
           B == FreeBlocks \cup OutBlocks \cup Hand
<1>1. /\ pc = "split" /\ bucket = Original
      /\ out' = [x \in DOMAIN out \cup {a} |-> IF x = a THEN request ELSE out[x]]
      /\ UNCHANGED heap
      /\ pc' = "idle" /\ request' = 0 /\ bucket' = 0 /\ goal' = 0 /\ node' = 0
  BY DEF MallocReturns, Return
<1>2. ready /\ Types /\ Calls /\ Healthy
  BY <1>1 DEF IInv, Calls
<1>3. PICK k \in Width(limit, bucket) :
        k \in Nat /\ a = k * Size(bucket) /\ Hand = {Block(bucket, k)}
  BY <1>1, HandIsBlock
<1>4. Block(bucket, k) = <<a, bucket>>
  BY <1>3 DEF Block
<1>5. /\ limit \in Buckets /\ max \in Int /\ bucket \in Buckets
      /\ Tiles(B, limit)
      /\ FreeBlocks \cap (OutBlocks \cup Hand) = {} /\ OutBlocks \cap Hand = {}
      /\ request \in Requests /\ Gross(request) <= MaxAlloc
      /\ out \in [DOMAIN out -> Requests]
      /\ \A x \in DOMAIN out : Gross(out[x]) <= MaxAlloc
  BY <1>1, <1>2, HealthyBlocks DEF Types, Calls
<1> HIDE DEF a
<1>6. a \notin DOMAIN out
  BY <1>1, HandIsNotOut DEF a
<1>7. /\ DOMAIN out' = DOMAIN out \cup {a} /\ out'[a] = request
      /\ \A x \in DOMAIN out : out'[x] = out[x]
  BY <1>1, <1>6
<1>8. OutBlocks' = OutBlocks \cup {<<a, bucket>>}
  <2>1. BucketForRequest(Gross(out'[a])) = bucket
    BY <1>1, <1>7 DEF Original
  <2>2. OutBlocks' = {<<x, BucketForRequest(Gross(out'[x]))>> : x \in DOMAIN out'}
    BY DEF OutBlocks, BucketForRequest, MaxAlloc, Size
  <2> QED
    BY <1>7, <2>1, <2>2 DEF OutBlocks
<1>9. FreeBlocks' = FreeBlocks /\ Hand' = {}
  BY <1>1 DEF FreeBlocks, Hand, heap
<1>10. Whole'
  <2>1. FreeBlocks' \cup OutBlocks' \cup Hand' = B
    BY <1>3, <1>4, <1>8, <1>9
  <2>2. Tiles(FreeBlocks' \cup OutBlocks' \cup Hand', limit)
    BY <1>5, <2>1
  <2>3. FreeBlocks' \cap (OutBlocks' \cup Hand') = {} /\ OutBlocks' \cap Hand' = {}
    BY <1>3, <1>4, <1>5, <1>8, <1>9
  <2> QED
    BY <1>1, <2>2, <2>3 DEF Whole, heap
<1>11. Reserved'
  <2>1. a + BytesNeeded <= max
    BY <1>1, <1>2 DEF Healthy, Reserved, a
  <2>2. BytesNeeded = Size(bucket)
    BY <1>1, <1>5 DEF BytesNeeded, Buckets
  <2>3. <<a, bucket>>[1] = a /\ <<a, bucket>>[2] = bucket
    OBVIOUS
  <2>4. /\ \A c \in FreeBlocks : c[1] + ListSize <= max
        /\ \A c \in OutBlocks : c[1] + Size(c[2]) <= max
    BY <1>2, HealthyBlocks
  <2>5. \A c \in OutBlocks' : c[1] + Size(c[2]) <= max
    BY <1>8, <2>1, <2>2, <2>3, <2>4
  <2> QED
    BY <1>1, <1>9, <2>4, <2>5 DEF Reserved, heap
<1>12. Types'
  <2>1. 0 \in Buckets
    BY PowerRule DEF Buckets
  <2>2. out' \in [DOMAIN out' -> Requests]
    BY <1>1, <1>5, <1>7
  <2>3. \A x \in DOMAIN out' : Gross(out'[x]) <= MaxAlloc
    BY <1>5, <1>7
  <2> QED
    BY <1>1, <1>2, <2>1, <2>2, <2>3 DEF Types, MaxAlloc, heap
<1>13. Calls'
  BY <1>1, <1>2 DEF Calls, heap
<1>14. Fits(split', FreeBlocks', limit') /\ Apart(FreeBlocks', limit')
  BY <1>1, <1>2, <1>9 DEF Healthy, heap
<1> QED
  BY <1>1, <1>2, <1>10, <1>11, <1>12, <1>13, <1>14 DEF IInv, Healthy, heap

(* Only after the first call of malloc is anything out.                    *)
LEMMA OutIsReady ==
  ASSUME IInv, NEW a \in DOMAIN out
  PROVE  /\ ready
         /\ out[a] \in Requests /\ Gross(out[a]) \in Nat
         /\ BucketForRequest(Gross(out[a])) \in Buckets
         /\ <<a, BucketForRequest(Gross(out[a]))>> \in OutBlocks
<1>1. ready
  BY DEF IInv, Fresh
<1>2. out[a] \in Requests /\ Gross(out[a]) <= MaxAlloc
  BY DEF IInv, Types
<1>3. Gross(out[a]) \in Nat
  BY <1>2, GrossIsNumber
<1> QED
  BY <1>1, <1>2, <1>3, RequestFits, OutRule

(* resize writes another size into a header.                               *)
LEMMA ResizeKeeps ==
  ASSUME IInv, NEW a \in DOMAIN out, NEW r \in Requests, Resize(a, r)
  PROVE  IInv'
<1>1. /\ pc = "idle"
      /\ BucketForRequest(Gross(out[a])) = BucketForRequest(Gross(r))
      /\ out' = [out EXCEPT ![a] = r]
      /\ UNCHANGED <<heap, local>>
  BY DEF Resize
<1>2. ready /\ Types /\ Calls /\ Healthy
  BY OutIsReady DEF IInv
<1>3. Gross(r) <= MaxAlloc
  <2>1. BucketForRequest(Gross(r)) \in Buckets
    BY <1>1, OutIsReady
  <2>2. BucketForRequest(Gross(r)) # -1
    BY <2>1 DEF Buckets
  <2>3. Gross(r) \in Int /\ MaxAlloc \in Int
    BY GrossIsNumber, SizeRule, PowerRule DEF MaxAlloc, Buckets
  <2> QED
    BY <2>2, <2>3 DEF BucketForRequest
<1>4. /\ DOMAIN out' = DOMAIN out
      /\ \A x \in DOMAIN out : out'[x] = IF x = a THEN r ELSE out[x]
  BY <1>1
<1>5. OutBlocks' = OutBlocks
  <2>1. OutBlocks' = {<<x, BucketForRequest(Gross(out'[x]))>> : x \in DOMAIN out'}
    BY DEF OutBlocks, BucketForRequest, MaxAlloc, Size
  <2>2. \A x \in DOMAIN out :
          BucketForRequest(Gross(out'[x])) = BucketForRequest(Gross(out[x]))
    BY <1>1, <1>4
  <2> QED
    BY <1>4, <2>1, <2>2 DEF OutBlocks
<1>6. FreeBlocks' = FreeBlocks /\ Hand' = {} /\ Hand = {}
  BY <1>1 DEF FreeBlocks, Hand, heap, local
<1>7. Types'
  <2>1. out' \in [DOMAIN out' -> Requests]
    BY <1>1, <1>2, <1>4 DEF Types
  <2>2. \A x \in DOMAIN out' : Gross(out'[x]) <= MaxAlloc
    BY <1>2, <1>3, <1>4 DEF Types
  <2> QED
    BY <1>1, <1>2, <2>1, <2>2 DEF Types, MaxAlloc, heap, local
<1>8. Calls'
  BY <1>1, <1>2 DEF Calls, heap, local
<1>9. Reserved'
  BY <1>1, <1>2, <1>5, <1>6 DEF Healthy, Reserved, heap, local
<1>10. Whole'
  BY <1>1, <1>2, <1>5, <1>6 DEF Healthy, Whole, heap
<1> QED
  BY <1>1, <1>2, <1>6, <1>7, <1>8, <1>9, <1>10 DEF IInv, Healthy, heap

(* resize looks for the bucket of a size without one, and goes on looking. *)
LEMMA ResizeSpinsKeeps ==
  ASSUME IInv, NEW a \in DOMAIN out, NEW r \in Requests, ResizeSpins(a, r)
  PROVE  IInv'
<1>1. /\ pc = "idle" /\ pc' = "spin"
      /\ UNCHANGED <<heap, out>> /\ UNCHANGED <<request, bucket, goal, node>>
  BY DEF ResizeSpins
<1>2. ready /\ bucket \in Buckets /\ goal \in Buckets /\ node = 0 /\ request = 0
  BY <1>1, OutIsReady DEF IInv, Types, Calls
<1> QED
  BY <1>1, <1>2, Quiet

(* free takes a block back into its hand.                                  *)
LEMMA FreeCallKeeps ==
  ASSUME IInv, NEW a \in DOMAIN out, FreeCall(a)
  PROVE  IInv'
<1> DEFINE b == BucketForRequest(Gross(out[a]))
           B == FreeBlocks \cup OutBlocks \cup Hand
<1>1. /\ pc = "idle" /\ bucket' = b /\ node' = NodeForPtr(a, b) /\ pc' = "merge"
      /\ out' = [x \in DOMAIN out \ {a} |-> out[x]]
      /\ UNCHANGED <<heap, request, goal>>
  BY DEF FreeCall
<1>2. ready /\ Types /\ Calls /\ Healthy
  BY OutIsReady DEF IInv
<1>3. b \in Buckets /\ <<a, b>> \in OutBlocks
  BY OutIsReady
<1> HIDE DEF b
<1>4. /\ limit \in Buckets /\ max \in Int
      /\ Tiles(B, limit)
      /\ FreeBlocks \cap (OutBlocks \cup Hand) = {}
      /\ \A c \in FreeBlocks \cup OutBlocks : c \in Blocks(limit) /\ c[1] \in Nat
      /\ \A c \in FreeBlocks : c[1] + ListSize <= max
      /\ \A c \in OutBlocks : c[1] + Size(c[2]) <= max
  BY <1>2, HealthyBlocks
<1>5. PICK k \in Width(limit, b) : b \in limit..Depth /\ a = k * Size(b)
  <2>1. PICK c \in OutBlocks : c = <<a, b>>
    BY <1>3
  <2>2. c[1] = a /\ c[2] = b /\ c \in Blocks(limit)
    BY <1>4, <2>1
  <2> QED
    BY <1>4, <2>2, TreeBlock
<1>6. /\ node' = Index(b, k) /\ PtrForNode(node', b) = a
      /\ Block(b, k) = <<a, b>>
  <2>1. k \in Nat /\ PtrForNode(Index(b, k), b) = a
    BY <1>4, <1>5, NodeInTree
  <2>2. node' = Index(b, k)
    BY <1>1, <1>3, <1>5, <2>1, NodeRule
  <2> QED
    BY <1>5, <2>1, <2>2 DEF Block
<1>7. /\ DOMAIN out' = DOMAIN out \ {a}
      /\ \A x \in DOMAIN out' : out'[x] = out[x]
  BY <1>1
<1>8. OutBlocks' = OutBlocks \ {<<a, b>>}
  <2>1. OutBlocks' = {<<x, BucketForRequest(Gross(out'[x]))>> : x \in DOMAIN out'}
    BY DEF OutBlocks, BucketForRequest, MaxAlloc, Size
  <2> QED
    BY <1>7, <2>1 DEF OutBlocks, b
<1>9. FreeBlocks' = FreeBlocks /\ Hand = {} /\ Hand' = {<<a, b>>}
  <2>1. FreeBlocks' = FreeBlocks /\ Hand = {}
    BY <1>1 DEF FreeBlocks, Hand, heap
  <2>2. Hand' = {<<PtrForNode(node', b), b>>}
    BY <1>1 DEF Hand
  <2> QED
    BY <1>6, <2>1, <2>2
<1>10. Whole'
  <2>1. FreeBlocks' \cup OutBlocks' \cup Hand' = B
    BY <1>3, <1>8, <1>9
  <2>2. Tiles(FreeBlocks' \cup OutBlocks' \cup Hand', limit)
    BY <1>4, <2>1
  <2>3. FreeBlocks' \cap (OutBlocks' \cup Hand') = {} /\ OutBlocks' \cap Hand' = {}
    BY <1>3, <1>4, <1>8, <1>9
  <2> QED
    BY <1>1, <2>2, <2>3 DEF Whole, heap
<1>11. Reserved'
  <2>1. a + ListSize <= max
    <3>1. /\ a \in Nat /\ Size(b) \in Nat /\ ListSize <= Size(b) /\ ListSize \in Nat
      BY <1>3, <1>4, <1>5, NodeInTree, SizeRule, BuddyAssumption
    <3>2. a + Size(b) <= max
      BY <1>3, <1>4
    <3> QED
      BY <1>4, <3>1, <3>2, SumRule
  <2>2. PtrForNode(node', bucket') + ListSize <= max'
    BY <1>1, <1>6, <2>1 DEF heap
  <2> QED
    BY <1>1, <1>4, <1>8, <1>9, <2>2 DEF Reserved, heap
<1>12. Types'
  BY <1>1, <1>2, <1>3, <1>7 DEF Types, MaxAlloc, heap
<1>13. Calls'
  <2>1. limit <= b
    BY <1>3, <1>4, <1>5 DEF Buckets
  <2>2. \E j \in Width(limit, b) : node' = Index(b, j)
    BY <1>6
  <2> QED
    BY <1>1, <1>2, <2>1, <2>2 DEF Calls, heap
<1>14. Fits(split', FreeBlocks', limit') /\ Apart(FreeBlocks', limit')
  BY <1>1, <1>2, <1>9 DEF Healthy, heap
<1> QED
  BY <1>1, <1>2, <1>10, <1>11, <1>12, <1>13, <1>14 DEF IInv, Healthy, heap

(* When the loop of free stops: if the block has no buddy in the tree, or  *)
(* the buddy is not free.                                                  *)
LEMMA StopRule ==
  ASSUME IInv, pc = "merge", node # 0, split' = Flip(split, node),
         NEW k \in Width(limit, bucket), node = Index(bucket, k), Hand = {Block(bucket, k)}
  PROVE  /\ bucket # 0
         /\ Parent(node) = Index(bucket - 1, k \div 2)
         /\ Sibling(node) = Index(bucket, Other(k))
         /\ StopsAt(split', node) <=> (bucket = limit \/ Block(bucket, Other(k)) \notin FreeBlocks)
<1>1. limit \in Buckets /\ bucket \in limit..Depth /\ bucket \in Buckets
  BY HandIsBlock
<1>2. k \in Nat /\ bucket # 0
  BY <1>1, NodeInTree
<1>3. /\ Parent(node) = Index(bucket - 1, k \div 2)
      /\ Sibling(node) = Index(bucket, Other(k))
  BY <1>1, <1>2, ParentRule
<1>4. ready
  BY DEF IInv, Calls
<1>5. Fits(split, FreeBlocks, limit) /\ Block(bucket, k) \notin FreeBlocks
  BY <1>4 DEF IInv, Healthy, Whole
<1>6. Index(bucket - 1, k \div 2) \in split
        <=> (bucket = limit \/ Block(bucket, Other(k)) \in FreeBlocks)
  BY <1>1, <1>2, <1>5 DEF Fits
<1>7. Parent(node) \in split' <=> Parent(node) \notin split
  BY FlipRule
<1> QED
  BY <1>2, <1>3, <1>6, <1>7 DEF StopsAt, ParentIsSplit

(* free puts the block in its hand on a list.                              *)
LEMMA FreeReturnsKeeps ==
  ASSUME IInv, FreeReturns
  PROVE  IInv'
<1> DEFINE B == FreeBlocks \cup OutBlocks \cup Hand
<1>1. /\ pc = "merge"
      /\ IF node = 0 THEN UNCHANGED split
         ELSE split' = Flip(split, node) /\ StopsAt(split', node)
      /\ free' = [free EXCEPT ![bucket] = Append(@, PtrForNode(node, bucket))]
      /\ pc' = "idle" /\ request' = 0 /\ bucket' = 0 /\ goal' = 0 /\ node' = 0
      /\ UNCHANGED <<ready, max, limit, out>>
  BY DEF FreeReturns, Return
<1>2. ready /\ Types /\ Calls /\ Healthy
  BY <1>1 DEF IInv, Calls
<1>3. /\ limit \in Buckets /\ bucket \in limit..Depth /\ bucket \in Buckets
      /\ max \in Int /\ AreLists(free, limit)
      /\ Tiles(B, limit)
      /\ FreeBlocks \cap (OutBlocks \cup Hand) = {} /\ OutBlocks \cap Hand = {}
  BY <1>1, <1>2, HandIsBlock, HealthyBlocks
<1>4. PICK k \in Width(limit, bucket) :
        /\ k \in Nat /\ node = Index(bucket, k)
        /\ PtrForNode(node, bucket) = k * Size(bucket)
        /\ Hand = {Block(bucket, k)}
  BY <1>1, HandIsBlock
<1>5. node = 0 <=> bucket = 0
  BY <1>3, <1>4, NodeInTree
<1>6. /\ bucket = 0 => split' = split
      /\ bucket # 0 => split' = Flip(split, Index(bucket, k))
  BY <1>1, <1>4, <1>5
<1>7. bucket = limit \/ Block(bucket, Other(k)) \notin FreeBlocks
  <2>1. CASE bucket = 0
    BY <1>3, <2>1 DEF Buckets
  <2>2. CASE bucket # 0
    BY <1>1, <1>4, <1>5, <2>2, StopRule
  <2> QED
    BY <2>1, <2>2
<1>8. AreLists(free', limit) /\ FreeBlocks' = FreeBlocks \cup {Block(bucket, k)}
  <2> DEFINE x == PtrForNode(node, bucket)
  <2>1. Block(bucket, k) = <<x, bucket>> /\ x \in Nat
    BY <1>3, <1>4, NodeInTree DEF Block
  <2>2. <<x, bucket>> \notin FreeBlocks
    BY <1>3, <1>4, <2>1
  <2> HIDE DEF x
  <2>3. free' = [free EXCEPT ![bucket] = Append(@, x)]
    BY <1>1 DEF x
  <2> QED
    BY <1>1, <1>3, <2>1, <2>2, <2>3, PushFree
<1>9. OutBlocks' = OutBlocks /\ Hand' = {}
  BY <1>1 DEF OutBlocks, Hand
<1>10. Whole'
  <2>1. FreeBlocks' \cup OutBlocks' \cup Hand' = B
    BY <1>4, <1>8, <1>9
  <2>2. Tiles(FreeBlocks' \cup OutBlocks' \cup Hand', limit)
    BY <1>3, <2>1
  <2>3. FreeBlocks' \cap (OutBlocks' \cup Hand') = {} /\ OutBlocks' \cap Hand' = {}
    BY <1>3, <1>4, <1>8, <1>9
  <2> QED
    BY <1>1, <2>2, <2>3 DEF Whole
<1>11. Fits(split', FreeBlocks', limit)
  <2>1. Block(bucket, k) \notin FreeBlocks
    BY <1>3, <1>4
  <2>2. \A c : c \in FreeBlocks' <=> IF c = Block(bucket, k) THEN c \notin FreeBlocks ELSE c \in FreeBlocks
    BY <1>8, <2>1
  <2>3. Fits(split, FreeBlocks, limit)
    BY <1>2 DEF Healthy
  <2> QED
    BY <1>3, <1>6, <2>2, <2>3, FitsToggle
<1>12. Apart(FreeBlocks', limit)
  <2>1. Apart(FreeBlocks, limit)
    BY <1>2 DEF Healthy
  <2> QED
    BY <1>3, <1>7, <1>8, <2>1, ApartAdd
<1>13. Reserved'
  <2>1. Block(bucket, k)[1] = PtrForNode(node, bucket)
    BY <1>4 DEF Block
  <2>2. PtrForNode(node, bucket) + ListSize <= max
    BY <1>1, <1>2 DEF Healthy, Reserved
  <2>3. \A c \in FreeBlocks' : c[1] + ListSize <= max
    BY <1>2, <1>8, <2>1, <2>2, HealthyBlocks
  <2>4. \A c \in OutBlocks : c[1] + Size(c[2]) <= max
    BY <1>2, HealthyBlocks
  <2> QED
    BY <1>1, <1>9, <2>3, <2>4 DEF Reserved
<1>14. Types'
  <2>1. 0 \in Buckets
    BY PowerRule DEF Buckets
  <2> QED
    BY <1>1, <1>2, <1>8, <2>1 DEF Types, MaxAlloc
<1>15. Calls'
  BY <1>1, <1>2 DEF Calls
<1> QED
  BY <1>1, <1>2, <1>10, <1>11, <1>12, <1>13, <1>14, <1>15 DEF IInv, Healthy

(* free unites the block in its hand with its buddy.                       *)
LEMMA MergeKeeps ==
  ASSUME IInv, Merge
  PROVE  IInv'
<1> DEFINE B == FreeBlocks \cup OutBlocks \cup Hand
<1>1. /\ pc = "merge" /\ node # 0
      /\ split' = Flip(split, node)
      /\ ~StopsAt(split', node)
      /\ free' = [b \in limit..Depth |->
                    RemoveFirst(free[b], PtrForNode(Sibling(node), bucket))]
      /\ node' = Parent(node)
      /\ bucket' = bucket - 1
      /\ UNCHANGED <<ready, max, limit, out, pc, request, goal>>
  BY DEF Merge
<1>2. ready /\ Types /\ Calls /\ Healthy
  BY <1>1 DEF IInv, Calls
<1>3. /\ limit \in Buckets /\ bucket \in limit..Depth /\ bucket \in Buckets
      /\ max \in Int /\ AreLists(free, limit)
      /\ Tiles(B, limit)
      /\ FreeBlocks \cap (OutBlocks \cup Hand) = {} /\ OutBlocks \cap Hand = {}
  BY <1>1, <1>2, HandIsBlock, HealthyBlocks
<1>4. PICK k \in Width(limit, bucket) :
        /\ k \in Nat /\ node = Index(bucket, k)
        /\ PtrForNode(node, bucket) = k * Size(bucket)
        /\ Hand = {Block(bucket, k)}
  BY <1>1, HandIsBlock
<1> DEFINE d == Block(bucket, k)
           e == Block(bucket, Other(k))
           x == Other(k) * Size(bucket)
<1>5. /\ bucket # 0 /\ bucket # limit /\ e \in FreeBlocks
      /\ node' = Index(bucket - 1, k \div 2)
      /\ Sibling(node) = Index(bucket, Other(k))
  BY <1>1, <1>4, StopRule
<1>6. PICK m : m = bucket - 1
  OBVIOUS
<1>7. PICK j : j = k \div 2
  OBVIOUS
<1>8. /\ m \in limit..Depth /\ m # Depth /\ m \in Buckets /\ m + 1 = bucket
      /\ j \in Width(limit, m) /\ j \in Nat /\ Other(k) \in Width(limit, bucket)
      /\ Other(k) \in Nat
  <2>1. m \in limit..Depth /\ m # Depth /\ j \in Width(limit, m) /\ Other(k) \in Width(limit, bucket)
    BY <1>3, <1>4, <1>5, <1>6, <1>7, ParentWidth
  <2>2. m \in Buckets /\ j \in Nat
    BY <1>3, <2>1, NodeInTree
  <2>3. m + 1 = bucket
    BY <1>3, <1>6 DEF Buckets
  <2> QED
    BY <1>4, <2>1, <2>2, <2>3, OtherRule
<1>9. {d, e} = {Block(m + 1, 2 * j), Block(m + 1, 2 * j + 1)}
  <2>1. {k, Other(k)} = {2 * j, 2 * j + 1}
    BY <1>4, <1>7, OtherRule
  <2>2. \A u, v, y, z : {u, v} = {y, z} =>
          {Block(bucket, u), Block(bucket, v)} = {Block(bucket, y), Block(bucket, z)}
    BY DEF Block
  <2> QED
    BY <1>8, <2>1, <2>2
<1>10. Block(m, j) \notin B /\ Tiles((B \ {d, e}) \cup {Block(m, j)}, limit)
  <2>1. d \in B /\ e \in B
    BY <1>4, <1>5
  <2>2. Block(m + 1, 2 * j) \in B /\ Block(m + 1, 2 * j + 1) \in B
    BY <1>9, <2>1
  <2>3. /\ Block(m, j) \notin B
        /\ Tiles((B \ {Block(m + 1, 2 * j), Block(m + 1, 2 * j + 1)}) \cup {Block(m, j)}, limit)
    BY <1>3, <1>8, <2>2, TilesMerge
  <2> QED
    BY <1>9, <2>3
<1>11. AreLists(free', limit) /\ FreeBlocks' = FreeBlocks \ {e}
  <2>1. PtrForNode(Sibling(node), bucket) = x
    BY <1>3, <1>5, <1>8, NodeRule
  <2>2. e[1] = x /\ x \in Nat
    BY <1>3, <1>8, NodeRule DEF Block
  <2> HIDE DEF x, e
  <2>3. free' = [b \in limit..Depth |-> RemoveFirst(free[b], x)]
    BY <1>1, <2>1
  <2>4. AreLists(free', limit) /\ FreeBlocks' = {c \in FreeBlocks : c[1] # x}
    <3>1. limit \in Buckets /\ AreLists(free, limit) /\ limit' = limit /\ x \in Nat
      BY <1>1, <1>3, <2>2
    <3> QED
      BY ONLY <2>3, <3>1, UnlinkFree
  <2>5. ASSUME NEW c \in FreeBlocks, c[1] = x PROVE c = e
    <3>1. c \in B /\ e \in B /\ c[1] = e[1]
      BY <1>5, <2>2, <2>5
    <3> HIDE DEF B
    <3> QED
      BY <1>3, <3>1, AddressIsUnique
  <2> QED
    BY <2>2, <2>4, <2>5
<1>12. OutBlocks' = OutBlocks /\ Hand' = {Block(m, j)}
  <2>1. OutBlocks' = OutBlocks
    BY <1>1 DEF OutBlocks
  <2>2. Hand' = {<<PtrForNode(node', m), m>>}
    BY <1>1, <1>6 DEF Hand
  <2>3. node' = Index(m, j)
    BY <1>5, <1>6, <1>7
  <2> QED
    BY <1>3, <1>8, <2>1, <2>2, <2>3, NodeInTree
<1> HIDE DEF d, e, x
<1>13. Whole'
  <2>1. /\ e \in FreeBlocks /\ d \in Hand /\ Hand = {d} /\ e \notin Hand
        /\ d \notin FreeBlocks /\ d \notin OutBlocks /\ e \notin OutBlocks
    BY <1>3, <1>4, <1>5 DEF d
  <2>2. FreeBlocks' \cup OutBlocks' \cup Hand' = (B \ {d, e}) \cup {Block(m, j)}
    BY <1>11, <1>12, <2>1
  <2>3. Tiles(FreeBlocks' \cup OutBlocks' \cup Hand', limit)
    BY <1>10, <2>2
  <2>4. FreeBlocks' \cap (OutBlocks' \cup Hand') = {} /\ OutBlocks' \cap Hand' = {}
    BY <1>3, <1>10, <1>11, <1>12
  <2> QED
    BY <1>1, <2>3, <2>4 DEF Whole
<1>14. Fits(split', FreeBlocks', limit)
  <2>1. split' = Flip(split, Index(bucket, Other(k)))
    BY <1>1, <1>3, <1>4, <1>5, FlipSibling
  <2>2. \A c : c \in FreeBlocks'
                 <=> IF c = Block(bucket, Other(k)) THEN c \notin FreeBlocks ELSE c \in FreeBlocks
    BY <1>5, <1>11 DEF e
  <2>3. Fits(split, FreeBlocks, limit)
    BY <1>2 DEF Healthy
  <2> QED
    BY <1>3, <1>5, <1>8, <2>1, <2>2, <2>3, FitsToggle
<1>15. Apart(FreeBlocks', limit)
  BY <1>2, <1>11 DEF Healthy, Apart
<1>16. Reserved'
  <2>1. d[1] + ListSize <= max /\ e[1] + ListSize <= max
    <3>1. PtrForNode(node, bucket) + ListSize <= max /\ d[1] = PtrForNode(node, bucket)
      BY <1>1, <1>2, <1>4 DEF Healthy, Reserved, d, Block
    <3> QED
      BY <1>2, <1>5, <3>1, HealthyBlocks
  <2>2. Block(m + 1, 2 * j)[1] = Block(m, j)[1]
    <3>1. (2 * j) * Size(m + 1) = j * Size(m)
      BY <1>8, HalvesBytes
    <3> QED
      BY <3>1 DEF Block
  <2>3. Block(m, j)[1] + ListSize <= max
    <3>1. Block(m + 1, 2 * j) = d \/ Block(m + 1, 2 * j) = e
      BY <1>9
    <3> QED
      BY <2>1, <2>2, <3>1
  <2>4. PtrForNode(node', bucket') = Block(m, j)[1]
    <3>1. <<PtrForNode(Index(m, j), m), m>> = Block(m, j)
      BY <1>3, <1>8, NodeInTree
    <3> QED
      BY <1>1, <1>5, <1>6, <1>7, <3>1 DEF Block
  <2>5. PtrForNode(node', bucket') + ListSize <= max'
    BY <1>1, <2>3, <2>4
  <2> QED
    BY <1>1, <1>2, <1>11, <1>12, <2>5, HealthyBlocks DEF Reserved
<1>17. Types'
  BY <1>1, <1>2, <1>6, <1>8, <1>11 DEF Types, MaxAlloc
<1>18. Calls'
  <2>1. node' = Index(m, j) /\ limit <= m
    BY <1>3, <1>5, <1>6, <1>7, <1>8 DEF Buckets
  <2>2. \E i \in Width(limit, m) : node' = Index(m, i)
    BY <1>8, <2>1
  <2> QED
    BY <1>1, <1>2, <1>6, <2>1, <2>2 DEF Calls
<1> QED
  BY <1>1, <1>2, <1>13, <1>14, <1>15, <1>16, <1>17, <1>18 DEF IInv, Healthy

(* Every step keeps the inductive invariant.                               *)
LEMMA StepKeeps ==
  ASSUME IInv, [Next]_vars
  PROVE  IInv'
<1>1. CASE \E r \in Requests : MallocCall(r)
  BY <1>1, MallocCallKeeps
<1>2. CASE \E a \in DOMAIN out, r \in Requests : Resize(a, r)
  BY <1>2, ResizeKeeps
<1>3. CASE \E a \in DOMAIN out : FreeCall(a)
  BY <1>3, FreeCallKeeps
<1>4. CASE Continue
  <2>1. CASE GrowFails \/ TakeFails
    BY <2>1, ReturnNothingKeeps DEF GrowFails, TakeFails
  <2> QED
    BY <1>4, <2>1, GrowFreeKeeps, GrowUsedKeeps, TryLargerKeeps, GrowOnceKeeps, TakeKeeps,
       SplitKeeps, MallocReturnsKeeps, MergeKeeps, FreeReturnsKeeps DEF Continue
<1>5. CASE \E a \in DOMAIN out, r \in Requests : ResizeSpins(a, r)
  BY <1>5, ResizeSpinsKeeps
<1>6. CASE UNCHANGED vars
  BY <1>6 DEF vars, heap, local, IInv, Types, Calls, Fresh, Healthy, Whole, Reserved,
     FreeBlocks, OutBlocks, Hand, BytesNeeded, Original, MaxAlloc
<1> QED
  BY <1>1, <1>2, <1>3, <1>4, <1>5, <1>6 DEF Next, Spin

(* The inductive invariant, of which all that follows is a consequence.    *)
THEOREM IInvHolds == Spec => []IInv
<1>1. Init => IInv
  BY InitHolds
<1>2. IInv /\ [Next]_vars => IInv'
  BY StepKeeps
<1> QED
  BY <1>1, <1>2, PTL DEF Spec

-----------------------------------------------------------------------------
(* What the inductive invariant says of the properties the runs check.    *)

(* A block of the tree lies in the range.                                  *)
LEMMA BlockAddress ==
  ASSUME NEW l \in Buckets, NEW c \in Blocks(l)
  PROVE  /\ c[1] \in 0..(MaxAlloc - 1) /\ Bytes(c) \subseteq 0..(MaxAlloc - 1)
         /\ c[2] \in Buckets /\ Size(c[2]) \in Nat
<1>1. PICK b \in l..Depth : \E k \in Width(l, b) : c = Block(b, k)
  BY BlockInTree
<1>2. PICK k \in Width(l, b) : c = Block(b, k)
  BY <1>1
<1>3. b \in Buckets /\ k \in Nat /\ 0 \in Buckets
  BY NodeInTree, PowerRule DEF Buckets
<1>4. c[1] \in Bytes(c) /\ c[2] = b
  <2>1. /\ k * Size(b) \in Bytes(Block(b, k))
        /\ Block(b, k)[1] = k * Size(b) /\ Block(b, k)[2] = b
    BY <1>3, BytesRule
  <2> QED
    BY <1>2, <2>1
<1>5. Bytes(c) \subseteq 0..(Size(l) - 1)
  BY <1>2, BytesInTree
<1>6. Size(l) <= Size(0) /\ Size(l) \in Nat /\ Size(0) \in Nat /\ Size(b) \in Nat
  BY <1>3, SizeScale, SizeRule DEF Buckets
<1> QED
  BY <1>3, <1>4, <1>5, <1>6 DEF MaxAlloc

(* Only bits of nodes that have children are set.                          *)
LEMMA SplitInRange ==
  ASSUME NEW l \in Buckets, NEW S, NEW F, Fits(S, F, l)
  PROVE  S \subseteq 0..(Pow2[Depth] - 2)
<1> SUFFICES ASSUME NEW i \in S PROVE i \in 0..(Pow2[Depth] - 2)
  OBVIOUS
<1>1. PICK b \in l..Depth : \E k \in Width(l, b) : b # 0 /\ i = Index(b - 1, k \div 2)
  BY DEF Fits
<1>2. PICK k \in Width(l, b) : b # 0 /\ i = Index(b - 1, k \div 2)
  BY <1>1
<1>3. /\ b \in Buckets /\ Depth \in Nat /\ b - 1 \in Buckets /\ b \in 1..(Depth + 1)
      /\ Depth \in 0..(Depth + 1) /\ b \in 0..(Depth + 1) /\ b <= Depth /\ b \in Nat
      /\ b - 1 \in 0..(Depth + 1)
  BY <1>2, NodeInTree, PowerRule DEF Buckets
<1>4. k \in Nat /\ k <= Pow2[b - l] - 1 /\ Pow2[b - l] <= Pow2[b] /\ Pow2[b - l] \in Nat
  BY WidthRule DEF Width
<1> DEFINE p == Pow2[b - 1]
           q == Pow2[b]
           r == Pow2[Depth]
           w == Pow2[b - l]
<1>5. q = 2 * p /\ p \in Nat /\ p # 0 /\ q <= r /\ r \in Nat
  BY <1>3, PowerRule, PowerIsNumber, PowerGrows
<1>6. i = p - 1 + k \div 2
  BY <1>2 DEF Index
<1>7. k \in Nat /\ k <= w - 1 /\ w <= q /\ w \in Nat
  BY <1>4
<1> HIDE DEF p, q, r, w
<1>8. k \div 2 <= p - 1 /\ k \div 2 \in Nat
  BY <1>5, <1>7
<1>9. i \in 0..(r - 2)
  BY <1>5, <1>6, <1>8
<1> QED
  BY <1>9 DEF r

(* Every variable is in its range.                                         *)
LEMMA InvariantTypes ==
  ASSUME IInv
  PROVE  TypeOK
<1>1. Types /\ Calls
  BY DEF IInv
<1>2. /\ ready \in BOOLEAN /\ max \in Int /\ limit \in Buckets
      /\ pc \in {"idle", "search", "split", "merge", "spin"}
      /\ bucket \in Buckets /\ goal \in Buckets
      /\ free \in [limit..Depth -> Seq(Nat)]
      /\ out \in [DOMAIN out -> Requests]
  BY <1>1 DEF Types, AreLists
<1>3. \A b \in limit..Depth : \A k \in DOMAIN free[b] : free[b][k] \in 0..(MaxAlloc - 1)
  <2>1. CASE ready
    <3> SUFFICES ASSUME NEW b \in limit..Depth, NEW k \in DOMAIN free[b]
                 PROVE  free[b][k] \in 0..(MaxAlloc - 1)
      OBVIOUS
    <3> DEFINE c == <<free[b][k], b>>
    <3>1. c \in FreeBlocks /\ c[1] = free[b][k]
      BY DEF FreeBlocks
    <3> HIDE DEF c
    <3>2. c \in Blocks(limit)
      BY <2>1, <3>1, HealthyBlocks
    <3> QED
      BY <1>2, <3>1, <3>2, BlockAddress
  <2>2. CASE ~ready
    <3>1. limit = Depth /\ free = [b \in {Depth} |-> << >>] /\ Depth \in Nat
      BY <2>2, PowerRule DEF IInv, Fresh
    <3>2. ASSUME NEW b \in limit..Depth PROVE DOMAIN free[b] = {}
      BY <3>1
    <3> QED
      BY <3>2
  <2> QED
    BY <2>1, <2>2
<1>4. split \subseteq 0..(Pow2[Depth] - 2)
  BY <1>2, SplitInRange DEF IInv, Healthy, Fresh
<1>5. DOMAIN out \subseteq 0..(MaxAlloc - 1)
  <2> SUFFICES ASSUME NEW a \in DOMAIN out PROVE a \in 0..(MaxAlloc - 1)
    OBVIOUS
  <2>1. ready /\ <<a, BucketForRequest(Gross(out[a]))>> \in OutBlocks
    BY OutIsReady
  <2>2. PICK c \in OutBlocks : c[1] = a
    BY <2>1
  <2>3. c \in Blocks(limit)
    BY <2>1, HealthyBlocks
  <2> QED
    BY <1>2, <2>2, <2>3, BlockAddress
<1>6. request \in Requests \cup {0}
  BY <1>1, <1>2 DEF Calls
<1>7. node \in Nodes
  <2>1. 0 \in Nodes
    <3>1. /\ Depth + 1 \in 1..(Depth + 1) /\ (Depth + 1) - 1 = Depth
          /\ Depth \in 0..(Depth + 1)
      BY PowerRule
    <3>2. Pow2[Depth + 1] = 2 * Pow2[Depth] /\ Pow2[Depth] \in Nat \ {0}
      BY <3>1, PowerRule, PowerIsNumber
    <3> QED
      BY <3>2 DEF Nodes
  <2>2. CASE pc \in {"idle", "search", "spin"}
    BY <1>1, <2>1, <2>2 DEF Calls
  <2>3. CASE pc \in {"split", "merge"}
    <3>1. limit <= bucket /\ \E k \in Width(limit, bucket) : node = Index(bucket, k)
      BY <1>1, <2>3 DEF Calls
    <3>2. bucket \in limit..Depth
      BY <1>2, <3>1 DEF Buckets
    <3> QED
      BY <1>2, <3>1, <3>2, NodeInTree
  <2> QED
    BY <1>2, <2>2, <2>3
<1>8. DOMAIN free = limit..Depth /\ \A a \in DOMAIN out : out[a] \in Requests
  BY <1>2
<1> QED
  BY <1>2, <1>3, <1>4, <1>5, <1>6, <1>7, <1>8 DEF TypeOK

(* Every variable of the allocator stays in its range, whatever the loops  *)
(* of malloc and free do to the tree.                                      *)
THEOREM TypeCorrect == Spec => []TypeOK
<1>1. IInv => TypeOK
  BY InvariantTypes
<1> QED
  BY <1>1, IInvHolds, PTL

(* At every step of every call the free blocks, the blocks that are out    *)
(* and the one in hand are disjoint and together are the whole tree, and   *)
(* no list holds a block twice: malloc and free lose nothing and hand out  *)
(* nothing twice.                                                          *)
THEOREM BlocksPartition == Spec => []Partition
<1>1. IInv => Partition
  <2> SUFFICES ASSUME IInv PROVE Partition
    OBVIOUS
  <2>1. TypeOK
    BY InvariantTypes
  <2>2. ASSUME ready
        PROVE  /\ Memory(FreeBlocks \cup OutBlocks \cup Hand) = 0..(Size(limit) - 1)
               /\ \A c, d \in FreeBlocks \cup OutBlocks \cup Hand :
                    c # d => Bytes(c) \cap Bytes(d) = {}
               /\ FreeBlocks \cap (OutBlocks \cup Hand) = {}
               /\ OutBlocks \cap Hand = {}
               /\ \A b \in limit..Depth : IsInjective(free[b])
    BY <2>2, HealthyBlocks DEF Tiles, AreLists
  <2> QED
    BY <2>1, <2>2 DEF Partition
<1> QED
  BY <1>1, IInvHolds, PTL

(* No two buddies are both on a list: what free gives back is united as    *)
(* far as it can be, and malloc leaves nothing in pieces.                  *)
THEOREM FreeIsCoalesced == Spec => []Coalesced
<1>1. IInv => Coalesced
  <2> SUFFICES ASSUME IInv, NEW b \in (limit + 1)..Depth,
                      NEW i \in DOMAIN free[b], NEW j \in DOMAIN free[b],
                      NodeForPtr(free[b][i], b) = Sibling(NodeForPtr(free[b][j], b))
               PROVE  FALSE
    BY DEF Coalesced
  <2>1. limit \in Buckets /\ Depth \in Nat
    BY PowerRule DEF IInv, Types
  <2>2. b \in limit..Depth /\ b \in Buckets /\ b # 0
    BY <2>1 DEF Buckets
  <2>3. CASE ready
    <3>1. ASSUME NEW n \in DOMAIN free[b]
          PROVE  \E k \in Width(limit, b) :
                   /\ k \in Nat /\ Block(b, k) \in FreeBlocks
                   /\ NodeForPtr(free[b][n], b) = Index(b, k)
      <4> DEFINE c == <<free[b][n], b>>
      <4>1. c \in FreeBlocks /\ c[1] = free[b][n] /\ c[2] = b
        BY <2>2 DEF FreeBlocks
      <4> HIDE DEF c
      <4>2. c \in Blocks(limit)
        BY <2>3, <4>1, HealthyBlocks
      <4>3. PICK k \in Width(limit, b) : c = Block(b, k) /\ c[1] = k * Size(b)
        BY <2>1, <4>1, <4>2, TreeBlock
      <4>4. k \in Nat
        BY <2>1, <2>2, NodeInTree
      <4> QED
        BY <2>2, <4>1, <4>3, <4>4, NodeRule
    <3>2. PICK k \in Width(limit, b) :
            /\ k \in Nat /\ Block(b, k) \in FreeBlocks
            /\ NodeForPtr(free[b][i], b) = Index(b, k)
      BY <3>1
    <3>3. PICK n \in Width(limit, b) :
            /\ n \in Nat /\ Block(b, n) \in FreeBlocks
            /\ NodeForPtr(free[b][j], b) = Index(b, n)
      BY <3>1
    <3>4. Index(b, k) = Index(b, Other(n)) /\ Other(n) \in Nat
      <4>1. Sibling(Index(b, n)) = Index(b, Other(n)) /\ Other(n) \in Nat
        BY <2>2, <3>3, ParentRule, OtherRule
      <4> QED
        BY <3>2, <3>3, <4>1
    <3>5. k = Other(n)
      <4>1. Pow2[b] \in Nat
        BY <2>1, <2>2, WidthRule
      <4> QED
        BY <3>2, <3>4, <4>1 DEF Index
    <3>6. Apart(FreeBlocks, limit)
      BY <2>3 DEF IInv, Healthy
    <3> QED
      BY <3>2, <3>3, <3>5, <3>6 DEF Apart
  <2>4. CASE ~ready
    BY <2>1, <2>4 DEF IInv, Fresh
  <2> QED
    BY <2>3, <2>4
<1> QED
  BY <1>1, IInvHolds, PTL

(* No byte is touched that is not reserved: every list entry and every     *)
(* allocation lies below max_ptr, which grows before the memory is used    *)
(* and only if RESERVE had some.                                           *)
THEOREM OnlyReserved == Spec => []TouchesReserved
<1>1. IInv => TouchesReserved
  <2> SUFFICES ASSUME IInv PROVE TouchesReserved
    OBVIOUS
  <2>1. ASSUME ready PROVE TouchesReserved
    BY <2>1, HealthyBlocks DEF TouchesReserved
  <2>2. ASSUME ~ready PROVE TouchesReserved
    <3>1. OutBlocks = {}
      BY <2>2 DEF IInv, Fresh, OutBlocks
    <3> QED
      BY <2>2, <3>1 DEF TouchesReserved
  <2> QED
    BY <2>1, <2>2
<1> QED
  BY <1>1, IInvHolds, PTL

(* The allocations whose sizes are genuine.                                *)
Owned == [a \in Genuine |-> out[a]]

(* No two of these share a byte, and each lies in the range.               *)
LEMMA OutIsSound ==
  ASSUME IInv
  PROVE  Heap!Sound(Owned)
<1> DEFINE c(a) == <<a, BucketForRequest(Gross(out[a]))>>
<1>1. ASSUME NEW a \in DOMAIN out, out[a] + HeaderSize < Modulus
      PROVE  /\ c(a) \in OutBlocks
             /\ Bytes(c(a)) \subseteq 0..(MaxAlloc - 1)
             /\ a..(a + out[a] + HeaderSize - 1) \subseteq Bytes(c(a))
  <2>1. /\ ready /\ c(a) \in OutBlocks
        /\ out[a] \in Requests /\ Gross(out[a]) \in Nat
    BY OutIsReady
  <2>2. limit \in Buckets /\ c(a) \in Blocks(limit)
    BY <2>1, HealthyBlocks
  <2>3. PICK d : d = c(a)
    OBVIOUS
  <2>4. d[1] = a /\ d[2] = BucketForRequest(Gross(out[a]))
    BY <2>3
  <2>5. a \in 0..(MaxAlloc - 1) /\ Bytes(d) \subseteq 0..(MaxAlloc - 1) /\ Size(d[2]) \in Nat
    BY <2>2, <2>3, <2>4, BlockAddress
  <2>6. out[a] + HeaderSize <= Size(d[2])
    <3>1. Gross(out[a]) <= MaxAlloc
      BY DEF IInv, Types
    <3>2. Gross(out[a]) = out[a] + HeaderSize
      BY <1>1, <2>1, GrossIsNumber
    <3> QED
      BY <2>1, <2>4, <3>1, <3>2, RequestFits
  <2>7. out[a] \in Nat /\ HeaderSize \in Nat /\ MaxAlloc \in Nat
    <3>1. 0 \in Buckets
      BY PowerRule DEF Buckets
    <3>2. MaxAlloc \in Nat
      BY <3>1, SizeRule DEF MaxAlloc
    <3>3. HeaderSize \in Nat /\ Requests \subseteq Nat
      BY BuddyAssumption
    <3> QED
      BY <2>1, <3>2, <3>3
  <2>8. Bytes(d) = a..(a + Size(d[2]) - 1)
    BY <2>4 DEF Bytes
  <2>9. a..(a + out[a] + HeaderSize - 1) \subseteq Bytes(d)
    <3>1. PICK s : s = Size(d[2])
      OBVIOUS
    <3>2. PICK n : n = out[a]
      OBVIOUS
    <3>3. PICK h : h = HeaderSize
      OBVIOUS
    <3>4. a \in Nat /\ s \in Nat /\ n \in Nat /\ h \in Nat /\ n + h <= s
      BY <2>5, <2>6, <2>7, <3>1, <3>2, <3>3
    <3>5. a..(a + n + h - 1) \subseteq a..(a + s - 1)
      BY <3>4
    <3> QED
      BY <2>8, <3>1, <3>2, <3>3, <3>5
  <2> QED
    BY <2>1, <2>3, <2>5, <2>9
<1>2. ASSUME NEW a \in DOMAIN out, NEW b \in DOMAIN out, a # b
      PROVE  Bytes(c(a)) \cap Bytes(c(b)) = {}
  <2>1. ready /\ c(a) \in OutBlocks /\ c(b) \in OutBlocks /\ c(a) # c(b)
    BY <1>2, OutIsReady
  <2> QED
    BY <2>1, HealthyBlocks DEF Tiles
<1> HIDE DEF c
<1>3. ASSUME NEW a \in DOMAIN Owned
      PROVE  a \in DOMAIN out /\ out[a] + HeaderSize < Modulus /\ Owned[a] = out[a]
  BY DEF Owned, Genuine
<1>4. ASSUME NEW a \in DOMAIN Owned PROVE Heap!Extent(a, Owned[a]) \subseteq Bytes(c(a))
  BY <1>1, <1>3 DEF Heap!Extent
<1>5. ASSUME NEW a \in DOMAIN Owned
      PROVE  /\ Heap!Extent(a, Owned[a]) \subseteq 0..(MaxAlloc - 1)
             /\ \A b \in DOMAIN Owned \ {a} :
                  Heap!Extent(a, Owned[a]) \cap Heap!Extent(b, Owned[b]) = {}
  <2>1. Heap!Extent(a, Owned[a]) \subseteq 0..(MaxAlloc - 1)
    BY <1>1, <1>3, <1>4
  <2>2. ASSUME NEW b \in DOMAIN Owned, b # a
        PROVE  Heap!Extent(a, Owned[a]) \cap Heap!Extent(b, Owned[b]) = {}
    BY <1>2, <1>3, <1>4, <2>2
  <2> QED
    BY <2>1, <2>2
<1> QED
  BY <1>5 DEF Heap!Sound

(* Functions that differ at one place only.                                *)
LEMMA OneChanges ==
  ASSUME NEW p, NEW q, NEW a,
         p = [x \in DOMAIN p |-> p[x]], q = [x \in DOMAIN q |-> q[x]],
         DOMAIN p \ {a} = DOMAIN q \ {a},
         \A x \in DOMAIN p \ {a} : q[x] = p[x]
  PROVE  \/ p = q
         \/ \E b \in DOMAIN q \ DOMAIN p : p = [x \in DOMAIN q \ {b} |-> q[x]]
         \/ DOMAIN q = DOMAIN p /\ \E b \in DOMAIN p : \A x \in DOMAIN p \ {b} : q[x] = p[x]
         \/ \E b \in DOMAIN p : q = [x \in DOMAIN p \ {b} |-> p[x]]
<1>1. CASE a \in DOMAIN p /\ a \in DOMAIN q
  BY <1>1
<1>2. CASE a \in DOMAIN p /\ a \notin DOMAIN q
  <2>1. q = [x \in DOMAIN p \ {a} |-> p[x]]
    BY <1>2
  <2> QED
    BY <1>2, <2>1
<1>3. CASE a \notin DOMAIN p /\ a \in DOMAIN q
  <2>1. p = [x \in DOMAIN q \ {a} |-> q[x]]
    BY <1>3
  <2> QED
    BY <1>3, <2>1
<1>4. CASE a \notin DOMAIN p /\ a \notin DOMAIN q
  <2>1. DOMAIN p = DOMAIN q /\ \A x \in DOMAIN p : p[x] = q[x]
    BY <1>4
  <2> QED
    BY <2>1
<1> QED
  BY <1>1, <1>2, <1>3, <1>4

(* The buddy allocator is an allocator of every size that a number of the  *)
(* machine can hold together with the header: only the end of malloc,      *)
(* resize and free change what is out, each as HeapSpec says, and no two   *)
(* of these allocations ever share a byte or leave the range, whatever     *)
(* their headers add, and whatever sizes that wrap around are asked for    *)
(* besides.                                                                *)
THEOREM Refinement == Spec => ImplementsHeap
<1>1. Init => Heap!HeapInit
  BY DEF Init, Heap!HeapInit, Genuine
<1>2. IInv => Heap!Sound(Owned)
  BY OutIsSound
<1>3. IInv /\ Heap!Sound(Owned)' /\ [Next]_vars
        => [Heap!HeapNext]_([a \in Genuine |-> out[a]])
  <2> SUFFICES ASSUME IInv, Heap!Sound(Owned)', [Next]_vars
               PROVE  [Heap!HeapNext]_([a \in Genuine |-> out[a]])
    OBVIOUS
  <2>1. PICK p, q : p = [x \in Genuine |-> out[x]] /\ q = [x \in Genuine' |-> out'[x]]
    OBVIOUS
  <2>2. Heap!Sound(q)
    BY <2>1 DEF Heap!Sound, Heap!Extent, Owned
  <2>3. /\ p = [x \in DOMAIN p |-> p[x]] /\ q = [x \in DOMAIN q |-> q[x]]
        /\ DOMAIN p = {x \in DOMAIN out : out[x] + HeaderSize < Modulus}
        /\ DOMAIN q = {x \in DOMAIN out' : out'[x] + HeaderSize < Modulus}
        /\ \A x \in DOMAIN p : p[x] = out[x]
        /\ \A x \in DOMAIN q : q[x] = out'[x]
    BY <2>1 DEF Genuine
  <2>4. ASSUME NEW a, DOMAIN out \ {a} = DOMAIN out' \ {a},
               \A x \in DOMAIN out \ {a} : out'[x] = out[x]
        PROVE  [Heap!HeapNext]_([x \in Genuine |-> out[x]])
    <3>1. /\ DOMAIN p \ {a} = DOMAIN q \ {a}
          /\ \A x \in DOMAIN p \ {a} : q[x] = p[x]
      BY <2>3, <2>4
    <3>2. \/ p = q
          \/ \E b \in DOMAIN q \ DOMAIN p : p = [x \in DOMAIN q \ {b} |-> q[x]]
          \/ /\ DOMAIN q = DOMAIN p
             /\ \E b \in DOMAIN p : \A x \in DOMAIN p \ {b} : q[x] = p[x]
          \/ \E b \in DOMAIN p : q = [x \in DOMAIN p \ {b} |-> p[x]]
      BY ONLY <2>3, <3>1, OneChanges
    <3> QED
      BY <2>1, <2>2, <3>2 DEF Heap!HeapNext, Heap!Malloc, Heap!Resize, Heap!Free
  <2>5. CASE MallocReturns
    <3>1. PICK a : a = PtrForNode(node, bucket)
      OBVIOUS
    <3>2. a \notin DOMAIN out
      BY <2>5, <3>1, HandIsNotOut DEF MallocReturns
    <3>3. out' = [x \in DOMAIN out \cup {a} |-> IF x = a THEN request ELSE out[x]]
      BY <2>5, <3>1 DEF MallocReturns
    <3> QED
      BY <2>4, <3>2, <3>3
  <2>6. CASE \E a \in DOMAIN out, r \in Requests : Resize(a, r)
    <3>1. PICK a \in DOMAIN out, r \in Requests : out' = [out EXCEPT ![a] = r]
      BY <2>6 DEF Resize
    <3> QED
      BY <2>4, <3>1
  <2>7. CASE \E a \in DOMAIN out : FreeCall(a)
    <3>1. PICK a \in DOMAIN out : out' = [x \in DOMAIN out \ {a} |-> out[x]]
      BY <2>7 DEF FreeCall
    <3> QED
      BY <2>4, <3>1
  <2>8. CASE UNCHANGED out
    BY <2>4, <2>8
  <2>9. CASE \/ UNCHANGED vars
             \/ \E r \in Requests : MallocCall(r)
             \/ \E a \in DOMAIN out, r \in Requests : ResizeSpins(a, r)
             \/ Spin
             \/ Continue /\ ~MallocReturns
    BY <2>8, <2>9 DEF vars, MallocCall, ResizeSpins, Spin, Continue, GrowFree, GrowUsed,
       GrowFails, TryLarger, GrowOnce, Take, TakeFails, Split, Merge, FreeReturns, ReturnNothing
  <2> QED
    BY <2>5, <2>6, <2>7, <2>9 DEF Next
<1> QED
  BY <1>1, <1>2, <1>3, IInvHolds, PTL DEF Spec, ImplementsHeap, Heap!HeapSpec

-----------------------------------------------------------------------------
(* The bits.  The invariant speaks of blocks on the lists, the property of *)
(* bytes: a block that is unused may be in pieces, as far as the bytes     *)
(* say.  No two buddies being free, it is not.                             *)

(* Blocks of one bucket that share a byte are one block.                   *)
LEMMA SameBlock ==
  ASSUME NEW b \in Buckets, NEW j \in Nat, NEW k \in Nat,
         Bytes(Block(b, j)) \cap Bytes(Block(b, k)) # {}
  PROVE  j = k
<1> DEFINE x == j * Size(b)
           y == k * Size(b)
           s == Size(b)
<1>1. Bytes(Block(b, j)) = x..(x + s - 1) /\ x \in Nat /\ s \in Nat \ {0}
  BY BytesRule
<1>2. Bytes(Block(b, k)) = y..(y + s - 1) /\ y \in Nat
  BY BytesRule
<1>3. /\ Bytes(Block(b, j)) \subseteq Bytes(Block(b, k))
      /\ Bytes(Block(b, k)) \subseteq Bytes(Block(b, j))
  <2>1. b <= b /\ Bytes(Block(b, k)) \cap Bytes(Block(b, j)) # {}
    BY DEF Buckets
  <2> QED
    BY <2>1, BlocksNest
<1>4. x = y
  <2> HIDE DEF x, y, s
  <2>1. x \in x..(x + s - 1) /\ y \in y..(y + s - 1)
    BY <1>1, <1>2
  <2>2. x \in y..(y + s - 1) /\ y \in x..(x + s - 1)
    BY <1>1, <1>2, <1>3, <2>1
  <2> QED
    BY <1>1, <1>2, <2>2
<1>5. Block(b, j) = Block(b, k)
  BY <1>4 DEF Block
<1> QED
  BY <1>5, BlockIsUnique

(* A block all of whose bytes are in free blocks lies in one free block.   *)
LEMMA UnusedIsCovered ==
  ASSUME NEW l \in Buckets, NEW F, F \subseteq Blocks(l),
         \A c, d \in F : c # d => Bytes(c) \cap Bytes(d) = {},
         Apart(F, l),
         NEW b \in l..Depth, NEW k \in Width(l, b), Bytes(Block(b, k)) \subseteq Memory(F)
  PROVE  \E c \in F : c[2] <= b /\ Bytes(Block(b, k)) \subseteq Bytes(c)
<1> DEFINE Y == Bytes(Block(b, k))
           T == {n \in l..Depth : \E c \in F : c[2] = n /\ Bytes(c) \cap Y # {}}
<1>1. b \in Buckets /\ k \in Nat /\ Depth \in Nat
  BY NodeInTree, PowerRule
<1>2. ASSUME NEW c \in F
      PROVE  /\ c[2] \in l..Depth /\ c[2] \in Buckets
             /\ \E j \in Width(l, c[2]) : j \in Nat /\ c = Block(c[2], j)
  <2>1. c \in Blocks(l)
    OBVIOUS
  <2>2. c[2] \in l..Depth /\ c[2] \in Buckets
    BY <2>1, TreeBlock
  <2>3. PICK j \in Width(l, c[2]) : c = Block(c[2], j)
    BY <2>1, TreeBlock
  <2>4. j \in Nat
    BY <2>2, NodeInTree
  <2> QED
    BY <2>2, <2>3, <2>4
<1>3. T # {}
  <2>1. PICK x : x \in Y
    BY <1>1, BytesRule
  <2>2. PICK c \in F : x \in Bytes(c)
    BY <2>1 DEF Memory
  <2>3. c[2] \in T
    BY <1>2, <2>1, <2>2
  <2> QED
    BY <2>3
<1>4. T \subseteq 0..Depth
  BY <1>1 DEF Buckets
<1>5. PICK n \in T : \A m \in T : m <= n
  <2> HIDE DEF T
  <2> QED
    BY <1>1, <1>3, <1>4, GreatestNumber
<1>6. PICK c \in F : c[2] = n /\ Bytes(c) \cap Y # {}
  BY <1>5
<1>7. PICK j \in Width(l, n) : j \in Nat /\ c = Block(n, j) /\ n \in l..Depth /\ n \in Buckets
  BY <1>2, <1>6
<1>8. b \in Int /\ n \in Int /\ l \in Int
  BY <1>1, <1>7 DEF Buckets
<1>9. CASE n <= b
  <2>1. Bytes(Block(n, j)) \cap Bytes(Block(b, k)) # {}
    BY <1>6, <1>7
  <2>2. Bytes(Block(b, k)) \subseteq Bytes(Block(n, j))
    BY <1>1, <1>7, <1>9, <2>1, BlocksNest
  <2> QED
    BY <1>6, <1>7, <1>9, <2>2
<1>10. CASE ~(n <= b)
  <2>1. PICK m : m = n - 1
    OBVIOUS
  <2>2. PICK i : i = j \div 2
    OBVIOUS
  <2>3. PICK o : o = Other(j)
    OBVIOUS
  <2>4. /\ n # l /\ m \in l..Depth /\ m # Depth /\ m + 1 = n /\ b <= m /\ m \in Buckets
        /\ i \in Width(l, m) /\ i \in Nat /\ o \in Width(l, n) /\ o \in Nat
    <3>1. n # l
      BY <1>8, <1>10 DEF Buckets
    <3>2. m \in l..Depth /\ m # Depth /\ i \in Width(l, m) /\ o \in Width(l, n)
      BY <1>7, <2>1, <2>2, <2>3, <3>1, ParentWidth
    <3>3. m \in Buckets /\ i \in Nat /\ o \in Nat
      BY <1>7, <3>2, NodeInTree
    <3> QED
      BY <1>8, <1>10, <2>1, <3>1, <3>2, <3>3
  <2> DEFINE P == Bytes(Block(m, i))
             D == Bytes(Block(n, o))
  <2>5. /\ P = Bytes(c) \cup D /\ o # j
    <3>1. {j, o} = {2 * i, 2 * i + 1} /\ o # j
      BY <1>7, <2>2, <2>3, OtherRule
    <3>2. P = Bytes(Block(n, 2 * i)) \cup Bytes(Block(n, 2 * i + 1))
      BY <2>4, HalvesBytes
    <3>3. (j = 2 * i /\ o = 2 * i + 1) \/ (j = 2 * i + 1 /\ o = 2 * i)
      BY <3>1
    <3>4. Bytes(c) = Bytes(Block(n, j))
      BY <1>7
    <3> QED
      BY <3>1, <3>2, <3>3, <3>4
  <2>6. P \subseteq Y
    <3>1. P \cap Y # {}
      BY <1>6, <2>5
    <3>2. Bytes(Block(b, k)) \cap Bytes(Block(m, i)) # {}
      BY <3>1
    <3> QED
      BY <1>1, <2>4, <3>2, BlocksNest
  <2>7. PICK x : x \in D
    BY <1>7, <2>4, BytesRule
  <2>8. PICK e \in F : x \in Bytes(e)
    BY <2>5, <2>6, <2>7 DEF Memory
  <2>9. PICK u : u = e[2]
    OBVIOUS
  <2>10. PICK v \in Width(l, u) : v \in Nat /\ e = Block(u, v) /\ u \in l..Depth /\ u \in Buckets
    BY <1>2, <2>9
  <2>11. u <= n /\ u \in Int
    <3>1. x \in Y
      BY <2>5, <2>6, <2>7
    <3>2. u \in T
      BY <2>8, <2>9, <2>10, <3>1
    <3> QED
      BY <1>5, <2>10, <3>2 DEF Buckets
  <2>12. CASE u = n
    <3>1. Bytes(Block(n, v)) \cap Bytes(Block(n, o)) # {}
      BY <2>7, <2>8, <2>10, <2>12
    <3>2. v = o
      BY <1>7, <2>4, <2>10, <3>1, SameBlock
    <3>3. Block(n, j) \in F /\ Block(n, Other(j)) \in F
      BY <1>7, <2>3, <2>10, <2>12, <3>2
    <3>4. n \in (l + 1)..Depth
      BY <1>7, <1>8, <2>4
    <3> QED
      BY <1>7, <3>3, <3>4 DEF Apart
  <2>13. CASE u # n
    <3>1. u <= m
      BY <1>8, <2>1, <2>11, <2>13
    <3>2. Bytes(Block(u, v)) \cap Bytes(Block(m, i)) # {}
      BY <2>5, <2>7, <2>8, <2>10
    <3>3. Bytes(Block(m, i)) \subseteq Bytes(Block(u, v))
      BY <2>4, <2>10, <3>1, <3>2, BlocksNest
    <3>4. Bytes(c) \cap Bytes(e) # {}
      BY <1>6, <2>5, <2>10, <3>3
    <3>5. c # e
      BY <1>6, <2>9, <2>13
    <3> QED
      BY <3>4, <3>5
  <2> QED
    BY <2>12, <2>13
<1> QED
  BY <1>9, <1>10

(* The root is unused if and only if it is free.                           *)
LEMMA RootUnused ==
  ASSUME NEW l \in Buckets, NEW F, F \subseteq Blocks(l),
         \A c, d \in F : c # d => Bytes(c) \cap Bytes(d) = {},
         Apart(F, l)
  PROVE  Bytes(Block(l, 0)) \subseteq Memory(F) <=> Block(l, 0) \in F
<1>1. ASSUME Block(l, 0) \in F PROVE Bytes(Block(l, 0)) \subseteq Memory(F)
  BY <1>1 DEF Memory
<1>2. ASSUME Bytes(Block(l, 0)) \subseteq Memory(F) PROVE Block(l, 0) \in F
  <2>1. l \in l..Depth /\ 0 \in Width(l, l)
    BY RootRule
  <2>2. PICK c \in F : c[2] <= l
    BY <1>2, <2>1, UnusedIsCovered
  <2>3. c \in Blocks(l)
    OBVIOUS
  <2>4. c[2] \in l..Depth /\ \E k \in Width(l, c[2]) : c = Block(c[2], k)
    BY <2>3, TreeBlock
  <2>5. c[2] = l
    BY <2>2, <2>4 DEF Buckets
  <2>6. Width(l, l) = {0}
    BY RootWidth
  <2> QED
    BY <2>4, <2>5, <2>6
<1> QED
  BY <1>1, <1>2

(* Exactly one of two buddies is unused if and only if exactly one is free.*)
LEMMA BuddiesUnused ==
  ASSUME NEW l \in Buckets, NEW F, F \subseteq Blocks(l),
         \A c, d \in F : c # d => Bytes(c) \cap Bytes(d) = {},
         Apart(F, l),
         NEW b \in l..Depth, b # Depth, NEW k \in Width(l, b)
  PROVE  ~(Bytes(Block(b + 1, 2 * k)) \subseteq Memory(F)
             <=> Bytes(Block(b + 1, 2 * k + 1)) \subseteq Memory(F))
           <=> ~(Block(b + 1, 2 * k) \in F <=> Block(b + 1, 2 * k + 1) \in F)
<1>1. PICK n : n = b + 1
  OBVIOUS
<1>2. PICK i : i = 2 * k
  OBVIOUS
<1>3. PICK j : j = 2 * k + 1
  OBVIOUS
<1> DEFINE P == Bytes(Block(b, k))
           U(x) == Bytes(Block(n, x)) \subseteq Memory(F)
           Above == \E c \in F : c[2] <= b /\ P \subseteq Bytes(c)
<1>4. /\ b \in Buckets /\ k \in Nat
      /\ n \in l..Depth /\ n \in Buckets /\ n = b + 1 /\ b \in Int
      /\ i \in Width(l, n) /\ i \in Nat /\ j \in Width(l, n) /\ j \in Nat
  <2>1. b \in Buckets /\ k \in Nat
    BY NodeInTree
  <2>2. n \in l..Depth /\ i \in Width(l, n) /\ j \in Width(l, n)
    BY <1>1, <1>2, <1>3, HalvesWidth
  <2>3. n \in Buckets /\ i \in Nat /\ j \in Nat
    BY <2>2, NodeInTree
  <2> QED
    BY <1>1, <2>1, <2>2, <2>3 DEF Buckets
<1>5. P = Bytes(Block(n, i)) \cup Bytes(Block(n, j))
  BY <1>1, <1>2, <1>3, <1>4, HalvesBytes
<1>6. ASSUME NEW x \in {i, j} PROVE U(x) <=> Block(n, x) \in F \/ Above
  <2>1. x \in Width(l, n) /\ x \in Nat /\ Bytes(Block(n, x)) \subseteq P
    BY <1>4, <1>5
  <2>2. Bytes(Block(n, x)) # {}
    BY <1>4, <2>1, BytesRule
  <2>3. ASSUME Block(n, x) \in F \/ Above PROVE U(x)
    BY <2>1, <2>3 DEF Memory
  <2>4. ASSUME U(x) PROVE Block(n, x) \in F \/ Above
    <3>1. PICK c \in F : c[2] <= n /\ Bytes(Block(n, x)) \subseteq Bytes(c)
      BY <1>4, <2>1, <2>4, UnusedIsCovered
    <3>2. PICK m : m = c[2]
      OBVIOUS
    <3>3. c \in Blocks(l)
      OBVIOUS
    <3>4. m \in l..Depth /\ m \in Buckets /\ m \in Int
      BY <3>2, <3>3, TreeBlock DEF Buckets
    <3>5. PICK y \in Width(l, m) : c = Block(m, y)
      BY <3>2, <3>3, TreeBlock
    <3>6. y \in Nat
      BY <3>4, NodeInTree
    <3>7. CASE m = n
      <4>1. Bytes(Block(n, x)) \cap Bytes(Block(n, y)) # {}
        BY <2>2, <3>1, <3>5, <3>7
      <4>2. x = y
        BY <1>4, <2>1, <3>6, <4>1, SameBlock
      <4> QED
        BY <3>5, <3>7, <4>2
    <3>8. CASE m # n
      <4>1. m <= b
        BY <1>4, <3>1, <3>2, <3>4, <3>8
      <4>2. Bytes(Block(m, y)) \cap Bytes(Block(b, k)) # {}
        BY <2>1, <2>2, <3>1, <3>5
      <4>3. Bytes(Block(b, k)) \subseteq Bytes(Block(m, y))
        BY <1>4, <3>4, <3>6, <4>1, <4>2, BlocksNest
      <4> QED
        BY <3>2, <3>5, <4>1, <4>3
    <3> QED
      BY <3>7, <3>8
  <2> QED
    BY <2>3, <2>4
<1>7. ASSUME NEW x \in {i, j}, Above PROVE Block(n, x) \notin F
  <2>1. SUFFICES ASSUME Block(n, x) \in F PROVE FALSE
    OBVIOUS
  <2>2. PICK c \in F : c[2] <= b /\ P \subseteq Bytes(c)
    BY <1>7
  <2>3. Bytes(Block(n, x)) \cap Bytes(c) # {}
    <3>1. Bytes(Block(n, x)) # {} /\ Bytes(Block(n, x)) \subseteq P
      BY <1>4, <1>5, BytesRule
    <3> QED
      BY <2>2, <3>1
  <2>4. Block(n, x) # c
    <3>1. Block(n, x)[2] = n
      BY DEF Block
    <3> QED
      BY <1>4, <2>2, <3>1
  <2> QED
    BY <2>1, <2>3, <2>4
<1>8. ~(U(i) <=> U(j)) <=> ~(Block(n, i) \in F <=> Block(n, j) \in F)
  <2>1. (U(i) <=> Block(n, i) \in F \/ Above) /\ (U(j) <=> Block(n, j) \in F \/ Above)
    BY <1>6
  <2>2. Above => Block(n, i) \notin F /\ Block(n, j) \notin F
    BY <1>7
  <2> HIDE DEF U, Above
  <2> QED
    BY <2>1, <2>2
<1> QED
  BY <1>1, <1>2, <1>3, <1>8

(* A product with a positive number is monotonic.                          *)
LEMMA ProductRule ==
  ASSUME NEW s \in Nat \ {0}, NEW k \in Nat, NEW m \in Nat
  PROVE  k * s < m * s <=> k < m
<1>1. ASSUME NEW x \in Nat, NEW d \in Nat PROVE (x + d) * s = x * s + d * s /\ d * s \in Nat /\ x * s \in Nat
  OBVIOUS
<1>2. ASSUME NEW d \in Nat, d # 0 PROVE d * s > 0
  <2>1. PICK e \in Nat : d = e + 1
    <3>1. d - 1 \in Nat /\ d = (d - 1) + 1
      BY <1>2
    <3> QED
      BY <3>1
  <2>2. (e + 1) * s = e * s + 1 * s /\ e * s \in Nat
    BY <1>1
  <2> QED
    BY <2>1, <2>2
<1>3. CASE k < m
  <2>1. PICK d \in Nat : d # 0 /\ m = k + d
    <3>1. m - k \in Nat /\ m - k # 0 /\ m = k + (m - k)
      BY <1>3
    <3> QED
      BY <3>1
  <2>2. (k + d) * s = k * s + d * s /\ d * s > 0 /\ d * s \in Nat /\ k * s \in Nat
    BY <1>1, <1>2, <2>1
  <2>3. m * s = k * s + d * s
    BY <2>1, <2>2
  <2> QED
    BY <1>3, <2>2, <2>3
<1>4. CASE ~(k < m)
  <2>1. PICK d \in Nat : k = m + d
    <3>1. k - m \in Nat /\ k = m + (k - m)
      BY <1>4
    <3> QED
      BY <3>1
  <2>2. (m + d) * s = m * s + d * s /\ d * s \in Nat /\ m * s \in Nat
    BY <1>1
  <2>3. k * s = m * s + d * s
    BY <2>1, <2>2
  <2> QED
    BY <1>4, <2>2, <2>3
<1> QED
  BY <1>3, <1>4

(* The nodes of a bucket whose blocks lie in the tree.                     *)
LEMMA NodesOfTree ==
  ASSUME NEW l \in Buckets, NEW b \in l..Depth, b # Depth, NEW i
  PROVE  i \in NodesOf(b) /\ PtrForNode(i, b) < Size(l)
           <=> \E k \in Width(l, b) : i = Index(b, k)
<1> DEFINE w == Pow2[b - l]
           q == Pow2[b]
           s == Size(b)
<1>1. b \in Buckets /\ w \in Nat \ {0} /\ q \in Nat \ {0} /\ w <= q
  BY WidthRule
<1>2. b \in Int /\ l \in Int /\ b + 1 \in 1..(Depth + 1) /\ (b + 1) - 1 = b /\ l <= b
  BY <1>1, PowerRule DEF Buckets
<1>3. Pow2[b + 1] = 2 * q
  BY <1>2, PowerRule
<1>4. s \in Nat \ {0} /\ Size(l) = w * s
  <2>1. Size(l) = w * s
    BY <1>1, <1>2, SizeScale
  <2> QED
    BY <1>1, <2>1, SizeRule
<1>5. NodesOf(b) = (q - 1)..(2 * q - 2)
  BY <1>3 DEF NodesOf
<1>6. ASSUME NEW k \in Nat
      PROVE  Index(b, k) = q - 1 + k /\ PtrForNode(Index(b, k), b) = k * s
             /\ (k * s < w * s <=> k < w)
  BY <1>1, <1>4, NodeRule, ProductRule DEF Index
<1>7. Width(l, b) = 0..(w - 1)
  BY DEF Width
<1>8. ASSUME i \in NodesOf(b), PtrForNode(i, b) < Size(l)
      PROVE  \E k \in Width(l, b) : i = Index(b, k)
  <2>1. PICK k \in Nat : i = q - 1 + k
    <3> HIDE DEF q
    <3>1. i \in (q - 1)..(2 * q - 2)
      BY <1>5, <1>8
    <3>2. i - (q - 1) \in Nat /\ i = q - 1 + (i - (q - 1))
      BY <1>1, <3>1
    <3> QED
      BY <3>2
  <2>2. i = Index(b, k) /\ k * s < w * s
    BY <1>4, <1>6, <1>8, <2>1
  <2>3. k < w
    BY <1>6, <2>2
  <2> HIDE DEF w
  <2>4. k \in Width(l, b)
    BY <1>1, <1>7, <2>3
  <2> QED
    BY <2>2, <2>4
<1>9. ASSUME NEW k \in Width(l, b), i = Index(b, k)
      PROVE  i \in NodesOf(b) /\ PtrForNode(i, b) < Size(l)
  <2>1. k \in Nat
    BY NodeInTree
  <2> HIDE DEF w, q, s
  <2>2. k < w /\ k <= w - 1
    BY <1>1, <1>7, <2>1
  <2>3. i = q - 1 + k /\ PtrForNode(i, b) < Size(l)
    BY <1>4, <1>6, <1>9, <2>1, <2>2
  <2>4. i \in (q - 1)..(2 * q - 2)
    BY <1>1, <2>1, <2>2, <2>3
  <2> QED
    BY <1>5, <2>3, <2>4
<1> QED
  BY <1>8, <1>9

(* The bits are those the property states.                                 *)
LEMMA InvariantBits ==
  ASSUME IInv
  PROVE  BitsAreRight
<1> SUFFICES ASSUME ready PROVE BitsAreRight
  BY DEF BitsAreRight
<1>1. limit \in Buckets /\ Depth \in Nat /\ limit \in Int /\ Depth \in Int
  BY HealthyBlocks, PowerRule DEF Buckets
<1>2. /\ FreeBlocks \subseteq Blocks(limit)
      /\ \A c, d \in FreeBlocks : c # d => Bytes(c) \cap Bytes(d) = {}
      /\ Apart(FreeBlocks, limit) /\ Fits(split, FreeBlocks, limit)
  BY HealthyBlocks DEF IInv, Healthy, Tiles
<1>3. split \subseteq 0..(Pow2[Depth] - 2)
  BY <1>1, <1>2, SplitInRange
<1>4. ASSUME NEW b \in Buckets, NEW k \in Nat
      PROVE  Unused(Index(b, k), b) <=> Bytes(Block(b, k)) \subseteq Memory(FreeBlocks)
  <2>1. <<PtrForNode(Index(b, k), b), b>> = Block(b, k)
    BY NodeRule DEF Block
  <2> QED
    BY <2>1 DEF Unused
<1>5. ASSUME NEW b \in limit..Depth, b # Depth, NEW k \in Width(limit, b)
      PROVE  /\ Unused(2 * Index(b, k) + 1, b + 1) # Unused(2 * Index(b, k) + 2, b + 1)
                  <=> Index(b, k) \in split
  <2>1. b \in Buckets /\ k \in Nat
    BY <1>1, NodeInTree
  <2>2. PICK n : n = b + 1
    OBVIOUS
  <2>3. /\ n \in limit..Depth /\ n \in Buckets /\ n # 0 /\ n # limit /\ n - 1 = b
        /\ 2 * k \in Width(limit, n) /\ 2 * k + 1 \in Width(limit, n)
        /\ 2 * k \in Nat /\ 2 * k + 1 \in Nat
    <3>1. n \in limit..Depth /\ 2 * k \in Width(limit, n) /\ 2 * k + 1 \in Width(limit, n)
      BY <1>1, <1>5, <2>2, HalvesWidth
    <3>2. n \in Buckets /\ n # 0 /\ n # limit /\ n - 1 = b
      BY <1>1, <2>1, <2>2, <3>1 DEF Buckets
    <3> QED
      BY <2>1, <3>1, <3>2
  <2>4. /\ 2 * Index(b, k) + 1 = Index(n, 2 * k)
        /\ 2 * Index(b, k) + 2 = Index(n, 2 * k + 1)
    BY <1>5, <2>1, <2>2, ChildRule
  <2>5. /\ Unused(2 * Index(b, k) + 1, b + 1)
             <=> Bytes(Block(b + 1, 2 * k)) \subseteq Memory(FreeBlocks)
        /\ Unused(2 * Index(b, k) + 2, b + 1)
             <=> Bytes(Block(b + 1, 2 * k + 1)) \subseteq Memory(FreeBlocks)
    BY <1>4, <2>2, <2>3, <2>4
  <2>6. ~(Block(b + 1, 2 * k) \in FreeBlocks <=> Block(b + 1, 2 * k + 1) \in FreeBlocks)
          <=> Index(b, k) \in split
    <3>1. Other(2 * k) = 2 * k + 1 /\ (2 * k) \div 2 = k
      BY <2>1, OtherRule
    <3>2. Index(n - 1, (2 * k) \div 2) \in split
            <=> ~(Block(n, 2 * k) \in FreeBlocks
                    <=> (n = limit \/ Block(n, Other(2 * k)) \in FreeBlocks))
      BY <1>2, <2>3 DEF Fits
    <3> QED
      BY <2>2, <2>3, <3>1, <3>2
  <2>7. ~(Bytes(Block(b + 1, 2 * k)) \subseteq Memory(FreeBlocks)
            <=> Bytes(Block(b + 1, 2 * k + 1)) \subseteq Memory(FreeBlocks))
          <=> ~(Block(b + 1, 2 * k) \in FreeBlocks <=> Block(b + 1, 2 * k + 1) \in FreeBlocks)
    BY <1>1, <1>2, <1>5, BuddiesUnused
  <2>8. \A p, q \in BOOLEAN : (p # q) <=> ~(p <=> q)
    OBVIOUS
  <2>9. /\ Unused(2 * Index(b, k) + 1, b + 1) \in BOOLEAN
        /\ Unused(2 * Index(b, k) + 2, b + 1) \in BOOLEAN
    BY DEF Unused
  <2> QED
    BY <2>5, <2>6, <2>7, <2>8, <2>9
<1>6. limit # 0 => /\ Parent(Root) = Index(limit - 1, 0)
                   /\ Index(limit - 1, 0) \in split <=> ~Unused(Root, limit)
  <2> SUFFICES ASSUME limit # 0
               PROVE  /\ Parent(Root) = Index(limit - 1, 0)
                      /\ Index(limit - 1, 0) \in split <=> ~Unused(Root, limit)
    OBVIOUS
  <2>1. /\ Root = Index(limit, 0) /\ Parent(Root) = Index(limit - 1, 0)
        /\ limit \in limit..Depth /\ 0 \in Width(limit, limit)
    BY <1>1, RootRule DEF Root
  <2>2. Index(limit - 1, 0 \div 2) \in split
          <=> ~(Block(limit, 0) \in FreeBlocks <=> (limit = limit \/ Block(limit, Other(0)) \in FreeBlocks))
    BY <1>2, <2>1 DEF Fits
  <2>3. Bytes(Block(limit, 0)) \subseteq Memory(FreeBlocks) <=> Block(limit, 0) \in FreeBlocks
    BY <1>1, <1>2, RootUnused
  <2>4. Unused(Root, limit) <=> Bytes(Block(limit, 0)) \subseteq Memory(FreeBlocks)
    BY <1>1, <1>4, <2>1
  <2>5. 0 \div 2 = 0
    OBVIOUS
  <2> QED
    BY <2>1, <2>2, <2>3, <2>4, <2>5
<1> DEFINE InTree(i) == \E b \in limit..(Depth - 1) :
                          /\ i \in NodesOf(b) /\ PtrForNode(i, b) < Size(limit)
                          /\ Unused(2 * i + 1, b + 1) # Unused(2 * i + 2, b + 1)
           AboveTree(i) == limit # 0 /\ i = Parent(Root) /\ ~Unused(Root, limit)
<1>7. ASSUME NEW i \in split PROVE InTree(i) \/ AboveTree(i)
  <2>1. PICK b \in limit..Depth : \E k \in Width(limit, b) : b # 0 /\ i = Index(b - 1, k \div 2)
    BY <1>2 DEF Fits
  <2>2. PICK k \in Width(limit, b) : b # 0 /\ i = Index(b - 1, k \div 2)
    BY <2>1
  <2>3. CASE b = limit
    <3>1. k = 0
      BY <1>1, <2>3, RootWidth
    <3>2. 0 \div 2 = 0
      OBVIOUS
    <3>3. i = Index(limit - 1, 0) /\ limit # 0
      BY <2>2, <2>3, <3>1, <3>2
    <3>4. AboveTree(i)
      BY <1>6, <3>3
    <3> QED
      BY <3>4
  <2>4. CASE b # limit
    <3>1. PICK m : m = b - 1
      OBVIOUS
    <3>2. PICK j : j = k \div 2
      OBVIOUS
    <3>3. m \in limit..Depth /\ m # Depth /\ j \in Width(limit, m)
      BY <1>1, <2>4, <3>1, <3>2, ParentWidth
    <3>4. i = Index(m, j) /\ m \in limit..(Depth - 1)
      BY <1>1, <2>2, <3>1, <3>2, <3>3
    <3>5. i \in NodesOf(m) /\ PtrForNode(i, m) < Size(limit)
      BY <1>1, <3>3, <3>4, NodesOfTree
    <3>6. Unused(2 * i + 1, m + 1) # Unused(2 * i + 2, m + 1)
      BY <1>5, <3>3, <3>4
    <3> QED
      BY <3>4, <3>5, <3>6
  <2> QED
    BY <2>3, <2>4
<1>8. ASSUME NEW i, InTree(i) PROVE i \in split
  <2>1. PICK b \in limit..(Depth - 1) :
          /\ i \in NodesOf(b) /\ PtrForNode(i, b) < Size(limit)
          /\ Unused(2 * i + 1, b + 1) # Unused(2 * i + 2, b + 1)
    BY <1>8
  <2>2. b \in limit..Depth /\ b # Depth
    BY <1>1
  <2>3. PICK k \in Width(limit, b) : i = Index(b, k)
    BY <1>1, <2>1, <2>2, NodesOfTree
  <2> QED
    BY <1>5, <2>1, <2>2, <2>3
<1>9. ASSUME NEW i, AboveTree(i) PROVE i \in split
  BY <1>6, <1>9
<1> HIDE DEF InTree, AboveTree
<1>10. split = {i \in 0..(Pow2[Depth] - 2) : InTree(i) \/ AboveTree(i)}
  BY <1>3, <1>7, <1>8, <1>9
<1> QED
  BY <1>10 DEF BitsAreRight, InTree, AboveTree

(* At every step of every call the bits tell which nodes have exactly one  *)
(* unused child, and above the root whether the tree is in use: what free  *)
(* concludes from a bit about the buddy, however the tree has grown since, *)
(* is true.                                                                *)
THEOREM BitsTellTheTruth == Spec => []BitsAreRight
<1>1. IInv => BitsAreRight
  BY InvariantBits
<1> QED
  BY <1>1, IInvHolds, PTL
=============================================================================
