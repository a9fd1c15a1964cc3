-------------------------- MODULE ContainersProofs --------------------------
(***************************************************************************)
(* Proofs about Vector, List and HashSet, for any number of containers,    *)
(* elements, nodes, keys, values and slots and any hash function.          *)
(***************************************************************************)
EXTENDS Dictionaries, SequencesExt, SequenceTheorems, FiniteSetTheorems, TLAPS

-----------------------------------------------------------------------------
(* Induction, and what the operators of sequences return.                  *)

Less == {p \in Nat \X Nat : p[1] < p[2]}

(* Less is well-founded on the numbers.                                    *)
LEMMA LessIsWellFounded == IsWellFoundedOn(Less, Nat)
BY NatLessThanWellFounded DEF OpToRel, Less

(* A set of numbers that is not empty has a least one.                     *)
LEMMA LeastNumber ==
  ASSUME NEW T, T \subseteq Nat, T # {}
  PROVE  \E x \in T : \A y \in T : x <= y
<1>1. PICK x \in T : \A y \in T : ~ (<<y, x>> \in Less)
  BY LessIsWellFounded, WFMin
<1>2. ASSUME NEW y \in T PROVE x <= y
  <2>1. x \in Nat /\ y \in Nat
    BY <1>2
  <2>2. <<y, x>> \in Nat \X Nat
    BY <2>1
  <2>3. ~ (y < x)
    BY <1>1, <1>2, <2>2 DEF Less
  <2> QED
    BY <2>1, <2>3
<1> QED
  BY <1>2

(* A set of numbers that is bounded and not empty has a greatest one.      *)
LEMMA GreatestNumber ==
  ASSUME NEW n \in Nat, NEW T, T \subseteq 0..n, T # {}
  PROVE  \E x \in T : \A y \in T : y <= x
<1> DEFINE U == {m \in Nat : n - m \in T}
<1>1. U \subseteq Nat
  OBVIOUS
<1>2. U # {}
  <2>1. PICK y \in T : TRUE
    OBVIOUS
  <2>2. y \in 0..n
    BY <2>1
  <2>3. n - y \in Nat /\ n - (n - y) = y
    BY <2>2
  <2> QED
    BY <2>1, <2>3
<1>3. PICK m \in U : \A k \in U : m <= k
  <2> HIDE DEF U
  <2> QED
    BY <1>1, <1>2, LeastNumber
<1>4. ASSUME NEW y \in T PROVE y <= n - m
  <2>1. y \in 0..n
    BY <1>4
  <2>2. n - y \in Nat /\ n - (n - y) = y
    BY <2>1
  <2>3. n - y \in U
    BY <2>2
  <2>4. m <= n - y
    BY <1>3, <2>3
  <2> QED
    BY <2>1, <2>4
<1> QED
  BY <1>3, <1>4

(* Induction over the numbers, for a set.                                  *)
LEMMA NumberInduction ==
  ASSUME NEW S, 0 \in S, \A n \in Nat : n \in S => n + 1 \in S
  PROVE  Nat \subseteq S
<1> SUFFICES ASSUME NEW m \in Nat, m \notin S PROVE FALSE
  OBVIOUS
<1>1. PICK x \in Nat \ S : \A y \in Nat \ S : x <= y
  <2> DEFINE T == Nat \ S
  <2>1. T \subseteq Nat /\ T # {}
    OBVIOUS
  <2> HIDE DEF T
  <2>2. \E x \in T : \A y \in T : x <= y
    BY <2>1, LeastNumber
  <2> QED
    BY <2>2 DEF T
<1>2. x # 0 /\ x \in Nat
  OBVIOUS
<1>3. x - 1 \in Nat /\ x - 1 \in S
  BY <1>1, <1>2
<1>4. (x - 1) + 1 \in S
  BY <1>3
<1>5. (x - 1) + 1 = x
  BY <1>2
<1> QED
  BY <1>4, <1>5

(* Finitely many numbers are bounded.                                      *)
LEMMA FinitelyManyBounded ==
  ASSUME NEW T, IsFiniteSet(T), NEW f, \A x \in T : f[x] \in Nat
  PROVE  \E N \in Nat : \A x \in T : f[x] <= N
<1>1. PICK seq \in Seq(T) : \A x \in T : \E n \in 1..Len(seq) : seq[n] = x
  BY DEF IsFiniteSet
<1> DEFINE S == {n \in Nat : n <= Len(seq) => \E N \in Nat : \A i \in 1..n : f[seq[i]] <= N}
<1>2. Len(seq) \in Nat /\ \A i \in 1..Len(seq) : f[seq[i]] \in Nat
  BY LenProperties, ElementOfSeq
<1>3. 0 \in S
  BY <1>2
<1>4. ASSUME NEW n \in Nat, n \in S PROVE n + 1 \in S
  <2> SUFFICES ASSUME n + 1 <= Len(seq) PROVE \E N \in Nat : \A i \in 1..(n + 1) : f[seq[i]] <= N
    OBVIOUS
  <2>1. PICK N \in Nat : \A i \in 1..n : f[seq[i]] <= N
    BY <1>2, <1>4
  <2>2. PICK x : x = f[seq[n + 1]]
    OBVIOUS
  <2>3. x \in Nat
    BY <1>2, <2>2
  <2>4. PICK M \in Nat : N <= M /\ x <= M
    <3>1. CASE N <= x
      BY <2>3, <3>1
    <3>2. CASE x <= N
      BY <2>3, <3>2
    <3> QED
      BY <2>3, <3>1, <3>2
  <2>5. ASSUME NEW i \in 1..(n + 1) PROVE f[seq[i]] <= M
    <3>1. CASE i = n + 1
      BY <2>2, <2>4, <3>1
    <3>2. CASE i \in 1..n
      <4>1. f[seq[i]] \in Nat /\ f[seq[i]] <= N
        BY <1>2, <2>1, <3>2
      <4> QED
        BY <2>4, <4>1
    <3> QED
      BY <3>1, <3>2
  <2> QED
    BY <2>5
<1>5. Len(seq) \in S
  <2> HIDE DEF S
  <2> QED
    BY <1>2, <1>3, <1>4, NumberInduction
<1>6. PICK N \in Nat : \A i \in 1..Len(seq) : f[seq[i]] <= N
  BY <1>2, <1>5
<1> QED
  BY <1>1, <1>6

(* Concatenation.                                                          *)
LEMMA Joined ==
  ASSUME NEW S, NEW a \in Seq(S), NEW b \in Seq(S)
  PROVE  /\ a \o b \in Seq(S)
         /\ Len(a \o b) = Len(a) + Len(b)
         /\ \A i \in 1..(Len(a) + Len(b)) :
              (a \o b)[i] = IF i <= Len(a) THEN a[i] ELSE b[i - Len(a)]
  BY ConcatProperties

(* t is s with e before the k-th element, or behind the last.              *)
IsWith(S, t, s, k, e) ==
  /\ t \in Seq(S) /\ Len(t) = Len(s) + 1
  /\ \A i \in 1..(Len(s) + 1) :
       t[i] = IF i < k THEN s[i] ELSE IF i = k THEN e ELSE s[i - 1]

(* InsertAt.                                                               *)
LEMMA Inserted ==
  ASSUME NEW S, NEW s \in Seq(S), NEW pos \in 1..(Len(s) + 1), NEW e \in S
  PROVE  IsWith(S, InsertAt(s, pos, e), s, pos, e)
<1> DEFINE front == SubSeq(s, 1, pos - 1)
           back == SubSeq(s, pos, Len(s))
<1>1. Len(s) \in Nat /\ \A i \in 1..Len(s) : s[i] \in S
  BY LenProperties, ElementOfSeq
<1>2. /\ front \in Seq(S) /\ Len(front) = pos - 1
      /\ \A i \in 1..(pos - 1) : front[i] = s[i]
  BY <1>1, SubSeqProperties
<1>3. /\ back \in Seq(S) /\ Len(back) = Len(s) - pos + 1
      /\ \A i \in 1..(Len(s) - pos + 1) : back[i] = s[pos + i - 1]
  BY <1>1, SubSeqProperties
<1>4. <<e>> \in Seq(S) /\ Len(<<e>>) = 1 /\ <<e>>[1] = e
  OBVIOUS
<1> HIDE DEF front, back
<1>5. /\ front \o <<e>> \in Seq(S) /\ Len(front \o <<e>>) = pos
      /\ \A i \in 1..pos : (front \o <<e>>)[i] = IF i < pos THEN s[i] ELSE e
  BY <1>1, <1>2, <1>4, Joined
<1>6. InsertAt(s, pos, e) = (front \o <<e>>) \o back
  BY DEF InsertAt, front, back
<1>7. /\ InsertAt(s, pos, e) \in Seq(S)
      /\ Len(InsertAt(s, pos, e)) = pos + Len(back)
      /\ \A i \in 1..(pos + Len(back)) : InsertAt(s, pos, e)[i] =
           IF i <= pos THEN (front \o <<e>>)[i] ELSE back[i - pos]
  <2> DEFINE a == front \o <<e>>
  <2>1. a \in Seq(S) /\ Len(a) = pos /\ back \in Seq(S) /\ InsertAt(s, pos, e) = a \o back
    BY <1>3, <1>5, <1>6
  <2> HIDE DEF a
  <2>2. /\ a \o back \in Seq(S)
        /\ Len(a \o back) = Len(a) + Len(back)
        /\ \A i \in 1..(Len(a) + Len(back)) :
             (a \o back)[i] = IF i <= Len(a) THEN a[i] ELSE back[i - Len(a)]
    BY <2>1, Joined
  <2> QED
    BY <2>1, <2>2 DEF a
<1>8. ASSUME NEW i \in 1..(Len(s) + 1)
      PROVE  InsertAt(s, pos, e)[i] = IF i < pos THEN s[i] ELSE IF i = pos THEN e ELSE s[i - 1]
  <2>1. CASE i <= pos
    BY <1>1, <1>3, <1>5, <1>7, <2>1
  <2>2. CASE i > pos
    <3>1. i - pos \in 1..(Len(s) - pos + 1) /\ pos + (i - pos) - 1 = i - 1
      BY <1>1, <2>2
    <3>2. back[i - pos] = s[i - 1]
      BY <1>3, <3>1
    <3> QED
      BY <1>1, <1>3, <1>7, <2>2, <3>2
  <2> QED
    BY <2>1, <2>2
<1>9. InsertAt(s, pos, e) \in Seq(S) /\ Len(InsertAt(s, pos, e)) = Len(s) + 1
  BY <1>1, <1>3, <1>7
<1> QED
  BY <1>8, <1>9 DEF IsWith

(* RemoveAt.                                                               *)
LEMMA Removed ==
  ASSUME NEW S, NEW s \in Seq(S), NEW pos \in 1..Len(s)
  PROVE  /\ RemoveAt(s, pos) \in Seq(S)
         /\ Len(RemoveAt(s, pos)) = Len(s) - 1
         /\ \A i \in 1..(Len(s) - 1) : RemoveAt(s, pos)[i] = IF i < pos THEN s[i] ELSE s[i + 1]
<1> DEFINE front == SubSeq(s, 1, pos - 1)
           back == SubSeq(s, pos + 1, Len(s))
<1>1. Len(s) \in Nat /\ \A i \in 1..Len(s) : s[i] \in S
  BY LenProperties, ElementOfSeq
<1>2. /\ front \in Seq(S) /\ Len(front) = pos - 1
      /\ \A i \in 1..(pos - 1) : front[i] = s[i]
  BY <1>1, SubSeqProperties
<1>3. /\ back \in Seq(S) /\ Len(back) = Len(s) - pos
      /\ \A i \in 1..(Len(s) - pos) : back[i] = s[pos + i]
  BY <1>1, SubSeqProperties
<1> HIDE DEF front, back
<1>4. RemoveAt(s, pos) = front \o back
  BY DEF RemoveAt, front, back
<1>5. /\ RemoveAt(s, pos) \in Seq(S)
      /\ Len(RemoveAt(s, pos)) = Len(front) + Len(back)
      /\ \A i \in 1..(Len(front) + Len(back)) : RemoveAt(s, pos)[i] =
           IF i <= Len(front) THEN front[i] ELSE back[i - Len(front)]
  <2>1. /\ front \o back \in Seq(S)
        /\ Len(front \o back) = Len(front) + Len(back)
        /\ \A i \in 1..(Len(front) + Len(back)) :
             (front \o back)[i] = IF i <= Len(front) THEN front[i] ELSE back[i - Len(front)]
    BY <1>2, <1>3, Joined
  <2> QED
    BY <1>4, <2>1
<1>6. ASSUME NEW i \in 1..(Len(s) - 1)
      PROVE  RemoveAt(s, pos)[i] = IF i < pos THEN s[i] ELSE s[i + 1]
  <2>1. CASE i < pos
    <3>1. i \in 1..(pos - 1) /\ i \in 1..(Len(front) + Len(back)) /\ i <= Len(front)
      BY <1>1, <1>2, <1>3, <2>1
    <3> QED
      BY <1>2, <1>5, <2>1, <3>1
  <2>2. CASE i >= pos
    <3>1. i - (pos - 1) \in 1..(Len(s) - pos) /\ pos + (i - (pos - 1)) = i + 1
      BY <1>1, <2>2
    <3>2. back[i - (pos - 1)] = s[i + 1]
      BY <1>3, <3>1
    <3>3. i \in 1..(Len(front) + Len(back)) /\ ~(i <= Len(front)) /\ Len(front) = pos - 1
      BY <1>1, <1>2, <1>3, <2>2
    <3>4. RemoveAt(s, pos)[i] = back[i - Len(front)]
      BY <1>5, <3>3
    <3>5. ~(i < pos)
      BY <2>2
    <3> QED
      BY <3>2, <3>3, <3>4, <3>5
  <2> QED
    BY <2>1, <2>2
<1> QED
  BY <1>1, <1>2, <1>3, <1>5, <1>6

-----------------------------------------------------------------------------
(* Vector: cells and elements.                                             *)

Cells == Elems \cup {NoNode}

(* The counters of a vector: the elements fit into its cells.              *)
IsVector(v) ==
  /\ v \in [cell : Seq(Cells), size : Nat]
  /\ v.size <= V!Capacity(v)

(* The elements of a vector are its first cells.                           *)
LEMMA FirstCells ==
  ASSUME NEW v, IsVector(v)
  PROVE  /\ V!Elements(v) \in Seq(Cells)
         /\ Len(V!Elements(v)) = v.size
         /\ \A i \in 1..v.size : V!Elements(v)[i] = v.cell[i]
         /\ v.size \in Nat /\ V!Capacity(v) \in Nat
         /\ \A i \in 1..V!Capacity(v) : v.cell[i] \in Cells
<1>1. v.cell \in Seq(Cells) /\ v.size \in Nat /\ v.size <= Len(v.cell)
  BY DEF IsVector, V!Capacity
<1>2. Len(v.cell) \in Nat /\ \A i \in 1..Len(v.cell) : v.cell[i] \in Cells
  BY <1>1, LenProperties, ElementOfSeq
<1>3. /\ SubSeq(v.cell, 1, v.size) \in Seq(Cells)
      /\ Len(SubSeq(v.cell, 1, v.size)) = v.size
      /\ \A i \in 1..v.size : SubSeq(v.cell, 1, v.size)[i] = v.cell[i]
  BY <1>1, <1>2, SubSeqProperties
<1> QED
  BY <1>1, <1>2, <1>3 DEF V!Elements, V!Capacity

(* An array with a value for each cell is a vector.                        *)
LEMMA CellByCell ==
  ASSUME NEW n \in Nat, NEW f \in [1..n -> Cells], NEW size \in 0..n
  PROVE  /\ IsVector([cell |-> f, size |-> size])
         /\ V!Capacity([cell |-> f, size |-> size]) = n
<1>1. f \in Seq(Cells) /\ Len(f) = n
  OBVIOUS
<1> QED
  BY <1>1 DEF IsVector, V!Capacity

-----------------------------------------------------------------------------
(* What the loops of vector.hpp compute.                                   *)

(* emplace inserts: the elements from pos on are moved up without loss.    *)
THEOREM ShiftedInserts ==
  ASSUME NEW v, IsVector(v), ~V!Full(v), NEW pos \in 1..(v.size + 1), NEW e \in Cells
  PROVE  /\ IsVector(V!Shifted(v, pos, e))
         /\ V!Capacity(V!Shifted(v, pos, e)) = V!Capacity(v)
         /\ V!Elements(V!Shifted(v, pos, e)) = InsertAt(V!Elements(v), pos, e)
<1> DEFINE w == V!Shifted(v, pos, e)
<1>1. /\ v.size \in Nat /\ V!Capacity(v) \in Nat /\ v.size < V!Capacity(v)
      /\ \A i \in 1..V!Capacity(v) : v.cell[i] \in Cells
  BY FirstCells DEF IsVector, V!Full
<1>2. w.cell \in [1..V!Capacity(v) -> Cells] /\ w.size = v.size + 1
  BY <1>1 DEF V!Shifted
<1>3. w = [cell |-> w.cell, size |-> v.size + 1]
  BY DEF V!Shifted
<1>4. IsVector(w) /\ V!Capacity(w) = V!Capacity(v)
  <2>1. v.size + 1 \in 0..V!Capacity(v)
    BY <1>1
  <2> HIDE DEF w
  <2> QED
    BY <1>1, <1>2, <1>3, <2>1, CellByCell
<1>5. \A i \in 1..(v.size + 1) :
        w.cell[i] = IF i < pos THEN v.cell[i] ELSE IF i = pos THEN e ELSE v.cell[i - 1]
  BY <1>1 DEF V!Shifted
<1> HIDE DEF w
<1>6. V!Elements(w) = InsertAt(V!Elements(v), pos, e)
  <2> DEFINE s == InsertAt(V!Elements(v), pos, e)
  <2>1. /\ V!Elements(v) \in Seq(Cells) /\ Len(V!Elements(v)) = v.size
        /\ \A i \in 1..v.size : V!Elements(v)[i] = v.cell[i]
    BY FirstCells
  <2>2. /\ s \in Seq(Cells) /\ Len(s) = v.size + 1
        /\ \A i \in 1..(v.size + 1) :
             s[i] = IF i < pos THEN V!Elements(v)[i] ELSE IF i = pos THEN e ELSE V!Elements(v)[i - 1]
    BY <2>1, Inserted DEF IsWith
  <2>3. /\ V!Elements(w) \in Seq(Cells) /\ Len(V!Elements(w)) = v.size + 1
        /\ \A i \in 1..(v.size + 1) : V!Elements(w)[i] = w.cell[i]
    BY <1>2, <1>4, FirstCells
  <2> HIDE DEF s
  <2>4. \A i \in 1..(v.size + 1) : V!Elements(w)[i] = s[i]
    BY <1>1, <1>5, <2>1, <2>2, <2>3
  <2>5. V!Elements(w) = s
    BY <2>2, <2>3, <2>4, SeqEqual
  <2> QED
    BY <2>5 DEF s
<1> QED
  BY <1>4, <1>6 DEF w

(* remove and erase close the gap, and lose no other element.              *)
THEOREM ClosedRemoves ==
  ASSUME NoNode \in Cells, NEW v, IsVector(v), NEW pos \in 1..v.size
  PROVE  /\ IsVector(V!Closed(v, pos))
         /\ V!Capacity(V!Closed(v, pos)) = V!Capacity(v)
         /\ V!Elements(V!Closed(v, pos)) = RemoveAt(V!Elements(v), pos)
<1> DEFINE w == V!Closed(v, pos)
<1>1. /\ v.size \in Nat /\ V!Capacity(v) \in Nat /\ v.size <= V!Capacity(v)
      /\ \A i \in 1..V!Capacity(v) : v.cell[i] \in Cells
  BY FirstCells DEF IsVector
<1>2. w.cell \in [1..V!Capacity(v) -> Cells] /\ w.size = v.size - 1
  BY <1>1 DEF V!Closed
<1>3. w = [cell |-> w.cell, size |-> v.size - 1]
  BY DEF V!Closed
<1>4. IsVector(w) /\ V!Capacity(w) = V!Capacity(v)
  <2>1. v.size - 1 \in 0..V!Capacity(v)
    BY <1>1
  <2> HIDE DEF w
  <2> QED
    BY <1>1, <1>2, <1>3, <2>1, CellByCell
<1>5. \A i \in 1..(v.size - 1) : w.cell[i] = IF i < pos THEN v.cell[i] ELSE v.cell[i + 1]
  BY <1>1 DEF V!Closed
<1> HIDE DEF w
<1>6. V!Elements(w) = RemoveAt(V!Elements(v), pos)
  <2> DEFINE s == RemoveAt(V!Elements(v), pos)
  <2>1. /\ V!Elements(v) \in Seq(Cells) /\ Len(V!Elements(v)) = v.size
        /\ \A i \in 1..v.size : V!Elements(v)[i] = v.cell[i]
    BY FirstCells
  <2>2. /\ s \in Seq(Cells) /\ Len(s) = v.size - 1
        /\ \A i \in 1..(v.size - 1) :
             s[i] = IF i < pos THEN V!Elements(v)[i] ELSE V!Elements(v)[i + 1]
    <3>1. pos \in 1..Len(V!Elements(v))
      BY <2>1
    <3> QED
      BY <2>1, <3>1, Removed
  <2>3. /\ V!Elements(w) \in Seq(Cells) /\ Len(V!Elements(w)) = v.size - 1
        /\ \A i \in 1..(v.size - 1) : V!Elements(w)[i] = w.cell[i]
    BY <1>2, <1>4, FirstCells
  <2> HIDE DEF s
  <2>4. \A i \in 1..(v.size - 1) : V!Elements(w)[i] = s[i]
    BY <1>1, <1>5, <2>1, <2>2, <2>3
  <2>5. V!Elements(w) = s
    BY <2>2, <2>3, <2>4, SeqEqual
  <2> QED
    BY <2>5 DEF s
<1> QED
  BY <1>4, <1>6 DEF w

(* pop_back, clear and a smaller resize keep the elements before size.     *)
THEOREM TrimmedTruncates ==
  ASSUME NEW v, IsVector(v), NEW size \in 0..v.size
  PROVE  /\ IsVector(V!Trimmed(v, size))
         /\ V!Capacity(V!Trimmed(v, size)) = V!Capacity(v)
         /\ V!Elements(V!Trimmed(v, size)) = SubSeq(V!Elements(v), 1, size)
<1> DEFINE w == V!Trimmed(v, size)
<1>1. /\ v.size \in Nat /\ V!Capacity(v) \in Nat /\ v.size <= V!Capacity(v)
      /\ \A i \in 1..V!Capacity(v) : v.cell[i] \in Cells
  BY FirstCells DEF IsVector
<1>2. w.cell \in [1..V!Capacity(v) -> Cells] /\ w.size = size
  BY <1>1 DEF V!Trimmed, Cells
<1>3. w = [cell |-> w.cell, size |-> size]
  BY DEF V!Trimmed
<1>4. IsVector(w) /\ V!Capacity(w) = V!Capacity(v)
  <2>1. size \in 0..V!Capacity(v)
    BY <1>1
  <2> HIDE DEF w
  <2> QED
    BY <1>1, <1>2, <1>3, <2>1, CellByCell
<1>5. \A i \in 1..size : w.cell[i] = v.cell[i]
  BY <1>1 DEF V!Trimmed
<1> HIDE DEF w
<1>6. V!Elements(w) = SubSeq(V!Elements(v), 1, size)
  <2> DEFINE s == SubSeq(V!Elements(v), 1, size)
  <2>1. /\ V!Elements(v) \in Seq(Cells) /\ Len(V!Elements(v)) = v.size
        /\ \A i \in 1..v.size : V!Elements(v)[i] = v.cell[i]
    BY FirstCells
  <2>2. \A i \in 1..size : V!Elements(v)[i] \in Cells
    BY <1>1, <2>1
  <2>3. s \in Seq(Cells) /\ Len(s) = size /\ \A i \in 1..size : s[i] = V!Elements(v)[i]
    BY <1>1, <2>2, SubSeqProperties
  <2>4. /\ V!Elements(w) \in Seq(Cells) /\ Len(V!Elements(w)) = size
        /\ \A i \in 1..size : V!Elements(w)[i] = w.cell[i]
    BY <1>2, <1>4, FirstCells
  <2> HIDE DEF s
  <2>5. \A i \in 1..size : V!Elements(w)[i] = s[i]
    BY <1>1, <1>5, <2>1, <2>3, <2>4
  <2>6. V!Elements(w) = s
    BY <2>3, <2>4, <2>5, SeqEqual
  <2> QED
    BY <2>6 DEF s
<1> QED
  BY <1>4, <1>6 DEF w

(* reserve keeps the elements, and has at least the capacity asked for.    *)
THEOREM ReserveKeeps ==
  ASSUME NEW v, IsVector(v), NEW capacity \in Nat
  PROVE  /\ IsVector(V!Reserve(v, capacity))
         /\ V!Capacity(V!Reserve(v, capacity)) >= capacity
         /\ V!Reserve(v, capacity).size = v.size
         /\ V!Elements(V!Reserve(v, capacity)) = V!Elements(v)
<1>1. /\ v.size \in Nat /\ V!Capacity(v) \in Nat /\ v.size <= V!Capacity(v)
      /\ \A i \in 1..V!Capacity(v) : v.cell[i] \in Cells
  BY FirstCells DEF IsVector
<1>2. CASE capacity <= V!Capacity(v)
  BY <1>1, <1>2 DEF V!Reserve
<1>3. CASE capacity > V!Capacity(v)
  <2> DEFINE w == V!Widened(v, capacity)
  <2>1. w.cell \in [1..capacity -> Cells] /\ w.size = v.size
    BY <1>1, <1>3 DEF V!Widened, IsVector, Cells
  <2>2. w = [cell |-> w.cell, size |-> v.size]
    <3>1. v \in [cell : Seq(Cells), size : Nat]
      BY DEF IsVector
    <3>2. \A f : [v EXCEPT !.cell = f] = [cell |-> f, size |-> v.size]
      BY <3>1
    <3> QED
      BY <3>2 DEF V!Widened
  <2>3. \A i \in 1..v.size : w.cell[i] = v.cell[i]
    BY <1>1, <1>3 DEF V!Widened, IsVector
  <2> HIDE DEF w
  <2>4. IsVector(w) /\ V!Capacity(w) = capacity
    <3>1. v.size \in 0..capacity
      BY <1>1, <1>3
    <3> QED
      BY <2>1, <2>2, <3>1, CellByCell
  <2>5. V!Elements(w) = V!Elements(v)
    <3>1. /\ V!Elements(v) \in Seq(Cells) /\ Len(V!Elements(v)) = v.size
          /\ \A i \in 1..v.size : V!Elements(v)[i] = v.cell[i]
      BY FirstCells
    <3>2. /\ V!Elements(w) \in Seq(Cells) /\ Len(V!Elements(w)) = v.size
          /\ \A i \in 1..v.size : V!Elements(w)[i] = w.cell[i]
      BY <2>1, <2>4, FirstCells
    <3>3. \A i \in 1..v.size : V!Elements(w)[i] = V!Elements(v)[i]
      BY <2>3, <3>1, <3>2
    <3> QED
      BY <3>1, <3>2, <3>3, SeqEqual
  <2>6. V!Reserve(v, capacity) = w
    BY <1>3 DEF V!Reserve, w
  <2> QED
    BY <2>1, <2>4, <2>5, <2>6
<1> QED
  BY <1>1, <1>2, <1>3

(* expand makes room for one more element at least, even from nothing.     *)
THEOREM ExpandMakesRoom ==
  ASSUME FirstCapacity \in Nat \ {0}, NEW v, IsVector(v), V!Full(v)
  PROVE  /\ IsVector(V!Expand(v)) /\ ~V!Full(V!Expand(v))
         /\ V!Expand(v).size = v.size
         /\ V!Elements(V!Expand(v)) = V!Elements(v)
<1> DEFINE capacity == IF V!Capacity(v) > 0 THEN 2 * V!Capacity(v) ELSE FirstCapacity
<1>1. v.size \in Nat /\ V!Capacity(v) = v.size
  BY FirstCells DEF V!Full
<1>2. capacity \in Nat /\ capacity > v.size
  BY <1>1
<1>3. V!Expand(v) = V!Reserve(v, capacity)
  BY DEF V!Expand
<1> HIDE DEF capacity
<1>4. /\ IsVector(V!Expand(v)) /\ V!Capacity(V!Expand(v)) >= capacity
      /\ V!Expand(v).size = v.size /\ V!Elements(V!Expand(v)) = V!Elements(v)
  BY <1>2, <1>3, ReserveKeeps
<1>5. V!Capacity(V!Expand(v)) \in Nat
  BY <1>4, FirstCells
<1> QED
  BY <1>1, <1>2, <1>4, <1>5 DEF V!Full

-----------------------------------------------------------------------------
(* Copies and operator+=: one emplace_back after the other.                *)

AddOne(w, e) ==
  LET room == IF V!Full(w) THEN V!Expand(w) ELSE w IN V!Shifted(room, room.size + 1, e)

Adding(v, es) ==
  LET add[n \in 0..Len(es)] == IF n = 0 THEN v ELSE AddOne(add[n - 1], es[n])
  IN add

IsAdding(f, v, es, n) == f = [i \in 0..n |-> IF i = 0 THEN v ELSE AddOne(f[i - 1], es[i])]

(* There is such a function.                                               *)
LEMMA AddingExists ==
  ASSUME NEW v, NEW es, NEW n \in Nat
  PROVE  \E f : IsAdding(f, v, es, n)
<1> DEFINE S == {m \in Nat : \E f : IsAdding(f, v, es, m)}
<1>1. 0 \in S
  <2>1. IsAdding([i \in 0..0 |-> v], v, es, 0)
    BY DEF IsAdding
  <2> QED
    BY <2>1
<1>2. ASSUME NEW m \in Nat, m \in S PROVE m + 1 \in S
  <2>1. PICK f : IsAdding(f, v, es, m)
    BY <1>2
  <2>2. /\ f[0] = v
        /\ \A i \in 1..m : f[i] = AddOne(f[i - 1], es[i])
    <3>1. DOMAIN f = 0..m /\ \A i \in 0..m : f[i] = IF i = 0 THEN v ELSE AddOne(f[i - 1], es[i])
      BY <2>1 DEF IsAdding
    <3> QED
      BY <3>1
  <2> DEFINE g == [i \in 0..(m + 1) |-> IF i <= m THEN f[i] ELSE AddOne(f[m], es[i])]
  <2>3. ASSUME NEW i \in 0..(m + 1) PROVE g[i] = IF i = 0 THEN v ELSE AddOne(g[i - 1], es[i])
    <3>1. CASE i = 0
      BY <2>2, <3>1
    <3>2. CASE i \in 1..m
      <4>1. g[i] = f[i] /\ g[i - 1] = f[i - 1]
        BY <3>2
      <4> HIDE DEF g
      <4> QED
        BY <2>2, <3>2, <4>1
    <3>3. CASE i = m + 1
      <4>1. g[i] = AddOne(f[m], es[i]) /\ g[i - 1] = f[m]
        BY <3>3
      <4> HIDE DEF g
      <4> QED
        BY <3>3, <4>1
    <3> QED
      BY <3>1, <3>2, <3>3
  <2>4. g = [i \in 0..(m + 1) |-> g[i]]
    OBVIOUS
  <2> HIDE DEF g
  <2>5. IsAdding(g, v, es, m + 1)
    BY <2>3, <2>4 DEF IsAdding
  <2> QED
    BY <2>5
<1> HIDE DEF S
<1>3. n \in S
  BY <1>1, <1>2, NumberInduction
<1> QED
  BY <1>3 DEF S

(* w is a vector that holds a and the first n of es.                       *)
Grown(w, a, es, n) ==
  /\ IsVector(w) /\ V!Elements(w) \in Seq(Elems)
  /\ w.size = Len(a) + n
  /\ \A i \in 1..(Len(a) + n) : V!Elements(w)[i] = IF i <= Len(a) THEN a[i] ELSE es[i - Len(a)]

(* emplace_back adds the next one.                                         *)
LEMMA AddOneGrows ==
  ASSUME FirstCapacity \in Nat \ {0}, NEW a \in Seq(Elems), NEW es \in Seq(Elems),
         NEW n \in Nat, n + 1 <= Len(es), NEW w, Grown(w, a, es, n)
  PROVE  Grown(AddOne(w, es[n + 1]), a, es, n + 1)
<1>1. PICK room : room = IF V!Full(w) THEN V!Expand(w) ELSE w
  OBVIOUS
<1>2. PICK e : e = es[n + 1]
  OBVIOUS
<1>3. Len(a) \in Nat /\ Len(es) \in Nat /\ e \in Elems /\ e \in Cells
  <2>1. n + 1 \in 1..Len(es)
    BY LenProperties
  <2> QED
    BY <1>2, <2>1, LenProperties, ElementOfSeq DEF Cells
<1>4. IsVector(room) /\ ~V!Full(room) /\ V!Elements(room) = V!Elements(w) /\ room.size = w.size
  BY <1>1, ExpandMakesRoom DEF Grown
<1>5. w.size = Len(a) + n /\ V!Elements(w) \in Seq(Elems)
  BY DEF Grown
<1>6. room.size + 1 \in 1..(room.size + 1) /\ room.size \in Nat
  BY <1>3, <1>4, <1>5
<1>7. PICK u : u = V!Shifted(room, room.size + 1, e)
  OBVIOUS
<1>8. /\ IsVector(u)
      /\ V!Elements(u) = InsertAt(V!Elements(w), room.size + 1, e)
  BY <1>3, <1>4, <1>6, <1>7, ShiftedInserts
<1>9. u.size = Len(a) + (n + 1)
  BY <1>3, <1>4, <1>5, <1>7 DEF V!Shifted
<1>10. Len(V!Elements(w)) = w.size
  BY FirstCells DEF Grown
<1>11. /\ V!Elements(u) \in Seq(Elems)
       /\ \A i \in 1..(w.size + 1) : V!Elements(u)[i] =
            IF i < room.size + 1 THEN V!Elements(w)[i]
            ELSE IF i = room.size + 1 THEN e ELSE V!Elements(w)[i - 1]
  <2>1. PICK s : s = V!Elements(w)
    OBVIOUS
  <2>2. PICK k : k = room.size + 1
    OBVIOUS
  <2>3. s \in Seq(Elems) /\ Len(s) = w.size /\ k \in 1..(Len(s) + 1)
    BY <1>4, <1>5, <1>6, <1>10, <2>1, <2>2
  <2>4. /\ InsertAt(s, k, e) \in Seq(Elems)
        /\ \A i \in 1..(Len(s) + 1) :
             InsertAt(s, k, e)[i] = IF i < k THEN s[i] ELSE IF i = k THEN e ELSE s[i - 1]
    <3>1. IsWith(Elems, InsertAt(s, k, e), s, k, e)
      BY <1>3, <2>3, Inserted
    <3> QED
      BY <3>1 DEF IsWith
  <2> QED
    BY <1>8, <2>1, <2>2, <2>3, <2>4
<1>12. ASSUME NEW i \in 1..(Len(a) + (n + 1))
       PROVE  V!Elements(u)[i] = IF i <= Len(a) THEN a[i] ELSE es[i - Len(a)]
  <2>1. CASE i <= Len(a) + n
    <3>1. i \in 1..(Len(a) + n) /\ i \in 1..(w.size + 1) /\ i < room.size + 1
      BY <1>3, <1>4, <1>5, <2>1
    <3>2. V!Elements(u)[i] = V!Elements(w)[i]
      BY <1>11, <3>1
    <3> QED
      BY <3>1, <3>2 DEF Grown
  <2>2. CASE i = Len(a) + (n + 1)
    <3>1. i \in 1..(w.size + 1) /\ ~(i < room.size + 1) /\ i = room.size + 1 /\ ~(i <= Len(a))
      BY <1>3, <1>4, <1>5, <2>2
    <3>2. i - Len(a) = n + 1
      BY <1>3, <2>2
    <3>3. V!Elements(u)[i] = e
      BY <1>11, <3>1
    <3> QED
      BY <1>2, <3>1, <3>2, <3>3
  <2> QED
    BY <1>3, <2>1, <2>2
<1>13. Grown(u, a, es, n + 1)
  BY <1>8, <1>9, <1>11, <1>12 DEF Grown
<1> QED
  BY <1>1, <1>2, <1>7, <1>13 DEF AddOne

(* The copies and operator+= append every element in its order.            *)
THEOREM ExtendedAppends ==
  ASSUME FirstCapacity \in Nat \ {0},
         NEW v, IsVector(v), V!Elements(v) \in Seq(Elems), NEW es \in Seq(Elems)
  PROVE  /\ IsVector(V!Extended(v, es))
         /\ V!Elements(V!Extended(v, es)) = V!Elements(v) \o es
<1> DEFINE f == Adding(v, es)
           a == V!Elements(v)
           N == Len(es)
           S == {n \in Nat : n <= N => Grown(f[n], a, es, n)}
<1>1. N \in Nat /\ a \in Seq(Elems) /\ Len(a) = v.size /\ Len(a) \in Nat
  BY FirstCells, LenProperties
<1>2. IsAdding(f, v, es, N)
  <2>1. \E g : IsAdding(g, v, es, N)
    BY <1>1, AddingExists
  <2> QED
    BY <2>1 DEF IsAdding, Adding
<1> HIDE DEF f
<1>3. f[0] = v /\ \A n \in 1..N : f[n] = AddOne(f[n - 1], es[n])
  <2>1. DOMAIN f = 0..N /\ \A n \in 0..N : f[n] = IF n = 0 THEN v ELSE AddOne(f[n - 1], es[n])
    BY <1>2 DEF IsAdding
  <2> QED
    BY <1>1, <2>1
<1> HIDE DEF a
<1>4. 0 \in S
  <2>1. Grown(v, a, es, 0)
    BY <1>1 DEF Grown, a
  <2> QED
    BY <1>3, <2>1
<1>5. ASSUME NEW n \in Nat, n \in S PROVE n + 1 \in S
  <2> SUFFICES ASSUME n + 1 <= N PROVE Grown(f[n + 1], a, es, n + 1)
    OBVIOUS
  <2>1. Grown(f[n], a, es, n)
    BY <1>1, <1>5
  <2>2. n + 1 \in 1..N /\ (n + 1) - 1 = n
    BY <1>1
  <2>3. f[n + 1] = AddOne(f[n], es[n + 1])
    BY <1>3, <2>2
  <2> QED
    BY <1>1, <2>1, <2>3, AddOneGrows
<1>6. N \in S
  <2> HIDE DEF S
  <2> QED
    BY <1>1, <1>4, <1>5, NumberInduction
<1>7. Grown(f[N], a, es, N)
  BY <1>1, <1>6
<1>8. f[N] = V!Extended(v, es)
  BY DEF V!Extended, Adding, AddOne, f
<1> HIDE DEF S
<1>9. V!Elements(f[N]) = a \o es
  <2>1. PICK t : t = V!Elements(f[N])
    OBVIOUS
  <2>2. t \in Seq(Elems) /\ Len(t) = Len(a) + Len(es)
    BY <1>1, <1>7, <2>1, FirstCells DEF Grown
  <2>3. \A i \in 1..(Len(a) + Len(es)) : t[i] = IF i <= Len(a) THEN a[i] ELSE es[i - Len(a)]
    BY <1>7, <2>1 DEF Grown
  <2>4. /\ a \o es \in Seq(Elems) /\ Len(a \o es) = Len(a) + Len(es)
        /\ \A i \in 1..(Len(a) + Len(es)) :
             (a \o es)[i] = IF i <= Len(a) THEN a[i] ELSE es[i - Len(a)]
    BY <1>1, Joined
  <2>5. PICK u : u = a \o es
    OBVIOUS
  <2>6. u \in Seq(Elems) /\ Len(u) = Len(t) /\ \A i \in 1..Len(t) : t[i] = u[i]
    BY <2>2, <2>3, <2>4, <2>5
  <2>7. t = u
    BY <2>2, <2>6, SeqEqual
  <2> QED
    BY <2>1, <2>5, <2>7
<1> QED
  BY <1>7, <1>8, <1>9 DEF Grown, a

-----------------------------------------------------------------------------
(* The operations of Vector as steps of SeqSpec.                           *)

Contents == [v \in Objects |-> V!Elements(obj[v])]

Promise == INSTANCE SeqSpec WITH
  Lists <- Objects, contents <- Contents, taken <- out, sound <- status # "vector broken"

(* Every vector has cells for its elements, and no cell of an element is   *)
(* without one.                                                            *)
AllVectors ==
  /\ status = "vector"
  /\ obj = [v \in Objects |-> obj[v]]
  /\ \A v \in Objects : IsVector(obj[v]) /\ V!Elements(obj[v]) \in Seq(Elems)

(* Nothing is promised any more.                                           *)
Lost == status = "vector broken"

(* Vector v holds the elements s after the step, and nothing else changed, *)
(* unless something broke.                                                 *)
Receives(v, s, result) ==
  Lost' \/ (AllVectors' /\ Promise!Becomes(v, s) /\ out' = result)

(* A vector that got new cells has the elements in them; if there was no   *)
(* memory everything is lost.                                              *)
LEMMA BecomesElements ==
  ASSUME AllVectors, NEW v \in Objects,
         NEW new, IsVector(new), V!Elements(new) \in Seq(Elems), NEW result,
         V!Becomes(v, new, result)
  PROVE  Receives(v, V!Elements(new), result)
<1>1. CASE status' = "vector broken"
  BY <1>1 DEF Lost, Receives
<1>2. CASE obj' = [obj EXCEPT ![v] = new] /\ out' = result /\ status' = status
  <2>1. \A w \in Objects : obj'[w] = IF w = v THEN new ELSE obj[w]
    BY <1>2 DEF AllVectors
  <2>2. AllVectors'
    BY <1>2, <2>1, Zenon DEF AllVectors
  <2>3. Contents' = [Contents EXCEPT ![v] = V!Elements(new)]
    BY <2>1 DEF Contents
  <2> QED
    BY <1>2, <2>2, <2>3 DEF Promise!Becomes, Receives
<1> QED
  BY <1>1, <1>2 DEF V!Becomes

(* What SeqSpec allows, whatever the positions.                            *)
Promised ==
  \/ Promise!Forget
  \/ \E v \in Objects, pos \in Nat \ {0}, e \in Elems : Promise!Insert(v, pos, e)
  \/ \E v \in Objects, pos \in Nat \ {0} : Promise!Drop(v, pos) \/ Promise!Truncate(v, pos - 1)
  \/ \E v, w \in Objects : Promise!Concatenate(v, w) \/ Promise!Copy(v, w) \/ Promise!Move(v, w)

VectorsKeep == Lost' \/ (AllVectors' /\ Promised)

(* Memory that is not the vector's is used.                                *)
LEMMA BreaksStep == ASSUME V!Breaks PROVE VectorsKeep
BY DEF V!Breaks, Lost, VectorsKeep

(* A vector without cells.                                                 *)
LEMMA NoElements ==
  /\ IsVector(V!EmptyVector) /\ V!Elements(V!EmptyVector) = <<>>
  /\ V!Elements(V!EmptyVector) \in Seq(Elems)
<1>1. IsVector(V!EmptyVector)
  BY DEF IsVector, V!EmptyVector, V!Capacity
<1>2. V!Elements(V!EmptyVector) = <<>>
  BY SubSeqEmpty DEF V!EmptyVector, V!Elements
<1> QED
  BY <1>1, <1>2

(* A vector with room for an element and the elements of v before it is    *)
(* inserted becomes v: Insert.                                             *)
LEMMA InsertStep ==
  ASSUME AllVectors, NEW v \in Objects, NEW room, IsVector(room), ~V!Full(room),
         V!Elements(room) = V!Elements(obj[v]),
         NEW pos \in 1..(room.size + 1), NEW e \in Elems,
         V!Becomes(v, V!Shifted(room, pos, e), Nobody)
  PROVE  VectorsKeep
<1>1. /\ IsVector(V!Shifted(room, pos, e))
      /\ V!Elements(V!Shifted(room, pos, e)) = InsertAt(Contents[v], pos, e)
  BY ShiftedInserts DEF Contents, Cells
<1>2. pos \in 1..(Len(Contents[v]) + 1) /\ pos <= Len(Contents[v]) + 1 /\ pos \in Nat \ {0}
  BY FirstCells DEF Contents
<1>3. InsertAt(Contents[v], pos, e) \in Seq(Elems)
  <2>1. Contents[v] \in Seq(Elems)
    BY DEF AllVectors, Contents
  <2> QED
    BY <1>2, <2>1, Inserted DEF IsWith
<1>5. Receives(v, InsertAt(Contents[v], pos, e), Nobody)
  BY <1>1, <1>3, BecomesElements
<1>6. CASE AllVectors' /\ Promise!Becomes(v, InsertAt(Contents[v], pos, e)) /\ out' = Nobody
  <2>1. Promise!Insert(v, pos, e)
    BY <1>2, <1>6 DEF Promise!Insert, Promise!InsertAt, InsertAt
  <2> QED
    BY <1>2, <1>5, <1>6, <2>1 DEF Promised, VectorsKeep
<1> QED
  BY <1>5, <1>6 DEF Receives, VectorsKeep

(* The elements stay and nothing is returned: Forget.                      *)
LEMMA KeepStep ==
  ASSUME AllVectors, NEW v \in Objects, NEW new, IsVector(new),
         V!Elements(new) = V!Elements(obj[v]), V!Becomes(v, new, Nobody)
  PROVE  VectorsKeep
<1>1. Receives(v, V!Elements(new), Nobody)
  <2>1. V!Elements(new) \in Seq(Elems)
    BY DEF AllVectors
  <2> QED
    BY <2>1, BecomesElements
<1>2. [Contents EXCEPT ![v] = V!Elements(new)] = Contents
  BY DEF Contents
<1>3. CASE AllVectors' /\ Promise!Becomes(v, V!Elements(new)) /\ out' = Nobody
  BY <1>1, <1>2, <1>3 DEF Promised, Promise!Forget, Promise!Becomes, VectorsKeep
<1> QED
  BY <1>1, <1>3 DEF Receives, VectorsKeep

(* The first elements stay: Truncate.                                      *)
LEMMA TruncateStep ==
  ASSUME AllVectors, NEW v \in Objects, NEW size \in 0..obj[v].size, NEW new, IsVector(new),
         V!Elements(new) = SubSeq(V!Elements(obj[v]), 1, size), V!Becomes(v, new, Nobody)
  PROVE  VectorsKeep
<1>1. /\ V!Elements(new) = SubSeq(Contents[v], 1, size) /\ size <= Len(Contents[v])
      /\ Contents[v] \in Seq(Elems) /\ Len(Contents[v]) \in Nat /\ size \in Nat
  BY FirstCells DEF Contents, AllVectors
<1>2. V!Elements(new) \in Seq(Elems)
  <2>1. \A i \in 1..size : Contents[v][i] \in Elems
    BY <1>1, ElementOfSeq
  <2> QED
    BY <1>1, <2>1, SubSeqProperties
<1>3. Receives(v, V!Elements(new), Nobody)
  BY <1>2, BecomesElements
<1>4. CASE AllVectors' /\ Promise!Becomes(v, V!Elements(new)) /\ out' = Nobody
  <2>1. PICK pos : pos = size + 1
    OBVIOUS
  <2>2. pos \in Nat \ {0} /\ pos - 1 = size
    BY <1>1, <2>1
  <2>3. Promise!Truncate(v, pos - 1)
    BY <1>1, <1>4, <2>2 DEF Promise!Truncate
  <2> QED
    BY <1>3, <1>4, <2>2, <2>3 DEF Promised, VectorsKeep
<1> QED
  BY <1>3, <1>4 DEF Receives, VectorsKeep

(* One element goes and may be returned: V!Drop.                             *)
LEMMA DropStep ==
  ASSUME AllVectors, NEW v \in Objects, NEW pos \in 1..obj[v].size, NEW new, IsVector(new),
         V!Elements(new) = RemoveAt(V!Elements(obj[v]), pos),
         NEW result \in {obj[v].cell[pos], Nobody}, V!Becomes(v, new, result)
  PROVE  VectorsKeep
<1>1. /\ V!Elements(new) = RemoveAt(Contents[v], pos)
      /\ pos \in 1..Len(Contents[v]) /\ pos \in Nat \ {0}
      /\ Contents[v][pos] = obj[v].cell[pos]
  BY FirstCells DEF Contents, AllVectors
<1>2. V!Elements(new) \in Seq(Elems)
  <2>1. Contents[v] \in Seq(Elems)
    BY DEF AllVectors, Contents
  <2> QED
    BY <1>1, <2>1, Removed
<1>3. Receives(v, V!Elements(new), result)
  BY <1>2, BecomesElements
<1>4. CASE AllVectors' /\ Promise!Becomes(v, V!Elements(new)) /\ out' = result
  <2>1. Promise!Drop(v, pos)
    BY <1>1, <1>4 DEF Promise!Drop, Promise!RemoveAt, RemoveAt
  <2> QED
    BY <1>1, <1>3, <1>4, <2>1 DEF Promised, VectorsKeep
<1> QED
  BY <1>3, <1>4 DEF Receives, VectorsKeep

(* Without its last element a sequence is its front.                       *)
LEMMA RemoveLast ==
  ASSUME NEW S, NEW s \in Seq(S), Len(s) # 0
  PROVE  RemoveAt(s, Len(s)) = SubSeq(s, 1, Len(s) - 1)
<1>1. Len(s) \in Nat /\ \A i \in 1..Len(s) : s[i] \in S
  BY LenProperties, ElementOfSeq
<1>2. SubSeq(s, 1, Len(s) - 1) \in Seq(S)
  BY <1>1, SubSeqProperties
<1>3. SubSeq(s, Len(s) + 1, Len(s)) = <<>>
  BY <1>1, SubSeqEmpty
<1> QED
  BY <1>2, <1>3, ConcatEmptySeq DEF RemoveAt

(* resize cuts off, or keeps all elements.                                 *)
LEMMA ResizedTruncates ==
  ASSUME NEW v, IsVector(v), NEW count \in Nat
  PROVE  /\ IsVector(V!Resized(v, count))
         /\ V!Elements(V!Resized(v, count)) =
              IF count < v.size THEN SubSeq(V!Elements(v), 1, count) ELSE V!Elements(v)
<1>1. v.size \in Nat
  BY FirstCells
<1>2. CASE count < v.size
  <2>1. /\ IsVector(V!Trimmed(v, count))
        /\ V!Elements(V!Trimmed(v, count)) = SubSeq(V!Elements(v), 1, count)
    BY <1>1, <1>2, TrimmedTruncates
  <2> QED
    BY <1>2, <2>1, ReserveKeeps DEF V!Resized
<1>3. CASE ~(count < v.size)
  BY <1>1, <1>3, ReserveKeeps DEF V!Resized
<1> QED
  BY <1>2, <1>3

(* Every operation inserts, removes or cuts off at the position it is      *)
(* asked for, copies, appends or moves the whole vector, or changes        *)
(* nothing, and leaves every vector with room for its elements, whether or *)
(* not there is memory.                                                    *)
LEMMA VectorStep ==
  ASSUME V!VectorAssumption, AllVectors, V!Next
  PROVE  VectorsKeep
<1>1. ASSUME NEW v \in Objects, NEW e \in Elems, V!EmplaceBack(v, e)
      PROVE  VectorsKeep
  <2> DEFINE room == IF V!Full(obj[v]) THEN V!Expand(obj[v]) ELSE obj[v]
  <2>1. IsVector(room) /\ ~V!Full(room) /\ V!Elements(room) = V!Elements(obj[v])
    BY ExpandMakesRoom DEF AllVectors, V!VectorAssumption
  <2>2. V!Becomes(v, V!Shifted(room, room.size + 1, e), Nobody)
    BY <1>1 DEF V!EmplaceBack
  <2> HIDE DEF room
  <2>3. room.size + 1 \in 1..(room.size + 1)
    BY <2>1, FirstCells
  <2> QED
    BY <2>1, <2>2, <2>3, InsertStep
<1>2. ASSUME NEW v \in Objects, NEW i \in 1..MaxCells, V!PushOwn(v, i)
      PROVE  VectorsKeep
  <2>1. CASE V!Full(obj[v])
    BY <1>2, <2>1, BreaksStep DEF V!PushOwn
  <2>2. CASE ~V!Full(obj[v])
    <3>1. V!Becomes(v, V!Shifted(obj[v], obj[v].size + 1, obj[v].cell[i]), Nobody)
      BY <1>2, <2>2 DEF V!PushOwn
    <3>2. /\ IsVector(obj[v]) /\ obj[v].size + 1 \in 1..(obj[v].size + 1)
          /\ obj[v].cell[i] \in Elems
      <4>1. /\ IsVector(obj[v]) /\ V!Elements(obj[v]) \in Seq(Elems)
            /\ obj[v].size \in Nat /\ i \in 1..obj[v].size
        BY <1>2, FirstCells DEF AllVectors, V!PushOwn
      <4>2. V!Elements(obj[v])[i] = obj[v].cell[i] /\ i \in 1..Len(V!Elements(obj[v]))
        BY <4>1, FirstCells
      <4> QED
        BY <4>1, <4>2, ElementOfSeq
    <3> QED
      BY <2>2, <3>1, <3>2, InsertStep
  <2> QED
    BY <2>1, <2>2
<1>3. ASSUME NEW v \in Objects, NEW pos \in 1..MaxCells, NEW e \in Elems, V!Emplace(v, pos, e)
      PROVE  VectorsKeep
  <2> DEFINE room == IF pos - 1 = V!Capacity(obj[v]) THEN V!Expand(obj[v]) ELSE obj[v]
  <2>1. IsVector(obj[v]) /\ obj[v].size \in Nat /\ obj[v].size <= V!Capacity(obj[v])
        /\ V!Capacity(obj[v]) \in Nat
    BY FirstCells DEF AllVectors, IsVector
  <2>2. CASE pos > obj[v].size + 1
    <3>1. out' = Nobody /\ UNCHANGED <<obj, status>>
      <4>1. ~(pos <= obj[v].size + 1)
        BY <2>1, <2>2
      <4> QED
        BY <1>3, <2>2, <4>1, Zenon DEF V!Emplace
    <3> QED
      BY <3>1, Zenon DEF AllVectors, Contents, Promised, Promise!Forget, VectorsKeep
  <2>3. CASE pos <= obj[v].size + 1
    <3>1. IsVector(room) /\ V!Elements(room) = V!Elements(obj[v]) /\ room.size = obj[v].size
      BY <2>3, <2>1, ExpandMakesRoom DEF V!VectorAssumption, V!Full
    <3>2. CASE V!Full(room)
      <4>1. V!Breaks
        <5>1. ~(pos > obj[v].size + 1)
          BY <2>1, <2>3
        <5> QED
          BY <1>3, <2>3, <3>2, <5>1, Zenon DEF V!Emplace
      <4> QED
        BY <4>1, BreaksStep
    <3>3. CASE ~V!Full(room)
      <4>1. V!Becomes(v, V!Shifted(room, pos, e), Nobody)
        <5>1. ~(pos > obj[v].size + 1)
          BY <2>1, <2>3
        <5> QED
          BY <1>3, <2>3, <3>3, <5>1, Zenon DEF V!Emplace
      <4>2. pos \in 1..(room.size + 1)
        BY <2>1, <2>3, <3>1
      <4> HIDE DEF room
      <4> QED
        BY <3>1, <3>3, <4>1, <4>2, InsertStep
    <3> QED
      BY <3>2, <3>3
  <2> QED
    BY <2>1, <2>2, <2>3
<1>4. ASSUME NEW v \in Objects, V!PopBack(v)
      PROVE  VectorsKeep
  <2>1. IsVector(obj[v]) /\ obj[v].size \in Nat
    BY FirstCells DEF AllVectors
  <2>2. CASE obj[v].size = 0
    BY <1>4, <2>1, <2>2, KeepStep DEF V!PopBack
  <2>3. CASE obj[v].size # 0
    <3> DEFINE size == obj[v].size
               new == V!Trimmed(obj[v], size - 1)
    <3>1. size - 1 \in 0..size /\ size \in 1..size
      BY <2>1, <2>3
    <3>2. IsVector(new) /\ V!Elements(new) = SubSeq(V!Elements(obj[v]), 1, size - 1)
      BY <2>1, <3>1, TrimmedTruncates
    <3>3. V!Elements(obj[v]) \in Seq(Cells) /\ Len(V!Elements(obj[v])) = size
      BY <2>1, FirstCells
    <3>4. RemoveAt(V!Elements(obj[v]), size) = SubSeq(V!Elements(obj[v]), 1, size - 1)
      BY <2>3, <3>3, RemoveLast
    <3>5. V!Becomes(v, new, obj[v].cell[size])
      BY <1>4, <2>3 DEF V!PopBack
    <3> HIDE DEF new
    <3> QED
      BY <3>1, <3>2, <3>4, <3>5, DropStep
  <2> QED
    BY <2>2, <2>3
<1>5. ASSUME NEW v \in Objects, NEW pos \in 1..MaxCells, V!Drop(v, pos)
      PROVE  VectorsKeep
  <2>1. IsVector(obj[v]) /\ obj[v].size \in Nat
    BY FirstCells DEF AllVectors
  <2>2. CASE pos <= obj[v].size
    <3>1. PICK result \in {obj[v].cell[pos], Nobody} : V!Becomes(v, V!Closed(obj[v], pos), result)
      BY <1>5, <2>2 DEF V!Drop
    <3>2. pos \in 1..obj[v].size /\ NoNode \in Cells
      BY <2>1, <2>2 DEF Cells
    <3>3. /\ IsVector(V!Closed(obj[v], pos))
          /\ V!Elements(V!Closed(obj[v], pos)) = RemoveAt(V!Elements(obj[v]), pos)
      BY <2>1, <3>2, ClosedRemoves
    <3> QED
      BY <3>1, <3>2, <3>3, DropStep
  <2>3. CASE ~(pos <= obj[v].size)
    BY <1>5, <2>1, <2>3, KeepStep DEF V!Drop
  <2> QED
    BY <2>2, <2>3
<1>6. ASSUME NEW v \in Objects, V!Clear(v)
      PROVE  VectorsKeep
  <2>1. IsVector(obj[v]) /\ 0 \in 0..obj[v].size
    BY FirstCells DEF AllVectors
  <2>2. /\ IsVector(V!Trimmed(obj[v], 0))
        /\ V!Elements(V!Trimmed(obj[v], 0)) = SubSeq(V!Elements(obj[v]), 1, 0)
    BY <2>1, TrimmedTruncates
  <2> QED
    BY <1>6, <2>1, <2>2, TruncateStep DEF V!Clear
<1>7. ASSUME NEW v \in Objects, NEW count \in 0..MaxCells, V!ResizeTo(v, count)
      PROVE  VectorsKeep
  <2>1. IsVector(obj[v]) /\ obj[v].size \in Nat /\ count \in Nat
    BY FirstCells DEF AllVectors, V!VectorAssumption
  <2>2. CASE V!Becomes(v, V!Resized(obj[v], count), Nobody)
    <3>1. CASE count < obj[v].size
      <4>1. count \in 0..obj[v].size
        BY <2>1, <3>1
      <4> QED
        BY <2>1, <2>2, <3>1, <4>1, ResizedTruncates, TruncateStep
    <3>2. CASE ~(count < obj[v].size)
      BY <2>1, <2>2, <3>2, ResizedTruncates, KeepStep
    <3> QED
      BY <3>1, <3>2
  <2>3. CASE V!Becomes(v, V!Reserve(obj[v], count), Nobody)
    BY <2>1, <2>3, ReserveKeeps, KeepStep
  <2> QED
    BY <1>7, <2>2, <2>3 DEF V!ResizeTo
<1>8. ASSUME NEW v \in Objects, NEW w \in Objects, V!MoveFrom(v, w)
      PROVE  VectorsKeep
  <2>1. /\ IsVector(V!EmptyVector) /\ V!Elements(V!EmptyVector) = <<>>
        /\ V!Elements(V!EmptyVector) \in Seq(Elems)
    BY NoElements
  <2>2. \A n \in Objects :
          obj'[n] = IF n = v THEN V!EmptyVector ELSE IF n = w THEN obj[v] ELSE obj[n]
    BY <1>8 DEF V!MoveFrom, AllVectors
  <2>3. obj' = [n \in Objects |-> obj'[n]]
    BY <1>8 DEF V!MoveFrom, AllVectors
  <2>4. AllVectors'
    BY <1>8, <2>1, <2>2, <2>3 DEF V!MoveFrom, AllVectors
  <2>5. Contents' = [n \in Objects |-> CASE n = v -> <<>>
                                         [] n = w /\ w # v -> Contents[v]
                                         [] OTHER -> Contents[n]]
    <3>1. \A n \in Objects : V!Elements(obj'[n]) = CASE n = v -> <<>>
                                         [] n = w /\ w # v -> Contents[v]
                                         [] OTHER -> Contents[n]
      BY <2>1, <2>2 DEF Contents
    <3> QED
      BY <3>1 DEF Contents
  <2>6. Promise!Move(v, w)
    BY <1>8, <2>5 DEF V!MoveFrom, Promise!Move
  <2> QED
    BY <2>4, <2>6 DEF Promised, VectorsKeep
<1>9. ASSUME NEW v \in Objects, NEW w \in Objects, V!CopyFrom(v, w)
      PROVE  VectorsKeep
  <2>1. PICK old \in {V!EmptyVector, V!Resized(obj[w], 0)} :
          V!Becomes(w, V!Extended(old, V!Elements(obj[v])), Nobody)
    BY <1>9 DEF V!CopyFrom
  <2>2. /\ IsVector(obj[v]) /\ V!Elements(obj[v]) \in Seq(Elems)
        /\ IsVector(obj[w]) /\ obj[w].size \in Nat
    BY FirstCells DEF AllVectors
  <2>3. IsVector(old) /\ V!Elements(old) = <<>>
    <3>1. CASE old = V!EmptyVector
      BY <3>1, NoElements
    <3>2. CASE old = V!Resized(obj[w], 0)
      <4>1. /\ IsVector(old)
            /\ V!Elements(old) = IF 0 < obj[w].size THEN SubSeq(V!Elements(obj[w]), 1, 0)
                                 ELSE V!Elements(obj[w])
        BY <2>2, <3>2, ResizedTruncates
      <4>2. V!Elements(obj[w]) \in Seq(Cells) /\ Len(V!Elements(obj[w])) = obj[w].size
        BY <2>2, FirstCells
      <4>3. ~(0 < obj[w].size) => V!Elements(obj[w]) = <<>>
        BY <2>2, <4>2, EmptySeq
      <4>4. SubSeq(V!Elements(obj[w]), 1, 0) = <<>>
        BY <4>2, SubSeqEmpty
      <4> QED
        BY <4>1, <4>3, <4>4
    <3> QED
      BY <3>1, <3>2
  <2>4. PICK new : new = V!Extended(old, V!Elements(obj[v]))
    OBVIOUS
  <2>5. IsVector(new) /\ V!Elements(new) = V!Elements(obj[v])
    <3>1. <<>> \in Seq(Elems)
      OBVIOUS
    <3>2. IsVector(new) /\ V!Elements(new) = V!Elements(old) \o V!Elements(obj[v])
      BY <2>2, <2>3, <2>4, <3>1, ExtendedAppends DEF V!VectorAssumption
    <3> QED
      BY <2>2, <2>3, <3>2, ConcatEmptySeq
  <2>6. Receives(w, V!Elements(new), Nobody)
    BY <2>1, <2>2, <2>4, <2>5, BecomesElements
  <2>7. CASE AllVectors' /\ Promise!Becomes(w, V!Elements(new)) /\ out' = Nobody
    <3>1. V!Elements(new) = Contents[v]
      BY <2>5 DEF Contents
    <3>2. Promise!Copy(v, w)
      BY <2>7, <3>1 DEF Promise!Copy
    <3> QED
      BY <2>7, <3>2 DEF Promised, VectorsKeep
  <2> QED
    BY <2>6, <2>7 DEF Receives, VectorsKeep
<1>10. ASSUME NEW v \in Objects, NEW w \in Objects, V!Concatenate(v, w)
       PROVE  VectorsKeep
  <2>1. PICK room : room = V!Reserve(obj[v], obj[v].size + obj[w].size)
    OBVIOUS
  <2>2. PICK new : new = V!Extended(room, V!Elements(obj[w]))
    OBVIOUS
  <2>3. V!Becomes(v, new, Nobody)
    BY <1>10, <2>1, <2>2 DEF V!Concatenate
  <2>4. /\ IsVector(obj[v]) /\ V!Elements(obj[v]) \in Seq(Elems)
        /\ V!Elements(obj[w]) \in Seq(Elems)
        /\ obj[v].size + obj[w].size \in Nat
    BY FirstCells DEF AllVectors
  <2>5. IsVector(room) /\ V!Elements(room) = V!Elements(obj[v])
    BY <2>1, <2>4, ReserveKeeps
  <2>6. IsVector(new) /\ V!Elements(new) = V!Elements(obj[v]) \o V!Elements(obj[w])
    BY <2>2, <2>4, <2>5, ExtendedAppends DEF V!VectorAssumption
  <2>7. V!Elements(new) \in Seq(Elems)
    BY <2>4, <2>6, Joined
  <2>8. Receives(v, V!Elements(new), Nobody)
    BY <2>3, <2>6, <2>7, BecomesElements
  <2>9. CASE AllVectors' /\ Promise!Becomes(v, V!Elements(new)) /\ out' = Nobody
    <3>1. V!Elements(new) = Contents[v] \o Contents[w]
      BY <2>6 DEF Contents
    <3>2. Promise!Concatenate(v, w)
      BY <2>9, <3>1 DEF Promise!Concatenate
    <3> QED
      BY <2>9, <3>2 DEF Promised, VectorsKeep
  <2> QED
    BY <2>8, <2>9 DEF Receives, VectorsKeep
<1> QED
  BY <1>1, <1>2, <1>3, <1>4, <1>5, <1>6, <1>7, <1>8, <1>9, <1>10 DEF V!Next

-----------------------------------------------------------------------------
(* List: chains of nodes.                                                  *)

Places == Nodes \cup {NoNode}
ListRecords == [head : Places, tail : Places, size : Int]
LinkRecords == [next : Places, prev : Places]

(* The n-th element of s, or NoNode outside of it.                           *)
At(s, n) == IF n \in 1..Len(s) THEN s[n] ELSE NoNode

(* A list and the links represent the sequence s.                          *)
IsChain(list, link, s) ==
  /\ s \in Seq(Nodes) /\ IsInjective(s)
  /\ list = [head |-> At(s, 1), tail |-> At(s, Len(s)), size |-> Len(s)]
  /\ \A n \in 1..Len(s) : link[s[n]] = [next |-> At(s, n + 1), prev |-> At(s, n - 1)]

(* All lists are chains, with no node in two of them.                      *)
AreChains(h, c) ==
  /\ h \in [of : [Objects -> ListRecords], link : [Nodes -> LinkRecords]]
  /\ c \in [Objects -> Seq(Nodes)]
  /\ \A l \in Objects : IsChain(h.of[l], h.link, c[l])
  /\ \A l, m \in Objects : l # m => Range(c[l]) \cap Range(c[m]) = {}

(* What changes when a node is linked in before the k-th node of s, and    *)
(* when the k-th node is linked out.                                       *)
Enters(list2, link, link2, s, k, node) ==
  /\ link2 \in [Nodes -> LinkRecords]
  /\ list2 = [head |-> IF k = 1 THEN node ELSE At(s, 1),
              tail |-> IF k = Len(s) + 1 THEN node ELSE At(s, Len(s)),
              size |-> Len(s) + 1]
  /\ link2[node] = [next |-> At(s, k), prev |-> At(s, k - 1)]
  /\ \A n \in Nodes \ {node} : link2[n] =
       [next |-> IF n = At(s, k - 1) THEN node ELSE link[n].next,
        prev |-> IF n = At(s, k) THEN node ELSE link[n].prev]

Leaves(list2, link, link2, s, k) ==
  /\ link2 \in [Nodes -> LinkRecords]
  /\ list2 = [head |-> IF k = 1 THEN At(s, 2) ELSE At(s, 1),
              tail |-> IF k = Len(s) THEN At(s, k - 1) ELSE At(s, Len(s)),
              size |-> Len(s) - 1]
  /\ \A n \in Nodes \ {s[k]} : link2[n] =
       [next |-> IF n = At(s, k - 1) THEN At(s, k + 1) ELSE link[n].next,
        prev |-> IF n = At(s, k + 1) THEN At(s, k - 1) ELSE link[n].prev]

(* The elements of a sequence, by their positions.                         *)
LEMMA Elements ==
  ASSUME NEW s \in Seq(Nodes)
  PROVE  /\ Len(s) \in Nat /\ DOMAIN s = 1..Len(s)
         /\ Range(s) = {s[n] : n \in 1..Len(s)} /\ Range(s) \subseteq Nodes
         /\ \A n \in Int : At(s, n) \in Places
<1>1. Len(s) \in Nat /\ DOMAIN s = 1..Len(s) /\ \A n \in 1..Len(s) : s[n] \in Nodes
  BY LenProperties, ElementOfSeq
<1> QED
  BY <1>1 DEF Range, At, Places

(* The links of nodes that are not in a list may change.                   *)
LEMMA Untouched ==
  ASSUME NEW list, NEW link, NEW s, IsChain(list, link, s),
         NEW link2, \A n \in Range(s) : link2[n] = link[n]
  PROVE  IsChain(list, link2, s)
<1>1. \A n \in 1..Len(s) : s[n] \in Range(s)
  BY Elements DEF IsChain
<1> QED
  BY <1>1 DEF IsChain

(* A node is linked in before the k-th one.                                *)
LEMMA LinkedIn ==
  ASSUME NoNode \notin Nodes, NEW list, NEW link \in [Nodes -> LinkRecords],
         NEW s, IsChain(list, link, s), NEW k \in 1..(Len(s) + 1),
         NEW node \in Nodes, node \notin Range(s),
         NEW list2, NEW link2, Enters(list2, link, link2, s, k, node)
  PROVE  /\ IsChain(list2, link2, InsertAt(s, k, node))
         /\ Range(InsertAt(s, k, node)) = Range(s) \cup {node}
<1> DEFINE t == InsertAt(s, k, node)
<1>1. s \in Seq(Nodes) /\ IsInjective(s)
  BY DEF IsChain
<1>2. /\ Len(s) \in Nat /\ DOMAIN s = 1..Len(s) /\ \A n \in 1..Len(s) : s[n] \in Nodes
      /\ Range(s) = {s[n] : n \in 1..Len(s)}
  BY <1>1, Elements, ElementOfSeq
<1>3. /\ t \in Seq(Nodes) /\ Len(t) = Len(s) + 1
      /\ \A i \in 1..(Len(s) + 1) :
           t[i] = IF i < k THEN s[i] ELSE IF i = k THEN node ELSE s[i - 1]
  <2>1. IsWith(Nodes, t, s, k, node)
    BY <1>1, Inserted
  <2> QED
    BY <2>1 DEF IsWith
<1> HIDE DEF t
<1>4. DOMAIN t = 1..(Len(s) + 1)
  BY <1>3, Elements
<1>5. Range(t) = Range(s) \cup {node}
  <2>1. Range(t) = {t[i] : i \in 1..(Len(s) + 1)}
    BY <1>4 DEF Range
  <2>2. ASSUME NEW i \in 1..(Len(s) + 1) PROVE t[i] \in Range(s) \cup {node}
    BY <1>2, <1>3
  <2>3. node \in Range(t)
    BY <1>3, <2>1
  <2>4. ASSUME NEW i \in 1..Len(s) PROVE s[i] \in Range(t)
    <3>1. CASE i < k
      <4>1. i \in 1..(Len(s) + 1) /\ t[i] = s[i]
        BY <1>2, <1>3, <3>1
      <4> QED
        BY <2>1, <4>1
    <3>2. CASE i >= k
      <4>1. i + 1 \in 1..(Len(s) + 1) /\ ~(i + 1 < k) /\ i + 1 # k /\ (i + 1) - 1 = i
        BY <1>2, <3>2
      <4>2. t[i + 1] = s[i]
        BY <1>3, <4>1
      <4> QED
        BY <2>1, <4>1, <4>2
    <3> QED
      BY <1>2, <3>1, <3>2
  <2> QED
    BY <1>2, <2>1, <2>2, <2>3, <2>4
<1>6. IsInjective(t)
  <2> SUFFICES ASSUME NEW i \in 1..(Len(s) + 1), NEW j \in 1..(Len(s) + 1), t[i] = t[j], i < j
               PROVE  FALSE
    BY <1>2, <1>4 DEF IsInjective
  <2> DEFINE p(n) == IF n < k THEN n ELSE n - 1
  <2>1. ASSUME NEW n \in 1..(Len(s) + 1), n # k
        PROVE  p(n) \in 1..Len(s) /\ t[n] = s[p(n)] /\ t[n] # node
    <3>1. p(n) \in 1..Len(s) /\ t[n] = s[p(n)]
      BY <1>2, <1>3, <2>1
    <3>2. s[p(n)] \in Range(s)
      BY <1>2, <3>1
    <3> QED
      BY <3>1, <3>2
  <2>2. i # k /\ j # k
    <3>1. t[k] = node
      BY <1>2, <1>3
    <3> QED
      BY <1>2, <2>1, <3>1
  <2>3. p(i) \in 1..Len(s) /\ p(j) \in 1..Len(s) /\ s[p(i)] = s[p(j)]
    BY <2>1, <2>2
  <2>4. p(i) = p(j)
    BY <1>1, <1>2, <2>3 DEF IsInjective
  <2> QED
    BY <2>2, <2>4
<1>7. list2 = [head |-> At(t, 1), tail |-> At(t, Len(t)), size |-> Len(t)]
  <2>1. At(t, 1) = IF k = 1 THEN node ELSE At(s, 1)
    BY <1>2, <1>3 DEF At
  <2>2. At(t, Len(t)) = IF k = Len(s) + 1 THEN node ELSE At(s, Len(s))
    BY <1>2, <1>3 DEF At
  <2> QED
    BY <1>3, <2>1, <2>2 DEF Enters
<1>8. ASSUME NEW i \in 1..(Len(s) + 1)
      PROVE  link2[t[i]] = [next |-> At(t, i + 1), prev |-> At(t, i - 1)]
  <2>1. CASE i = k
    <3>1. At(t, k + 1) = At(s, k) /\ At(t, k - 1) = At(s, k - 1)
      BY <1>2, <1>3 DEF At
    <3> QED
      BY <1>3, <2>1, <3>1 DEF Enters
  <2>2. CASE i # k
    <3>1. PICK j : j = IF i < k THEN i ELSE i - 1
      OBVIOUS
    <3>2. j \in 1..Len(s) /\ t[i] = s[j] /\ s[j] \in Nodes \ {node}
      BY <1>2, <1>3, <2>2, <3>1
    <3>3. link[s[j]] = [next |-> At(s, j + 1), prev |-> At(s, j - 1)]
      BY <3>2 DEF IsChain
    <3>4. s[j] = At(s, k - 1) <=> j = k - 1
      BY <1>1, <1>2, <3>2 DEF At, IsInjective
    <3>5. s[j] = At(s, k) <=> j = k
      BY <1>1, <1>2, <3>2 DEF At, IsInjective
    <3>6. At(t, i + 1) = IF j = k - 1 THEN node ELSE At(s, j + 1)
      BY <1>2, <1>3, <2>2, <3>1, <3>2 DEF At
    <3>7. At(t, i - 1) = IF j = k THEN node ELSE At(s, j - 1)
      BY <1>2, <1>3, <2>2, <3>1, <3>2 DEF At
    <3>8. link2[s[j]] = [next |-> IF j = k - 1 THEN node ELSE At(s, j + 1),
                         prev |-> IF j = k THEN node ELSE At(s, j - 1)]
      BY <3>2, <3>3, <3>4, <3>5 DEF Enters
    <3> QED
      BY <3>2, <3>6, <3>7, <3>8
  <2> QED
    BY <2>1, <2>2
<1>9. IsChain(list2, link2, t)
  BY <1>3, <1>6, <1>7, <1>8 DEF IsChain
<1> QED
  BY <1>5, <1>9 DEF t

(* The number before a removal of what is the i-th element after it.       *)
Skip(i, k) == IF i < k THEN i ELSE i + 1

(* t is s without its k-th element.                                        *)
IsWithout(t, s, k) ==
  /\ t \in Seq(Nodes) /\ Len(t) = Len(s) - 1
  /\ \A i \in 1..(Len(s) - 1) : t[i] = s[Skip(i, k)]

(* A number that is not k, and where it was before k was left out.         *)
LEMMA Skipping ==
  ASSUME NEW n \in Nat, NEW k \in 1..n, NEW i \in 1..(n - 1)
  PROVE  Skip(i, k) \in 1..n /\ Skip(i, k) # k
BY DEF Skip

(* What is left of a sequence without repetitions after a removal.         *)
LEMMA RemovedPlaces ==
  ASSUME NEW s \in Seq(Nodes), IsInjective(s), NEW k \in 1..Len(s)
  PROVE  /\ IsWithout(RemoveAt(s, k), s, k) /\ IsInjective(RemoveAt(s, k))
         /\ Range(RemoveAt(s, k)) = Range(s) \ {s[k]}
<1> DEFINE t == RemoveAt(s, k)
<1>1. /\ Len(s) \in Nat /\ DOMAIN s = 1..Len(s) /\ \A n \in 1..Len(s) : s[n] \in Nodes
      /\ Range(s) = {s[n] : n \in 1..Len(s)}
  BY Elements, ElementOfSeq
<1>2. /\ t \in Seq(Nodes) /\ Len(t) = Len(s) - 1
      /\ \A i \in 1..(Len(s) - 1) : t[i] = IF i < k THEN s[i] ELSE s[i + 1]
  BY Removed
<1> HIDE DEF t
<1>3. DOMAIN t = 1..(Len(s) - 1)
  BY <1>2, Elements
<1>4. ASSUME NEW i \in 1..(Len(s) - 1)
      PROVE  Skip(i, k) \in 1..Len(s) /\ Skip(i, k) # k /\ t[i] = s[Skip(i, k)]
  <2>1. t[i] = s[Skip(i, k)]
    BY <1>2 DEF Skip
  <2>2. Skip(i, k) \in 1..Len(s) /\ Skip(i, k) # k
    BY <1>1, Skipping
  <2> QED
    BY <2>1, <2>2
<1>5. Range(t) = {t[i] : i \in 1..(Len(s) - 1)}
  BY <1>3 DEF Range
<1>6. Range(t) \subseteq Range(s) \ {s[k]}
  <2>1. ASSUME NEW i \in 1..(Len(s) - 1) PROVE t[i] \in Range(s) \ {s[k]}
    <3>1. s[Skip(i, k)] # s[k]
      BY <1>1, <1>4 DEF IsInjective
    <3>2. s[Skip(i, k)] \in Range(s)
      BY <1>1, <1>4
    <3> QED
      BY <1>4, <3>1, <3>2
  <2> QED
    BY <1>5, <2>1
<1>7. ASSUME NEW j \in 1..Len(s), j # k PROVE s[j] \in Range(t)
  <2>1. PICK i : i = IF j < k THEN j ELSE j - 1
    OBVIOUS
  <2>2. i \in 1..(Len(s) - 1) /\ Skip(i, k) = j
    BY <1>1, <1>7, <2>1 DEF Skip
  <2> QED
    BY <1>4, <1>5, <2>2
<1>8. Range(t) = Range(s) \ {s[k]}
  BY <1>1, <1>6, <1>7
<1>9. IsInjective(t)
  <2> SUFFICES ASSUME NEW i \in 1..(Len(s) - 1), NEW j \in 1..(Len(s) - 1), t[i] = t[j]
               PROVE  i = j
    BY <1>3 DEF IsInjective
  <2>1. Skip(i, k) \in 1..Len(s) /\ Skip(j, k) \in 1..Len(s) /\ s[Skip(i, k)] = s[Skip(j, k)]
    BY <1>4
  <2>2. Skip(i, k) = Skip(j, k)
    BY <1>1, <2>1 DEF IsInjective
  <2> QED
    BY <2>2 DEF Skip
<1> QED
  BY <1>2, <1>4, <1>8, <1>9 DEF t, IsWithout

(* The neighbours of what is left.                                         *)
LEMMA RemovedNeighbours ==
  ASSUME NEW s \in Seq(Nodes), IsInjective(s), NEW k \in 1..Len(s),
         NEW t, IsWithout(t, s, k)
  PROVE  /\ At(t, 1) = IF k = 1 THEN At(s, 2) ELSE At(s, 1)
         /\ At(t, Len(t)) = IF k = Len(s) THEN At(s, k - 1) ELSE At(s, Len(s))
         /\ \A i \in 1..(Len(s) - 1) : \A j \in 1..Len(s) :
              j = Skip(i, k) =>
                /\ j # k
                /\ At(t, i + 1) = IF j = k - 1 THEN At(s, k + 1) ELSE At(s, j + 1)
                /\ At(t, i - 1) = IF j = k + 1 THEN At(s, k - 1) ELSE At(s, j - 1)
<1>1. /\ Len(s) \in Nat /\ Len(t) \in Nat /\ Len(t) = Len(s) - 1
      /\ \A i \in 1..(Len(s) - 1) : t[i] = s[Skip(i, k)]
  BY LenProperties DEF IsWithout
<1>2. At(t, 1) = IF k = 1 THEN At(s, 2) ELSE At(s, 1)
  BY <1>1 DEF At, Skip
<1>3. At(t, Len(t)) = IF k = Len(s) THEN At(s, k - 1) ELSE At(s, Len(s))
  BY <1>1 DEF At, Skip
<1>4. ASSUME NEW i \in 1..(Len(s) - 1), NEW j \in 1..Len(s), j = Skip(i, k)
      PROVE  /\ j # k
             /\ At(t, i + 1) = IF j = k - 1 THEN At(s, k + 1) ELSE At(s, j + 1)
             /\ At(t, i - 1) = IF j = k + 1 THEN At(s, k - 1) ELSE At(s, j - 1)
  <2>1. j # k
    BY <1>1, <1>4, Skipping
  <2>2. At(t, i + 1) = IF j = k - 1 THEN At(s, k + 1) ELSE At(s, j + 1)
    BY <1>1, <1>4 DEF At, Skip
  <2>3. At(t, i - 1) = IF j = k + 1 THEN At(s, k - 1) ELSE At(s, j - 1)
    <3>1. CASE i < k
      BY <1>1, <1>4, <3>1 DEF At, Skip
    <3>2. CASE i = k
      BY <1>1, <1>4, <3>2 DEF At, Skip
    <3>3. CASE i > k
      <4>1. i - 1 \in 1..(Len(s) - 1) /\ ~(i - 1 < k) /\ (i - 1) + 1 = i /\ j = i + 1 /\ j # k + 1
        BY <1>1, <1>4, <3>3 DEF Skip
      <4>2. PICK m : m = i - 1
        OBVIOUS
      <4>3. t[m] = s[m + 1] /\ m + 1 = i
        BY <1>1, <4>1, <4>2 DEF Skip
      <4> QED
        BY <1>1, <4>1, <4>2, <4>3 DEF At
    <3> QED
      BY <1>1, <3>1, <3>2, <3>3
  <2> QED
    BY <2>1, <2>2, <2>3
<1> QED
  BY <1>2, <1>3, <1>4

(* The k-th node is linked out.                                            *)
LEMMA LinkedOut ==
  ASSUME NoNode \notin Nodes, NEW list, NEW link \in [Nodes -> LinkRecords],
         NEW s, IsChain(list, link, s), NEW k \in 1..Len(s), NEW node, node = s[k],
         NEW list2, NEW link2, Leaves(list2, link, link2, s, k)
  PROVE  /\ IsChain(list2, link2, RemoveAt(s, k))
         /\ Range(RemoveAt(s, k)) = Range(s) \ {node}
<1> DEFINE t == RemoveAt(s, k)
<1>1. s \in Seq(Nodes) /\ IsInjective(s)
  BY DEF IsChain
<1>2. /\ Len(s) \in Nat /\ DOMAIN s = 1..Len(s) /\ \A n \in 1..Len(s) : s[n] \in Nodes
  BY <1>1, Elements, ElementOfSeq
<1>3. /\ IsWithout(t, s, k) /\ IsInjective(t) /\ Range(t) = Range(s) \ {s[k]}
  BY <1>1, RemovedPlaces
<1> HIDE DEF t
<1>4. /\ At(t, 1) = IF k = 1 THEN At(s, 2) ELSE At(s, 1)
      /\ At(t, Len(t)) = IF k = Len(s) THEN At(s, k - 1) ELSE At(s, Len(s))
      /\ \A i \in 1..(Len(s) - 1) : \A j \in 1..Len(s) :
           j = Skip(i, k) =>
             /\ j # k
             /\ At(t, i + 1) = IF j = k - 1 THEN At(s, k + 1) ELSE At(s, j + 1)
             /\ At(t, i - 1) = IF j = k + 1 THEN At(s, k - 1) ELSE At(s, j - 1)
  BY <1>1, <1>3, RemovedNeighbours
<1>5. t \in Seq(Nodes) /\ Len(t) = Len(s) - 1 /\ \A i \in 1..(Len(s) - 1) : t[i] = s[Skip(i, k)]
  BY <1>3 DEF IsWithout
<1>7. list2 = [head |-> At(t, 1), tail |-> At(t, Len(t)), size |-> Len(t)]
  BY <1>4, <1>5 DEF Leaves
<1>8. ASSUME NEW i \in 1..(Len(s) - 1)
      PROVE  link2[t[i]] = [next |-> At(t, i + 1), prev |-> At(t, i - 1)]
  <2>1. PICK j \in 1..Len(s) : j = Skip(i, k)
    <3>1. Skip(i, k) \in 1..Len(s)
      BY <1>2, Skipping
    <3> QED
      BY <3>1
  <2>2. j # k /\ t[i] = s[j] /\ s[j] \in Nodes /\ s[j] # s[k]
    BY <1>1, <1>2, <1>4, <1>5, <2>1, Zenon DEF IsInjective
  <2>3. link[s[j]] = [next |-> At(s, j + 1), prev |-> At(s, j - 1)]
    BY <2>2 DEF IsChain
  <2>4. s[j] = At(s, k - 1) <=> j = k - 1
    BY <1>1, <1>2, <2>2 DEF At, IsInjective
  <2>5. s[j] = At(s, k + 1) <=> j = k + 1
    BY <1>1, <1>2, <2>2 DEF At, IsInjective
  <2>8. link2[s[j]] = [next |-> IF j = k - 1 THEN At(s, k + 1) ELSE At(s, j + 1),
                       prev |-> IF j = k + 1 THEN At(s, k - 1) ELSE At(s, j - 1)]
    BY <2>2, <2>3, <2>4, <2>5 DEF Leaves
  <2> QED
    BY <1>4, <2>1, <2>2, <2>8
<1>9. IsChain(list2, link2, t)
  BY <1>3, <1>5, <1>7, <1>8 DEF IsChain
<1> QED
  BY <1>3, <1>9 DEF t

Heaps == [of : [Objects -> ListRecords], link : [Nodes -> LinkRecords]]

(* What changes when the heap h becomes h2: only l among the lists.        *)
OnlyChanges(h, h2, l) == \A m \in Objects \ {l} : h2.of[m] = h.of[m]

(* No list has the node.                                                   *)
IsFree(c, node) == \A m \in Objects : node \notin Range(c[m])

(* The chains d have the nodes of the chains c, but l has those of R.      *)
HasOnly(d, c, l, R) == \A m \in Objects : Range(d[m]) = IF m = l THEN R ELSE Range(c[m])

(* Linking a node in: the other lists keep their chains.                   *)
LEMMA InsertionKeeps ==
  ASSUME NoNode \notin Nodes, NEW h, NEW c, AreChains(h, c), NEW l \in Objects,
         NEW node \in Nodes, IsFree(c, node),
         NEW k \in 1..(Len(c[l]) + 1), NEW h2, h2 \in Heaps, OnlyChanges(h, h2, l),
         Enters(h2.of[l], h.link, h2.link, c[l], k, node)
  PROVE  /\ AreChains(h2, [c EXCEPT ![l] = InsertAt(c[l], k, node)])
         /\ HasOnly([c EXCEPT ![l] = InsertAt(c[l], k, node)], c, l, Range(c[l]) \cup {node})
<1> DEFINE t == InsertAt(c[l], k, node)
           d == [c EXCEPT ![l] = t]
<1>0. /\ h2 \in [of : [Objects -> ListRecords], link : [Nodes -> LinkRecords]]
      /\ \A m \in Objects \ {l} : h2.of[m] = h.of[m]
      /\ \A m \in Objects : node \notin Range(c[m])
  BY DEF Heaps, OnlyChanges, IsFree
<1>1. h.link \in [Nodes -> LinkRecords] /\ IsChain(h.of[l], h.link, c[l])
  BY DEF AreChains
<1>2. h2.link \in [Nodes -> LinkRecords]
  BY <1>0
<1>3. IsChain(h2.of[l], h2.link, t) /\ Range(t) = Range(c[l]) \cup {node}
  <2>1. node \notin Range(c[l])
    BY <1>0
  <2>2. IsChain(h2.of[l], h2.link, t)
    BY <1>1, <2>1, LinkedIn
  <2>3. Range(t) = Range(c[l]) \cup {node}
    BY <1>1, <2>1, LinkedIn
  <2> QED
    BY <2>2, <2>3
<1> HIDE DEF t
<1>4. t \in Seq(Nodes)
  BY <1>3 DEF IsChain
<1>5. d \in [Objects -> Seq(Nodes)] /\ d[l] = t /\ \A m \in Objects \ {l} : d[m] = c[m]
  BY <1>4 DEF AreChains
<1> HIDE DEF d
<1>6. ASSUME NEW m \in Objects \ {l} PROVE IsChain(h2.of[m], h2.link, c[m])
  <2>1. IsChain(h.of[m], h.link, c[m]) /\ Range(c[m]) \cap Range(c[l]) = {}
    BY DEF AreChains
  <2>2. Range(c[m]) \subseteq Nodes \ {node}
    BY <1>0, <2>1, Elements DEF IsChain
  <2>3. ASSUME NEW n \in Range(c[m]) PROVE h2.link[n] = h.link[n]
    <3>1. n # At(c[l], k - 1) /\ n # At(c[l], k)
      <4>1. \A i \in 1..Len(c[l]) : c[l][i] \in Range(c[l])
        BY <1>1, Elements DEF IsChain
      <4> QED
        BY <2>1, <2>2, <4>1 DEF At
    <3>2. h.link[n] \in LinkRecords
      BY <1>1, <2>2
    <3>3. h2.link[n] = [next |-> h.link[n].next, prev |-> h.link[n].prev]
      BY <2>2, <3>1 DEF Enters
    <3> QED
      BY <3>2, <3>3 DEF LinkRecords
  <2>4. h2.of[m] = h.of[m]
    BY <1>0
  <2> QED
    BY <2>1, <2>3, <2>4, Untouched
<1>7. ASSUME NEW m \in Objects PROVE IsChain(h2.of[m], h2.link, d[m])
  BY <1>3, <1>5, <1>6
<1>8. ASSUME NEW m \in Objects PROVE Range(d[m]) = IF m = l THEN Range(c[l]) \cup {node} ELSE Range(c[m])
  BY <1>3, <1>5
<1>9. ASSUME NEW m \in Objects, NEW n \in Objects, m # n PROVE Range(d[m]) \cap Range(d[n]) = {}
  <2>1. Range(c[m]) \cap Range(c[n]) = {}
    BY <1>9 DEF AreChains
  <2> QED
    BY <1>0, <1>8, <1>9, <2>1
<1>10. AreChains(h2, d)
  BY <1>0, <1>5, <1>7, <1>9 DEF AreChains
<1> QED
  BY <1>8, <1>10 DEF d, t, HasOnly

(* Linking a node out, whatever becomes of its own links.                  *)
LEMMA RemovalKeeps ==
  ASSUME NoNode \notin Nodes, NEW h, NEW c, AreChains(h, c), NEW l \in Objects,
         NEW k \in 1..Len(c[l]), NEW h2, h2 \in Heaps, OnlyChanges(h, h2, l),
         Leaves(h2.of[l], h.link, h2.link, c[l], k)
  PROVE  /\ AreChains(h2, [c EXCEPT ![l] = RemoveAt(c[l], k)])
         /\ HasOnly([c EXCEPT ![l] = RemoveAt(c[l], k)], c, l, Range(c[l]) \ {c[l][k]})
<1> DEFINE t == RemoveAt(c[l], k)
           d == [c EXCEPT ![l] = t]
<1>0. /\ h2 \in [of : [Objects -> ListRecords], link : [Nodes -> LinkRecords]]
      /\ \A m \in Objects \ {l} : h2.of[m] = h.of[m]
  BY DEF Heaps, OnlyChanges
<1>1. h.link \in [Nodes -> LinkRecords] /\ IsChain(h.of[l], h.link, c[l])
  BY DEF AreChains
<1>2. h2.link \in [Nodes -> LinkRecords]
  BY <1>0
<1>3. IsChain(h2.of[l], h2.link, t) /\ Range(t) = Range(c[l]) \ {c[l][k]}
  <2>1. PICK node : node = c[l][k]
    OBVIOUS
  <2>2. IsChain(h2.of[l], h2.link, t)
    BY <1>1, <2>1, LinkedOut
  <2>3. Range(t) = Range(c[l]) \ {node}
    BY <1>1, <2>1, LinkedOut
  <2> QED
    BY <2>1, <2>2, <2>3
<1> HIDE DEF t
<1>4. t \in Seq(Nodes)
  BY <1>3 DEF IsChain
<1>5. d \in [Objects -> Seq(Nodes)] /\ d[l] = t /\ \A m \in Objects \ {l} : d[m] = c[m]
  BY <1>4 DEF AreChains
<1> HIDE DEF d
<1>a. \A i \in 1..Len(c[l]) : c[l][i] \in Range(c[l])
  BY <1>1, Elements DEF IsChain
<1>6. ASSUME NEW m \in Objects \ {l} PROVE IsChain(h2.of[m], h2.link, c[m])
  <2>1. IsChain(h.of[m], h.link, c[m]) /\ Range(c[m]) \cap Range(c[l]) = {}
    BY DEF AreChains
  <2>2. Range(c[m]) \subseteq Nodes \ {c[l][k]}
    BY <1>a, <2>1, Elements DEF IsChain
  <2>3. ASSUME NEW n \in Range(c[m]) PROVE h2.link[n] = h.link[n]
    <3>1. n # At(c[l], k - 1) /\ n # At(c[l], k + 1)
      BY <1>a, <2>1, <2>2 DEF At
    <3>2. h.link[n] \in LinkRecords
      BY <1>1, <2>2
    <3>3. h2.link[n] = [next |-> h.link[n].next, prev |-> h.link[n].prev]
      BY <2>2, <3>1 DEF Leaves
    <3> QED
      BY <3>2, <3>3 DEF LinkRecords
  <2>4. h2.of[m] = h.of[m]
    BY <1>0
  <2> QED
    BY <2>1, <2>3, <2>4, Untouched
<1>7. ASSUME NEW m \in Objects PROVE IsChain(h2.of[m], h2.link, d[m])
  BY <1>3, <1>5, <1>6
<1>8. ASSUME NEW m \in Objects
      PROVE  Range(d[m]) = IF m = l THEN Range(c[l]) \ {c[l][k]} ELSE Range(c[m])
  BY <1>3, <1>5
<1>9. ASSUME NEW m \in Objects, NEW n \in Objects, m # n PROVE Range(d[m]) \cap Range(d[n]) = {}
  <2>1. Range(c[m]) \cap Range(c[n]) = {}
    BY <1>9 DEF AreChains
  <2> QED
    BY <1>8, <1>9, <2>1
<1>10. AreChains(h2, d)
  BY <1>0, <1>5, <1>7, <1>9 DEF AreChains
<1> QED
  BY <1>8, <1>10 DEF d, t, HasOnly

-----------------------------------------------------------------------------
(* The operations of list.hpp.                                             *)

(* The fields of a list and the ends of its sequence.                      *)
LEMMA Ends ==
  ASSUME NoNode \notin Nodes, NEW h, NEW c, AreChains(h, c), NEW l \in Objects
  PROVE  /\ c[l] \in Seq(Nodes) /\ Len(c[l]) \in Nat /\ h \in Heaps
         /\ h.of[l].head = At(c[l], 1) /\ h.of[l].tail = At(c[l], Len(c[l]))
         /\ h.of[l].size = Len(c[l])
         /\ \A n \in Int : At(c[l], n) \in Places
         /\ \A n \in Int : At(c[l], n) = NoNode <=> n \notin 1..Len(c[l])
         /\ \A n \in 1..Len(c[l]) : /\ h.link[c[l][n]].next = At(c[l], n + 1)
                                    /\ h.link[c[l][n]].prev = At(c[l], n - 1)
<1>1. IsChain(h.of[l], h.link, c[l]) /\ h \in Heaps
  BY DEF AreChains, Heaps
<1>2. c[l] \in Seq(Nodes)
  BY <1>1 DEF IsChain
<1>3. Len(c[l]) \in Nat /\ \A n \in 1..Len(c[l]) : c[l][n] \in Nodes
  BY <1>2, LenProperties, ElementOfSeq
<1>4. \A n \in Int : At(c[l], n) \in Places
  BY <1>2, Elements
<1>5. \A n \in Int : At(c[l], n) = NoNode <=> n \notin 1..Len(c[l])
  BY <1>3 DEF At
<1>6. h.of[l].head = At(c[l], 1) /\ h.of[l].tail = At(c[l], Len(c[l])) /\ h.of[l].size = Len(c[l])
  BY <1>1 DEF IsChain
<1>7. ASSUME NEW n \in 1..Len(c[l])
      PROVE  /\ h.link[c[l][n]].next = At(c[l], n + 1)
             /\ h.link[c[l][n]].prev = At(c[l], n - 1)
  <2>1. h.link[c[l][n]] = [next |-> At(c[l], n + 1), prev |-> At(c[l], n - 1)]
    BY <1>1 DEF IsChain
  <2> QED
    BY <2>1
<1> QED
  BY <1>1, <1>2, <1>3, <1>4, <1>5, <1>6, <1>7

(* push_front                                                              *)
LEMMA PushFrontEnters ==
  ASSUME NoNode \notin Nodes, NEW c, AreChains(obj, c), NEW l \in Objects, NEW node \in Nodes,
         node \notin Range(c[l]), NEW h2, h2 = L!PushFront(l, node)
  PROVE  /\ h2 \in Heaps /\ OnlyChanges(obj, h2, l)
         /\ Enters(h2.of[l], obj.link, h2.link, c[l], 1, node)
<1> DEFINE s == c[l]
           list == obj.of[l]
<1>1. /\ s \in Seq(Nodes) /\ Len(s) \in Nat /\ obj \in Heaps
      /\ list.head = At(s, 1) /\ list.tail = At(s, Len(s)) /\ list.size = Len(s)
      /\ \A n \in Int : At(s, n) \in Places
      /\ \A n \in Int : At(s, n) = NoNode <=> n \notin 1..Len(s)
  BY Ends, SMTT(30)
<1>2. list \in ListRecords /\ obj.of \in [Objects -> ListRecords] /\ obj.link \in [Nodes -> LinkRecords]
  BY <1>1 DEF Heaps
<1> DEFINE list2 == [head |-> node, tail |-> IF 1 = Len(s) + 1 THEN node ELSE At(s, Len(s)),
                     size |-> Len(s) + 1]
           link2 == [n \in Nodes |-> CASE n = node -> [next |-> list.head, prev |-> NoNode]
                                  [] n = list.head -> [obj.link[n] EXCEPT !.prev = node]
                                  [] OTHER -> obj.link[n]]
<1>3. h2 = [obj EXCEPT !.of[l] = list2, !.link = link2]
  <2>1. (list.head = NoNode /\ list.tail = NoNode) <=> 1 = Len(s) + 1
    BY <1>1
  <2>2. list2 = [head |-> node,
                 tail |-> IF list.head = NoNode /\ list.tail = NoNode THEN node ELSE list.tail,
                 size |-> list.size + 1]
    BY <1>1, <2>1
  <2> HIDE DEF list2, link2
  <2> QED
    BY <2>2 DEF link2, L!PushFront
<1>4. list2 \in ListRecords
  BY <1>1 DEF ListRecords, Places
<1>5. link2 \in [Nodes -> LinkRecords]
  BY <1>1, <1>2 DEF LinkRecords, Places
<1> HIDE DEF list2, link2
<1>6. h2.of = [obj.of EXCEPT ![l] = list2] /\ h2.link = link2 /\ h2 \in Heaps
  <2>1. /\ h2.of = [obj.of EXCEPT ![l] = list2] /\ h2.link = link2
        /\ h2 = [of |-> h2.of, link |-> h2.link]
    BY ONLY <1>1, <1>3 DEF Heaps
  <2>2. h2.of \in [Objects -> ListRecords]
    BY ONLY <1>2, <1>4, <2>1
  <2> QED
    BY ONLY <1>5, <2>1, <2>2 DEF Heaps
<1>7. OnlyChanges(obj, h2, l) /\ h2.of[l] = list2
  BY <1>2, <1>6 DEF OnlyChanges
<1>8. ASSUME NEW n \in Nodes \ {node}
      PROVE  link2[n] = [next |-> IF n = At(s, 0) THEN node ELSE obj.link[n].next,
                         prev |-> IF n = At(s, 1) THEN node ELSE obj.link[n].prev]
  <2>1. n # At(s, 0) /\ list.head = At(s, 1) /\ obj.link[n] \in LinkRecords
    BY <1>1, <1>2
  <2> QED
    BY <2>1 DEF link2, LinkRecords
<1>9. link2[node] = [next |-> At(s, 1), prev |-> At(s, 0)]
  <2>1. list.head = At(s, 1) /\ NoNode = At(s, 0) /\ node # list.head
    BY <1>1, Elements DEF At
  <2> QED
    BY <2>1 DEF link2
<1> QED
  BY <1>5, <1>6, <1>7, <1>8, <1>9 DEF Enters, list2

(* push_back                                                               *)
LEMMA PushBackEnters ==
  ASSUME NoNode \notin Nodes, NEW c, AreChains(obj, c), NEW l \in Objects, NEW node \in Nodes,
         node \notin Range(c[l]), NEW h2, h2 = L!PushBack(l, node)
  PROVE  /\ h2 \in Heaps /\ OnlyChanges(obj, h2, l)
         /\ Enters(h2.of[l], obj.link, h2.link, c[l], Len(c[l]) + 1, node)
<1> DEFINE s == c[l]
           list == obj.of[l]
<1>1. /\ s \in Seq(Nodes) /\ Len(s) \in Nat /\ obj \in Heaps
      /\ list.head = At(s, 1) /\ list.tail = At(s, Len(s)) /\ list.size = Len(s)
      /\ \A n \in Int : At(s, n) \in Places
      /\ \A n \in Int : At(s, n) = NoNode <=> n \notin 1..Len(s)
  BY Ends, SMTT(30)
<1>2. list \in ListRecords /\ obj.of \in [Objects -> ListRecords] /\ obj.link \in [Nodes -> LinkRecords]
  BY <1>1 DEF Heaps
<1> DEFINE list2 == [head |-> IF Len(s) + 1 = 1 THEN node ELSE At(s, 1), tail |-> node,
                     size |-> Len(s) + 1]
           link2 == [n \in Nodes |-> CASE n = node -> [next |-> NoNode, prev |-> list.tail]
                                  [] n = list.tail -> [obj.link[n] EXCEPT !.next = node]
                                  [] OTHER -> obj.link[n]]
<1>3. h2 = [obj EXCEPT !.of[l] = list2, !.link = link2]
  <2>1. (list.tail = NoNode /\ list.head = NoNode) <=> Len(s) + 1 = 1
    BY <1>1
  <2>2. list2 = [head |-> IF list.tail = NoNode /\ list.head = NoNode THEN node ELSE list.head,
                 tail |-> node, size |-> list.size + 1]
    BY <1>1, <2>1
  <2> HIDE DEF list2, link2
  <2> QED
    BY <2>2 DEF link2, L!PushBack
<1>4. list2 \in ListRecords
  BY <1>1 DEF ListRecords, Places
<1>5. link2 \in [Nodes -> LinkRecords]
  BY <1>1, <1>2 DEF LinkRecords, Places
<1> HIDE DEF list2, link2
<1>6. h2.of = [obj.of EXCEPT ![l] = list2] /\ h2.link = link2 /\ h2 \in Heaps
  <2>1. /\ h2.of = [obj.of EXCEPT ![l] = list2] /\ h2.link = link2
        /\ h2 = [of |-> h2.of, link |-> h2.link]
    BY ONLY <1>1, <1>3 DEF Heaps
  <2>2. h2.of \in [Objects -> ListRecords]
    BY ONLY <1>2, <1>4, <2>1
  <2> QED
    BY ONLY <1>5, <2>1, <2>2 DEF Heaps
<1>7. OnlyChanges(obj, h2, l) /\ h2.of[l] = list2
  BY <1>2, <1>6 DEF OnlyChanges
<1>a. PICK k : k = Len(s) + 1
  OBVIOUS
<1>8. ASSUME NEW n \in Nodes \ {node}
      PROVE  link2[n] = [next |-> IF n = At(s, k - 1) THEN node ELSE obj.link[n].next,
                         prev |-> IF n = At(s, k) THEN node ELSE obj.link[n].prev]
  <2>1. n # At(s, k) /\ list.tail = At(s, k - 1) /\ obj.link[n] \in LinkRecords
    BY <1>1, <1>2, <1>a
  <2> QED
    BY <2>1 DEF link2, LinkRecords
<1>9. link2[node] = [next |-> At(s, k), prev |-> At(s, k - 1)]
  <2>1. At(s, k) = NoNode /\ list.tail = At(s, k - 1) /\ node # list.tail
    BY <1>1, <1>a, Elements DEF At
  <2> QED
    BY <2>1 DEF link2
<1>10. list2 = [head |-> IF k = 1 THEN node ELSE At(s, 1),
                tail |-> IF k = Len(s) + 1 THEN node ELSE At(s, Len(s)), size |-> Len(s) + 1]
  BY <1>a DEF list2
<1>11. Enters(h2.of[l], obj.link, h2.link, s, k, node)
  BY <1>5, <1>6, <1>7, <1>8, <1>9, <1>10 DEF Enters
<1> QED
  BY <1>6, <1>7, <1>11, <1>a

(* The assignments of insert, and what they change.                        *)
Assigned(h, l, head, link2) ==
  [h EXCEPT !.of[l].head = head, !.of[l].size = @ + 1, !.link = link2]

LEMMA InsertChanges ==
  ASSUME NEW h \in Heaps, NEW l \in Objects, NEW head \in Places,
         NEW link2 \in [Nodes -> LinkRecords],
         NEW h2, h2 = Assigned(h, l, head, link2)
  PROVE  /\ h2 \in Heaps /\ h2.link = link2
         /\ h2.of[l] = [head |-> head, tail |-> h.of[l].tail, size |-> h.of[l].size + 1]
         /\ \A m \in Objects \ {l} : h2.of[m] = h.of[m]
<1>1. h2.of[l] = [head |-> head, tail |-> h.of[l].tail, size |-> h.of[l].size + 1]
  BY DEF Assigned, Heaps, ListRecords
<1>2. ASSUME NEW m \in Objects \ {l} PROVE h2.of[m] = h.of[m]
  BY DEF Assigned, Heaps, ListRecords
<1>3. h2.link = link2
  BY DEF Assigned, Heaps, ListRecords
<1>4. h2 = [of |-> h2.of, link |-> h2.link] /\ h2.of = [m \in Objects |-> h2.of[m]]
  BY DEF Assigned, Heaps, ListRecords
<1>5. ASSUME NEW m \in Objects PROVE h2.of[m] \in ListRecords
  <2>1. h.of[m] \in ListRecords
    BY DEF Heaps
  <2> QED
    BY <1>1, <1>2, <2>1 DEF ListRecords
<1>6. h2.of \in [Objects -> ListRecords]
  BY <1>4, <1>5
<1>7. h2 \in Heaps
  BY <1>3, <1>4, <1>6 DEF Heaps
<1> QED
  BY <1>1, <1>2, <1>3, <1>7

(* insert before a node                                                    *)
LEMMA InsertBeforeEnters ==
  ASSUME NoNode \notin Nodes, NEW c, AreChains(obj, c), NEW l \in Objects, NEW node \in Nodes,
         node \notin Range(c[l]),
         NEW k \in 1..Len(c[l]), NEW h2, h2 = L!InsertBefore(l, c[l][k], node)
  PROVE  /\ h2 \in Heaps /\ OnlyChanges(obj, h2, l)
         /\ Enters(h2.of[l], obj.link, h2.link, c[l], k, node)
<1> DEFINE s == c[l]
           list == obj.of[l]
<1>1. /\ s \in Seq(Nodes) /\ Len(s) \in Nat /\ obj \in Heaps
      /\ list.head = At(s, 1) /\ list.tail = At(s, Len(s)) /\ list.size = Len(s)
      /\ \A n \in Int : At(s, n) \in Places
      /\ \A n \in Int : At(s, n) = NoNode <=> n \notin 1..Len(s)
      /\ obj.link[s[k]].prev = At(s, k - 1)
  BY Ends, SMTT(30)
<1>2. list \in ListRecords /\ obj.of \in [Objects -> ListRecords] /\ obj.link \in [Nodes -> LinkRecords]
  BY <1>1 DEF Heaps
<1>a. PICK position, before : position = s[k] /\ before = At(s, k - 1)
  OBVIOUS
<1>b. /\ position = At(s, k) /\ position \in Nodes /\ position # before /\ before \in Places
      /\ before # node /\ position # node
  <2>1. position = At(s, k)
    BY <1>a DEF At
  <2>2. position \in Range(s) /\ position \in Nodes
    BY <1>1, <1>a, Elements, ElementOfSeq
  <2>3. IsInjective(s) /\ DOMAIN s = 1..Len(s)
    BY <1>1, Elements DEF AreChains, IsChain
  <2>4. position # before
    BY <1>1, <1>a, <2>2, <2>3 DEF At, IsInjective
  <2>5. before = NoNode \/ before \in Range(s)
    BY <1>1, <1>a, Elements DEF At
  <2>6. before \in Places
    BY <1>1, <1>a
  <2> QED
    BY <2>1, <2>2, <2>4, <2>5, <2>6
<1> DEFINE link2 == [n \in Nodes |-> CASE n = node -> [next |-> position, prev |-> before]
                                  [] n = position -> [obj.link[n] EXCEPT !.prev = node]
                                  [] n = before -> [obj.link[n] EXCEPT !.next = node]
                                  [] OTHER -> obj.link[n]]
<1>4. link2 \in [Nodes -> LinkRecords]
  BY <1>b, <1>2 DEF LinkRecords, Places
<1>5. PICK head \in Places : head = IF before = NoNode THEN node ELSE list.head
  BY <1>1 DEF Places
<1>6. h2 = Assigned(obj, l, head, link2)
  <2>1. obj.link[position].prev = before
    BY <1>1, <1>a
  <2> HIDE DEF link2
  <2> QED
    BY <1>a, <1>5, <2>1 DEF link2, L!InsertBefore, Assigned
<1> HIDE DEF link2
<1>7. /\ h2 \in Heaps /\ h2.link = link2 /\ OnlyChanges(obj, h2, l)
      /\ h2.of[l] = [head |-> head, tail |-> list.tail, size |-> list.size + 1]
  <2>1. obj \in Heaps
    BY <1>1
  <2>2. /\ h2 \in Heaps /\ h2.link = link2
        /\ h2.of[l] = [head |-> head, tail |-> obj.of[l].tail, size |-> obj.of[l].size + 1]
        /\ \A m \in Objects \ {l} : h2.of[m] = obj.of[m]
    BY <1>4, <1>5, <1>6, <2>1, InsertChanges
  <2> QED
    BY <2>2 DEF OnlyChanges
<1>8. ASSUME NEW n \in Nodes \ {node}
      PROVE  link2[n] = [next |-> IF n = At(s, k - 1) THEN node ELSE obj.link[n].next,
                         prev |-> IF n = At(s, k) THEN node ELSE obj.link[n].prev]
  <2>1. obj.link[n] \in LinkRecords
    BY <1>2
  <2> QED
    BY <1>a, <1>b, <2>1 DEF link2, LinkRecords
<1>9. link2[node] = [next |-> At(s, k), prev |-> At(s, k - 1)]
  BY <1>a, <1>b DEF link2
<1>10. h2.of[l] = [head |-> IF k = 1 THEN node ELSE At(s, 1),
                    tail |-> IF k = Len(s) + 1 THEN node ELSE At(s, Len(s)), size |-> Len(s) + 1]
  <2>1. before = NoNode <=> k = 1
    BY <1>1, <1>a
  <2>2. k # Len(s) + 1
    BY <1>1
  <2> QED
    BY <1>1, <1>5, <1>7, <2>1, <2>2
<1>11. Enters(h2.of[l], obj.link, h2.link, s, k, node)
  BY <1>4, <1>7, <1>8, <1>9, <1>10 DEF Enters
<1> QED
  BY <1>7, <1>11

(* extract                                                                 *)
LEMMA UnlinkLeaves ==
  ASSUME NoNode \notin Nodes, NEW h, NEW c, AreChains(h, c), NEW l \in Objects,
         NEW k \in 1..Len(c[l]), NEW h2, h2 = L!Unlink(h, l, c[l][k])
  PROVE  /\ h2 \in Heaps /\ OnlyChanges(h, h2, l)
         /\ Leaves(h2.of[l], h.link, h2.link, c[l], k)
<1> DEFINE s == c[l]
           list == h.of[l]
<1>1. /\ s \in Seq(Nodes) /\ Len(s) \in Nat /\ h \in Heaps
      /\ list.head = At(s, 1) /\ list.tail = At(s, Len(s)) /\ list.size = Len(s)
      /\ \A n \in Int : At(s, n) \in Places
      /\ \A n \in Int : At(s, n) = NoNode <=> n \notin 1..Len(s)
      /\ h.link[s[k]].prev = At(s, k - 1) /\ h.link[s[k]].next = At(s, k + 1)
  BY Ends, SMTT(30)
<1>2. list \in ListRecords /\ h.of \in [Objects -> ListRecords] /\ h.link \in [Nodes -> LinkRecords]
  BY <1>1 DEF Heaps
<1>a. PICK node, next, prev : node = s[k] /\ next = At(s, k + 1) /\ prev = At(s, k - 1)
  OBVIOUS
<1>b. next \in Places /\ prev \in Places /\ (next = prev => next = NoNode)
  <2>1. next \in Places /\ prev \in Places
    BY <1>1, <1>a
  <2>2. IsInjective(s) /\ DOMAIN s = 1..Len(s)
    BY <1>1, Elements DEF AreChains, IsChain
  <2>3. next = prev => next = NoNode
    BY <1>1, <1>a, <2>2 DEF At, IsInjective
  <2> QED
    BY <2>1, <2>3
<1> DEFINE list2 == [head |-> IF k = 1 THEN next ELSE At(s, 1),
                     tail |-> IF k = Len(s) THEN prev ELSE At(s, Len(s)),
                     size |-> Len(s) - 1]
           link2 == [n \in Nodes |-> CASE n = next -> [h.link[n] EXCEPT !.prev = prev]
                                  [] n = prev -> [h.link[n] EXCEPT !.next = next]
                                  [] OTHER -> h.link[n]]
<1>3. h2 = [h EXCEPT !.of[l] = list2, !.link = link2]
  <2>1. (prev = NoNode <=> k = 1) /\ (next = NoNode <=> k = Len(s))
    BY <1>1, <1>a
  <2>2. h.link[node].prev = prev /\ h.link[node].next = next
    BY <1>1, <1>a
  <2>3. list2 = [head |-> IF prev = NoNode THEN next ELSE list.head,
                 tail |-> IF next = NoNode THEN prev ELSE list.tail, size |-> list.size - 1]
    BY <1>1, <2>1
  <2> HIDE DEF list2, link2
  <2> QED
    BY <1>a, <2>2, <2>3 DEF link2, L!Unlink
<1>4. list2 \in ListRecords
  BY <1>1, <1>b DEF ListRecords
<1>5. link2 \in [Nodes -> LinkRecords]
  BY <1>b, <1>2 DEF LinkRecords
<1> HIDE DEF list2, link2
<1>6. h2.of = [h.of EXCEPT ![l] = list2] /\ h2.link = link2 /\ h2 \in Heaps
  <2>1. /\ h2.of = [h.of EXCEPT ![l] = list2] /\ h2.link = link2
        /\ h2 = [of |-> h2.of, link |-> h2.link]
    BY ONLY <1>1, <1>3 DEF Heaps
  <2>2. h2.of \in [Objects -> ListRecords]
    BY ONLY <1>2, <1>4, <2>1
  <2> QED
    BY ONLY <1>5, <2>1, <2>2 DEF Heaps
<1>7. OnlyChanges(h, h2, l) /\ h2.of[l] = list2
  BY <1>2, <1>6 DEF OnlyChanges
<1>8. ASSUME NEW n \in Nodes
      PROVE  link2[n] = [next |-> IF n = At(s, k - 1) THEN At(s, k + 1) ELSE h.link[n].next,
                         prev |-> IF n = At(s, k + 1) THEN At(s, k - 1) ELSE h.link[n].prev]
  <2>1. h.link[n] \in LinkRecords
    BY <1>2
  <2> QED
    BY <1>a, <1>b, <2>1 DEF link2, LinkRecords
<1>9. list2 = [head |-> IF k = 1 THEN At(s, 2) ELSE At(s, 1),
               tail |-> IF k = Len(s) THEN At(s, k - 1) ELSE At(s, Len(s)), size |-> Len(s) - 1]
  BY <1>a DEF list2
<1>10. Leaves(h2.of[l], h.link, h2.link, s, k)
  BY <1>5, <1>6, <1>7, <1>8, <1>9 DEF Leaves
<1> QED
  BY <1>6, <1>7, <1>10

(* erase: the links of the node are gone as well.                          *)
LEMMA DeleteLeaves ==
  ASSUME NoNode \notin Nodes, NEW h, NEW c, AreChains(h, c), NEW l \in Objects,
         NEW k \in 1..Len(c[l]), NEW h2, h2 = L!Delete(h, l, c[l][k])
  PROVE  /\ h2 \in Heaps /\ OnlyChanges(h, h2, l)
         /\ Leaves(h2.of[l], h.link, h2.link, c[l], k)
<1>1. PICK g, node : g = L!Unlink(h, l, c[l][k]) /\ node = c[l][k]
  OBVIOUS
<1>2. g \in Heaps /\ OnlyChanges(h, g, l) /\ Leaves(g.of[l], h.link, g.link, c[l], k)
  BY <1>1, UnlinkLeaves
<1>3. h2 = [g EXCEPT !.link[node] = L!Unlinked]
  BY <1>1 DEF L!Delete
<1>4. L!Unlinked \in LinkRecords
  BY DEF L!Unlinked, LinkRecords, Places
<1>5. /\ h2 \in Heaps /\ h2.of = g.of
      /\ \A n \in Nodes \ {node} : h2.link[n] = g.link[n]
  BY <1>2, <1>3, <1>4 DEF Heaps
<1>6. OnlyChanges(h, h2, l)
  BY <1>2, <1>5 DEF OnlyChanges
<1>7. h2.link \in [Nodes -> LinkRecords]
  BY <1>5 DEF Heaps
<1>8. Leaves(h2.of[l], h.link, h2.link, c[l], k)
  BY <1>1, <1>2, <1>5, <1>7 DEF Leaves
<1> QED
  BY <1>5, <1>6, <1>8

-----------------------------------------------------------------------------
(* NodesOf finds the chain that is there.                                  *)

(* NodesOf as a function of any heap.                                     *)
Further(h, l, sofar, n) ==
  LET i == IF sofar = <<>> THEN h.of[l].head ELSE h.link[sofar[Len(sofar)]].next
  IN IF Len(sofar) < n - 1 \/ i = NoNode THEN sofar ELSE Append(sofar, i)

Walk(h, l) ==
  LET walk[n \in 0..Cardinality(Nodes)] ==
        IF n = 0 THEN <<>> ELSE Further(h, l, walk[n - 1], n)
  IN walk

(* The first n elements of a sequence, or all there are.                   *)
First(s, n) == SubSeq(s, 1, IF n <= Len(s) THEN n ELSE Len(s))

(* Cardinality is the same operator in the instance.                       *)
LEMMA SameCardinality == L!Cardinality(Nodes) = Cardinality(Nodes)
BY DEF L!Cardinality, Cardinality

(* NodesOf and Walk, before and after a step.                              *)
LEMMA WalkIsNodesOf ==
  ASSUME NEW l
  PROVE  /\ L!NodesOf(l) = Walk(obj, l)[Cardinality(Nodes)]
         /\ L!NodesOf(l)' = Walk(obj', l)[Cardinality(Nodes)]
<1>1. L!NodesOf(l) = Walk(obj, l)[Cardinality(Nodes)]
  BY SameCardinality DEF L!NodesOf, Walk, Further
<1>2. L!NodesOf(l)' = Walk(obj', l)[Cardinality(Nodes)]
  BY SameCardinality DEF L!NodesOf, Walk, Further
<1> QED
  BY <1>1, <1>2

(* A sequence without repetitions is not longer than there are nodes.      *)
LEMMA ChainFits ==
  ASSUME IsFiniteSet(Nodes), NEW s \in Seq(Nodes), IsInjective(s)
  PROVE  Len(s) <= Cardinality(Nodes) /\ Len(s) = Cardinality(Range(s))
<1>1. Len(s) \in Nat /\ DOMAIN s = 1..Len(s) /\ s \in [1..Len(s) -> Nodes]
  BY LenProperties, ElementOfSeq
<1>2. IsFiniteSet(1..Len(s)) /\ Cardinality(1..Len(s)) = Len(s)
  <2>1. Cardinality(1..Len(s)) = IF 1 > Len(s) THEN 0 ELSE Len(s) - 1 + 1
    BY <1>1, FS_Interval
  <2> QED
    BY <1>1, <2>1, FS_Interval
<1>3. s \in Injection(1..Len(s), Nodes)
  BY <1>1 DEF Injection
<1>4. Cardinality(1..Len(s)) <= Cardinality(Nodes)
  BY <1>3, FS_Injection
<1>5. s \in Bijection(1..Len(s), Range(s))
  BY <1>1 DEF Bijection, Injection, Surjection, Range
<1>6. Cardinality(Range(s)) = Cardinality(1..Len(s))
  BY <1>2, <1>5, FS_Bijection DEF ExistsBijection
<1> QED
  BY <1>2, <1>4, <1>6

(* One step further along a chain.                                         *)
LEMMA FurtherIsNext ==
  ASSUME NoNode \notin Nodes, NEW h, NEW c, AreChains(h, c), NEW l \in Objects, NEW n \in Nat
  PROVE  Further(h, l, First(c[l], n), n + 1) = First(c[l], n + 1)
<1> DEFINE s == c[l]
           sofar == First(s, n)
           more == First(s, n + 1)
<1>1. /\ s \in Seq(Nodes) /\ Len(s) \in Nat /\ h.of[l].head = At(s, 1)
      /\ \A k \in Int : At(s, k) = NoNode <=> k \notin 1..Len(s)
      /\ \A k \in 1..Len(s) : h.link[s[k]].next = At(s, k + 1)
  BY Ends
<1>2. (n + 1) - 1 = n
  OBVIOUS
<1>3. CASE n >= Len(s)
  <2>1. First(s, n) = s /\ First(s, n + 1) = s
    <3>1. SubSeq(s, 1, Len(s)) = s
      BY <1>1, SubSeqProperties, SeqEqual
    <3> QED
      BY <1>1, <1>3, <3>1 DEF First
  <2>2. CASE n > Len(s)
    BY <1>1, <1>2, <2>1, <2>2 DEF Further
  <2>3. CASE n = Len(s) /\ s = <<>>
    BY <1>1, <1>2, <2>1, <2>3 DEF Further
  <2>4. CASE n = Len(s) /\ s # <<>>
    <3>1. Len(s) # 0
      BY <1>1, <2>4, EmptySeq
    <3>2. h.link[s[Len(s)]].next = NoNode
      BY <1>1, <3>1
    <3> QED
      BY <1>1, <1>2, <2>1, <2>4, <3>2 DEF Further
  <2> QED
    BY <1>1, <1>3, <2>2, <2>3, <2>4
<1>4. CASE n < Len(s)
  <2>1. /\ sofar \in Seq(Nodes) /\ Len(sofar) = n /\ \A k \in 1..n : sofar[k] = s[k]
        /\ more \in Seq(Nodes) /\ Len(more) = n + 1 /\ \A k \in 1..(n + 1) : more[k] = s[k]
    BY <1>1, <1>4, SubSeqProperties DEF First
  <2> DEFINE i == IF sofar = <<>> THEN h.of[l].head ELSE h.link[sofar[Len(sofar)]].next
  <2> HIDE DEF sofar, more
  <2>2. i = s[n + 1] /\ i \in Nodes
    <3>1. s[n + 1] \in Nodes /\ At(s, n + 1) = s[n + 1]
      BY <1>1, <1>4, ElementOfSeq DEF At
    <3>2. CASE n = 0
      <4>1. sofar = <<>>
        BY <2>1, <3>2, EmptySeq
      <4> QED
        BY <1>1, <3>1, <3>2, <4>1
    <3>3. CASE n # 0
      <4>1. sofar # <<>> /\ sofar[Len(sofar)] = s[n]
        BY <2>1, <3>3
      <4>2. h.link[s[n]].next = At(s, n + 1)
        BY <1>1, <1>4, <3>3
      <4> QED
        BY <3>1, <4>1, <4>2
    <3> QED
      BY <3>2, <3>3
  <2>3. Further(h, l, sofar, n + 1) = Append(sofar, i)
    <3>1. ~(Len(sofar) < (n + 1) - 1) /\ i # NoNode
      BY <1>2, <2>1, <2>2
    <3> QED
      BY <3>1 DEF Further
  <2> HIDE DEF i
  <2>4. /\ Append(sofar, i) \in Seq(Nodes) /\ Len(Append(sofar, i)) = n + 1
        /\ \A k \in 1..n : Append(sofar, i)[k] = sofar[k]
        /\ Append(sofar, i)[n + 1] = i
    BY <2>1, <2>2, AppendProperties
  <2>5. \A k \in 1..(n + 1) : Append(sofar, i)[k] = more[k]
    BY <2>1, <2>2, <2>4
  <2>6. Append(sofar, i) = more
    BY <2>1, <2>4, <2>5, SeqEqual
  <2> QED
    BY <2>3, <2>6 DEF sofar, more
<1> QED
  BY <1>1, <1>3, <1>4

(* The walk along a chain is the chain.                                    *)
LEMMA Walked ==
  ASSUME NoNode \notin Nodes, IsFiniteSet(Nodes), NEW h, NEW c, AreChains(h, c), NEW l \in Objects
  PROVE  Walk(h, l)[Cardinality(Nodes)] = c[l]
<1> DEFINE C == Cardinality(Nodes)
           s == c[l]
           S == {n \in Nat : n <= C => Walk(h, l)[n] = First(s, n)}
<1>1. C \in Nat /\ s \in Seq(Nodes) /\ Len(s) \in Nat /\ Len(s) <= C
  <2>1. s \in Seq(Nodes) /\ IsInjective(s)
    BY DEF AreChains, IsChain
  <2> QED
    BY <2>1, ChainFits, FS_CardinalityType, LenProperties
<1>2. First(s, 0) = <<>>
  BY <1>1 DEF First
<1>3. \E w : w = [n \in 0..C |-> IF n = 0 THEN <<>> ELSE Further(h, l, w[n - 1], n)]
  <2> DEFINE w == [n \in 0..C |-> First(s, n)]
  <2>1. ASSUME NEW n \in 0..C, n # 0 PROVE First(s, n) = Further(h, l, w[n - 1], n)
    <3>1. PICK m \in Nat : n = m + 1
      <4>1. n - 1 \in Nat /\ n = (n - 1) + 1
        BY <1>1, <2>1
      <4> QED
        BY <4>1
    <3>2. w[n - 1] = First(s, m)
      BY <1>1, <3>1
    <3> HIDE DEF w
    <3> QED
      BY <3>1, <3>2, FurtherIsNext
  <2>2. \A n \in 0..C : First(s, n) = IF n = 0 THEN <<>> ELSE Further(h, l, w[n - 1], n)
    BY <1>2, <2>1
  <2>3. w = [n \in 0..C |-> IF n = 0 THEN <<>> ELSE Further(h, l, w[n - 1], n)]
    BY <2>2
  <2> HIDE DEF w
  <2> QED
    BY <2>3
<1>4. Walk(h, l) = [n \in 0..C |-> IF n = 0 THEN <<>> ELSE Further(h, l, Walk(h, l)[n - 1], n)]
  BY <1>3 DEF Walk
<1>5. 0 \in S
  <2>1. Walk(h, l)[0] = <<>>
    BY <1>1, <1>4
  <2> QED
    BY <1>2, <2>1
<1>6. ASSUME NEW n \in Nat, n \in S PROVE n + 1 \in S
  <2> SUFFICES ASSUME n + 1 <= C PROVE Walk(h, l)[n + 1] = First(s, n + 1)
    OBVIOUS
  <2>1. Walk(h, l)[n] = First(s, n)
    BY <1>1, <1>6
  <2>2. n + 1 \in 0..C /\ n + 1 # 0 /\ (n + 1) - 1 = n
    BY <1>1
  <2>3. Walk(h, l)[n + 1] = Further(h, l, Walk(h, l)[n], n + 1)
    BY <1>4, <2>2
  <2> QED
    BY <2>1, <2>3, FurtherIsNext
<1>7. C \in S
  <2> HIDE DEF S
  <2> QED
    BY <1>1, <1>5, <1>6, NumberInduction
<1>8. First(s, C) = s
  <2>1. SubSeq(s, 1, Len(s)) = s
    BY <1>1, SubSeqProperties, SeqEqual
  <2> QED
    BY <1>1, <2>1 DEF First
<1> QED
  BY <1>1, <1>7, <1>8

-----------------------------------------------------------------------------
(* What a step of List does to the chains.                                 *)

(* The chains c that a heap represents; the extracted node is in none.    *)
Held(h, o, c) ==
  /\ o \in Nodes \cup {Nobody}
  /\ AreChains(h, c)
  /\ \A l \in Objects : o \notin Range(c[l])

Chains == [l \in Objects |-> L!NodesOf(l)]

ListInv == status = "list" /\ Held(obj, out, Chains)

(* The chains d after a step from the chains c, and the extracted nodes o2 *)
(* and o.                                                                  *)
EntersOne(c, d, o, o2) ==
  \E l \in Objects, e \in Nodes : \E k \in 1..(Len(c[l]) + 1) :
    d = [c EXCEPT ![l] = InsertAt(c[l], k, e)] /\ o2 \in {o, Nobody}

LeavesOne(c, d, o, o2) ==
  \E l \in Objects : \E k \in 1..Len(c[l]) :
    d = [c EXCEPT ![l] = RemoveAt(c[l], k)] /\ o2 \in {o, c[l][k]}

LeaveAll(c, d, o, o2) == \E l \in Objects : d = [c EXCEPT ![l] = <<>>] /\ o2 = o

Becomes(c, d, o, o2) ==
  \/ d = c /\ o2 \in {o, Nobody}
  \/ EntersOne(c, d, o, o2) \/ LeavesOne(c, d, o, o2) \/ LeaveAll(c, d, o, o2)

(* What ListAssumption says; IsFiniteSet is the same in the instance.      *)
LEMMA Finite ==
  ASSUME L!ListAssumption
  PROVE  NoNode \notin Nodes /\ Nobody \notin Nodes /\ IsFiniteSet(Nodes)
BY DEF L!ListAssumption, L!IsFiniteSet, IsFiniteSet

(* The chains are what NodesOf finds.                                      *)
LEMMA HeldIsFound ==
  ASSUME L!ListAssumption, NEW o, NEW h, NEW c, Held(h, o, c)
  PROVE  c = [l \in Objects |-> Walk(h, l)[Cardinality(Nodes)]]
<1>1. NoNode \notin Nodes /\ IsFiniteSet(Nodes)
  BY Finite
<1>2. \A l \in Objects : Walk(h, l)[Cardinality(Nodes)] = c[l]
  BY <1>1, Walked DEF Held
<1>3. c \in [Objects -> Seq(Nodes)]
  BY DEF Held, AreChains
<1> QED
  BY <1>2, <1>3

(* A node that no list holds is linked in.                                 *)
LEMMA InsertionStep ==
  ASSUME L!ListAssumption, NEW h, NEW c, NEW o, Held(h, o, c),
         NEW l \in Objects, NEW node \in Nodes, NEW k \in 1..(Len(c[l]) + 1),
         \A m \in Objects : node \notin Range(c[m]),
         NEW h2, h2 \in Heaps, OnlyChanges(h, h2, l),
         Enters(h2.of[l], h.link, h2.link, c[l], k, node),
         NEW o2, o2 = IF node = o THEN Nobody ELSE o
  PROVE  \E d : Held(h2, o2, d) /\ Becomes(c, d, o, o2)
<1> DEFINE d == [c EXCEPT ![l] = InsertAt(c[l], k, node)]
<1>1. NoNode \notin Nodes /\ Nobody \notin Nodes
  BY Finite
<1>2. AreChains(h, c) /\ o \in Nodes \cup {Nobody} /\ \A m \in Objects : o \notin Range(c[m])
  BY DEF Held
<1>3. AreChains(h2, d)
  BY <1>1, <1>2, InsertionKeeps DEF IsFree
<1>4. HasOnly(d, c, l, Range(c[l]) \cup {node})
  BY <1>1, <1>2, InsertionKeeps DEF IsFree
<1>5. EntersOne(c, d, o, o2)
  BY DEF EntersOne
<1> HIDE DEF d
<1>6. ASSUME NEW m \in Objects PROVE o2 \notin Range(d[m])
  <2>1. Range(c[m]) \subseteq Nodes
    BY <1>2, Elements DEF AreChains
  <2> QED
    BY <1>1, <1>2, <1>4, <2>1 DEF HasOnly
<1>7. Held(h2, o2, d)
  BY <1>2, <1>3, <1>6 DEF Held
<1> QED
  BY <1>5, <1>7 DEF Becomes

(* The k-th node of a list is linked out, and given to the caller or not.  *)
LEMMA RemovalStep ==
  ASSUME L!ListAssumption, NEW h, NEW c, NEW o, Held(h, o, c),
         NEW l \in Objects, NEW k \in 1..Len(c[l]),
         NEW h2, h2 \in Heaps, OnlyChanges(h, h2, l),
         Leaves(h2.of[l], h.link, h2.link, c[l], k),
         NEW o2, o2 = o \/ o2 = c[l][k]
  PROVE  \E d : Held(h2, o2, d) /\ Becomes(c, d, o, o2)
<1> DEFINE d == [c EXCEPT ![l] = RemoveAt(c[l], k)]
<1>1. NoNode \notin Nodes
  BY Finite
<1>2. AreChains(h, c) /\ o \in Nodes \cup {Nobody} /\ \A m \in Objects : o \notin Range(c[m])
  BY DEF Held
<1>3. AreChains(h2, d)
  BY <1>1, <1>2, RemovalKeeps
<1>4. HasOnly(d, c, l, Range(c[l]) \ {c[l][k]})
  BY <1>1, <1>2, RemovalKeeps
<1>5. LeavesOne(c, d, o, o2)
  BY DEF LeavesOne
<1> HIDE DEF d
<1>6. c[l][k] \in Range(c[l]) /\ c[l][k] \in Nodes
  <2>1. c[l] \in Seq(Nodes)
    BY <1>2 DEF AreChains
  <2> QED
    BY <2>1, Elements
<1>7. ASSUME NEW m \in Objects PROVE o2 \notin Range(d[m])
  <2>1. m # l => Range(c[l]) \cap Range(c[m]) = {}
    BY <1>2 DEF AreChains
  <2> QED
    BY <1>2, <1>4, <1>6, <2>1 DEF HasOnly
<1>8. Held(h2, o2, d)
  BY <1>2, <1>3, <1>6, <1>7 DEF Held
<1> QED
  BY <1>5, <1>8 DEF Becomes

(* pop_front as long as a node is left.                                    *)
PopOne(g, l) == IF g.of[l].head = NoNode THEN g ELSE L!Delete(g, l, g.of[l].head)

Pop(h, l) ==
  LET pop[n \in 0..Cardinality(Nodes)] == IF n = 0 THEN h ELSE PopOne(pop[n - 1], l)
  IN pop

IsPop(f, h, l, n) == f = [i \in 0..n |-> IF i = 0 THEN h ELSE PopOne(f[i - 1], l)]

(* There is such a function.                                               *)
LEMMA PopExists ==
  ASSUME NEW h, NEW l, NEW n \in Nat
  PROVE  \E f : IsPop(f, h, l, n)
<1> DEFINE S == {m \in Nat : \E f : IsPop(f, h, l, m)}
<1>1. 0 \in S
  <2>1. IsPop([i \in 0..0 |-> h], h, l, 0)
    BY DEF IsPop
  <2> QED
    BY <2>1
<1>2. ASSUME NEW m \in Nat, m \in S PROVE m + 1 \in S
  <2>1. PICK f : IsPop(f, h, l, m)
    BY <1>2
  <2>2. /\ f[0] = h
        /\ \A i \in 1..m : f[i] = PopOne(f[i - 1], l)
    <3>1. DOMAIN f = 0..m /\ \A i \in 0..m : f[i] = IF i = 0 THEN h ELSE PopOne(f[i - 1], l)
      BY <2>1 DEF IsPop
    <3> QED
      BY <3>1
  <2> DEFINE g == [i \in 0..(m + 1) |-> IF i <= m THEN f[i] ELSE PopOne(f[m], l)]
  <2>3. ASSUME NEW i \in 0..(m + 1) PROVE g[i] = IF i = 0 THEN h ELSE PopOne(g[i - 1], l)
    <3>1. CASE i = 0
      BY <2>2, <3>1
    <3>2. CASE i \in 1..m
      <4>1. g[i] = f[i] /\ g[i - 1] = f[i - 1]
        BY <3>2
      <4> HIDE DEF g
      <4> QED
        BY <2>2, <3>2, <4>1
    <3>3. CASE i = m + 1
      <4>1. g[i] = PopOne(f[m], l) /\ g[i - 1] = f[m]
        BY <3>3
      <4> HIDE DEF g
      <4> QED
        BY <3>3, <4>1
    <3> QED
      BY <3>1, <3>2, <3>3
  <2>4. g = [i \in 0..(m + 1) |-> g[i]]
    OBVIOUS
  <2> HIDE DEF g
  <2>5. IsPop(g, h, l, m + 1)
    BY <2>3, <2>4 DEF IsPop
  <2> QED
    BY <2>5
<1> HIDE DEF S
<1>3. n \in S
  BY <1>1, <1>2, NumberInduction
<1> QED
  BY <1>3 DEF S

(* After n pops of the list l, of which the chains were c.                 *)
AfterPops(g, c, l, n) ==
  \E d : /\ AreChains(g, d)
         /\ \A m \in Objects \ {l} : d[m] = c[m]
         /\ Len(d[l]) = IF n <= Len(c[l]) THEN Len(c[l]) - n ELSE 0

LEMMA PopsOne ==
  ASSUME NoNode \notin Nodes, NEW g, NEW c, c \in [Objects -> Seq(Nodes)], NEW l \in Objects, NEW n \in Nat,
         AfterPops(g, c, l, n)
  PROVE  AfterPops(PopOne(g, l), c, l, n + 1)
<1>1. PICK d : /\ AreChains(g, d)
               /\ \A m \in Objects \ {l} : d[m] = c[m]
               /\ Len(d[l]) = IF n <= Len(c[l]) THEN Len(c[l]) - n ELSE 0
  BY DEF AfterPops
<1>2. /\ d[l] \in Seq(Nodes) /\ Len(d[l]) \in Nat /\ g.of[l].head = At(d[l], 1)
      /\ \A i \in Int : At(d[l], i) = NoNode <=> i \notin 1..Len(d[l])
  BY <1>1, Ends
<1>3. Len(c[l]) \in Nat
  BY LenProperties
<1>4. CASE Len(d[l]) = 0
  <2>1. PopOne(g, l) = g
    BY <1>2, <1>4 DEF PopOne
  <2>2. Len(d[l]) = IF n + 1 <= Len(c[l]) THEN Len(c[l]) - (n + 1) ELSE 0
    BY <1>1, <1>3, <1>4
  <2> QED
    BY <1>1, <2>1, <2>2 DEF AfterPops
<1>5. CASE Len(d[l]) # 0
  <2>1. PICK one, g2 : one = 1 /\ g2 = L!Delete(g, l, d[l][one])
    OBVIOUS
  <2>2. one \in 1..Len(d[l])
    BY <1>2, <1>5, <2>1
  <2>3. PopOne(g, l) = g2
    BY <1>2, <2>1, <2>2 DEF PopOne, At
  <2>4. g2 \in Heaps /\ OnlyChanges(g, g2, l) /\ Leaves(g2.of[l], g.link, g2.link, d[l], one)
    BY <1>1, <2>1, <2>2, DeleteLeaves
  <2>5. AreChains(g2, [d EXCEPT ![l] = RemoveAt(d[l], one)])
    BY <1>1, <2>2, <2>4, RemovalKeeps
  <2>6. PICK e : e = [d EXCEPT ![l] = RemoveAt(d[l], one)]
    OBVIOUS
  <2>7. Len(RemoveAt(d[l], one)) = Len(d[l]) - 1
    BY <1>2, <2>2, Removed
  <2>8. d \in [Objects -> Seq(Nodes)]
    BY <1>1 DEF AreChains
  <2>9. Len(e[l]) = Len(d[l]) - 1 /\ \A m \in Objects \ {l} : e[m] = d[m]
    BY <2>6, <2>7, <2>8
  <2>10. Len(e[l]) = IF n + 1 <= Len(c[l]) THEN Len(c[l]) - (n + 1) ELSE 0
    BY <1>1, <1>3, <1>5, <2>9
  <2>11. AreChains(g2, e) /\ \A m \in Objects \ {l} : e[m] = c[m]
    BY <1>1, <2>5, <2>6, <2>9
  <2> QED
    BY <2>3, <2>10, <2>11 DEF AfterPops
<1> QED
  BY <1>4, <1>5

(* clear leaves no node.                                                   *)
LEMMA PopsAll ==
  ASSUME NoNode \notin Nodes, IsFiniteSet(Nodes), NEW h, NEW c, AreChains(h, c), NEW l \in Objects
  PROVE  AreChains(Pop(h, l)[Cardinality(Nodes)], [c EXCEPT ![l] = <<>>])
<1> DEFINE N == Cardinality(Nodes)
           p == Pop(h, l)
           S == {n \in Nat : n <= N => AfterPops(p[n], c, l, n)}
<1>1. c \in [Objects -> Seq(Nodes)] /\ c[l] \in Seq(Nodes)
  BY DEF AreChains
<1>2. N \in Nat /\ Len(c[l]) \in Nat /\ Len(c[l]) <= N
  <2>1. IsInjective(c[l])
    BY DEF AreChains, IsChain
  <2> QED
    BY <1>1, <2>1, ChainFits, FS_CardinalityType, LenProperties
<1>3. IsPop(p, h, l, N)
  <2>1. \E f : IsPop(f, h, l, N)
    BY <1>2, PopExists
  <2> QED
    BY <2>1 DEF IsPop, Pop
<1> HIDE DEF p
<1>4. /\ p[0] = h
      /\ \A n \in 1..N : p[n] = PopOne(p[n - 1], l)
  <2>1. DOMAIN p = 0..N /\ \A n \in 0..N : p[n] = IF n = 0 THEN h ELSE PopOne(p[n - 1], l)
    BY <1>3 DEF IsPop
  <2> QED
    BY <1>2, <2>1
<1>5. 0 \in S
  <2>1. Len(c[l]) = IF 0 <= Len(c[l]) THEN Len(c[l]) - 0 ELSE 0
    BY <1>2
  <2>2. AfterPops(h, c, l, 0)
    BY <2>1 DEF AfterPops
  <2> QED
    BY <1>4, <2>2
<1>6. ASSUME NEW n \in Nat, n \in S PROVE n + 1 \in S
  <2> SUFFICES ASSUME n + 1 <= N PROVE AfterPops(p[n + 1], c, l, n + 1)
    OBVIOUS
  <2>1. AfterPops(p[n], c, l, n)
    BY <1>2, <1>6
  <2>2. n + 1 \in 1..N /\ (n + 1) - 1 = n
    BY <1>2
  <2>3. p[n + 1] = PopOne(p[n], l)
    BY <1>4, <2>2
  <2> QED
    BY <1>1, <2>1, <2>3, PopsOne
<1>7. N \in S
  <2> HIDE DEF S
  <2> QED
    BY <1>2, <1>5, <1>6, NumberInduction
<1>8. AfterPops(p[N], c, l, N)
  BY <1>2, <1>7
<1>9. PICK d : /\ AreChains(p[N], d)
               /\ \A m \in Objects \ {l} : d[m] = c[m]
               /\ Len(d[l]) = 0
  BY <1>2, <1>8 DEF AfterPops
<1>10. d = [c EXCEPT ![l] = <<>>]
  <2>1. d \in [Objects -> Seq(Nodes)] /\ d[l] \in Seq(Nodes)
    BY <1>9 DEF AreChains
  <2>2. d[l] = <<>>
    BY <1>9, <2>1, EmptySeq
  <2>3. \A m \in Objects : d[m] = [c EXCEPT ![l] = <<>>][m]
    BY <1>1, <1>9, <2>2
  <2> QED
    BY <1>1, <2>1, <2>3
<1> QED
  BY <1>9, <1>10 DEF p
-----------------------------------------------------------------------------
(* Every step of List.                                                     *)

(* Initially all lists are empty.                                          *)
LEMMA InitHeld ==
  ASSUME L!ListAssumption, L!Init
  PROVE  status = "list" /\ Held(obj, out, [l \in Objects |-> <<>>])
<1>1. /\ obj.of = [l \in Objects |-> L!EmptyList] /\ obj = [of |-> obj.of, link |-> obj.link]
      /\ obj.link = [n \in Nodes |-> L!Unlinked] /\ out = Nobody /\ status = "list"
  BY DEF L!Init
<1>2. PICK c : c = [l \in Objects |-> <<>>]
  OBVIOUS
<1>3. L!EmptyList \in ListRecords /\ L!Unlinked \in LinkRecords
  BY DEF L!EmptyList, L!Unlinked, ListRecords, LinkRecords, Places
<1>4. obj.of \in [Objects -> ListRecords] /\ obj.link \in [Nodes -> LinkRecords]
  BY <1>1, <1>3
<1>5. obj \in [of : [Objects -> ListRecords], link : [Nodes -> LinkRecords]]
  BY <1>1, <1>4
<1>6. c \in [Objects -> Seq(Nodes)] /\ \A l \in Objects : c[l] = <<>>
  BY <1>2
<1>7. Range(<<>>) = {} /\ IsInjective(<<>>) /\ Len(<<>>) = 0
  <2>1. <<>> \in Seq(Nodes) /\ Len(<<>>) = 0 /\ DOMAIN <<>> = 1..0
    OBVIOUS
  <2>2. Range(<<>>) = {}
    BY <2>1 DEF Range
  <2> QED
    BY <2>1, <2>2 DEF IsInjective
<1>8. ASSUME NEW l \in Objects PROVE IsChain(obj.of[l], obj.link, c[l])
  <2>1. obj.of[l] = [head |-> NoNode, tail |-> NoNode, size |-> 0]
    BY <1>1 DEF L!EmptyList
  <2>2. \A n \in Int : At(<<>>, n) = NoNode
    BY <1>7 DEF At
  <2> QED
    BY <1>6, <1>7, <2>1, <2>2 DEF IsChain
<1>9. AreChains(obj, c)
  BY <1>5, <1>6, <1>7, <1>8 DEF AreChains
<1>10. Held(obj, out, c)
  BY <1>1, <1>6, <1>7, <1>9 DEF Held
<1> QED
  BY <1>1, <1>2, <1>10

(* Members are the elements of the chain, each at a position.              *)
LEMMA MembersHavePlaces ==
  ASSUME L!ListAssumption, NEW c, c = Chains, Held(obj, out, c), NEW l \in Objects
  PROVE  L!Members(l) = {c[l][k] : k \in 1..Len(c[l])} /\ L!Members(l) = Range(c[l])
<1>1. c[l] = L!NodesOf(l) /\ c[l] \in Seq(Nodes)
  BY DEF Chains, Held, AreChains
<1>2. L!Members(l) = {c[l][k] : k \in 1..Len(c[l])}
  BY <1>1 DEF L!Members
<1>3. Range(c[l]) = {c[l][k] : k \in 1..Len(c[l])}
  BY <1>1, Elements
<1> QED
  BY <1>2, <1>3

(* The operations that insert.                                             *)
LEMMA InsertsKeep ==
  ASSUME L!ListAssumption, NEW c, c = Chains, Held(obj, out, c), NEW l \in Objects,
         NEW node \in Nodes,
         \/ \E position \in Nodes \cup {NoNode} : L!Insert(l, position, node)
         \/ L!PushesFront(l, node)
         \/ L!PushesBack(l, node)
  PROVE  status' = status /\ \E d : Held(obj', out', d) /\ Becomes(c, d, out, out')
<1>1. NoNode \notin Nodes /\ Nobody \notin Nodes
  BY Finite
<1>2. AreChains(obj, c) /\ out \in Nodes \cup {Nobody} /\ \A m \in Objects : out \notin Range(c[m])
  BY DEF Held
<1>3. PICK after : L!Insertion(l, node, after)
  BY DEF L!Insert, L!PushesFront, L!PushesBack
<1>4. status' = status /\ out' = IF node = out THEN Nobody ELSE out
  BY <1>3 DEF L!Insertion
<1>5. \A m \in Objects : node \notin Range(c[m])
  <2>1. CASE node = out
    BY <1>2, <2>1
  <2>2. CASE node # out
    <3>1. node \in L!Unused
      BY <1>3, <2>2 DEF L!Insertion
    <3>2. \A m \in Objects : node \notin L!Members(m)
      BY <3>1 DEF L!Unused
    <3> QED
      BY <3>2, MembersHavePlaces
  <2> QED
    BY <2>1, <2>2
<1>6. PICK h2, o2 : h2 = obj' /\ o2 = out'
  OBVIOUS
<1>7. c[l] \in Seq(Nodes) /\ Len(c[l]) \in Nat
  BY <1>1, <1>2, Ends
<1>8. \E k \in 1..(Len(c[l]) + 1) :
        h2 \in Heaps /\ OnlyChanges(obj, h2, l) /\ Enters(h2.of[l], obj.link, h2.link, c[l], k, node)
  <2>1. CASE h2 = L!PushFront(l, node)
    <3>1. PICK k : k = 1
      OBVIOUS
    <3>2. h2 \in Heaps /\ OnlyChanges(obj, h2, l) /\ Enters(h2.of[l], obj.link, h2.link, c[l], k, node)
      BY <1>1, <1>2, <1>5, <2>1, <3>1, PushFrontEnters
    <3>3. k \in 1..(Len(c[l]) + 1)
      BY <1>7, <3>1
    <3> QED
      BY <3>2, <3>3
  <2>2. CASE h2 = L!PushBack(l, node)
    <3>1. PICK k : k = Len(c[l]) + 1
      OBVIOUS
    <3>2. h2 \in Heaps /\ OnlyChanges(obj, h2, l) /\ Enters(h2.of[l], obj.link, h2.link, c[l], k, node)
      BY <1>1, <1>2, <1>5, <2>2, <3>1, PushBackEnters
    <3>3. k \in 1..(Len(c[l]) + 1)
      BY <1>7, <3>1
    <3> QED
      BY <3>2, <3>3
  <2>3. ASSUME NEW position \in L!Members(l), h2 = L!InsertBefore(l, position, node)
        PROVE  \E k \in 1..(Len(c[l]) + 1) :
                 /\ h2 \in Heaps /\ OnlyChanges(obj, h2, l)
                 /\ Enters(h2.of[l], obj.link, h2.link, c[l], k, node)
    <3>1. PICK k \in 1..Len(c[l]) : position = c[l][k]
      BY MembersHavePlaces
    <3>2. h2 \in Heaps /\ OnlyChanges(obj, h2, l) /\ Enters(h2.of[l], obj.link, h2.link, c[l], k, node)
      BY <1>1, <1>2, <1>5, <2>3, <3>1, InsertBeforeEnters
    <3>3. k \in 1..(Len(c[l]) + 1)
      BY <1>7
    <3> QED
      BY <3>2, <3>3
  <2>4. CASE \E position \in Nodes \cup {NoNode} : L!Insert(l, position, node)
    <3>1. PICK position \in Nodes \cup {NoNode} : L!Insert(l, position, node)
      BY <2>4
    <3>2. /\ position \in L!Members(l) \cup {NoNode}
          /\ obj' = IF position = NoNode THEN L!PushBack(l, node) ELSE L!InsertBefore(l, position, node)
      BY <3>1 DEF L!Insert, L!Insertion
    <3> QED
      BY <1>6, <2>2, <2>3, <3>2
  <2>5. CASE L!PushesFront(l, node)
    BY <1>6, <2>1, <2>5 DEF L!PushesFront, L!Insertion
  <2>6. CASE L!PushesBack(l, node)
    BY <1>6, <2>2, <2>6 DEF L!PushesBack, L!Insertion
  <2> QED
    BY <2>4, <2>5, <2>6
<1>9. PICK k \in 1..(Len(c[l]) + 1) :
        h2 \in Heaps /\ OnlyChanges(obj, h2, l) /\ Enters(h2.of[l], obj.link, h2.link, c[l], k, node)
  BY <1>8
<1>10. \E d : Held(h2, o2, d) /\ Becomes(c, d, out, o2)
  BY <1>4, <1>5, <1>6, <1>9, InsertionStep
<1> QED
  BY <1>4, <1>6, <1>10

(* The operations that remove one node.                                    *)
LEMMA RemovesKeep ==
  ASSUME L!ListAssumption, NEW c, c = Chains, Held(obj, out, c), NEW l \in Objects,
         NEW node, L!Extract(l, node) \/ L!Erase(l, node)
  PROVE  status' = status /\ \E d : Held(obj', out', d) /\ Becomes(c, d, out, out')
<1>1. NoNode \notin Nodes /\ Nobody \notin Nodes
  BY Finite
<1>2. AreChains(obj, c)
  BY DEF Held
<1>3. node \in L!Members(l) /\ status' = status
  BY DEF L!Extract, L!Erase
<1>4. PICK k \in 1..Len(c[l]) : node = c[l][k]
  BY <1>3, MembersHavePlaces
<1>5. PICK h2, o2 : h2 = obj' /\ o2 = out'
  OBVIOUS
<1>6. /\ h2 \in Heaps /\ OnlyChanges(obj, h2, l) /\ Leaves(h2.of[l], obj.link, h2.link, c[l], k)
      /\ o2 \in {out, c[l][k]}
  <2>1. CASE L!Extract(l, node)
    <3>1. h2 = L!Unlink(obj, l, c[l][k]) /\ o2 = c[l][k]
      BY <1>4, <1>5, <2>1 DEF L!Extract
    <3> QED
      BY <1>1, <1>2, <3>1, UnlinkLeaves
  <2>2. CASE L!Erase(l, node)
    <3>1. h2 = L!Delete(obj, l, c[l][k]) /\ o2 = out
      BY <1>4, <1>5, <2>2 DEF L!Erase
    <3> QED
      BY <1>1, <1>2, <3>1, DeleteLeaves
  <2> QED
    BY <2>1, <2>2
<1>7. \E d : Held(h2, o2, d) /\ Becomes(c, d, out, o2)
  <2>1. h2 \in Heaps /\ OnlyChanges(obj, h2, l) /\ Leaves(h2.of[l], obj.link, h2.link, c[l], k)
    BY <1>6
  <2>2. o2 = out \/ o2 = c[l][k]
    BY <1>6
  <2> QED
    BY <2>1, <2>2, RemovalStep
<1> QED
  BY <1>3, <1>5, <1>7

(* clear                                                                   *)
LEMMA ClearKeeps ==
  ASSUME L!ListAssumption, NEW c, c = Chains, Held(obj, out, c), NEW l \in Objects, L!Clear(l)
  PROVE  status' = status /\ \E d : Held(obj', out', d) /\ Becomes(c, d, out, out')
<1>1. NoNode \notin Nodes /\ IsFiniteSet(Nodes)
  BY Finite
<1>2. AreChains(obj, c) /\ out \in Nodes \cup {Nobody} /\ \A m \in Objects : out \notin Range(c[m])
  BY DEF Held
<1>3. obj' = Pop(obj, l)[Cardinality(Nodes)] /\ out' = out /\ status' = status
  BY SameCardinality DEF L!Clear, Pop, PopOne
<1> DEFINE d == [c EXCEPT ![l] = <<>>]
<1>4. AreChains(obj', d)
  BY <1>1, <1>2, <1>3, PopsAll
<1>5. LeaveAll(c, d, out, out')
  BY <1>3 DEF LeaveAll
<1>6. ASSUME NEW m \in Objects PROVE out \notin Range(d[m])
  <2>1. d[m] = IF m = l THEN <<>> ELSE c[m]
    BY <1>2 DEF AreChains
  <2>2. Range(<<>>) = {}
    BY DEF Range
  <2> QED
    BY <1>2, <2>1, <2>2
<1> HIDE DEF d
<1>7. Held(obj', out', d)
  BY <1>2, <1>3, <1>4, <1>6 DEF Held
<1> QED
  BY <1>3, <1>5, <1>7 DEF Becomes

(* The owner of the extracted node deletes it.                             *)
LEMMA DeleteOutKeeps ==
  ASSUME L!ListAssumption, NEW c, c = Chains, Held(obj, out, c), L!DeleteOut
  PROVE  status' = status /\ \E d : Held(obj', out', d) /\ Becomes(c, d, out, out')
<1>1. NoNode \notin Nodes /\ Nobody \notin Nodes
  BY Finite
<1>2. AreChains(obj, c) /\ out \in Nodes /\ \A m \in Objects : out \notin Range(c[m])
  BY DEF Held, L!DeleteOut
<1>3. obj' = [obj EXCEPT !.link[out] = L!Unlinked] /\ out' = Nobody /\ status' = status
  BY DEF L!DeleteOut
<1>4. PICK h2 : h2 = obj'
  OBVIOUS
<1>5. L!Unlinked \in LinkRecords
  BY DEF L!Unlinked, LinkRecords, Places
<1>6. obj \in Heaps
  BY <1>2 DEF AreChains, Heaps
<1>7. h2 \in Heaps /\ h2.of = obj.of /\ \A n \in Nodes \ {out} : h2.link[n] = obj.link[n]
  BY <1>3, <1>4, <1>5, <1>6 DEF Heaps
<1>8. ASSUME NEW m \in Objects PROVE IsChain(h2.of[m], h2.link, c[m]) /\ Nobody \notin Range(c[m])
  <2>1. IsChain(obj.of[m], obj.link, c[m]) /\ c[m] \in Seq(Nodes)
    BY <1>2 DEF AreChains
  <2>2. Range(c[m]) \subseteq Nodes \ {out}
    BY <1>2, <2>1, Elements
  <2>3. \A n \in Range(c[m]) : h2.link[n] = obj.link[n]
    BY <1>7, <2>2
  <2>4. IsChain(obj.of[m], h2.link, c[m])
    BY <2>1, <2>3, Untouched
  <2> QED
    BY <1>1, <1>7, <2>2, <2>4
<1>9. AreChains(h2, c)
  BY <1>2, <1>7, <1>8 DEF AreChains, Heaps
<1>10. Held(h2, Nobody, c)
  BY <1>8, <1>9 DEF Held
<1>11. Becomes(c, c, out, out')
  BY <1>3 DEF Becomes
<1> QED
  BY <1>3, <1>4, <1>10, <1>11

(* A step keeps the lists chains and changes at most one of them.          *)
LEMMA StepKeeps ==
  ASSUME L!ListAssumption, ListInv, [L!Next]_(L!vars)
  PROVE  ListInv' /\ Becomes(Chains, Chains', out, out')
<1>1. PICK c : c = Chains
  OBVIOUS
<1>2. Held(obj, out, c) /\ status = "list"
  BY <1>1 DEF ListInv
<1>3. status' = status /\ \E d : Held(obj', out', d) /\ Becomes(c, d, out, out')
  <2>1. ASSUME NEW l \in Objects, NEW node \in Nodes, NEW position \in Nodes \cup {NoNode},
               L!Insert(l, position, node)
        PROVE  status' = status /\ \E d : Held(obj', out', d) /\ Becomes(c, d, out, out')
    BY <1>1, <1>2, <2>1, InsertsKeep
  <2>2. ASSUME NEW l \in Objects, NEW node \in Nodes, L!PushesFront(l, node) \/ L!PushesBack(l, node)
        PROVE  status' = status /\ \E d : Held(obj', out', d) /\ Becomes(c, d, out, out')
    BY <1>1, <1>2, <2>2, InsertsKeep
  <2>3. ASSUME NEW l \in Objects, NEW node, L!Extract(l, node) \/ L!Erase(l, node)
        PROVE  status' = status /\ \E d : Held(obj', out', d) /\ Becomes(c, d, out, out')
    BY <1>1, <1>2, <2>3, RemovesKeep
  <2>4. ASSUME NEW l \in Objects, L!PopFront(l) \/ L!PopBack(l)
        PROVE  status' = status /\ \E d : Held(obj', out', d) /\ Becomes(c, d, out, out')
    BY <2>3, <2>4 DEF L!PopFront, L!PopBack
  <2>5. ASSUME NEW l \in Objects, L!Clear(l)
        PROVE  status' = status /\ \E d : Held(obj', out', d) /\ Becomes(c, d, out, out')
    BY <1>1, <1>2, <2>5, ClearKeeps
  <2>6. CASE L!DeleteOut
    BY <1>1, <1>2, <2>6, DeleteOutKeeps
  <2>7. CASE UNCHANGED L!vars
    <3>1. obj' = obj /\ out' = out /\ status' = status
      BY <2>7 DEF L!vars
    <3>2. Becomes(c, c, out, out')
      BY <3>1 DEF Becomes
    <3> QED
      BY <1>2, <3>1, <3>2
  <2> QED
    BY <2>1, <2>2, <2>3, <2>4, <2>5, <2>6, <2>7 DEF L!Next
<1>4. PICK d : Held(obj', out', d) /\ Becomes(c, d, out, out')
  BY <1>3
<1>5. d = [l \in Objects |-> Walk(obj', l)[Cardinality(Nodes)]]
  BY <1>4, HeldIsFound
<1>6. d = Chains'
  BY <1>5, WalkIsNodesOf DEF Chains
<1> QED
  BY <1>1, <1>2, <1>3, <1>4, <1>6 DEF ListInv

LEMMA InitKeeps ==
  ASSUME L!ListAssumption, L!Init
  PROVE  ListInv /\ Chains = [l \in Objects |-> <<>>]
<1>1. PICK c : c = [l \in Objects |-> <<>>]
  OBVIOUS
<1>2. status = "list" /\ Held(obj, out, c)
  BY <1>1, InitHeld
<1>3. c = [l \in Objects |-> Walk(obj, l)[Cardinality(Nodes)]]
  BY <1>2, HeldIsFound
<1>4. c = Chains
  BY <1>3, WalkIsNodesOf DEF Chains
<1> QED
  BY <1>1, <1>2, <1>4 DEF ListInv
-----------------------------------------------------------------------------
(* What the runs check of Vector and List, for all of them.                *)

(* Chains are linked in both directions.                                   *)
LEMMA ChainsAgree == ASSUME L!ListAssumption, ListInv PROVE ListLinks
<1>1. PICK c : c = Chains
  OBVIOUS
<1>2. Held(obj, out, c) /\ AreChains(obj, c) /\ NoNode \notin Nodes /\ IsFiniteSet(Nodes)
  BY <1>1, Finite DEF ListInv, Held
<1>3. \A l \in Objects : c[l] = L!NodesOf(l) /\ L!Members(l) = Range(c[l])
  BY <1>1, <1>2, MembersHavePlaces DEF Chains
<1>4. ASSUME NEW l \in Objects
      PROVE  LET nodes == L!NodesOf(l)
                 length == Len(nodes)
             IN /\ length = obj.of[l].size /\ length = L!Cardinality(L!Members(l))
                /\ IF length = 0 THEN obj.of[l].tail = NoNode
                   ELSE /\ obj.of[l].tail = nodes[length]
                        /\ obj.link[nodes[length]].next = NoNode
                /\ \A n \in 1..length :
                     obj.link[nodes[n]].prev = IF n = 1 THEN NoNode ELSE nodes[n - 1]
  <2>1. PICK s : s = c[l]
    OBVIOUS
  <2>2. /\ s \in Seq(Nodes) /\ Len(s) \in Nat /\ obj.of[l].tail = At(s, Len(s))
        /\ obj.of[l].size = Len(s)
        /\ \A n \in 1..Len(s) : /\ obj.link[s[n]].next = At(s, n + 1)
                                /\ obj.link[s[n]].prev = At(s, n - 1)
    BY <1>2, <2>1, Ends
  <2>3. Len(s) = L!Cardinality(Range(s))
    <3>1. IsInjective(s)
      BY <1>2, <2>1 DEF AreChains, IsChain
    <3>2. Len(s) = Cardinality(Range(s))
      BY <1>2, <2>2, <3>1, ChainFits
    <3> QED
      BY <3>2 DEF L!Cardinality, Cardinality
  <2>4. Len(s) = 0 => obj.of[l].tail = NoNode
    BY <2>2 DEF At
  <2>5. Len(s) # 0 => obj.of[l].tail = s[Len(s)] /\ obj.link[s[Len(s)]].next = NoNode
    BY <2>2 DEF At
  <2>6. ASSUME NEW n \in 1..Len(s)
        PROVE  obj.link[s[n]].prev = IF n = 1 THEN NoNode ELSE s[n - 1]
    BY <2>2 DEF At
  <2> QED
    BY <1>3, <2>1, <2>2, <2>3, <2>4, <2>5, <2>6
<1>5. ASSUME NEW l \in Objects, NEW m \in Objects, l # m PROVE L!Members(l) \cap L!Members(m) = {}
  BY <1>2, <1>3, <1>5 DEF AreChains
<1>6. ASSUME NEW l \in Objects PROVE out \notin L!Members(l)
  BY <1>2, <1>3 DEF Held
<1> QED
  BY <1>4, <1>5, <1>6 DEF ListLinks, L!LinksAgree

(* The positions of the abstract specification reach behind every list.    *)
Reach(c) == 1..(1 + Len(CHOOSE s \in {c[l] : l \in Objects} :
                          \A l \in Objects : Len(c[l]) <= Len(s)))

LEMMA LongestReaches ==
  ASSUME NEW c, NEW N \in Nat, \A m \in Objects : Len(c[m]) \in 0..N, NEW l \in Objects
  PROVE  /\ Len(c[l]) \in Nat
         /\ 1..(Len(c[l]) + 1) \subseteq Reach(c)
<1> DEFINE T == {Len(c[m]) : m \in Objects}
           longest == CHOOSE s \in {c[m] : m \in Objects} : \A m \in Objects : Len(c[m]) <= Len(s)
<1>3. T \subseteq 0..N /\ T # {}
  OBVIOUS
<1>4. \E x \in T : \A y \in T : y <= x
  <2> HIDE DEF T
  <2> QED
    BY <1>3, GreatestNumber
<1>5. PICK m \in Objects : \A n \in Objects : Len(c[n]) <= Len(c[m])
  BY <1>4
<1>6. longest \in {c[n] : n \in Objects} /\ \A n \in Objects : Len(c[n]) <= Len(longest)
  BY <1>5
<1>7. Reach(c) = 1..(1 + Len(longest))
  BY DEF Reach
<1> HIDE DEF longest
<1>8. Len(longest) \in Nat /\ Len(c[l]) <= Len(longest) /\ Len(c[l]) \in Nat
  <2>1. PICK n \in Objects : longest = c[n]
    BY <1>6
  <2>2. Len(c[n]) \in Nat /\ Len(c[l]) \in Nat
    OBVIOUS
  <2> QED
    BY <1>6, <2>1, <2>2
<1> QED
  BY <1>7, <1>8

LEMMA PositionsReach ==
  ASSUME L!ListAssumption, NEW c, Held(obj, out, c), c = ListContents, NEW l \in Objects
  PROVE  /\ Len(c[l]) \in Nat
         /\ 1..(Len(c[l]) + 1) \subseteq ListPromise!Positions
<1>1. IsFiniteSet(Nodes) /\ c \in [Objects -> Seq(Nodes)]
  BY Finite DEF Held, AreChains
<1>2. PICK N \in Nat : \A m \in Objects : Len(c[m]) \in 0..N
  <2>1. Cardinality(Nodes) \in Nat
    BY <1>1, FS_CardinalityType
  <2>2. ASSUME NEW m \in Objects PROVE Len(c[m]) \in 0..Cardinality(Nodes)
    <3>1. c[m] \in Seq(Nodes) /\ IsInjective(c[m])
      BY DEF Held, AreChains, IsChain
    <3> QED
      BY <1>1, <2>1, <3>1, ChainFits, LenProperties
  <2> QED
    BY <2>1, <2>2
<1>3. ListPromise!Positions = Reach(c)
  BY DEF ListPromise!Positions, Reach
<1> QED
  BY <1>2, <1>3, LongestReaches

(* A step of List is one of the abstract specification.                    *)
LEMMA StepImplements ==
  ASSUME L!ListAssumption, ListInv, [L!Next]_(L!vars)
  PROVE  [ListPromise!Next]_(ListPromise!vars)
<1> DEFINE taken == IF OnLists THEN out ELSE Nobody
<1>0. /\ ListContents = Chains /\ ListContents' = Chains'
      /\ taken = out /\ taken' = out'
  BY StepKeeps DEF ListInv, OnLists, ListContents, Chains
<1>1. PICK c, d : c = ListContents /\ d = ListContents'
  OBVIOUS
<1>2. Held(obj, out, c) /\ Becomes(c, d, out, out')
  BY <1>0, <1>1, StepKeeps DEF ListInv
<1>3. c \in [Objects -> Seq(Nodes)]
  BY <1>2 DEF Held, AreChains
<1>4. CASE d = c /\ out' \in {out, Nobody}
  <2>1. CASE out' = out
    BY <1>0, <1>1, <1>4, <2>1 DEF ListPromise!vars
  <2>2. CASE out' = Nobody
    BY <1>0, <1>1, <1>4, <2>2 DEF ListPromise!Step, ListPromise!Next, ListPromise!Forget
  <2> QED
    BY <1>4, <2>1, <2>2
<1>5. CASE EntersOne(c, d, out, out')
  <2>1. PICK l \in Objects, e \in Nodes : \E k \in 1..(Len(c[l]) + 1) :
          d = [c EXCEPT ![l] = InsertAt(c[l], k, e)] /\ out' \in {out, Nobody}
    BY <1>5 DEF EntersOne
  <2>2. PICK k \in 1..(Len(c[l]) + 1) :
          d = [c EXCEPT ![l] = InsertAt(c[l], k, e)] /\ out' \in {out, Nobody}
    BY <2>1
  <2>3. k \in ListPromise!Positions /\ k <= Len(c[l]) + 1
    BY <1>1, <1>2, PositionsReach
  <2>4. ListPromise!InsertAt(c[l], k, e) = InsertAt(c[l], k, e)
    BY DEF ListPromise!InsertAt, InsertAt
  <2>5. ListPromise!Insert(l, k, e)
    BY <1>0, <1>1, <2>2, <2>3, <2>4 DEF ListPromise!Insert, ListPromise!Becomes
  <2> QED
    BY <2>3, <2>5 DEF ListPromise!Step, ListPromise!Next
<1>6. CASE LeavesOne(c, d, out, out')
  <2>1. PICK l \in Objects : \E k \in 1..Len(c[l]) :
          d = [c EXCEPT ![l] = RemoveAt(c[l], k)] /\ out' \in {out, c[l][k]}
    BY <1>6 DEF LeavesOne
  <2>2. PICK k \in 1..Len(c[l]) :
          d = [c EXCEPT ![l] = RemoveAt(c[l], k)] /\ out' \in {out, c[l][k]}
    BY <2>1
  <2>3. k \in ListPromise!Positions
    BY <1>1, <1>2, PositionsReach
  <2>4. ListPromise!RemoveAt(c[l], k) = RemoveAt(c[l], k)
    BY DEF ListPromise!RemoveAt, RemoveAt
  <2>5. ListPromise!Drop(l, k)
    BY <1>0, <1>1, <2>2, <2>4 DEF ListPromise!Drop, ListPromise!Becomes
  <2> QED
    BY <2>3, <2>5 DEF ListPromise!Step, ListPromise!Next
<1>7. CASE LeaveAll(c, d, out, out')
  <2>1. PICK l \in Objects : d = [c EXCEPT ![l] = <<>>] /\ out' = out
    BY <1>7 DEF LeaveAll
  <2>2. PICK k : k = 1
    OBVIOUS
  <2>3. k \in ListPromise!Positions /\ k - 1 <= Len(c[l]) /\ k - 1 = 0
    BY <1>1, <1>2, <2>2, PositionsReach
  <2>4. SubSeq(c[l], 1, k - 1) = <<>>
    <3>1. c[l] \in Seq(Nodes)
      BY <1>3
    <3> QED
      BY <2>2, <3>1, SubSeqProperties
  <2>5. ListPromise!Truncate(l, k - 1)
    BY <1>0, <1>1, <2>1, <2>3, <2>4 DEF ListPromise!Truncate, ListPromise!Becomes
  <2> QED
    BY <2>3, <2>5 DEF ListPromise!Step, ListPromise!Next
<1> QED
  BY <1>2, <1>4, <1>5, <1>6, <1>7 DEF Becomes

LEMMA VectorPositions ==
  ASSUME V!VectorAssumption, AllVectors, NEW c, c = VectorContents, NEW l \in Objects
  PROVE  /\ Len(c[l]) \in Nat
         /\ 1..(Len(c[l]) + 1) \subseteq VectorPromise!Positions
<1>1. IsFiniteSet(Objects)
  BY DEF V!VectorAssumption, V!IsFiniteSet, IsFiniteSet
<1>2. \A m \in Objects : c[m] \in Seq(Elems)
  BY DEF VectorContents, AllVectors, OnVectors
<1>3. PICK f : f = [m \in Objects |-> Len(c[m])]
  OBVIOUS
<1>4. \A m \in Objects : f[m] \in Nat
  BY <1>2, <1>3, LenProperties
<1>5. PICK N \in Nat : \A m \in Objects : f[m] <= N
  BY <1>1, <1>4, FinitelyManyBounded
<1>6. \A m \in Objects : Len(c[m]) \in 0..N
  BY <1>3, <1>4, <1>5
<1>7. VectorPromise!Positions = Reach(c)
  BY DEF VectorPromise!Positions, Reach
<1> QED
  BY <1>6, <1>7, LongestReaches

(* A step of Vector is one of the abstract specification.                  *)
LEMMA VectorImplementsStep ==
  ASSUME V!VectorAssumption, AllVectors, AllVectors', Promised
  PROVE  VectorPromise!Next
<1> DEFINE taken == IF OnVectors THEN out ELSE Nobody
<1>1. /\ VectorContents = Contents /\ VectorContents' = Contents'
      /\ taken = out /\ taken' = out'
  BY DEF AllVectors, OnVectors, VectorContents, Contents
<1>2. status # "vector broken" /\ status' # "vector broken"
  BY DEF AllVectors
<1>3. ASSUME Promise!Forget PROVE VectorPromise!Step
  BY <1>1, <1>3 DEF Promise!Forget, VectorPromise!Forget, VectorPromise!Step
<1>4. ASSUME NEW v \in Objects, NEW pos \in Nat \ {0}, NEW e \in Elems, Promise!Insert(v, pos, e)
      PROVE  VectorPromise!Step
  <2>1. VectorPromise!Insert(v, pos, e)
    BY <1>1, <1>4 DEF Promise!Insert, VectorPromise!Insert, Promise!Becomes,
                      VectorPromise!Becomes, Promise!InsertAt, VectorPromise!InsertAt
  <2>2. pos \in VectorPromise!Positions
    BY <2>1, VectorPositions DEF VectorPromise!Insert
  <2> QED
    BY <2>1, <2>2 DEF VectorPromise!Step
<1>5. ASSUME NEW v \in Objects, NEW pos \in Nat \ {0}, Promise!Drop(v, pos)
      PROVE  VectorPromise!Step
  <2>1. VectorPromise!Drop(v, pos)
    BY <1>1, <1>5 DEF Promise!Drop, VectorPromise!Drop, Promise!Becomes,
                      VectorPromise!Becomes, Promise!RemoveAt, VectorPromise!RemoveAt
  <2>2. pos \in VectorPromise!Positions
    BY <2>1, VectorPositions DEF VectorPromise!Drop
  <2> QED
    BY <2>1, <2>2 DEF VectorPromise!Step
<1>6. ASSUME NEW v \in Objects, NEW pos \in Nat \ {0}, Promise!Truncate(v, pos - 1)
      PROVE  VectorPromise!Step
  <2>1. VectorPromise!Truncate(v, pos - 1)
    BY <1>1, <1>6 DEF Promise!Truncate, VectorPromise!Truncate, Promise!Becomes, VectorPromise!Becomes
  <2>2. pos \in VectorPromise!Positions
    BY <2>1, VectorPositions DEF VectorPromise!Truncate
  <2> QED
    BY <2>1, <2>2 DEF VectorPromise!Step
<1>7. ASSUME NEW v \in Objects, NEW w \in Objects,
             Promise!Concatenate(v, w) \/ Promise!Copy(v, w) \/ Promise!Move(v, w)
      PROVE  VectorPromise!Step
  <2>1. VectorPromise!Concatenate(v, w) \/ VectorPromise!Copy(v, w) \/ VectorPromise!Move(v, w)
    BY <1>1, <1>7 DEF Promise!Concatenate, Promise!Copy, Promise!Move, Promise!Becomes,
         VectorPromise!Concatenate, VectorPromise!Copy, VectorPromise!Move, VectorPromise!Becomes
  <2> QED
    BY <2>1 DEF VectorPromise!Step
<1>8. VectorPromise!Step
  BY <1>3, <1>4, <1>5, <1>6, <1>7 DEF Promised
<1> QED
  BY <1>2, <1>8 DEF VectorPromise!Next

-----------------------------------------------------------------------------
(* Every reachable state, of the vectors or of the lists.                  *)
LinearInv == AllVectors \/ ListInv \/ Lost

LEMMA LinearInit == ASSUME Init PROVE LinearInv
<1>1. CASE V!Init
  <2>1. \A v \in Objects : obj[v] = V!EmptyVector
    BY <1>1 DEF V!Init
  <2> QED
    BY <1>1, <2>1, NoElements DEF V!Init, AllVectors, LinearInv
<1>2. CASE L!Init
  BY <1>2, InitKeeps, LinearAssumption DEF LinearInv
<1> QED
  BY <1>1, <1>2 DEF Init

LEMMA LinearStep == ASSUME LinearInv, [Next]_vars PROVE LinearInv'
<1>1. V!VectorAssumption /\ L!ListAssumption
  BY LinearAssumption
<1>2. CASE UNCHANGED vars
  <2>1. CASE AllVectors
    BY <1>2, <2>1, Zenon DEF vars, LinearInv, AllVectors
  <2>2. CASE ListInv
    <3>1. [L!Next]_(L!vars)
      BY <1>2 DEF vars, L!vars
    <3> QED
      BY <1>1, <2>2, <3>1, StepKeeps DEF LinearInv
  <2>3. CASE Lost
    BY <1>2, <2>3 DEF vars, Lost, LinearInv
  <2> QED
    BY <2>1, <2>2, <2>3 DEF LinearInv
<1>3. CASE status = "vector" /\ V!Next
  <2>1. AllVectors
    BY <1>3 DEF LinearInv, ListInv, Lost
  <2> QED
    BY <1>1, <1>3, <2>1, VectorStep DEF LinearInv, VectorsKeep
<1>4. CASE status = "list" /\ L!Next
  <2>1. ListInv
    BY <1>4 DEF LinearInv, AllVectors, Lost
  <2> QED
    BY <1>1, <1>4, <2>1, StepKeeps DEF LinearInv
<1> QED
  BY <1>2, <1>3, <1>4 DEF Next

(* In every reachable state each vector has cells for its elements, unless *)
(* an allocation failed or the vector used memory that is not its own, or  *)
(* the heap represents one chain per list, with no node in two of them and *)
(* without the extracted one: all operations of vector.hpp keep _size      *)
(* within _capacity, those of list.hpp link and unlink completely.         *)
THEOREM LinearInvHolds == Spec => []LinearInv
<1>1. Init => LinearInv
  BY LinearInit
<1>2. LinearInv /\ [Next]_vars => LinearInv'
  BY LinearStep
<1> QED
  BY <1>1, <1>2, PTL DEF Spec

(* From its head on, each list has as many nodes as its size says, every   *)
(* prev is the inverse of next, and no node is in two lists or extracted   *)
(* and still in one (the assertions of list.hpp).                          *)
THEOREM LinksAlwaysAgree == Spec => []ListLinks
<1>1. LinearInv => ListLinks
  <2> SUFFICES ASSUME LinearInv PROVE ListLinks
    OBVIOUS
  <2>1. CASE AllVectors
    BY <2>1 DEF AllVectors, ListLinks, L!LinksAgree
  <2>2. CASE ListInv
    BY <2>2, ChainsAgree, LinearAssumption
  <2>3. CASE Lost
    BY <2>3 DEF Lost, ListLinks, L!LinksAgree
  <2> QED
    BY <2>1, <2>2, <2>3 DEF LinearInv
<1> QED
  BY <1>1, LinearInvHolds, PTL

(* A vector is what SeqSpec promises: emplace, push_back, remove, erase,   *)
(* pop_back, clear, resize, the copies, moves and operator+= of vector.hpp *)
(* insert, remove or copy exactly the elements they are asked to, at the   *)
(* position they are asked for, as long as realloc does not fail (when all *)
(* elements are gone, vector.hpp:401) and no element is constructed where  *)
(* the vector has no cell; nothing is promised from then on.               *)
THEOREM VectorsAreSequences == Spec => VectorImplements
<1>1. Init => VectorPromise!Init
  <2> SUFFICES ASSUME Init PROVE VectorPromise!Init
    OBVIOUS
  <2>1. CASE V!Init
    <3>1. out = Nobody /\ \A v \in Objects : V!Elements(obj[v]) = <<>>
      BY <2>1, NoElements DEF V!Init
    <3>2. VectorContents = [v \in Objects |-> <<>>]
      BY <3>1 DEF VectorContents, Nothing
    <3> QED
      BY <2>1, <3>1, <3>2 DEF V!Init, VectorPromise!Init
  <2>2. CASE L!Init
    BY <2>2 DEF L!Init, OnVectors, VectorContents, Nothing, VectorPromise!Init
  <2> QED
    BY <2>1, <2>2 DEF Init
<1>2. LinearInv /\ [Next]_vars => [VectorPromise!Next]_(VectorPromise!vars)
  <2> SUFFICES ASSUME LinearInv, [Next]_vars PROVE [VectorPromise!Next]_(VectorPromise!vars)
    OBVIOUS
  <2>1. V!VectorAssumption /\ L!ListAssumption
    BY LinearAssumption
  <2>2. CASE UNCHANGED vars
    BY <2>2 DEF vars, VectorPromise!vars, VectorContents, OnVectors
  <2>3. CASE status = "vector" /\ V!Next
    <3>1. AllVectors
      BY <2>3 DEF LinearInv, ListInv, Lost
    <3>2. VectorsKeep
      BY <2>1, <2>3, <3>1, VectorStep
    <3>3. CASE Lost'
      BY <3>3 DEF Lost, VectorPromise!Break, VectorPromise!Next
    <3> QED
      BY <2>1, <3>1, <3>2, <3>3, VectorImplementsStep DEF VectorsKeep
  <2>4. CASE status = "list" /\ L!Next
    <3>1. ListInv
      BY <2>4 DEF LinearInv, AllVectors, Lost
    <3>2. status = "list" /\ status' = "list"
      BY <2>1, <2>4, <3>1, StepKeeps DEF ListInv
    <3> QED
      BY <3>2 DEF OnVectors, VectorContents, Nothing, VectorPromise!vars
  <2> QED
    BY <2>2, <2>3, <2>4 DEF Next
<1> QED
  BY <1>1, <1>2, LinearInvHolds, PTL DEF Spec, VectorImplements, VectorPromise!Spec

(* List is what SeqSpec promises: only the list that is called changes, a  *)
(* node is inserted or removed at the position the call names, and clear   *)
(* leaves nothing.                                                         *)
THEOREM ListsAreSequences == Spec => ListImplements
<1>1. Init => ListPromise!Init
  <2> SUFFICES ASSUME Init PROVE ListPromise!Init
    OBVIOUS
  <2>1. CASE L!Init
    <3>1. Chains = [l \in Objects |-> <<>>] /\ out = Nobody
      BY <2>1, InitKeeps, LinearAssumption DEF L!Init
    <3>2. ListContents = [l \in Objects |-> <<>>]
      BY <3>1 DEF ListContents, Nothing, Chains
    <3> QED
      BY <3>1, <3>2 DEF ListPromise!Init
  <2>2. CASE V!Init
    BY <2>2 DEF V!Init, OnLists, ListContents, Nothing, ListPromise!Init
  <2> QED
    BY <2>1, <2>2 DEF Init
<1>2. LinearInv /\ [Next]_vars => [ListPromise!Next]_(ListPromise!vars)
  <2> SUFFICES ASSUME LinearInv, [Next]_vars PROVE [ListPromise!Next]_(ListPromise!vars)
    OBVIOUS
  <2>1. V!VectorAssumption /\ L!ListAssumption
    BY LinearAssumption
  <2>2. CASE UNCHANGED vars
    <3>1. CASE AllVectors
      BY <2>2, <3>1, Zenon DEF vars, ListPromise!vars, ListContents, AllVectors, OnLists, Nothing
    <3>2. CASE ListInv
      <4>1. [L!Next]_(L!vars)
        BY <2>2 DEF vars, L!vars
      <4> QED
        BY <2>1, <3>2, <4>1, StepImplements
    <3>3. CASE Lost
      BY <2>2, <3>3, Zenon DEF vars, ListPromise!vars, ListContents, Lost, OnLists, Nothing
    <3> QED
      BY <3>1, <3>2, <3>3 DEF LinearInv
  <2>3. CASE status = "vector" /\ V!Next
    <3>1. AllVectors
      BY <2>3 DEF LinearInv, ListInv, Lost
    <3>2. ~OnLists /\ ~OnLists'
      BY <2>1, <2>3, <3>1, VectorStep DEF VectorsKeep, AllVectors, Lost, OnLists
    <3> QED
      BY <3>2, Zenon DEF ListContents, Nothing, ListPromise!vars
  <2>4. CASE status = "list" /\ L!Next
    <3>1. ListInv
      BY <2>4 DEF LinearInv, AllVectors, Lost
    <3> QED
      BY <2>1, <2>4, <3>1, StepImplements
  <2> QED
    BY <2>2, <2>3, <2>4 DEF Next
<1> QED
  BY <1>1, <1>2, LinearInvHolds, PTL DEF Spec, ListImplements, ListPromise!Spec

-----------------------------------------------------------------------------
(***************************************************************************)
(* HashSet.  Good says what a set looks like between two operations; each  *)
(* operation keeps it, and changes the entries a set holds as DictSpec     *)
(* says.                                                                   *)
(***************************************************************************)

-----------------------------------------------------------------------------
(* The operators of the instance, and arithmetic.                          *)

LEMMA HCardinality == \A S : H!Cardinality(S) = Cardinality(S)
BY DEF H!Cardinality, Cardinality

(* The greatest and the least number of a set.                             *)
LEMMA GreatestIs ==
  ASSUME NEW T, NEW x \in T, T \subseteq Int, \A y \in T : y <= x
  PROVE  H!Max(T) = x
<1>1. \E z \in T : \A y \in T : z >= y
  OBVIOUS
<1>2. PICK m : m = H!Max(T)
  OBVIOUS
<1>3. m \in T /\ \A y \in T : m >= y
  BY <1>1, <1>2 DEF H!Max
<1>4. m \in Int /\ x \in Int /\ m <= x /\ x <= m
  BY <1>3
<1> QED
  BY <1>2, <1>4

LEMMA LeastIs ==
  ASSUME NEW T, NEW x \in T, T \subseteq Int, \A y \in T : x <= y
  PROVE  H!Min(T) = x
<1>1. \E z \in T : \A y \in T : z <= y
  OBVIOUS
<1>2. PICK m : m = H!Min(T)
  OBVIOUS
<1>3. m \in T /\ \A y \in T : m <= y
  BY <1>1, <1>2 DEF H!Min
<1>4. m \in Int /\ x \in Int /\ m <= x /\ x <= m
  BY <1>3
<1> QED
  BY <1>2, <1>4

(* A finite set of numbers has a greatest one.                             *)
LEMMA GreatestOf ==
  ASSUME NEW n \in Nat, NEW T, T \subseteq 0..n, T # {}
  PROVE  H!Max(T) \in T /\ \A y \in T : y <= H!Max(T)
<1>1. PICK x \in T : \A y \in T : y <= x
  BY GreatestNumber
<1>2. T \subseteq Int
  OBVIOUS
<1>3. H!Max(T) = x
  BY <1>1, <1>2, GreatestIs
<1> QED
  BY <1>1, <1>3

LEMMA LeastOf ==
  ASSUME NEW T, T \subseteq Nat, T # {}
  PROVE  H!Min(T) \in T /\ \A y \in T : H!Min(T) <= y
<1>1. PICK x \in T : \A y \in T : x <= y
  BY LeastNumber
<1>2. T \subseteq Int
  OBVIOUS
<1>3. H!Min(T) = x
  BY <1>1, <1>2, LeastIs
<1> QED
  BY <1>1, <1>3

(* The first n slots are n.                                                *)
LEMMA CountTo ==
  ASSUME NEW n \in Nat
  PROVE  IsFiniteSet(1..n) /\ Cardinality(1..n) = n
<1>1. Cardinality(1..n) = IF 1 > n THEN 0 ELSE n - 1 + 1
  BY FS_Interval
<1> QED
  BY <1>1, FS_Interval

LEMMA CountCells ==
  ASSUME NEW n \in Nat
  PROVE  IsFiniteSet(0..(n - 1)) /\ Cardinality(0..(n - 1)) = n
<1>1. Cardinality(0..(n - 1)) = IF 0 > n - 1 THEN 0 ELSE (n - 1) - 0 + 1
  BY FS_Interval
<1> QED
  BY <1>1, FS_Interval

(* A function on the first n numbers is a sequence.                        *)
LEMMA Listed ==
  ASSUME NEW n \in Nat, NEW S, NEW c \in [1..n -> S]
  PROVE  c \in Seq(S) /\ Len(c) = n /\ DOMAIN c = 1..n
<1>1. c \in Seq(S)
  BY SeqDef
<1>2. Len(c) \in Nat /\ DOMAIN c = 1..Len(c)
  BY <1>1, LenProperties
<1>3. 1..n = 1..Len(c)
  BY <1>2
<1>4. CASE n < Len(c)
  <2>1. Len(c) \in 1..Len(c) /\ Len(c) \notin 1..n
    BY <1>2, <1>4
  <2> QED
    BY <1>3, <2>1
<1>5. CASE n > Len(c)
  <2>1. n \in 1..n /\ n \notin 1..Len(c)
    BY <1>2, <1>5
  <2> QED
    BY <1>3, <2>1
<1> QED
  BY <1>1, <1>2, <1>4, <1>5

(* More slots have no fewer buckets.                                       *)
LEMMA MoreSlotsMoreBuckets ==
  ASSUME NEW c \in Nat, H!HashAssumption
  PROVE  /\ H!Buckets(c) \in Nat
         /\ c >= MinCapacity => H!Buckets(c) >= 1
<1>1. /\ MinCapacity \in Nat /\ Load \in Nat /\ MinCapacity * Load >= 100
  BY DEF H!HashAssumption
<1>2. PICK p : p = c * Load
  OBVIOUS
<1>3. p \in Nat
  BY <1>1, <1>2
<1>4. H!Buckets(c) = p \div 100
  BY <1>2 DEF H!Buckets
<1>5. c >= MinCapacity => p >= 100
  <2> SUFFICES ASSUME c >= MinCapacity PROVE p >= 100
    OBVIOUS
  <2>1. PICK d : d = c - MinCapacity
    OBVIOUS
  <2>2. d \in Nat /\ c = MinCapacity + d
    BY <1>1, <2>1
  <2>3. PICK q, r : q = MinCapacity * Load /\ r = d * Load
    OBVIOUS
  <2>4. q \in Nat /\ r \in Nat /\ q >= 100
    BY <1>1, <2>2, <2>3
  <2>5. p = q + r
    BY <1>1, <1>2, <2>2, <2>3
  <2> QED
    BY <2>4, <2>5
<1>6. p \div 100 \in Nat /\ (p >= 100 => p \div 100 >= 1)
  BY <1>3
<1> QED
  BY <1>4, <1>5, <1>6

-----------------------------------------------------------------------------
(* Chains of nodes, as sequences of slots.                                 *)

NodeRecords == [data : H!Entries, prev : Nat, next : Nat, temp : Nat]

(* The n-th slot of a chain; 0 before the first and behind the last one.   *)
SlotAt(c, n) == IF n \in 1..Len(c) THEN c[n] ELSE 0

(* c is the chain that the links make from slot first on.                  *)
IsLinked(node, first, c) ==
  /\ c \in Seq(DOMAIN node) /\ IsInjective(c)
  /\ first = SlotAt(c, 1)
  /\ \A n \in 1..Len(c) :
       /\ node[c[n]] # NoNode
       /\ node[c[n]].next = SlotAt(c, n + 1)
       /\ node[c[n]].prev = SlotAt(c, n - 1)

(* The slots of a chain.                                                   *)
LEMMA LinkedSlots ==
  ASSUME NEW node, NEW first, NEW c, IsLinked(node, first, c)
  PROVE  /\ Len(c) \in Nat /\ DOMAIN c = 1..Len(c)
         /\ \A n \in 1..Len(c) : c[n] \in DOMAIN node /\ c[n] \in Range(c)
         /\ Range(c) \subseteq DOMAIN node
         /\ \A j \in Range(c) : \E n \in 1..Len(c) : c[n] = j
         /\ \A m, n \in 1..Len(c) : c[m] = c[n] => m = n
<1>1. c \in Seq(DOMAIN node) /\ IsInjective(c)
  BY DEF IsLinked
<1>2. Len(c) \in Nat /\ DOMAIN c = 1..Len(c) /\ \A n \in 1..Len(c) : c[n] \in DOMAIN node
  BY <1>1, LenProperties, ElementOfSeq
<1>3. \A j \in Range(c) : \E n \in 1..Len(c) : c[n] = j
  BY <1>2 DEF Range
<1>4. \A n \in 1..Len(c) : c[n] \in Range(c)
  BY <1>2 DEF Range
<1>5. \A m, n \in 1..Len(c) : c[m] = c[n] => m = n
  BY <1>1, <1>2 DEF IsInjective
<1> QED
  BY <1>2, <1>3, <1>4, <1>5

(* A chain stays what it is if its links do.                               *)
LEMMA StaysLinked ==
  ASSUME NEW node, NEW first, NEW c, IsLinked(node, first, c),
         NEW node2, DOMAIN node2 = DOMAIN node,
         \A j \in Range(c) : /\ node2[j] # NoNode
                             /\ node2[j].next = node[j].next
                             /\ node2[j].prev = node[j].prev
  PROVE  IsLinked(node2, first, c)
<1>1. \A n \in 1..Len(c) : c[n] \in Range(c)
  BY LinkedSlots
<1>2. ASSUME NEW n \in 1..Len(c)
      PROVE  /\ node2[c[n]] # NoNode
             /\ node2[c[n]].next = SlotAt(c, n + 1)
             /\ node2[c[n]].prev = SlotAt(c, n - 1)
  <2>1. c[n] \in Range(c)
    BY <1>1
  <2>2. node[c[n]].next = SlotAt(c, n + 1) /\ node[c[n]].prev = SlotAt(c, n - 1)
    BY DEF IsLinked
  <2> QED
    BY <2>1, <2>2
<1>3. c \in Seq(DOMAIN node2) /\ IsInjective(c) /\ first = SlotAt(c, 1)
  BY DEF IsLinked
<1> QED
  BY <1>2, <1>3 DEF IsLinked

(* A slot becomes the first one of a chain.                                *)
LEMMA LinkedFirst ==
  ASSUME NEW node, DOMAIN node \subseteq Nat \ {0}, NEW first, NEW c, IsLinked(node, first, c),
         NEW i \in DOMAIN node, i \notin Range(c),
         NEW node2, DOMAIN node2 = DOMAIN node,
         node2[i] # NoNode, node2[i].next = first, node2[i].prev = 0,
         \A j \in Range(c) : /\ node2[j] # NoNode
                             /\ node2[j].next = node[j].next
                             /\ node2[j].prev = IF j = first THEN i ELSE node[j].prev
  PROVE  \E d : IsLinked(node2, i, d) /\ Range(d) = Range(c) \cup {i}
<1> DEFINE size == Len(c)
           d == [n \in 1..(size + 1) |-> IF n = 1 THEN i ELSE c[n - 1]]
<1>1. /\ size \in Nat /\ DOMAIN c = 1..size
      /\ \A n \in 1..size : c[n] \in DOMAIN node /\ c[n] \in Range(c)
      /\ \A j \in Range(c) : \E n \in 1..size : c[n] = j
      /\ \A m, n \in 1..size : c[m] = c[n] => m = n
  BY LinkedSlots
<1>2. d \in [1..(size + 1) -> DOMAIN node]
  BY <1>1
<1>3. d \in Seq(DOMAIN node) /\ Len(d) = size + 1 /\ DOMAIN d = 1..(size + 1)
  <2> HIDE DEF d
  <2> QED
    BY <1>1, <1>2, Listed
<1>4. d[1] = i /\ \A n \in 1..size : d[n + 1] = c[n]
  BY <1>1
<1> HIDE DEF d
<1>5. \A n \in 1..(size + 1) : n = 1 \/ \E m \in 1..size : n = m + 1
  <2> SUFFICES ASSUME NEW n \in 1..(size + 1), n # 1 PROVE \E m \in 1..size : n = m + 1
    OBVIOUS
  <2>1. n - 1 \in 1..size /\ n = (n - 1) + 1
    BY <1>1
  <2> QED
    BY <2>1
<1>6. IsInjective(d)
  <2> SUFFICES ASSUME NEW m \in 1..(size + 1), NEW n \in 1..(size + 1), d[m] = d[n] PROVE m = n
    BY <1>3 DEF IsInjective
  <2>1. CASE m = 1 \/ n = 1
    BY <1>1, <1>4, <1>5, <2>1
  <2>2. CASE m # 1 /\ n # 1
    <3>1. PICK a \in 1..size, b \in 1..size : m = a + 1 /\ n = b + 1
      BY <1>5, <2>2
    <3> QED
      BY <1>1, <1>4, <3>1
  <2> QED
    BY <2>1, <2>2
<1>7. Range(d) = Range(c) \cup {i}
  <2>1. Range(d) \subseteq Range(c) \cup {i}
    <3> SUFFICES ASSUME NEW n \in 1..(size + 1) PROVE d[n] \in Range(c) \cup {i}
      BY <1>3 DEF Range
    <3> QED
      BY <1>1, <1>4, <1>5
  <2>2. i \in Range(d)
    <3>1. 1 \in DOMAIN d
      BY <1>1, <1>3
    <3> QED
      BY <1>4, <3>1 DEF Range
  <2>3. ASSUME NEW j \in Range(c) PROVE j \in Range(d)
    <3>1. PICK n \in 1..size : c[n] = j
      BY <1>1
    <3>2. n + 1 \in DOMAIN d /\ d[n + 1] = j
      BY <1>1, <1>3, <1>4, <3>1
    <3> QED
      BY <3>2 DEF Range
  <2> QED
    BY <2>1, <2>2, <2>3
<1>8. SlotAt(d, 0) = 0 /\ SlotAt(d, 1) = i /\ \A n \in 1..size : SlotAt(d, n + 1) = c[n]
  BY <1>1, <1>3, <1>4 DEF SlotAt
<1>9. \A n \in Nat \ {0} : SlotAt(d, n + 1) = SlotAt(c, n)
  <2> SUFFICES ASSUME NEW n \in Nat \ {0} PROVE SlotAt(d, n + 1) = SlotAt(c, n)
    OBVIOUS
  <2>1. CASE n \in 1..size
    BY <1>8, <2>1 DEF SlotAt
  <2>2. CASE n \notin 1..size
    <3>1. n + 1 \notin 1..(size + 1)
      BY <1>1, <2>2
    <3> QED
      BY <1>3, <2>2, <3>1 DEF SlotAt
  <2> QED
    BY <2>1, <2>2
<1>10. first = SlotAt(c, 1) /\ \A n \in 1..size : node[c[n]].next = SlotAt(c, n + 1) /\ node[c[n]].prev = SlotAt(c, n - 1)
  BY DEF IsLinked
<1>11. ASSUME NEW n \in 1..(size + 1)
       PROVE  /\ node2[d[n]] # NoNode
              /\ node2[d[n]].next = SlotAt(d, n + 1)
              /\ node2[d[n]].prev = SlotAt(d, n - 1)
  <2>1. CASE n = 1
    <3>1. SlotAt(d, n + 1) = first /\ SlotAt(d, n - 1) = 0 /\ d[n] = i
      BY <1>4, <1>8, <1>9, <1>10, <2>1
    <3> QED
      BY <3>1
  <2>2. CASE n # 1
    <3>1. PICK m \in 1..size : n = m + 1
      BY <1>5, <2>2
    <3>2. c[m] \in Range(c) /\ d[n] = c[m]
      BY <1>1, <1>4, <3>1
    <3>3. node2[d[n]] # NoNode /\ node2[d[n]].next = SlotAt(c, m + 1)
      BY <1>10, <3>2
    <3>4. SlotAt(d, n + 1) = SlotAt(c, m + 1)
      <4>1. m + 1 \in Nat \ {0} /\ n + 1 = (m + 1) + 1
        BY <1>1, <3>1
      <4> QED
        BY <1>9, <4>1
    <3>5. CASE m = 1
      <4>1. c[m] = first
        BY <1>10, <3>5 DEF SlotAt
      <4>2. SlotAt(d, n - 1) = i
        BY <1>8, <3>1, <3>5
      <4> QED
        BY <3>2, <3>3, <3>4, <4>1, <4>2
    <3>6. CASE m # 1
      <4>1. c[m] # first
        <5>1. 1 \in 1..size
          BY <1>1
        <5>2. first = c[1]
          BY <1>10, <5>1 DEF SlotAt
        <5> QED
          BY <1>1, <3>6, <5>1, <5>2
      <4>2. node2[d[n]].prev = SlotAt(c, m - 1)
        BY <1>10, <3>2, <4>1
      <4>3. SlotAt(d, n - 1) = SlotAt(c, m - 1)
        <5>1. m - 1 \in Nat \ {0} /\ n - 1 = (m - 1) + 1
          BY <1>1, <3>1, <3>6
        <5> QED
          BY <1>9, <5>1
      <4> QED
        BY <3>3, <3>4, <4>2, <4>3
    <3> QED
      BY <3>5, <3>6
  <2> QED
    BY <2>1, <2>2
<1>12. IsLinked(node2, i, d)
  BY <1>3, <1>6, <1>8, <1>11 DEF IsLinked
<1> QED
  BY <1>7, <1>12

(* The neighbours of a slot of a chain are at the places beside it.        *)
LEMMA LinkedNeighbours ==
  ASSUME NEW node, DOMAIN node \subseteq Nat \ {0}, NEW first, NEW c, IsLinked(node, first, c),
         NEW k \in 1..Len(c)
  PROVE  /\ first = c[k] <=> k = 1
         /\ \A n \in 1..Len(c) : /\ c[n] = node[c[k]].prev <=> n = k - 1
                                 /\ c[n] = node[c[k]].next <=> n = k + 1
         /\ node[c[k]].prev = 0 <=> k = 1
<1> DEFINE size == Len(c)
<1>1. /\ size \in Nat /\ \A n \in 1..size : c[n] \in DOMAIN node
      /\ \A m, n \in 1..size : c[m] = c[n] => m = n
  BY LinkedSlots
<1>2. /\ first = SlotAt(c, 1) /\ node[c[k]].next = SlotAt(c, k + 1) /\ node[c[k]].prev = SlotAt(c, k - 1)
  BY DEF IsLinked
<1>3. first = c[1] /\ 1 \in 1..size
  BY <1>1, <1>2 DEF SlotAt
<1>4. \A n \in 1..size : c[n] # 0
  BY <1>1
<1>5. ASSUME NEW n \in 1..size, NEW m \in Int PROVE c[n] = SlotAt(c, m) <=> n = m
  BY <1>1, <1>4 DEF SlotAt
<1>6. k - 1 \in Int /\ k + 1 \in Int
  BY <1>1
<1>7. SlotAt(c, k - 1) = 0 <=> k = 1
  BY <1>1, <1>4 DEF SlotAt
<1>8. first = c[k] <=> k = 1
  BY <1>1, <1>3
<1>9. ASSUME NEW n \in 1..size
      PROVE  c[n] = node[c[k]].prev <=> n = k - 1
  BY <1>2, <1>5, <1>6
<1>10. ASSUME NEW n \in 1..size
       PROVE  c[n] = node[c[k]].next <=> n = k + 1
  BY <1>2, <1>5, <1>6
<1>11. node[c[k]].prev = 0 <=> k = 1
  BY <1>2, <1>7
<1> QED
  BY <1>8, <1>9, <1>10, <1>11

(* A slot leaves a chain.                                                  *)
LEMMA LinkedWithout ==
  ASSUME NEW node, DOMAIN node \subseteq Nat \ {0}, NEW first, NEW c, IsLinked(node, first, c),
         NEW i \in Range(c), NEW node2, DOMAIN node2 = DOMAIN node,
         \A j \in Range(c) \ {i} :
           /\ node2[j] # NoNode
           /\ node2[j].next = IF j = node[i].prev THEN node[i].next ELSE node[j].next
           /\ node2[j].prev = IF j = node[i].next THEN node[i].prev ELSE node[j].prev
  PROVE  \E d : /\ IsLinked(node2, IF first = i THEN node[i].next ELSE first, d)
                /\ Range(d) = Range(c) \ {i}
<1> DEFINE size == Len(c)
<1>1. /\ size \in Nat /\ DOMAIN c = 1..size
      /\ \A n \in 1..size : c[n] \in DOMAIN node /\ c[n] \in Range(c)
      /\ \A j \in Range(c) : \E n \in 1..size : c[n] = j
      /\ \A m, n \in 1..size : c[m] = c[n] => m = n
  BY LinkedSlots
<1>2. PICK k \in 1..size : c[k] = i
  BY <1>1
<1> DEFINE d == [n \in 1..(size - 1) |-> IF n < k THEN c[n] ELSE c[n + 1]]
<1>3. size - 1 \in Nat /\ d \in [1..(size - 1) -> DOMAIN node]
  BY <1>1
<1>4. d \in Seq(DOMAIN node) /\ Len(d) = size - 1 /\ DOMAIN d = 1..(size - 1)
  <2> HIDE DEF d
  <2> QED
    BY <1>3, Listed
<1>5. \A n \in 1..(size - 1) : d[n] = IF n < k THEN c[n] ELSE c[n + 1]
  OBVIOUS
<1> HIDE DEF d
<1>6. /\ first = i <=> k = 1
      /\ \A n \in 1..size : c[n] = node[i].prev <=> n = k - 1
      /\ \A n \in 1..size : c[n] = node[i].next <=> n = k + 1
  BY <1>2, LinkedNeighbours
<1>7. /\ first = SlotAt(c, 1) /\ node[i].next = SlotAt(c, k + 1) /\ node[i].prev = SlotAt(c, k - 1)
      /\ \A n \in 1..size : node[c[n]].next = SlotAt(c, n + 1) /\ node[c[n]].prev = SlotAt(c, n - 1)
  BY <1>2 DEF IsLinked
<1>8. \A n \in Int : SlotAt(d, n) = IF n < k THEN SlotAt(c, n) ELSE SlotAt(c, n + 1)
  <2> SUFFICES ASSUME NEW n \in Int PROVE SlotAt(d, n) = IF n < k THEN SlotAt(c, n) ELSE SlotAt(c, n + 1)
    OBVIOUS
  <2>1. CASE n \in 1..(size - 1)
    <3>1. n \in 1..size /\ n + 1 \in 1..size
      BY <1>1, <2>1
    <3> QED
      BY <1>4, <1>5, <2>1, <3>1 DEF SlotAt
  <2>2. CASE n \notin 1..(size - 1)
    <3>1. SlotAt(d, n) = 0
      BY <1>4, <2>2 DEF SlotAt
    <3>2. n < k => n \notin 1..size
      BY <1>1, <2>2
    <3>3. ~(n < k) => n + 1 \notin 1..size
      BY <1>1, <2>2
    <3> QED
      BY <3>1, <3>2, <3>3 DEF SlotAt
  <2> QED
    BY <2>1, <2>2
<1>9. IsInjective(d)
  <2> SUFFICES ASSUME NEW m \in 1..(size - 1), NEW n \in 1..(size - 1), d[m] = d[n] PROVE m = n
    BY <1>4 DEF IsInjective
  <2>1. PICK a : a = IF m < k THEN m ELSE m + 1
    OBVIOUS
  <2>2. PICK b : b = IF n < k THEN n ELSE n + 1
    OBVIOUS
  <2>3. a \in 1..size /\ b \in 1..size
    BY <1>1, <2>1, <2>2
  <2>4. d[m] = c[a] /\ d[n] = c[b]
    BY <1>5, <2>1, <2>2
  <2>5. a = b
    <3>1. c[a] = c[b]
      BY <2>4
    <3>2. \A x, y \in 1..size : c[x] = c[y] => x = y
      BY <1>1
    <3> QED
      BY ONLY <2>3, <3>1, <3>2
  <2> QED
    BY <2>1, <2>2, <2>5
<1>10. \A n \in 1..(size - 1) : d[n] \in Range(c) /\ d[n] # i
  <2> SUFFICES ASSUME NEW n \in 1..(size - 1) PROVE d[n] \in Range(c) /\ d[n] # i
    OBVIOUS
  <2>1. PICK b : b = IF n < k THEN n ELSE n + 1
    OBVIOUS
  <2>2. b \in 1..size /\ b # k /\ d[n] = c[b]
    BY <1>1, <1>5, <2>1
  <2> QED
    BY <1>1, <1>2, <2>2
<1>11. Range(d) = Range(c) \ {i}
  <2>1. Range(d) \subseteq Range(c) \ {i}
    BY <1>4, <1>10 DEF Range
  <2>2. ASSUME NEW j \in Range(c), j # i PROVE j \in Range(d)
    <3>1. PICK n \in 1..size : c[n] = j
      BY <1>1
    <3>2. n # k
      BY <1>2, <2>2, <3>1
    <3>3. PICK m : m = IF n < k THEN n ELSE n - 1
      OBVIOUS
    <3>4. m \in 1..(size - 1) /\ d[m] = c[n]
      BY <1>1, <1>5, <3>2, <3>3
    <3> QED
      BY <1>4, <3>1, <3>4 DEF Range
  <2> QED
    BY <2>1, <2>2
<1>12. SlotAt(d, 1) = IF first = i THEN node[i].next ELSE first
  BY <1>6, <1>7, <1>8
<1>13. ASSUME NEW n \in 1..(size - 1)
       PROVE  /\ node2[d[n]] # NoNode
              /\ node2[d[n]].next = SlotAt(d, n + 1)
              /\ node2[d[n]].prev = SlotAt(d, n - 1)
  <2>1. PICK b : b = IF n < k THEN n ELSE n + 1
    OBVIOUS
  <2>2. b \in 1..size /\ b # k /\ d[n] = c[b] /\ d[n] \in Range(c) \ {i}
    BY <1>1, <1>5, <1>10, <2>1
  <2>3. /\ node2[d[n]] # NoNode
        /\ node2[d[n]].next = IF b = k - 1 THEN SlotAt(c, k + 1) ELSE SlotAt(c, b + 1)
        /\ node2[d[n]].prev = IF b = k + 1 THEN SlotAt(c, k - 1) ELSE SlotAt(c, b - 1)
    <3>1. PICK j : j = d[n]
      OBVIOUS
    <3>2. /\ node2[j] # NoNode
          /\ node2[j].next = IF j = node[i].prev THEN node[i].next ELSE node[j].next
          /\ node2[j].prev = IF j = node[i].next THEN node[i].prev ELSE node[j].prev
      BY <2>2, <3>1
    <3>3. j = node[i].prev <=> b = k - 1
      BY <1>6, <2>2, <3>1
    <3>4. j = node[i].next <=> b = k + 1
      BY <1>6, <2>2, <3>1
    <3>5. node[j].next = SlotAt(c, b + 1) /\ node[j].prev = SlotAt(c, b - 1)
      BY <1>7, <2>2, <3>1
    <3> QED
      BY <1>7, <3>1, <3>2, <3>3, <3>4, <3>5
  <2>4. PICK x, y : /\ x = IF b = k - 1 THEN k + 1 ELSE b + 1
                    /\ y = IF b = k + 1 THEN k - 1 ELSE b - 1
    OBVIOUS
  <2>5. node2[d[n]].next = SlotAt(c, x) /\ node2[d[n]].prev = SlotAt(c, y)
    BY <2>3, <2>4
  <2>6. x = IF n + 1 < k THEN n + 1 ELSE (n + 1) + 1
    BY <1>1, <2>1, <2>2, <2>4
  <2>7. y = IF n - 1 < k THEN n - 1 ELSE (n - 1) + 1
    BY <1>1, <2>1, <2>2, <2>4
  <2>8. n + 1 \in Int /\ n - 1 \in Int
    BY <1>1
  <2>9. SlotAt(d, n + 1) = SlotAt(c, x) /\ SlotAt(d, n - 1) = SlotAt(c, y)
    BY <1>8, <2>6, <2>7, <2>8
  <2> QED
    BY <2>3, <2>5, <2>9
<1>14. IsLinked(node2, IF first = i THEN node[i].next ELSE first, d)
  BY <1>4, <1>9, <1>12, <1>13 DEF IsLinked
<1> QED
  BY <1>11, <1>14

-----------------------------------------------------------------------------
(* The chains that bucketize makes: the slots of a bucket, from the        *)
(* greatest one down.                                                      *)

Descends(c) == \A m, n \in 1..Len(c) : m < n => c[n] < c[m]

(* Every set of slots can be listed like that.                             *)
LEMMA DescendingList ==
  ASSUME NEW n \in Nat, NEW T, T \subseteq 1..n
  PROVE  \E c \in Seq(T) : Range(c) = T /\ Descends(c)
<1> DEFINE S == {m \in Nat : \A U \in SUBSET (1..m) : \E c \in Seq(U) : Range(c) = U /\ Descends(c)}
<1>1. 0 \in S
  <2> SUFFICES ASSUME NEW U \in SUBSET (1..0) PROVE \E c \in Seq(U) : Range(c) = U /\ Descends(c)
    OBVIOUS
  <2>1. U = {}
    OBVIOUS
  <2>2. << >> \in Seq(U) /\ Len(<< >>) = 0 /\ DOMAIN << >> = {}
    OBVIOUS
  <2>3. Range(<< >>) = {} /\ Descends(<< >>)
    BY <2>2 DEF Range, Descends
  <2> QED
    BY <2>1, <2>2, <2>3
<1>2. ASSUME NEW m \in Nat, m \in S PROVE m + 1 \in S
  <2> SUFFICES ASSUME NEW U \in SUBSET (1..(m + 1)) PROVE \E c \in Seq(U) : Range(c) = U /\ Descends(c)
    OBVIOUS
  <2>1. CASE m + 1 \notin U
    <3>1. U \in SUBSET (1..m)
      BY <2>1
    <3> QED
      BY <1>2, <3>1
  <2>2. CASE m + 1 \in U
    <3> DEFINE V1 == U \ {m + 1}
    <3>1. V1 \in SUBSET (1..m)
      OBVIOUS
    <3>2. PICK c \in Seq(V1) : Range(c) = V1 /\ Descends(c)
      BY <1>2, <3>1
    <3>3. /\ Len(c) \in Nat /\ DOMAIN c = 1..Len(c) /\ \A k \in 1..Len(c) : c[k] \in V1
      BY <3>2, LenProperties, ElementOfSeq
    <3> DEFINE size == Len(c)
               d == [k \in 1..(size + 1) |-> IF k = 1 THEN m + 1 ELSE c[k - 1]]
    <3>4. d \in [1..(size + 1) -> U]
      BY <2>2, <3>3
    <3>5. d \in Seq(U) /\ Len(d) = size + 1 /\ DOMAIN d = 1..(size + 1)
      <4> HIDE DEF d
      <4> QED
        BY <3>3, <3>4, Listed
    <3>6. d[1] = m + 1 /\ \A k \in 1..size : d[k + 1] = c[k]
      BY <3>3
    <3> HIDE DEF d
    <3>7. \A k \in 1..(size + 1) : k = 1 \/ (k - 1 \in 1..size /\ d[k] = c[k - 1])
      <4> SUFFICES ASSUME NEW k \in 1..(size + 1), k # 1 PROVE k - 1 \in 1..size /\ d[k] = c[k - 1]
        OBVIOUS
      <4>1. k - 1 \in 1..size /\ k = (k - 1) + 1
        BY <3>3
      <4> QED
        BY <3>6, <4>1
    <3>8. Range(d) = U
      <4>1. ASSUME NEW j \in U PROVE j \in Range(d)
        <5>1. CASE j = m + 1
          <6>1. 1 \in DOMAIN d
            BY <3>3, <3>5
          <6> QED
            BY <3>6, <5>1, <6>1 DEF Range
        <5>2. CASE j # m + 1
          <6>1. PICK k \in 1..size : c[k] = j
            BY <3>2, <3>3, <4>1, <5>2 DEF Range
          <6>2. k + 1 \in DOMAIN d /\ d[k + 1] = j
            BY <3>3, <3>5, <3>6, <6>1
          <6> QED
            BY <6>2 DEF Range
        <5> QED
          BY <5>1, <5>2
      <4>2. Range(d) \subseteq U
        BY <3>4 DEF Range
      <4> QED
        BY <4>1, <4>2
    <3>9. Descends(d)
      <4> SUFFICES ASSUME NEW a \in 1..(size + 1), NEW b \in 1..(size + 1), a < b PROVE d[b] < d[a]
        BY <3>5 DEF Descends
      <4>1. b - 1 \in 1..size /\ d[b] = c[b - 1]
        BY <3>7
      <4>2. CASE a = 1
        <5>1. c[b - 1] \in 1..m
          BY <3>1, <3>3, <4>1
        <5> QED
          BY <3>6, <4>1, <4>2, <5>1
      <4>3. CASE a # 1
        <5>1. a - 1 \in 1..size /\ d[a] = c[a - 1] /\ a - 1 < b - 1
          BY <3>7, <4>3
        <5>2. c[b - 1] < c[a - 1]
          BY <3>2, <4>1, <5>1 DEF Descends
        <5> QED
          BY <4>1, <5>1, <5>2
      <4> QED
        BY <4>2, <4>3
    <3> QED
      BY <3>5, <3>8, <3>9
  <2> QED
    BY <2>1, <2>2
<1> HIDE DEF S
<1>3. n \in S
  BY <1>1, <1>2, NumberInduction
<1> QED
  BY <1>3 DEF S

(* Its neighbours are the next lower and the next higher slot.             *)
IsDescent(T, c) ==
  /\ H!Max(T \cup {0}) = SlotAt(c, 1)
  /\ \A k \in 1..Len(c) :
       /\ H!Max({j \in T : j < c[k]} \cup {0}) = SlotAt(c, k + 1)
       /\ (IF {j \in T : j > c[k]} = {} THEN 0 ELSE H!Min({j \in T : j > c[k]}))
            = SlotAt(c, k - 1)

LEMMA DescendingNeighbours ==
  ASSUME NEW T, T \subseteq Nat \ {0}, NEW c \in Seq(T), Range(c) = T, Descends(c)
  PROVE  IsInjective(c) /\ IsDescent(T, c)
<1> DEFINE size == Len(c)
<1>1. size \in Nat /\ DOMAIN c = 1..size /\ \A k \in 1..size : c[k] \in T /\ c[k] \in Nat \ {0}
  BY LenProperties, ElementOfSeq
<1>2. \A j \in T : \E k \in 1..size : c[k] = j
  BY <1>1 DEF Range
<1>3. \A m, n \in 1..size : m < n <=> c[n] < c[m]
  <2> SUFFICES ASSUME NEW m \in 1..size, NEW n \in 1..size PROVE m < n <=> c[n] < c[m]
    OBVIOUS
  <2>1. /\ m < n => c[n] < c[m]
        /\ n < m => c[m] < c[n]
    BY DEF Descends
  <2>2. c[n] \in Nat /\ c[m] \in Nat /\ (m = n => c[m] = c[n])
    BY <1>1
  <2> QED
    BY <1>1, <2>1, <2>2
<1>4. IsInjective(c)
  <2> SUFFICES ASSUME NEW m \in 1..size, NEW n \in 1..size, c[m] = c[n] PROVE m = n
    BY <1>1 DEF IsInjective
  <2>1. ~(m < n) /\ ~(n < m)
    BY <1>1, <1>3
  <2> QED
    BY <1>1, <2>1
<1>5. H!Max(T \cup {0}) = SlotAt(c, 1)
  <2> DEFINE x == SlotAt(c, 1)
             U == T \cup {0}
  <2>1. CASE size = 0
    <3>1. x = 0 /\ T = {}
      BY <1>1, <1>2, <2>1 DEF SlotAt
    <3>2. x \in U /\ U \subseteq Int /\ \A y \in U : y <= x
      BY <3>1
    <3> HIDE DEF x, U
    <3> QED
      BY <3>2, GreatestIs DEF x, U
  <2>2. CASE size # 0
    <3>1. x = c[1] /\ 1 \in 1..size
      BY <1>1, <2>2 DEF SlotAt
    <3>2. ASSUME NEW y \in T PROVE y <= x
      <4>1. PICK k \in 1..size : c[k] = y
        BY <1>2
      <4>2. k = 1 \/ 1 < k
        BY <1>1
      <4>3. y = x \/ y < x
        BY <1>3, <3>1, <4>1, <4>2
      <4> QED
        BY <1>1, <3>1, <4>1, <4>3
    <3>3. x \in U /\ U \subseteq Int /\ \A y \in U : y <= x
      BY <1>1, <3>1, <3>2
    <3> HIDE DEF x, U
    <3> QED
      BY <3>3, GreatestIs DEF x, U
  <2> QED
    BY <2>1, <2>2
<1>6. ASSUME NEW k \in 1..size
      PROVE  H!Max({j \in T : j < c[k]} \cup {0}) = SlotAt(c, k + 1)
  <2> DEFINE x == SlotAt(c, k + 1)
             U == {j \in T : j < c[k]} \cup {0}
  <2>1. CASE k = size
    <3>1. x = 0
      BY <1>1, <2>1 DEF SlotAt
    <3>2. ASSUME NEW y \in T PROVE ~(y < c[k])
      <4>1. PICK n \in 1..size : c[n] = y
        BY <1>2
      <4>2. ~(k < n)
        BY <1>1, <2>1
      <4> QED
        BY <1>3, <4>1, <4>2
    <3>3. U = {0}
      BY <3>2
    <3>4. x \in U /\ U \subseteq Int /\ \A y \in U : y <= x
      BY <3>1, <3>3
    <3> HIDE DEF x, U
    <3> QED
      BY <3>4, GreatestIs DEF x, U
  <2>2. CASE k # size
    <3>1. k + 1 \in 1..size /\ x = c[k + 1] /\ k < k + 1
      <4>1. k + 1 \in 1..size /\ k < k + 1
        <5>1. size \in Nat
          BY <1>1
        <5> HIDE DEF size
        <5> QED
          BY <2>2, <5>1
      <4> QED
        BY <4>1 DEF SlotAt
    <3>2. c[k + 1] < c[k] /\ c[k + 1] \in T /\ x \in Nat
      BY <1>1, <1>3, <3>1
    <3>3. ASSUME NEW y \in T, y < c[k] PROVE y <= x
      <4>1. PICK n \in 1..size : c[n] = y
        BY <1>2
      <4>2. k < n
        BY <1>3, <3>3, <4>1
      <4>3. n = k + 1 \/ k + 1 < n
        BY <1>1, <4>2
      <4>4. y = x \/ y < x
        BY <1>3, <3>1, <4>1, <4>3
      <4> QED
        BY <1>1, <3>2, <4>1, <4>4
    <3>4. x \in U
      BY <3>1, <3>2
    <3>5. U \subseteq Int
      <4> SUFFICES ASSUME NEW y \in U PROVE y \in Int
        OBVIOUS
      <4>1. y = 0 \/ y \in T
        OBVIOUS
      <4> QED
        BY <4>1
    <3>6. \A y \in U : y <= x
      BY <3>2, <3>3
    <3> HIDE DEF x, U
    <3> QED
      BY <3>4, <3>5, <3>6, GreatestIs DEF x, U
  <2> QED
    BY <2>1, <2>2
<1>7. ASSUME NEW k \in 1..size
      PROVE  (IF {j \in T : j > c[k]} = {} THEN 0 ELSE H!Min({j \in T : j > c[k]})) = SlotAt(c, k - 1)
  <2> DEFINE x == SlotAt(c, k - 1)
             U == {j \in T : j > c[k]}
  <2>1. CASE k = 1
    <3>1. x = 0
      BY <1>1, <2>1 DEF SlotAt
    <3>2. ASSUME NEW y \in T PROVE ~(y > c[k])
      <4>1. PICK n \in 1..size : c[n] = y
        BY <1>2
      <4>2. ~(n < k)
        BY <1>1, <2>1
      <4>3. ~(c[k] < c[n])
        BY <1>3, <4>2
      <4>4. c[k] \in Nat /\ c[n] \in Nat
        BY <1>1
      <4> QED
        BY <4>1, <4>3, <4>4
    <3>3. U = {}
      BY <3>2
    <3> QED
      BY <3>1, <3>3
  <2>2. CASE k # 1
    <3>1. k - 1 \in 1..size /\ x = c[k - 1] /\ k - 1 < k
      BY <1>1, <2>2 DEF SlotAt
    <3>2. c[k] < c[k - 1] /\ c[k - 1] \in T /\ x \in Nat /\ c[k] \in Nat
      BY <1>1, <1>3, <3>1
    <3>3. ASSUME NEW y \in T, y > c[k] PROVE x <= y
      <4>1. PICK n \in 1..size : c[n] = y
        BY <1>2
      <4>2. c[k] < c[n]
        BY <1>1, <3>2, <3>3, <4>1
      <4>3. n < k
        BY <1>3, <4>2
      <4>4. n = k - 1 \/ n < k - 1
        BY <1>1, <4>3
      <4>5. y = x \/ x < y
        BY <1>3, <3>1, <4>1, <4>4
      <4> QED
        BY <1>1, <3>2, <4>1, <4>5
    <3>4. x \in U
      BY <3>1, <3>2
    <3>5. U \subseteq Int
      <4> SUFFICES ASSUME NEW y \in U PROVE y \in Int
        OBVIOUS
      <4>1. y = 0 \/ y \in T
        OBVIOUS
      <4> QED
        BY <4>1
    <3>6. \A y \in U : x <= y
      BY <3>2, <3>3
    <3>7. U # {}
      BY <3>4
    <3> HIDE DEF x, U
    <3>8. H!Min(U) = x
      BY <3>4, <3>5, <3>6, LeastIs
    <3> QED
      BY <3>7, <3>8 DEF x, U
  <2> QED
    BY <2>1, <2>2
<1> QED
  BY <1>4, <1>5, <1>6, <1>7 DEF IsDescent

-----------------------------------------------------------------------------
(* What a set looks like between two operations.                           *)

Fields == {"capacity", "next", "count", "node", "bucket", "pointer"}
IsRecord(s) == s = [f \in Fields |-> s[f]]

(* The nodes and the counters.                                             *)
NodesOK(s) ==
  /\ IsRecord(s)
  /\ s.capacity \in Nat /\ (s.capacity = 0 \/ s.capacity >= MinCapacity)
  /\ s.next \in 1..(IF s.capacity = 0 THEN 1 ELSE s.capacity)
  /\ s.node \in [1..(s.capacity - 1) -> NodeRecords \cup {NoNode}]
  /\ \A i \in H!ActiveSlots(s) : i < s.next
  /\ s.count = Cardinality(H!ActiveSlots(s))
  /\ \A i, j \in H!ActiveSlots(s) : s.node[i].data.key = s.node[j].data.key => i = j
  /\ \A i \in H!ActiveSlots(s) : s.node[i].temp = HashOf[s.node[i].data.key]

(* The table of the buckets.                                               *)
TableOK(s) ==
  /\ \E n \in Nat : s.bucket \in [0..(n - 1) -> Nat]
  /\ s.count # 0 => H!Cells(s) # {}
  /\ s.capacity # 0 => s.pointer = "own"

(* The chains.                                                             *)
Members(s, b) == {i \in H!ActiveSlots(s) : H!CellOf(s, s.node[i].temp) = b}

ChainsOK(s) ==
  \A b \in H!Cells(s) : \E c : IsLinked(s.node, s.bucket[b], c) /\ Range(c) = Members(s, b)

Good(s) == NodesOK(s) /\ TableOK(s) /\ ChainsOK(s)

(* What it holds.                                                          *)
DataOf(s) == {s.node[i].data : i \in H!ActiveSlots(s)}

LEMMA MinCapacityIs == ASSUME H!HashAssumption PROVE MinCapacity \in Nat /\ MinCapacity >= 3
BY DEF H!HashAssumption

(* The active slots.                                                       *)
LEMMA ActiveAre ==
  ASSUME H!HashAssumption, NEW s, NodesOK(s)
  PROVE  /\ H!Slots(s) = 1..(s.capacity - 1) /\ DOMAIN s.node = 1..(s.capacity - 1)
         /\ \A i : i \in H!ActiveSlots(s) <=> i \in 1..(s.capacity - 1) /\ s.node[i] # NoNode
         /\ \A i : H!Active(s, i) <=> i \in H!ActiveSlots(s)
         /\ H!ActiveSlots(s) \subseteq 1..(s.next - 1)
         /\ IsFiniteSet(H!ActiveSlots(s))
         /\ s.count \in Nat /\ s.next \in Nat \ {0} /\ s.count <= s.next - 1
         /\ \A i \in H!ActiveSlots(s) :
              /\ s.node[i] \in NodeRecords /\ s.node[i].data \in H!Entries
              /\ s.node[i].data.key \in Keys /\ s.node[i].temp \in Nat
              /\ s.node[i].temp = HashOf[s.node[i].data.key]
         /\ (s.next <= s.capacity \/ (s.capacity = 0 /\ s.next = 1))
<1>1. /\ s.capacity \in Nat
      /\ s.next \in 1..(IF s.capacity = 0 THEN 1 ELSE s.capacity)
      /\ s.node \in [1..(s.capacity - 1) -> NodeRecords \cup {NoNode}]
      /\ \A i \in H!ActiveSlots(s) : i < s.next
      /\ s.count = Cardinality(H!ActiveSlots(s))
      /\ \A i \in H!ActiveSlots(s) : s.node[i].temp = HashOf[s.node[i].data.key]
  BY DEF NodesOK
<1>2. H!Slots(s) = 1..(s.capacity - 1) /\ DOMAIN s.node = 1..(s.capacity - 1)
  BY <1>1 DEF H!Slots
<1>3. \A i : i \in H!ActiveSlots(s) <=> i \in 1..(s.capacity - 1) /\ s.node[i] # NoNode
  BY <1>2 DEF H!ActiveSlots
<1>4. \A i : H!Active(s, i) <=> i \in H!ActiveSlots(s)
  BY <1>2, <1>3 DEF H!Active
<1>5. s.next \in Nat \ {0} /\ (s.next <= s.capacity \/ (s.capacity = 0 /\ s.next = 1))
  <2>1. s.capacity \in Nat /\ s.next \in 1..(IF s.capacity = 0 THEN 1 ELSE s.capacity)
    BY <1>1
  <2>2. CASE s.capacity = 0
    BY <2>1, <2>2
  <2>3. CASE s.capacity # 0
    BY <2>1, <2>3
  <2> QED
    BY <2>2, <2>3
<1>6. H!ActiveSlots(s) \subseteq 1..(s.next - 1)
  <2> SUFFICES ASSUME NEW i \in H!ActiveSlots(s) PROVE i \in 1..(s.next - 1)
    OBVIOUS
  <2>1. i \in 1..(s.capacity - 1) /\ i < s.next
    BY <1>1, <1>3
  <2> QED
    BY <1>1, <1>5, <2>1
<1>7. IsFiniteSet(H!ActiveSlots(s)) /\ s.count \in Nat /\ s.count <= s.next - 1
  <2>1. s.next - 1 \in Nat
    BY <1>5
  <2>2. IsFiniteSet(1..(s.next - 1)) /\ Cardinality(1..(s.next - 1)) = s.next - 1
    BY <2>1, CountTo
  <2>3. /\ IsFiniteSet(H!ActiveSlots(s))
        /\ Cardinality(H!ActiveSlots(s)) <= Cardinality(1..(s.next - 1))
    BY <1>6, <2>2, FS_Subset
  <2> QED
    BY <1>1, <2>2, <2>3, FS_CardinalityType
<1>8. ASSUME NEW i \in H!ActiveSlots(s)
      PROVE  /\ s.node[i] \in NodeRecords /\ s.node[i].data \in H!Entries
             /\ s.node[i].data.key \in Keys /\ s.node[i].temp \in Nat
             /\ s.node[i].temp = HashOf[s.node[i].data.key]
  <2>1. s.node[i] \in NodeRecords
    BY <1>1, <1>3
  <2> QED
    BY <1>1, <2>1 DEF NodeRecords, H!Entries
<1> QED
  BY <1>2, <1>3, <1>4, <1>5, <1>6, <1>7, <1>8

(* The bucket of a hash, which depends on nothing but how many there are.  *)
LEMMA CellsAre ==
  ASSUME NEW s, TableOK(s), H!Cells(s) # {}, NEW h \in Nat
  PROVE  H!CellOf(s, h) \in H!Cells(s) /\ s.bucket[H!CellOf(s, h)] \in Nat
<1>1. PICK n \in Nat : s.bucket \in [0..(n - 1) -> Nat]
  BY DEF TableOK
<1>2. H!Cells(s) = 0..(n - 1)
  BY <1>1 DEF H!Cells
<1>3. H!CellOf(s, h) = h % n
  BY <1>2, HCardinality, CountCells DEF H!CellOf
<1>4. n # 0
  BY <1>2
<1>5. h % n \in 0..(n - 1)
  BY <1>4
<1> QED
  BY <1>1, <1>2, <1>3, <1>5

LEMMA SameCells ==
  ASSUME NEW s, NEW t, H!Cells(t) = H!Cells(s)
  PROVE  \A h : H!CellOf(t, h) = H!CellOf(s, h)
BY DEF H!CellOf

-----------------------------------------------------------------------------
(* bucketize.                                                              *)

Lower(s, i) == {j \in Members(s, H!CellOf(s, s.node[i].temp)) : j < i}
Higher(s, i) == {j \in Members(s, H!CellOf(s, s.node[i].temp)) : j > i}

IsBucketized(s, t) ==
  /\ IsRecord(t) /\ t.capacity = s.capacity /\ t.next = s.next /\ t.count = s.count
  /\ t.pointer = s.pointer
  /\ t.bucket = [b \in H!Cells(s) |-> H!Max(Members(s, b) \cup {0})]
  /\ t.node = [i \in H!Slots(s) |->
                 IF s.node[i] = NoNode THEN NoNode
                 ELSE [s.node[i] EXCEPT
                         !.temp = s.node[i].temp,
                         !.next = H!Max(Lower(s, i) \cup {0}),
                         !.prev = IF Higher(s, i) = {} THEN 0 ELSE H!Min(Higher(s, i))]]

(* Its result, whether or not the hash is computed again.                  *)
LEMMA BucketizeFields ==
  ASSUME H!HashAssumption, NEW s, NodesOK(s), NEW r \in BOOLEAN
  PROVE  IsBucketized(s, H!Bucketize(s, r))
<1> DEFINE t == H!Bucketize(s, r)
           A == H!ActiveSlots(s)
           hash == [i \in A |-> IF r THEN HashOf[s.node[i].data.key] ELSE s.node[i].temp]
           cell == [i \in A |-> H!CellOf(s, hash[i])]
           With(b) == {i \in A : cell[i] = b}
           Below(i) == {j \in With(cell[i]) : j < i}
           Above(i) == {j \in With(cell[i]) : j > i}
           bucket == [b \in H!Cells(s) |-> H!Max(With(b) \cup {0})]
           node == [i \in H!Slots(s) |->
                      IF s.node[i] = NoNode THEN NoNode
                      ELSE [s.node[i] EXCEPT
                              !.temp = hash[i],
                              !.next = H!Max(Below(i) \cup {0}),
                              !.prev = IF Above(i) = {} THEN 0 ELSE H!Min(Above(i))]]
<1>1. t = [s EXCEPT !.bucket = bucket, !.node = node]
  BY DEF H!Bucketize
<1> HIDE DEF t
<1>2. \A i \in A : hash[i] = s.node[i].temp
  BY ActiveAre
<1>3. \A i \in A : cell[i] = H!CellOf(s, s.node[i].temp)
  BY <1>2
<1> HIDE DEF hash, cell
<1>4. \A b : With(b) = Members(s, b)
  BY <1>3 DEF Members
<1>5. \A i \in A : Below(i) = Lower(s, i) /\ Above(i) = Higher(s, i)
  BY <1>3, <1>4 DEF Lower, Higher
<1>6. bucket = [b \in H!Cells(s) |-> H!Max(Members(s, b) \cup {0})]
  BY <1>4
<1> HIDE DEF With
<1>7. ASSUME NEW i \in H!Slots(s), s.node[i] # NoNode PROVE i \in A
  BY <1>7 DEF H!ActiveSlots
<1>8. node = [i \in H!Slots(s) |->
                IF s.node[i] = NoNode THEN NoNode
                ELSE [s.node[i] EXCEPT
                        !.temp = s.node[i].temp,
                        !.next = H!Max(Lower(s, i) \cup {0}),
                        !.prev = IF Higher(s, i) = {} THEN 0 ELSE H!Min(Higher(s, i))]]
  <2>1. ASSUME NEW i \in H!Slots(s), s.node[i] # NoNode
        PROVE hash[i] = s.node[i].temp /\ Below(i) = Lower(s, i) /\ Above(i) = Higher(s, i)
    BY <1>2, <1>5, <1>7, <2>1
  <2> HIDE DEF Below, Above
  <2> QED
    BY <2>1, Zenon
<1> HIDE DEF bucket, node
<1>9. /\ IsRecord(t) /\ t.capacity = s.capacity /\ t.next = s.next /\ t.count = s.count
      /\ t.pointer = s.pointer /\ t.bucket = bucket /\ t.node = node
  <2>1. IsRecord(s)
    BY DEF NodesOK
  <2> QED
    BY <1>1, <2>1 DEF IsRecord, Fields
<1> QED
  BY <1>6, <1>8, <1>9, Zenon DEF IsBucketized, t

LEMMA NoNodeIsNone == ASSUME H!HashAssumption PROVE NoNode \notin NodeRecords
BY DEF H!HashAssumption, NodeRecords

(* Another set with the same active slots, the same data and hashes.       *)
SameNodes(s, t) ==
  /\ IsRecord(t) /\ t.capacity = s.capacity /\ t.next = s.next /\ t.count = s.count
  /\ t.node \in [1..(s.capacity - 1) -> NodeRecords \cup {NoNode}]
  /\ \A i \in 1..(s.capacity - 1) : t.node[i] = NoNode <=> s.node[i] = NoNode
  /\ \A i \in H!ActiveSlots(s) : t.node[i].data = s.node[i].data /\ t.node[i].temp = s.node[i].temp

LEMMA SameNodesOK ==
  ASSUME H!HashAssumption, NEW s, NodesOK(s), NEW t, SameNodes(s, t)
  PROVE  NodesOK(t) /\ DataOf(t) = DataOf(s) /\ H!ActiveSlots(t) = H!ActiveSlots(s)
<1> DEFINE A == H!ActiveSlots(s)
<1>1. H!Slots(t) = 1..(s.capacity - 1) /\ H!Slots(s) = 1..(s.capacity - 1)
  BY DEF H!Slots, SameNodes
<1>2. H!ActiveSlots(t) = A
  <2>1. \A i \in 1..(s.capacity - 1) : t.node[i] = NoNode <=> s.node[i] = NoNode
    BY DEF SameNodes
  <2> QED
    BY <1>1, <2>1 DEF H!ActiveSlots
<1>3. \A i \in A : t.node[i].data = s.node[i].data /\ t.node[i].temp = s.node[i].temp
  BY DEF SameNodes
<1>4. DataOf(t) = DataOf(s)
  BY <1>2, <1>3 DEF DataOf
<1>5. /\ \A i \in A : i < t.next
      /\ t.count = Cardinality(A)
      /\ \A i, j \in A : t.node[i].data.key = t.node[j].data.key => i = j
      /\ \A i \in A : t.node[i].temp = HashOf[t.node[i].data.key]
  BY <1>3 DEF NodesOK, SameNodes
<1>6. /\ IsRecord(t)
      /\ t.capacity \in Nat /\ (t.capacity = 0 \/ t.capacity >= MinCapacity)
      /\ t.next \in 1..(IF t.capacity = 0 THEN 1 ELSE t.capacity)
      /\ t.node \in [1..(t.capacity - 1) -> NodeRecords \cup {NoNode}]
  BY DEF NodesOK, SameNodes
<1>7. NodesOK(t)
  BY <1>2, <1>5, <1>6 DEF NodesOK
<1> QED
  BY <1>2, <1>4, <1>7

(* The nodes stay where they are, and all of them are in the right chains. *)
LEMMA BucketizeGood ==
  ASSUME H!HashAssumption, NEW s, NodesOK(s), TableOK(s), NEW r \in BOOLEAN,
         NEW t, t = H!Bucketize(s, r)
  PROVE  Good(t) /\ SameNodes(s, t) /\ H!Cells(t) = H!Cells(s)
<1> DEFINE A == H!ActiveSlots(s)
           N == 1..(s.capacity - 1)
<1>1. /\ H!Slots(s) = N /\ A \subseteq 1..(s.next - 1) /\ A \subseteq N
      /\ \A i : i \in A <=> i \in N /\ s.node[i] # NoNode
      /\ \A i \in A : s.node[i] \in NodeRecords /\ s.node[i].temp \in Nat
      /\ s.count \in Nat /\ s.next - 1 \in Nat
  BY ActiveAre
<1>2. /\ IsRecord(t) /\ t.capacity = s.capacity /\ t.next = s.next /\ t.count = s.count
      /\ t.pointer = s.pointer
      /\ t.bucket = [b \in H!Cells(s) |-> H!Max(Members(s, b) \cup {0})]
      /\ t.node = [i \in H!Slots(s) |->
                     IF s.node[i] = NoNode THEN NoNode
                     ELSE [s.node[i] EXCEPT
                             !.temp = s.node[i].temp,
                             !.next = H!Max(Lower(s, i) \cup {0}),
                             !.prev = IF Higher(s, i) = {} THEN 0 ELSE H!Min(Higher(s, i))]]
  BY BucketizeFields, Zenon DEF IsBucketized
<1>3. \A b : Members(s, b) \subseteq A
  BY DEF Members
<1>4. ASSUME NEW T, T \subseteq A PROVE H!Max(T \cup {0}) \in Nat
  <2>1. PICK U : U = T \cup {0}
    OBVIOUS
  <2>2. U \subseteq 0..(s.next - 1) /\ U # {}
    BY <1>1, <1>4, <2>1
  <2>3. H!Max(U) \in U
    BY <1>1, <2>2, GreatestOf
  <2>4. U \subseteq Nat
    BY <1>1, <2>2
  <2>5. H!Max(U) \in Nat
    BY <2>3, <2>4
  <2> QED
    BY <2>1, <2>5
<1>5. ASSUME NEW T, T \subseteq A, T # {} PROVE H!Min(T) \in Nat
  <2>1. T \subseteq Nat
    BY <1>1, <1>5
  <2>2. H!Min(T) \in T
    BY <1>5, <2>1, LeastOf
  <2> QED
    BY <2>1, <2>2
<1>6. ASSUME NEW i \in A
      PROVE  /\ t.node[i] \in NodeRecords /\ t.node[i] # NoNode
             /\ t.node[i].data = s.node[i].data /\ t.node[i].temp = s.node[i].temp
             /\ t.node[i].next = H!Max(Lower(s, i) \cup {0})
             /\ t.node[i].prev = IF Higher(s, i) = {} THEN 0 ELSE H!Min(Higher(s, i))
  <2>1. Lower(s, i) \subseteq A /\ Higher(s, i) \subseteq A
    BY <1>3 DEF Lower, Higher
  <2>2. PICK n, p : n = H!Max(Lower(s, i) \cup {0}) /\ p = IF Higher(s, i) = {} THEN 0 ELSE H!Min(Higher(s, i))
    OBVIOUS
  <2>3. n \in Nat /\ p \in Nat
    BY <1>4, <1>5, <2>1, <2>2
  <2>4. t.node[i] = [s.node[i] EXCEPT !.temp = s.node[i].temp, !.next = n, !.prev = p]
    <3>1. i \in H!Slots(s) /\ s.node[i] # NoNode
      BY <1>1
    <3>2. t.node[i] = [s.node[i] EXCEPT
                         !.temp = s.node[i].temp,
                         !.next = H!Max(Lower(s, i) \cup {0}),
                         !.prev = IF Higher(s, i) = {} THEN 0 ELSE H!Min(Higher(s, i))]
      BY ONLY <1>2, <3>1, Zenon
    <3> QED
      BY ONLY <2>2, <3>2
  <2>5. s.node[i] \in NodeRecords
    BY <1>1
  <2>6. t.node[i] \in NodeRecords /\ t.node[i].data = s.node[i].data /\ t.node[i].temp = s.node[i].temp
        /\ t.node[i].next = n /\ t.node[i].prev = p
    BY <2>3, <2>4, <2>5 DEF NodeRecords
  <2> QED
    BY <2>2, <2>6, NoNodeIsNone
<1>7. \A i \in N \ A : t.node[i] = NoNode
  BY <1>1, <1>2, Zenon
<1>8. SameNodes(s, t)
  <2>1. DOMAIN t.node = N /\ t.node = [i \in N |-> t.node[i]]
    BY <1>1, <1>2, Zenon
  <2>2. \A i \in N : t.node[i] \in NodeRecords \cup {NoNode}
    BY <1>6, <1>7
  <2>3. t.node \in [N -> NodeRecords \cup {NoNode}]
    BY <2>1, <2>2
  <2>4. \A i \in N : t.node[i] = NoNode <=> s.node[i] = NoNode
    BY <1>1, <1>6, <1>7
  <2> QED
    BY <1>2, <1>6, <2>3, <2>4, Zenon DEF SameNodes
<1>9. NodesOK(t) /\ H!ActiveSlots(t) = A
  BY <1>8, SameNodesOK
<1>10. H!Cells(t) = H!Cells(s)
  BY <1>2, Zenon DEF H!Cells
<1>11. TableOK(t)
  <2>1. PICK n \in Nat : s.bucket \in [0..(n - 1) -> Nat]
    BY DEF TableOK
  <2>2. H!Cells(s) = 0..(n - 1)
    BY <2>1 DEF H!Cells
  <2>3. \A b \in 0..(n - 1) : H!Max(Members(s, b) \cup {0}) \in Nat
    BY <1>3, <1>4
  <2>4. t.bucket \in [0..(n - 1) -> Nat]
    BY <1>2, <2>2, <2>3, Zenon
  <2> QED
    BY <1>2, <1>10, <2>4, Zenon DEF TableOK
<1>12. ASSUME NEW b \in H!Cells(t)
       PROVE  \E c : IsLinked(t.node, t.bucket[b], c) /\ Range(c) = Members(t, b)
  <2> DEFINE T == Members(s, b)
  <2>1. \A h : H!CellOf(t, h) = H!CellOf(s, h)
    BY <1>10, SameCells
  <2>2. Members(t, b) = T
    <3>1. \A i \in A : H!CellOf(t, t.node[i].temp) = H!CellOf(s, s.node[i].temp)
      BY <1>6, <2>1
    <3> QED
      BY <1>9, <3>1 DEF Members
  <2>3. T \subseteq 1..(s.next - 1) /\ T \subseteq A
    BY <1>1, <1>3
  <2> HIDE DEF T
  <2>4. PICK c \in Seq(T) : Range(c) = T /\ Descends(c)
    BY <1>1, <2>3, DescendingList
  <2>5. T \subseteq Nat \ {0}
    BY <1>1, <2>3
  <2>6. IsInjective(c) /\ IsDescent(T, c)
    BY <2>4, <2>5, DescendingNeighbours
  <2>7. c \in Seq(DOMAIN t.node)
    <3>1. DOMAIN t.node = N
      BY <1>1, <1>2, Zenon
    <3>2. T \subseteq DOMAIN t.node
      BY <1>1, <2>3, <3>1
    <3> QED
      BY <2>4, <3>2, SeqMonotonic
  <2>8. t.bucket[b] = SlotAt(c, 1)
    BY <1>2, <1>10, <2>6, Zenon DEF T, IsDescent
  <2>9. ASSUME NEW k \in 1..Len(c)
        PROVE  /\ t.node[c[k]] # NoNode
               /\ t.node[c[k]].next = SlotAt(c, k + 1)
               /\ t.node[c[k]].prev = SlotAt(c, k - 1)
    <3>1. c[k] \in T
      BY <2>4, ElementOfSeq
    <3>2. PICK i : i = c[k]
      OBVIOUS
    <3>3. i \in A /\ i \in T
      BY <2>3, <3>1, <3>2
    <3>4. H!CellOf(s, s.node[i].temp) = b
      BY <3>3 DEF T, Members
    <3>5. Lower(s, i) = {j \in T : j < i} /\ Higher(s, i) = {j \in T : j > i}
      BY <3>4 DEF Lower, Higher, T
    <3>6. /\ t.node[i] # NoNode
          /\ t.node[i].next = H!Max(Lower(s, i) \cup {0})
          /\ t.node[i].prev = IF Higher(s, i) = {} THEN 0 ELSE H!Min(Higher(s, i))
      BY <1>6, <3>3
    <3>7. /\ H!Max({j \in T : j < i} \cup {0}) = SlotAt(c, k + 1)
          /\ (IF {j \in T : j > i} = {} THEN 0 ELSE H!Min({j \in T : j > i})) = SlotAt(c, k - 1)
      BY <2>6, <3>2 DEF IsDescent
    <3> QED
      BY ONLY <3>2, <3>5, <3>6, <3>7
  <2>10. IsLinked(t.node, t.bucket[b], c)
    BY <2>6, <2>7, <2>8, <2>9 DEF IsLinked
  <2> QED
    BY <2>2, <2>4, <2>10
<1>13. ChainsOK(t)
  BY <1>12 DEF ChainsOK
<1> QED
  BY <1>8, <1>9, <1>10, <1>11, <1>13 DEF Good

-----------------------------------------------------------------------------
(* The walk along a chain.                                                 *)

(* What is in the slots of a chain.                                        *)
LEMMA ChainSlots ==
  ASSUME H!HashAssumption, NEW s, NodesOK(s), NEW first, NEW c, IsLinked(s.node, first, c)
  PROVE  /\ c \in Seq(H!Slots(s)) /\ Len(c) \in Nat /\ Len(c) <= s.capacity
         /\ \A n \in Nat \ {0} : H!Active(s, SlotAt(c, n)) <=> n \in 1..Len(c)
         /\ Range(c) \subseteq H!ActiveSlots(s)
<1>1. /\ H!Slots(s) = 1..(s.capacity - 1) /\ DOMAIN s.node = 1..(s.capacity - 1)
      /\ \A i : i \in H!ActiveSlots(s) <=> i \in 1..(s.capacity - 1) /\ s.node[i] # NoNode
      /\ \A i : H!Active(s, i) <=> i \in H!ActiveSlots(s)
  BY ActiveAre
<1>2. /\ c \in Seq(DOMAIN s.node) /\ IsInjective(c)
      /\ \A n \in 1..Len(c) : s.node[c[n]] # NoNode
  BY DEF IsLinked
<1>3. /\ Len(c) \in Nat /\ \A n \in 1..Len(c) : c[n] \in DOMAIN s.node
      /\ \A j \in Range(c) : \E n \in 1..Len(c) : c[n] = j
  BY LinkedSlots
<1>4. Len(c) <= s.capacity
  <2>1. s.capacity \in Nat
    BY DEF NodesOK
  <2>2. IsFiniteSet(DOMAIN s.node) /\ Cardinality(DOMAIN s.node) <= s.capacity
    <3>1. CASE s.capacity = 0
      <4>1. DOMAIN s.node = {}
        BY <1>1, <3>1
      <4> QED
        BY <2>1, <4>1, FS_EmptySet
    <3>2. CASE s.capacity # 0
      <4>1. s.capacity - 1 \in Nat /\ s.capacity - 1 <= s.capacity
        BY <2>1, <3>2
      <4>2. IsFiniteSet(1..(s.capacity - 1)) /\ Cardinality(1..(s.capacity - 1)) = s.capacity - 1
        BY <4>1, CountTo
      <4> QED
        BY <1>1, <4>1, <4>2
    <3> QED
      BY <3>1, <3>2
  <2>3. c \in [1..Len(c) -> DOMAIN s.node]
    BY <1>2, ElementOfSeq, LenProperties
  <2>4. c \in Injection(1..Len(c), DOMAIN s.node)
    <3>1. \A m, n \in 1..Len(c) : c[m] = c[n] => m = n
      BY LinkedSlots
    <3> QED
      BY <2>3, <3>1 DEF Injection, IsInjective
  <2>5. IsFiniteSet(1..Len(c)) /\ Cardinality(1..Len(c)) = Len(c)
    BY <1>3, CountTo
  <2>6. Cardinality(1..Len(c)) <= Cardinality(DOMAIN s.node)
    BY <2>2, <2>4, FS_Injection
  <2>7. Cardinality(DOMAIN s.node) \in Nat
    BY <2>2, FS_CardinalityType
  <2> QED
    BY <1>3, <2>1, <2>2, <2>5, <2>6, <2>7
<1>5. ASSUME NEW n \in Nat \ {0} PROVE H!Active(s, SlotAt(c, n)) <=> n \in 1..Len(c)
  <2>1. CASE n \in 1..Len(c)
    <3>1. SlotAt(c, n) = c[n] /\ c[n] \in 1..(s.capacity - 1) /\ s.node[c[n]] # NoNode
      BY <1>1, <1>2, <1>3, <2>1 DEF SlotAt
    <3> QED
      BY <1>1, <2>1, <3>1
  <2>2. CASE n \notin 1..Len(c)
    <3>1. SlotAt(c, n) = 0 /\ 0 \notin 1..(s.capacity - 1)
      BY <2>2 DEF SlotAt
    <3> QED
      BY <1>1, <2>2, <3>1
  <2> QED
    BY <2>1, <2>2
<1>6. Range(c) \subseteq H!ActiveSlots(s)
  BY <1>1, <1>2, <1>3
<1> QED
  BY <1>1, <1>2, <1>3, <1>4, <1>5, <1>6

Follow(s, b, sofar) ==
  LET i == IF sofar = <<>> THEN s.bucket[b] ELSE s.node[H!Last(sofar)].next
  IN IF H!Active(s, i) THEN Append(sofar, i) ELSE sofar

LEMMA FollowIsNext ==
  ASSUME H!HashAssumption, NEW s, NodesOK(s), NEW b, NEW c, IsLinked(s.node, s.bucket[b], c),
         NEW n \in Nat
  PROVE  Follow(s, b, First(c, n)) = First(c, n + 1)
<1> DEFINE sofar == First(c, n)
           more == First(c, n + 1)
           S == H!Slots(s)
<1>1. /\ c \in Seq(S) /\ Len(c) \in Nat
      /\ \A k \in Nat \ {0} : H!Active(s, SlotAt(c, k)) <=> k \in 1..Len(c)
      /\ s.bucket[b] = SlotAt(c, 1)
      /\ \A k \in 1..Len(c) : s.node[c[k]].next = SlotAt(c, k + 1)
  BY ChainSlots DEF IsLinked
<1> DEFINE i == IF sofar = <<>> THEN s.bucket[b] ELSE s.node[H!Last(sofar)].next
<1>2. Follow(s, b, sofar) = IF H!Active(s, i) THEN Append(sofar, i) ELSE sofar
  BY DEF Follow
<1>3. CASE n >= Len(c)
  <2>1. First(c, n) = c /\ First(c, n + 1) = c
    <3>1. SubSeq(c, 1, Len(c)) = c
      BY <1>1, SubSeqProperties, SeqEqual
    <3>2. (n = Len(c) \/ ~(n <= Len(c))) /\ ~(n + 1 <= Len(c))
      BY <1>1, <1>3
    <3> QED
      BY <3>1, <3>2, Zenon DEF First
  <2>2. i = SlotAt(c, Len(c) + 1)
    <3>1. CASE c = <<>>
      <4>1. Len(c) = 0
        BY <3>1
      <4> QED
        BY <1>1, <2>1, <3>1, <4>1
    <3>2. CASE c # <<>>
      <4>1. Len(c) # 0 /\ Len(c) \in 1..Len(c)
        BY <1>1, <3>2, EmptySeq
      <4>2. H!Last(c) = c[Len(c)]
        BY DEF H!Last
      <4> QED
        BY <1>1, <2>1, <3>2, <4>1, <4>2
    <3> QED
      BY <3>1, <3>2
  <2>3. Len(c) + 1 \in Nat \ {0} /\ Len(c) + 1 \notin 1..Len(c)
    BY <1>1
  <2>4. ~H!Active(s, i)
    BY <1>1, <2>2, <2>3
  <2> QED
    BY <1>2, <2>1, <2>4
<1>4. CASE n < Len(c)
  <2>1. /\ sofar \in Seq(S) /\ Len(sofar) = n /\ \A k \in 1..n : sofar[k] = c[k]
        /\ more \in Seq(S) /\ Len(more) = n + 1 /\ \A k \in 1..(n + 1) : more[k] = c[k]
    BY <1>1, <1>4, SubSeqProperties DEF First
  <2> HIDE DEF sofar, more, S
  <2>2. SlotAt(c, n + 1) = c[n + 1] /\ n + 1 \in 1..Len(c) /\ c[n + 1] \in S
    <3>1. n + 1 \in 1..Len(c)
      BY <1>1, <1>4
    <3> QED
      BY <1>1, <3>1, ElementOfSeq DEF SlotAt
  <2>3. i = c[n + 1]
    <3>1. CASE n = 0
      <4>1. sofar = <<>>
        BY <2>1, <3>1, EmptySeq
      <4> QED
        BY <1>1, <2>2, <3>1, <4>1
    <3>2. CASE n # 0
      <4>1. sofar # <<>> /\ H!Last(sofar) = c[n]
        BY <2>1, <3>2 DEF H!Last
      <4>2. n \in 1..Len(c)
        BY <1>1, <1>4, <3>2
      <4>3. s.node[c[n]].next = SlotAt(c, n + 1)
        BY <1>1, <4>2
      <4> QED
        BY <2>2, <4>1, <4>3
    <3> QED
      BY <3>1, <3>2
  <2>4. H!Active(s, i)
    <3>1. n + 1 \in Nat \ {0}
      OBVIOUS
    <3> QED
      BY <1>1, <2>2, <2>3, <3>1
  <2> HIDE DEF i
  <2>5. /\ Append(sofar, i) \in Seq(S) /\ Len(Append(sofar, i)) = n + 1
        /\ \A k \in 1..n : Append(sofar, i)[k] = sofar[k]
        /\ Append(sofar, i)[n + 1] = i
    BY <2>1, <2>2, <2>3, AppendProperties
  <2>6. \A k \in 1..(n + 1) : Append(sofar, i)[k] = more[k]
    BY <2>1, <2>3, <2>5
  <2>7. Append(sofar, i) = more
    BY <2>1, <2>5, <2>6, SeqEqual
  <2> QED
    BY <1>2, <2>4, <2>7 DEF sofar, more
<1> QED
  BY <1>1, <1>3, <1>4

(* Chain finds the chain that the links make.                              *)
LEMMA ChainIs ==
  ASSUME H!HashAssumption, NEW s, NodesOK(s), NEW b, NEW c, IsLinked(s.node, s.bucket[b], c)
  PROVE  H!Chain(s, b) = c
<1> DEFINE C == s.capacity
           follow[n \in 0..C] == IF n = 0 THEN <<>> ELSE Follow(s, b, follow[n - 1])
           S == {n \in Nat : n <= C => follow[n] = First(c, n)}
<1>1. C \in Nat /\ c \in Seq(H!Slots(s)) /\ Len(c) \in Nat /\ Len(c) <= C
  BY ChainSlots DEF NodesOK
<1>2. First(c, 0) = <<>>
  BY <1>1 DEF First
<1>3. \E w : w = [n \in 0..C |-> IF n = 0 THEN <<>> ELSE Follow(s, b, w[n - 1])]
  <2> DEFINE w == [n \in 0..C |-> First(c, n)]
  <2>1. ASSUME NEW n \in 0..C, n # 0 PROVE First(c, n) = Follow(s, b, w[n - 1])
    <3>1. PICK m \in Nat : n = m + 1
      <4>1. n - 1 \in Nat /\ n = (n - 1) + 1
        BY <1>1, <2>1
      <4> QED
        BY <4>1
    <3>2. w[n - 1] = First(c, m)
      BY <1>1, <3>1
    <3> HIDE DEF w
    <3> QED
      BY <3>1, <3>2, FollowIsNext
  <2>2. \A n \in 0..C : First(c, n) = IF n = 0 THEN <<>> ELSE Follow(s, b, w[n - 1])
    BY <1>2, <2>1
  <2>3. w = [n \in 0..C |-> IF n = 0 THEN <<>> ELSE Follow(s, b, w[n - 1])]
    BY <2>2
  <2> HIDE DEF w
  <2> QED
    BY <2>3
<1>4. follow = [n \in 0..C |-> IF n = 0 THEN <<>> ELSE Follow(s, b, follow[n - 1])]
  BY <1>3
<1>5. H!Chain(s, b) = follow[C]
  BY DEF H!Chain, Follow
<1> HIDE DEF follow
<1>6. 0 \in S
  <2>1. follow[0] = <<>>
    BY <1>1, <1>4
  <2> QED
    BY <1>2, <2>1
<1>7. ASSUME NEW n \in Nat, n \in S PROVE n + 1 \in S
  <2> SUFFICES ASSUME n + 1 <= C PROVE follow[n + 1] = First(c, n + 1)
    OBVIOUS
  <2>1. follow[n] = First(c, n)
    BY <1>1, <1>7
  <2>2. n + 1 \in 0..C /\ n + 1 # 0 /\ (n + 1) - 1 = n
    BY <1>1
  <2>3. follow[n + 1] = Follow(s, b, follow[n])
    BY <1>4, <2>2
  <2> QED
    BY <2>1, <2>3, FollowIsNext
<1>8. C \in S
  <2> HIDE DEF S
  <2> QED
    BY <1>1, <1>6, <1>7, NumberInduction
<1>9. First(c, C) = c
  <2>1. SubSeq(c, 1, Len(c)) = c
    BY <1>1, SubSeqProperties, SeqEqual
  <2> QED
    BY <1>1, <2>1 DEF First
<1> QED
  BY <1>1, <1>5, <1>8, <1>9

-----------------------------------------------------------------------------
(* find.                                                                   *)

HoldsKey(s, key) == {i \in H!ActiveSlots(s) : s.node[i].data.key = key}

(* The only slot with the key, or next.                                    *)
IsFound(s, key, i) ==
  \/ HoldsKey(s, key) = {i}
  \/ HoldsKey(s, key) = {} /\ i = s.next

LEMMA NextIsFree ==
  ASSUME H!HashAssumption, NEW s, NodesOK(s)
  PROVE  s.next \notin H!ActiveSlots(s)
<1>1. s.next \in Nat /\ H!ActiveSlots(s) \subseteq 1..(s.next - 1)
  BY ActiveAre
<1>2. s.next \notin 1..(s.next - 1)
  BY <1>1
<1> QED
  BY <1>1, <1>2

LEMMA HoldsOne ==
  ASSUME NEW s, NodesOK(s), NEW i \in H!ActiveSlots(s)
  PROVE  HoldsKey(s, s.node[i].data.key) = {i}
BY DEF NodesOK, HoldsKey

LEMMA FindsIn ==
  ASSUME H!HashAssumption, NEW s, Good(s), H!Cells(s) # {}, NEW key \in Keys
  PROVE  IsFound(s, key, H!FindIn(s, H!CellOf(s, HashOf[key]), key))
<1>1. NodesOK(s) /\ TableOK(s) /\ ChainsOK(s)
  BY DEF Good
<1>2. PICK b : b = H!CellOf(s, HashOf[key])
  OBVIOUS
<1>3. b \in H!Cells(s)
  BY <1>1, <1>2, CellsAre DEF H!HashAssumption
<1>4. PICK c : IsLinked(s.node, s.bucket[b], c) /\ Range(c) = Members(s, b)
  BY <1>1, <1>3 DEF ChainsOK
<1>5. H!Chain(s, b) = c
  BY <1>1, <1>4, ChainIs
<1>6. /\ Len(c) \in Nat /\ \A n \in 1..Len(c) : c[n] \in Range(c)
      /\ \A j \in Range(c) : \E n \in 1..Len(c) : c[n] = j
  BY <1>4, LinkedSlots
<1>7. HoldsKey(s, key) \subseteq Members(s, b)
  <2> SUFFICES ASSUME NEW i \in HoldsKey(s, key) PROVE i \in Members(s, b)
    OBVIOUS
  <2>1. i \in H!ActiveSlots(s) /\ s.node[i].data.key = key
    BY DEF HoldsKey
  <2>2. s.node[i].temp = HashOf[key]
    BY <1>1, <2>1, ActiveAre
  <2> QED
    BY <1>2, <2>1, <2>2 DEF Members
<1> DEFINE hits == {n \in 1..Len(c) : s.node[c[n]].data.key = key}
<1>8. H!FindIn(s, b, key) = IF hits = {} THEN s.next ELSE c[H!Min(hits)]
  BY <1>5 DEF H!FindIn
<1>9. CASE hits = {}
  <2>1. HoldsKey(s, key) = {}
    <3> SUFFICES ASSUME NEW i \in HoldsKey(s, key) PROVE FALSE
      OBVIOUS
    <3>1. PICK n \in 1..Len(c) : c[n] = i
      BY <1>4, <1>6, <1>7
    <3>2. s.node[i].data.key = key
      BY DEF HoldsKey
    <3>3. n \in hits
      BY <3>1, <3>2
    <3> QED
      BY <1>9, <3>3
  <2> QED
    BY <1>2, <1>8, <1>9, <2>1 DEF IsFound
<1>10. CASE hits # {}
  <2>1. PICK n : n = H!Min(hits)
    OBVIOUS
  <2>2. n \in hits
    <3>1. hits \subseteq Nat
      BY <1>6
    <3> HIDE DEF hits
    <3> QED
      BY <1>10, <2>1, <3>1, LeastOf
  <2>3. c[n] \in H!ActiveSlots(s) /\ s.node[c[n]].data.key = key
    <3>1. n \in 1..Len(c) /\ s.node[c[n]].data.key = key
      BY <2>2
    <3>2. c[n] \in Members(s, b)
      BY <1>4, <1>6, <3>1
    <3> QED
      BY <3>1, <3>2 DEF Members
  <2>4. HoldsKey(s, key) = {c[n]}
    BY <1>1, <2>3, HoldsOne
  <2>5. H!FindIn(s, b, key) = c[n]
    BY <1>8, <1>10, <2>1
  <2> QED
    BY <1>2, <2>4, <2>5 DEF IsFound
<1> QED
  BY <1>9, <1>10

(* No node is active if and only if none is counted.                       *)
LEMMA NoneActive ==
  ASSUME H!HashAssumption, NEW s, NodesOK(s)
  PROVE  s.count = 0 <=> H!ActiveSlots(s) = {}
<1>1. IsFiniteSet(H!ActiveSlots(s))
  BY ActiveAre
<1>2. s.count = Cardinality(H!ActiveSlots(s))
  BY DEF NodesOK
<1> QED
  BY <1>1, <1>2, FS_EmptySet

LEMMA FindsIt ==
  ASSUME H!HashAssumption, NEW s, Good(s), NEW key \in Keys
  PROVE  /\ IsFound(s, key, H!Find(s, key))
         /\ H!Has(s, key) <=> HoldsKey(s, key) # {}
         /\ H!Active(s, H!Find(s, key)) <=> HoldsKey(s, key) # {}
<1>1. NodesOK(s) /\ TableOK(s)
  BY DEF Good
<1>2. PICK i : i = H!Find(s, key)
  OBVIOUS
<1>3. HoldsKey(s, key) \subseteq H!ActiveSlots(s) /\ s.next \notin H!ActiveSlots(s)
  BY <1>1, NextIsFree DEF HoldsKey
<1>4. \A j : H!Active(s, j) <=> j \in H!ActiveSlots(s)
  BY <1>1, ActiveAre
<1>5. IsFound(s, key, i)
  <2>1. CASE s.count = 0
    <3>1. HoldsKey(s, key) = {}
      BY <1>1, <1>3, <2>1, NoneActive
    <3> QED
      BY <1>2, <2>1, <3>1 DEF H!Find, IsFound
  <2>2. CASE s.count # 0
    <3>1. H!Cells(s) # {}
      BY <1>1, <2>2 DEF TableOK
    <3>2. i = H!FindIn(s, H!CellOf(s, HashOf[key]), key)
      BY <1>2, <2>2 DEF H!Find
    <3> QED
      BY <3>1, <3>2, FindsIn
  <2> QED
    BY <2>1, <2>2
<1>6. H!Has(s, key) <=> s.count # 0 /\ i # s.next
  BY <1>2 DEF H!Has
<1>7. HoldsKey(s, key) # {} => s.count # 0
  BY <1>1, <1>3, NoneActive
<1>8. /\ i # s.next <=> HoldsKey(s, key) # {}
      /\ H!Active(s, i) <=> HoldsKey(s, key) # {}
  BY <1>3, <1>4, <1>5 DEF IsFound
<1> QED
  BY <1>2, <1>5, <1>6, <1>7, <1>8

-----------------------------------------------------------------------------
(* insert(element, bucket) and extract.                                    *)

(* The heads of the chains.                                                *)
LEMMA HeadOfChain ==
  ASSUME H!HashAssumption, NEW s, NodesOK(s), NEW b, NEW c,
         IsLinked(s.node, s.bucket[b], c), Range(c) = Members(s, b)
  PROVE  s.bucket[b] = 0 \/ s.bucket[b] \in Members(s, b)
<1>1. s.bucket[b] = SlotAt(c, 1)
  BY DEF IsLinked
<1>2. \A n \in 1..Len(c) : c[n] \in Range(c)
  BY LinkedSlots
<1> QED
  BY <1>1, <1>2 DEF SlotAt

(* Slot i gets a node with the data; no other one changes its data.        *)
IsAdded(s, t, i, data) ==
  /\ Good(t) /\ H!ActiveSlots(t) = H!ActiveSlots(s) \cup {i}
  /\ t.node[i].data = data
  /\ \A j \in H!ActiveSlots(s) : t.node[j].data = s.node[j].data
  /\ t.capacity = s.capacity /\ H!Cells(t) = H!Cells(s)
  /\ t.next = IF i = s.next THEN s.next + 1 ELSE s.next
  /\ t.count = s.count + 1
  /\ DataOf(t) = DataOf(s) \cup {data}

LEMMA LinkAdds ==
  ASSUME H!HashAssumption, NEW s, Good(s), H!Cells(s) # {}, NEW i \in H!Slots(s), i <= s.next,
         i \notin H!ActiveSlots(s), NEW data \in H!Entries, HoldsKey(s, data.key) = {},
         NEW t, t = H!Link(s, i, data)
  PROVE  IsAdded(s, t, i, data)
<1> DEFINE A == H!ActiveSlots(s)
           N == 1..(s.capacity - 1)
<1>1. /\ H!Slots(s) = N /\ DOMAIN s.node = N /\ A \subseteq 1..(s.next - 1) /\ A \subseteq N
      /\ \A j : j \in A <=> j \in N /\ s.node[j] # NoNode
      /\ \A j \in A : s.node[j] \in NodeRecords /\ s.node[j].temp \in Nat
      /\ s.count \in Nat /\ s.next \in Nat \ {0} /\ IsFiniteSet(A)
  BY ActiveAre DEF Good
<1>2. PICK hash, b, first : hash = HashOf[data.key] /\ b = H!CellOf(s, hash) /\ first = s.bucket[b]
  OBVIOUS
<1>3. /\ data.key \in Keys /\ hash \in Nat /\ b \in H!Cells(s) /\ first \in Nat
      /\ i \in N /\ i \in Nat \ {0}
  <2>1. data.key \in Keys
    BY DEF H!Entries
  <2>2. hash \in Nat
    BY <1>2, <2>1 DEF H!HashAssumption
  <2>3. b \in H!Cells(s) /\ first \in Nat
    BY <1>2, <2>2, CellsAre DEF Good
  <2> QED
    BY <1>1, <2>1, <2>2, <2>3
<1>4. PICK node : node = [data |-> data, prev |-> 0, next |-> first, temp |-> hash]
  OBVIOUS
<1>5. node \in NodeRecords /\ node # NoNode
  <2>1. node \in NodeRecords
    BY <1>3, <1>4 DEF NodeRecords
  <2> QED
    BY <2>1, NoNodeIsNone
<1> DEFINE node2 == [j \in H!Slots(s) |->
                       CASE j = i -> node
                         [] j = first /\ j # i -> [s.node[j] EXCEPT !.prev = i]
                         [] OTHER -> s.node[j]]
<1>6. t = [s EXCEPT !.node = node2, !.bucket[b] = i, !.count = @ + 1,
                    !.next = IF i = @ THEN @ + 1 ELSE @]
  BY <1>2, <1>4 DEF H!Link
<1>7. /\ DOMAIN node2 = N /\ node2[i] = node
      /\ \A j \in N : j # i => node2[j] = IF j = first THEN [s.node[j] EXCEPT !.prev = i] ELSE s.node[j]
      /\ node2 = [j \in N |-> node2[j]]
  BY <1>1, <1>3
<1> HIDE DEF node2
<1>8. /\ IsRecord(t) /\ t.capacity = s.capacity /\ t.pointer = s.pointer
      /\ t.next = (IF i = s.next THEN s.next + 1 ELSE s.next) /\ t.count = s.count + 1
      /\ t.node = node2 /\ t.bucket = [s.bucket EXCEPT ![b] = i]
  <2>1. IsRecord(s)
    BY DEF Good, NodesOK
  <2> QED
    BY <1>6, <2>1 DEF IsRecord, Fields
<1>9. PICK c : IsLinked(s.node, first, c) /\ Range(c) = Members(s, b)
  BY <1>2, <1>3 DEF Good, ChainsOK
<1>10. /\ first = 0 \/ first \in Members(s, b)
       /\ \A e : Members(s, e) \subseteq A
  <2>1. NodesOK(s) /\ IsLinked(s.node, s.bucket[b], c) /\ Range(c) = Members(s, b)
    BY <1>2, <1>9 DEF Good
  <2>2. s.bucket[b] = 0 \/ s.bucket[b] \in Members(s, b)
    BY <2>1, HeadOfChain
  <2>3. \A e : Members(s, e) \subseteq A
    BY DEF Members
  <2> QED
    BY <1>2, <2>2, <2>3
<1>11. ASSUME NEW j \in A
       PROVE  /\ j # i /\ t.node[j] \in NodeRecords /\ t.node[j] # NoNode
              /\ t.node[j].data = s.node[j].data /\ t.node[j].temp = s.node[j].temp
              /\ t.node[j].next = s.node[j].next
              /\ t.node[j].prev = IF j = first THEN i ELSE s.node[j].prev
  <2>1. j # i /\ j \in N /\ s.node[j] \in NodeRecords
    BY <1>1
  <2>2. t.node[j] = IF j = first THEN [s.node[j] EXCEPT !.prev = i] ELSE s.node[j]
    BY <1>7, <1>8, <2>1
  <2>3. PICK e : e = s.node[j]
    OBVIOUS
  <2>4. /\ t.node[j] \in NodeRecords
        /\ t.node[j].data = e.data /\ t.node[j].temp = e.temp /\ t.node[j].next = e.next
        /\ t.node[j].prev = IF j = first THEN i ELSE e.prev
    BY <1>3, <2>1, <2>2, <2>3 DEF NodeRecords
  <2> QED
    BY <2>1, <2>3, <2>4, NoNodeIsNone
<1>12. \A j \in N \ (A \cup {i}) : t.node[j] = NoNode
  <2> SUFFICES ASSUME NEW j \in N \ (A \cup {i}) PROVE t.node[j] = NoNode
    OBVIOUS
  <2>1. j # first
    BY <1>10
  <2> QED
    BY <1>1, <1>7, <1>8, <2>1
<1>13. /\ t.node[i] \in NodeRecords /\ t.node[i] # NoNode /\ t.node[i].data = data
       /\ t.node[i].temp = hash /\ t.node[i].next = first /\ t.node[i].prev = 0
  BY <1>4, <1>5, <1>7, <1>8
<1>14. H!ActiveSlots(t) = A \cup {i}
  <2>1. H!Slots(t) = N
    BY <1>1, <1>8 DEF H!Slots
  <2>2. \A j \in N : t.node[j] # NoNode <=> j \in A \cup {i}
    BY <1>11, <1>12, <1>13
  <2> QED
    BY <1>1, <1>3, <2>1, <2>2 DEF H!ActiveSlots
<1>15. DataOf(t) = DataOf(s) \cup {data}
  <2>1. \A j \in A : t.node[j].data = s.node[j].data
    BY <1>11
  <2> QED
    BY <1>13, <1>14, <2>1 DEF DataOf
<1>16. NodesOK(t)
  <2>1. /\ s.capacity \in Nat /\ (s.capacity = 0 \/ s.capacity >= MinCapacity)
        /\ s.next \in 1..(IF s.capacity = 0 THEN 1 ELSE s.capacity)
        /\ s.count = Cardinality(A)
        /\ \A j, k \in A : s.node[j].data.key = s.node[k].data.key => j = k
        /\ \A j \in A : s.node[j].temp = HashOf[s.node[j].data.key]
    BY DEF Good, NodesOK
  <2>2. t.capacity \in Nat /\ (t.capacity = 0 \/ t.capacity >= MinCapacity)
    BY <1>8, <2>1
  <2>3. t.next \in 1..(IF t.capacity = 0 THEN 1 ELSE t.capacity)
    <3>1. s.capacity # 0 /\ i <= s.capacity - 1
      BY <1>3, <2>1
    <3>2. t.next = s.next \/ (t.next = s.next + 1 /\ s.next <= s.capacity - 1)
      BY <1>8, <3>1
    <3> QED
      BY <1>8, <2>1, <3>1, <3>2
  <2>4. t.node \in [1..(t.capacity - 1) -> NodeRecords \cup {NoNode}]
    <3>1. \A j \in N : t.node[j] \in NodeRecords \cup {NoNode}
      BY <1>11, <1>12, <1>13
    <3>2. t.node = [j \in N |-> t.node[j]]
      BY <1>7, <1>8
    <3> QED
      BY <1>8, <3>1, <3>2
  <2>5. \A j \in H!ActiveSlots(t) : j < t.next
    <3> SUFFICES ASSUME NEW j \in H!ActiveSlots(t) PROVE j < t.next
      OBVIOUS
    <3>1. j \in 1..(s.next - 1) \/ j = i
      BY <1>1, <1>14
    <3>2. j \in Nat /\ j <= s.next /\ (j = s.next => i = s.next)
      BY <1>1, <1>3, <3>1
    <3> QED
      BY <1>1, <1>8, <3>2
  <2>6. t.count = Cardinality(H!ActiveSlots(t))
    <3>1. i \notin A /\ IsFiniteSet(A)
      BY <1>1
    <3>2. Cardinality(A \cup {i}) = Cardinality(A) + 1
      BY <3>1, FS_AddElement
    <3> QED
      BY <1>8, <1>14, <2>1, <3>2
  <2>7. \A j \in A : t.node[j].data.key # data.key
    BY <1>11 DEF HoldsKey
  <2>8. \A j, k \in A \cup {i} : t.node[j].data.key = t.node[k].data.key => j = k
    BY <1>11, <1>13, <2>1, <2>7
  <2>9. \A j \in A \cup {i} : t.node[j].temp = HashOf[t.node[j].data.key]
    BY <1>2, <1>11, <1>13, <2>1
  <2> QED
    BY <1>8, <1>14, <2>2, <2>3, <2>4, <2>5, <2>6, <2>8, <2>9 DEF NodesOK
<1>17. H!Cells(t) = H!Cells(s)
  BY <1>8 DEF H!Cells
<1>18. TableOK(t)
  <2>1. PICK n \in Nat : s.bucket \in [0..(n - 1) -> Nat]
    BY DEF Good, TableOK
  <2>2. t.bucket \in [0..(n - 1) -> Nat]
    BY <1>3, <1>8, <2>1
  <2> QED
    BY <1>8, <1>17, <2>2 DEF Good, TableOK
<1>19. \A h : H!CellOf(t, h) = H!CellOf(s, h)
  BY <1>17, SameCells
<1>20. \A e : Members(t, e) = IF e = b THEN Members(s, e) \cup {i} ELSE Members(s, e)
  <2>1. \A j \in A : t.node[j].temp = s.node[j].temp
    BY <1>11
  <2> QED
    BY <1>2, <1>13, <1>14, <1>19, <2>1 DEF Members
<1>21. N \subseteq Nat \ {0}
  BY DEF Good, NodesOK
<1>22. \E d : IsLinked(t.node, t.bucket[b], d) /\ Range(d) = Members(t, b)
  <2>1. i \notin Range(c) /\ Range(c) \subseteq A
    BY <1>9, <1>10
  <2>2. \A j \in Range(c) : /\ t.node[j] # NoNode /\ t.node[j].next = s.node[j].next
                            /\ t.node[j].prev = IF j = first THEN i ELSE s.node[j].prev
    BY <1>11, <2>1
  <2>3. DOMAIN t.node = DOMAIN s.node /\ i \in DOMAIN s.node /\ DOMAIN s.node \subseteq Nat \ {0}
    BY <1>1, <1>3, <1>7, <1>8, <1>21
  <2>4. t.node[i] # NoNode /\ t.node[i].next = first /\ t.node[i].prev = 0
    BY <1>13
  <2>5. IsLinked(s.node, first, c)
    BY <1>9
  <2>6. \E d : IsLinked(t.node, i, d) /\ Range(d) = Range(c) \cup {i}
    BY ONLY <2>1, <2>2, <2>3, <2>4, <2>5, LinkedFirst
  <2>7. t.bucket[b] = i
    BY <1>3, <1>8 DEF H!Cells
  <2> QED
    BY <1>9, <1>20, <2>6, <2>7
<1>23. ASSUME NEW e \in H!Cells(t), e # b
       PROVE  \E d : IsLinked(t.node, t.bucket[e], d) /\ Range(d) = Members(t, e)
  <2>1. PICK d : IsLinked(s.node, s.bucket[e], d) /\ Range(d) = Members(s, e)
    BY <1>17, <1>23 DEF Good, ChainsOK
  <2>2. \A j \in Range(d) : j \in A /\ j # first
    <3> SUFFICES ASSUME NEW j \in Range(d) PROVE j \in A /\ j # first
      OBVIOUS
    <3>1. j \in A /\ H!CellOf(s, s.node[j].temp) = e
      BY <2>1 DEF Members
    <3>2. j \notin Members(s, b) /\ j # 0
      BY <1>1, <1>21, <1>23, <3>1 DEF Members
    <3> QED
      BY <1>10, <3>1, <3>2
  <2>3. \A j \in Range(d) : /\ t.node[j] # NoNode /\ t.node[j].next = s.node[j].next
                            /\ t.node[j].prev = s.node[j].prev
    BY <1>11, <2>2
  <2>4. DOMAIN t.node = DOMAIN s.node
    BY <1>1, <1>7, <1>8
  <2>5. IsLinked(t.node, s.bucket[e], d)
    BY <2>1, <2>3, <2>4, StaysLinked
  <2>6. t.bucket[e] = s.bucket[e]
    BY <1>8, <1>17, <1>23 DEF H!Cells
  <2> QED
    BY <1>20, <1>23, <2>1, <2>5, <2>6
<1>24. ChainsOK(t)
  BY <1>22, <1>23 DEF ChainsOK
<1> QED
  BY <1>8, <1>11, <1>13, <1>14, <1>15, <1>16, <1>17, <1>18, <1>24 DEF Good, IsAdded

(* Slot i loses its node; no other one changes its data.                   *)
IsTaken(s, t, i) ==
  /\ Good(t) /\ H!ActiveSlots(t) = H!ActiveSlots(s) \ {i}
  /\ \A j \in H!ActiveSlots(t) : t.node[j].data = s.node[j].data
  /\ t.capacity = s.capacity /\ H!Cells(t) = H!Cells(s) /\ t.next = s.next
  /\ t.count = s.count - 1
  /\ DataOf(t) = DataOf(s) \ {s.node[i].data}

LEMMA UnlinkTakes ==
  ASSUME H!HashAssumption, NEW s, Good(s), NEW i \in H!ActiveSlots(s), NEW t, t = H!Unlink(s, i)
  PROVE  IsTaken(s, t, i)
<1> DEFINE A == H!ActiveSlots(s)
           N == 1..(s.capacity - 1)
<1>1. /\ H!Slots(s) = N /\ DOMAIN s.node = N /\ A \subseteq 1..(s.next - 1) /\ A \subseteq N
      /\ \A j : j \in A <=> j \in N /\ s.node[j] # NoNode
      /\ \A j \in A : s.node[j] \in NodeRecords /\ s.node[j].temp \in Nat
      /\ s.count \in Nat /\ s.next \in Nat \ {0} /\ IsFiniteSet(A)
  BY ActiveAre DEF Good
<1>2. NodesOK(s) /\ TableOK(s) /\ ChainsOK(s)
  BY DEF Good
<1>3. PICK e, b : e = s.node[i] /\ b = H!CellOf(s, e.temp)
  OBVIOUS
<1>4. e \in NodeRecords /\ e.next \in Nat /\ e.prev \in Nat /\ e.temp \in Nat
  BY <1>1, <1>3 DEF NodeRecords
<1>5. H!Cells(s) # {}
  <2>1. s.count # 0
    BY <1>2, NoneActive
  <2> QED
    BY <1>2, <2>1 DEF TableOK
<1>6. b \in H!Cells(s) /\ i \in Members(s, b)
  BY <1>2, <1>3, <1>4, <1>5, CellsAre DEF Members
<1>7. PICK c : IsLinked(s.node, s.bucket[b], c) /\ Range(c) = Members(s, b)
  BY <1>2, <1>6 DEF ChainsOK
<1>8. N \subseteq Nat \ {0}
  BY <1>2 DEF NodesOK
<1>9. /\ \A j : Members(s, j) \subseteq A
      /\ Range(c) \subseteq N /\ i \in Range(c)
  BY <1>1, <1>6, <1>7 DEF Members
<1>10. /\ \A j \in Range(c) : j = e.next => j # e.prev
       /\ s.bucket[b] = i <=> e.prev = 0
       /\ i # e.next /\ i # e.prev
  <2>1. PICK k \in 1..Len(c) : c[k] = i
    BY <1>7, <1>9, LinkedSlots
  <2>2. /\ s.bucket[b] = i <=> k = 1
        /\ e.prev = 0 <=> k = 1
        /\ \A n \in 1..Len(c) : /\ c[n] = e.prev <=> n = k - 1
                                /\ c[n] = e.next <=> n = k + 1
    <3>1. PICK node, first : node = s.node /\ first = s.bucket[b]
      OBVIOUS
    <3>2. DOMAIN node \subseteq Nat \ {0} /\ IsLinked(node, first, c) /\ k \in 1..Len(c)
      BY <1>1, <1>7, <1>8, <3>1
    <3>3. /\ first = c[k] <=> k = 1
          /\ \A n \in 1..Len(c) : /\ c[n] = node[c[k]].prev <=> n = k - 1
                                  /\ c[n] = node[c[k]].next <=> n = k + 1
          /\ node[c[k]].prev = 0 <=> k = 1
      BY ONLY <3>2, LinkedNeighbours
    <3> QED
      BY <1>3, <2>1, <3>1, <3>3
  <2>3. \A j \in Range(c) : \E n \in 1..Len(c) : c[n] = j
    BY <1>7, LinkedSlots
  <2>4. k \in Nat /\ k - 1 # k + 1
    BY <1>7, LinkedSlots
  <2>5. i # e.next /\ i # e.prev
    <3>1. k # k - 1 /\ k # k + 1
      BY <2>4
    <3> QED
      BY <2>1, <2>2, <3>1
  <2> QED
    BY <2>2, <2>3, <2>4, <2>5
<1> DEFINE node2 == [j \in H!Slots(s) |->
                       CASE j = i -> NoNode
                         [] j = e.next -> [s.node[j] EXCEPT !.prev = e.prev]
                         [] j = e.prev /\ s.bucket[b] # i -> [s.node[j] EXCEPT !.next = e.next]
                         [] OTHER -> s.node[j]]
<1>11. t = [s EXCEPT !.node = node2, !.bucket[b] = IF @ = i THEN e.next ELSE @, !.count = @ - 1]
  BY <1>3 DEF H!Unlink
<1>12. /\ DOMAIN node2 = N /\ node2[i] = NoNode
       /\ node2 = [j \in N |-> node2[j]]
       /\ \A j \in N \ {i} : j = e.next /\ j # e.prev => node2[j] = [s.node[j] EXCEPT !.prev = e.prev]
       /\ \A j \in N \ {i} : j = e.prev /\ j # e.next => node2[j] = [s.node[j] EXCEPT !.next = e.next]
       /\ \A j \in N \ {i} : j # e.next /\ j # e.prev => node2[j] = s.node[j]
  <2>1. \A j \in N : j = e.prev => s.bucket[b] # i
    BY <1>8, <1>10
  <2>2. i \in N
    BY <1>1
  <2> QED
    <3>1. \A j \in N \ {i} :
            node2[j] = CASE j = e.next -> [s.node[j] EXCEPT !.prev = e.prev]
                         [] j = e.prev /\ s.bucket[b] # i -> [s.node[j] EXCEPT !.next = e.next]
                         [] OTHER -> s.node[j]
      <4> SUFFICES ASSUME NEW j \in N \ {i}
                   PROVE  node2[j] = CASE j = e.next -> [s.node[j] EXCEPT !.prev = e.prev]
                                       [] j = e.prev /\ s.bucket[b] # i -> [s.node[j] EXCEPT !.next = e.next]
                                       [] OTHER -> s.node[j]
        OBVIOUS
      <4>1. CASE j = e.next
        BY <1>1, <4>1
      <4>2. CASE j # e.next /\ j = e.prev /\ s.bucket[b] # i
        BY <1>1, <4>2
      <4>3. CASE j # e.next /\ ~(j = e.prev /\ s.bucket[b] # i)
        BY <1>1, <4>3
      <4> QED
        BY <4>1, <4>2, <4>3
    <3>2. DOMAIN node2 = N /\ node2[i] = NoNode /\ node2 = [j \in N |-> node2[j]]
      <4>1. DOMAIN node2 = N
        BY <1>1
      <4>2. node2[i] = NoNode
        <5>1. i \in H!Slots(s) /\ i # e.next /\ i # e.prev
          BY <1>1, <1>10, <2>2
        <5> QED
          BY <5>1
      <4>3. node2 = [j \in H!Slots(s) |-> node2[j]]
        OBVIOUS
      <4> HIDE DEF node2
      <4> QED
        BY <1>1, <4>1, <4>2, <4>3
    <3> HIDE DEF node2
    <3> QED
      BY <2>1, <3>1, <3>2
<1> HIDE DEF node2
<1>13. /\ IsRecord(t) /\ t.capacity = s.capacity /\ t.pointer = s.pointer /\ t.next = s.next
       /\ t.count = s.count - 1 /\ t.node = node2
       /\ t.bucket = [s.bucket EXCEPT ![b] = IF s.bucket[b] = i THEN e.next ELSE s.bucket[b]]
  <2>1. IsRecord(s)
    BY DEF Good, NodesOK
  <2> QED
    BY <1>11, <2>1 DEF IsRecord, Fields
<1>14. (e.next = 0 \/ e.next \in Range(c)) /\ (e.prev = 0 \/ e.prev \in Range(c))
  <2>1. PICK k \in 1..Len(c) : c[k] = i
    BY <1>7, <1>9, LinkedSlots
  <2>2. e.next = SlotAt(c, k + 1) /\ e.prev = SlotAt(c, k - 1)
    BY <1>3, <1>7, <2>1 DEF IsLinked
  <2>3. \A n \in 1..Len(c) : c[n] \in Range(c)
    BY <1>7, LinkedSlots
  <2> QED
    BY <2>2, <2>3 DEF SlotAt
<1>15. ASSUME NEW j \in A \ {i}
       PROVE  /\ t.node[j] \in NodeRecords /\ t.node[j] # NoNode
              /\ t.node[j].data = s.node[j].data /\ t.node[j].temp = s.node[j].temp
              /\ t.node[j].next = IF j = e.prev THEN e.next ELSE s.node[j].next
              /\ t.node[j].prev = IF j = e.next THEN e.prev ELSE s.node[j].prev
  <2>1. j \in N \ {i} /\ s.node[j] \in NodeRecords
    BY <1>1
  <2>2. PICK f : f = s.node[j]
    OBVIOUS
  <2>3. j = e.next => j # e.prev
    BY <1>8, <1>10, <1>14, <2>1
  <2>4. /\ j = e.next => t.node[j] = [f EXCEPT !.prev = e.prev]
        /\ j = e.prev => t.node[j] = [f EXCEPT !.next = e.next]
        /\ j # e.next /\ j # e.prev => t.node[j] = f
    BY <1>12, <1>13, <2>1, <2>2, <2>3
  <2>5. /\ t.node[j] \in NodeRecords
        /\ t.node[j].data = f.data /\ t.node[j].temp = f.temp
        /\ t.node[j].next = (IF j = e.prev THEN e.next ELSE f.next)
        /\ t.node[j].prev = (IF j = e.next THEN e.prev ELSE f.prev)
    BY <1>4, <2>1, <2>2, <2>3, <2>4 DEF NodeRecords
  <2> QED
    BY <2>2, <2>5, NoNodeIsNone
<1>16. \A j \in N \ (A \ {i}) : t.node[j] = NoNode
  <2> SUFFICES ASSUME NEW j \in N \ (A \ {i}), j # i PROVE t.node[j] = NoNode
    BY <1>12, <1>13
  <2>1. j # e.next /\ j # e.prev /\ s.node[j] = NoNode
    BY <1>1, <1>7, <1>8, <1>9, <1>14
  <2> QED
    BY <1>12, <1>13, <2>1
<1>17. H!ActiveSlots(t) = A \ {i}
  <2>1. H!Slots(t) = N
    BY <1>1, <1>13 DEF H!Slots
  <2>2. \A j \in N : t.node[j] # NoNode <=> j \in A \ {i}
    BY <1>15, <1>16
  <2> QED
    BY <1>1, <2>1, <2>2 DEF H!ActiveSlots
<1>18. DataOf(t) = DataOf(s) \ {e.data}
  <2>1. \A j \in A \ {i} : t.node[j].data = s.node[j].data
    BY <1>15
  <2>2. \A j \in A \ {i} : s.node[j].data # e.data
    BY <1>2, <1>3 DEF NodesOK
  <2> QED
    BY <1>3, <1>17, <2>1, <2>2 DEF DataOf
<1>19. NodesOK(t)
  <2>1. /\ s.capacity \in Nat /\ (s.capacity = 0 \/ s.capacity >= MinCapacity)
        /\ s.next \in 1..(IF s.capacity = 0 THEN 1 ELSE s.capacity)
        /\ s.count = Cardinality(A)
        /\ \A j \in A : j < s.next
        /\ \A j, k \in A : s.node[j].data.key = s.node[k].data.key => j = k
        /\ \A j \in A : s.node[j].temp = HashOf[s.node[j].data.key]
    BY DEF Good, NodesOK
  <2>2. t.node \in [1..(t.capacity - 1) -> NodeRecords \cup {NoNode}]
    <3>1. \A j \in N : t.node[j] \in NodeRecords \cup {NoNode}
      BY <1>15, <1>16
    <3>2. t.node = [j \in N |-> t.node[j]]
      BY <1>12, <1>13
    <3> QED
      BY <1>13, <3>1, <3>2
  <2>3. t.count = Cardinality(H!ActiveSlots(t))
    <3>1. Cardinality(A \ {i}) = Cardinality(A) - 1
      BY <1>1, FS_RemoveElement
    <3> QED
      BY <1>13, <1>17, <2>1, <3>1
  <2>4. \A j, k \in A \ {i} : t.node[j].data.key = t.node[k].data.key => j = k
    BY <1>15, <2>1
  <2>5. \A j \in A \ {i} : t.node[j].temp = HashOf[t.node[j].data.key]
    BY <1>15, <2>1
  <2> QED
    BY <1>13, <1>17, <2>1, <2>2, <2>3, <2>4, <2>5 DEF NodesOK
<1>20. H!Cells(t) = H!Cells(s)
  BY <1>13 DEF H!Cells
<1>21. TableOK(t)
  <2>1. PICK n \in Nat : s.bucket \in [0..(n - 1) -> Nat]
    BY DEF Good, TableOK
  <2>2. t.bucket \in [0..(n - 1) -> Nat]
    BY <1>4, <1>13, <2>1
  <2> QED
    BY <1>2, <1>5, <1>13, <1>20, <2>2 DEF TableOK
<1>22. \A h : H!CellOf(t, h) = H!CellOf(s, h)
  BY <1>20, SameCells
<1>23. \A j : Members(t, j) = IF j = b THEN Members(s, j) \ {i} ELSE Members(s, j)
  <2>1. \A j \in A \ {i} : t.node[j].temp = s.node[j].temp
    BY <1>15
  <2> QED
    BY <1>3, <1>17, <1>22, <2>1 DEF Members
<1>24. \E d : IsLinked(t.node, t.bucket[b], d) /\ Range(d) = Members(t, b)
  <2>1. \A j \in Range(c) \ {i} :
          /\ t.node[j] # NoNode
          /\ t.node[j].next = IF j = s.node[i].prev THEN s.node[i].next ELSE s.node[j].next
          /\ t.node[j].prev = IF j = s.node[i].next THEN s.node[i].prev ELSE s.node[j].prev
    BY <1>3, <1>7, <1>9, <1>15
  <2>2. DOMAIN t.node = DOMAIN s.node /\ DOMAIN s.node \subseteq Nat \ {0} /\ i \in Range(c)
    BY <1>1, <1>8, <1>9, <1>12, <1>13
  <2>3. PICK first : first = s.bucket[b]
    OBVIOUS
  <2>4. IsLinked(s.node, first, c)
    BY <1>7, <2>3
  <2>5. \E d : IsLinked(t.node, IF first = i THEN s.node[i].next ELSE first, d) /\ Range(d) = Range(c) \ {i}
    BY ONLY <2>1, <2>2, <2>4, LinkedWithout
  <2>6. t.bucket[b] = IF first = i THEN s.node[i].next ELSE first
    BY <1>3, <1>6, <1>13, <2>3 DEF H!Cells
  <2> QED
    BY <1>7, <1>23, <2>5, <2>6
<1>25. ASSUME NEW g \in H!Cells(t), g # b
       PROVE  \E d : IsLinked(t.node, t.bucket[g], d) /\ Range(d) = Members(t, g)
  <2>1. PICK d : IsLinked(s.node, s.bucket[g], d) /\ Range(d) = Members(s, g)
    BY <1>2, <1>20, <1>25 DEF ChainsOK
  <2>2. \A j \in Range(d) : j \in A /\ j # i /\ j # e.next /\ j # e.prev
    <3> SUFFICES ASSUME NEW j \in Range(d) PROVE j \in A /\ j \notin Members(s, b) /\ j # 0
      BY <1>6, <1>7, <1>14
    <3>1. j \in A /\ H!CellOf(s, s.node[j].temp) = g
      BY <2>1 DEF Members
    <3> QED
      BY <1>1, <1>8, <1>25, <3>1 DEF Members
  <2>3. \A j \in Range(d) : /\ t.node[j] # NoNode /\ t.node[j].next = s.node[j].next
                            /\ t.node[j].prev = s.node[j].prev
    BY <1>15, <2>2
  <2>4. DOMAIN t.node = DOMAIN s.node
    BY <1>1, <1>12, <1>13
  <2>5. IsLinked(t.node, s.bucket[g], d)
    BY <2>1, <2>3, <2>4, StaysLinked
  <2>6. t.bucket[g] = s.bucket[g]
    BY <1>13, <1>20, <1>25 DEF H!Cells
  <2> QED
    BY <1>23, <1>25, <2>1, <2>5, <2>6
<1>26. ChainsOK(t)
  BY <1>24, <1>25 DEF ChainsOK
<1>27. \A j \in H!ActiveSlots(t) : t.node[j].data = s.node[j].data
  BY <1>15, <1>17
<1> QED
  BY <1>3, <1>13, <1>17, <1>18, <1>19, <1>20, <1>21, <1>26, <1>27 DEF Good, IsTaken

-----------------------------------------------------------------------------
(* reorder.                                                                *)

(* What reorder does with slot i.                                          *)
MoveInto(s, node, i) ==
  LET last == H!Max({j \in H!Slots(s) : node[j] # NoNode})
  IN IF node[i] # NoNode THEN node ELSE [node EXCEPT ![i] = node[last], ![last] = NoNode]

IsMoves(f, s, n) == f = [i \in 0..n |-> IF i = 0 THEN s.node ELSE MoveInto(s, f[i - 1], i)]

LEMMA MovesExist ==
  ASSUME NEW s, NEW n \in Nat
  PROVE  \E f : IsMoves(f, s, n)
<1> DEFINE S == {m \in Nat : \E f : IsMoves(f, s, m)}
<1>1. 0 \in S
  <2>1. IsMoves([i \in 0..0 |-> s.node], s, 0)
    BY DEF IsMoves
  <2> QED
    BY <2>1
<1>2. ASSUME NEW m \in Nat, m \in S PROVE m + 1 \in S
  <2>1. PICK f : IsMoves(f, s, m)
    BY <1>2
  <2>2. f[0] = s.node /\ \A i \in 1..m : f[i] = MoveInto(s, f[i - 1], i)
    <3>1. DOMAIN f = 0..m /\ \A i \in 0..m : f[i] = IF i = 0 THEN s.node ELSE MoveInto(s, f[i - 1], i)
      BY <2>1 DEF IsMoves
    <3> QED
      BY <3>1
  <2> DEFINE g == [i \in 0..(m + 1) |-> IF i <= m THEN f[i] ELSE MoveInto(s, f[m], i)]
  <2>3. ASSUME NEW i \in 0..(m + 1) PROVE g[i] = IF i = 0 THEN s.node ELSE MoveInto(s, g[i - 1], i)
    <3>1. CASE i = 0
      BY <2>2, <3>1
    <3>2. CASE i \in 1..m
      <4>1. g[i] = f[i] /\ g[i - 1] = f[i - 1]
        BY <3>2
      <4> HIDE DEF g
      <4> QED
        BY <2>2, <3>2, <4>1
    <3>3. CASE i = m + 1
      <4>1. g[i] = MoveInto(s, f[m], i) /\ g[i - 1] = f[m]
        BY <3>3
      <4> HIDE DEF g
      <4> QED
        BY <3>3, <4>1
    <3> QED
      BY <3>1, <3>2, <3>3
  <2>4. g = [i \in 0..(m + 1) |-> g[i]]
    OBVIOUS
  <2> HIDE DEF g
  <2>5. IsMoves(g, s, m + 1)
    BY <2>3, <2>4 DEF IsMoves
  <2> QED
    BY <2>5
<1> HIDE DEF S
<1>3. n \in S
  BY <1>1, <1>2, NumberInduction
<1> QED
  BY <1>3 DEF S

(* Moving the last node into a free slot keeps what the set holds.         *)
LEMMA MoveKeeps ==
  ASSUME H!HashAssumption, NEW s, NodesOK(s), NEW i \in 1..s.count,
         1..(i - 1) \subseteq H!ActiveSlots(s),
         NEW t, t = [s EXCEPT !.node = MoveInto(s, s.node, i)]
  PROVE  NodesOK(t) /\ DataOf(t) = DataOf(s) /\ 1..i \subseteq H!ActiveSlots(t)
<1> DEFINE A == H!ActiveSlots(s)
           N == 1..(s.capacity - 1)
           last == H!Max(A)
<1>1. /\ H!Slots(s) = N /\ DOMAIN s.node = N /\ A \subseteq 1..(s.next - 1) /\ A \subseteq N
      /\ \A j : j \in A <=> j \in N /\ s.node[j] # NoNode
      /\ \A j \in A : s.node[j] \in NodeRecords
      /\ s.count \in Nat /\ s.next \in Nat \ {0} /\ IsFiniteSet(A) /\ s.count <= s.next - 1
      /\ s.next <= s.capacity \/ (s.capacity = 0 /\ s.next = 1)
  BY ActiveAre
<1>2. /\ IsRecord(s) /\ s.capacity \in Nat
      /\ s.node \in [N -> NodeRecords \cup {NoNode}]
      /\ s.count = Cardinality(A)
      /\ \A j, k \in A : s.node[j].data.key = s.node[k].data.key => j = k
      /\ \A j \in A : s.node[j].temp = HashOf[s.node[j].data.key]
  BY DEF NodesOK
<1>3. i \in N /\ i < s.next /\ i \in Nat
  BY <1>1, <1>2
<1>4. last \in A /\ \A j \in A : j <= last
  <2>1. A # {}
    BY <1>1, NoneActive
  <2>2. A \subseteq 0..(s.next - 1) /\ s.next - 1 \in Nat
    BY <1>1
  <2> HIDE DEF A
  <2> QED
    BY <2>1, <2>2, GreatestOf
<1>5. MoveInto(s, s.node, i) = IF s.node[i] # NoNode THEN s.node
                               ELSE [s.node EXCEPT ![i] = s.node[last], ![last] = NoNode]
  BY DEF MoveInto, H!ActiveSlots
<1> HIDE DEF last
<1>6. CASE s.node[i] # NoNode
  <2>1. t = s
    <3>1. t = [s EXCEPT !.node = s.node]
      BY <1>5, <1>6
    <3> QED
      BY <1>2, <3>1 DEF IsRecord, Fields
  <2>2. i \in A
    BY <1>1, <1>3, <1>6
  <2>3. 1..i \subseteq A
    BY <1>3, <2>2
  <2> QED
    BY <2>1, <2>3
<1>7. CASE s.node[i] = NoNode
  <2>1. i \notin A /\ i # last
    BY <1>1, <1>4, <1>7
  <2>2. i < last
    <3> SUFFICES ASSUME last < i PROVE FALSE
      BY <1>1, <1>3, <1>4, <2>1
    <3>1. A \subseteq 1..(i - 1)
      BY <1>1, <1>3, <1>4
    <3>2. i - 1 \in Nat /\ IsFiniteSet(1..(i - 1)) /\ Cardinality(1..(i - 1)) = i - 1
      <4>1. i - 1 \in Nat
        BY <1>1
      <4> QED
        BY <4>1, CountTo
    <3>3. Cardinality(A) <= i - 1
      BY <3>1, <3>2, FS_Subset
    <3> QED
      BY <1>1, <1>2, <3>2, <3>3
  <2> DEFINE node == [s.node EXCEPT ![i] = s.node[last], ![last] = NoNode]
  <2>3. /\ IsRecord(t) /\ t.capacity = s.capacity /\ t.next = s.next /\ t.count = s.count
        /\ t.node = node
    <3>1. t = [s EXCEPT !.node = node]
      BY <1>5, <1>7
    <3> HIDE DEF node
    <3> QED
      BY <1>2, <3>1 DEF IsRecord, Fields
  <2>4. /\ t.node[i] = s.node[last] /\ t.node[last] = NoNode
        /\ \A j \in N \ {i, last} : t.node[j] = s.node[j]
        /\ t.node = [j \in N |-> t.node[j]]
    <3>1. PICK old, e : old = s.node /\ e = s.node[last]
      OBVIOUS
    <3>2. DOMAIN old = N /\ i \in N /\ last \in N /\ i # last
      BY <1>1, <1>3, <1>4, <2>1, <3>1
    <3>3. node = [old EXCEPT ![i] = e, ![last] = NoNode]
      BY <3>1
    <3> HIDE DEF node
    <3>4. /\ node[i] = e /\ node[last] = NoNode
          /\ \A j \in N \ {i, last} : node[j] = old[j]
          /\ node = [j \in N |-> node[j]]
      BY ONLY <3>2, <3>3
    <3>5. t.node = [j \in N |-> t.node[j]]
      <4>1. t.node = node
        BY <2>3
      <4>2. node = [j \in N |-> node[j]]
        BY <3>4
      <4> QED
        BY ONLY <4>1, <4>2
    <3> QED
      BY <2>3, <3>1, <3>4, <3>5
  <2> HIDE DEF node
  <2>5. s.node[last] \in NodeRecords /\ last \in N
    BY <1>1, <1>4
  <2>6. H!ActiveSlots(t) = (A \ {last}) \cup {i}
    <3>1. H!Slots(t) = N
      BY <1>1, <2>3 DEF H!Slots
    <3>2. \A j \in N : t.node[j] # NoNode <=> j \in (A \ {last}) \cup {i}
      <4> SUFFICES ASSUME NEW j \in N PROVE t.node[j] # NoNode <=> j \in (A \ {last}) \cup {i}
        OBVIOUS
      <4>1. CASE j = i
        BY <1>1, <1>4, <2>4, <4>1
      <4>2. CASE j = last
        BY <2>1, <2>4, <4>2
      <4>3. CASE j # i /\ j # last
        BY <1>1, <2>4, <4>3
      <4> QED
        BY <4>1, <4>2, <4>3
    <3> QED
      BY <1>1, <1>3, <3>1, <3>2 DEF H!ActiveSlots
  <2>7. t.node \in [1..(t.capacity - 1) -> NodeRecords \cup {NoNode}]
    <3>1. \A j \in N : t.node[j] \in NodeRecords \cup {NoNode}
      BY <1>2, <2>4, <2>5
    <3> QED
      BY <2>3, <2>4, <3>1
  <2>8. t.count = Cardinality(H!ActiveSlots(t))
    <3>1. Cardinality(A \ {last}) = Cardinality(A) - 1 /\ IsFiniteSet(A \ {last})
      BY <1>1, <1>4, FS_RemoveElement
    <3>2. i \notin A \ {last}
      BY <2>1
    <3>3. Cardinality((A \ {last}) \cup {i}) = Cardinality(A \ {last}) + 1
      BY <3>1, <3>2, FS_AddElement
    <3>4. (Cardinality(A) - 1) + 1 = Cardinality(A)
      BY <1>1, <1>2
    <3> QED
      BY <1>2, <2>3, <2>6, <3>1, <3>3, <3>4
  <2>9. \A j \in A \ {last} : j # i /\ t.node[j] = s.node[j]
    BY <1>1, <2>1, <2>4
  <2>10. \A j \in H!ActiveSlots(t) : j < t.next
    BY <1>1, <1>3, <2>3, <2>6
  <2>11. \A j, k \in H!ActiveSlots(t) : t.node[j].data.key = t.node[k].data.key => j = k
    BY <1>2, <1>4, <2>4, <2>6, <2>9
  <2>12. \A j \in H!ActiveSlots(t) : t.node[j].temp = HashOf[t.node[j].data.key]
    BY <1>2, <1>4, <2>4, <2>6, <2>9
  <2>13. /\ t.capacity \in Nat /\ (t.capacity = 0 \/ t.capacity >= MinCapacity)
         /\ t.next \in 1..(IF t.capacity = 0 THEN 1 ELSE t.capacity)
    BY <2>3 DEF NodesOK
  <2>14. NodesOK(t)
    BY <2>3, <2>7, <2>8, <2>10, <2>11, <2>12, <2>13 DEF NodesOK
  <2>15. DataOf(t) = DataOf(s)
    <3>1. DataOf(t) \subseteq DataOf(s)
      BY <1>4, <2>4, <2>6, <2>9 DEF DataOf
    <3>2. DataOf(s) \subseteq DataOf(t)
      <4> SUFFICES ASSUME NEW j \in A PROVE s.node[j].data \in DataOf(t)
        BY DEF DataOf
      <4>1. CASE j = last
        BY <2>4, <2>6, <4>1 DEF DataOf
      <4>2. CASE j # last
        BY <2>6, <2>9, <4>2 DEF DataOf
      <4> QED
        BY <4>1, <4>2
    <3> QED
      BY <3>1, <3>2
  <2>16. 1..i \subseteq H!ActiveSlots(t)
    <3> SUFFICES ASSUME NEW j \in 1..i PROVE j \in (A \ {last}) \cup {i}
      BY <2>6
    <3>1. j = i \/ j \in 1..(i - 1)
      BY <1>3
    <3>2. j # last
      BY <1>1, <1>3, <1>4, <2>2
    <3> QED
      BY <3>1, <3>2
  <2> QED
    BY <2>14, <2>15, <2>16
<1> QED
  BY <1>6, <1>7

(* The slots are in use from 1 to count without gaps.                      *)
IsReordered(s, t) ==
  /\ NodesOK(t) /\ DataOf(t) = DataOf(s) /\ t.next = s.count + 1
  /\ t.capacity = s.capacity /\ t.count = s.count /\ t.bucket = s.bucket /\ t.pointer = s.pointer

LEMMA ReorderKeeps ==
  ASSUME H!HashAssumption, NEW s, NodesOK(s), NEW t, t = H!Reorder(s)
  PROVE  IsReordered(s, t)
<1> DEFINE C == s.count
<1>1. C \in Nat /\ s.next \in Nat /\ C <= s.next - 1 /\ IsRecord(s)
  BY ActiveAre DEF NodesOK
<1>2. CASE ~H!HasGaps(s)
  <2>1. s.next = C + 1
    BY <1>1, <1>2 DEF H!HasGaps
  <2>2. t = s
    BY <1>2 DEF H!Reorder
  <2> QED
    BY <2>1, <2>2 DEF IsReordered
<1>3. CASE H!HasGaps(s)
  <2> DEFINE f[i \in 0..C] == IF i = 0 THEN s.node ELSE MoveInto(s, f[i - 1], i)
  <2>1. \E w : w = [i \in 0..C |-> IF i = 0 THEN s.node ELSE MoveInto(s, w[i - 1], i)]
    BY <1>1, MovesExist DEF IsMoves
  <2>2. f = [i \in 0..C |-> IF i = 0 THEN s.node ELSE MoveInto(s, f[i - 1], i)]
    BY <2>1
  <2>3. H!Moved(s) = f[C]
    BY DEF H!Moved, MoveInto
  <2> HIDE DEF f
  <2>4. f[0] = s.node /\ \A i \in 1..C : f[i] = MoveInto(s, f[i - 1], i)
    <3>1. \A i \in 0..C : f[i] = IF i = 0 THEN s.node ELSE MoveInto(s, f[i - 1], i)
      BY <2>2
    <3>2. 0 \in 0..C /\ \A i \in 1..C : i \in 0..C /\ i # 0
      BY <1>1
    <3> QED
      BY <3>1, <3>2
  <2> DEFINE At1(i) == [s EXCEPT !.node = f[i]]
             Kept(i) == NodesOK(At1(i)) /\ DataOf(At1(i)) = DataOf(s) /\ 1..i \subseteq H!ActiveSlots(At1(i))
             S == {n \in Nat : n <= C => Kept(n)}
  <2>5. ASSUME NEW i \in Nat
        PROVE  /\ IsRecord(At1(i)) /\ At1(i).node = f[i] /\ At1(i).count = C /\ At1(i).next = s.next
               /\ At1(i).capacity = s.capacity /\ At1(i).bucket = s.bucket /\ At1(i).pointer = s.pointer
    BY <1>1 DEF IsRecord, Fields
  <2>6. 0 \in S
    <3>1. At1(0) = s
      BY <1>1, <2>4 DEF IsRecord, Fields
    <3>2. 1..0 \subseteq H!ActiveSlots(s)
      OBVIOUS
    <3> QED
      BY <3>1, <3>2
  <2>7. ASSUME NEW n \in Nat, n \in S PROVE n + 1 \in S
    <3> SUFFICES ASSUME n + 1 <= C PROVE Kept(n + 1)
      OBVIOUS
    <3>1. PICK u : u = At1(n)
      OBVIOUS
    <3>2. NodesOK(u) /\ DataOf(u) = DataOf(s) /\ 1..n \subseteq H!ActiveSlots(u)
      BY <1>1, <2>7, <3>1
    <3>3. u.count = C /\ u.node = f[n] /\ u.capacity = s.capacity
      BY <2>5, <3>1
    <3>4. n + 1 \in 1..u.count /\ (n + 1) - 1 = n
      BY <1>1, <3>3
    <3>5. PICK w : w = [u EXCEPT !.node = MoveInto(u, u.node, n + 1)]
      OBVIOUS
    <3>6. NodesOK(w) /\ DataOf(w) = DataOf(u) /\ 1..(n + 1) \subseteq H!ActiveSlots(w)
      <4>1. 1..((n + 1) - 1) \subseteq H!ActiveSlots(u)
        BY <3>2, <3>4
      <4> HIDE DEF At1, S
      <4>2. PICK i : i = n + 1
        OBVIOUS
      <4>3. i \in 1..u.count /\ 1..(i - 1) \subseteq H!ActiveSlots(u) /\ w = [u EXCEPT !.node = MoveInto(u, u.node, i)]
        BY <3>4, <3>5, <4>1, <4>2
      <4>4. NodesOK(w) /\ DataOf(w) = DataOf(u) /\ 1..i \subseteq H!ActiveSlots(w)
        BY <3>2, <4>3, MoveKeeps
      <4> QED
        BY <4>2, <4>4
    <3>7. w = At1(n + 1)
      <4>1. MoveInto(u, u.node, n + 1) = f[n + 1]
        <5>1. f[n + 1] = MoveInto(s, f[n], n + 1)
          BY <1>1, <2>4, <3>3, <3>4
        <5>2. MoveInto(u, f[n], n + 1) = MoveInto(s, f[n], n + 1)
          BY <3>3 DEF MoveInto, H!Slots
        <5> QED
          BY <3>3, <5>1, <5>2
      <4>2. w = [u EXCEPT !.node = f[n + 1]]
        BY <3>5, <4>1
      <4> QED
        BY <1>1, <3>1, <4>2 DEF IsRecord, Fields
    <3> QED
      BY <3>2, <3>6, <3>7
  <2>8. Kept(C)
    <3> HIDE DEF S
    <3>1. C \in S
      BY <1>1, <2>6, <2>7, NumberInduction
    <3> QED
      BY <3>1 DEF S
  <2>9. PICK u : u = At1(C)
    OBVIOUS
  <2>10. /\ NodesOK(u) /\ DataOf(u) = DataOf(s) /\ 1..C \subseteq H!ActiveSlots(u)
         /\ IsRecord(u) /\ u.node = f[C] /\ u.count = C /\ u.next = s.next
         /\ u.capacity = s.capacity /\ u.bucket = s.bucket /\ u.pointer = s.pointer
    BY <1>1, <2>5, <2>8, <2>9
  <2> HIDE DEF At1, Kept, S
  <2>11. H!ActiveSlots(u) = 1..C
    <3>1. IsFiniteSet(H!ActiveSlots(u)) /\ u.count = Cardinality(H!ActiveSlots(u))
      BY <2>10, ActiveAre DEF NodesOK
    <3>2. Cardinality(1..C) = C
      BY <1>1, CountTo
    <3>3. PICK U, W : U = 1..C /\ W = H!ActiveSlots(u)
      OBVIOUS
    <3>4. U \subseteq W /\ IsFiniteSet(W) /\ Cardinality(U) = Cardinality(W)
      BY <2>10, <3>1, <3>2, <3>3
    <3>5. U = W
      BY ONLY <3>4, FS_Subset
    <3> QED
      BY <3>3, <3>5
  <2>12. /\ IsRecord(t) /\ t.node = f[C] /\ t.count = C /\ t.next = C + 1
         /\ t.capacity = s.capacity /\ t.bucket = s.bucket /\ t.pointer = s.pointer
    <3>1. t = [s EXCEPT !.next = C + 1, !.node = f[C]]
      BY <1>3, <2>3 DEF H!Reorder
    <3> QED
      BY <1>1, <3>1 DEF IsRecord, Fields
  <2>13. H!ActiveSlots(t) = 1..C /\ DataOf(t) = DataOf(u)
    <3>1. H!ActiveSlots(t) = H!ActiveSlots(u)
      BY <2>10, <2>12 DEF H!ActiveSlots, H!Slots
    <3> QED
      BY <2>10, <2>11, <2>12, <3>1 DEF DataOf
  <2>14. NodesOK(t)
    <3>1. /\ u.capacity \in Nat /\ (u.capacity = 0 \/ u.capacity >= MinCapacity)
          /\ u.next \in 1..(IF u.capacity = 0 THEN 1 ELSE u.capacity)
          /\ u.node \in [1..(u.capacity - 1) -> NodeRecords \cup {NoNode}]
          /\ u.count = Cardinality(H!ActiveSlots(u))
          /\ \A i, j \in H!ActiveSlots(u) : u.node[i].data.key = u.node[j].data.key => i = j
          /\ \A i \in H!ActiveSlots(u) : u.node[i].temp = HashOf[u.node[i].data.key]
      BY <2>10 DEF NodesOK
    <3>2. t.next \in 1..(IF t.capacity = 0 THEN 1 ELSE t.capacity)
      BY <1>1, <2>10, <2>12, <3>1
    <3>3. \A i \in 1..C : i < t.next
      BY <1>1, <2>12
    <3>4. /\ H!ActiveSlots(t) = H!ActiveSlots(u) /\ H!ActiveSlots(t) = 1..C
          /\ t.node = u.node /\ t.capacity = u.capacity /\ t.count = u.count /\ IsRecord(t)
      BY <2>10, <2>11, <2>12, <2>13
    <3> QED
      BY ONLY <3>1, <3>2, <3>3, <3>4 DEF NodesOK
  <2> QED
    BY <2>10, <2>12, <2>13, <2>14 DEF IsReordered
<1> QED
  BY <1>2, <1>3

-----------------------------------------------------------------------------
(* Making room.                                                            *)

(* Whatever changes in the set, it holds the same.                         *)
Keeps(s, t) == Good(t) /\ DataOf(t) = DataOf(s)

IsEnlarged(s, capacity, t) ==
  t = H!Bucketize([H!Resized(s, capacity) EXCEPT !.bucket = H!NoChains(capacity), !.pointer = "own"], FALSE)

(* An array with more slots, or with no fewer than are in use.             *)
LEMMA EnlargeKeeps ==
  ASSUME H!HashAssumption, NEW s, NodesOK(s), s.next = s.count + 1,
         NEW capacity \in Nat, capacity >= MinCapacity, capacity > s.count,
         NEW t, IsEnlarged(s, capacity, t)
  PROVE  /\ Keeps(s, t) /\ t.capacity = capacity /\ t.next = s.next /\ t.count = s.count
         /\ H!Cells(t) # {}
<1> DEFINE A == H!ActiveSlots(s)
           N == 1..(s.capacity - 1)
           M == 1..(capacity - 1)
           node == [i \in M |-> IF i \in H!Slots(s) THEN s.node[i] ELSE NoNode]
           u == [H!Resized(s, capacity) EXCEPT !.bucket = H!NoChains(capacity), !.pointer = "own"]
<1>1. /\ H!Slots(s) = N /\ A \subseteq 1..(s.next - 1) /\ A \subseteq N
      /\ \A i : i \in A <=> i \in N /\ s.node[i] # NoNode
      /\ \A i \in A : s.node[i] \in NodeRecords
      /\ s.count \in Nat /\ s.next \in Nat \ {0}
  BY ActiveAre
<1>2. IsRecord(s) /\ s.count = Cardinality(A)
  BY DEF NodesOK
<1>3. /\ IsRecord(u) /\ u.capacity = capacity /\ u.next = s.next /\ u.count = s.count
      /\ u.node = node /\ u.bucket = H!NoChains(capacity) /\ u.pointer = "own"
  <2> HIDE DEF node
  <2>1. H!Resized(s, capacity) = [s EXCEPT !.capacity = capacity, !.node = node]
    BY DEF H!Resized, node
  <2> QED
    BY <1>2, <2>1 DEF IsRecord, Fields
<1>4. A \subseteq M
  <2> SUFFICES ASSUME NEW i \in A PROVE i \in M
    OBVIOUS
  <2>1. i \in 1..s.count
    BY <1>1
  <2> QED
    BY <1>1, <2>1
<1>5. /\ u.node \in [M -> NodeRecords \cup {NoNode}]
      /\ \A i \in M : u.node[i] # NoNode <=> i \in A
      /\ \A i \in A : u.node[i] = s.node[i]
  <2>1. \A i \in M : u.node[i] = IF i \in N THEN s.node[i] ELSE NoNode
    BY <1>1, <1>3
  <2>2. u.node = [i \in M |-> u.node[i]]
    BY <1>3
  <2> HIDE DEF node, M, N
  <2>3. \A i \in A : u.node[i] = s.node[i] /\ u.node[i] \in NodeRecords
    BY <1>1, <1>4, <2>1
  <2>4. \A i \in M : u.node[i] # NoNode <=> i \in A
    BY <1>1, <2>1
  <2>5. \A i \in M : u.node[i] \in NodeRecords \cup {NoNode}
    BY <2>3, <2>4
  <2> QED
    BY <2>2, <2>3, <2>4, <2>5
<1> HIDE DEF node, u
<1>6. H!ActiveSlots(u) = A
  <2>1. H!Slots(u) = M
    BY <1>3 DEF H!Slots
  <2> QED
    BY <1>4, <1>5, <2>1 DEF H!ActiveSlots
<1>7. DataOf(u) = DataOf(s)
  BY <1>5, <1>6 DEF DataOf
<1>8. NodesOK(u)
  <2>1. /\ \A i, j \in A : u.node[i].data.key = u.node[j].data.key => i = j
        /\ \A i \in A : u.node[i].temp = HashOf[u.node[i].data.key]
        /\ \A i \in A : i < s.next
    BY <1>5 DEF NodesOK
  <2>2. u.capacity \in Nat /\ (u.capacity = 0 \/ u.capacity >= MinCapacity)
    BY <1>3
  <2>3. u.next \in 1..(IF u.capacity = 0 THEN 1 ELSE u.capacity)
    BY <1>1, <1>3, MinCapacityIs
  <2> QED
    BY <1>2, <1>3, <1>5, <1>6, <2>1, <2>2, <2>3 DEF NodesOK
<1>9. TableOK(u) /\ H!Cells(u) # {}
  <2>1. PICK n : n = H!Buckets(capacity)
    OBVIOUS
  <2>2. n \in Nat /\ n >= 1
    BY <2>1, MoreSlotsMoreBuckets
  <2>3. u.bucket = [b \in 0..(n - 1) |-> 0]
    BY <1>3, <2>1 DEF H!NoChains
  <2>4. u.bucket \in [0..(n - 1) -> Nat] /\ H!Cells(u) = 0..(n - 1)
    BY <2>3 DEF H!Cells
  <2>5. H!Cells(u) # {}
    <3>1. 0 \in 0..(n - 1)
      BY <2>2
    <3> QED
      BY <2>4, <3>1
  <2> QED
    BY <1>3, <2>2, <2>4, <2>5 DEF TableOK
<1>10. Good(t) /\ SameNodes(u, t) /\ H!Cells(t) = H!Cells(u)
  <2>1. t = H!Bucketize(u, FALSE)
    BY DEF IsEnlarged, u
  <2> QED
    BY <1>8, <1>9, <2>1, BucketizeGood
<1>11. DataOf(t) = DataOf(u)
  BY <1>8, <1>10, SameNodesOK
<1> QED
  BY <1>3, <1>7, <1>9, <1>10, <1>11 DEF Keeps, SameNodes

(* bucketize of a set in order.                                            *)
LEMMA ReorderedKeeps ==
  ASSUME H!HashAssumption, NEW s, Good(s), NEW t, t = H!Bucketize(H!Reorder(s), FALSE)
  PROVE  Keeps(s, t)
<1>1. PICK u : u = H!Reorder(s)
  OBVIOUS
<1>2. NodesOK(s) /\ TableOK(s)
  BY DEF Good
<1>3. IsReordered(s, u)
  BY <1>1, <1>2, ReorderKeeps
<1>4. NodesOK(u) /\ TableOK(u)
  BY <1>2, <1>3 DEF IsReordered, TableOK, H!Cells
<1>5. Good(t) /\ SameNodes(u, t)
  BY <1>1, <1>4, BucketizeGood
<1> QED
  BY <1>3, <1>4, <1>5, SameNodesOK DEF Keeps, IsReordered

LEMMA ResizeKeeps ==
  ASSUME H!HashAssumption, NEW s, Good(s), NEW wanted \in Nat, NEW memory \in BOOLEAN
  PROVE  Keeps(s, H!Resize(s, wanted, memory))
<1>1. PICK capacity, ordered, t :
        /\ capacity = IF wanted < MinCapacity THEN MinCapacity ELSE wanted
        /\ ordered = H!Reorder(s) /\ t = H!Resize(s, wanted, memory)
  OBVIOUS
<1>2. s.count \in Nat /\ NodesOK(s)
  BY ActiveAre DEF Good
<1> DEFINE u == [H!Resized(ordered, capacity) EXCEPT !.bucket = H!NoChains(capacity), !.pointer = "own"]
           enlarged == H!Bucketize(u, FALSE)
           tidied == IF H!HasGaps(s) THEN H!Bucketize(ordered, FALSE) ELSE s
<1>3. t = CASE wanted <= s.count -> s
            [] wanted > s.count /\ capacity # s.capacity /\ memory -> enlarged
            [] wanted > s.count /\ (capacity = s.capacity \/ ~memory) -> tidied
  BY <1>1 DEF H!Resize
<1> HIDE DEF enlarged, tidied
<1>4. /\ wanted <= s.count => t = s
      /\ wanted > s.count /\ capacity # s.capacity /\ memory => t = enlarged
      /\ wanted > s.count /\ (capacity = s.capacity \/ ~memory) => t = tidied
  BY <1>2, <1>3
<1>5. CASE wanted <= s.count
  BY <1>1, <1>4, <1>5 DEF Keeps
<1>6. CASE wanted > s.count /\ capacity # s.capacity /\ memory
  <2>1. capacity \in Nat /\ capacity >= MinCapacity /\ capacity > s.count
    BY <1>1, <1>2, <1>6, MinCapacityIs
  <2>2. IsReordered(s, ordered)
    BY <1>1, <1>2, ReorderKeeps
  <2>3. NodesOK(ordered) /\ ordered.next = ordered.count + 1 /\ capacity > ordered.count
    BY <2>1, <2>2 DEF IsReordered
  <2>4. IsEnlarged(ordered, capacity, t)
    BY <1>4, <1>6 DEF enlarged, IsEnlarged
  <2>5. Keeps(ordered, t)
    BY <2>1, <2>3, <2>4, EnlargeKeeps
  <2> QED
    BY <1>1, <2>2, <2>5 DEF IsReordered, Keeps
<1>7. CASE wanted > s.count /\ (capacity = s.capacity \/ ~memory)
  <2>1. t = tidied
    BY <1>4, <1>7
  <2> QED
    BY <1>1, <2>1, ReorderedKeeps DEF Keeps, tidied
<1> QED
  BY <1>2, <1>5, <1>6, <1>7

LEMMA RehashKeeps ==
  ASSUME H!HashAssumption, NEW s, Good(s)
  PROVE  Keeps(s, H!Rehash(s)) /\ Keeps(s, H!Reorganize(s))
<1>1. Keeps(s, s)
  BY DEF Keeps
<1>2. PICK t : t = H!Bucketize(s, TRUE)
  OBVIOUS
<1>3. NodesOK(s) /\ TableOK(s)
  BY DEF Good
<1>4. Good(t) /\ SameNodes(s, t)
  BY <1>2, <1>3, BucketizeGood
<1>5. Keeps(s, t)
  BY <1>3, <1>4, SameNodesOK DEF Keeps
<1>6. Keeps(s, H!Bucketize(H!Reorder(s), FALSE))
  BY ReorderedKeeps, Zenon
<1> QED
  BY <1>1, <1>2, <1>5, <1>6 DEF H!Rehash, H!Reorganize

LEMMA IncreaseKeeps ==
  ASSUME H!HashAssumption, NEW s, Good(s), NEW memory \in BOOLEAN
  PROVE  Keeps(s, H!Increase(s, memory))
<1>1. s.capacity \in Nat /\ s.count \in Nat /\ s.next \in Nat
  BY ActiveAre DEF Good, NodesOK
<1>2. CASE s.capacity = 0
  <2>1. H!Increase(s, memory) = H!Resize(s, MinCapacity, memory)
    BY <1>2 DEF H!Increase
  <2> QED
    BY <2>1, MinCapacityIs, ResizeKeeps
<1>3. CASE s.capacity # 0 /\ s.next < s.capacity
  <2>1. H!Increase(s, memory) = s
    BY <1>1, <1>3 DEF H!Increase
  <2> QED
    BY <2>1 DEF Keeps
<1>4. CASE s.capacity # 0 /\ s.next >= s.capacity
  <2>1. H!Increase(s, memory) = IF s.count * 2 <= s.capacity THEN H!Reorganize(s)
                                ELSE H!Resize(s, s.capacity * 2, memory)
    BY <1>1, <1>4 DEF H!Increase
  <2>2. s.capacity * 2 \in Nat
    BY <1>1
  <2> QED
    BY <2>1, <2>2, ResizeKeeps, RehashKeeps
<1> QED
  BY <1>1, <1>2, <1>3, <1>4

-----------------------------------------------------------------------------
(* The containers that are new.                                            *)

LEMMA EmptyIsGood ==
  ASSUME H!HashAssumption
  PROVE  Good(H!EmptyHashSet) /\ DataOf(H!EmptyHashSet) = {} /\ H!ActiveSlots(H!EmptyHashSet) = {}
<1> DEFINE s == H!EmptyHashSet
<1>1. /\ IsRecord(s) /\ s.capacity = 0 /\ s.next = 1 /\ s.count = 0 /\ s.node = << >>
      /\ s.bucket = << >> /\ s.pointer = "own"
  BY DEF H!EmptyHashSet, IsRecord, Fields
<1> HIDE DEF s
<1>2. H!ActiveSlots(s) = {}
  BY <1>1 DEF H!ActiveSlots, H!Slots
<1>3. DataOf(s) = {}
  BY <1>2 DEF DataOf
<1>4. s.node \in [1..(0 - 1) -> NodeRecords \cup {NoNode}] /\ s.bucket \in [0..(0 - 1) -> Nat]
  BY <1>1
<1>5. NodesOK(s)
  <2>1. Cardinality(H!ActiveSlots(s)) = 0
    BY <1>2, FS_EmptySet
  <2> QED
    BY <1>1, <1>2, <1>4, <2>1 DEF NodesOK
<1>6. H!Cells(s) = {}
  BY <1>1 DEF H!Cells
<1>7. TableOK(s)
  BY <1>1, <1>4 DEF TableOK
<1> QED
  BY <1>2, <1>3, <1>5, <1>6, <1>7 DEF Good, ChainsOK, s

(* What the constructor of a range does with slot i of the range.          *)
Refill(e, t, i) == IF H!Active(e, i) THEN H!Link(t, t.next, e.node[i].data) ELSE t

IsRefills(f, e, a, n) == f = [i \in 0..n |-> IF i = 0 THEN a ELSE Refill(e, f[i - 1], i)]

LEMMA RefillsExist ==
  ASSUME NEW e, NEW a, NEW n \in Nat
  PROVE  \E f : IsRefills(f, e, a, n)
<1> DEFINE S == {m \in Nat : \E f : IsRefills(f, e, a, m)}
<1>1. 0 \in S
  <2>1. IsRefills([i \in 0..0 |-> a], e, a, 0)
    BY DEF IsRefills
  <2> QED
    BY <2>1
<1>2. ASSUME NEW m \in Nat, m \in S PROVE m + 1 \in S
  <2>1. PICK f : IsRefills(f, e, a, m)
    BY <1>2
  <2>2. f[0] = a /\ \A i \in 1..m : f[i] = Refill(e, f[i - 1], i)
    <3>1. DOMAIN f = 0..m /\ \A i \in 0..m : f[i] = IF i = 0 THEN a ELSE Refill(e, f[i - 1], i)
      BY <2>1 DEF IsRefills
    <3> QED
      BY <3>1
  <2> DEFINE g == [i \in 0..(m + 1) |-> IF i <= m THEN f[i] ELSE Refill(e, f[m], i)]
  <2>3. ASSUME NEW i \in 0..(m + 1) PROVE g[i] = IF i = 0 THEN a ELSE Refill(e, g[i - 1], i)
    <3>1. CASE i = 0
      BY <2>2, <3>1
    <3>2. CASE i \in 1..m
      <4>1. g[i] = f[i] /\ g[i - 1] = f[i - 1]
        BY <3>2
      <4> HIDE DEF g
      <4> QED
        BY <2>2, <3>2, <4>1
    <3>3. CASE i = m + 1
      <4>1. g[i] = Refill(e, f[m], i) /\ g[i - 1] = f[m]
        BY <3>3
      <4> HIDE DEF g
      <4> QED
        BY <3>3, <4>1
    <3> QED
      BY <3>1, <3>2, <3>3
  <2>4. g = [i \in 0..(m + 1) |-> g[i]]
    OBVIOUS
  <2> HIDE DEF g
  <2>5. IsRefills(g, e, a, m + 1)
    BY <2>3, <2>4 DEF IsRefills
  <2> QED
    BY <2>5
<1> HIDE DEF S
<1>3. n \in S
  BY <1>1, <1>2, NumberInduction
<1> QED
  BY <1>3 DEF S

(* The active slots of e up to slot i.                                     *)
UpTo(e, i) == {j \in H!ActiveSlots(e) : j <= i}

(* t holds what e does up to slot i, and there is room for the rest.       *)
IsRefilled(e, t, i) ==
  /\ Good(t) /\ t.count = Cardinality(UpTo(e, i)) /\ t.next = t.count + 1
  /\ e.count < t.capacity /\ H!Cells(t) # {}
  /\ DataOf(t) = {e.node[j].data : j \in UpTo(e, i)}

LEMMA RefillKeeps ==
  ASSUME H!HashAssumption, NEW e, NodesOK(e), NEW i \in Nat, NEW t, IsRefilled(e, t, i)
  PROVE  IsRefilled(e, Refill(e, t, i + 1), i + 1)
<1> DEFINE A == H!ActiveSlots(e)
           k == i + 1
<1>1. /\ A \subseteq Nat /\ IsFiniteSet(A) /\ e.count \in Nat
      /\ \A j : H!Active(e, j) <=> j \in A
      /\ \A j \in A : e.node[j].data \in H!Entries
  <2>1. A \subseteq 1..(e.next - 1) /\ e.next \in Nat
    BY ActiveAre
  <2>2. A \subseteq Nat
    BY <2>1
  <2> QED
    BY <2>2, ActiveAre
<1>2. e.count = Cardinality(A) /\ \A j, m \in A : e.node[j].data.key = e.node[m].data.key => j = m
  BY DEF NodesOK
<1>3. /\ Good(t) /\ t.count = Cardinality(UpTo(e, i)) /\ t.next = t.count + 1
      /\ e.count < t.capacity /\ H!Cells(t) # {}
      /\ DataOf(t) = {e.node[j].data : j \in UpTo(e, i)}
  BY DEF IsRefilled
<1>4. UpTo(e, k) = IF k \in A THEN UpTo(e, i) \cup {k} ELSE UpTo(e, i)
  BY <1>1 DEF UpTo
<1>5. CASE k \notin A
  <2>1. Refill(e, t, k) = t
    BY <1>1, <1>5 DEF Refill
  <2> QED
    BY <1>3, <1>4, <1>5, <2>1 DEF IsRefilled
<1>6. CASE k \in A
  <2>1. PICK data, u : data = e.node[k].data /\ u = H!Link(t, t.next, data)
    OBVIOUS
  <2>2. Refill(e, t, k) = u
    BY <1>1, <1>6, <2>1 DEF Refill
  <2>3. k \notin UpTo(e, i) /\ UpTo(e, i) \subseteq A
    BY <1>1 DEF UpTo
  <2>4. IsFiniteSet(UpTo(e, i)) /\ Cardinality(UpTo(e, k)) = Cardinality(UpTo(e, i)) + 1
    <3>1. IsFiniteSet(UpTo(e, i))
      BY <1>1, <2>3, FS_Subset
    <3> QED
      BY <1>4, <1>6, <2>3, <3>1, FS_AddElement
  <2>5. Cardinality(UpTo(e, k)) <= e.count
    <3>1. UpTo(e, k) \subseteq A
      BY DEF UpTo
    <3>2. Cardinality(UpTo(e, k)) <= Cardinality(A)
      BY <1>1, <3>1, FS_Subset
    <3> QED
      BY <1>2, <3>2
  <2>6. t.capacity \in Nat /\ t.next \in Nat \ {0} /\ t.count \in Nat /\ H!Slots(t) = 1..(t.capacity - 1)
    BY <1>3, ActiveAre DEF Good, NodesOK
  <2>7. t.next \in H!Slots(t) /\ t.next <= t.next
    <3>1. t.next <= e.count
      BY <1>3, <2>4, <2>5
    <3> QED
      BY <1>1, <1>3, <2>6, <3>1
  <2>8. t.next \notin H!ActiveSlots(t)
    BY <1>3, NextIsFree DEF Good
  <2>9. data \in H!Entries
    BY <1>1, <1>6, <2>1
  <2>10. HoldsKey(t, data.key) = {}
    <3> SUFFICES ASSUME NEW j \in H!ActiveSlots(t), t.node[j].data.key = data.key PROVE FALSE
      BY DEF HoldsKey
    <3>1. t.node[j].data \in DataOf(t)
      BY DEF DataOf
    <3>2. PICK m \in UpTo(e, i) : e.node[m].data = t.node[j].data
      BY <1>3, <3>1
    <3>3. m = k
      BY <1>2, <1>6, <2>1, <2>3, <3>2
    <3> QED
      BY <2>3, <3>3
  <2>11. IsAdded(t, u, t.next, data)
    <3>1. PICK n : n = t.next
      OBVIOUS
    <3>2. n \in H!Slots(t) /\ n <= t.next /\ n \notin H!ActiveSlots(t) /\ u = H!Link(t, n, data)
      BY <2>1, <2>7, <2>8, <3>1
    <3>3. IsAdded(t, u, n, data)
      BY <1>3, <2>9, <2>10, <3>2, LinkAdds
    <3> QED
      BY <3>1, <3>3
  <2>12. DataOf(u) = {e.node[j].data : j \in UpTo(e, k)}
    <3>1. DataOf(u) = DataOf(t) \cup {data}
      BY <2>11 DEF IsAdded
    <3> QED
      BY <1>3, <1>4, <1>6, <2>1, <3>1
  <2>13. /\ Good(u) /\ u.count = t.count + 1 /\ u.next = t.next + 1 /\ u.capacity = t.capacity
         /\ H!Cells(u) = H!Cells(t)
    BY <2>11 DEF IsAdded
  <2> QED
    BY <1>3, <2>2, <2>4, <2>12, <2>13 DEF IsRefilled
<1> QED
  BY <1>5, <1>6

(* The constructor copies all of the range.                                *)
LEMMA RefilledKeeps ==
  ASSUME H!HashAssumption, NEW e, Good(e)
  PROVE  Keeps(e, H!Refilled(e))
<1> DEFINE n == e.next - 1
           a == H!Resize(H!EmptyHashSet, e.count + 1, TRUE)
           f[i \in 0..n] == IF i = 0 THEN a ELSE Refill(e, f[i - 1], i)
           S == {i \in Nat : i <= n => IsRefilled(e, f[i], i)}
<1>1. NodesOK(e) /\ n \in Nat /\ e.count \in Nat /\ H!ActiveSlots(e) \subseteq 1..n
  BY ActiveAre DEF Good
<1>2. \E w : w = [i \in 0..n |-> IF i = 0 THEN a ELSE Refill(e, w[i - 1], i)]
  <2> HIDE DEF a, n
  <2>1. PICK w : IsRefills(w, e, a, n)
    BY <1>1, RefillsExist
  <2> QED
    BY <2>1 DEF IsRefills
<1>3. f = [i \in 0..n |-> IF i = 0 THEN a ELSE Refill(e, f[i - 1], i)]
  BY <1>2
<1>4. H!Refilled(e) = f[n]
  BY DEF H!Refilled, Refill
<1> HIDE DEF f
<1>5. f[0] = a /\ \A i \in 1..n : f[i] = Refill(e, f[i - 1], i)
  <2>1. \A i \in 0..n : f[i] = IF i = 0 THEN a ELSE Refill(e, f[i - 1], i)
    BY <1>3
  <2>2. 0 \in 0..n /\ \A i \in 1..n : i \in 0..n /\ i # 0
    BY <1>1
  <2> QED
    BY <2>1, <2>2
<1>6. IsRefilled(e, a, 0)
  <2>1. PICK s, capacity :
          /\ s = H!EmptyHashSet
          /\ capacity = IF e.count + 1 < MinCapacity THEN MinCapacity ELSE e.count + 1
    OBVIOUS
  <2>2. /\ Good(s) /\ DataOf(s) = {} /\ s.capacity = 0 /\ s.next = 1 /\ s.count = 0
        /\ H!Reorder(s) = s
    <3>1. s.capacity = 0 /\ s.next = 1 /\ s.count = 0
      BY <2>1 DEF H!EmptyHashSet
    <3>2. ~H!HasGaps(s)
      BY <3>1 DEF H!HasGaps
    <3> QED
      BY <2>1, <3>1, <3>2, EmptyIsGood DEF H!Reorder
  <2>3. capacity \in Nat /\ capacity >= MinCapacity /\ capacity > e.count /\ capacity # 0
    BY <1>1, <2>1, MinCapacityIs
  <2> DEFINE u == [H!Resized(s, capacity) EXCEPT !.bucket = H!NoChains(capacity), !.pointer = "own"]
             enlarged == H!Bucketize(u, FALSE)
             tidied == IF H!HasGaps(s) THEN H!Bucketize(H!Reorder(s), FALSE) ELSE s
  <2>4. a = CASE e.count + 1 <= s.count -> s
              [] e.count + 1 > s.count /\ capacity # s.capacity /\ TRUE -> enlarged
              [] e.count + 1 > s.count /\ (capacity = s.capacity \/ ~TRUE) -> tidied
    BY <2>1, <2>2 DEF H!Resize
  <2> HIDE DEF enlarged, tidied, a
  <2>5. ~(e.count + 1 <= s.count) /\ e.count + 1 > s.count /\ capacity # s.capacity
    BY <1>1, <2>2, <2>3
  <2>6. IsEnlarged(s, capacity, a)
    BY <2>4, <2>5 DEF enlarged, IsEnlarged
  <2>7. NodesOK(s) /\ s.next = s.count + 1 /\ capacity > s.count
    BY <1>1, <2>2, <2>3 DEF Good
  <2>8. Keeps(s, a) /\ a.capacity = capacity /\ a.next = s.next /\ a.count = s.count /\ H!Cells(a) # {}
    BY <2>3, <2>6, <2>7, EnlargeKeeps
  <2>9. UpTo(e, 0) = {} /\ Cardinality(UpTo(e, 0)) = 0
    <3>1. UpTo(e, 0) = {}
      BY <1>1 DEF UpTo
    <3> QED
      BY <3>1, FS_EmptySet
  <2> QED
    BY <2>2, <2>3, <2>8, <2>9 DEF Keeps, IsRefilled
<1> HIDE DEF a
<1>7. 0 \in S
  BY <1>5, <1>6
<1>8. ASSUME NEW i \in Nat, i \in S PROVE i + 1 \in S
  <2> SUFFICES ASSUME i + 1 <= n PROVE IsRefilled(e, f[i + 1], i + 1)
    OBVIOUS
  <2>1. IsRefilled(e, f[i], i)
    BY <1>1, <1>8
  <2>2. i + 1 \in 1..n /\ (i + 1) - 1 = i
    BY <1>1
  <2>3. f[i + 1] = Refill(e, f[i], i + 1)
    BY <1>5, <2>2
  <2> QED
    BY <1>1, <2>1, <2>3, RefillKeeps
<1>9. IsRefilled(e, f[n], n)
  <2> HIDE DEF S
  <2>1. n \in S
    BY <1>1, <1>7, <1>8, NumberInduction
  <2> QED
    BY <1>1, <2>1 DEF S
<1>10. UpTo(e, n) = H!ActiveSlots(e)
  BY <1>1 DEF UpTo
<1> QED
  BY <1>4, <1>9, <1>10 DEF IsRefilled, Keeps, DataOf

-----------------------------------------------------------------------------
(* The other operations on one set.                                        *)

LEMMA LinkedNone ==
  ASSUME NEW node
  PROVE  IsLinked(node, 0, << >>) /\ Range(<< >>) = {}
<1>1. << >> \in Seq(DOMAIN node) /\ Len(<< >>) = 0 /\ DOMAIN << >> = {}
  OBVIOUS
<1>2. IsInjective(<< >>)
  BY <1>1 DEF IsInjective
<1>3. SlotAt(<< >>, 1) = 0
  BY <1>1 DEF SlotAt
<1>4. 1..0 = {}
  OBVIOUS
<1> QED
  BY <1>1, <1>2, <1>3, <1>4 DEF IsLinked, Range

(* A set without nodes, the buckets of which are all empty.                *)
LEMMA NoneIsGood ==
  ASSUME H!HashAssumption, NEW s, IsRecord(s), s.capacity \in Nat,
         s.capacity = 0 \/ s.capacity >= MinCapacity,
         s.next \in 1..(IF s.capacity = 0 THEN 1 ELSE s.capacity), s.count = 0,
         s.node \in [1..(s.capacity - 1) -> NodeRecords \cup {NoNode}],
         H!ActiveSlots(s) = {},
         NEW n \in Nat, s.bucket = [b \in 0..(n - 1) |-> 0],
         s.capacity # 0 => s.pointer = "own"
  PROVE  Good(s) /\ DataOf(s) = {}
<1>1. NodesOK(s)
  <2>1. Cardinality(H!ActiveSlots(s)) = 0
    BY FS_EmptySet
  <2> QED
    BY <2>1 DEF NodesOK
<1>2. H!Cells(s) = 0..(n - 1) /\ s.bucket \in [0..(n - 1) -> Nat]
  BY DEF H!Cells
<1>3. TableOK(s)
  BY <1>2 DEF TableOK
<1>4. ASSUME NEW b \in H!Cells(s)
      PROVE  \E c : IsLinked(s.node, s.bucket[b], c) /\ Range(c) = Members(s, b)
  <2>1. Members(s, b) = {}
    BY DEF Members
  <2>2. s.bucket[b] = 0
    BY <1>2, <1>4
  <2>3. IsLinked(s.node, s.bucket[b], << >>) /\ Range(<< >>) = Members(s, b)
    BY <2>1, <2>2, LinkedNone
  <2> QED
    BY <2>3
<1>5. DataOf(s) = {}
  BY DEF DataOf
<1> QED
  BY <1>1, <1>3, <1>4, <1>5 DEF Good, ChainsOK

LEMMA ClearedIsGood ==
  ASSUME H!HashAssumption, NEW s, Good(s),
         NEW t, t = [H!Cleared(s) EXCEPT !.bucket = [b \in H!Cells(s) |-> 0]]
  PROVE  Good(t) /\ DataOf(t) = {}
<1>1. PICK n \in Nat : s.bucket \in [0..(n - 1) -> Nat]
  BY DEF Good, TableOK
<1>2. H!Cells(s) = 0..(n - 1)
  BY <1>1 DEF H!Cells
<1>3. /\ IsRecord(s) /\ s.capacity \in Nat /\ (s.capacity = 0 \/ s.capacity >= MinCapacity)
      /\ s.next \in 1..(IF s.capacity = 0 THEN 1 ELSE s.capacity)
      /\ s.node \in [1..(s.capacity - 1) -> NodeRecords \cup {NoNode}]
      /\ s.capacity # 0 => s.pointer = "own"
  BY DEF Good, NodesOK, TableOK
<1>4. CASE s.count = 0
  <2>1. t = [s EXCEPT !.bucket = [b \in 0..(n - 1) |-> 0]]
    BY <1>2, <1>4 DEF H!Cleared
  <2>2. /\ IsRecord(t) /\ t.capacity = s.capacity /\ t.next = s.next /\ t.count = 0
        /\ t.node = s.node /\ t.bucket = [b \in 0..(n - 1) |-> 0] /\ t.pointer = s.pointer
    BY <1>3, <1>4, <2>1 DEF IsRecord, Fields
  <2>3. H!ActiveSlots(s) = {}
    BY <1>4, NoneActive DEF Good
  <2>4. H!ActiveSlots(t) = {}
    BY <2>2, <2>3 DEF H!ActiveSlots, H!Slots
  <2> QED
    BY <1>3, <2>2, <2>4, NoneIsGood
<1>5. CASE s.count # 0
  <2> DEFINE node == [i \in H!Slots(s) |-> NoNode]
  <2>1. t = [s EXCEPT !.next = 1, !.count = 0, !.node = node, !.bucket = [b \in 0..(n - 1) |-> 0]]
    <3>1. H!Cleared(s) = [s EXCEPT !.next = 1, !.count = 0, !.node = node]
      BY <1>5 DEF H!Cleared
    <3> HIDE DEF node
    <3> QED
      BY <1>2, <1>3, <3>1 DEF IsRecord, Fields
  <2>2. H!Slots(s) = 1..(s.capacity - 1)
    BY DEF H!Slots
  <2>3. node \in [1..(s.capacity - 1) -> NodeRecords \cup {NoNode}] /\ \A i \in H!Slots(s) : node[i] = NoNode
    BY <2>2
  <2> HIDE DEF node
  <2>4. /\ IsRecord(t) /\ t.capacity = s.capacity /\ t.next = 1 /\ t.count = 0
        /\ t.node = node /\ t.bucket = [b \in 0..(n - 1) |-> 0] /\ t.pointer = s.pointer
    BY <1>3, <2>1, Zenon DEF IsRecord, Fields
  <2>5. H!ActiveSlots(t) = {}
    BY <2>3, <2>4 DEF H!ActiveSlots, H!Slots
  <2>6. 1 \in 1..(IF t.capacity = 0 THEN 1 ELSE t.capacity)
    BY <1>3, <2>4, MinCapacityIs
  <2> QED
    BY <1>3, <2>3, <2>4, <2>5, <2>6, NoneIsGood
<1> QED
  BY <1>4, <1>5

(* The set that was moved away.                                            *)
LEMMA AbandonedIsGood ==
  ASSUME H!HashAssumption, NEW s, Good(s), NEW t, t = H!Abandoned(s)
  PROVE  Good(t) /\ DataOf(t) = {}
<1>1. IsRecord(s)
  BY DEF Good, NodesOK
<1>2. PICK pointer : pointer = IF H!Cells(s) # {} THEN "stale" ELSE s.pointer
  OBVIOUS
<1>3. /\ IsRecord(t) /\ t.capacity = 0 /\ t.next = 1 /\ t.count = 0
      /\ t.node = << >> /\ t.bucket = << >> /\ t.pointer = pointer
  <2>1. H!MovedFrom(s) = [s EXCEPT !.capacity = 0, !.next = 1, !.count = 0, !.node = << >>]
    BY DEF H!MovedFrom
  <2>2. t = [H!MovedFrom(s) EXCEPT !.bucket = << >>,
                                   !.pointer = IF H!Cells(s) # {} THEN "stale" ELSE @]
    BY DEF H!Abandoned
  <2> QED
    BY <1>1, <1>2, <2>1, <2>2, Zenon DEF IsRecord, Fields
<1>4. H!ActiveSlots(t) = {}
  BY <1>3 DEF H!ActiveSlots, H!Slots
<1>5. t.node \in [1..(t.capacity - 1) -> NodeRecords \cup {NoNode}]
  BY <1>3
<1>6. PICK n \in Nat : n = 0
  OBVIOUS
<1>7. t.bucket = [b \in 0..(n - 1) |-> 0]
  BY <1>3, <1>6
<1> QED
  BY <1>3, <1>4, <1>5, <1>7, NoneIsGood

(* The value of a node changes.                                            *)
IsAssigned(s, t, i, v) ==
  /\ Good(t) /\ H!ActiveSlots(t) = H!ActiveSlots(s)
  /\ t.node[i].data = [key |-> s.node[i].data.key, val |-> v]
  /\ \A j \in H!ActiveSlots(s) \ {i} : t.node[j].data = s.node[j].data
  /\ t.capacity = s.capacity /\ t.next = s.next /\ t.count = s.count

LEMMA AssignKeeps ==
  ASSUME H!HashAssumption, NEW s, Good(s), NEW i \in H!ActiveSlots(s),
         NEW v \in Values \cup {Default}, NEW t, t = [s EXCEPT !.node[i].data.val = v]
  PROVE  IsAssigned(s, t, i, v)
<1> DEFINE A == H!ActiveSlots(s)
           N == 1..(s.capacity - 1)
<1>1. /\ H!Slots(s) = N /\ DOMAIN s.node = N /\ A \subseteq N
      /\ \A j : j \in A <=> j \in N /\ s.node[j] # NoNode
      /\ \A j \in A : s.node[j] \in NodeRecords
  BY ActiveAre DEF Good
<1>2. NodesOK(s) /\ TableOK(s) /\ ChainsOK(s) /\ IsRecord(s)
      /\ s.node \in [N -> NodeRecords \cup {NoNode}]
  BY DEF Good, NodesOK
<1>3. PICK e, d : e = s.node[i] /\ d = [e EXCEPT !.data.val = v]
  OBVIOUS
<1>4. /\ e \in NodeRecords /\ d \in NodeRecords /\ d # NoNode
      /\ d.data = [key |-> e.data.key, val |-> v]
      /\ d.prev = e.prev /\ d.next = e.next /\ d.temp = e.temp
  <2>1. e \in NodeRecords
    BY <1>1, <1>3
  <2>2. PICK p : p = [e.data EXCEPT !.val = v]
    OBVIOUS
  <2>3. p \in H!Entries /\ p = [key |-> e.data.key, val |-> v]
    BY <2>1, <2>2 DEF NodeRecords, H!Entries
  <2>4. d = [e EXCEPT !.data = p]
    BY <1>3, <2>2
  <2> QED
    BY <2>1, <2>3, <2>4, NoNodeIsNone DEF NodeRecords
<1>5. /\ IsRecord(t) /\ t.capacity = s.capacity /\ t.next = s.next /\ t.count = s.count
      /\ t.bucket = s.bucket /\ t.pointer = s.pointer /\ t.node = [s.node EXCEPT ![i] = d]
  <2>1. t = [s EXCEPT !.node = [s.node EXCEPT ![i] = d]]
    BY <1>3
  <2> QED
    BY <1>2, <2>1 DEF IsRecord, Fields
<1>6. /\ DOMAIN t.node = N /\ t.node[i] = d /\ i \in N
      /\ \A j \in N : j # i => t.node[j] = s.node[j]
      /\ t.node \in [N -> NodeRecords \cup {NoNode}]
  <2>1. i \in N
    BY <1>1
  <2>2. PICK T : T = NodeRecords \cup {NoNode}
    OBVIOUS
  <2>3. d \in T /\ s.node \in [N -> T]
    BY <1>2, <1>4, <2>2
  <2>4. t.node \in [N -> T] /\ t.node[i] = d /\ \A j \in N : j # i => t.node[j] = s.node[j]
    <3>1. PICK node, new : node = s.node /\ new = [node EXCEPT ![i] = d]
      OBVIOUS
    <3>2. node \in [N -> T] /\ d \in T /\ i \in N
      BY <2>1, <2>3, <3>1
    <3>3. new \in [N -> T] /\ new[i] = d /\ \A j \in N : j # i => new[j] = node[j]
      BY ONLY <3>1, <3>2
    <3>4. t.node = new
      BY <1>5, <3>1
    <3> QED
      BY <3>1, <3>3, <3>4
  <2> QED
    BY <2>1, <2>2, <2>4
<1>7. H!ActiveSlots(t) = A
  <2>1. H!Slots(t) = N
    BY <1>5 DEF H!Slots
  <2>2. \A j \in N : t.node[j] # NoNode <=> s.node[j] # NoNode
    BY <1>1, <1>4, <1>6
  <2> QED
    BY <1>1, <2>1, <2>2 DEF H!ActiveSlots
<1>8. \A j \in A : /\ t.node[j] # NoNode /\ t.node[j].data.key = s.node[j].data.key
                   /\ t.node[j].temp = s.node[j].temp
                   /\ t.node[j].next = s.node[j].next /\ t.node[j].prev = s.node[j].prev
  BY <1>1, <1>3, <1>4, <1>6
<1>9. NodesOK(t)
  <2>1. /\ \A j, k \in A : t.node[j].data.key = t.node[k].data.key => j = k
        /\ \A j \in A : t.node[j].temp = HashOf[t.node[j].data.key]
        /\ \A j \in A : j < t.next
        /\ t.count = Cardinality(A)
        /\ t.capacity \in Nat /\ (t.capacity = 0 \/ t.capacity >= MinCapacity)
        /\ t.next \in 1..(IF t.capacity = 0 THEN 1 ELSE t.capacity)
    BY <1>2, <1>5, <1>8 DEF NodesOK
  <2> QED
    BY <1>5, <1>6, <1>7, <2>1 DEF NodesOK
<1>10. H!Cells(t) = H!Cells(s) /\ TableOK(t)
  BY <1>2, <1>5 DEF TableOK, H!Cells
<1>11. \A b : Members(t, b) = Members(s, b)
  <2>1. \A h : H!CellOf(t, h) = H!CellOf(s, h)
    BY <1>10, SameCells
  <2> QED
    BY <1>7, <1>8, <2>1 DEF Members
<1>12. ASSUME NEW b \in H!Cells(t)
       PROVE  \E c : IsLinked(t.node, t.bucket[b], c) /\ Range(c) = Members(t, b)
  <2>1. PICK c : IsLinked(s.node, s.bucket[b], c) /\ Range(c) = Members(s, b)
    BY <1>2, <1>10 DEF ChainsOK
  <2>2. Range(c) \subseteq A
    BY <2>1 DEF Members
  <2>3. \A j \in Range(c) : /\ t.node[j] # NoNode /\ t.node[j].next = s.node[j].next
                            /\ t.node[j].prev = s.node[j].prev
    BY <1>8, <2>2
  <2>4. DOMAIN t.node = DOMAIN s.node
    BY <1>1, <1>6
  <2>5. IsLinked(t.node, s.bucket[b], c)
    BY <2>1, <2>3, <2>4, StaysLinked
  <2> QED
    BY <1>5, <1>11, <2>1, <2>5
<1>13. ChainsOK(t)
  BY <1>12 DEF ChainsOK
<1> QED
  BY <1>1, <1>3, <1>4, <1>5, <1>6, <1>7, <1>9, <1>10, <1>13 DEF Good, IsAssigned

(* The same nodes with buckets of their own.                               *)
IsRebuilt(s, t) ==
  LET e == [s EXCEPT !.bucket = << >>, !.pointer = "own"]
  IN t = IF e.count = 0 THEN e
         ELSE H!Bucketize([e EXCEPT !.bucket = H!NoChains(e.capacity)], TRUE)

LEMMA RebuiltKeeps ==
  ASSUME H!HashAssumption, NEW s, Good(s), NEW t, IsRebuilt(s, t)
  PROVE  Keeps(s, t)
<1> DEFINE e == [s EXCEPT !.bucket = << >>, !.pointer = "own"]
<1>0. t = IF e.count = 0 THEN e
          ELSE H!Bucketize([e EXCEPT !.bucket = H!NoChains(e.capacity)], TRUE)
  BY DEF IsRebuilt
<1>1. NodesOK(s) /\ IsRecord(s) /\ s.capacity \in Nat
  BY DEF Good, NodesOK
<1>2. /\ IsRecord(e) /\ e.capacity = s.capacity /\ e.next = s.next /\ e.count = s.count
      /\ e.node = s.node /\ e.bucket = << >> /\ e.pointer = "own"
  BY <1>1 DEF IsRecord, Fields
<1> HIDE DEF e
<1>3. CASE s.count = 0
  <2>1. t = e
    BY <1>0, <1>2, <1>3
  <2>2. H!ActiveSlots(s) = {}
    BY <1>1, <1>3, NoneActive
  <2>3. H!ActiveSlots(e) = {}
    BY <1>2, <2>2 DEF H!ActiveSlots, H!Slots
  <2>4. PICK n \in Nat : n = 0 /\ e.bucket = [b \in 0..(n - 1) |-> 0]
    <3>1. e.bucket = [b \in 0..(0 - 1) |-> 0]
      BY <1>2
    <3> QED
      BY <3>1
  <2>5. /\ e.capacity \in Nat /\ (e.capacity = 0 \/ e.capacity >= MinCapacity) /\ e.count = 0
        /\ e.next \in 1..(IF e.capacity = 0 THEN 1 ELSE e.capacity)
        /\ e.node \in [1..(e.capacity - 1) -> NodeRecords \cup {NoNode}]
    BY <1>1, <1>2, <1>3 DEF NodesOK
  <2>6. Good(e) /\ DataOf(e) = {}
    <3>1. e.capacity # 0 => e.pointer = "own"
      BY <1>2
    <3>2. /\ H!HashAssumption /\ IsRecord(e) /\ H!ActiveSlots(e) = {}
          /\ e.bucket = [b \in 0..(n - 1) |-> 0] /\ n \in Nat
      BY <1>2, <2>3, <2>4
    <3> QED
      BY ONLY <2>5, <3>1, <3>2, NoneIsGood
  <2>7. DataOf(s) = {}
    BY <2>2 DEF DataOf
  <2> QED
    BY <2>1, <2>6, <2>7 DEF Keeps
<1>4. CASE s.count # 0
  <2>1. PICK u : u = [e EXCEPT !.bucket = H!NoChains(e.capacity)]
    OBVIOUS
  <2>2. t = H!Bucketize(u, TRUE)
    BY <1>0, <1>2, <1>4, <2>1
  <2>3. /\ IsRecord(u) /\ u.capacity = s.capacity /\ u.next = s.next /\ u.count = s.count
        /\ u.node = s.node /\ u.bucket = H!NoChains(s.capacity) /\ u.pointer = "own"
    BY <1>2, <2>1 DEF IsRecord, Fields
  <2>4. H!ActiveSlots(u) = H!ActiveSlots(s)
    BY <2>3 DEF H!ActiveSlots, H!Slots
  <2>5. NodesOK(u) /\ DataOf(u) = DataOf(s)
    BY <1>1, <2>3, <2>4 DEF NodesOK, DataOf
  <2>6. s.capacity >= MinCapacity
    <3>1. s.capacity # 0
      <4>1. s.count <= s.next - 1 /\ s.count \in Nat
        BY <1>1, ActiveAre
      <4>2. s.capacity = 0 => s.next = 1
        BY <1>1 DEF NodesOK
      <4> QED
        BY <1>4, <4>1, <4>2
    <3> QED
      BY <1>1, <3>1 DEF NodesOK
  <2>7. TableOK(u)
    <3>1. PICK n : n = H!Buckets(s.capacity)
      OBVIOUS
    <3>2. n \in Nat /\ n >= 1
      BY <1>1, <2>6, <3>1, MoreSlotsMoreBuckets
    <3>3. u.bucket = [b \in 0..(n - 1) |-> 0]
      BY <2>3, <3>1 DEF H!NoChains
    <3>4. u.bucket \in [0..(n - 1) -> Nat] /\ H!Cells(u) = 0..(n - 1)
      BY <3>3 DEF H!Cells
    <3>5. 0 \in 0..(n - 1)
      BY <3>2
    <3> QED
      BY <2>3, <3>2, <3>4, <3>5 DEF TableOK
  <2>8. Good(t) /\ SameNodes(u, t)
    BY <2>2, <2>5, <2>7, BucketizeGood
  <2> QED
    BY <2>5, <2>8, SameNodesOK DEF Keeps
<1> QED
  BY <1>3, <1>4

(* The pointer to buckets that are not there.                              *)
LEMMA PointedKeeps ==
  ASSUME NEW s, Good(s), NEW t, t = [s EXCEPT !.pointer = IF @ = "own" THEN "own" ELSE "null"]
  PROVE  Keeps(s, t)
<1>1. IsRecord(s)
  BY DEF Good, NodesOK
<1>2. PICK pointer : pointer = IF s.pointer = "own" THEN "own" ELSE "null"
  OBVIOUS
<1>3. /\ IsRecord(t) /\ t.capacity = s.capacity /\ t.next = s.next /\ t.count = s.count
      /\ t.node = s.node /\ t.bucket = s.bucket /\ t.pointer = pointer
  BY <1>1, <1>2 DEF IsRecord, Fields
<1>4. H!ActiveSlots(t) = H!ActiveSlots(s) /\ H!Cells(t) = H!Cells(s)
  BY <1>3 DEF H!ActiveSlots, H!Slots, H!Cells
<1>5. NodesOK(t) /\ DataOf(t) = DataOf(s)
  BY <1>3, <1>4 DEF Good, NodesOK, DataOf
<1>6. TableOK(t)
  BY <1>2, <1>3, <1>4 DEF Good, TableOK
<1>7. \A b : Members(t, b) = Members(s, b)
  BY <1>3, <1>4, SameCells DEF Members
<1>8. ChainsOK(t)
  BY <1>3, <1>4, <1>7 DEF Good, ChainsOK
<1> QED
  BY <1>5, <1>6, <1>8 DEF Good, Keeps

-----------------------------------------------------------------------------
(* The mapping that a set of entries makes.                                *)

(* No key has two entries.                                                 *)
Single(D) == D \subseteq H!Entries /\ \A d, e \in D : d.key = e.key => d = e
KeysOf(D) == {d.key : d \in D}
MapOf(D) == [k \in KeysOf(D) |-> (CHOOSE d \in D : d.key = k).val]

LEMMA MapIs ==
  ASSUME NEW D, Single(D)
  PROVE  /\ DOMAIN MapOf(D) = KeysOf(D)
         /\ \A d \in D : d.key \in KeysOf(D) /\ MapOf(D)[d.key] = d.val
<1>1. ASSUME NEW d \in D PROVE d.key \in KeysOf(D) /\ MapOf(D)[d.key] = d.val
  <2>1. d.key \in KeysOf(D)
    BY DEF KeysOf
  <2>2. (CHOOSE e \in D : e.key = d.key) = d
    <3>1. PICK c : c = CHOOSE e \in D : e.key = d.key
      OBVIOUS
    <3>2. c \in D /\ c.key = d.key
      BY <3>1
    <3> QED
      BY <3>1, <3>2 DEF Single
  <2>3. MapOf(D)[d.key] = (CHOOSE e \in D : e.key = d.key).val
    BY <2>1 DEF MapOf
  <2> QED
    BY <2>1, <2>2, <2>3
<1> QED
  BY <1>1 DEF MapOf

(* There is no other one.                                                  *)
LEMMA MapOnly ==
  ASSUME NEW D, Single(D), NEW f, f = [k \in KeysOf(D) |-> f[k]], \A d \in D : f[d.key] = d.val
  PROVE  f = MapOf(D)
<1>1. \A k \in KeysOf(D) : f[k] = MapOf(D)[k]
  <2> SUFFICES ASSUME NEW k \in KeysOf(D) PROVE f[k] = MapOf(D)[k]
    OBVIOUS
  <2>1. PICK d \in D : d.key = k
    BY DEF KeysOf
  <2> QED
    BY <2>1, MapIs
<1>2. MapOf(D) = [k \in KeysOf(D) |-> MapOf(D)[k]]
  BY DEF MapOf
<1> QED
  BY <1>1, <1>2

LEMMA MapOfNone == MapOf({}) = << >>
<1>1. KeysOf({}) = {}
  BY DEF KeysOf
<1>2. MapOf({}) = [k \in {} |-> (CHOOSE d \in {} : d.key = k).val]
  BY <1>1 DEF MapOf
<1> QED
  BY <1>2

(* An entry more or less.                                                  *)
LEMMA MapWith ==
  ASSUME NEW D, Single(D), NEW d \in H!Entries, d.key \notin KeysOf(D)
  PROVE  /\ Single(D \cup {d}) /\ KeysOf(D \cup {d}) = KeysOf(D) \cup {d.key}
         /\ MapOf(D \cup {d}) = HashPromise!With(MapOf(D), d.key, d.val)
<1>1. \A e \in D : e.key # d.key
  BY DEF KeysOf
<1>2. Single(D \cup {d})
  BY <1>1 DEF Single
<1>3. KeysOf(D \cup {d}) = KeysOf(D) \cup {d.key}
  BY DEF KeysOf
<1> DEFINE f == HashPromise!With(MapOf(D), d.key, d.val)
<1>4. f = [k \in KeysOf(D) \cup {d.key} |-> IF k = d.key THEN d.val ELSE MapOf(D)[k]]
  BY MapIs DEF HashPromise!With
<1> HIDE DEF f
<1>5. f = [k \in KeysOf(D \cup {d}) |-> f[k]]
  BY <1>3, <1>4
<1>6. ASSUME NEW e \in D \cup {d} PROVE f[e.key] = e.val
  <2>1. CASE e = d
    BY <1>4, <2>1
  <2>2. CASE e # d
    <3>1. e \in D /\ e.key # d.key /\ e.key \in KeysOf(D)
      BY <1>1, <2>2 DEF KeysOf
    <3>2. f[e.key] = MapOf(D)[e.key]
      BY <1>4, <3>1
    <3> QED
      BY <3>1, <3>2, MapIs
  <2> QED
    BY <2>1, <2>2
<1>7. f = MapOf(D \cup {d})
  <2>1. PICK E : E = D \cup {d}
    OBVIOUS
  <2>2. Single(E) /\ f = [k \in KeysOf(E) |-> f[k]] /\ \A e \in E : f[e.key] = e.val
    BY <1>2, <1>5, <1>6, <2>1
  <2>3. f = MapOf(E)
    BY ONLY <2>2, MapOnly
  <2> QED
    BY <2>1, <2>3
<1> QED
  BY <1>2, <1>3, <1>7 DEF f

LEMMA MapWithout ==
  ASSUME NEW D, Single(D), NEW d \in D
  PROVE  /\ Single(D \ {d}) /\ KeysOf(D \ {d}) = KeysOf(D) \ {d.key}
         /\ MapOf(D \ {d}) = HashPromise!Without(MapOf(D), d.key)
<1>1. \A e \in D \ {d} : e.key # d.key
  BY DEF Single
<1>2. Single(D \ {d})
  BY DEF Single
<1>3. KeysOf(D \ {d}) = KeysOf(D) \ {d.key}
  BY <1>1 DEF KeysOf
<1> DEFINE f == HashPromise!Without(MapOf(D), d.key)
<1>4. f = [k \in KeysOf(D) \ {d.key} |-> MapOf(D)[k]]
  BY MapIs DEF HashPromise!Without
<1> HIDE DEF f
<1>5. f = [k \in KeysOf(D \ {d}) |-> f[k]]
  BY <1>3, <1>4
<1>6. ASSUME NEW e \in D \ {d} PROVE f[e.key] = e.val
  <2>1. e \in D /\ e.key # d.key /\ e.key \in KeysOf(D)
    BY <1>1 DEF KeysOf
  <2>2. f[e.key] = MapOf(D)[e.key]
    BY <1>4, <2>1
  <2> QED
    BY <2>1, <2>2, MapIs
<1>7. f = MapOf(D \ {d})
  <2>1. PICK E : E = D \ {d}
    OBVIOUS
  <2>2. Single(E) /\ f = [k \in KeysOf(E) |-> f[k]] /\ \A e \in E : f[e.key] = e.val
    BY <1>2, <1>5, <1>6, <2>1
  <2>3. f = MapOf(E)
    BY ONLY <2>2, MapOnly
  <2> QED
    BY <2>1, <2>3
<1> QED
  BY <1>2, <1>3, <1>7 DEF f

(* An entry changes its value.                                             *)
LEMMA MapChanged ==
  ASSUME NEW D, Single(D), NEW d \in D, NEW v \in Values \cup {Default},
         NEW E, E = (D \ {d}) \cup {[key |-> d.key, val |-> v]}
  PROVE  /\ Single(E) /\ KeysOf(E) = KeysOf(D)
         /\ MapOf(E) = HashPromise!With(MapOf(D), d.key, v)
         /\ MapOf(E) = [MapOf(D) EXCEPT ![d.key] = v]
<1>1. PICK F, c : F = D \ {d} /\ c = [key |-> d.key, val |-> v]
  OBVIOUS
<1>2. d.key \in KeysOf(D) /\ d \in H!Entries
  BY DEF Single, KeysOf
<1>3. /\ Single(F) /\ KeysOf(F) = KeysOf(D) \ {d.key}
      /\ MapOf(F) = HashPromise!Without(MapOf(D), d.key)
  BY <1>1, MapWithout
<1>4. c \in H!Entries /\ c.key = d.key /\ c.val = v /\ c.key \notin KeysOf(F)
  BY <1>1, <1>2, <1>3 DEF H!Entries
<1>5. /\ Single(E) /\ KeysOf(E) = KeysOf(F) \cup {d.key}
      /\ MapOf(E) = HashPromise!With(MapOf(F), d.key, v)
  <2>1. E = F \cup {c}
    BY <1>1
  <2> QED
    BY <1>3, <1>4, <2>1, MapWith
<1>6. KeysOf(E) = KeysOf(D)
  BY <1>2, <1>3, <1>5
<1>7. DOMAIN MapOf(D) = KeysOf(D) /\ DOMAIN MapOf(F) = KeysOf(D) \ {d.key}
  BY <1>3, MapIs
<1>8. \A k \in KeysOf(D) \ {d.key} : MapOf(F)[k] = MapOf(D)[k]
  BY <1>3, <1>7 DEF HashPromise!Without
<1>9. MapOf(E) = [k \in KeysOf(D) |-> IF k = d.key THEN v ELSE MapOf(D)[k]]
  <2>1. MapOf(E) = [k \in (KeysOf(D) \ {d.key}) \cup {d.key} |-> IF k = d.key THEN v ELSE MapOf(F)[k]]
    BY <1>5, <1>7 DEF HashPromise!With
  <2>2. (KeysOf(D) \ {d.key}) \cup {d.key} = KeysOf(D)
    BY <1>2
  <2>3. MapOf(E) = [k \in KeysOf(D) |-> IF k = d.key THEN v ELSE MapOf(F)[k]]
    BY <2>1, <2>2
  <2> QED
    BY <1>8, <2>3
<1>10. HashPromise!With(MapOf(D), d.key, v) = [k \in KeysOf(D) |-> IF k = d.key THEN v ELSE MapOf(D)[k]]
  <2>1. KeysOf(D) \cup {d.key} = KeysOf(D)
    BY <1>2
  <2> QED
    BY <1>7, <2>1 DEF HashPromise!With
<1>11. [MapOf(D) EXCEPT ![d.key] = v] = [k \in KeysOf(D) |-> IF k = d.key THEN v ELSE MapOf(D)[k]]
  BY <1>7
<1> QED
  BY <1>5, <1>6, <1>9, <1>10, <1>11

(* What a container stands for.                                            *)
ContentsOf(s) ==
  [key \in {s.node[i].data.key : i \in H!ActiveSlots(s)} |->
     (CHOOSE e \in {s.node[i] : i \in H!ActiveSlots(s)} : e.data.key = key).data.val]

LEMMA DataIsSingle ==
  ASSUME H!HashAssumption, NEW s, Good(s)
  PROVE  /\ Single(DataOf(s)) /\ ContentsOf(s) = MapOf(DataOf(s))
         /\ \A key : key \in KeysOf(DataOf(s)) <=> HoldsKey(s, key) # {}
<1> DEFINE A == H!ActiveSlots(s)
           D == DataOf(s)
           E == {s.node[i] : i \in A}
<1>1. /\ \A i \in A : s.node[i].data \in H!Entries
      /\ \A i, j \in A : s.node[i].data.key = s.node[j].data.key => i = j
  BY ActiveAre DEF Good, NodesOK
<1>2. Single(D)
  BY <1>1 DEF Single, DataOf
<1>3. KeysOf(D) = {s.node[i].data.key : i \in A}
  BY DEF KeysOf, DataOf
<1>4. ASSUME NEW d \in D PROVE ContentsOf(s)[d.key] = d.val
  <2>1. PICK i \in A : s.node[i].data = d
    BY DEF DataOf
  <2>2. PICK e : e = CHOOSE f \in E : f.data.key = d.key
    OBVIOUS
  <2>3. e \in E /\ e.data.key = d.key
    BY <2>1, <2>2
  <2>4. e.data = d
    BY <1>1, <2>1, <2>3
  <2>5. d.key \in {s.node[j].data.key : j \in A}
    BY <2>1
  <2>6. ContentsOf(s)[d.key] = e.data.val
    <3>1. ContentsOf(s)[d.key] = (CHOOSE f \in E : f.data.key = d.key).data.val
      BY <2>5 DEF ContentsOf
    <3> QED
      BY <2>2, <3>1
  <2> QED
    BY <2>4, <2>6
<1>5. ContentsOf(s) = [k \in KeysOf(D) |-> ContentsOf(s)[k]]
  BY <1>3 DEF ContentsOf
<1>6. ContentsOf(s) = MapOf(D)
  <2> HIDE DEF D
  <2> QED
    BY <1>2, <1>4, <1>5, MapOnly
<1>7. \A key : key \in KeysOf(D) <=> HoldsKey(s, key) # {}
  BY <1>3 DEF HoldsKey
<1> QED
  BY <1>2, <1>6, <1>7

-----------------------------------------------------------------------------
(* The steps.                                                              *)

(* The slot of the extracted node is free, and below next.                 *)
OutFree(o, r) ==
  o # Nobody =>
    /\ o.from \in Objects /\ o.data \in H!Entries
    /\ o.slot \in 1..(r[o.from].next - 1) /\ o.slot \notin H!ActiveSlots(r[o.from])

HashInv ==
  /\ status = "hash"
  /\ obj = [s \in Objects |-> obj[s]]
  /\ OutFree(out, obj)
  /\ \A s \in Objects : Good(obj[s])

(* Nothing is promised any more.                                           *)
HashLost == status = "hash broken"

Maps(r) == [s \in Objects |-> MapOf(DataOf(r[s]))]
TakenOf(o) == IF o = Nobody THEN Nobody ELSE o.data

(* What DictSpec allows, for the mappings c and d and the nodes o and p    *)
(* that are taken before and after a step.                                 *)
Adds(c, d, s, key, val) == d = [c EXCEPT ![s] = HashPromise!With(c[s], key, val)]
Drops(c, d, s, key) == key \in DOMAIN c[s] /\ d = [c EXCEPT ![s] = HashPromise!Without(c[s], key)]

MapStep(c, d, o, p) ==
  \/ d = c /\ p \in {o, Nobody}
  \/ \E s \in Objects, key \in Keys, val \in Values : Adds(c, d, s, key, val) /\ p \in {o, Nobody}
  \/ \E s \in Objects, key \in Keys :
       /\ Drops(c, d, s, key)
       /\ p \in {o, Nobody} \/ p = [key |-> key, val |-> c[s][key]]
  \/ \E s \in Objects, key \in Keys :
       key \in DOMAIN c[s] /\ d = [c EXCEPT ![s] = [c[s] EXCEPT ![key] = Default]] /\ p = o
  \/ \E s \in Objects :
       /\ o # Nobody /\ o.key \notin DOMAIN c[s] /\ p = Nobody
       /\ Adds(c, d, s, o.key, o.val)
  \/ \E s \in Objects : d = [c EXCEPT ![s] = << >>] /\ p \in {o, Nobody}
  \/ \E s, t \in Objects : d = [c EXCEPT ![t] = c[s]] /\ p \in {o, Nobody}
  \/ \E s, t \in Objects : d = [c EXCEPT ![t] = c[s], ![s] = << >>] /\ p \in {o, Nobody}

Stepped ==
  HashLost' \/ (HashInv' /\ MapStep(Maps(obj), Maps(obj'), TakenOf(out), TakenOf(out')))

LEMMA Nothingness == ASSUME H!HashAssumption PROVE Nobody \notin H!Entries
BY DEF H!HashAssumption

(* Container s changes, no other one does.                                 *)
LEMMA Replaced ==
  ASSUME H!HashAssumption, HashInv, status = "hash", NEW s \in Objects, NEW t, Good(t),
         obj' = [obj EXCEPT ![s] = t], status' = status, OutFree(out', obj')
  PROVE  HashInv' /\ Maps(obj') = [Maps(obj) EXCEPT ![s] = MapOf(DataOf(t))]
<1>1. \A x \in Objects : obj'[x] = IF x = s THEN t ELSE obj[x]
  BY DEF HashInv
<1>2. obj' = [x \in Objects |-> obj'[x]]
  BY DEF HashInv
<1>3. \A x \in Objects : Good(obj'[x])
  BY <1>1 DEF HashInv
<1>4. HashInv'
  BY <1>2, <1>3 DEF HashInv
<1>5. \A x \in Objects : Maps(obj')[x] = IF x = s THEN MapOf(DataOf(t)) ELSE Maps(obj)[x]
  BY <1>1 DEF Maps
<1>6. Maps(obj') = [x \in Objects |-> Maps(obj')[x]] /\ Maps(obj) = [x \in Objects |-> Maps(obj)[x]]
  BY DEF Maps
<1>7. Maps(obj') = [Maps(obj) EXCEPT ![s] = MapOf(DataOf(t))]
  <2>1. PICK c, d, m : c = Maps(obj) /\ d = Maps(obj') /\ m = MapOf(DataOf(t))
    OBVIOUS
  <2>2. /\ d = [x \in Objects |-> d[x]] /\ c = [x \in Objects |-> c[x]]
        /\ \A x \in Objects : d[x] = IF x = s THEN m ELSE c[x]
    BY <1>5, <1>6, <2>1
  <2>3. d = [c EXCEPT ![s] = m]
    BY ONLY <2>2
  <2> QED
    BY <2>1, <2>3
<1> QED
  BY <1>4, <1>7

(* The extracted node stays where it is or ends.                           *)
StaysFree(r, new) ==
  new.next >= r.next /\ \A i \in 1..(r.next - 1) : i \in H!ActiveSlots(new) => i \in H!ActiveSlots(r)

LEMMA BecomesFree ==
  ASSUME H!HashAssumption, HashInv, status = "hash", NEW s \in Objects, NEW tidied, NEW new,
         H!Becomes(s, tidied, new), Good(new), tidied = obj[s] => StaysFree(obj[s], new)
  PROVE  /\ obj' = [obj EXCEPT ![s] = new] /\ OutFree(out', obj')
         /\ TakenOf(out') \in {TakenOf(out), Nobody}
<1>1. /\ obj' = [obj EXCEPT ![s] = new]
      /\ out' = IF out # Nobody /\ out.from = s /\ tidied # obj[s] THEN Nobody ELSE out
  BY DEF H!Becomes
<1>2. \A x \in Objects : obj'[x] = IF x = s THEN new ELSE obj[x]
  BY <1>1 DEF HashInv
<1>3. CASE out' = Nobody
  BY <1>1, <1>3 DEF OutFree, TakenOf
<1>4. CASE out' # Nobody
  <2>1. out' = out /\ (out.from = s => tidied = obj[s])
    BY <1>1, <1>4
  <2>2. /\ out.from \in Objects /\ out.data \in H!Entries
        /\ out.slot \in 1..(obj[out.from].next - 1) /\ out.slot \notin H!ActiveSlots(obj[out.from])
    BY <1>4, <2>1 DEF HashInv, OutFree
  <2>3. CASE out.from # s
    BY <1>1, <1>2, <2>1, <2>2, <2>3 DEF OutFree
  <2>4. CASE out.from = s
    <3>1. StaysFree(obj[s], new)
      BY <2>1, <2>4
    <3>2. out.slot \notin H!ActiveSlots(new)
      BY <2>2, <2>4, <3>1 DEF StaysFree
    <3>3. obj[s].next \in Nat /\ new.next \in Nat /\ new.next >= obj[s].next
      <4>1. Good(obj[s])
        BY DEF HashInv
      <4> QED
        BY <3>1, <4>1, ActiveAre DEF Good, StaysFree
    <3>4. out.slot \in 1..(new.next - 1)
      BY <2>2, <2>4, <3>3
    <3>5. OutFree(out', obj')
      BY <1>2, <2>1, <2>2, <2>4, <3>2, <3>4 DEF OutFree
    <3> QED
      BY <1>1, <2>1, <3>5
  <2> QED
    BY <2>1, <2>3, <2>4, <1>1
<1> QED
  BY <1>3, <1>4

(* Nothing anybody may rely on changes.                                    *)
LEMMA KeepsStep ==
  ASSUME H!HashAssumption, HashInv, status = "hash", NEW s \in Objects, NEW tidied, NEW new,
         H!Becomes(s, tidied, new), Keeps(obj[s], new), status' = status,
         tidied = obj[s] => new = obj[s]
  PROVE  Stepped
<1>1. Good(obj[s]) /\ Good(new) /\ DataOf(new) = DataOf(obj[s])
  BY DEF HashInv, Keeps
<1>2. tidied = obj[s] => StaysFree(obj[s], new)
  <2>1. obj[s].next \in Nat
    BY <1>1, ActiveAre DEF Good
  <2> QED
    BY <2>1 DEF StaysFree
<1>3. /\ obj' = [obj EXCEPT ![s] = new] /\ OutFree(out', obj')
      /\ TakenOf(out') \in {TakenOf(out), Nobody}
  BY <1>1, <1>2, BecomesFree
<1>4. HashInv' /\ Maps(obj') = [Maps(obj) EXCEPT ![s] = MapOf(DataOf(new))]
  BY <1>1, <1>3, Replaced
<1>5. Maps(obj') = Maps(obj)
  BY <1>1, <1>4 DEF Maps
<1> QED
  BY <1>3, <1>4, <1>5 DEF Stepped, MapStep

LEMMA HashBreaks ==
  ASSUME HashInv, H!Breaks
  PROVE  Stepped
BY DEF H!Breaks, HashLost, Stepped

(* A node is linked into a container that has room.                        *)
LEMMA AddStep ==
  ASSUME H!HashAssumption, HashInv, status = "hash", NEW s \in Objects, NEW grown,
         Keeps(obj[s], grown), NEW key \in Keys, NEW val \in Values, HoldsKey(grown, key) = {},
         NEW new, IsAdded(grown, new, grown.next, [key |-> key, val |-> val]),
         H!Becomes(s, grown, new), status' = status
  PROVE  Stepped
<1>1. Good(obj[s]) /\ Good(grown) /\ Good(new) /\ DataOf(grown) = DataOf(obj[s])
  BY DEF HashInv, Keeps, IsAdded
<1>2. grown = obj[s] => StaysFree(obj[s], new)
  <2>1. /\ new.next = grown.next + 1 /\ H!ActiveSlots(new) = H!ActiveSlots(grown) \cup {grown.next}
    BY DEF IsAdded
  <2>2. grown.next \in Nat
    BY <1>1, ActiveAre DEF Good
  <2> QED
    BY <2>1, <2>2 DEF StaysFree
<1>3. /\ obj' = [obj EXCEPT ![s] = new] /\ OutFree(out', obj')
      /\ TakenOf(out') \in {TakenOf(out), Nobody}
  BY <1>1, <1>2, BecomesFree
<1>4. HashInv' /\ Maps(obj') = [Maps(obj) EXCEPT ![s] = MapOf(DataOf(new))]
  BY <1>1, <1>3, Replaced
<1>5. MapOf(DataOf(new)) = HashPromise!With(MapOf(DataOf(obj[s])), key, val)
  <2>1. PICK D, d : D = DataOf(obj[s]) /\ d = [key |-> key, val |-> val]
    OBVIOUS
  <2>2. Single(D) /\ d.key \notin KeysOf(D)
    BY <1>1, <2>1, DataIsSingle
  <2>3. d \in H!Entries /\ d.key = key /\ d.val = val
    BY <2>1 DEF H!Entries
  <2>4. DataOf(new) = D \cup {d}
    BY <1>1, <2>1 DEF IsAdded
  <2> QED
    BY <2>1, <2>2, <2>3, <2>4, MapWith
<1>6. Adds(Maps(obj), Maps(obj'), s, key, val)
  BY <1>4, <1>5 DEF Adds, Maps
<1> QED
  BY <1>3, <1>4, <1>6 DEF Stepped, MapStep

(* A node is there already and gets another value.                         *)
LEMMA AssignedData ==
  ASSUME H!HashAssumption, NEW s, Good(s), NEW i \in H!ActiveSlots(s), NEW v, NEW t, IsAssigned(s, t, i, v)
  PROVE  DataOf(t) = (DataOf(s) \ {s.node[i].data}) \cup {[key |-> s.node[i].data.key, val |-> v]}
<1>1. \A j \in H!ActiveSlots(s) \ {i} : s.node[j].data # s.node[i].data
  BY DEF Good, NodesOK
<1> QED
  BY <1>1 DEF IsAssigned, DataOf

LEMMA AssignStep ==
  ASSUME H!HashAssumption, HashInv, status = "hash", NEW s \in Objects, NEW grown,
         Keeps(obj[s], grown), NEW i \in H!ActiveSlots(grown), NEW val \in Values,
         NEW new, IsAssigned(grown, new, i, val), H!Becomes(s, grown, new), status' = status
  PROVE  Stepped
<1>1. Good(obj[s]) /\ Good(grown) /\ Good(new) /\ DataOf(grown) = DataOf(obj[s])
  BY DEF HashInv, Keeps, IsAssigned
<1>2. grown = obj[s] => StaysFree(obj[s], new)
  <2>1. grown.next \in Nat
    BY <1>1, ActiveAre DEF Good
  <2> QED
    BY <2>1 DEF StaysFree, IsAssigned
<1>3. /\ obj' = [obj EXCEPT ![s] = new] /\ OutFree(out', obj')
      /\ TakenOf(out') \in {TakenOf(out), Nobody}
  BY <1>1, <1>2, BecomesFree
<1>4. HashInv' /\ Maps(obj') = [Maps(obj) EXCEPT ![s] = MapOf(DataOf(new))]
  BY <1>1, <1>3, Replaced
<1>5. PICK D, d : D = DataOf(obj[s]) /\ d = grown.node[i].data
  OBVIOUS
<1>6. Single(D) /\ d \in D /\ d.key \in Keys
  <2>1. d \in D
    BY <1>1, <1>5 DEF DataOf
  <2> QED
    BY <1>1, <1>5, <2>1, DataIsSingle DEF Single, H!Entries
<1>7. MapOf(DataOf(new)) = HashPromise!With(MapOf(D), d.key, val)
  <2>1. DataOf(new) = (D \ {d}) \cup {[key |-> d.key, val |-> val]}
    BY <1>1, <1>5, AssignedData
  <2>2. val \in Values \cup {Default}
    OBVIOUS
  <2> QED
    BY <1>6, <2>1, <2>2, MapChanged
<1>8. Adds(Maps(obj), Maps(obj'), s, d.key, val)
  BY <1>4, <1>5, <1>7 DEF Adds, Maps
<1> QED
  BY <1>3, <1>4, <1>6, <1>8 DEF Stepped, MapStep

LEMMA MemoryIs ==
  ASSUME NEW s
  PROVE  H!Memory \subseteq BOOLEAN /\ H!MemoryFor(s) \subseteq BOOLEAN
BY DEF H!Memory, H!MemoryFor

(* What find says of a set that has buckets.                               *)
LEMMA FoundOrNot ==
  ASSUME H!HashAssumption, NEW s, Good(s), H!Cells(s) # {}, NEW key \in Keys,
         NEW i, i = H!FindIn(s, H!CellOf(s, HashOf[key]), key)
  PROVE  /\ i # s.next => i \in H!ActiveSlots(s) /\ s.node[i].data.key = key
         /\ i = s.next => HoldsKey(s, key) = {}
<1>1. IsFound(s, key, i)
  BY FindsIn
<1>2. s.next \notin H!ActiveSlots(s)
  BY NextIsFree DEF Good
<1>3. \A j \in HoldsKey(s, key) : j \in H!ActiveSlots(s) /\ s.node[j].data.key = key
  BY DEF HoldsKey
<1>4. CASE HoldsKey(s, key) = {i}
  <2>1. i \in HoldsKey(s, key)
    BY <1>4
  <2> QED
    BY <1>2, <1>3, <2>1
<1>5. CASE HoldsKey(s, key) = {} /\ i = s.next
  BY <1>5
<1> QED
  BY <1>1, <1>4, <1>5 DEF IsFound

(* The entry is there already, or it is added.                             *)
LEMMA PutStep ==
  ASSUME H!HashAssumption, HashInv, status = "hash", NEW s \in Objects, NEW grown,
         Keeps(obj[s], grown), H!Cells(grown) # {}, NEW key \in Keys, NEW val \in Values,
         NEW i, i = H!FindIn(grown, H!CellOf(grown, HashOf[key]), key),
         i = grown.next => H!HasSlot(grown),
         NEW new, new = IF i # grown.next THEN grown
                        ELSE H!Link(grown, grown.next, [key |-> key, val |-> val]),
         H!Becomes(s, grown, new), status' = status
  PROVE  Stepped
<1>1. Good(grown)
  BY DEF Keeps
<1>2. CASE i # grown.next
  <2>1. new = grown
    BY <1>2
  <2> QED
    BY <2>1, KeepsStep
<1>3. CASE i = grown.next
  <2>1. HoldsKey(grown, key) = {}
    BY <1>1, <1>3, FoundOrNot
  <2>2. PICK data, next : data = [key |-> key, val |-> val] /\ next = grown.next
    OBVIOUS
  <2>3. data \in H!Entries /\ data.key = key
    BY <2>2 DEF H!Entries
  <2>4. next \in H!Slots(grown) /\ next <= grown.next /\ next \notin H!ActiveSlots(grown)
    <3>1. H!Slots(grown) = 1..(grown.capacity - 1) /\ grown.next \in Nat \ {0}
      BY <1>1, ActiveAre DEF Good
    <3>2. grown.capacity \in Nat /\ grown.next < grown.capacity
      BY <1>1, <1>3 DEF Good, NodesOK, H!HasSlot
    <3>3. grown.next \notin H!ActiveSlots(grown)
      BY <1>1, NextIsFree DEF Good
    <3> QED
      BY <2>2, <3>1, <3>2, <3>3
  <2>5. new = H!Link(grown, next, data)
    BY <1>3, <2>2
  <2>6. IsAdded(grown, new, next, data)
    BY <1>1, <2>1, <2>3, <2>4, <2>5, LinkAdds
  <2> QED
    BY <2>1, <2>2, <2>6, AddStep
<1> QED
  BY <1>2, <1>3

LEMMA HashEmplaceStep ==
  ASSUME H!HashAssumption, HashInv, NEW s \in Objects, NEW key \in Keys, NEW val \in Values,
         H!Emplace(s, key, val)
  PROVE  Stepped
<1>1. status = "hash" /\ Good(obj[s])
  BY DEF H!Emplace, HashInv
<1>2. PICK memory \in H!MemoryFor(obj[s]) :
        LET grown == H!Increase(obj[s], memory)
            i == H!FindIn(grown, H!CellOf(grown, HashOf[key]), key)
        IN IF ~(H!HasBuckets(grown) /\ H!HasSlot(grown))
           THEN H!Breaks
           ELSE /\ H!Becomes(s, grown, IF i # grown.next THEN grown
                                ELSE H!Link(grown, grown.next, [key |-> key, val |-> val]))
                /\ UNCHANGED status
  BY DEF H!Emplace
<1>3. PICK grown : grown = H!Increase(obj[s], memory)
  OBVIOUS
<1>4. PICK i : i = H!FindIn(grown, H!CellOf(grown, HashOf[key]), key)
  OBVIOUS
<1>5. PICK new : new = IF i # grown.next THEN grown
                       ELSE H!Link(grown, grown.next, [key |-> key, val |-> val])
  OBVIOUS
<1>6. IF ~(H!HasBuckets(grown) /\ H!HasSlot(grown)) THEN H!Breaks
      ELSE H!Becomes(s, grown, new) /\ UNCHANGED status
  BY <1>2, <1>3, <1>4, <1>5
<1>7. Keeps(obj[s], grown)
  BY <1>1, <1>2, <1>3, MemoryIs, IncreaseKeeps
<1>8. CASE ~(H!HasBuckets(grown) /\ H!HasSlot(grown))
  BY <1>6, <1>8, HashBreaks
<1>9. CASE H!HasBuckets(grown) /\ H!HasSlot(grown)
  <2>1. H!Becomes(s, grown, new) /\ status' = status /\ H!Cells(grown) # {}
    BY <1>6, <1>9 DEF H!HasBuckets
  <2> QED
    BY <1>1, <1>4, <1>5, <1>7, <1>9, <2>1, PutStep
<1> QED
  BY <1>8, <1>9

LEMMA HashInsertStep ==
  ASSUME H!HashAssumption, HashInv, NEW s \in Objects, NEW key \in Keys, NEW val \in Values,
         H!Insert(s, key, val)
  PROVE  Stepped
<1>1. status = "hash" /\ Good(obj[s])
  BY DEF H!Insert, HashInv
<1>2. PICK memory \in H!MemoryFor(obj[s]) :
        LET grown == H!Increase(obj[s], memory)
            i == H!FindIn(grown, H!CellOf(grown, HashOf[key]), key)
        IN IF ~H!HasBuckets(grown) \/ (i = grown.next /\ ~H!HasSlot(grown))
           THEN H!Breaks
           ELSE /\ H!Becomes(s, grown, IF i # grown.next THEN grown
                                ELSE H!Link(grown, grown.next, [key |-> key, val |-> val]))
                /\ UNCHANGED status
  BY DEF H!Insert
<1>3. PICK grown : grown = H!Increase(obj[s], memory)
  OBVIOUS
<1>4. PICK i : i = H!FindIn(grown, H!CellOf(grown, HashOf[key]), key)
  OBVIOUS
<1>5. PICK new : new = IF i # grown.next THEN grown
                       ELSE H!Link(grown, grown.next, [key |-> key, val |-> val])
  OBVIOUS
<1>6. IF ~H!HasBuckets(grown) \/ (i = grown.next /\ ~H!HasSlot(grown)) THEN H!Breaks
      ELSE H!Becomes(s, grown, new) /\ UNCHANGED status
  BY <1>2, <1>3, <1>4, <1>5
<1>7. Keeps(obj[s], grown)
  BY <1>1, <1>2, <1>3, MemoryIs, IncreaseKeeps
<1>8. CASE ~H!HasBuckets(grown) \/ (i = grown.next /\ ~H!HasSlot(grown))
  BY <1>6, <1>8, HashBreaks
<1>9. CASE H!HasBuckets(grown) /\ (i = grown.next => H!HasSlot(grown))
  <2>1. H!Becomes(s, grown, new) /\ status' = status /\ H!Cells(grown) # {}
    BY <1>6, <1>9 DEF H!HasBuckets
  <2> QED
    BY <1>1, <1>4, <1>5, <1>7, <1>9, <2>1, PutStep
<1> QED
  BY <1>8, <1>9

LEMMA HashSubscriptStep ==
  ASSUME H!HashAssumption, HashInv, NEW s \in Objects, NEW key \in Keys, NEW val \in Values,
         H!Subscript(s, key, val)
  PROVE  Stepped
<1>1. status = "hash" /\ Good(obj[s])
  BY DEF H!Subscript, HashInv
<1>2. PICK memory \in H!MemoryFor(obj[s]) :
        LET grown == H!Increase(obj[s], memory)
            i == H!FindIn(grown, H!CellOf(grown, HashOf[key]), key)
        IN IF ~(H!HasBuckets(grown) /\ H!HasSlot(grown))
           THEN H!Breaks
           ELSE /\ H!Becomes(s, grown, IF i # grown.next
                                THEN [grown EXCEPT !.node[i].data.val = val]
                                ELSE H!Link(grown, grown.next, [key |-> key, val |-> val]))
                /\ UNCHANGED status
  BY DEF H!Subscript
<1>3. PICK grown : grown = H!Increase(obj[s], memory)
  OBVIOUS
<1>4. PICK i : i = H!FindIn(grown, H!CellOf(grown, HashOf[key]), key)
  OBVIOUS
<1>5. PICK changed, added : /\ changed = [grown EXCEPT !.node[i].data.val = val]
                            /\ added = H!Link(grown, grown.next, [key |-> key, val |-> val])
  OBVIOUS
<1>6. IF ~(H!HasBuckets(grown) /\ H!HasSlot(grown)) THEN H!Breaks
      ELSE H!Becomes(s, grown, IF i # grown.next THEN changed ELSE added) /\ UNCHANGED status
  BY <1>2, <1>3, <1>4, <1>5
<1>7. Keeps(obj[s], grown) /\ Good(grown)
  BY <1>1, <1>2, <1>3, MemoryIs, IncreaseKeeps DEF Keeps
<1>8. CASE ~(H!HasBuckets(grown) /\ H!HasSlot(grown))
  BY <1>6, <1>8, HashBreaks
<1>9. CASE H!HasBuckets(grown) /\ H!HasSlot(grown) /\ i # grown.next
  <2>1. H!Becomes(s, grown, changed) /\ status' = status /\ H!Cells(grown) # {}
    BY <1>6, <1>9 DEF H!HasBuckets
  <2>2. i \in H!ActiveSlots(grown)
    BY <1>4, <1>7, <1>9, <2>1, FoundOrNot
  <2>3. IsAssigned(grown, changed, i, val)
    <3>1. val \in Values \cup {Default}
      OBVIOUS
    <3> QED
      BY <1>5, <1>7, <2>2, <3>1, AssignKeeps
  <2> QED
    BY <1>1, <1>7, <2>1, <2>2, <2>3, AssignStep
<1>10. CASE H!HasBuckets(grown) /\ H!HasSlot(grown) /\ i = grown.next
  <2>1. H!Becomes(s, grown, added) /\ status' = status /\ H!Cells(grown) # {}
    BY <1>6, <1>10 DEF H!HasBuckets
  <2>2. added = IF i # grown.next THEN grown
                ELSE H!Link(grown, grown.next, [key |-> key, val |-> val])
    BY <1>5, <1>10
  <2> QED
    BY <1>1, <1>4, <1>7, <1>10, <2>1, <2>2, PutStep
<1> QED
  BY <1>8, <1>9, <1>10

LEMMA StillFree ==
  ASSUME H!HashAssumption, HashInv, status = "hash", NEW s \in Objects, NEW new, Good(new),
         obj' = [obj EXCEPT ![s] = new], out' = out, StaysFree(obj[s], new)
  PROVE  OutFree(out', obj')
<1>1. \A x \in Objects : obj'[x] = IF x = s THEN new ELSE obj[x]
  BY DEF HashInv
<1>2. CASE out = Nobody
  BY <1>2 DEF OutFree
<1>3. CASE out # Nobody
  <2>1. /\ out.from \in Objects /\ out.data \in H!Entries
        /\ out.slot \in 1..(obj[out.from].next - 1) /\ out.slot \notin H!ActiveSlots(obj[out.from])
    BY <1>3 DEF HashInv, OutFree
  <2>2. CASE out.from # s
    BY <1>1, <2>1, <2>2 DEF OutFree
  <2>3. CASE out.from = s
    <3>1. out.slot \notin H!ActiveSlots(new)
      BY <2>1, <2>3 DEF StaysFree
    <3>2. obj[s].next \in Nat /\ new.next \in Nat /\ new.next >= obj[s].next
      <4>1. Good(obj[s])
        BY DEF HashInv
      <4> QED
        BY <4>1, ActiveAre DEF Good, StaysFree
    <3>3. out.slot \in 1..(new.next - 1)
      BY <2>1, <2>3, <3>2
    <3> QED
      BY <1>1, <2>1, <2>3, <3>1, <3>3 DEF OutFree
  <2> QED
    BY <2>2, <2>3
<1> QED
  BY <1>2, <1>3

(* What find says of any set.                                              *)
LEMMA FoundActive ==
  ASSUME H!HashAssumption, NEW s, Good(s), NEW key \in Keys,
         NEW i, i = H!Find(s, key), H!Active(s, i)
  PROVE  i \in H!ActiveSlots(s) /\ s.node[i].data.key = key
<1>1. i \in H!ActiveSlots(s) /\ s.next \notin H!ActiveSlots(s)
  BY ActiveAre, NextIsFree DEF Good
<1>2. IsFound(s, key, i)
  BY FindsIt
<1>3. HoldsKey(s, key) = {i}
  BY <1>1, <1>2 DEF IsFound
<1>4. i \in HoldsKey(s, key)
  BY <1>3
<1> QED
  BY <1>4 DEF HoldsKey

(* A node leaves its container.                                            *)
LEMMA TakenStep ==
  ASSUME H!HashAssumption, HashInv, status = "hash", NEW s \in Objects, NEW i \in H!ActiveSlots(obj[s]),
         NEW t, IsTaken(obj[s], t, i), obj' = [obj EXCEPT ![s] = t], status' = status,
         OutFree(out', obj')
  PROVE  /\ HashInv' /\ Drops(Maps(obj), Maps(obj'), s, obj[s].node[i].data.key)
         /\ Maps(obj)[s][obj[s].node[i].data.key] = obj[s].node[i].data.val
<1>1. Good(obj[s]) /\ Good(t)
  BY DEF HashInv, IsTaken
<1>2. PICK D, d : D = DataOf(obj[s]) /\ d = obj[s].node[i].data
  OBVIOUS
<1>3. Single(D) /\ d \in D
  <2>1. d \in D
    BY <1>2 DEF DataOf
  <2> QED
    BY <1>1, <1>2, <2>1, DataIsSingle
<1>4. HashInv' /\ Maps(obj') = [Maps(obj) EXCEPT ![s] = MapOf(DataOf(t))]
  BY <1>1, Replaced
<1>5. DataOf(t) = D \ {d}
  BY <1>2 DEF IsTaken
<1>6. MapOf(DataOf(t)) = HashPromise!Without(MapOf(D), d.key)
  BY <1>3, <1>5, MapWithout
<1>7. Maps(obj)[s] = MapOf(D)
  BY <1>2 DEF Maps
<1>8. d.key \in DOMAIN MapOf(D) /\ MapOf(D)[d.key] = d.val
  BY <1>3, MapIs
<1> QED
  BY <1>2, <1>4, <1>6, <1>7, <1>8 DEF Drops

LEMMA TakenFree ==
  ASSUME H!HashAssumption, NEW s, Good(s), NEW t, NEW i, IsTaken(s, t, i)
  PROVE  StaysFree(s, t)
<1>1. s.next \in Nat
  BY ActiveAre DEF Good
<1> QED
  BY <1>1 DEF StaysFree, IsTaken

LEMMA HashEraseStep ==
  ASSUME H!HashAssumption, HashInv, NEW s \in Objects, NEW key \in Keys, H!Erase(s, key)
  PROVE  Stepped
<1>1. status = "hash" /\ Good(obj[s]) /\ status' = status /\ out' = out
  BY DEF H!Erase, HashInv
<1>2. PICK i : i = H!Find(obj[s], key)
  OBVIOUS
<1>3. obj' = IF H!Active(obj[s], i) THEN [obj EXCEPT ![s] = H!Unlink(obj[s], i)] ELSE obj
  BY <1>2 DEF H!Erase
<1>4. CASE H!Active(obj[s], i)
  <2>1. i \in H!ActiveSlots(obj[s]) /\ obj[s].node[i].data.key = key
    BY <1>1, <1>2, <1>4, FoundActive
  <2>2. PICK t : t = H!Unlink(obj[s], i)
    OBVIOUS
  <2>3. IsTaken(obj[s], t, i)
    BY <1>1, <2>1, <2>2, UnlinkTakes
  <2>4. obj' = [obj EXCEPT ![s] = t]
    BY <1>3, <1>4, <2>2
  <2>5. StaysFree(obj[s], t) /\ Good(t)
    BY <1>1, <2>3, TakenFree DEF IsTaken
  <2>6. OutFree(out', obj')
    BY <1>1, <2>4, <2>5, StillFree
  <2>7. HashInv' /\ Drops(Maps(obj), Maps(obj'), s, key)
    BY <1>1, <2>1, <2>3, <2>4, <2>6, TakenStep
  <2>8. TakenOf(out') \in {TakenOf(out), Nobody}
    BY <1>1
  <2> QED
    BY <2>7, <2>8 DEF Stepped, MapStep
<1>5. CASE ~H!Active(obj[s], i)
  <2>1. obj' = obj
    BY <1>3, <1>5
  <2>2. HashInv'
    BY <1>1, <2>1 DEF HashInv, OutFree
  <2> QED
    BY <1>1, <2>1, <2>2 DEF Stepped, MapStep
<1> QED
  BY <1>4, <1>5

LEMMA HashExtractStep ==
  ASSUME H!HashAssumption, HashInv, NEW s \in Objects, NEW key \in Keys, H!Extract(s, key)
  PROVE  Stepped
<1>1. status = "hash" /\ Good(obj[s]) /\ status' = status
  BY DEF H!Extract, HashInv
<1>2. PICK i : i = H!Find(obj[s], key)
  OBVIOUS
<1>3. /\ H!Active(obj[s], i)
      /\ out' = [from |-> s, slot |-> i, data |-> obj[s].node[i].data]
      /\ obj' = [obj EXCEPT ![s] = H!Unlink(obj[s], i)]
  BY <1>2 DEF H!Extract
<1>4. i \in H!ActiveSlots(obj[s]) /\ obj[s].node[i].data.key = key
  BY <1>1, <1>2, <1>3, FoundActive
<1>5. PICK t : t = H!Unlink(obj[s], i)
  OBVIOUS
<1>6. IsTaken(obj[s], t, i)
  BY <1>1, <1>4, <1>5, UnlinkTakes
<1>7. obj' = [obj EXCEPT ![s] = t] /\ obj'[s] = t
  BY <1>3, <1>5 DEF HashInv
<1>8. PICK d : d = obj[s].node[i].data
  OBVIOUS
<1>9. d \in H!Entries /\ i \in 1..(obj[s].next - 1)
  BY <1>1, <1>4, <1>8, ActiveAre DEF Good
<1>10. OutFree(out', obj')
  <2>1. t.next = obj[s].next /\ i \notin H!ActiveSlots(t)
    BY <1>6 DEF IsTaken
  <2>2. out'.from = s /\ out'.slot = i /\ out'.data = d
    BY <1>3, <1>8
  <2> QED
    BY <1>7, <1>9, <2>1, <2>2 DEF OutFree
<1>11. /\ HashInv' /\ Drops(Maps(obj), Maps(obj'), s, key)
       /\ Maps(obj)[s][key] = d.val
  BY <1>1, <1>4, <1>6, <1>7, <1>8, <1>10, TakenStep
<1>12. TakenOf(out') = [key |-> key, val |-> Maps(obj)[s][key]]
  <2>1. d = [key |-> d.key, val |-> d.val]
    BY <1>9 DEF H!Entries
  <2>2. TakenOf(out') = d
    <3>1. out' \in [from : Objects, slot : Nat, data : H!Entries]
      BY <1>3, <1>8, <1>9
    <3>2. out' # Nobody /\ out'.data = d
      BY <1>3, <1>8, <3>1 DEF H!HashAssumption
    <3> QED
      BY <3>2 DEF TakenOf
  <2> QED
    BY <1>4, <1>8, <1>11, <2>1, <2>2
<1> QED
  BY <1>11, <1>12 DEF Stepped, MapStep

LEMMA HashAtStep ==
  ASSUME H!HashAssumption, HashInv, NEW s \in Objects, NEW key \in Keys, H!At(s, key)
  PROVE  Stepped
<1>1. status = "hash" /\ Good(obj[s]) /\ status' = status /\ out' = out
  BY DEF H!At, HashInv
<1>2. PICK i : i = H!Find(obj[s], key)
  OBVIOUS
<1>3. H!Active(obj[s], i) /\ obj' = [obj EXCEPT ![s].node[i].data.val = Default]
  BY <1>2 DEF H!At
<1>4. i \in H!ActiveSlots(obj[s]) /\ obj[s].node[i].data.key = key
  BY <1>1, <1>2, <1>3, FoundActive
<1>5. PICK t : t = [obj[s] EXCEPT !.node[i].data.val = Default]
  OBVIOUS
<1>6. IsAssigned(obj[s], t, i, Default)
  <2>1. Default \in Values \cup {Default}
    OBVIOUS
  <2> QED
    BY <1>1, <1>4, <1>5, <2>1, AssignKeeps
<1>7. obj' = [obj EXCEPT ![s] = t]
  BY <1>3, <1>5
<1>8. Good(t) /\ StaysFree(obj[s], t)
  <2>1. obj[s].next \in Nat
    BY <1>1, ActiveAre DEF Good
  <2> QED
    BY <1>6, <2>1 DEF IsAssigned, StaysFree
<1>9. OutFree(out', obj')
  BY <1>1, <1>7, <1>8, StillFree
<1>10. HashInv' /\ Maps(obj') = [Maps(obj) EXCEPT ![s] = MapOf(DataOf(t))]
  BY <1>1, <1>7, <1>8, <1>9, Replaced
<1>11. PICK D, d : D = DataOf(obj[s]) /\ d = obj[s].node[i].data
  OBVIOUS
<1>12. Single(D) /\ d \in D /\ d.key = key
  <2>1. d \in D
    BY <1>4, <1>11 DEF DataOf
  <2> QED
    BY <1>1, <1>4, <1>11, <2>1, DataIsSingle
<1>13. MapOf(DataOf(t)) = [MapOf(D) EXCEPT ![key] = Default]
  <2>1. DataOf(t) = (D \ {d}) \cup {[key |-> d.key, val |-> Default]}
    BY <1>1, <1>4, <1>6, <1>11, AssignedData
  <2>2. Default \in Values \cup {Default}
    OBVIOUS
  <2>3. MapOf(DataOf(t)) = [MapOf(D) EXCEPT ![d.key] = Default]
    BY <1>12, <2>1, <2>2, MapChanged
  <2> QED
    BY <1>12, <2>3
<1>14. Maps(obj)[s] = MapOf(D) /\ key \in DOMAIN MapOf(D)
  BY <1>11, <1>12, MapIs DEF Maps
<1>15. \E x \in Objects, k \in Keys :
         /\ k \in DOMAIN Maps(obj)[x]
         /\ Maps(obj') = [Maps(obj) EXCEPT ![x] = [Maps(obj)[x] EXCEPT ![k] = Default]]
         /\ TakenOf(out') = TakenOf(out)
  BY <1>1, <1>10, <1>13, <1>14
<1> QED
  BY <1>10, <1>15 DEF Stepped, MapStep

LEMMA HashInsertNodeStep ==
  ASSUME H!HashAssumption, HashInv, NEW s \in Objects, H!InsertNode(s)
  PROVE  Stepped
<1>1. status = "hash" /\ Good(obj[s]) /\ out # Nobody
  BY DEF H!InsertNode, HashInv
<1>2. PICK to, data, i, slot :
        /\ to = obj[s] /\ data = out.data
        /\ i = H!FindIn(to, H!CellOf(to, HashOf[data.key]), data.key)
        /\ slot = IF H!IsNode(s, to, out) THEN out.slot ELSE to.next
  OBVIOUS
<1>3. IF ~H!HasBuckets(to) \/ (i = to.next /\ slot = to.next /\ ~H!HasSlot(to))
      THEN H!Breaks
      ELSE /\ IF i # to.next
              THEN UNCHANGED <<obj, out>>
              ELSE /\ obj' = [obj EXCEPT ![s] = H!Link(to, slot, data)]
                   /\ out' = Nobody
           /\ UNCHANGED status
  BY <1>2 DEF H!InsertNode
<1>4. CASE ~H!HasBuckets(to) \/ (i = to.next /\ slot = to.next /\ ~H!HasSlot(to))
  BY <1>3, <1>4, HashBreaks
<1>5. CASE /\ ~(~H!HasBuckets(to) \/ (i = to.next /\ slot = to.next /\ ~H!HasSlot(to)))
           /\ i # to.next
  <2>1. obj' = obj /\ out' = out /\ status' = status
    BY <1>3, <1>5
  <2>2. HashInv'
    BY <2>1, Zenon DEF HashInv, OutFree
  <2> QED
    BY <2>1, <2>2 DEF Stepped, MapStep
<1>6. CASE /\ ~(~H!HasBuckets(to) \/ (i = to.next /\ slot = to.next /\ ~H!HasSlot(to)))
           /\ i = to.next
  <2>1. /\ obj' = [obj EXCEPT ![s] = H!Link(to, slot, data)] /\ out' = Nobody /\ status' = status
        /\ H!Cells(to) # {} /\ (slot = to.next => H!HasSlot(to))
    BY <1>3, <1>6 DEF H!HasBuckets
  <2>2. /\ data \in H!Entries /\ data.key \in Keys /\ data.val \in Values \cup {Default}
        /\ out.from = s => out.slot \in 1..(to.next - 1) /\ out.slot \notin H!ActiveSlots(to)
    BY <1>1, <1>2 DEF HashInv, OutFree, H!Entries
  <2>3. HoldsKey(to, data.key) = {}
    BY <1>1, <1>2, <1>6, <2>1, <2>2, FoundOrNot
  <2>4. slot \in H!Slots(to) /\ slot <= to.next /\ slot \notin H!ActiveSlots(to)
    <3>1. /\ H!Slots(to) = 1..(to.capacity - 1) /\ to.next \in Nat \ {0} /\ to.capacity \in Nat
          /\ to.next \notin H!ActiveSlots(to)
          /\ to.next \in 1..(IF to.capacity = 0 THEN 1 ELSE to.capacity)
      BY <1>1, <1>2, ActiveAre, NextIsFree DEF Good, NodesOK
    <3>2. CASE slot = to.next
      <4>1. to.next < to.capacity
        BY <2>1, <3>2 DEF H!HasSlot
      <4> QED
        BY <3>1, <3>2, <4>1
    <3>3. CASE slot # to.next
      <4>1. slot = out.slot /\ out.from = s
        BY <1>2, <3>3 DEF H!IsNode
      <4>2. slot \in 1..(to.next - 1) /\ slot \notin H!ActiveSlots(to)
        BY <2>2, <4>1
      <4>3. to.capacity # 0
        BY <3>1, <4>2
      <4> QED
        BY <3>1, <4>2, <4>3
    <3> QED
      BY <3>2, <3>3
  <2>5. PICK t : t = H!Link(to, slot, data)
    OBVIOUS
  <2>6. IsAdded(to, t, slot, data)
    BY <1>1, <1>2, <2>1, <2>2, <2>3, <2>4, <2>5, LinkAdds
  <2>7. Good(t) /\ DataOf(t) = DataOf(obj[s]) \cup {data}
    BY <1>2, <2>6 DEF IsAdded
  <2>8. OutFree(out', obj')
    BY <2>1 DEF OutFree
  <2>9. HashInv' /\ Maps(obj') = [Maps(obj) EXCEPT ![s] = MapOf(DataOf(t))]
    BY <1>1, <2>1, <2>5, <2>7, <2>8, Replaced
  <2>10. PICK D : D = DataOf(obj[s])
    OBVIOUS
  <2>11. Single(D) /\ data.key \notin KeysOf(D)
    BY <1>1, <1>2, <2>3, <2>10, DataIsSingle
  <2>12. MapOf(DataOf(t)) = HashPromise!With(MapOf(D), data.key, data.val)
    BY <2>2, <2>7, <2>10, <2>11, MapWith
  <2>13. Maps(obj)[s] = MapOf(D) /\ DOMAIN MapOf(D) = KeysOf(D)
    BY <2>10, <2>11, MapIs DEF Maps
  <2>14. TakenOf(out) = data /\ data # Nobody /\ TakenOf(out') = Nobody
    BY <1>1, <1>2, <2>1, <2>2, Nothingness DEF TakenOf
  <2>15. Adds(Maps(obj), Maps(obj'), s, data.key, data.val)
    BY <2>9, <2>12, <2>13 DEF Adds
  <2>16. \E x \in Objects :
           /\ TakenOf(out) # Nobody /\ TakenOf(out).key \notin DOMAIN Maps(obj)[x] /\ TakenOf(out') = Nobody
           /\ Adds(Maps(obj), Maps(obj'), x, TakenOf(out).key, TakenOf(out).val)
    BY <2>11, <2>13, <2>14, <2>15
  <2> QED
    BY <2>9, <2>16 DEF Stepped, MapStep
<1> QED
  BY <1>4, <1>5, <1>6

LEMMA HashResizeStep ==
  ASSUME H!HashAssumption, HashInv, NEW s \in Objects, NEW capacity \in Requests,
         H!ResizeTo(s, capacity)
  PROVE  Stepped
<1>1. status = "hash" /\ Good(obj[s]) /\ status' = status /\ capacity \in Nat
  BY DEF H!ResizeTo, HashInv, H!HashAssumption
<1>2. PICK memory \in H!Memory :
        LET new == H!Resize(obj[s], capacity, memory) IN H!Becomes(s, new, new)
  BY DEF H!ResizeTo
<1>3. PICK new : new = H!Resize(obj[s], capacity, memory)
  OBVIOUS
<1>4. H!Becomes(s, new, new)
  BY <1>2, <1>3
<1>5. Keeps(obj[s], new)
  BY <1>1, <1>2, <1>3, MemoryIs, ResizeKeeps
<1> QED
  BY <1>1, <1>4, <1>5, KeepsStep

LEMMA HashReorganizesStep ==
  ASSUME H!HashAssumption, HashInv, NEW s \in Objects, H!Reorganizes(s)
  PROVE  Stepped
<1>1. status = "hash" /\ Good(obj[s]) /\ status' = status
  BY DEF H!Reorganizes, HashInv
<1>2. PICK new : /\ new \in {H!Reorganize(obj[s]), H!Rehash(obj[s])}
                 /\ H!Becomes(s, new, new)
  BY DEF H!Reorganizes
<1>3. Keeps(obj[s], new)
  BY <1>1, <1>2, RehashKeeps
<1> QED
  BY <1>1, <1>2, <1>3, KeepsStep

LEMMA HashClearStep ==
  ASSUME H!HashAssumption, HashInv, NEW s \in Objects, H!Clear(s)
  PROVE  Stepped
<1>1. status = "hash" /\ Good(obj[s])
  BY DEF H!Clear, HashInv
<1>2. PICK new : new = [H!Cleared(obj[s]) EXCEPT !.bucket = [b \in H!Cells(obj[s]) |-> 0]]
  OBVIOUS
<1>3. IF obj[s].pointer = "stale" THEN H!Breaks ELSE H!Becomes(s, new, new) /\ UNCHANGED status
  BY <1>2 DEF H!Clear
<1>4. CASE obj[s].pointer = "stale"
  BY <1>3, <1>4, HashBreaks
<1>5. CASE obj[s].pointer # "stale"
  <2>1. H!Becomes(s, new, new) /\ status' = status
    BY <1>3, <1>5
  <2>2. Good(new) /\ DataOf(new) = {}
    BY <1>1, <1>2, ClearedIsGood
  <2>3. new = obj[s] => StaysFree(obj[s], new)
    <3>1. obj[s].next \in Nat
      BY <1>1, ActiveAre DEF Good
    <3> QED
      BY <3>1 DEF StaysFree
  <2>4. /\ obj' = [obj EXCEPT ![s] = new] /\ OutFree(out', obj')
        /\ TakenOf(out') \in {TakenOf(out), Nobody}
    BY <1>1, <2>1, <2>2, <2>3, BecomesFree
  <2>5. HashInv' /\ Maps(obj') = [Maps(obj) EXCEPT ![s] = << >>]
    BY <1>1, <2>1, <2>2, <2>4, Replaced, MapOfNone
  <2> QED
    BY <2>4, <2>5 DEF Stepped, MapStep
<1> QED
  BY <1>4, <1>5

(* A container is made from another one, and what was extracted from the   *)
(* one that was there before ends.                                         *)
LEMMA MadeFree ==
  ASSUME HashInv, status = "hash", NEW t \in Objects, NEW r, \A x \in Objects \ {t} : r[x] = obj[x],
         NEW o, o = IF out # Nobody /\ out.from = t THEN Nobody ELSE out
  PROVE  OutFree(o, r) /\ TakenOf(o) \in {TakenOf(out), Nobody}
<1>1. CASE o = Nobody
  BY <1>1 DEF OutFree, TakenOf
<1>2. CASE o # Nobody
  <2>1. o = out /\ out.from # t
    BY <1>2
  <2> QED
    BY <1>2, <2>1 DEF HashInv, OutFree
<1> QED
  BY <1>1, <1>2

LEMMA MadeStep ==
  ASSUME H!HashAssumption, HashInv, status = "hash", NEW s \in Objects, NEW t \in Objects, NEW new,
         Keeps(obj[s], new), H!Constructed(t, new), status' = status
  PROVE  Stepped
<1>1. /\ obj' = [obj EXCEPT ![t] = new]
      /\ out' = IF out # Nobody /\ out.from = t THEN Nobody ELSE out
  BY DEF H!Constructed
<1>2. \A x \in Objects \ {t} : obj'[x] = obj[x]
  BY <1>1 DEF HashInv
<1>3. OutFree(out', obj') /\ TakenOf(out') \in {TakenOf(out), Nobody}
  BY <1>1, <1>2, MadeFree
<1>4. Good(new) /\ DataOf(new) = DataOf(obj[s])
  BY DEF Keeps
<1>5. HashInv' /\ Maps(obj') = [Maps(obj) EXCEPT ![t] = MapOf(DataOf(new))]
  BY <1>1, <1>3, <1>4, Replaced
<1>6. Maps(obj') = [Maps(obj) EXCEPT ![t] = Maps(obj)[s]]
  BY <1>4, <1>5 DEF Maps
<1> QED
  BY <1>3, <1>5, <1>6 DEF Stepped, MapStep

LEMMA MovedStep ==
  ASSUME H!HashAssumption, HashInv, status = "hash", NEW s \in Objects, NEW t \in Objects, s # t,
         NEW new, Keeps(obj[s], new), NEW old, Good(old), DataOf(old) = {},
         obj' = [obj EXCEPT ![t] = new, ![s] = old],
         out' = IF out # Nobody /\ out.from \in {s, t} THEN Nobody ELSE out,
         status' = status
  PROVE  Stepped
<1>1. Good(new) /\ DataOf(new) = DataOf(obj[s])
  BY DEF Keeps
<1>2. \A x \in Objects : obj'[x] = IF x = s THEN old ELSE IF x = t THEN new ELSE obj[x]
  BY DEF HashInv
<1>3. obj' = [x \in Objects |-> obj'[x]]
  BY DEF HashInv
<1>4. \A x \in Objects : Good(obj'[x])
  BY <1>1, <1>2 DEF HashInv
<1>5. OutFree(out', obj') /\ TakenOf(out') \in {TakenOf(out), Nobody}
  <2>1. CASE out' = Nobody
    BY <2>1 DEF OutFree, TakenOf
  <2>2. CASE out' # Nobody
    <3>1. out' = out /\ out.from # s /\ out.from # t
      BY <2>2
    <3> QED
      BY <1>2, <2>2, <3>1 DEF HashInv, OutFree
  <2> QED
    BY <2>1, <2>2
<1>6. HashInv'
  BY <1>3, <1>4, <1>5 DEF HashInv
<1>7. \A x \in Objects : Maps(obj')[x] = IF x = s THEN << >> ELSE IF x = t THEN Maps(obj)[s] ELSE Maps(obj)[x]
  <2> SUFFICES ASSUME NEW x \in Objects
               PROVE  MapOf(DataOf(obj'[x])) = IF x = s THEN << >> ELSE IF x = t THEN MapOf(DataOf(obj[s]))
                                               ELSE MapOf(DataOf(obj[x]))
    BY DEF Maps
  <2>1. CASE x = s
    BY <1>2, <2>1, MapOfNone
  <2>2. CASE x # s
    <3>1. CASE x = t
      <4>1. DataOf(obj'[x]) = DataOf(obj[s])
        BY <1>1, <1>2, <2>2, <3>1
      <4> QED
        BY <2>2, <3>1, <4>1
    <3>2. CASE x # t
      <4>1. obj'[x] = obj[x]
        BY <1>2, <2>2, <3>2
      <4> QED
        BY <2>2, <3>2, <4>1
    <3> QED
      BY <3>1, <3>2
  <2> QED
    BY <2>1, <2>2
<1>8. Maps(obj') = [Maps(obj) EXCEPT ![t] = Maps(obj)[s], ![s] = << >>]
  <2>1. PICK c, d : c = Maps(obj) /\ d = Maps(obj')
    OBVIOUS
  <2>2. /\ d = [x \in Objects |-> d[x]] /\ c = [x \in Objects |-> c[x]]
    BY <2>1 DEF Maps
  <2>3. \A x \in Objects : d[x] = IF x = s THEN << >> ELSE IF x = t THEN c[s] ELSE c[x]
    BY <1>7, <2>1
  <2>4. d = [c EXCEPT ![t] = c[s], ![s] = << >>]
    BY ONLY <2>2, <2>3, s \in Objects, t \in Objects, s # t
  <2> QED
    BY <2>1, <2>4
<1> QED
  BY <1>5, <1>6, <1>8 DEF Stepped, MapStep

LEMMA HashCopyStep ==
  ASSUME H!HashAssumption, HashInv, NEW s \in Objects, NEW t \in Objects, H!CopyFrom(s, t)
  PROVE  Stepped
<1>1. status = "hash" /\ Good(obj[s])
  BY DEF H!CopyFrom, HashInv
<1>2. CASE obj[s].pointer # "own"
  BY <1>2, HashBreaks DEF H!CopyFrom
<1>3. CASE obj[s].pointer = "own"
  <2>1. H!Constructed(t, obj[s]) /\ status' = status
    BY <1>3 DEF H!CopyFrom
  <2>2. Keeps(obj[s], obj[s])
    BY <1>1 DEF Keeps
  <2> QED
    BY <1>1, <2>1, <2>2, MadeStep
<1> QED
  BY <1>2, <1>3

LEMMA HashMoveStep ==
  ASSUME H!HashAssumption, HashInv, NEW s \in Objects, NEW t \in Objects, H!MoveFrom(s, t)
  PROVE  Stepped
<1>1. status = "hash" /\ Good(obj[s]) /\ s # t /\ status' = status
  BY DEF H!MoveFrom, HashInv
<1>2. PICK new, old : /\ new = [obj[s] EXCEPT !.pointer = IF @ = "own" THEN "own" ELSE "null"]
                      /\ old = H!Abandoned(obj[s])
  OBVIOUS
<1>3. /\ obj' = [obj EXCEPT ![t] = new, ![s] = old]
      /\ out' = IF out # Nobody /\ out.from \in {s, t} THEN Nobody ELSE out
  BY <1>2 DEF H!MoveFrom
<1>4. Keeps(obj[s], new) /\ Good(old) /\ DataOf(old) = {}
  BY <1>1, <1>2, PointedKeeps, AbandonedIsGood
<1> QED
  BY <1>1, <1>3, <1>4, MovedStep

LEMMA HashCopyElementsStep ==
  ASSUME H!HashAssumption, HashInv, NEW s \in Objects, NEW t \in Objects, H!CopyElements(s, t)
  PROVE  Stepped
<1>1. status = "hash" /\ Good(obj[s]) /\ status' = status
  BY DEF H!CopyElements, HashInv
<1>2. PICK e : e = [obj[s] EXCEPT !.bucket = << >>, !.pointer = "own"]
  OBVIOUS
<1>3. PICK new : new = IF e.count = 0 THEN e
                       ELSE H!Bucketize([e EXCEPT !.bucket = H!NoChains(e.capacity)], TRUE)
  OBVIOUS
<1>4. H!Constructed(t, new)
  BY <1>2, <1>3 DEF H!CopyElements
<1>5. Keeps(obj[s], new)
  <2>1. IsRebuilt(obj[s], new)
    BY <1>2, <1>3 DEF IsRebuilt
  <2> QED
    BY <1>1, <2>1, RebuiltKeeps
<1> QED
  BY <1>1, <1>4, <1>5, MadeStep

LEMMA HashMoveElementsStep ==
  ASSUME H!HashAssumption, HashInv, NEW s \in Objects, NEW t \in Objects, H!MoveElements(s, t)
  PROVE  Stepped
<1>1. status = "hash" /\ Good(obj[s]) /\ s # t
  BY DEF H!MoveElements, HashInv
<1>2. PICK e : e = [obj[s] EXCEPT !.bucket = << >>, !.pointer = "own"]
  OBVIOUS
<1>3. PICK new, old : /\ new = IF e.count = 0 THEN e
                               ELSE H!Bucketize([e EXCEPT !.bucket = H!NoChains(e.capacity)], TRUE)
                      /\ old = H!Abandoned(obj[s])
  OBVIOUS
<1>4. PICK memory \in H!Memory :
        IF e.count # 0 /\ ~memory
        THEN H!Breaks
        ELSE /\ obj' = [obj EXCEPT ![t] = new, ![s] = old]
             /\ out' = IF out # Nobody /\ out.from \in {s, t} THEN Nobody ELSE out
             /\ UNCHANGED status
  BY <1>2, <1>3 DEF H!MoveElements
<1>5. CASE e.count # 0 /\ ~memory
  BY <1>4, <1>5, HashBreaks
<1>6. CASE ~(e.count # 0 /\ ~memory)
  <2>1. /\ obj' = [obj EXCEPT ![t] = new, ![s] = old]
        /\ out' = IF out # Nobody /\ out.from \in {s, t} THEN Nobody ELSE out
        /\ status' = status
    BY <1>4, <1>6
  <2>2. Keeps(obj[s], new)
    <3>1. IsRebuilt(obj[s], new)
      BY <1>2, <1>3 DEF IsRebuilt
    <3> QED
      BY <1>1, <3>1, RebuiltKeeps
  <2>3. Good(old) /\ DataOf(old) = {}
    BY <1>1, <1>3, AbandonedIsGood
  <2> QED
    BY <1>1, <2>1, <2>2, <2>3, MovedStep
<1> QED
  BY <1>5, <1>6

LEMMA HashFromRangeStep ==
  ASSUME H!HashAssumption, HashInv, NEW s \in Objects, NEW t \in Objects, H!FromRange(s, t)
  PROVE  Stepped
<1>1. status = "hash" /\ Good(obj[s]) /\ status' = status /\ H!Constructed(t, H!Refilled(obj[s]))
  BY DEF H!FromRange, HashInv
<1>2. Keeps(obj[s], H!Refilled(obj[s]))
  BY <1>1, RefilledKeeps
<1> QED
  BY <1>1, <1>2, MadeStep

-----------------------------------------------------------------------------
(* All of them together.                                                   *)

LEMMA HashNext ==
  ASSUME H!HashAssumption, HashInv, [H!Next]_(H!vars)
  PROVE  Stepped
<1>1. CASE UNCHANGED H!vars
  <2>1. obj' = obj /\ out' = out /\ status' = status
    BY <1>1 DEF H!vars
  <2>2. HashInv'
    BY <2>1, Zenon DEF HashInv, OutFree
  <2> QED
    BY <2>1, <2>2 DEF Stepped, MapStep
<1>2. CASE \E s \in Objects, key \in Keys, val \in Values : H!Emplace(s, key, val)
  BY <1>2, HashEmplaceStep
<1>3. CASE \E s \in Objects, key \in Keys, val \in Values : H!Insert(s, key, val)
  BY <1>3, HashInsertStep
<1>4. CASE \E s \in Objects, key \in Keys, val \in Values : H!Subscript(s, key, val)
  BY <1>4, HashSubscriptStep
<1>5. CASE \E s \in Objects : H!InsertNode(s)
  BY <1>5, HashInsertNodeStep
<1>6. CASE \E s \in Objects, key \in Extracted : H!Extract(s, key)
  BY <1>6, HashExtractStep DEF H!HashAssumption
<1>7. CASE \E s \in Objects, key \in Keys : H!Erase(s, key)
  BY <1>7, HashEraseStep
<1>8. CASE \E s \in Objects, key \in Asked : H!At(s, key)
  BY <1>8, HashAtStep DEF H!HashAssumption
<1>9. CASE \E s \in Objects, capacity \in Requests : H!ResizeTo(s, capacity)
  BY <1>9, HashResizeStep
<1>10. CASE \E s \in Objects : H!Reorganizes(s)
  BY <1>10, HashReorganizesStep
<1>11. CASE \E s \in Objects : H!Clear(s)
  BY <1>11, HashClearStep
<1>12. CASE \E s, t \in Objects : H!CopyFrom(s, t)
  BY <1>12, HashCopyStep
<1>13. CASE \E s, t \in Objects : H!MoveFrom(s, t)
  BY <1>13, HashMoveStep
<1>14. CASE \E s, t \in Objects : H!CopyElements(s, t)
  BY <1>14, HashCopyElementsStep
<1>15. CASE \E s, t \in Objects : H!MoveElements(s, t)
  BY <1>15, HashMoveElementsStep
<1>16. CASE \E s, t \in Objects : H!FromRange(s, t)
  BY <1>16, HashFromRangeStep
<1>17. CASE \E s \in Objects : \E capacity \in Requests \cup H!Doubled(obj[s]) :
              H!ReallocLoses(s, capacity)
  BY <1>17 DEF H!ReallocLoses, HashLost, Stepped
<1> QED
  BY <1>1, <1>2, <1>3, <1>4, <1>5, <1>6, <1>7, <1>8, <1>9, <1>10, <1>11, <1>12, <1>13, <1>14, <1>15, <1>16,
     <1>17
  DEF H!Next

LEMMA HashInit ==
  ASSUME H!HashAssumption, H!Init
  PROVE  /\ HashInv /\ Maps(obj) = [s \in Objects |-> << >>] /\ TakenOf(out) = Nobody
<1>1. obj = [s \in Objects |-> H!EmptyHashSet] /\ out = Nobody /\ status = "hash"
  BY DEF H!Init
<1>2. \A s \in Objects : obj[s] = H!EmptyHashSet
  BY <1>1
<1>3. HashInv
  BY <1>1, <1>2, EmptyIsGood DEF HashInv, OutFree
<1>4. \A s \in Objects : MapOf(DataOf(obj[s])) = << >>
  BY <1>2, EmptyIsGood, MapOfNone
<1> QED
  BY <1>1, <1>3, <1>4 DEF Maps, TakenOf

(* A map that broke makes no step any more (of what it may do then the     *)
(* model says nothing).                                                    *)
LEMMA HashStepIsSound == H!Next => status = "hash"
<1>1. \A s \in Objects, key \in Keys, val \in Values :
        H!Emplace(s, key, val) \/ H!Insert(s, key, val) \/ H!Subscript(s, key, val) => status = "hash"
  BY DEF H!Emplace, H!Insert, H!Subscript
<1>2. \A s \in Objects : H!InsertNode(s) \/ H!Reorganizes(s) \/ H!Clear(s) => status = "hash"
  BY DEF H!InsertNode, H!Reorganizes, H!Clear
<1>3. \A s \in Objects : \A key : H!Extract(s, key) \/ H!Erase(s, key) \/ H!At(s, key) => status = "hash"
  BY DEF H!Extract, H!Erase, H!At
<1>4. \A s \in Objects : \A capacity :
        H!ResizeTo(s, capacity) \/ H!ReallocLoses(s, capacity) => status = "hash"
  BY DEF H!ResizeTo, H!ReallocLoses
<1>5. \A s, t \in Objects : H!CopyFrom(s, t) \/ H!MoveFrom(s, t) \/ H!FromRange(s, t) => status = "hash"
  BY DEF H!CopyFrom, H!MoveFrom, H!FromRange
<1>6. \A s, t \in Objects : H!CopyElements(s, t) \/ H!MoveElements(s, t) => status = "hash"
  BY DEF H!CopyElements, H!MoveElements
<1> QED
  BY <1>1, <1>2, <1>3, <1>4, <1>5, <1>6 DEF H!Next

(* Every reachable state.                                                  *)
HashReached == HashInv \/ HashLost

LEMMA HashReachedStep ==
  ASSUME H!HashAssumption, HashReached, [H!Next]_(H!vars)
  PROVE  HashReached'
<1>1. CASE HashInv
  BY <1>1, HashNext DEF Stepped, HashReached
<1>2. CASE HashLost
  <2>1. UNCHANGED H!vars
    BY <1>2, HashStepIsSound DEF HashLost
  <2> QED
    BY <1>2, <2>1 DEF H!vars, HashLost, HashReached
<1> QED
  BY <1>1, <1>2 DEF HashReached

(* The invariant of the hash maps: until a map uses memory that is not its *)
(* own, or realloc gives its nodes back (ReallocLoses), the nodes are      *)
(* those the counters say, with the hash of their keys and no key twice,   *)
(* each bucket is the head of a list of exactly its nodes that is linked   *)
(* in both directions, and the slot of an extracted node is free.          *)
THEOREM HashInvariant == H!Spec => [](~HashLost => HashInv)
<1>1. H!HashAssumption
  BY DictionaryAssumption
<1>2. H!Init => HashReached
  BY <1>1, HashInit DEF HashReached
<1>3. HashReached /\ [H!Next]_(H!vars) => HashReached'
  BY <1>1, HashReachedStep
<1>4. HashReached => (~HashLost => HashInv)
  BY DEF HashReached
<1> QED
  BY <1>2, <1>3, <1>4, PTL DEF H!Spec

-----------------------------------------------------------------------------
(* The hash maps implement mappings.                                       *)

HashContents == [s \in Objects |-> IF IsHash THEN H!Contents(s) ELSE << >>]
HashTaken == IF IsHash THEN H!Taken ELSE Nobody

LEMMA HashContentsAre ==
  ASSUME H!HashAssumption, HashInv, status = "hash"
  PROVE  HashContents = Maps(obj) /\ HashTaken = TakenOf(out)
<1>1. \A s \in Objects : H!Contents(s) = ContentsOf(obj[s])
  BY DEF H!Contents, ContentsOf
<1>2. \A s \in Objects : ContentsOf(obj[s]) = MapOf(DataOf(obj[s]))
  BY DataIsSingle DEF HashInv
<1>3. HashContents = Maps(obj)
  BY <1>1, <1>2 DEF HashContents, Maps, HashInv, IsHash
<1> QED
  BY <1>3 DEF HashTaken, HashInv, IsHash, H!Taken, TakenOf

LEMMA HashContentsNext ==
  ASSUME H!HashAssumption, HashInv', status' = "hash"
  PROVE  HashContents' = Maps(obj') /\ HashTaken' = TakenOf(out')
<1>1. \A s \in Objects : H!Contents(s)' = ContentsOf(obj'[s])
  BY DEF H!Contents, ContentsOf, H!ActiveSlots, H!Slots
<1>2. \A s \in Objects : ContentsOf(obj'[s]) = MapOf(DataOf(obj'[s]))
  BY DataIsSingle DEF HashInv
<1>3. HashContents' = Maps(obj')
  BY <1>1, <1>2 DEF HashContents, Maps, HashInv, IsHash
<1> QED
  BY <1>3 DEF HashTaken, HashInv, IsHash, H!Taken, TakenOf

(* What MapStep says is a step of DictSpec.                                *)
LEMMA MapStepIsStep ==
  ASSUME MapStep(HashContents, HashContents', HashTaken, HashTaken'),
         status # "hash broken", status' # "hash broken"
  PROVE  [HashPromise!Next]_(HashPromise!vars)
<1> DEFINE c == HashContents
           o == HashTaken
<1>0. CASE HashPromise!Step
  BY <1>0 DEF HashPromise!Next
<1>1. CASE c' = c /\ o' \in {o, Nobody}
  <2>1. CASE o' = o
    BY <1>1, <2>1 DEF HashPromise!vars, HashContents, HashTaken
  <2>2. CASE o' = Nobody
    <3>1. HashPromise!Forget
      BY <1>1, <2>2 DEF HashPromise!Forget, HashContents, HashTaken
    <3> QED
      BY <1>0, <3>1 DEF HashPromise!Step
  <2> QED
    BY <1>1, <2>1, <2>2
<1>2. ASSUME NEW s \in Objects, NEW key \in Keys, NEW val \in Values,
             Adds(c, c', s, key, val), o' \in {o, Nobody}
      PROVE  HashPromise!Step
  <2>1. HashPromise!Assign(s, key, val)
    BY <1>2 DEF Adds, HashPromise!Assign, HashPromise!Becomes, HashContents, HashTaken
  <2> QED
    BY <2>1 DEF HashPromise!Step
<1>3. ASSUME NEW s \in Objects, NEW key \in Keys, Drops(c, c', s, key), o' \in {o, Nobody}
      PROVE  HashPromise!Step
  <2>1. HashPromise!Erase(s, key)
    BY <1>3 DEF Drops, HashPromise!Erase, HashPromise!Becomes, HashContents, HashTaken
  <2> QED
    BY <2>1 DEF HashPromise!Step
<1>4. ASSUME NEW s \in Objects, NEW key \in Keys, Drops(c, c', s, key),
             o' = [key |-> key, val |-> c[s][key]]
      PROVE  HashPromise!Step
  <2>1. HashPromise!Extract(s, key)
    BY <1>4 DEF Drops, HashPromise!Extract, HashPromise!Becomes, HashContents, HashTaken
  <2> QED
    BY <2>1 DEF HashPromise!Step
<1>5. ASSUME NEW s \in Objects, NEW key \in Keys, key \in DOMAIN c[s], o' = o,
             c' = [c EXCEPT ![s] = [c[s] EXCEPT ![key] = Default]]
      PROVE  HashPromise!Step
  <2>1. HashPromise!Take(s, key)
    BY <1>5 DEF HashPromise!Take, HashPromise!Becomes, HashContents, HashTaken
  <2> QED
    BY <2>1 DEF HashPromise!Step
<1>6. ASSUME NEW s \in Objects, o # Nobody, o.key \notin DOMAIN c[s], o' = Nobody,
             Adds(c, c', s, o.key, o.val)
      PROVE  HashPromise!Step
  <2>1. HashPromise!PutBack(s)
    BY <1>6 DEF Adds, HashPromise!PutBack, HashPromise!Becomes, HashContents, HashTaken
  <2> QED
    BY <2>1 DEF HashPromise!Step
<1>7. ASSUME NEW s \in Objects, c' = [c EXCEPT ![s] = << >>], o' \in {o, Nobody}
      PROVE  HashPromise!Step
  <2>1. HashPromise!Clear(s)
    BY <1>7 DEF HashPromise!Clear, HashPromise!Nothing, HashPromise!Becomes, HashContents, HashTaken
  <2> QED
    BY <2>1 DEF HashPromise!Step
<1>8. ASSUME NEW s \in Objects, NEW t \in Objects, c' = [c EXCEPT ![t] = c[s]], o' \in {o, Nobody}
      PROVE  HashPromise!Step
  <2>1. HashPromise!Copy(s, t)
    BY <1>8 DEF HashPromise!Copy, HashPromise!Becomes, HashContents, HashTaken
  <2> QED
    BY <2>1 DEF HashPromise!Step
<1>9. ASSUME NEW s \in Objects, NEW t \in Objects, c' = [c EXCEPT ![t] = c[s], ![s] = << >>],
             o' \in {o, Nobody}
      PROVE  HashPromise!Step
  <2>1. HashPromise!Move(s, t)
    BY <1>9 DEF HashPromise!Move, HashPromise!Nothing, HashContents, HashTaken
  <2> QED
    BY <2>1 DEF HashPromise!Step
<1> HIDE DEF c, o
<1> QED
  BY <1>0, <1>1, <1>2, <1>3, <1>4, <1>5, <1>6, <1>7, <1>8, <1>9 DEF MapStep, c, o

LEMMA HashImplementsInit ==
  ASSUME H!HashAssumption, H!Init
  PROVE  HashPromise!Init
<1>1. /\ HashInv /\ Maps(obj) = [s \in Objects |-> << >>] /\ TakenOf(out) = Nobody
      /\ status = "hash"
  BY HashInit DEF H!Init
<1>2. HashContents = [s \in Objects |-> << >>] /\ HashTaken = Nobody
  BY <1>1, HashContentsAre
<1> QED
  BY <1>1, <1>2 DEF HashPromise!Init, HashPromise!Nothing, HashContents, HashTaken

LEMMA HashImplementsStep ==
  ASSUME H!HashAssumption, HashReached, [H!Next]_(H!vars)
  PROVE  [HashPromise!Next]_(HashPromise!vars)
<1>1. CASE HashLost
  <2>1. UNCHANGED H!vars
    BY <1>1, HashStepIsSound DEF HashLost
  <2>2. HashLost'
    BY <1>1, <2>1 DEF H!vars, HashLost
  <2> QED
    BY <2>2 DEF HashLost, HashPromise!Break, HashPromise!Next
<1>2. CASE HashInv
  <2>1. Stepped
    BY <1>2, HashNext
  <2>2. CASE HashLost'
    BY <2>2 DEF HashLost, HashPromise!Break, HashPromise!Next
  <2>3. CASE HashInv' /\ MapStep(Maps(obj), Maps(obj'), TakenOf(out), TakenOf(out'))
    <3>1. status = "hash" /\ status' = "hash"
      BY <1>2, <2>3 DEF HashInv
    <3>2. MapStep(HashContents, HashContents', HashTaken, HashTaken')
      BY <1>2, <2>3, <3>1, HashContentsAre, HashContentsNext
    <3> QED
      BY <3>1, <3>2, MapStepIsStep
  <2> QED
    BY <2>1, <2>2, <2>3 DEF Stepped
<1> QED
  BY <1>1, <1>2 DEF HashReached

(* The hash maps implement mappings from keys to values: no operation of   *)
(* hash.hpp loses, changes or duplicates an entry, until a map uses memory *)
(* that is not its own or realloc gives its nodes back because there is no *)
(* memory (mem.cpp:233-240, elements.hpp:103-105).                         *)
THEOREM HashMapsAreMappings == H!Spec => HashImplements
<1>1. H!HashAssumption
  BY DictionaryAssumption
<1>2. H!Init => HashPromise!Init
  BY <1>1, HashImplementsInit
<1>3. H!Init => HashReached
  BY <1>1, HashInit DEF HashReached
<1>4. HashReached /\ [H!Next]_(H!vars) => HashReached'
  BY <1>1, HashReachedStep
<1>5. HashReached /\ [H!Next]_(H!vars) => [HashPromise!Next]_(HashPromise!vars)
  BY <1>1, HashImplementsStep
<1> QED
  BY <1>2, <1>3, <1>4, <1>5, PTL DEF H!Spec, HashImplements, HashPromise!Spec

-----------------------------------------------------------------------------
(* The chains and the nodes agree.                                         *)

(* The buckets in use have different first slots.                          *)
LEMMA FewBuckets ==
  ASSUME H!HashAssumption, NEW s, Good(s)
  PROVE  H!BucketCount(s) <= s.count
<1> DEFINE B == {b \in H!Cells(s) : s.bucket[b] # 0}
           A == H!ActiveSlots(s)
           f == [b \in B |-> s.bucket[b]]
<1>1. NodesOK(s) /\ ChainsOK(s) /\ IsFiniteSet(A) /\ s.count = Cardinality(A)
  BY ActiveAre DEF Good, NodesOK
<1>2. ASSUME NEW b \in B PROVE s.bucket[b] \in Members(s, b)
  <2>1. PICK c : IsLinked(s.node, s.bucket[b], c) /\ Range(c) = Members(s, b)
    BY <1>1 DEF ChainsOK
  <2> QED
    BY <1>1, <2>1, HeadOfChain
<1>3. \A b \in B : f[b] \in A /\ H!CellOf(s, s.node[f[b]].temp) = b
  BY <1>2 DEF Members
<1>4. f \in [B -> A]
  BY <1>3
<1>5. \A a, b \in B : f[a] = f[b] => a = b
  BY <1>3
<1>6. f \in Injection(B, A)
  BY <1>4, <1>5 DEF Injection, IsInjective
<1>7. Cardinality(B) <= Cardinality(A)
  <2> HIDE DEF f, A, B
  <2> QED
    BY <1>1, <1>6, FS_Injection
<1> QED
  BY <1>1, <1>7, HCardinality DEF H!BucketCount

LEMMA ElementsFine ==
  ASSUME H!HashAssumption, NEW s, NodesOK(s)
  PROVE  H!ElementsOK(s)
<1>1. /\ H!Slots(s) = 1..(s.capacity - 1) /\ DOMAIN s.node = 1..(s.capacity - 1)
      /\ s.node = [i \in 1..(s.capacity - 1) |-> s.node[i]]
  BY ActiveAre DEF NodesOK
<1>2. s.node \in [H!Slots(s) -> {s.node[i] : i \in H!Slots(s)}]
  BY <1>1
<1>3. s.count = H!Cardinality(H!ActiveSlots(s))
  BY HCardinality DEF NodesOK
<1>4. /\ s.next \in 1..(IF s.capacity = 0 THEN 1 ELSE s.capacity)
      /\ \A i \in H!ActiveSlots(s) : i < s.next
  BY DEF NodesOK
<1> QED
  BY ONLY <1>2, <1>3, <1>4 DEF H!ElementsOK

LEMMA ChainsFine ==
  ASSUME H!HashAssumption, NEW s, Good(s)
  PROVE  H!ChainsAgree(s)
<1>1. NodesOK(s) /\ TableOK(s) /\ ChainsOK(s)
  BY DEF Good
<1>2. H!ElementsOK(s) /\ H!BucketCount(s) <= s.count
  BY <1>1, ElementsFine, FewBuckets
<1>3. \A i, j \in H!ActiveSlots(s) : s.node[i].data.key = s.node[j].data.key => i = j
  BY <1>1 DEF NodesOK
<1>4. (s.count # 0 => H!Cells(s) # {}) /\ (s.capacity # 0 => s.pointer = "own")
  BY <1>1 DEF TableOK
<1>5. ASSUME NEW b \in H!Cells(s)
      PROVE  LET chain == H!Chain(s, b)
             IN /\ H!ToSet(chain) = {i \in H!ActiveSlots(s) : H!CellOf(s, HashOf[s.node[i].data.key]) = b}
                /\ \A n \in 1..Len(chain) :
                     LET e == s.node[chain[n]]
                     IN /\ e.temp = HashOf[e.data.key]
                        /\ e.prev = IF n = 1 THEN 0 ELSE chain[n - 1]
                        /\ e.next = IF n = Len(chain) THEN 0 ELSE chain[n + 1]
  <2>1. PICK c : IsLinked(s.node, s.bucket[b], c) /\ Range(c) = Members(s, b)
    BY <1>1 DEF ChainsOK
  <2>2. H!Chain(s, b) = c
    BY <1>1, <2>1, ChainIs
  <2>3. /\ Len(c) \in Nat /\ DOMAIN c = 1..Len(c)
        /\ \A n \in 1..Len(c) : c[n] \in Range(c)
    BY <2>1, LinkedSlots
  <2>4. \A i \in H!ActiveSlots(s) : s.node[i].temp = HashOf[s.node[i].data.key]
    BY <1>1 DEF NodesOK
  <2>5. Members(s, b) = {i \in H!ActiveSlots(s) : H!CellOf(s, HashOf[s.node[i].data.key]) = b}
    BY <2>4 DEF Members
  <2>6. H!ToSet(c) = Range(c)
    BY DEF H!ToSet, Range
  <2>7. ASSUME NEW n \in 1..Len(c)
        PROVE  /\ s.node[c[n]].temp = HashOf[s.node[c[n]].data.key]
               /\ s.node[c[n]].prev = IF n = 1 THEN 0 ELSE c[n - 1]
               /\ s.node[c[n]].next = IF n = Len(c) THEN 0 ELSE c[n + 1]
    <3>1. c[n] \in H!ActiveSlots(s)
      BY <2>1, <2>3 DEF Members
    <3>2. s.node[c[n]].next = SlotAt(c, n + 1) /\ s.node[c[n]].prev = SlotAt(c, n - 1)
      BY <2>1 DEF IsLinked
    <3>3. /\ n = 1 => n - 1 \notin 1..Len(c)
          /\ n # 1 => n - 1 \in 1..Len(c)
          /\ n = Len(c) => n + 1 \notin 1..Len(c)
          /\ n # Len(c) => n + 1 \in 1..Len(c)
      <4>1. \A l \in Nat : \A m \in 1..l :
              /\ m = 1 => m - 1 \notin 1..l
              /\ m # 1 => m - 1 \in 1..l
              /\ m = l => m + 1 \notin 1..l
              /\ m # l => m + 1 \in 1..l
        OBVIOUS
      <4> QED
        BY ONLY <2>3, <4>1, n \in 1..Len(c), Zenon
    <3> QED
      BY <2>4, <3>1, <3>2, <3>3 DEF SlotAt
  <2> QED
    BY <2>1, <2>2, <2>5, <2>6, <2>7
<1> QED
  BY <1>2, <1>3, <1>4, <1>5 DEF H!ChainsAgree

-----------------------------------------------------------------------------
(* The walks of the iterators meet every node once.                        *)

Step(s, forward, i) == IF forward THEN H!NextOf(s, i) ELSE H!PrevOf(s, i)

IsWalk(f, s, forward, a, n) == f = [i \in 0..n |-> IF i = 0 THEN a ELSE Step(s, forward, f[i - 1])]

LEMMA WalksExist ==
  ASSUME NEW s, NEW forward, NEW a, NEW n \in Nat
  PROVE  \E f : IsWalk(f, s, forward, a, n)
<1> DEFINE S == {m \in Nat : \E f : IsWalk(f, s, forward, a, m)}
<1>1. 0 \in S
  <2>1. IsWalk([i \in 0..0 |-> a], s, forward, a, 0)
    BY DEF IsWalk
  <2> QED
    BY <2>1
<1>2. ASSUME NEW m \in Nat, m \in S PROVE m + 1 \in S
  <2>1. PICK f : IsWalk(f, s, forward, a, m)
    BY <1>2
  <2>2. f[0] = a /\ \A i \in 1..m : f[i] = Step(s, forward, f[i - 1])
    <3>1. DOMAIN f = 0..m /\ \A i \in 0..m : f[i] = IF i = 0 THEN a ELSE Step(s, forward, f[i - 1])
      BY <2>1 DEF IsWalk
    <3> QED
      BY <3>1
  <2> DEFINE g == [i \in 0..(m + 1) |-> IF i <= m THEN f[i] ELSE Step(s, forward, f[m])]
  <2>3. ASSUME NEW i \in 0..(m + 1) PROVE g[i] = IF i = 0 THEN a ELSE Step(s, forward, g[i - 1])
    <3>1. CASE i = 0
      BY <2>2, <3>1
    <3>2. CASE i \in 1..m
      <4>1. g[i] = f[i] /\ g[i - 1] = f[i - 1]
        BY <3>2
      <4> HIDE DEF g
      <4> QED
        BY <2>2, <3>2, <4>1
    <3>3. CASE i = m + 1
      <4>1. g[i] = Step(s, forward, f[m]) /\ g[i - 1] = f[m]
        BY <3>3
      <4> HIDE DEF g
      <4> QED
        BY <3>3, <4>1
    <3> QED
      BY <3>1, <3>2, <3>3
  <2>4. g = [i \in 0..(m + 1) |-> g[i]]
    OBVIOUS
  <2> HIDE DEF g
  <2>5. IsWalk(g, s, forward, a, m + 1)
    BY <2>3, <2>4 DEF IsWalk
  <2> QED
    BY <2>5
<1> HIDE DEF S
<1>3. n \in S
  BY <1>1, <1>2, NumberInduction
<1> QED
  BY <1>3 DEF S

(* passed[x] is what a walk has met before it comes to x, and z its end:   *)
(* if each step goes on to one more, it meets all of A and then z.         *)
IsWay(A, z, passed) ==
  /\ IsFiniteSet(A) /\ z \notin A
  /\ passed \in [A \cup {z} -> SUBSET A] /\ passed[z] = A
  /\ \A x \in A \cup {z} : x \notin passed[x]
  /\ \A x, y \in A \cup {z} : x # y => \/ x \in passed[y] /\ passed[x] \subseteq passed[y]
                                       \/ y \in passed[x] /\ passed[y] \subseteq passed[x]

IsWalked(A, z, passed, f) ==
  /\ f[0] \in A \cup {z} /\ passed[f[0]] = {}
  /\ \A n \in 1..Cardinality(A) :
       f[n - 1] \in A => f[n] \in A \cup {z} /\ passed[f[n]] = passed[f[n - 1]] \cup {f[n - 1]}

LEMMA WalkMeetsAll ==
  ASSUME NEW A, NEW z, NEW passed, IsWay(A, z, passed), NEW f, IsWalked(A, z, passed, f)
  PROVE  {f[n] : n \in 0..Cardinality(A)} = A \cup {z}
<1> DEFINE N == Cardinality(A)
           P(n) == f[n] \in A \cup {z} /\ Cardinality(passed[f[n]]) = n
           S == {n \in Nat : n <= N => P(n)}
<1>1. N \in Nat /\ IsFiniteSet(A)
  BY FS_CardinalityType DEF IsWay
<1>2. \A x \in A \cup {z} : passed[x] \subseteq A /\ IsFiniteSet(passed[x]) /\ x \notin passed[x]
  BY <1>1, FS_Subset DEF IsWay
<1>3. 0 \in S
  BY FS_EmptySet DEF IsWalked
<1>4. ASSUME NEW n \in Nat, n \in S PROVE n + 1 \in S
  <2> SUFFICES ASSUME n + 1 <= N PROVE P(n + 1)
    OBVIOUS
  <2>1. P(n) /\ n < N /\ n + 1 \in 1..N /\ (n + 1) - 1 = n
    BY <1>1, <1>4
  <2>2. f[n] \in A
    <3>1. f[n] # z
      BY <2>1 DEF IsWay
    <3> QED
      BY <2>1, <3>1
  <2>3. f[n + 1] \in A \cup {z} /\ passed[f[n + 1]] = passed[f[n]] \cup {f[n]}
    BY <2>1, <2>2 DEF IsWalked
  <2>4. PICK X, x : X = passed[f[n]] /\ x = f[n]
    OBVIOUS
  <2>5. IsFiniteSet(X) /\ x \notin X /\ Cardinality(X) = n
    BY <1>2, <2>1, <2>2, <2>4
  <2>6. Cardinality(X \cup {x}) = n + 1
    BY <2>5, FS_AddElement
  <2> QED
    BY <2>3, <2>4, <2>6
<1> HIDE DEF S
<1>5. \A n \in 0..N : P(n)
  <2>1. Nat \subseteq S
    BY <1>3, <1>4, NumberInduction
  <2> QED
    BY <1>1, <2>1 DEF S
<1>6. ASSUME NEW x \in A \cup {z} PROVE \E n \in 0..N : f[n] = x
  <2>1. PICK n : n = Cardinality(passed[x])
    OBVIOUS
  <2>2. n \in Nat /\ n <= N
    BY <1>1, <1>2, <2>1, FS_CardinalityType, FS_Subset
  <2>3. n \in 0..N
    BY <1>1, <2>2
  <2>4. PICK y : y = f[n]
    OBVIOUS
  <2>5. y \in A \cup {z} /\ Cardinality(passed[y]) = n
    BY <1>5, <2>3, <2>4
  <2>6. ASSUME NEW a \in A \cup {z}, NEW b \in A \cup {z}, a \in passed[b], passed[a] \subseteq passed[b]
        PROVE  Cardinality(passed[a]) # Cardinality(passed[b])
    <3>1. passed[a] # passed[b] /\ IsFiniteSet(passed[b])
      BY <1>2, <2>6
    <3> QED
      BY <2>6, <3>1, FS_Subset
  <2>7. y = x
    BY <2>1, <2>5, <2>6 DEF IsWay
  <2> QED
    BY <2>3, <2>4, <2>7
<1> QED
  BY <1>5, <1>6

Before(s) == [x \in H!ActiveSlots(s) \cup {s.next} |-> {j \in H!ActiveSlots(s) : j < x}]
Behind(s) == [x \in H!ActiveSlots(s) \cup {0} |-> {j \in H!ActiveSlots(s) : j > x}]

(* Where the slots lie.                                                    *)
LEMMA SlotsLie ==
  ASSUME H!HashAssumption, NEW s, NodesOK(s)
  PROVE  /\ H!ActiveSlots(s) \subseteq Nat \ {0} /\ IsFiniteSet(H!ActiveSlots(s))
         /\ s.next \in Nat \ {0} /\ s.capacity \in Nat
         /\ \A i \in H!ActiveSlots(s) : i < s.next /\ i <= s.capacity /\ s.next <= s.capacity
         /\ \A i : H!Active(s, i) <=> i \in H!ActiveSlots(s)
         /\ s.count = 0 <=> H!ActiveSlots(s) = {}
         /\ s.count = Cardinality(H!ActiveSlots(s))
<1>1. /\ \A i \in H!ActiveSlots(s) : i \in 1..(s.capacity - 1) /\ i < s.next
      /\ s.next \in Nat \ {0} /\ s.capacity \in Nat /\ IsFiniteSet(H!ActiveSlots(s))
      /\ s.next \in 1..(IF s.capacity = 0 THEN 1 ELSE s.capacity)
      /\ \A i : H!Active(s, i) <=> i \in H!ActiveSlots(s)
      /\ s.count = Cardinality(H!ActiveSlots(s))
  BY ActiveAre DEF NodesOK
<1>2. \A i \in H!ActiveSlots(s) : i \in Nat \ {0} /\ i < s.next /\ i <= s.capacity /\ s.next <= s.capacity
  <2> SUFFICES ASSUME NEW i \in H!ActiveSlots(s)
               PROVE  i \in Nat \ {0} /\ i < s.next /\ i <= s.capacity /\ s.next <= s.capacity
    OBVIOUS
  <2>1. i \in 1..(s.capacity - 1) /\ i < s.next
    BY <1>1
  <2>2. s.capacity # 0
    BY <1>1, <2>1
  <2> QED
    BY <1>1, <2>1, <2>2
<1>3. s.count = 0 <=> H!ActiveSlots(s) = {}
  BY <1>1, FS_EmptySet
<1> QED
  BY <1>1, <1>2, <1>3

LEMMA BeforeIsWay ==
  ASSUME H!HashAssumption, NEW s, NodesOK(s)
  PROVE  IsWay(H!ActiveSlots(s), s.next, Before(s)) /\ IsWay(H!ActiveSlots(s), 0, Behind(s))
<1> DEFINE A == H!ActiveSlots(s)
<1>1. /\ A \subseteq Nat \ {0} /\ IsFiniteSet(A) /\ s.next \in Nat \ {0}
      /\ \A i \in A : i < s.next
  BY SlotsLie
<1> HIDE DEF A
<1>2. Before(s) = [x \in A \cup {s.next} |-> {j \in A : j < x}]
  BY DEF Before, A
<1>3. Behind(s) = [x \in A \cup {0} |-> {j \in A : j > x}]
  BY DEF Behind, A
<1>4. IsWay(A, s.next, Before(s))
  <2>1. s.next \notin A
    BY <1>1
  <2>2. Before(s) \in [A \cup {s.next} -> SUBSET A]
    BY <1>2
  <2>3. Before(s)[s.next] = A
    BY <1>1, <1>2
  <2>4. \A x \in A \cup {s.next} : Before(s)[x] = {j \in A : j < x} /\ x \in Nat
    BY <1>1, <1>2
  <2>5. \A x \in A \cup {s.next} : x \notin Before(s)[x]
    BY <2>4
  <2>6. ASSUME NEW x \in A \cup {s.next}, NEW y \in A \cup {s.next}, x < y
        PROVE  x \in Before(s)[y] /\ Before(s)[x] \subseteq Before(s)[y]
    <3>1. x \in A
      BY <1>1, <2>6
    <3>2. x \in Nat /\ y \in Nat
      BY <2>4
    <3>3. x \in Before(s)[y]
      BY <2>4, <2>6, <3>1
    <3>4. \A j \in A : j < x => j < y
      BY <1>1, <2>6, <3>2
    <3> QED
      BY <2>4, <3>3, <3>4
  <2>7. \A x, y \in A \cup {s.next} : x # y => x < y \/ y < x
    BY <2>4
  <2> QED
    BY <1>1, <2>1, <2>2, <2>3, <2>5, <2>6, <2>7 DEF IsWay
<1>5. IsWay(A, 0, Behind(s))
  <2>1. 0 \notin A
    BY <1>1
  <2>2. Behind(s) \in [A \cup {0} -> SUBSET A]
    BY <1>3
  <2>3. Behind(s)[0] = A
    <3>1. Behind(s)[0] = {j \in A : j > 0}
      BY ONLY <1>3
    <3>2. \A j \in A : j > 0
      BY <1>1
    <3> QED
      BY ONLY <3>1, <3>2
  <2>4. \A x \in A \cup {0} : Behind(s)[x] = {j \in A : j > x} /\ x \in Nat
    <3>1. \A x \in A \cup {0} : Behind(s)[x] = {j \in A : j > x}
      BY ONLY <1>3
    <3> QED
      BY <1>1, <3>1
  <2>5. \A x \in A \cup {0} : x \notin Behind(s)[x]
    BY <2>4
  <2>6. ASSUME NEW x \in A \cup {0}, NEW y \in A \cup {0}, x > y
        PROVE  x \in Behind(s)[y] /\ Behind(s)[x] \subseteq Behind(s)[y]
    <3>1. x \in Nat /\ y \in Nat
      BY <2>4
    <3>2. x \in A
      BY <2>6, <3>1
    <3>3. x \in Behind(s)[y]
      BY <2>4, <2>6, <3>2
    <3>4. \A j \in A : j > x => j > y
      BY <1>1, <2>6, <3>1
    <3> QED
      BY <2>4, <3>3, <3>4
  <2>7. \A x, y \in A \cup {0} : x # y => x > y \/ y > x
    BY <2>4
  <2> QED
    BY <1>1, <2>1, <2>2, <2>3, <2>5, <2>6, <2>7 DEF IsWay
<1> QED
  BY <1>4, <1>5 DEF A

(* One step of an iterator.                                                *)
LEMMA NextGoesOn ==
  ASSUME H!HashAssumption, NEW s, NodesOK(s), NEW i \in H!ActiveSlots(s), NEW k, k = H!NextOf(s, i)
  PROVE  /\ k \in H!ActiveSlots(s) \cup {s.next}
         /\ {j \in H!ActiveSlots(s) : j < k} = {j \in H!ActiveSlots(s) : j < i} \cup {i}
<1> DEFINE A == H!ActiveSlots(s)
           K == {j \in (i + 1)..s.capacity : j >= s.next \/ H!Active(s, j)}
<1>1. /\ A \subseteq Nat \ {0} /\ s.next \in Nat \ {0} /\ s.capacity \in Nat
      /\ \A j \in A : j < s.next /\ j <= s.capacity /\ s.next <= s.capacity
      /\ \A j : H!Active(s, j) <=> j \in A
  BY SlotsLie
<1> HIDE DEF A
<1>2. i \in A
  BY DEF A
<1>3. i \in Nat /\ s.next \in (i + 1)..s.capacity
  BY <1>1, <1>2
<1>4. K \subseteq Nat /\ s.next \in K
  BY <1>1, <1>3
<1>5. k = H!Min(K)
  BY DEF H!NextOf
<1>6. k \in K /\ \A j \in K : k <= j
  <2> HIDE DEF K
  <2> QED
    BY <1>4, <1>5, LeastOf
<1>7. k \in Nat /\ k > i /\ k <= s.next /\ (k >= s.next \/ k \in A)
  BY <1>1, <1>3, <1>4, <1>6
<1>8. k \in A \cup {s.next}
  BY <1>1, <1>7
<1>9. \A j \in A : j < k <=> (j < i \/ j = i)
  <2> SUFFICES ASSUME NEW j \in A, j < k, j > i PROVE FALSE
    BY <1>1, <1>3, <1>7
  <2>1. j \in (i + 1)..s.capacity
    BY <1>1, <1>3
  <2>2. j \in K
    BY <1>1, <2>1
  <2> QED
    BY <1>1, <1>6, <1>7, <2>2
<1>10. {j \in A : j < k} = {j \in A : j < i} \cup {i}
  BY <1>2, <1>9
<1> QED
  BY <1>8, <1>10 DEF A

LEMMA PrevGoesOn ==
  ASSUME H!HashAssumption, NEW s, NodesOK(s), NEW i \in H!ActiveSlots(s), NEW k, k = H!PrevOf(s, i)
  PROVE  /\ k \in H!ActiveSlots(s) \cup {0}
         /\ {j \in H!ActiveSlots(s) : j > k} = {j \in H!ActiveSlots(s) : j > i} \cup {i}
<1> DEFINE A == H!ActiveSlots(s)
           K == {j \in 0..(i - 1) : j = 0 \/ H!Active(s, j)}
<1>1. A \subseteq Nat \ {0} /\ \A j : H!Active(s, j) <=> j \in A
  BY SlotsLie
<1> HIDE DEF A
<1>2. i \in A
  BY DEF A
<1>3. i \in Nat \ {0}
  BY <1>1, <1>2
<1>4. K \subseteq 0..(i - 1) /\ i - 1 \in Nat /\ 0 \in K
  BY <1>3
<1>5. k = H!Max(K)
  BY DEF H!PrevOf
<1>6. k \in K /\ \A j \in K : j <= k
  <2> HIDE DEF K
  <2> QED
    BY <1>4, <1>5, GreatestOf
<1>7. k \in Nat /\ k < i /\ (k = 0 \/ k \in A)
  BY <1>1, <1>3, <1>6
<1>8. \A j \in A : j > k <=> (j > i \/ j = i)
  <2> SUFFICES ASSUME NEW j \in A, j > k, j < i PROVE FALSE
    BY <1>1, <1>3, <1>7
  <2>1. j \in 0..(i - 1)
    BY <1>1, <1>3
  <2>2. j \in K
    BY <1>1, <2>1
  <2> QED
    BY <1>1, <1>6, <1>7, <2>2
<1>9. {j \in A : j > k} = {j \in A : j > i} \cup {i}
  BY <1>2, <1>8
<1> QED
  BY <1>7, <1>9 DEF A

(* Walking forwards from begin, and back from the last node.               *)
LEMMA WalkForward ==
  ASSUME H!HashAssumption, NEW s, NodesOK(s), NEW f, IsWalk(f, s, TRUE, H!Begin(s), s.count)
  PROVE  {f[n] : n \in 0..s.count} = H!ActiveSlots(s) \cup {s.next}
<1> DEFINE A == H!ActiveSlots(s)
<1>1. /\ A \subseteq Nat \ {0} /\ s.next \in Nat \ {0}
      /\ \A i \in A : i < s.next
      /\ s.count = 0 <=> A = {}
      /\ s.count = Cardinality(A) /\ s.count \in Nat
  BY SlotsLie, ActiveAre
<1>2. IsWay(A, s.next, Before(s)) /\ \A x \in A \cup {s.next} : Before(s)[x] = {j \in A : j < x}
  BY BeforeIsWay DEF Before
<1>3. f[0] = H!Begin(s) /\ \A n \in 1..s.count : f[n] = H!NextOf(s, f[n - 1])
  <2>1. \A n \in 0..s.count : f[n] = IF n = 0 THEN H!Begin(s) ELSE H!NextOf(s, f[n - 1])
    BY DEF IsWalk, Step
  <2>2. 0 \in 0..s.count /\ \A n \in 1..s.count : n \in 0..s.count /\ n # 0
    BY <1>1
  <2> QED
    BY <2>1, <2>2
<1>4. f[0] \in A \cup {s.next} /\ {j \in A : j < f[0]} = {}
  <2>1. CASE s.count = 0
    BY <1>1, <1>3, <2>1 DEF H!Begin
  <2>2. CASE s.count # 0
    <3>1. H!Begin(s) = H!Min(A)
      BY <2>2 DEF H!Begin
    <3>2. A \subseteq Nat /\ A # {}
      BY <1>1, <2>2
    <3>3. H!Min(A) \in A /\ \A y \in A : H!Min(A) <= y
      <4> HIDE DEF A
      <4> QED
        BY <3>2, LeastOf
    <3>4. \A y \in A : ~(y < H!Min(A))
      BY <3>2, <3>3
    <3> QED
      BY <1>3, <3>1, <3>3, <3>4
  <2> QED
    BY <2>1, <2>2
<1>5. ASSUME NEW n \in 1..Cardinality(A), f[n - 1] \in A
      PROVE  /\ f[n] \in A \cup {s.next}
             /\ Before(s)[f[n]] = Before(s)[f[n - 1]] \cup {f[n - 1]}
  <2>1. f[n] = H!NextOf(s, f[n - 1])
    BY <1>1, <1>3, <1>5
  <2>2. /\ f[n] \in A \cup {s.next}
        /\ {j \in A : j < f[n]} = {j \in A : j < f[n - 1]} \cup {f[n - 1]}
    BY <1>5, <2>1, NextGoesOn
  <2> QED
    BY <1>2, <1>5, <2>2
<1>6. IsWalked(A, s.next, Before(s), f)
  BY <1>2, <1>4, <1>5 DEF IsWalked
<1>7. {f[n] : n \in 0..Cardinality(A)} = A \cup {s.next}
  <2> HIDE DEF A
  <2> QED
    BY <1>2, <1>6, WalkMeetsAll
<1> QED
  BY <1>1, <1>7

LEMMA WalkBackward ==
  ASSUME H!HashAssumption, NEW s, NodesOK(s), NEW f, IsWalk(f, s, FALSE, H!RBegin(s), s.count)
  PROVE  {f[n] : n \in 0..s.count} = H!ActiveSlots(s) \cup {0}
<1> DEFINE A == H!ActiveSlots(s)
<1>1. /\ A \subseteq Nat \ {0} /\ s.next \in Nat \ {0}
      /\ \A i \in A : i < s.next
      /\ s.count = 0 <=> A = {}
      /\ s.count = Cardinality(A) /\ s.count \in Nat
  BY SlotsLie, ActiveAre
<1>2. IsWay(A, 0, Behind(s)) /\ \A x \in A \cup {0} : Behind(s)[x] = {j \in A : j > x}
  BY BeforeIsWay DEF Behind
<1>3. f[0] = H!RBegin(s) /\ \A n \in 1..s.count : f[n] = H!PrevOf(s, f[n - 1])
  <2>1. \A n \in 0..s.count : f[n] = IF n = 0 THEN H!RBegin(s) ELSE H!PrevOf(s, f[n - 1])
    BY DEF IsWalk, Step
  <2>2. 0 \in 0..s.count /\ \A n \in 1..s.count : n \in 0..s.count /\ n # 0
    BY <1>1
  <2> QED
    BY <2>1, <2>2
<1>4. f[0] \in A \cup {0} /\ {j \in A : j > f[0]} = {}
  <2>1. CASE s.count = 0
    BY <1>1, <1>3, <2>1 DEF H!RBegin
  <2>2. CASE s.count # 0
    <3>1. H!RBegin(s) = H!Max(A)
      BY <2>2 DEF H!RBegin
    <3>2. A \subseteq 0..s.next /\ A # {} /\ s.next \in Nat
      BY <1>1, <2>2
    <3>3. H!Max(A) \in A /\ \A y \in A : y <= H!Max(A)
      <4> HIDE DEF A
      <4> QED
        BY <3>2, GreatestOf
    <3>4. \A y \in A : ~(y > H!Max(A))
      BY <3>2, <3>3
    <3> QED
      BY <1>3, <3>1, <3>3, <3>4
  <2> QED
    BY <2>1, <2>2
<1>5. ASSUME NEW n \in 1..Cardinality(A), f[n - 1] \in A
      PROVE  /\ f[n] \in A \cup {0}
             /\ Behind(s)[f[n]] = Behind(s)[f[n - 1]] \cup {f[n - 1]}
  <2>1. f[n] = H!PrevOf(s, f[n - 1])
    BY <1>1, <1>3, <1>5
  <2>2. /\ f[n] \in A \cup {0}
        /\ {j \in A : j > f[n]} = {j \in A : j > f[n - 1]} \cup {f[n - 1]}
    BY <1>5, <2>1, PrevGoesOn
  <2> QED
    BY <1>2, <1>5, <2>2
<1>6. IsWalked(A, 0, Behind(s), f)
  BY <1>2, <1>4, <1>5 DEF IsWalked
<1>7. {f[n] : n \in 0..Cardinality(A)} = A \cup {0}
  <2> HIDE DEF A
  <2> QED
    BY <1>2, <1>6, WalkMeetsAll
<1> QED
  BY <1>1, <1>7

LEMMA WalksFine ==
  ASSUME H!HashAssumption, NEW s, NodesOK(s)
  PROVE  LET e == s
             forward[n \in 0..e.count] == IF n = 0 THEN H!Begin(e) ELSE H!NextOf(e, forward[n - 1])
             backward[n \in 0..e.count] == IF n = 0 THEN H!RBegin(e) ELSE H!PrevOf(e, backward[n - 1])
         IN /\ {forward[n] : n \in 0..e.count} = H!ActiveSlots(e) \cup {e.next}
            /\ {backward[n] : n \in 0..e.count} = H!ActiveSlots(e) \cup {0}
<1> DEFINE forward[n \in 0..s.count] == IF n = 0 THEN H!Begin(s) ELSE H!NextOf(s, forward[n - 1])
           backward[n \in 0..s.count] == IF n = 0 THEN H!RBegin(s) ELSE H!PrevOf(s, backward[n - 1])
<1>1. s.count \in Nat
  BY ActiveAre
<1>2. /\ \E w : w = [n \in 0..s.count |-> IF n = 0 THEN H!Begin(s) ELSE H!NextOf(s, w[n - 1])]
      /\ \E w : w = [n \in 0..s.count |-> IF n = 0 THEN H!RBegin(s) ELSE H!PrevOf(s, w[n - 1])]
  <2>1. PICK u : IsWalk(u, s, TRUE, H!Begin(s), s.count)
    BY <1>1, WalksExist
  <2>2. PICK w : IsWalk(w, s, FALSE, H!RBegin(s), s.count)
    BY <1>1, WalksExist
  <2> QED
    BY <2>1, <2>2 DEF IsWalk, Step
<1>3. forward = [n \in 0..s.count |-> IF n = 0 THEN H!Begin(s) ELSE H!NextOf(s, forward[n - 1])]
  BY <1>2
<1>4. backward = [n \in 0..s.count |-> IF n = 0 THEN H!RBegin(s) ELSE H!PrevOf(s, backward[n - 1])]
  BY <1>2
<1> HIDE DEF forward, backward
<1>5. IsWalk(forward, s, TRUE, H!Begin(s), s.count) /\ IsWalk(backward, s, FALSE, H!RBegin(s), s.count)
  BY <1>3, <1>4 DEF IsWalk, Step
<1>6. /\ {forward[n] : n \in 0..s.count} = H!ActiveSlots(s) \cup {s.next}
      /\ {backward[n] : n \in 0..s.count} = H!ActiveSlots(s) \cup {0}
  BY <1>5, WalkForward, WalkBackward
<1> QED
  BY <1>6 DEF forward, backward

(* The chains and the nodes agree, and what find and the iterators meet    *)
(* are exactly the nodes that are active.                                  *)
LEMMA HashIsRight ==
  ASSUME H!HashAssumption, ~HashLost => HashInv
  PROVE  HashRight
<1>1. status = "hash" => \A s \in Objects : Good(obj[s]) /\ NodesOK(obj[s])
  BY DEF HashInv, HashLost, Good
<1>2. H!Chains
  BY <1>1, ChainsFine DEF H!Chains
<1>3. ASSUME status = "hash", NEW s \in Objects, NEW key \in Keys
      PROVE  H!Has(obj[s], key) <=> \E i \in H!ActiveSlots(obj[s]) : obj[s].node[i].data.key = key
  <2>1. H!Has(obj[s], key) <=> HoldsKey(obj[s], key) # {}
    BY <1>1, <1>3, FindsIt
  <2> QED
    BY <2>1 DEF HoldsKey
<1>4. H!Found
  <2> SUFFICES ASSUME status = "hash", NEW s \in Objects
               PROVE  LET e == obj[s]
                          forward[n \in 0..e.count] == IF n = 0 THEN H!Begin(e) ELSE H!NextOf(e, forward[n - 1])
                          backward[n \in 0..e.count] == IF n = 0 THEN H!RBegin(e) ELSE H!PrevOf(e, backward[n - 1])
                      IN /\ {forward[n] : n \in 0..e.count} = H!ActiveSlots(e) \cup {e.next}
                         /\ {backward[n] : n \in 0..e.count} = H!ActiveSlots(e) \cup {0}
    BY <1>3 DEF H!Found
  <2> QED
    BY <1>1, WalksFine
<1> QED
  BY <1>2, <1>4 DEF HashRight

(* HashRight holds of every reachable state of the hash maps: as long as   *)
(* they are sound, find and the iterators meet exactly the active nodes.   *)
THEOREM HashRightAlways == H!Spec => []HashRight
<1>1. (~HashLost => HashInv) => HashRight
  BY DictionaryAssumption, HashIsRight
<1> QED
  BY <1>1, HashInvariant, PTL

=============================================================================
