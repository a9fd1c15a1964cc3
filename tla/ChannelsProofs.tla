--------------------------- MODULE ChannelsProofs ---------------------------
(***************************************************************************)
(* Proofs about Stream and LineClient, for a buffer of any length, texts,  *)
(* pieces and lines of any length and a colour reset longer or shorter     *)
(* than the buffer: no byte is lost, repeated or reordered but for those   *)
(* that are given up on purpose; then about Numbers and about Arguments.   *)
(*                                                                         *)
(* In the first two the bytes of one history lie in several sequences      *)
(* (what arrived, the buffer, what is still to be put into it; the lines,  *)
(* what a call has in hand, the queue).  A step moves bytes from one to    *)
(* the next, adds new ones at the end, or cuts some out.                   *)
(***************************************************************************)
EXTENDS Texts, SequencesExt, SequenceTheorems, WellFoundedInduction, TLAPS

-----------------------------------------------------------------------------
(* Sequences of bytes; 0 belongs to a colour reset.                        *)

Bytes(s) == {s[i] : i \in 1..Len(s)} \ {0}

Increasing(s) ==
  \A i, j \in 1..Len(s) : i < j /\ s[i] # 0 /\ s[j] # 0 => s[i] < s[j]

Precede(M, B) == \A x \in M, y \in B : x < y

(* s has the bytes in N, each once and in their order.                     *)
Carries(s, N) == s \in Seq(Nat) /\ Increasing(s) /\ Bytes(s) = N

-----------------------------------------------------------------------------
(* The inductive invariant of the client, about a connection (line) and    *)
(* the call in progress (call).                                            *)

Positive == Nat \ {0}
Receives ==
  [do : {"peek", "take", "any"}, room : Int, got : Seq(Positive), want : Nat, ends : {0, 1}]
Sends == [do : {"send"}, left : Int, sent : Nat, retry : BOOLEAN]
Results == [bytes : Seq(Positive), asked : BOOLEAN]
Lines ==
  [datagram : BOOLEAN, closed : BOOLEAN, sent : Nat, queue : Seq(Seq(Positive)),
   lines : Seq(Results), dropped : SUBSET Nat, accepted : Nat, reported : Nat]

InHand(call) == IF call.do \in {"peek", "take", "any"} THEN call.got ELSE << >>
InQueue(line) == IF line.datagram THEN line.queue[1] ELSE FlattenSeq(line.queue)
Returned(lines) == FlattenSeq([i \in 1..Len(lines) |-> lines[i].bytes])

(* There is no end of line among the first n bytes of s.                   *)
NoEnd(s, n) == \A k \in 1..n : ~C!IsEnd(s[k])

(* What was returned, what is in hand and what is in the queue is what was *)
(* sent, and lines end in their last place.                                *)
Delivered(line, hand) ==
  /\ line \in Lines /\ hand \in Seq(Positive)
  /\ Carries((Returned(line.lines) \o hand) \o FlattenSeq(line.queue), (1..line.sent) \ line.dropped)
  /\ line.dropped \subseteq 1..line.sent
  /\ ~line.datagram => line.dropped = {}
  /\ \A i \in 1..Len(line.lines) :
       line.lines[i].asked => NoEnd(line.lines[i].bytes, Len(line.lines[i].bytes) - 1)

(* What a look has seen is still there when it is taken.                   *)
Seen(call, line) ==
  /\ line.queue # << >>
  /\ call.want <= Len(InQueue(line))
  /\ NoEnd(InQueue(line), call.want - call.ends)

Calling(call, line) ==
  /\ call = C!NoCall \/ call \in Receives \/ call \in Sends
  /\ NoEnd(InHand(call), Len(InHand(call)))
  /\ call.do = "take" => Seen(call, line)
  /\ call.do = "any" => call.got = << >>

Accounted(call, line) ==
  line.accepted = line.reported + (IF call.do = "send" THEN call.sent ELSE 0)

ClientHolds(client, peer) ==
  /\ client = [fd |-> client.fd, call |-> client.call]
  /\ peer = [open |-> peer.open, line |-> peer.line]
  /\ Delivered(peer.line, InHand(client.call))
  /\ Calling(client.call, peer.line)
  /\ Accounted(client.call, peer.line)
  /\ peer.open = {client.fd} \ {NoSocket}

-----------------------------------------------------------------------------
(* The inductive invariant of the stream, about the frames of the calls in *)
(* progress (stack) and the rest of it.                                    *)

Levels == 0..TopLevel
Puts == [do : {"put"}, bytes : Seq(Nat)]
Flushes == [do : {"flush"}]
Drains == [do : {"drain"}, at : Nat]
Entries == [do : {"entry"}, level : Levels]
Frames == Puts \cup Flushes \cup Drains \cup Entries

Streams ==
  [class : {"BufferStream", "OutputStream", "Log"}, buf : Seq(Nat), stack : Seq(Frames),
   severity : Levels, limit : Int, terminal : BOOLEAN]
Outsides ==
  [sink : Seq(Nat), level : Seq(Levels), hidden : SUBSET (Nat \X Int),
   gone : SUBSET Nat, noroom : SUBSET Nat, filling : SUBSET Nat]

(* What is left of the buffer, and what is still to be put into it.        *)
Start(stack) == IF stack # << >> /\ stack[1].do = "drain" THEN stack[1].at ELSE 0
Left(stream) == SubSeq(stream.buf, Start(stream.stack) + 1, Len(stream.buf))
PutOf(frame) == IF frame.do = "put" THEN frame.bytes ELSE << >>
Pending(stack) == FlattenSeq([i \in 1..Len(stack) |-> PutOf(stack[i])])

Hidden(outside) == {h[1] : h \in outside.hidden}
Missing(outside) == outside.gone \cup outside.noroom \cup Hidden(outside)

Flushing(frame) == frame.do \in {"flush", "drain"}

(* No loop that writes the buffer has begun.                               *)
Quiet(stack) == \A i \in 1..Len(stack) : stack[i].do = "drain" => stack[i].at = 0

(* Only the innermost loop has begun, and an entry goes on when a flush is *)
(* done.                                                                   *)
Sound(stack, class) ==
  /\ stack \in Seq(Frames)
  /\ \A i \in 1..Len(stack) : i # 1 /\ stack[i].do = "drain" => stack[i].at = 0
  /\ \A i \in 1..Len(stack) : stack[i].do = "put" => stack[i].bytes # << >>
  /\ \A i \in 1..Len(stack) : stack[i].do = "entry" =>
       class = "Log" /\ i = Len(stack) /\ (i # 1 => Flushing(stack[i - 1]))

(* The next that happens, colour resets aside, is a flush.                 *)
FlushIsNext(stack) ==
  \E j \in 1..Len(stack) :
    /\ Flushing(stack[j])
    /\ \A i \in 1..(j - 1) : stack[i].do = "put" /\ Bytes(stack[i].bytes) = {}

EntryNext(stack) == stack # << >> /\ stack[1].do = "entry"

(* A full buffer is flushed before a byte of a caller is put into it, and  *)
(* an entry goes on with an empty one.                                     *)
InTime(stream) ==
  /\ Len(stream.buf) + 1 >= Capacity /\ stream.class # "BufferStream" => FlushIsNext(stream.stack)
  /\ EntryNext(stream.stack) => stream.buf = << >>

(* All that is in the buffer, or on its way into it, is of one severity.   *)
OneSeverity(stream, outside) ==
  \A b \in Bytes(Left(stream) \o Pending(stream.stack)) :
    b \in 1..Len(outside.level) /\ outside.level[b] = stream.severity

(* Only what belongs to an entry above the limit is hidden.                *)
RightlyHidden(outside) ==
  \A h \in outside.hidden :
    h[1] \in 1..Len(outside.level) /\ (outside.level[h[1]] > h[2] \/ outside.level[h[1]] = 0)

Kept(stream, outside) ==
  /\ Carries(outside.sink \o (Left(stream) \o Pending(stream.stack)),
             (1..Len(outside.level)) \ Missing(outside))
  /\ Missing(outside) \subseteq 0..Len(outside.level)

StreamHolds(stream, outside) ==
  /\ stream \in Streams /\ outside \in Outsides
  /\ Sound(stream.stack, stream.class)
  /\ Kept(stream, outside)
  /\ InTime(stream)
  /\ OneSeverity(stream, outside)
  /\ RightlyHidden(outside)
  /\ stream.class # "BufferStream" => outside.noroom \subseteq {0} \cup outside.filling

-----------------------------------------------------------------------------
ChannelsInv ==
  /\ status \in {"client", "stream"}
  /\ status = "client" => ClientHolds(obj, out)
  /\ status = "stream" => StreamHolds(obj, out)

-----------------------------------------------------------------------------
(* Induction, and the sequences that lie one behind the other in a         *)
(* sequence of sequences.                                                  *)

Less == {p \in Nat \X Nat : p[1] < p[2]}

(* Less is well-founded on the numbers.                                    *)
LEMMA LessIsWellFounded == IsWellFoundedOn(Less, Nat)
BY NatLessThanWellFounded DEF OpToRel, Less

(* A set of numbers that is not empty has a least one.                     *)
LEMMA LeastNumber ==
  ASSUME NEW T, T \subseteq Nat, T # {}
  PROVE  \E x \in T : \A y \in T : x <= y
<1>1. PICK x \in T : \A y \in T : ~ (<<y, x>> \in Less)
  BY LessIsWellFounded, WFMin
<1>2. ASSUME NEW y \in T PROVE x <= y
  <2>1. x \in Nat /\ y \in Nat
    BY <1>2
  <2>2. <<y, x>> \in Nat \X Nat
    BY <2>1
  <2>3. ~ (y < x)
    BY <1>1, <1>2, <2>2 DEF Less
  <2> QED
    BY <2>1, <2>3
<1> QED
  BY <1>2

(* Induction over the numbers, for a set.                                  *)
LEMMA NumberInduction ==
  ASSUME NEW X, 0 \in X, \A n \in Nat : n \in X => n + 1 \in X
  PROVE  Nat \subseteq X
<1> SUFFICES ASSUME NEW m \in Nat, m \notin X PROVE FALSE
  OBVIOUS
<1>1. PICK x \in Nat \ X : \A y \in Nat \ X : x <= y
  <2> DEFINE T == Nat \ X
  <2>1. T \subseteq Nat /\ T # {}
    OBVIOUS
  <2> HIDE DEF T
  <2>2. \E x \in T : \A y \in T : x <= y
    BY <2>1, LeastNumber
  <2> QED
    BY <2>2 DEF T
<1>2. x # 0 /\ x \in Nat
  OBVIOUS
<1>3. x - 1 \in Nat /\ x - 1 \in X
  BY <1>1, <1>2
<1>4. (x - 1) + 1 \in X
  BY <1>3
<1>5. (x - 1) + 1 = x
  BY <1>2
<1> QED
  BY <1>4, <1>5

IsFlat(f, s) == f = [i \in 1..Len(s) |-> IF i = 1 THEN s[i] ELSE f[i - 1] \o s[i]]

(* The first n steps of the recursion of FlattenSeq.                       *)
Steps(f, s, n) == f = [i \in 1..n |-> IF i = 1 THEN s[i] ELSE f[i - 1] \o s[i]]

(* The function that FlattenSeq is defined by exists.                      *)
LEMMA StepsExist ==
  ASSUME NEW s, NEW n \in Nat
  PROVE  \E f : Steps(f, s, n)
<1> DEFINE U == {m \in Nat : \E f : Steps(f, s, m)}
<1>1. 0 \in U
  <2>1. Steps([i \in 1..0 |-> << >>], s, 0)
    BY DEF Steps
  <2> QED
    BY <2>1
<1>2. ASSUME NEW m \in Nat, m \in U PROVE m + 1 \in U
  <2>1. PICK f : Steps(f, s, m)
    BY <1>2
  <2>2. DOMAIN f = 1..m /\ \A i \in 1..m : f[i] = IF i = 1 THEN s[i] ELSE f[i - 1] \o s[i]
    BY <2>1 DEF Steps
  <2> DEFINE g == [i \in 1..(m + 1) |->
                     IF i <= m THEN f[i] ELSE IF i = 1 THEN s[i] ELSE f[m] \o s[i]]
  <2>3. ASSUME NEW i \in 1..(m + 1) PROVE g[i] = IF i = 1 THEN s[i] ELSE g[i - 1] \o s[i]
    <3>1. CASE i = 1
      <4>1. g[i] = s[i]
        <5>1. CASE i <= m
          <6>1. g[i] = f[i] /\ i \in 1..m
            BY <5>1
          <6> QED
            BY <2>2, <3>1, <6>1
        <5>2. CASE ~(i <= m)
          BY <3>1, <5>2
        <5> QED
          BY <5>1, <5>2
      <4> QED
        BY <3>1, <4>1
    <3>2. CASE i # 1 /\ i <= m
      <4>1. i \in 1..m /\ i - 1 \in 1..m
        BY <3>2
      <4>2. g[i] = f[i] /\ g[i - 1] = f[i - 1]
        BY <4>1
      <4> HIDE DEF g
      <4> QED
        BY <2>2, <3>2, <4>1, <4>2
    <3>3. CASE i # 1 /\ ~(i <= m)
      <4>1. i = m + 1 /\ m \in 1..(m + 1) /\ m <= m /\ i - 1 = m
        BY <3>3
      <4>2. g[m] = f[m]
        BY <4>1
      <4>3. g[i] = f[m] \o s[i]
        BY <3>3
      <4> HIDE DEF g
      <4> QED
        BY <3>3, <4>1, <4>2, <4>3
    <3> QED
      BY <3>1, <3>2, <3>3
  <2>4. g = [i \in 1..(m + 1) |-> g[i]]
    OBVIOUS
  <2> HIDE DEF g
  <2>5. Steps(g, s, m + 1)
    BY <2>3, <2>4 DEF Steps
  <2> QED
    BY <2>5
<1> HIDE DEF U
<1>3. n \in U
  BY <1>1, <1>2, NumberInduction
<1> QED
  BY <1>3 DEF U

(* f has what the prefixes of s are flattened to.                          *)
Flattened(f, X, s) ==
  /\ \A i \in 1..Len(s) : f[i] \in Seq(X)
  /\ FlattenSeq(s) = f[Len(s)]
  /\ f[1] = s[1]
  /\ \A i \in 2..Len(s) : f[i] = f[i - 1] \o s[i]

(* What FlattenSeq returns, by the prefixes.                               *)
LEMMA FlatRule ==
  ASSUME NEW X, NEW s \in Seq(Seq(X)), s # << >>
  PROVE  \E f : Flattened(f, X, s)
<1>1. Len(s) \in Nat /\ Len(s) # 0 /\ \A i \in 1..Len(s) : s[i] \in Seq(X)
  BY EmptySeq, LenProperties, ElementOfSeq
<1>2. \E f : IsFlat(f, s)
  BY <1>1, StepsExist DEF IsFlat, Steps
<1>3. PICK f : f = CHOOSE g : IsFlat(g, s)
  OBVIOUS
<1>4. IsFlat(f, s)
  BY <1>2, <1>3
<1>5. FlattenSeq(s) = f[Len(s)]
  BY <1>1, <1>3 DEF FlattenSeq, IsFlat
<1>6. DOMAIN f = 1..Len(s) /\ \A i \in 1..Len(s) : f[i] = IF i = 1 THEN s[i] ELSE f[i - 1] \o s[i]
  BY <1>4 DEF IsFlat
<1>7. f[1] = s[1] /\ \A i \in 2..Len(s) : f[i] = f[i - 1] \o s[i]
  <2>1. 1 \in 1..Len(s)
    BY <1>1
  <2>2. \A i \in 2..Len(s) : i \in 1..Len(s) /\ i # 1
    BY <1>1
  <2> QED
    BY <1>6, <2>1, <2>2
<1> DEFINE U == {n \in Nat : n \in 1..Len(s) => f[n] \in Seq(X)}
<1>8. 0 \in U
  OBVIOUS
<1>9. ASSUME NEW n \in Nat, n \in U PROVE n + 1 \in U
  <2> SUFFICES ASSUME n + 1 \in 1..Len(s) PROVE f[n + 1] \in Seq(X)
    OBVIOUS
  <2>1. CASE n = 0
    BY <1>1, <1>7, <2>1
  <2>2. CASE n # 0
    <3>1. n \in 1..Len(s) /\ n + 1 \in 2..Len(s) /\ (n + 1) - 1 = n
      BY <1>1, <2>2
    <3>2. f[n + 1] = f[n] \o s[n + 1]
      BY <1>7, <3>1
    <3>3. f[n] \in Seq(X) /\ s[n + 1] \in Seq(X)
      BY <1>1, <1>9, <3>1
    <3> QED
      BY <3>2, <3>3, ConcatProperties
  <2> QED
    BY <2>1, <2>2
<1>10. \A n \in Nat : n \in U
  <2> HIDE DEF U
  <2> QED
    BY <1>8, <1>9, NumberInduction
<1>11. \A i \in 1..Len(s) : f[i] \in Seq(X)
  BY <1>1, <1>10
<1> QED
  BY <1>5, <1>7, <1>11 DEF Flattened

(* Nothing, and one sequence.                                              *)
LEMMA FlatOfNone == FlattenSeq(<< >>) = << >>
<1>1. Len(<< >>) = 0
  BY EmptySeq
<1> QED
  BY <1>1 DEF FlattenSeq

(* FlattenSeq returns a sequence.                                          *)
LEMMA FlatIsSeq ==
  ASSUME NEW X, NEW s \in Seq(Seq(X))
  PROVE  FlattenSeq(s) \in Seq(X)
<1>1. CASE s = << >>
  BY <1>1, FlatOfNone, EmptySeq
<1>2. CASE s # << >>
  <2>1. Len(s) \in 1..Len(s)
    BY <1>2, EmptySeq
  <2>2. PICK f : Flattened(f, X, s)
    BY <1>2, FlatRule
  <2> QED
    BY <2>1, <2>2 DEF Flattened
<1> QED
  BY <1>1, <1>2

LEMMA FlatOfOne ==
  ASSUME NEW X, NEW e \in Seq(X)
  PROVE  FlattenSeq(<< e >>) = e
<1>1. << e >> \in Seq(Seq(X)) /\ << e >> # << >> /\ Len(<< e >>) = 1 /\ << e >>[1] = e
  OBVIOUS
<1>2. PICK f : Flattened(f, X, << e >>)
  BY <1>1, FlatRule
<1> QED
  BY <1>1, <1>2 DEF Flattened

(* FlattenSeq of sequences one behind the other.                           *)
LEMMA FlatOfJoined ==
  ASSUME NEW X, NEW s \in Seq(Seq(X)), NEW t \in Seq(Seq(X))
  PROVE  FlattenSeq(s \o t) = FlattenSeq(s) \o FlattenSeq(t)
<1>1. CASE s = << >>
  BY <1>1, FlatOfNone, FlatIsSeq, ConcatEmptySeq
<1>2. CASE t = << >>
  BY <1>2, FlatOfNone, FlatIsSeq, ConcatEmptySeq
<1>3. CASE s # << >> /\ t # << >>
  <2>1. PICK m, n : m = Len(s) /\ n = Len(t)
    OBVIOUS
  <2>2. m \in Nat \ {0} /\ n \in Nat \ {0}
    BY <1>3, <2>1, EmptySeq
  <2>3. PICK u : u = s \o t
    OBVIOUS
  <2>4. u \in Seq(Seq(X)) /\ Len(u) = m + n
    BY <2>1, <2>3, ConcatProperties
  <2>5. \A i \in 1..(m + n) : u[i] = IF i <= m THEN s[i] ELSE t[i - m]
    BY <2>1, <2>3, ConcatProperties
  <2>6. u # << >>
    BY <2>2, <2>4, EmptySeq
  <2>7. PICK f : Flattened(f, X, s)
    BY <1>3, FlatRule
  <2>8. PICK g : Flattened(g, X, t)
    BY <1>3, FlatRule
  <2>9. PICK h : Flattened(h, X, u)
    BY <2>4, <2>6, FlatRule
  <2>10. /\ \A i \in 1..m : f[i] \in Seq(X)
         /\ FlattenSeq(s) = f[m] /\ f[1] = s[1]
         /\ \A i \in 2..m : f[i] = f[i - 1] \o s[i]
    BY <2>1, <2>7 DEF Flattened
  <2>11. /\ \A i \in 1..n : g[i] \in Seq(X)
         /\ FlattenSeq(t) = g[n] /\ g[1] = t[1]
         /\ \A i \in 2..n : g[i] = g[i - 1] \o t[i]
    BY <2>1, <2>8 DEF Flattened
  <2>12. /\ FlattenSeq(u) = h[m + n] /\ h[1] = u[1]
         /\ \A i \in 2..(m + n) : h[i] = h[i - 1] \o u[i]
    BY <2>4, <2>9 DEF Flattened
  <2> DEFINE U == {k \in Nat : k + 1 <= m => h[k + 1] = f[k + 1]}
  <2>13. 0 \in U
    <3>1. 1 \in 1..(m + n) /\ 1 <= m
      BY <2>2
    <3> QED
      BY <2>5, <2>10, <2>12, <3>1
  <2>14. ASSUME NEW k \in Nat, k \in U PROVE k + 1 \in U
    <3> SUFFICES ASSUME (k + 1) + 1 <= m PROVE h[(k + 1) + 1] = f[(k + 1) + 1]
      OBVIOUS
    <3>1. PICK i : i = (k + 1) + 1
      OBVIOUS
    <3>2. i \in 2..m /\ i \in 2..(m + n) /\ i \in 1..(m + n) /\ i - 1 = k + 1 /\ i <= m
      BY <2>2, <3>1
    <3>3. h[i - 1] = f[i - 1]
      <4>1. k + 1 <= m
        BY <2>2
      <4>2. h[k + 1] = f[k + 1]
        BY <2>14, <4>1
      <4> QED
        BY <3>2, <4>2
    <3>4. u[i] = s[i]
      BY <2>5, <3>2
    <3>5. h[i] = h[i - 1] \o u[i] /\ f[i] = f[i - 1] \o s[i]
      BY <2>10, <2>12, <3>2
    <3> QED
      BY <3>1, <3>3, <3>4, <3>5
  <2>15. \A k \in Nat : k \in U
    <3> HIDE DEF U
    <3> QED
      BY <2>13, <2>14, NumberInduction
  <2>16. h[m] = f[m]
    <3>1. m - 1 \in Nat /\ (m - 1) + 1 = m
      BY <2>2
    <3>2. m - 1 \in U
      BY <2>15, <3>1
    <3> QED
      BY <3>1, <3>2
  <2>17. PICK r : r = [i \in 1..n |-> h[m + i]]
    OBVIOUS
  <2>18. r[1] = f[m] \o t[1] /\ r[n] = h[m + n]
    <3>1. 1 \in 1..n /\ n \in 1..n /\ m + 1 \in 2..(m + n) /\ (m + 1) - 1 = m /\ (m + 1) - m = 1
          /\ m + 1 \in 1..(m + n) /\ ~(m + 1 <= m)
      BY <2>2
    <3>2. u[m + 1] = t[1]
      BY <2>5, <3>1
    <3>3. h[m + 1] = h[m] \o u[m + 1]
      BY <2>12, <3>1
    <3>4. r[1] = h[m + 1] /\ r[n] = h[m + n]
      BY <2>17, <3>1
    <3> QED
      BY <2>16, <3>2, <3>3, <3>4
  <2>19. ASSUME NEW i \in 2..n PROVE r[i] = r[i - 1] \o t[i]
    <3>1. i \in 1..n /\ i - 1 \in 1..n
      BY <2>2
    <3>2. m + i \in 2..(m + n) /\ m + i \in 1..(m + n) /\ ~(m + i <= m) /\ (m + i) - m = i
      BY <2>2
    <3>3. u[m + i] = t[i]
      BY <2>5, <3>2
    <3>4. h[m + i] = h[(m + i) - 1] \o u[m + i]
      BY <2>12, <3>2
    <3>5. (m + i) - 1 = m + (i - 1)
      BY <2>2
    <3>6. r[i] = h[m + i] /\ r[i - 1] = h[m + (i - 1)]
      BY <2>17, <3>1
    <3> QED
      BY <3>3, <3>4, <3>5, <3>6
  <2>20. PICK p : p = [k \in 1..n |-> f[m] \o g[k]]
    OBVIOUS
  <2> DEFINE W == {k \in Nat : k + 1 <= n => r[k + 1] = p[k + 1]}
  <2>21. 0 \in W
    <3>1. 1 \in 1..n
      BY <2>2
    <3>2. p[1] = f[m] \o g[1]
      BY <2>20, <3>1
    <3>3. r[1] = p[1]
      BY <2>18, <2>11, <3>2
    <3> QED
      BY <3>3
  <2>22. ASSUME NEW k \in Nat, k \in W PROVE k + 1 \in W
    <3> SUFFICES ASSUME (k + 1) + 1 <= n PROVE r[(k + 1) + 1] = p[(k + 1) + 1]
      OBVIOUS
    <3>1. PICK i : i = (k + 1) + 1
      OBVIOUS
    <3>2. i \in 2..n /\ i \in 1..n /\ i - 1 = k + 1 /\ i - 1 \in 1..n /\ k + 1 <= n
      BY <2>2, <3>1
    <3>3. r[i - 1] = p[i - 1]
      <4>1. r[k + 1] = p[k + 1]
        BY <2>22, <3>2
      <4> QED
        BY <3>2, <4>1
    <3>4. p[i - 1] = f[m] \o g[i - 1] /\ p[i] = f[m] \o g[i]
      BY <2>20, <3>2
    <3>5. r[i] = r[i - 1] \o t[i] /\ g[i] = g[i - 1] \o t[i]
      BY <2>19, <2>11, <3>2
    <3>6. f[m] \in Seq(X) /\ g[i - 1] \in Seq(X) /\ t[i] \in Seq(X)
      <4>1. m \in 1..m
        BY <2>2
      <4>2. t[i] \in Seq(X)
        BY <2>1, <3>2, ElementOfSeq
      <4> QED
        BY <2>10, <2>11, <3>2, <4>1, <4>2
    <3>7. (f[m] \o g[i - 1]) \o t[i] = f[m] \o (g[i - 1] \o t[i])
      <4>1. PICK x, y, z : x = f[m] /\ y = g[i - 1] /\ z = t[i]
        OBVIOUS
      <4>2. x \in Seq(X) /\ y \in Seq(X) /\ z \in Seq(X)
        BY <3>6, <4>1
      <4>3. (x \o y) \o z = x \o (y \o z)
        BY ONLY <4>2, ConcatAssociative
      <4> QED
        BY <4>1, <4>3
    <3> QED
      BY <3>1, <3>3, <3>4, <3>5, <3>7
  <2>23. \A k \in Nat : k \in W
    <3> HIDE DEF W
    <3> QED
      BY <2>21, <2>22, NumberInduction
  <2>24. r[n] = f[m] \o g[n]
    <3>1. n - 1 \in Nat /\ (n - 1) + 1 = n /\ n <= n
      BY <2>2
    <3>2. n - 1 \in W
      BY <2>23, <3>1
    <3>3. n \in 1..n
      BY <2>2
    <3>4. r[n] = p[n]
      BY <3>1, <3>2
    <3> QED
      BY <2>20, <3>3, <3>4
  <2> QED
    BY <2>3, <2>18, <2>10, <2>11, <2>12, <2>24
<1> QED
  BY <1>1, <1>2, <1>3

(* Concatenation.                                                          *)
LEMMA Joined ==
  ASSUME NEW X, NEW a \in Seq(X), NEW b \in Seq(X)
  PROVE  /\ a \o b \in Seq(X)
         /\ Len(a \o b) = Len(a) + Len(b)
         /\ \A i \in 1..(Len(a) + Len(b)) :
              (a \o b)[i] = IF i <= Len(a) THEN a[i] ELSE b[i - Len(a)]
  BY ConcatProperties

(* A sequence starts with its head.                                        *)
LEMMA HeadFirst ==
  ASSUME NEW X, NEW s \in Seq(X), s # << >>
  PROVE  s = << s[1] >> \o Tail(s) /\ s[1] \in X /\ Tail(s) \in Seq(X) /\ Head(s) = s[1]
<1>1. PICK t, e : t = Tail(s) /\ e = s[1]
  OBVIOUS
<1>2. Len(s) \in Nat \ {0}
  BY EmptySeq
<1>3. t \in Seq(X) /\ Len(t) = Len(s) - 1 /\ \A i \in 1..Len(t) : t[i] = s[i + 1]
  BY <1>1, HeadTailProperties
<1>4. e \in X /\ Head(s) = e
  <2>1. 1 \in 1..Len(s)
    BY <1>2
  <2>2. e \in X
    BY <1>1, <2>1, ElementOfSeq
  <2> QED
    BY <1>1, <2>2
<1>5. PICK u : u = << e >> \o t
  OBVIOUS
<1>6. << e >> \in Seq(X) /\ Len(<< e >>) = 1 /\ << e >>[1] = e
  BY <1>4
<1>7. u \in Seq(X) /\ Len(u) = 1 + Len(t)
      /\ \A i \in 1..(1 + Len(t)) : u[i] = IF i <= 1 THEN << e >>[i] ELSE t[i - 1]
  BY <1>3, <1>5, <1>6, Joined
<1>8. Len(u) = Len(s)
  BY <1>2, <1>3, <1>7
<1>9. ASSUME NEW i \in 1..Len(s) PROVE s[i] = u[i]
  <2>1. i \in 1..(1 + Len(t))
    BY <1>2, <1>3
  <2>2. CASE i = 1
    <3>1. i <= 1
      BY <2>2
    <3>2. u[1] = << e >>[1]
      BY <1>7, <2>1, <2>2, <3>1
    <3> QED
      BY <1>1, <1>6, <2>2, <3>2
  <2>3. CASE i # 1
    <3>1. ~(i <= 1) /\ i - 1 \in 1..Len(t) /\ (i - 1) + 1 = i
      BY <1>2, <1>3, <2>3
    <3>2. u[i] = t[i - 1]
      BY <1>7, <2>1, <3>1
    <3> QED
      BY <1>3, <3>1, <3>2
  <2> QED
    BY <2>2, <2>3
<1>10. s = u
  BY <1>7, <1>8, <1>9, SeqEqual
<1> QED
  BY <1>1, <1>3, <1>4, <1>5, <1>10

(* The first of the sequences comes first.                                 *)
LEMMA FlatOfHead ==
  ASSUME NEW X, NEW s \in Seq(Seq(X)), s # << >>
  PROVE  /\ s[1] \in Seq(X) /\ Tail(s) \in Seq(Seq(X))
         /\ FlattenSeq(s) = s[1] \o FlattenSeq(Tail(s))
<1>1. PICK e, t : e = s[1] /\ t = Tail(s)
  OBVIOUS
<1>2. s = << e >> \o t /\ e \in Seq(X) /\ t \in Seq(Seq(X))
  BY <1>1, HeadFirst
<1>3. << e >> \in Seq(Seq(X))
  BY <1>2
<1>4. FlattenSeq(s) = FlattenSeq(<< e >>) \o FlattenSeq(t)
  BY <1>2, <1>3, FlatOfJoined
<1>5. FlattenSeq(<< e >>) = e
  BY <1>2, FlatOfOne
<1> QED
  BY <1>1, <1>2, <1>4, <1>5

(* One more sequence comes last.                                           *)
LEMMA FlatOfLast ==
  ASSUME NEW X, NEW s \in Seq(Seq(X)), NEW e \in Seq(X)
  PROVE  FlattenSeq(Append(s, e)) = FlattenSeq(s) \o e
<1>1. << e >> \in Seq(Seq(X))
  OBVIOUS
<1>2. Append(s, e) = s \o << e >>
  OBVIOUS
<1>3. FlattenSeq(s \o << e >>) = FlattenSeq(s) \o FlattenSeq(<< e >>)
  BY <1>1, FlatOfJoined
<1>4. FlattenSeq(<< e >>) = e
  BY FlatOfOne
<1> QED
  BY <1>2, <1>3, <1>4

(* Brackets move.                                                          *)
Moves3(a, b, c) == (a \o b) \o c = a \o (b \o c)
Moves4(a, b, c, d) == (a \o b) \o (c \o d) = (a \o (b \o c)) \o d
Moves5(a, b, c, d, e) == (a \o b) \o ((c \o d) \o e) = ((a \o (b \o c)) \o d) \o e

LEMMA Brackets3 ==
  ASSUME NEW X, NEW a \in Seq(X), NEW b \in Seq(X), NEW c \in Seq(X)
  PROVE  Moves3(a, b, c)
  BY ConcatAssociative DEF Moves3

LEMMA Brackets4 ==
  ASSUME NEW X, NEW a \in Seq(X), NEW b \in Seq(X), NEW c \in Seq(X), NEW d \in Seq(X)
  PROVE  Moves4(a, b, c, d)
<1>1. PICK u : u = a \o b
  OBVIOUS
<1>2. u \in Seq(X)
  BY <1>1, ConcatProperties
<1>3. Moves3(u, c, d)
  BY <1>2, Brackets3
<1>4. Moves3(a, b, c)
  BY Brackets3
<1> QED
  BY <1>1, <1>3, <1>4 DEF Moves3, Moves4

LEMMA Brackets5 ==
  ASSUME NEW X, NEW a \in Seq(X), NEW b \in Seq(X), NEW c \in Seq(X), NEW d \in Seq(X),
         NEW e \in Seq(X)
  PROVE  Moves5(a, b, c, d, e)
<1>1. PICK u, v, w : u = d \o e /\ v = b \o c /\ w = a \o v
  OBVIOUS
<1>2. u \in Seq(X) /\ v \in Seq(X)
  BY <1>1, ConcatProperties
<1>3. w \in Seq(X)
  BY <1>1, <1>2, ConcatProperties
<1>4. Moves3(c, d, e)
  BY Brackets3
<1>5. Moves4(a, b, c, u)
  BY <1>2, Brackets4
<1>6. Moves3(w, d, e)
  BY <1>3, Brackets3
<1>7. (c \o d) \o e = c \o u
  BY <1>1, <1>4 DEF Moves3
<1>8. (a \o b) \o (c \o u) = w \o u
  BY <1>1, <1>5 DEF Moves4
<1>9. (w \o d) \o e = w \o u
  BY <1>1, <1>6 DEF Moves3
<1> QED
  BY <1>1, <1>7, <1>8, <1>9 DEF Moves5

-----------------------------------------------------------------------------
(* What is in a sequence of bytes, and in which order.                     *)

(* The places of a and b in a \o b.                                        *)
LEMMA Places ==
  ASSUME NEW X, NEW a \in Seq(X), NEW b \in Seq(X)
  PROVE  /\ \A i \in 1..Len(a) : i \in 1..Len(a \o b) /\ (a \o b)[i] = a[i]
         /\ \A i \in 1..Len(b) : Len(a) + i \in 1..Len(a \o b) /\ (a \o b)[Len(a) + i] = b[i]
         /\ \A i \in 1..Len(a \o b) : i \notin 1..Len(a) => i - Len(a) \in 1..Len(b)
<1>1. PICK c : c = a \o b
  OBVIOUS
<1>2. PICK m, n : m = Len(a) /\ n = Len(b)
  OBVIOUS
<1>3. m \in Nat /\ n \in Nat
  BY <1>2, LenProperties
<1>4. Len(c) = m + n /\ \A i \in 1..(m + n) : c[i] = IF i <= m THEN a[i] ELSE b[i - m]
  BY <1>1, <1>2, Joined
<1>5. ASSUME NEW i \in 1..m PROVE i \in 1..Len(c) /\ c[i] = a[i]
  BY <1>3, <1>4
<1>6. ASSUME NEW i \in 1..n PROVE m + i \in 1..Len(c) /\ c[m + i] = b[i]
  <2>1. m + i \in 1..(m + n) /\ ~(m + i <= m) /\ (m + i) - m = i
    BY <1>3
  <2> QED
    BY <1>4, <2>1
<1>7. ASSUME NEW i \in 1..Len(c), i \notin 1..m PROVE i - m \in 1..n
  BY <1>3, <1>4, <1>7
<1> QED
  BY <1>1, <1>2, <1>5, <1>6, <1>7

LEMMA BytesOfJoined ==
  ASSUME NEW a \in Seq(Nat), NEW b \in Seq(Nat)
  PROVE  Bytes(a \o b) = Bytes(a) \cup Bytes(b)
<1>1. PICK c : c = a \o b
  OBVIOUS
<1>2. Len(a) \in Nat /\ Len(b) \in Nat
  BY LenProperties
<1>3. /\ \A i \in 1..Len(a) : i \in 1..Len(c) /\ c[i] = a[i]
      /\ \A i \in 1..Len(b) : Len(a) + i \in 1..Len(c) /\ c[Len(a) + i] = b[i]
      /\ \A i \in 1..Len(c) : i \notin 1..Len(a) => i - Len(a) \in 1..Len(b)
  BY <1>1, Places
<1>4. ASSUME NEW x \in Bytes(a) PROVE x \in Bytes(c)
  BY <1>3, <1>4 DEF Bytes
<1>5. ASSUME NEW x \in Bytes(b) PROVE x \in Bytes(c)
  BY <1>3, <1>5 DEF Bytes
<1>6. ASSUME NEW x \in Bytes(c) PROVE x \in Bytes(a) \cup Bytes(b)
  <2>1. PICK i \in 1..Len(c) : x = c[i] /\ x # 0
    BY <1>6 DEF Bytes
  <2>2. CASE i \in 1..Len(a)
    BY <1>3, <2>1, <2>2 DEF Bytes
  <2>3. CASE i \notin 1..Len(a)
    <3>1. PICK k : k = i - Len(a)
      OBVIOUS
    <3>2. Len(c) \in Nat
      BY <1>1, <1>2, Joined
    <3>3. k \in 1..Len(b) /\ Len(a) + k = i
      BY <1>2, <1>3, <2>3, <3>1, <3>2
    <3>4. c[i] = b[k]
      BY <1>3, <3>3
    <3> QED
      BY <2>1, <3>3, <3>4 DEF Bytes
  <2> QED
    BY <2>2, <2>3
<1> QED
  BY <1>1, <1>4, <1>5, <1>6

LEMMA IncreasingJoined ==
  ASSUME NEW a \in Seq(Nat), NEW b \in Seq(Nat)
  PROVE  Increasing(a \o b) <=>
           Increasing(a) /\ Increasing(b) /\ Precede(Bytes(a), Bytes(b))
<1>1. PICK c : c = a \o b
  OBVIOUS
<1>2. Len(a) \in Nat /\ Len(b) \in Nat
  BY LenProperties
<1>3. /\ \A i \in 1..Len(a) : i \in 1..Len(c) /\ c[i] = a[i]
      /\ \A i \in 1..Len(b) : Len(a) + i \in 1..Len(c) /\ c[Len(a) + i] = b[i]
      /\ \A i \in 1..Len(c) : i \notin 1..Len(a) => i - Len(a) \in 1..Len(b)
  BY <1>1, Places
<1>4. ASSUME Increasing(c) PROVE Increasing(a)
  BY <1>3, <1>4 DEF Increasing
<1>5. ASSUME Increasing(c) PROVE Increasing(b)
  <2> SUFFICES ASSUME NEW i \in 1..Len(b), NEW j \in 1..Len(b), i < j, b[i] # 0, b[j] # 0
               PROVE  b[i] < b[j]
    BY DEF Increasing
  <2>1. Len(a) + i < Len(a) + j
    BY <1>2
  <2> QED
    BY <1>3, <1>5, <2>1 DEF Increasing
<1>6. ASSUME Increasing(c) PROVE Precede(Bytes(a), Bytes(b))
  <2> SUFFICES ASSUME NEW x \in Bytes(a), NEW y \in Bytes(b) PROVE x < y
    BY DEF Precede
  <2>1. PICK i \in 1..Len(a) : x = a[i] /\ x # 0
    BY DEF Bytes
  <2>2. PICK j \in 1..Len(b) : y = b[j] /\ y # 0
    BY DEF Bytes
  <2>3. i < Len(a) + j
    BY <1>2
  <2> QED
    BY <1>3, <1>6, <2>1, <2>2, <2>3 DEF Increasing
<1>7. ASSUME Increasing(a), Increasing(b), Precede(Bytes(a), Bytes(b)) PROVE Increasing(c)
  <2> SUFFICES ASSUME NEW i \in 1..Len(c), NEW j \in 1..Len(c), i < j, c[i] # 0, c[j] # 0
               PROVE  c[i] < c[j]
    BY DEF Increasing
  <2>1. Len(c) \in Nat
    BY <1>1, <1>2, Joined
  <2>2. CASE i \in 1..Len(a) /\ j \in 1..Len(a)
    BY <1>3, <1>7, <2>2 DEF Increasing
  <2>3. CASE i \in 1..Len(a) /\ j \notin 1..Len(a)
    <3>1. PICK k : k = j - Len(a)
      OBVIOUS
    <3>2. k \in 1..Len(b) /\ Len(a) + k = j
      BY <1>2, <1>3, <2>1, <2>3, <3>1
    <3>3. c[j] = b[k] /\ c[i] = a[i]
      BY <1>3, <2>3, <3>2
    <3>4. c[i] \in Bytes(a) /\ c[j] \in Bytes(b)
      BY <2>3, <3>2, <3>3 DEF Bytes
    <3> QED
      BY <1>7, <3>4 DEF Precede
  <2>4. CASE i \notin 1..Len(a)
    <3>1. PICK k, l : k = i - Len(a) /\ l = j - Len(a)
      OBVIOUS
    <3>2. j \notin 1..Len(a)
      BY <1>2, <2>1, <2>4
    <3>3. k \in 1..Len(b) /\ Len(a) + k = i /\ l \in 1..Len(b) /\ Len(a) + l = j /\ k < l
      BY <1>2, <1>3, <2>1, <2>4, <3>1, <3>2
    <3>4. c[i] = b[k] /\ c[j] = b[l]
      BY <1>3, <3>3
    <3> QED
      BY <1>7, <3>3, <3>4 DEF Increasing
  <2> QED
    BY <2>2, <2>3, <2>4
<1> QED
  BY <1>1, <1>4, <1>5, <1>6, <1>7

(* Bytes are numbers other than 0.                                         *)
LEMMA BytesAreNumbers ==
  ASSUME NEW s \in Seq(Nat)
  PROVE  Bytes(s) \subseteq Nat \ {0}
  BY ElementOfSeq DEF Bytes

LEMMA SetOfBytes ==
  ASSUME NEW s \in Seq(Nat)
  PROVE  S!ToSet(s) \subseteq Nat /\ S!ToSet(s) \ {0} = Bytes(s)
<1>1. DOMAIN s = 1..Len(s)
  BY LenProperties
<1>2. S!ToSet(s) = {s[i] : i \in 1..Len(s)}
  BY <1>1 DEF S!ToSet
<1>3. \A i \in 1..Len(s) : s[i] \in Nat
  BY ElementOfSeq
<1> QED
  BY <1>2, <1>3 DEF Bytes

(* What is cut out of the middle is lost, and nothing else.                *)
LEMMA Cut ==
  ASSUME NEW a \in Seq(Nat), NEW m \in Seq(Nat), NEW b \in Seq(Nat), NEW N,
         Carries((a \o m) \o b, N)
  PROVE  Carries(a \o b, N \ Bytes(m)) /\ Bytes(m) \subseteq N
<1>1. a \o m \in Seq(Nat) /\ a \o b \in Seq(Nat)
  BY ConcatProperties
<1>2. Increasing(a \o m) /\ Increasing(b) /\ Precede(Bytes(a \o m), Bytes(b))
  BY <1>1, IncreasingJoined DEF Carries
<1>3. Increasing(a) /\ Precede(Bytes(a), Bytes(m))
  BY <1>2, IncreasingJoined
<1>4. Bytes(a \o m) = Bytes(a) \cup Bytes(m)
  BY BytesOfJoined
<1>5. N = Bytes(a) \cup Bytes(m) \cup Bytes(b)
  <2>1. Bytes((a \o m) \o b) = Bytes(a \o m) \cup Bytes(b)
    BY <1>1, BytesOfJoined
  <2> QED
    BY <1>4, <2>1 DEF Carries
<1>6. Precede(Bytes(a), Bytes(b)) /\ Precede(Bytes(m), Bytes(b))
  BY <1>2, <1>4 DEF Precede
<1>7. Increasing(a \o b)
  BY <1>2, <1>3, <1>6, IncreasingJoined
<1>8. Bytes(a) \cap Bytes(m) = {} /\ Bytes(m) \cap Bytes(b) = {}
  <2>1. ASSUME NEW x \in Bytes(m) PROVE ~(x < x)
    BY BytesAreNumbers
  <2> QED
    BY <1>3, <1>6, <2>1 DEF Precede
<1>9. Bytes(a \o b) = Bytes(a) \cup Bytes(b)
  BY BytesOfJoined
<1> QED
  BY <1>1, <1>5, <1>7, <1>8, <1>9 DEF Carries

(* A colour reset goes anywhere.                                           *)
LEMMA Coloured ==
  ASSUME NEW a \in Seq(Nat), NEW m \in Seq(Nat), NEW b \in Seq(Nat), NEW N,
         Bytes(m) = {}, Carries(a \o b, N)
  PROVE  Carries((a \o m) \o b, N)
<1>1. a \o m \in Seq(Nat) /\ (a \o m) \o b \in Seq(Nat)
  BY ConcatProperties
<1>2. Increasing(a) /\ Increasing(b) /\ Precede(Bytes(a), Bytes(b))
  BY IncreasingJoined DEF Carries
<1>3. Increasing(m) /\ Precede(Bytes(a), Bytes(m))
  BY DEF Increasing, Precede, Bytes
<1>4. Increasing(a \o m)
  BY <1>2, <1>3, IncreasingJoined
<1>5. Bytes(a \o m) = Bytes(a)
  <2>1. Bytes(a \o m) = Bytes(a) \cup Bytes(m)
    BY BytesOfJoined
  <2> QED
    BY <2>1
<1>6. Increasing((a \o m) \o b)
  <2>1. Precede(Bytes(a \o m), Bytes(b))
    BY <1>2, <1>5
  <2> QED
    BY <1>1, <1>2, <1>4, <2>1, IncreasingJoined
<1>7. Bytes((a \o m) \o b) = Bytes(a) \cup Bytes(b)
  <2>1. Bytes((a \o m) \o b) = Bytes(a \o m) \cup Bytes(b)
    BY <1>1, BytesOfJoined
  <2> QED
    BY <1>5, <2>1
<1>8. Bytes(a \o b) = Bytes(a) \cup Bytes(b)
  BY BytesOfJoined
<1> QED
  BY <1>1, <1>6, <1>7, <1>8 DEF Carries

(* New bytes come last.                                                    *)
Numbered(n, k) == [i \in 1..k |-> n + i]

LEMMA NumberedRule ==
  ASSUME NEW n \in Nat, NEW k \in Nat
  PROVE  /\ Numbered(n, k) \in Seq(Nat) /\ Increasing(Numbered(n, k))
         /\ Bytes(Numbered(n, k)) = (n + 1)..(n + k)
<1>1. PICK e : e = Numbered(n, k)
  OBVIOUS
<1>2. e \in Seq(Nat) /\ Len(e) = k /\ \A i \in 1..k : e[i] = n + i
  <2>1. \A i \in 1..k : n + i \in Nat
    OBVIOUS
  <2> QED
    BY <1>1, <2>1 DEF Numbered
<1>3. Increasing(e)
  BY <1>2 DEF Increasing
<1>4. ASSUME NEW x \in (n + 1)..(n + k) PROVE x \in Bytes(e)
  <2>1. x - n \in 1..k /\ n + (x - n) = x /\ x # 0
    OBVIOUS
  <2>2. e[x - n] = x
    BY <1>2, <2>1
  <2> QED
    BY <1>2, <2>1, <2>2 DEF Bytes
<1>5. ASSUME NEW x \in Bytes(e) PROVE x \in (n + 1)..(n + k)
  BY <1>2, <1>5 DEF Bytes
<1> QED
  BY <1>1, <1>2, <1>3, <1>4, <1>5

LEMMA Continued ==
  ASSUME NEW s, NEW N, NEW n \in Nat, NEW k \in Nat, N \subseteq 1..n, Carries(s, N)
  PROVE  Carries(s \o Numbered(n, k), N \cup ((n + 1)..(n + k)))
<1>1. PICK e : e = Numbered(n, k)
  OBVIOUS
<1>2. e \in Seq(Nat) /\ Increasing(e) /\ Bytes(e) = (n + 1)..(n + k)
  BY <1>1, NumberedRule
<1>3. s \in Seq(Nat) /\ Increasing(s) /\ Bytes(s) = N
  BY DEF Carries
<1>4. Precede(Bytes(s), Bytes(e))
  <2> SUFFICES ASSUME NEW x \in Bytes(s), NEW y \in Bytes(e) PROVE x < y
    BY DEF Precede
  <2>1. x \in 1..n /\ y \in (n + 1)..(n + k)
    BY <1>2, <1>3
  <2> QED
    BY <2>1
<1>5. s \o e \in Seq(Nat)
  BY <1>2, <1>3, ConcatProperties
<1>6. Increasing(s \o e) /\ Bytes(s \o e) = N \cup ((n + 1)..(n + k))
  BY <1>2, <1>3, <1>4, IncreasingJoined, BytesOfJoined
<1> QED
  BY <1>1, <1>5, <1>6 DEF Carries

(* A sequence in two parts.                                                *)
LEMMA Parts ==
  ASSUME NEW X, NEW s \in Seq(X), NEW n \in 0..Len(s)
  PROVE  /\ SubSeq(s, 1, n) \in Seq(X) /\ SubSeq(s, n + 1, Len(s)) \in Seq(X)
         /\ Len(SubSeq(s, 1, n)) = n
         /\ \A i \in 1..n : SubSeq(s, 1, n)[i] = s[i]
         /\ s = SubSeq(s, 1, n) \o SubSeq(s, n + 1, Len(s))
<1>1. Len(s) \in Nat /\ \A i \in 1..Len(s) : s[i] \in X
  BY LenProperties, ElementOfSeq
<1>2. /\ SubSeq(s, 1, n) \in Seq(X)
      /\ Len(SubSeq(s, 1, n)) = n
      /\ \A i \in 1..n : SubSeq(s, 1, n)[i] = s[i]
  <2>1. \A i \in 1..n : s[i] \in X
    BY <1>1
  <2>2. /\ SubSeq(s, 1, n) \in Seq(X)
        /\ Len(SubSeq(s, 1, n)) = (IF 1 <= n THEN n - 1 + 1 ELSE 0)
        /\ \A i \in 1..(n - 1 + 1) : SubSeq(s, 1, n)[i] = s[1 + i - 1]
    BY <2>1, SubSeqProperties
  <2> QED
    BY <1>1, <2>2
<1>3. SubSeq(s, n + 1, Len(s)) \in Seq(X)
  <2>1. n + 1 \in Int /\ Len(s) \in Int /\ \A i \in (n + 1)..Len(s) : s[i] \in X
    BY <1>1
  <2> QED
    BY <2>1, SubSeqProperties
<1>4. SubSeq(s, 1, Len(s)) = s
  BY SubSeqFull
<1>5. SubSeq(s, 1, n) \o SubSeq(s, n + 1, Len(s)) = SubSeq(s, 1, Len(s))
  <2>1. 1 \in 1..(Len(s) + 1) /\ n \in (1 - 1)..Len(s) /\ Len(s) \in n..Len(s)
    BY <1>1
  <2> QED
    BY <2>1, ConcatAdjacentSubSeq
<1> QED
  BY <1>2, <1>3, <1>4, <1>5

-----------------------------------------------------------------------------
(* The client: how a connection changes.                                   *)

LEMMA SameFlatten == \A s : C!FlattenSeq(s) = FlattenSeq(s)
  BY DEF C!FlattenSeq, FlattenSeq

LEMMA PositiveNumbers == Seq(Positive) \subseteq Seq(Nat)
<1>1. Positive \subseteq Nat
  BY DEF Positive
<1> QED
  BY <1>1, SeqMonotonic

(* The types of what is in the fields of a connection.                     *)
LEMMA LineParts ==
  ASSUME NEW line \in Lines
  PROVE  /\ line.queue \in Seq(Seq(Positive)) /\ FlattenSeq(line.queue) \in Seq(Positive)
         /\ line.lines \in Seq(Results) /\ Returned(line.lines) \in Seq(Positive)
         /\ line.sent \in Nat /\ line.dropped \subseteq Nat
<1>1. /\ line.queue \in Seq(Seq(Positive)) /\ line.lines \in Seq(Results)
      /\ line.sent \in Nat /\ line.dropped \subseteq Nat
  BY DEF Lines
<1>2. FlattenSeq(line.queue) \in Seq(Positive)
  BY <1>1, FlatIsSeq
<1>3. [i \in 1..Len(line.lines) |-> line.lines[i].bytes] \in Seq(Seq(Positive))
  <2>1. PICK ls : ls = line.lines
    OBVIOUS
  <2>2. Len(ls) \in Nat /\ \A i \in 1..Len(ls) : ls[i].bytes \in Seq(Positive)
    <3>1. \A i \in 1..Len(ls) : ls[i] \in Results
      BY <1>1, <2>1, ElementOfSeq
    <3> QED
      BY <1>1, <2>1, <3>1, LenProperties DEF Results
  <2>3. [i \in 1..Len(ls) |-> ls[i].bytes] \in Seq(Seq(Positive))
    BY <2>2
  <2> QED
    BY <2>1, <2>3
<1>4. Returned(line.lines) \in Seq(Positive)
  BY <1>3, FlatIsSeq DEF Returned
<1> QED
  BY <1>1, <1>2, <1>4

(* A result is added to what was returned.                                 *)
LEMMA ReturnedGrows ==
  ASSUME NEW ls \in Seq(Results), NEW r \in Results
  PROVE  Returned(Append(ls, r)) = Returned(ls) \o r.bytes
<1>1. PICK n : n = Len(ls)
  OBVIOUS
<1>2. PICK b : b = [i \in 1..n |-> ls[i].bytes]
  OBVIOUS
<1>3. n \in Nat /\ \A i \in 1..n : ls[i].bytes \in Seq(Positive)
  <2>1. \A i \in 1..n : ls[i] \in Results
    BY <1>1, ElementOfSeq
  <2> QED
    BY <1>1, <2>1, LenProperties DEF Results
<1>4. b \in Seq(Seq(Positive)) /\ Len(b) = n /\ \A i \in 1..n : b[i] = ls[i].bytes
  BY <1>2, <1>3
<1>5. PICK ms : ms = Append(ls, r)
  OBVIOUS
<1>6. Len(ms) = n + 1 /\ (\A i \in 1..n : ms[i] = ls[i]) /\ ms[n + 1] = r
  BY <1>1, <1>5, AppendProperties
<1>7. PICK e : e = r.bytes
  OBVIOUS
<1>8. e \in Seq(Positive)
  BY <1>7 DEF Results
<1>9. PICK c : c = [i \in 1..(n + 1) |-> ms[i].bytes]
  OBVIOUS
<1>10. << e >> \in Seq(Seq(Positive)) /\ Len(<< e >>) = 1 /\ << e >>[1] = e
  BY <1>8
<1>11. c = b \o << e >>
  <2>1. PICK d : d = b \o << e >>
    OBVIOUS
  <2>2. d \in Seq(Seq(Positive)) /\ Len(d) = n + 1
        /\ \A i \in 1..(n + 1) : d[i] = IF i <= n THEN b[i] ELSE << e >>[i - n]
    BY <1>4, <1>10, <2>1, Joined
  <2>3. ASSUME NEW i \in 1..(n + 1) PROVE ms[i].bytes = d[i]
    <3>1. CASE i \in 1..n
      <4>1. i <= n /\ ms[i] = ls[i]
        BY <1>6, <3>1
      <4> QED
        BY <1>4, <2>2, <3>1, <4>1
    <3>2. CASE i = n + 1
      <4>1. ~(i <= n) /\ i - n = 1
        BY <1>3, <3>2
      <4>2. d[i] = e
        BY <1>10, <2>2, <4>1
      <4> QED
        BY <1>6, <1>7, <3>2, <4>2
    <3> QED
      BY <1>3, <3>1, <3>2
  <2>4. d = [i \in 1..(n + 1) |-> d[i]]
    BY <2>2
  <2> QED
    BY <1>9, <2>1, <2>3, <2>4
<1>12. FlattenSeq(c) = FlattenSeq(b) \o FlattenSeq(<< e >>)
  BY <1>4, <1>10, <1>11, FlatOfJoined
<1>13. FlattenSeq(<< e >>) = e
  BY <1>8, FlatOfOne
<1>14. Returned(ms) = FlattenSeq(c)
  BY <1>6, <1>9 DEF Returned
<1>15. Returned(ls) = FlattenSeq(b)
  BY <1>1, <1>2 DEF Returned
<1> QED
  BY <1>5, <1>7, <1>12, <1>13, <1>14, <1>15

(* What is in hand becomes a result: all is still there.                   *)
LEMMA WithKeeps ==
  ASSUME NEW line, NEW hand, Delivered(line, hand), NEW asked \in BOOLEAN,
         asked => NoEnd(hand, Len(hand) - 1)
  PROVE  Delivered(C!With(line, hand, asked), << >>)
<1>1. line \in Lines /\ hand \in Seq(Positive) /\ << >> \in Seq(Positive)
  BY EmptySeq DEF Delivered
<1>2. CASE hand = << >>
  BY <1>2 DEF C!With, Delivered
<1>3. CASE hand # << >>
  <2>1. PICK r : r = [bytes |-> hand, asked |-> asked]
    OBVIOUS
  <2>2. r \in Results /\ r.bytes = hand /\ r.asked = asked
    BY <1>1, <2>1 DEF Results
  <2>3. PICK ls : ls = Append(line.lines, r)
    OBVIOUS
  <2>4. ls \in Seq(Results) /\ Len(ls) = Len(line.lines) + 1
        /\ (\A i \in 1..Len(line.lines) : ls[i] = line.lines[i]) /\ ls[Len(line.lines) + 1] = r
    BY <1>1, <2>2, <2>3, LineParts, AppendProperties
  <2>5. PICK new : new = [line EXCEPT !.lines = ls]
    OBVIOUS
  <2>6. C!With(line, hand, asked) = new
    BY <1>3, <2>1, <2>3, <2>5 DEF C!With
  <2>7. /\ new \in Lines /\ new.lines = ls /\ new.queue = line.queue /\ new.sent = line.sent
        /\ new.dropped = line.dropped /\ new.datagram = line.datagram
    BY <1>1, <2>4, <2>5 DEF Lines
  <2>8. Returned(ls) = Returned(line.lines) \o hand
    BY <1>1, <2>2, <2>3, LineParts, ReturnedGrows
  <2>9. (Returned(ls) \o << >>) \o FlattenSeq(line.queue)
          = (Returned(line.lines) \o hand) \o FlattenSeq(line.queue)
    <3>1. Returned(line.lines) \o hand \in Seq(Positive)
      BY <1>1, LineParts, ConcatProperties
    <3>2. Returned(ls) \o << >> = Returned(ls)
      BY <2>8, <3>1, ConcatEmptySeq
    <3> QED
      BY <2>8, <3>2
  <2>10. Carries((Returned(new.lines) \o << >>) \o FlattenSeq(new.queue), (1..new.sent) \ new.dropped)
    BY <2>7, <2>9 DEF Delivered
  <2>11. ASSUME NEW i \in 1..Len(ls), ls[i].asked PROVE NoEnd(ls[i].bytes, Len(ls[i].bytes) - 1)
    <3>1. Len(line.lines) \in Nat
      BY <1>1, LineParts, LenProperties
    <3>2. CASE i \in 1..Len(line.lines)
      BY <2>4, <2>11, <3>2 DEF Delivered
    <3>3. CASE i = Len(line.lines) + 1
      BY <2>2, <2>4, <2>11, <3>3
    <3> QED
      BY <2>4, <3>1, <3>2, <3>3
  <2>12. ~new.datagram => new.dropped = {}
    BY <2>7 DEF Delivered
  <2>13. Delivered(new, << >>)
    BY <1>1, <2>7, <2>10, <2>11, <2>12 DEF Delivered
  <2> QED
    BY <2>6, <2>13
<1> QED
  BY <1>2, <1>3

(* What is taken out of the queue is in hand; the rest of a datagram is    *)
(* gone.                                                                   *)
LEMMA TakenKeeps ==
  ASSUME NEW hand, Delivered(out.line, hand), out.line.queue # << >>,
         NEW n \in 0..Len(InQueue(out.line))
  PROVE  /\ Delivered(C!Taken(n), hand \o SubSeq(InQueue(out.line), 1, n))
         /\ C!Taken(n).accepted = out.line.accepted /\ C!Taken(n).reported = out.line.reported
<1>1. PICK line : line = out.line
  OBVIOUS
<1>2. line \in Lines /\ hand \in Seq(Positive) /\ line.queue # << >>
  BY <1>1 DEF Delivered
<1>3. PICK D : D = Returned(line.lines)
  OBVIOUS
<1>4. PICK F : F = FlattenSeq(line.queue)
  OBVIOUS
<1>5. PICK q : q = InQueue(line)
  OBVIOUS
<1>6. /\ D \in Seq(Positive) /\ F \in Seq(Positive) /\ line.queue \in Seq(Seq(Positive))
      /\ line.dropped \subseteq Nat
  BY <1>2, <1>3, <1>4, LineParts
<1>7. PICK T : T = FlattenSeq(Tail(line.queue))
  OBVIOUS
<1>8. /\ F = line.queue[1] \o T /\ line.queue[1] \in Seq(Positive)
      /\ Tail(line.queue) \in Seq(Seq(Positive)) /\ T \in Seq(Positive)
  BY <1>2, <1>4, <1>6, <1>7, FlatOfHead, FlatIsSeq
<1>9. q \in Seq(Positive) /\ q = IF line.datagram THEN line.queue[1] ELSE F
  BY <1>4, <1>5, <1>6, <1>8 DEF InQueue
<1>10. PICK M, R : M = SubSeq(q, 1, n) /\ R = SubSeq(q, n + 1, Len(q))
  OBVIOUS
<1>11. M \in Seq(Positive) /\ R \in Seq(Positive) /\ q = M \o R
  <2>1. n \in 0..Len(q)
    BY <1>1, <1>5
  <2>2. q \in Seq(Positive)
    BY <1>9
  <2>3. /\ SubSeq(q, 1, n) \in Seq(Positive) /\ SubSeq(q, n + 1, Len(q)) \in Seq(Positive)
        /\ q = SubSeq(q, 1, n) \o SubSeq(q, n + 1, Len(q))
    BY <2>1, <2>2, Parts
  <2> QED
    BY <1>10, <2>3
<1>12. Carries((D \o hand) \o F, (1..line.sent) \ line.dropped)
  BY <1>1, <1>3, <1>4 DEF Delivered
<1>13. hand \o M \in Seq(Positive)
  BY <1>2, <1>11, ConcatProperties
<1>14. C!Queued = q
  BY <1>1, <1>5, SameFlatten DEF C!Queued, InQueue
<1>15. CASE line.datagram
  <2>1. PICK gone : gone = {R[i] : i \in DOMAIN R}
    OBVIOUS
  <2>2. C!ToSet(R) = gone
    BY <2>1 DEF C!ToSet
  <2>3. PICK new : new = [line EXCEPT !.queue = Tail(line.queue), !.dropped = line.dropped \cup gone]
    OBVIOUS
  <2>4. C!Taken(n) = new
    BY <1>1, <1>10, <1>14, <1>15, <2>2, <2>3 DEF C!Taken
  <2>5. gone \subseteq Positive /\ Bytes(R) = gone
    <3>1. DOMAIN R = 1..Len(R) /\ \A i \in 1..Len(R) : R[i] \in Positive
      BY <1>11, LenProperties, ElementOfSeq
    <3>2. gone \subseteq Positive
      BY <2>1, <3>1
    <3>3. 0 \notin gone
      BY <3>2 DEF Positive
    <3>4. gone = {R[i] : i \in 1..Len(R)}
      BY <2>1, <3>1
    <3>5. Bytes(R) = {R[i] : i \in 1..Len(R)} \ {0}
      BY DEF Bytes
    <3> QED
      BY <3>2, <3>3, <3>4, <3>5
  <2>6. /\ new \in Lines /\ new.queue = Tail(line.queue) /\ new.dropped = line.dropped \cup gone
        /\ new.lines = line.lines /\ new.sent = line.sent /\ new.datagram
        /\ new.accepted = line.accepted /\ new.reported = line.reported
    <3>1. line.dropped \cup gone \subseteq Nat
      BY <1>6, <2>5 DEF Positive
    <3> QED
      BY <1>2, <1>8, <1>15, <2>3, <3>1 DEF Lines
  <2>7. (D \o hand) \o F = ((D \o (hand \o M)) \o R) \o T
    <3>1. F = (M \o R) \o T
      BY <1>8, <1>9, <1>11, <1>15
    <3>2. (D \o hand) \o ((M \o R) \o T) = ((D \o (hand \o M)) \o R) \o T
      <4>1. D \in Seq(Positive) /\ hand \in Seq(Positive)
        BY <1>2, <1>6
      <4>2. M \in Seq(Positive) /\ R \in Seq(Positive)
        BY <1>11
      <4>3. T \in Seq(Positive)
        BY <1>8
      <4>4. Moves5(D, hand, M, R, T)
        BY <4>1, <4>2, <4>3, Brackets5
      <4> QED
        BY <4>4 DEF Moves5
    <3> QED
      BY <3>1, <3>2
  <2>8. /\ Carries((D \o (hand \o M)) \o T, ((1..line.sent) \ line.dropped) \ gone)
        /\ gone \subseteq (1..line.sent) \ line.dropped
    <3>1. D \o (hand \o M) \in Seq(Nat) /\ R \in Seq(Nat) /\ T \in Seq(Nat)
      <4>1. D \o (hand \o M) \in Seq(Positive)
        BY <1>6, <1>13, ConcatProperties
      <4> QED
        BY <1>8, <1>11, <4>1, PositiveNumbers
    <3>2. PICK v, N : v = D \o (hand \o M) /\ N = (1..line.sent) \ line.dropped
      OBVIOUS
    <3>3. Carries((v \o R) \o T, N)
      BY <1>12, <2>7, <3>2
    <3>4. v \in Seq(Nat) /\ R \in Seq(Nat) /\ T \in Seq(Nat)
      BY <3>1, <3>2
    <3>5. Carries(v \o T, N \ Bytes(R)) /\ Bytes(R) \subseteq N
      BY <3>3, <3>4, Cut
    <3> QED
      BY <2>5, <3>2, <3>5
  <2>9. ((1..line.sent) \ line.dropped) \ gone = (1..new.sent) \ new.dropped
    BY <2>6
  <2>10. Carries((Returned(new.lines) \o (hand \o M)) \o FlattenSeq(new.queue),
                 (1..new.sent) \ new.dropped)
    BY <1>3, <1>7, <2>6, <2>8, <2>9
  <2>11. \A i \in 1..Len(new.lines) :
           new.lines[i].asked => NoEnd(new.lines[i].bytes, Len(new.lines[i].bytes) - 1)
    BY <1>1, <2>6 DEF Delivered
  <2>12. new.dropped \subseteq 1..new.sent
    <3>1. line.dropped \subseteq 1..line.sent
      BY <1>1 DEF Delivered
    <3> QED
      BY <2>6, <2>8, <3>1
  <2>13. Delivered(new, hand \o M)
    BY <1>13, <2>6, <2>10, <2>11, <2>12 DEF Delivered
  <2> QED
    BY <1>1, <1>5, <1>10, <2>4, <2>6, <2>13
<1>16. CASE ~line.datagram
  <2>1. PICK rest : rest = IF R = << >> THEN << >> ELSE << R >>
    OBVIOUS
  <2>2. PICK new : new = [line EXCEPT !.queue = rest]
    OBVIOUS
  <2>3. C!Taken(n) = new
    BY <1>1, <1>10, <1>14, <1>16, <2>1, <2>2 DEF C!Taken
  <2>4. rest \in Seq(Seq(Positive)) /\ FlattenSeq(rest) = R
    <3>1. CASE R = << >>
      BY <2>1, <3>1, FlatOfNone, EmptySeq
    <3>2. CASE R # << >>
      <4>1. rest = << R >>
        BY <2>1, <3>2
      <4>2. FlattenSeq(<< R >>) = R
        BY <1>11, FlatOfOne
      <4> QED
        BY <1>11, <4>1, <4>2
    <3> QED
      BY <3>1, <3>2
  <2>5. /\ new \in Lines /\ new.queue = rest /\ new.dropped = line.dropped
        /\ new.lines = line.lines /\ new.sent = line.sent /\ new.datagram = line.datagram
        /\ new.accepted = line.accepted /\ new.reported = line.reported
    BY <1>2, <2>2, <2>4 DEF Lines
  <2>6. (D \o hand) \o F = (D \o (hand \o M)) \o R
    <3>1. F = M \o R
      BY <1>9, <1>11, <1>16
    <3>2. D \in Seq(Positive) /\ hand \in Seq(Positive) /\ M \in Seq(Positive) /\ R \in Seq(Positive)
      BY <1>2, <1>6, <1>11
    <3>3. (D \o hand) \o (M \o R) = (D \o (hand \o M)) \o R
      <4>1. Moves4(D, hand, M, R)
        BY <3>2, Brackets4
      <4> QED
        BY <4>1 DEF Moves4
    <3> QED
      BY <3>1, <3>3
  <2>7. Carries((Returned(new.lines) \o (hand \o M)) \o FlattenSeq(new.queue),
                 (1..new.sent) \ new.dropped)
    BY <1>3, <1>12, <2>4, <2>5, <2>6
  <2>8. \A i \in 1..Len(new.lines) :
           new.lines[i].asked => NoEnd(new.lines[i].bytes, Len(new.lines[i].bytes) - 1)
    BY <1>1, <2>5 DEF Delivered
  <2>9. new.dropped = {} /\ new.dropped \subseteq 1..new.sent
    BY <1>1, <1>16, <2>5 DEF Delivered
  <2>10. Delivered(new, hand \o M)
    BY <1>13, <2>5, <2>7, <2>8, <2>9 DEF Delivered
  <2> QED
    BY <1>1, <1>5, <1>10, <2>3, <2>5, <2>10
<1> QED
  BY <1>15, <1>16

(* A piece arrives.                                                        *)
Arrived(line, n) ==
  [line EXCEPT !.sent = line.sent + n,
               !.queue = Append(line.queue, [i \in 1..n |-> line.sent + i])]

SeesMore(line, new) ==
  \A call : call.want \in Int /\ call.ends \in {0, 1} /\ Seen(call, line) => Seen(call, new)

LEMMA ArrivalKeeps ==
  ASSUME NEW line, NEW hand, Delivered(line, hand), NEW n \in Nat
  PROVE  /\ Delivered(Arrived(line, n), hand)
         /\ Arrived(line, n).accepted = line.accepted /\ Arrived(line, n).reported = line.reported
         /\ SeesMore(line, Arrived(line, n))
<1>1. PICK new : new = Arrived(line, n)
  OBVIOUS
<1>2. line \in Lines /\ hand \in Seq(Positive)
  BY DEF Delivered
<1>3. PICK D, F, e : D = Returned(line.lines) /\ F = FlattenSeq(line.queue)
                     /\ e = [i \in 1..n |-> line.sent + i]
  OBVIOUS
<1>4. /\ D \in Seq(Positive) /\ F \in Seq(Positive) /\ line.queue \in Seq(Seq(Positive))
      /\ line.sent \in Nat
  BY <1>2, <1>3, LineParts
<1>5. e \in Seq(Positive) /\ Len(e) = n
  <2>1. \A i \in 1..n : line.sent + i \in Positive
    BY <1>4 DEF Positive
  <2> QED
    BY <1>3, <2>1
<1>6. PICK queue : queue = Append(line.queue, e)
  OBVIOUS
<1>7. queue \in Seq(Seq(Positive)) /\ queue # << >> /\ FlattenSeq(queue) = F \o e
  <2>1. PICK s : s = line.queue
    OBVIOUS
  <2>2. s \in Seq(Seq(Positive)) /\ e \in Seq(Positive)
    BY <1>4, <1>5, <2>1
  <2>3. Append(s, e) \in Seq(Seq(Positive)) /\ Append(s, e) # << >>
    BY <2>2, AppendProperties
  <2>4. FlattenSeq(Append(s, e)) = FlattenSeq(s) \o e
    BY <2>2, FlatOfLast
  <2> QED
    BY <1>3, <1>6, <2>1, <2>3, <2>4
<1>8. /\ new \in Lines /\ new.queue = queue /\ new.sent = line.sent + n
      /\ new.lines = line.lines /\ new.dropped = line.dropped /\ new.datagram = line.datagram
      /\ new.accepted = line.accepted /\ new.reported = line.reported
  <2>1. new = [line EXCEPT !.sent = line.sent + n, !.queue = queue]
    BY <1>3, <1>6, <1>1 DEF Arrived
  <2>2. line.sent + n \in Nat
    BY <1>4
  <2> QED
    BY <1>2, <1>7, <2>1, <2>2 DEF Lines
<1>9. Carries((D \o hand) \o F, (1..line.sent) \ line.dropped)
  BY <1>3 DEF Delivered
<1>10. Carries((D \o hand) \o (F \o e), (1..new.sent) \ new.dropped)
  <2>1. D \o hand \in Seq(Positive)
    BY <1>2, <1>4, ConcatProperties
  <2>2. ((D \o hand) \o F) \o e = (D \o hand) \o (F \o e)
    <3>1. PICK u : u = D \o hand
      OBVIOUS
    <3>2. u \in Seq(Positive) /\ F \in Seq(Positive) /\ e \in Seq(Positive)
      BY <1>4, <1>5, <2>1, <3>1
    <3>3. (u \o F) \o e = u \o (F \o e)
      <4>1. Moves3(u, F, e)
        BY <3>2, Brackets3
      <4> QED
        BY <4>1 DEF Moves3
    <3> QED
      BY <3>1, <3>3
  <2>3. PICK N, s : N = (1..line.sent) \ line.dropped /\ s = (D \o hand) \o F
    OBVIOUS
  <2>4. N \subseteq 1..line.sent /\ Carries(s, N)
    BY <1>9, <2>3
  <2>5. Carries(s \o e, N \cup ((line.sent + 1)..(line.sent + n)))
    <3>1. e = Numbered(line.sent, n)
      BY <1>3 DEF Numbered
    <3>2. line.sent \in Nat /\ n \in Nat
      BY <1>4
    <3> QED
      BY <2>4, <3>1, <3>2, Continued
  <2>6. line.dropped \subseteq 1..line.sent
    BY DEF Delivered
  <2>7. N \cup ((line.sent + 1)..(line.sent + n)) = (1..new.sent) \ new.dropped
    BY <1>4, <1>8, <2>3, <2>6
  <2> QED
    BY <2>2, <2>3, <2>5, <2>7
<1>11. Delivered(new, hand)
  <2>1. Carries((Returned(new.lines) \o hand) \o FlattenSeq(new.queue), (1..new.sent) \ new.dropped)
    BY <1>3, <1>7, <1>8, <1>10
  <2>2. new.dropped \subseteq 1..new.sent
    <3>1. line.dropped \subseteq 1..line.sent
      BY DEF Delivered
    <3> QED
      BY <1>4, <1>8, <3>1
  <2>3. ~new.datagram => new.dropped = {}
    BY <1>8 DEF Delivered
  <2>4. \A i \in 1..Len(new.lines) :
          new.lines[i].asked => NoEnd(new.lines[i].bytes, Len(new.lines[i].bytes) - 1)
    BY <1>8 DEF Delivered
  <2> QED
    BY <1>2, <1>8, <2>1, <2>2, <2>3, <2>4 DEF Delivered
<1>12. ASSUME NEW call, call.want \in Int, call.ends \in {0, 1}, Seen(call, line) PROVE Seen(call, new)
  <2>1. line.queue # << >> /\ call.want <= Len(InQueue(line))
        /\ NoEnd(InQueue(line), call.want - call.ends)
    BY <1>12 DEF Seen
  <2>2. CASE line.datagram
    <3>1. Len(line.queue) \in Nat \ {0}
      BY <1>4, <2>1, EmptySeq
    <3>2. 1 \in 1..Len(line.queue)
      BY <3>1
    <3>3. queue[1] = line.queue[1]
      BY <1>4, <1>5, <1>6, <3>2, AppendProperties
    <3>4. InQueue(new) = InQueue(line)
      BY <1>8, <2>2, <3>3 DEF InQueue
    <3> QED
      BY <1>7, <1>8, <2>1, <3>4 DEF Seen
  <2>3. CASE ~line.datagram
    <3>1. InQueue(line) = F /\ InQueue(new) = F \o e
      BY <1>3, <1>7, <1>8, <2>3 DEF InQueue
    <3>2. PICK s, t, w : s = F /\ t = F \o e /\ w = call.want - call.ends
      OBVIOUS
    <3>3. /\ Len(s) \in Nat /\ Len(t) = Len(s) + n
          /\ \A i \in 1..(Len(s) + n) : t[i] = IF i <= Len(s) THEN s[i] ELSE e[i - Len(s)]
      BY <1>4, <1>5, <3>2, Joined, LenProperties
    <3>4. call.want <= Len(t)
      <4>1. call.want <= Len(s) /\ call.want \in Int
        BY <1>12, <2>1, <3>1, <3>2
      <4> QED
        BY <3>3, <4>1
    <3>5. NoEnd(t, w)
      <4> SUFFICES ASSUME NEW k \in 1..w PROVE ~C!IsEnd(t[k])
        BY DEF NoEnd
      <4>1. w \in Int /\ w <= Len(s)
        <5>1. PICK x, y : x = call.want /\ y = call.ends
          OBVIOUS
        <5>2. x \in Int /\ y \in {0, 1} /\ x <= Len(s)
          BY <1>12, <2>1, <3>1, <3>2, <5>1
        <5>3. w = x - y
          BY <3>2, <5>1
        <5> QED
          BY <3>3, <5>2, <5>3
      <4>2. k \in 1..(Len(s) + n) /\ k <= Len(s)
        BY <3>3, <4>1
      <4>3. t[k] = s[k]
        BY <3>3, <4>2
      <4> QED
        BY <2>1, <3>1, <3>2, <4>3 DEF NoEnd
    <3> QED
      BY <1>7, <1>8, <3>1, <3>2, <3>4, <3>5 DEF Seen
  <2> QED
    BY <2>2, <2>3
<1> QED
  BY <1>8, <1>11, <1>12, <1>1 DEF SeesMore

-----------------------------------------------------------------------------
(* The client: every step preserves the invariant.                         *)

(* What the invariant says of the parts.                                   *)
LEMMA NothingInHand ==
  /\ InHand(C!NoCall) = << >> /\ C!NoCall.do = "none"
  /\ \A line : Calling(C!NoCall, line)
<1>1. C!NoCall.do = "none"
  BY DEF C!NoCall
<1>2. InHand(C!NoCall) = << >>
  BY <1>1 DEF InHand
<1>3. Len(<< >>) = 0
  BY EmptySeq
<1>4. \A line : Calling(C!NoCall, line)
  BY <1>1, <1>2, <1>3 DEF Calling, NoEnd
<1> QED
  BY <1>1, <1>2, <1>4

LEMMA Kinds ==
  ASSUME NEW call, NEW line, Calling(call, line)
  PROVE  /\ call.do = "send" => call \in Sends
         /\ call.do \in {"peek", "take", "any"} => call \in Receives /\ InHand(call) = call.got
         /\ call.do \in {"none", "send"} => InHand(call) = << >>
         /\ call.do = "none" <=> call = C!NoCall
         /\ call.do \in {"none", "peek", "take", "any", "send"}
<1>1. CASE call = C!NoCall
  BY <1>1, NothingInHand
<1>2. CASE call \in Receives
  <2>1. call.do \in {"peek", "take", "any"}
    BY <1>2 DEF Receives
  <2> QED
    BY <1>2, <2>1, NothingInHand DEF InHand
<1>3. CASE call \in Sends
  <2>1. call.do = "send"
    BY <1>3 DEF Sends
  <2> QED
    BY <1>3, <2>1, NothingInHand DEF InHand
<1> QED
  BY <1>1, <1>2, <1>3 DEF Calling

LEMMA FreshIsDelivered ==
  ASSUME NEW datagram \in BOOLEAN
  PROVE  /\ Delivered(C!Fresh(datagram), << >>)
         /\ C!Fresh(datagram).accepted = 0 /\ C!Fresh(datagram).reported = 0
<1>1. PICK line : line = C!Fresh(datagram)
  OBVIOUS
<1>2. /\ line.datagram = datagram /\ line.sent = 0 /\ line.queue = << >> /\ line.lines = << >>
      /\ line.dropped = {} /\ line.accepted = 0 /\ line.reported = 0
  BY <1>1 DEF C!Fresh
<1>3. << >> \in Seq(Seq(Positive)) /\ << >> \in Seq(Results) /\ << >> \in Seq(Positive)
      /\ << >> \in Seq(Nat) /\ Len(<< >>) = 0
  BY EmptySeq
<1>4. line \in Lines
  BY <1>1, <1>3 DEF C!Fresh, Lines
<1>5. Returned(<< >>) = << >>
  <2>1. PICK f : f = [i \in 1..Len(<< >>) |-> << >>[i].bytes]
    OBVIOUS
  <2>2. f = << >>
    BY <1>3, <2>1
  <2> QED
    BY <2>1, <2>2, FlatOfNone DEF Returned
<1>6. (<< >> \o << >>) \o << >> = << >>
  BY <1>3, ConcatEmptySeq
<1>7. Carries(<< >>, {})
  BY <1>3 DEF Carries, Increasing, Bytes
<1>8. (1..line.sent) \ line.dropped = {}
  BY <1>2
<1>9. Carries((Returned(line.lines) \o << >>) \o FlattenSeq(line.queue), (1..line.sent) \ line.dropped)
  BY <1>2, <1>5, <1>6, <1>7, <1>8, FlatOfNone
<1>10. Delivered(line, << >>)
  BY <1>2, <1>3, <1>4, <1>9 DEF Delivered
<1> QED
  BY <1>1, <1>2, <1>10

LEMMA ClientInit ==
  ASSUME C!Init PROVE ClientHolds(obj, out) /\ status = "client"
<1>1. obj = [fd |-> NoSocket, call |-> C!NoCall] /\ out = [open |-> {}, line |-> C!Fresh(FALSE)]
      /\ status = "client"
  BY DEF C!Init
<1>2. /\ obj.fd = NoSocket /\ obj.call = C!NoCall /\ out.open = {} /\ out.line = C!Fresh(FALSE)
      /\ obj = [fd |-> obj.fd, call |-> obj.call] /\ out = [open |-> out.open, line |-> out.line]
  BY <1>1
<1>3. Delivered(out.line, InHand(obj.call))
  BY <1>2, FreshIsDelivered, NothingInHand
<1>4. Calling(obj.call, out.line)
  BY <1>2, NothingInHand
<1>5. Accounted(obj.call, out.line)
  <2>1. obj.call.do # "send"
    BY <1>2, NothingInHand
  <2>2. out.line.accepted = 0 /\ out.line.reported = 0
    BY <1>2, FreshIsDelivered
  <2> QED
    BY <2>1, <2>2 DEF Accounted
<1> QED
  BY <1>1, <1>2, <1>3, <1>4, <1>5 DEF ClientHolds

LEMMA ConnectKeeps ==
  ASSUME C!ClientAssumption, ClientHolds(obj, out), NEW fd \in Descriptors, NEW datagram \in BOOLEAN,
         C!Connect(fd, datagram)
  PROVE  ClientHolds(obj', out')
<1>1. /\ obj.call = C!NoCall /\ obj.fd = NoSocket
      /\ obj' = [obj EXCEPT !.fd = fd]
      /\ out' = [open |-> out.open \cup {fd}, line |-> C!Fresh(datagram)]
  BY DEF C!Connect, C!Waiting, C!Connected
<1>2. obj = [fd |-> obj.fd, call |-> obj.call] /\ out.open = {obj.fd} \ {NoSocket}
  BY DEF ClientHolds
<1>3. obj'.fd = fd /\ obj'.call = C!NoCall /\ obj' = [fd |-> obj'.fd, call |-> obj'.call]
  BY <1>1, <1>2
<1>4. out'.open = {fd} /\ out'.line = C!Fresh(datagram) /\ out' = [open |-> out'.open, line |-> out'.line]
  BY <1>1, <1>2
<1>5. {fd} \ {NoSocket} = {fd}
  BY DEF C!ClientAssumption
<1>6. Delivered(out'.line, InHand(obj'.call))
  BY <1>3, <1>4, FreshIsDelivered, NothingInHand
<1>7. Calling(obj'.call, out'.line)
  BY <1>3, NothingInHand
<1>8. Accounted(obj'.call, out'.line)
  <2>1. obj'.call.do # "send"
    BY <1>3, NothingInHand
  <2>2. out'.line.accepted = 0 /\ out'.line.reported = 0
    BY <1>4, FreshIsDelivered
  <2> QED
    BY <2>1, <2>2 DEF Accounted
<1> QED
  BY <1>3, <1>4, <1>5, <1>6, <1>7, <1>8 DEF ClientHolds

(* A step that leaves the call alone, or ends it.                          *)
LEMMA DisconnectKeeps ==
  ASSUME ClientHolds(obj, out), C!Disconnect
  PROVE  ClientHolds(obj', out')
<1>1. /\ obj.call = C!NoCall /\ obj' = [fd |-> NoSocket, call |-> C!NoCall]
      /\ out' = [out EXCEPT !.open = out.open \ {obj.fd}]
  BY DEF C!Disconnect, C!Disconnected, C!Waiting
<1>2. /\ out = [open |-> out.open, line |-> out.line] /\ out.open = {obj.fd} \ {NoSocket}
      /\ Delivered(out.line, InHand(obj.call)) /\ Calling(obj.call, out.line)
      /\ Accounted(obj.call, out.line)
  BY DEF ClientHolds
<1>3. obj'.fd = NoSocket /\ obj'.call = obj.call /\ obj' = [fd |-> obj'.fd, call |-> obj'.call]
  BY <1>1
<1>4. out'.open = {} /\ out'.line = out.line /\ out' = [open |-> out'.open, line |-> out'.line]
  BY <1>1, <1>2
<1> QED
  BY <1>2, <1>3, <1>4 DEF ClientHolds

LEMMA ArriveKeeps ==
  ASSUME ClientHolds(obj, out), NEW n \in 1..Len(Text), C!Arrive(n)
  PROVE  ClientHolds(obj', out')
<1>1. PICK new : new = Arrived(out.line, n)
  OBVIOUS
<1>2. /\ out = [open |-> out.open, line |-> out.line] /\ out.open = {obj.fd} \ {NoSocket}
      /\ obj = [fd |-> obj.fd, call |-> obj.call]
      /\ Delivered(out.line, InHand(obj.call)) /\ Calling(obj.call, out.line)
      /\ Accounted(obj.call, out.line)
  BY DEF ClientHolds
<1>3. obj' = obj
  BY DEF C!Arrive
<1>4. out'.open = out.open /\ out'.line = new /\ out' = [open |-> out'.open, line |-> out'.line]
  BY <1>1, <1>2 DEF C!Arrive, Arrived
<1>5. n \in Nat
  OBVIOUS
<1>6. /\ Delivered(new, InHand(obj.call))
      /\ new.accepted = out.line.accepted /\ new.reported = out.line.reported
      /\ SeesMore(out.line, new)
  BY <1>1, <1>2, <1>5, ArrivalKeeps
<1>7. obj.call.do = "take" => Seen(obj.call, new)
  <2> SUFFICES ASSUME obj.call.do = "take" PROVE Seen(obj.call, new)
    OBVIOUS
  <2>1. obj.call \in Receives
    BY <1>2, Kinds
  <2>2. obj.call.want \in Int /\ obj.call.ends \in {0, 1}
    BY <2>1 DEF Receives
  <2>3. Seen(obj.call, out.line)
    BY <1>2 DEF Calling
  <2> QED
    BY <1>6, <2>2, <2>3 DEF SeesMore
<1>8. Calling(obj.call, new)
  BY <1>2, <1>7 DEF Calling
<1>9. Accounted(obj.call, new)
  BY <1>2, <1>6 DEF Accounted
<1> QED
  BY <1>2, <1>3, <1>4, <1>6, <1>8, <1>9 DEF ClientHolds

LEMMA CloseKeeps ==
  ASSUME ClientHolds(obj, out), C!Close
  PROVE  ClientHolds(obj', out')
<1>1. PICK line, new : line = out.line /\ new = [line EXCEPT !.closed = TRUE]
  OBVIOUS
<1>2. /\ out = [open |-> out.open, line |-> line] /\ out.open = {obj.fd} \ {NoSocket}
      /\ obj = [fd |-> obj.fd, call |-> obj.call]
      /\ Delivered(line, InHand(obj.call)) /\ Calling(obj.call, line)
      /\ Accounted(obj.call, line)
  BY <1>1 DEF ClientHolds
<1>3. obj' = obj
  BY DEF C!Close
<1>4. out'.open = out.open /\ out'.line = new /\ out' = [open |-> out'.open, line |-> out'.line]
  BY <1>1, <1>2 DEF C!Close
<1>5. line \in Lines
  BY <1>2 DEF Delivered
<1>6. /\ new \in Lines /\ new.queue = line.queue /\ new.lines = line.lines
      /\ new.sent = line.sent /\ new.dropped = line.dropped /\ new.datagram = line.datagram
      /\ new.accepted = line.accepted /\ new.reported = line.reported
  BY <1>1, <1>5 DEF Lines
<1>7. Delivered(new, InHand(obj.call))
  BY <1>2, <1>6 DEF Delivered
<1>8. Calling(obj.call, new)
  BY <1>2, <1>6 DEF Calling, Seen, InQueue
<1>9. Accounted(obj.call, new)
  BY <1>2, <1>6 DEF Accounted
<1> QED
  BY <1>2, <1>3, <1>4, <1>7, <1>8, <1>9 DEF ClientHolds

LEMMA RecvKeeps ==
  ASSUME C!ClientAssumption, ClientHolds(obj, out), NEW room \in Rooms, NEW until_eol \in BOOLEAN,
         C!Recv(room, until_eol)
  PROVE  ClientHolds(obj', out')
<1>1. PICK call : call = [do |-> IF until_eol THEN "peek" ELSE "any", room |-> room, got |-> << >>,
                          want |-> 0, ends |-> 0]
  OBVIOUS
<1>2. obj.call = C!NoCall /\ obj' = [obj EXCEPT !.call = call] /\ out' = out
  BY <1>1 DEF C!Recv, C!Waiting
<1>3. /\ out = [open |-> out.open, line |-> out.line] /\ out.open = {obj.fd} \ {NoSocket}
      /\ obj = [fd |-> obj.fd, call |-> obj.call]
      /\ Delivered(out.line, InHand(obj.call)) /\ Accounted(obj.call, out.line)
  BY DEF ClientHolds
<1>4. obj'.fd = obj.fd /\ obj'.call = call /\ obj' = [fd |-> obj'.fd, call |-> obj'.call]
  BY <1>2, <1>3
<1>5. room \in Int
  BY DEF C!ClientAssumption
<1>6. << >> \in Seq(Positive) /\ Len(<< >>) = 0
  BY EmptySeq
<1>7. call.do \in {"peek", "any"} /\ call.got = << >>
  BY <1>1
<1>8. call \in Receives
  BY <1>1, <1>5, <1>6 DEF Receives
<1>9. InHand(call) = << >>
  BY <1>7 DEF InHand
<1>10. Calling(call, out.line)
  BY <1>6, <1>7, <1>8, <1>9 DEF Calling, NoEnd
<1>11. Accounted(call, out.line)
  <2>1. obj.call.do # "send"
    BY <1>2, NothingInHand
  <2> QED
    BY <1>3, <1>7, <2>1 DEF Accounted
<1>12. Delivered(out.line, InHand(call))
  BY <1>2, <1>3, <1>9, NothingInHand
<1> QED
  BY <1>2, <1>3, <1>4, <1>10, <1>11, <1>12 DEF ClientHolds

(* The least of two numbers, and of some numbers.                          *)
LEMMA LeastOfTwo ==
  ASSUME NEW a \in Int, NEW b \in Int
  PROVE  C!Min({a, b}) \in {a, b} /\ C!Min({a, b}) <= a /\ C!Min({a, b}) <= b
<1>1. \E x \in {a, b} : \A y \in {a, b} : x <= y
  <2>1. CASE a <= b
    BY <2>1
  <2>2. CASE b <= a
    BY <2>2
  <2> QED
    BY <2>1, <2>2
<1>2. PICK m : m = C!Min({a, b})
  OBVIOUS
<1>3. m = CHOOSE x \in {a, b} : \A y \in {a, b} : x <= y
  BY <1>2 DEF C!Min
<1>4. m \in {a, b} /\ \A y \in {a, b} : m <= y
  BY <1>1, <1>3
<1> QED
  BY <1>2, <1>4

LEMMA LeastOfSome ==
  ASSUME NEW U, U \subseteq Nat, U # {}
  PROVE  C!Min(U) \in U /\ \A y \in U : C!Min(U) <= y
<1>1. \E x \in U : \A y \in U : x <= y
  BY LeastNumber
<1>2. PICK m : m = C!Min(U)
  OBVIOUS
<1>3. m = CHOOSE x \in U : \A y \in U : x <= y
  BY <1>2 DEF C!Min
<1>4. m \in U /\ \A y \in U : m <= y
  BY <1>1, <1>3
<1> QED
  BY <1>2, <1>4

(* The length of a line that is looked at.                                 *)
LEMMA LineLengthRule ==
  ASSUME NEW s \in Seq(Positive)
  PROVE  /\ C!LineLength(s) \in 0..Len(s)
         /\ NoEnd(s, C!LineLength(s) - 1)
         /\ C!LineLength(s) # 0 /\ ~C!IsEnd(s[C!LineLength(s)]) => NoEnd(s, C!LineLength(s))
<1>1. PICK n : n = C!LineLength(s)
  OBVIOUS
<1>2. PICK U : U = {i \in 1..Len(s) : C!IsEnd(s[i])}
  OBVIOUS
<1>3. n = IF U = {} THEN Len(s) ELSE C!Min(U)
  BY <1>1, <1>2 DEF C!LineLength
<1>4. Len(s) \in Nat
  BY LenProperties
<1>5. CASE U = {}
  <2>1. NoEnd(s, Len(s)) /\ NoEnd(s, Len(s) - 1)
    BY <1>2, <1>4, <1>5 DEF NoEnd
  <2> QED
    BY <1>1, <1>3, <1>4, <1>5, <2>1
<1>6. CASE U # {}
  <2>1. U \subseteq Nat
    BY <1>2
  <2>2. n \in U /\ \A y \in U : n <= y
    BY <1>3, <1>6, <2>1, LeastOfSome
  <2>3. n \in 1..Len(s) /\ C!IsEnd(s[n])
    BY <1>2, <2>2
  <2>4. ASSUME NEW k \in 1..(n - 1) PROVE ~C!IsEnd(s[k])
    <3>1. k \in 1..Len(s) /\ ~(n <= k)
      BY <1>4, <2>3
    <3> QED
      BY <1>2, <2>2, <3>1
  <2>5. NoEnd(s, n - 1)
    BY <2>4 DEF NoEnd
  <2> QED
    BY <1>1, <1>4, <2>3, <2>5
<1> QED
  BY <1>5, <1>6

(* What a look of any length shows is the front of the queue.              *)
LEMMA LookRule ==
  ASSUME NEW s \in Seq(Positive), NEW room \in Int, NEW m, m = C!Min({room, Len(s)})
  PROVE  /\ SubSeq(s, 1, m) \in Seq(Positive)
         /\ Len(SubSeq(s, 1, m)) \in 0..Len(s)
         /\ SubSeq(s, 1, Len(SubSeq(s, 1, m))) = SubSeq(s, 1, m)
         /\ \A i \in 1..Len(SubSeq(s, 1, m)) : SubSeq(s, 1, m)[i] = s[i]
<1>1. Len(s) \in Nat
  BY LenProperties
<1>2. m \in Int /\ m <= Len(s)
  BY <1>1, LeastOfTwo
<1>3. CASE m < 1
  <2>1. SubSeq(s, 1, m) = << >> /\ SubSeq(s, 1, 0) = << >>
    BY <1>2, <1>3, SubSeqEmpty
  <2>2. << >> \in Seq(Positive) /\ Len(<< >>) = 0
    BY EmptySeq
  <2>3. PICK r : r = SubSeq(s, 1, m)
    OBVIOUS
  <2>4. r \in Seq(Positive) /\ Len(r) = 0
    BY <2>1, <2>2, <2>3
  <2>5. SubSeq(s, 1, Len(r)) = r
    BY <2>1, <2>3, <2>4
  <2>6. \A i \in 1..Len(r) : r[i] = s[i]
    BY <2>4
  <2>7. Len(r) \in 0..Len(s)
    BY <1>1, <2>4
  <2> QED
    BY <2>3, <2>4, <2>5, <2>6, <2>7
<1>4. CASE ~(m < 1)
  <2>1. m \in 0..Len(s)
    BY <1>1, <1>2, <1>4
  <2>2. /\ SubSeq(s, 1, m) \in Seq(Positive) /\ Len(SubSeq(s, 1, m)) = m
        /\ \A i \in 1..m : SubSeq(s, 1, m)[i] = s[i]
    BY <2>1, Parts
  <2> QED
    BY <2>1, <2>2
<1> QED
  BY <1>3, <1>4

(* The types of a call and the queue in front of it.                       *)
LEMMA QueueRule ==
  ASSUME NEW hand, Delivered(out.line, hand), out.line.queue # << >>
  PROVE  C!Queued \in Seq(Positive) /\ C!Queued = InQueue(out.line)
<1>1. /\ out.line.queue \in Seq(Seq(Positive))
      /\ FlattenSeq(out.line.queue) \in Seq(Positive)
  BY LineParts DEF Delivered
<1>2. out.line.queue[1] \in Seq(Positive)
  BY <1>1, HeadFirst
<1>3. C!Queued = InQueue(out.line)
  BY SameFlatten DEF C!Queued, InQueue
<1> QED
  BY <1>1, <1>2, <1>3 DEF InQueue

LEMMA PeekKeeps ==
  ASSUME ClientHolds(obj, out), C!Peek
  PROVE  ClientHolds(obj', out')
<1>1. PICK call : call = obj.call
  OBVIOUS
<1>2. PICK q : q = C!Queued
  OBVIOUS
<1>3. /\ out = [open |-> out.open, line |-> out.line] /\ out.open = {obj.fd} \ {NoSocket}
      /\ obj = [fd |-> obj.fd, call |-> call]
      /\ Delivered(out.line, InHand(call)) /\ Calling(call, out.line)
      /\ Accounted(call, out.line)
  BY <1>1 DEF ClientHolds
<1>4. call.do = "peek" /\ out.line.queue # << >> /\ out' = out
  BY <1>1 DEF C!Peek, C!Doing, C!Readable
<1>5. call \in Receives /\ InHand(call) = call.got /\ call.room \in Int
  BY <1>3, <1>4, Kinds DEF Receives
<1>6. q \in Seq(Positive) /\ q = InQueue(out.line)
  BY <1>2, <1>3, <1>4, QueueRule
<1>7. PICK m : m = C!Min({call.room, Len(q)})
  OBVIOUS
<1>8. PICK seen : seen = SubSeq(q, 1, m)
  OBVIOUS
<1>9. C!Seen(call.room) = seen
  BY <1>2, <1>7, <1>8 DEF C!Seen
<1>10. seen \in Seq(Positive) /\ Len(seen) \in 0..Len(q) /\ \A i \in 1..Len(seen) : seen[i] = q[i]
  BY <1>5, <1>6, <1>7, <1>8, LookRule
<1>11. PICK n, e : n = C!LineLength(seen) /\ e = IF C!IsEnd(seen[n]) THEN 1 ELSE 0
  OBVIOUS
<1>12. n \in 0..Len(seen) /\ NoEnd(seen, n - 1) /\ (n # 0 /\ ~C!IsEnd(seen[n]) => NoEnd(seen, n))
  BY <1>10, <1>11, LineLengthRule
<1>13. PICK new : new = [call EXCEPT !.do = "take", !.want = n, !.ends = e]
  OBVIOUS
<1>14. obj' = [obj EXCEPT !.call = new]
  <2>1. obj' = [obj EXCEPT !.call.do = "take", !.call.want = n, !.call.ends = e]
    BY <1>1, <1>9, <1>11 DEF C!Peek
  <2> QED
    BY <1>1, <1>3, <1>13, <2>1
<1>15. obj'.fd = obj.fd /\ obj'.call = new /\ obj' = [fd |-> obj'.fd, call |-> obj'.call]
  BY <1>3, <1>14
<1>16. Len(q) \in Nat
  BY <1>6, LenProperties
<1>17. n \in Nat /\ n <= Len(seen) /\ Len(seen) <= Len(q) /\ e \in {0, 1}
  BY <1>10, <1>11, <1>12, <1>16
<1>18. new \in Receives /\ new.do = "take" /\ new.want = n /\ new.ends = e /\ new.got = call.got
  BY <1>5, <1>13, <1>17 DEF Receives
<1>19. InHand(new) = InHand(call)
  BY <1>5, <1>18 DEF InHand
<1>20. NoEnd(q, n - e)
  <2> SUFFICES ASSUME NEW k \in 1..(n - e) PROVE ~C!IsEnd(q[k])
    BY DEF NoEnd
  <2>1. k \in 1..Len(seen)
    BY <1>10, <1>16, <1>17
  <2>2. q[k] = seen[k]
    BY <1>10, <2>1
  <2>3. CASE e = 1
    <3>1. k \in 1..(n - 1)
      BY <2>3
    <3> QED
      BY <1>12, <2>2, <3>1 DEF NoEnd
  <2>4. CASE e = 0
    <3>1. k \in 1..n /\ n # 0
      BY <1>17, <2>4
    <3>2. ~C!IsEnd(seen[n])
      BY <1>11, <2>4
    <3> QED
      BY <1>12, <2>2, <3>1, <3>2 DEF NoEnd
  <2> QED
    BY <1>17, <2>3, <2>4
<1>21. Seen(new, out.line)
  BY <1>4, <1>6, <1>16, <1>17, <1>18, <1>20 DEF Seen
<1>22. Calling(new, out.line)
  BY <1>3, <1>18, <1>19, <1>21 DEF Calling
<1>23. Accounted(new, out.line)
  BY <1>3, <1>4, <1>18 DEF Accounted
<1> QED
  BY <1>3, <1>4, <1>15, <1>19, <1>22, <1>23 DEF ClientHolds

(* recv returns what it has in hand.                                       *)
LEMMA ReturnKeeps ==
  ASSUME ClientHolds(obj, out), obj.call.do # "send",
         NEW line, NEW got, NEW asked \in BOOLEAN, C!Returns(line, got, asked),
         Delivered(line, got), asked => NoEnd(got, Len(got) - 1),
         line.accepted = out.line.accepted, line.reported = out.line.reported
  PROVE  ClientHolds(obj', out')
<1>1. PICK new : new = C!With(line, got, asked)
  OBVIOUS
<1>2. /\ out = [open |-> out.open, line |-> out.line] /\ out.open = {obj.fd} \ {NoSocket}
      /\ obj = [fd |-> obj.fd, call |-> obj.call] /\ Accounted(obj.call, out.line)
  BY DEF ClientHolds
<1>3. obj' = [obj EXCEPT !.call = C!NoCall] /\ out' = [out EXCEPT !.line = new]
  BY <1>1 DEF C!Returns, C!Finish
<1>4. obj'.fd = obj.fd /\ obj'.call = C!NoCall /\ obj' = [fd |-> obj'.fd, call |-> obj'.call]
  BY <1>2, <1>3
<1>5. out'.open = out.open /\ out'.line = new /\ out' = [open |-> out'.open, line |-> out'.line]
  BY <1>2, <1>3
<1>6. Delivered(new, << >>)
  BY <1>1, WithKeeps
<1>7. new.accepted = line.accepted /\ new.reported = line.reported
  <2>1. line \in Lines
    BY DEF Delivered
  <2> QED
    BY <1>1, <2>1 DEF C!With, Lines
<1>8. Accounted(C!NoCall, new)
  BY <1>2, <1>7, NothingInHand DEF Accounted
<1> QED
  BY <1>2, <1>4, <1>5, <1>6, <1>8, NothingInHand DEF ClientHolds

(* Without an end there is none before the last place either.              *)
LEMMA NoEndAtAll ==
  ASSUME NEW s \in Seq(Positive), NoEnd(s, Len(s))
  PROVE  NoEnd(s, Len(s) - 1)
<1>1. Len(s) \in Nat
  BY LenProperties
<1> QED
  BY <1>1 DEF NoEnd

LEMMA PeekEndKeeps ==
  ASSUME ClientHolds(obj, out), C!PeekEnd
  PROVE  ClientHolds(obj', out')
<1>1. obj.call.do = "peek" /\ C!Returns(out.line, obj.call.got, TRUE)
  BY DEF C!PeekEnd, C!Doing
<1>2. Delivered(out.line, InHand(obj.call)) /\ Calling(obj.call, out.line)
  BY DEF ClientHolds
<1>3. InHand(obj.call) = obj.call.got
  BY <1>1, <1>2, Kinds
<1>4. Delivered(out.line, obj.call.got) /\ NoEnd(obj.call.got, Len(obj.call.got) - 1)
  <2>1. NoEnd(obj.call.got, Len(obj.call.got)) /\ obj.call.got \in Seq(Positive)
    BY <1>2, <1>3 DEF Calling, Delivered
  <2> QED
    BY <1>2, <1>3, <2>1, NoEndAtAll
<1> QED
  BY <1>1, <1>4, ReturnKeeps

LEMMA TakeNoneKeeps ==
  ASSUME ClientHolds(obj, out), C!TakeNone
  PROVE  ClientHolds(obj', out')
<1>1. obj.call.do = "any" /\ C!Returns(out.line, << >>, FALSE)
  BY DEF C!TakeNone, C!Doing
<1>2. Delivered(out.line, InHand(obj.call)) /\ Calling(obj.call, out.line)
  BY DEF ClientHolds
<1>3. InHand(obj.call) = << >>
  BY <1>1, <1>2, Kinds DEF Calling
<1> QED
  BY <1>1, <1>2, <1>3, ReturnKeeps

(* No end in a and none among the first n bytes of s.                      *)
LEMMA NoEndJoined ==
  ASSUME NEW a \in Seq(Positive), NoEnd(a, Len(a)), NEW s \in Seq(Positive), NEW n \in 0..Len(s),
         NEW m \in Int, m <= n, NoEnd(s, m)
  PROVE  NoEnd(a \o SubSeq(s, 1, n), Len(a) + m)
<1>1. PICK b : b = SubSeq(s, 1, n)
  OBVIOUS
<1>2. b \in Seq(Positive) /\ Len(b) = n /\ \A i \in 1..n : b[i] = s[i]
  BY <1>1, Parts
<1>3. PICK c : c = a \o b
  OBVIOUS
<1>4. Len(a) \in Nat /\ Len(s) \in Nat
  BY LenProperties
<1>5. /\ \A i \in 1..Len(a) : i \in 1..Len(c) /\ c[i] = a[i]
      /\ \A i \in 1..Len(b) : Len(a) + i \in 1..Len(c) /\ c[Len(a) + i] = b[i]
  <2>1. a \in Seq(Positive) /\ b \in Seq(Positive)
    BY <1>2
  <2>2. \A i \in 1..Len(a) : i \in 1..Len(a \o b) /\ (a \o b)[i] = a[i]
    BY ONLY <2>1, Places, SMTT(30)
  <2>3. \A i \in 1..Len(b) : Len(a) + i \in 1..Len(a \o b) /\ (a \o b)[Len(a) + i] = b[i]
    BY ONLY <2>1, Places, SMTT(30)
  <2> QED
    BY ONLY <1>3, <2>2, <2>3
<1>6. ASSUME NEW k \in 1..(Len(a) + m) PROVE ~C!IsEnd(c[k])
  <2>1. CASE k <= Len(a)
    <3>1. k \in 1..Len(a)
      BY <1>4, <2>1
    <3> QED
      BY <1>5, <3>1 DEF NoEnd
  <2>2. CASE ~(k <= Len(a))
    <3>1. PICK j : j = k - Len(a)
      OBVIOUS
    <3>2. j \in 1..m /\ j \in 1..Len(b) /\ j \in 1..n /\ Len(a) + j = k
      BY <1>2, <1>4, <2>2, <3>1
    <3>3. c[k] = s[j]
      BY <1>2, <1>5, <3>2
    <3> QED
      BY <3>2, <3>3 DEF NoEnd
  <2> QED
    BY <2>1, <2>2
<1> QED
  BY <1>1, <1>3, <1>6 DEF NoEnd

LEMMA TakeKeeps ==
  ASSUME ClientHolds(obj, out), C!Take
  PROVE  ClientHolds(obj', out')
<1>1. PICK call : call = obj.call
  OBVIOUS
<1>2. PICK q : q = C!Queued
  OBVIOUS
<1>3. /\ out = [open |-> out.open, line |-> out.line] /\ out.open = {obj.fd} \ {NoSocket}
      /\ obj = [fd |-> obj.fd, call |-> call]
      /\ Delivered(out.line, InHand(call)) /\ Calling(call, out.line)
      /\ Accounted(call, out.line)
  BY <1>1 DEF ClientHolds
<1>4. call.do = "take"
  BY <1>1 DEF C!Take, C!Doing
<1>5. call \in Receives /\ InHand(call) = call.got /\ Seen(call, out.line)
  BY <1>3, <1>4, Kinds DEF Calling
<1>6. /\ call.room \in Int /\ call.got \in Seq(Positive) /\ call.want \in Nat /\ call.ends \in {0, 1}
      /\ out.line.queue # << >>
  BY <1>5 DEF Receives, Seen
<1>7. q \in Seq(Positive) /\ q = InQueue(out.line)
  BY <1>2, <1>3, <1>6, QueueRule
<1>8. call.want <= Len(q) /\ NoEnd(q, call.want - call.ends) /\ Len(q) \in Nat
  BY <1>5, <1>7, LenProperties DEF Seen
<1>9. NoEnd(call.got, Len(call.got))
  BY <1>3, <1>5 DEF Calling
<1>10. PICK n \in 1..call.want :
         LET got == call.got \o SubSeq(q, 1, n)
         IN IF n >= call.want - call.ends
            THEN C!Returns(C!Taken(n), got, TRUE)
            ELSE /\ obj' = [obj EXCEPT !.call.do = "peek", !.call.got = got,
                                       !.call.room = @ - n]
                 /\ out' = [out EXCEPT !.line = C!Taken(n)]
  BY <1>1, <1>2 DEF C!Take
<1>11. PICK got : got = call.got \o SubSeq(q, 1, n)
  OBVIOUS
<1>12. PICK line : line = C!Taken(n)
  OBVIOUS
<1>13. n \in Nat /\ n \in 0..Len(q) /\ n <= call.want
  BY <1>6, <1>8
<1>14. /\ Delivered(line, got)
       /\ line.accepted = out.line.accepted /\ line.reported = out.line.reported
  BY <1>3, <1>5, <1>6, <1>7, <1>11, <1>12, <1>13, TakenKeeps
<1>15. got \in Seq(Positive) /\ Len(got) = Len(call.got) + n /\ Len(call.got) \in Nat
  <2>1. SubSeq(q, 1, n) \in Seq(Positive) /\ Len(SubSeq(q, 1, n)) = n
    BY <1>7, <1>13, Parts
  <2>2. PICK b : b = SubSeq(q, 1, n)
    OBVIOUS
  <2>3. b \in Seq(Positive) /\ Len(b) = n /\ got = call.got \o b
    BY <1>11, <2>1, <2>2
  <2> QED
    BY <1>6, <2>3, Joined, LenProperties
<1>16. CASE n >= call.want - call.ends
  <2>1. C!Returns(line, got, TRUE)
    BY <1>10, <1>11, <1>12, <1>16
  <2>2. NoEnd(got, Len(got) - 1)
    <3>1. PICK m : m = n - 1
      OBVIOUS
    <3>2. m \in Int /\ m <= n /\ Len(call.got) + m = Len(got) - 1
      BY <1>13, <1>15, <3>1
    <3>3. NoEnd(q, m)
      <4>1. \A k \in 1..m : k \in 1..(call.want - call.ends)
        BY <1>6, <1>13, <3>1
      <4> QED
        BY <1>8, <4>1 DEF NoEnd
    <3>4. NoEnd(call.got \o SubSeq(q, 1, n), Len(call.got) + m)
      BY <1>6, <1>7, <1>9, <1>13, <3>2, <3>3, NoEndJoined
    <3> QED
      BY <1>11, <3>2, <3>4
  <2> QED
    BY <1>1, <1>4, <1>14, <2>1, <2>2, ReturnKeeps
<1>17. CASE ~(n >= call.want - call.ends)
  <2>1. /\ obj' = [obj EXCEPT !.call.do = "peek", !.call.got = got, !.call.room = @ - n]
        /\ out' = [out EXCEPT !.line = line]
    BY <1>10, <1>11, <1>12, <1>17
  <2>2. PICK new : new = [call EXCEPT !.do = "peek", !.got = got, !.room = call.room - n]
    OBVIOUS
  <2>3. obj' = [obj EXCEPT !.call = new]
    BY <1>1, <1>3, <2>1, <2>2
  <2>4. obj'.fd = obj.fd /\ obj'.call = new /\ obj' = [fd |-> obj'.fd, call |-> obj'.call]
    BY <1>3, <2>3
  <2>5. out'.open = out.open /\ out'.line = line /\ out' = [open |-> out'.open, line |-> out'.line]
    BY <1>3, <2>1
  <2>6. call.room - n \in Int
    BY <1>6, <1>13
  <2>7. new \in Receives /\ new.do = "peek" /\ new.got = got
    BY <1>5, <1>15, <2>2, <2>6 DEF Receives
  <2>8. InHand(new) = got
    BY <2>7 DEF InHand
  <2>9. NoEnd(got, Len(got))
    <3>1. NoEnd(q, n)
      <4>1. \A k \in 1..n : k \in 1..(call.want - call.ends)
        BY <1>6, <1>13, <1>17
      <4> QED
        BY <1>8, <4>1 DEF NoEnd
    <3>2. n \in Int /\ n <= n
      BY <1>13
    <3>3. NoEnd(call.got \o SubSeq(q, 1, n), Len(call.got) + n)
      BY <1>6, <1>7, <1>9, <1>13, <3>1, <3>2, NoEndJoined
    <3> QED
      BY <1>11, <1>15, <3>3
  <2>10. Calling(new, line)
    BY <2>7, <2>8, <2>9 DEF Calling
  <2>11. Accounted(new, line)
    BY <1>3, <1>4, <1>14, <2>7 DEF Accounted
  <2> QED
    BY <1>3, <1>14, <2>4, <2>5, <2>8, <2>10, <2>11 DEF ClientHolds
<1> QED
  BY <1>16, <1>17

LEMMA TakeAnyKeeps ==
  ASSUME ClientHolds(obj, out), C!TakeAny
  PROVE  ClientHolds(obj', out')
<1>1. PICK call : call = obj.call
  OBVIOUS
<1>2. PICK q : q = C!Queued
  OBVIOUS
<1>3. Delivered(out.line, InHand(call)) /\ Calling(call, out.line)
  BY <1>1 DEF ClientHolds
<1>4. call.do = "any" /\ out.line.queue # << >>
  BY <1>1 DEF C!TakeAny, C!Doing, C!Readable
<1>5. call.room \in Int /\ InHand(call) = << >>
  BY <1>3, <1>4, Kinds DEF Receives, Calling
<1>6. q \in Seq(Positive) /\ q = InQueue(out.line)
  BY <1>2, <1>3, <1>4, QueueRule
<1>7. PICK m : m = C!Min({call.room, Len(q)})
  OBVIOUS
<1>8. PICK seen : seen = SubSeq(q, 1, m)
  OBVIOUS
<1>9. C!Seen(call.room) = seen
  BY <1>2, <1>7, <1>8 DEF C!Seen
<1>10. seen \in Seq(Positive) /\ Len(seen) \in 0..Len(q) /\ SubSeq(q, 1, Len(seen)) = seen
  BY <1>5, <1>6, <1>7, <1>8, LookRule
<1>11. PICK n : n = Len(seen)
  OBVIOUS
<1>12. C!Returns(C!Taken(n), seen, FALSE)
  BY <1>1, <1>9, <1>11 DEF C!TakeAny
<1>13. n \in 0..Len(InQueue(out.line)) /\ Delivered(out.line, << >>)
  BY <1>3, <1>5, <1>6, <1>10, <1>11
<1>14. /\ Delivered(C!Taken(n), << >> \o SubSeq(InQueue(out.line), 1, n))
       /\ C!Taken(n).accepted = out.line.accepted /\ C!Taken(n).reported = out.line.reported
  BY <1>4, <1>13, TakenKeeps
<1>15. << >> \o SubSeq(InQueue(out.line), 1, n) = seen
  BY <1>6, <1>10, <1>11, ConcatEmptySeq
<1> QED
  BY <1>1, <1>4, <1>12, <1>14, <1>15, ReturnKeeps

LEMMA FailsKeeps ==
  ASSUME ClientHolds(obj, out), C!Fails
  PROVE  ClientHolds(obj', out')
<1>1. PICK call, line : call = obj.call /\ line = out.line
  OBVIOUS
<1>2. PICK new : new = IF call.do = "send" THEN [line EXCEPT !.reported = @ + call.sent]
                       ELSE C!With(line, call.got, call.do # "any")
  OBVIOUS
<1>3. /\ obj' = [fd |-> NoSocket, call |-> C!NoCall] /\ call # C!NoCall
      /\ out' = [open |-> out.open \ {obj.fd}, line |-> new]
  BY <1>1, <1>2 DEF C!Fails
<1>4. /\ out.open = {obj.fd} \ {NoSocket}
      /\ Delivered(line, InHand(call)) /\ Calling(call, line)
      /\ Accounted(call, line) /\ line \in Lines
  BY <1>1 DEF ClientHolds, Delivered
<1>5. /\ obj'.fd = NoSocket /\ obj'.call = C!NoCall /\ obj' = [fd |-> obj'.fd, call |-> obj'.call]
      /\ out'.open = {} /\ out'.line = new /\ out' = [open |-> out'.open, line |-> out'.line]
  BY <1>3, <1>4
<1>6. CASE call.do = "send"
  <2>1. call \in Sends /\ InHand(call) = << >> /\ call.sent \in Nat
    BY <1>4, <1>6, Kinds DEF Sends
  <2>2. line.reported + call.sent \in Nat /\ line.accepted = line.reported + call.sent
    BY <1>4, <1>6, <2>1 DEF Accounted, Lines
  <2>3. new = [line EXCEPT !.reported = line.reported + call.sent]
    BY <1>2, <1>6
  <2>4. /\ new \in Lines /\ new.queue = line.queue /\ new.lines = line.lines
        /\ new.sent = line.sent /\ new.dropped = line.dropped /\ new.datagram = line.datagram
        /\ new.accepted = line.accepted /\ new.reported = line.reported + call.sent
    BY <1>4, <2>2, <2>3 DEF Lines
  <2>5. Delivered(new, << >>)
    BY <1>4, <2>1, <2>4 DEF Delivered
  <2>6. Accounted(C!NoCall, new)
    BY <2>2, <2>4, NothingInHand DEF Accounted, Lines
  <2> QED
    BY <1>5, <2>5, <2>6, NothingInHand DEF ClientHolds
<1>7. CASE call.do # "send"
  <2>1. call.do \in {"peek", "take", "any"} /\ InHand(call) = call.got
    BY <1>3, <1>4, <1>7, Kinds
  <2>2. NoEnd(call.got, Len(call.got)) /\ call.got \in Seq(Positive)
    BY <1>4, <2>1 DEF Calling, Delivered
  <2>3. NoEnd(call.got, Len(call.got) - 1)
    BY <2>2, NoEndAtAll
  <2>4. PICK asked \in BOOLEAN : asked = (call.do # "any")
    OBVIOUS
  <2>5. Delivered(C!With(line, call.got, asked), << >>)
    BY <1>4, <2>1, <2>3, WithKeeps
  <2>6. new = C!With(line, call.got, asked)
    BY <1>2, <1>7, <2>4
  <2>7. new.accepted = line.accepted /\ new.reported = line.reported
    BY <1>4, <2>6 DEF C!With, Lines
  <2>8. Accounted(C!NoCall, new)
    BY <1>4, <1>7, <2>7, NothingInHand DEF Accounted
  <2> QED
    BY <1>5, <2>5, <2>6, <2>8, NothingInHand DEF ClientHolds
<1> QED
  BY <1>6, <1>7

LEMMA SendKeeps ==
  ASSUME C!ClientAssumption, ClientHolds(obj, out), NEW length \in Sizes, NEW retry \in BOOLEAN,
         C!Send(length, retry)
  PROVE  ClientHolds(obj', out')
<1>1. PICK call : call = [do |-> "send", left |-> length, sent |-> 0, retry |-> retry]
  OBVIOUS
<1>2. obj.call = C!NoCall /\ obj' = [obj EXCEPT !.call = call] /\ out' = out
  BY <1>1 DEF C!Send, C!Waiting
<1>3. /\ out = [open |-> out.open, line |-> out.line] /\ out.open = {obj.fd} \ {NoSocket}
      /\ obj = [fd |-> obj.fd, call |-> obj.call]
      /\ Delivered(out.line, InHand(obj.call)) /\ Accounted(obj.call, out.line)
  BY DEF ClientHolds
<1>4. obj'.fd = obj.fd /\ obj'.call = call /\ obj' = [fd |-> obj'.fd, call |-> obj'.call]
  BY <1>2, <1>3
<1>5. length \in Int
  BY DEF C!ClientAssumption
<1>6. call \in Sends /\ call.do = "send" /\ call.sent = 0
  BY <1>1, <1>5 DEF Sends
<1>7. InHand(call) = << >> /\ Len(<< >>) = 0
  BY <1>6, EmptySeq DEF InHand
<1>8. Calling(call, out.line)
  BY <1>6, <1>7 DEF Calling, NoEnd
<1>9. Accounted(call, out.line)
  BY <1>2, <1>3, <1>6, NothingInHand DEF Accounted
<1> QED
  BY <1>2, <1>3, <1>4, <1>7, <1>8, <1>9, NothingInHand DEF ClientHolds

LEMMA SendSomeKeeps ==
  ASSUME ClientHolds(obj, out), C!SendSome
  PROVE  ClientHolds(obj', out')
<1>1. PICK call, line : call = obj.call /\ line = out.line
  OBVIOUS
<1>2. call.do = "send"
  BY <1>1 DEF C!SendSome, C!Doing
<1>3. /\ out.open = {obj.fd} \ {NoSocket}
      /\ Delivered(line, InHand(call)) /\ Calling(call, line)
      /\ Accounted(call, line) /\ line \in Lines
      /\ out = [open |-> out.open, line |-> line] /\ obj = [fd |-> obj.fd, call |-> call]
  BY <1>1 DEF ClientHolds, Delivered
<1>4. call \in Sends /\ InHand(call) = << >>
  BY <1>2, <1>3, Kinds
<1>5. call.left \in Int /\ call.sent \in Nat /\ line.accepted \in Nat /\ line.reported \in Nat
      /\ line.accepted = line.reported + call.sent
  BY <1>2, <1>3, <1>4 DEF Sends, Lines, Accounted
<1>6. PICK n \in 1..call.left :
        IF n < call.left /\ call.retry
        THEN /\ obj' = [obj EXCEPT !.call.left = @ - n, !.call.sent = @ + n]
             /\ out' = [out EXCEPT !.line.accepted = @ + n]
        ELSE /\ C!Finish
             /\ out' = [out EXCEPT !.line.accepted = @ + n, !.line.reported = @ + call.sent + n]
  BY <1>1 DEF C!SendSome
<1>7. n \in Nat
  OBVIOUS
<1>8. CASE n < call.left /\ call.retry
  <2>1. PICK c, l : c = [call EXCEPT !.left = call.left - n, !.sent = call.sent + n]
                    /\ l = [line EXCEPT !.accepted = line.accepted + n]
    OBVIOUS
  <2>2. obj' = [obj EXCEPT !.call = c] /\ out' = [out EXCEPT !.line = l]
    <3>1. obj' = [obj EXCEPT !.call.left = @ - n, !.call.sent = @ + n]
      BY <1>6, <1>8
    <3>2. out' = [out EXCEPT !.line.accepted = @ + n]
      BY <1>6, <1>8
    <3>3. obj' = [obj EXCEPT !.call = c]
      BY <1>1, <1>3, <1>4, <2>1, <3>1 DEF Sends
    <3> QED
      BY <1>1, <1>3, <2>1, <3>2, <3>3
  <2>3. /\ obj'.fd = obj.fd /\ obj'.call = c /\ obj' = [fd |-> obj'.fd, call |-> obj'.call]
        /\ out'.open = out.open /\ out'.line = l /\ out' = [open |-> out'.open, line |-> out'.line]
    BY <1>3, <2>2
  <2>4. call.left - n \in Int /\ call.sent + n \in Nat /\ line.accepted + n \in Nat
    BY <1>5, <1>7
  <2>5. c \in Sends /\ c.do = "send" /\ c.sent = call.sent + n
    BY <1>2, <1>4, <2>1, <2>4 DEF Sends
  <2>6. /\ l \in Lines /\ l.queue = line.queue /\ l.lines = line.lines
        /\ l.sent = line.sent /\ l.dropped = line.dropped /\ l.datagram = line.datagram
        /\ l.accepted = line.accepted + n /\ l.reported = line.reported
    BY <1>3, <2>1, <2>4 DEF Lines
  <2>7. InHand(c) = << >> /\ Len(<< >>) = 0
    BY <2>5, EmptySeq DEF InHand
  <2>8. Delivered(l, << >>)
    BY <1>3, <1>4, <2>6 DEF Delivered
  <2>9. Calling(c, l)
    BY <2>5, <2>7 DEF Calling, NoEnd
  <2>10. Accounted(c, l)
    BY <1>5, <1>7, <2>5, <2>6 DEF Accounted
  <2> QED
    BY <1>3, <2>3, <2>7, <2>8, <2>9, <2>10 DEF ClientHolds
<1>9. CASE ~(n < call.left /\ call.retry)
  <2>1. PICK l : l = [line EXCEPT !.accepted = line.accepted + n,
                                  !.reported = line.reported + call.sent + n]
    OBVIOUS
  <2>2. obj' = [obj EXCEPT !.call = C!NoCall] /\ out' = [out EXCEPT !.line = l]
    <3>1. C!Finish /\ out' = [out EXCEPT !.line.accepted = @ + n, !.line.reported = @ + call.sent + n]
      BY <1>6, <1>9
    <3>2. out' = [out EXCEPT !.line = l]
      BY <1>1, <1>3, <2>1, <3>1 DEF Lines
    <3> QED
      BY <3>1, <3>2 DEF C!Finish
  <2>3. /\ obj'.fd = obj.fd /\ obj'.call = C!NoCall /\ obj' = [fd |-> obj'.fd, call |-> obj'.call]
        /\ out'.open = out.open /\ out'.line = l /\ out' = [open |-> out'.open, line |-> out'.line]
    BY <1>3, <2>2
  <2>4. line.reported + call.sent + n \in Nat /\ line.accepted + n \in Nat
    BY <1>5, <1>7
  <2>5. /\ l \in Lines /\ l.queue = line.queue /\ l.lines = line.lines
        /\ l.sent = line.sent /\ l.dropped = line.dropped /\ l.datagram = line.datagram
        /\ l.accepted = line.accepted + n /\ l.reported = line.reported + call.sent + n
    BY <1>3, <2>1, <2>4 DEF Lines
  <2>6. Delivered(l, << >>)
    BY <1>3, <1>4, <2>5 DEF Delivered
  <2>7. Accounted(C!NoCall, l)
    BY <1>5, <1>7, <2>5, NothingInHand DEF Accounted
  <2> QED
    BY <1>3, <2>3, <2>6, <2>7, NothingInHand DEF ClientHolds
<1> QED
  BY <1>8, <1>9

LEMMA ClientStep ==
  ASSUME C!ClientAssumption, ClientHolds(obj, out), C!Next
  PROVE  ClientHolds(obj', out') /\ status' = status
<1>1. status' = status
  BY DEF C!Next, C!Connect, C!Disconnect, C!Arrive, C!Close, C!Recv, C!Peek, C!PeekEnd, C!Take,
         C!TakeAny, C!TakeNone, C!Fails, C!Send, C!SendSome, C!Returns
<1>2. ASSUME NEW fd \in Descriptors, NEW datagram \in BOOLEAN, C!Connect(fd, datagram)
      PROVE  ClientHolds(obj', out')
  BY <1>2, ConnectKeeps
<1>3. ASSUME NEW n \in 1..Len(Text), C!Arrive(n) PROVE ClientHolds(obj', out')
  BY <1>3, ArriveKeeps
<1>4. ASSUME NEW room \in Rooms, NEW until_eol \in BOOLEAN, C!Recv(room, until_eol)
      PROVE  ClientHolds(obj', out')
  BY <1>4, RecvKeeps
<1>5. ASSUME NEW length \in Sizes, NEW retry \in BOOLEAN, C!Send(length, retry)
      PROVE  ClientHolds(obj', out')
  BY <1>5, SendKeeps
<1>6. ASSUME C!Disconnect PROVE ClientHolds(obj', out')
  BY <1>6, DisconnectKeeps
<1>7. ASSUME C!Close PROVE ClientHolds(obj', out')
  BY <1>7, CloseKeeps
<1>8. ASSUME C!Peek PROVE ClientHolds(obj', out')
  BY <1>8, PeekKeeps
<1>9. ASSUME C!PeekEnd PROVE ClientHolds(obj', out')
  BY <1>9, PeekEndKeeps
<1>10. ASSUME C!Take PROVE ClientHolds(obj', out')
  BY <1>10, TakeKeeps
<1>11. ASSUME C!TakeAny PROVE ClientHolds(obj', out')
  BY <1>11, TakeAnyKeeps
<1>12. ASSUME C!TakeNone PROVE ClientHolds(obj', out')
  BY <1>12, TakeNoneKeeps
<1>13. ASSUME C!Fails PROVE ClientHolds(obj', out')
  BY <1>13, FailsKeeps
<1>14. ASSUME C!SendSome PROVE ClientHolds(obj', out')
  BY <1>14, SendSomeKeeps
<1> QED
  BY <1>1, <1>2, <1>3, <1>4, <1>5, <1>6, <1>7, <1>8, <1>9, <1>10, <1>11, <1>12, <1>13, <1>14 DEF C!Next

(* The invariant says what LineClient!Delivers says.                       *)
LEMMA ClientDeliversAll ==
  ASSUME ClientHolds(obj, out) PROVE ClientDelivers
<1>1. PICK call, line : call = obj.call /\ line = out.line
  OBVIOUS
<1>2. PICK s : s = (Returned(line.lines) \o InHand(call)) \o FlattenSeq(line.queue)
  OBVIOUS
<1>3. /\ out.open = {obj.fd} \ {NoSocket}
      /\ Delivered(line, InHand(call)) /\ Calling(call, line) /\ Accounted(call, line)
  BY <1>1 DEF ClientHolds
<1>4. /\ line \in Lines /\ InHand(call) \in Seq(Positive)
      /\ Carries(s, (1..line.sent) \ line.dropped)
      /\ ~line.datagram => line.dropped = {}
      /\ \A i \in 1..Len(line.lines) :
           line.lines[i].asked => NoEnd(line.lines[i].bytes, Len(line.lines[i].bytes) - 1)
  BY <1>2, <1>3 DEF Delivered
<1>5. C!Got = InHand(call)
  BY <1>1 DEF C!Got, InHand
<1>6. s \in Seq(Positive)
  <2>1. Returned(line.lines) \o InHand(call) \in Seq(Positive)
    BY <1>4, LineParts, ConcatProperties
  <2> QED
    BY <1>2, <1>4, <2>1, LineParts, ConcatProperties
<1>7. C!FlattenSeq([i \in 1..Len(line.lines) |-> line.lines[i].bytes]) \o C!Got
        \o C!FlattenSeq(line.queue) = s
  BY <1>2, <1>5, SameFlatten DEF Returned
<1>8. Len(s) \in Nat /\ \A i \in 1..Len(s) : s[i] \in Nat /\ s[i] # 0
  <2>1. \A i \in 1..Len(s) : s[i] \in Positive
    BY <1>6, ElementOfSeq
  <2> QED
    BY <1>6, <2>1, LenProperties DEF Positive
<1>9. \A i \in 1..(Len(s) - 1) : s[i] < s[i + 1]
  <2>1. TAKE i \in 1..(Len(s) - 1)
  <2>2. i \in 1..Len(s) /\ i + 1 \in 1..Len(s) /\ i < i + 1
    BY <1>8
  <2> QED
    BY <1>4, <1>8, <2>2 DEF Carries, Increasing
<1>10. C!ToSet(s) = (1..line.sent) \ line.dropped
  <2>1. DOMAIN s = 1..Len(s)
    BY <1>6, LenProperties
  <2>2. C!ToSet(s) = {s[i] : i \in 1..Len(s)}
    BY <2>1 DEF C!ToSet
  <2>3. 0 \notin {s[i] : i \in 1..Len(s)}
    BY <1>8
  <2> QED
    BY <1>4, <2>2, <2>3 DEF Carries, Bytes
<1>11. \A k \in 1..Len(C!Got) : ~C!IsEnd(C!Got[k])
  BY <1>3, <1>5 DEF Calling, NoEnd
<1>12. line.accepted = line.reported + (IF call.do = "send" THEN call.sent ELSE 0)
  BY <1>3 DEF Accounted
<1>13. \A i \in 1..Len(line.lines) : line.lines[i].asked =>
         \A k \in 1..(Len(line.lines[i].bytes) - 1) : ~C!IsEnd(line.lines[i].bytes[k])
  BY <1>4 DEF NoEnd
<1> QED
  BY <1>1, <1>3, <1>4, <1>7, <1>9, <1>10, <1>11, <1>12, <1>13 DEF ClientDelivers, C!Delivers

-----------------------------------------------------------------------------
(* The stream: the stack of frames.                                        *)

LEMMA FrameRule ==
  ASSUME NEW f \in Frames
  PROVE  /\ f.do \in {"put", "flush", "drain", "entry"}
         /\ f.do = "put" => f.bytes \in Seq(Nat)
         /\ f.do = "drain" => f.at \in Nat
         /\ f.do = "entry" => f.level \in Levels
         /\ PutOf(f) \in Seq(Nat)
<1>1. << >> \in Seq(Nat)
  BY EmptySeq
<1> QED
  BY <1>1 DEF Frames, Puts, Flushes, Drains, Entries, PutOf

LEMMA FrameTypes ==
  /\ S!FlushFrame \in Frames /\ S!FlushFrame.do = "flush"
  /\ \A at \in Nat : S!DrainFrame(at) \in Frames /\ S!DrainFrame(at).do = "drain"
                     /\ S!DrainFrame(at).at = at
  /\ \A level \in Levels : S!EntryFrame(level) \in Frames /\ S!EntryFrame(level).do = "entry"
                                /\ S!EntryFrame(level).level = level
  /\ \A bytes \in Seq(Nat) : S!PutFrame(bytes) \in Frames /\ S!PutFrame(bytes).do = "put"
                             /\ S!PutFrame(bytes).bytes = bytes
  BY DEF S!FlushFrame, S!DrainFrame, S!EntryFrame, S!PutFrame, Frames, Puts, Flushes, Drains, Entries

(* What the frames of a stack are still to put.                            *)
LEMMA PendingParts ==
  ASSUME NEW stack \in Seq(Frames)
  PROVE  /\ [i \in 1..Len(stack) |-> PutOf(stack[i])] \in Seq(Seq(Nat))
         /\ Pending(stack) \in Seq(Nat)
<1>1. Len(stack) \in Nat /\ \A i \in 1..Len(stack) : PutOf(stack[i]) \in Seq(Nat)
  <2>1. \A i \in 1..Len(stack) : stack[i] \in Frames
    BY ElementOfSeq
  <2> QED
    BY <2>1, FrameRule, LenProperties
<1>2. [i \in 1..Len(stack) |-> PutOf(stack[i])] \in Seq(Seq(Nat))
  BY <1>1
<1> QED
  BY <1>2, FlatIsSeq DEF Pending

LEMMA PendingOfNone == Pending(<< >>) = << >>
<1>1. PICK p : p = [i \in 1..Len(<< >>) |-> PutOf(<< >>[i])]
  OBVIOUS
<1>2. p = << >>
  BY <1>1, EmptySeq
<1> QED
  BY <1>1, <1>2, FlatOfNone DEF Pending

(* The stack s with the frame f before it.                                 *)
LEMMA Before ==
  ASSUME NEW f \in Frames, NEW s \in Seq(Frames), NEW t, t = << f >> \o s
  PROVE  /\ t \in Seq(Frames) /\ Len(t) = Len(s) + 1 /\ Len(s) \in Nat /\ t # << >> /\ t[1] = f
         /\ \A i \in 1..Len(s) : i + 1 \in 1..Len(t) /\ t[i + 1] = s[i]
         /\ \A i \in 1..Len(t) : i # 1 => i - 1 \in 1..Len(s) /\ t[i] = s[i - 1]
         /\ Pending(t) = PutOf(f) \o Pending(s)
<1>1. << f >> \in Seq(Frames) /\ Len(<< f >>) = 1 /\ << f >>[1] = f /\ Len(s) \in Nat
  BY LenProperties
<1>2. /\ t \in Seq(Frames) /\ Len(t) = 1 + Len(s)
      /\ \A i \in 1..(1 + Len(s)) : t[i] = IF i <= 1 THEN << f >>[i] ELSE s[i - 1]
  BY <1>1, Joined
<1>3. t # << >> /\ t[1] = f
  BY <1>1, <1>2, EmptySeq
<1>4. ASSUME NEW i \in 1..Len(t), i # 1 PROVE i - 1 \in 1..Len(s) /\ t[i] = s[i - 1]
  BY <1>1, <1>2, <1>4
<1>5. ASSUME NEW i \in 1..Len(s) PROVE i + 1 \in 1..Len(t) /\ t[i + 1] = s[i]
  <2>1. i + 1 \in 1..(1 + Len(s)) /\ ~(i + 1 <= 1) /\ (i + 1) - 1 = i
    BY <1>1
  <2> QED
    BY <1>2, <2>1
<1>6. PICK p, q, e : /\ p = [i \in 1..Len(t) |-> PutOf(t[i])]
                     /\ q = [i \in 1..Len(s) |-> PutOf(s[i])]
                     /\ e = PutOf(f)
  OBVIOUS
<1>7. p \in Seq(Seq(Nat)) /\ q \in Seq(Seq(Nat)) /\ e \in Seq(Nat)
  BY <1>2, <1>6, PendingParts, FrameRule
<1>8. Len(p) = Len(t) /\ Len(q) = Len(s)
  BY <1>1, <1>2, <1>6
<1>9. p # << >> /\ p[1] = e
  BY <1>1, <1>2, <1>3, <1>6, <1>8, EmptySeq
<1>10. Tail(p) = q
  <2>1. PICK r : r = Tail(p)
    OBVIOUS
  <2>2. r \in Seq(Seq(Nat)) /\ Len(r) = Len(p) - 1 /\ \A i \in 1..Len(r) : r[i] = p[i + 1]
    BY <1>7, <1>9, <2>1, HeadTailProperties
  <2>3. Len(r) = Len(q)
    BY <1>1, <1>2, <1>8, <2>2
  <2>4. ASSUME NEW i \in 1..Len(r) PROVE r[i] = q[i]
    <3>1. i \in 1..Len(s) /\ i + 1 \in 1..Len(t)
      BY <1>1, <1>2, <1>8, <2>3
    <3>2. r[i] = PutOf(t[i + 1]) /\ q[i] = PutOf(s[i])
      BY <1>6, <2>2, <3>1
    <3> QED
      BY <1>5, <3>1, <3>2
  <2>5. r = q
    BY <1>7, <2>2, <2>3, <2>4, SeqEqual
  <2> QED
    BY <2>1, <2>5
<1>11. FlattenSeq(p) = e \o FlattenSeq(q)
  BY <1>7, <1>9, <1>10, FlatOfHead
<1>12. Pending(t) = PutOf(f) \o Pending(s)
  BY <1>6, <1>11 DEF Pending
<1> QED
  BY <1>1, <1>2, <1>3, <1>4, <1>5, <1>12

(* A frame may be put before a stack in which no loop has begun.           *)
LEMMA PushRule ==
  ASSUME NEW class, NEW s, Sound(s, class), Quiet(s), NEW f \in Frames,
         f.do = "put" => f.bytes # << >>,
         f.do = "entry" => class = "Log" /\ s = << >>,
         EntryNext(s) => Flushing(f),
         NEW t, t = << f >> \o s
  PROVE  /\ Sound(t, class)
         /\ f.do = "drain" => Start(t) = f.at
         /\ f.do # "drain" => Start(t) = 0
         /\ (f.do = "drain" => f.at = 0) => Quiet(t)
         /\ Flushing(f) => FlushIsNext(t)
<1>1. s \in Seq(Frames)
  BY DEF Sound
<1>2. /\ t \in Seq(Frames) /\ Len(t) = Len(s) + 1 /\ Len(s) \in Nat /\ t # << >> /\ t[1] = f
      /\ \A i \in 1..Len(s) : i + 1 \in 1..Len(t) /\ t[i + 1] = s[i]
      /\ \A i \in 1..Len(t) : i # 1 => i - 1 \in 1..Len(s) /\ t[i] = s[i - 1]
  BY <1>1, Before
<1>3. ASSUME NEW i \in 1..Len(t), i # 1, t[i].do = "drain" PROVE t[i].at = 0
  <2>1. i - 1 \in 1..Len(s) /\ t[i] = s[i - 1]
    BY <1>2, <1>3
  <2> QED
    BY <1>3, <2>1 DEF Quiet
<1>4. ASSUME NEW i \in 1..Len(t), t[i].do = "put" PROVE t[i].bytes # << >>
  <2>1. CASE i = 1
    BY <1>2, <1>4, <2>1
  <2>2. CASE i # 1
    <3>1. i - 1 \in 1..Len(s) /\ t[i] = s[i - 1]
      BY <1>2, <2>2
    <3> QED
      BY <1>4, <3>1 DEF Sound
  <2> QED
    BY <2>1, <2>2
<1>5. ASSUME NEW i \in 1..Len(t), t[i].do = "entry"
      PROVE  class = "Log" /\ i = Len(t) /\ (i # 1 => Flushing(t[i - 1]))
  <2>1. CASE i = 1
    BY <1>2, <1>5, <2>1, EmptySeq
  <2>2. CASE i # 1
    <3>1. PICK k : k = i - 1
      OBVIOUS
    <3>2. k \in 1..Len(s) /\ t[i] = s[k] /\ k + 1 = i
      BY <1>2, <2>2, <3>1
    <3>3. class = "Log" /\ k = Len(s) /\ (k # 1 => Flushing(s[k - 1]))
      BY <1>5, <3>2 DEF Sound
    <3>4. Flushing(t[k])
      <4>1. CASE k = 1
        <5>1. EntryNext(s)
          BY <1>1, <1>5, <3>2, <4>1, EmptySeq DEF EntryNext
        <5> QED
          BY <1>2, <4>1, <5>1
      <4>2. CASE k # 1
        <5>1. k \in 1..Len(t)
          BY <1>2, <3>2
        <5>2. t[k] = s[k - 1]
          BY <1>2, <4>2, <5>1
        <5> QED
          BY <3>3, <4>2, <5>2
      <4> QED
        BY <4>1, <4>2
    <3> QED
      BY <1>2, <3>1, <3>2, <3>3, <3>4
  <2> QED
    BY <2>1, <2>2
<1>6. Sound(t, class)
  BY <1>2, <1>3, <1>4, <1>5 DEF Sound
<1>7. (f.do = "drain" => Start(t) = f.at) /\ (f.do # "drain" => Start(t) = 0)
  BY <1>2 DEF Start
<1>8. ASSUME f.do = "drain" => f.at = 0 PROVE Quiet(t)
  BY <1>2, <1>3, <1>8 DEF Quiet
<1>9. ASSUME Flushing(f) PROVE FlushIsNext(t)
  <2>1. 1 \in 1..Len(t) /\ 1..(1 - 1) = {}
    BY <1>2
  <2> QED
    BY <1>2, <1>9, <2>1 DEF FlushIsNext
<1> QED
  BY <1>6, <1>7, <1>8, <1>9

(* A colour reset before a flush.                                          *)
LEMMA ResetFirst ==
  ASSUME NEW s \in Seq(Frames), FlushIsNext(s), NEW f \in Frames, f.do = "put", Bytes(f.bytes) = {},
         NEW t, t = << f >> \o s
  PROVE  FlushIsNext(t)
<1>1. /\ t \in Seq(Frames) /\ Len(t) = Len(s) + 1 /\ Len(s) \in Nat /\ t[1] = f
      /\ \A i \in 1..Len(s) : i + 1 \in 1..Len(t) /\ t[i + 1] = s[i]
      /\ \A i \in 1..Len(t) : i # 1 => i - 1 \in 1..Len(s) /\ t[i] = s[i - 1]
  BY Before
<1>2. PICK j \in 1..Len(s) : /\ Flushing(s[j])
                             /\ \A i \in 1..(j - 1) : s[i].do = "put" /\ Bytes(s[i].bytes) = {}
  BY DEF FlushIsNext
<1>3. j + 1 \in 1..Len(t) /\ Flushing(t[j + 1])
  BY <1>1, <1>2
<1>4. ASSUME NEW i \in 1..((j + 1) - 1) PROVE t[i].do = "put" /\ Bytes(t[i].bytes) = {}
  <2>1. CASE i = 1
    BY <1>1, <2>1
  <2>2. CASE i # 1
    <3>1. i \in 1..Len(t) /\ i - 1 \in 1..(j - 1)
      BY <1>1, <2>2
    <3>2. t[i] = s[i - 1]
      BY <1>1, <2>2, <3>1
    <3> QED
      BY <1>2, <3>1, <3>2
  <2> QED
    BY <2>1, <2>2
<1> QED
  BY <1>3, <1>4 DEF FlushIsNext

(* What is below the innermost frame.                                      *)
LEMMA PopRule ==
  ASSUME NEW class, NEW t, Sound(t, class), t # << >>
  PROVE  /\ t[1] \in Frames /\ t = << t[1] >> \o Tail(t) /\ Head(t) = t[1]
         /\ Sound(Tail(t), class) /\ Quiet(Tail(t)) /\ Start(Tail(t)) = 0
         /\ EntryNext(Tail(t)) => Flushing(t[1])
         /\ t[1].do = "entry" => Tail(t) = << >>
         /\ t[1].do = "put" => t[1].bytes # << >>
         /\ FlushIsNext(t) /\ ~Flushing(t[1]) =>
              t[1].do = "put" /\ Bytes(t[1].bytes) = {} /\ FlushIsNext(Tail(t))
<1>1. PICK f, s : f = t[1] /\ s = Tail(t)
  OBVIOUS
<1>2. t \in Seq(Frames)
  BY DEF Sound
<1>3. f \in Frames /\ s \in Seq(Frames) /\ t = << f >> \o s /\ Head(t) = f
  BY <1>1, <1>2, HeadFirst
<1>4. /\ Len(t) = Len(s) + 1 /\ Len(s) \in Nat /\ t[1] = f
      /\ \A i \in 1..Len(s) : i + 1 \in 1..Len(t) /\ t[i + 1] = s[i]
  BY <1>3, Before
<1>5. ASSUME NEW i \in 1..Len(s), s[i].do = "drain" PROVE s[i].at = 0
  <2>1. i + 1 \in 1..Len(t) /\ t[i + 1] = s[i] /\ i + 1 # 1
    BY <1>4
  <2> QED
    BY <1>5, <2>1 DEF Sound
<1>6. ASSUME NEW i \in 1..Len(s), s[i].do = "put" PROVE s[i].bytes # << >>
  <2>1. i + 1 \in 1..Len(t) /\ t[i + 1] = s[i]
    BY <1>4
  <2> QED
    BY <1>6, <2>1 DEF Sound
<1>7. ASSUME NEW i \in 1..Len(s), s[i].do = "entry"
      PROVE  class = "Log" /\ i = Len(s) /\ (i # 1 => Flushing(s[i - 1])) /\ (i = 1 => Flushing(f))
  <2>1. PICK k : k = i + 1
    OBVIOUS
  <2>2. k \in 1..Len(t) /\ t[k] = s[i] /\ k # 1 /\ k - 1 = i
    BY <1>4, <2>1
  <2>3. class = "Log" /\ k = Len(t) /\ Flushing(t[k - 1])
    BY <1>7, <2>2 DEF Sound
  <2>4. i = Len(s) /\ Flushing(t[i])
    BY <1>4, <2>1, <2>2, <2>3
  <2>5. i # 1 => t[i] = s[i - 1]
    <3> SUFFICES ASSUME i # 1 PROVE t[i] = s[i - 1]
      OBVIOUS
    <3>1. i - 1 \in 1..Len(s) /\ (i - 1) + 1 = i
      OBVIOUS
    <3> QED
      BY <1>4, <3>1
  <2> QED
    BY <1>4, <2>3, <2>4, <2>5
<1>8. Sound(s, class)
  BY <1>3, <1>5, <1>6, <1>7 DEF Sound
<1>9. Quiet(s)
  BY <1>5 DEF Quiet
<1>10. Start(s) = 0
  <2>1. s # << >> => 1 \in 1..Len(s)
    BY <1>3, EmptySeq
  <2> QED
    BY <1>5, <2>1 DEF Start
<1>11. EntryNext(s) => Flushing(f)
  <2>1. s # << >> => 1 \in 1..Len(s)
    BY <1>3, EmptySeq
  <2> QED
    BY <1>7, <2>1 DEF EntryNext
<1>12. 1 \in 1..Len(t)
  BY <1>4
<1>13. f.do = "entry" => s = << >>
  <2> SUFFICES ASSUME f.do = "entry" PROVE s = << >>
    OBVIOUS
  <2>1. 1 = Len(t)
    BY <1>4, <1>12 DEF Sound
  <2>2. Len(s) = 0
    BY <1>4, <2>1
  <2> QED
    BY <1>3, <2>2, EmptySeq
<1>14. f.do = "put" => f.bytes # << >>
  BY <1>4, <1>12 DEF Sound
<1>15. ASSUME FlushIsNext(t), ~Flushing(f)
       PROVE  f.do = "put" /\ Bytes(f.bytes) = {} /\ FlushIsNext(s)
  <2>1. PICK j \in 1..Len(t) : /\ Flushing(t[j])
                               /\ \A i \in 1..(j - 1) : t[i].do = "put" /\ Bytes(t[i].bytes) = {}
    BY <1>15 DEF FlushIsNext
  <2>2. j # 1
    BY <1>4, <1>15, <2>1
  <2>3. 1 \in 1..(j - 1)
    BY <2>2
  <2>4. f.do = "put" /\ Bytes(f.bytes) = {}
    BY <1>4, <2>1, <2>3
  <2>5. PICK k : k = j - 1
    OBVIOUS
  <2>6. k \in 1..Len(s) /\ k + 1 = j
    BY <1>4, <2>2, <2>5
  <2>7. Flushing(s[k])
    BY <1>4, <2>1, <2>6
  <2>8. ASSUME NEW i \in 1..(k - 1) PROVE s[i].do = "put" /\ Bytes(s[i].bytes) = {}
    <3>1. i \in 1..Len(s) /\ i + 1 \in 1..(j - 1)
      BY <1>4, <2>6
    <3> QED
      BY <1>4, <2>1, <3>1
  <2>9. FlushIsNext(s)
    BY <2>6, <2>7, <2>8 DEF FlushIsNext
  <2> QED
    BY <2>4, <2>9
<1> QED
  BY <1>1, <1>3, <1>8, <1>9, <1>10, <1>11, <1>13, <1>14, <1>15

(* Puts of bytes before a stack in which no loop has begun.                *)
LEMMA PuttingRule ==
  ASSUME NEW class, NEW s, Sound(s, class), Quiet(s), ~EntryNext(s), NEW bytes \in Seq(Nat),
         NEW t, t = S!Putting(bytes) \o s
  PROVE  /\ Sound(t, class) /\ Quiet(t) /\ Start(t) = 0 /\ ~EntryNext(t)
         /\ Pending(t) = bytes \o Pending(s)
         /\ FlushIsNext(s) /\ Bytes(bytes) = {} => FlushIsNext(t)
<1>1. s \in Seq(Frames)
  BY DEF Sound
<1>2. CASE bytes = << >>
  <2>1. t = s
    <3>1. S!Putting(bytes) = << >>
      BY <1>2 DEF S!Putting
    <3> QED
      BY <1>1, <3>1, ConcatEmptySeq
  <2>2. Start(s) = 0
    <3>1. s # << >> => 1 \in 1..Len(s)
      BY <1>1, EmptySeq
    <3> QED
      BY <3>1 DEF Start, Quiet
  <2>3. bytes \o Pending(s) = Pending(s)
    BY <1>1, <1>2, PendingParts, ConcatEmptySeq
  <2> QED
    BY <2>1, <2>2, <2>3
<1>3. CASE bytes # << >>
  <2>1. PICK f : f = S!PutFrame(bytes)
    OBVIOUS
  <2>2. f \in Frames /\ f.do = "put" /\ f.bytes = bytes
    BY <2>1, FrameTypes
  <2>3. t = << f >> \o s
    BY <1>3, <2>1 DEF S!Putting
  <2>4. Sound(t, class) /\ Start(t) = 0 /\ Quiet(t)
    <3>1. ~(f.do = "drain") /\ ~(f.do = "entry") /\ f.bytes # << >>
      BY <1>3, <2>2
    <3> QED
      BY <2>2, <2>3, <3>1, PushRule
  <2>5. Pending(t) = PutOf(f) \o Pending(s) /\ t # << >> /\ t[1] = f
    <3>1. f \in Frames
      BY <2>2
    <3> QED
      BY ONLY <1>1, <2>3, <3>1, Before
  <2>6. PutOf(f) = bytes
    BY <2>2 DEF PutOf
  <2>7. ~EntryNext(t)
    BY <2>2, <2>5 DEF EntryNext
  <2>8. FlushIsNext(s) /\ Bytes(bytes) = {} => FlushIsNext(t)
    BY <1>1, <2>2, <2>3, ResetFirst
  <2> QED
    BY <2>4, <2>5, <2>6, <2>7, <2>8
<1> QED
  BY <1>2, <1>3

-----------------------------------------------------------------------------
(* The stream: its bytes.                                                  *)

LEMMA MiddleCut ==
  ASSUME NEW a \in Seq(Nat), NEW m \in Seq(Nat), NEW b \in Seq(Nat), NEW N,
         Carries(a \o (m \o b), N)
  PROVE  Carries(a \o b, N \ Bytes(m)) /\ Bytes(m) \subseteq N
<1>1. Moves3(a, m, b)
  BY Brackets3
<1>2. Carries((a \o m) \o b, N)
  BY <1>1 DEF Moves3
<1> QED
  BY <1>2, Cut

LEMMA MiddleColoured ==
  ASSUME NEW a \in Seq(Nat), NEW m \in Seq(Nat), NEW b \in Seq(Nat), NEW N,
         Bytes(m) = {}, Carries(a \o b, N)
  PROVE  Carries(a \o (m \o b), N)
<1>1. Moves3(a, m, b)
  BY Brackets3
<1>2. Carries((a \o m) \o b, N)
  BY Coloured
<1> QED
  BY <1>1, <1>2 DEF Moves3

(* What is left of a buffer behind a place.                                *)
LEMMA RestOfBuffer ==
  ASSUME NEW buf \in Seq(Nat), NEW at \in Nat
  PROVE  /\ SubSeq(buf, at + 1, Len(buf)) \in Seq(Nat)
         /\ at = 0 => SubSeq(buf, at + 1, Len(buf)) = buf
         /\ at >= Len(buf) => SubSeq(buf, at + 1, Len(buf)) = << >>
<1>1. Len(buf) \in Nat /\ \A i \in 1..Len(buf) : buf[i] \in Nat
  BY LenProperties, ElementOfSeq
<1>2. PICK r : r = SubSeq(buf, at + 1, Len(buf))
  OBVIOUS
<1>3. r \in Seq(Nat) /\ Len(r) = IF at + 1 <= Len(buf) THEN Len(buf) - (at + 1) + 1 ELSE 0
  <2>1. at + 1 \in Int /\ Len(buf) \in Int /\ \A i \in (at + 1)..Len(buf) : buf[i] \in Nat
    BY <1>1
  <2> QED
    BY <1>2, <2>1, SubSeqProperties
<1>4. at = 0 => r = buf
  <2>1. SubSeq(buf, 1, Len(buf)) = buf
    BY SubSeqFull
  <2> QED
    BY <1>2, <2>1
<1>5. ASSUME at >= Len(buf) PROVE r = << >>
  <2>1. Len(r) = 0
    BY <1>1, <1>3, <1>5
  <2> QED
    BY <1>3, <2>1, EmptySeq
<1> QED
  BY <1>2, <1>3, <1>4, <1>5

(* What the invariant says of the fields, and in which order the bytes lie.*)
LEMMA StreamFacts ==
  ASSUME StreamHolds(obj, out)
  PROVE  /\ obj.class \in {"BufferStream", "OutputStream", "Log"} /\ obj.buf \in Seq(Nat)
         /\ obj.stack \in Seq(Frames) /\ obj.severity \in Levels /\ obj.limit \in Int
         /\ obj.terminal \in BOOLEAN
         /\ out.sink \in Seq(Nat) /\ out.level \in Seq(Levels) /\ Len(out.level) \in Nat
         /\ out.hidden \subseteq Nat \X Int /\ out.gone \subseteq Nat /\ out.noroom \subseteq Nat
         /\ Start(obj.stack) \in Nat /\ Left(obj) \in Seq(Nat) /\ Pending(obj.stack) \in Seq(Nat)
         /\ Start(obj.stack) = 0 => Left(obj) = obj.buf
         /\ Carries(out.sink \o (Left(obj) \o Pending(obj.stack)),
                    (1..Len(out.level)) \ Missing(out))
         /\ Missing(out) \subseteq 0..Len(out.level)
         /\ Len(obj.buf) \in Nat
<1>1. obj \in Streams /\ out \in Outsides /\ Kept(obj, out)
  BY DEF StreamHolds
<1>2. /\ obj.class \in {"BufferStream", "OutputStream", "Log"} /\ obj.buf \in Seq(Nat)
      /\ obj.stack \in Seq(Frames) /\ obj.severity \in Levels /\ obj.limit \in Int
      /\ obj.terminal \in BOOLEAN
  BY <1>1 DEF Streams
<1>3. /\ out.sink \in Seq(Nat) /\ out.level \in Seq(Levels)
      /\ out.hidden \subseteq Nat \X Int /\ out.gone \subseteq Nat /\ out.noroom \subseteq Nat
  BY <1>1 DEF Outsides
<1>4. Len(out.level) \in Nat /\ Len(obj.buf) \in Nat
  BY <1>2, <1>3, LenProperties
<1>5. Start(obj.stack) \in Nat
  <2>1. obj.stack # << >> => 1 \in 1..Len(obj.stack)
    BY <1>2, EmptySeq
  <2>2. obj.stack # << >> => obj.stack[1] \in Frames
    BY <1>2, <2>1, ElementOfSeq
  <2> QED
    BY <2>2, FrameRule DEF Start
<1>6. Left(obj) \in Seq(Nat) /\ (Start(obj.stack) = 0 => Left(obj) = obj.buf)
  BY <1>2, <1>5, RestOfBuffer DEF Left
<1>7. Pending(obj.stack) \in Seq(Nat)
  BY <1>2, PendingParts
<1> QED
  BY <1>1, <1>2, <1>3, <1>4, <1>5, <1>6, <1>7 DEF Kept

(* The levels of earlier bytes stay.                                       *)
LEMMA LevelsGrow ==
  ASSUME NEW lv \in Seq(Levels), NEW e \in Seq(Levels)
  PROVE  /\ lv \o e \in Seq(Levels) /\ Len(lv \o e) = Len(lv) + Len(e)
         /\ \A b \in 1..Len(lv) : b \in 1..Len(lv \o e) /\ (lv \o e)[b] = lv[b]
         /\ \A i \in 1..Len(e) : Len(lv) + i \in 1..Len(lv \o e) /\ (lv \o e)[Len(lv) + i] = e[i]
  BY Places, Joined

(* No call is in progress at first.                                        *)
LEMMA NoFrames ==
  /\ << >> \in Seq(Frames) /\ Pending(<< >>) = << >> /\ Start(<< >>) = 0
  /\ ~FlushIsNext(<< >>) /\ ~EntryNext(<< >>) /\ Quiet(<< >>)
  /\ \A class : Sound(<< >>, class)
<1>1. << >> \in Seq(Frames) /\ Len(<< >>) = 0
  BY EmptySeq
<1>2. 1..Len(<< >>) = {}
  BY <1>1
<1> QED
  BY <1>1, <1>2, PendingOfNone DEF Start, FlushIsNext, EntryNext, Quiet, Sound

LEMMA StreamInit ==
  ASSUME S!StreamAssumption, S!Init
  PROVE  StreamHolds(obj, out) /\ status = "stream"
<1>1. PICK class \in Classes :
        obj = [class |-> class, buf |-> << >>, stack |-> << >>,
               severity |-> TopLevel, limit |-> TopLevel - 1, terminal |-> TRUE]
  BY DEF S!Init
<1>2. /\ out = [sink |-> << >>, level |-> << >>, hidden |-> {}, gone |-> {}, noroom |-> {},
             filling |-> {}]
      /\ status = "stream"
  BY DEF S!Init
<1>3. << >> \in Seq(Nat) /\ << >> \in Seq(Levels) /\ << >> \in Seq(Frames) /\ Len(<< >>) = 0
  BY EmptySeq
<1>4. TopLevel \in Nat /\ Capacity \in Nat \ {0, 1} /\ class \in {"BufferStream", "OutputStream", "Log"}
  BY DEF S!StreamAssumption
<1>5. TopLevel \in Levels /\ TopLevel - 1 \in Int
  BY <1>4 DEF Levels
<1>6. obj \in Streams
  BY <1>1, <1>3, <1>4, <1>5 DEF Streams
<1>7. out \in Outsides
  BY <1>2, <1>3 DEF Outsides
<1>8. obj.stack = << >> /\ obj.buf = << >> /\ out.sink = << >> /\ out.level = << >>
      /\ out.hidden = {} /\ out.gone = {} /\ out.noroom = {} /\ out.filling = {}
  BY <1>1, <1>2
<1>9. Left(obj) = << >>
  <2>1. SubSeq(<< >>, 0 + 1, Len(<< >>)) = << >>
    BY <1>3, RestOfBuffer
  <2> QED
    BY <1>8, <2>1, NoFrames DEF Left
<1>10. Bytes(<< >>) = {} /\ Increasing(<< >>)
  BY <1>3 DEF Bytes, Increasing
<1>11. Left(obj) \o Pending(obj.stack) = << >> /\ out.sink \o << >> = << >>
  BY <1>3, <1>8, <1>9, NoFrames, ConcatEmptySeq
<1>12. Missing(out) = {}
  BY <1>8 DEF Missing, Hidden
<1>13. Kept(obj, out)
  <2>1. out.sink \o (Left(obj) \o Pending(obj.stack)) = << >>
    BY <1>11
  <2>2. Len(out.level) = 0
    BY <1>3, <1>8
  <2>3. (1..Len(out.level)) \ Missing(out) = {}
    BY <2>2
  <2>4. Carries(<< >>, {})
    BY <1>3, <1>10 DEF Carries
  <2> QED
    BY <1>12, <2>1, <2>3, <2>4 DEF Kept
<1>14. InTime(obj)
  BY <1>3, <1>4, <1>8 DEF InTime
<1>15. OneSeverity(obj, out)
  BY <1>10, <1>11 DEF OneSeverity
<1>16. RightlyHidden(out)
  BY <1>8 DEF RightlyHidden
<1> QED
  BY <1>2, <1>6, <1>7, <1>8, <1>13, <1>14, <1>15, <1>16, NoFrames DEF StreamHolds

(* New bytes are written, with the severity of the stream, to which it is  *)
(* only changed while the buffer is empty.                                 *)
Writes(n, frames, severity) ==
  /\ obj' = [obj EXCEPT !.stack = S!Putting(S!Fresh(n)) \o frames, !.severity = severity]
  /\ out' = [out EXCEPT !.level = out.level \o [i \in 1..n |-> severity]]

LEMMA WrittenKeeps ==
  ASSUME S!StreamAssumption, StreamHolds(obj, out), Start(obj.stack) = 0,
         Pending(obj.stack) = << >>,
         Len(obj.buf) + 1 < Capacity \/ obj.class = "BufferStream",
         NEW n \in Nat, NEW e, e = S!Fresh(n),
         NEW frames, Sound(frames, obj.class), Quiet(frames), ~EntryNext(frames),
         Pending(frames) = << >>,
         NEW severity \in Levels, severity = obj.severity \/ obj.buf = << >>,
         Writes(n, frames, severity)
  PROVE  StreamHolds(obj', out')
<1>1. /\ obj.buf \in Seq(Nat) /\ out.sink \in Seq(Nat) /\ out.level \in Seq(Levels)
      /\ Len(out.level) \in Nat /\ Left(obj) = obj.buf
      /\ Carries(out.sink \o (obj.buf \o << >>), (1..Len(out.level)) \ Missing(out))
      /\ Missing(out) \subseteq 0..Len(out.level)
  <2>1. /\ obj.buf \in Seq(Nat) /\ out.sink \in Seq(Nat) /\ out.level \in Seq(Levels)
        /\ Len(out.level) \in Nat
        /\ Start(obj.stack) = 0 => Left(obj) = obj.buf
        /\ Carries(out.sink \o (Left(obj) \o Pending(obj.stack)),
                   (1..Len(out.level)) \ Missing(out))
        /\ Missing(out) \subseteq 0..Len(out.level)
    BY StreamFacts
  <2> QED
    BY <2>1
<1>2. PICK lv, x : lv = out.level /\ x = [i \in 1..n |-> severity]
  OBVIOUS
<1>3. x \in Seq(Levels) /\ Len(x) = n /\ \A i \in 1..n : x[i] = severity
  <2>1. \A i \in 1..n : severity \in Levels
    OBVIOUS
  <2> QED
    BY <1>2, <2>1
<1>4. PICK m : m = Len(lv)
  OBVIOUS
<1>5. m \in Nat
  BY <1>1, <1>2, <1>4
<1>6. /\ lv \o x \in Seq(Levels) /\ Len(lv \o x) = m + n
      /\ \A b \in 1..m : b \in 1..Len(lv \o x) /\ (lv \o x)[b] = lv[b]
      /\ \A i \in 1..n : m + i \in 1..Len(lv \o x) /\ (lv \o x)[m + i] = severity
  <2>1. /\ lv \o x \in Seq(Levels) /\ Len(lv \o x) = Len(lv) + Len(x)
        /\ \A b \in 1..Len(lv) : b \in 1..Len(lv \o x) /\ (lv \o x)[b] = lv[b]
        /\ \A i \in 1..Len(x) : Len(lv) + i \in 1..Len(lv \o x) /\ (lv \o x)[Len(lv) + i] = x[i]
    BY <1>1, <1>2, <1>3, LevelsGrow
  <2> QED
    BY <1>3, <1>4, <2>1
<1>7. PICK w : w = lv \o x
  OBVIOUS
<1>8. PICK s : s = out.sink \o obj.buf
  OBVIOUS
<1>9. PICK N : N = (1..m) \ Missing(out)
  OBVIOUS
<1>10. Carries(s, N) /\ N \subseteq 1..m
  BY <1>1, <1>2, <1>4, <1>8, <1>9, ConcatEmptySeq
<1>11. /\ e \in Seq(Nat) /\ Bytes(e) = (m + 1)..(m + n) /\ Carries(s \o e, N \cup ((m + 1)..(m + n)))
  <2>1. e = Numbered(m, n)
    BY <1>2, <1>4 DEF S!Fresh, Numbered
  <2>2. n \in Nat /\ m \in Nat /\ N \subseteq 1..m /\ Carries(s, N)
    BY <1>5, <1>10
  <2>3. e \in Seq(Nat) /\ Bytes(e) = (m + 1)..(m + n)
    BY ONLY <2>1, <2>2, NumberedRule
  <2>4. Carries(s \o e, N \cup ((m + 1)..(m + n)))
    BY ONLY <2>1, <2>2, Continued
  <2> QED
    BY <2>3, <2>4
<1>12. PICK t : t = S!Putting(e) \o frames
  OBVIOUS
<1>13. /\ Sound(t, obj.class) /\ Quiet(t) /\ Start(t) = 0 /\ ~EntryNext(t) /\ Pending(t) = e
  <2>1. /\ Sound(t, obj.class) /\ Quiet(t) /\ Start(t) = 0 /\ ~EntryNext(t)
        /\ Pending(t) = e \o Pending(frames)
    <3>1. e \in Seq(Nat) /\ Sound(frames, obj.class) /\ Quiet(frames) /\ ~EntryNext(frames)
      BY <1>11
    <3> QED
      BY ONLY <1>12, <3>1, PuttingRule
  <2> QED
    BY <1>11, <2>1, ConcatEmptySeq
<1>14. obj \in Streams /\ out \in Outsides
  BY DEF StreamHolds
<1>15. /\ obj'.stack = t /\ obj'.severity = severity /\ obj'.buf = obj.buf
       /\ obj'.class = obj.class
       /\ obj' \in Streams
  <2>1. t \in Seq(Frames)
    BY <1>13 DEF Sound
  <2> QED
    BY <1>12, <1>14, <2>1 DEF Streams, Writes
<1>16. /\ out'.level = w /\ out'.sink = out.sink /\ out'.hidden = out.hidden
       /\ out'.gone = out.gone /\ out'.noroom = out.noroom /\ out'.filling = out.filling
       /\ out' \in Outsides
  BY <1>2, <1>6, <1>7, <1>14 DEF Outsides, Writes
<1>17. Left(obj') = obj.buf
  BY <1>1, <1>13, <1>15, RestOfBuffer DEF Left
<1>18. Missing(out') = Missing(out)
  BY <1>16 DEF Missing, Hidden
<1>19. Kept(obj', out')
  <2>1. Moves3(out.sink, obj.buf, e)
    BY <1>1, <1>11, Brackets3
  <2>2. out.sink \o (obj.buf \o e) = s \o e
    BY <1>8, <2>1 DEF Moves3
  <2>3. out'.sink \o (Left(obj') \o Pending(obj'.stack)) = s \o e
    BY <1>13, <1>15, <1>16, <1>17, <2>2
  <2>4. Len(out'.level) = m + n
    BY <1>6, <1>7, <1>16
  <2>5. (1..(m + n)) \ Missing(out) = N \cup ((m + 1)..(m + n))
    BY <1>1, <1>2, <1>4, <1>5, <1>9
  <2>6. Missing(out) \subseteq 0..(m + n)
    BY <1>1, <1>2, <1>4, <1>5
  <2> QED
    BY <1>11, <1>18, <2>3, <2>4, <2>5, <2>6 DEF Kept
<1>20. InTime(obj')
  <2>1. Len(obj.buf) \in Nat /\ Capacity \in Nat
    BY <1>1, LenProperties DEF S!StreamAssumption
  <2> QED
    BY <1>13, <1>15, <2>1 DEF InTime
<1>21. OneSeverity(obj', out')
  <2> SUFFICES ASSUME NEW b \in Bytes(obj.buf \o e) PROVE b \in 1..Len(w) /\ w[b] = severity
    BY <1>13, <1>15, <1>16, <1>17 DEF OneSeverity
  <2>1. b \in Bytes(obj.buf) \/ b \in Bytes(e)
    <3>1. obj.buf \in Seq(Nat) /\ e \in Seq(Nat)
      BY <1>1, <1>11
    <3>2. Bytes(obj.buf \o e) = Bytes(obj.buf) \cup Bytes(e)
      BY ONLY <3>1, BytesOfJoined
    <3> QED
      BY <3>2
  <2>2. CASE b \in Bytes(obj.buf)
    <3>1. obj.buf # << >>
      <4>1. Bytes(<< >>) = {}
        BY EmptySeq DEF Bytes
      <4> QED
        BY <2>2, <4>1
    <3>2. b \in Bytes(Left(obj) \o Pending(obj.stack))
      BY <1>1, <2>2, ConcatEmptySeq
    <3>3. b \in 1..Len(out.level) /\ out.level[b] = obj.severity
      BY <3>2 DEF StreamHolds, OneSeverity
    <3> QED
      BY <1>2, <1>4, <1>6, <1>7, <3>1, <3>3
  <2>3. CASE b \in Bytes(e)
    <3>1. b - m \in 1..n /\ m + (b - m) = b
      BY <1>5, <1>11, <2>3
    <3> QED
      BY <1>6, <1>7, <3>1
  <2> QED
    BY <2>1, <2>2, <2>3
<1>22. RightlyHidden(out')
  <2> SUFFICES ASSUME NEW h \in out.hidden
               PROVE  h[1] \in 1..Len(w) /\ (w[h[1]] > h[2] \/ w[h[1]] = 0)
    BY <1>16 DEF RightlyHidden
  <2>1. h[1] \in 1..Len(out.level) /\ (out.level[h[1]] > h[2] \/ out.level[h[1]] = 0)
    BY DEF StreamHolds, RightlyHidden
  <2>2. h[1] \in 1..Len(w) /\ w[h[1]] = lv[h[1]]
    BY <1>2, <1>4, <1>6, <1>7, <2>1
  <2> QED
    BY <1>2, <2>1, <2>2
<1>23. obj'.class # "BufferStream" => out'.noroom \subseteq {0} \cup out'.filling
  BY <1>15, <1>16 DEF StreamHolds
<1> QED
  BY <1>13, <1>15, <1>16, <1>19, <1>20, <1>21, <1>22, <1>23 DEF StreamHolds

(* The buffer is emptied, and what was left of it is accounted for.        *)
LEMMA GivenUpKeeps ==
  ASSUME S!StreamAssumption, StreamHolds(obj, out),
         NEW s, Sound(s, obj.class), Start(s) = 0, Pending(s) = Pending(obj.stack),
         obj' = [obj EXCEPT !.buf = << >>, !.stack = s],
         out' \in Outsides, out'.sink = out.sink, out'.level = out.level,
         out'.noroom = out.noroom, out'.filling = out.filling, RightlyHidden(out'),
         Missing(out') \ {0} = (Missing(out) \cup Bytes(Left(obj))) \ {0}
  PROVE  StreamHolds(obj', out')
<1>1. PICK p, l : p = Pending(s) /\ l = Left(obj)
  OBVIOUS
<1>2. PICK n : n = Len(out.level)
  OBVIOUS
<1>3. /\ out.sink \in Seq(Nat) /\ n \in Nat /\ l \in Seq(Nat) /\ p \in Seq(Nat)
      /\ Carries(out.sink \o (l \o p), (1..n) \ Missing(out)) /\ Missing(out) \subseteq 0..n
  BY <1>1, <1>2, StreamFacts
<1>4. obj \in Streams
  BY DEF StreamHolds
<1>5. /\ obj'.stack = s /\ obj'.severity = obj.severity /\ obj'.buf = << >>
      /\ obj'.class = obj.class /\ obj' \in Streams
  <2>1. s \in Seq(Frames) /\ << >> \in Seq(Nat)
    BY EmptySeq DEF Sound
  <2> QED
    BY <1>4, <2>1 DEF Streams
<1>6. Left(obj') = << >>
  <2>1. << >> \in Seq(Nat)
    BY EmptySeq
  <2> QED
    BY <1>5, <2>1, RestOfBuffer DEF Left
<1>7. Left(obj') \o Pending(obj'.stack) = p
  BY <1>1, <1>3, <1>5, <1>6, ConcatEmptySeq
<1>8. Carries(out.sink \o p, ((1..n) \ Missing(out)) \ Bytes(l))
      /\ Bytes(l) \subseteq (1..n) \ Missing(out)
  <2>1. PICK N, a : N = (1..n) \ Missing(out) /\ a = out.sink
    OBVIOUS
  <2>2. a \in Seq(Nat) /\ l \in Seq(Nat) /\ p \in Seq(Nat) /\ Carries(a \o (l \o p), N)
    BY <1>3, <2>1
  <2>3. Carries(a \o p, N \ Bytes(l)) /\ Bytes(l) \subseteq N
    BY ONLY <2>2, MiddleCut
  <2> QED
    BY <2>1, <2>3
<1>9. Kept(obj', out')
  <2>1. (1..n) \ Missing(out') = ((1..n) \ Missing(out)) \ Bytes(l)
    BY <1>1
  <2>2. Missing(out') \subseteq 0..n
    BY <1>1, <1>3, <1>8
  <2> QED
    BY <1>2, <1>7, <1>8, <2>1, <2>2 DEF Kept
<1>10. InTime(obj')
  <2>1. Len(<< >>) + 1 < Capacity /\ Capacity \in Nat /\ Len(<< >>) = 0
    BY EmptySeq DEF S!StreamAssumption
  <2> QED
    BY <1>5, <2>1 DEF InTime
<1>11. OneSeverity(obj', out')
  <2>1. Bytes(l \o p) = Bytes(l) \cup Bytes(p)
    BY <1>3, BytesOfJoined
  <2>2. Bytes(p) \subseteq Bytes(Left(obj) \o Pending(obj.stack))
    BY <1>1, <2>1
  <2> QED
    BY <1>5, <1>7, <2>2 DEF StreamHolds, OneSeverity
<1>12. obj'.class # "BufferStream" => out'.noroom \subseteq {0} \cup out'.filling
  BY <1>5 DEF StreamHolds
<1> QED
  BY <1>5, <1>9, <1>10, <1>11, <1>12 DEF StreamHolds

(* The frames change, and no byte moves.                                   *)
LEMMA FramesKeep ==
  ASSUME StreamHolds(obj, out),
         NEW s, Sound(s, obj.class), Start(s) = Start(obj.stack),
         Pending(s) = Pending(obj.stack),
         FlushIsNext(s) \/ obj.class = "BufferStream", ~EntryNext(s),
         obj' = [obj EXCEPT !.stack = s], out' = out
  PROVE  StreamHolds(obj', out')
<1>1. obj \in Streams
  BY DEF StreamHolds
<1>2. /\ obj'.stack = s /\ obj'.severity = obj.severity /\ obj'.buf = obj.buf
      /\ obj'.class = obj.class /\ obj' \in Streams
  <2>1. s \in Seq(Frames)
    BY DEF Sound
  <2> QED
    BY <1>1, <2>1 DEF Streams
<1>3. Left(obj') = Left(obj)
  BY <1>2 DEF Left
<1>4. Kept(obj', out')
  BY <1>2, <1>3 DEF StreamHolds, Kept
<1>5. InTime(obj')
  BY <1>2 DEF InTime
<1>6. OneSeverity(obj', out')
  BY <1>2, <1>3 DEF StreamHolds, OneSeverity
<1> QED
  BY <1>2, <1>4, <1>5, <1>6 DEF StreamHolds

-----------------------------------------------------------------------------
(* The stream: what its actions do.                                        *)

(* The frames a caller leaves behind what it writes.                       *)
LEMMA CallersFrames ==
  ASSUME NEW class
  PROVE  /\ LET f == << S!FlushFrame >>
            IN Sound(f, class) /\ Quiet(f) /\ ~EntryNext(f) /\ Pending(f) = << >>
         /\ \A level \in Levels :
              LET f == << S!FlushFrame, S!EntryFrame(level) >>
              IN class = "Log" =>
                   Sound(f, class) /\ Quiet(f) /\ ~EntryNext(f) /\ Pending(f) = << >>
<1>1. PICK flush : flush = S!FlushFrame
  OBVIOUS
<1>2. flush \in Frames /\ flush.do = "flush"
  BY <1>1, FrameTypes
<1>3. PICK none : none = << >>
  OBVIOUS
<1>4. none \in Seq(Frames) /\ Sound(none, class) /\ Quiet(none) /\ ~EntryNext(none)
      /\ Pending(none) = << >>
  BY <1>3, NoFrames
<1>5. PutOf(flush) = << >> /\ Flushing(flush)
  BY <1>2 DEF PutOf, Flushing
<1>6. << >> \in Seq(Nat) /\ << >> \o << >> = << >>
  BY EmptySeq, ConcatEmptySeq
<1>7. ASSUME NEW s, Sound(s, class), Quiet(s), Pending(s) = << >>, NEW t, t = << flush >> \o s
      PROVE  Sound(t, class) /\ Quiet(t) /\ ~EntryNext(t) /\ Pending(t) = << >>
  <2>1. s \in Seq(Frames)
    BY <1>7 DEF Sound
  <2>2. Sound(t, class) /\ Quiet(t)
    <3>1. ~(flush.do = "put") /\ ~(flush.do = "entry") /\ ~(flush.do = "drain")
      BY <1>2
    <3> QED
      BY <1>2, <1>5, <1>7, <3>1, PushRule
  <2>3. t # << >> /\ t[1] = flush /\ Pending(t) = PutOf(flush) \o Pending(s)
    BY <1>2, <1>7, <2>1, Before
  <2>4. ~EntryNext(t)
    BY <1>2, <2>3 DEF EntryNext
  <2> QED
    BY <1>5, <1>6, <1>7, <2>2, <2>3, <2>4
<1>8. << flush >> = << flush >> \o none
  BY <1>2, <1>3, ConcatEmptySeq
<1>9. Sound(<< flush >>, class) /\ Quiet(<< flush >>) /\ ~EntryNext(<< flush >>)
      /\ Pending(<< flush >>) = << >>
  BY <1>4, <1>7, <1>8
<1>10. ASSUME NEW level \in Levels, class = "Log", NEW f, f = << S!FlushFrame, S!EntryFrame(level) >>
       PROVE  Sound(f, class) /\ Quiet(f) /\ ~EntryNext(f) /\ Pending(f) = << >>
  <2>1. PICK entry : entry = S!EntryFrame(level)
    OBVIOUS
  <2>2. entry \in Frames /\ entry.do = "entry"
    BY <2>1, FrameTypes
  <2>3. PICK s : s = << entry >> \o none
    OBVIOUS
  <2>4. Sound(s, class) /\ Quiet(s)
    <3>1. ~(entry.do = "put") /\ ~(entry.do = "drain")
      BY <2>2
    <3> QED
      BY <1>3, <1>4, <1>10, <2>2, <2>3, <3>1, PushRule
  <2>5. Pending(s) = PutOf(entry) \o Pending(none)
    BY <1>4, <2>2, <2>3, Before
  <2>6. PutOf(entry) = << >>
    BY <2>2 DEF PutOf
  <2>7. Pending(s) = << >>
    BY <1>4, <1>6, <2>5, <2>6
  <2>8. s = << entry >>
    BY <1>3, <2>2, <2>3, ConcatEmptySeq
  <2>9. f = << flush >> \o s
    BY <1>1, <1>10, <2>1, <2>8
  <2> QED
    BY <1>7, <2>4, <2>7, <2>9
<1> QED
  BY <1>1, <1>9, <1>10

(* Where no call is in progress, the buffer has room.                      *)
LEMMA CallsKeep ==
  ASSUME S!StreamAssumption, StreamHolds(obj, out), S!Idle, NEW n \in Nat,
         NEW frames, Sound(frames, obj.class), Quiet(frames), ~EntryNext(frames),
         Pending(frames) = << >>, S!Calls(n, frames)
  PROVE  StreamHolds(obj', out')
<1>1. obj.stack = << >>
  BY DEF S!Idle
<1>2. Start(obj.stack) = 0 /\ Pending(obj.stack) = << >> /\ ~FlushIsNext(obj.stack)
  BY <1>1, NoFrames
<1>3. Len(obj.buf) \in Nat /\ obj.severity \in Levels
  BY StreamFacts
<1>4. Len(obj.buf) + 1 < Capacity \/ obj.class = "BufferStream"
  <2>1. Capacity \in Nat
    BY DEF S!StreamAssumption
  <2> QED
    BY <1>2, <1>3, <2>1 DEF StreamHolds, InTime
<1>5. PICK e, severity : e = S!Fresh(n) /\ severity = obj.severity
  OBVIOUS
<1>6. Writes(n, frames, severity)
  <2>1. obj \in Streams
    BY DEF StreamHolds
  <2>2. [obj EXCEPT !.stack = S!Putting(S!Fresh(n)) \o frames]
          = [obj EXCEPT !.stack = S!Putting(S!Fresh(n)) \o frames, !.severity = severity]
    BY <1>5, <2>1 DEF Streams
  <2> QED
    BY <1>5, <2>2 DEF S!Calls, Writes
<1> QED
  BY <1>2, <1>3, <1>4, <1>5, <1>6, WrittenKeeps

LEMMA CallersKeep ==
  ASSUME S!StreamAssumption, StreamHolds(obj, out)
  PROVE  /\ \A n \in Texts : S!Write(n) \/ S!WriteAndFlush(n) => StreamHolds(obj', out')
         /\ S!Flush => StreamHolds(obj', out')
         /\ \A level \in 0..TopLevel : S!Entry(level) => StreamHolds(obj', out')
<1>1. Sound(<< >>, obj.class) /\ Quiet(<< >>) /\ ~EntryNext(<< >>) /\ Pending(<< >>) = << >>
  BY NoFrames
<1>2. /\ Sound(<< S!FlushFrame >>, obj.class) /\ Quiet(<< S!FlushFrame >>)
      /\ ~EntryNext(<< S!FlushFrame >>) /\ Pending(<< S!FlushFrame >>) = << >>
  BY CallersFrames
<1>3. ASSUME NEW n \in Texts, S!Write(n) PROVE StreamHolds(obj', out')
  <2>1. n \in Nat /\ S!Idle /\ S!Calls(n, << >>)
    BY <1>3 DEF S!Write, S!StreamAssumption
  <2> QED
    BY <1>1, <2>1, CallsKeep
<1>4. ASSUME NEW n \in Texts, S!WriteAndFlush(n) PROVE StreamHolds(obj', out')
  <2>1. n \in Nat /\ S!Idle /\ S!Calls(n, << S!FlushFrame >>)
    BY <1>4 DEF S!WriteAndFlush, S!StreamAssumption
  <2> QED
    BY <1>2, <2>1, CallsKeep
<1>5. ASSUME S!Flush PROVE StreamHolds(obj', out')
  <2>1. 0 \in Nat /\ S!Idle /\ S!Calls(0, << S!FlushFrame >>)
    BY <1>5 DEF S!Flush
  <2> QED
    BY <1>2, <2>1, CallsKeep
<1>6. ASSUME NEW level \in 0..TopLevel, S!Entry(level) PROVE StreamHolds(obj', out')
  <2>1. PICK f : f = << S!FlushFrame, S!EntryFrame(level) >>
    OBVIOUS
  <2>2. 0 \in Nat /\ S!Idle /\ S!Calls(0, f) /\ obj.class = "Log"
    BY <1>6, <2>1 DEF S!Entry, S!IsLog
  <2>3. level \in Levels
    BY DEF Levels
  <2>4. Sound(f, obj.class) /\ Quiet(f) /\ ~EntryNext(f) /\ Pending(f) = << >>
    BY <2>1, <2>2, <2>3, CallersFrames
  <2> QED
    BY <2>2, <2>4, CallsKeep
<1> QED
  BY <1>3, <1>4, <1>5, <1>6

(* Callers write n bytes, of which c go into the buffer at once and d find *)
(* no room; those on their way into the buffer are in the frames t.        *)
Accepts(n, c, d, t, fill) ==
  /\ obj' = [obj EXCEPT !.buf = obj.buf \o c, !.stack = t]
  /\ out' = [out EXCEPT !.level = out.level \o [i \in 1..n |-> obj.severity],
                        !.filling = out.filling \cup fill,
                        !.noroom = out.noroom \cup S!ToSet(d)]

(* Only a stream that cannot flush lacks room for more than the filling.   *)
FlushesInTime(c, d, t, fill) ==
  obj.class # "BufferStream" =>
    /\ S!ToSet(d) \subseteq fill
    /\ Len(obj.buf \o c) + 1 < Capacity \/ FlushIsNext(t)

LEMMA AcceptedKeeps ==
  ASSUME S!StreamAssumption, StreamHolds(obj, out), obj.stack = << >>, NEW n \in Nat,
         NEW e, e = S!Fresh(n),
         NEW c \in Seq(Nat), NEW q \in Seq(Nat), NEW d \in Seq(Nat), e = c \o (q \o d),
         NEW t, Sound(t, obj.class), Start(t) = 0, ~EntryNext(t), Pending(t) = q,
         NEW fill \in SUBSET Nat, Accepts(n, c, d, t, fill), FlushesInTime(c, d, t, fill)
  PROVE  StreamHolds(obj', out')
<1>1. /\ obj.buf \in Seq(Nat) /\ out.sink \in Seq(Nat) /\ out.level \in Seq(Levels)
      /\ Len(out.level) \in Nat /\ Left(obj) = obj.buf /\ obj.severity \in Levels
      /\ Carries(out.sink \o (obj.buf \o << >>), (1..Len(out.level)) \ Missing(out))
      /\ Missing(out) \subseteq 0..Len(out.level) /\ out.noroom \subseteq Nat
  <2>1. /\ obj.buf \in Seq(Nat) /\ out.sink \in Seq(Nat) /\ out.level \in Seq(Levels)
        /\ Len(out.level) \in Nat /\ obj.severity \in Levels
        /\ Start(obj.stack) = 0 => Left(obj) = obj.buf
        /\ Carries(out.sink \o (Left(obj) \o Pending(obj.stack)),
                   (1..Len(out.level)) \ Missing(out))
        /\ Missing(out) \subseteq 0..Len(out.level) /\ out.noroom \subseteq Nat
    BY StreamFacts
  <2>2. Start(obj.stack) = 0 /\ Pending(obj.stack) = << >>
    BY NoFrames
  <2> QED
    BY <2>1, <2>2
<1>2. PICK lv, severity, x : lv = out.level /\ severity = obj.severity
                             /\ x = [i \in 1..n |-> severity]
  OBVIOUS
<1>3. x \in Seq(Levels) /\ Len(x) = n /\ \A i \in 1..n : x[i] = severity
  <2>1. \A i \in 1..n : severity \in Levels
    BY <1>1, <1>2
  <2>2. n \in Nat /\ x = [i \in 1..n |-> severity]
    BY <1>2
  <2> QED
    BY ONLY <2>1, <2>2
<1>4. PICK m, w : m = Len(lv) /\ w = lv \o x
  OBVIOUS
<1>5. m \in Nat
  BY <1>1, <1>2, <1>4
<1>6. /\ w \in Seq(Levels) /\ Len(w) = m + n
      /\ \A b \in 1..m : b \in 1..Len(w) /\ w[b] = lv[b]
      /\ \A i \in 1..n : m + i \in 1..Len(w) /\ w[m + i] = severity
  <2>1. /\ lv \o x \in Seq(Levels) /\ Len(lv \o x) = Len(lv) + Len(x)
        /\ \A b \in 1..Len(lv) : b \in 1..Len(lv \o x) /\ (lv \o x)[b] = lv[b]
        /\ \A i \in 1..Len(x) : Len(lv) + i \in 1..Len(lv \o x) /\ (lv \o x)[Len(lv) + i] = x[i]
    BY <1>1, <1>2, <1>3, LevelsGrow
  <2> QED
    BY <1>3, <1>4, <2>1
<1>7. PICK s, b, N : s = out.sink \o obj.buf /\ b = obj.buf \o c /\ N = (1..m) \ Missing(out)
  OBVIOUS
<1>8. Carries(s, N) /\ N \subseteq 1..m /\ s \in Seq(Nat) /\ b \in Seq(Nat) /\ s \o c \in Seq(Nat)
  BY <1>1, <1>2, <1>4, <1>7, ConcatEmptySeq, ConcatProperties
<1>9. /\ e \in Seq(Nat) /\ Bytes(e) = (m + 1)..(m + n) /\ Carries(s \o e, N \cup ((m + 1)..(m + n)))
  <2>1. e = Numbered(m, n)
    BY <1>2, <1>4 DEF S!Fresh, Numbered
  <2>2. n \in Nat /\ m \in Nat /\ N \subseteq 1..m /\ Carries(s, N)
    BY <1>5, <1>8
  <2>3. e \in Seq(Nat) /\ Bytes(e) = (m + 1)..(m + n)
    BY ONLY <2>1, <2>2, NumberedRule
  <2>4. Carries(s \o e, N \cup ((m + 1)..(m + n)))
    BY ONLY <2>1, <2>2, Continued
  <2> QED
    BY <2>3, <2>4
<1>10. Bytes(e) = Bytes(c) \cup (Bytes(q) \cup Bytes(d))
  <2>1. PICK y : y = q \o d
    OBVIOUS
  <2>2. y \in Seq(Nat) /\ Bytes(y) = Bytes(q) \cup Bytes(d)
    BY <2>1, ConcatProperties, BytesOfJoined
  <2>3. Bytes(c \o y) = Bytes(c) \cup Bytes(y)
    BY <2>2, BytesOfJoined
  <2> QED
    BY <2>1, <2>2, <2>3
<1>11. PICK M : M = N \cup ((m + 1)..(m + n))
  OBVIOUS
<1>12. Carries((s \o c) \o q, M \ Bytes(d)) /\ Bytes(d) \subseteq M
  <2>1. PICK a, z : a = (s \o c) \o q /\ z = << >>
    OBVIOUS
  <2>2. a \in Seq(Nat) /\ q \o d \in Seq(Nat) /\ z \in Seq(Nat) /\ a \o z = a /\ d \o z = d
    BY <1>8, <2>1, ConcatProperties, ConcatEmptySeq, EmptySeq
  <2>3. Moves3(s, c, q \o d) /\ Moves3(s \o c, q, d)
    BY <1>8, <2>2, Brackets3
  <2>4. s \o e = a \o (d \o z)
    BY <2>1, <2>2, <2>3 DEF Moves3
  <2>5. d \in Seq(Nat) /\ Carries(a \o (d \o z), M)
    BY <1>9, <1>11, <2>4
  <2>6. Carries(a \o z, M \ Bytes(d)) /\ Bytes(d) \subseteq M
    BY ONLY <2>2, <2>5, MiddleCut
  <2> QED
    BY <2>1, <2>2, <2>6
<1>13. out.sink \o (b \o q) = (s \o c) \o q
  <2>1. Moves3(out.sink, b, q) /\ Moves3(out.sink, obj.buf, c)
    BY <1>1, <1>8, Brackets3
  <2> QED
    BY <1>7, <2>1 DEF Moves3
<1>14. S!ToSet(d) \subseteq Nat /\ S!ToSet(d) \ {0} = Bytes(d)
  BY SetOfBytes
<1>15. obj \in Streams /\ out \in Outsides
  BY DEF StreamHolds
<1>16. /\ obj'.stack = t /\ obj'.severity = severity /\ obj'.buf = b /\ obj'.class = obj.class
       /\ obj' \in Streams
  <2>1. t \in Seq(Frames)
    BY DEF Sound
  <2> QED
    BY <1>2, <1>7, <1>8, <1>15, <2>1 DEF Streams, Accepts
<1>17. PICK no, fl : no = out.noroom \cup S!ToSet(d) /\ fl = out.filling \cup fill
  OBVIOUS
<1>18. /\ out'.level = w /\ out'.sink = out.sink /\ out'.hidden = out.hidden
       /\ out'.gone = out.gone /\ out'.noroom = no /\ out'.filling = fl /\ out' \in Outsides
  <2>1. out' = [out EXCEPT !.level = w, !.filling = fl, !.noroom = no]
    BY <1>2, <1>4, <1>17 DEF Accepts
  <2>2. w \in Seq(Levels) /\ fl \subseteq Nat /\ no \subseteq Nat
    <3>1. out.filling \subseteq Nat
      BY <1>15 DEF Outsides
    <3> QED
      BY <1>1, <1>6, <1>14, <1>17, <3>1
  <2> QED
    BY <1>15, <2>1, <2>2 DEF Outsides
<1>19. Left(obj') = b
  BY <1>8, <1>16, RestOfBuffer DEF Left
<1>20. Missing(out') = Missing(out) \cup S!ToSet(d)
  BY <1>17, <1>18 DEF Missing, Hidden
<1>21. Kept(obj', out')
  <2>1. out'.sink \o (Left(obj') \o Pending(obj'.stack)) = (s \o c) \o q
    BY <1>13, <1>16, <1>18, <1>19
  <2>2. Len(out'.level) = m + n
    BY <1>6, <1>18
  <2>3. Missing(out) \subseteq 0..m
    BY <1>1, <1>2, <1>4
  <2>4. (1..(m + n)) \ Missing(out') = M \ Bytes(d)
    <3>1. (1..(m + n)) \ Missing(out) = M
      BY <1>5, <1>7, <1>11, <2>3
    <3>2. 0 \notin M
      BY <1>5, <1>8, <1>11
    <3> QED
      BY <1>14, <1>20, <3>1, <3>2
  <2>5. Missing(out') \subseteq 0..(m + n)
    <3>1. M \subseteq 0..(m + n) /\ 0 \in 0..(m + n) /\ 0..m \subseteq 0..(m + n)
      BY <1>5, <1>8, <1>11
    <3> QED
      BY <1>12, <1>14, <1>20, <2>3, <3>1
  <2> QED
    BY <1>12, <2>1, <2>2, <2>4, <2>5 DEF Kept
<1>22. InTime(obj')
  <2>1. Len(b) \in Nat /\ Capacity \in Nat
    BY <1>8, LenProperties DEF S!StreamAssumption
  <2> QED
    BY <1>7, <1>16, <2>1 DEF InTime, FlushesInTime
<1>23. OneSeverity(obj', out')
  <2> SUFFICES ASSUME NEW k \in Bytes(b \o q) PROVE k \in 1..Len(w) /\ w[k] = severity
    BY <1>16, <1>18, <1>19 DEF OneSeverity
  <2>1. k \in Bytes(obj.buf) \/ k \in Bytes(e)
    <3>1. Bytes(b \o q) = Bytes(b) \cup Bytes(q) /\ Bytes(b) = Bytes(obj.buf) \cup Bytes(c)
      BY <1>1, <1>7, <1>8, BytesOfJoined
    <3> QED
      BY <1>10, <3>1
  <2>2. CASE k \in Bytes(obj.buf)
    <3>1. k \in Bytes(Left(obj) \o Pending(obj.stack))
      BY <1>1, <2>2, NoFrames, ConcatEmptySeq
    <3>2. k \in 1..Len(out.level) /\ out.level[k] = obj.severity
      BY <3>1 DEF StreamHolds, OneSeverity
    <3> QED
      BY <1>2, <1>4, <1>6, <3>2
  <2>3. CASE k \in Bytes(e)
    <3>1. k - m \in 1..n /\ m + (k - m) = k
      BY <1>5, <1>9, <2>3
    <3> QED
      BY <1>6, <3>1
  <2> QED
    BY <2>1, <2>2, <2>3
<1>24. RightlyHidden(out')
  <2> SUFFICES ASSUME NEW h \in out.hidden
               PROVE  h[1] \in 1..Len(w) /\ (w[h[1]] > h[2] \/ w[h[1]] = 0)
    BY <1>18 DEF RightlyHidden
  <2>1. h[1] \in 1..Len(out.level) /\ (out.level[h[1]] > h[2] \/ out.level[h[1]] = 0)
    BY DEF StreamHolds, RightlyHidden
  <2>2. h[1] \in 1..Len(w) /\ w[h[1]] = lv[h[1]]
    BY <1>2, <1>4, <1>6, <2>1
  <2> QED
    BY <1>2, <2>1, <2>2
<1>25. obj'.class # "BufferStream" => out'.noroom \subseteq {0} \cup out'.filling
  BY <1>16, <1>17, <1>18 DEF StreamHolds, FlushesInTime
<1> QED
  BY <1>16, <1>18, <1>21, <1>22, <1>23, <1>24, <1>25 DEF StreamHolds

(* A character goes into the buffer, which has room for it; what fills it  *)
(* up to its right is lost where the character has filled the buffer.      *)
LEMMA WriteCharKeeps ==
  ASSUME S!StreamAssumption, StreamHolds(obj, out), NEW n \in Texts,
         NEW frames \in {<< >>, << S!FlushFrame >>}, S!WriteChar(n, frames)
  PROVE  StreamHolds(obj', out')
<1>1. obj.stack = << >> /\ n \in Nat /\ n # 0 /\ Capacity \in Nat
  BY DEF S!WriteChar, S!Idle, S!StreamAssumption
<1>2. obj.buf \in Seq(Nat) /\ Len(obj.buf) \in Nat /\ Len(out.level) \in Nat
      /\ obj \in Streams
  BY StreamFacts DEF StreamHolds
<1>3. Len(obj.buf) + 1 < Capacity \/ obj.class = "BufferStream"
  BY <1>1, <1>2, NoFrames DEF StreamHolds, InTime
<1>4. PICK e : e = S!Fresh(n)
  OBVIOUS
<1>5. e \in Seq(Nat) /\ e # << >>
  <2>1. e \in Seq(Nat)
    <3>1. e = Numbered(Len(out.level), n)
      BY <1>4 DEF S!Fresh, Numbered
    <3> QED
      BY <1>1, <1>2, <3>1, NumberedRule
  <2>2. Len(e) = n
    BY <1>1, <1>2, <1>4 DEF S!Fresh
  <2> QED
    BY <1>1, <2>1, <2>2, EmptySeq
<1>6. PICK byte, r, c, z : byte = e[1] /\ r = Tail(e) /\ c = << byte >> /\ z = << >>
  OBVIOUS
<1>7. e = c \o r /\ byte \in Nat /\ r \in Seq(Nat) /\ c \in Seq(Nat) /\ Head(e) = byte
  BY <1>5, <1>6, HeadFirst
<1>8. z \in Seq(Nat) /\ z \o r = r /\ z \o e = e /\ r \o z = r /\ obj.buf \o z = obj.buf
  BY <1>2, <1>5, <1>6, <1>7, ConcatEmptySeq, EmptySeq
<1>9. PICK fill : fill = S!ToSet(r)
  OBVIOUS
<1>10. fill \in SUBSET Nat
  BY <1>7, <1>9, SetOfBytes
<1>11. Append(obj.buf, byte) = obj.buf \o c /\ Len(obj.buf \o c) = Len(obj.buf) + 1
  <2>1. PICK b : b = obj.buf
    OBVIOUS
  <2>2. b \in Seq(Nat) /\ byte \in Nat
    BY <1>2, <1>7, <2>1
  <2>3. Append(b, byte) = b \o << byte >> /\ Len(Append(b, byte)) = Len(b) + 1
    BY ONLY <2>2, AppendProperties
  <2> QED
    BY <1>6, <2>1, <2>3
<1>12. /\ Sound(frames, obj.class) /\ Quiet(frames) /\ ~EntryNext(frames)
       /\ Pending(frames) = << >> /\ frames \in Seq(Frames)
  <2>1. CASE frames = << >>
    BY <2>1, NoFrames
  <2>2. CASE frames = << S!FlushFrame >>
    BY <2>2, CallersFrames DEF Sound
  <2> QED
    BY <2>1, <2>2
<1>13. PICK room \in BOOLEAN : room <=> (Len(obj.buf) + 1 < Capacity)
  OBVIOUS
<1>14. PICK full \in BOOLEAN : full <=> (Len(obj.buf) + 2 >= Capacity)
  OBVIOUS
<1>15. PICK d : d = IF ~room THEN e ELSE IF full THEN r ELSE z
  OBVIOUS
<1>16. /\ obj' = [obj EXCEPT !.buf = IF room THEN Append(@, byte) ELSE @,
                             !.stack = (IF full THEN << S!FlushFrame >> ELSE S!Putting(r))
                                       \o frames]
       /\ out' = [out EXCEPT !.level = out.level \o [i \in 1..n |-> obj.severity],
                             !.filling = out.filling \cup fill,
                             !.noroom = out.noroom \cup S!ToSet(d)]
  BY <1>4, <1>6, <1>7, <1>9, <1>13, <1>14, <1>15 DEF S!WriteChar
<1>17. CASE full
  <2>1. PICK flush, t : flush = S!FlushFrame /\ t = << flush >> \o frames
    OBVIOUS
  <2>2. flush \in Frames /\ flush.do = "flush"
    BY <2>1, FrameTypes
  <2>3. /\ Flushing(flush) /\ PutOf(flush) = << >> /\ ~(flush.do = "put") /\ ~(flush.do = "entry")
        /\ flush.do # "drain"
    BY <2>2 DEF Flushing, PutOf
  <2>4. Sound(t, obj.class) /\ Start(t) = 0 /\ FlushIsNext(t)
    BY <1>12, <2>1, <2>2, <2>3, PushRule
  <2>5. t # << >> /\ t[1] = flush /\ Pending(t) = PutOf(flush) \o Pending(frames)
    BY <1>12, <2>1, <2>2, Before
  <2>6. ~EntryNext(t)
    BY <2>2, <2>5 DEF EntryNext
  <2>7. Pending(t) = z
    BY <1>6, <1>8, <1>12, <2>3, <2>5, ConcatEmptySeq
  <2>8. CASE room
    <3>1. d = r /\ d \in Seq(Nat) /\ e = c \o (z \o d)
      BY <1>7, <1>8, <1>15, <1>17, <2>8
    <3>2. Accepts(n, c, d, t, fill)
      BY <1>11, <1>16, <1>17, <2>1, <2>8 DEF Accepts
    <3>3. FlushesInTime(c, d, t, fill)
      BY <1>9, <2>4, <3>1 DEF FlushesInTime
    <3> QED
      BY <1>1, <1>4, <1>7, <1>8, <1>10, <2>4, <2>6, <2>7, <3>1, <3>2, <3>3, AcceptedKeeps
  <2>9. CASE ~room
    <3>1. d = e /\ d \in Seq(Nat) /\ e = z \o (z \o d)
      BY <1>5, <1>8, <1>15, <2>9
    <3>2. Accepts(n, z, d, t, fill)
      BY <1>8, <1>16, <1>17, <2>1, <2>9 DEF Accepts
    <3>3. FlushesInTime(z, d, t, fill)
      BY <1>3, <1>13, <2>9 DEF FlushesInTime
    <3> QED
      BY <1>1, <1>4, <1>8, <1>10, <2>4, <2>6, <2>7, <3>1, <3>2, <3>3, AcceptedKeeps
  <2> QED
    BY <2>8, <2>9
<1>18. CASE ~full
  <2>1. PICK t : t = S!Putting(r) \o frames
    OBVIOUS
  <2>2. Sound(t, obj.class) /\ Start(t) = 0 /\ ~EntryNext(t) /\ Pending(t) = r
    <3>1. Sound(t, obj.class) /\ Start(t) = 0 /\ ~EntryNext(t) /\ Pending(t) = r \o Pending(frames)
      BY <1>7, <1>12, <2>1, PuttingRule
    <3> QED
      BY <1>6, <1>8, <1>12, <3>1
  <2>3. room /\ Len(obj.buf) + 2 < Capacity
    BY <1>1, <1>2, <1>13, <1>14, <1>18
  <2>4. d = z /\ d \in Seq(Nat) /\ e = c \o (r \o d)
    BY <1>7, <1>8, <1>15, <1>18, <2>3
  <2>5. Accepts(n, c, d, t, fill)
    BY <1>11, <1>16, <1>18, <2>1, <2>3 DEF Accepts
  <2>6. FlushesInTime(c, d, t, fill)
    <3>1. S!ToSet(d) = {}
      <4>1. DOMAIN d = {}
        BY <1>6, <2>4, EmptySeq
      <4> QED
        BY <4>1 DEF S!ToSet
    <3> QED
      BY <1>2, <1>11, <2>3, <3>1 DEF FlushesInTime
  <2> QED
    BY <1>1, <1>4, <1>7, <1>10, <2>2, <2>4, <2>5, <2>6, AcceptedKeeps
<1> QED
  BY <1>17, <1>18

(* The end of an entry finds the buffer flushed and nothing else to do.    *)
LEMMA BeginKeeps ==
  ASSUME S!StreamAssumption, StreamHolds(obj, out), S!Begin
  PROVE  StreamHolds(obj', out')
<1>1. Sound(obj.stack, obj.class) /\ InTime(obj)
  BY DEF StreamHolds
<1>2. PICK f : f = obj.stack[1]
  OBVIOUS
<1>3. obj.stack # << >> /\ Head(obj.stack).do = "entry"
  BY DEF S!Begin, S!Doing, S!Idle, S!Top
<1>4. /\ f \in Frames /\ Head(obj.stack) = f /\ obj.stack = << f >> \o Tail(obj.stack)
      /\ (f.do = "entry" => Tail(obj.stack) = << >>)
  BY <1>1, <1>2, <1>3, PopRule
<1>5. f.do = "entry" /\ Tail(obj.stack) = << >> /\ f.level \in Levels
  BY <1>3, <1>4, FrameRule DEF Levels
<1>6. obj.buf = << >>
  BY <1>1, <1>2, <1>3, <1>5 DEF InTime, EntryNext
<1>7. Start(obj.stack) = 0 /\ Pending(obj.stack) = << >>
  <2>1. Start(obj.stack) = 0
    BY <1>2, <1>5 DEF Start
  <2>2. PICK none, t : none = Tail(obj.stack) /\ t = obj.stack
    OBVIOUS
  <2>3. Pending(obj.stack) = PutOf(f) \o Pending(<< >>)
    <3>1. f \in Frames /\ none \in Seq(Frames) /\ t = << f >> \o none
      BY <1>4, <1>5, <2>2, EmptySeq
    <3>2. Pending(t) = PutOf(f) \o Pending(none)
      BY <3>1, Before
    <3> QED
      BY <1>5, <2>2, <3>2
  <2>4. PutOf(f) = << >> /\ << >> \in Seq(Nat)
    BY <1>5, EmptySeq DEF PutOf
  <2> QED
    BY <2>1, <2>3, <2>4, NoFrames, ConcatEmptySeq
<1>8. Len(obj.buf) + 1 < Capacity
  <2>1. Len(obj.buf) = 0 /\ Capacity \in Nat /\ Capacity # 0 /\ Capacity # 1
    BY <1>6, EmptySeq DEF S!StreamAssumption
  <2> QED
    BY <2>1
<1>9. PICK k \in {0, 1} : k = IF f.level # S!None /\ S!Visible(f.level) THEN 1 ELSE 0
  OBVIOUS
<1>10. Writes(k, << >>, f.level)
  <2>1. S!Top = f /\ S!Below = << >>
    BY <1>4, <1>5 DEF S!Top, S!Below
  <2>2. obj' = [obj EXCEPT !.severity = f.level,
                           !.stack = (IF f.level # S!None /\ S!Visible(f.level)
                                      THEN S!Putting(S!Fresh(1)) ELSE << >>) \o << >>]
    BY <2>1 DEF S!Begin
  <2>3. PICK put : put = (IF f.level # S!None /\ S!Visible(f.level)
                          THEN S!Putting(S!Fresh(1)) ELSE << >>)
    OBVIOUS
  <2>4. obj' = [obj EXCEPT !.severity = f.level, !.stack = put \o << >>]
    BY <2>2, <2>3
  <2>5. out' = [out EXCEPT !.level = IF f.level # S!None /\ S!Visible(f.level)
                                     THEN Append(@, f.level) ELSE @]
    BY <2>1 DEF S!Begin
  <2>6. obj \in Streams /\ out \in Outsides /\ out.level \in Seq(Levels)
    BY StreamFacts DEF StreamHolds
  <2>7. PICK x : x = [i \in 1..k |-> f.level]
    OBVIOUS
  <2>8. CASE k = 1
    <3>1. put = S!Putting(S!Fresh(k))
      BY <1>9, <2>8, <2>3
    <3>2. obj' = [obj EXCEPT !.severity = f.level, !.stack = S!Putting(S!Fresh(k)) \o << >>]
      BY <2>4, <3>1
    <3>3. obj' = [obj EXCEPT !.stack = S!Putting(S!Fresh(k)) \o << >>, !.severity = f.level]
      BY <2>6, <3>2 DEF Streams
    <3>4. x = << f.level >>
      BY <2>7, <2>8
    <3>5. Append(out.level, f.level) = out.level \o x
      BY <1>5, <2>6, <3>4
    <3>6. out' = [out EXCEPT !.level = out.level \o x]
      BY <1>9, <2>5, <2>8, <3>5
    <3> QED
      BY <2>7, <3>3, <3>6 DEF Writes
  <2>9. CASE k = 0
    <3>1. S!Fresh(0) = << >>
      BY EmptySeq DEF S!Fresh
    <3>2. S!Putting(S!Fresh(k)) = << >>
      BY <2>9, <3>1 DEF S!Putting
    <3>3. put = S!Putting(S!Fresh(k))
      BY <1>9, <2>9, <2>3, <3>2
    <3>4. obj' = [obj EXCEPT !.severity = f.level, !.stack = S!Putting(S!Fresh(k)) \o << >>]
      BY <2>4, <3>3
    <3>5. obj' = [obj EXCEPT !.stack = S!Putting(S!Fresh(k)) \o << >>, !.severity = f.level]
      BY <2>6, <3>4 DEF Streams
    <3>6. x = << >>
      BY <2>7, <2>9
    <3>7. out.level \o x = out.level
      BY <2>6, <3>6, ConcatEmptySeq
    <3>8. out' = [out EXCEPT !.level = out.level \o x]
      BY <1>9, <2>5, <2>9, <3>7
    <3> QED
      BY <2>7, <3>5, <3>8 DEF Writes
  <2> QED
    BY <2>8, <2>9
<1>11. k \in Nat
  OBVIOUS
<1>12. PICK e, none : e = S!Fresh(k) /\ none = << >>
  OBVIOUS
<1>13. Sound(none, obj.class) /\ Quiet(none) /\ ~EntryNext(none) /\ Pending(none) = << >>
  BY <1>12, NoFrames
<1>14. Writes(k, none, f.level)
  BY <1>10, <1>12
<1> QED
  BY <1>5, <1>6, <1>7, <1>8, <1>11, <1>12, <1>13, <1>14, WrittenKeeps

LEMMA ClearKeeps ==
  ASSUME S!StreamAssumption, StreamHolds(obj, out), S!Clear
  PROVE  StreamHolds(obj', out')
<1>1. /\ obj.stack = << >> /\ obj' = [obj EXCEPT !.buf = << >>]
      /\ out' = [out EXCEPT !.gone = @ \cup S!ToSet(obj.buf)]
  BY DEF S!Clear, S!Idle
<1>2. obj \in Streams /\ out \in Outsides /\ obj.buf \in Seq(Nat) /\ Left(obj) = obj.buf
  BY <1>1, StreamFacts, NoFrames DEF StreamHolds
<1>3. obj' = [obj EXCEPT !.buf = << >>, !.stack = << >>]
  BY <1>1, <1>2 DEF Streams
<1>4. S!ToSet(obj.buf) \subseteq Nat /\ S!ToSet(obj.buf) \ {0} = Bytes(obj.buf)
  BY <1>2, SetOfBytes
<1>5. /\ out' \in Outsides /\ out'.sink = out.sink /\ out'.level = out.level
      /\ out'.noroom = out.noroom /\ out'.filling = out.filling /\ out'.hidden = out.hidden
      /\ out'.gone = out.gone \cup S!ToSet(obj.buf)
  BY <1>1, <1>2, <1>4 DEF Outsides
<1>6. Missing(out') \ {0} = (Missing(out) \cup Bytes(Left(obj))) \ {0}
  BY <1>2, <1>4, <1>5 DEF Missing, Hidden
<1>7. RightlyHidden(out')
  BY <1>5 DEF StreamHolds, RightlyHidden
<1>8. PICK none : none = << >>
  OBVIOUS
<1>9. Sound(none, obj.class) /\ Start(none) = 0 /\ Pending(none) = Pending(obj.stack)
  BY <1>1, <1>8, NoFrames
<1>10. obj' = [obj EXCEPT !.buf = << >>, !.stack = none]
  BY <1>3, <1>8
<1> QED
  BY <1>5, <1>6, <1>7, <1>9, <1>10, GivenUpKeeps

LEMMA SettingsKeep ==
  ASSUME StreamHolds(obj, out)
  PROVE  /\ \A limit \in 0..TopLevel : S!SetLimit(limit) => StreamHolds(obj', out')
         /\ \A terminal \in BOOLEAN : S!Output(terminal) => StreamHolds(obj', out')
<1>1. obj \in Streams
  BY DEF StreamHolds
<1>2. ASSUME out' = out, obj' \in Streams, obj'.stack = obj.stack, obj'.buf = obj.buf,
             obj'.class = obj.class, obj'.severity = obj.severity
      PROVE  StreamHolds(obj', out')
  <2>1. Left(obj') = Left(obj)
    BY <1>2 DEF Left
  <2>2. InTime(obj') /\ Kept(obj', out') /\ OneSeverity(obj', out')
    BY <1>2, <2>1 DEF StreamHolds, InTime, Kept, OneSeverity
  <2> QED
    BY <1>2, <2>2 DEF StreamHolds
<1>3. ASSUME NEW limit \in 0..TopLevel, S!SetLimit(limit) PROVE StreamHolds(obj', out')
  <2>1. obj' = [obj EXCEPT !.limit = limit] /\ out' = out /\ limit \in Int
    BY <1>3 DEF S!SetLimit
  <2> QED
    BY <1>1, <1>2, <2>1 DEF Streams
<1>4. ASSUME NEW terminal \in BOOLEAN, S!Output(terminal) PROVE StreamHolds(obj', out')
  <2>1. obj' = [obj EXCEPT !.terminal = terminal] /\ out' = out
    BY <1>4 DEF S!Output
  <2> QED
    BY <1>1, <1>2, <2>1 DEF Streams
<1> QED
  BY <1>3, <1>4

(* The innermost frame and what is below it.                               *)
LEMMA TopRule ==
  ASSUME StreamHolds(obj, out), ~S!Idle,
         NEW f, f = obj.stack[1], NEW s, s = Tail(obj.stack)
  PROVE  /\ f \in Frames /\ obj.stack = << f >> \o s /\ S!Top = f /\ S!Below = s
         /\ Sound(s, obj.class) /\ Quiet(s) /\ Start(s) = 0 /\ s \in Seq(Frames)
         /\ EntryNext(s) => Flushing(f)
         /\ Pending(obj.stack) = PutOf(f) \o Pending(s) /\ Pending(s) \in Seq(Nat)
         /\ f.do # "put" => Pending(s) = Pending(obj.stack)
         /\ f.do # "drain" => Start(obj.stack) = 0
         /\ f.do = "drain" => Start(obj.stack) = f.at /\ f.at \in Nat
<1>1. Sound(obj.stack, obj.class) /\ obj.stack # << >>
  BY DEF StreamHolds, S!Idle
<1>2. /\ f \in Frames /\ obj.stack = << f >> \o s /\ Head(obj.stack) = f
      /\ Sound(s, obj.class) /\ Quiet(s) /\ Start(s) = 0
      /\ EntryNext(s) => Flushing(f)
  BY <1>1, PopRule
<1>3. s \in Seq(Frames)
  BY <1>2 DEF Sound
<1>4. PICK t : t = obj.stack
  OBVIOUS
<1>5. Pending(t) = PutOf(f) \o Pending(s)
  <2>1. f \in Frames /\ s \in Seq(Frames) /\ t = << f >> \o s
    BY <1>2, <1>3, <1>4
  <2> QED
    BY ONLY <2>1, Before
<1>6. Pending(s) \in Seq(Nat)
  BY <1>3, PendingParts
<1>7. f.do # "put" => Pending(s) = Pending(t)
  <2>1. f.do # "put" => PutOf(f) = << >>
    BY DEF PutOf
  <2> QED
    BY <1>5, <1>6, <2>1, ConcatEmptySeq
<1>8. (f.do # "drain" => Start(t) = 0) /\ (f.do = "drain" => Start(t) = f.at /\ f.at \in Nat)
  BY <1>1, <1>2, <1>4, FrameRule DEF Start
<1> QED
  BY <1>2, <1>3, <1>4, <1>5, <1>6, <1>7, <1>8 DEF S!Top, S!Below

LEMMA FlushNothingKeeps ==
  ASSUME StreamHolds(obj, out), S!FlushNothing
  PROVE  StreamHolds(obj', out')
<1>1. PICK f, s : f = obj.stack[1] /\ s = Tail(obj.stack)
  OBVIOUS
<1>2. ~S!Idle /\ S!Top.do = "flush" /\ obj.class = "BufferStream"
      /\ obj' = [obj EXCEPT !.stack = S!Below] /\ out' = out
  BY DEF S!FlushNothing, S!Doing
<1>3. /\ S!Top = f /\ S!Below = s /\ Sound(s, obj.class) /\ Start(s) = 0
      /\ f.do # "put" => Pending(s) = Pending(obj.stack)
      /\ f.do # "drain" => Start(obj.stack) = 0
  BY <1>1, <1>2, TopRule
<1>4. Pending(s) = Pending(obj.stack) /\ Start(s) = Start(obj.stack)
  BY <1>2, <1>3
<1>5. ~EntryNext(s)
  <2> SUFFICES ASSUME EntryNext(s) PROVE FALSE
    OBVIOUS
  <2>1. s \in Seq(Frames) /\ s # << >> /\ s[1].do = "entry"
    BY <1>3 DEF EntryNext, Sound
  <2>2. 1 \in 1..Len(s)
    BY <2>1, EmptySeq
  <2> QED
    BY <1>2, <1>3, <2>1, <2>2 DEF Sound
<1> QED
  BY <1>2, <1>3, <1>4, <1>5, FramesKeep

(* A drain put before what is below a flush.                               *)
LEMMA DrainFirst ==
  ASSUME NEW class, NEW s, Sound(s, class), Quiet(s), NEW at \in Nat,
         NEW t, t = << S!DrainFrame(at) >> \o s
  PROVE  /\ Sound(t, class) /\ Start(t) = at /\ ~EntryNext(t) /\ FlushIsNext(t)
         /\ Pending(t) = Pending(s) /\ (at = 0 => Quiet(t))
<1>1. PICK d : d = S!DrainFrame(at)
  OBVIOUS
<1>2. d \in Frames /\ d.do = "drain" /\ d.at = at
  BY <1>1, FrameTypes
<1>3. Flushing(d) /\ PutOf(d) = << >>
  BY <1>2 DEF Flushing, PutOf
<1>4. t = << d >> \o s /\ s \in Seq(Frames)
  BY <1>1 DEF Sound
<1>5. Sound(t, class) /\ Start(t) = at /\ FlushIsNext(t) /\ (at = 0 => Quiet(t))
  <2>1. ~(d.do = "put") /\ ~(d.do = "entry")
    BY <1>2
  <2> QED
    BY <1>2, <1>3, <1>4, <2>1, PushRule
<1>6. t # << >> /\ t[1] = d /\ Pending(t) = PutOf(d) \o Pending(s)
  <2>1. d \in Frames
    BY <1>2
  <2> QED
    BY ONLY <1>4, <2>1, Before
<1>7. ~EntryNext(t)
  BY <1>2, <1>6 DEF EntryNext
<1>8. Pending(t) = Pending(s)
  BY <1>3, <1>4, <1>6, PendingParts, ConcatEmptySeq
<1> QED
  BY <1>5, <1>7, <1>8

LEMMA FlushOutputKeeps ==
  ASSUME StreamHolds(obj, out), S!FlushOutput
  PROVE  StreamHolds(obj', out')
<1>1. PICK f, s : f = obj.stack[1] /\ s = Tail(obj.stack)
  OBVIOUS
<1>2. ~S!Idle /\ S!Top.do = "flush"
      /\ obj' = [obj EXCEPT !.stack = << S!DrainFrame(0) >> \o S!Below] /\ out' = out
  BY DEF S!FlushOutput, S!Doing
<1>3. /\ S!Top = f /\ S!Below = s /\ Sound(s, obj.class) /\ Quiet(s)
      /\ f.do # "put" => Pending(s) = Pending(obj.stack)
      /\ f.do # "drain" => Start(obj.stack) = 0
  BY <1>1, <1>2, TopRule
<1>4. PICK t : t = << S!DrainFrame(0) >> \o s
  OBVIOUS
<1>5. Sound(t, obj.class) /\ Start(t) = 0 /\ ~EntryNext(t) /\ FlushIsNext(t)
      /\ Pending(t) = Pending(s)
  <2>1. Sound(s, obj.class) /\ Quiet(s) /\ 0 \in Nat
    BY <1>3
  <2> QED
    BY ONLY <1>4, <2>1, DrainFirst
<1>6. obj' = [obj EXCEPT !.stack = t]
  BY <1>2, <1>3, <1>4
<1>7. Start(t) = Start(obj.stack) /\ Pending(t) = Pending(obj.stack)
  BY <1>2, <1>3, <1>5
<1> QED
  BY <1>2, <1>5, <1>6, <1>7, FramesKeep

(* The colour reset goes into the buffer behind all that is there and      *)
(* before all that is still to be put.                                     *)
LEMMA FlushShownKeeps ==
  ASSUME S!StreamAssumption, StreamHolds(obj, out), S!FlushShown
  PROVE  StreamHolds(obj', out')
<1>1. PICK f, s : f = obj.stack[1] /\ s = Tail(obj.stack)
  OBVIOUS
<1>2. ~S!Idle /\ S!Top.do = "flush" /\ out' = out
  BY DEF S!FlushShown, S!Doing
<1>3. /\ S!Top = f /\ S!Below = s /\ Sound(s, obj.class) /\ Quiet(s) /\ s \in Seq(Frames)
      /\ f.do # "put" => Pending(s) = Pending(obj.stack)
      /\ f.do # "drain" => Start(obj.stack) = 0
      /\ Pending(s) \in Seq(Nat)
  BY <1>1, <1>2, TopRule
<1>4. PICK t : t = << S!DrainFrame(0) >> \o s
  OBVIOUS
<1>5. Sound(t, obj.class) /\ Quiet(t) /\ ~EntryNext(t) /\ FlushIsNext(t)
      /\ Pending(t) = Pending(s)
  <2>1. Sound(s, obj.class) /\ Quiet(s) /\ 0 \in Nat
    BY <1>3
  <2> QED
    BY ONLY <1>4, <2>1, DrainFirst
<1>6. PICK z : z = IF obj.terminal THEN [i \in 1..ResetBytes |-> 0] ELSE << >>
  OBVIOUS
<1>7. z \in Seq(Nat) /\ Bytes(z) = {}
  <2>1. CASE obj.terminal
    <3>1. ResetBytes \in Nat
      BY DEF S!StreamAssumption
    <3>2. z = [i \in 1..ResetBytes |-> 0]
      BY <1>6, <2>1
    <3>3. z \in Seq(Nat) /\ \A i \in 1..Len(z) : z[i] = 0
      BY <3>1, <3>2
    <3> QED
      BY <3>3 DEF Bytes
  <2>2. CASE ~obj.terminal
    <3>1. z = << >>
      BY <1>6, <2>2
    <3> QED
      BY <3>1, EmptySeq DEF Bytes
  <2> QED
    BY <2>1, <2>2
<1>8. PICK u : u = S!Putting(z) \o t
  OBVIOUS
<1>9. Sound(u, obj.class) /\ Start(u) = 0 /\ ~EntryNext(u) /\ FlushIsNext(u)
      /\ Pending(u) = z \o Pending(s)
  <2>1. /\ Sound(u, obj.class) /\ Start(u) = 0 /\ ~EntryNext(u)
        /\ Pending(u) = z \o Pending(t)
        /\ FlushIsNext(t) /\ Bytes(z) = {} => FlushIsNext(u)
    <3>1. Sound(t, obj.class) /\ Quiet(t) /\ ~EntryNext(t) /\ z \in Seq(Nat)
      BY <1>5, <1>7
    <3> QED
      BY ONLY <1>8, <3>1, PuttingRule
  <2> QED
    BY <1>5, <1>7, <2>1
<1>10. obj \in Streams
  BY DEF StreamHolds
<1>11. obj' = [obj EXCEPT !.stack = u]
  <2>1. PICK p : p = IF obj.terminal THEN S!Putting([i \in 1..ResetBytes |-> 0]) ELSE << >>
    OBVIOUS
  <2>2. p = S!Putting(z)
    BY <1>6, <2>1 DEF S!Putting
  <2>3. PICK d : d = << S!DrainFrame(0) >>
    OBVIOUS
  <2>4. obj' = [obj EXCEPT !.stack = p \o d \o s]
    BY <1>3, <2>1, <2>3 DEF S!FlushShown
  <2>5. p \in Seq(Frames) /\ d \in Seq(Frames)
    <3>1. S!PutFrame(z) \in Frames /\ S!DrainFrame(0) \in Frames
      BY <1>7, FrameTypes
    <3>2. << >> \in Seq(Frames) /\ << S!PutFrame(z) >> \in Seq(Frames) /\ << S!DrainFrame(0) >> \in Seq(Frames)
      BY <3>1, EmptySeq
    <3> QED
      BY <2>2, <2>3, <3>2 DEF S!Putting
  <2>6. Moves3(p, d, s)
    BY <1>3, <2>5, Brackets3
  <2>7. p \o d \o s = u
    BY <1>4, <1>8, <2>2, <2>3, <2>6 DEF Moves3
  <2> QED
    BY <2>4, <2>7
<1>12. /\ obj'.stack = u /\ obj'.severity = obj.severity /\ obj'.buf = obj.buf
       /\ obj'.class = obj.class /\ obj' \in Streams
  <2>1. u \in Seq(Frames)
    BY <1>9 DEF Sound
  <2> QED
    BY <1>10, <1>11, <2>1 DEF Streams
<1>13. PICK a, b, p, N : /\ a = out.sink /\ b = obj.buf /\ p = Pending(s)
                         /\ N = (1..Len(out.level)) \ Missing(out)
  OBVIOUS
<1>14. Left(obj) = b /\ Left(obj') = b /\ Pending(obj.stack) = p
  <2>1. Start(obj.stack) = 0 /\ Pending(obj.stack) = p
    BY <1>2, <1>3, <1>13
  <2> QED
    BY <1>9, <1>12, <1>13, <2>1, StreamFacts, RestOfBuffer DEF Left
<1>15. a \in Seq(Nat) /\ b \in Seq(Nat) /\ p \in Seq(Nat) /\ Carries(a \o (b \o p), N)
       /\ Missing(out) \subseteq 0..Len(out.level)
  <2>1. /\ out.sink \in Seq(Nat) /\ obj.buf \in Seq(Nat)
        /\ Carries(out.sink \o (Left(obj) \o Pending(obj.stack)),
                   (1..Len(out.level)) \ Missing(out))
        /\ Missing(out) \subseteq 0..Len(out.level)
    BY StreamFacts
  <2> QED
    BY <1>3, <1>13, <1>14, <2>1
<1>16. Carries(a \o (b \o (z \o p)), N)
  <2>1. PICK c : c = a \o b
    OBVIOUS
  <2>2. c \in Seq(Nat) /\ z \o p \in Seq(Nat)
    BY <1>7, <1>15, <2>1, ConcatProperties
  <2>3. Moves3(a, b, p) /\ Moves3(a, b, z \o p)
    BY <1>15, <2>2, Brackets3
  <2>4. Carries(c \o p, N)
    BY <1>15, <2>1, <2>3 DEF Moves3
  <2>5. Carries(c \o (z \o p), N)
    BY ONLY <1>7, <1>15, <2>2, <2>4, MiddleColoured
  <2> QED
    BY <2>1, <2>3, <2>5 DEF Moves3
<1>17. Kept(obj', out')
  BY <1>2, <1>9, <1>12, <1>13, <1>14, <1>15, <1>16 DEF Kept
<1>18. InTime(obj')
  BY <1>9, <1>12 DEF InTime
<1>19. OneSeverity(obj', out')
  <2>1. z \o p \in Seq(Nat)
    BY <1>7, <1>15, ConcatProperties
  <2>2. Bytes(z \o p) = Bytes(z) \cup Bytes(p)
    BY <1>7, <1>15, BytesOfJoined
  <2>3. Bytes(b \o (z \o p)) = Bytes(b) \cup Bytes(z \o p)
    BY <1>15, <2>1, BytesOfJoined
  <2>4. Bytes(b \o p) = Bytes(b) \cup Bytes(p)
    BY <1>15, BytesOfJoined
  <2>5. Bytes(b \o (z \o p)) = Bytes(b \o p)
    BY <1>7, <2>2, <2>3, <2>4
  <2>6. \A x \in Bytes(b \o p) : x \in 1..Len(out.level) /\ out.level[x] = obj.severity
    BY <1>14 DEF StreamHolds, OneSeverity
  <2> QED
    BY <1>2, <1>9, <1>12, <1>13, <1>14, <2>5, <2>6 DEF OneSeverity
<1> QED
  BY <1>2, <1>9, <1>12, <1>17, <1>18, <1>19 DEF StreamHolds

(* The places of the bytes around the one that is put.                     *)
MovesOne(a, b, m, r, p) ==
  /\ b \o ((m \o r) \o p) = (b \o m) \o (r \o p)
  /\ a \o (b \o ((m \o r) \o p)) = (a \o b) \o (m \o (r \o p))
  /\ a \o (b \o (r \o p)) = (a \o b) \o (r \o p)

LEMMA OneByte ==
  ASSUME NEW a \in Seq(Nat), NEW b \in Seq(Nat), NEW m \in Seq(Nat), NEW r \in Seq(Nat),
         NEW p \in Seq(Nat)
  PROVE  MovesOne(a, b, m, r, p)
<1>1. PICK x, y : x = r \o p /\ y = m \o x
  OBVIOUS
<1>2. x \in Seq(Nat)
  BY <1>1, ConcatProperties
<1>3. y \in Seq(Nat)
  BY <1>1, <1>2, ConcatProperties
<1>4. Moves3(m, r, p) /\ Moves3(b, m, x) /\ Moves3(a, b, y) /\ Moves3(a, b, x)
  BY <1>2, <1>3, Brackets3
<1>5. (m \o r) \o p = y
  BY <1>1, <1>4 DEF Moves3
<1>6. b \o y = (b \o m) \o x
  BY <1>1, <1>4 DEF Moves3
<1>7. a \o (b \o y) = (a \o b) \o y /\ a \o (b \o x) = (a \o b) \o x
  BY <1>4 DEF Moves3
<1> QED
  BY <1>1, <1>5, <1>6, <1>7 DEF MovesOne

(* A byte goes into the buffer, which is flushed when it is full; where    *)
(* there is no room for it although the class flushes, it belongs to a     *)
(* colour reset.                                                           *)
LEMMA PutKeeps ==
  ASSUME S!StreamAssumption, StreamHolds(obj, out), S!Put
  PROVE  StreamHolds(obj', out')
<1>1. PICK f, s : f = obj.stack[1] /\ s = Tail(obj.stack)
  OBVIOUS
<1>2. ~S!Idle /\ S!Top.do = "put"
  BY DEF S!Put, S!Doing
<1>3. /\ S!Top = f /\ S!Below = s /\ Sound(s, obj.class) /\ Quiet(s) /\ f \in Frames
      /\ EntryNext(s) => Flushing(f)
      /\ Pending(obj.stack) = PutOf(f) \o Pending(s) /\ Pending(s) \in Seq(Nat)
      /\ f.do # "drain" => Start(obj.stack) = 0
  BY <1>1, <1>2, TopRule
<1>4. f.do = "put" /\ PutOf(f) = f.bytes /\ f.bytes \in Seq(Nat) /\ ~EntryNext(s)
      /\ Start(obj.stack) = 0
  BY <1>2, <1>3, FrameRule DEF PutOf, Flushing
<1>5. f.bytes # << >> /\ (FlushIsNext(obj.stack) => Bytes(f.bytes) = {} /\ FlushIsNext(s))
  <2>1. Sound(obj.stack, obj.class) /\ obj.stack # << >>
    BY <1>2 DEF StreamHolds, S!Idle
  <2>2. ~Flushing(f)
    BY <1>4 DEF Flushing
  <2> QED
    BY <1>1, <1>4, <2>1, <2>2, PopRule
<1>6. PICK byte, r, m : byte = f.bytes[1] /\ r = Tail(f.bytes) /\ m = << byte >>
  OBVIOUS
<1>7. f.bytes = m \o r /\ byte \in Nat /\ r \in Seq(Nat) /\ m \in Seq(Nat) /\ Head(f.bytes) = byte
  BY <1>4, <1>5, <1>6, HeadFirst
<1>8. Bytes(m) = {byte} \ {0} /\ Bytes(f.bytes) = Bytes(m) \cup Bytes(r)
  <2>1. Bytes(m) = {byte} \ {0}
    BY <1>6 DEF Bytes
  <2> QED
    BY <1>7, <2>1, BytesOfJoined
<1>9. PICK t : t = S!Putting(r) \o s
  OBVIOUS
<1>10. PICK p : p = Pending(s)
  OBVIOUS
<1>11. /\ Sound(t, obj.class) /\ Quiet(t) /\ Start(t) = 0 /\ ~EntryNext(t)
       /\ Pending(t) = r \o p
       /\ FlushIsNext(s) /\ Bytes(r) = {} => FlushIsNext(t)
  <2>1. Sound(s, obj.class) /\ Quiet(s) /\ ~EntryNext(s) /\ r \in Seq(Nat)
    BY <1>3, <1>4, <1>7
  <2> QED
    BY ONLY <1>9, <1>10, <2>1, PuttingRule
<1>12. PICK room \in BOOLEAN : room <=> (Len(obj.buf) + 1 < Capacity)
  OBVIOUS
<1>13. PICK fills \in BOOLEAN : fills <=> (room /\ Len(obj.buf) + 2 = Capacity)
  OBVIOUS
<1>14. /\ obj' = [obj EXCEPT !.buf = IF room THEN Append(@, byte) ELSE @,
                             !.stack = IF fills THEN << S!FlushFrame >> \o t ELSE t]
       /\ out' = [out EXCEPT !.noroom = IF room THEN @ ELSE @ \cup {byte}]
  BY <1>3, <1>7, <1>6, <1>9, <1>12, <1>13 DEF S!Put
<1>15. obj \in Streams /\ out \in Outsides /\ InTime(obj)
  BY DEF StreamHolds
<1>16. PICK a, b, n : a = out.sink /\ b = obj.buf /\ n = Len(out.level)
  OBVIOUS
<1>17. /\ a \in Seq(Nat) /\ b \in Seq(Nat) /\ n \in Nat /\ p \in Seq(Nat) /\ Left(obj) = b
       /\ Carries(a \o (b \o ((m \o r) \o p)), (1..n) \ Missing(out))
       /\ Missing(out) \subseteq 0..n /\ Len(b) \in Nat
       /\ out.noroom \subseteq Nat
  <2>1. /\ out.sink \in Seq(Nat) /\ obj.buf \in Seq(Nat) /\ Len(out.level) \in Nat
        /\ Start(obj.stack) = 0 => Left(obj) = obj.buf
        /\ Carries(out.sink \o (Left(obj) \o Pending(obj.stack)),
                   (1..Len(out.level)) \ Missing(out))
        /\ Missing(out) \subseteq 0..Len(out.level) /\ Len(obj.buf) \in Nat
        /\ out.noroom \subseteq Nat
    BY StreamFacts
  <2>2. Pending(obj.stack) = (m \o r) \o p
    BY <1>3, <1>4, <1>7, <1>10
  <2> QED
    BY <1>3, <1>4, <1>10, <1>16, <2>1, <2>2
<1>18. r \o p \in Seq(Nat)
  BY <1>7, <1>17, ConcatProperties
<1>19. /\ b \o ((m \o r) \o p) = (b \o m) \o (r \o p)
       /\ a \o (b \o ((m \o r) \o p)) = (a \o b) \o (m \o (r \o p))
       /\ a \o (b \o (r \o p)) = (a \o b) \o (r \o p)
  <2>1. a \in Seq(Nat) /\ b \in Seq(Nat) /\ m \in Seq(Nat) /\ r \in Seq(Nat) /\ p \in Seq(Nat)
    BY <1>7, <1>17
  <2>2. MovesOne(a, b, m, r, p)
    BY <2>1, OneByte
  <2> QED
    BY <2>2 DEF MovesOne
<1>20. \A x \in Bytes(b \o ((m \o r) \o p)) : x \in 1..n /\ out.level[x] = obj.severity
  <2>1. Pending(obj.stack) = (m \o r) \o p
    BY <1>3, <1>4, <1>7, <1>10
  <2> QED
    BY <1>16, <1>17, <2>1 DEF StreamHolds, OneSeverity
<1>21. Capacity \in Nat
  BY DEF S!StreamAssumption
<1>22. CASE room
  <2>1. PICK u : u = IF fills THEN << S!FlushFrame >> \o t ELSE t
    OBVIOUS
  <2>2. /\ Sound(u, obj.class) /\ Start(u) = 0 /\ ~EntryNext(u) /\ Pending(u) = r \o p
        /\ fills => FlushIsNext(u)
    <3>1. CASE ~fills
      BY <1>11, <2>1, <3>1
    <3>2. CASE fills
      <4>1. PICK d : d = S!FlushFrame
        OBVIOUS
      <4>2. d \in Frames /\ d.do = "flush"
        BY <4>1, FrameTypes
      <4>3. Flushing(d) /\ PutOf(d) = << >> /\ ~(d.do = "put") /\ ~(d.do = "entry") /\ d.do # "drain"
        BY <4>2 DEF Flushing, PutOf
      <4>4. u = << d >> \o t /\ Sound(t, obj.class) /\ Quiet(t) /\ t \in Seq(Frames)
        BY <1>11, <2>1, <3>2, <4>1 DEF Sound
      <4>5. Sound(u, obj.class) /\ Start(u) = 0 /\ FlushIsNext(u)
        BY ONLY <4>2, <4>3, <4>4, PushRule
      <4>6. u # << >> /\ u[1] = d /\ Pending(u) = PutOf(d) \o Pending(t)
        BY ONLY <4>2, <4>4, Before
      <4>7. ~EntryNext(u)
        BY <4>2, <4>6 DEF EntryNext
      <4>8. Pending(u) = r \o p
        BY <1>11, <1>18, <4>3, <4>6, ConcatEmptySeq
      <4> QED
        BY <4>5, <4>7, <4>8
    <3> QED
      BY <3>1, <3>2
  <2>3. PICK c : c = Append(b, byte)
    OBVIOUS
  <2>4. c = b \o m /\ c \in Seq(Nat) /\ Len(c) = Len(b) + 1
    <3>1. b \in Seq(Nat) /\ byte \in Nat
      BY <1>7, <1>17
    <3>2. Append(b, byte) = b \o << byte >> /\ Append(b, byte) \in Seq(Nat)
          /\ Len(Append(b, byte)) = Len(b) + 1
      BY ONLY <3>1, AppendProperties
    <3> QED
      BY <1>6, <2>3, <3>2
  <2>5. obj' = [obj EXCEPT !.buf = c, !.stack = u] /\ out' = out
    <3>1. obj' = [obj EXCEPT !.buf = c, !.stack = u]
      BY <1>14, <1>15, <1>16, <1>22, <2>1, <2>3 DEF Streams
    <3>2. out' = [out EXCEPT !.noroom = out.noroom]
      BY <1>14, <1>22
    <3> QED
      BY <1>15, <3>1, <3>2 DEF Outsides
  <2>6. /\ obj'.stack = u /\ obj'.severity = obj.severity /\ obj'.buf = c
        /\ obj'.class = obj.class /\ obj' \in Streams
    <3>1. u \in Seq(Frames)
      BY <2>2 DEF Sound
    <3> QED
      BY <1>15, <2>4, <2>5, <3>1 DEF Streams
  <2>7. Left(obj') = c
    BY <2>2, <2>4, <2>6, RestOfBuffer DEF Left
  <2>8. Left(obj') \o Pending(obj'.stack) = b \o ((m \o r) \o p)
    BY <1>19, <2>2, <2>4, <2>6, <2>7
  <2>9. Kept(obj', out')
    BY <1>16, <1>17, <2>5, <2>8 DEF Kept
  <2>10. InTime(obj')
    <3>1. Len(c) + 1 >= Capacity => fills
      <4>1. PICK k : k = Len(b)
        OBVIOUS
      <4>2. k \in Nat /\ Len(c) = k + 1 /\ k + 1 < Capacity
        BY <1>12, <1>16, <1>17, <1>22, <2>4, <4>1
      <4>3. k + 2 = Capacity => fills
        BY <1>13, <1>16, <1>22, <4>1
      <4> QED
        BY <1>21, <4>2, <4>3
    <3> QED
      BY <2>2, <2>6, <3>1 DEF InTime
  <2>11. OneSeverity(obj', out')
    BY <1>16, <1>20, <2>5, <2>6, <2>8 DEF OneSeverity
  <2> QED
    BY <2>2, <2>5, <2>6, <2>9, <2>10, <2>11 DEF StreamHolds
<1>23. CASE ~room
  <2>1. obj' = [obj EXCEPT !.stack = t] /\ out' = [out EXCEPT !.noroom = out.noroom \cup {byte}]
    <3>1. obj' = [obj EXCEPT !.buf = obj.buf, !.stack = t]
      BY <1>13, <1>14, <1>23
    <3>2. obj' = [obj EXCEPT !.stack = t]
      BY <1>15, <3>1 DEF Streams
    <3> QED
      BY <1>14, <1>23, <3>2
  <2>2. /\ obj'.stack = t /\ obj'.severity = obj.severity /\ obj'.buf = b
        /\ obj'.class = obj.class /\ obj' \in Streams
    <3>1. t \in Seq(Frames)
      BY <1>11 DEF Sound
    <3> QED
      BY <1>15, <1>16, <2>1, <3>1 DEF Streams
  <2>3. /\ out'.sink = a /\ out'.level = out.level /\ out'.hidden = out.hidden
        /\ out'.gone = out.gone /\ out'.noroom = out.noroom \cup {byte}
        /\ out'.filling = out.filling
        /\ out' \in Outsides
    BY <1>7, <1>15, <1>16, <1>17, <2>1 DEF Outsides
  <2>4. Left(obj') = b
    BY <1>11, <1>17, <2>2, RestOfBuffer DEF Left
  <2>5. PICK N, q, d : N = (1..n) \ Missing(out) /\ q = r \o p /\ d = a \o b
    OBVIOUS
  <2>6. d \in Seq(Nat) /\ q \in Seq(Nat) /\ m \in Seq(Nat) /\ Carries(d \o (m \o q), N)
    BY <1>7, <1>17, <1>18, <1>19, <2>5, ConcatProperties
  <2>7. Carries(d \o q, N \ Bytes(m)) /\ Bytes(m) \subseteq N
    BY ONLY <2>6, MiddleCut
  <2>8. Missing(out') = Missing(out) \cup {byte}
    BY <2>3 DEF Missing, Hidden
  <2>9. Kept(obj', out')
    <3>1. (1..n) \ Missing(out') = N \ Bytes(m)
      BY <1>8, <2>5, <2>8
    <3>2. Missing(out') \subseteq 0..n
      BY <1>7, <1>8, <1>17, <2>5, <2>7, <2>8
    <3>3. out'.sink \o (Left(obj') \o Pending(obj'.stack)) = d \o q
      BY <1>11, <1>19, <2>2, <2>3, <2>4, <2>5
    <3> QED
      BY <1>16, <2>3, <2>7, <3>1, <3>2, <3>3 DEF Kept
  <2>10. obj.class # "BufferStream" => byte = 0 /\ FlushIsNext(t)
    <3> SUFFICES ASSUME obj.class # "BufferStream" PROVE byte = 0 /\ FlushIsNext(t)
      OBVIOUS
    <3>1. Len(obj.buf) + 1 >= Capacity
      BY <1>12, <1>16, <1>17, <1>21, <1>23
    <3>2. FlushIsNext(obj.stack)
      BY <1>15, <3>1 DEF InTime
    <3>3. Bytes(f.bytes) = {} /\ FlushIsNext(s)
      BY <1>5, <3>2
    <3> QED
      BY <1>8, <1>11, <3>3
  <2>11. InTime(obj')
    BY <1>11, <2>2, <2>10 DEF InTime
  <2>12. OneSeverity(obj', out')
    <3>1. Bytes(b \o q) \subseteq Bytes(b \o ((m \o r) \o p))
      <4>1. Bytes(b \o q) = Bytes(b) \cup Bytes(q)
        BY <1>17, <2>6, BytesOfJoined
      <4>2. b \o m \in Seq(Nat)
        BY <1>7, <1>17, ConcatProperties
      <4>3. Bytes((b \o m) \o q) = Bytes(b \o m) \cup Bytes(q)
        BY <2>6, <4>2, BytesOfJoined
      <4>4. Bytes(b \o m) = Bytes(b) \cup Bytes(m)
        BY <1>7, <1>17, BytesOfJoined
      <4> QED
        BY <1>19, <2>5, <4>1, <4>3, <4>4
    <3>2. Left(obj') \o Pending(obj'.stack) = b \o q
      BY <1>11, <2>2, <2>4, <2>5
    <3> QED
      BY <1>16, <1>20, <2>2, <2>3, <3>1, <3>2 DEF OneSeverity
  <2>13. RightlyHidden(out')
    BY <2>3 DEF StreamHolds, RightlyHidden
  <2>14. obj'.class # "BufferStream" => out'.noroom \subseteq {0} \cup out'.filling
    BY <2>2, <2>3, <2>10 DEF StreamHolds
  <2> QED
    BY <1>11, <2>2, <2>3, <2>9, <2>11, <2>12, <2>13, <2>14 DEF StreamHolds
<1> QED
  BY <1>22, <1>23

(* What is left of the buffer is dropped because of the limit.             *)
LEMMA FlushHiddenKeeps ==
  ASSUME S!StreamAssumption, StreamHolds(obj, out), S!FlushHidden
  PROVE  StreamHolds(obj', out')
<1>1. PICK f, s : f = obj.stack[1] /\ s = Tail(obj.stack)
  OBVIOUS
<1>2. /\ ~S!Idle /\ S!Top.do = "flush" /\ ~S!Shown
      /\ obj' = [obj EXCEPT !.buf = << >>, !.stack = S!Below]
      /\ out' = [out EXCEPT !.hidden = out.hidden \cup (S!Own(obj.buf) \X {obj.limit})]
  BY DEF S!FlushHidden, S!Doing
<1>3. /\ S!Top = f /\ S!Below = s /\ Sound(s, obj.class) /\ Start(s) = 0
      /\ f.do # "put" => Pending(s) = Pending(obj.stack)
      /\ f.do # "drain" => Start(obj.stack) = 0
  BY <1>1, <1>2, TopRule
<1>4. Pending(s) = Pending(obj.stack) /\ Left(obj) = obj.buf
  BY <1>2, <1>3, StreamFacts
<1>5. /\ obj.buf \in Seq(Nat) /\ obj.limit \in Int /\ obj.severity \in Levels
      /\ Pending(obj.stack) \in Seq(Nat)
  BY StreamFacts
<1>6. out \in Outsides
  BY DEF StreamHolds
<1>7. S!Own(obj.buf) = Bytes(obj.buf) /\ Bytes(obj.buf) \subseteq Nat
  BY <1>5, SetOfBytes, BytesAreNumbers DEF S!Own
<1>8. PICK B, l : B = Bytes(obj.buf) /\ l = obj.limit
  OBVIOUS
<1>9. /\ out'.hidden = out.hidden \cup (B \X {l}) /\ out'.sink = out.sink
      /\ out'.level = out.level /\ out'.gone = out.gone /\ out'.noroom = out.noroom
      /\ out'.filling = out.filling /\ out' \in Outsides
  <2>1. B \X {l} \subseteq Nat \X Int
    BY <1>5, <1>7, <1>8
  <2> QED
    BY <1>2, <1>6, <1>7, <1>8, <2>1 DEF Outsides
<1>10. Hidden(out') = Hidden(out) \cup B
  <2>1. \A x : x \in Hidden(out') => x \in Hidden(out) \cup B
    BY <1>9 DEF Hidden
  <2>2. \A x : x \in Hidden(out) => x \in Hidden(out')
    BY <1>9 DEF Hidden
  <2>3. ASSUME NEW x \in B PROVE x \in Hidden(out')
    <3>1. << x, l >> \in out'.hidden /\ << x, l >>[1] = x
      BY <1>9, <2>3
    <3> QED
      BY <3>1 DEF Hidden
  <2> QED
    BY <2>1, <2>2, <2>3
<1>11. Missing(out') \ {0} = (Missing(out) \cup Bytes(Left(obj))) \ {0}
  BY <1>4, <1>8, <1>9, <1>10 DEF Missing
<1>12. \A x \in B : x \in 1..Len(out.level) /\ out.level[x] = obj.severity
  <2>1. Bytes(obj.buf \o Pending(obj.stack)) = B \cup Bytes(Pending(obj.stack))
    BY <1>5, <1>8, BytesOfJoined
  <2> QED
    BY <1>4, <2>1 DEF StreamHolds, OneSeverity
<1>13. B # {} => obj.severity > l \/ obj.severity = 0
  <2> SUFFICES ASSUME B # {} PROVE obj.severity > l \/ obj.severity = 0
    OBVIOUS
  <2>1. obj.buf # << >>
    <3>1. Bytes(<< >>) = {}
      BY EmptySeq DEF Bytes
    <3> QED
      BY <1>8, <3>1
  <2>2. obj.severity \in Int
    <3>1. TopLevel \in Nat
      BY DEF S!StreamAssumption
    <3> QED
      BY <1>5, <3>1 DEF Levels
  <2> QED
    BY <1>2, <1>5, <1>8, <2>1, <2>2 DEF S!Shown, S!Visible, S!None
<1>14. RightlyHidden(out')
  <2> SUFFICES ASSUME NEW h \in out'.hidden
               PROVE  h[1] \in 1..Len(out.level)
                      /\ (out.level[h[1]] > h[2] \/ out.level[h[1]] = 0)
    BY <1>9 DEF RightlyHidden
  <2>1. CASE h \in out.hidden
    BY <2>1 DEF StreamHolds, RightlyHidden
  <2>2. CASE h \in B \X {l}
    <3>1. h[1] \in B /\ h[2] = l
      BY <2>2
    <3> QED
      BY <1>12, <1>13, <3>1
  <2> QED
    BY <1>9, <2>1, <2>2
<1>15. obj' = [obj EXCEPT !.buf = << >>, !.stack = s]
  BY <1>2, <1>3
<1> QED
  BY <1>3, <1>4, <1>9, <1>11, <1>14, <1>15, GivenUpKeeps

(* What is left of the buffer is given up after an error.                  *)
LEMMA DrainFailsKeeps ==
  ASSUME S!StreamAssumption, StreamHolds(obj, out), S!DrainFails
  PROVE  StreamHolds(obj', out')
<1>1. PICK f, s : f = obj.stack[1] /\ s = Tail(obj.stack)
  OBVIOUS
<1>2. /\ ~S!Idle /\ S!Top.do = "drain"
      /\ obj' = [obj EXCEPT !.buf = << >>, !.stack = S!Below]
      /\ out' = [out EXCEPT !.gone = out.gone \cup S!ToSet(SubSeq(obj.buf, S!Top.at + 1, Len(obj.buf)))]
  BY DEF S!DrainFails, S!Doing
<1>3. /\ S!Top = f /\ S!Below = s /\ Sound(s, obj.class) /\ Start(s) = 0
      /\ f.do # "put" => Pending(s) = Pending(obj.stack)
      /\ f.do = "drain" => Start(obj.stack) = f.at /\ f.at \in Nat
  BY <1>1, <1>2, TopRule
<1>4. PICK l : l = Left(obj)
  OBVIOUS
<1>5. /\ Pending(s) = Pending(obj.stack) /\ l \in Seq(Nat)
      /\ SubSeq(obj.buf, S!Top.at + 1, Len(obj.buf)) = l
  BY <1>2, <1>3, <1>4, StreamFacts DEF Left
<1>6. S!ToSet(l) \subseteq Nat /\ S!ToSet(l) \ {0} = Bytes(l)
  BY <1>5, SetOfBytes
<1>7. out \in Outsides
  BY DEF StreamHolds
<1>8. /\ out' \in Outsides /\ out'.sink = out.sink /\ out'.level = out.level
      /\ out'.noroom = out.noroom /\ out'.filling = out.filling /\ out'.hidden = out.hidden
      /\ out'.gone = out.gone \cup S!ToSet(l)
  BY <1>2, <1>5, <1>6, <1>7 DEF Outsides
<1>9. Missing(out') \ {0} = (Missing(out) \cup Bytes(Left(obj))) \ {0}
  BY <1>4, <1>6, <1>8 DEF Missing, Hidden
<1>10. RightlyHidden(out')
  BY <1>8 DEF StreamHolds, RightlyHidden
<1>11. obj' = [obj EXCEPT !.buf = << >>, !.stack = s]
  BY <1>2, <1>3
<1> QED
  BY <1>3, <1>5, <1>8, <1>9, <1>10, <1>11, GivenUpKeeps

(* All has been written, and nothing is left of the buffer.                *)
LEMMA DrainedKeeps ==
  ASSUME S!StreamAssumption, StreamHolds(obj, out), S!Drained
  PROVE  StreamHolds(obj', out')
<1>1. PICK f, s : f = obj.stack[1] /\ s = Tail(obj.stack)
  OBVIOUS
<1>2. /\ ~S!Idle /\ S!Top.do = "drain" /\ S!Top.at >= Len(obj.buf) /\ out' = out
      /\ obj' = [obj EXCEPT !.buf = << >>, !.stack = S!Below]
  BY DEF S!Drained, S!Doing
<1>3. /\ S!Top = f /\ S!Below = s /\ Sound(s, obj.class) /\ Start(s) = 0
      /\ f.do # "put" => Pending(s) = Pending(obj.stack)
      /\ f.do = "drain" => Start(obj.stack) = f.at /\ f.at \in Nat
  BY <1>1, <1>2, TopRule
<1>4. obj.buf \in Seq(Nat) /\ Pending(s) = Pending(obj.stack) /\ f.at \in Nat
      /\ Start(obj.stack) = f.at /\ f.at >= Len(obj.buf)
  BY <1>2, <1>3, StreamFacts
<1>5. Left(obj) = << >>
  BY <1>4, RestOfBuffer DEF Left
<1>6. Bytes(Left(obj)) = {}
  BY <1>5, EmptySeq DEF Bytes
<1>7. /\ out' \in Outsides /\ RightlyHidden(out')
      /\ Missing(out') \ {0} = (Missing(out) \cup Bytes(Left(obj))) \ {0}
      /\ out'.sink = out.sink /\ out'.level = out.level /\ out'.noroom = out.noroom
      /\ out'.filling = out.filling
  BY <1>2, <1>6 DEF StreamHolds
<1>8. obj' = [obj EXCEPT !.buf = << >>, !.stack = s]
  BY <1>2, <1>3
<1> QED
  BY <1>3, <1>4, <1>7, <1>8, GivenUpKeeps

(* A part of what is left arrives.                                         *)
LEMMA DrainKeeps ==
  ASSUME StreamHolds(obj, out), S!Drain
  PROVE  StreamHolds(obj', out')
<1>1. PICK f, s : f = obj.stack[1] /\ s = Tail(obj.stack)
  OBVIOUS
<1>2. ~S!Idle /\ S!Top.do = "drain"
  BY DEF S!Drain, S!Doing
<1>3. /\ S!Top = f /\ S!Below = s /\ Sound(s, obj.class) /\ Quiet(s) /\ f \in Frames
      /\ obj.stack = << f >> \o s /\ s \in Seq(Frames)
      /\ f.do # "put" => Pending(s) = Pending(obj.stack)
      /\ f.do = "drain" => Start(obj.stack) = f.at /\ f.at \in Nat
  BY <1>1, <1>2, TopRule
<1>4. PICK at, b : at = f.at /\ b = obj.buf
  OBVIOUS
<1>5. f.do = "drain" /\ at \in Nat /\ Start(obj.stack) = at /\ Pending(s) = Pending(obj.stack)
      /\ b \in Seq(Nat) /\ Len(b) \in Nat /\ at < Len(b)
  BY <1>2, <1>3, <1>4, StreamFacts DEF S!Drain
<1>6. PICK n \in 1..(Len(b) - at) :
        /\ obj' = [obj EXCEPT !.stack[1].at = @ + n]
        /\ out' = [out EXCEPT !.sink = @ \o SubSeq(b, at + 1, at + n)]
  BY <1>3, <1>4 DEF S!Drain
<1>7. n \in Nat /\ at + n \in Nat /\ at + n <= Len(b)
  BY <1>5
<1>8. PICK t : t = << S!DrainFrame(at + n) >> \o s
  OBVIOUS
<1>9. Sound(t, obj.class) /\ Start(t) = at + n /\ ~EntryNext(t) /\ FlushIsNext(t)
      /\ Pending(t) = Pending(s)
  <2>1. PICK to : to = at + n
    OBVIOUS
  <2>2. Sound(s, obj.class) /\ Quiet(s) /\ to \in Nat /\ t = << S!DrainFrame(to) >> \o s
    BY <1>3, <1>7, <1>8, <2>1
  <2>3. Sound(t, obj.class) /\ Start(t) = to /\ ~EntryNext(t) /\ FlushIsNext(t)
        /\ Pending(t) = Pending(s)
    BY ONLY <2>2, DrainFirst
  <2> QED
    BY <2>1, <2>3
<1>10. obj \in Streams /\ out \in Outsides
  BY DEF StreamHolds
<1>11. obj' = [obj EXCEPT !.stack = t]
  <2>1. PICK g, k : g = S!DrainFrame(at + n) /\ k = obj.stack
    OBVIOUS
  <2>2. f \in Drains
    BY <1>3, <1>5 DEF Frames, Puts, Flushes, Drains, Entries
  <2>3. g = [f EXCEPT !.at = f.at + n]
    BY <1>4, <1>5, <2>1, <2>2 DEF Drains, S!DrainFrame
  <2>4. g \in Frames
    BY <1>7, <2>1, FrameTypes
  <2>5. /\ k \in Seq(Frames) /\ Len(k) = Len(s) + 1 /\ Len(s) \in Nat /\ k # << >> /\ k[1] = f
        /\ \A i \in 1..Len(k) : i # 1 => k[i] = s[i - 1]
    BY <1>3, <2>1, Before
  <2>6. /\ t \in Seq(Frames) /\ Len(t) = Len(s) + 1 /\ t[1] = g
        /\ \A i \in 1..Len(t) : i # 1 => t[i] = s[i - 1]
    BY <1>3, <1>8, <2>1, <2>4, Before
  <2>7. PICK u : u = [k EXCEPT ![1] = g]
    OBVIOUS
  <2>8. u = t
    <3>1. 1 \in 1..Len(k)
      BY <2>5
    <3>2. u \in Seq(Frames) /\ Len(u) = Len(k)
          /\ \A i \in 1..Len(u) : u[i] = IF i = 1 THEN g ELSE k[i]
      BY <2>4, <2>5, <2>7, <3>1, ExceptSeq
    <3>3. ASSUME NEW i \in 1..Len(u) PROVE u[i] = t[i]
      BY <2>5, <2>6, <3>2
    <3> QED
      BY <2>5, <2>6, <3>2, <3>3, SeqEqual
  <2>9. obj' = [obj EXCEPT !.stack = [k EXCEPT ![1] = g]]
    <3>1. obj' = [obj EXCEPT !.stack =
                   [obj.stack EXCEPT ![1] = [obj.stack[1] EXCEPT !.at = obj.stack[1].at + n]]]
      BY <1>6
    <3> QED
      BY <1>1, <2>1, <2>3, <3>1
  <2> QED
    BY <2>7, <2>8, <2>9
<1>12. /\ obj'.stack = t /\ obj'.severity = obj.severity /\ obj'.buf = b
       /\ obj'.class = obj.class /\ obj' \in Streams
  <2>1. t \in Seq(Frames)
    BY <1>9 DEF Sound
  <2> QED
    BY <1>4, <1>10, <1>11, <2>1 DEF Streams
<1>13. PICK m, l, p, a : /\ m = SubSeq(b, at + 1, at + n) /\ l = SubSeq(b, (at + n) + 1, Len(b))
                         /\ p = Pending(s) /\ a = out.sink
  OBVIOUS
<1>14. Left(obj) = m \o l /\ m \in Seq(Nat) /\ l \in Seq(Nat)
  <2>1. at + 1 \in 1..(Len(b) + 1) /\ at + n \in ((at + 1) - 1)..Len(b) /\ Len(b) \in (at + n)..Len(b)
    BY <1>5, <1>7
  <2>2. SubSeq(b, at + 1, at + n) \o SubSeq(b, (at + n) + 1, Len(b)) = SubSeq(b, at + 1, Len(b))
    BY <1>5, <2>1, ConcatAdjacentSubSeq
  <2>3. l \in Seq(Nat)
    BY <1>5, <1>7, <1>13, RestOfBuffer
  <2>4. m \in Seq(Nat)
    <3>1. at + 1 \in Int /\ at + n \in Int /\ \A i \in (at + 1)..(at + n) : b[i] \in Nat
      <4>1. \A i \in (at + 1)..(at + n) : i \in 1..Len(b)
        BY <1>5, <1>7
      <4> QED
        BY <1>5, <1>7, <4>1, ElementOfSeq
    <3> QED
      BY <1>13, <3>1, SubSeqProperties
  <2> QED
    BY <1>4, <1>5, <1>13, <2>2, <2>3, <2>4 DEF Left
<1>15. Left(obj') = l
  BY <1>9, <1>12, <1>13 DEF Left
<1>16. /\ a \in Seq(Nat) /\ p \in Seq(Nat)
       /\ Carries(a \o ((m \o l) \o p), (1..Len(out.level)) \ Missing(out))
       /\ Missing(out) \subseteq 0..Len(out.level)
  <2>1. /\ out.sink \in Seq(Nat) /\ Pending(obj.stack) \in Seq(Nat)
        /\ Carries(out.sink \o (Left(obj) \o Pending(obj.stack)),
                   (1..Len(out.level)) \ Missing(out))
        /\ Missing(out) \subseteq 0..Len(out.level)
    BY StreamFacts
  <2> QED
    BY <1>5, <1>13, <1>14, <2>1
<1>17. a \o ((m \o l) \o p) = (a \o m) \o (l \o p) /\ a \o m \in Seq(Nat)
  <2>1. a \in Seq(Nat) /\ m \in Seq(Nat) /\ l \in Seq(Nat) /\ p \in Seq(Nat)
    BY <1>14, <1>16
  <2>2. MovesOne(p, a, m, l, p)
    BY <2>1, OneByte
  <2> QED
    BY <2>1, <2>2, ConcatProperties DEF MovesOne
<1>18. /\ out'.sink = a \o m /\ out'.level = out.level /\ out'.hidden = out.hidden
       /\ out'.gone = out.gone /\ out'.noroom = out.noroom /\ out'.filling = out.filling
       /\ out' \in Outsides
  BY <1>6, <1>10, <1>13, <1>17 DEF Outsides
<1>19. Missing(out') = Missing(out)
  BY <1>18 DEF Missing, Hidden
<1>20. Kept(obj', out')
  BY <1>9, <1>12, <1>13, <1>15, <1>16, <1>17, <1>18, <1>19 DEF Kept
<1>21. InTime(obj')
  BY <1>9, <1>12 DEF InTime
<1>22. OneSeverity(obj', out')
  <2>1. Bytes(l \o p) \subseteq Bytes((m \o l) \o p)
    <3>1. Bytes(l \o p) = Bytes(l) \cup Bytes(p)
      BY <1>14, <1>16, BytesOfJoined
    <3>2. m \o l \in Seq(Nat)
      BY <1>14, ConcatProperties
    <3>3. Bytes((m \o l) \o p) = Bytes(m \o l) \cup Bytes(p)
      BY <1>16, <3>2, BytesOfJoined
    <3>4. Bytes(m \o l) = Bytes(m) \cup Bytes(l)
      BY <1>14, BytesOfJoined
    <3> QED
      BY <3>1, <3>3, <3>4
  <2>2. \A x \in Bytes((m \o l) \o p) : x \in 1..Len(out.level) /\ out.level[x] = obj.severity
    BY <1>5, <1>13, <1>14 DEF StreamHolds, OneSeverity
  <2> QED
    BY <1>9, <1>12, <1>13, <1>15, <1>18, <2>1, <2>2 DEF OneSeverity
<1>23. RightlyHidden(out')
  BY <1>18 DEF StreamHolds, RightlyHidden
<1>24. obj'.class # "BufferStream" => out'.noroom \subseteq {0} \cup out'.filling
  BY <1>12, <1>18 DEF StreamHolds
<1> QED
  BY <1>9, <1>12, <1>18, <1>20, <1>21, <1>22, <1>23, <1>24 DEF StreamHolds

LEMMA StreamStep ==
  ASSUME S!StreamAssumption, StreamHolds(obj, out), S!Next
  PROVE  StreamHolds(obj', out') /\ status' = status
<1>1. status' = status
  BY DEF S!Next, S!Write, S!WriteAndFlush, S!WriteChar, S!Flush, S!Clear,
         S!SetLimit, S!Output, S!Entry, S!Begin, S!Put, S!FlushNothing, S!FlushOutput,
         S!FlushShown, S!FlushHidden, S!Drain, S!DrainFails, S!Drained, S!Calls
<1>2. ASSUME NEW n \in Texts, S!Write(n) PROVE StreamHolds(obj', out')
  BY <1>2, CallersKeep
<1>3. ASSUME NEW n \in Texts, S!WriteAndFlush(n) PROVE StreamHolds(obj', out')
  BY <1>3, CallersKeep
<1>4. ASSUME S!Flush PROVE StreamHolds(obj', out')
  BY <1>4, CallersKeep
<1>5. ASSUME S!Clear PROVE StreamHolds(obj', out')
  BY <1>5, ClearKeeps
<1>6. ASSUME NEW limit \in 0..TopLevel, S!SetLimit(limit) PROVE StreamHolds(obj', out')
  BY <1>6, SettingsKeep
<1>7. ASSUME NEW terminal \in BOOLEAN, S!Output(terminal) PROVE StreamHolds(obj', out')
  BY <1>7, SettingsKeep
<1>8. ASSUME NEW level \in 0..TopLevel, S!Entry(level) PROVE StreamHolds(obj', out')
  BY <1>8, CallersKeep
<1>9. ASSUME S!Begin PROVE StreamHolds(obj', out')
  BY <1>9, BeginKeeps
<1>10. ASSUME S!Put PROVE StreamHolds(obj', out')
  BY <1>10, PutKeeps
<1>11. ASSUME S!FlushNothing PROVE StreamHolds(obj', out')
  BY <1>11, FlushNothingKeeps
<1>12. ASSUME S!FlushOutput PROVE StreamHolds(obj', out')
  BY <1>12, FlushOutputKeeps
<1>13. ASSUME S!FlushShown PROVE StreamHolds(obj', out')
  BY <1>13, FlushShownKeeps
<1>14. ASSUME S!FlushHidden PROVE StreamHolds(obj', out')
  BY <1>14, FlushHiddenKeeps
<1>15. ASSUME S!Drain PROVE StreamHolds(obj', out')
  BY <1>15, DrainKeeps
<1>16. ASSUME S!DrainFails PROVE StreamHolds(obj', out')
  BY <1>16, DrainFailsKeeps
<1>17. ASSUME S!Drained PROVE StreamHolds(obj', out')
  BY <1>17, DrainedKeeps
<1>18. ASSUME NEW n \in Texts, NEW frames \in {<< >>, << S!FlushFrame >>}, S!WriteChar(n, frames)
       PROVE  StreamHolds(obj', out')
  BY <1>18, WriteCharKeeps
<1> QED
  BY <1>1, <1>2, <1>3, <1>4, <1>5, <1>6, <1>7, <1>8, <1>9, <1>10, <1>11, <1>12, <1>13, <1>14, <1>15,
     <1>16, <1>17, <1>18 DEF S!Next

(* The invariant says what Stream!Delivers says.                           *)
LEMMA StreamDeliversAll ==
  ASSUME StreamHolds(obj, out) PROVE StreamDelivers
<1>1. PICK hand, s : hand = S!InHand /\ s = out.sink \o hand
  OBVIOUS
<1>2. hand = Left(obj) \o Pending(obj.stack)
  <2>1. (IF S!Doing("drain") THEN S!Top.at ELSE 0) = Start(obj.stack)
    <3>1. obj.stack # << >> => Head(obj.stack) = obj.stack[1]
      <4>1. obj.stack \in Seq(Frames)
        BY StreamFacts
      <4> QED
        BY <4>1, HeadFirst
    <3> QED
      BY <3>1 DEF S!Doing, S!Idle, S!Top, Start
  <2>2. S!FlattenSeq([i \in 1..Len(obj.stack) |->
                        IF obj.stack[i].do = "put" THEN obj.stack[i].bytes ELSE << >>])
          = Pending(obj.stack)
    BY DEF Pending, PutOf, FlattenSeq, S!FlattenSeq
  <2> QED
    BY <1>1, <2>1, <2>2 DEF S!InHand, Left
<1>3. Carries(s, (1..Len(out.level)) \ Missing(out))
  BY <1>1, <1>2, StreamFacts
<1>4. s \in Seq(Nat) /\ Increasing(s) /\ Bytes(s) = (1..Len(out.level)) \ Missing(out)
  BY <1>3 DEF Carries
<1>5. S!Own(s) = (1..Len(out.level)) \ (Missing(out) \ {0})
  <2>1. S!Own(s) = Bytes(s)
    BY <1>4, SetOfBytes DEF S!Own
  <2>2. 0 \notin 1..Len(out.level)
    OBVIOUS
  <2> QED
    BY <1>4, <2>1, <2>2
<1>6. \A h \in out.hidden : out.level[h[1]] > h[2] \/ out.level[h[1]] = S!None
  BY DEF StreamHolds, RightlyHidden, S!None
<1>7. obj.class # "BufferStream" => out.noroom \subseteq {0} \cup out.filling
  BY DEF StreamHolds
<1> QED
  BY <1>1, <1>4, <1>5, <1>6, <1>7 DEF StreamDelivers, S!Delivers, Increasing, Missing, Hidden

-----------------------------------------------------------------------------
(* The invariant of both holds in every state: neither the client nor the  *)
(* stream ever has a byte that it does not account for.                    *)
THEOREM ChannelsInvHolds == Spec => []ChannelsInv
<1>1. Init => ChannelsInv
  <2>1. ASSUME S!Init PROVE ChannelsInv
    BY <2>1, ChannelAssumption, StreamInit DEF ChannelsInv
  <2>2. ASSUME C!Init PROVE ChannelsInv
    BY <2>2, ChannelAssumption, ClientInit DEF ChannelsInv
  <2> QED
    BY <2>1, <2>2 DEF Init
<1>2. ChannelsInv /\ [Next]_vars => ChannelsInv'
  <2> SUFFICES ASSUME ChannelsInv, [Next]_vars PROVE ChannelsInv'
    OBVIOUS
  <2>1. ASSUME status = "stream", S!Next PROVE ChannelsInv'
    BY <2>1, ChannelAssumption, StreamStep DEF ChannelsInv
  <2>2. ASSUME status = "client", C!Next PROVE ChannelsInv'
    BY <2>2, ChannelAssumption, ClientStep DEF ChannelsInv
  <2>3. ASSUME UNCHANGED vars PROVE ChannelsInv'
    <3>1. obj' = obj /\ out' = out /\ status' = status
      BY <2>3 DEF vars
    <3> QED
      BY <3>1 DEF ChannelsInv
  <2> QED
    BY <2>1, <2>2, <2>3 DEF Next
<1> QED
  BY <1>1, <1>2, PTL DEF Spec

(* A client that looks before it takes (TCPSocket::recv with until_eol)    *)
(* gets every byte once, in order and line by line, however many bytes the *)
(* peer sends at once and however often it is interrupted; and what send   *)
(* reports is what was accepted.                                           *)
THEOREM ClientsGetEveryByte == Spec => []ClientDelivers
<1>1. ChannelsInv => ClientDelivers
  <2>1. CASE status = "client"
    BY <2>1, ClientDeliversAll DEF ChannelsInv
  <2>2. CASE status # "client"
    BY <2>2 DEF ClientDelivers, C!Delivers
  <2> QED
    BY <2>1, <2>2
<1> QED
  BY <1>1, ChannelsInvHolds, PTL

(* No byte written to a stream is lost, repeated or reordered when the     *)
(* buffer fills up in the middle of a write or of the flush of Log, for a  *)
(* buffer of any length greater than 1 and a colour reset of any length,   *)
(* but for the filling to the right of a character that fills the buffer;  *)
(* Log hides only entries above its limit.                                 *)
THEOREM StreamsLoseNothing == Spec => []StreamDelivers
<1>1. ChannelsInv => StreamDelivers
  <2>1. CASE status = "stream"
    BY <2>1, StreamDeliversAll DEF ChannelsInv
  <2>2. CASE status # "stream"
    BY <2>2 DEF StreamDelivers, S!Delivers
  <2> QED
    BY <2>1, <2>2
<1> QED
  BY <1>1, ChannelsInvHolds, PTL

-----------------------------------------------------------------------------
(* Numbers: what is left of a text behind its spaces, and the prefix.      *)

LEMMA NumberFacts ==
  /\ Digit \in [DOMAIN Digit -> 0..15] /\ DOMAIN Digit \cap P!Spaces = {}
  /\ P!Largest \in DOMAIN Size /\ Size[P!Largest] \in Nat
  /\ \A type \in DOMAIN Size : Size[type] \in 1..Size[P!Largest]
  /\ \E half \in 1..Size[P!Largest] : Size[P!Largest] = 2 * half
<1>1. Size[P!Largest] \in 1..Size[P!Largest]
  BY NumbersHold DEF P!NumbersAssumption
<1> QED
  BY <1>1, NumbersHold DEF P!NumbersAssumption

LEMMA LeastIs ==
  ASSUME NEW T, T \subseteq Nat, T # {}
  PROVE  P!Min(T) \in T /\ \A y \in T : P!Min(T) <= y
<1>1. \E x \in T : \A y \in T : x <= y
  BY LeastNumber
<1>2. PICK m : m = CHOOSE x \in T : \A y \in T : x <= y
  OBVIOUS
<1>3. m \in T /\ \A y \in T : m <= y
  BY <1>1, <1>2
<1> QED
  BY <1>2, <1>3 DEF P!Min

(* No space is in front.                                                   *)
Blank == " "
Bare(s) == s = << >> \/ s[1] # Blank

From(t) == {i \in 1..(Len(t) + 1) : i = Len(t) + 1 \/ t[i] # Blank}

LEMMA TrimmedFrom == \A t : P!Trimmed(t) = SubSeq(t, P!Min(From(t)), Len(t))
BY Zenon DEF P!Trimmed, From, Blank

LEMMA TrimmedRule ==
  ASSUME NEW X, NEW t \in Seq(X)
  PROVE  P!Trimmed(t) \in Seq(X) /\ Bare(P!Trimmed(t))
<1>1. Len(t) \in Nat
  BY LenProperties
<1>2. PICK from : from = P!Min(From(t))
  OBVIOUS
<1>3. Len(t) + 1 \in From(t) /\ From(t) \subseteq Nat
  BY <1>1 DEF From
<1>4. from \in From(t)
  BY <1>2, <1>3, LeastIs
<1>5. PICK s : s = SubSeq(t, from, Len(t))
  OBVIOUS
<1>6. P!Trimmed(t) = s
  BY <1>2, <1>5, TrimmedFrom
<1>7. from \in 1..(Len(t) + 1)
  BY <1>4 DEF From
<1>8. /\ s \in Seq(X)
      /\ Len(s) = IF from <= Len(t) THEN Len(t) - from + 1 ELSE 0
      /\ \A i \in 1..(Len(t) - from + 1) : s[i] = t[from + i - 1]
  BY <1>1, <1>5, <1>7, SubSeqProperties
<1>9. Bare(s)
  <2>1. CASE from = Len(t) + 1
    <3>1. Len(s) = 0
      BY <1>1, <1>8, <2>1
    <3> QED
      BY <1>8, <3>1, EmptySeq DEF Bare
  <2>2. CASE from # Len(t) + 1
    <3>1. t[from] # Blank
      BY <1>4, <2>2 DEF From
    <3>2. 1 \in 1..(Len(t) - from + 1) /\ from + 1 - 1 = from
      BY <1>1, <1>7, <2>2
    <3>3. s[1] = t[from]
      BY <1>8, <3>2
    <3> QED
      BY <3>1, <3>3 DEF Bare
  <2> QED
    BY <2>1, <2>2
<1> QED
  BY <1>6, <1>8, <1>9

LEMMA TrimmedTwice ==
  ASSUME NEW X, NEW s \in Seq(X), Bare(s)
  PROVE  P!Trimmed(s) = s
<1>1. Len(s) \in Nat
  BY LenProperties
<1>2. 1 \in From(s) /\ From(s) \subseteq Nat /\ \A i \in From(s) : 1 <= i
  <2>1. CASE s = << >>
    BY <1>1, <2>1, EmptySeq DEF From
  <2>2. CASE s # << >>
    BY <1>1, <2>2 DEF From, Bare
  <2> QED
    BY <2>1, <2>2
<1>3. P!Min(From(s)) = 1
  <2>1. P!Min(From(s)) \in From(s) /\ P!Min(From(s)) <= 1
    BY <1>2, LeastIs
  <2>2. P!Min(From(s)) \in Nat /\ 1 <= P!Min(From(s))
    BY <1>2, <2>1
  <2> QED
    BY <2>1, <2>2
<1>4. P!Trimmed(s) = SubSeq(s, 1, Len(s))
  BY <1>3, TrimmedFrom
<1> QED
  BY <1>1, <1>4, SubSeqFull

(* What is behind the sign, or behind both signs.                          *)
BehindSign(t) ==
  IF P!Sign(P!Trimmed(t)) \in {"-", "+"} THEN P!Trimmed(Tail(P!Trimmed(t))) ELSE P!Trimmed(t)
BehindPlus(s) == IF P!Sign(s) = "+" THEN P!Trimmed(Tail(s)) ELSE s
DigitsOf(t, signed) == P!Based(BehindPlus(IF signed THEN BehindSign(t) ELSE P!Trimmed(t)))

LEMMA BasedRule ==
  ASSUME NEW X, NEW t \in Seq(X)
  PROVE  P!Based(t).base \in {0, 2, 8, 10, 16} /\ P!Based(t).digits \in Seq(X)
<1>1. Len(t) \in Nat
  BY LenProperties
<1>2. \A n \in {2, 3} : SubSeq(t, n, Len(t)) \in Seq(X)
  BY <1>1, SubSeqProperties
<1>3. << >> \in Seq(X)
  BY EmptySeq
<1> DEFINE second == IF Len(t) > 1 /\ t[1] = "0" THEN t[2] ELSE ""
<1>4. P!Based(t) = CASE second = "" -> [base |-> 10, digits |-> t]
       [] second \in {"x", "X"} -> [base |-> 16, digits |-> SubSeq(t, 3, Len(t))]
       [] second \in {"b", "B"} -> [base |-> 2, digits |-> SubSeq(t, 3, Len(t))]
       [] second \in P!Decimal /\ Digit[second] \in 1..7 -> [base |-> 8, digits |-> SubSeq(t, 2, Len(t))]
       [] OTHER -> [base |-> 0, digits |-> << >>]
  BY DEF P!Based
<1> HIDE DEF second
<1>5. PICK r : r = P!Based(t)
  OBVIOUS
<1>6. \/ r = [base |-> 10, digits |-> t]
      \/ r = [base |-> 16, digits |-> SubSeq(t, 3, Len(t))]
      \/ r = [base |-> 2, digits |-> SubSeq(t, 3, Len(t))]
      \/ r = [base |-> 8, digits |-> SubSeq(t, 2, Len(t))]
      \/ r = [base |-> 0, digits |-> << >>]
  BY <1>4, <1>5
<1>7. r.base \in {0, 2, 8, 10, 16} /\ r.digits \in Seq(X)
  <2>1. CASE r = [base |-> 10, digits |-> t]
    BY <2>1
  <2>2. CASE r = [base |-> 16, digits |-> SubSeq(t, 3, Len(t))]
    BY <1>2, <2>2
  <2>3. CASE r = [base |-> 2, digits |-> SubSeq(t, 3, Len(t))]
    BY <1>2, <2>3
  <2>4. CASE r = [base |-> 8, digits |-> SubSeq(t, 2, Len(t))]
    BY <1>2, <2>4
  <2>5. CASE r = [base |-> 0, digits |-> << >>]
    BY <1>3, <2>5
  <2> QED
    BY <1>6, <2>1, <2>2, <2>3, <2>4, <2>5
<1> QED
  BY <1>5, <1>7

LEMMA BehindRule ==
  ASSUME NEW X, NEW s \in Seq(X), Bare(s)
  PROVE  BehindPlus(s) \in Seq(X)
<1>1. CASE P!Sign(s) = "+"
  <2>1. s # << >>
    BY <1>1 DEF P!Sign
  <2>2. Tail(s) \in Seq(X)
    BY <2>1, HeadTailProperties
  <2> QED
    BY <1>1, <2>2, TrimmedRule DEF BehindPlus
<1>2. CASE P!Sign(s) # "+"
  BY <1>2 DEF BehindPlus
<1> QED
  BY <1>1, <1>2

-----------------------------------------------------------------------------
(* The loop over the digits, and the number they mean.                     *)

NoSpacer == ""
Begin(base) == [ok |-> base # 0, value |-> 0, spacer |-> NoSpacer]
Counted(f, ds, base, n) ==
  f = [i \in 0..n |-> IF i = 0 THEN Begin(base) ELSE P!NextDigit(f[i - 1], ds[i], base)]
Valued(f, ds, base, n) ==
  f = [i \in 0..n |-> IF i = 0 THEN 0 ELSE P!NextPlace(f[i - 1], ds[i], base)]

LEMMA CountsExist ==
  ASSUME NEW ds, NEW base, NEW n \in Nat
  PROVE  \E f : Counted(f, ds, base, n)
<1> DEFINE U == {m \in Nat : \E f : Counted(f, ds, base, m)}
<1>1. 0 \in U
  <2>1. PICK f : f = [i \in 0..0 |-> Begin(base)]
    OBVIOUS
  <2>2. f = [i \in 0..0 |-> IF i = 0 THEN Begin(base) ELSE P!NextDigit(f[i - 1], ds[i], base)]
    BY <2>1
  <2>3. Counted(f, ds, base, 0)
    BY <2>2 DEF Counted
  <2> QED
    BY <2>3
<1>2. ASSUME NEW m \in Nat, m \in U PROVE m + 1 \in U
  <2>1. PICK f : Counted(f, ds, base, m)
    BY <1>2
  <2>2. \A i \in 0..m : f[i] = IF i = 0 THEN Begin(base) ELSE P!NextDigit(f[i - 1], ds[i], base)
    BY <2>1 DEF Counted
  <2>3. PICK g : g = [i \in 0..(m + 1) |-> IF i <= m THEN f[i] ELSE P!NextDigit(f[m], ds[m + 1], base)]
    OBVIOUS
  <2>4. (\A i \in 0..m : g[i] = f[i]) /\ g[m + 1] = P!NextDigit(f[m], ds[m + 1], base)
    BY <2>3
  <2>5. ASSUME NEW i \in 0..(m + 1)
        PROVE  g[i] = IF i = 0 THEN Begin(base) ELSE P!NextDigit(g[i - 1], ds[i], base)
    <3>1. CASE i = 0
      BY <2>2, <2>4, <3>1
    <3>2. CASE i # 0 /\ i <= m
      <4>1. i \in 0..m /\ i - 1 \in 0..m
        BY <3>2
      <4> QED
        BY <2>2, <2>4, <3>2, <4>1
    <3>3. CASE i = m + 1
      <4>1. i # 0 /\ i - 1 = m /\ m \in 0..m
        BY <3>3
      <4> QED
        BY <2>4, <3>3, <4>1
    <3> QED
      BY <3>1, <3>2, <3>3
  <2>6. DOMAIN g = 0..(m + 1) /\ g = [i \in DOMAIN g |-> g[i]]
    BY <2>3
  <2>7. Counted(g, ds, base, m + 1)
    BY <2>5, <2>6 DEF Counted
  <2> QED
    BY <2>7
<1> HIDE DEF U
<1>3. n \in U
  BY <1>1, <1>2, NumberInduction
<1> QED
  BY <1>3 DEF U

LEMMA ValuesExist ==
  ASSUME NEW ds, NEW base, NEW n \in Nat
  PROVE  \E f : Valued(f, ds, base, n)
<1> DEFINE U == {m \in Nat : \E f : Valued(f, ds, base, m)}
<1>1. 0 \in U
  <2>1. PICK f : f = [i \in 0..0 |-> 0]
    OBVIOUS
  <2>2. f = [i \in 0..0 |-> IF i = 0 THEN 0 ELSE P!NextPlace(f[i - 1], ds[i], base)]
    BY <2>1
  <2>3. Valued(f, ds, base, 0)
    BY <2>2 DEF Valued
  <2> QED
    BY <2>3
<1>2. ASSUME NEW m \in Nat, m \in U PROVE m + 1 \in U
  <2>1. PICK f : Valued(f, ds, base, m)
    BY <1>2
  <2>2. \A i \in 0..m : f[i] = IF i = 0 THEN 0 ELSE P!NextPlace(f[i - 1], ds[i], base)
    BY <2>1 DEF Valued
  <2>3. PICK g : g = [i \in 0..(m + 1) |-> IF i <= m THEN f[i] ELSE P!NextPlace(f[m], ds[m + 1], base)]
    OBVIOUS
  <2>4. (\A i \in 0..m : g[i] = f[i]) /\ g[m + 1] = P!NextPlace(f[m], ds[m + 1], base)
    BY <2>3
  <2>5. ASSUME NEW i \in 0..(m + 1)
        PROVE  g[i] = IF i = 0 THEN 0 ELSE P!NextPlace(g[i - 1], ds[i], base)
    <3>1. CASE i = 0
      BY <2>2, <2>4, <3>1
    <3>2. CASE i # 0 /\ i <= m
      <4>1. i \in 0..m /\ i - 1 \in 0..m
        BY <3>2
      <4> QED
        BY <2>2, <2>4, <3>2, <4>1
    <3>3. CASE i = m + 1
      <4>1. i # 0 /\ i - 1 = m /\ m \in 0..m
        BY <3>3
      <4> QED
        BY <2>4, <3>3, <4>1
    <3> QED
      BY <3>1, <3>2, <3>3
  <2>6. DOMAIN g = 0..(m + 1) /\ g = [i \in DOMAIN g |-> g[i]]
    BY <2>3
  <2>7. Valued(g, ds, base, m + 1)
    BY <2>5, <2>6 DEF Valued
  <2> QED
    BY <2>7
<1> HIDE DEF U
<1>3. n \in U
  BY <1>1, <1>2, NumberInduction
<1> QED
  BY <1>3 DEF U

(* The states of the loop, from one digit to the next.                     *)
LEMMA DigitsRule ==
  ASSUME NEW b, Len(b.digits) \in Nat
  PROVE  \E f : /\ f[0] = Begin(b.base) /\ P!Digits(b) = f[Len(b.digits)]
                /\ \A i \in 1..Len(b.digits) :
                     f[i] = P!NextDigit(f[i - 1], b.digits[i], b.base)
<1>1. \E f : Counted(f, b.digits, b.base, Len(b.digits))
  BY CountsExist
<1>2. PICK f : f = CHOOSE g : Counted(g, b.digits, b.base, Len(b.digits))
  OBVIOUS
<1>3. Counted(f, b.digits, b.base, Len(b.digits))
  BY <1>1, <1>2
<1>4. P!Digits(b) = f[Len(b.digits)]
  BY <1>2 DEF P!Digits, Counted, Begin, NoSpacer
<1>5. \A i \in 0..Len(b.digits) :
        f[i] = IF i = 0 THEN Begin(b.base) ELSE P!NextDigit(f[i - 1], b.digits[i], b.base)
  BY <1>3 DEF Counted
<1>6. 0 \in 0..Len(b.digits) /\ \A i \in 1..Len(b.digits) : i \in 0..Len(b.digits) /\ i # 0
  OBVIOUS
<1> QED
  BY <1>4, <1>5, <1>6

LEMMA MeantRule ==
  ASSUME NEW b, Len(b.digits) \in Nat
  PROVE  \E f : /\ f[0] = 0 /\ P!Meant(b) = f[Len(b.digits)]
                /\ \A i \in 1..Len(b.digits) :
                     f[i] = P!NextPlace(f[i - 1], b.digits[i], b.base)
<1>1. \E f : Valued(f, b.digits, b.base, Len(b.digits))
  BY ValuesExist
<1>2. PICK f : f = CHOOSE g : Valued(g, b.digits, b.base, Len(b.digits))
  OBVIOUS
<1>3. Valued(f, b.digits, b.base, Len(b.digits))
  BY <1>1, <1>2
<1>4. P!Meant(b) = f[Len(b.digits)]
  BY <1>2 DEF P!Meant, Valued
<1>5. \A i \in 0..Len(b.digits) :
        f[i] = IF i = 0 THEN 0 ELSE P!NextPlace(f[i - 1], b.digits[i], b.base)
  BY <1>3 DEF Valued
<1>6. 0 \in 0..Len(b.digits) /\ \A i \in 1..Len(b.digits) : i \in 0..Len(b.digits) /\ i # 0
  OBVIOUS
<1> QED
  BY <1>4, <1>5, <1>6

States == [ok : BOOLEAN, value : Nat, spacer : P!Spaces \cup {NoSpacer}]

LEMMA NoSpace == NoSpacer \notin P!Spaces
BY Zenon DEF P!Spaces, NoSpacer

(* What a space, a digit and any other character do to the state.          *)
LEMMA SpaceRule ==
  ASSUME NEW n \in States, NEW base, NEW c \in P!Spaces,
         NEW r, r = P!NextDigit(n, c, base)
  PROVE  /\ r \in States
         /\ r.ok <=> n.ok /\ n.spacer \in {NoSpacer, c}
         /\ r.value = n.value
         /\ r.spacer = c
<1>1. c \notin DOMAIN Digit
  BY NumberFacts
<1>3. r = [n EXCEPT !.ok = @ /\ n.spacer \in {NoSpacer, c}, !.spacer = c]
  BY <1>1 DEF P!NextDigit, NoSpacer
<1>4. /\ r \in States /\ r.ok = (n.ok /\ n.spacer \in {NoSpacer, c})
      /\ r.value = n.value /\ r.spacer = c
  BY <1>3 DEF States
<1> QED
  BY <1>4

LEMMA DigitRule ==
  ASSUME NEW n \in States, NEW base \in Nat, NEW c \in DOMAIN Digit,
         NEW v, v = (n.value * base + Digit[c]) % Size[P!Largest],
         NEW r, r = P!NextDigit(n, c, base)
  PROVE  /\ r \in States
         /\ r.ok <=> n.ok /\ Digit[c] <= base /\ v >= n.value
         /\ r.value = v
         /\ r.spacer = n.spacer
<1>1. c \notin P!Spaces /\ Digit[c] \in Nat
  BY NumberFacts
<1>3. r = [n EXCEPT !.value = v, !.ok = @ /\ Digit[c] <= base /\ v >= n.value]
  BY <1>1 DEF P!NextDigit
<1>4. v \in Nat
  <2>1. n.value \in Nat
    BY DEF States
  <2>2. n.value * base \in Nat
    BY <2>1
  <2>3. Size[P!Largest] \in Nat /\ Size[P!Largest] > 0
    BY NumberFacts
  <2> QED
    BY <1>1, <2>2, <2>3
<1>5. /\ r \in States /\ r.ok = (n.ok /\ Digit[c] <= base /\ v >= n.value)
      /\ r.value = v /\ r.spacer = n.spacer
  BY <1>3, <1>4 DEF States
<1> QED
  BY <1>5

LEMMA OtherRule ==
  ASSUME NEW n \in States, NEW base, NEW c, c \notin P!Spaces \cup DOMAIN Digit,
         NEW r, r = P!NextDigit(n, c, base)
  PROVE  r \in States /\ ~r.ok
<1>2. r = [n EXCEPT !.ok = FALSE]
  BY DEF P!NextDigit
<1>3. r \in States /\ r.ok = FALSE
  BY <1>2 DEF States
<1> QED
  BY <1>3

(* A character that is read as a part of a number.                         *)
Fine(c, base, spacer) ==
  (c \in P!Spaces /\ c = spacer) \/ (c \in DOMAIN Digit /\ Digit[c] <= base)

(* After each character the loop is content only if all were fine.         *)
LEMMA RefusesAll ==
  ASSUME NEW f, NEW ds, NEW base \in Nat, NEW n \in Nat, f[0] = Begin(base),
         \A i \in 1..n : f[i] = P!NextDigit(f[i - 1], ds[i], base)
  PROVE  /\ f[n] \in States
         /\ f[n].ok => base # 0 /\ \A j \in 1..n : Fine(ds[j], base, f[n].spacer)
<1> DEFINE Right(i) == /\ f[i] \in States
                       /\ f[i].ok => base # 0 /\ \A j \in 1..i : Fine(ds[j], base, f[i].spacer)
           U == {i \in Nat : i <= n => Right(i)}
<1>1. 0 \in U
  <2>1. Begin(base) \in States /\ (Begin(base).ok => base # 0)
    BY DEF Begin, States
  <2>2. \A j \in 1..0 : Fine(ds[j], base, f[0].spacer)
    OBVIOUS
  <2> QED
    BY <2>1, <2>2
<1>2. ASSUME NEW m \in Nat, m \in U PROVE m + 1 \in U
  <2> SUFFICES ASSUME m + 1 <= n PROVE Right(m + 1)
    OBVIOUS
  <2>1. Right(m)
    BY <1>2
  <2>2. m + 1 \in 1..n /\ (m + 1) - 1 = m
    OBVIOUS
  <2>3. PICK s, c : s = f[m] /\ c = ds[m + 1]
    OBVIOUS
  <2>4. PICK r : r = f[m + 1]
    OBVIOUS
  <2>5. r = P!NextDigit(s, c, base)
    BY <2>2, <2>3, <2>4
  <2>6. s \in States /\ (s.ok => base # 0 /\ \A j \in 1..m : Fine(ds[j], base, s.spacer))
    BY <2>1, <2>3
  <2>7. \A j \in 1..(m + 1) : j \in 1..m \/ j = m + 1
    OBVIOUS
  <2>8. r \in States /\ (r.ok => base # 0 /\ \A j \in 1..(m + 1) : Fine(ds[j], base, r.spacer))
    <3>1. CASE c \in P!Spaces
      <4>1. r \in States /\ (r.ok <=> s.ok /\ s.spacer \in {NoSpacer, c}) /\ r.spacer = c
        BY <2>5, <2>6, <3>1, SpaceRule
      <4>2. ASSUME r.ok PROVE base # 0 /\ \A j \in 1..(m + 1) : Fine(ds[j], base, r.spacer)
        <5>1. s.ok /\ s.spacer \in {NoSpacer, c}
          BY <4>1, <4>2
        <5>2. ASSUME NEW j \in 1..m PROVE Fine(ds[j], base, c)
          <6>1. Fine(ds[j], base, s.spacer)
            BY <2>6, <5>1, <5>2
          <6>2. CASE ds[j] \in DOMAIN Digit /\ Digit[ds[j]] <= base
            BY <6>2 DEF Fine
          <6>3. CASE ds[j] \in P!Spaces /\ ds[j] = s.spacer
            <7>1. s.spacer # NoSpacer
              BY <6>3, NoSpace
            <7> QED
              BY <5>1, <6>3, <7>1 DEF Fine
          <6> QED
            BY <6>1, <6>2, <6>3 DEF Fine
        <5>3. Fine(c, base, c)
          BY <3>1 DEF Fine
        <5> QED
          BY <2>3, <2>6, <2>7, <4>1, <5>1, <5>2, <5>3
      <4> QED
        BY <4>1, <4>2
    <3>2. CASE c \in DOMAIN Digit
      <4>1. PICK v : v = (s.value * base + Digit[c]) % Size[P!Largest]
        OBVIOUS
      <4>2. /\ r \in States /\ r.spacer = s.spacer
            /\ r.ok <=> s.ok /\ Digit[c] <= base /\ v >= s.value
        BY <2>5, <2>6, <3>2, <4>1, DigitRule
      <4>3. ASSUME r.ok PROVE base # 0 /\ \A j \in 1..(m + 1) : Fine(ds[j], base, r.spacer)
        <5>1. s.ok /\ Digit[c] <= base
          BY <4>2, <4>3
        <5>2. Fine(c, base, s.spacer)
          BY <3>2, <5>1 DEF Fine
        <5> QED
          BY <2>3, <2>6, <2>7, <4>2, <5>1, <5>2
      <4> QED
        BY <4>2, <4>3
    <3>3. CASE c \notin P!Spaces \cup DOMAIN Digit
      BY <2>5, <2>6, <3>3, OtherRule
    <3> QED
      BY <3>1, <3>2, <3>3
  <2> QED
    BY <2>4, <2>8
<1> HIDE DEF U
<1>3. n \in U
  BY <1>1, <1>2, NumberInduction
<1> QED
  BY <1>3 DEF U

(* A number within the range of the type has no wrapped part.              *)
LEMMA NoWrap ==
  ASSUME NEW v \in Nat, NEW m \in Nat, v < m
  PROVE  v % m = v
OBVIOUS

(* The bases of numbers; 0 stands for an invalid format.                   *)
Bases == {2, 8, 10, 16}

LEMMA TimesBase ==
  ASSUME NEW v \in Nat, NEW base \in Bases, NEW d \in Nat
  PROVE  v * base + d \in Nat /\ v <= v * base + d
<1>1. v <= v * 2 /\ v <= v * 8 /\ v <= v * 10 /\ v <= v * 16
  OBVIOUS
<1>2. v * base \in Nat /\ v <= v * base
  BY <1>1 DEF Bases
<1> QED
  BY <1>2 DEF Bases

(* The loop computes what fine characters mean if that is in range.        *)
Follows(f, g, ds, base, n, one) ==
  /\ f[0] = Begin(base) /\ \A i \in 1..n : f[i] = P!NextDigit(f[i - 1], ds[i], base)
  /\ g[0] = 0 /\ \A i \in 1..n : g[i] = P!NextPlace(g[i - 1], ds[i], base)
  /\ \A i \in 1..n : Fine(ds[i], base, one)

Exact(state, value) ==
  /\ value \in Nat
  /\ value < Size[P!Largest] => state.ok /\ state.value = value

LEMMA AcceptsFine ==
  ASSUME NEW f, NEW g, NEW ds, NEW base \in Bases, NEW n \in Nat, NEW one,
         Follows(f, g, ds, base, n, one)
  PROVE  Exact(f[n], g[n])
<1> DEFINE Right(i) == /\ g[i] \in Nat /\ f[i] \in States
                       /\ g[i] < Size[P!Largest] =>
                            f[i].ok /\ f[i].value = g[i] /\ f[i].spacer \in {NoSpacer, one}
           U == {i \in Nat : i <= n => Right(i)}
<1>0. /\ f[0] = Begin(base) /\ \A i \in 1..n : f[i] = P!NextDigit(f[i - 1], ds[i], base)
      /\ g[0] = 0 /\ \A i \in 1..n : g[i] = P!NextPlace(g[i - 1], ds[i], base)
      /\ \A i \in 1..n : Fine(ds[i], base, one)
  BY DEF Follows
<1>e. base \in Nat
  BY DEF Bases
<1>1. 0 \in U
  <2>1. Begin(base) \in States /\ Begin(base).ok /\ Begin(base).value = 0 /\ Begin(base).spacer = NoSpacer
    <3>1. Begin(base) = [ok |-> TRUE, value |-> 0, spacer |-> NoSpacer]
      <4>1. (base # 0) = TRUE
        BY DEF Bases
      <4> QED
        BY <4>1 DEF Begin
    <3> QED
      BY <3>1 DEF States
  <2> QED
    BY <1>0, <2>1
<1>2. ASSUME NEW m \in Nat, m \in U PROVE m + 1 \in U
  <2> SUFFICES ASSUME m + 1 <= n PROVE Right(m + 1)
    OBVIOUS
  <2>1. Right(m)
    BY <1>2
  <2>2. m + 1 \in 1..n /\ (m + 1) - 1 = m
    OBVIOUS
  <2>3. PICK s, c, v : s = f[m] /\ c = ds[m + 1] /\ v = g[m]
    OBVIOUS
  <2>4. PICK r, w : r = f[m + 1] /\ w = g[m + 1]
    OBVIOUS
  <2>5. r = P!NextDigit(s, c, base) /\ w = P!NextPlace(v, c, base) /\ Fine(c, base, one)
    BY <1>0, <2>2, <2>3, <2>4
  <2>6. /\ v \in Nat /\ s \in States
        /\ v < Size[P!Largest] => s.ok /\ s.value = v /\ s.spacer \in {NoSpacer, one}
    BY <2>1, <2>3
  <2>7. /\ w \in Nat /\ r \in States
        /\ w < Size[P!Largest] => r.ok /\ r.value = w /\ r.spacer \in {NoSpacer, one}
    <3>1. CASE c \in P!Spaces
      <4>1. c = one
        BY <2>5, <3>1, NumberFacts DEF Fine
      <4>2. w = v
        BY <2>5, <3>1 DEF P!NextPlace
      <4>3. /\ r \in States /\ (r.ok <=> s.ok /\ s.spacer \in {NoSpacer, c})
            /\ r.value = s.value /\ r.spacer = c
        BY <2>5, <2>6, <3>1, SpaceRule
      <4> QED
        BY <2>6, <4>1, <4>2, <4>3
    <3>2. CASE c \in DOMAIN Digit
      <4>1. c \notin P!Spaces /\ Digit[c] \in Nat
        BY <3>2, NumberFacts
      <4>2. Digit[c] <= base
        BY <2>5, <4>1 DEF Fine
      <4>3. w = v * base + Digit[c]
        BY <2>5, <4>1 DEF P!NextPlace
      <4>4. w \in Nat /\ v <= w
        BY <2>6, <4>1, <4>3, TimesBase
      <4>5. PICK k : k = (s.value * base + Digit[c]) % Size[P!Largest]
        OBVIOUS
      <4>6. /\ r \in States /\ r.spacer = s.spacer /\ r.value = k
            /\ r.ok <=> s.ok /\ Digit[c] <= base /\ k >= s.value
        BY <1>e, <2>5, <2>6, <3>2, <4>5, DigitRule
      <4>7. ASSUME w < Size[P!Largest] PROVE r.ok /\ r.value = w /\ r.spacer \in {NoSpacer, one}
        <5>1. Size[P!Largest] \in Nat
          BY NumberFacts
        <5>2. v < Size[P!Largest]
          BY <2>6, <4>4, <4>7, <5>1
        <5>3. s.ok /\ s.value = v /\ s.spacer \in {NoSpacer, one}
          BY <2>6, <5>2
        <5>4. k = w
          BY <4>3, <4>4, <4>5, <4>7, <5>1, <5>3, NoWrap
        <5> QED
          BY <4>2, <4>4, <4>6, <5>3, <5>4
      <4> QED
        BY <4>4, <4>6, <4>7
    <3> QED
      BY <2>5, <3>1, <3>2 DEF Fine
  <2> QED
    BY <2>4, <2>7
<1> HIDE DEF U
<1>3. n \in U
  BY <1>1, <1>2, NumberInduction
<1> QED
  BY <1>3 DEF U, Exact

(* A sequence of characters that reads as a number.                        *)
AllFine(b) ==
  /\ b.base # 0
  /\ P!Range(b.digits) \ P!Spaces \subseteq DOMAIN Digit
  /\ \A c, d \in P!Range(b.digits) \cap P!Spaces : c = d
  /\ \A c \in P!Range(b.digits) \ P!Spaces : Digit[c] <= b.base

LEMMA FineRule ==
  ASSUME NEW b, NEW X, b.digits \in Seq(X)
  PROVE  AllFine(b) <=> /\ b.base # 0
                        /\ \E one : \A i \in 1..Len(b.digits) : Fine(b.digits[i], b.base, one)
<1>1. Len(b.digits) \in Nat /\ DOMAIN b.digits = 1..Len(b.digits)
  BY LenProperties
<1>2. P!Range(b.digits) = {b.digits[i] : i \in 1..Len(b.digits)}
  BY <1>1 DEF P!Range
<1>3. ASSUME AllFine(b)
      PROVE  \E one : \A i \in 1..Len(b.digits) : Fine(b.digits[i], b.base, one)
  <2>1. PICK one : \A c \in P!Range(b.digits) \cap P!Spaces : c = one
    <3>1. CASE P!Range(b.digits) \cap P!Spaces = {}
      BY <3>1
    <3>2. CASE P!Range(b.digits) \cap P!Spaces # {}
      <4>1. PICK d : d \in P!Range(b.digits) \cap P!Spaces
        BY <3>2
      <4>2. \A c \in P!Range(b.digits) \cap P!Spaces : c = d
        BY <1>3, <4>1 DEF AllFine
      <4> QED
        BY <4>2
    <3> QED
      BY <3>1, <3>2
  <2>2. ASSUME NEW i \in 1..Len(b.digits) PROVE Fine(b.digits[i], b.base, one)
    <3>1. b.digits[i] \in P!Range(b.digits)
      BY <1>2
    <3> QED
      BY <1>3, <2>1, <3>1 DEF AllFine, Fine
  <2> QED
    BY <2>2
<1>4. ASSUME b.base # 0, NEW one,
             \A i \in 1..Len(b.digits) : Fine(b.digits[i], b.base, one)
      PROVE  AllFine(b)
  <2>1. ASSUME NEW c \in P!Range(b.digits) PROVE Fine(c, b.base, one)
    BY <1>2, <1>4, <2>1
  <2>2. DOMAIN Digit \cap P!Spaces = {}
    BY NumberFacts
  <2> QED
    BY <1>4, <2>1, <2>2 DEF AllFine, Fine
<1> QED
  BY <1>3, <1>4 DEF AllFine

(* What the loop makes of digits: it refuses what does not read as a       *)
(* number, and finds a number that is in range.                            *)
LEMMA DigitsRead ==
  ASSUME NEW b, NEW X, b.base \in {0, 2, 8, 10, 16}, b.digits \in Seq(X)
  PROVE  /\ P!Digits(b) \in States
         /\ P!Digits(b).ok => AllFine(b)
         /\ AllFine(b) => Exact(P!Digits(b), P!Meant(b))
<1>1. PICK ds, base, n : ds = b.digits /\ base = b.base /\ n = Len(b.digits)
  OBVIOUS
<1>2. n \in Nat /\ base \in Nat
  BY <1>1, LenProperties
<1>3. PICK f : /\ f[0] = Begin(base) /\ P!Digits(b) = f[n]
               /\ \A i \in 1..n : f[i] = P!NextDigit(f[i - 1], ds[i], base)
  BY <1>1, <1>2, DigitsRule
<1>4. PICK g : /\ g[0] = 0 /\ P!Meant(b) = g[n]
               /\ \A i \in 1..n : g[i] = P!NextPlace(g[i - 1], ds[i], base)
  BY <1>1, <1>2, MeantRule
<1>5. /\ f[n] \in States
      /\ f[n].ok => base # 0 /\ \A j \in 1..n : Fine(ds[j], base, f[n].spacer)
  BY <1>2, <1>3, RefusesAll
<1>6. f[n].ok => AllFine(b)
  BY <1>1, <1>5, FineRule
<1>7. ASSUME AllFine(b)
      PROVE  Exact(f[n], g[n])
  <2>1. PICK one : \A i \in 1..n : Fine(ds[i], base, one)
    BY <1>1, <1>7, FineRule
  <2>2. base \in Bases
    BY <1>1, <1>7 DEF AllFine, Bases
  <2>3. Follows(f, g, ds, base, n, one)
    BY <1>3, <1>4, <2>1 DEF Follows
  <2> QED
    BY <1>2, <2>2, <2>3, AcceptsFine
<1> QED
  BY <1>3, <1>4, <1>5, <1>6, <1>7

(* unsigned long long and long long, by what the loop finds.               *)
Number(n) == IF n.ok THEN P!Stores(TRUE, n.value) ELSE P!Fails

LEMMA UnsignedRule == \A t : P!Unsigned(t) = Number(P!Digits(DigitsOf(t, FALSE)))
BY DEF P!Unsigned, Number, DigitsOf, BehindPlus

LEMMA SignedRule ==
  ASSUME NEW X, NEW t \in Seq(X)
  PROVE  P!Signed(t) = P!WithSign(Number(P!Digits(DigitsOf(t, TRUE))), P!Sign(P!Trimmed(t)))
<1>1. PICK s : s = P!Trimmed(t)
  OBVIOUS
<1>2. s \in Seq(X) /\ Bare(s)
  BY <1>1, TrimmedRule
<1>3. P!Signed(t) = P!WithSign(P!Unsigned(IF P!Sign(s) \in {"-", "+"} THEN Tail(s) ELSE s), P!Sign(s))
  BY <1>1 DEF P!Signed
<1>4. CASE P!Sign(s) \in {"-", "+"}
  <2>1. DigitsOf(t, TRUE) = P!Based(BehindPlus(P!Trimmed(Tail(s))))
    BY <1>1, <1>4 DEF DigitsOf, BehindSign
  <2>2. DigitsOf(Tail(s), FALSE) = P!Based(BehindPlus(P!Trimmed(Tail(s))))
    BY DEF DigitsOf
  <2> QED
    BY <1>1, <1>3, <1>4, <2>1, <2>2, UnsignedRule
<1>5. CASE P!Sign(s) \notin {"-", "+"}
  <2>1. DigitsOf(t, TRUE) = P!Based(BehindPlus(s))
    BY <1>1, <1>5 DEF DigitsOf, BehindSign
  <2>2. DigitsOf(s, FALSE) = P!Based(BehindPlus(s))
    BY <1>2, TrimmedTwice DEF DigitsOf
  <2> QED
    BY <1>1, <1>3, <1>5, <2>1, <2>2, UnsignedRule
<1> QED
  BY <1>4, <1>5

LEMMA DigitsOfRule ==
  ASSUME NEW X, NEW t \in Seq(X), NEW signed \in BOOLEAN
  PROVE  DigitsOf(t, signed).base \in {0, 2, 8, 10, 16} /\ DigitsOf(t, signed).digits \in Seq(X)
<1>1. PICK s : s = P!Trimmed(t)
  OBVIOUS
<1>2. s \in Seq(X) /\ Bare(s)
  BY <1>1, TrimmedRule
<1>3. BehindSign(t) \in Seq(X) /\ Bare(BehindSign(t))
  <2>1. CASE P!Sign(s) \in {"-", "+"}
    <3>1. s # << >>
      BY <2>1, Zenon DEF P!Sign
    <3>2. Tail(s) \in Seq(X)
      BY <1>2, <3>1, HeadTailProperties
    <3> QED
      BY <1>1, <2>1, <3>2, TrimmedRule DEF BehindSign
  <2>2. CASE P!Sign(s) \notin {"-", "+"}
    BY <1>1, <1>2, <2>2 DEF BehindSign
  <2> QED
    BY <2>1, <2>2
<1>4. PICK r : r = IF signed THEN BehindSign(t) ELSE P!Trimmed(t)
  OBVIOUS
<1>5. r \in Seq(X) /\ Bare(r)
  BY <1>1, <1>2, <1>3, <1>4
<1>6. BehindPlus(r) \in Seq(X)
  BY <1>5, BehindRule
<1> QED
  BY <1>4, <1>6, BasedRule DEF DigitsOf

-----------------------------------------------------------------------------
(* The reading of a text, and what the functions return for it.            *)

MayStart(c) == c \in {"", "-", "+"} \cup P!Decimal
Started(t) == MayStart(P!Sign(P!Trimmed(t)))
Minus(t) == P!Sign(P!Trimmed(t)) = "-"
Value(t, signed, v) == IF signed /\ Minus(t) THEN -v ELSE v

ReadBy(b, minus, refused) ==
  LET spaces == P!Range(b.digits) \cap P!Spaces
      digits == P!Range(b.digits) \ P!Spaces
  IN IF \/ b.base = 0
        \/ ~(digits \subseteq DOMAIN Digit)
        \/ \E c, d \in spaces : c # d
        \/ refused
     THEN [valid |-> FALSE, exact |-> FALSE, value |-> 0]
     ELSE [valid |-> \A c \in digits : Digit[c] <= b.base,
           exact |-> P!Meant(b) < Size[P!Largest],
           value |-> IF minus THEN -P!Meant(b) ELSE P!Meant(b)]

LEMMA ReadingParts ==
  \A t, signed :
    P!Reading(t, signed) =
      ReadBy(P!Based(BehindPlus(IF signed /\ P!Sign(P!Trimmed(t)) \in {"-", "+"}
                                THEN P!Trimmed(Tail(P!Trimmed(t))) ELSE P!Trimmed(t))),
             signed /\ Minus(t), signed /\ ~Started(t))
BY Zenon DEF P!Reading, ReadBy, Started, MayStart, Minus, BehindPlus

LEMMA ReadingRule ==
  ASSUME NEW t, NEW signed \in BOOLEAN, NEW b, b = DigitsOf(t, signed),
         NEW r, r = P!Reading(t, signed)
  PROVE  /\ r.valid <=> AllFine(b) /\ (signed => Started(t))
         /\ r.valid => /\ r.exact <=> P!Meant(b) < Size[P!Largest]
                       /\ r.value = Value(t, signed, P!Meant(b))
<1> DEFINE spaces == P!Range(b.digits) \cap P!Spaces
           digits == P!Range(b.digits) \ P!Spaces
           refused == \/ b.base = 0
                      \/ ~(digits \subseteq DOMAIN Digit)
                      \/ \E c, d \in spaces : c # d
                      \/ signed /\ ~Started(t)
<1>1. b = P!Based(BehindPlus(IF signed /\ P!Sign(P!Trimmed(t)) \in {"-", "+"}
                             THEN P!Trimmed(Tail(P!Trimmed(t))) ELSE P!Trimmed(t)))
  BY Zenon DEF DigitsOf, BehindSign
<1>2. r = ReadBy(b, signed /\ Minus(t), signed /\ ~Started(t))
  BY <1>1, ReadingParts
<1>3. r = IF refused THEN [valid |-> FALSE, exact |-> FALSE, value |-> 0]
          ELSE [valid |-> \A c \in digits : Digit[c] <= b.base,
                exact |-> P!Meant(b) < Size[P!Largest],
                value |-> Value(t, signed, P!Meant(b))]
  BY <1>2, Zenon DEF ReadBy, Value
<1>4. AllFine(b) /\ (signed => Started(t)) <=> ~refused /\ \A c \in digits : Digit[c] <= b.base
  BY DEF AllFine
<1> HIDE DEF refused, digits, spaces
<1>5. CASE refused
  <2>1. r = [valid |-> FALSE, exact |-> FALSE, value |-> 0]
    BY <1>3, <1>5
  <2>2. r.valid = FALSE
    BY <2>1
  <2> QED
    BY <1>4, <1>5, <2>2
<1>6. CASE ~refused
  <2>1. PICK valid, exact, value : /\ valid = (\A c \in digits : Digit[c] <= b.base)
                                   /\ exact = (P!Meant(b) < Size[P!Largest])
                                   /\ value = Value(t, signed, P!Meant(b))
    OBVIOUS
  <2>2. r = [valid |-> valid, exact |-> exact, value |-> value]
    BY <1>3, <1>6, <2>1
  <2>3. r.valid = valid /\ r.exact = exact /\ r.value = value
    BY <2>2
  <2> QED
    BY <1>4, <1>6, <2>1, <2>3
<1> QED
  BY <1>5, <1>6

(* Conversions between the types of one size.                              *)
LEMMA BelowZero ==
  ASSUME NEW v \in Int, NEW m \in Nat, -m <= v, v < 0
  PROVE  v % m = v + m
OBVIOUS

LEMMA WrappedRule ==
  ASSUME NEW v \in Int, NEW size \in Nat, size # 0
  PROVE  /\ P!Wrapped(v, size) \in Int
         /\ 2 * P!Wrapped(v, size) \in (-size)..(size - 1)
         /\ 2 * v \in (-size)..(size - 1) => P!Wrapped(v, size) = v
<1>1. PICK m : m = v % size
  OBVIOUS
<1>2. m \in 0..(size - 1)
  BY <1>1
<1>3. P!Wrapped(v, size) = IF 2 * m < size THEN m ELSE m - size
  BY <1>1 DEF P!Wrapped
<1>4. ASSUME 2 * v \in (-size)..(size - 1) PROVE P!Wrapped(v, size) = v
  <2>1. CASE v >= 0
    <3>1. m = v
      BY <1>1, <1>4, <2>1, NoWrap
    <3> QED
      BY <1>3, <1>4, <3>1
  <2>2. CASE v < 0
    <3>1. m = v + size
      BY <1>1, <1>4, <2>2, BelowZero
    <3> QED
      BY <1>3, <1>4, <3>1
  <2> QED
    BY <2>1, <2>2
<1> QED
  BY <1>2, <1>3, <1>4

LEMMA StoresRule ==
  ASSUME NEW ok \in BOOLEAN, NEW value
  PROVE  /\ P!Stores(ok, value).ok = ok /\ P!Stores(ok, value).stores = TRUE
         /\ P!Stores(ok, value).value = value
BY DEF P!Stores

LEMMA FailsRule == P!Fails.ok = FALSE /\ P!Fails.value = 0
BY DEF P!Fails

(* The unsigned types hold what is below their size, the signed ones what  *)
(* is from minus half of it on and below half of it.                       *)
Holds(p, v, signed, type) ==
  /\ p.ok <=> P!InRange(v, signed, type)
  /\ p.ok => p.stores = TRUE /\ p.value = v

LEMMA UnsignedHolds ==
  ASSUME NEW v \in Nat, v < Size[P!Largest], NEW type \in DOMAIN Size
  PROVE  Holds(P!As(P!Stores(TRUE, v), FALSE, type), v, FALSE, type)
<1>1. PICK size : size = Size[type]
  OBVIOUS
<1>2. size \in Nat /\ size # 0 /\ (P!InRange(v, FALSE, type) <=> v < size)
  BY <1>1, NumberFacts DEF P!InRange
<1>3. CASE type = P!Largest
  <2>1. P!As(P!Stores(TRUE, v), FALSE, type) = P!Stores(TRUE, v)
    BY <1>3 DEF P!As
  <2>2. v < size
    BY <1>1, <1>3
  <2> QED
    BY <1>2, <2>1, <2>2, StoresRule DEF Holds
<1>4. CASE type # P!Largest
  <2> PICK ok \in BOOLEAN : ok = (v % size = v)
    OBVIOUS
  <2>1. P!As(P!Stores(TRUE, v), FALSE, type) = P!Stores(ok, v % size)
    BY <1>1, <1>4, StoresRule DEF P!As, P!Narrowed
  <2>2. v % size \in 0..(size - 1)
    BY <1>2
  <2>3. v < size => v % size = v
    BY <1>2, NoWrap
  <2> QED
    <3>1. PICK p : p = P!Stores(ok, v % size)
      OBVIOUS
    <3>2. p.ok = ok /\ p.stores = TRUE /\ p.value = v % size
      BY <3>1, StoresRule
    <3>3. ok <=> P!InRange(v, FALSE, type)
      <4>1. v % size = v <=> v < size
        BY <1>2, <2>2, <2>3
      <4> QED
        BY <1>2, <4>1
    <3>4. Holds(p, v, FALSE, type)
      BY <3>2, <3>3 DEF Holds
    <3> QED
      BY <2>1, <3>1, <3>4
<1> QED
  BY <1>3, <1>4

LEMMA SignedHolds ==
  ASSUME NEW n, NEW v \in Int, NEW type \in DOMAIN Size,
         Holds(n, v, TRUE, P!Largest)
  PROVE  Holds(P!As(n, TRUE, type), v, TRUE, type)
<1>1. PICK size, all : size = Size[type] /\ all = Size[P!Largest]
  OBVIOUS
<1>2. size \in 1..all /\ all \in Nat
  BY <1>1, NumberFacts
<1>3. /\ P!InRange(v, TRUE, type) <=> 2 * v \in (-size)..(size - 1)
      /\ P!InRange(v, TRUE, P!Largest) <=> 2 * v \in (-all)..(all - 1)
  BY <1>1 DEF P!InRange
<1>4. CASE type = P!Largest
  BY <1>4 DEF P!As
<1>5. CASE type # P!Largest
  <2>1. PICK w : w = P!Wrapped(n.value, size)
    OBVIOUS
  <2>2. P!As(n, TRUE, type) = P!Stores(n.ok /\ w = n.value, w)
    BY <1>1, <1>5, <2>1 DEF P!As, P!Narrowed
  <2>3. CASE n.ok
    <3>1. n.value = v
      BY <2>3 DEF Holds
    <3>2. /\ 2 * w \in (-size)..(size - 1)
          /\ 2 * v \in (-size)..(size - 1) => w = v
      BY <1>2, <2>1, <3>1, WrappedRule
    <3>3. w = v <=> P!InRange(v, TRUE, type)
      BY <1>3, <3>2
    <3> PICK ok \in BOOLEAN : ok = (w = v)
      OBVIOUS
    <3>4. P!As(n, TRUE, type) = P!Stores(ok, w)
      BY <2>2, <2>3, <3>1
    <3> QED
      BY <3>3, <3>4, StoresRule DEF Holds
  <2>4. CASE ~n.ok
    <3>1. ~P!InRange(v, TRUE, P!Largest)
      BY <2>4 DEF Holds
    <3>2. ~P!InRange(v, TRUE, type)
      <4>1. 2 * v \notin (-all)..(all - 1)
        BY <1>3, <3>1
      <4>2. (-size)..(size - 1) \subseteq (-all)..(all - 1)
        BY <1>2
      <4>3. 2 * v \notin (-size)..(size - 1)
        BY <4>1, <4>2
      <4> QED
        BY <1>3, <4>3
    <3>3. P!As(n, TRUE, type).ok = FALSE
      BY <2>2, <2>4, StoresRule
    <3> QED
      BY <3>2, <3>3 DEF Holds
  <2> QED
    BY <2>3, <2>4
<1> QED
  BY <1>4, <1>5

LEMMA WithSignHolds ==
  ASSUME NEW v \in Nat, v < Size[P!Largest], NEW sign, MayStart(sign)
  PROVE  Holds(P!WithSign(P!Stores(TRUE, v), sign), IF sign = "-" THEN -v ELSE v, TRUE, P!Largest)
<1>0. PICK all : all = Size[P!Largest]
  OBVIOUS
<1>1. all = Size[P!Largest] /\ all \in Nat /\ \E half \in Nat : half # 0 /\ all = 2 * half
  <2>1. all \in Nat /\ \E half \in 1..all : all = 2 * half
    BY <1>0, NumberFacts
  <2> QED
    BY <1>0, <2>1
<1> PICK half \in Nat : half # 0 /\ all = 2 * half
  BY <1>1
<1>2. all \div 2 = half
  BY <1>1
<1> PICK minus \in BOOLEAN : minus = (sign = "-")
  BY Zenon
<1>3. PICK k : k = IF minus THEN -v ELSE v
  OBVIOUS
<1>4. P!InRange(k, TRUE, P!Largest) <=> 2 * k \in (-all)..(all - 1)
  BY <1>1 DEF P!InRange
<1> DEFINE ok == IF minus THEN v <= half ELSE v < half
<1>5. ok \in BOOLEAN /\ (ok <=> (minus /\ v <= half) \/ (~minus /\ v < half))
  <2>1. CASE minus
    <3>1. ok <=> v <= half
      BY <2>1
    <3>2. ok \in BOOLEAN
      <4>1. ok = (v <= half)
        BY <2>1
      <4>2. (v <= half) \in BOOLEAN
        OBVIOUS
      <4> HIDE DEF ok
      <4> QED
        BY <4>1, <4>2
    <3> HIDE DEF ok
    <3> QED
      BY <2>1, <3>1, <3>2
  <2>2. CASE ~minus
    <3>1. ok <=> v < half
      BY <2>2
    <3>2. ok \in BOOLEAN
      BY <2>2
    <3> HIDE DEF ok
    <3> QED
      BY <2>2, <3>1, <3>2
  <2> QED
    BY <2>1, <2>2
<1>6. P!WithSign(P!Stores(TRUE, v), sign) = P!Stores(ok, P!Wrapped(k, all))
  BY <1>1, <1>2, <1>3, <1>5, StoresRule, Zenon DEF P!WithSign, MayStart
<1> HIDE DEF ok
<1>7. k \in Int /\ (ok <=> 2 * k \in (-all)..(all - 1))
  <2>1. CASE minus
    <3>1. k = -v /\ (ok <=> v <= half)
      BY <1>3, <1>5, <2>1
    <3> QED
      BY <1>1, <3>1
  <2>2. CASE ~minus
    <3>1. k = v /\ (ok <=> v < half)
      BY <1>3, <1>5, <2>2
    <3> QED
      BY <1>1, <3>1
  <2> QED
    BY <2>1, <2>2
<1>8. ok => P!Wrapped(k, all) = k
  BY <1>1, <1>7, WrappedRule
<1>9. PICK p : p = P!Stores(ok, P!Wrapped(k, all))
  OBVIOUS
<1>10. p.ok = ok /\ p.stores = TRUE /\ p.value = P!Wrapped(k, all)
  BY <1>5, <1>9, StoresRule
<1>11. Holds(p, k, TRUE, P!Largest)
  BY <1>4, <1>7, <1>8, <1>10 DEF Holds
<1> QED
  BY <1>3, <1>6, <1>9, <1>11

(* For any text: it is refused if it does not read as a number, and what   *)
(* is in range of the greatest type is found if it is in range of type.    *)
LEMMA ParseAgrees ==
  ASSUME NEW X, NEW t \in Seq(X), NEW signed \in BOOLEAN, NEW type \in DOMAIN Size,
         NEW r, r = P!Reading(t, signed), NEW p, p = P!Parse(t, signed, type)
  PROVE  /\ ~r.valid => ~p.ok
         /\ r.valid /\ r.exact => Holds(p, r.value, signed, type)
<1>1. PICK b : b = DigitsOf(t, signed)
  OBVIOUS
<1>2. b.base \in {0, 2, 8, 10, 16} /\ b.digits \in Seq(X)
  BY <1>1, DigitsOfRule
<1>3. PICK n, v : n = P!Digits(b) /\ v = P!Meant(b)
  OBVIOUS
<1>4. n \in States /\ (n.ok => AllFine(b)) /\ (AllFine(b) => Exact(n, v))
  BY <1>2, <1>3, DigitsRead
<1>5. /\ r.valid <=> AllFine(b) /\ (signed => Started(t))
      /\ r.valid => /\ r.exact <=> v < Size[P!Largest]
                    /\ r.value = Value(t, signed, v)
  BY <1>1, <1>3, ReadingRule
<1>6. PICK q : q = IF signed THEN P!WithSign(Number(n), P!Sign(P!Trimmed(t))) ELSE Number(n)
  OBVIOUS
<1>7. p = P!As(q, signed, type)
  <2>1. CASE signed
    BY <1>1, <1>3, <1>6, <2>1, SignedRule DEF P!Parse
  <2>2. CASE ~signed
    BY <1>1, <1>3, <1>6, <2>2, UnsignedRule DEF P!Parse
  <2> QED
    BY <2>1, <2>2
<1>8. ASSUME ~r.valid PROVE ~p.ok
  <2>1. ~n.ok \/ (signed /\ ~Started(t))
    BY <1>4, <1>5, <1>8
  <2>2. q.ok = FALSE
    <3>1. CASE ~n.ok
      <4>1. Number(n) = P!Fails
        BY <3>1 DEF Number
      <4>2. CASE signed
        BY <1>6, <4>1, <4>2, FailsRule DEF P!WithSign
      <4>3. CASE ~signed
        BY <1>6, <4>1, <4>3, FailsRule
      <4> QED
        BY <4>2, <4>3
    <3>2. CASE signed /\ ~Started(t)
      <4>1. q = P!Fails
        BY <1>6, <3>2, Zenon DEF P!WithSign, Started, MayStart
      <4> QED
        BY <4>1, FailsRule
    <3> QED
      BY <2>1, <3>1, <3>2
  <2>3. CASE type = P!Largest
    BY <1>7, <2>2, <2>3 DEF P!As
  <2>4. CASE type # P!Largest
    <3>1. PICK w : p = P!Stores(q.ok /\ w = q.value, w)
      BY <1>7, <2>4 DEF P!As, P!Narrowed
    <3>2. p = P!Stores(FALSE, w)
      BY <2>2, <3>1
    <3> QED
      BY <3>2, StoresRule
  <2> QED
    BY <2>3, <2>4
<1>9. ASSUME r.valid, r.exact PROVE Holds(p, r.value, signed, type)
  <2>1. /\ v < Size[P!Largest] /\ r.value = Value(t, signed, v) /\ Exact(n, v)
        /\ signed => Started(t)
    BY <1>4, <1>5, <1>9
  <2>2. v \in Nat /\ n.ok /\ n.value = v
    BY <2>1 DEF Exact
  <2>3. Number(n) = P!Stores(TRUE, v)
    BY <2>2 DEF Number
  <2>4. CASE ~signed
    <3>1. q = P!Stores(TRUE, v) /\ r.value = v
      BY <1>6, <2>1, <2>3, <2>4 DEF Value
    <3>2. signed = FALSE
      BY <2>4
    <3> QED
      BY <1>7, <2>1, <2>2, <3>1, <3>2, UnsignedHolds
  <2>5. CASE signed
    <3>1. PICK sign : sign = P!Sign(P!Trimmed(t))
      OBVIOUS
    <3>2. PICK k : k = IF sign = "-" THEN -v ELSE v
      OBVIOUS
    <3>3. r.value = k
      BY <2>1, <2>5, <3>1, <3>2, Zenon DEF Value, Minus
    <3>4. k \in Int
      BY <2>2, <3>2
    <3>5. MayStart(sign)
      BY <2>1, <2>5, <3>1 DEF Started
    <3>6. q = P!WithSign(P!Stores(TRUE, v), sign)
      BY <1>6, <2>3, <2>5, <3>1
    <3>7. Holds(q, k, TRUE, P!Largest)
      BY <2>1, <2>2, <3>2, <3>5, <3>6, WithSignHolds
    <3>8. Holds(P!As(q, TRUE, type), k, TRUE, type)
      BY <3>4, <3>7, SignedHolds
    <3>9. signed = TRUE
      BY <2>5
    <3> QED
      BY <1>7, <3>3, <3>8, <3>9
  <2> QED
    BY <2>4, <2>5
<1> QED
  BY <1>8, <1>9

-----------------------------------------------------------------------------
(* The functions of parser/string.cpp take a text for the number it reads  *)
(* as exactly if that is in range, for texts of any length, any alphabet   *)
(* and types of any size; only what exceeds the greatest type may pass for *)
(* something else.                                                         *)
THEOREM TextsAreNumbers == P!Spec => []NumbersAgree
<1> DEFINE Inv == obj \in Seq(Alphabet)
<1>1. P!Init => Inv
  BY EmptySeq DEF P!Init
<1>2. Inv /\ [P!Next]_P!vars => Inv'
  <2> SUFFICES ASSUME Inv, [P!Next]_P!vars PROVE Inv'
    OBVIOUS
  <2>1. ASSUME NEW c \in Alphabet, P!Grow(c) PROVE Inv'
    <3>1. obj' = Append(obj, c)
      BY <2>1 DEF P!Grow
    <3> QED
      BY <3>1, AppendProperties
  <2>2. ASSUME UNCHANGED P!vars PROVE Inv'
    BY <2>2 DEF P!vars
  <2> QED
    BY <2>1, <2>2 DEF P!Next
<1>3. Inv => NumbersAgree
  <2> SUFFICES ASSUME Inv, NEW signed \in BOOLEAN, NEW type \in DOMAIN Size,
                      NEW r, r = P!Reading(obj, signed), NEW p, p = P!Parse(obj, signed, type)
               PROVE  /\ ~r.valid => ~p.ok
                      /\ r.valid /\ r.exact =>
                           /\ p.ok <=> P!InRange(r.value, signed, type)
                           /\ p.ok => p.stores /\ p.value = r.value
    BY DEF NumbersAgree, P!Agrees
  <2>1. /\ ~r.valid => ~p.ok
        /\ r.valid /\ r.exact => Holds(p, r.value, signed, type)
    BY ParseAgrees
  <2> QED
    BY <2>1 DEF Holds
<1> QED
  BY <1>1, <1>2, <1>3, PTL DEF P!Spec

-----------------------------------------------------------------------------
(* Arguments: the loops of the operators that it is built from.            *)

LEMMA SameFlattenInArguments == \A s : A!FlattenSeq(s) = FlattenSeq(s)
  BY DEF A!FlattenSeq, FlattenSeq

LEMMA LeastInArguments ==
  ASSUME NEW T, T \subseteq Nat, T # {}
  PROVE  A!Min(T) \in T /\ \A y \in T : A!Min(T) <= y
<1>1. \E x \in T : \A y \in T : x <= y
  BY LeastNumber
<1>2. PICK m : m = CHOOSE x \in T : \A y \in T : x <= y
  OBVIOUS
<1>3. m \in T /\ \A y \in T : m <= y
  BY <1>1, <1>2
<1> QED
  BY <1>2, <1>3 DEF A!Min

TakenBy(f, n) == f = [i \in 0..n |-> IF i = 0 THEN << >> ELSE A!Taken(f[i - 1], List[i])]
PlacedBy(f, n, roles, what) ==
  f = [i \in 0..n |-> IF i = 0 THEN << >> ELSE A!Found(f[i - 1], i, roles[i], what)]
KeptBy(f, n, all, p) ==
  f = [i \in 0..n |-> IF i = 0 THEN << >> ELSE A!After(f[i - 1], p, all[i])]
FlaggedBy(f, n, words) ==
  f = [i \in 1..n |-> i > 1 /\ A!Takes(words[i - 1]) /\ ~f[i - 1]]

LEMMA TakenExist ==
  ASSUME NEW n \in Nat
  PROVE  \E f : TakenBy(f, n)
<1> DEFINE U == {m \in Nat : \E f : TakenBy(f, m)}
<1>1. 0 \in U
  <2>1. PICK f : f = [i \in 0..0 |-> << >>]
    OBVIOUS
  <2>2. f = [i \in 0..0 |-> IF i = 0 THEN << >> ELSE A!Taken(f[i - 1], List[i])]
    BY <2>1
  <2>3. TakenBy(f, 0)
    BY <2>2 DEF TakenBy
  <2> QED
    BY <2>3
<1>2. ASSUME NEW m \in Nat, m \in U PROVE m + 1 \in U
  <2>1. PICK f : TakenBy(f, m)
    BY <1>2
  <2>2. \A i \in 0..m : f[i] = IF i = 0 THEN << >> ELSE A!Taken(f[i - 1], List[i])
    BY <2>1 DEF TakenBy
  <2>3. PICK g : g = [i \in 0..(m + 1) |-> IF i <= m THEN f[i] ELSE A!Taken(f[m], List[m + 1])]
    OBVIOUS
  <2>4. (\A i \in 0..m : g[i] = f[i]) /\ g[m + 1] = A!Taken(f[m], List[m + 1])
    BY <2>3
  <2>5. ASSUME NEW i \in 0..(m + 1)
        PROVE  g[i] = IF i = 0 THEN << >> ELSE A!Taken(g[i - 1], List[i])
    <3>1. CASE i = 0
      BY <2>2, <2>4, <3>1
    <3>2. CASE i # 0 /\ i <= m
      <4>1. i \in 0..m /\ i - 1 \in 0..m
        BY <3>2
      <4> QED
        BY <2>2, <2>4, <3>2, <4>1
    <3>3. CASE i = m + 1
      <4>1. i # 0 /\ i - 1 = m /\ m \in 0..m
        BY <3>3
      <4> QED
        BY <2>4, <3>3, <4>1
    <3> QED
      BY <3>1, <3>2, <3>3
  <2>6. DOMAIN g = 0..(m + 1) /\ g = [i \in DOMAIN g |-> g[i]]
    BY <2>3
  <2>7. TakenBy(g, m + 1)
    BY <2>5, <2>6 DEF TakenBy
  <2> QED
    BY <2>7
<1> HIDE DEF U
<1>3. n \in U
  BY <1>1, <1>2, NumberInduction
<1> QED
  BY <1>3 DEF U

LEMMA PlacedExist ==
  ASSUME NEW roles, NEW what, NEW n \in Nat
  PROVE  \E f : PlacedBy(f, n, roles, what)
<1> DEFINE U == {m \in Nat : \E f : PlacedBy(f, m, roles, what)}
<1>1. 0 \in U
  <2>1. PICK f : f = [i \in 0..0 |-> << >>]
    OBVIOUS
  <2>2. f = [i \in 0..0 |-> IF i = 0 THEN << >> ELSE A!Found(f[i - 1], i, roles[i], what)]
    BY <2>1
  <2>3. PlacedBy(f, 0, roles, what)
    BY <2>2 DEF PlacedBy
  <2> QED
    BY <2>3
<1>2. ASSUME NEW m \in Nat, m \in U PROVE m + 1 \in U
  <2>1. PICK f : PlacedBy(f, m, roles, what)
    BY <1>2
  <2>2. \A i \in 0..m : f[i] = IF i = 0 THEN << >> ELSE A!Found(f[i - 1], i, roles[i], what)
    BY <2>1 DEF PlacedBy
  <2>3. PICK g : g = [i \in 0..(m + 1) |-> IF i <= m THEN f[i] ELSE A!Found(f[m], m + 1, roles[m + 1], what)]
    OBVIOUS
  <2>4. (\A i \in 0..m : g[i] = f[i]) /\ g[m + 1] = A!Found(f[m], m + 1, roles[m + 1], what)
    BY <2>3
  <2>5. ASSUME NEW i \in 0..(m + 1)
        PROVE  g[i] = IF i = 0 THEN << >> ELSE A!Found(g[i - 1], i, roles[i], what)
    <3>1. CASE i = 0
      BY <2>2, <2>4, <3>1
    <3>2. CASE i # 0 /\ i <= m
      <4>1. i \in 0..m /\ i - 1 \in 0..m
        BY <3>2
      <4> QED
        BY <2>2, <2>4, <3>2, <4>1
    <3>3. CASE i = m + 1
      <4>1. i # 0 /\ i - 1 = m /\ m \in 0..m
        BY <3>3
      <4> QED
        BY <2>4, <3>3, <4>1
    <3> QED
      BY <3>1, <3>2, <3>3
  <2>6. DOMAIN g = 0..(m + 1) /\ g = [i \in DOMAIN g |-> g[i]]
    BY <2>3
  <2>7. PlacedBy(g, m + 1, roles, what)
    BY <2>5, <2>6 DEF PlacedBy
  <2> QED
    BY <2>7
<1> HIDE DEF U
<1>3. n \in U
  BY <1>1, <1>2, NumberInduction
<1> QED
  BY <1>3 DEF U

LEMMA KeptExist ==
  ASSUME NEW all, NEW p, NEW n \in Nat
  PROVE  \E f : KeptBy(f, n, all, p)
<1> DEFINE U == {m \in Nat : \E f : KeptBy(f, m, all, p)}
<1>1. 0 \in U
  <2>1. PICK f : f = [i \in 0..0 |-> << >>]
    OBVIOUS
  <2>2. f = [i \in 0..0 |-> IF i = 0 THEN << >> ELSE A!After(f[i - 1], p, all[i])]
    BY <2>1
  <2>3. KeptBy(f, 0, all, p)
    BY <2>2 DEF KeptBy
  <2> QED
    BY <2>3
<1>2. ASSUME NEW m \in Nat, m \in U PROVE m + 1 \in U
  <2>1. PICK f : KeptBy(f, m, all, p)
    BY <1>2
  <2>2. \A i \in 0..m : f[i] = IF i = 0 THEN << >> ELSE A!After(f[i - 1], p, all[i])
    BY <2>1 DEF KeptBy
  <2>3. PICK g : g = [i \in 0..(m + 1) |-> IF i <= m THEN f[i] ELSE A!After(f[m], p, all[m + 1])]
    OBVIOUS
  <2>4. (\A i \in 0..m : g[i] = f[i]) /\ g[m + 1] = A!After(f[m], p, all[m + 1])
    BY <2>3
  <2>5. ASSUME NEW i \in 0..(m + 1)
        PROVE  g[i] = IF i = 0 THEN << >> ELSE A!After(g[i - 1], p, all[i])
    <3>1. CASE i = 0
      BY <2>2, <2>4, <3>1
    <3>2. CASE i # 0 /\ i <= m
      <4>1. i \in 0..m /\ i - 1 \in 0..m
        BY <3>2
      <4> QED
        BY <2>2, <2>4, <3>2, <4>1
    <3>3. CASE i = m + 1
      <4>1. i # 0 /\ i - 1 = m /\ m \in 0..m
        BY <3>3
      <4> QED
        BY <2>4, <3>3, <4>1
    <3> QED
      BY <3>1, <3>2, <3>3
  <2>6. DOMAIN g = 0..(m + 1) /\ g = [i \in DOMAIN g |-> g[i]]
    BY <2>3
  <2>7. KeptBy(g, m + 1, all, p)
    BY <2>5, <2>6 DEF KeptBy
  <2> QED
    BY <2>7
<1> HIDE DEF U
<1>3. n \in U
  BY <1>1, <1>2, NumberInduction
<1> QED
  BY <1>3 DEF U

LEMMA FlagsExist ==
  ASSUME NEW words, NEW n \in Nat
  PROVE  \E f : FlaggedBy(f, n, words)
<1> DEFINE U == {m \in Nat : \E f : FlaggedBy(f, m, words)}
<1>1. 0 \in U
  <2>1. PICK f : f = [i \in 1..0 |-> FALSE]
    OBVIOUS
  <2>2. f = [i \in 1..0 |-> i > 1 /\ A!Takes(words[i - 1]) /\ ~f[i - 1]]
    BY <2>1
  <2>3. FlaggedBy(f, 0, words)
    BY <2>2 DEF FlaggedBy
  <2> QED
    BY <2>3
<1>2. ASSUME NEW m \in Nat, m \in U PROVE m + 1 \in U
  <2>1. PICK f : FlaggedBy(f, m, words)
    BY <1>2
  <2>2. \A i \in 1..m : f[i] = (i > 1 /\ A!Takes(words[i - 1]) /\ ~f[i - 1])
    BY <2>1 DEF FlaggedBy
  <2>3. PICK g : g = [i \in 1..(m + 1) |->
                       IF i <= m THEN f[i] ELSE m + 1 > 1 /\ A!Takes(words[m]) /\ ~f[m]]
    OBVIOUS
  <2>4. /\ \A i \in 1..m : g[i] = f[i]
        /\ g[m + 1] = (m + 1 > 1 /\ A!Takes(words[m]) /\ ~f[m])
    BY <2>3
  <2>5. ASSUME NEW i \in 1..(m + 1)
        PROVE  g[i] = (i > 1 /\ A!Takes(words[i - 1]) /\ ~g[i - 1])
    <3>1. CASE i <= m /\ i = 1
      BY <2>2, <2>4, <3>1
    <3>2. CASE i <= m /\ i # 1
      <4>1. i \in 1..m /\ i - 1 \in 1..m
        BY <3>2
      <4> QED
        BY <2>2, <2>4, <3>2, <4>1
    <3>3. CASE i = m + 1
      <4>1. i - 1 = m /\ (i > 1 => m \in 1..m)
        BY <3>3
      <4> QED
        BY <2>4, <3>3, <4>1
    <3> QED
      BY <3>1, <3>2, <3>3
  <2>6. DOMAIN g = 1..(m + 1) /\ g = [i \in DOMAIN g |-> g[i]]
    BY <2>3
  <2>7. FlaggedBy(g, m + 1, words)
    BY <2>5, <2>6 DEF FlaggedBy
  <2> QED
    BY <2>7
<1> HIDE DEF U
<1>3. n \in U
  BY <1>1, <1>2, NumberInduction
<1> QED
  BY <1>3 DEF U

(* The constructor makes a sequence.                                       *)
LEMMA ParametersRule ==
  /\ A!Parameters \subseteq Nat /\ 0 \notin A!Parameters
  /\ A!NoValue \notin Words
<1>1. /\ Len(List) \in Nat /\ DOMAIN List = 1..Len(List)
      /\ Args = A!Constructed /\ A!NoValue \notin Words
  BY ArgumentsHold DEF A!ArgumentsAssumption
<1>2. PICK f : f = CHOOSE g : TakenBy(g, Len(List))
  OBVIOUS
<1>3. TakenBy(f, Len(List))
  BY <1>1, <1>2, TakenExist
<1>4. Args = f[Len(List)]
  BY <1>1, <1>2 DEF A!Constructed, TakenBy
<1> DEFINE Q == {List[j] : j \in 1..Len(List)}
<1> DEFINE U == {n \in Nat : n <= Len(List) => f[n] \in Seq(Q)}
<1>5. \A i \in 0..Len(List) : f[i] = IF i = 0 THEN << >> ELSE A!Taken(f[i - 1], List[i])
  BY <1>3 DEF TakenBy
<1>6. 0 \in U
  <2>1. f[0] = << >>
    BY <1>1, <1>5
  <2> HIDE DEF Q
  <2> QED
    BY <2>1, EmptySeq
<1>7. ASSUME NEW n \in Nat, n \in U PROVE n + 1 \in U
  <2> SUFFICES ASSUME n + 1 <= Len(List) PROVE f[n + 1] \in Seq(Q)
    OBVIOUS
  <2>1. n + 1 \in 0..Len(List) /\ n + 1 # 0 /\ (n + 1) - 1 = n /\ n + 1 \in 1..Len(List)
    BY <1>1
  <2>2. f[n + 1] = A!Taken(f[n], List[n + 1])
    BY <1>5, <2>1
  <2>3. f[n] \in Seq(Q) /\ List[n + 1] \in Q
    BY <1>1, <1>7, <2>1
  <2> HIDE DEF Q
  <2>4. Append(f[n], List[n + 1]) \in Seq(Q)
    BY <2>3, AppendProperties
  <2> QED
    BY <2>2, <2>3, <2>4 DEF A!Taken
<1> HIDE DEF U
<1>8. \A n \in Nat : n \in U
  BY <1>6, <1>7, NumberInduction
<1>9. Args \in Seq(Q)
  BY <1>1, <1>4, <1>8 DEF U
<1>10. A!Parameters = 1..Len(Args) /\ Len(Args) \in Nat
  BY <1>9 DEF A!Parameters
<1> QED
  BY <1>1, <1>10

(* The states of the loops, from one element to the next.                  *)
LEMMA PlacesRule ==
  ASSUME NEW roles, NEW what, Len(roles) \in Nat
  PROVE  \E f : /\ f[0] = << >> /\ A!Places(roles, what) = f[Len(roles)]
                /\ \A i \in 1..Len(roles) : f[i] = A!Found(f[i - 1], i, roles[i], what)
<1>1. PICK f : f = CHOOSE g : PlacedBy(g, Len(roles), roles, what)
  OBVIOUS
<1>2. PlacedBy(f, Len(roles), roles, what)
  BY <1>1, PlacedExist
<1>3. A!Places(roles, what) = f[Len(roles)]
  BY <1>1 DEF A!Places, PlacedBy
<1>4. \A i \in 0..Len(roles) :
        f[i] = IF i = 0 THEN << >> ELSE A!Found(f[i - 1], i, roles[i], what)
  BY <1>2 DEF PlacedBy
<1>5. 0 \in 0..Len(roles) /\ \A i \in 1..Len(roles) : i \in 0..Len(roles) /\ i # 0
  OBVIOUS
<1> QED
  BY <1>3, <1>4, <1>5

LEMMA KeptRule ==
  ASSUME NEW all, NEW p, Len(all) \in Nat
  PROVE  \E f : /\ f[0] = << >> /\ A!Kept(all, p) = f[Len(all)]
                /\ \A i \in 1..Len(all) : f[i] = A!After(f[i - 1], p, all[i])
<1>1. PICK f : f = CHOOSE g : KeptBy(g, Len(all), all, p)
  OBVIOUS
<1>2. KeptBy(f, Len(all), all, p)
  BY <1>1, KeptExist
<1>3. A!Kept(all, p) = f[Len(all)]
  BY <1>1 DEF A!Kept, KeptBy
<1>4. \A i \in 0..Len(all) : f[i] = IF i = 0 THEN << >> ELSE A!After(f[i - 1], p, all[i])
  BY <1>2 DEF KeptBy
<1>5. 0 \in 0..Len(all) /\ \A i \in 1..Len(all) : i \in 0..Len(all) /\ i # 0
  OBVIOUS
<1> QED
  BY <1>3, <1>4, <1>5

LEMMA FlagsRule ==
  ASSUME NEW ws \in Seq(Words), NEW i \in 1..Len(ws)
  PROVE  A!AreValues(ws)[i] = (i > 1 /\ A!Takes(ws[i - 1]) /\ ~A!AreValues(ws)[i - 1])
<1>1. PICK f : f = CHOOSE g : FlaggedBy(g, Len(ws), ws)
  OBVIOUS
<1>2. FlaggedBy(f, Len(ws), ws)
  BY <1>1, FlagsExist
<1>3. A!AreValues(ws) = CHOOSE g : g = [k \in 1..Len(ws) |-> k > 1 /\ A!Takes(ws[k - 1]) /\ ~g[k - 1]]
  <2>1. DOMAIN ws = 1..Len(ws)
    OBVIOUS
  <2>2. A!AreValues(ws) = CHOOSE g : g = [k \in DOMAIN ws |-> k > 1 /\ A!Takes(ws[k - 1]) /\ ~g[k - 1]]
    BY Zenon DEF A!AreValues
  <2> QED
    BY <2>1, <2>2, Zenon
<1>4. A!AreValues(ws) = f
  BY <1>1, <1>3 DEF FlaggedBy
<1> QED
  BY <1>2, <1>4 DEF FlaggedBy

(* Elements, one element more, and the last one.                           *)
LEMMA SeqElements ==
  ASSUME NEW X, NEW s \in Seq(X)
  PROVE  Len(s) \in Nat /\ DOMAIN s = 1..Len(s) /\ \A i \in 1..Len(s) : s[i] \in X
  OBVIOUS

LEMMA SeqWithin ==
  ASSUME NEW X, NEW Y, X \subseteq Y, NEW s \in Seq(X)
  PROVE  s \in Seq(Y)
  OBVIOUS

LEMMA LastBehind ==
  ASSUME NEW X, NEW s \in Seq(X), s # << >>
  PROVE  \E t \in Seq(X), x \in X :
           s = Append(t, x) /\ Len(s) = Len(t) + 1 /\ s[Len(s)] = x
<1>1. PICK n : n = Len(s)
  OBVIOUS
<1>2. n \in Nat /\ n # 0 /\ \A i \in 1..n : s[i] \in X
  BY <1>1, EmptySeq, SeqElements
<1>3. PICK t, x : t = [i \in 1..(n - 1) |-> s[i]] /\ x = s[n]
  OBVIOUS
<1>4. n - 1 \in Nat /\ (n - 1) + 1 = n /\ n \in 1..n /\ \A i \in 1..(n - 1) : i \in 1..n
  BY <1>2
<1>5. t \in Seq(X) /\ Len(t) = n - 1 /\ x \in X
  BY <1>2, <1>3, <1>4
<1>6. PICK u : u = Append(t, x)
  OBVIOUS
<1>7. u \in Seq(X) /\ Len(u) = n /\ u[n] = x /\ \A i \in 1..(n - 1) : u[i] = t[i]
  BY <1>4, <1>5, <1>6, AppendProperties
<1>8. \A i \in 1..n : s[i] = u[i]
  <2> SUFFICES ASSUME NEW i \in 1..n PROVE s[i] = u[i]
    OBVIOUS
  <2>1. CASE i = n
    BY <1>3, <1>7, <2>1
  <2>2. CASE i # n
    <3>1. i \in 1..(n - 1)
      BY <1>2, <2>2
    <3> QED
      BY <1>3, <1>7, <3>1
  <2> QED
    BY <2>1, <2>2
<1>9. s = u
  BY <1>1, <1>7, <1>8, SeqEqual
<1> QED
  BY <1>1, <1>3, <1>4, <1>5, <1>6, <1>9

LEMMA ListOf ==
  ASSUME NEW X, NEW n \in Nat, NEW s, s = [k \in 1..n |-> s[k]], \A k \in 1..n : s[k] \in X
  PROVE  s \in Seq(X) /\ Len(s) = n
  OBVIOUS

Listed(s, n) == s = [k \in 1..n |-> s[k]]

(* s and one element more are more, element by element.                    *)
LEMMA IsMore ==
  ASSUME NEW X, NEW n \in Nat, NEW s \in Seq(X), Len(s) = n, NEW x \in X,
         NEW more, Listed(more, n + 1),
         more[n + 1] = x, \A k \in 1..n : more[k] = s[k]
  PROVE  more = Append(s, x)
<1>1. \A k \in 1..(n + 1) : k \in 1..n \/ k = n + 1
  OBVIOUS
<1>2. PICK u : u = Append(s, x)
  OBVIOUS
<1>3. /\ u \in Seq(X) /\ Len(u) = n + 1 /\ u[n + 1] = x
      /\ \A k \in 1..n : u[k] = s[k]
  BY <1>2, AppendProperties
<1>4. \A k \in 1..(n + 1) : more[k] = u[k] /\ u[k] \in X
  BY <1>1, <1>3, SeqElements
<1>5. more \in Seq(X) /\ Len(more) = n + 1
  BY <1>4, ListOf DEF Listed
<1> QED
  BY <1>2, <1>3, <1>4, <1>5, SeqEqual

(* Concatenation and one element more.                                     *)
LEMMA JoinedWithMore ==
  ASSUME NEW X, NEW s \in Seq(X), NEW t \in Seq(X), NEW x \in X
  PROVE  s \o t \in Seq(X) /\ s \o Append(t, x) = Append(s \o t, x)
<1>1. PICK e : e = << x >>
  OBVIOUS
<1>2. e \in Seq(X) /\ s \o t \in Seq(X)
  BY <1>1, ConcatProperties
<1>3. Append(t, x) = t \o e /\ Append(s \o t, x) = (s \o t) \o e
  BY <1>1, <1>2, AppendIsConcat
<1>4. s \o (t \o e) = (s \o t) \o e
  BY <1>2, ConcatAssociative
<1> QED
  BY <1>2, <1>3, <1>4

LEMMA PlacesOfNone == \A what : A!Places(<< >>, what) = << >>
<1> SUFFICES ASSUME NEW what PROVE A!Places(<< >>, what) = << >>
  OBVIOUS
<1>1. Len(<< >>) = 0
  BY EmptySeq
<1> QED
  BY <1>1, PlacesRule

LEMMA PlacesAre ==
  ASSUME NEW X, NEW roles \in Seq(X), NEW what
  PROVE  A!Places(roles, what) \in Seq({i \in 1..Len(roles) : roles[i] = what})
<1>1. Len(roles) \in Nat
  OBVIOUS
<1>2. PICK f : /\ f[0] = << >> /\ A!Places(roles, what) = f[Len(roles)]
               /\ \A i \in 1..Len(roles) : f[i] = A!Found(f[i - 1], i, roles[i], what)
  BY <1>1, PlacesRule
<1> DEFINE Q == {i \in 1..Len(roles) : roles[i] = what}
<1> DEFINE U == {n \in Nat : n <= Len(roles) => f[n] \in Seq(Q)}
<1>3. 0 \in U
  BY <1>2, EmptySeq
<1>4. ASSUME NEW n \in Nat, n \in U PROVE n + 1 \in U
  <2> SUFFICES ASSUME n + 1 <= Len(roles) PROVE f[n + 1] \in Seq(Q)
    OBVIOUS
  <2>1. n + 1 \in 1..Len(roles) /\ (n + 1) - 1 = n
    BY <1>1
  <2>2. f[n + 1] = A!Found(f[n], n + 1, roles[n + 1], what)
    BY <1>2, <2>1
  <2>3. f[n] \in Seq(Q)
    BY <1>1, <1>4
  <2>4. roles[n + 1] = what => n + 1 \in Q
    BY <2>1
  <2> HIDE DEF Q
  <2> QED
    BY <2>2, <2>3, <2>4, AppendProperties DEF A!Found
<1> HIDE DEF U
<1>5. \A n \in Nat : n \in U
  BY <1>3, <1>4, NumberInduction
<1> QED
  BY <1>1, <1>2, <1>5 DEF U

LEMMA PlacesOfMore ==
  ASSUME NEW X, NEW roles \in Seq(X), NEW x \in X, NEW what
  PROVE  A!Places(Append(roles, x), what)
           = A!Found(A!Places(roles, what), Len(roles) + 1, x, what)
<1>1. PICK n, more : n = Len(roles) /\ more = Append(roles, x)
  OBVIOUS
<1>2. n \in Nat /\ Len(more) = n + 1 /\ more[n + 1] = x /\ \A i \in 1..n : more[i] = roles[i]
  BY <1>1, AppendProperties
<1>3. PICK f : /\ f[0] = << >> /\ A!Places(roles, what) = f[n]
               /\ \A i \in 1..n : f[i] = A!Found(f[i - 1], i, roles[i], what)
  BY <1>1, <1>2, PlacesRule
<1>4. PICK g : /\ g[0] = << >> /\ A!Places(more, what) = g[n + 1]
               /\ \A i \in 1..(n + 1) : g[i] = A!Found(g[i - 1], i, more[i], what)
  BY <1>2, PlacesRule
<1> DEFINE U == {k \in Nat : k <= n => g[k] = f[k]}
<1>5. 0 \in U
  BY <1>3, <1>4
<1>6. ASSUME NEW k \in Nat, k \in U PROVE k + 1 \in U
  <2> SUFFICES ASSUME k + 1 <= n PROVE g[k + 1] = f[k + 1]
    OBVIOUS
  <2>1. k + 1 \in 1..n /\ k + 1 \in 1..(n + 1) /\ (k + 1) - 1 = k /\ g[k] = f[k]
    BY <1>2, <1>6
  <2> QED
    BY <1>2, <1>3, <1>4, <2>1
<1> HIDE DEF U
<1>7. n \in U
  BY <1>2, <1>5, <1>6, NumberInduction
<1>8. g[n] = f[n] /\ n + 1 \in 1..(n + 1) /\ (n + 1) - 1 = n
  BY <1>2, <1>7 DEF U
<1>9. g[n + 1] = A!Found(f[n], n + 1, x, what)
  BY <1>2, <1>4, <1>8
<1> QED
  BY <1>1, <1>3, <1>4, <1>9

LEMMA KeptOfNone == \A p : A!Kept(<< >>, p) = << >>
<1> SUFFICES ASSUME NEW p PROVE A!Kept(<< >>, p) = << >>
  OBVIOUS
<1>1. Len(<< >>) = 0
  BY EmptySeq
<1> QED
  BY <1>1, KeptRule

LEMMA KeptOfMore ==
  ASSUME NEW X, NEW all \in Seq(X), NEW x \in X, NEW p
  PROVE  A!Kept(Append(all, x), p) = A!After(A!Kept(all, p), p, x)
<1>1. PICK n, more : n = Len(all) /\ more = Append(all, x)
  OBVIOUS
<1>2. n \in Nat /\ Len(more) = n + 1 /\ more[n + 1] = x /\ \A i \in 1..n : more[i] = all[i]
  BY <1>1, AppendProperties
<1>3. PICK f : /\ f[0] = << >> /\ A!Kept(all, p) = f[n]
               /\ \A i \in 1..n : f[i] = A!After(f[i - 1], p, all[i])
  BY <1>1, <1>2, KeptRule
<1>4. PICK g : /\ g[0] = << >> /\ A!Kept(more, p) = g[n + 1]
               /\ \A i \in 1..(n + 1) : g[i] = A!After(g[i - 1], p, more[i])
  BY <1>2, KeptRule
<1> DEFINE U == {k \in Nat : k <= n => g[k] = f[k]}
<1>5. 0 \in U
  BY <1>3, <1>4
<1>6. ASSUME NEW k \in Nat, k \in U PROVE k + 1 \in U
  <2> SUFFICES ASSUME k + 1 <= n PROVE g[k + 1] = f[k + 1]
    OBVIOUS
  <2>1. k + 1 \in 1..n /\ k + 1 \in 1..(n + 1) /\ (k + 1) - 1 = k /\ g[k] = f[k]
    BY <1>2, <1>6
  <2> QED
    BY <1>2, <1>3, <1>4, <2>1
<1> HIDE DEF U
<1>7. n \in U
  BY <1>2, <1>5, <1>6, NumberInduction
<1>8. g[n] = f[n] /\ n + 1 \in 1..(n + 1) /\ (n + 1) - 1 = n
  BY <1>2, <1>7 DEF U
<1>9. g[n + 1] = A!After(f[n], p, x)
  BY <1>2, <1>4, <1>8
<1> QED
  BY <1>1, <1>3, <1>4, <1>9

LEMMA FlagsOfMore ==
  ASSUME NEW ws \in Seq(Words), NEW w \in Words, NEW i \in 1..Len(ws)
  PROVE  A!AreValues(Append(ws, w))[i] = A!AreValues(ws)[i]
<1>1. PICK n, more : n = Len(ws) /\ more = Append(ws, w)
  OBVIOUS
<1>2. /\ n \in Nat /\ more \in Seq(Words) /\ Len(more) = n + 1
      /\ \A k \in 1..n : more[k] = ws[k]
  BY <1>1, AppendProperties
<1> DEFINE F(k) == A!AreValues(ws)[k]
           G(k) == A!AreValues(more)[k]
<1>3. \A k \in 1..n : F(k) = (k > 1 /\ A!Takes(ws[k - 1]) /\ ~F(k - 1))
  BY <1>1, FlagsRule
<1>4. \A k \in 1..(n + 1) : G(k) = (k > 1 /\ A!Takes(more[k - 1]) /\ ~G(k - 1))
  BY <1>2, FlagsRule
<1> HIDE DEF F, G
<1> DEFINE U == {k \in Nat : k + 1 <= n => G(k + 1) = F(k + 1)}
<1>5. 0 \in U
  <2>1. 0 + 1 <= n => 1 \in 1..n /\ 1 \in 1..(n + 1)
    BY <1>2
  <2> QED
    BY <1>2, <1>3, <1>4, <2>1
<1>6. ASSUME NEW k \in Nat, k \in U PROVE k + 1 \in U
  <2> SUFFICES ASSUME (k + 1) + 1 <= n PROVE G((k + 1) + 1) = F((k + 1) + 1)
    OBVIOUS
  <2>1. PICK j : j = (k + 1) + 1
    OBVIOUS
  <2>2. j \in 1..n /\ j \in 1..(n + 1) /\ j - 1 = k + 1 /\ j - 1 \in 1..n
    BY <1>2, <2>1
  <2>3. G(j - 1) = F(j - 1) /\ more[j - 1] = ws[j - 1]
    BY <1>2, <1>6, <2>2
  <2>4. G(j) = F(j)
    BY <1>3, <1>4, <2>2, <2>3
  <2> QED
    BY <2>1, <2>4
<1>7. \A k \in Nat : k \in U
  <2> HIDE DEF U
  <2> QED
    BY <1>5, <1>6, NumberInduction
<1>8. i - 1 \in Nat /\ (i - 1) + 1 = i /\ i <= n
  BY <1>1
<1>9. G(i) = F(i)
  BY <1>7, <1>8
<1> QED
  BY <1>1, <1>9 DEF F, G

-----------------------------------------------------------------------------
(* The words of a command line: what one word more is.                     *)

RoleNames == {"terminal", "end", "value", "name", "positional", "unknown"}

EndIn(ws) == A!EndOf(ws, A!AreValues(ws))
Ended(ws) == EndIn(ws) <= Len(ws)

(* The last word is a name without its value.                              *)
Open(ws) ==
  ws # << >> /\ ~Ended(ws) /\ A!Takes(ws[Len(ws)]) /\ ~A!AreValues(ws)[Len(ws)]

RoleAfter(ws, w) ==
  CASE Ended(ws) -> "terminal"
    [] ~Ended(ws) /\ Open(ws) -> "value"
    [] ~Ended(ws) /\ ~Open(ws) /\ w = A!Terminator -> "end"
    [] OTHER -> A!RoleOf(w)

IsEndAt(ws, i) == ws[i] = A!Terminator /\ ~A!AreValues(ws)[i]

LEMMA EndRule ==
  ASSUME NEW ws \in Seq(Words)
  PROVE  /\ EndIn(ws) \in 1..(Len(ws) + 1)
         /\ EndIn(ws) <= Len(ws) => IsEndAt(ws, EndIn(ws))
         /\ \A i \in 1..Len(ws) : IsEndAt(ws, i) => EndIn(ws) <= i
<1> DEFINE T == {Len(ws) + 1} \cup {i \in 1..Len(ws) : IsEndAt(ws, i)}
<1>1. EndIn(ws) = A!Min(T)
  <2>1. DOMAIN ws = 1..Len(ws)
    OBVIOUS
  <2> QED
    BY <2>1 DEF EndIn, A!EndOf, IsEndAt
<1>2. Len(ws) \in Nat /\ T \subseteq Nat /\ T # {}
  OBVIOUS
<1>3. A!Min(T) \in T /\ \A y \in T : A!Min(T) <= y
  <2> HIDE DEF T
  <2> QED
    BY <1>2, LeastInArguments
<1>4. PICK e : e = EndIn(ws)
  OBVIOUS
<1>5. e \in T /\ \A y \in T : e <= y
  BY <1>1, <1>3, <1>4
<1> QED
  BY <1>2, <1>4, <1>5

(* The end, as a number that the step moves on.                            *)
LEMMA EndIs ==
  ASSUME NEW ws \in Seq(Words), NEW e \in 1..(Len(ws) + 1),
         e <= Len(ws) => IsEndAt(ws, e),
         \A i \in 1..Len(ws) : IsEndAt(ws, i) => e <= i
  PROVE  EndIn(ws) = e
<1>1. PICK d, n : d = EndIn(ws) /\ n = Len(ws)
  OBVIOUS
<1>2. /\ n \in Nat /\ d \in 1..(n + 1)
      /\ d <= n => IsEndAt(ws, d)
      /\ \A i \in 1..n : IsEndAt(ws, i) => d <= i
  BY <1>1, EndRule
<1>3. d <= n => e <= d
  BY <1>1, <1>2
<1>4. e <= n => d <= e
  BY <1>1, <1>2
<1> QED
  BY <1>1, <1>2, <1>3, <1>4

LEMMA FlagAfter ==
  ASSUME NEW ws \in Seq(Words), NEW w \in Words, ~Ended(ws)
  PROVE  A!AreValues(Append(ws, w))[Len(ws) + 1] = Open(ws)
<1>1. PICK n, more : n = Len(ws) /\ more = Append(ws, w)
  OBVIOUS
<1>2. /\ n \in Nat /\ more \in Seq(Words) /\ Len(more) = n + 1
      /\ \A k \in 1..n : more[k] = ws[k]
  BY <1>1, AppendProperties
<1>3. A!AreValues(more)[n + 1]
        = (n + 1 > 1 /\ A!Takes(more[(n + 1) - 1]) /\ ~A!AreValues(more)[(n + 1) - 1])
  BY <1>2, FlagsRule
<1>4. (n + 1) - 1 = n /\ (n + 1 > 1 <=> n # 0)
  BY <1>2
<1>5. n # 0 <=> ws # << >>
  BY <1>1, EmptySeq
<1>6. n # 0 => more[n] = ws[n] /\ A!AreValues(more)[n] = A!AreValues(ws)[n]
  BY <1>1, <1>2, FlagsOfMore
<1>7. A!AreValues(more)[n + 1] = (n # 0 /\ A!Takes(more[n]) /\ ~A!AreValues(more)[n])
  BY <1>3, <1>4
<1>8. (n # 0 /\ A!Takes(more[n]) /\ ~A!AreValues(more)[n])
        = (n # 0 /\ A!Takes(ws[n]) /\ ~A!AreValues(ws)[n])
  BY <1>6
<1>9. Open(ws) = (n # 0 /\ A!Takes(ws[n]) /\ ~A!AreValues(ws)[n])
  BY <1>1, <1>5 DEF Open
<1> QED
  BY <1>1, <1>7, <1>8, <1>9

LEMMA EndAfter ==
  ASSUME NEW ws \in Seq(Words), NEW w \in Words
  PROVE  /\ Ended(ws) => EndIn(Append(ws, w)) = EndIn(ws)
         /\ ~Ended(ws) /\ ~Open(ws) /\ w = A!Terminator => EndIn(Append(ws, w)) = Len(ws) + 1
         /\ ~Ended(ws) /\ ~(~Open(ws) /\ w = A!Terminator) => EndIn(Append(ws, w)) = Len(ws) + 2
<1>1. PICK n, more, e : n = Len(ws) /\ more = Append(ws, w) /\ e = EndIn(ws)
  OBVIOUS
<1>2. /\ n \in Nat /\ more \in Seq(Words) /\ Len(more) = n + 1 /\ more[n + 1] = w
      /\ \A k \in 1..n : more[k] = ws[k]
  BY <1>1, AppendProperties
<1>3. /\ e \in 1..(n + 1) /\ (e <= n => IsEndAt(ws, e))
      /\ \A i \in 1..n : IsEndAt(ws, i) => e <= i
      /\ Ended(ws) <=> e <= n
  BY <1>1, EndRule DEF Ended
<1>4. ASSUME NEW i \in 1..n PROVE IsEndAt(more, i) <=> IsEndAt(ws, i)
  <2>1. A!AreValues(more)[i] = A!AreValues(ws)[i] /\ more[i] = ws[i]
    BY <1>1, <1>2, FlagsOfMore
  <2> QED
    BY <2>1 DEF IsEndAt
<1>5. ~Ended(ws) => (IsEndAt(more, n + 1) <=> ~Open(ws) /\ w = A!Terminator)
  <2> SUFFICES ASSUME ~Ended(ws)
               PROVE  IsEndAt(more, n + 1) <=> (~Open(ws) /\ w = A!Terminator)
    OBVIOUS
  <2>1. A!AreValues(more)[n + 1] = Open(ws)
    BY <1>1, FlagAfter
  <2> QED
    BY <1>2, <2>1 DEF IsEndAt
<1>6. CASE Ended(ws)
  <2>1. e \in 1..((n + 1) + 1) /\ e \in 1..n /\ IsEndAt(more, e)
    BY <1>2, <1>3, <1>4, <1>6
  <2>2. ASSUME NEW i \in 1..(n + 1), IsEndAt(more, i) PROVE e <= i
    <3>1. CASE i \in 1..n
      BY <1>3, <1>4, <2>2, <3>1
    <3>2. CASE i = n + 1
      BY <1>2, <2>1, <3>2
    <3> QED
      BY <1>2, <3>1, <3>2
  <2>3. EndIn(more) = e
    BY <1>2, <2>1, <2>2, EndIs
  <2> QED
    BY <1>1, <1>6, <2>3
<1>7. CASE ~Ended(ws)
  <2>1. \A i \in 1..n : ~IsEndAt(more, i)
    BY <1>2, <1>3, <1>4, <1>7
  <2>2. CASE ~Open(ws) /\ w = A!Terminator
    <3>1. n + 1 \in 1..((n + 1) + 1) /\ IsEndAt(more, n + 1)
      BY <1>2, <1>5, <1>7, <2>2
    <3>2. \A i \in 1..(n + 1) : IsEndAt(more, i) => n + 1 <= i
      BY <1>2, <2>1
    <3>3. EndIn(more) = n + 1
      BY <1>2, <3>1, <3>2, EndIs
    <3> QED
      BY <1>1, <1>7, <2>2, <3>3
  <2>3. CASE ~(~Open(ws) /\ w = A!Terminator)
    <3>1. n + 2 \in 1..((n + 1) + 1) /\ ~(n + 2 <= n + 1) /\ ~IsEndAt(more, n + 1)
      BY <1>2, <1>5, <1>7, <2>3
    <3>2. \A i \in 1..(n + 1) : IsEndAt(more, i) => n + 2 <= i
      BY <1>2, <2>1, <3>1
    <3>3. EndIn(more) = n + 2
      BY <1>2, <3>1, <3>2, EndIs
    <3> QED
      BY <1>1, <1>7, <2>3, <3>3
  <2> QED
    BY <2>2, <2>3
<1> QED
  BY <1>6, <1>7

LEMMA RolesRule ==
  ASSUME NEW ws \in Seq(Words)
  PROVE  /\ A!Roles(ws) \in Seq(RoleNames) /\ Len(A!Roles(ws)) = Len(ws)
         /\ \A i \in 1..Len(ws) : A!Roles(ws)[i] =
              CASE i > EndIn(ws) -> "terminal"
                [] i = EndIn(ws) -> "end"
                [] i < EndIn(ws) /\ A!AreValues(ws)[i] -> "value"
                [] OTHER -> A!RoleOf(ws[i])
<1>1. PICK r, n : r = A!Roles(ws) /\ n = Len(ws)
  OBVIOUS
<1>2. r = [i \in 1..n |->
             CASE i > EndIn(ws) -> "terminal"
               [] i = EndIn(ws) -> "end"
               [] i < EndIn(ws) /\ A!AreValues(ws)[i] -> "value"
               [] OTHER -> A!RoleOf(ws[i])]
  BY <1>1 DEF A!Roles, A!RolesFor, A!RolesUpTo, EndIn
<1>3. \A w : A!RoleOf(w) \in RoleNames
  BY DEF A!RoleOf, RoleNames
<1>4. n \in Nat /\ \A i \in 1..n : r[i] \in RoleNames
  BY <1>1, <1>2, <1>3 DEF RoleNames
<1>5. r \in Seq(RoleNames) /\ Len(r) = n
  <2>1. r = [i \in 1..n |-> r[i]]
    BY <1>2
  <2> QED
    BY <1>4, <2>1
<1> QED
  BY <1>1, <1>2, <1>5

LEMMA RolesAfter ==
  ASSUME NEW ws \in Seq(Words), NEW w \in Words
  PROVE  A!Roles(Append(ws, w)) = Append(A!Roles(ws), RoleAfter(ws, w))
<1>1. PICK n, more, e, d : n = Len(ws) /\ more = Append(ws, w) /\ e = EndIn(ws) /\ d = EndIn(more)
  OBVIOUS
<1>2. /\ n \in Nat /\ more \in Seq(Words) /\ Len(more) = n + 1 /\ more[n + 1] = w
      /\ \A k \in 1..n : more[k] = ws[k]
  BY <1>1, AppendProperties
<1>3. PICK r, s : r = A!Roles(ws) /\ s = A!Roles(more)
  OBVIOUS
<1>4. /\ r \in Seq(RoleNames) /\ Len(r) = n
      /\ \A i \in 1..n : r[i] = CASE i > e -> "terminal"
                                  [] i = e -> "end"
                                  [] i < e /\ A!AreValues(ws)[i] -> "value"
                                  [] OTHER -> A!RoleOf(ws[i])
  BY <1>1, <1>3, RolesRule
<1>5. /\ s \in Seq(RoleNames) /\ Len(s) = n + 1
      /\ \A i \in 1..(n + 1) : s[i] = CASE i > d -> "terminal"
                                        [] i = d -> "end"
                                        [] i < d /\ A!AreValues(more)[i] -> "value"
                                        [] OTHER -> A!RoleOf(more[i])
  BY <1>1, <1>2, <1>3, RolesRule
<1>6. e \in 1..(n + 1) /\ (Ended(ws) <=> e <= n)
  BY <1>1, EndRule DEF Ended
<1>7. /\ Ended(ws) => d = e
      /\ ~Ended(ws) /\ ~Open(ws) /\ w = A!Terminator => d = n + 1
      /\ ~Ended(ws) /\ ~(~Open(ws) /\ w = A!Terminator) => d = n + 2
  BY <1>1, EndAfter
<1>8. ASSUME NEW i \in 1..n PROVE s[i] = r[i]
  <2>1. A!AreValues(more)[i] = A!AreValues(ws)[i] /\ more[i] = ws[i] /\ i \in 1..(n + 1)
    BY <1>1, <1>2, FlagsOfMore
  <2>2. (i > d <=> i > e) /\ (i = d <=> i = e) /\ (i < d <=> i < e)
    BY <1>2, <1>6, <1>7
  <2> QED
    BY <1>4, <1>5, <2>1, <2>2
<1>9. s[n + 1] = RoleAfter(ws, w)
  <2>1. n + 1 \in 1..(n + 1)
    BY <1>2
  <2>2. CASE Ended(ws)
    BY <1>2, <1>5, <1>6, <1>7, <2>1, <2>2 DEF RoleAfter
  <2>3. CASE ~Ended(ws)
    <3>1. A!AreValues(more)[n + 1] = Open(ws)
      BY <1>1, <2>3, FlagAfter
    <3>2. CASE ~Open(ws) /\ w = A!Terminator
      BY <1>2, <1>5, <1>7, <2>1, <2>3, <3>2 DEF RoleAfter
    <3>3. CASE Open(ws)
      <4>1. A!AreValues(more)[n + 1] /\ d = n + 2 /\ n + 1 < d
        BY <1>2, <1>7, <2>3, <3>1, <3>3
      <4>2. s[n + 1] = "value"
        BY <1>5, <2>1, <4>1
      <4> QED
        BY <2>3, <3>3, <4>2 DEF RoleAfter
    <3>4. CASE ~Open(ws) /\ w # A!Terminator
      BY <1>2, <1>5, <1>7, <2>1, <2>3, <3>1, <3>4 DEF RoleAfter
    <3> QED
      BY <3>2, <3>3, <3>4
  <2> QED
    BY <2>2, <2>3
<1>10. RoleAfter(ws, w) \in RoleNames
  BY <1>2, <1>5, <1>9
<1>11. s = Append(r, RoleAfter(ws, w))
  <2>1. PICK x : x = RoleAfter(ws, w)
    OBVIOUS
  <2>2. /\ Append(r, x) \in Seq(RoleNames) /\ Len(Append(r, x)) = n + 1
        /\ Append(r, x)[n + 1] = x /\ \A i \in 1..n : Append(r, x)[i] = r[i]
    BY <1>4, <1>10, <2>1, AppendProperties
  <2>3. \A i \in 1..(n + 1) : s[i] = Append(r, x)[i]
    BY <1>2, <1>8, <1>9, <2>1, <2>2
  <2> QED
    BY <1>5, <2>1, <2>2, <2>3, SeqEqual
<1> QED
  BY <1>1, <1>3, <1>11

LEMMA NamesAreTaken ==
  \A w : (A!Takes(w) => A!RoleOf(w) = "name") /\ (A!RoleOf(w) = "name" <=> A!Named(w) # 0)
  BY DEF A!Takes, A!RoleOf

LEMMA AfterWord ==
  ASSUME NEW ws \in Seq(Words), NEW w \in Words
  PROVE  /\ Ended(Append(ws, w)) <=> Ended(ws) \/ RoleAfter(ws, w) = "end"
         /\ Open(Append(ws, w)) <=> RoleAfter(ws, w) = "name" /\ A!Takes(w)
<1>1. PICK n, more : n = Len(ws) /\ more = Append(ws, w)
  OBVIOUS
<1>2. /\ n \in Nat /\ more \in Seq(Words) /\ Len(more) = n + 1 /\ more[n + 1] = w
      /\ more # << >>
  BY <1>1, AppendProperties
<1>3. EndIn(ws) \in 1..(n + 1) /\ (Ended(ws) <=> EndIn(ws) <= n)
  BY <1>1, EndRule DEF Ended
<1>4. /\ Ended(ws) => EndIn(more) = EndIn(ws)
      /\ ~Ended(ws) /\ ~Open(ws) /\ w = A!Terminator => EndIn(more) = n + 1
      /\ ~Ended(ws) /\ ~(~Open(ws) /\ w = A!Terminator) => EndIn(more) = n + 2
  BY <1>1, EndAfter
<1>5. A!RoleOf(w) \in {"name", "positional", "unknown"}
  BY DEF A!RoleOf
<1>6. Ended(more) <=> EndIn(more) <= n + 1
  BY <1>2 DEF Ended
<1>7. Ended(more) <=> Ended(ws) \/ (~Open(ws) /\ w = A!Terminator)
  BY <1>2, <1>3, <1>4, <1>6
<1>8. RoleAfter(ws, w) = "end" <=> (~Ended(ws) /\ ~Open(ws) /\ w = A!Terminator)
  BY <1>5 DEF RoleAfter
<1>9. RoleAfter(ws, w) = "name" /\ A!Takes(w)
        <=> ~Ended(ws) /\ ~Open(ws) /\ w # A!Terminator /\ A!Takes(w)
  BY <1>5, NamesAreTaken DEF RoleAfter
<1>10. Open(more) <=> ~Ended(more) /\ A!Takes(w) /\ ~A!AreValues(more)[n + 1]
  BY <1>2 DEF Open
<1>11. ~Ended(ws) => A!AreValues(more)[n + 1] = Open(ws)
  BY <1>1, FlagAfter
<1> QED
  BY <1>1, <1>7, <1>8, <1>9, <1>10, <1>11

-----------------------------------------------------------------------------
(* The values and the words of a command line, and one word more.          *)

Said ==
  Words \cup {A!NoValue} \cup {A!ValueOf(w, x) : w \in Words, x \in Words \cup {A!NoValue}}
Givens == {A!Given(A!Named(w), v, by) : w \in Words, v \in Said, by \in {"parse", "set"}}

NamesIn(ws) == A!Places(A!Roles(ws), "name")
ValuesIn(ws) == A!ValuesAt(ws, NamesIn(ws))
WordsIn(ws, what) == A!WordsAt(ws, A!Places(A!Roles(ws), what))
GivenBy(w, v) == A!Given(A!Named(w), v, "parse")

(* The values of a command line without one that is still awaited.         *)
Ready(ws, given) ==
  IF Open(ws) THEN ValuesIn(ws) = Append(given, GivenBy(ws[Len(ws)], A!NoValue))
  ELSE ValuesIn(ws) = given

LEMMA GivensAre ==
  ASSUME NEW w \in Words, NEW v \in Said
  PROVE  GivenBy(w, v) \in Givens
  BY DEF Givens, GivenBy

LEMMA ValueOfTaking ==
  /\ \A w, x : A!Takes(w) => A!ValueOf(w, x) = x
  /\ \A w, x, y : A!Named(w) # 0 /\ ~A!Takes(w) => A!ValueOf(w, x) = A!ValueOf(w, y)
<1>1. ASSUME NEW w, NEW x, A!Takes(w) PROVE A!ValueOf(w, x) = x
  BY <1>1 DEF A!Takes, A!ValueOf
<1>2. ASSUME NEW w, NEW x, NEW y, A!Named(w) # 0, ~A!Takes(w) PROVE A!ValueOf(w, x) = A!ValueOf(w, y)
  <2>1. A!Matches(Args[A!Named(w)], w) # A!NoValue \/ Args[A!Named(w)].kind = "bool"
    BY <1>2 DEF A!Takes
  <2> QED
    BY <2>1 DEF A!ValueOf
<1> QED
  BY <1>1, <1>2

LEMMA NamesAre ==
  ASSUME NEW ws \in Seq(Words)
  PROVE  /\ NamesIn(ws) \in Seq(1..Len(ws))
         /\ \A k \in 1..Len(NamesIn(ws)) :
              /\ A!Named(ws[NamesIn(ws)[k]]) # 0
              /\ NamesIn(ws)[k] = Len(ws) /\ A!Takes(ws[Len(ws)]) => Open(ws)
<1>1. PICK n, r, names : n = Len(ws) /\ r = A!Roles(ws) /\ names = NamesIn(ws)
  OBVIOUS
<1>2. n \in Nat /\ EndIn(ws) \in 1..(n + 1)
  BY <1>1, EndRule
<1>3. /\ r \in Seq(RoleNames) /\ Len(r) = n
      /\ \A i \in 1..n : r[i] = CASE i > EndIn(ws) -> "terminal"
                                  [] i = EndIn(ws) -> "end"
                                  [] i < EndIn(ws) /\ A!AreValues(ws)[i] -> "value"
                                  [] OTHER -> A!RoleOf(ws[i])
  BY <1>1, RolesRule
<1>4. names \in Seq({i \in 1..n : r[i] = "name"})
  BY <1>1, <1>3, PlacesAre DEF NamesIn
<1>5. ASSUME NEW i \in 1..n, r[i] = "name"
      PROVE  A!RoleOf(ws[i]) = "name" /\ ~A!AreValues(ws)[i] /\ i < EndIn(ws)
  BY <1>2, <1>3, <1>5
<1>6. names \in Seq(1..n)
  <2>1. {i \in 1..n : r[i] = "name"} \subseteq 1..n
    OBVIOUS
  <2> QED
    BY <1>4, <2>1, SeqWithin
<1>7. ASSUME NEW k \in 1..Len(names)
      PROVE  A!Named(ws[names[k]]) # 0 /\ (names[k] = n /\ A!Takes(ws[n]) => Open(ws))
  <2>1. names[k] \in 1..n /\ r[names[k]] = "name"
    BY <1>4
  <2>2. A!RoleOf(ws[names[k]]) = "name" /\ ~A!AreValues(ws)[names[k]] /\ names[k] < EndIn(ws)
    BY <1>5, <2>1
  <2>3. names[k] = n => ws # << >> /\ ~Ended(ws)
    <3> SUFFICES ASSUME names[k] = n PROVE ws # << >> /\ ~Ended(ws)
      OBVIOUS
    <3>1. n # 0 /\ n < EndIn(ws)
      BY <2>1, <2>2
    <3> QED
      BY <1>1, <1>2, <3>1, EmptySeq DEF Ended
  <2> QED
    BY <1>1, <2>2, <2>3, NamesAreTaken DEF Open
<1> QED
  BY <1>1, <1>6, <1>7

LEMMA ValuesInRule ==
  ASSUME NEW ws \in Seq(Words)
  PROVE  /\ ValuesIn(ws) \in Seq(Givens) /\ Len(ValuesIn(ws)) = Len(NamesIn(ws))
         /\ \A k \in 1..Len(NamesIn(ws)) :
              ValuesIn(ws)[k] = GivenBy(ws[NamesIn(ws)[k]], A!ValueAt(ws, NamesIn(ws)[k]))
<1>1. PICK names, m : names = NamesIn(ws) /\ m = Len(names)
  OBVIOUS
<1>2. names \in Seq(1..Len(ws)) /\ m \in Nat /\ DOMAIN names = 1..m
  BY <1>1, NamesAre
<1>3. ValuesIn(ws) = [k \in 1..m |-> GivenBy(ws[names[k]], A!ValueAt(ws, names[k]))]
  BY <1>1, <1>2 DEF ValuesIn, A!ValuesAt, GivenBy
<1>4. ASSUME NEW k \in 1..m PROVE GivenBy(ws[names[k]], A!ValueAt(ws, names[k])) \in Givens
  <2>1. PICK i : i = names[k]
    OBVIOUS
  <2>2. i \in 1..Len(ws) /\ ws[i] \in Words
    BY <1>1, <1>2, <2>1
  <2>3. PICK x : x = (IF i < Len(ws) THEN ws[i + 1] ELSE A!NoValue)
    OBVIOUS
  <2>4. x \in Words \cup {A!NoValue}
    <3>1. CASE i < Len(ws)
      <4>1. i + 1 \in 1..Len(ws)
        BY <2>2, <3>1
      <4> QED
        BY <2>3, <3>1, <4>1
    <3>2. CASE ~(i < Len(ws))
      BY <2>3, <3>2
    <3> QED
      BY <3>1, <3>2
  <2>5. A!ValueAt(ws, i) = A!ValueOf(ws[i], x)
    BY <2>3 DEF A!ValueAt
  <2>6. A!ValueAt(ws, i) \in Said
    BY <2>2, <2>4, <2>5 DEF Said
  <2> QED
    BY <2>1, <2>2, <2>6, GivensAre
<1>5. ValuesIn(ws) \in Seq(Givens) /\ Len(ValuesIn(ws)) = m
  BY <1>2, <1>3, <1>4
<1> QED
  BY <1>1, <1>3, <1>5

LEMMA ValueStays ==
  ASSUME NEW ws \in Seq(Words), NEW w \in Words, NEW i \in 1..Len(ws),
         i = Len(ws) => A!Named(ws[i]) # 0 /\ ~A!Takes(ws[i])
  PROVE  A!ValueAt(Append(ws, w), i) = A!ValueAt(ws, i)
<1>1. PICK n, more : n = Len(ws) /\ more = Append(ws, w)
  OBVIOUS
<1>2. /\ n \in Nat /\ more \in Seq(Words) /\ Len(more) = n + 1
      /\ \A k \in 1..n : more[k] = ws[k]
  BY <1>1, AppendProperties
<1>3. CASE i < n
  <2>1. i + 1 \in 1..n /\ i < n + 1
    BY <1>1, <1>2, <1>3
  <2> QED
    BY <1>1, <1>2, <1>3, <2>1 DEF A!ValueAt
<1>4. CASE i = n
  <2>1. A!ValueOf(ws[i], A!NoValue) = A!ValueOf(ws[i], more[i + 1])
    BY <1>1, <1>4, ValueOfTaking
  <2>2. i < n + 1 /\ ~(i < n) /\ more[i] = ws[i]
    BY <1>1, <1>2, <1>4
  <2> QED
    BY <1>1, <1>2, <2>1, <2>2 DEF A!ValueAt
<1> QED
  BY <1>1, <1>2, <1>3, <1>4

LEMMA NamesAfter ==
  ASSUME NEW ws \in Seq(Words), NEW w \in Words
  PROVE  NamesIn(Append(ws, w)) =
           IF RoleAfter(ws, w) = "name" THEN Append(NamesIn(ws), Len(ws) + 1) ELSE NamesIn(ws)
<1>1. PICK r, x : r = A!Roles(ws) /\ x = RoleAfter(ws, w)
  OBVIOUS
<1>2. r \in Seq(RoleNames) /\ Len(r) = Len(ws)
  BY <1>1, RolesRule
<1>3. x \in RoleNames
  BY <1>1 DEF RoleAfter, RoleNames, A!RoleOf
<1>4. A!Places(Append(r, x), "name") = A!Found(A!Places(r, "name"), Len(r) + 1, x, "name")
  BY <1>2, <1>3, PlacesOfMore
<1>5. A!Roles(Append(ws, w)) = Append(r, x)
  BY <1>1, RolesAfter
<1> QED
  BY <1>1, <1>2, <1>4, <1>5 DEF NamesIn, A!Found

LEMMA WordsInRule ==
  ASSUME NEW ws \in Seq(Words), NEW what
  PROVE  WordsIn(ws, what) \in Seq(Words)
<1>1. PICK r, p : r = A!Roles(ws) /\ p = A!Places(r, what)
  OBVIOUS
<1>2. r \in Seq(RoleNames) /\ Len(r) = Len(ws)
  BY <1>1, RolesRule
<1>3. p \in Seq({i \in 1..Len(ws) : r[i] = what})
  BY <1>1, <1>2, PlacesAre
<1>4. Len(p) \in Nat /\ DOMAIN p = 1..Len(p) /\ \A k \in 1..Len(p) : p[k] \in 1..Len(ws)
  BY <1>3, SeqElements
<1>5. \A k \in 1..Len(p) : ws[p[k]] \in Words
  BY <1>4, SeqElements
<1>6. WordsIn(ws, what) = [k \in 1..Len(p) |-> ws[p[k]]]
  BY <1>1, <1>4 DEF WordsIn, A!WordsAt
<1> QED
  BY <1>4, <1>5, <1>6

LEMMA WordsInAfter ==
  ASSUME NEW ws \in Seq(Words), NEW w \in Words, NEW what
  PROVE  WordsIn(Append(ws, w), what) =
           IF RoleAfter(ws, w) = what THEN Append(WordsIn(ws, what), w) ELSE WordsIn(ws, what)
<1>1. PICK n, more, r, x, p :
        /\ n = Len(ws) /\ more = Append(ws, w)
        /\ r = A!Roles(ws) /\ x = RoleAfter(ws, w) /\ p = A!Places(r, what)
  OBVIOUS
<1>2. /\ n \in Nat /\ more \in Seq(Words) /\ Len(more) = n + 1 /\ more[n + 1] = w
      /\ \A k \in 1..n : more[k] = ws[k] /\ ws[k] \in Words
  BY <1>1, AppendProperties
<1>3. r \in Seq(RoleNames) /\ Len(r) = n
  BY <1>1, RolesRule
<1>4. x \in RoleNames
  BY <1>1 DEF RoleAfter, RoleNames, A!RoleOf
<1>5. A!Places(A!Roles(more), what) = A!Found(p, n + 1, x, what)
  BY <1>1, <1>3, <1>4, PlacesOfMore, RolesAfter
<1>6. p \in Seq(1..n)
  <2>1. p \in Seq({i \in 1..n : r[i] = what})
    BY <1>1, <1>3, PlacesAre
  <2>2. {i \in 1..n : r[i] = what} \subseteq 1..n
    OBVIOUS
  <2> QED
    BY <2>1, <2>2, SeqWithin
<1>7. Len(p) \in Nat /\ DOMAIN p = 1..Len(p) /\ \A k \in 1..Len(p) : p[k] \in 1..n
  BY <1>6, SeqElements
<1>8. WordsIn(ws, what) = [k \in 1..Len(p) |-> ws[p[k]]]
  BY <1>1, <1>7 DEF WordsIn, A!WordsAt
<1>9. WordsIn(ws, what) \in Seq(Words) /\ Len(WordsIn(ws, what)) = Len(p)
  BY <1>2, <1>7, <1>8
<1>10. CASE x # what
  <2>1. WordsIn(more, what) = [k \in 1..Len(p) |-> more[p[k]]]
    BY <1>5, <1>7, <1>10 DEF WordsIn, A!WordsAt, A!Found
  <2>2. \A k \in 1..Len(p) : more[p[k]] = ws[p[k]]
    BY <1>2, <1>7
  <2>3. WordsIn(more, what) = WordsIn(ws, what)
    BY <1>8, <2>1, <2>2
  <2> QED
    BY <1>1, <1>9, <1>10, <2>3
<1>11. CASE x = what
  <2>1. PICK q : q = Append(p, n + 1)
    OBVIOUS
  <2>2. /\ q \in Seq(1..(n + 1)) /\ Len(q) = Len(p) + 1 /\ q[Len(p) + 1] = n + 1
        /\ \A k \in 1..Len(p) : q[k] = p[k]
    <3>1. p \in Seq(1..(n + 1)) /\ n + 1 \in 1..(n + 1)
      BY <1>2, <1>6
    <3> QED
      BY <2>1, <3>1, AppendProperties
  <2>3. WordsIn(more, what) = [k \in 1..(Len(p) + 1) |-> more[q[k]]]
    <3>1. DOMAIN q = 1..(Len(p) + 1)
      BY <2>2
    <3> QED
      BY <1>5, <1>11, <2>1, <3>1 DEF WordsIn, A!WordsAt, A!Found
  <2>4. /\ more[q[Len(p) + 1]] = w
        /\ \A k \in 1..Len(p) : more[q[k]] = ws[p[k]]
    BY <1>2, <1>7, <2>2
  <2>5. PICK s : s = WordsIn(ws, what)
    OBVIOUS
  <2>6. /\ Append(s, w) \in Seq(Words) /\ Len(Append(s, w)) = Len(p) + 1
        /\ Append(s, w)[Len(p) + 1] = w
        /\ \A k \in 1..Len(p) : Append(s, w)[k] = ws[p[k]]
    BY <1>8, <1>9, <2>5, AppendProperties
  <2>7. \A k \in 1..(Len(p) + 1) : more[q[k]] = Append(s, w)[k]
    BY <1>7, <2>4, <2>6
  <2>8. WordsIn(more, what) \in Seq(Words) /\ Len(WordsIn(more, what)) = Len(p) + 1
    <3>1. \A k \in 1..(Len(p) + 1) : more[q[k]] \in Words
      BY <1>2, <1>7, <2>2
    <3> QED
      BY <1>7, <2>3, <3>1
  <2>9. \A k \in 1..(Len(p) + 1) : WordsIn(more, what)[k] = Append(s, w)[k]
    BY <2>3, <2>7
  <2>10. WordsIn(more, what) = Append(s, w)
    BY <2>6, <2>8, <2>9, SeqEqual
  <2> QED
    BY <1>1, <1>9, <1>11, <2>5, <2>10
<1> QED
  BY <1>10, <1>11

(* An empty command line.                                                  *)
LEMMA NoWords ==
  /\ << >> \in Seq(Words) /\ ~Ended(<< >>) /\ ~Open(<< >>) /\ Len(A!Roles(<< >>)) = 0
  /\ Ready(<< >>, << >>) /\ \A what : WordsIn(<< >>, what) = << >>
<1>1. << >> \in Seq(Words) /\ Len(<< >>) = 0
  BY EmptySeq
<1>2. EndIn(<< >>) \in 1..(0 + 1) /\ A!Roles(<< >>) \in Seq(RoleNames) /\ Len(A!Roles(<< >>)) = 0
  BY <1>1, EndRule, RolesRule
<1>3. ~Ended(<< >>) /\ ~Open(<< >>)
  BY <1>1, <1>2 DEF Ended, Open
<1>4. A!Roles(<< >>) = << >>
  BY <1>2, EmptySeq
<1>5. \A what : A!Places(A!Roles(<< >>), what) = << >>
  BY <1>4, PlacesOfNone
<1>6. \A what : WordsIn(<< >>, what) = << >>
  BY <1>5 DEF WordsIn, A!WordsAt
<1>7. ValuesIn(<< >>) = << >>
  BY <1>5 DEF ValuesIn, NamesIn, A!ValuesAt
<1> QED
  BY <1>1, <1>2, <1>3, <1>6, <1>7 DEF Ready

(* What a word adds to the values of its command line.                     *)
ReadyAfter(ws, w, given) ==
  LET more == Append(ws, w) IN
  CASE Open(ws) -> Ready(more, Append(given, GivenBy(ws[Len(ws)], w)))
    [] ~Open(ws) /\ RoleAfter(ws, w) = "name" /\ ~A!Takes(w) ->
         Ready(more, Append(given, GivenBy(w, A!ValueOf(w, A!NoValue))))
    [] OTHER -> Ready(more, given)

LEMMA SameValues ==
  ASSUME NEW ws \in Seq(Words), NEW w \in Words, ~Open(ws), NEW k \in 1..Len(NamesIn(ws))
  PROVE  A!ValueAt(Append(ws, w), NamesIn(ws)[k]) = A!ValueAt(ws, NamesIn(ws)[k])
<1>1. PICK i : i = NamesIn(ws)[k]
  OBVIOUS
<1>2. i \in 1..Len(ws)
  BY <1>1, NamesAre, SeqElements
<1>3. A!Named(ws[i]) # 0 /\ (i = Len(ws) /\ A!Takes(ws[Len(ws)]) => Open(ws))
  BY <1>1, NamesAre
<1>4. i = Len(ws) => A!Named(ws[i]) # 0 /\ ~A!Takes(ws[i])
  BY <1>3
<1> QED
  BY <1>1, <1>2, <1>4, ValueStays

LEMMA ReadyAfterMore ==
  ASSUME NEW ws \in Seq(Words), NEW w \in Words, ~Open(ws)
  PROVE  ReadyAfter(ws, w, ValuesIn(ws))
<1>1. PICK n, more, names, m, v :
        /\ n = Len(ws) /\ more = Append(ws, w) /\ names = NamesIn(ws) /\ m = Len(names)
        /\ v = ValuesIn(ws)
  OBVIOUS
<1>2. /\ n \in Nat /\ more \in Seq(Words) /\ Len(more) = n + 1 /\ more[n + 1] = w
      /\ \A i \in 1..n : more[i] = ws[i]
  BY <1>1, AppendProperties
<1>3. names \in Seq(1..n) /\ m \in Nat /\ \A k \in 1..m : names[k] \in 1..n
  BY <1>1, NamesAre, SeqElements
<1>4. /\ v \in Seq(Givens) /\ Len(v) = m
      /\ \A k \in 1..m : v[k] = GivenBy(ws[names[k]], A!ValueAt(ws, names[k]))
  BY <1>1, ValuesInRule
<1>5. \A k \in 1..m : A!ValueAt(more, names[k]) = A!ValueAt(ws, names[k])
  BY <1>1, SameValues
<1>6. \A k \in 1..m : v[k] = GivenBy(more[names[k]], A!ValueAt(more, names[k]))
  BY <1>2, <1>3, <1>4, <1>5
<1>7. NamesIn(more) = IF RoleAfter(ws, w) = "name" THEN Append(names, n + 1) ELSE names
  BY <1>1, NamesAfter
<1>8. /\ ValuesIn(more) \in Seq(Givens) /\ Len(ValuesIn(more)) = Len(NamesIn(more))
      /\ \A k \in 1..Len(NamesIn(more)) :
           ValuesIn(more)[k] = GivenBy(more[NamesIn(more)[k]], A!ValueAt(more, NamesIn(more)[k]))
  BY <1>2, ValuesInRule
<1>9. Open(more) <=> RoleAfter(ws, w) = "name" /\ A!Takes(w)
  BY <1>1, AfterWord
<1>10. CASE RoleAfter(ws, w) # "name"
  <2>1. NamesIn(more) = names
    BY <1>7, <1>10
  <2>2. /\ Len(ValuesIn(more)) = m
        /\ \A k \in 1..m : ValuesIn(more)[k] = GivenBy(more[names[k]], A!ValueAt(more, names[k]))
    BY <1>1, <1>8, <2>1
  <2>3. \A k \in 1..m : ValuesIn(more)[k] = v[k]
    BY <1>6, <2>2
  <2>4. ValuesIn(more) = v
    BY <1>4, <1>8, <2>2, <2>3, SeqEqual
  <2>5. Ready(more, v)
    BY <1>9, <1>10, <2>4 DEF Ready
  <2> QED
    BY <1>1, <1>10, <2>5 DEF ReadyAfter
<1>11. CASE RoleAfter(ws, w) = "name"
  <2>1. PICK q : q = NamesIn(more)
    OBVIOUS
  <2>2. q = Append(names, n + 1)
    BY <1>7, <1>11, <2>1
  <2>3. Len(q) = m + 1 /\ q[m + 1] = n + 1 /\ \A k \in 1..m : q[k] = names[k]
    <3>1. names \in Seq(1..(n + 1)) /\ n + 1 \in 1..(n + 1)
      <4>1. 1..n \subseteq 1..(n + 1)
        BY <1>2
      <4> QED
        BY <1>2, <1>3, <4>1, SeqWithin
    <3> QED
      BY <1>1, <2>2, <3>1, AppendProperties
  <2>4. PICK x : x = A!ValueOf(w, A!NoValue)
    OBVIOUS
  <2>5. A!ValueAt(more, n + 1) = x
    BY <1>2, <2>4 DEF A!ValueAt
  <2>6. PICK g : g = GivenBy(w, x)
    OBVIOUS
  <2>7. /\ Len(ValuesIn(more)) = m + 1
        /\ \A k \in 1..(m + 1) : ValuesIn(more)[k] = GivenBy(more[q[k]], A!ValueAt(more, q[k]))
    BY <1>8, <2>1, <2>3
  <2>8. ValuesIn(more)[m + 1] = g
    <3>1. m + 1 \in 1..(m + 1)
      BY <1>3
    <3> QED
      BY <1>2, <2>3, <2>5, <2>6, <2>7, <3>1
  <2>9. \A k \in 1..m : ValuesIn(more)[k] = v[k]
    <3> SUFFICES ASSUME NEW k \in 1..m PROVE ValuesIn(more)[k] = v[k]
      OBVIOUS
    <3>1. k \in 1..(m + 1)
      BY <1>3
    <3> QED
      BY <1>6, <2>3, <2>7, <3>1
  <2>10. g \in Givens
    <3>1. x \in Said
      BY <2>4 DEF Said
    <3> QED
      BY <2>6, <3>1, GivensAre
  <2>11. /\ Append(v, g) \in Seq(Givens) /\ Len(Append(v, g)) = m + 1
         /\ Append(v, g)[m + 1] = g /\ \A k \in 1..m : Append(v, g)[k] = v[k]
    BY <1>4, <2>10, AppendProperties
  <2>12. \A k \in 1..(m + 1) : ValuesIn(more)[k] = Append(v, g)[k]
    <3> SUFFICES ASSUME NEW k \in 1..(m + 1) PROVE ValuesIn(more)[k] = Append(v, g)[k]
      OBVIOUS
    <3>1. k \in 1..m \/ k = m + 1
      BY <1>3
    <3> QED
      BY <2>8, <2>9, <2>11, <3>1
  <2>13. ValuesIn(more) = Append(v, g)
    BY <1>8, <2>7, <2>11, <2>12, SeqEqual
  <2>14. CASE A!Takes(w)
    <3>1. Open(more) /\ x = A!NoValue /\ more[Len(more)] = w
      BY <1>2, <1>9, <1>11, <2>4, <2>14, ValueOfTaking
    <3>2. Ready(more, v)
      BY <2>6, <2>13, <3>1 DEF Ready
    <3> QED
      BY <1>1, <1>11, <2>14, <3>2 DEF ReadyAfter
  <2>15. CASE ~A!Takes(w)
    <3>1. Ready(more, Append(v, g))
      BY <1>9, <2>13, <2>15 DEF Ready
    <3> QED
      BY <1>1, <1>11, <2>4, <2>6, <2>15, <3>1 DEF ReadyAfter
  <2> QED
    BY <2>14, <2>15
<1> QED
  BY <1>10, <1>11

LEMMA ReadyAfterValue ==
  ASSUME NEW ws \in Seq(Words), NEW w \in Words, Open(ws),
         NEW given \in Seq(Givens), Ready(ws, given)
  PROVE  ReadyAfter(ws, w, given)
<1>1. PICK n, more, names, v :
        /\ n = Len(ws) /\ more = Append(ws, w) /\ names = NamesIn(ws) /\ v = ValuesIn(ws)
  OBVIOUS
<1>2. PICK first \in Seq(Words), last \in Words :
        ws = Append(first, last) /\ Len(ws) = Len(first) + 1 /\ ws[Len(ws)] = last
  BY LastBehind DEF Open
<1>3. RoleAfter(first, last) = "name" /\ A!Takes(last)
  BY <1>2, AfterWord
<1>4. PICK fore, m : fore = NamesIn(first) /\ m = Len(fore)
  OBVIOUS
<1>5. /\ n \in Nat /\ n # 0 /\ Len(first) = n - 1 /\ ws[n] = last
      /\ more \in Seq(Words) /\ Len(more) = n + 1 /\ more[n + 1] = w
      /\ \A i \in 1..n : more[i] = ws[i]
  <2>1. Len(first) \in Nat /\ n \in Nat
    BY <1>1, SeqElements
  <2>2. n # 0 /\ Len(first) = n - 1
    BY <1>1, <1>2, <2>1
  <2> QED
    BY <1>1, <1>2, <2>1, <2>2, AppendProperties
<1>6. fore \in Seq(1..(n - 1)) /\ m \in Nat /\ \A k \in 1..m : fore[k] \in 1..(n - 1)
  BY <1>4, <1>5, NamesAre, SeqElements
<1>7. names = Append(fore, n)
  BY <1>1, <1>2, <1>3, <1>4, NamesAfter
<1>8. Len(names) = m + 1 /\ names[m + 1] = n /\ \A k \in 1..m : names[k] = fore[k]
  <2>1. fore \in Seq(1..n) /\ n \in 1..n
    <3>1. 1..(n - 1) \subseteq 1..n /\ n \in 1..n
      BY <1>5
    <3> QED
      BY <1>6, <3>1, SeqWithin
  <2> QED
    BY <1>4, <1>7, <2>1, AppendProperties
<1>9. RoleAfter(ws, w) = "value"
  BY DEF Open, RoleAfter
<1>10. NamesIn(more) = names
  BY <1>1, <1>9, NamesAfter
<1>11. /\ v \in Seq(Givens) /\ Len(v) = m + 1
       /\ \A k \in 1..(m + 1) : v[k] = GivenBy(ws[names[k]], A!ValueAt(ws, names[k]))
  BY <1>1, <1>8, ValuesInRule
<1>12. /\ ValuesIn(more) \in Seq(Givens) /\ Len(ValuesIn(more)) = m + 1
       /\ \A k \in 1..(m + 1) :
            ValuesIn(more)[k] = GivenBy(more[names[k]], A!ValueAt(more, names[k]))
  BY <1>5, <1>8, <1>10, ValuesInRule
<1>13. v = Append(given, GivenBy(last, A!NoValue))
  BY <1>1, <1>2 DEF Ready
<1>14. Len(given) = m /\ \A k \in 1..m : given[k] = v[k]
  <2>1. PICK g : g = GivenBy(last, A!NoValue)
    OBVIOUS
  <2>2. g \in Givens
    BY <2>1, GivensAre DEF Said
  <2>3. Len(v) = Len(given) + 1 /\ Len(given) \in Nat /\ \A k \in 1..Len(given) : v[k] = given[k]
    BY <1>13, <2>1, <2>2, AppendProperties
  <2>4. Len(given) = m
    BY <1>6, <1>11, <2>3
  <2> QED
    BY <2>3, <2>4
<1>15. \A k \in 1..m : ValuesIn(more)[k] = given[k]
  <2> SUFFICES ASSUME NEW k \in 1..m PROVE ValuesIn(more)[k] = given[k]
    OBVIOUS
  <2>1. PICK i : i = names[k]
    OBVIOUS
  <2>2. k \in 1..(m + 1) /\ i \in 1..n /\ i # n
    BY <1>5, <1>6, <1>8, <2>1
  <2>3. A!ValueAt(more, i) = A!ValueAt(ws, i)
    BY <1>1, <2>2, ValueStays
  <2>4. more[i] = ws[i]
    BY <1>5, <2>2
  <2>5. ValuesIn(more)[k] = v[k]
    BY <1>11, <1>12, <2>1, <2>2, <2>3, <2>4
  <2> QED
    BY <1>14, <2>5
<1>16. PICK g : g = GivenBy(last, w)
  OBVIOUS
<1>17. ValuesIn(more)[m + 1] = g
  <2>1. m + 1 \in 1..(m + 1) /\ n < n + 1 /\ n \in 1..n
    BY <1>5, <1>6
  <2>2. A!ValueAt(more, n) = A!ValueOf(last, w)
    BY <1>5, <2>1 DEF A!ValueAt
  <2>3. A!ValueOf(last, w) = w
    BY <1>3, ValueOfTaking
  <2>4. ValuesIn(more)[m + 1] = GivenBy(more[n], A!ValueAt(more, n))
    BY <1>8, <1>12, <2>1
  <2> QED
    BY <1>5, <1>16, <2>1, <2>2, <2>3, <2>4
<1>18. g \in Givens
  BY <1>16, GivensAre DEF Said
<1>19. /\ Append(given, g) \in Seq(Givens) /\ Len(Append(given, g)) = m + 1
       /\ Append(given, g)[m + 1] = g /\ \A k \in 1..m : Append(given, g)[k] = given[k]
  BY <1>14, <1>18, AppendProperties
<1>20. \A k \in 1..(m + 1) : ValuesIn(more)[k] = Append(given, g)[k]
  <2> SUFFICES ASSUME NEW k \in 1..(m + 1) PROVE ValuesIn(more)[k] = Append(given, g)[k]
    OBVIOUS
  <2>1. k \in 1..m \/ k = m + 1
    BY <1>6
  <2> QED
    BY <1>15, <1>17, <1>19, <2>1
<1>21. ValuesIn(more) = Append(given, g)
  BY <1>12, <1>19, <1>20, SeqEqual
<1>22. ~Open(more)
  BY <1>1, <1>9, AfterWord
<1>23. Ready(more, Append(given, g))
  BY <1>21, <1>22 DEF Ready
<1> QED
  BY <1>1, <1>2, <1>16, <1>23 DEF ReadyAfter

-----------------------------------------------------------------------------
(* The values of all calls, and what the parameters keep of them.          *)

CallsMade == [do : {"parse"}, words : Seq(Words)] \cup [do : {"set"}, words : Words \X Words]
Gave(cs) == FlattenSeq([k \in DOMAIN cs |-> A!Values(cs[k])])
Spoken(cs, what) == FlattenSeq([k \in DOMAIN cs |-> A!WordsOf(cs[k], what)])

Keeps(options, all) ==
  \A p \in A!Parameters :
    /\ options.value[p] = A!Kept(all, p)
    /\ options.present[p] <=> A!Accepted(all, p) # {}

(* What is wrong about values that were given.                             *)
Wrong(given, all) ==
  \E k \in DOMAIN given :
    ~given[k].read.ok \/ (~A!IsVector(given[k].p) /\ A!Twice(all, given[k].p))

LEMMA GivenFields ==
  /\ \A w, v : GivenBy(w, v).p = A!Named(w) /\ GivenBy(w, v).by = "parse"
  /\ \A w, v : v # A!NoValue => GivenBy(w, v).read = A!Reads(A!Named(w), v)
  /\ \A w : ~GivenBy(w, A!NoValue).read.ok
  /\ \A w, old, p : A!After(old, p, GivenBy(w, A!NoValue)) = old
<1>1. \A w, v : GivenBy(w, v) = [p |-> A!Named(w), by |-> "parse",
        read |-> IF v = A!NoValue THEN A!Numbers!Fails ELSE A!Reads(A!Named(w), v)]
  BY DEF GivenBy, A!Given
<1>2. A!Numbers!Fails.ok = FALSE /\ A!Numbers!Fails.stores = FALSE
  BY DEF A!Numbers!Fails
<1>3. \A w : GivenBy(w, A!NoValue).read = A!Numbers!Fails
  BY <1>1
<1>4. \A w, old, p : A!After(old, p, GivenBy(w, A!NoValue)) = old
  BY <1>2, <1>3 DEF A!After, A!Stored
<1> QED
  BY <1>1, <1>2, <1>3, <1>4

LEMMA CallRule ==
  ASSUME NEW c \in CallsMade
  PROVE  /\ A!Values(c) \in Seq(Givens)
         /\ \A what : A!WordsOf(c, what) \in Seq(Words)
         /\ c.do = "parse" => /\ A!Values(c) = ValuesIn(c.words)
                              /\ \A what : A!WordsOf(c, what) = WordsIn(c.words, what)
         /\ c.do = "set" => /\ A!Values(c) = << A!Given(A!Named(c.words[1]), c.words[2], "set") >>
                            /\ \A what : A!WordsOf(c, what) = << >>
<1>1. CASE c.do = "parse"
  <2>1. c.words \in Seq(Words)
    BY <1>1 DEF CallsMade
  <2>2. A!Values(c) = ValuesIn(c.words) /\ \A what : A!WordsOf(c, what) = WordsIn(c.words, what)
    BY <1>1 DEF A!Values, A!WordsOf, ValuesIn, NamesIn, WordsIn
  <2>3. \A what : WordsIn(c.words, what) \in Seq(Words)
    BY <2>1, WordsInRule
  <2> QED
    BY <1>1, <2>1, <2>2, <2>3, ValuesInRule
<1>2. CASE c.do = "set"
  <2>1. c.words \in Words \X Words
    BY <1>2 DEF CallsMade
  <2>2. PICK g : g = A!Given(A!Named(c.words[1]), c.words[2], "set")
    OBVIOUS
  <2>3. g \in Givens
    <3>1. c.words[1] \in Words /\ c.words[2] \in Said
      BY <2>1 DEF Said
    <3> QED
      BY <2>2, <3>1 DEF Givens
  <2>4. A!Values(c) = << g >> /\ \A what : A!WordsOf(c, what) = << >>
    BY <1>2, <2>2 DEF A!Values, A!WordsOf
  <2>5. << g >> \in Seq(Givens) /\ << >> \in Seq(Words)
    BY <2>3, EmptySeq
  <2> QED
    BY <1>2, <2>2, <2>4, <2>5
<1> QED
  BY <1>1, <1>2 DEF CallsMade

LEMMA GaveMore ==
  ASSUME NEW cs \in Seq(CallsMade), NEW c \in CallsMade
  PROVE  /\ Gave(cs) \in Seq(Givens) /\ Gave(Append(cs, c)) = Gave(cs) \o A!Values(c)
         /\ \A what : Spoken(cs, what) \in Seq(Words)
         /\ \A what : Spoken(Append(cs, c), what) = Spoken(cs, what) \o A!WordsOf(c, what)
<1>1. PICK n, more : n = Len(cs) /\ more = Append(cs, c)
  OBVIOUS
<1>2. /\ n \in Nat /\ more \in Seq(CallsMade) /\ Len(more) = n + 1 /\ more[n + 1] = c
      /\ DOMAIN cs = 1..n /\ DOMAIN more = 1..(n + 1)
      /\ \A k \in 1..n : more[k] = cs[k] /\ cs[k] \in CallsMade
  <2>1. n \in Nat /\ DOMAIN cs = 1..n /\ \A k \in 1..n : cs[k] \in CallsMade
    BY <1>1, SeqElements
  <2>2. /\ more \in Seq(CallsMade) /\ Len(more) = n + 1 /\ more[n + 1] = c
        /\ \A k \in 1..n : more[k] = cs[k]
    BY <1>1, AppendProperties
  <2> QED
    BY <2>1, <2>2, SeqElements
<1>3. Gave(cs) \in Seq(Givens) /\ Gave(more) = Gave(cs) \o A!Values(c)
  <2>1. PICK s : s = [k \in 1..n |-> A!Values(cs[k])]
    OBVIOUS
  <2>2. s \in Seq(Seq(Givens)) /\ Len(s) = n
    <3>1. \A k \in 1..n : A!Values(cs[k]) \in Seq(Givens)
      BY <1>2, CallRule
    <3> QED
      BY <1>2, <2>1, <3>1, ListOf
  <2>3. PICK e : e = A!Values(c)
    OBVIOUS
  <2>4. e \in Seq(Givens)
    BY <2>3, CallRule
  <2>5. [k \in 1..(n + 1) |-> A!Values(more[k])] = Append(s, e)
    <3>1. PICK u : u = [k \in 1..(n + 1) |-> A!Values(more[k])]
      OBVIOUS
    <3>2. Listed(u, n + 1) /\ u[n + 1] = e /\ \A k \in 1..n : u[k] = s[k]
      BY <1>2, <2>1, <2>3, <3>1 DEF Listed
    <3>3. u = Append(s, e)
      <4>1. PICK X : X = Seq(Givens)
        OBVIOUS
      <4>2. s \in Seq(X) /\ Len(s) = n /\ e \in X
        BY <2>2, <2>4, <4>1
      <4> QED
        BY <1>2, <3>2, <4>2, IsMore
    <3> QED
      BY <3>1, <3>3
  <2>6. Gave(cs) = FlattenSeq(s) /\ Gave(more) = FlattenSeq(Append(s, e))
    BY <1>2, <2>1, <2>5 DEF Gave
  <2> QED
    BY <2>2, <2>3, <2>4, <2>6, FlatIsSeq, FlatOfLast
<1>4. ASSUME NEW what
      PROVE  Spoken(cs, what) \in Seq(Words) /\ Spoken(more, what) = Spoken(cs, what) \o A!WordsOf(c, what)
  <2>1. PICK s : s = [k \in 1..n |-> A!WordsOf(cs[k], what)]
    OBVIOUS
  <2>2. s \in Seq(Seq(Words)) /\ Len(s) = n
    <3>1. \A k \in 1..n : A!WordsOf(cs[k], what) \in Seq(Words)
      BY <1>2, CallRule
    <3> QED
      BY <1>2, <2>1, <3>1, ListOf
  <2>3. PICK e : e = A!WordsOf(c, what)
    OBVIOUS
  <2>4. e \in Seq(Words)
    BY <2>3, CallRule
  <2>5. [k \in 1..(n + 1) |-> A!WordsOf(more[k], what)] = Append(s, e)
    <3>1. PICK u : u = [k \in 1..(n + 1) |-> A!WordsOf(more[k], what)]
      OBVIOUS
    <3>2. Listed(u, n + 1) /\ u[n + 1] = e /\ \A k \in 1..n : u[k] = s[k]
      BY <1>2, <2>1, <2>3, <3>1 DEF Listed
    <3>3. u = Append(s, e)
      <4>1. PICK X : X = Seq(Words)
        OBVIOUS
      <4>2. s \in Seq(X) /\ Len(s) = n /\ e \in X
        BY <2>2, <2>4, <4>1
      <4> QED
        BY <1>2, <3>2, <4>2, IsMore
    <3> QED
      BY <3>1, <3>3
  <2>6. Spoken(cs, what) = FlattenSeq(s) /\ Spoken(more, what) = FlattenSeq(Append(s, e))
    BY <1>2, <2>1, <2>5 DEF Spoken
  <2> QED
    BY <2>2, <2>3, <2>4, <2>6, FlatIsSeq, FlatOfLast
<1> QED
  BY <1>1, <1>3, <1>4

LEMMA NoCalls ==
  /\ << >> \in Seq(CallsMade) /\ Gave(<< >>) = << >> /\ \A what : Spoken(<< >>, what) = << >>
<1>1. << >> \in Seq(CallsMade) /\ DOMAIN << >> = {}
  BY EmptySeq
<1>2. Gave(<< >>) = << >>
  BY <1>1, FlatOfNone DEF Gave
<1>3. ASSUME NEW what PROVE Spoken(<< >>, what) = << >>
  BY <1>1, FlatOfNone DEF Spoken
<1> QED
  BY <1>1, <1>2, <1>3

(* The marks of what parse accepted.                                       *)
Fits(g, p) == g.p = p /\ g.read.ok /\ g.by = "parse"

LEMMA AcceptedRule ==
  ASSUME NEW all \in Seq(Givens), NEW p
  PROVE  A!Accepted(all, p) = {k \in 1..Len(all) : Fits(all[k], p)}
<1>1. DOMAIN all = 1..Len(all)
  BY SeqElements
<1> QED
  BY <1>1 DEF A!Accepted, Fits

LEMMA AcceptedMore ==
  ASSUME NEW all \in Seq(Givens), NEW g \in Givens, NEW p
  PROVE  /\ Fits(g, p) => A!Accepted(Append(all, g), p) = A!Accepted(all, p) \cup {Len(all) + 1}
         /\ ~Fits(g, p) => A!Accepted(Append(all, g), p) = A!Accepted(all, p)
         /\ Len(all) \in Nat /\ A!Accepted(all, p) \subseteq 1..Len(all)
<1>1. PICK n, more : n = Len(all) /\ more = Append(all, g)
  OBVIOUS
<1>2. /\ n \in Nat /\ more \in Seq(Givens) /\ Len(more) = n + 1 /\ more[n + 1] = g
      /\ \A k \in 1..n : more[k] = all[k]
  BY <1>1, AppendProperties, SeqElements
<1>3. /\ A!Accepted(all, p) = {k \in 1..n : Fits(all[k], p)}
      /\ A!Accepted(more, p) = {k \in 1..(n + 1) : Fits(more[k], p)}
  BY <1>1, <1>2, AcceptedRule
<1>4. \A k : k \in 1..(n + 1) <=> k \in 1..n \/ k = n + 1
  BY <1>2
<1>5. \A k : k \in A!Accepted(more, p) <=> k \in A!Accepted(all, p) \/ (k = n + 1 /\ Fits(g, p))
  BY <1>2, <1>3, <1>4
<1> QED
  BY <1>1, <1>2, <1>3, <1>5

LEMMA KeepsMore ==
  ASSUME NEW o, NEW next, NEW all \in Seq(Givens), NEW g \in Givens, Keeps(o, all),
         \A p \in A!Parameters : next.value[p] = A!After(o.value[p], p, g),
         \A p \in A!Parameters : next.present[p] <=> o.present[p] \/ Fits(g, p)
  PROVE  Keeps(next, Append(all, g))
<1> SUFFICES ASSUME NEW p \in A!Parameters
             PROVE  /\ next.value[p] = A!Kept(Append(all, g), p)
                    /\ next.present[p] <=> A!Accepted(Append(all, g), p) # {}
  BY DEF Keeps
<1>1. A!Kept(Append(all, g), p) = A!After(A!Kept(all, p), p, g)
  BY KeptOfMore
<1>2. o.value[p] = A!Kept(all, p) /\ (o.present[p] <=> A!Accepted(all, p) # {})
  BY DEF Keeps
<1>3. A!Accepted(Append(all, g), p) # {} <=> A!Accepted(all, p) # {} \/ Fits(g, p)
  BY AcceptedMore
<1> QED
  BY <1>1, <1>2, <1>3

LEMMA TwiceMore ==
  ASSUME NEW all \in Seq(Givens), NEW g \in Givens, NEW p
  PROVE  A!Twice(Append(all, g), p)
           <=> A!Twice(all, p) \/ (Fits(g, p) /\ A!Accepted(all, p) # {})
<1>1. PICK n, old, more : n = Len(all) /\ old = A!Accepted(all, p) /\ more = A!Accepted(Append(all, g), p)
  OBVIOUS
<1>2. /\ Fits(g, p) => more = old \cup {n + 1}
      /\ ~Fits(g, p) => more = old
      /\ n \in Nat /\ old \subseteq 1..n
  BY <1>1, AcceptedMore
<1>3. n + 1 \notin old
  BY <1>2
<1>4. (\E j, k \in more : j # k) <=> (\E j, k \in old : j # k) \/ (Fits(g, p) /\ old # {})
  BY <1>2, <1>3
<1> QED
  BY <1>1, <1>4 DEF A!Twice

LEMMA WrongMore ==
  ASSUME NEW before \in Seq(Givens), NEW given \in Seq(Givens), NEW g \in Givens, g.by = "parse"
  PROVE  Wrong(Append(given, g), before \o Append(given, g))
           <=> \/ Wrong(given, before \o given)
               \/ ~g.read.ok
               \/ ~A!IsVector(g.p) /\ A!Accepted(before \o given, g.p) # {}
<1>1. PICK n, more, all : n = Len(given) /\ more = Append(given, g) /\ all = before \o given
  OBVIOUS
<1>2. all \in Seq(Givens) /\ before \o more = Append(all, g)
  BY <1>1, JoinedWithMore
<1>3. /\ n \in Nat /\ more[n + 1] = g /\ DOMAIN more = 1..(n + 1) /\ DOMAIN given = 1..n
      /\ \A k \in 1..n : more[k] = given[k]
  BY <1>1, AppendProperties, SeqElements
<1>4. \A p : A!Twice(Append(all, g), p) <=> A!Twice(all, p) \/ (Fits(g, p) /\ A!Accepted(all, p) # {})
  BY <1>2, TwiceMore
<1> DEFINE Bad(x, s) == ~x.read.ok \/ (~A!IsVector(x.p) /\ A!Twice(s, x.p))
           Again == ~A!IsVector(g.p) /\ A!Accepted(all, g.p) # {}
<1>5. Wrong(given, all) <=> \E k \in 1..n : Bad(given[k], all)
  BY <1>3 DEF Wrong
<1>6. Wrong(more, Append(all, g))
        <=> (\E k \in 1..n : Bad(given[k], Append(all, g))) \/ Bad(g, Append(all, g))
  <2>1. \A k : k \in 1..(n + 1) <=> k \in 1..n \/ k = n + 1
    BY <1>3
  <2>2. Wrong(more, Append(all, g)) <=> \E k \in 1..(n + 1) : Bad(more[k], Append(all, g))
    BY <1>3 DEF Wrong
  <2> HIDE DEF Bad
  <2> QED
    BY <1>3, <2>1, <2>2
<1>7. \A x : Bad(x, all) => Bad(x, Append(all, g))
  BY <1>4
<1>8. \A x : Bad(x, Append(all, g)) => Bad(x, all) \/ Again
  BY <1>4 DEF Fits
<1>9. Bad(g, Append(all, g)) <=> ~g.read.ok \/ Again \/ Bad(g, all)
  BY <1>4 DEF Fits
<1>10. Bad(g, all) => ~g.read.ok \/ Again
  <2>1. A!Twice(all, g.p) => A!Accepted(all, g.p) # {}
    BY DEF A!Twice
  <2> QED
    BY <2>1
<1> HIDE DEF Bad
<1>11. Wrong(more, Append(all, g)) <=> Wrong(given, all) \/ ~g.read.ok \/ Again
  BY <1>5, <1>6, <1>7, <1>8, <1>9, <1>10
<1> QED
  BY <1>1, <1>2, <1>11

-----------------------------------------------------------------------------
(* The inductive invariant of Arguments: in the midst of a parse, of the   *)
(* calls before, the words read so far and the values they gave; between   *)
(* two calls, of all of them.                                              *)

Line(ws) == [do |-> "parse", words |-> ws]
Unknown(ws) == \E i \in 1..Len(ws) : A!Roles(ws)[i] = "unknown"

OptionsShape(o) ==
  /\ o = [value |-> o.value, present |-> o.present, positional |-> o.positional,
          terminal |-> o.terminal, state |-> o.state, terminator |-> o.terminator,
          awaits |-> o.awaits, error |-> o.error]
  /\ o.value = [p \in A!Parameters |-> o.value[p]]
  /\ o.present = [p \in A!Parameters |-> o.present[p]]

Progress(o, cs, ws, given) ==
  /\ Ready(ws, given)
  /\ Keeps(o, Gave(cs) \o given)
  /\ o.positional = Spoken(cs, "positional") \o WordsIn(ws, "positional")
  /\ o.terminal = Spoken(cs, "terminal") \o WordsIn(ws, "terminal")
  /\ o.terminator <=> Ended(ws)
  /\ o.awaits = IF Open(ws) THEN A!Named(ws[Len(ws)]) ELSE 0
  /\ o.error <=> Wrong(given, Gave(cs) \o given) \/ Unknown(ws)

Between(o, cs) ==
  /\ o.awaits = 0
  /\ Keeps(o, Gave(cs))
  /\ o.positional = Spoken(cs, "positional") /\ o.terminal = Spoken(cs, "terminal")
  /\ cs # << >> /\ cs[Len(cs)].do = "parse" =>
       (o.error <=> A!HasError(Gave(cs), A!Values(cs[Len(cs)]), A!Roles(cs[Len(cs)].words)))

Within(o, cs) ==
  \E before \in Seq(CallsMade), ws \in Seq(Words), given \in Seq(Givens) :
    cs = Append(before, Line(ws)) /\ Progress(o, before, ws, given)

Consistent(o, cs) ==
  /\ OptionsShape(o) /\ cs \in Seq(CallsMade)
  /\ o.state = "idle" => Between(o, cs)
  /\ o.state # "idle" => Within(o, cs)

ArgumentsInv == Consistent(obj, out)

LEMMA NamedRule == \A w : A!Named(w) # 0 => A!Named(w) \in A!Parameters
<1> SUFFICES ASSUME NEW w, A!Named(w) # 0 PROVE A!Named(w) \in A!Parameters
  OBVIOUS
<1> DEFINE T == {p \in A!Parameters : A!Matches(Args[p], w) # A!NoMatch}
<1>1. T # {} /\ A!Named(w) = A!Min(T)
  BY DEF A!Named
<1>2. T \subseteq Nat /\ T \subseteq A!Parameters
  BY ParametersRule
<1> HIDE DEF T
<1> QED
  BY <1>1, <1>2, LeastInArguments

LEMMA WordRead ==
  ASSUME NEW o, NEW next, NEW cs \in Seq(CallsMade), NEW ws \in Seq(Words), NEW w \in Words,
         NEW given \in Seq(Givens), NEW now \in Seq(Givens), NEW role, role = RoleAfter(ws, w),
         Progress(o, cs, ws, given), Ready(Append(ws, w), now), Keeps(next, Gave(cs) \o now),
         next.positional = IF role = "positional" THEN Append(o.positional, w) ELSE o.positional,
         next.terminal = IF role = "terminal" THEN Append(o.terminal, w) ELSE o.terminal,
         next.terminator <=> o.terminator \/ role = "end",
         next.awaits = IF role = "name" /\ A!Takes(w) THEN A!Named(w) ELSE 0,
         next.error <=> Wrong(now, Gave(cs) \o now) \/ Unknown(ws) \/ role = "unknown"
  PROVE  Progress(next, cs, Append(ws, w), now)
<1>1. PICK more, n : more = Append(ws, w) /\ n = Len(ws)
  OBVIOUS
<1>2. more \in Seq(Words) /\ Len(more) = n + 1 /\ more[n + 1] = w /\ n \in Nat
  BY <1>1, AppendProperties, SeqElements
<1>3. Ended(more) <=> o.terminator \/ role = "end"
  BY <1>1, AfterWord DEF Progress
<1>4. next.awaits = IF Open(more) THEN A!Named(more[Len(more)]) ELSE 0
  BY <1>1, <1>2, AfterWord
<1>5. Unknown(more) <=> Unknown(ws) \/ role = "unknown"
  <2>1. A!Roles(more) = Append(A!Roles(ws), role)
    BY <1>1, RolesAfter
  <2>2. A!Roles(ws) \in Seq(RoleNames) /\ Len(A!Roles(ws)) = n
    BY <1>1, RolesRule
  <2>3. role \in RoleNames
    BY DEF RoleAfter, RoleNames, A!RoleOf
  <2>4. A!Roles(more)[n + 1] = role /\ \A i \in 1..n : A!Roles(more)[i] = A!Roles(ws)[i]
    BY <2>1, <2>2, <2>3, AppendProperties
  <2>5. \A i : i \in 1..(n + 1) <=> i \in 1..n \/ i = n + 1
    BY <1>2
  <2> QED
    BY <1>1, <1>2, <2>4, <2>5 DEF Unknown
<1>6. ASSUME NEW what, NEW was, NEW is, was = Spoken(cs, what) \o WordsIn(ws, what),
             is = IF role = what THEN Append(was, w) ELSE was
      PROVE  is = Spoken(cs, what) \o WordsIn(more, what)
  <2>1. PICK s, t : s = Spoken(cs, what) /\ t = WordsIn(ws, what)
    OBVIOUS
  <2>2. s \in Seq(Words) /\ t \in Seq(Words)
    <3>1. Line(<< >>) \in CallsMade
      BY NoWords DEF CallsMade, Line
    <3> QED
      BY <2>1, <3>1, GaveMore, WordsInRule
  <2>3. s \o Append(t, w) = Append(s \o t, w)
    BY <2>2, JoinedWithMore
  <2>4. WordsIn(more, what) = IF role = what THEN Append(t, w) ELSE t
    BY <1>1, <2>1, WordsInAfter
  <2> QED
    BY <1>6, <2>1, <2>3, <2>4
<1>7. next.positional = Spoken(cs, "positional") \o WordsIn(more, "positional")
  <2>1. o.positional = Spoken(cs, "positional") \o WordsIn(ws, "positional")
    BY DEF Progress
  <2> QED
    BY <1>6, <2>1
<1>8. next.terminal = Spoken(cs, "terminal") \o WordsIn(more, "terminal")
  <2>1. o.terminal = Spoken(cs, "terminal") \o WordsIn(ws, "terminal")
    BY DEF Progress
  <2> QED
    BY <1>6, <2>1
<1> QED
  BY <1>1, <1>3, <1>4, <1>5, <1>7, <1>8 DEF Progress

(* A parameter is set.                                                     *)
LEMMA SetFields ==
  ASSUME NEW o, OptionsShape(o), NEW p \in A!Parameters, NEW v, NEW next, next = A!Set(o, p, v)
  PROVE  /\ OptionsShape(next) /\ next.state = o.state
         /\ next.positional = o.positional /\ next.terminal = o.terminal
         /\ next.terminator = o.terminator /\ next.awaits = o.awaits
         /\ \A q \in A!Parameters :
              /\ next.value[q] = IF q = p THEN A!Stored(o.value[p], p, A!Reads(p, v)) ELSE o.value[q]
              /\ next.present[q] <=> o.present[q] \/ (q = p /\ A!Reads(p, v).ok)
         /\ next.error <=> o.error \/ ~A!Reads(p, v).ok \/ (o.present[p] /\ ~A!IsVector(p))
<1>1. PICK r : r = A!Reads(p, v)
  OBVIOUS
<1>2. next = [o EXCEPT !.value[p] = A!Stored(@, p, r),
                       !.present[p] = @ \/ r.ok,
                       !.error = @ \/ ~r.ok \/ (o.present[p] /\ ~A!IsVector(p))]
  BY <1>1 DEF A!Set, A!SetTo
<1>3. /\ next.value = [o.value EXCEPT ![p] = A!Stored(@, p, r)]
      /\ next.present = [o.present EXCEPT ![p] = @ \/ r.ok]
      /\ next.error = (o.error \/ ~r.ok \/ (o.present[p] /\ ~A!IsVector(p)))
      /\ next.state = o.state /\ next.positional = o.positional /\ next.terminal = o.terminal
      /\ next.terminator = o.terminator /\ next.awaits = o.awaits
      /\ next = [value |-> next.value, present |-> next.present, positional |-> next.positional,
                 terminal |-> next.terminal, state |-> next.state, terminator |-> next.terminator,
                 awaits |-> next.awaits, error |-> next.error]
  BY <1>2 DEF OptionsShape
<1>4. /\ \A q \in A!Parameters : next.value[q] = IF q = p THEN A!Stored(o.value[p], p, r) ELSE o.value[q]
      /\ next.value = [q \in A!Parameters |-> next.value[q]]
  BY <1>3 DEF OptionsShape
<1>5. /\ \A q \in A!Parameters : next.present[q] <=> o.present[q] \/ (q = p /\ r.ok)
      /\ next.present = [q \in A!Parameters |-> next.present[q]]
  BY <1>3 DEF OptionsShape
<1> QED
  BY <1>1, <1>3, <1>4, <1>5 DEF OptionsShape

Amiss(o, x, v) ==
  \/ ~A!Reads(A!Named(x), v).ok
  \/ o.present[A!Named(x)] /\ ~A!IsVector(A!Named(x))

Setting(o, next, x, v, before, given, now) ==
  /\ before \in Seq(Givens) /\ given \in Seq(Givens) /\ Keeps(o, before \o given)
  /\ OptionsShape(o) /\ x \in Words /\ v \in Said /\ v # A!NoValue /\ A!Named(x) # 0
  /\ next = A!Set(o, A!Named(x), v) /\ now = Append(given, GivenBy(x, v))

LEMMA SetGives ==
  ASSUME NEW o, NEW next, NEW x, NEW v, NEW before, NEW given, NEW now,
         Setting(o, next, x, v, before, given, now)
  PROVE  /\ Keeps(next, before \o now)
         /\ Wrong(now, before \o now) <=> Wrong(given, before \o given) \/ Amiss(o, x, v)
         /\ next.error <=> o.error \/ Amiss(o, x, v)
<1>0. /\ before \in Seq(Givens) /\ given \in Seq(Givens) /\ Keeps(o, before \o given)
      /\ OptionsShape(o) /\ x \in Words /\ v \in Said /\ v # A!NoValue /\ A!Named(x) # 0
      /\ next = A!Set(o, A!Named(x), v) /\ now = Append(given, GivenBy(x, v))
  BY DEF Setting
<1>1. PICK p, g, r, all :
        p = A!Named(x) /\ g = GivenBy(x, v) /\ r = A!Reads(p, v) /\ all = before \o given
  OBVIOUS
<1>2. p \in A!Parameters
  BY <1>0, <1>1, NamedRule
<1>3. g.p = p /\ g.by = "parse" /\ g.read = r
  BY <1>0, <1>1, GivenFields
<1>4. g \in Givens
  BY <1>0, <1>1, GivensAre
<1>5. all \in Seq(Givens) /\ before \o now = Append(all, g)
  BY <1>0, <1>1, <1>4, JoinedWithMore
<1>6. /\ \A q \in A!Parameters :
           /\ next.value[q] = IF q = p THEN A!Stored(o.value[p], p, r) ELSE o.value[q]
           /\ next.present[q] <=> o.present[q] \/ (q = p /\ r.ok)
      /\ next.error <=> o.error \/ ~r.ok \/ (o.present[p] /\ ~A!IsVector(p))
  BY <1>0, <1>1, <1>2, SetFields
<1>7. \A q \in A!Parameters : next.value[q] = A!After(o.value[q], q, g)
  BY <1>3, <1>6 DEF A!After
<1>8. \A q \in A!Parameters : next.present[q] <=> o.present[q] \/ Fits(g, q)
  BY <1>3, <1>6 DEF Fits
<1>9. Keeps(next, Append(all, g))
  BY <1>0, <1>1, <1>4, <1>5, <1>7, <1>8, KeepsMore
<1>10. o.present[p] <=> A!Accepted(all, p) # {}
  BY <1>0, <1>1, <1>2 DEF Keeps
<1>11. Wrong(now, before \o now)
         <=> \/ Wrong(given, before \o given)
             \/ ~g.read.ok
             \/ ~A!IsVector(g.p) /\ A!Accepted(before \o given, g.p) # {}
  BY <1>0, <1>1, <1>3, <1>4, WrongMore
<1> QED
  BY <1>1, <1>3, <1>5, <1>6, <1>9, <1>10, <1>11 DEF Amiss

(* The words of the last call, and one more.                               *)
Longer(e, c, w) == e = [c EXCEPT !.words = Append(@, w)]

LEMMA OneWordMore ==
  ASSUME NEW ws, NEW w, NEW c, c = [do |-> "parse", words |-> ws], NEW e, Longer(e, c, w)
  PROVE  e = [do |-> "parse", words |-> Append(ws, w)]
<1>1. PICK s : s = Append(c.words, w)
  OBVIOUS
<1>2. e = [c EXCEPT !.words = s]
  BY <1>1 DEF Longer
<1>3. DOMAIN e = {"do", "words"} /\ e.do = "parse" /\ e.words = s
  BY <1>2
<1>4. e = [do |-> "parse", words |-> s]
  BY <1>2
<1> QED
  BY <1>1, <1>4

OneMore(after, before, w) == after = [before EXCEPT ![Len(before)].words = Append(@, w)]

LEMMA LineGrows ==
  ASSUME NEW cs \in Seq(CallsMade), NEW ws \in Seq(Words), NEW w \in Words,
         NEW before, before = Append(cs, Line(ws)), NEW after, OneMore(after, before, w)
  PROVE  after = Append(cs, Line(Append(ws, w))) /\ after \in Seq(CallsMade)
<1>1. PICK n, c, d : n = Len(cs) /\ c = Line(ws) /\ d = Line(Append(ws, w))
  OBVIOUS
<1>2. c \in CallsMade /\ d \in CallsMade
  BY <1>1, AppendProperties DEF CallsMade, Line
<1>3. /\ before \in Seq(CallsMade) /\ Len(before) = n + 1 /\ before[n + 1] = c
      /\ n \in Nat /\ \A k \in 1..n : before[k] = cs[k]
  BY <1>1, <1>2, AppendProperties, SeqElements
<1>4. DOMAIN before = 1..(n + 1)
  BY <1>3, SeqElements
<1>5. /\ DOMAIN after = 1..(n + 1) /\ after = [k \in DOMAIN after |-> after[k]]
      /\ Longer(after[n + 1], before[n + 1], w)
      /\ \A k \in 1..n : after[k] = before[k]
  <2>1. n + 1 \in 1..(n + 1) /\ \A k \in 1..n : k \in 1..(n + 1) /\ k # n + 1
    BY <1>3
  <2> QED
    BY <1>3, <1>4, <2>1 DEF Longer, OneMore
<1>6. after[n + 1] = d
  <2>1. c = [do |-> "parse", words |-> ws] /\ d = [do |-> "parse", words |-> Append(ws, w)]
    BY <1>1 DEF Line
  <2>2. before[n + 1] = [do |-> "parse", words |-> ws]
    BY <1>3, <2>1
  <2>3. after[n + 1] = [do |-> "parse", words |-> Append(ws, w)]
    BY <1>5, <2>2, OneWordMore
  <2> QED
    BY <2>1, <2>3
<1>7. Listed(after, n + 1) /\ \A k \in 1..n : after[k] = cs[k]
  BY <1>3, <1>5 DEF Listed
<1>8. after = Append(cs, d)
  <2>1. PICK X : X = CallsMade
    OBVIOUS
  <2>2. /\ n \in Nat /\ cs \in Seq(X) /\ Len(cs) = n /\ d \in X
        /\ after[n + 1] = d /\ Listed(after, n + 1) /\ \A k \in 1..n : after[k] = cs[k]
    BY <1>1, <1>2, <1>3, <1>6, <1>7, <2>1
  <2> QED
    BY ONLY <2>2, IsMore
<1>9. Append(cs, d) \in Seq(CallsMade)
  BY <1>2, AppendProperties
<1> QED
  BY <1>1, <1>8, <1>9

-----------------------------------------------------------------------------
(* The steps of Arguments.                                                 *)

LEMMA WordStep ==
  ASSUME NEW cs \in Seq(CallsMade), NEW ws \in Seq(Words), NEW w \in Words, NEW now \in Seq(Givens),
         NEW before, before = Append(cs, Line(ws)), NEW after, OneMore(after, before, w),
         NEW next, OptionsShape(next), next.state # "idle", Progress(next, cs, Append(ws, w), now)
  PROVE  Consistent(next, after)
<1>1. after = Append(cs, Line(Append(ws, w))) /\ after \in Seq(CallsMade)
  BY LineGrows
<1>2. PICK more : more = Append(ws, w)
  OBVIOUS
<1>3. more \in Seq(Words)
  BY <1>2, AppendProperties
<1>4. Within(next, after)
  BY <1>1, <1>2, <1>3 DEF Within
<1> QED
  BY <1>1, <1>4 DEF Consistent

(* A word that gives no value.                                             *)
Quietly(o, next, ws, w, role) ==
  /\ role = RoleAfter(ws, w) /\ ~Open(ws) /\ ~(role = "name" /\ ~A!Takes(w))
  /\ next.value = o.value /\ next.present = o.present
  /\ next.positional = IF role = "positional" THEN Append(o.positional, w) ELSE o.positional
  /\ next.terminal = IF role = "terminal" THEN Append(o.terminal, w) ELSE o.terminal
  /\ next.terminator <=> o.terminator \/ role = "end"
  /\ next.awaits = IF role = "name" /\ A!Takes(w) THEN A!Named(w) ELSE 0
  /\ next.error <=> o.error \/ role = "unknown"

LEMMA QuietWord ==
  ASSUME NEW o, NEW next, NEW cs \in Seq(CallsMade), NEW ws \in Seq(Words), NEW w \in Words,
         NEW given \in Seq(Givens), NEW role, Quietly(o, next, ws, w, role),
         Progress(o, cs, ws, given)
  PROVE  Progress(next, cs, Append(ws, w), given)
<1>0. /\ role = RoleAfter(ws, w) /\ ~Open(ws) /\ ~(role = "name" /\ ~A!Takes(w))
      /\ next.value = o.value /\ next.present = o.present
      /\ next.positional = IF role = "positional" THEN Append(o.positional, w) ELSE o.positional
      /\ next.terminal = IF role = "terminal" THEN Append(o.terminal, w) ELSE o.terminal
      /\ next.terminator <=> o.terminator \/ role = "end"
      /\ next.awaits = IF role = "name" /\ A!Takes(w) THEN A!Named(w) ELSE 0
      /\ next.error <=> o.error \/ role = "unknown"
  BY DEF Quietly
<1>1. given = ValuesIn(ws)
  BY <1>0 DEF Progress, Ready
<1>2. Ready(Append(ws, w), given)
  BY <1>0, <1>1, ReadyAfterMore DEF ReadyAfter
<1>3. Keeps(next, Gave(cs) \o given)
  BY <1>0 DEF Progress, Keeps
<1>4. next.error <=> Wrong(given, Gave(cs) \o given) \/ Unknown(ws) \/ role = "unknown"
  BY <1>0 DEF Progress
<1> QED
  BY <1>0, <1>2, <1>3, <1>4, WordRead

LEMMA GaveIsSeq ==
  ASSUME NEW cs \in Seq(CallsMade)
  PROVE  Gave(cs) \in Seq(Givens)
<1>1. Line(<< >>) \in CallsMade
  BY NoWords DEF CallsMade, Line
<1> QED
  BY <1>1, GaveMore

(* A name with its value.                                                  *)
LEMMA SettingWord ==
  ASSUME NEW o, OptionsShape(o), NEW next, NEW cs \in Seq(CallsMade), NEW ws \in Seq(Words),
         NEW w \in Words, NEW given \in Seq(Givens), Progress(o, cs, ws, given),
         ~Open(ws), RoleAfter(ws, w) = "name", ~A!Takes(w), o.awaits = 0,
         NEW v, v = A!ValueOf(w, A!NoValue), v # A!NoValue,
         next = A!Set(o, A!Named(w), v)
  PROVE  /\ OptionsShape(next) /\ next.state = o.state
         /\ Append(given, GivenBy(w, v)) \in Seq(Givens)
         /\ Progress(next, cs, Append(ws, w), Append(given, GivenBy(w, v)))
<1>1. PICK now, p : now = Append(given, GivenBy(w, v)) /\ p = A!Named(w)
  OBVIOUS
<1>2. A!RoleOf(w) = "name"
  BY DEF RoleAfter
<1>3. p # 0 /\ p \in A!Parameters
  BY <1>1, <1>2, NamesAreTaken, NamedRule
<1>4. v \in Said
  BY DEF Said
<1>5. now \in Seq(Givens)
  BY <1>1, <1>4, GivensAre, AppendProperties
<1>6. given = ValuesIn(ws)
  BY DEF Progress, Ready
<1>7. Ready(Append(ws, w), now)
  BY <1>1, <1>6, ReadyAfterMore DEF ReadyAfter
<1>8. /\ OptionsShape(next) /\ next.state = o.state
      /\ next.positional = o.positional /\ next.terminal = o.terminal
      /\ next.terminator = o.terminator /\ next.awaits = o.awaits
  BY <1>1, <1>3, SetFields
<1>9. /\ Keeps(next, Gave(cs) \o now)
      /\ next.error <=> Wrong(now, Gave(cs) \o now) \/ Unknown(ws)
  <2>1. Keeps(o, Gave(cs) \o given) /\ (o.error <=> Wrong(given, Gave(cs) \o given) \/ Unknown(ws))
    BY DEF Progress
  <2>2. PICK before : before = Gave(cs)
    OBVIOUS
  <2>3. before \in Seq(Givens) /\ Keeps(o, before \o given)
    BY <2>1, <2>2, GaveIsSeq
  <2>4. /\ Keeps(next, before \o now)
        /\ Wrong(now, before \o now) <=> Wrong(given, before \o given) \/ Amiss(o, w, v)
        /\ next.error <=> o.error \/ Amiss(o, w, v)
    <3>1. Setting(o, next, w, v, before, given, now)
      BY <1>1, <1>3, <1>4, <2>3 DEF Setting
    <3> QED
      BY <3>1, SetGives
  <2> QED
    BY <2>1, <2>2, <2>4
<1>10. Progress(next, cs, Append(ws, w), now)
  <2>1. PICK role : role = RoleAfter(ws, w)
    OBVIOUS
  <2>2. role = "name"
    BY <2>1
  <2>3. /\ next.positional = IF role = "positional" THEN Append(o.positional, w) ELSE o.positional
        /\ next.terminal = IF role = "terminal" THEN Append(o.terminal, w) ELSE o.terminal
        /\ next.terminator <=> o.terminator \/ role = "end"
        /\ next.awaits = IF role = "name" /\ A!Takes(w) THEN A!Named(w) ELSE 0
        /\ next.error <=> Wrong(now, Gave(cs) \o now) \/ Unknown(ws) \/ role = "unknown"
    BY <1>8, <1>9, <2>2
  <2> QED
    BY <1>5, <1>7, <1>9, <2>1, <2>3, WordRead
<1> QED
  BY <1>1, <1>5, <1>8, <1>10

(* The value that a name awaits.                                           *)
LEMMA AwaitedWord ==
  ASSUME NEW o, OptionsShape(o), NEW next, NEW cs \in Seq(CallsMade), NEW ws \in Seq(Words),
         NEW w \in Words, NEW given \in Seq(Givens), Progress(o, cs, ws, given), Open(ws),
         next = A!Set([o EXCEPT !.awaits = 0], o.awaits, w)
  PROVE  /\ OptionsShape(next) /\ next.state = o.state
         /\ \E now \in Seq(Givens) : Progress(next, cs, Append(ws, w), now)
<1>1. PICK x, now, free : /\ x = ws[Len(ws)] /\ now = Append(given, GivenBy(x, w))
                          /\ free = [o EXCEPT !.awaits = 0]
  OBVIOUS
<1>2. x \in Words /\ A!Takes(x)
  <2>1. Len(ws) \in 1..Len(ws)
    <3>1. Len(ws) \in Nat /\ Len(ws) # 0
      BY SeqElements, EmptySeq DEF Open
    <3> QED
      BY <3>1
  <2> QED
    BY <1>1, <2>1, SeqElements DEF Open
<1>3. A!Named(x) # 0 /\ A!Named(x) \in A!Parameters /\ o.awaits = A!Named(x)
  BY <1>1, <1>2, NamesAreTaken, NamedRule DEF Progress
<1>4. w \in Said /\ w # A!NoValue
  BY ParametersRule DEF Said
<1>5. now \in Seq(Givens)
  BY <1>1, <1>2, <1>4, GivensAre, AppendProperties
<1>6. Ready(Append(ws, w), now)
  BY <1>1, ReadyAfterValue DEF ReadyAfter, Progress
<1>7. /\ OptionsShape(free) /\ free.state = o.state /\ free.awaits = 0
      /\ free.positional = o.positional /\ free.terminal = o.terminal
      /\ free.terminator = o.terminator /\ free.value = o.value /\ free.present = o.present
      /\ free.error = o.error
  BY <1>1 DEF OptionsShape
<1>8. next = A!Set(free, A!Named(x), w)
  BY <1>1, <1>3
<1>9. /\ OptionsShape(next) /\ next.state = o.state
      /\ next.positional = o.positional /\ next.terminal = o.terminal
      /\ next.terminator = o.terminator /\ next.awaits = 0
  BY <1>3, <1>7, <1>8, SetFields
<1>10. /\ Keeps(next, Gave(cs) \o now)
       /\ next.error <=> Wrong(now, Gave(cs) \o now) \/ Unknown(ws)
  <2>1. /\ Keeps(free, Gave(cs) \o given)
        /\ free.error <=> Wrong(given, Gave(cs) \o given) \/ Unknown(ws)
    BY <1>7 DEF Progress, Keeps
  <2>2. PICK before : before = Gave(cs)
    OBVIOUS
  <2>3. before \in Seq(Givens) /\ Keeps(free, before \o given)
    BY <2>1, <2>2, GaveIsSeq
  <2>4. /\ Keeps(next, before \o now)
        /\ Wrong(now, before \o now) <=> Wrong(given, before \o given) \/ Amiss(free, x, w)
        /\ next.error <=> free.error \/ Amiss(free, x, w)
    <3>1. Setting(free, next, x, w, before, given, now)
      BY <1>1, <1>2, <1>3, <1>4, <1>7, <1>8, <2>3 DEF Setting
    <3> QED
      BY <3>1, SetGives
  <2> QED
    BY <2>1, <2>2, <2>4
<1>11. Progress(next, cs, Append(ws, w), now)
  <2>1. PICK role : role = RoleAfter(ws, w)
    OBVIOUS
  <2>2. role = "value"
    BY <2>1 DEF RoleAfter, Open
  <2>3. /\ next.positional = IF role = "positional" THEN Append(o.positional, w) ELSE o.positional
        /\ next.terminal = IF role = "terminal" THEN Append(o.terminal, w) ELSE o.terminal
        /\ next.terminator <=> o.terminator \/ role = "end"
        /\ next.awaits = IF role = "name" /\ A!Takes(w) THEN A!Named(w) ELSE 0
        /\ next.error <=> Wrong(now, Gave(cs) \o now) \/ Unknown(ws) \/ role = "unknown"
    BY <1>9, <1>10, <2>2
  <2> QED
    BY <1>5, <1>6, <1>10, <2>1, <2>3, WordRead
<1> QED
  BY <1>5, <1>9, <1>11

(* In the midst of a parse.                                                *)
LEMMA InParse ==
  ASSUME ArgumentsInv, A!Reading
  PROVE  /\ OptionsShape(obj) /\ obj.state = "words"
         /\ \E cs \in Seq(CallsMade), ws \in Seq(Words), given \in Seq(Givens) :
              out = Append(cs, Line(ws)) /\ Progress(obj, cs, ws, given)
<1>1. obj.state = "words"
  BY DEF A!Reading
<1>2. OptionsShape(obj) /\ Within(obj, out)
  BY <1>1 DEF ArgumentsInv, Consistent
<1> QED
  BY <1>1, <1>2 DEF Within

LEMMA NothingAwaited ==
  ASSUME NEW o, NEW cs, NEW ws, NEW given, Progress(o, cs, ws, given)
  PROVE  o.awaits = 0 <=> ~Open(ws)
<1>1. Open(ws) => A!Named(ws[Len(ws)]) # 0
  BY NamesAreTaken DEF Open
<1> QED
  BY <1>1 DEF Progress

LEMMA GivesIs ==
  ASSUME NEW w, NEW o, A!Gives(w, o)
  PROVE  obj' = o /\ OneMore(out', out, w)
  BY DEF A!Gives, OneMore

(* A word that is neither a value nor the terminator.                      *)
LEMMA OrdinaryWord ==
  ASSUME NEW cs, NEW ws, NEW given, Progress(obj, cs, ws, given), NEW w, A!Ordinary(w)
  PROVE  ~Open(ws) /\ ~Ended(ws) /\ obj.awaits = 0 /\ RoleAfter(ws, w) = A!RoleOf(w)
<1>1. obj.awaits = 0 /\ ~obj.terminator /\ w # A!Terminator
  BY DEF A!Ordinary
<1>2. ~Open(ws) /\ ~Ended(ws)
  BY <1>1, NothingAwaited DEF Progress
<1> QED
  BY <1>1, <1>2 DEF RoleAfter

LEMMA TerminalKeeps ==
  ASSUME ArgumentsInv, NEW w \in Words, A!Terminal(w)
  PROVE  ArgumentsInv'
<1>1. A!Reading /\ obj.terminator
  BY DEF A!Terminal
<1>2. PICK cs \in Seq(CallsMade), ws \in Seq(Words), given \in Seq(Givens) :
        out = Append(cs, Line(ws)) /\ Progress(obj, cs, ws, given)
  BY <1>1, InParse
<1>3. Ended(ws) /\ ~Open(ws)
  BY <1>1, <1>2 DEF Progress, Open
<1>4. PICK role, next : role = RoleAfter(ws, w) /\ next = [obj EXCEPT !.terminal = Append(@, w)]
  OBVIOUS
<1>5. role = "terminal"
  BY <1>3, <1>4 DEF RoleAfter
<1>6. obj' = next /\ OneMore(out', out, w)
  BY <1>4, GivesIs DEF A!Terminal
<1>7. /\ OptionsShape(next) /\ next.state = "words"
      /\ next.value = obj.value /\ next.present = obj.present /\ next.awaits = obj.awaits
      /\ next.positional = obj.positional /\ next.terminal = Append(obj.terminal, w)
      /\ next.terminator = obj.terminator /\ next.error = obj.error
  BY <1>1, <1>4, InParse DEF OptionsShape
<1>8. obj.awaits = 0
  BY <1>2, <1>3, NothingAwaited
<1>9. /\ next.positional = IF role = "positional" THEN Append(obj.positional, w) ELSE obj.positional
      /\ next.terminal = IF role = "terminal" THEN Append(obj.terminal, w) ELSE obj.terminal
      /\ next.terminator <=> obj.terminator \/ role = "end"
      /\ next.awaits = IF role = "name" /\ A!Takes(w) THEN A!Named(w) ELSE 0
      /\ next.error <=> obj.error \/ role = "unknown"
      /\ ~(role = "name" /\ ~A!Takes(w))
  BY <1>5, <1>7, <1>8
<1>10. Progress(next, cs, Append(ws, w), given)
  <2>1. Quietly(obj, next, ws, w, role)
    BY <1>3, <1>4, <1>7, <1>9 DEF Quietly
  <2> QED
    BY <1>2, <2>1, QuietWord
<1>11. Consistent(next, out')
  BY <1>2, <1>6, <1>7, <1>10, WordStep
<1> QED
  BY <1>6, <1>11 DEF ArgumentsInv

LEMMA TerminateKeeps ==
  ASSUME ArgumentsInv, NEW w \in Words, A!Terminate(w)
  PROVE  ArgumentsInv'
<1>1. A!Reading /\ obj.awaits = 0 /\ ~obj.terminator /\ w = A!Terminator
  BY DEF A!Terminate
<1>2. PICK cs \in Seq(CallsMade), ws \in Seq(Words), given \in Seq(Givens) :
        out = Append(cs, Line(ws)) /\ Progress(obj, cs, ws, given)
  BY <1>1, InParse
<1>3. ~Ended(ws) /\ ~Open(ws)
  BY <1>1, <1>2, NothingAwaited DEF Progress
<1>4. PICK role, next : role = RoleAfter(ws, w) /\ next = [obj EXCEPT !.terminator = TRUE]
  OBVIOUS
<1>5. role = "end"
  BY <1>1, <1>3, <1>4 DEF RoleAfter
<1>6. obj' = next /\ OneMore(out', out, w)
  BY <1>4, GivesIs DEF A!Terminate
<1>7. /\ OptionsShape(next) /\ next.state = "words"
      /\ next.value = obj.value /\ next.present = obj.present /\ next.awaits = obj.awaits
      /\ next.positional = obj.positional /\ next.terminal = obj.terminal
      /\ next.terminator = TRUE /\ next.error = obj.error
  BY <1>1, <1>4, InParse DEF OptionsShape
<1>8. /\ next.positional = IF role = "positional" THEN Append(obj.positional, w) ELSE obj.positional
      /\ next.terminal = IF role = "terminal" THEN Append(obj.terminal, w) ELSE obj.terminal
      /\ next.terminator <=> obj.terminator \/ role = "end"
      /\ next.awaits = IF role = "name" /\ A!Takes(w) THEN A!Named(w) ELSE 0
      /\ next.error <=> obj.error \/ role = "unknown"
      /\ ~(role = "name" /\ ~A!Takes(w))
  BY <1>1, <1>5, <1>7
<1>9. Progress(next, cs, Append(ws, w), given)
  <2>1. Quietly(obj, next, ws, w, role)
    BY <1>3, <1>4, <1>7, <1>8 DEF Quietly
  <2> QED
    BY <1>2, <2>1, QuietWord
<1>10. Consistent(next, out')
  BY <1>2, <1>6, <1>7, <1>9, WordStep
<1> QED
  BY <1>6, <1>10 DEF ArgumentsInv

LEMMA NameKeeps ==
  ASSUME ArgumentsInv, NEW w \in Words, A!Name(w)
  PROVE  ArgumentsInv'
<1>1. A!Ordinary(w) /\ A!Reading
  BY DEF A!Name, A!Ordinary
<1>2. PICK cs \in Seq(CallsMade), ws \in Seq(Words), given \in Seq(Givens) :
        out = Append(cs, Line(ws)) /\ Progress(obj, cs, ws, given)
  BY <1>1, InParse
<1>3. ~Open(ws) /\ ~Ended(ws) /\ obj.awaits = 0 /\ RoleAfter(ws, w) = A!RoleOf(w)
  BY <1>1, <1>2, OrdinaryWord
<1>4. PICK role, next, p : /\ role = RoleAfter(ws, w) /\ p = A!Named(w)
                           /\ next = [obj EXCEPT !.awaits = p]
  OBVIOUS
<1>5. A!Takes(w) /\ A!Gives(w, next)
  BY <1>4 DEF A!Name, A!Takes
<1>6. role = "name"
  BY <1>3, <1>4, <1>5, NamesAreTaken
<1>7. obj' = next /\ OneMore(out', out, w)
  BY <1>5, GivesIs
<1>8. /\ OptionsShape(next) /\ next.state = "words"
      /\ next.value = obj.value /\ next.present = obj.present /\ next.awaits = p
      /\ next.positional = obj.positional /\ next.terminal = obj.terminal
      /\ next.terminator = obj.terminator /\ next.error = obj.error
  BY <1>1, <1>4, InParse DEF OptionsShape
<1>9. /\ next.positional = IF role = "positional" THEN Append(obj.positional, w) ELSE obj.positional
      /\ next.terminal = IF role = "terminal" THEN Append(obj.terminal, w) ELSE obj.terminal
      /\ next.terminator <=> obj.terminator \/ role = "end"
      /\ next.awaits = IF role = "name" /\ A!Takes(w) THEN A!Named(w) ELSE 0
      /\ next.error <=> obj.error \/ role = "unknown"
      /\ ~(role = "name" /\ ~A!Takes(w))
  BY <1>4, <1>5, <1>6, <1>8
<1>10. Progress(next, cs, Append(ws, w), given)
  <2>1. Quietly(obj, next, ws, w, role)
    BY <1>3, <1>4, <1>8, <1>9 DEF Quietly
  <2> QED
    BY <1>2, <2>1, QuietWord
<1>11. Consistent(next, out')
  BY <1>2, <1>7, <1>8, <1>10, WordStep
<1> QED
  BY <1>7, <1>11 DEF ArgumentsInv

LEMMA PositionalKeeps ==
  ASSUME ArgumentsInv, NEW w \in Words, A!Positional(w)
  PROVE  ArgumentsInv'
<1>1. A!Ordinary(w) /\ A!Reading /\ A!Named(w) = 0
  BY DEF A!Positional, A!Ordinary
<1>2. PICK cs \in Seq(CallsMade), ws \in Seq(Words), given \in Seq(Givens) :
        out = Append(cs, Line(ws)) /\ Progress(obj, cs, ws, given)
  BY <1>1, InParse
<1>3. ~Open(ws) /\ ~Ended(ws) /\ obj.awaits = 0 /\ RoleAfter(ws, w) = A!RoleOf(w)
  BY <1>1, <1>2, OrdinaryWord
<1>4. PICK role, next : /\ role = RoleAfter(ws, w)
                        /\ next = IF A!ValidPositional(w) THEN [obj EXCEPT !.positional = Append(@, w)]
                                  ELSE [obj EXCEPT !.error = TRUE]
  OBVIOUS
<1>5. /\ A!ValidPositional(w) => role = "positional"
      /\ ~A!ValidPositional(w) => role = "unknown"
  BY <1>1, <1>3, <1>4 DEF A!RoleOf
<1>6. obj' = next /\ OneMore(out', out, w)
  BY <1>4, GivesIs DEF A!Positional
<1>7. /\ OptionsShape(next) /\ next.state = "words"
      /\ next.value = obj.value /\ next.present = obj.present /\ next.awaits = obj.awaits
      /\ next.terminal = obj.terminal /\ next.terminator = obj.terminator
  <2>1. OptionsShape(obj) /\ obj.state = "words"
    BY <1>1, InParse
  <2>2. CASE A!ValidPositional(w)
    BY <1>4, <2>1, <2>2 DEF OptionsShape
  <2>3. CASE ~A!ValidPositional(w)
    BY <1>4, <2>1, <2>3 DEF OptionsShape
  <2> QED
    BY <2>2, <2>3
<1>8. /\ next.positional = IF role = "positional" THEN Append(obj.positional, w) ELSE obj.positional
      /\ next.error <=> obj.error \/ role = "unknown"
  <2>1. OptionsShape(obj)
    BY <1>1, InParse
  <2>2. CASE A!ValidPositional(w)
    <3>1. next.positional = Append(obj.positional, w) /\ next.error = obj.error
      BY <1>4, <2>1, <2>2 DEF OptionsShape
    <3> QED
      BY <1>5, <2>2, <3>1
  <2>3. CASE ~A!ValidPositional(w)
    <3>1. next.positional = obj.positional /\ next.error = TRUE
      BY <1>4, <2>1, <2>3 DEF OptionsShape
    <3> QED
      BY <1>5, <2>3, <3>1
  <2> QED
    BY <2>2, <2>3
<1>9. /\ next.terminal = IF role = "terminal" THEN Append(obj.terminal, w) ELSE obj.terminal
      /\ next.terminator <=> obj.terminator \/ role = "end"
      /\ next.awaits = IF role = "name" /\ A!Takes(w) THEN A!Named(w) ELSE 0
      /\ ~(role = "name" /\ ~A!Takes(w))
  BY <1>3, <1>5, <1>7
<1>10. Progress(next, cs, Append(ws, w), given)
  <2>1. Quietly(obj, next, ws, w, role)
    BY <1>3, <1>4, <1>7, <1>8, <1>9 DEF Quietly
  <2> QED
    BY <1>2, <2>1, QuietWord
<1>11. Consistent(next, out')
  BY <1>2, <1>6, <1>7, <1>10, WordStep
<1> QED
  BY <1>6, <1>11 DEF ArgumentsInv

(* Appended and Switch: a name with its value.                             *)
LEMMA WithValueKeeps ==
  ASSUME ArgumentsInv, NEW w \in Words, A!Ordinary(w), A!Named(w) # 0, ~A!Takes(w),
         NEW v, v = A!ValueOf(w, A!NoValue), v # A!NoValue, A!Gives(w, A!Set(obj, A!Named(w), v))
  PROVE  ArgumentsInv'
<1>1. A!Reading
  BY DEF A!Ordinary
<1>2. PICK cs \in Seq(CallsMade), ws \in Seq(Words), given \in Seq(Givens) :
        out = Append(cs, Line(ws)) /\ Progress(obj, cs, ws, given)
  BY <1>1, InParse
<1>3. ~Open(ws) /\ ~Ended(ws) /\ obj.awaits = 0 /\ RoleAfter(ws, w) = A!RoleOf(w)
  BY <1>2, OrdinaryWord
<1>4. RoleAfter(ws, w) = "name"
  BY <1>3, NamesAreTaken
<1>5. PICK next : next = A!Set(obj, A!Named(w), v)
  OBVIOUS
<1>6. obj' = next /\ OneMore(out', out, w)
  BY <1>5, GivesIs
<1>7. OptionsShape(obj) /\ obj.state = "words"
  BY <1>1, InParse
<1>8. /\ OptionsShape(next) /\ next.state = obj.state
      /\ Append(given, GivenBy(w, v)) \in Seq(Givens)
      /\ Progress(next, cs, Append(ws, w), Append(given, GivenBy(w, v)))
  BY <1>2, <1>3, <1>4, <1>5, <1>7, SettingWord
<1>9. Consistent(next, out')
  BY <1>2, <1>6, <1>7, <1>8, WordStep
<1> QED
  BY <1>6, <1>9 DEF ArgumentsInv

LEMMA AppendedKeeps ==
  ASSUME ArgumentsInv, NEW w \in Words, A!Appended(w)
  PROVE  ArgumentsInv'
<1>1. PICK p, v : p = A!Named(w) /\ v = A!Matches(Args[p], w)
  OBVIOUS
<1>2. A!Ordinary(w) /\ p # 0 /\ v # A!NoValue /\ A!Gives(w, A!Set(obj, p, v))
  BY <1>1 DEF A!Appended
<1>3. ~A!Takes(w) /\ A!ValueOf(w, A!NoValue) = v
  BY <1>1, <1>2 DEF A!Takes, A!ValueOf
<1> QED
  BY <1>1, <1>2, <1>3, WithValueKeeps

LEMMA SwitchKeeps ==
  ASSUME ArgumentsInv, NEW w \in Words, A!Switch(w)
  PROVE  ArgumentsInv'
<1>1. PICK p, v : p = A!Named(w) /\ v = << "1" >>
  OBVIOUS
<1>2. /\ A!Ordinary(w) /\ p # 0 /\ A!Gives(w, A!Set(obj, p, v))
      /\ A!Matches(Args[p], w) = A!NoValue /\ Args[p].kind = "bool"
  BY <1>1 DEF A!Switch
<1>3. ~A!Takes(w) /\ A!ValueOf(w, A!NoValue) = v
  BY <1>1, <1>2 DEF A!Takes, A!ValueOf
<1>4. v # A!NoValue
  BY <1>1 DEF A!NoValue
<1> QED
  BY <1>1, <1>2, <1>3, <1>4, WithValueKeeps

LEMMA ValueKeeps ==
  ASSUME ArgumentsInv, NEW w \in Words, A!Value(w)
  PROVE  ArgumentsInv'
<1>1. A!Reading /\ obj.awaits # 0
  BY DEF A!Value
<1>2. PICK cs \in Seq(CallsMade), ws \in Seq(Words), given \in Seq(Givens) :
        out = Append(cs, Line(ws)) /\ Progress(obj, cs, ws, given)
  BY <1>1, InParse
<1>3. Open(ws)
  BY <1>1, <1>2, NothingAwaited
<1>4. PICK next : next = A!Set([obj EXCEPT !.awaits = 0], obj.awaits, w)
  OBVIOUS
<1>5. obj' = next /\ OneMore(out', out, w)
  BY <1>4, GivesIs DEF A!Value
<1>6. OptionsShape(obj) /\ obj.state = "words"
  BY <1>1, InParse
<1>7. /\ OptionsShape(next) /\ next.state = obj.state
      /\ \E now \in Seq(Givens) : Progress(next, cs, Append(ws, w), now)
  BY <1>2, <1>3, <1>4, <1>6, AwaitedWord
<1>8. PICK now \in Seq(Givens) : Progress(next, cs, Append(ws, w), now)
  BY <1>7
<1>9. Consistent(next, out')
  BY <1>2, <1>5, <1>6, <1>7, <1>8, WordStep
<1> QED
  BY <1>5, <1>9 DEF ArgumentsInv

(* The start and the end of a parse, and setting a parameter by name.      *)
LEMMA ParseCallKeeps ==
  ASSUME ArgumentsInv, A!ParseCall
  PROVE  ArgumentsInv'
<1>1. PICK next, line, all : /\ next = [obj EXCEPT !.state = "words", !.terminator = FALSE, !.error = FALSE]
                             /\ line = Line(<< >>) /\ all = Gave(out)
  OBVIOUS
<1>2. obj.state = "idle" /\ obj' = next /\ out' = Append(out, line)
  BY <1>1 DEF A!ParseCall, Line
<1>3. OptionsShape(obj) /\ out \in Seq(CallsMade) /\ Between(obj, out)
  BY <1>2 DEF ArgumentsInv, Consistent
<1>4. /\ OptionsShape(next) /\ next.state = "words"
      /\ next.value = obj.value /\ next.present = obj.present /\ next.awaits = obj.awaits
      /\ next.positional = obj.positional /\ next.terminal = obj.terminal
      /\ next.terminator = FALSE /\ next.error = FALSE
  BY <1>1, <1>3 DEF OptionsShape
<1>5. line \in CallsMade
  BY <1>1, NoWords DEF CallsMade, Line
<1>6. all \in Seq(Givens) /\ \A what : Spoken(out, what) \in Seq(Words)
  BY <1>1, <1>3, <1>5, GaveMore
<1>7. all \o << >> = all /\ \A what : Spoken(out, what) \o << >> = Spoken(out, what)
  BY <1>6, ConcatEmptySeq
<1>8. ~Wrong(<< >>, all) /\ ~Unknown(<< >>)
  <2>1. Len(<< >>) = 0 /\ DOMAIN << >> = {}
    BY EmptySeq
  <2> QED
    BY <2>1 DEF Wrong, Unknown
<1>9. Progress(next, out, << >>, << >>)
  <2>1. Keeps(next, all)
    BY <1>1, <1>3, <1>4 DEF Between, Keeps
  <2>2. /\ next.positional = Spoken(out, "positional") /\ next.terminal = Spoken(out, "terminal")
        /\ next.awaits = 0
    BY <1>3, <1>4 DEF Between
  <2> QED
    BY <1>1, <1>4, <1>7, <1>8, <2>1, <2>2, NoWords DEF Progress
<1>10. Within(next, out')
  <2>1. << >> \in Seq(Words) /\ << >> \in Seq(Givens)
    BY EmptySeq
  <2> QED
    BY <1>1, <1>2, <1>3, <1>9, <2>1 DEF Within
<1>11. out' \in Seq(CallsMade)
  BY <1>2, <1>3, <1>5, AppendProperties
<1> QED
  BY <1>2, <1>4, <1>10, <1>11 DEF ArgumentsInv, Consistent

LEMMA JoinedWithOne ==
  ASSUME NEW X, NEW s \in Seq(X), NEW x \in X
  PROVE  s \o << x >> = Append(s, x)
<1>1. << >> \in Seq(X) /\ << x >> = Append(<< >>, x)
  BY EmptySeq
<1> QED
  BY <1>1, JoinedWithMore, ConcatEmptySeq

LEMMA SetByNameKeeps ==
  ASSUME ArgumentsInv, NEW w \in Words, NEW v \in Words, A!SetByName(w, v)
  PROVE  ArgumentsInv'
<1>1. PICK p, r, c, g, all :
        /\ p = A!Named(w) /\ r = A!Reads(p, v) /\ c = [do |-> "set", words |-> << w, v >>]
        /\ g = A!Given(p, v, "set") /\ all = Gave(out)
  OBVIOUS
<1>2. PICK next : next = [obj EXCEPT !.value[p] = A!Stored(@, p, r)]
  OBVIOUS
<1>3. obj.state = "idle" /\ p # 0 /\ obj' = next /\ out' = Append(out, c)
  BY <1>1, <1>2 DEF A!SetByName
<1>4. p \in A!Parameters
  BY <1>1, <1>3, NamedRule
<1>5. OptionsShape(obj) /\ out \in Seq(CallsMade) /\ Between(obj, out)
  BY <1>3 DEF ArgumentsInv, Consistent
<1>6. /\ next.value = [obj.value EXCEPT ![p] = A!Stored(@, p, r)]
      /\ next.state = "idle" /\ next.present = obj.present /\ next.awaits = obj.awaits
      /\ next.positional = obj.positional /\ next.terminal = obj.terminal
      /\ next = [value |-> next.value, present |-> next.present, positional |-> next.positional,
                 terminal |-> next.terminal, state |-> next.state, terminator |-> next.terminator,
                 awaits |-> next.awaits, error |-> next.error]
  BY <1>2, <1>3, <1>5 DEF OptionsShape
<1>7. /\ next.value = [q \in A!Parameters |-> next.value[q]]
      /\ \A q \in A!Parameters :
           next.value[q] = IF q = p THEN A!Stored(obj.value[p], p, r) ELSE obj.value[q]
  BY <1>4, <1>5, <1>6 DEF OptionsShape
<1>8. OptionsShape(next)
  BY <1>5, <1>6, <1>7 DEF OptionsShape
<1>9. v # A!NoValue
  BY ParametersRule
<1>10. g.p = p /\ g.read = r /\ g.by = "set" /\ g \in Givens
  <2>1. v \in Said
    BY DEF Said
  <2>2. g \in Givens
    BY <1>1, <2>1 DEF Givens
  <2> QED
    BY <1>1, <1>9, <2>2 DEF A!Given
<1>11. c \in CallsMade /\ c.do = "set" /\ c.words = << w, v >>
  BY <1>1 DEF CallsMade
<1>12. A!Values(c) = << g >> /\ \A what : A!WordsOf(c, what) = << >>
  <2>1. c.words[1] = w /\ c.words[2] = v
    BY <1>11
  <2> QED
    BY <1>1, <1>11, <2>1, CallRule
<1>13. /\ all \in Seq(Givens) /\ Gave(out') = Append(all, g)
       /\ \A what : Spoken(out', what) = Spoken(out, what)
  <2>1. /\ all \in Seq(Givens) /\ Gave(Append(out, c)) = all \o A!Values(c)
        /\ \A what : Spoken(out, what) \in Seq(Words)
        /\ \A what : Spoken(Append(out, c), what) = Spoken(out, what) \o A!WordsOf(c, what)
    BY <1>1, <1>5, <1>11, GaveMore
  <2>2. all \o << g >> = Append(all, g)
    BY <1>10, <2>1, JoinedWithOne
  <2>3. \A what : Spoken(out, what) \o << >> = Spoken(out, what)
    BY <2>1, ConcatEmptySeq
  <2> QED
    BY <1>3, <1>12, <2>1, <2>2, <2>3
<1>14. Keeps(next, Gave(out'))
  <2>1. Keeps(obj, all)
    BY <1>1, <1>5 DEF Between
  <2>2. \A q \in A!Parameters : next.value[q] = A!After(obj.value[q], q, g)
    BY <1>7, <1>10 DEF A!After
  <2>3. \A q \in A!Parameters : next.present[q] <=> obj.present[q] \/ Fits(g, q)
    BY <1>6, <1>10 DEF Fits
  <2> QED
    BY <1>10, <1>13, <2>1, <2>2, <2>3, KeepsMore
<1>15. out' \in Seq(CallsMade) /\ out'[Len(out')] = c
  BY <1>3, <1>5, <1>11, AppendProperties
<1>16. Between(next, out')
  BY <1>5, <1>6, <1>11, <1>13, <1>14, <1>15 DEF Between
<1> QED
  BY <1>3, <1>6, <1>8, <1>15, <1>16 DEF ArgumentsInv, Consistent

Lacking(all) == \E p \in A!Parameters : Args[p].required /\ A!Accepted(all, p) = {}

LEMMA ErrorIs ==
  ASSUME NEW ws \in Seq(Words), NEW all
  PROVE  A!HasError(all, ValuesIn(ws), A!Roles(ws))
           <=> Wrong(ValuesIn(ws), all) \/ Lacking(all) \/ Unknown(ws)
<1>1. DOMAIN A!Roles(ws) = 1..Len(ws)
  BY RolesRule, SeqElements
<1> QED
  BY <1>1 DEF A!HasError, Wrong, Lacking, Unknown

LEMMA EndOfParseKeeps ==
  ASSUME ArgumentsInv, A!Return
  PROVE  ArgumentsInv'
<1>1. PICK lacks, next :
        /\ lacks = (\E p \in A!Parameters : Args[p].required /\ ~obj.present[p])
        /\ next = [obj EXCEPT !.state = "idle", !.awaits = 0, !.error = @ \/ obj.awaits # 0 \/ lacks]
  OBVIOUS
<1>2. obj.state = "words" /\ obj' = next /\ out' = out
  BY <1>1 DEF A!Return
<1>3. OptionsShape(obj) /\ out \in Seq(CallsMade) /\ Within(obj, out)
  BY <1>2 DEF ArgumentsInv, Consistent
<1>4. PICK cs \in Seq(CallsMade), ws \in Seq(Words), given \in Seq(Givens) :
        out = Append(cs, Line(ws)) /\ Progress(obj, cs, ws, given)
  BY <1>3 DEF Within
<1>5. PICK c, before, was, last, all :
        /\ c = Line(ws) /\ before = Gave(cs) /\ was = before \o given
        /\ last = ValuesIn(ws) /\ all = Gave(out)
  OBVIOUS
<1>6. c \in CallsMade /\ c.do = "parse" /\ c.words = ws
  BY <1>5 DEF Line, CallsMade
<1>7. /\ before \in Seq(Givens) /\ all = before \o last
      /\ \A what : Spoken(out, what) = Spoken(cs, what) \o WordsIn(ws, what)
  <2>1. /\ Gave(cs) \in Seq(Givens) /\ Gave(Append(cs, c)) = Gave(cs) \o A!Values(c)
        /\ \A what : Spoken(Append(cs, c), what) = Spoken(cs, what) \o A!WordsOf(c, what)
    BY <1>6, GaveMore
  <2>2. A!Values(c) = last /\ \A what : A!WordsOf(c, what) = WordsIn(ws, what)
    BY <1>5, <1>6, CallRule
  <2>3. out = Append(cs, c)
    BY <1>4, <1>5
  <2> QED
    BY <1>5, <2>1, <2>2, <2>3
<1>8. out[Len(out)] = c /\ A!Values(c) = last
  BY <1>4, <1>5, <1>6, CallRule, AppendProperties
<1>9. /\ OptionsShape(next) /\ next.state = "idle" /\ next.awaits = 0
      /\ next.value = obj.value /\ next.present = obj.present
      /\ next.positional = obj.positional /\ next.terminal = obj.terminal
      /\ next.error <=> obj.error \/ obj.awaits # 0 \/ lacks
  BY <1>1, <1>3 DEF OptionsShape
<1>10. was \in Seq(Givens) /\ Keeps(obj, was) /\ (obj.error <=> Wrong(given, was) \/ Unknown(ws))
  <2>1. Keeps(obj, Gave(cs) \o given) /\ (obj.error <=> Wrong(given, Gave(cs) \o given) \/ Unknown(ws))
    BY <1>4 DEF Progress
  <2>2. before \o given \in Seq(Givens)
    BY <1>7, ConcatProperties
  <2> QED
    BY <1>5, <2>1, <2>2
<1>11. A!HasError(all, last, A!Roles(ws)) <=> Wrong(last, all) \/ Lacking(all) \/ Unknown(ws)
  BY <1>5, ErrorIs
<1>12. /\ Keeps(next, all)
       /\ next.error <=> A!HasError(all, last, A!Roles(ws))
  <2>1. CASE ~Open(ws)
    <3>1. last = given /\ all = was
      BY <1>4, <1>5, <1>7, <2>1 DEF Progress, Ready
    <3>2. obj.awaits = 0
      BY <1>4, <2>1, NothingAwaited
    <3>3. Keeps(next, all)
      BY <1>9, <1>10, <3>1 DEF Keeps
    <3>4. lacks <=> Lacking(all)
      BY <1>1, <1>10, <3>1 DEF Keeps, Lacking
    <3> QED
      BY <1>9, <1>10, <1>11, <3>1, <3>2, <3>3, <3>4
  <2>2. CASE Open(ws)
    <3>1. PICK x, g : x = ws[Len(ws)] /\ g = GivenBy(x, A!NoValue)
      OBVIOUS
    <3>2. last = Append(given, g)
      BY <1>4, <1>5, <2>2, <3>1 DEF Progress, Ready
    <3>3. g \in Givens
      <4>1. Len(ws) \in 1..Len(ws)
        <5>1. Len(ws) \in Nat /\ Len(ws) # 0
          BY <2>2, SeqElements, EmptySeq DEF Open
        <5> QED
          BY <5>1
      <4>2. x \in Words /\ A!NoValue \in Said
        BY <3>1, <4>1, SeqElements DEF Said
      <4> QED
        BY <3>1, <4>2, GivensAre
    <3>4. all = Append(was, g)
      BY <1>5, <1>7, <3>2, <3>3, JoinedWithMore
    <3>5. ~g.read.ok /\ \A old, p : A!After(old, p, g) = old
      BY <3>1, GivenFields
    <3>6. Keeps(next, all)
      <4>1. \A p \in A!Parameters : next.value[p] = A!After(obj.value[p], p, g)
        BY <1>9, <3>5
      <4>2. \A p \in A!Parameters : next.present[p] <=> obj.present[p] \/ Fits(g, p)
        BY <1>9, <3>5 DEF Fits
      <4> QED
        BY <1>10, <3>3, <3>4, <4>1, <4>2, KeepsMore
    <3>7. obj.awaits # 0
      BY <1>4, <2>2, NothingAwaited
    <3>8. Wrong(last, all)
      <4>1. last[Len(given) + 1] = g /\ Len(given) + 1 \in DOMAIN last
        <5>1. /\ last \in Seq(Givens) /\ Len(last) = Len(given) + 1 /\ last[Len(given) + 1] = g
              /\ Len(given) \in Nat
          BY <3>2, <3>3, AppendProperties, SeqElements
        <5>2. DOMAIN last = 1..Len(last)
          BY <5>1, SeqElements
        <5> QED
          BY <5>1, <5>2
      <4> QED
        BY <3>5, <4>1 DEF Wrong
    <3> QED
      BY <1>9, <1>11, <3>6, <3>7, <3>8
  <2> QED
    BY <2>1, <2>2
<1>13. next.positional = Spoken(out, "positional") /\ next.terminal = Spoken(out, "terminal")
  BY <1>4, <1>7, <1>9 DEF Progress
<1>14. Between(next, out)
  BY <1>5, <1>6, <1>8, <1>9, <1>12, <1>13 DEF Between
<1> QED
  BY <1>2, <1>3, <1>9, <1>14 DEF ArgumentsInv, Consistent

-----------------------------------------------------------------------------
(* The invariant of Arguments holds in every state, and implies Parsed.    *)

LEMMA ArgumentsBegin == A!Init => ArgumentsInv
<1> SUFFICES ASSUME A!Init PROVE ArgumentsInv
  OBVIOUS
<1>1. /\ out = << >>
      /\ obj = [value |-> [p \in A!Parameters |-> << >>],
                present |-> [p \in A!Parameters |-> FALSE],
                positional |-> << >>, terminal |-> << >>,
                state |-> "idle", terminator |-> FALSE, awaits |-> 0, error |-> FALSE]
  BY DEF A!Init
<1>2. /\ OptionsShape(obj) /\ obj.state = "idle" /\ obj.awaits = 0
      /\ obj.positional = << >> /\ obj.terminal = << >>
      /\ \A p \in A!Parameters : obj.value[p] = << >> /\ obj.present[p] = FALSE
  BY <1>1 DEF OptionsShape
<1>3. out \in Seq(CallsMade) /\ Gave(out) = << >> /\ \A what : Spoken(out, what) = << >>
  BY <1>1, NoCalls
<1>4. \A p : A!Kept(<< >>, p) = << >> /\ A!Accepted(<< >>, p) = {}
  BY KeptOfNone, EmptySeq DEF A!Accepted
<1>5. Keeps(obj, Gave(out))
  BY <1>2, <1>3, <1>4 DEF Keeps
<1>6. Between(obj, out)
  BY <1>1, <1>2, <1>3, <1>5 DEF Between
<1> QED
  BY <1>2, <1>3, <1>6 DEF ArgumentsInv, Consistent

LEMMA ArgumentsStep == ArgumentsInv /\ [A!Next]_(A!vars) => ArgumentsInv'
<1> SUFFICES ASSUME ArgumentsInv, [A!Next]_(A!vars) PROVE ArgumentsInv'
  OBVIOUS
<1>1. CASE A!ParseCall
  BY <1>1, ParseCallKeeps
<1>2. CASE A!Return
  BY <1>2, EndOfParseKeeps
<1>3. ASSUME NEW w \in Words, A!Terminal(w) PROVE ArgumentsInv'
  BY <1>3, TerminalKeeps
<1>4. ASSUME NEW w \in Words, A!Terminate(w) PROVE ArgumentsInv'
  BY <1>4, TerminateKeeps
<1>5. ASSUME NEW w \in Words, A!Appended(w) PROVE ArgumentsInv'
  BY <1>5, AppendedKeeps
<1>6. ASSUME NEW w \in Words, A!Switch(w) PROVE ArgumentsInv'
  BY <1>6, SwitchKeeps
<1>7. ASSUME NEW w \in Words, A!Name(w) PROVE ArgumentsInv'
  BY <1>7, NameKeeps
<1>8. ASSUME NEW w \in Words, A!Value(w) PROVE ArgumentsInv'
  BY <1>8, ValueKeeps
<1>9. ASSUME NEW w \in Words, A!Positional(w) PROVE ArgumentsInv'
  BY <1>9, PositionalKeeps
<1>10. ASSUME NEW w \in Words, NEW v \in Words, A!SetByName(w, v) PROVE ArgumentsInv'
  BY <1>10, SetByNameKeeps
<1>11. CASE UNCHANGED A!vars
  <2>1. obj' = obj /\ out' = out
    BY <1>11 DEF A!vars
  <2> QED
    BY <2>1 DEF ArgumentsInv
<1> QED
  BY <1>1, <1>2, <1>3, <1>4, <1>5, <1>6, <1>7, <1>8, <1>9, <1>10, <1>11 DEF A!Next

LEMMA ArgumentsAreParsed == ArgumentsInv => ArgumentsParsed
<1> SUFFICES ASSUME ArgumentsInv, obj.state = "idle", out # << >>
             PROVE  /\ A!ParsedAs(A!FlattenSeq([k \in DOMAIN out |-> A!Values(out[k])]), A!Last(out))
                    /\ obj.positional = A!All("positional")
                    /\ obj.terminal = A!All("terminal")
  BY DEF ArgumentsParsed, A!Parsed
<1>1. Between(obj, out)
  BY DEF ArgumentsInv, Consistent
<1>2. PICK last : last = out[Len(out)]
  OBVIOUS
<1>3. A!Last(out) = last
  BY <1>2 DEF A!Last
<1>4. A!FlattenSeq([k \in DOMAIN out |-> A!Values(out[k])]) = Gave(out)
  BY SameFlattenInArguments DEF Gave
<1>5. \A what : A!All(what) = Spoken(out, what)
  BY SameFlattenInArguments DEF A!All, Spoken
<1>6. A!ParsedAs(Gave(out), last)
  <2>1. A!ValuesKept(Gave(out))
    BY <1>1 DEF Between, Keeps, A!ValuesKept
  <2>2. last.do = "parse" => (obj.error <=> A!HasError(Gave(out), A!Values(last), A!Roles(last.words)))
    BY <1>1, <1>2 DEF Between
  <2> QED
    BY <2>1, <2>2 DEF A!ParsedAs
<1> QED
  BY <1>1, <1>3, <1>4, <1>5, <1>6 DEF Between

(***************************************************************************)
(* For every list of parameters, every set of words and any number of      *)
(* calls: each word of the command lines went to exactly one place, each   *)
(* parameter holds the last of its values, or all of them, and parse       *)
(* failed exactly when it has to.                                          *)
(***************************************************************************)
THEOREM OptionsAreParsed == A!Spec => []ArgumentsParsed
<1>1. A!Init => ArgumentsInv
  BY ArgumentsBegin
<1>2. ArgumentsInv /\ [A!Next]_(A!vars) => ArgumentsInv'
  BY ArgumentsStep
<1>3. ArgumentsInv => ArgumentsParsed
  BY ArgumentsAreParsed
<1> QED
  BY <1>1, <1>2, <1>3, PTL DEF A!Spec

=============================================================================
