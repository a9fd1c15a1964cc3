------------------------------ MODULE MCMemory ------------------------------
(* Memory with two threads, three addresses of the allocator and two of    *)
(* mmap, and sizes of five bits, of which 5 and more are large.  A realloc *)
(* needs a second address while it holds the first one.  Of the products   *)
(* 7 * 2 is the largest size and 7 * 5 wraps around to 3.                  *)
EXTENDS Memory, TLC

CONSTANTS t1, t2, a1, a2, a3, m1, m2

MCThreads == {t1, t2}
MCHeapAddr == {a1, a2, a3}
MCMapAddr == {m1, m2}
MCSizes == {0, 2, 5}
MCCounts == {1, 7}

(* Threads and addresses are told apart by nothing but equality.           *)
MCSymmetry ==
  Permutations(MCThreads) \cup Permutations(MCHeapAddr) \cup Permutations(MCMapAddr)

=============================================================================
