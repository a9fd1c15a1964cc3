------------------------------ MODULE HeapSpec ------------------------------
(***************************************************************************)
(* What an allocator promises its callers: the memory of every allocation  *)
(* that is out lies inside the heap, and no two allocations share a byte.  *)
(* A call may fail.  The lists, the tree and the growth of the heap are    *)
(* not visible here.                                                       *)
(***************************************************************************)
EXTENDS Integers

CONSTANTS
  HeapSize,    (* the size of the address range of the heap                *)
  Overhead     (* what an allocation needs besides the request             *)

VARIABLE
  out          (* for each allocation that is out its size, by address     *)

(* The addresses an allocation of r bytes at address a occupies.           *)
Extent(a, r) == a..(a + r + Overhead - 1)

Sound(o) ==
  \A a \in DOMAIN o :
    /\ Extent(a, o[a]) \subseteq 0..(HeapSize - 1)
    /\ \A b \in DOMAIN o \ {a} : Extent(a, o[a]) \cap Extent(b, o[b]) = {}

HeapInit == out = << >>

Malloc ==
  \E a \in DOMAIN out' \ DOMAIN out :
    out = [b \in DOMAIN out' \ {a} |-> out'[b]]

Resize ==
  /\ DOMAIN out' = DOMAIN out
  /\ \E a \in DOMAIN out : \A b \in DOMAIN out \ {a} : out'[b] = out[b]

Free ==
  \E a \in DOMAIN out :
    out' = [b \in DOMAIN out \ {a} |-> out[b]]

HeapNext == (Malloc \/ Resize \/ Free) /\ Sound(out')

HeapSpec == HeapInit /\ [][HeapNext]_out

=============================================================================
