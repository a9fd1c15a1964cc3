---------------------------- MODULE MCContainers ----------------------------
(***************************************************************************)
(* All containers, each on its own: the initial states are those of        *)
(* HashSet, TreeSet and LinearContainers (Vector and List), and status     *)
(* tells which of them runs.                                               *)
(*                                                                         *)
(* Two hash sets share the memory of six slots.  The smallest capacity is  *)
(* 3 and not 16 (with less than 3, the condition under which increase      *)
(* reorganises would hold for a set without gaps), and growing doubles it. *)
(* The three keys fall into one bucket of the 4 and of the 6 that sets of  *)
(* 3 and of 4 slots have, and into two of the 9 buckets of 6 slots.        *)
(*                                                                         *)
(* Two trees share the memory of six slots.  In "forest" one tree is made  *)
(* from a list of 12 keys such that erasing a node shrinks it at several   *)
(* levels at once: each node has a left subtree higher by one than the     *)
(* right one (MCSkewed), or has to be rotated twice (MCInner).             *)
(*                                                                         *)
(* Two vectors share six cells; the first expansion is to 1.               *)
(* Two lists share three nodes.                                            *)
(***************************************************************************)
EXTENDS Dictionaries, TLC

CONSTANTS c1, c2, c3, k1, k2, k3, v1, moved, n1, n2, n3

MCObjects == {c1, c2}
MCElems == {k1, k2}
MCKeys == {k1, k2, k3}
MCHashOf == (k1 :> 1) @@ (k2 :> 37) @@ (k3 :> 13)
MCExtracted == {k2}
MCAsked == {k1}
MCRequests == {4}
MCValues == {v1}
MCNodes == {n1, n2, n3}
MCOrdered == 1..3
MCForest == 1..12
MCSkewed == <<8, 5, 11, 3, 7, 10, 12, 2, 4, 6, 9, 1>>
MCInner == <<5, 3, 10, 2, 4, 8, 12, 1, 7, 9, 11, 6>>

T == INSTANCE TreeSet WITH
       set <- obj, Sets <- MCObjects, Keys <- MCOrdered, Values <- {v1}, Default <- moved,
       Lists <- {<<2, 1>>}, Inserted <- MCOrdered, Erased <- MCOrdered, Extracted <- {2, 3},
       Asked <- {1}, MinCapacity <- 3, MaxCapacity <- 6, Requests <- {1},
       Sound <- "tree", Broken <- "tree broken"

F == INSTANCE TreeSet WITH
       set <- obj, Sets <- {c3}, Keys <- MCForest, Values <- {v1}, Default <- moved,
       Lists <- {MCSkewed, MCInner}, Inserted <- {}, Erased <- {4, 5, 12}, Extracted <- {5},
       Asked <- {}, MinCapacity <- 3, MaxCapacity <- 13, Requests <- {}, MayFail <- FALSE,
       Sound <- "forest", Broken <- "forest broken"

AllInit == H!Init \/ T!Init \/ F!Init \/ Init
AllNext ==
  \/ status = "hash" /\ H!Next
  \/ status = "tree" /\ T!Next
  \/ status = "forest" /\ F!Next
  \/ Next
AllSpec == AllInit /\ [][AllNext]_vars

IsTree == status \in {"tree", "tree broken"}
IsForest == status \in {"forest", "forest broken"}

(* Containers, values that are no keys, and nodes are told apart by        *)
(* nothing but equality.                                                   *)
MCSymmetry == Permutations(MCObjects)

-----------------------------------------------------------------------------
(* The links and the balances of tree.hpp are those of an AVL tree, and    *)
(* its walks and searches meet what they should: TreeSet!Balanced and      *)
(* TreeSet!Ordered.                                                        *)
TreeRight == T!Balanced /\ F!Balanced /\ T!Ordered /\ F!Ordered

(* increase makes room if it is required: with all the memory it may ask   *)
(* for, no operation on a single set touches memory that is not the set's. *)
HashStaysInside == status # "hash broken"

TreePromise == INSTANCE DictSpec WITH
  Sets <- MCObjects, Keys <- MCOrdered, Values <- {v1}, Ranges <- {{1, 2}}, Default <- moved,
  contents <- [s \in MCObjects |-> IF IsTree THEN T!Contents(s) ELSE << >>],
  taken <- IF IsTree THEN T!Taken ELSE Nobody,
  sound <- status # "tree broken"

ForestPromise == INSTANCE DictSpec WITH
  Sets <- {c3}, Keys <- MCForest, Values <- {v1}, Ranges <- {MCForest}, Default <- moved,
  contents <- [s \in {c3} |-> IF IsForest THEN F!Contents(s) ELSE << >>],
  taken <- IF IsForest THEN F!Taken ELSE Nobody,
  sound <- status # "forest broken"

ASSUME MCContainersAssumption ==
  /\ T!TreeAssumption /\ F!TreeAssumption
  /\ TreePromise!DictAssumption /\ ForestPromise!DictAssumption

(* Tree maps implement mappings: rotating, tidying up, growing and an      *)
(* allocation that is refused while the old block stays never lose, change *)
(* or duplicate an entry.  Nothing is promised after the map has used      *)
(* memory that is not its own, or after realloc has found no memory for a  *)
(* small block and released the old one (TreeSet!ReallocLoses).            *)
TreeImplements == TreePromise!Spec /\ ForestPromise!Spec

=============================================================================
