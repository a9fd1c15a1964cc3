-------------------------- MODULE LinearContainers --------------------------
(***************************************************************************)
(* The containers that keep their elements in the order the caller gives   *)
(* them: Vector and List, each on its own, and what they promise.  The     *)
(* initial states are those of both, and status tells which of them runs.  *)
(***************************************************************************)
EXTENDS Integers, FiniteSets, Sequences

CONSTANTS
  Objects,     (* the vectors, or the lists, of the program                *)
  Elems,       (* what the vectors hold                                    *)
  Nodes,       (* what the lists hold                                      *)
  NoNode,      (* nullptr, and what is in a cell behind the elements       *)
  Nobody,      (* nothing was given back                                   *)
  FirstCapacity, (* the capacity of the first expansion of a vector        *)
  MaxCells,    (* the cells of all vectors together (a bound of the model) *)
  MayFail      (* whether realloc may return nullptr                       *)

VARIABLES obj, out, status
vars == <<obj, out, status>>

V == INSTANCE Vector WITH
       vec <- obj, Vectors <- Objects, Raw <- NoNode, Sound <- "vector", Broken <- "vector broken"

L == INSTANCE List WITH
       heap <- obj, Lists <- Objects, Null <- NoNode, Sound <- "list"

ASSUME LinearAssumption == V!VectorAssumption /\ L!ListAssumption

Init == V!Init \/ L!Init
Next ==
  \/ status = "vector" /\ V!Next
  \/ status = "list" /\ L!Next
Spec == Init /\ [][Next]_vars

OnVectors == status \in {"vector", "vector broken"}
OnLists == status = "list"

-----------------------------------------------------------------------------
(* The links of list.hpp agree in both directions: List!LinksAgree.        *)
ListLinks == L!LinksAgree

Nothing == [o \in Objects |-> <<>>]

VectorContents == IF OnVectors THEN [v \in Objects |-> V!Elements(obj[v])] ELSE Nothing
VectorPromise == INSTANCE SeqSpec WITH
  Lists <- Objects, contents <- VectorContents, taken <- IF OnVectors THEN out ELSE Nobody,
  sound <- status # "vector broken"

ListContents == IF OnLists THEN [l \in Objects |-> L!NodesOf(l)] ELSE Nothing
ListPromise == INSTANCE SeqSpec WITH
  Lists <- Objects, Elems <- Nodes,
  contents <- ListContents, taken <- IF OnLists THEN out ELSE Nobody,
  sound <- TRUE

(* Vectors implement sequences: shifting, growing, copying and moving      *)
(* never lose, change or duplicate an element, until a vector uses memory  *)
(* that is not its own or an allocation fails, after which reserve has     *)
(* lost all elements (vector.hpp:401) and nothing is promised.             *)
VectorImplements == VectorPromise!Spec

(* Lists implement sequences of nodes.                                     *)
ListImplements == ListPromise!Spec

=============================================================================
