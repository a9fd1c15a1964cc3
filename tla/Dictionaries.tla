---------------------------- MODULE Dictionaries ----------------------------
(***************************************************************************)
(* The hash maps, beside the containers of LinearContainers, and what they *)
(* promise: a mapping from keys to values.  status tells which container   *)
(* runs.                                                                   *)
(***************************************************************************)
EXTENDS LinearContainers

CONSTANTS
  Keys, Values,
  Default,     (* a value that was moved away, as no caller inserts it     *)
  HashOf,      (* the hash of each key                                     *)
  MinCapacity, (* the smallest capacity of a hash map                      *)
  Load,        (* buckets per 100 slots                                    *)
  MaxCapacity, (* the slots of all maps together (a bound of the model)    *)
  Extracted,   (* the keys callers extract the nodes of (a bound)          *)
  Asked,       (* the keys callers ask for with at (a bound)               *)
  Requests     (* the capacities callers ask resize for                    *)

H == INSTANCE HashSet WITH
       set <- obj, Sets <- Objects, Sound <- "hash", Broken <- "hash broken"

IsHash == status \in {"hash", "hash broken"}

-----------------------------------------------------------------------------
(* The chains of hash.hpp agree with its nodes, and find and the iterators *)
(* meet exactly the active ones: HashSet!Chains and HashSet!Found.         *)
HashRight == H!Chains /\ H!Found

HashPromise == INSTANCE DictSpec WITH
  Sets <- Objects, Ranges <- {},
  contents <- [s \in Objects |-> IF IsHash THEN H!Contents(s) ELSE << >>],
  taken <- IF IsHash THEN H!Taken ELSE Nobody,
  sound <- status # "hash broken"

ASSUME DictionaryAssumption == H!HashAssumption /\ HashPromise!DictAssumption

(* Hash maps implement mappings: tidying up, growing, rehashing and an     *)
(* allocation that is refused while the old block stays never lose, change *)
(* or duplicate an entry.  Nothing is promised after the map has used      *)
(* memory that is not its own, or after realloc has found no memory for a  *)
(* small block and released the old one (HashSet!ReallocLoses).            *)
HashImplements == HashPromise!Spec

=============================================================================
