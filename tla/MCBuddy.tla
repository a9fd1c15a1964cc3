------------------------------- MODULE MCBuddy -------------------------------
(* Buddy with four bucket sizes (blocks of 4, 8, 16 and 32 bytes) in a     *)
(* range of 32 bytes that is reserved in chunks of 8.  A request needs one *)
(* byte more for its header: 3 fits the smallest block, 4 needs the next   *)
(* one, 15 half of the range, 31 all of it and 32 never.  In words of      *)
(* seven bits 127 wraps around to 0, and no power of two reaches 101.      *)
EXTENDS Buddy

MCRequests == {3, 4, 15, 31, 32, 100, 127}

=============================================================================
