------------------------------ MODULE MCThread ------------------------------
(* Thread with two users that create two threads.  Of the programs *)
(* that detach threads and of the kernels that hand out an address again,  *)
(* Separately has each kind alone and Together has both at once.           *)
EXTENDS Thread

CONSTANTS u1, u2, a1, a2

MCUsers == {u1, u2}
MCSlots == {a1, a2}

Separately == {[detach |-> FALSE, reuse |-> TRUE], [detach |-> TRUE, reuse |-> FALSE]}
Together == {[detach |-> TRUE, reuse |-> TRUE]}

=============================================================================
