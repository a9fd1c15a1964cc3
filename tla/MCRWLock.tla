------------------------------ MODULE MCRWLock ------------------------------
(* RWLock with four threads, each free to read and to write.               *)
EXTENDS RWLock

CONSTANTS t1, t2, t3, t4

MCThreads == {t1, t2, t3, t4}

=============================================================================
