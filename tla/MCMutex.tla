------------------------------- MODULE MCMutex -------------------------------
(* Mutex with four threads.                                                *)
EXTENDS Mutex

CONSTANTS t1, t2, t3, t4

MCThreads == {t1, t2, t3, t4}

=============================================================================
