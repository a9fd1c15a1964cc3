-------------------------- MODULE MCMutexRecursive --------------------------
(* MutexRecursive with the main thread and three others, and a recursion   *)
(* limit of three.  The main thread leads its group; OnlyMain is a program *)
(* of ordinary threads, WithSeparate one with a thread made `separate'.    *)
EXTENDS MutexRecursive

CONSTANTS main, t1, t2, t3

MCThreads == {main, t1, t2, t3}
OnlyMain == {main}
WithSeparate == {main, t1}

=============================================================================
