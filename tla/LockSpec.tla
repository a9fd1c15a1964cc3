------------------------------ MODULE LockSpec ------------------------------
(***************************************************************************)
(* What a lock of this library promises its callers, whatever it is made   *)
(* of: at most one holder; a blocking call that has not returned yet       *)
(* either takes the lock when it is free or, only if the caller gave a     *)
(* timeout, gives up.  The lock does not know its holder: any thread may   *)
(* release it on the holder's behalf, as RWLock does.  Mutex implements    *)
(* this with one futex word; RWLock and MutexRecursive are built on it.    *)
(***************************************************************************)
CONSTANTS
  Threads,   (* the threads that share the lock                            *)
  NoThread   (* "nobody": the holder of a free lock                        *)

VARIABLES
  holder,    (* the thread that holds the lock, or NoThread                *)
  call       (* for every thread its lock call that has not returned yet   *)

lockVars == <<holder, call>>

Calls == {"none", "untimed", "timed"}

LockTypeOK ==
  /\ holder \in Threads \cup {NoThread}
  /\ call \in [Threads -> Calls]

Free == holder = NoThread

(* A lock call finds the lock taken and starts to wait.                    *)
Request(t, kind) ==
  /\ call[t] = "none"
  /\ call' = [call EXCEPT ![t] = kind]
  /\ UNCHANGED holder

(* A lock or trylock call gets the free lock, at once or after a wait.     *)
Take(t) ==
  /\ Free
  /\ holder' = t
  /\ call' = [call EXCEPT ![t] = "none"]

(* The waiting time of a timed call expires.                               *)
GiveUp(t) ==
  /\ call[t] = "timed"
  /\ call' = [call EXCEPT ![t] = "none"]
  /\ UNCHANGED holder

Release ==
  /\ ~Free
  /\ holder' = NoThread
  /\ call' = call

LockInit ==
  /\ holder = NoThread
  /\ call = [t \in Threads |-> "none"]

LockNext ==
  \E t \in Threads :
    \/ \E kind \in {"untimed", "timed"} : Request(t, kind)
    \/ Take(t)
    \/ GiveUp(t)
    \/ Release

LockSpec == LockInit /\ [][LockNext]_lockVars

=============================================================================
