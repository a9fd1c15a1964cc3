--------------------------- MODULE MutexRecursive ---------------------------
(***************************************************************************)
(* MutexRecursive (include/dlh/mutex_rec.hpp): a mutex its owner may lock  *)
(* again.  It is a Mutex, whose promise is LockSpec, with the owner's      *)
(* thread id and the depth of its recursion beside it.  Both are plain     *)
(* variables, which every thread reads before it has the mutex.            *)
(*                                                                         *)
(* The owner field holds -1 (Nobody), the thread id of the owner, or 0     *)
(* (Single) if that is the process id as well, so that the lock survives a *)
(* fork.  Leaders are the threads whose gettid() is their getpid(): the    *)
(* main thread, and every thread made by Thread::create with `separate',   *)
(* which lacks CLONE_THREAD and therefore leads a thread group of its own. *)
(*                                                                         *)
(* pc[t]: "idle" outside the calls, "count" in check before recursion++,   *)
(* "enter" before mutex.lock or mutex.trylock, "blocked" waiting in        *)
(* mutex.lock, "assign" and "single" in assign, "release" in unlock before *)
(* mutex.unlock.                                                           *)
(***************************************************************************)
EXTENDS Integers

CONSTANTS
  Threads,       (* the threads that share the mutex                       *)
  NoThread,      (* the holder of the free inner mutex                     *)
  Leaders,       (* the threads with gettid() = getpid()                   *)
  Nobody,        (* the owner -1                                           *)
  Single,        (* the owner 0                                            *)
  MaxRecursion   (* UINT64_MAX                                             *)

ASSUME MutexRecursiveAssumption ==
  /\ NoThread \notin Threads
  /\ Leaders \subseteq Threads
  /\ Nobody \notin Threads \cup {Single}
  /\ Single \notin Threads
  /\ MaxRecursion \in Nat \ {0}

VARIABLES
  holder,        (* the inner mutex: who holds it ...                      *)
  call,          (* ... and who waits for it                               *)
  owner,         (* thread id of the owner, Single or Nobody               *)
  recursion,     (* how often the owner has it locked                      *)
  pc,            (* where each thread is                                   *)
  depth          (* how many of its lock calls a thread has yet to undo    *)

vars == <<holder, call, owner, recursion, pc, depth>>

PC == {"idle", "count", "enter", "blocked", "assign", "single", "release"}

Mutex == INSTANCE LockSpec

Goto(t, from, to) ==
  /\ pc[t] = from
  /\ pc' = [pc EXCEPT ![t] = to]

-----------------------------------------------------------------------------
(* lock and trylock                                                        *)

(* Mutant: Single is taken for the caller's own mark.                      *)
LooksOwnedAnyThread(t) ==
  /\ owner \in {t, Single}
  /\ recursion < MaxRecursion

(* The condition of check.                                                 *)
LooksOwned(t) ==
  /\ owner = t \/ (owner = Single /\ t \in Leaders)
  /\ recursion < MaxRecursion

(* lock and trylock begin with check.                                      *)
Check(t) ==
  /\ Goto(t, "idle", IF LooksOwned(t) THEN "count" ELSE "enter")
  /\ UNCHANGED <<holder, call, owner, recursion, depth>>

(* Mutant: recursion is not counted.                                       *)
RecurseUncounted(t) ==
  /\ Goto(t, "count", "idle")
  /\ depth' = [depth EXCEPT ![t] = @ + 1]
  /\ UNCHANGED <<holder, call, owner, recursion>>

Recurse(t) ==
  /\ Goto(t, "count", "idle")
  /\ recursion' = recursion + 1
  /\ depth' = [depth EXCEPT ![t] = @ + 1]
  /\ UNCHANGED <<holder, call, owner>>

(* mutex.lock or mutex.trylock gets the mutex, at once or after a wait.    *)
Acquire(t) ==
  /\ Goto(t, "enter", "assign") \/ Goto(t, "blocked", "assign")
  /\ Mutex!Take(t)
  /\ UNCHANGED <<owner, recursion, depth>>

(* mutex.lock has to wait; even for the thread itself, if its recursion is *)
(* at the limit.                                                           *)
Block(t, kind) ==
  /\ Goto(t, "enter", "blocked")
  /\ ~Mutex!Free
  /\ Mutex!Request(t, kind)
  /\ UNCHANGED <<owner, recursion, depth>>

(* mutex.trylock or a timed mutex.lock fails.                              *)
TryFails(t) ==
  /\ Goto(t, "enter", "idle")
  /\ ~Mutex!Free
  /\ UNCHANGED <<holder, call, owner, recursion, depth>>

TimedOut(t) ==
  /\ Goto(t, "blocked", "idle")
  /\ Mutex!GiveUp(t)
  /\ UNCHANGED <<owner, recursion, depth>>

(* assign: the owner is first the thread id, for a leader then Single.     *)
Assign(t) ==
  /\ Goto(t, "assign", IF t \in Leaders THEN "single" ELSE "idle")
  /\ recursion' = 1
  /\ owner' = t
  /\ depth' = [depth EXCEPT ![t] = @ + 1]
  /\ UNCHANGED <<holder, call>>

AssignSingle(t) ==
  /\ Goto(t, "single", "idle")
  /\ owner' = Single
  /\ UNCHANGED <<holder, call, recursion, depth>>

-----------------------------------------------------------------------------
(* unlock, by a thread that has a lock to undo                             *)

(* Mutant: the last unlock leaves its owner in place.                      *)
UnlockKeepsOwner(t) ==
  /\ depth[t] > 0
  /\ recursion' = recursion - 1
  /\ Goto(t, "idle", IF recursion' = 0 THEN "release" ELSE "idle")
  /\ depth' = [depth EXCEPT ![t] = @ - 1]
  /\ UNCHANGED <<holder, call, owner>>

Unlock(t) ==
  /\ depth[t] > 0
  /\ recursion' = recursion - 1
  /\ Goto(t, "idle", IF recursion' = 0 THEN "release" ELSE "idle")
  /\ owner' = IF recursion' = 0 THEN Nobody ELSE owner
  /\ depth' = [depth EXCEPT ![t] = @ - 1]
  /\ UNCHANGED <<holder, call>>

(* Mutant: the inner mutex is not unlocked.                                *)
ReleaseNot(t) ==
  /\ Goto(t, "release", "idle")
  /\ UNCHANGED <<holder, call, owner, recursion, depth>>

Release(t) ==
  /\ Goto(t, "release", "idle")
  /\ Mutex!Release
  /\ UNCHANGED <<owner, recursion, depth>>

-----------------------------------------------------------------------------

Init ==
  /\ Mutex!LockInit
  /\ owner = Nobody
  /\ recursion = 0
  /\ pc = [t \in Threads |-> "idle"]
  /\ depth = [t \in Threads |-> 0]

(* A thread goes on with its call, and undoes its locks.                   *)
Continue(t) ==
  \/ Recurse(t)
  \/ Acquire(t)
  \/ \E kind \in {"untimed", "timed"} : Block(t, kind)
  \/ TryFails(t)
  \/ Assign(t)
  \/ AssignSingle(t)
  \/ Release(t)

Next ==
  \E t \in Threads :
    \/ Check(t)
    \/ Unlock(t)
    \/ TimedOut(t)
    \/ Continue(t)

(* Every thread in a call goes on when it can.  That a thread gives its    *)
(* locks back is up to the callers; DeadlockFree states it as a condition. *)
Fairness == \A t \in Threads : WF_vars(Continue(t))

Spec == Init /\ [][Next]_vars
FairSpec == Spec /\ Fairness

-----------------------------------------------------------------------------
(* Properties                                                              *)

(* Every variable stays in its range; in particular the recursion does not *)
(* wrap around.                                                            *)
TypeOK ==
  /\ Mutex!LockTypeOK
  /\ owner \in Threads \cup {Nobody, Single}
  /\ recursion \in 0..MaxRecursion
  /\ pc \in [Threads -> PC]
  /\ depth \in [Threads -> 0..MaxRecursion]

Owns(t) == depth[t] > 0 \/ pc[t] \in {"count", "assign", "single", "release"}

(* Two threads never own the mutex at once, although check reads owner and *)
(* recursion without the mutex.                                            *)
OneOwner == \A s, t \in Threads : Owns(s) /\ Owns(t) => s = t

(* The assertions of check, assign and unlock hold when they are reached.  *)
CheckAssertion == \A t \in Threads : pc[t] = "count" => recursion > 0

AssertionsHold ==
  /\ CheckAssertion
  /\ \A t \in Threads : pc[t] = "assign" => owner = Nobody /\ recursion = 0
  /\ \A t \in Threads : depth[t] > 0 /\ pc[t] = "idle" =>
       recursion > 0 /\ owner \in {Single, t}

(* The inner mutex is held exactly as long as the owner has locks to undo: *)
(* it goes with the last unlock, and not before.                           *)
RecursionMatchesDepth ==
  \A t \in Threads :
    /\ depth[t] > 0 => holder = t /\ recursion = depth[t]
    /\ holder = t => depth[t] > 0 \/ pc[t] \in {"assign", "release"}

(* If every thread gives all its locks back again and again, some thread   *)
(* gets the mutex whenever one waits for it without a timeout.  (A thread  *)
(* at the recursion limit waits for itself and never gives back.)          *)
DeadlockFree ==
  (\A t \in Threads : []<>(depth[t] = 0)) =>
    ((\E t \in Threads : pc[t] = "blocked" /\ call[t] = "untimed")
       ~> (\E t \in Threads : pc[t] = "assign"))

=============================================================================
