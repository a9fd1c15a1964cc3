-------------------------------- MODULE Mutex --------------------------------
(***************************************************************************)
(* Mutex (include/dlh/mutex.hpp, src/mutex.cpp): a lock made of one futex  *)
(* word.  Each action is one atomic instruction on the word or one futex   *)
(* system call, so threads interleave between the compare-and-swap, the    *)
(* exchange, the sleep and the wake-up of the code.                        *)
(*                                                                         *)
(* pc[t] says where thread t is in the code:                               *)
(*   "idle"    in no call of the mutex, not holding it                     *)
(*   "xchg"    in lock, about to write FUTEX_LOCKED_WITH_WAITERS           *)
(*   "wait"    in lock, about to call futex(FUTEX_WAIT)                    *)
(*   "asleep"  in lock, queued by the kernel in futex(FUTEX_WAIT)          *)
(*   "cs"      holding the mutex: lock or trylock has returned true        *)
(*   "wake"    in unlock, the word written, about to futex(FUTEX_WAKE)     *)
(***************************************************************************)
CONSTANTS
  Threads,   (* the threads that use the mutex                             *)
  NoThread   (* the holder of a free lock, in the refined specification    *)

ASSUME MutexAssumption == NoThread \notin Threads

VARIABLES
  var,       (* the futex word                                             *)
  pc,        (* where each thread is                                       *)
  timed      (* whether the thread's lock call was given a timeout (at)    *)

vars == <<var, pc, timed>>

State == {"UNLOCKED", "LOCKED", "LOCKED_WITH_WAITERS"}
PC == {"idle", "xchg", "wait", "asleep", "cs", "wake"}

Goto(t, from, to) ==
  /\ pc[t] = from
  /\ pc' = [pc EXCEPT ![t] = to]

(* The threads the kernel has queued on the word.                          *)
Sleepers == {t \in Threads : pc[t] = "asleep"}

-----------------------------------------------------------------------------
(* lock                                                                    *)

(* lock(at) wins the compare-and-swap.                                     *)
LockFast(t) ==
  /\ var = "UNLOCKED"
  /\ var' = "LOCKED"
  /\ Goto(t, "idle", "cs")
  /\ UNCHANGED timed

(* lock(at) loses the compare-and-swap; it announces itself as a waiter    *)
(* unless the word says already that there are some.                       *)
LockContended(t, at) ==
  /\ var # "UNLOCKED"
  /\ Goto(t, "idle", IF var = "LOCKED_WITH_WAITERS" THEN "wait" ELSE "xchg")
  /\ timed' = [timed EXCEPT ![t] = at]
  /\ UNCHANGED var

(* Mutant: any thread that is not told of waiters believes it is in.       *)
ExchangeTrustsLocked(t) ==
  /\ Goto(t, "xchg", IF var # "LOCKED_WITH_WAITERS" THEN "cs" ELSE "wait")
  /\ var' = "LOCKED_WITH_WAITERS"
  /\ timed' = [timed EXCEPT ![t] = @ /\ var = "LOCKED_WITH_WAITERS"]

(* Mutant: the waiter that gets in marks the word LOCKED, for itself only. *)
ExchangeForgetsOthers(t) ==
  /\ Goto(t, "xchg", IF var = "UNLOCKED" THEN "cs" ELSE "wait")
  /\ var' = IF var = "UNLOCKED" THEN "LOCKED" ELSE "LOCKED_WITH_WAITERS"
  /\ timed' = [timed EXCEPT ![t] = @ /\ var # "UNLOCKED"]

(* The exchange of lines 16 and 33: the thread has the mutex if and only   *)
(* if the word was UNLOCKED.  It leaves LOCKED_WITH_WAITERS in either case, *)
(* because it cannot know who else sleeps.                                 *)
Exchange(t) ==
  /\ Goto(t, "xchg", IF var = "UNLOCKED" THEN "cs" ELSE "wait")
  /\ var' = "LOCKED_WITH_WAITERS"
  /\ timed' = [timed EXCEPT ![t] = @ /\ var # "UNLOCKED"]

(* The kernel compares the word again under its own lock: it queues the    *)
(* thread, or returns EAGAIN if the word has changed since.                *)
FutexWait(t) ==
  /\ Goto(t, "wait", IF var = "LOCKED_WITH_WAITERS" THEN "asleep" ELSE "xchg")
  /\ UNCHANGED <<var, timed>>

(* Mutant: EINTR is answered like ETIMEDOUT.                               *)
InterruptedGivesUp(t) ==
  /\ Goto(t, "asleep", "idle")
  /\ timed' = [timed EXCEPT ![t] = FALSE]
  /\ UNCHANGED var

(* FUTEX_WAIT ends without a FUTEX_WAKE: a signal or a spurious wake-up    *)
(* (ENONE, EINTR).  The loop of lock goes round.                           *)
Interrupted(t) ==
  /\ Goto(t, "asleep", "xchg")
  /\ UNCHANGED <<var, timed>>

(* ETIMEDOUT: lock returns false and leaves the word as it is.             *)
TimedOut(t) ==
  /\ timed[t]
  /\ Goto(t, "asleep", "idle")
  /\ timed' = [timed EXCEPT ![t] = FALSE]
  /\ UNCHANGED var

-----------------------------------------------------------------------------
(* trylock and unlock                                                      *)

(* One compare-and-swap; if it fails trylock returns false and nothing     *)
(* has changed.                                                            *)
TryLock(t) ==
  /\ var = "UNLOCKED"
  /\ var' = "LOCKED"
  /\ Goto(t, "idle", "cs")
  /\ UNCHANGED timed

(* Mutant: unlock wakes somebody only when the word was LOCKED.            *)
UnlockInverted(t, s) ==
  /\ pc[s] = "cs" /\ (t = s \/ pc[t] = "idle")
  /\ pc' = [pc EXCEPT ![s] = "idle", ![t] = IF var = "LOCKED" THEN "wake" ELSE "idle"]
  /\ var' = "UNLOCKED"
  /\ UNCHANGED timed

(* Thread t unlocks the mutex that s holds.  The word does not say who     *)
(* locked it, so t need not be s: the last reader of an RWLock unlocks the *)
(* mutex that the first one locked.                                        *)
Unlock(t, s) ==
  /\ pc[s] = "cs" /\ (t = s \/ pc[t] = "idle")
  /\ pc' = [pc EXCEPT ![s] = "idle", ![t] = IF var # "LOCKED" THEN "wake" ELSE "idle"]
  /\ var' = "UNLOCKED"
  /\ UNCHANGED timed

(* futex(FUTEX_WAKE, 1): the kernel takes one thread off the queue, if     *)
(* there is one.                                                           *)
FutexWake(t) ==
  /\ pc[t] = "wake"
  /\ \/ /\ Sleepers = {}
        /\ pc' = [pc EXCEPT ![t] = "idle"]
     \/ \E s \in Sleepers :
          pc' = [pc EXCEPT ![t] = "idle", ![s] = "xchg"]
  /\ UNCHANGED <<var, timed>>

-----------------------------------------------------------------------------

Init ==
  /\ var = "UNLOCKED"
  /\ pc = [t \in Threads |-> "idle"]
  /\ timed = [t \in Threads |-> FALSE]

(* What a thread does once it is in a call, or holds the mutex.            *)
Continue(t) ==
  \/ Exchange(t)
  \/ FutexWait(t)
  \/ Unlock(t, t)
  \/ FutexWake(t)

Next ==
  \E t \in Threads :
    \/ LockFast(t)
    \/ \E at \in BOOLEAN : LockContended(t, at)
    \/ TryLock(t)
    \/ Interrupted(t)
    \/ TimedOut(t)
    \/ \E s \in Threads \ {t} : Unlock(t, s)
    \/ Continue(t)

(* The scheduler runs every runnable thread eventually, and whoever holds  *)
(* the mutex (a Guarded scope) unlocks it.  Nobody has to call lock, no    *)
(* signal has to arrive and no timeout has to expire.                      *)
Fairness == \A t \in Threads : WF_vars(Continue(t))

Spec == Init /\ [][Next]_vars
FairSpec == Spec /\ Fairness

-----------------------------------------------------------------------------
(* Properties                                                              *)

(* Every variable stays in its range.                                      *)
TypeOK ==
  /\ var \in State
  /\ pc \in [Threads -> PC]
  /\ timed \in [Threads -> BOOLEAN]

Holds(t) == pc[t] = "cs"

(* Two threads never hold the mutex at once, although a thread that lock   *)
(* lets in by the exchange, one it lets in by the compare-and-swap and a   *)
(* trylock race for the same word.                                         *)
MutualExclusion ==
  \A s, t \in Threads : Holds(s) /\ Holds(t) => s = t

(* The word and the threads agree: it is UNLOCKED exactly while nobody     *)
(* holds the mutex, so no exchange of a late or a timed-out waiter can     *)
(* lock it for nobody.                                                     *)
WordMatchesHolder ==
  (var = "UNLOCKED") <=> (\A t \in Threads : ~Holds(t))

(* No wake-up is lost: while a thread sleeps in FUTEX_WAIT, either the     *)
(* word still obliges the holder to wake somebody, or an unlock is about   *)
(* to, or a thread that was woken is about to write the word again.        *)
NoLostWakeup ==
  Sleepers # {} =>
    \/ var = "LOCKED_WITH_WAITERS"
    \/ \E t \in Threads : pc[t] \in {"wake", "xchg"}

Waiting(t) == pc[t] \in {"xchg", "wait", "asleep"}

(* Whenever a lock call without a timeout waits, some thread gets the      *)
(* mutex again: not all can sleep while it is free.  (Not necessarily that *)
(* call: lock and trylock let newcomers overtake.)                         *)
DeadlockFree ==
  (\E t \in Threads : Waiting(t) /\ ~timed[t]) ~> (\E t \in Threads : Holds(t))

-----------------------------------------------------------------------------
(* The futex mutex implements the lock the rest of the library relies on.  *)

Holder ==
  IF \E t \in Threads : Holds(t) THEN CHOOSE t \in Threads : Holds(t)
  ELSE NoThread

Call(t) ==
  IF ~Waiting(t) THEN "none" ELSE IF timed[t] THEN "timed" ELSE "untimed"

Lock == INSTANCE LockSpec WITH
          holder <- Holder, call <- [t \in Threads |-> Call(t)]

(* Every step of the mutex is a step of LockSpec or changes nothing a      *)
(* caller can see; in particular a call without a timeout never gives up.  *)
ImplementsLock == Lock!LockSpec

=============================================================================
