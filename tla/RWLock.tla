------------------------------- MODULE RWLock -------------------------------
(***************************************************************************)
(* RWLock<Mutex> (include/dlh/rwlock.hpp): a readers-writer lock made of   *)
(* two mutexes and a counter.  The first reader locks the mutex `global'   *)
(* against the writers and the last one unlocks it; the mutex `reader'     *)
(* serialises the readers that come and go.                                *)
(*                                                                         *)
(* The two mutexes are LockSpec's lock, which Mutex implements.  A thread  *)
(* that waits in lock is one whose step needs a mutex that is not free.    *)
(*                                                                         *)
(* pc[t] says where thread t is: "idle", "reading" and "writing" are       *)
(* outside the calls; "lock.*" is in read_lock, "try.*" in read_trylock,   *)
(* "unlock.*" in read_unlock and "write" in write_lock, where the suffix   *)
(* names what comes next: ".reader" to lock that mutex, ".count" to change *)
(* block, ".global" to lock or unlock that mutex, ".done" to unlock the    *)
(* reader mutex and return.                                                *)
(***************************************************************************)
EXTENDS Integers, FiniteSets

CONSTANTS
  Threads,   (* the threads that share the lock                            *)
  NoThread   (* the holder of a free mutex                                 *)

ASSUME RWLockAssumption == NoThread \notin Threads /\ IsFiniteSet(Threads)

VARIABLES
  block,     (* number of readers that have counted themselves in          *)
  reader,    (* the thread that holds the mutex reader, or NoThread        *)
  global,    (* the thread that locked the mutex global, or NoThread       *)
  pc         (* where each thread is                                       *)

vars == <<block, reader, global, pc>>

PC == {"idle", "reading", "writing", "write",
       "lock.reader", "lock.count", "lock.global", "lock.done",
       "try.count", "try.global", "try.done", "try.failed",
       "unlock.reader", "unlock.count", "unlock.global", "unlock.done"}

(* No call of these mutexes has a timeout; which threads wait shows in pc. *)
NoCalls == [t \in Threads |-> "none"]
Reader == INSTANCE LockSpec WITH holder <- reader, call <- NoCalls
Global == INSTANCE LockSpec WITH holder <- global, call <- NoCalls

Goto(t, from, to) ==
  /\ pc[t] = from
  /\ pc' = [pc EXCEPT ![t] = to]

-----------------------------------------------------------------------------
(* read_lock                                                               *)

ReadLock(t) ==
  /\ Goto(t, "idle", "lock.reader")
  /\ UNCHANGED <<block, reader, global>>

ReadLockReader(t) ==
  /\ Goto(t, "lock.reader", "lock.count")
  /\ Reader!Take(t)
  /\ UNCHANGED <<block, global>>

(* Mutant: block++ == 1.                                                   *)
ReadLockCountPost(t) ==
  /\ block' = block + 1
  /\ Goto(t, "lock.count", IF block = 1 THEN "lock.global" ELSE "lock.done")
  /\ UNCHANGED <<reader, global>>

(* Only the first reader has to get past the writers.                      *)
ReadLockCount(t) ==
  /\ block' = block + 1
  /\ Goto(t, "lock.count", IF block' = 1 THEN "lock.global" ELSE "lock.done")
  /\ UNCHANGED <<reader, global>>

(* It waits for a writer while it holds the reader mutex.                  *)
ReadLockGlobal(t) ==
  /\ Goto(t, "lock.global", "lock.done")
  /\ Global!Take(t)
  /\ UNCHANGED <<block, reader>>

ReadLockDone(t) ==
  /\ Goto(t, "lock.done", "reading")
  /\ Reader!Release
  /\ UNCHANGED <<block, global>>

-----------------------------------------------------------------------------
(* read_trylock: it returns false at once if the reader mutex is not free, *)
(* which changes nothing.                                                  *)

ReadTryLock(t) ==
  /\ Goto(t, "idle", "try.count")
  /\ Reader!Take(t)
  /\ UNCHANGED <<block, global>>

ReadTryLockCount(t) ==
  /\ block' = block + 1
  /\ Goto(t, "try.count", IF block' = 1 THEN "try.global" ELSE "try.done")
  /\ UNCHANGED <<reader, global>>

(* Mutant: the failed trylock leaves the counter as it is.                 *)
ReadTryLockGlobalKeeps(t) ==
  /\ UNCHANGED <<block, reader>>
  /\ \/ Goto(t, "try.global", "try.done") /\ Global!Take(t)
     \/ Goto(t, "try.global", "try.failed") /\ ~Global!Free /\ UNCHANGED global

ReadTryLockGlobal(t) ==
  /\ UNCHANGED reader
  /\ \/ /\ Goto(t, "try.global", "try.done")
        /\ Global!Take(t)
        /\ UNCHANGED block
     \/ /\ Goto(t, "try.global", "try.failed")
        /\ ~Global!Free
        /\ block' = block - 1
        /\ UNCHANGED global

(* Mutant: the failed trylock returns early.                               *)
ReadTryLockDoneEarly(t) ==
  /\ \/ Goto(t, "try.done", "reading") /\ Reader!Release
     \/ Goto(t, "try.failed", "idle") /\ UNCHANGED reader
  /\ UNCHANGED <<block, global>>

ReadTryLockDone(t) ==
  /\ \/ Goto(t, "try.done", "reading")
     \/ Goto(t, "try.failed", "idle")
  /\ Reader!Release
  /\ UNCHANGED <<block, global>>

-----------------------------------------------------------------------------
(* read_unlock                                                             *)

ReadUnlock(t) ==
  /\ Goto(t, "reading", "unlock.reader")
  /\ UNCHANGED <<block, reader, global>>

ReadUnlockReader(t) ==
  /\ Goto(t, "unlock.reader", "unlock.count")
  /\ Reader!Take(t)
  /\ UNCHANGED <<block, global>>

(* Mutant: nobody is the last reader.                                      *)
ReadUnlockCountNever(t) ==
  /\ block' = block - 1
  /\ Goto(t, "unlock.count", "unlock.done")
  /\ UNCHANGED <<reader, global>>

ReadUnlockCount(t) ==
  /\ block' = block - 1
  /\ Goto(t, "unlock.count", IF block' = 0 THEN "unlock.global" ELSE "unlock.done")
  /\ UNCHANGED <<reader, global>>

(* The last reader unlocks global, whoever locked it.                      *)
ReadUnlockGlobal(t) ==
  /\ Goto(t, "unlock.global", "unlock.done")
  /\ Global!Release
  /\ UNCHANGED <<block, reader>>

ReadUnlockDone(t) ==
  /\ Goto(t, "unlock.done", "idle")
  /\ Reader!Release
  /\ UNCHANGED <<block, global>>

-----------------------------------------------------------------------------
(* write_lock, write_trylock and write_unlock                              *)

WriteLock(t) ==
  /\ Goto(t, "idle", "write")
  /\ UNCHANGED <<block, reader, global>>

WriteLockGlobal(t) ==
  /\ Goto(t, "write", "writing")
  /\ Global!Take(t)
  /\ UNCHANGED <<block, reader>>

WriteTryLock(t) ==
  /\ Goto(t, "idle", "writing")
  /\ Global!Take(t)
  /\ UNCHANGED <<block, reader>>

WriteUnlock(t) ==
  /\ Goto(t, "writing", "idle")
  /\ Global!Release
  /\ UNCHANGED <<block, reader>>

-----------------------------------------------------------------------------

Init ==
  /\ block = 0
  /\ reader = NoThread
  /\ global = NoThread
  /\ pc = [t \in Threads |-> "idle"]

(* The calls a thread is free to make or not to make.                      *)
Call(t) == ReadLock(t) \/ ReadTryLock(t) \/ WriteLock(t) \/ WriteTryLock(t)

(* The rest of a call, and the unlock at the end of a Guarded scope.       *)
Continue(t) ==
  \/ ReadLockReader(t) \/ ReadLockCount(t) \/ ReadLockGlobal(t) \/ ReadLockDone(t)
  \/ ReadTryLockCount(t) \/ ReadTryLockGlobal(t) \/ ReadTryLockDone(t)
  \/ ReadUnlock(t) \/ ReadUnlockReader(t) \/ ReadUnlockCount(t)
  \/ ReadUnlockGlobal(t) \/ ReadUnlockDone(t)
  \/ WriteLockGlobal(t) \/ WriteUnlock(t)

Next == \E t \in Threads : Call(t) \/ Continue(t)

(* A thread that has begun a call goes on when it can, and locks are given *)
(* back.  Weak fairness of a step that takes a mutex is what Mutex's       *)
(* DeadlockFree grants: a mutex that stays free is taken by a waiter.      *)
Fairness == \A t \in Threads : WF_vars(Continue(t))

Spec == Init /\ [][Next]_vars
FairSpec == Spec /\ Fairness

-----------------------------------------------------------------------------
(* Properties                                                              *)

(* Every variable stays in its range.                                      *)
TypeOK ==
  /\ block \in Nat
  /\ reader \in Threads \cup {NoThread}
  /\ global \in Threads \cup {NoThread}
  /\ pc \in [Threads -> PC]

(* Threads that hold the lock for reading, or for writing.                 *)
Reading(t) == pc[t] \in {"reading", "unlock.reader"}
Writing(t) == pc[t] = "writing"

(* A writer is alone: no second writer, and no reader, not even one that   *)
(* came in on another reader's lock of global.                             *)
WritersAreAlone ==
  \A t \in Threads : Writing(t) =>
    \A s \in Threads \ {t} : ~Writing(s) /\ ~Reading(s)

(* The threads that have counted themselves in and not yet out again.      *)
Counted ==
  {t \in Threads : Reading(t) \/ pc[t] \in {"lock.global", "lock.done",
                     "try.global", "try.done", "unlock.count"}}

(* The counter counts exactly those threads, through failed trylocks and   *)
(* whatever the order in which readers leave.                              *)
BlockCountsReaders == block = Cardinality(Counted)

(* While a first reader waits for a writer it keeps the reader mutex from  *)
(* everyone, so nobody may be reading then: read_unlock would wait for the *)
(* mutex and the lock would never be free again.                           *)
NoReaderBehindWaiter ==
  \A t \in Threads : pc[t] \in {"lock.global", "try.global"} => Counted = {t}

(* Global is locked by the readers together, or by one writer.             *)
ReadersHold == Counted # {} /\ \A t \in Counted : pc[t] \notin {"lock.global", "try.global"}
Leaving == \E t \in Threads : pc[t] = "unlock.global"

GlobalIsHeldFor ==
  global # NoThread <=> ReadersHold \/ Leaving \/ \E t \in Threads : Writing(t)

(* Whenever a thread waits in a lock call, some thread gets the lock, for  *)
(* reading or for writing.  (Not that thread: readers that keep coming can *)
(* keep a writer out for ever.)                                            *)
Waiting(t) == pc[t] \in {"lock.reader", "lock.global", "write"}

DeadlockFree ==
  (\E t \in Threads : Waiting(t)) ~> (\E t \in Threads : Reading(t) \/ Writing(t))

=============================================================================
