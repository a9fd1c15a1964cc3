----------------------------- MODULE MutexProofs -----------------------------
(***************************************************************************)
(* Proofs about Mutex for any set of threads: type correctness, mutual     *)
(* exclusion, that no wake-up is lost, and that the futex mutex implements *)
(* LockSpec.                                                               *)
(***************************************************************************)
EXTENDS Mutex, TLAPS

(* Goto changes the place of one thread only and stays among the places.   *)
LEMMA GotoType ==
  ASSUME pc \in [Threads -> PC], NEW t \in Threads, NEW from, NEW to \in PC,
         Goto(t, from, to)
  PROVE  /\ pc' \in [Threads -> PC]
         /\ pc[t] = from
         /\ pc'[t] = to
         /\ \A s \in Threads : s # t => pc'[s] = pc[s]
  BY DEF Goto

(* Every variable stays in its range, whatever the threads do.             *)
THEOREM TypeCorrect == Spec => []TypeOK
<1>1. Init => TypeOK
  BY DEF Init, TypeOK, State, PC
<1>2. TypeOK /\ [Next]_vars => TypeOK'
  <2> SUFFICES ASSUME TypeOK, [Next]_vars PROVE TypeOK'
    OBVIOUS
  <2> USE DEF TypeOK, State, PC, Goto
  <2>1. ASSUME NEW t \in Threads, LockFast(t) PROVE TypeOK'
    BY <2>1 DEF LockFast
  <2>2. ASSUME NEW t \in Threads, NEW at \in BOOLEAN, LockContended(t, at)
        PROVE TypeOK'
    BY <2>2 DEF LockContended
  <2>3. ASSUME NEW t \in Threads, TryLock(t) PROVE TypeOK'
    BY <2>3 DEF TryLock
  <2>4. ASSUME NEW t \in Threads, Interrupted(t) PROVE TypeOK'
    BY <2>4 DEF Interrupted
  <2>5. ASSUME NEW t \in Threads, TimedOut(t) PROVE TypeOK'
    BY <2>5 DEF TimedOut
  <2>6. ASSUME NEW t \in Threads, Exchange(t) PROVE TypeOK'
    <3>1. (timed[t] /\ var # "UNLOCKED") \in BOOLEAN
      BY <2>6
    <3>2. QED
      BY <2>6, <3>1 DEF Exchange
  <2>7. ASSUME NEW t \in Threads, FutexWait(t) PROVE TypeOK'
    BY <2>7 DEF FutexWait
  <2>8. ASSUME NEW t \in Threads, NEW s \in Threads, Unlock(t, s) PROVE TypeOK'
    BY <2>8 DEF Unlock
  <2>9. ASSUME NEW t \in Threads, FutexWake(t) PROVE TypeOK'
    BY <2>9 DEF FutexWake, Sleepers
  <2>10. CASE UNCHANGED vars
    BY <2>10 DEF vars
  <2>11. QED
    BY <2>1, <2>2, <2>3, <2>4, <2>5, <2>6, <2>7, <2>8, <2>9, <2>10
    DEF Next, Continue
<1>3. QED
  BY <1>1, <1>2, PTL DEF Spec

-----------------------------------------------------------------------------
(* Mutual exclusion is not inductive alone: that the exchange or the       *)
(* compare-and-swap lets nobody in needs the word to say that the mutex is *)
(* held.  Together with WordMatchesHolder it is.                           *)
Exclusion == MutualExclusion /\ WordMatchesHolder

LEMMA ExclusionStep == TypeOK /\ Exclusion /\ [Next]_vars => Exclusion'
<1> SUFFICES ASSUME TypeOK, Exclusion, [Next]_vars PROVE Exclusion'
  OBVIOUS
<1> USE DEF TypeOK, State, PC, Goto, Exclusion, MutualExclusion,
            WordMatchesHolder, Holds
<1>1. ASSUME NEW t \in Threads, LockFast(t) PROVE Exclusion'
  BY <1>1 DEF LockFast
<1>2. ASSUME NEW t \in Threads, NEW at \in BOOLEAN, LockContended(t, at)
      PROVE Exclusion'
  BY <1>2 DEF LockContended
<1>3. ASSUME NEW t \in Threads, TryLock(t) PROVE Exclusion'
  BY <1>3 DEF TryLock
<1>4. ASSUME NEW t \in Threads, Interrupted(t) PROVE Exclusion'
  BY <1>4 DEF Interrupted
<1>5. ASSUME NEW t \in Threads, TimedOut(t) PROVE Exclusion'
  BY <1>5 DEF TimedOut
<1>6. ASSUME NEW t \in Threads, Exchange(t) PROVE Exclusion'
  BY <1>6 DEF Exchange
<1>7. ASSUME NEW t \in Threads, FutexWait(t) PROVE Exclusion'
  BY <1>7 DEF FutexWait
<1>8. ASSUME NEW t \in Threads, NEW s \in Threads, Unlock(t, s) PROVE Exclusion'
  BY <1>8 DEF Unlock
<1>9. ASSUME NEW t \in Threads, FutexWake(t) PROVE Exclusion'
  BY <1>9 DEF FutexWake, Sleepers
<1>10. CASE UNCHANGED vars
  BY <1>10 DEF vars
<1>11. QED
  BY <1>1, <1>2, <1>3, <1>4, <1>5, <1>6, <1>7, <1>8, <1>9, <1>10
  DEF Next, Continue

(* Two threads never hold the mutex at once, and the futex word is         *)
(* UNLOCKED exactly while nobody holds it.                                 *)
THEOREM Excludes == Spec => [](MutualExclusion /\ WordMatchesHolder)
<1>1. Init => Exclusion
  BY DEF Init, Exclusion, MutualExclusion, WordMatchesHolder, Holds
<1>2. QED
  BY <1>1, ExclusionStep, TypeCorrect, PTL DEF Spec, Exclusion

-----------------------------------------------------------------------------
(* A thread that sleeps is never forgotten: the word, a pending wake-up or *)
(* a woken thread still answers for it.                                    *)
THEOREM WakeupsAreKept == Spec => []NoLostWakeup
<1>1. Init => NoLostWakeup
  BY DEF Init, NoLostWakeup, Sleepers
<1>2. TypeOK /\ NoLostWakeup /\ [Next]_vars => NoLostWakeup'
  <2> SUFFICES ASSUME TypeOK, NoLostWakeup, [Next]_vars PROVE NoLostWakeup'
    OBVIOUS
  <2> USE DEF TypeOK, State, PC, Goto, NoLostWakeup, Sleepers
  <2>1. ASSUME NEW t \in Threads, LockFast(t) PROVE NoLostWakeup'
    BY <2>1 DEF LockFast
  <2>2. ASSUME NEW t \in Threads, NEW at \in BOOLEAN, LockContended(t, at)
        PROVE NoLostWakeup'
    BY <2>2 DEF LockContended
  <2>3. ASSUME NEW t \in Threads, TryLock(t) PROVE NoLostWakeup'
    BY <2>3 DEF TryLock
  <2>4. ASSUME NEW t \in Threads, Interrupted(t) PROVE NoLostWakeup'
    BY <2>4 DEF Interrupted
  <2>5. ASSUME NEW t \in Threads, TimedOut(t) PROVE NoLostWakeup'
    BY <2>5 DEF TimedOut
  <2>6. ASSUME NEW t \in Threads, Exchange(t) PROVE NoLostWakeup'
    BY <2>6 DEF Exchange
  <2>7. ASSUME NEW t \in Threads, FutexWait(t) PROVE NoLostWakeup'
    BY <2>7 DEF FutexWait
  <2>8. ASSUME NEW t \in Threads, NEW s \in Threads, Unlock(t, s) PROVE NoLostWakeup'
    BY <2>8 DEF Unlock
  <2>9. ASSUME NEW t \in Threads, FutexWake(t) PROVE NoLostWakeup'
    BY <2>9 DEF FutexWake
  <2>10. CASE UNCHANGED vars
    BY <2>10 DEF vars
  <2>11. QED
    BY <2>1, <2>2, <2>3, <2>4, <2>5, <2>6, <2>7, <2>8, <2>9, <2>10
    DEF Next, Continue
<1>3. QED
  BY <1>1, <1>2, TypeCorrect, PTL DEF Spec

-----------------------------------------------------------------------------
(* The refinement: who holds LockSpec's lock, and which calls wait for it. *)

LEMMA HolderValue ==
  ASSUME MutualExclusion
  PROVE  /\ \A t \in Threads : Holds(t) => Holder = t
         /\ (\A t \in Threads : ~Holds(t)) => Holder = NoThread
         /\ (\A t \in Threads : Holder = t => Holds(t))
  BY MutexAssumption DEF MutualExclusion, Holder

LEMMA HolderValueNext ==
  ASSUME MutualExclusion'
  PROVE  /\ \A t \in Threads : Holds(t)' => Holder' = t
         /\ (\A t \in Threads : ~Holds(t)') => Holder' = NoThread
  BY MutexAssumption DEF MutualExclusion, Holder

(* A step that leaves every thread outside t where a caller sees it gives  *)
(* the refined state function an EXCEPT at t.                              *)
LEMMA CallUpdate ==
  ASSUME NEW t \in Threads, NEW c,
         Call(t)' = c, \A s \in Threads \ {t} : Call(s)' = Call(s)
  PROVE  [s \in Threads |-> Call(s)]' = [[s \in Threads |-> Call(s)] EXCEPT ![t] = c]
  OBVIOUS

LEMMA RefinedStep ==
  TypeOK /\ Exclusion /\ Exclusion' /\ [Next]_vars => [Lock!LockNext]_(Lock!lockVars)
<1> SUFFICES ASSUME TypeOK, Exclusion, Exclusion', [Next]_vars
             PROVE  [Lock!LockNext]_(Lock!lockVars)
  OBVIOUS
<1> DEFINE calls == [s \in Threads |-> Call(s)]
           Seen == Holder' = Holder /\ calls' = calls
           Step == Lock!LockNext \/ Seen
<1> USE DEF TypeOK, State, PC, Goto, Exclusion, WordMatchesHolder, Holds, Waiting
<1>1. ASSUME NEW t \in Threads, LockFast(t) \/ TryLock(t) PROVE Step
  <2>1. Holder = NoThread /\ Holder' = t
    BY <1>1, HolderValue, HolderValueNext DEF LockFast, TryLock
  <2>2. Call(t)' = "none" /\ \A s \in Threads \ {t} : Call(s)' = Call(s)
    BY <1>1 DEF LockFast, TryLock, Call
  <2>3. Lock!Take(t)
    BY <2>1, <2>2, CallUpdate DEF Lock!Take, Lock!Free
  <2>4. QED
    BY <2>3 DEF Lock!LockNext
<1>2. ASSUME NEW t \in Threads, NEW at \in BOOLEAN, LockContended(t, at) PROVE Step
  <2> DEFINE kind == IF at THEN "timed" ELSE "untimed"
  <2>1. Holder' = Holder
    BY <1>2 DEF LockContended, Holder
  <2>2. Call(t) = "none" /\ Call(t)' = kind
    BY <1>2 DEF LockContended, Call
  <2>3. \A s \in Threads \ {t} : Call(s)' = Call(s)
    BY <1>2 DEF LockContended, Call
  <2>4. Lock!Request(t, kind)
    BY <2>1, <2>2, <2>3, CallUpdate DEF Lock!Request
  <2>5. QED
    BY <2>4 DEF Lock!LockNext
<1>3. ASSUME NEW t \in Threads, Interrupted(t) \/ FutexWait(t) \/ FutexWake(t)
      PROVE Step
  <2>1. \A s \in Threads : Holds(s)' = Holds(s) /\ Call(s)' = Call(s)
    BY <1>3 DEF Interrupted, FutexWait, FutexWake, Sleepers, Call
  <2>2. Holder' = Holder
    BY <2>1, HolderValue, HolderValueNext
  <2>3. calls' = calls
    BY <2>1
  <2>4. QED
    BY <2>2, <2>3
<1>4. ASSUME NEW t \in Threads, TimedOut(t) PROVE Step
  <2>1. Holder' = Holder
    BY <1>4, HolderValue, HolderValueNext DEF TimedOut
  <2>2. Call(t) = "timed" /\ Call(t)' = "none"
    BY <1>4 DEF TimedOut, Call
  <2>3. \A s \in Threads \ {t} : Call(s)' = Call(s)
    BY <1>4 DEF TimedOut, Call
  <2>4. Lock!GiveUp(t)
    BY <2>1, <2>2, <2>3, CallUpdate DEF Lock!GiveUp
  <2>5. QED
    BY <2>4 DEF Lock!LockNext
<1>5. ASSUME NEW t \in Threads, Exchange(t) PROVE Step
  <2>1. CASE var = "UNLOCKED"
    <3>1. Holder = NoThread /\ Holder' = t
      BY <1>5, <2>1, HolderValue, HolderValueNext DEF Exchange
    <3>2. Call(t)' = "none" /\ \A s \in Threads \ {t} : Call(s)' = Call(s)
      BY <1>5, <2>1 DEF Exchange, Call
    <3>3. Lock!Take(t)
      BY <3>1, <3>2, CallUpdate DEF Lock!Take, Lock!Free
    <3>4. QED
      BY <3>3 DEF Lock!LockNext
  <2>2. CASE var # "UNLOCKED"
    <3>1. \A s \in Threads : Holds(s)' = Holds(s)
      BY <1>5, <2>2 DEF Exchange
    <3>2. \A s \in Threads : Call(s)' = Call(s)
      BY <1>5, <2>2 DEF Exchange, Call
    <3>3. Holder' = Holder
      BY <3>1, HolderValue, HolderValueNext
    <3>4. QED
      BY <3>2, <3>3
  <2>3. QED
    BY <2>1, <2>2
<1>6. ASSUME NEW t \in Threads, NEW s \in Threads, Unlock(t, s) PROVE Step
  <2>1. Holder = s /\ Holder' = NoThread
    BY <1>6, HolderValue, HolderValueNext DEF Unlock
  <2>2. \A u \in Threads : Call(u)' = Call(u)
    BY <1>6 DEF Unlock, Call
  <2>3. Lock!Release
    BY <2>1, <2>2, MutexAssumption DEF Lock!Release, Lock!Free
  <2>4. QED
    BY <2>3 DEF Lock!LockNext
<1>7. ASSUME UNCHANGED vars PROVE Step
  <2>1. \A s \in Threads : Holds(s)' = Holds(s) /\ Call(s)' = Call(s)
    BY <1>7 DEF vars, Call
  <2>2. Holder' = Holder
    BY <2>1, HolderValue, HolderValueNext
  <2>3. QED
    BY <2>1, <2>2
<1>8. Step
  <2> HIDE DEF Step
  <2> QED
    BY <1>1, <1>2, <1>3, <1>4, <1>5, <1>6, <1>7 DEF Next, Continue
<1>9. QED
  BY <1>8, Zenon DEF Lock!lockVars

(* The futex mutex does nothing a caller could tell from LockSpec's lock:  *)
(* it hands the lock to one thread at a time, only a timed call gives up,  *)
(* and only the holder releases.                                           *)
THEOREM Implements == Spec => ImplementsLock
<1>1. Init => Lock!LockInit
  BY DEF Init, Lock!LockInit, Holder, Holds, Call, Waiting
<1>2. Init => Exclusion
  BY DEF Init, Exclusion, MutualExclusion, WordMatchesHolder, Holds
<1>3. QED
  BY <1>1, <1>2, RefinedStep, ExclusionStep, TypeCorrect, PTL
  DEF Spec, ImplementsLock, Lock!LockSpec

=============================================================================
