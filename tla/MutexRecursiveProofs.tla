------------------------ MODULE MutexRecursiveProofs ------------------------
(***************************************************************************)
(* MutexRecursive for any number of threads and any recursion limit, in a  *)
(* program without separate threads: only the main thread leads its group. *)
(*                                                                         *)
(* The fields owner and recursion are guarded by the inner mutex, although *)
(* everybody reads them: the invariant says what they are while nobody     *)
(* holds it (AtRest) and at each place of the thread that does (Inside),   *)
(* and that a thread that does not hold it is at none of those places      *)
(* (Outside).  Hence a thread that finds itself in the owner field is the  *)
(* holder, whatever others do in between.                                  *)
(***************************************************************************)
EXTENDS MutexRecursive, TLAPS

(* No thread but one has a thread id that is its process id.               *)
OneLeader == \A s, t \in Leaders : s = t

OwnerMark(t) == IF t \in Leaders THEN Single ELSE t

AtRest == holder = NoThread => owner = Nobody /\ recursion = 0

Inside(t) ==
  /\ recursion = depth[t]
  /\ pc[t] \in {"assign", "release"} => owner = Nobody /\ recursion = 0
  /\ pc[t] = "single" => owner = t /\ t \in Leaders /\ recursion = 1
  /\ pc[t] \in {"idle", "count", "enter", "blocked"} =>
       owner = OwnerMark(t) /\ recursion > 0
  /\ pc[t] = "count" => recursion < MaxRecursion

Outside(t) == depth[t] = 0 /\ pc[t] \in {"idle", "enter", "blocked"}

IInv ==
  /\ TypeOK
  /\ AtRest
  /\ \A t \in Threads : IF holder = t THEN Inside(t) ELSE Outside(t)

(* The initial state satisfies the invariant.                              *)
LEMMA InitInv == Init => IInv
BY MutexRecursiveAssumption
DEF Init, IInv, TypeOK, PC, AtRest, Outside, Mutex!LockInit, Mutex!LockTypeOK, Mutex!Calls

(* A thread that check lets through holds the mutex.                       *)
LEMMA LooksOwnedIsOwned ==
  ASSUME IInv, OneLeader, NEW t \in Threads, pc[t] = "idle", LooksOwned(t)
  PROVE  holder = t
<1>1. owner # Nobody
  BY MutexRecursiveAssumption DEF LooksOwned
<1>2. holder \in Threads
  BY <1>1 DEF IInv, AtRest, TypeOK, Mutex!LockTypeOK
<1>3. owner = OwnerMark(holder) \/ (owner = holder /\ pc[holder] = "single")
  BY <1>1, <1>2 DEF IInv, Inside, TypeOK, PC
<1> QED
  BY <1>2, <1>3, MutexRecursiveAssumption DEF LooksOwned, OwnerMark, OneLeader

(* Every step preserves the invariant.                                     *)
LEMMA StepInv == OneLeader /\ IInv /\ [Next]_vars => IInv'
<1> SUFFICES ASSUME OneLeader, IInv, [Next]_vars PROVE IInv'
  OBVIOUS
<1> USE MutexRecursiveAssumption
<1>a. TypeOK
  BY DEF IInv
<1> USE DEF IInv, TypeOK, PC, AtRest, Inside, Outside, OwnerMark, Goto,
            Mutex!LockTypeOK, Mutex!Calls
<1>1. ASSUME NEW t \in Threads, Check(t) PROVE IInv'
  <2>1. CASE LooksOwned(t)
    <3>1. holder = t
      BY <1>1, <2>1, LooksOwnedIsOwned DEF Check
    <3> QED
      BY <1>1, <2>1, <3>1 DEF Check, LooksOwned
  <2>2. CASE ~LooksOwned(t)
    BY <1>1, <2>2 DEF Check
  <2> QED
    BY <2>1, <2>2
<1>2. ASSUME NEW t \in Threads, Recurse(t) PROVE IInv'
  BY <1>2 DEF Recurse
<1>3. ASSUME NEW t \in Threads, Acquire(t) PROVE IInv'
  BY <1>3 DEF Acquire, Mutex!Take, Mutex!Free
<1>4. ASSUME NEW t \in Threads, NEW kind \in {"untimed", "timed"}, Block(t, kind)
      PROVE  IInv'
  BY <1>4 DEF Block, Mutex!Request
<1>5. ASSUME NEW t \in Threads, TryFails(t) PROVE IInv'
  BY <1>5 DEF TryFails
<1>6. ASSUME NEW t \in Threads, TimedOut(t) PROVE IInv'
  BY <1>6 DEF TimedOut, Mutex!GiveUp
<1>7. ASSUME NEW t \in Threads, Assign(t) PROVE IInv'
  BY <1>7 DEF Assign
<1>8. ASSUME NEW t \in Threads, AssignSingle(t) PROVE IInv'
  BY <1>8 DEF AssignSingle
<1>9. ASSUME NEW t \in Threads, Unlock(t) PROVE IInv'
  BY <1>9 DEF Unlock
<1>10. ASSUME NEW t \in Threads, Release(t) PROVE IInv'
  BY <1>10 DEF Release, Mutex!Release, Mutex!Free
<1>11. CASE UNCHANGED vars
  BY <1>11 DEF vars
<1> QED
  BY <1>1, <1>2, <1>3, <1>4, <1>5, <1>6, <1>7, <1>8, <1>9, <1>10, <1>11
  DEF Next, Continue

(* The invariant holds in every program without separate threads.          *)
THEOREM Invariant == ASSUME OneLeader PROVE Spec => []IInv
<1>1. IInv /\ [Next]_vars => IInv'
  BY StepInv
<1> QED
  BY <1>1, InitInv, PTL DEF Spec

(* Every variable stays in its range: the recursion does not wrap around.  *)
THEOREM TypeCorrect == ASSUME OneLeader PROVE Spec => []TypeOK
<1>1. IInv => TypeOK
  BY DEF IInv
<1> QED
  BY <1>1, Invariant, PTL

(* Two threads never own the mutex at once, although check reads the owner *)
(* and the recursion without the mutex.                                    *)
THEOREM Exclusive == ASSUME OneLeader PROVE Spec => []OneOwner
<1>1. IInv => OneOwner
  BY MutexRecursiveAssumption DEF IInv, OneOwner, Owns, Outside
<1> QED
  BY <1>1, Invariant, PTL

(* The assertions of check, assign and unlock hold.                        *)
THEOREM Assertions == ASSUME OneLeader PROVE Spec => []AssertionsHold
<1>1. IInv => AssertionsHold
  BY MutexRecursiveAssumption
  DEF IInv, TypeOK, AssertionsHold, CheckAssertion, Inside, Outside, OwnerMark
<1> QED
  BY <1>1, Invariant, PTL

(* The inner mutex is held exactly as long as its owner has locks to undo. *)
THEOREM DepthIsRecursion == ASSUME OneLeader PROVE Spec => []RecursionMatchesDepth
<1>1. IInv => RecursionMatchesDepth
  <2> SUFFICES ASSUME IInv, NEW t \in Threads
               PROVE  /\ depth[t] > 0 => holder = t /\ recursion = depth[t]
                      /\ holder = t => depth[t] > 0 \/ pc[t] \in {"assign", "release"}
    BY DEF RecursionMatchesDepth
  <2>1. CASE holder = t
    BY <2>1 DEF IInv, TypeOK, PC, Inside
  <2>2. CASE holder # t
    BY <2>2 DEF IInv, Outside
  <2> QED
    BY <2>1, <2>2
<1> QED
  BY <1>1, Invariant, PTL

=============================================================================
