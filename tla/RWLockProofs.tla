---------------------------- MODULE RWLockProofs ----------------------------
(***************************************************************************)
(* Proofs about RWLock for any finite set of threads: type correctness,    *)
(* and the inductive invariant that makes writers alone and keeps a        *)
(* waiting first reader from locking current readers in.                   *)
(***************************************************************************)
EXTENDS RWLock, FiniteSetTheorems, TLAPS

(* The places between reader.lock() and reader.unlock().                   *)
InReaderMutex(t) ==
  pc[t] \in {"lock.count", "lock.global", "lock.done",
             "try.count", "try.global", "try.done", "try.failed",
             "unlock.count", "unlock.global", "unlock.done"}

(* The reader mutex serialises the comings and goings.                     *)
ReaderMutexSerialises ==
  \A t \in Threads : InReaderMutex(t) <=> reader = t

(* Whoever is to unlock global was the last reader.                        *)
LastReaderLeaves == \A t \in Threads : pc[t] = "unlock.global" => Counted = {}

(* A writer holds global against writers and readers alike.                *)
WriterExcludes ==
  \A t \in Threads : Writing(t) =>
    /\ ~ReadersHold
    /\ ~Leaving
    /\ \A s \in Threads \ {t} : ~Writing(s)

IInv ==
  /\ TypeOK
  /\ ReaderMutexSerialises
  /\ BlockCountsReaders
  /\ NoReaderBehindWaiter
  /\ LastReaderLeaves
  /\ GlobalIsHeldFor
  /\ WriterExcludes

-----------------------------------------------------------------------------
(* How a step changes the set of counted readers.                          *)

LEMMA CountedIsFinite ==
  /\ IsFiniteSet(Counted)
  /\ Cardinality(Counted) \in Nat
  /\ Cardinality(Counted) = 0 <=> Counted = {}
<1>1. Counted \subseteq Threads
  BY DEF Counted
<1>2. IsFiniteSet(Counted)
  BY <1>1, RWLockAssumption, FS_Subset
<1>3. QED
  BY <1>2, FS_CardinalityType, FS_EmptySet

LEMMA CountIn ==
  ASSUME BlockCountsReaders, NEW t, t \notin Counted,
         Counted' = Counted \cup {t}, block' = block + 1
  PROVE  /\ BlockCountsReaders'
         /\ block' = 1 <=> Counted = {}
<1>1. Cardinality(Counted \cup {t}) = Cardinality(Counted) + 1
  BY CountedIsFinite, FS_AddElement
<1>2. QED
  BY <1>1, CountedIsFinite DEF BlockCountsReaders

LEMMA CountOut ==
  ASSUME BlockCountsReaders, NEW t \in Counted,
         Counted' = Counted \ {t}, block' = block - 1
  PROVE  /\ BlockCountsReaders'
         /\ block' \in Nat
         /\ block' = 0 <=> Counted' = {}
<1>1. Cardinality(Counted \ {t}) = Cardinality(Counted) - 1
  BY CountedIsFinite, FS_RemoveElement
<1>2. Cardinality(Counted) # 0
  BY CountedIsFinite
<1>3. IsFiniteSet(Counted')
  BY CountedIsFinite, FS_RemoveElement
<1>4. Cardinality(Counted') = 0 <=> Counted' = {}
  BY <1>3, FS_EmptySet
<1>5. QED
  BY <1>1, <1>2, <1>4, CountedIsFinite DEF BlockCountsReaders

-----------------------------------------------------------------------------

LEMMA InitInv == Init => IInv
<1> SUFFICES ASSUME Init PROVE IInv
  OBVIOUS
<1>1. Counted = {}
  BY DEF Init, Counted, Reading
<1>2. block = Cardinality(Counted)
  BY <1>1, FS_EmptySet DEF Init
<1>3. QED
  BY <1>1, <1>2, RWLockAssumption
  DEF Init, IInv, TypeOK, PC, ReaderMutexSerialises, InReaderMutex,
      BlockCountsReaders, NoReaderBehindWaiter, LastReaderLeaves,
      GlobalIsHeldFor, ReadersHold, Leaving, WriterExcludes, Writing

LEMMA StepInv == IInv /\ [Next]_vars => IInv'
<1> SUFFICES ASSUME IInv, [Next]_vars PROVE IInv'
  OBVIOUS
<1> USE RWLockAssumption
    DEF IInv, TypeOK, PC, ReaderMutexSerialises, InReaderMutex,
        NoReaderBehindWaiter, LastReaderLeaves, GlobalIsHeldFor, ReadersHold,
        Leaving, WriterExcludes, Writing, Goto, Reader!Take, Reader!Free,
        Reader!Release, Global!Take, Global!Free, Global!Release
<1>1. ASSUME NEW t \in Threads, ReadLock(t) PROVE IInv'
  <2>1. Counted' = Counted /\ block' = block
    BY <1>1 DEF ReadLock, Counted, Reading
  <2>2. QED
    BY <1>1, <2>1 DEF ReadLock, BlockCountsReaders, Counted, Reading
<1>2. ASSUME NEW t \in Threads, ReadLockReader(t) PROVE IInv'
  <2>1. Counted' = Counted /\ block' = block
    BY <1>2 DEF ReadLockReader, Counted, Reading
  <2>2. QED
    BY <1>2, <2>1 DEF ReadLockReader, BlockCountsReaders, Counted, Reading
<1>3. ASSUME NEW t \in Threads, ReadLockGlobal(t) PROVE IInv'
  <2>1. Counted' = Counted /\ block' = block
    BY <1>3 DEF ReadLockGlobal, Counted, Reading
  <2>2. QED
    BY <1>3, <2>1 DEF ReadLockGlobal, BlockCountsReaders, Counted, Reading
<1>4. ASSUME NEW t \in Threads, ReadLockDone(t) PROVE IInv'
  <2>1. Counted' = Counted /\ block' = block
    BY <1>4 DEF ReadLockDone, Counted, Reading
  <2>2. QED
    BY <1>4, <2>1 DEF ReadLockDone, BlockCountsReaders, Counted, Reading
<1>5. ASSUME NEW t \in Threads, ReadTryLock(t) PROVE IInv'
  <2>1. Counted' = Counted /\ block' = block
    BY <1>5 DEF ReadTryLock, Counted, Reading
  <2>2. QED
    BY <1>5, <2>1 DEF ReadTryLock, BlockCountsReaders, Counted, Reading
<1>6. ASSUME NEW t \in Threads, ReadTryLockDone(t) PROVE IInv'
  <2>1. Counted' = Counted /\ block' = block
    BY <1>6 DEF ReadTryLockDone, Counted, Reading
  <2>2. QED
    BY <1>6, <2>1 DEF ReadTryLockDone, BlockCountsReaders, Counted, Reading
<1>7. ASSUME NEW t \in Threads, ReadUnlock(t) PROVE IInv'
  <2>1. Counted' = Counted /\ block' = block
    BY <1>7 DEF ReadUnlock, Counted, Reading
  <2>2. QED
    BY <1>7, <2>1 DEF ReadUnlock, BlockCountsReaders, Counted, Reading
<1>8. ASSUME NEW t \in Threads, ReadUnlockReader(t) PROVE IInv'
  <2>1. Counted' = Counted /\ block' = block
    BY <1>8 DEF ReadUnlockReader, Counted, Reading
  <2>2. QED
    BY <1>8, <2>1 DEF ReadUnlockReader, BlockCountsReaders, Counted, Reading
<1>9. ASSUME NEW t \in Threads, ReadUnlockGlobal(t) PROVE IInv'
  <2>1. Counted' = Counted /\ block' = block
    BY <1>9 DEF ReadUnlockGlobal, Counted, Reading
  <2>2. QED
    BY <1>9, <2>1 DEF ReadUnlockGlobal, BlockCountsReaders, Counted, Reading
<1>10. ASSUME NEW t \in Threads, ReadUnlockDone(t) PROVE IInv'
  <2>1. Counted' = Counted /\ block' = block
    BY <1>10 DEF ReadUnlockDone, Counted, Reading
  <2>2. QED
    BY <1>10, <2>1 DEF ReadUnlockDone, BlockCountsReaders, Counted, Reading
<1>11. ASSUME NEW t \in Threads, WriteLock(t) PROVE IInv'
  <2>1. Counted' = Counted /\ block' = block
    BY <1>11 DEF WriteLock, Counted, Reading
  <2>2. QED
    BY <1>11, <2>1 DEF WriteLock, BlockCountsReaders, Counted, Reading
<1>12. ASSUME NEW t \in Threads, WriteLockGlobal(t) PROVE IInv'
  <2>1. Counted' = Counted /\ block' = block
    BY <1>12 DEF WriteLockGlobal, Counted, Reading
  <2>2. QED
    BY <1>12, <2>1 DEF WriteLockGlobal, BlockCountsReaders, Counted, Reading
<1>13. ASSUME NEW t \in Threads, WriteTryLock(t) PROVE IInv'
  <2>1. Counted' = Counted /\ block' = block
    BY <1>13 DEF WriteTryLock, Counted, Reading
  <2>2. QED
    BY <1>13, <2>1 DEF WriteTryLock, BlockCountsReaders, Counted, Reading
<1>14. ASSUME NEW t \in Threads, WriteUnlock(t) PROVE IInv'
  <2>1. Counted' = Counted /\ block' = block
    BY <1>14 DEF WriteUnlock, Counted, Reading
  <2>2. QED
    BY <1>14, <2>1 DEF WriteUnlock, BlockCountsReaders, Counted, Reading
<1>15. ASSUME NEW t \in Threads, ReadLockCount(t) PROVE IInv'
  <2>1. t \notin Counted /\ Counted' = Counted \cup {t} /\ block' = block + 1
    BY <1>15 DEF ReadLockCount, Counted, Reading
  <2>2. BlockCountsReaders' /\ (block' = 1 <=> Counted = {})
    BY <2>1, CountIn
  <2>3. QED
    BY <1>15, <2>1, <2>2 DEF ReadLockCount, Counted, Reading
<1>16. ASSUME NEW t \in Threads, ReadTryLockCount(t) PROVE IInv'
  <2>1. t \notin Counted /\ Counted' = Counted \cup {t} /\ block' = block + 1
    BY <1>16 DEF ReadTryLockCount, Counted, Reading
  <2>2. BlockCountsReaders' /\ (block' = 1 <=> Counted = {})
    BY <2>1, CountIn
  <2>3. QED
    BY <1>16, <2>1, <2>2 DEF ReadTryLockCount, Counted, Reading
<1>17. ASSUME NEW t \in Threads, ReadTryLockGlobal(t) PROVE IInv'
  <2>1. CASE Global!Free
    <3>1. Counted' = Counted /\ block' = block
      BY <1>17, <2>1 DEF ReadTryLockGlobal, Counted, Reading
    <3>2. QED
      BY <1>17, <2>1, <3>1 DEF ReadTryLockGlobal, BlockCountsReaders, Counted, Reading
  <2>2. CASE ~Global!Free
    <3>1. t \in Counted /\ Counted' = Counted \ {t} /\ block' = block - 1
      BY <1>17, <2>2 DEF ReadTryLockGlobal, Counted, Reading
    <3>2. BlockCountsReaders' /\ block' \in Nat /\ (block' = 0 <=> Counted' = {})
      BY <3>1, CountOut
    <3>3. QED
      BY <1>17, <2>2, <3>1, <3>2 DEF ReadTryLockGlobal, Counted, Reading
  <2>3. QED
    BY <2>1, <2>2
<1>18. ASSUME NEW t \in Threads, ReadUnlockCount(t) PROVE IInv'
  <2>1. t \in Counted /\ Counted' = Counted \ {t} /\ block' = block - 1
    BY <1>18 DEF ReadUnlockCount, Counted, Reading
  <2>2. BlockCountsReaders' /\ block' \in Nat /\ (block' = 0 <=> Counted' = {})
    BY <2>1, CountOut
  <2>3. QED
    BY <1>18, <2>1, <2>2 DEF ReadUnlockCount, Counted, Reading
<1>19. CASE UNCHANGED vars
  <2>1. Counted' = Counted
    BY <1>19 DEF vars, Counted, Reading
  <2>2. QED
    BY <1>19, <2>1 DEF vars, BlockCountsReaders
<1>20. QED
  <2> HIDE DEF IInv
  <2> QED
    BY <1>1, <1>2, <1>3, <1>4, <1>5, <1>6, <1>7, <1>8, <1>9, <1>10, <1>11,
     <1>12, <1>13, <1>14, <1>15, <1>16, <1>17, <1>18, <1>19
    DEF Next, Call, Continue

-----------------------------------------------------------------------------

(* The counter, the two mutexes and the places of the threads always agree *)
(* (BlockCountsReaders, NoReaderBehindWaiter, GlobalIsHeldFor): the first  *)
(* and the last reader are recognised, and no reader that waits for a      *)
(* writer shuts in a reader that has the lock.                             *)
THEOREM Agreement ==
  Spec => [](TypeOK /\ BlockCountsReaders /\ NoReaderBehindWaiter /\ GlobalIsHeldFor)
  BY InitInv, StepInv, PTL DEF Spec, IInv

(* The mutex global is locked exactly while readers are counted, the last  *)
(* of them leaves or a writer is in, whoever locked it.                    *)
THEOREM GlobalLocked == Spec => []GlobalIsHeldFor
  BY Agreement, PTL

(* No thread reads or writes while another one writes.                     *)
THEOREM Exclusive == Spec => []WritersAreAlone
<1>1. IInv => WritersAreAlone
  BY DEF IInv, WriterExcludes, ReadersHold, NoReaderBehindWaiter, Counted,
         WritersAreAlone, Reading, Writing
<1>2. QED
  BY <1>1, InitInv, StepInv, PTL DEF Spec

=============================================================================
