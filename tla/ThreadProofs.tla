---------------------------- MODULE ThreadProofs ----------------------------
(***************************************************************************)
(* Proofs about Thread for any number of users, threads and addresses.     *)
(*                                                                         *)
(* A detached thread unmaps its stack and goes on to SYS_exit, where the   *)
(* kernel clears a thread id at an address that may be another thread's by *)
(* then.  So what holds is proved for programs that do not detach threads, *)
(* and for kernels that do not hand out an address again: Separate.        *)
(***************************************************************************)
EXTENDS Thread, TLAPS

Separate == \A p \in Policies : ~(p.detach /\ p.reuse)

-----------------------------------------------------------------------------
(* The inductive invariant.                                                *)

Exists(i) == task[i].pc # "none"
Ended(i) == task[i].pc \in {"wake", "gone"}
Live(i) == OnStack(i) \/ task[i].pc = "exit"

(* The address of thread i is mapped, and for thread i.                    *)
IsMine(i) == task[i].slot \in mapped /\ tenant[task[i].slot] = i

(* Thread i may be joined or detached: nobody has done so.                 *)
Usable(i) ==
  /\ i \in Tasks
  /\ Exists(i)
  /\ ~task[i].detached
  /\ IsMine(i)
  /\ ~desc[task[i].slot].detached
  /\ task[i].pc # "unmap"
  /\ joined[i] = -1

(* From clone to the last access of the kernel the address is that of the  *)
(* thread, and mapped until a thread that is detached has unmapped it.     *)
Life(i) ==
  /\ ~Exists(i) => task[i] = NoTask
  /\ Exists(i) => task[i].slot \in used
  /\ Live(i) => tenant[task[i].slot] = i
  /\ OnStack(i) => task[i].slot \in mapped
  /\ (task[i].pc = "exit" /\ ~policy.detach) => task[i].slot \in mapped
  /\ task[i].pc = "unmap" => policy.detach
  /\ (Exists(i) /\ task[i].pc # "run" /\ tenant[task[i].slot] = i) =>
       desc[task[i].slot].result = i
  /\ (task[i].detached /\ tenant[task[i].slot] = i) => desc[task[i].slot].detached
  /\ (task[i].detached /\ (task[i].pc = "exit" \/ Ended(i))) => ~IsMine(i)

(* A thread that was joined has ended, and its address is unmapped by the  *)
(* user who joined it.                                                     *)
JoinedRight(i) ==
  joined[i] # -1 =>
    /\ joined[i] = i
    /\ Ended(i)
    /\ IsMine(i) => \E u \in Users : pc[u] = "unmap" /\ cur[u].id = i

(* The descriptor at an address: its thread id tells whether it is in use. *)
Stack(a) ==
  /\ tenant[a] # 0 => (Exists(tenant[a]) /\ task[tenant[a]].slot = a)
  /\ desc[a].detached => policy.detach
  /\ a \in mapped =>
       IF tenant[a] # 0 /\ Live(tenant[a]) THEN desc[a].tid = tenant[a] ELSE desc[a].tid <= 0

(* What a user who is in a call may rely on.                               *)
Place(u) ==
  /\ pc[u] = "idle" => cur[u] = Nothing
  /\ pc[u] = "map" => (cur[u].id = 0 /\ cur[u].slot \in mapped /\ tenant[cur[u].slot] = 0)
  /\ pc[u] \notin {"idle", "map"} => (cur[u].id # 0 /\ cur[u].slot = task[cur[u].id].slot)
  /\ pc[u] = "created" =>
       (Exists(cur[u].id) /\ (task[cur[u].id].detached \/ Usable(cur[u].id)))
  /\ pc[u] \in {"join", "wait", "asleep", "take", "detach", "reclaim", "mark"} =>
       Usable(cur[u].id)
  /\ pc[u] \in {"detach", "reclaim", "mark"} => policy.detach
  /\ pc[u] \in {"take", "unmap", "reclaim"} => Ended(cur[u].id)
  /\ pc[u] = "unmap" =>
       (IsMine(cur[u].id) /\ ~desc[cur[u].slot].detached /\ ~task[cur[u].id].detached)

(* No two users work on one thread or one new address, and nobody works on *)
(* a thread that is left for others.                                       *)
Apart ==
  /\ \A u, v \in Users : (u # v /\ cur[u].id # 0) => cur[u].id # cur[v].id
  /\ \A u, v \in Users : (u # v /\ pc[u] = "map" /\ pc[v] = "map") => cur[u].slot # cur[v].slot
  /\ \A u \in Users : cur[u].id \notin handles
  /\ \A i \in handles : Usable(i)

IInv ==
  /\ TypeOK
  /\ ~(policy.detach /\ policy.reuse)
  /\ \A i \in Tasks : Life(i)
  /\ \A i \in Tasks : JoinedRight(i)
  /\ \A a \in Slots : Stack(a)
  /\ \A u \in Users : Place(u)
  /\ Apart

(* The initial state satisfies the invariant.                              *)
LEMMA InitInv == ASSUME Separate PROVE Init => IInv
<1> SUFFICES ASSUME Init PROVE IInv
  OBVIOUS
<1> USE ThreadAssumption DEF Init
<1>1. TypeOK
  BY DEF TypeOK, Descriptor, NoTask, Nothing, TaskPC, UserPC, Tasks
<1>2. ~(policy.detach /\ policy.reuse)
  BY DEF Separate
<1>3. \A i \in Tasks : Life(i) /\ JoinedRight(i)
  BY DEF Life, JoinedRight, Exists, Ended, Live, OnStack, NoTask
<1>4. \A a \in Slots : Stack(a)
  BY DEF Stack
<1>5. \A u \in Users : Place(u)
  BY DEF Place
<1>6. Apart
  BY DEF Apart, Nothing
<1> QED
  BY <1>1, <1>2, <1>3, <1>4, <1>5, <1>6 DEF IInv

-----------------------------------------------------------------------------
(* Where threads and users stand, and what a step makes of the types.      *)

(* A thread that exists has an address, and a descriptor there.            *)
LEMMA SlotOfThread ==
  ASSUME IInv, NEW i \in Tasks, Exists(i)
  PROVE task[i].slot \in Slots /\ desc[task[i].slot] \in Descriptor
BY DEF IInv, TypeOK, Life

(* So has a user in a call, and after clone a thread.                      *)
LEMMA SlotOfUser ==
  ASSUME IInv, NEW u \in Users, pc[u] # "idle"
  PROVE /\ cur[u].slot \in Slots
        /\ desc[cur[u].slot] \in Descriptor
        /\ pc[u] # "map" => cur[u].id \in Tasks /\ Exists(cur[u].id)
<1>1. cur[u].id \in Tasks \cup {0}
  BY DEF IInv, TypeOK
<1>2. cur[u].slot \in Slots
  BY <1>1, SMTT(20) DEF IInv, TypeOK, Place, UserPC, Usable, IsMine, Exists, Life, Ended
<1>3. pc[u] # "map" => cur[u].id \in Tasks /\ Exists(cur[u].id)
  BY <1>1, SMTT(20) DEF IInv, TypeOK, Place, UserPC, Usable, IsMine, Exists, Ended
<1> QED
  BY <1>2, <1>3 DEF IInv, TypeOK

(* Storing a field of a descriptor leaves a descriptor.                    *)
LEMMA StoreTid ==
  ASSUME IInv, NEW a \in Slots, NEW t \in Tasks \cup {0, -1}
  PROVE [desc EXCEPT ![a].tid = t] \in [Slots -> Descriptor]
<1>1. desc[a] \in Descriptor
  BY DEF IInv, TypeOK
<1>2. [desc[a] EXCEPT !.tid = t] \in Descriptor
  BY <1>1 DEF Descriptor
<1> QED
  BY <1>2 DEF IInv, TypeOK

LEMMA StoreDetached ==
  ASSUME IInv, NEW a \in Slots
  PROVE [desc EXCEPT ![a].detached = TRUE] \in [Slots -> Descriptor]
<1>1. desc[a] \in Descriptor
  BY DEF IInv, TypeOK
<1>2. [desc[a] EXCEPT !.detached = TRUE] \in Descriptor
  BY <1>1 DEF Descriptor
<1> QED
  BY <1>2 DEF IInv, TypeOK

LEMMA StoreResult ==
  ASSUME IInv, NEW a \in Slots, NEW r \in Tasks
  PROVE [desc EXCEPT ![a].result = r] \in [Slots -> Descriptor]
<1>1. desc[a] \in Descriptor
  BY DEF IInv, TypeOK
<1>2. [desc[a] EXCEPT !.result = r] \in Descriptor
  BY <1>1 DEF Descriptor
<1> QED
  BY <1>2 DEF IInv, TypeOK

(* What users rely on about thread j is so after a step too.               *)
Kept(j) ==
  /\ Exists(j) => Exists(j)'
  /\ Ended(j) => Ended(j)'
  /\ Usable(j) => Usable(j)'
  /\ task'[j].slot = task[j].slot /\ task'[j].detached = task[j].detached
  /\ Ended(j) /\ IsMine(j) =>
       IsMine(j)' /\ desc'[task[j].slot].detached = desc[task[j].slot].detached

(* A user who stays in a call keeps its place if its thread is kept.       *)
LEMMA PlaceKept ==
  ASSUME IInv, NEW w \in Users, UNCHANGED policy, cur'[w] = cur[w],
         pc'[w] = pc[w]
           \/ (pc[w] \in {"join", "wait", "asleep"} /\ pc'[w] \in {"join", "wait", "asleep"})
           \/ (pc[w] = "detach" /\ pc'[w] = "mark"),
         pc[w] = "map" => cur[w].slot \in mapped' /\ tenant'[cur[w].slot] = 0,
         pc[w] \notin {"idle", "map"} => Kept(cur[w].id)
  PROVE  Place(w)'
<1>1. Place(w)
  BY DEF IInv
<1>2. CASE pc[w] \in {"idle", "map"}
  BY <1>1, <1>2 DEF Place
<1>3. CASE pc[w] \notin {"idle", "map"}
  BY <1>1, <1>3 DEF Place, Kept
<1> QED
  BY <1>2, <1>3

(* A user whose call has ended has its place.                              *)
LEMMA PlaceIdle ==
  ASSUME NEW u \in Users, pc'[u] = "idle", cur'[u] = Nothing
  PROVE  Place(u)'
BY DEF Place

(* A join that fails.                                                      *)
LEMMA FailTypes ==
  ASSUME IInv, NEW u \in Users, pc[u] # "idle", pc[u] # "map", JoinFails(u)
  PROVE /\ pc' \in [Users -> UserPC]
        /\ cur' \in [Users -> [slot : Slots \cup {NoSlot}, id : Tasks \cup {0}]]
        /\ handles' \subseteq Tasks
<1>1. cur[u].id \in Tasks
  BY SlotOfUser
<1> QED
  BY <1>1 DEF IInv, TypeOK, JoinFails, Return, Nothing, UserPC

(* A join that fails gives the thread back to whoever calls next.          *)
LEMMA FailApart ==
  ASSUME IInv, NEW u \in Users, Usable(cur[u].id), pc[u] # "idle", pc[u] # "map",
         JoinFails(u), UNCHANGED <<mapped, tenant, task, joined>>,
         \A a \in Slots : desc'[a].detached = desc[a].detached
  PROVE  Apart'
<1>1. /\ cur' = [cur EXCEPT ![u] = Nothing] /\ pc' = [pc EXCEPT ![u] = "idle"]
      /\ handles' = handles \cup {cur[u].id}
  BY DEF JoinFails, Return
<1>2. /\ cur'[u].id = 0 /\ pc'[u] = "idle"
      /\ \A v \in Users \ {u} : cur'[v] = cur[v] /\ pc'[v] = pc[v]
  BY <1>1 DEF IInv, TypeOK, Nothing
<1>3. 0 \notin Tasks /\ cur[u].id \in Tasks
  BY SlotOfUser, ThreadAssumption DEF Tasks
<1>4. \A v, w \in Users : (v # w /\ cur'[v].id # 0) => cur'[v].id # cur'[w].id
  BY <1>2 DEF IInv, Apart
<1>5. \A v, w \in Users : (v # w /\ pc'[v] = "map" /\ pc'[w] = "map") => cur'[v].slot # cur'[w].slot
  BY <1>2 DEF IInv, Apart
<1>6. \A v \in Users : cur'[v].id \notin handles'
  <2>1. \A v \in Users : cur'[v].id \notin handles
    BY <1>2, <1>3 DEF IInv, TypeOK, Apart
  <2>2. \A v \in Users : cur'[v].id # cur[u].id
    BY <1>2, <1>3 DEF IInv, Apart
  <2> QED
    BY <1>1, <2>1, <2>2
<1>7. \A i \in handles' : Usable(i)'
  <2>1. \A i : Usable(i) => Usable(i)'
    BY DEF IInv, TypeOK, Usable, Exists, IsMine
  <2> QED
    BY <1>1, <2>1 DEF IInv, Apart
<1> QED
  BY <1>4, <1>5, <1>6, <1>7 DEF Apart

-----------------------------------------------------------------------------
(* Each action keeps the invariant.                                        *)

LEMMA FinishTypes ==
  ASSUME IInv, NEW i \in Tasks, Finish(i)
  PROVE TypeOK'
<1>1. task' \in [Tasks -> [slot : Slots \cup {NoSlot}, detached : BOOLEAN, pc : TaskPC]]
  BY DEF IInv, TypeOK, TaskPC, Finish, GotoT
<1>2. desc' \in [Slots -> Descriptor]
  BY StoreResult, SlotOfThread DEF Finish, GotoT, Exists
<1> QED
  BY <1>1, <1>2 DEF IInv, TypeOK, Finish

(* The result is stored at the thread's own address.                       *)
LEMMA FinishKeeps ==
  ASSUME IInv, NEW i \in Tasks, Finish(i)
  PROVE IInv'
<1>1. TypeOK'
  BY FinishTypes
<1>2. ~(policy.detach /\ policy.reuse)'
  BY DEF IInv, Finish
<1>3. ASSUME NEW j \in Tasks PROVE Life(j)'
  BY DEF IInv, TypeOK, Life, Exists, Ended, Live, OnStack, IsMine, Finish, GotoT
<1>4. ASSUME NEW j \in Tasks PROVE JoinedRight(j)'
  BY DEF IInv, JoinedRight, Ended, IsMine, Finish, GotoT
<1>5. ASSUME NEW b \in Slots PROVE Stack(b)'
  BY DEF IInv, Stack, Exists, Live, OnStack, Finish, GotoT
<1>6. ASSUME NEW w \in Users PROVE Place(w)'
  <2>1. ASSUME NEW j \in Tasks PROVE Kept(j)
    BY DEF IInv, TypeOK, Kept, Usable, Exists, Ended, IsMine, GotoT, Finish
  <2> QED
    BY <2>1, SlotOfUser, PlaceKept DEF IInv, Place, Finish
<1>7. Apart'
  BY DEF IInv, Apart, Usable, Exists, IsMine, Finish, GotoT
<1> QED
  BY <1>1, <1>2, <1>3, <1>4, <1>5, <1>6, <1>7 DEF IInv

LEMMA ExitTestTypes ==
  ASSUME IInv, NEW i \in Tasks, ExitTest(i)
  PROVE TypeOK'
BY DEF IInv, TypeOK, TaskPC, ExitTest, GotoT

(* A thread that may be joined is not detached.                            *)
LEMMA ExitTestKeeps ==
  ASSUME IInv, NEW i \in Tasks, ExitTest(i)
  PROVE IInv'
<1>1. TypeOK'
  BY ExitTestTypes
<1>2. ~(policy.detach /\ policy.reuse)'
  BY DEF IInv, ExitTest
<1>3. ASSUME NEW j \in Tasks PROVE Life(j)'
  BY DEF IInv, TypeOK, Life, Stack, Exists, Ended, Live, OnStack, IsMine, ExitTest, GotoT
<1>4. ASSUME NEW j \in Tasks PROVE JoinedRight(j)'
  BY DEF IInv, JoinedRight, Ended, IsMine, ExitTest, GotoT
<1>5. ASSUME NEW b \in Slots PROVE Stack(b)'
  BY DEF IInv, Stack, Exists, Live, OnStack, ExitTest, GotoT
<1>6. ASSUME NEW w \in Users PROVE Place(w)'
  <2>1. ASSUME NEW j \in Tasks PROVE Kept(j)
    BY DEF IInv, TypeOK, Kept, Usable, Exists, Ended, IsMine, GotoT, ExitTest
  <2> QED
    BY <2>1, SlotOfUser, PlaceKept DEF IInv, Place, ExitTest
<1>7. Apart'
  BY DEF IInv, Apart, Usable, Exists, IsMine, ExitTest, GotoT
<1> QED
  BY <1>1, <1>2, <1>3, <1>4, <1>5, <1>6, <1>7 DEF IInv

LEMMA ExitUnmapTypes ==
  ASSUME IInv, NEW i \in Tasks, ExitUnmap(i)
  PROVE TypeOK'
BY DEF IInv, TypeOK, TaskPC, ExitUnmap, GotoT

(* A detached thread unmaps an address nobody else works on.               *)
LEMMA ExitUnmapKeeps ==
  ASSUME IInv, NEW i \in Tasks, ExitUnmap(i)
  PROVE IInv'
<1>1. TypeOK'
  BY ExitUnmapTypes
<1>2. ~(policy.detach /\ policy.reuse)'
  BY DEF IInv, ExitUnmap
<1>3. ASSUME NEW j \in Tasks PROVE Life(j)'
  BY DEF IInv, TypeOK, Life, Exists, Ended, Live, OnStack, IsMine, ExitUnmap, GotoT
<1>4. ASSUME NEW j \in Tasks PROVE JoinedRight(j)'
  BY DEF IInv, JoinedRight, Ended, IsMine, ExitUnmap, GotoT
<1>5. ASSUME NEW b \in Slots PROVE Stack(b)'
  BY DEF IInv, Stack, Exists, Live, OnStack, ExitUnmap, GotoT
<1>6. ASSUME NEW w \in Users PROVE Place(w)'
  <2>1. ASSUME NEW j \in Tasks PROVE Kept(j)
    BY ThreadAssumption
    DEF IInv, TypeOK, Tasks, Life, Kept, Usable, Exists, Ended, Live, OnStack, IsMine, ExitUnmap,
        GotoT
  <2>2. tenant[task[i].slot] # 0
    BY ThreadAssumption DEF IInv, Life, Live, OnStack, Tasks, ExitUnmap, GotoT
  <2> QED
    BY <2>1, <2>2, SlotOfUser, PlaceKept DEF IInv, Place, ExitUnmap
<1>7. Apart'
  BY DEF IInv, Life, Apart, Usable, Exists, Live, OnStack, IsMine, ExitUnmap, GotoT
<1> QED
  BY <1>1, <1>2, <1>3, <1>4, <1>5, <1>6, <1>7 DEF IInv

LEMMA KernelClearTidTypes ==
  ASSUME IInv, NEW i \in Tasks, KernelClearTid(i)
  PROVE TypeOK'
<1>1. task' \in [Tasks -> [slot : Slots \cup {NoSlot}, detached : BOOLEAN, pc : TaskPC]]
  BY DEF IInv, TypeOK, TaskPC, KernelClearTid, GotoT
<1>2. desc' \in [Slots -> Descriptor]
  <2>1. desc \in [Slots -> Descriptor]
    BY DEF IInv, TypeOK
  <2>2. [desc EXCEPT ![task[i].slot].tid = 0] \in [Slots -> Descriptor]
    BY StoreTid, SlotOfThread DEF KernelClearTid, GotoT, Exists
  <2> QED
    BY <2>1, <2>2 DEF KernelClearTid
<1> QED
  BY <1>1, <1>2 DEF IInv, TypeOK, KernelClearTid

(* The address is still the thread's own, or unmapped for good.            *)
LEMMA KernelClearTidKeeps ==
  ASSUME IInv, NEW i \in Tasks, KernelClearTid(i)
  PROVE IInv'
<1>1. TypeOK'
  BY KernelClearTidTypes
<1>2. ~(policy.detach /\ policy.reuse)'
  BY DEF IInv, KernelClearTid
<1>3. ASSUME NEW j \in Tasks PROVE Life(j)'
  BY DEF IInv, Life, Exists, Ended, Live, OnStack, IsMine, KernelClearTid, GotoT
<1>4. ASSUME NEW j \in Tasks PROVE JoinedRight(j)'
  BY DEF IInv, JoinedRight, Ended, IsMine, KernelClearTid, GotoT
<1>5. ASSUME NEW b \in Slots PROVE Stack(b)'
  BY DEF IInv, TypeOK, Life, Stack, Exists, Live, OnStack, KernelClearTid, GotoT
<1>6. ASSUME NEW w \in Users PROVE Place(w)'
  <2>1. ASSUME NEW j \in Tasks PROVE Kept(j)
    BY DEF IInv, TypeOK, Kept, Usable, Exists, Ended, IsMine, GotoT, KernelClearTid
  <2> QED
    BY <2>1, SlotOfUser, PlaceKept DEF IInv, Place, KernelClearTid
<1>7. Apart'
  BY DEF IInv, Apart, Usable, Exists, IsMine, KernelClearTid, GotoT
<1> QED
  BY <1>1, <1>2, <1>3, <1>4, <1>5, <1>6, <1>7 DEF IInv

LEMMA KernelWakeTypes ==
  ASSUME IInv, NEW i \in Tasks, KernelWake(i)
  PROVE TypeOK'
<1>1. task' \in [Tasks -> [slot : Slots \cup {NoSlot}, detached : BOOLEAN, pc : TaskPC]]
  BY DEF IInv, TypeOK, TaskPC, KernelWake, GotoT
<1>2. pc' \in [Users -> UserPC]
  <2>1. pc \in [Users -> UserPC]
    BY DEF IInv, TypeOK
  <2>2. ASSUME NEW u \in Users, GotoU(u, "asleep", "join") PROVE pc' \in [Users -> UserPC]
    BY <2>1, <2>2 DEF GotoU, UserPC
  <2> QED
    BY <2>1, <2>2 DEF KernelWake, Sleepers
<1> QED
  BY <1>1, <1>2 DEF IInv, TypeOK, KernelWake

(* One waiter looks again.                                                 *)
LEMMA KernelWakeKeeps ==
  ASSUME IInv, NEW i \in Tasks, KernelWake(i)
  PROVE IInv'
<1>1. TypeOK'
  BY KernelWakeTypes
<1>2. ~(policy.detach /\ policy.reuse)'
  BY DEF IInv, KernelWake
<1>3. ASSUME NEW j \in Tasks PROVE Life(j)'
  BY DEF IInv, Life, Exists, Ended, Live, OnStack, IsMine, KernelWake, GotoT
<1>4. ASSUME NEW j \in Tasks PROVE JoinedRight(j)'
  BY DEF IInv, TypeOK, JoinedRight, Ended, IsMine, KernelWake, GotoT, GotoU
<1>5. ASSUME NEW b \in Slots PROVE Stack(b)'
  BY DEF IInv, Stack, Exists, Live, OnStack, KernelWake, GotoT
<1>6. ASSUME NEW w \in Users PROVE Place(w)'
  <2>1. ASSUME NEW j \in Tasks PROVE Kept(j)
    BY DEF IInv, TypeOK, Kept, Usable, Exists, Ended, IsMine, KernelWake, GotoT
  <2>2. pc'[w] = pc[w] \/ (pc[w] = "asleep" /\ pc'[w] = "join")
    BY DEF IInv, TypeOK, KernelWake, GotoU
  <2> QED
    BY <2>1, <2>2, SlotOfUser, PlaceKept DEF IInv, Place, KernelWake
<1>7. Apart'
  BY ThreadAssumption DEF IInv, TypeOK, Apart, Usable, Exists, IsMine, KernelWake, GotoT, GotoU
<1> QED
  BY <1>1, <1>2, <1>3, <1>4, <1>5, <1>6, <1>7 DEF IInv

LEMMA CreateMapTypes ==
  ASSUME IInv, NEW u \in Users, CreateMap(u)
  PROVE TypeOK'
BY DEF IInv, TypeOK, Descriptor, UserPC, CreateMap, GotoU

(* No thread in use has the new address.                                   *)
LEMMA CreateMapKeeps ==
  ASSUME IInv, NEW u \in Users, CreateMap(u)
  PROVE IInv'
<1>1. TypeOK'
  BY CreateMapTypes
<1>2. ~(policy.detach /\ policy.reuse)'
  BY DEF IInv, CreateMap
<1>3. ASSUME NEW j \in Tasks PROVE Life(j)'
  BY DEF IInv, TypeOK, Tasks, Life, Exists, Ended, Live, OnStack, IsMine, CreateMap
<1>4. ASSUME NEW j \in Tasks PROVE JoinedRight(j)'
  BY DEF IInv, TypeOK, Tasks, JoinedRight, Ended, IsMine, CreateMap, GotoU
<1>5. ASSUME NEW b \in Slots PROVE Stack(b)'
  BY DEF IInv, TypeOK, Stack, Exists, Live, OnStack, CreateMap
<1>6. ASSUME NEW w \in Users PROVE Place(w)'
  <2> PICK a \in Slots \ (IF policy.reuse THEN mapped ELSE used), d \in BOOLEAN :
         CreateMap(u)!(a, d)
    BY DEF CreateMap
  <2>0. a \notin mapped
    BY DEF IInv, TypeOK
  <2>1. ASSUME NEW j \in Tasks PROVE Kept(j)
    BY <2>0 DEF IInv, TypeOK, Kept, Usable, Exists, Ended, IsMine
  <2>2. ASSUME w # u PROVE pc'[w] = pc[w] /\ cur'[w] = cur[w]
    BY <2>2 DEF IInv, TypeOK, GotoU
  <2>3. CASE w # u
    <3>1. pc[w] = "map" => cur[w].slot \in mapped' /\ tenant'[cur[w].slot] = 0
      BY <2>0 DEF IInv, TypeOK, Place
    <3> QED
      BY <2>1, <2>2, <2>3, <3>1, SlotOfUser, PlaceKept
  <2>4. CASE w = u
    BY <2>4 DEF IInv, TypeOK, Place, GotoU
  <2> QED
    BY <2>3, <2>4
<1>7. Apart'
  BY DEF IInv, TypeOK, Nothing, Place, Apart, Usable, Exists, IsMine, CreateMap, GotoU
<1> QED
  BY <1>1, <1>2, <1>3, <1>4, <1>5, <1>6, <1>7 DEF IInv

LEMMA CreateCloneTypes ==
  ASSUME IInv, NEW u \in Users, CreateClone(u)
  PROVE TypeOK'
<1> PICK i \in Tasks : CreateClone(u)!(i)
  BY DEF CreateClone
<1>1. pc[u] = "map" /\ cur[u].slot \in Slots
  BY SlotOfUser DEF GotoU
<1>2. task' \in [Tasks -> [slot : Slots \cup {NoSlot}, detached : BOOLEAN, pc : TaskPC]]
  <2>1. Desc(u).detached \in BOOLEAN
    BY <1>1 DEF IInv, TypeOK, Desc, Descriptor
  <2> QED
    BY <1>1, <2>1 DEF IInv, TypeOK, TaskPC
<1>3. desc' \in [Slots -> Descriptor]
  BY <1>1, StoreTid
<1>4. tenant' \in [Slots -> Tasks \cup {0}]
  BY DEF IInv, TypeOK
<1>5. pc' \in [Users -> UserPC]
  BY DEF IInv, TypeOK, UserPC, GotoU
<1>6. cur' \in [Users -> [slot : Slots \cup {NoSlot}, id : Tasks \cup {0}]]
  BY DEF IInv, TypeOK
<1> QED
  BY <1>2, <1>3, <1>4, <1>5, <1>6 DEF IInv, TypeOK

(* The kernel stores the id at an address that had no thread.              *)
LEMMA CreateCloneKeeps ==
  ASSUME IInv, NEW u \in Users, CreateClone(u)
  PROVE IInv'
<1>1. TypeOK'
  BY CreateCloneTypes
<1>2. ~(policy.detach /\ policy.reuse)'
  BY DEF IInv, CreateClone
<1>3. ASSUME NEW j \in Tasks PROVE Life(j)'
  BY DEF IInv, TypeOK, Tasks, Life, Place, Exists, Ended, Live, OnStack, IsMine,
         CreateClone, GotoU, Desc
<1>4. ASSUME NEW j \in Tasks PROVE JoinedRight(j)'
  BY DEF IInv, NoTask, JoinedRight, Ended, IsMine, CreateClone, GotoU
<1>5. ASSUME NEW b \in Slots PROVE Stack(b)'
  BY DEF IInv, TypeOK, NoTask, Stack, Exists, Live, OnStack, CreateClone
<1>6. ASSUME NEW w \in Users PROVE Place(w)'
  <2> PICK i \in Tasks : CreateClone(u)!(i)
    BY DEF CreateClone
  <2> DEFINE a == cur[u].slot
  <2>1. pc[u] = "map" /\ a \in mapped /\ a \in Slots /\ tenant[a] = 0 /\ i # 0
    BY ThreadAssumption DEF IInv, TypeOK, Place, GotoU, Tasks
  <2>2. /\ desc' = [desc EXCEPT ![a].tid = i] /\ tenant' = [tenant EXCEPT ![a] = i]
        /\ UNCHANGED <<policy, mapped, joined>>
    OBVIOUS
  <2>3. task' = [task EXCEPT ![i] = [slot |-> a, detached |-> desc[a].detached, pc |-> "run"]]
    BY DEF Desc
  <2> HIDE DEF a
  <2>4. CASE w = u
    <3>1. pc'[w] = "created" /\ cur'[w] = [slot |-> a, id |-> i]
      BY <2>4 DEF IInv, TypeOK, GotoU, a
    <3>2. task'[i] = [slot |-> a, detached |-> desc[a].detached, pc |-> "run"]
      BY <2>3 DEF IInv, TypeOK
    <3>3. ~desc[a].detached => Usable(i)'
      BY <2>1, <2>2, <3>2 DEF IInv, TypeOK, NoTask, Usable, Exists, IsMine, Ended, JoinedRight
    <3> QED
      BY <2>1, <3>1, <3>2, <3>3 DEF Place, Exists
  <2>5. CASE w # u
    <3>1. pc'[w] = pc[w] /\ cur'[w] = cur[w]
      BY <2>5 DEF IInv, TypeOK, GotoU
    <3>2. cur[w].id # i
      <4>1. pc[w] \in {"idle", "map"} => cur[w].id = 0
        BY DEF IInv, Place, Nothing
      <4>2. pc[w] \notin {"idle", "map"} => task[cur[w].id] # task[i]
        BY SlotOfUser DEF Exists, NoTask
      <4> QED
        BY <2>1, <4>1, <4>2
    <3>3. task'[cur[w].id] = task[cur[w].id]
      BY <2>3, <3>2 DEF IInv, TypeOK
    <3>4. Usable(cur[w].id) => Usable(cur[w].id)'
      <4>1. Usable(cur[w].id) => task[cur[w].id].slot \in Slots \ {a}
        BY <2>1, ThreadAssumption DEF IInv, TypeOK, Usable, IsMine, Tasks
      <4> QED
        BY <2>1, <2>2, <3>1, <3>3, <4>1 DEF IInv, TypeOK, Usable, Exists, IsMine
    <3>5. pc[w] = "map" => cur[w].slot # a
      BY <2>1, <2>5 DEF IInv, Apart, a
    <3>6. Place(w)
      BY DEF IInv
    <3> QED
      BY <2>1, <2>2, <3>1, <3>3, <3>4, <3>5, <3>6 DEF IInv, TypeOK, Place, Exists, Ended, IsMine
  <2> QED
    BY <2>4, <2>5
<1>7. Apart'
  BY ThreadAssumption
  DEF IInv, TypeOK, Nothing, NoTask, UserPC, Place, Apart, Usable, Exists, IsMine,
      CreateClone, GotoU
<1> QED
  BY <1>1, <1>2, <1>3, <1>4, <1>5, <1>6, <1>7 DEF IInv

LEMMA CreateFailsTypes ==
  ASSUME IInv, NEW u \in Users, CreateFails(u)
  PROVE TypeOK'
BY DEF IInv, TypeOK, Nothing, UserPC, CreateFails, Return

(* The address had no thread.                                              *)
LEMMA CreateFailsKeeps ==
  ASSUME IInv, NEW u \in Users, CreateFails(u)
  PROVE IInv'
<1>1. TypeOK'
  BY CreateFailsTypes
<1>2. ~(policy.detach /\ policy.reuse)'
  BY DEF IInv, CreateFails
<1>3. ASSUME NEW j \in Tasks PROVE Life(j)'
  BY DEF IInv, Tasks, Life, Place, Exists, Ended, Live, OnStack, IsMine, CreateFails
<1>4. ASSUME NEW j \in Tasks PROVE JoinedRight(j)'
  BY DEF IInv, JoinedRight, Ended, IsMine, CreateFails, Return
<1>5. ASSUME NEW b \in Slots PROVE Stack(b)'
  BY DEF IInv, Stack, Exists, Live, OnStack, CreateFails
<1>6. ASSUME NEW w \in Users PROVE Place(w)'
  <2>1. ASSUME NEW j \in Tasks PROVE Kept(j)
    BY ThreadAssumption DEF IInv, TypeOK, Kept, Usable, Exists, Ended, IsMine, Tasks, Place, CreateFails
  <2>2. ASSUME w # u PROVE pc'[w] = pc[w] /\ cur'[w] = cur[w]
    BY <2>2 DEF IInv, TypeOK, CreateFails, Return
  <2>3. CASE w # u
    BY <2>1, <2>2, <2>3, SlotOfUser, PlaceKept DEF IInv, Place, CreateFails, Apart
  <2>4. CASE w = u
    BY <2>4, PlaceIdle DEF IInv, TypeOK, CreateFails, Return
  <2> QED
    BY <2>3, <2>4
<1>7. Apart'
  BY DEF IInv, TypeOK, Nothing, Place, Apart, Usable, Exists, IsMine, CreateFails, Return
<1> QED
  BY <1>1, <1>2, <1>3, <1>4, <1>5, <1>6, <1>7 DEF IInv

LEMMA CreateReturnsTypes ==
  ASSUME IInv, NEW u \in Users, CreateReturns(u)
  PROVE TypeOK'
<1>1. handles' \subseteq Tasks
  BY SlotOfUser DEF IInv, TypeOK, CreateReturns
<1> QED
  BY <1>1 DEF IInv, TypeOK, CreateReturns, Return, Nothing, UserPC

(* A thread that is not detached is left to whoever joins it.              *)
LEMMA CreateReturnsKeeps ==
  ASSUME IInv, NEW u \in Users, CreateReturns(u)
  PROVE IInv'
<1>1. TypeOK'
  BY CreateReturnsTypes
<1>2. ~(policy.detach /\ policy.reuse)'
  BY DEF IInv, CreateReturns
<1>3. ASSUME NEW j \in Tasks PROVE Life(j)'
  BY DEF IInv, Life, Exists, Ended, Live, OnStack, IsMine, CreateReturns
<1>4. ASSUME NEW j \in Tasks PROVE JoinedRight(j)'
  BY DEF IInv, JoinedRight, Ended, IsMine, CreateReturns, Return
<1>5. ASSUME NEW b \in Slots PROVE Stack(b)'
  BY DEF IInv, Stack, Exists, Live, OnStack, CreateReturns
<1>6. ASSUME NEW w \in Users PROVE Place(w)'
  BY DEF IInv, TypeOK, Place, Usable, Exists, Ended, IsMine, CreateReturns, Return
<1>7. Apart'
  BY DEF IInv, TypeOK, Nothing, Tasks, Place, Apart, Usable, Exists, IsMine, CreateReturns,
         Return
<1> QED
  BY <1>1, <1>2, <1>3, <1>4, <1>5, <1>6, <1>7 DEF IInv

LEMMA JoinTypes ==
  ASSUME IInv, NEW u \in Users, Join(u)
  PROVE TypeOK'
BY DEF IInv, TypeOK, UserPC, Join, GotoU

(* The handle is taken.                                                    *)
LEMMA JoinKeeps ==
  ASSUME IInv, NEW u \in Users, Join(u)
  PROVE IInv'
<1>1. TypeOK'
  BY JoinTypes
<1>2. ~(policy.detach /\ policy.reuse)'
  BY DEF IInv, Join
<1>3. ASSUME NEW j \in Tasks PROVE Life(j)'
  BY DEF IInv, Life, Exists, Ended, Live, OnStack, IsMine, Join
<1>4. ASSUME NEW j \in Tasks PROVE JoinedRight(j)'
  BY DEF IInv, JoinedRight, Ended, IsMine, Join, GotoU
<1>5. ASSUME NEW b \in Slots PROVE Stack(b)'
  BY DEF IInv, Stack, Exists, Live, OnStack, Join
<1>6. ASSUME NEW w \in Users PROVE Place(w)'
  <2>1. ASSUME NEW j \in Tasks PROVE Kept(j)
    BY DEF IInv, TypeOK, Kept, Usable, Exists, Ended, IsMine, Join
  <2>2. ASSUME w # u PROVE pc'[w] = pc[w] /\ cur'[w] = cur[w]
    BY <2>2 DEF IInv, TypeOK, Join, GotoU
  <2>3. CASE w # u
    BY <2>1, <2>2, <2>3, SlotOfUser, PlaceKept DEF IInv, Place, Join
  <2>4. CASE w = u
    <3> PICK i \in handles : Join(u)!(i)
      BY DEF Join
    <3>1. Usable(i) /\ i \in Tasks /\ Kept(i) /\ i # 0
      BY <2>1, ThreadAssumption DEF IInv, TypeOK, Apart, Tasks
    <3>2. pc'[w] = "join" /\ cur'[w] = [slot |-> task[i].slot, id |-> i]
      BY <2>4 DEF IInv, TypeOK, GotoU
    <3> QED
      BY <3>1, <3>2 DEF Place, Kept
  <2> QED
    BY <2>3, <2>4
<1>7. Apart'
  BY DEF IInv, Apart, Usable, Exists, IsMine, Join, GotoU
<1> QED
  BY <1>1, <1>2, <1>3, <1>4, <1>5, <1>6, <1>7 DEF IInv

LEMMA JoinReadTypes ==
  ASSUME IInv, NEW u \in Users, JoinRead(u)
  PROVE TypeOK'
<1>1. Desc(u).tid \in Tasks \cup {0, -1}
  BY SlotOfUser DEF JoinRead, GotoU, Desc, Descriptor
<1> QED
  BY <1>1 DEF IInv, TypeOK, JoinRead, GotoU, UserPC

(* An id that is not positive means that the thread has ended.             *)
LEMMA JoinReadKeeps ==
  ASSUME IInv, NEW u \in Users, JoinRead(u)
  PROVE IInv'
<1>1. TypeOK'
  BY JoinReadTypes
<1>2. ~(policy.detach /\ policy.reuse)'
  BY DEF IInv, JoinRead
<1>3. ASSUME NEW j \in Tasks PROVE Life(j)'
  BY DEF IInv, Life, Exists, Ended, Live, OnStack, IsMine, JoinRead
<1>4. ASSUME NEW j \in Tasks PROVE JoinedRight(j)'
  BY DEF IInv, JoinedRight, Ended, IsMine, JoinRead, GotoU
<1>5. ASSUME NEW b \in Slots PROVE Stack(b)'
  BY DEF IInv, Stack, Exists, Live, OnStack, JoinRead
<1>6. ASSUME NEW w \in Users PROVE Place(w)'
  <2>1. ASSUME NEW j \in Tasks PROVE Kept(j)
    BY DEF IInv, TypeOK, Kept, Usable, Exists, Ended, IsMine, JoinRead
  <2>2. ASSUME w # u PROVE pc'[w] = pc[w] /\ cur'[w] = cur[w]
    BY <2>2 DEF IInv, TypeOK, JoinRead, GotoU
  <2>3. CASE w # u
    BY <2>1, <2>2, <2>3, SlotOfUser, PlaceKept DEF IInv, Place, JoinRead
  <2>4. CASE w = u
    <3>1. cur[w].id \in Tasks /\ Kept(cur[w].id) /\ Usable(cur[w].id) /\ Place(w)
      BY <2>1, <2>4, SlotOfUser DEF IInv, Place, JoinRead, GotoU
    <3>2. /\ pc'[w] = IF Desc(w).tid > 0 THEN "wait" ELSE "take"
          /\ pc[w] = "join" /\ cur'[w] = cur[w] /\ UNCHANGED policy
      BY <2>4 DEF IInv, TypeOK, JoinRead, GotoU
    <3>3. CASE pc'[w] = "wait"
      BY <3>1, <3>2, <3>3, PlaceKept
    <3>4. CASE pc'[w] = "take"
      <4>1. Desc(w).tid <= 0
        BY <3>2, <3>4, SlotOfUser DEF Desc, Descriptor, Tasks
      <4>2. ~Live(cur[w].id)
        <5> DEFINE a == cur[w].slot
        <5>1. a \in Slots /\ a \in mapped /\ tenant[a] = cur[w].id /\ cur[w].id # 0
          BY <3>1, <3>2, SlotOfUser DEF Usable, IsMine, Place
        <5>2. Live(tenant[a]) => desc[a].tid = tenant[a]
          BY <5>1 DEF IInv, Stack
        <5>3. ~(cur[w].id <= 0)
          BY <3>1, ThreadAssumption DEF Tasks
        <5> QED
          BY <4>1, <5>1, <5>2, <5>3 DEF Desc
      <4>3. Ended(cur[w].id)
        BY <3>1, <4>2 DEF IInv, TypeOK, TaskPC, Usable, Exists, Ended, Live, OnStack
      <4> QED
        BY <3>1, <3>2, <3>4, <4>3 DEF Place, Kept
    <3> QED
      BY <3>2, <3>3, <3>4
  <2> QED
    BY <2>3, <2>4
<1>7. Apart'
  BY DEF IInv, Apart, Usable, Exists, IsMine, JoinRead, GotoU
<1> QED
  BY <1>1, <1>2, <1>3, <1>4, <1>5, <1>6, <1>7 DEF IInv

LEMMA JoinWaitTypes ==
  ASSUME IInv, NEW u \in Users, JoinWait(u)
  PROVE TypeOK'
<1>1. CASE Desc(u).tid = tmp[u]
  BY <1>1 DEF IInv, TypeOK, JoinWait, GotoU, UserPC
<1>2. CASE Desc(u).tid # tmp[u]
  BY <1>2, FailTypes DEF IInv, TypeOK, JoinWait
<1> QED
  BY <1>1, <1>2

(* The user sleeps, or gives the handle back.                              *)
LEMMA JoinWaitKeeps ==
  ASSUME IInv, NEW u \in Users, JoinWait(u)
  PROVE IInv'
<1>1. TypeOK'
  BY JoinWaitTypes
<1>2. ~(policy.detach /\ policy.reuse)'
  BY DEF IInv, JoinWait
<1>3. ASSUME NEW j \in Tasks PROVE Life(j)'
  BY DEF IInv, Life, Exists, Ended, Live, OnStack, IsMine, JoinWait
<1>4. ASSUME NEW j \in Tasks PROVE JoinedRight(j)'
  BY DEF IInv, TypeOK, JoinedRight, Ended, IsMine, JoinWait, GotoU, JoinFails, Return
<1>5. ASSUME NEW b \in Slots PROVE Stack(b)'
  BY DEF IInv, Stack, Exists, Live, OnStack, JoinWait
<1>6. ASSUME NEW w \in Users PROVE Place(w)'
  <2>1. ASSUME NEW j \in Tasks PROVE Kept(j)
    BY DEF IInv, TypeOK, Kept, Usable, Exists, Ended, IsMine, JoinWait
  <2>2. ASSUME w # u PROVE pc'[w] = pc[w] /\ cur'[w] = cur[w]
    BY <2>2 DEF IInv, TypeOK, JoinWait, GotoU, JoinFails, Return
  <2>3. CASE w # u
    BY <2>1, <2>2, <2>3, SlotOfUser, PlaceKept DEF IInv, Place, JoinWait
  <2>4. CASE w = u
    <3>1. CASE Desc(u).tid = tmp[u]
      <4>1. pc[w] = "wait" /\ pc'[w] = "asleep" /\ cur'[w] = cur[w] /\ UNCHANGED policy
        BY <2>4, <3>1 DEF IInv, TypeOK, JoinWait, GotoU
      <4> QED
        BY <2>1, <4>1, SlotOfUser, PlaceKept
    <3>2. CASE Desc(u).tid # tmp[u]
      BY <2>4, <3>2, PlaceIdle DEF IInv, TypeOK, JoinWait, JoinFails, Return
    <3> QED
      BY <3>1, <3>2
  <2> QED
    BY <2>3, <2>4
<1>7. Apart'
  <2>1. CASE Desc(u).tid = tmp[u]
    BY <2>1 DEF IInv, TypeOK, Apart, Usable, Exists, IsMine, JoinWait, GotoU
  <2>2. CASE Desc(u).tid # tmp[u]
    BY <2>2, FailApart DEF IInv, Place, JoinWait
  <2> QED
    BY <2>1, <2>2
<1> QED
  BY <1>1, <1>2, <1>3, <1>4, <1>5, <1>6, <1>7 DEF IInv

LEMMA JoinInterruptedTypes ==
  ASSUME IInv, NEW u \in Users, JoinInterrupted(u)
  PROVE TypeOK'
BY FailTypes DEF IInv, TypeOK, JoinInterrupted

(* The user gives the handle back.                                         *)
LEMMA JoinInterruptedKeeps ==
  ASSUME IInv, NEW u \in Users, JoinInterrupted(u)
  PROVE IInv'
<1>1. TypeOK'
  BY JoinInterruptedTypes
<1>2. ~(policy.detach /\ policy.reuse)'
  BY DEF IInv, JoinInterrupted
<1>3. ASSUME NEW j \in Tasks PROVE Life(j)'
  BY DEF IInv, Life, Exists, Ended, Live, OnStack, IsMine, JoinInterrupted
<1>4. ASSUME NEW j \in Tasks PROVE JoinedRight(j)'
  BY DEF IInv, JoinedRight, Ended, IsMine, JoinInterrupted, JoinFails, Return
<1>5. ASSUME NEW b \in Slots PROVE Stack(b)'
  BY DEF IInv, Stack, Exists, Live, OnStack, JoinInterrupted
<1>6. ASSUME NEW w \in Users PROVE Place(w)'
  <2>1. ASSUME NEW j \in Tasks PROVE Kept(j)
    BY DEF IInv, TypeOK, Kept, Usable, Exists, Ended, IsMine, JoinInterrupted
  <2>2. ASSUME w # u PROVE pc'[w] = pc[w] /\ cur'[w] = cur[w]
    BY <2>2 DEF IInv, TypeOK, JoinInterrupted, JoinFails, Return
  <2>3. CASE w # u
    BY <2>1, <2>2, <2>3, SlotOfUser, PlaceKept DEF IInv, Place, JoinInterrupted
  <2>4. CASE w = u
    BY <2>4, PlaceIdle DEF IInv, TypeOK, JoinInterrupted, JoinFails, Return
  <2> QED
    BY <2>3, <2>4
<1>7. Apart'
  BY DEF IInv, TypeOK, Nothing, Tasks, Place, Apart, Usable, Exists, IsMine,
         JoinInterrupted, JoinFails, Return
<1> QED
  BY <1>1, <1>2, <1>3, <1>4, <1>5, <1>6, <1>7 DEF IInv

LEMMA JoinTakeTypes ==
  ASSUME IInv, NEW u \in Users, JoinTake(u)
  PROVE TypeOK'
<1>1. desc' \in [Slots -> Descriptor]
  BY SlotOfUser, StoreTid DEF JoinTake
<1>2. CASE Desc(u).tid = 0
  <2>1. Desc(u).result \in Tasks \cup {0}
    BY SlotOfUser DEF JoinTake, Desc, Descriptor
  <2> QED
    BY <1>1, <1>2, <2>1 DEF IInv, TypeOK, JoinTake, GotoU, UserPC
<1>3. CASE Desc(u).tid # 0
  BY <1>1, <1>3, FailTypes DEF IInv, TypeOK, JoinTake
<1> QED
  BY <1>2, <1>3

(* The result is the thread's, as the descriptor is.                       *)
LEMMA JoinTakeKeeps ==
  ASSUME IInv, NEW u \in Users, JoinTake(u)
  PROVE IInv'
<1>1. TypeOK'
  BY JoinTakeTypes
<1>2. ~(policy.detach /\ policy.reuse)'
  BY DEF IInv, JoinTake
<1>3. ASSUME NEW j \in Tasks PROVE Life(j)'
  BY DEF IInv, Life, Exists, Ended, Live, OnStack, IsMine, JoinTake
<1>4. ASSUME NEW j \in Tasks PROVE JoinedRight(j)'
  <2>1. CASE Desc(u).tid = 0
    BY <2>1
    DEF IInv, TypeOK, Life, JoinedRight, Place, Usable, Ended, IsMine, JoinTake, GotoU, Desc
  <2>2. CASE Desc(u).tid # 0
    BY <2>2 DEF IInv, TypeOK, JoinedRight, Ended, IsMine, JoinTake, JoinFails, Return
  <2> QED
    BY <2>1, <2>2
<1>5. ASSUME NEW b \in Slots PROVE Stack(b)'
  BY DEF IInv, Stack, Place, Usable, Exists, Ended, Live, OnStack, IsMine, JoinTake
<1>6. ASSUME NEW w \in Users PROVE Place(w)'
  <2>1. ASSUME NEW j \in Tasks, j # cur[u].id PROVE Kept(j)
    BY <2>1 DEF IInv, TypeOK, Kept, Usable, Exists, Ended, IsMine, JoinTake
  <2>2. ASSUME w # u PROVE pc'[w] = pc[w] /\ cur'[w] = cur[w]
    BY <2>2 DEF IInv, TypeOK, JoinTake, GotoU, JoinFails, Return
  <2>3. CASE w # u
    <3>1. pc[w] \notin {"idle", "map"} => cur[w].id \in Tasks /\ cur[w].id # cur[u].id
      BY <2>3, SlotOfUser DEF IInv, Apart, Place
    <3> QED
      BY <2>1, <2>2, <2>3, <3>1, PlaceKept DEF IInv, Place, JoinTake
  <2>4. CASE w = u
    <3>1. CASE Desc(u).tid = 0
      <4>1. pc'[w] = "unmap" /\ cur'[w] = cur[w] /\ UNCHANGED <<mapped, tenant, task>>
        BY <2>4, <3>1 DEF IInv, TypeOK, JoinTake, GotoU
      <4>2. desc'[cur[w].slot].detached = desc[cur[w].slot].detached
        BY <2>4, SlotOfUser DEF IInv, TypeOK, JoinTake
      <4> QED
        BY <2>4, <4>1, <4>2 DEF IInv, Place, Usable, Exists, Ended, IsMine, JoinTake
    <3>2. CASE Desc(u).tid # 0
      BY <2>4, <3>2, PlaceIdle DEF IInv, TypeOK, JoinTake, JoinFails, Return
    <3> QED
      BY <3>1, <3>2
  <2> QED
    BY <2>3, <2>4
<1>7. Apart'
  <2>1. CASE Desc(u).tid = 0
    BY <2>1, ThreadAssumption
    DEF IInv, TypeOK, Policy, Nothing, Descriptor, UserPC, Tasks, JoinedRight, Stack, Place,
        Apart, Usable, Exists, IsMine, JoinTake, GotoU
  <2>2. CASE Desc(u).tid # 0
    <3>1. \A a \in Slots : desc'[a].detached = desc[a].detached
      BY DEF IInv, TypeOK, JoinTake
    <3> QED
      BY <2>2, <3>1, FailApart DEF IInv, Place, JoinTake
  <2> QED
    BY <2>1, <2>2
<1> QED
  BY <1>1, <1>2, <1>3, <1>4, <1>5, <1>6, <1>7 DEF IInv

LEMMA JoinUnmapTypes ==
  ASSUME IInv, NEW u \in Users, JoinUnmap(u)
  PROVE TypeOK'
BY DEF IInv, TypeOK, Nothing, UserPC, JoinUnmap, Return

(* The address is unmapped by the one user who works on it.                *)
LEMMA JoinUnmapKeeps ==
  ASSUME IInv, NEW u \in Users, JoinUnmap(u)
  PROVE IInv'
<1>1. TypeOK'
  BY JoinUnmapTypes
<1>2. ~(policy.detach /\ policy.reuse)'
  BY DEF IInv, JoinUnmap
<1>3. ASSUME NEW j \in Tasks PROVE Life(j)'
  BY DEF IInv, Life, Place, Exists, Ended, Live, OnStack, IsMine, JoinUnmap
<1>4. ASSUME NEW j \in Tasks PROVE JoinedRight(j)'
  BY DEF IInv, JoinedRight, Place, Ended, IsMine, JoinUnmap, Return, Desc
<1>5. ASSUME NEW b \in Slots PROVE Stack(b)'
  BY DEF IInv, Stack, Exists, Live, OnStack, JoinUnmap
<1>6. ASSUME NEW w \in Users PROVE Place(w)'
  <2>1. ASSUME NEW j \in Tasks, j # cur[u].id PROVE Kept(j)
    BY <2>1 DEF IInv, TypeOK, Kept, Usable, Exists, Ended, IsMine, Place, JoinUnmap
  <2>2. ASSUME w # u PROVE pc'[w] = pc[w] /\ cur'[w] = cur[w]
    BY <2>2 DEF IInv, TypeOK, JoinUnmap, Return
  <2>3. CASE w # u
    <3>1. pc[w] \notin {"idle", "map"} => cur[w].id \in Tasks /\ cur[w].id # cur[u].id
      BY <2>3, SlotOfUser DEF IInv, Apart, Place
    <3>2. tenant[cur[u].slot] = cur[u].id /\ cur[u].id # 0
      BY DEF IInv, Place, Usable, IsMine, JoinUnmap
    <3>3. pc[w] = "map" => cur[w].slot \in mapped' /\ tenant'[cur[w].slot] = 0
      BY <3>2 DEF IInv, Place, JoinUnmap
    <3> QED
      BY <2>1, <2>2, <2>3, <3>1, <3>3, PlaceKept DEF JoinUnmap
  <2>4. CASE w = u
    BY <2>4, PlaceIdle DEF IInv, TypeOK, JoinUnmap, Return
  <2> QED
    BY <2>3, <2>4
<1>7. Apart'
  BY DEF IInv, Nothing, Tasks, Place, Apart, Usable, Exists, IsMine, JoinUnmap, Return
<1> QED
  BY <1>1, <1>2, <1>3, <1>4, <1>5, <1>6, <1>7 DEF IInv

LEMMA DetachTypes ==
  ASSUME IInv, NEW u \in Users, Detach(u)
  PROVE TypeOK'
BY DEF IInv, TypeOK, UserPC, Detach, GotoU

(* The handle is taken.                                                    *)
LEMMA DetachKeeps ==
  ASSUME IInv, NEW u \in Users, Detach(u)
  PROVE IInv'
<1>1. TypeOK'
  BY DetachTypes
<1>2. ~(policy.detach /\ policy.reuse)'
  BY DEF IInv, Detach
<1>3. ASSUME NEW j \in Tasks PROVE Life(j)'
  BY DEF IInv, Life, Exists, Ended, Live, OnStack, IsMine, Detach
<1>4. ASSUME NEW j \in Tasks PROVE JoinedRight(j)'
  BY DEF IInv, JoinedRight, Ended, IsMine, Detach, GotoU
<1>5. ASSUME NEW b \in Slots PROVE Stack(b)'
  BY DEF IInv, Stack, Exists, Live, OnStack, Detach
<1>6. ASSUME NEW w \in Users PROVE Place(w)'
  <2>1. ASSUME NEW j \in Tasks PROVE Kept(j)
    BY DEF IInv, TypeOK, Kept, Usable, Exists, Ended, IsMine, Detach
  <2>2. ASSUME w # u PROVE pc'[w] = pc[w] /\ cur'[w] = cur[w]
    BY <2>2 DEF IInv, TypeOK, Detach, GotoU
  <2>3. CASE w # u
    BY <2>1, <2>2, <2>3, SlotOfUser, PlaceKept DEF IInv, Place, Detach
  <2>4. CASE w = u
    <3> PICK i \in handles : Detach(u)!(i)
      BY DEF Detach
    <3>1. Usable(i) /\ i \in Tasks /\ Kept(i) /\ i # 0
      BY <2>1, ThreadAssumption DEF IInv, TypeOK, Apart, Tasks
    <3>2. pc'[w] = "detach" /\ cur'[w] = [slot |-> task[i].slot, id |-> i]
      BY <2>4 DEF IInv, TypeOK, GotoU
    <3> QED
      BY <3>1, <3>2 DEF Place, Kept
  <2> QED
    BY <2>3, <2>4
<1>7. Apart'
  BY DEF IInv, Apart, Usable, Exists, IsMine, Detach, GotoU
<1> QED
  BY <1>1, <1>2, <1>3, <1>4, <1>5, <1>6, <1>7 DEF IInv

LEMMA DetachTestTypes ==
  ASSUME IInv, NEW u \in Users, DetachTest(u)
  PROVE TypeOK'
BY DEF IInv, TypeOK, UserPC, DetachTest, GotoU

(* An id that is not positive means that the thread has ended.             *)
LEMMA DetachTestKeeps ==
  ASSUME IInv, NEW u \in Users, DetachTest(u)
  PROVE IInv'
<1>1. TypeOK'
  BY DetachTestTypes
<1>2. ~(policy.detach /\ policy.reuse)'
  BY DEF IInv, DetachTest
<1>3. ASSUME NEW j \in Tasks PROVE Life(j)'
  BY DEF IInv, Life, Exists, Ended, Live, OnStack, IsMine, DetachTest
<1>4. ASSUME NEW j \in Tasks PROVE JoinedRight(j)'
  BY DEF IInv, JoinedRight, Ended, IsMine, DetachTest, GotoU
<1>5. ASSUME NEW b \in Slots PROVE Stack(b)'
  BY DEF IInv, Stack, Exists, Live, OnStack, DetachTest
<1>6. ASSUME NEW w \in Users PROVE Place(w)'
  <2>1. ASSUME NEW j \in Tasks PROVE Kept(j)
    BY DEF IInv, TypeOK, Kept, Usable, Exists, Ended, IsMine, DetachTest
  <2>2. ASSUME w # u PROVE pc'[w] = pc[w] /\ cur'[w] = cur[w]
    BY <2>2 DEF IInv, TypeOK, DetachTest, GotoU
  <2>3. CASE w # u
    BY <2>1, <2>2, <2>3, SlotOfUser, PlaceKept DEF IInv, Place, DetachTest
  <2>4. CASE w = u
    <3>1. cur[w].id \in Tasks /\ Kept(cur[w].id) /\ Usable(cur[w].id) /\ Place(w)
      BY <2>1, <2>4, SlotOfUser DEF IInv, Place, DetachTest, GotoU
    <3>2. /\ pc'[w] = IF Desc(w).tid <= 0 THEN "reclaim" ELSE "mark"
          /\ pc[w] = "detach" /\ cur'[w] = cur[w] /\ UNCHANGED policy
      BY <2>4 DEF IInv, TypeOK, DetachTest, GotoU
    <3>3. CASE pc'[w] = "mark"
      BY <3>1, <3>2, <3>3, PlaceKept
    <3>4. CASE pc'[w] = "reclaim"
      <4>1. Desc(w).tid <= 0
        BY <3>2, <3>4, SlotOfUser DEF Desc, Descriptor, Tasks
      <4>2. ~Live(cur[w].id)
        <5> DEFINE a == cur[w].slot
        <5>1. a \in Slots /\ a \in mapped /\ tenant[a] = cur[w].id /\ cur[w].id # 0
          BY <3>1, <3>2, SlotOfUser DEF Usable, IsMine, Place
        <5>2. Live(tenant[a]) => desc[a].tid = tenant[a]
          BY <5>1 DEF IInv, Stack
        <5>3. ~(cur[w].id <= 0)
          BY <3>1, ThreadAssumption DEF Tasks
        <5> QED
          BY <4>1, <5>1, <5>2, <5>3 DEF Desc
      <4>3. Ended(cur[w].id)
        BY <3>1, <4>2 DEF IInv, TypeOK, TaskPC, Usable, Exists, Ended, Live, OnStack
      <4> QED
        BY <3>1, <3>2, <3>4, <4>3 DEF Place, Kept
    <3> QED
      BY <3>2, <3>3, <3>4
  <2> QED
    BY <2>3, <2>4
<1>7. Apart'
  BY DEF IInv, Apart, Usable, Exists, IsMine, DetachTest, GotoU
<1> QED
  BY <1>1, <1>2, <1>3, <1>4, <1>5, <1>6, <1>7 DEF IInv

LEMMA DetachReclaimTypes ==
  ASSUME IInv, NEW u \in Users, DetachReclaim(u)
  PROVE TypeOK'
BY DEF IInv, TypeOK, Nothing, UserPC, DetachReclaim, Return

(* The address is unmapped by the one user who works on it.                *)
LEMMA DetachReclaimKeeps ==
  ASSUME IInv, NEW u \in Users, DetachReclaim(u)
  PROVE IInv'
<1>1. TypeOK'
  BY DetachReclaimTypes
<1>2. ~(policy.detach /\ policy.reuse)'
  BY DEF IInv, DetachReclaim
<1>3. ASSUME NEW j \in Tasks PROVE Life(j)'
  BY DEF IInv, Life, Place, Usable, Exists, Ended, Live, OnStack, IsMine, DetachReclaim
<1>4. ASSUME NEW j \in Tasks PROVE JoinedRight(j)'
  BY DEF IInv, JoinedRight, Ended, IsMine, DetachReclaim, Return
<1>5. ASSUME NEW b \in Slots PROVE Stack(b)'
  BY DEF IInv, Stack, Exists, Live, OnStack, DetachReclaim
<1>6. ASSUME NEW w \in Users PROVE Place(w)'
  <2>1. ASSUME NEW j \in Tasks, j # cur[u].id PROVE Kept(j)
    BY <2>1 DEF IInv, TypeOK, Kept, Usable, Exists, Ended, IsMine, Place, DetachReclaim
  <2>2. ASSUME w # u PROVE pc'[w] = pc[w] /\ cur'[w] = cur[w]
    BY <2>2 DEF IInv, TypeOK, DetachReclaim, Return
  <2>3. CASE w # u
    <3>1. pc[w] \notin {"idle", "map"} => cur[w].id \in Tasks /\ cur[w].id # cur[u].id
      BY <2>3, SlotOfUser DEF IInv, Apart, Place
    <3>2. tenant[cur[u].slot] = cur[u].id /\ cur[u].id # 0
      BY DEF IInv, Place, Usable, IsMine, DetachReclaim
    <3>3. pc[w] = "map" => cur[w].slot \in mapped' /\ tenant'[cur[w].slot] = 0
      BY <3>2 DEF IInv, Place, DetachReclaim
    <3> QED
      BY <2>1, <2>2, <2>3, <3>1, <3>3, PlaceKept DEF DetachReclaim
  <2>4. CASE w = u
    BY <2>4, PlaceIdle DEF IInv, TypeOK, DetachReclaim, Return
  <2> QED
    BY <2>3, <2>4
<1>7. Apart'
  BY DEF IInv, Nothing, Tasks, Place, Apart, Usable, Exists, IsMine, DetachReclaim, Return
<1> QED
  BY <1>1, <1>2, <1>3, <1>4, <1>5, <1>6, <1>7 DEF IInv

LEMMA DetachMarkTypes ==
  ASSUME IInv, NEW u \in Users, DetachMark(u)
  PROVE TypeOK'
<1>1. desc' \in [Slots -> Descriptor]
  BY SlotOfUser, StoreDetached DEF DetachMark
<1> QED
  BY <1>1 DEF IInv, TypeOK, DetachMark, Return, Nothing, UserPC

(* The thread may be about to evaluate detached() or beyond it.            *)
LEMMA DetachMarkKeeps ==
  ASSUME IInv, NEW u \in Users, DetachMark(u)
  PROVE IInv'
<1>1. TypeOK'
  BY DetachMarkTypes
<1>2. ~(policy.detach /\ policy.reuse)'
  BY DEF IInv, DetachMark
<1>3. ASSUME NEW j \in Tasks PROVE Life(j)'
  BY DEF IInv, Life, Exists, Ended, Live, OnStack, IsMine, DetachMark
<1>4. ASSUME NEW j \in Tasks PROVE JoinedRight(j)'
  BY DEF IInv, JoinedRight, Ended, IsMine, DetachMark, Return
<1>5. ASSUME NEW b \in Slots PROVE Stack(b)'
  BY DEF IInv, Stack, Place, Exists, Live, OnStack, DetachMark
<1>6. ASSUME NEW w \in Users PROVE Place(w)'
  <2>1. ASSUME NEW j \in Tasks, j # cur[u].id PROVE Kept(j)
    <3>1. IsMine(j) => desc'[task[j].slot] = desc[task[j].slot]
      BY <2>1 DEF IInv, TypeOK, Usable, IsMine, Place, DetachMark
    <3> QED
      BY <2>1, <3>1 DEF Kept, Usable, Exists, Ended, IsMine, DetachMark
  <2>2. ASSUME w # u PROVE pc'[w] = pc[w] /\ cur'[w] = cur[w]
    BY <2>2 DEF IInv, TypeOK, DetachMark, Return
  <2>3. CASE w # u
    <3>1. pc[w] \notin {"idle", "map"} => cur[w].id \in Tasks /\ cur[w].id # cur[u].id
      BY <2>3, SlotOfUser DEF IInv, Apart, Place
    <3> QED
      BY <2>1, <2>2, <2>3, <3>1, PlaceKept DEF IInv, Place, DetachMark
  <2>4. CASE w = u
    BY <2>4, PlaceIdle DEF IInv, TypeOK, DetachMark, Return
  <2> QED
    BY <2>3, <2>4
<1>7. Apart'
  BY DEF IInv, Nothing, Tasks, Place, Apart, Usable, Exists, IsMine, DetachMark, Return
<1> QED
  BY <1>1, <1>2, <1>3, <1>4, <1>5, <1>6, <1>7 DEF IInv

-----------------------------------------------------------------------------
(* Every step keeps the invariant.                                         *)
LEMMA StepInv == IInv /\ [Next]_vars => IInv'
<1> SUFFICES ASSUME IInv, [Next]_vars PROVE IInv'
  OBVIOUS
<1>1. ASSUME NEW i \in Tasks, Finish(i) PROVE IInv'
  BY <1>1, FinishKeeps
<1>2. ASSUME NEW i \in Tasks, ExitTest(i) PROVE IInv'
  BY <1>2, ExitTestKeeps
<1>3. ASSUME NEW i \in Tasks, ExitUnmap(i) PROVE IInv'
  BY <1>3, ExitUnmapKeeps
<1>4. ASSUME NEW i \in Tasks, KernelClearTid(i) PROVE IInv'
  BY <1>4, KernelClearTidKeeps
<1>5. ASSUME NEW i \in Tasks, KernelWake(i) PROVE IInv'
  BY <1>5, KernelWakeKeeps
<1>6. ASSUME NEW u \in Users, CreateMap(u) PROVE IInv'
  BY <1>6, CreateMapKeeps
<1>7. ASSUME NEW u \in Users, CreateClone(u) PROVE IInv'
  BY <1>7, CreateCloneKeeps
<1>8. ASSUME NEW u \in Users, CreateFails(u) PROVE IInv'
  BY <1>8, CreateFailsKeeps
<1>9. ASSUME NEW u \in Users, CreateReturns(u) PROVE IInv'
  BY <1>9, CreateReturnsKeeps
<1>10. ASSUME NEW u \in Users, Join(u) PROVE IInv'
  BY <1>10, JoinKeeps
<1>11. ASSUME NEW u \in Users, JoinRead(u) PROVE IInv'
  BY <1>11, JoinReadKeeps
<1>12. ASSUME NEW u \in Users, JoinWait(u) PROVE IInv'
  BY <1>12, JoinWaitKeeps
<1>13. ASSUME NEW u \in Users, JoinInterrupted(u) PROVE IInv'
  BY <1>13, JoinInterruptedKeeps
<1>14. ASSUME NEW u \in Users, JoinTake(u) PROVE IInv'
  BY <1>14, JoinTakeKeeps
<1>15. ASSUME NEW u \in Users, JoinUnmap(u) PROVE IInv'
  BY <1>15, JoinUnmapKeeps
<1>16. ASSUME NEW u \in Users, Detach(u) PROVE IInv'
  BY <1>16, DetachKeeps
<1>17. ASSUME NEW u \in Users, DetachTest(u) PROVE IInv'
  BY <1>17, DetachTestKeeps
<1>18. ASSUME NEW u \in Users, DetachReclaim(u) PROVE IInv'
  BY <1>18, DetachReclaimKeeps
<1>19. ASSUME NEW u \in Users, DetachMark(u) PROVE IInv'
  BY <1>19, DetachMarkKeeps
<1>20. CASE UNCHANGED vars
  <2>1. UNCHANGED <<policy, mapped, used, desc, tenant, task, pc, cur, tmp, handles, joined>>
    BY <1>20 DEF vars
  <2>2. TypeOK' /\ ~(policy.detach /\ policy.reuse)'
    BY <2>1 DEF IInv, TypeOK
  <2>3. \A i \in Tasks : Life(i)' /\ JoinedRight(i)'
    BY <2>1 DEF IInv, Life, JoinedRight, Exists, Ended, Live, OnStack, IsMine
  <2>4. \A a \in Slots : Stack(a)'
    BY <2>1 DEF IInv, Stack, Exists, Live, OnStack
  <2>5. \A u \in Users : Place(u)'
    <3>1. \A j \in Tasks : Kept(j)
      BY <2>1 DEF Kept, Usable, Exists, Ended, IsMine
    <3> QED
      BY <2>1, <3>1, SlotOfUser, PlaceKept DEF IInv, Place
  <2>6. Apart'
    BY <2>1 DEF IInv, Apart, Usable, Exists, IsMine
  <2> QED
    BY <2>2, <2>3, <2>4, <2>5, <2>6 DEF IInv
<1> QED
  BY <1>1, <1>2, <1>3, <1>4, <1>5, <1>6, <1>7, <1>8, <1>9, <1>10,
     <1>11, <1>12, <1>13, <1>14, <1>15, <1>16, <1>17, <1>18, <1>19, <1>20
  DEF Next, TaskStep, UserStep

-----------------------------------------------------------------------------

(* The invariant holds in every program that does not detach threads, and  *)
(* in every one whose addresses are not handed out again.                  *)
THEOREM Invariant == ASSUME Separate PROVE Spec => []IInv
<1>1. Init => IInv
  BY InitInv
<1> QED
  BY <1>1, StepInv, PTL DEF Spec

(* Every variable stays in its range.                                      *)
THEOREM TypeCorrect == ASSUME Separate PROVE Spec => []TypeOK
<1>1. IInv => TypeOK
  BY DEF IInv
<1> QED
  BY <1>1, Invariant, PTL

(* No join, detach, or failed create unmaps a stack under a thread that    *)
(* still runs on it, and no new mapping takes its place.                   *)
THEOREM StacksStay == ASSUME Separate PROVE Spec => []StackIsMapped
<1>1. IInv => StackIsMapped
  BY DEF IInv, Life, Live, StackIsMapped
<1> QED
  BY <1>1, Invariant, PTL

(* The thread id in the descriptor of a mapping is positive exactly while  *)
(* its thread uses the mapping, which is what join and detach rely on.     *)
THEOREM TidTells == ASSUME Separate PROVE Spec => []TidMeansUsed
<1>1. IInv => TidMeansUsed
  BY DEF IInv, TypeOK, Stack, Live, TidMeansUsed
<1> QED
  BY <1>1, Invariant, PTL

(* A join that returned true has waited for its thread and returned what   *)
(* that thread passed to exit.                                             *)
THEOREM JoinsWait == ASSUME Separate PROVE Spec => []JoinedIsGone
<1>1. IInv => JoinedIsGone
  BY DEF IInv, JoinedRight, Ended, JoinedIsGone
<1> QED
  BY <1>1, Invariant, PTL

(* No mapping is left of a thread that was created detached or joined.     *)
THEOREM NothingIsLeft == ASSUME Separate PROVE Spec => []Reclaimed
<1>1. IInv => Reclaimed
  BY DEF IInv, Life, JoinedRight, Ended, IsMine, Reclaimed
<1> QED
  BY <1>1, Invariant, PTL

=============================================================================
