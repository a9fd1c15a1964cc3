------------------------------- MODULE Thread -------------------------------
(***************************************************************************)
(* Thread (include/dlh/thread.hpp, src/thread.cpp): the life of a thread   *)
(* from create over exit to join or detach.  The descriptor of a thread    *)
(* lies in the mapping that is also its stack, so the mapping must outlive *)
(* the thread, and something has to unmap it once.  The kernel takes part: *)
(* clone stores the new thread id in the descriptor, and when a thread is  *)
(* gone it stores 0 there and wakes one waiter (CLONE_PARENT_SETTID,       *)
(* CLONE_CHILD_CLEARTID), at an address it was told at creation.           *)
(*                                                                         *)
(* Threads are numbered as they are created; the number is the thread id.  *)
(* Users are the threads of the program that call create, join and detach. *)
(*                                                                         *)
(* task[i].pc: "run" in the thread function, "test" in exit before it      *)
(* evaluates detached(), "unmap" before its munmap, "exit" before SYS_exit *)
(* clears the thread id, "wake" before it wakes a waiter, then "gone".     *)
(* pc[u]: "idle"; in create "map" and "created"; in join "join", "wait",   *)
(* "asleep", "take" and "unmap"; in detach "detach", "reclaim" and "mark". *)
(***************************************************************************)
EXTENDS Integers, FiniteSets

CONSTANTS
  Users,      (* the threads that create, join and detach others           *)
  Slots,      (* the addresses mmap may return                             *)
  NoSlot,     (* the address of no mapping                                 *)
  MaxTasks,   (* how many threads are created                              *)
  Policies    (* what a program may do: the values of policy               *)

Policy == [detach : BOOLEAN, reuse : BOOLEAN]

ASSUME ThreadAssumption ==
  /\ NoSlot \notin Slots
  /\ MaxTasks \in Nat
  /\ Policies \subseteq Policy

VARIABLES
  policy,     (* does it detach threads; does mmap return addresses again  *)
  mapped,     (* the addresses that are mapped                             *)
  used,       (* the addresses that have been mapped                       *)
  desc,       (* for each address the descriptor last stored there         *)
  tenant,     (* for each address the thread it was last mapped for        *)
  task,       (* the threads as the kernel sees them                       *)
  pc,         (* where each user is                                        *)
  cur,        (* the address and thread a user's call is about             *)
  tmp,        (* the thread id that join has read                          *)
  handles,    (* threads that may still be joined or detached              *)
  joined      (* for each thread the result a join returned, or -1         *)

vars == <<policy, mapped, used, desc, tenant, task, pc, cur, tmp, handles, joined>>

Tasks == 1..MaxTasks
TaskPC == {"none", "run", "test", "unmap", "exit", "wake", "gone"}
UserPC == {"idle", "map", "created", "join", "wait", "asleep", "take", "unmap",
           "detach", "reclaim", "mark"}
Descriptor == [tid : Tasks \cup {0, -1}, detached : BOOLEAN, result : Tasks \cup {0}]

NoTask == [slot |-> NoSlot, detached |-> FALSE, pc |-> "none"]
Nothing == [slot |-> NoSlot, id |-> 0]

GotoU(u, from, to) ==
  /\ pc[u] = from
  /\ pc' = [pc EXCEPT ![u] = to]

GotoT(i, from, to) ==
  /\ task[i].pc = from
  /\ task' = [task EXCEPT ![i].pc = to]

(* The descriptor a user's call works on.                                  *)
Desc(u) == desc[cur[u].slot]

(* The user's call ends.                                                   *)
Return(u) ==
  /\ pc' = [pc EXCEPT ![u] = "idle"]
  /\ cur' = [cur EXCEPT ![u] = Nothing]

-----------------------------------------------------------------------------
(* create                                                                  *)

(* mmap and the constructor of the descriptor.  (If mmap fails create      *)
(* returns nullptr and nothing has changed.)                               *)
CreateMap(u) ==
  \E a \in Slots \ (IF policy.reuse THEN mapped ELSE used), d \in BOOLEAN :
    /\ d => policy.detach
    /\ GotoU(u, "idle", "map")
    /\ mapped' = mapped \cup {a}
    /\ used' = used \cup {a}
    /\ desc' = [desc EXCEPT ![a] = [tid |-> -1, detached |-> d, result |-> 0]]
    /\ tenant' = [tenant EXCEPT ![a] = 0]
    /\ cur' = [cur EXCEPT ![u] = [slot |-> a, id |-> 0]]
    /\ UNCHANGED <<policy, task, tmp, handles, joined>>

(* Mutant: clone without CLONE_PARENT_SETTID.                              *)
CreateCloneUnset(u) ==
  \E i \in Tasks :
    /\ task[i] = NoTask
    /\ \A j \in 1..(i - 1) : task[j] # NoTask
    /\ GotoU(u, "map", "created")
    /\ task' = [task EXCEPT ![i] =
         [slot |-> cur[u].slot, detached |-> Desc(u).detached, pc |-> "run"]]
    /\ tenant' = [tenant EXCEPT ![cur[u].slot] = i]
    /\ cur' = [cur EXCEPT ![u].id = i]
    /\ UNCHANGED <<policy, mapped, used, desc, tmp, handles, joined>>

(* clone: the kernel stores the thread id before the new thread can run.   *)
CreateClone(u) ==
  \E i \in Tasks :
    /\ task[i] = NoTask
    /\ \A j \in 1..(i - 1) : task[j] # NoTask
    /\ GotoU(u, "map", "created")
    /\ task' = [task EXCEPT ![i] =
         [slot |-> cur[u].slot, detached |-> Desc(u).detached, pc |-> "run"]]
    /\ desc' = [desc EXCEPT ![cur[u].slot].tid = i]
    /\ tenant' = [tenant EXCEPT ![cur[u].slot] = i]
    /\ cur' = [cur EXCEPT ![u].id = i]
    /\ UNCHANGED <<policy, mapped, used, tmp, handles, joined>>

(* clone fails: create unmaps again and returns nullptr.                   *)
CreateFails(u) ==
  /\ pc[u] = "map"
  /\ Return(u)
  /\ mapped' = mapped \ {cur[u].slot}
  /\ UNCHANGED <<policy, used, desc, tenant, task, tmp, handles, joined>>

(* The assertion in front of the return is not in the optimized build: it  *)
(* reads the thread id although the thread may have gone and cleared it.   *)
CreateReturns(u) ==
  /\ pc[u] = "created"
  /\ Return(u)
  /\ handles' = IF task[cur[u].id].detached THEN handles ELSE handles \cup {cur[u].id}
  /\ UNCHANGED <<policy, mapped, used, desc, tenant, task, tmp, joined>>

-----------------------------------------------------------------------------
(* The thread itself: __start_child, exit and what the kernel does after   *)

(* Mutant: the result is lost.                                             *)
FinishForgets(i) ==
  /\ GotoT(i, "run", "test")
  /\ UNCHANGED <<policy, mapped, used, desc, tenant, pc, cur, tmp, handles, joined>>

(* The thread function returns; exit stores the result.                    *)
Finish(i) ==
  /\ GotoT(i, "run", "test")
  /\ desc' = [desc EXCEPT ![task[i].slot].result = i]
  /\ UNCHANGED <<policy, mapped, used, tenant, pc, cur, tmp, handles, joined>>

(* exit evaluates detached() once, into a register.                        *)
ExitTest(i) ==
  /\ GotoT(i, "test", IF desc[task[i].slot].detached THEN "unmap" ELSE "exit")
  /\ UNCHANGED <<policy, mapped, used, desc, tenant, pc, cur, tmp, handles, joined>>

(* A detached thread unmaps the stack it stands on.                        *)
ExitUnmap(i) ==
  /\ GotoT(i, "unmap", "exit")
  /\ mapped' = mapped \ {task[i].slot}
  /\ UNCHANGED <<policy, used, desc, tenant, pc, cur, tmp, handles, joined>>

(* SYS_exit: the kernel stores 0 where the thread id was when the thread   *)
(* was created, whoever has the address now.                               *)
KernelClearTid(i) ==
  /\ GotoT(i, "exit", "wake")
  /\ desc' = IF task[i].slot \in mapped
             THEN [desc EXCEPT ![task[i].slot].tid = 0] ELSE desc
  /\ UNCHANGED <<policy, mapped, used, tenant, pc, cur, tmp, handles, joined>>

Sleepers(a) == {u \in Users : pc[u] = "asleep" /\ cur[u].slot = a}

(* ... and wakes one waiter at that address.                               *)
KernelWake(i) ==
  /\ GotoT(i, "wake", "gone")
  /\ \/ Sleepers(task[i].slot) = {} /\ UNCHANGED pc
     \/ \E u \in Sleepers(task[i].slot) : GotoU(u, "asleep", "join")
  /\ UNCHANGED <<policy, mapped, used, desc, tenant, cur, tmp, handles, joined>>

-----------------------------------------------------------------------------
(* join                                                                    *)

Join(u) ==
  \E i \in handles :
    /\ GotoU(u, "idle", "join")
    /\ cur' = [cur EXCEPT ![u] = [slot |-> task[i].slot, id |-> i]]
    /\ handles' = handles \ {i}
    /\ UNCHANGED <<policy, mapped, used, desc, tenant, task, tmp, joined>>

(* The condition of the while loop.                                        *)
JoinRead(u) ==
  /\ GotoU(u, "join", IF Desc(u).tid > 0 THEN "wait" ELSE "take")
  /\ tmp' = [tmp EXCEPT ![u] = Desc(u).tid]
  /\ UNCHANGED <<policy, mapped, used, desc, tenant, task, cur, handles, joined>>

(* join returns false; its caller may try again.                           *)
JoinFails(u) ==
  /\ Return(u)
  /\ handles' = handles \cup {cur[u].id}

(* Mutant: the user sleeps without comparing the thread id again.          *)
JoinWaitBlind(u) ==
  /\ GotoU(u, "wait", "asleep")
  /\ UNCHANGED <<policy, mapped, used, desc, tenant, task, cur, tmp, handles, joined>>

(* futex(FUTEX_WAIT): the kernel queues the user, or returns EAGAIN when   *)
(* the thread has gone since, which is no 0, so that join returns false.   *)
JoinWait(u) ==
  /\ pc[u] = "wait"
  /\ IF Desc(u).tid = tmp[u]
     THEN GotoU(u, "wait", "asleep") /\ UNCHANGED <<cur, handles>>
     ELSE JoinFails(u)
  /\ UNCHANGED <<policy, mapped, used, desc, tenant, task, tmp, joined>>

(* EINTR is no 0 either.                                                   *)
JoinInterrupted(u) ==
  /\ pc[u] = "asleep"
  /\ JoinFails(u)
  /\ UNCHANGED <<policy, mapped, used, desc, tenant, task, tmp, joined>>

(* The exchange that makes this join the one that reclaims.                *)
JoinTake(u) ==
  /\ pc[u] = "take"
  /\ desc' = [desc EXCEPT ![cur[u].slot].tid = -1]
  /\ IF Desc(u).tid = 0
     THEN /\ GotoU(u, "take", "unmap")
          /\ joined' = [joined EXCEPT ![cur[u].id] = Desc(u).result]
          /\ UNCHANGED <<cur, handles>>
     ELSE JoinFails(u) /\ UNCHANGED joined
  /\ UNCHANGED <<policy, mapped, used, tenant, task, tmp>>

(* Mutant: join unmaps if the thread is detached.                          *)
JoinUnmapInverted(u) ==
  /\ pc[u] = "unmap"
  /\ Return(u)
  /\ mapped' = IF Desc(u).detached THEN mapped \ {cur[u].slot} ELSE mapped
  /\ UNCHANGED <<policy, used, desc, tenant, task, tmp, handles, joined>>

JoinUnmap(u) ==
  /\ pc[u] = "unmap"
  /\ Return(u)
  /\ mapped' = IF Desc(u).detached THEN mapped ELSE mapped \ {cur[u].slot}
  /\ UNCHANGED <<policy, used, desc, tenant, task, tmp, handles, joined>>

-----------------------------------------------------------------------------
(* detach, of a thread that was not created detached                       *)

Detach(u) ==
  \E i \in handles :
    /\ policy.detach
    /\ GotoU(u, "idle", "detach")
    /\ cur' = [cur EXCEPT ![u] = [slot |-> task[i].slot, id |-> i]]
    /\ handles' = handles \ {i}
    /\ UNCHANGED <<policy, mapped, used, desc, tenant, task, tmp, joined>>

(* Mutant: detach unmaps without a look at the thread id.                  *)
DetachTestNot(u) ==
  /\ GotoU(u, "detach", "reclaim")
  /\ UNCHANGED <<policy, mapped, used, desc, tenant, task, cur, tmp, handles, joined>>

DetachTest(u) ==
  /\ GotoU(u, "detach", IF Desc(u).tid <= 0 THEN "reclaim" ELSE "mark")
  /\ UNCHANGED <<policy, mapped, used, desc, tenant, task, cur, tmp, handles, joined>>

DetachReclaim(u) ==
  /\ pc[u] = "reclaim"
  /\ Return(u)
  /\ mapped' = mapped \ {cur[u].slot}
  /\ UNCHANGED <<policy, used, desc, tenant, task, tmp, handles, joined>>

(* The mark may come too late: exit has evaluated detached() already.      *)
DetachMark(u) ==
  /\ pc[u] = "mark"
  /\ Return(u)
  /\ desc' = [desc EXCEPT ![cur[u].slot].detached = TRUE]
  /\ UNCHANGED <<policy, mapped, used, tenant, task, tmp, handles, joined>>

-----------------------------------------------------------------------------

Init ==
  /\ policy \in Policies
  /\ mapped = {}
  /\ used = {}
  /\ desc = [a \in Slots |-> [tid |-> -1, detached |-> FALSE, result |-> 0]]
  /\ tenant = [a \in Slots |-> 0]
  /\ task = [i \in Tasks |-> NoTask]
  /\ pc = [u \in Users |-> "idle"]
  /\ cur = [u \in Users |-> Nothing]
  /\ tmp = [u \in Users |-> 0]
  /\ handles = {}
  /\ joined = [i \in Tasks |-> -1]

(* A thread, and the kernel on its behalf, goes on.                        *)
TaskStep(i) ==
  \/ Finish(i) \/ ExitTest(i) \/ ExitUnmap(i)
  \/ KernelClearTid(i) \/ KernelWake(i)

(* A user goes on with the call it is in.                                  *)
UserStep(u) ==
  \/ CreateClone(u) \/ CreateReturns(u)
  \/ JoinRead(u) \/ JoinWait(u) \/ JoinTake(u) \/ JoinUnmap(u)
  \/ DetachTest(u) \/ DetachReclaim(u) \/ DetachMark(u)

Next ==
  \/ \E i \in Tasks : TaskStep(i)
  \/ \E u \in Users :
       \/ CreateMap(u) \/ CreateFails(u) \/ Join(u) \/ JoinInterrupted(u)
       \/ Detach(u) \/ UserStep(u)

(* Thread functions return, the kernel ends threads that have exited, and  *)
(* a user in a call is scheduled.  Nobody has to create, join or detach,   *)
(* and no signal has to interrupt a join.                                  *)
Fairness ==
  /\ \A i \in Tasks : WF_vars(TaskStep(i))
  /\ \A u \in Users : WF_vars(UserStep(u))

Spec == Init /\ [][Next]_vars
FairSpec == Spec /\ Fairness

-----------------------------------------------------------------------------
(* Properties                                                              *)

(* Every variable stays in its range.                                      *)
TypeOK ==
  /\ policy \in Policies
  /\ mapped \subseteq used /\ used \subseteq Slots
  /\ desc \in [Slots -> Descriptor]
  /\ tenant \in [Slots -> Tasks \cup {0}]
  /\ task \in [Tasks -> [slot : Slots \cup {NoSlot}, detached : BOOLEAN, pc : TaskPC]]
  /\ pc \in [Users -> UserPC]
  /\ cur \in [Users -> [slot : Slots \cup {NoSlot}, id : Tasks \cup {0}]]
  /\ tmp \in [Users -> Tasks \cup {0, -1}]
  /\ handles \subseteq Tasks
  /\ joined \in [Tasks -> Tasks \cup {0, -1}]

(* The mapping a thread stands on stays mapped, and its own, until the     *)
(* thread has done its last access (and every variable is in its range).   *)
OnStack(i) == task[i].pc \in {"run", "test", "unmap"}

StackIsMapped ==
  /\ TypeOK
  /\ \A i \in Tasks : OnStack(i) =>
       task[i].slot \in mapped /\ tenant[task[i].slot] = i

(* "Thread ID - which is also a 'is this thread descriptor (and therefore  *)
(* stack) used' flag" (thread.hpp:62): the descriptor of a mapping holds a *)
(* positive id exactly while the thread it was made for uses it.           *)
TidMeansUsed ==
  \A a \in mapped :
    IF tenant[a] # 0 /\ (OnStack(tenant[a]) \/ task[tenant[a]].pc = "exit")
    THEN desc[a].tid = tenant[a]
    ELSE desc[a].tid <= 0

(* join returns true only for a thread that is gone, and with what that    *)
(* thread has passed to exit.                                              *)
JoinedIsGone ==
  \A i \in Tasks : joined[i] # -1 =>
    joined[i] = i /\ task[i].pc \in {"wake", "gone"}

(* A thread that was created detached or was joined leaves no mapping.  (A *)
(* thread that is detached later may: "TODO: racy without locks".)         *)
Reclaimed ==
  \A i \in Tasks :
    /\ task[i].pc = "gone"
    /\ task[i].detached \/ joined[i] # -1
    /\ \A u \in Users : cur[u].id = i => pc[u] # "unmap"
    => ~(task[i].slot \in mapped /\ tenant[task[i].slot] = i)

(* Every join returns, whichever way its thread's end races with the read  *)
(* of the thread id and the wait.                                          *)
JoinReturns ==
  \A u \in Users :
    (pc[u] \in {"join", "wait", "asleep", "take", "unmap"}) ~> (pc[u] = "idle")

=============================================================================
