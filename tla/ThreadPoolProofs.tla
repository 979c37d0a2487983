--------------------------- MODULE ThreadPoolProofs ---------------------------
(***************************************************************************)
(* The safety properties of ThreadPool and its refinement of TaskPool,     *)
(* proved for every set of workers and of clients and for any bounds.  At  *)
(* the end, the chunks of its client main.cc.                              *)
(***************************************************************************)
EXTENDS ThreadPoolProperties, ParallelSum, FiniteSetTheorems, SequenceTheorems, TLAPS

\* The mutex is held exactly inside the critical sections.
LockInv == \A t \in Threads : queueLock = t <=> pc[t] \in HoldingPc

\* Only blocked threads are in the wait sets.
BlockedInv ==
  /\ \A t \in taskIsAvailable : pc[t] = "blocked"
  /\ \A c \in waitForEmpty : pc[c] = "waitBlocked"

\* A worker holds a thunk exactly while it runs it.
HandInv == \A w \in Workers : task[w] # NoThunk <=> pc[w] \in {"running", "spawning"}

\* Room was found for the thunk that is about to be pushed.
RoomInv == \A t \in Threads : pc[t] \in {"pushing", "spawning"} => scheduled < MaxThunks

\* The constructor starts the dispatcher last; the flag belongs to the
\* destructor, which runs when no other client uses the pool.
DoneInv ==
  /\ pc[Owner] = "ctor" => pc[Dispatcher] = "unborn"
  /\ done <=> pc[Owner] \in DonePc
  /\ pc[Owner] \in DtorPc => \A c \in Clients \ {Owner} : pc[c] = "left"

\* Threads end only once the flag is up, and the last worker leaves no thunk.
ExitInv ==
  /\ \A w \in Workers : pc[w] = "exited" => done
  /\ (\A w \in Workers : pc[w] = "exited") => tasks = <<>>

\* Every thread that was spawned is in wts, and all are once the constructor
\* has returned; the elements already joined have ended.
JoinInv ==
  /\ \A w \in Workers : pc[w] # "unborn" => \E i \in 1..Len(wts) : wts[i] = w
  /\ pc[Owner] # "ctor" => \A w \in Workers : pc[w] # "unborn"
  /\ pc[Owner] = "ctor" => joinAt = 1
  /\ \A i \in 1..Len(wts) : i < joinAt /\ wts[i] # NoThread => pc[wts[i]] = "exited"
  /\ pc[Owner] \in {"joinWorkers", "destroyed"} => pc[Dispatcher] = "exited"
  /\ pc[Owner] = "destroyed" => joinAt > Len(wts)

\* The control part of the invariant, and the whole.
Control == TypeOK /\ LockInv /\ BlockedInv /\ HandInv /\ RoomInv /\ DoneInv
IInv == /\ Control /\ ExitInv /\ JoinInv
        /\ FifoQueue /\ EachThunkOnce /\ NoStrandedWait /\ DtorWakesEveryone
-----------------------------------------------------------------------------
USE ConstantsAssumption DEF PoolThreads, Threads

\* Before the constructor runs nothing is locked, queued or asleep.
LEMMA ControlInit == Init => Control
<1> SUFFICES ASSUME Init PROVE Control
  OBVIOUS
<1>1. Cardinality(Workers) \in Nat
  BY FS_CardinalityType
<1>2. DataOK
  <2>1. wts \in Seq(Workers \cup {NoThread}) /\ tasks \in Seq(1..MaxThunks)
    BY <1>1, SeqDef DEF Init
  <2>2. task \in [Workers -> 1..MaxThunks \cup {NoThunk}]
    BY DEF Init
  <2>3. scheduled \in 0..MaxThunks /\ joinAt \in Nat \ {0} /\ waits \in Nat
    BY DEF Init
  <2>4. /\ queueLock \in Threads \cup {NoThread} /\ done \in BOOLEAN
        /\ taskIsAvailable = {} /\ waitForEmpty = {} /\ finished = {}
    BY DEF Init
  <2> QED
    BY <2>1, <2>2, <2>3, <2>4 DEF DataOK
<1>3. PcOK
  BY DEF Init, PcOK, Pc, WorkerPc, DispatcherPc, CallPc
<1>4. LockInv /\ RoomInv
  BY DEF Init, LockInv, RoomInv, HoldingPc
<1>5. BlockedInv /\ HandInv /\ DoneInv
  BY DEF Init, BlockedInv, HandInv, DoneInv, DonePc, DtorPc, NotifiedPc
<1> QED
  BY <1>2, <1>3, <1>4, <1>5 DEF Control, TypeOK

\* Every step keeps the mutex with one thread, and each thread at a point of its code.
LEMMA ControlStep == Control /\ [Next]_vars => Control'
<1> SUFFICES ASSUME Control, [Next]_vars PROVE Control'
  OBVIOUS
<1> USE DEF Control, TypeOK, DataOK, PcOK, LockInv, BlockedInv, HandInv,
            RoomInv, DoneInv, HoldingPc, Pc, WorkerPc, DispatcherPc, CallPc,
            NotifiedPc, DonePc, DtorPc, Goto, data, condVars, joinVars,
            thunkVars
<1>1. ASSUME NEW w \in Workers, SpawnWorker(w) PROVE Control'
  BY <1>1 DEF SpawnWorker
<1>2. ASSUME SpawnDispatcher PROVE Control'
  <2>1. /\ pc'[Dispatcher] = "loop" /\ pc'[Owner] = "idle"
        /\ \A t \in Threads \ {Dispatcher, Owner} : pc'[t] = pc[t]
    BY <1>2 DEF SpawnDispatcher
  <2>2. pc[Owner] = "ctor" /\ queueLock' = queueLock /\ UNCHANGED data
    BY <1>2 DEF SpawnDispatcher
  <2>3. DataOK'
    BY <2>2
  <2>4. PcOK'
    BY <1>2, <2>1 DEF SpawnDispatcher
  <2>5. RoomInv' /\ DoneInv'
    BY <2>1, <2>2
  <2>6. LockInv'
    BY <1>2, <2>1, <2>2 DEF SpawnDispatcher
  <2>7. HandInv' /\ BlockedInv'
    BY <2>1, <2>2
  <2> QED
    BY <2>3, <2>4, <2>5, <2>6, <2>7
<1>3. ASSUME NEW t \in PoolThreads, AwaitLock(t) PROVE Control'
  BY <1>3 DEF AwaitLock, Lock
<1>4. ASSUME NEW t \in PoolThreads, AwaitBlock(t) PROVE Control'
  BY <1>4 DEF AwaitBlock, MustWait, TaskReady, Unlock
<1>5. ASSUME NEW t \in PoolThreads, AwaitRelock(t) PROVE Control'
  BY <1>5 DEF AwaitRelock, Lock
<1>6. ASSUME NEW t \in PoolThreads, AwaitExit(t) PROVE Control'
  BY <1>6 DEF AwaitExit, MustExit, Unlock
<1>7. ASSUME NEW w \in Workers, WorkerTake(w) PROVE Control'
  BY <1>7 DEF WorkerTake, Pop, ToldEmpty, Unlock
<1>8. ASSUME NEW w \in Workers, WorkerFinish(w) PROVE Control'
  <2>1. task[w] \in 1..MaxThunks
    BY <1>8 DEF WorkerFinish
  <2> QED
    BY <1>8, <2>1 DEF WorkerFinish
<1>9. ASSUME DispatcherLoop PROVE Control'
  BY <1>9 DEF DispatcherLoop
<1>10. ASSUME DispatcherNotify PROVE Control'
  BY <1>10 DEF DispatcherNotify, Unlock
<1>11. ASSUME NEW t \in Threads, ScheduleLock(t) PROVE Control'
  <2>1. DataOK' /\ BlockedInv' /\ RoomInv' /\ DoneInv'
    BY <1>11 DEF ScheduleLock, InPool, Lock
  <2>2. PcOK'
    <3>1. CASE t \in Clients /\ Goto(t, "idle", "pushing")
      BY <3>1
    <3>2. CASE t \in Workers /\ Goto(t, "running", "spawning")
      BY <3>2
    <3> QED
      BY <1>11, <3>1, <3>2 DEF ScheduleLock
  <2>3. LockInv' /\ HandInv'
    BY <1>11 DEF ScheduleLock, InPool, Lock
  <2> QED
    BY <2>1, <2>2, <2>3
<1>12. ASSUME NEW t \in Threads, SchedulePush(t) PROVE Control'
  <2>1. pc[t] \in {"pushing", "spawning"} /\ queueLock = t
    BY <1>12 DEF SchedulePush
  <2>2. taskIsAvailable' \subseteq taskIsAvailable
    BY <1>12 DEF SchedulePush, NotifyOne
  <2>3. scheduled < MaxThunks
    BY <2>1
  <2>4. DataOK'
    BY <1>12, <2>1, <2>2, <2>3 DEF SchedulePush, Push, Unlock
  <2>5. PcOK' /\ BlockedInv' /\ HandInv' /\ DoneInv'
    <3>1. CASE Goto(t, "pushing", "idle")
      BY <1>12, <2>2, <3>1 DEF SchedulePush
    <3>2. CASE Goto(t, "spawning", "running")
      BY <1>12, <2>2, <3>2 DEF SchedulePush
    <3> QED
      BY <1>12, <3>1, <3>2 DEF SchedulePush
  <2>6. \A u \in Threads : pc'[u] \notin HoldingPc
    BY <1>12, <2>1 DEF SchedulePush
  <2>7. LockInv' /\ RoomInv'
    BY <1>12, <2>6 DEF SchedulePush, Unlock
  <2> QED
    BY <2>4, <2>5, <2>7
<1>13. ASSUME NEW c \in Clients, WaitLock(c) PROVE Control'
  BY <1>13 DEF WaitLock, InPool, Lock
<1>14. ASSUME NEW c \in Clients, WaitBlock(c) PROVE Control'
  BY <1>14 DEF WaitBlock, Unlock
<1>15. ASSUME NEW c \in Clients, WaitRelock(c) PROVE Control'
  BY <1>15 DEF WaitRelock, Lock
<1>16. ASSUME NEW c \in Clients, WaitReturn(c) PROVE Control'
  BY <1>16 DEF WaitReturn, NotifyAll, Unlock
<1>17. ASSUME NEW c \in Clients, ClientLeave(c) PROVE Control'
  BY <1>17 DEF ClientLeave
<1>18. ASSUME DtorLock PROVE Control'
  BY <1>18 DEF DtorLock, Lock
<1>19. ASSUME DtorSetDone PROVE Control'
  BY <1>19 DEF DtorSetDone
<1>20. ASSUME DtorUnlock PROVE Control'
  BY <1>20 DEF DtorUnlock, Unlock
<1>21. ASSUME DtorNotify PROVE Control'
  BY <1>21 DEF DtorNotify, NotifyAll
<1>22. ASSUME DtorJoinDispatcher PROVE Control'
  BY <1>22 DEF DtorJoinDispatcher
<1>23. ASSUME DtorJoinWorker PROVE Control'
  BY <1>23 DEF DtorJoinWorker, Join
<1>24. ASSUME DtorReturn PROVE Control'
  BY <1>24 DEF DtorReturn
<1>25. ASSUME NEW t \in Threads, SpuriousWake(t) PROVE Control'
  BY <1>25 DEF SpuriousWake
<1>26. CASE UNCHANGED vars
  BY <1>26 DEF vars
<1> QED
  BY <1>1, <1>2, <1>3, <1>4, <1>5, <1>6, <1>7, <1>8, <1>9, <1>10, <1>11, <1>12,
     <1>13, <1>14, <1>15, <1>16, <1>17, <1>18, <1>19, <1>20, <1>21, <1>22,
     <1>23, <1>24, <1>25, <1>26 DEF Next, Ctor, Dtor, WorkerNext,
     DispatcherNext, Await, ClientCall, ClientNext, Terminated
-----------------------------------------------------------------------------
\* The steps that change the queue or what the workers hold.
LEMMA StepKinds ==
  ASSUME [Next]_vars
  PROVE  \/ \E t \in Threads : SchedulePush(t)
         \/ \E w \in Workers : WorkerTake(w)
         \/ \E w \in Workers : WorkerFinish(w)
         \/ UNCHANGED <<tasks, task, scheduled, finished>>
<1> DEFINE Same == UNCHANGED <<tasks, task, scheduled, finished>>
<1>1. ASSUME NEW t \in Threads,
             AwaitLock(t) \/ AwaitBlock(t) \/ AwaitRelock(t) \/ AwaitExit(t)
             \/ ScheduleLock(t) \/ SpuriousWake(t)
      PROVE  Same
  BY <1>1 DEF AwaitLock, AwaitBlock, AwaitRelock, AwaitExit, ScheduleLock,
              SpuriousWake, data, thunkVars
<1>2. ASSUME NEW c \in Clients,
             WaitLock(c) \/ WaitBlock(c) \/ WaitRelock(c) \/ WaitReturn(c)
             \/ ClientLeave(c)
      PROVE  Same
  BY <1>2 DEF WaitLock, WaitBlock, WaitRelock, WaitReturn, ClientLeave, data,
              thunkVars
<1>3. ASSUME Ctor \/ DtorLock \/ Dtor \/ DispatcherLoop \/ DispatcherNotify
             \/ UNCHANGED vars
      PROVE  Same
  BY <1>3 DEF Ctor, SpawnWorker, SpawnDispatcher, DtorLock, Dtor, DtorSetDone,
              DtorUnlock, DtorNotify, DtorJoinDispatcher, DtorJoinWorker,
              DtorReturn, DispatcherLoop, DispatcherNotify, vars, data, thunkVars
<1> QED
  BY <1>1, <1>2, <1>3 DEF Next, WorkerNext, DispatcherNext, ClientCall,
     ClientNext,
                          Await, Terminated

\* A push and a pop keep the queue in scheduling order.
LEMMA FifoStep ==
  ASSUME Control, FifoQueue, [Next]_vars
  PROVE  FifoQueue'
<1> USE DEF Control, TypeOK, DataOK, FifoQueue
<1>1. ASSUME NEW t \in Threads, SchedulePush(t) PROVE FifoQueue'
  <2>1. tasks' = Append(tasks, scheduled + 1) /\ scheduled' = scheduled + 1
    BY <1>1 DEF SchedulePush, Push
  <2>2. Len(tasks') = Len(tasks) + 1
    BY <2>1
  <2>3. /\ \A i \in 1..Len(tasks) : tasks'[i] = tasks[i]
        /\ tasks'[Len(tasks) + 1] = scheduled + 1
    BY <2>1
  <2>4. ASSUME NEW i \in 1..Len(tasks')
        PROVE  tasks'[i] = scheduled' - Len(tasks') + i
    <3>1. CASE i <= Len(tasks)
      BY <2>1, <2>2, <2>3, <3>1
    <3>2. CASE i = Len(tasks) + 1
      BY <2>1, <2>2, <2>3, <3>2
    <3> QED
      BY <2>2, <3>1, <3>2
  <2> QED
    BY <2>1, <2>2, <2>4
<1>2. ASSUME NEW w \in Workers, WorkerTake(w) PROVE FifoQueue'
  BY <1>2 DEF WorkerTake, Pop
<1>3. ASSUME NEW w \in Workers, WorkerFinish(w) PROVE FifoQueue'
  BY <1>3 DEF WorkerFinish
<1>4. CASE UNCHANGED <<tasks, task, scheduled, finished>>
  BY <1>4
<1> QED
  BY <1>1, <1>2, <1>3, <1>4, StepKinds

\* A thunk goes from the queue to one worker, and from there to the finished ones.
LEMMA OnceStep ==
  ASSUME Control, FifoQueue, EachThunkOnce, [Next]_vars
  PROVE  EachThunkOnce'
<1> USE DEF Control, TypeOK, DataOK, FifoQueue, EachThunkOnce, Taken, InHand
<1>1. ASSUME NEW t \in Threads, SchedulePush(t) PROVE EachThunkOnce'
  <2>1. Len(tasks') = Len(tasks) + 1 /\ scheduled' = scheduled + 1
    BY <1>1 DEF SchedulePush, Push
  <2>2. Taken' = Taken /\ UNCHANGED <<task, finished>>
    BY <1>1, <2>1 DEF SchedulePush
  <2>3. InHand' = InHand
    BY <2>2
  <2> QED
    BY <2>2, <2>3
<1>2. ASSUME NEW w \in Workers, WorkerTake(w) PROVE EachThunkOnce'
  <2> DEFINE k == scheduled - Len(tasks) + 1
  <2>1. Head(tasks) = k /\ Len(tasks') = Len(tasks) - 1 /\ k \in 1..MaxThunks
    BY <1>2 DEF WorkerTake, Pop
  <2>2. task' = [task EXCEPT ![w] = k] /\ UNCHANGED <<finished, scheduled>>
    BY <1>2, <2>1 DEF WorkerTake
  <2>3. task[w] = NoThunk
    BY <1>2 DEF WorkerTake, Goto, HandInv, PcOK
  <2>4. k \notin Taken /\ Taken' = Taken \cup {k}
    BY <2>1, <2>2
  <2>5. InHand' = InHand \cup {k}
    BY <2>1, <2>2, <2>3
  <2>6. \A u \in Workers : task[u] # k
    BY <2>1, <2>4
  <2>7. \A u, v \in Workers : task'[u] = task'[v] /\ task'[u] # NoThunk => u = v
    BY <2>2, <2>6
  <2>8. finished' \cup InHand' = Taken' /\ finished' \cap InHand' = {}
    <3> HIDE DEF Taken, InHand
    <3> QED
      BY <2>2, <2>4, <2>5
  <2> QED
    BY <2>7, <2>8
<1>3. ASSUME NEW w \in Workers, WorkerFinish(w) PROVE EachThunkOnce'
  <2>1. task[w] # NoThunk /\ task[w] \in InHand
    BY <1>3 DEF WorkerFinish, Goto, HandInv
  <2>2. /\ task' = [task EXCEPT ![w] = NoThunk]
        /\ finished' = finished \cup {task[w]} /\ UNCHANGED <<tasks, scheduled>>
    BY <1>3 DEF WorkerFinish
  <2>3. InHand' = InHand \ {task[w]}
    BY <2>1, <2>2
  <2>4. \A u, v \in Workers : task'[u] = task'[v] /\ task'[u] # NoThunk => u = v
    BY <2>2
  <2> QED
    BY <2>1, <2>2, <2>3, <2>4
<1>4. CASE UNCHANGED <<tasks, task, scheduled, finished>>
  BY <1>4
<1> QED
  BY <1>1, <1>2, <1>3, <1>4, StepKinds

\* The worker that empties the queue wakes every client that waits for it.
LEMMA StrandedStep ==
  ASSUME Control, NoStrandedWait, [Next]_vars
  PROVE  NoStrandedWait'
<1> USE DEF Control, TypeOK, DataOK, PcOK, Pc, WorkerPc, DispatcherPc, CallPc,
            DtorPc, DonePc, NotifiedPc, Goto, data, condVars, joinVars,
            thunkVars, NoStrandedWait
<1>1. ASSUME NEW w \in Workers, SpawnWorker(w) PROVE NoStrandedWait'
  BY <1>1 DEF SpawnWorker
<1>2. ASSUME SpawnDispatcher PROVE NoStrandedWait'
  BY <1>2 DEF SpawnDispatcher
<1>3. ASSUME NEW t \in PoolThreads, AwaitLock(t) PROVE NoStrandedWait'
  BY <1>3 DEF AwaitLock, Lock
<1>4. ASSUME NEW t \in PoolThreads, AwaitBlock(t) PROVE NoStrandedWait'
  BY <1>4 DEF AwaitBlock, MustWait, TaskReady, Unlock
<1>5. ASSUME NEW t \in PoolThreads, AwaitRelock(t) PROVE NoStrandedWait'
  BY <1>5 DEF AwaitRelock, Lock
<1>6. ASSUME NEW t \in PoolThreads, AwaitExit(t) PROVE NoStrandedWait'
  BY <1>6 DEF AwaitExit, MustExit, Unlock
<1>7. ASSUME NEW w \in Workers, WorkerTake(w) PROVE NoStrandedWait'
  BY <1>7 DEF WorkerTake, Pop, ToldEmpty, Unlock
<1>8. ASSUME NEW w \in Workers, WorkerFinish(w) PROVE NoStrandedWait'
  BY <1>8 DEF WorkerFinish
<1>9. ASSUME DispatcherLoop PROVE NoStrandedWait'
  BY <1>9 DEF DispatcherLoop
<1>10. ASSUME DispatcherNotify PROVE NoStrandedWait'
  BY <1>10 DEF DispatcherNotify, Unlock
<1>11. ASSUME NEW t \in Threads, ScheduleLock(t) PROVE NoStrandedWait'
  BY <1>11 DEF ScheduleLock, InPool, Lock
<1>12. ASSUME NEW t \in Threads, SchedulePush(t) PROVE NoStrandedWait'
  BY <1>12 DEF SchedulePush, Push, NotifyOne, Unlock
<1>13. ASSUME NEW c \in Clients, WaitLock(c) PROVE NoStrandedWait'
  BY <1>13 DEF WaitLock, InPool, Lock
<1>14. ASSUME NEW c \in Clients, WaitBlock(c) PROVE NoStrandedWait'
  BY <1>14 DEF WaitBlock, Unlock
<1>15. ASSUME NEW c \in Clients, WaitRelock(c) PROVE NoStrandedWait'
  BY <1>15 DEF WaitRelock, Lock
<1>16. ASSUME NEW c \in Clients, WaitReturn(c) PROVE NoStrandedWait'
  BY <1>16 DEF WaitReturn, NotifyAll, Unlock
<1>17. ASSUME NEW c \in Clients, ClientLeave(c) PROVE NoStrandedWait'
  BY <1>17 DEF ClientLeave
<1>18. ASSUME DtorLock PROVE NoStrandedWait'
  BY <1>18 DEF DtorLock, Lock
<1>19. ASSUME DtorSetDone PROVE NoStrandedWait'
  BY <1>19 DEF DtorSetDone
<1>20. ASSUME DtorUnlock PROVE NoStrandedWait'
  BY <1>20 DEF DtorUnlock, Unlock
<1>21. ASSUME DtorNotify PROVE NoStrandedWait'
  BY <1>21 DEF DtorNotify, NotifyAll
<1>22. ASSUME DtorJoinDispatcher PROVE NoStrandedWait'
  BY <1>22 DEF DtorJoinDispatcher
<1>23. ASSUME DtorJoinWorker PROVE NoStrandedWait'
  BY <1>23 DEF DtorJoinWorker, Join
<1>24. ASSUME DtorReturn PROVE NoStrandedWait'
  BY <1>24 DEF DtorReturn
<1>25. ASSUME NEW t \in Threads, SpuriousWake(t) PROVE NoStrandedWait'
  BY <1>25 DEF SpuriousWake
<1>26. CASE UNCHANGED vars
  BY <1>26 DEF vars
<1> QED
  BY <1>1, <1>2, <1>3, <1>4, <1>5, <1>6, <1>7, <1>8, <1>9, <1>10, <1>11, <1>12,
     <1>13, <1>14, <1>15, <1>16, <1>17, <1>18, <1>19, <1>20, <1>21, <1>22,
     <1>23, <1>24, <1>25, <1>26 DEF Next, Ctor, Dtor, WorkerNext,
     DispatcherNext, Await, ClientCall, ClientNext, Terminated

\* Once the destructor has notified no predicate sends a thread to sleep again.
LEMMA WakeStep ==
  ASSUME Control, DtorWakesEveryone, [Next]_vars
  PROVE  DtorWakesEveryone'
<1> USE DEF Control, TypeOK, DataOK, PcOK, Pc, WorkerPc, DispatcherPc, CallPc,
            DtorPc, DonePc, NotifiedPc, Goto, data, condVars, joinVars,
            thunkVars, DoneInv, DtorWakesEveryone
<1>1. ASSUME NEW w \in Workers, SpawnWorker(w) PROVE DtorWakesEveryone'
  BY <1>1 DEF SpawnWorker
<1>2. ASSUME SpawnDispatcher PROVE DtorWakesEveryone'
  BY <1>2 DEF SpawnDispatcher
<1>3. ASSUME NEW t \in PoolThreads, AwaitLock(t) PROVE DtorWakesEveryone'
  BY <1>3 DEF AwaitLock, Lock
<1>4. ASSUME NEW t \in PoolThreads, AwaitBlock(t) PROVE DtorWakesEveryone'
  BY <1>4 DEF AwaitBlock, MustWait, TaskReady, Unlock
<1>5. ASSUME NEW t \in PoolThreads, AwaitRelock(t) PROVE DtorWakesEveryone'
  BY <1>5 DEF AwaitRelock, Lock
<1>6. ASSUME NEW t \in PoolThreads, AwaitExit(t) PROVE DtorWakesEveryone'
  BY <1>6 DEF AwaitExit, MustExit, Unlock
<1>7. ASSUME NEW w \in Workers, WorkerTake(w) PROVE DtorWakesEveryone'
  BY <1>7 DEF WorkerTake, Pop, ToldEmpty, Unlock
<1>8. ASSUME NEW w \in Workers, WorkerFinish(w) PROVE DtorWakesEveryone'
  BY <1>8 DEF WorkerFinish
<1>9. ASSUME DispatcherLoop PROVE DtorWakesEveryone'
  BY <1>9 DEF DispatcherLoop
<1>10. ASSUME DispatcherNotify PROVE DtorWakesEveryone'
  BY <1>10 DEF DispatcherNotify, Unlock
<1>11. ASSUME NEW t \in Threads, ScheduleLock(t) PROVE DtorWakesEveryone'
  BY <1>11 DEF ScheduleLock, InPool, Lock
<1>12. ASSUME NEW t \in Threads, SchedulePush(t) PROVE DtorWakesEveryone'
  BY <1>12 DEF SchedulePush, Push, NotifyOne, Unlock
<1>13. ASSUME NEW c \in Clients, WaitLock(c) PROVE DtorWakesEveryone'
  BY <1>13 DEF WaitLock, InPool, Lock
<1>14. ASSUME NEW c \in Clients, WaitBlock(c) PROVE DtorWakesEveryone'
  BY <1>14 DEF WaitBlock, Unlock
<1>15. ASSUME NEW c \in Clients, WaitRelock(c) PROVE DtorWakesEveryone'
  BY <1>15 DEF WaitRelock, Lock
<1>16. ASSUME NEW c \in Clients, WaitReturn(c) PROVE DtorWakesEveryone'
  BY <1>16 DEF WaitReturn, NotifyAll, Unlock
<1>17. ASSUME NEW c \in Clients, ClientLeave(c) PROVE DtorWakesEveryone'
  BY <1>17 DEF ClientLeave
<1>18. ASSUME DtorLock PROVE DtorWakesEveryone'
  BY <1>18 DEF DtorLock, Lock
<1>19. ASSUME DtorSetDone PROVE DtorWakesEveryone'
  BY <1>19 DEF DtorSetDone
<1>20. ASSUME DtorUnlock PROVE DtorWakesEveryone'
  BY <1>20 DEF DtorUnlock, Unlock
<1>21. ASSUME DtorNotify PROVE DtorWakesEveryone'
  BY <1>21 DEF DtorNotify, NotifyAll
<1>22. ASSUME DtorJoinDispatcher PROVE DtorWakesEveryone'
  BY <1>22 DEF DtorJoinDispatcher
<1>23. ASSUME DtorJoinWorker PROVE DtorWakesEveryone'
  BY <1>23 DEF DtorJoinWorker, Join
<1>24. ASSUME DtorReturn PROVE DtorWakesEveryone'
  BY <1>24 DEF DtorReturn
<1>25. ASSUME NEW t \in Threads, SpuriousWake(t) PROVE DtorWakesEveryone'
  BY <1>25 DEF SpuriousWake
<1>26. CASE UNCHANGED vars
  BY <1>26 DEF vars
<1> QED
  BY <1>1, <1>2, <1>3, <1>4, <1>5, <1>6, <1>7, <1>8, <1>9, <1>10, <1>11, <1>12,
     <1>13, <1>14, <1>15, <1>16, <1>17, <1>18, <1>19, <1>20, <1>21, <1>22,
     <1>23, <1>24, <1>25, <1>26 DEF Next, Ctor, Dtor, WorkerNext,
     DispatcherNext, Await, ClientCall, ClientNext, Terminated

\* The last worker to leave sees an empty queue.
LEMMA ExitStep ==
  ASSUME Control, ExitInv, [Next]_vars
  PROVE  ExitInv'
<1> USE DEF Control, TypeOK, DataOK, PcOK, Pc, WorkerPc, DispatcherPc, CallPc,
            DtorPc, DonePc, NotifiedPc, Goto, data, condVars, joinVars,
            thunkVars, DoneInv, ExitInv
<1>1. ASSUME NEW w \in Workers, SpawnWorker(w) PROVE ExitInv'
  BY <1>1 DEF SpawnWorker
<1>2. ASSUME SpawnDispatcher PROVE ExitInv'
  BY <1>2 DEF SpawnDispatcher
<1>3. ASSUME NEW t \in PoolThreads, AwaitLock(t) PROVE ExitInv'
  BY <1>3 DEF AwaitLock, Lock
<1>4. ASSUME NEW t \in PoolThreads, AwaitBlock(t) PROVE ExitInv'
  BY <1>4 DEF AwaitBlock, MustWait, TaskReady, Unlock
<1>5. ASSUME NEW t \in PoolThreads, AwaitRelock(t) PROVE ExitInv'
  BY <1>5 DEF AwaitRelock, Lock
<1>6. ASSUME NEW t \in PoolThreads, AwaitExit(t) PROVE ExitInv'
  BY <1>6 DEF AwaitExit, MustExit, Unlock
<1>7. ASSUME NEW w \in Workers, WorkerTake(w) PROVE ExitInv'
  BY <1>7 DEF WorkerTake, Pop, ToldEmpty, Unlock
<1>8. ASSUME NEW w \in Workers, WorkerFinish(w) PROVE ExitInv'
  BY <1>8 DEF WorkerFinish
<1>9. ASSUME DispatcherLoop PROVE ExitInv'
  BY <1>9 DEF DispatcherLoop
<1>10. ASSUME DispatcherNotify PROVE ExitInv'
  BY <1>10 DEF DispatcherNotify, Unlock
<1>11. ASSUME NEW t \in Threads, ScheduleLock(t) PROVE ExitInv'
  BY <1>11 DEF ScheduleLock, InPool, Lock
<1>12. ASSUME NEW t \in Threads, SchedulePush(t) PROVE ExitInv'
  BY <1>12 DEF SchedulePush, Push, NotifyOne, Unlock
<1>13. ASSUME NEW c \in Clients, WaitLock(c) PROVE ExitInv'
  BY <1>13 DEF WaitLock, InPool, Lock
<1>14. ASSUME NEW c \in Clients, WaitBlock(c) PROVE ExitInv'
  BY <1>14 DEF WaitBlock, Unlock
<1>15. ASSUME NEW c \in Clients, WaitRelock(c) PROVE ExitInv'
  BY <1>15 DEF WaitRelock, Lock
<1>16. ASSUME NEW c \in Clients, WaitReturn(c) PROVE ExitInv'
  BY <1>16 DEF WaitReturn, NotifyAll, Unlock
<1>17. ASSUME NEW c \in Clients, ClientLeave(c) PROVE ExitInv'
  BY <1>17 DEF ClientLeave
<1>18. ASSUME DtorLock PROVE ExitInv'
  BY <1>18 DEF DtorLock, Lock
<1>19. ASSUME DtorSetDone PROVE ExitInv'
  BY <1>19 DEF DtorSetDone
<1>20. ASSUME DtorUnlock PROVE ExitInv'
  BY <1>20 DEF DtorUnlock, Unlock
<1>21. ASSUME DtorNotify PROVE ExitInv'
  BY <1>21 DEF DtorNotify, NotifyAll
<1>22. ASSUME DtorJoinDispatcher PROVE ExitInv'
  BY <1>22 DEF DtorJoinDispatcher
<1>23. ASSUME DtorJoinWorker PROVE ExitInv'
  BY <1>23 DEF DtorJoinWorker, Join
<1>24. ASSUME DtorReturn PROVE ExitInv'
  BY <1>24 DEF DtorReturn
<1>25. ASSUME NEW t \in Threads, SpuriousWake(t) PROVE ExitInv'
  BY <1>25 DEF SpuriousWake
<1>26. CASE UNCHANGED vars
  BY <1>26 DEF vars
<1> QED
  BY <1>1, <1>2, <1>3, <1>4, <1>5, <1>6, <1>7, <1>8, <1>9, <1>10, <1>11, <1>12,
     <1>13, <1>14, <1>15, <1>16, <1>17, <1>18, <1>19, <1>20, <1>21, <1>22,
     <1>23, <1>24, <1>25, <1>26 DEF Next, Ctor, Dtor, WorkerNext,
     DispatcherNext, Await, ClientCall, ClientNext, Terminated

\* The destructor goes on only past threads that ended or were never there.
LEMMA JoinStep ==
  ASSUME Control, JoinInv, [Next]_vars
  PROVE  JoinInv'
<1> USE DEF Control, TypeOK, DataOK, PcOK, Pc, WorkerPc, DispatcherPc, CallPc,
            DtorPc, DonePc, NotifiedPc, Goto, data, condVars, joinVars,
            thunkVars, DoneInv, JoinInv
<1>1. ASSUME NEW w \in Workers, SpawnWorker(w) PROVE JoinInv'
  BY <1>1 DEF SpawnWorker
<1>2. ASSUME SpawnDispatcher PROVE JoinInv'
  BY <1>2 DEF SpawnDispatcher
<1>3. ASSUME NEW t \in PoolThreads, AwaitLock(t) PROVE JoinInv'
  BY <1>3 DEF AwaitLock, Lock
<1>4. ASSUME NEW t \in PoolThreads, AwaitBlock(t) PROVE JoinInv'
  BY <1>4 DEF AwaitBlock, MustWait, TaskReady, Unlock
<1>5. ASSUME NEW t \in PoolThreads, AwaitRelock(t) PROVE JoinInv'
  BY <1>5 DEF AwaitRelock, Lock
<1>6. ASSUME NEW t \in PoolThreads, AwaitExit(t) PROVE JoinInv'
  BY <1>6 DEF AwaitExit, MustExit, Unlock
<1>7. ASSUME NEW w \in Workers, WorkerTake(w) PROVE JoinInv'
  BY <1>7 DEF WorkerTake, Pop, ToldEmpty, Unlock
<1>8. ASSUME NEW w \in Workers, WorkerFinish(w) PROVE JoinInv'
  BY <1>8 DEF WorkerFinish
<1>9. ASSUME DispatcherLoop PROVE JoinInv'
  BY <1>9 DEF DispatcherLoop
<1>10. ASSUME DispatcherNotify PROVE JoinInv'
  BY <1>10 DEF DispatcherNotify, Unlock
<1>11. ASSUME NEW t \in Threads, ScheduleLock(t) PROVE JoinInv'
  BY <1>11 DEF ScheduleLock, InPool, Lock
<1>12. ASSUME NEW t \in Threads, SchedulePush(t) PROVE JoinInv'
  BY <1>12 DEF SchedulePush, Push, NotifyOne, Unlock
<1>13. ASSUME NEW c \in Clients, WaitLock(c) PROVE JoinInv'
  BY <1>13 DEF WaitLock, InPool, Lock
<1>14. ASSUME NEW c \in Clients, WaitBlock(c) PROVE JoinInv'
  BY <1>14 DEF WaitBlock, Unlock
<1>15. ASSUME NEW c \in Clients, WaitRelock(c) PROVE JoinInv'
  BY <1>15 DEF WaitRelock, Lock
<1>16. ASSUME NEW c \in Clients, WaitReturn(c) PROVE JoinInv'
  BY <1>16 DEF WaitReturn, NotifyAll, Unlock
<1>17. ASSUME NEW c \in Clients, ClientLeave(c) PROVE JoinInv'
  BY <1>17 DEF ClientLeave
<1>18. ASSUME DtorLock PROVE JoinInv'
  BY <1>18 DEF DtorLock, Lock
<1>19. ASSUME DtorSetDone PROVE JoinInv'
  BY <1>19 DEF DtorSetDone
<1>20. ASSUME DtorUnlock PROVE JoinInv'
  BY <1>20 DEF DtorUnlock, Unlock
<1>21. ASSUME DtorNotify PROVE JoinInv'
  BY <1>21 DEF DtorNotify, NotifyAll
<1>22. ASSUME DtorJoinDispatcher PROVE JoinInv'
  BY <1>22 DEF DtorJoinDispatcher
<1>23. ASSUME DtorJoinWorker PROVE JoinInv'
  BY <1>23 DEF DtorJoinWorker, Join
<1>24. ASSUME DtorReturn PROVE JoinInv'
  BY <1>24 DEF DtorReturn
<1>25. ASSUME NEW t \in Threads, SpuriousWake(t) PROVE JoinInv'
  BY <1>25 DEF SpuriousWake
<1>26. CASE UNCHANGED vars
  BY <1>26 DEF vars
<1> QED
  BY <1>1, <1>2, <1>3, <1>4, <1>5, <1>6, <1>7, <1>8, <1>9, <1>10, <1>11, <1>12,
     <1>13, <1>14, <1>15, <1>16, <1>17, <1>18, <1>19, <1>20, <1>21, <1>22,
     <1>23, <1>24, <1>25, <1>26 DEF Next, Ctor, Dtor, WorkerNext,
     DispatcherNext, Await, ClientCall, ClientNext, Terminated
-----------------------------------------------------------------------------
\* Every step preserves the invariant, by one lemma for each of its parts,
LEMMA InvStep == IInv /\ [Next]_vars => IInv'
  BY ControlStep, ExitStep, JoinStep, FifoStep, OnceStep, StrandedStep, WakeStep
     DEF IInv

\* which therefore holds in every state.
LEMMA Inductive == Init /\ [][Next]_vars => []IInv
<1>1. Init => IInv
  <2> SUFFICES ASSUME Init PROVE IInv
    OBVIOUS
  <2>1. Control
    BY ControlInit
  <2>2. ExitInv /\ NoStrandedWait /\ DtorWakesEveryone
    BY DEF Init, ExitInv, NoStrandedWait, DtorWakesEveryone
  <2>3. JoinInv
    BY <2>1 DEF Init, JoinInv, Control, TypeOK, DataOK
  <2>4. Len(tasks) = 0 /\ scheduled = 0 /\ finished = {} /\ InHand = {}
    BY DEF Init, InHand
  <2>5. FifoQueue /\ EachThunkOnce
    BY <2>4 DEF Init, FifoQueue, EachThunkOnce, Taken
  <2> QED
    BY <2>1, <2>2, <2>3, <2>5 DEF IInv
<1> QED
  BY <1>1, InvStep, PTL

\* Every variable keeps its type and every thread stays inside its own code.
THEOREM TypeCorrect == Spec => []TypeOK
<1>1. IInv => TypeOK
  BY DEF IInv, Control
<1> QED
  BY <1>1, Inductive, PTL DEF Spec

\* The queue always holds the thunks scheduled last, oldest first.
THEOREM Fifo == Spec => []FifoQueue
<1>1. IInv => FifoQueue
  BY DEF IInv
<1> QED
  BY <1>1, Inductive, PTL DEF Spec

\* No thunk is lost or run twice between schedule() and the end of its run.
THEOREM ExactlyOnce == Spec => []EachThunkOnce
<1>1. IInv => EachThunkOnce
  BY DEF IInv
<1> QED
  BY <1>1, Inductive, PTL DEF Spec

\* wait() never leaves a client asleep over an empty queue.
THEOREM WaitersAreTold == Spec => []NoStrandedWait
<1>1. IInv => NoStrandedWait
  BY DEF IInv
<1> QED
  BY <1>1, Inductive, PTL DEF Spec

\* The destructor's notification is never missed.
THEOREM DestructorIsHeard == Spec => []DtorWakesEveryone
<1>1. IInv => DtorWakesEveryone
  BY DEF IInv
<1> QED
  BY <1>1, Inductive, PTL DEF Spec

\* When everything is joined the workers have left and the queue has been run.
LEMMA JoinedDrained ==
  ASSUME IInv, pc[Owner] \in {"joinWorkers", "destroyed"}, joinAt > Len(wts)
  PROVE  finished = 1..scheduled /\ \A t \in PoolThreads : pc[t] = "exited"
<1>1. ASSUME NEW w \in Workers PROVE pc[w] = "exited"
  BY DEF IInv, JoinInv, Control, TypeOK, DataOK
<1>2. tasks = <<>>
  BY <1>1 DEF IInv, ExitInv
<1>3. InHand = {}
  BY <1>1 DEF IInv, Control, HandInv, InHand
<1>4. finished = 1..scheduled
  BY <1>2, <1>3 DEF IInv, EachThunkOnce, Taken, Control, TypeOK, DataOK
<1>5. pc[Dispatcher] = "exited"
  BY DEF IInv, JoinInv
<1> QED
  BY <1>1, <1>4, <1>5

\* So has it when the destructor returns.
LEMMA DestroyedDrained == IInv => DestroyedIsDrained
  BY JoinedDrained DEF DestroyedIsDrained, IInv, JoinInv

\* A destroyed pool has run everything and has no thread left.
THEOREM DestructorDrains == Spec => []DestroyedIsDrained
  BY DestroyedDrained, Inductive, PTL DEF Spec

-----------------------------------------------------------------------------
\* Only the end of the destructor closes the pool.
LEMMA OpenStep ==
  ASSUME Control, [Next]_vars, ~DtorReturn
  PROVE  pc'[Owner] = "destroyed" <=> pc[Owner] = "destroyed"
<1> DEFINE Same == pc'[Owner] = "destroyed" <=> pc[Owner] = "destroyed"
<1> USE DEF Control, TypeOK, PcOK, CallPc, DtorPc, DonePc, NotifiedPc, Goto
<1>1. ASSUME NEW t \in PoolThreads,
             AwaitLock(t) \/ AwaitBlock(t) \/ AwaitRelock(t) \/ AwaitExit(t)
      PROVE  Same
  BY <1>1 DEF AwaitLock, AwaitBlock, AwaitRelock, AwaitExit
<1>2. ASSUME NEW w \in Workers, WorkerTake(w) \/ WorkerFinish(w) PROVE Same
  BY <1>2 DEF WorkerTake, WorkerFinish
<1>3. ASSUME NEW t \in Threads,
             ScheduleLock(t) \/ SchedulePush(t) \/ SpuriousWake(t)
      PROVE  Same
  BY <1>3 DEF ScheduleLock, SchedulePush, SpuriousWake
<1>4. ASSUME NEW c \in Clients,
             WaitLock(c) \/ WaitBlock(c) \/ WaitRelock(c) \/ WaitReturn(c)
             \/ ClientLeave(c)
      PROVE  Same
  BY <1>4 DEF WaitLock, WaitBlock, WaitRelock, WaitReturn, ClientLeave
<1>5. ASSUME Ctor \/ DispatcherLoop \/ DispatcherNotify PROVE Same
  BY <1>5 DEF Ctor, SpawnWorker, SpawnDispatcher, DispatcherLoop, DispatcherNotify
<1>6. ASSUME DtorLock \/ Dtor PROVE Same
  BY <1>6 DEF DtorLock, Dtor, DtorSetDone, DtorUnlock, DtorNotify,
              DtorJoinDispatcher, DtorJoinWorker
<1>7. ASSUME UNCHANGED vars PROVE Same
  BY <1>7 DEF vars
<1> QED
  BY <1>1, <1>2, <1>3, <1>4, <1>5, <1>6, <1>7
     DEF Next, WorkerNext, DispatcherNext, ClientCall, ClientNext, Await, Terminated

\* Every step is one of the abstract pool, or changes nothing it sees.
LEMMA RefinementStep == IInv /\ [Next]_vars => [Abstract!Next]_Abstract!vars
<1> SUFFICES ASSUME IInv, [Next]_vars PROVE [Abstract!Next]_Abstract!vars
  OBVIOUS
<1> DEFINE IsOpen == pc[Owner] # "destroyed"
<1>0. Control /\ FifoQueue /\ EachThunkOnce /\ JoinInv
  BY DEF IInv
<1>1. ASSUME NEW t \in Threads, SchedulePush(t) PROVE Abstract!Submit
  <2>1. scheduled < MaxThunks
    BY <1>0, <1>1 DEF SchedulePush, Goto, Control, RoomInv
  <2>2. IsOpen
    <3>1. t \in PoolThreads => pc[t] # "pushing"
      BY <1>0 DEF Control, TypeOK, PcOK, WorkerPc, DispatcherPc
    <3>2. CASE t \in PoolThreads
      BY <1>1, <3>1, <3>2, DestroyedDrained DEF SchedulePush, Goto,
         DestroyedIsDrained
    <3>3. CASE t \in Clients
      BY <1>0, <1>1, <3>3 DEF SchedulePush, Goto, Control, DoneInv, DtorPc,
         DonePc,
                              NotifiedPc, TypeOK, PcOK, CallPc
    <3> QED
      BY <3>2, <3>3
  <2>3. ~DtorReturn
    BY <1>0, <1>1 DEF DtorReturn, SchedulePush, data, thunkVars, Control,
       TypeOK, DataOK
  <2>4. IsOpen'
    BY <1>0, <2>2, <2>3, OpenStep
  <2> QED
    BY <1>1, <2>1, <2>2, <2>4 DEF Abstract!Submit, SchedulePush, Push
<1>2. ASSUME NEW w \in Workers, WorkerTake(w) PROVE Abstract!Start(w)
  <2>1. task[w] = NoThunk
    BY <1>0, <1>2 DEF WorkerTake, Goto, Control, HandInv, TypeOK, PcOK
  <2>2. ~DtorReturn
    BY <1>0, <1>2 DEF DtorReturn, WorkerTake, Pop, data, Control, TypeOK, DataOK
  <2>3. IsOpen' <=> IsOpen
    BY <1>0, <2>2, OpenStep
  <2> QED
    BY <1>2, <2>1, <2>3 DEF Abstract!Start, WorkerTake, Pop
<1>3. ASSUME NEW w \in Workers, WorkerFinish(w) PROVE Abstract!Finish(w)
  <2>1. task[w] # NoThunk
    BY <1>0, <1>3 DEF WorkerFinish, Goto, Control, HandInv
  <2>2. task[w] \notin finished
    BY <1>0, <2>1 DEF EachThunkOnce, InHand
  <2>3. ~DtorReturn
    BY <1>0, <1>3, <2>1, <2>2 DEF DtorReturn, WorkerFinish, data, thunkVars
  <2>4. IsOpen' <=> IsOpen
    BY <1>0, <2>3, OpenStep
  <2> QED
    BY <1>3, <2>1, <2>2, <2>4 DEF Abstract!Finish, WorkerFinish
<1>4. ASSUME DtorReturn PROVE Abstract!Close
  <2>1. IsOpen /\ ~IsOpen' /\ UNCHANGED data
    BY <1>0, <1>4 DEF DtorReturn, Goto, Control, TypeOK, PcOK
  <2>2. finished = 1..scheduled
    BY <1>4, JoinedDrained DEF DtorReturn, Goto
  <2> QED
    BY <2>1, <2>2 DEF Abstract!Close, data, thunkVars
<1>5. CASE ~DtorReturn /\ UNCHANGED <<tasks, task, scheduled, finished>>
  BY <1>0, <1>5, OpenStep DEF Abstract!vars
<1> QED
  BY <1>1, <1>2, <1>3, <1>4, <1>5, StepKinds DEF Abstract!Next

\* ThreadPool implements TaskPool: with every interleaving of threads, spurious
\* wake-up and nested schedule(), what its users see is a FIFO executor that
\* closes only when it is empty.
THEOREM Refinement == Spec => ImplementsTaskPool
<1>1. Init => Abstract!Init
  BY DEF Init, Abstract!Init
<1> QED
  BY <1>1, RefinementStep, Inductive, PTL DEF Spec, ImplementsTaskPool,
     Abstract!Spec
-----------------------------------------------------------------------------
\* A quotient rounded up.
LEMMA RoundedUp ==
  ASSUME NEW n \in Nat \ {0}, NEW t \in Nat \ {0}
  PROVE  chunkSize(n, t) \in Nat \ {0} /\ n <= t * chunkSize(n, t)
<1> DEFINE q == (n + t - 1) \div t
           r == (n + t - 1) % t
<1>1. q \in Int /\ r \in 0..t - 1 /\ n + t - 1 = t * q + r
  <2>1. n + t - 1 \in Int
    OBVIOUS
  <2>2. \A a \in Int : a \div t \in Int /\ a % t \in 0..t - 1 /\ a = t * (a \div t) + (a % t)
    OBVIOUS
  <2> QED
    BY <2>1, <2>2
<1> HIDE DEF q, r
<1>2. n <= t * q
  BY <1>1
<1>3. q > 0
  <2> SUFFICES ASSUME q <= 0 PROVE FALSE
    BY <1>1
  <2>1. t * q <= 0
    BY <1>1
  <2>2. t * q \in Int /\ n >= 1
    BY <1>1
  <2> HIDE DEF q
  <2>3. \A m \in Int : ~(n <= m /\ m <= 0)
    BY <2>2
  <2> QED
    BY <1>2, <2>1, <2>2, <2>3
<1> QED
  BY <1>1, <1>2, <1>3 DEF chunkSize, q

\* Neighbouring multiples of c are c apart: x lies between one pair of them.
LEMMA Between ==
  ASSUME NEW c \in Nat \ {0}, NEW x \in Int, NEW i \in Int, NEW j \in Int,
         i * c <= x, x < i * c + c, j * c <= x, x < j * c + c
  PROVE  i = j
<1>1. ASSUME NEW a \in Int, NEW b \in Int, a < b PROVE a * c + c <= b * c
  <2>1. (b - a) * c >= c
    BY <1>1
  <2> QED
    BY <2>1
<1>2. ~(i < j)
  BY <1>1
<1>3. ~(j < i)
  BY <1>1
<1> QED
  BY <1>2, <1>3

\* Whatever the number of data and of threads, the iterators computeSum() is given
\* are in order and inside data, and every element is in one chunk that is
\* scheduled, and in no other: the total counts each element once.
THEOREM ChunksPartition ==
  ASSUME NEW n \in Nat, NEW numThreads \in Nat \ {0}
  PROVE  /\ \A i \in Scheduled(n, numThreads) :
              /\ 0 <= start(n, numThreads, i)
              /\ start(n, numThreads, i) < end(n, numThreads, i)
              /\ end(n, numThreads, i) <= n
         /\ \A x \in 0..n - 1 :
              /\ \E i \in Scheduled(n, numThreads) : x \in Chunk(n, numThreads, i)
              /\ \A i, j \in Scheduled(n, numThreads) :
                   x \in Chunk(n, numThreads, i) /\ x \in Chunk(n, numThreads, j) => i = j
<1> DEFINE c == chunkSize(n, numThreads)
<1>1. CASE n = 0
  <2>1. c \in Int /\ \A i \in 0..numThreads - 1 : i * c >= 0
    <3>1. (n + numThreads - 1) \div numThreads = 0
      BY <1>1
    <3> QED
      BY <3>1 DEF chunkSize
  <2>2. Scheduled(n, numThreads) = {}
    BY <1>1, <2>1 DEF Scheduled, start
  <2> QED
    BY <1>1, <2>2
<1>2. CASE n # 0
  <2>1. c \in Nat \ {0} /\ n <= numThreads * c
    BY <1>2, RoundedUp
  <2> HIDE DEF c
  <2>2. \A i \in Scheduled(n, numThreads) :
          /\ i \in 0..numThreads - 1 /\ start(n, numThreads, i) = i * c
          /\ i * c \in Nat /\ i * c < n
          /\ end(n, numThreads, i) = IF i * c + c < n THEN i * c + c ELSE n
    <3>1. \A i \in Nat : i * c \in Nat
      BY <2>1
    <3> QED
      BY <3>1 DEF Scheduled, start, end, c
  <2>3. ASSUME NEW x \in 0..n - 1
        PROVE  \E i \in Scheduled(n, numThreads) : x \in Chunk(n, numThreads, i)
    <3> DEFINE i == x \div c
    <3>1. i \in Int /\ x % c \in 0..c - 1 /\ x = c * i + (x % c)
      BY <2>1
    <3> HIDE DEF i
    <3>2. i >= 0
      <4> SUFFICES ASSUME i <= -1 PROVE FALSE
        BY <3>1
      <4>1. c * i <= c * (-1)
        BY <2>1, <3>1
      <4> QED
        BY <2>1, <3>1, <4>1
    <3>3. i < numThreads
      <4> SUFFICES ASSUME i >= numThreads PROVE FALSE
        BY <3>1
      <4>1. c * i >= c * numThreads
        BY <2>1, <3>1
      <4> QED
        BY <2>1, <3>1, <4>1
    <3>4. i * c = c * i /\ i * c <= x /\ x < i * c + c
      BY <2>1, <3>1
    <3>5. i \in Scheduled(n, numThreads)
      <4>1. i \in 0..numThreads - 1 /\ i * c < n
        BY <2>1, <3>1, <3>2, <3>3, <3>4
      <4>2. start(n, numThreads, i) = i * c
        BY DEF start, c
      <4> QED
        BY <4>1, <4>2 DEF Scheduled
    <3>6. x \in Chunk(n, numThreads, i)
      BY <2>1, <2>2, <3>4, <3>5 DEF Chunk
    <3> QED
      BY <3>5, <3>6
  <2>4. ASSUME NEW x \in 0..n - 1,
               NEW i \in Scheduled(n, numThreads), NEW j \in Scheduled(n, numThreads),
               x \in Chunk(n, numThreads, i), x \in Chunk(n, numThreads, j)
        PROVE  i = j
    <3>1. i \in Int /\ i * c <= x /\ x < i * c + c
      BY <2>1, <2>2, <2>4 DEF Chunk
    <3>2. j \in Int /\ j * c <= x /\ x < j * c + c
      BY <2>1, <2>2, <2>4 DEF Chunk
    <3> QED
      BY <2>1, <3>1, <3>2, Between
  <2>5. \A i \in Scheduled(n, numThreads) :
          /\ 0 <= start(n, numThreads, i)
          /\ start(n, numThreads, i) < end(n, numThreads, i)
          /\ end(n, numThreads, i) <= n
    BY <2>1, <2>2
  <2> QED
    BY <2>3, <2>4, <2>5
<1> QED
  BY <1>1, <1>2
=============================================================================
