------------------------ MODULE ThreadPoolProperties ------------------------
(***************************************************************************)
(* What ThreadPool keeps and what it promises.                             *)
(***************************************************************************)
EXTENDS ThreadPool

WorkerPc     == {"unborn", "start", "check", "blocked", "running", "spawning",
                 "exited"}
DispatcherPc == {"unborn", "loop", "start", "check", "blocked", "exited"}
CallPc       == {"idle", "pushing", "waitCheck", "waitBlocked"}
NotifiedPc   == {"joinDispatcher", "joinWorkers", "destroyed"}
DonePc       == NotifiedPc \cup {"dtorUnlock", "dtorNotify"}
DtorPc       == DonePc \cup {"dtorLocked"}
Pc           == WorkerPc \cup DispatcherPc \cup CallPc \cup DtorPc \cup {"ctor", "left"}

\* Where a thread holds queueLock.
HoldingPc == {"check", "spawning", "pushing", "waitCheck", "dtorLocked",
              "dtorUnlock"}

\* The thunks that have left the queue, and those that are being run.
Taken  == 1..(scheduled - Len(tasks))
InHand == {task[w] : w \in Workers} \ {NoThunk}

\* Every variable has its type, and every thread is at a point of its own code.
DataOK ==
  /\ queueLock \in Threads \cup {NoThread}
  /\ tasks \in Seq(1..MaxThunks)
  /\ done \in BOOLEAN
  /\ taskIsAvailable \subseteq PoolThreads
  /\ waitForEmpty \subseteq Clients
  /\ wts \in Seq(Workers \cup {NoThread})
  /\ joinAt \in Nat \ {0}
  /\ task \in [Workers -> 1..MaxThunks \cup {NoThunk}]
  /\ scheduled \in 0..MaxThunks
  /\ finished \subseteq 1..MaxThunks
  /\ waits \in Nat

PcOK ==
  /\ pc \in [Threads -> Pc]
  /\ \A w \in Workers : pc[w] \in WorkerPc
  /\ pc[Dispatcher] \in DispatcherPc
  /\ pc[Owner] \in {"ctor"} \cup CallPc \cup DtorPc
  /\ \A c \in Clients \ {Owner} : pc[c] \in {"left"} \cup CallPc

TypeOK == DataOK /\ PcOK
-----------------------------------------------------------------------------
\* The queue is FIFO: whoever pushes and whoever pops, it holds the thunks
\* scheduled last, oldest first (thread-pool.h:5-7).
FifoQueue ==
  /\ Len(tasks) <= scheduled
  /\ \A i \in 1..Len(tasks) : tasks[i] = scheduled - Len(tasks) + i

\* No thunk is lost between the queue and its execution, run by two workers or
\* run twice: each one that left the queue is either finished or in the hands
\* of exactly one worker.
EachThunkOnce ==
  /\ finished \cup InHand = Taken
  /\ finished \cap InHand = {}
  /\ \A v, w \in Workers : task[v] = task[w] /\ task[v] # NoThunk => v = w

\* A client asleep inside wait() has been told as soon as the queue emptied:
\* none sleeps on waitForEmpty while there is nothing to wait for.
NoStrandedWait == waitForEmpty # {} => tasks # <<>>

\* Once the destructor has notified, no pool thread sleeps on taskIsAvailable
\* or goes back to sleep, although the flag is raised and the notification is
\* sent in two steps, the second without the mutex.
DtorWakesEveryone == pc[Owner] \in NotifiedPc => taskIsAvailable = {}

\* The destructor returns only when every thunk ever scheduled has run, those
\* that thunks scheduled while it was waiting included, and every thread of the
\* pool has ended (thread-pool.h:63-67).
DestroyedIsDrained ==
  pc[Owner] = "destroyed" =>
    /\ finished = 1..scheduled
    /\ \A t \in PoolThreads : pc[t] = "exited"

-----------------------------------------------------------------------------
\* The pool implements the abstract FIFO executor, a worker being a slot.
Abstract == INSTANCE TaskPool WITH
  Slots     <- Workers,
  queue     <- tasks,
  slot      <- task,
  submitted <- scheduled,
  open      <- pc[Owner] # "destroyed"

ImplementsTaskPool == Abstract!Spec
-----------------------------------------------------------------------------
\* Once begun, the destructor returns, whatever order the threads run in: the
\* dispatcher stops turning and the workers drain the queue.  This needs no
\* fairness from the mutex, because each thread takes it finitely often now.
DtorReturns == pc[Owner] = "dtorLocked" ~> pc[Owner] = "destroyed"

\* A worker that is not asleep on taskIsAvailable keeps taking thunks until the
\* queue is empty, so every thunk queued while one is awake gets run; provided
\* the mutex is fair, for the dispatcher never stops asking for it.
Awake(w) == pc[w] \in {"start", "check", "running", "spawning"}

AwakeWorkerDrains ==
  FairMutex => \A i \in 1..MaxThunks :
    (scheduled >= i /\ \E w \in Workers : Awake(w)) ~> i \in finished

\* thread-pool.h:49-52: a scheduled thunk is executed "as soon as all
\* previously scheduled thunks have been handled".
ScheduledRuns == \A i \in 1..MaxThunks : scheduled >= i ~> i \in finished

\* thread-pool.h:58-59: wait() returns when "all previously scheduled thunks
\* have been executed in full".  (Exact when one client is the only caller.)
WaitIsForExecution ==
  [][\A c \in Clients : WaitReturn(c) => finished = 1..scheduled]_vars
=============================================================================
