----------------------------- MODULE ThreadPool -----------------------------
(***************************************************************************)
(* The ThreadPool of TP5-ThreadPool/src/thread-pool.{h,cc}: one queue of   *)
(* thunks behind one mutex, the workers that take thunks from it, the      *)
(* dispatcher, and the client threads that call schedule(), wait() and the *)
(* destructor.  A step is what a thread does between two points where      *)
(* another thread can see a difference: taking the mutex, blocking on a    *)
(* condition variable, a whole critical section, an unlocked access.       *)
(*                                                                         *)
(* A thunk is known by its position in scheduling order.  Its body may     *)
(* call schedule() on the same pool any number of times, and returns; a    *)
(* null thunk, which `if (task)` skips, behaves like one that does nothing.*)
(*                                                                         *)
(* A definition marked "mutant of" is no part of the model: it is what the *)
(* code would do with a plausible mistake in it, and the properties are    *)
(* checked to notice.                                                      *)
(***************************************************************************)
EXTENDS Integers, Sequences, FiniteSets

CONSTANTS
  Workers,     \* the threads the constructor puts in wts
  Dispatcher,  \* the thread dt
  Clients,     \* the threads that use the pool
  Owner,       \* the client in whose scope the pool is built and destroyed
  NoThread,    \* a mutex that is free, a worker_t without a thread
  NoThunk,     \* a worker between two thunks
  MaxThunks,   \* bound: calls of schedule()
  MaxWaits     \* bound: calls of wait()

PoolThreads == Workers \cup {Dispatcher}
Threads     == PoolThreads \cup Clients

ASSUME ConstantsAssumption ==
  /\ IsFiniteSet(Workers) /\ Workers # {}
  /\ Owner \in Clients
  /\ Dispatcher \notin Workers /\ PoolThreads \cap Clients = {}
  /\ NoThread \notin Threads
  /\ MaxThunks \in Nat /\ MaxWaits \in Nat
  /\ NoThunk \notin 1..MaxThunks

VARIABLES
  queueLock,        \* the thread that holds the mutex, or NoThread
  tasks,            \* the queue
  done,             \* the flag the destructor raises
  taskIsAvailable,  \* the pool threads blocked on this condition variable
  waitForEmpty,     \* the clients blocked on this condition variable
  wts,              \* the thread of every element of the vector
  joinAt,           \* the element of wts the destructor joins next
  pc,               \* where each thread is
  task,             \* the local variable of each worker's loop
  scheduled,        \* history: thunks pushed so far
  finished,         \* history: thunks whose execution has ended
  waits             \* history: calls of wait(), for the bound

condVars  == <<taskIsAvailable, waitForEmpty>>
joinVars  == <<wts, joinAt>>
thunkVars == <<task, scheduled, finished>>
data      == <<tasks, done, condVars, joinVars, thunkVars, waits>>
vars      == <<queueLock, pc, data>>

Init ==
  /\ queueLock = NoThread
  /\ tasks = <<>>
  /\ done = FALSE
  /\ taskIsAvailable = {}
  /\ waitForEmpty = {}
  /\ wts = [i \in 1..Cardinality(Workers) |-> NoThread]
  /\ joinAt = 1
  /\ pc = [t \in Threads |-> IF t \in PoolThreads THEN "unborn"
                             ELSE IF t = Owner THEN "ctor" ELSE "idle"]
  /\ task = [w \in Workers |-> NoThunk]
  /\ scheduled = 0
  /\ finished = {}
  /\ waits = 0
-----------------------------------------------------------------------------
Goto(t, from, to) == pc[t] = from /\ pc' = [pc EXCEPT ![t] = to]

Lock(t) == queueLock = NoThread /\ queueLock' = t
Unlock  == queueLock' = NoThread

\* taskIsAvailable.notify_one(): one blocked thread, whichever it is.
NotifyOne ==
  IF taskIsAvailable = {}
  THEN UNCHANGED taskIsAvailable
  ELSE \E t \in taskIsAvailable : taskIsAvailable' = taskIsAvailable \ {t}

\* taskIsAvailable.notify_all().
NotifyAll == taskIsAvailable' = {}

\* The queue, pushed and popped.
PushFront(thunk) == tasks' = <<thunk>> \o tasks              \* mutant of Push
Push(thunk)      == tasks' = Append(tasks, thunk)
Peek             == UNCHANGED tasks                          \* mutant of Pop
Pop              == tasks' = Tail(tasks)

\* The predicate of both waits on taskIsAvailable.
TaskQueued == tasks # <<>>                                   \* mutant of TaskReady
TaskReady  == tasks # <<>> \/ done

\* When such a wait blocks, and when the loop around it is left.
Always     == TRUE                                           \* mutant of MustWait
MustWait   == ~TaskReady
IsDone     == done                                           \* mutant of MustExit
MustExit   == done /\ tasks = <<>>

\* Whom a worker that leaves the queue as q still keeps asleep in wait().
LastTaken(q) == IF Len(q) = 1 THEN {} ELSE waitForEmpty      \* mutant of ToldEmpty
ToldEmpty(q) == IF q = <<>> THEN {} ELSE waitForEmpty

\* Whether the destructor may go past an element of wts.
Detach(ts) == TRUE                                           \* mutant of Join
Join(ts)   == ts # NoThread => pc[ts] = "exited"
-----------------------------------------------------------------------------
(* The constructor: wts(numThreads) already holds numThreads elements with *)
(* no thread when the loop appends the real ones behind them.              *)

SpawnWorker(w) ==
  /\ pc[Owner] = "ctor"
  /\ Goto(w, "unborn", "start")
  /\ wts' = Append(wts, w)
  /\ UNCHANGED <<queueLock, tasks, done, condVars, joinAt, thunkVars, waits>>

SpawnDispatcher ==
  /\ pc[Owner] = "ctor"
  /\ \A w \in Workers : pc[w] # "unborn"
  /\ pc' = [pc EXCEPT ![Dispatcher] = "loop", ![Owner] = "idle"]
  /\ UNCHANGED <<queueLock, data>>
-----------------------------------------------------------------------------
(* taskIsAvailable.wait(lock, pred), in worker() and in dispatcher().      *)

AwaitLock(t) ==
  /\ Goto(t, "start", "check")
  /\ Lock(t)
  /\ UNCHANGED data

AwaitBlock(t) ==
  /\ MustWait
  /\ Goto(t, "check", "blocked")
  /\ taskIsAvailable' = taskIsAvailable \cup {t}
  /\ Unlock
  /\ UNCHANGED <<tasks, done, waitForEmpty, joinVars, thunkVars, waits>>

AwaitRelock(t) ==
  /\ t \notin taskIsAvailable
  /\ Goto(t, "blocked", "check")
  /\ Lock(t)
  /\ UNCHANGED data

\* `if (done && tasks.empty()) break;`, which also releases the mutex.
AwaitExit(t) ==
  /\ MustExit
  /\ Goto(t, "check", "exited")
  /\ Unlock
  /\ UNCHANGED data
-----------------------------------------------------------------------------
(* worker(): take the front thunk, tell wait() when that empties the queue, *)
(* and run it with the mutex released.                                      *)

WorkerTake(w) ==
  /\ tasks # <<>>
  /\ Goto(w, "check", "running")
  /\ task' = [task EXCEPT ![w] = Head(tasks)]
  /\ Pop
  /\ waitForEmpty' = ToldEmpty(tasks')
  /\ Unlock
  /\ UNCHANGED <<done, taskIsAvailable, joinVars, scheduled, finished, waits>>

WorkerFinish(w) ==
  /\ Goto(w, "running", "start")
  /\ finished' = finished \cup {task[w]}
  /\ task' = [task EXCEPT ![w] = NoThunk]
  /\ UNCHANGED <<queueLock, tasks, done, condVars, joinVars, scheduled, waits>>

(* dispatcher(): `while (!done)` reads done without the mutex.  The mutex   *)
(* is dropped and retaken on every turn; workerIsAvailable, which it        *)
(* notifies, is a condition variable on which no thread ever waits.         *)

DispatcherLoop ==
  /\ Goto(Dispatcher, "loop", IF done THEN "exited" ELSE "start")
  /\ UNCHANGED <<queueLock, data>>

\* Mutant: the dispatcher also runs the thunk.
DispatcherRun ==
  /\ tasks # <<>>
  /\ Goto(Dispatcher, "check", "running")
  /\ Unlock
  /\ UNCHANGED data

DispatcherNotify ==
  /\ tasks # <<>>
  /\ Goto(Dispatcher, "check", "loop")
  /\ Unlock
  /\ UNCHANGED data
-----------------------------------------------------------------------------
(* schedule(), called by a client or by the body of a thunk.               *)

InPool(c) == pc[Owner] # "ctor" /\ pc[c] = "idle"

ScheduleLock(t) ==
  /\ scheduled < MaxThunks
  /\ \/ t \in Clients /\ InPool(t) /\ Goto(t, "idle", "pushing")
     \/ t \in Workers /\ Goto(t, "running", "spawning")
  /\ Lock(t)
  /\ UNCHANGED data

SchedulePush(t) ==
  /\ Goto(t, "pushing", "idle") \/ Goto(t, "spawning", "running")
  /\ scheduled' = scheduled + 1
  /\ Push(scheduled + 1)
  /\ NotifyOne
  /\ Unlock
  /\ UNCHANGED <<done, waitForEmpty, joinVars, task, finished, waits>>

(* wait().                                                                 *)

WaitLock(c) ==
  /\ InPool(c)
  /\ waits < MaxWaits
  /\ waits' = waits + 1
  /\ Goto(c, "idle", "waitCheck")
  /\ Lock(c)
  /\ UNCHANGED <<tasks, done, condVars, joinVars, thunkVars>>

WaitBlock(c) ==
  /\ tasks # <<>>
  /\ Goto(c, "waitCheck", "waitBlocked")
  /\ waitForEmpty' = waitForEmpty \cup {c}
  /\ Unlock
  /\ UNCHANGED <<tasks, done, taskIsAvailable, joinVars, thunkVars, waits>>

WaitRelock(c) ==
  /\ c \notin waitForEmpty
  /\ Goto(c, "waitBlocked", "waitCheck")
  /\ Lock(c)
  /\ UNCHANGED data

WaitReturn(c) ==
  /\ tasks = <<>>
  /\ Goto(c, "waitCheck", "idle")
  /\ NotifyAll
  /\ Unlock
  /\ UNCHANGED <<tasks, done, waitForEmpty, joinVars, thunkVars, waits>>

\* The end of a client's use of the pool.
ClientLeave(c) ==
  /\ c # Owner
  /\ Goto(c, "idle", "left")
  /\ UNCHANGED <<queueLock, data>>
-----------------------------------------------------------------------------
(* ~ThreadPool(), which C++ only allows when no other client is in a call. *)

DtorLock ==
  /\ \A c \in Clients \ {Owner} : pc[c] = "left"
  /\ Goto(Owner, "idle", "dtorLocked")
  /\ Lock(Owner)
  /\ UNCHANGED data

DtorSetDone ==
  /\ Goto(Owner, "dtorLocked", "dtorUnlock")
  /\ done' = TRUE
  /\ UNCHANGED <<queueLock, tasks, condVars, joinVars, thunkVars, waits>>

DtorUnlock ==
  /\ Goto(Owner, "dtorUnlock", "dtorNotify")
  /\ Unlock
  /\ UNCHANGED data

DtorNotify ==
  /\ Goto(Owner, "dtorNotify", "joinDispatcher")
  /\ NotifyAll
  /\ waitForEmpty' = {}
  /\ UNCHANGED <<queueLock, tasks, done, joinVars, thunkVars, waits>>

DtorJoinDispatcher ==
  /\ pc[Dispatcher] = "exited"
  /\ Goto(Owner, "joinDispatcher", "joinWorkers")
  /\ UNCHANGED <<queueLock, data>>

\* An element without a thread is not joinable and is passed over.
DtorJoinWorker ==
  /\ pc[Owner] = "joinWorkers"
  /\ joinAt \in 1..Len(wts)
  /\ Join(wts[joinAt])
  /\ joinAt' = joinAt + 1
  /\ UNCHANGED <<queueLock, tasks, done, condVars, wts, pc, thunkVars, waits>>

DtorReturn ==
  /\ joinAt > Len(wts)
  /\ Goto(Owner, "joinWorkers", "destroyed")
  /\ UNCHANGED <<queueLock, data>>
-----------------------------------------------------------------------------
\* Both condition variables may wake a thread that nobody notified.
SpuriousWake(t) ==
  /\ t \in taskIsAvailable \cup waitForEmpty
  /\ taskIsAvailable' = taskIsAvailable \ {t}
  /\ waitForEmpty' = waitForEmpty \ {t}
  /\ UNCHANGED <<queueLock, tasks, done, joinVars, pc, thunkVars, waits>>

\* The pool is gone: nothing is left to do, and that is not a deadlock.
Terminated == pc[Owner] = "destroyed" /\ UNCHANGED vars

Await(t) == AwaitLock(t) \/ AwaitBlock(t) \/ AwaitRelock(t) \/ AwaitExit(t)

WorkerNext(w) ==
  \/ Await(w) \/ WorkerTake(w) \/ WorkerFinish(w)
  \/ ScheduleLock(w) \/ SchedulePush(w)

DispatcherNext == DispatcherLoop \/ Await(Dispatcher) \/ DispatcherNotify

\* What a client does inside a call it has already begun.
ClientNext(c) == SchedulePush(c) \/ WaitBlock(c) \/ WaitRelock(c) \/ WaitReturn(c)

\* The calls it may begin.
ClientCall(c) == ScheduleLock(c) \/ WaitLock(c) \/ ClientLeave(c)

Ctor == SpawnDispatcher \/ \E w \in Workers : SpawnWorker(w)
Dtor == \/ DtorSetDone \/ DtorUnlock \/ DtorNotify
        \/ DtorJoinDispatcher \/ DtorJoinWorker \/ DtorReturn

Next ==
  \/ Ctor \/ DtorLock \/ Dtor
  \/ \E w \in Workers : WorkerNext(w)
  \/ DispatcherNext
  \/ \E c \in Clients : ClientCall(c) \/ ClientNext(c)
  \/ \E t \in Threads : SpuriousWake(t)
  \/ Terminated

Spec == Init /\ [][Next]_vars

\* Every thread that can run eventually runs, and every thunk returns; a
\* client need not make calls, nor a condition variable wake anyone for free.
FairSpec ==
  /\ Spec
  /\ WF_vars(Ctor) /\ WF_vars(Dtor) /\ WF_vars(DispatcherNext)
  /\ \A w \in Workers : WF_vars(WorkerNext(w))
  /\ \A c \in Clients : WF_vars(ClientNext(c))

\* In addition, a thread that keeps asking for the mutex is given it.
FairMutex ==
  /\ SF_vars(DispatcherNext)
  /\ \A w \in Workers : SF_vars(WorkerNext(w))
  /\ \A c \in Clients : SF_vars(ClientNext(c))

FairMutexSpec == FairSpec /\ FairMutex
=============================================================================
