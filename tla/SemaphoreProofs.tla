--------------------------- MODULE SemaphoreProofs ---------------------------
(***************************************************************************)
(* Semaphore is a counting semaphore for any threads and any bounds.       *)
(***************************************************************************)
EXTENDS Semaphore, TLAPS

\* The mutex is held exactly between a lock and the step that releases it.
LockInv == \A t \in Threads : mutex = t <=> pc[t] \in {"signal", "check"}

IInv == TypeOK /\ LockInv /\ NoSleeperWithPermit

USE SemaphoreAssumption

\* The invariant holds in every state: each step preserves it.
LEMMA Inductive == Spec => []IInv
<1> USE DEF IInv, TypeOK, LockInv, NoSleeperWithPermit
<1>1. Init => IInv
  BY DEF Init
<1>2. IInv /\ [Next]_vars => IInv'
  <2> SUFFICES ASSUME IInv, [Next]_vars PROVE IInv'
    OBVIOUS
  <2> USE DEF Goto, Lock, Unlock
  <2>1. ASSUME NEW t \in Threads, SignalLock(t) PROVE IInv'
    BY <2>1 DEF SignalLock
  <2>2. ASSUME NEW t \in Threads, Signal(t) PROVE IInv'
    BY <2>2 DEF Signal, NotifyAll
  <2>3. ASSUME NEW t \in Threads, WaitLock(t) PROVE IInv'
    BY <2>3 DEF WaitLock
  <2>4. ASSUME NEW t \in Threads, WaitBlock(t) PROVE IInv'
    BY <2>4 DEF WaitBlock, Available
  <2>5. ASSUME NEW t \in Threads, WaitRelock(t) PROVE IInv'
    BY <2>5 DEF WaitRelock
  <2>6. ASSUME NEW t \in Threads, WaitTake(t) PROVE IInv'
    BY <2>6 DEF WaitTake, Available
  <2>7. ASSUME NEW t \in Threads, SpuriousWake(t) PROVE IInv'
    BY <2>7 DEF SpuriousWake
  <2>8. CASE UNCHANGED vars
    BY <2>8 DEF vars
  <2> QED
    BY <2>1, <2>2, <2>3, <2>4, <2>5, <2>6, <2>7, <2>8 DEF Next, Call, Run
<1> QED
  BY <1>1, <1>2, PTL DEF Spec

\* The lock has one owner, sleepers and callers are threads, and the number of
\* permits never falls below zero, or below a negative initial value.
THEOREM TypeCorrect == Spec => []TypeOK
<1>1. IInv => TypeOK
  BY DEF IInv
<1> QED
  BY <1>1, Inductive, PTL

\* No thread sleeps in wait() while there is a permit for it.
THEOREM NoLostWakeup == Spec => []NoSleeperWithPermit
<1>1. IInv => NoSleeperWithPermit
  BY DEF IInv
<1> QED
  BY <1>1, Inductive, PTL

\* signal() puts in one permit and wait() takes one, atomically, and only when
\* there is one.
THEOREM Refinement == Spec => ImplementsAtomic
<1>1. Init => Counting!Init
  BY DEF Init, Counting!Init
<1>2. IInv /\ [Next]_vars => [Counting!Raise \/ Counting!Take]_Counting!vars
  <2> SUFFICES ASSUME IInv, [Next]_vars
               PROVE  [Counting!Raise \/ Counting!Take]_Counting!vars
    OBVIOUS
  <2>1. ASSUME NEW t \in Threads, Signal(t) PROVE Counting!Raise
    BY <2>1 DEF Signal, Counting!Raise
  <2>2. ASSUME NEW t \in Threads, WaitTake(t) PROVE Counting!Take
    BY <2>2 DEF WaitTake, Available, Counting!Take
  <2>3. ASSUME NEW t \in Threads,
               \/ SignalLock(t) \/ WaitLock(t) \/ WaitBlock(t)
               \/ WaitRelock(t) \/ SpuriousWake(t)
        PROVE  UNCHANGED Counting!vars
    BY <2>3 DEF SignalLock, WaitLock, WaitBlock, WaitRelock, SpuriousWake,
                Counting!vars
  <2>4. CASE UNCHANGED vars
    BY <2>4 DEF vars, Counting!vars
  <2> QED
    BY <2>1, <2>2, <2>3, <2>4 DEF Next, Call, Run
<1> QED
  BY <1>1, <1>2, Inductive, PTL DEF Spec, ImplementsAtomic, Counting!Spec
=============================================================================
