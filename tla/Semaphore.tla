------------------------------ MODULE Semaphore ------------------------------
(***************************************************************************)
(* The Semaphore of TP5-ThreadPool/src/Semaphore.{h,cc}: a count behind a  *)
(* mutex and a condition_variable_any.  Any thread may signal() and wait(),*)
(* in any order and number up to the bounds.                               *)
(*                                                                         *)
(* A definition marked "mutant of" is no part of the model.                *)
(***************************************************************************)
EXTENDS Integers

CONSTANTS
  Threads, NoThread,
  Initial,      \* the constructor's argument, which may be negative
  MaxSignals,   \* bound: calls of signal()
  MaxWaits      \* bound: calls of wait()

ASSUME SemaphoreAssumption ==
  NoThread \notin Threads /\ Initial \in Int /\ MaxSignals \in Nat /\ MaxWaits \in Nat

VARIABLES
  mutex,        \* the thread that holds mutex_, or NoThread
  count,        \* count_
  condition,    \* the threads blocked on condition_
  pc,
  signals,      \* history: completed calls of signal()
  waits,        \* history: calls of wait() begun
  taken         \* history: calls of wait() that took a permit

vars == <<mutex, count, condition, pc, signals, waits, taken>>

Init ==
  /\ mutex = NoThread
  /\ count = Initial
  /\ condition = {}
  /\ pc = [t \in Threads |-> "idle"]
  /\ signals = 0 /\ waits = 0 /\ taken = 0

Goto(t, from, to) == pc[t] = from /\ pc' = [pc EXCEPT ![t] = to]
Lock(t) == mutex = NoThread /\ mutex' = t
Unlock  == mutex' = NoThread

\* The wait set after the notification in signal().
NotifyFirst ==                                               \* mutant of NotifyAll
  IF count > 0 \/ condition = {} THEN UNCHANGED condition
  ELSE \E t \in condition : condition' = condition \ {t}
NotifyAll   == condition' = {}

\* What wait() waits for.
NotEmpty  == count >= 0                                      \* mutant of Available
Available == count > 0
-----------------------------------------------------------------------------
SignalLock(t) ==
  /\ signals < MaxSignals
  /\ Goto(t, "idle", "signal")
  /\ Lock(t)
  /\ UNCHANGED <<count, condition, signals, waits, taken>>

Signal(t) ==
  /\ Goto(t, "signal", "idle")
  /\ count' = count + 1
  /\ signals' = signals + 1
  /\ NotifyAll
  /\ Unlock
  /\ UNCHANGED <<waits, taken>>

WaitLock(t) ==
  /\ waits < MaxWaits
  /\ waits' = waits + 1
  /\ Goto(t, "idle", "check")
  /\ Lock(t)
  /\ UNCHANGED <<count, condition, signals, taken>>

WaitBlock(t) ==
  /\ ~Available
  /\ Goto(t, "check", "blocked")
  /\ condition' = condition \cup {t}
  /\ Unlock
  /\ UNCHANGED <<count, signals, waits, taken>>

WaitRelock(t) ==
  /\ t \notin condition
  /\ Goto(t, "blocked", "check")
  /\ Lock(t)
  /\ UNCHANGED <<count, condition, signals, waits, taken>>

WaitTake(t) ==
  /\ Available
  /\ Goto(t, "check", "idle")
  /\ count' = count - 1
  /\ taken' = taken + 1
  /\ Unlock
  /\ UNCHANGED <<condition, signals, waits>>

SpuriousWake(t) ==
  /\ t \in condition
  /\ condition' = condition \ {t}
  /\ UNCHANGED <<mutex, count, pc, signals, waits, taken>>

Call(t) == SignalLock(t) \/ WaitLock(t)
Run(t)  == Signal(t) \/ WaitBlock(t) \/ WaitRelock(t) \/ WaitTake(t)

Next == \E t \in Threads : Call(t) \/ Run(t) \/ SpuriousWake(t)

Spec == Init /\ [][Next]_vars

\* A thread inside a call is scheduled, and the mutex passes it over only
\* finitely often.
FairSpec == Spec /\ \A t \in Threads : SF_vars(Run(t))
-----------------------------------------------------------------------------
\* The types; the count never falls below zero, or below where it started.
TypeOK ==
  /\ mutex \in Threads \cup {NoThread}
  /\ count \in {n \in Int : n >= 0 \/ n >= Initial}
  /\ condition \subseteq Threads
  /\ pc \in [Threads -> {"idle", "signal", "check", "blocked"}]
  /\ signals \in Nat /\ waits \in Nat /\ taken \in Nat

\* No wake-up is lost: a thread sleeps on condition_ only while there is no
\* permit for it, whatever was signalled between its test and its sleep.
NoSleeperWithPermit == condition # {} => count <= 0

\* The code is a counting semaphore.
Counting == INSTANCE AtomicSemaphore WITH permits <- count, raised <- signals
ImplementsAtomic == Counting!Spec

\* When there are as many permits as there can be calls of wait(), every call
\* returns.
WaitReturns ==
  \A t \in Threads :
    pc[t] \in {"check", "blocked"} /\ Initial + signals >= MaxWaits ~> pc[t] = "idle"

=============================================================================
