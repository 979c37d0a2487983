------------------------------ MODULE TaskPool ------------------------------
(***************************************************************************)
(* What thread-pool.h promises, without threads, locks or condition        *)
(* variables: thunks are numbered in the order they are scheduled, leave   *)
(* the queue in that order, each to a slot of its own, run exactly once,   *)
(* and the pool is only closed once nothing is queued or running.          *)
(***************************************************************************)
EXTENDS Integers, Sequences

CONSTANTS
  Slots,       \* the places where a thunk can run: one for each worker
  NoThunk,     \* what an idle slot holds
  MaxThunks    \* bound on the number of thunks ever scheduled

VARIABLES
  queue,       \* the scheduled thunks that have not started, oldest first
  slot,        \* the thunk each slot is running, or NoThunk
  submitted,   \* how many thunks have been scheduled so far
  finished,    \* the thunks that have run
  open         \* FALSE once the pool has been destroyed

vars == <<queue, slot, submitted, finished, open>>

Init ==
  /\ queue = <<>>
  /\ slot = [s \in Slots |-> NoThunk]
  /\ submitted = 0
  /\ finished = {}
  /\ open = TRUE

Submit ==
  /\ open
  /\ submitted < MaxThunks
  /\ submitted' = submitted + 1
  /\ queue' = Append(queue, submitted + 1)
  /\ UNCHANGED <<slot, finished, open>>

Start(s) ==
  /\ slot[s] = NoThunk
  /\ queue # <<>>
  /\ slot' = [slot EXCEPT ![s] = Head(queue)]
  /\ queue' = Tail(queue)
  /\ UNCHANGED <<submitted, finished, open>>

Finish(s) ==
  /\ slot[s] # NoThunk
  /\ slot[s] \notin finished
  /\ finished' = finished \cup {slot[s]}
  /\ slot' = [slot EXCEPT ![s] = NoThunk]
  /\ UNCHANGED <<queue, submitted, open>>

Close ==
  /\ open
  /\ finished = 1..submitted
  /\ open' = FALSE
  /\ UNCHANGED <<queue, slot, submitted, finished>>

Next == Submit \/ Close \/ \E s \in Slots : Start(s) \/ Finish(s)

Spec == Init /\ [][Next]_vars
=============================================================================
