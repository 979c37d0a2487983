--------------------------- MODULE AtomicSemaphore ---------------------------
(***************************************************************************)
(* What a counting semaphore promises: a permit is handed out once for     *)
(* each time one was put in, and never before.                             *)
(***************************************************************************)
EXTENDS Integers

CONSTANT Initial    \* the permits it is built with

VARIABLES
  permits,   \* permits nobody holds
  raised,    \* calls of signal() that have put one in
  taken      \* calls of wait() that have got one

vars == <<permits, raised, taken>>

Init == permits = Initial /\ raised = 0 /\ taken = 0

Raise == permits' = permits + 1 /\ raised' = raised + 1 /\ UNCHANGED taken

Take == /\ permits > 0
        /\ permits' = permits - 1 /\ taken' = taken + 1 /\ UNCHANGED raised

Spec == Init /\ [][Raise \/ Take]_vars
=============================================================================
