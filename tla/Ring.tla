-------------------------------- MODULE Ring --------------------------------
(***************************************************************************)
(* TP4-Shell/src/ej1/ring.c: a parent makes n pipes and n children; each   *)
(* child reads one integer from its pipe, adds one and writes it to the    *)
(* next; the parent starts the message and, when every child has ended,    *)
(* reads it back.  The return values of fork() and read() are not checked. *)
(* Every process keeps every end of every pipe open, so that a read never  *)
(* sees end of file: it blocks until there is a message.                   *)
(*                                                                         *)
(* A definition marked "mutant of" is no part of the model.                *)
(***************************************************************************)
EXTENDS Integers, Sequences, FiniteSets

CONSTANTS
  n,    \* argv[1]: how many children
  c     \* argv[2]: the initial message

\* With n = 0 the code divides by zero, with start outside 1..n it indexes
\* outside pipes: neither is a run of this model.
ASSUME RingAssumption == n \in Nat \ {0} /\ c \in Int

Children == 0..n - 1

VARIABLES
  start,     \* argv[3]
  pipes,     \* the messages in each pipe, oldest first
  pc,        \* where each child is; "failed" when fork() did not make it
  buffer,    \* buffer[0] of each child
  parent,    \* where the parent is
  forked,    \* its first loop variable
  waited,    \* its second loop variable
  reaped,    \* the children it has waited for
  received   \* its buffer[0] after the last read; c before

vars == <<start, pipes, pc, buffer, parent, forked, waited, reaped, received>>

Init ==
  /\ start \in 1..n
  /\ pipes = [i \in Children |-> <<>>]
  /\ pc = [i \in Children |-> "unborn"]
  /\ buffer = [i \in Children |-> 0]
  /\ parent = "fork"
  /\ forked = 0 /\ waited = 0 /\ reaped = {}
  /\ received = c
-----------------------------------------------------------------------------
Hop2(i)  == (i + 2) % n                                      \* mutant of Succ
Succ(i)  == (i + 1) % n
Last     == (start - 2 + n) % n

\* buffer[0]++, whose overflow the bounds exclude.
Keep(v) == v                                                 \* mutant of Plus1
Plus1(v) == v + 1

\* Where child i writes: the last of the ring writes to the pipe it believes to
\* be the parent's.
Destination(i) == IF i = Last THEN start - 1 ELSE Succ(i)

Fork ==
  /\ parent = "fork" /\ forked < n
  /\ \/ pc' = [pc EXCEPT ![forked] = "reading"]
     \/ pc' = [pc EXCEPT ![forked] = "failed"]
  /\ forked' = forked + 1
  /\ UNCHANGED <<start, pipes, buffer, parent, waited, reaped, received>>

ChildRead(i) ==
  /\ pc[i] = "reading" /\ pipes[i] # <<>>
  /\ pc' = [pc EXCEPT ![i] = "writing"]
  /\ buffer' = [buffer EXCEPT ![i] = Plus1(Head(pipes[i]))]
  /\ pipes' = [pipes EXCEPT ![i] = Tail(@)]
  /\ UNCHANGED <<start, parent, forked, waited, reaped, received>>

ChildWrite(i) ==
  /\ pc[i] = "writing"
  /\ pc' = [pc EXCEPT ![i] = "exited"]
  /\ pipes' = [pipes EXCEPT ![Destination(i)] = Append(@, buffer[i])]
  /\ UNCHANGED <<start, buffer, parent, forked, waited, reaped, received>>

ParentSend ==
  /\ parent = "fork" /\ forked = n
  /\ parent' = "wait"
  /\ pipes' = [pipes EXCEPT ![start - 1] = Append(@, c)]
  /\ UNCHANGED <<start, pc, buffer, forked, waited, reaped, received>>

\* The children that exist and have not been waited for.
Alive == {i \in Children : pc[i] \notin {"unborn", "failed"}} \ reaped

NoHang(i) == TRUE                                            \* mutant of Ended
Ended(i)  == pc[i] = "exited"

\* waitpid(-1): takes a child that has ended, blocks while there is none, and
\* fails at once when no child is left.
Waitpid ==
  /\ parent = "wait" /\ waited < n
  /\ \/ Alive = {} /\ UNCHANGED reaped
     \/ \E i \in Alive : Ended(i) /\ reaped' = reaped \cup {i}
  /\ waited' = waited + 1
  /\ UNCHANGED <<start, pipes, pc, buffer, parent, forked, received>>

\* Mutant of AllWaited: the parent reads without waiting for anyone.
NoneWaited == TRUE
AllWaited  == waited = n

ParentRead ==
  /\ parent = "wait" /\ AllWaited
  /\ pipes[start - 1] # <<>>
  /\ parent' = "done"
  /\ received' = Head(pipes[start - 1])
  /\ pipes' = [pipes EXCEPT ![start - 1] = Tail(@)]
  /\ UNCHANGED <<start, pc, buffer, forked, waited, reaped>>

Terminated == parent = "done" /\ UNCHANGED vars

Parent == Fork \/ ParentSend \/ Waitpid \/ ParentRead
Child(i) == ChildRead(i) \/ ChildWrite(i)
Next == Parent \/ (\E i \in Children : Child(i)) \/ Terminated

Spec == Init /\ [][Next]_vars

\* The kernel runs every process that is not blocked.
FairSpec == Spec /\ WF_vars(Parent) /\ \A i \in Children : WF_vars(Child(i))
-----------------------------------------------------------------------------
\* The types; what was waited for has ended.
TypeOK ==
  /\ start \in 1..n
  /\ pipes \in [Children -> Seq(Int)]
  /\ pc \in [Children -> {"unborn", "reading", "writing", "exited", "failed"}]
  /\ buffer \in [Children -> Int]
  /\ parent \in {"fork", "wait", "done"}
  /\ forked \in 0..n /\ waited \in 0..n
  /\ reaped \subseteq {i \in Children : pc[i] = "exited"}
  /\ received \in Int

\* The children that have had the message.
Handled == {i \in Children : pc[i] \in {"writing", "exited"}}

\* Who has the message now: the pipes that hold one, the children between their
\* read and their write.
Full    == {i \in Children : pipes[i] # <<>>}
Holding == {i \in Children : pc[i] = "writing"}

\* There is one message: it is never duplicated, although its last hop goes
\* into the pipe the parent started it in; and it counts the children it has
\* passed through.
OneMessage ==
  /\ \A i \in Full : pipes[i] = <<c + Cardinality(Handled)>>
  /\ \A i \in Holding : buffer[i] = c + Cardinality(Handled)
  /\ \A i, j \in Full \cup Holding : i = j
  /\ Full \cap Holding = {}

\* The message goes round from start: no child gets it before its predecessor.
RoundFromStart ==
  \A i \in Handled : i = start - 1 \/ (i + n - 1) % n \in Handled

\* What the parent prints is c plus the children that exist, all of which have
\* had the message and ended: when a fork failed, it prints no partial count
\* (it hangs instead, unless every fork failed).
ResultIsWhole ==
  parent = "done" =>
    /\ received = c + Cardinality({i \in Children : pc[i] # "failed"})
    /\ \A i \in Children : pc[i] \in {"exited", "failed"}

\* When every fork succeeds the program ends, having printed c + n.
NoneFailed == \A i \in Children : pc[i] # "failed"
Ends == [](parent = "wait" /\ NoneFailed => <>(parent = "done" /\ received = c + n))
=============================================================================
