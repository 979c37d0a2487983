------------------------------ MODULE RingProofs ------------------------------
(***************************************************************************)
(* Theorems about the ring, for every number of children and every initial *)
(* message (of unbounded integers: the counter does not overflow).         *)
(***************************************************************************)
EXTENDS Ring, FiniteSetTheorems, SequenceTheorems, TLAPS

\* How far the parent is, and what that says of the children.
Phases ==
  /\ parent = "fork" => /\ waited = 0 /\ reaped = {}
                        /\ \A i \in Children : /\ pipes[i] = <<>>
                                               /\ pc[i] \in {"unborn", "reading", "failed"}
  /\ parent # "fork" => forked = n
  /\ \A i \in Children : pc[i] = "unborn" <=> i >= forked

\* Each waitpid() that returned took a child, or there was none left.
Counted == waited <= Cardinality(reaped) \/ Alive = {}

\* The message is in the pipe of the child whose turn it is.
Pred(i) == (i + n - 1) % n
NextInRound == \A i \in Full : i = start - 1 \/ Pred(i) \in Handled

IInv == TypeOK /\ Phases /\ Counted /\ OneMessage /\ RoundFromStart /\ NextInRound
        /\ ResultIsWhole
-----------------------------------------------------------------------------
\* A number of the ring is its own remainder,
LEMMA SmallMod == \A i \in 0..n - 1 : i % n = i
  BY RingAssumption

\* and so it is after a whole round.
LEMMA FullMod == \A i \in 0..n - 1 : (i + n) % n = i
  BY RingAssumption

\* Every child has a next one, and is the one before it.
LEMMA Neighbours ==
  ASSUME NEW i \in Children
  PROVE  Succ(i) \in Children /\ Pred(Succ(i)) = i
<1>1. Succ(i) = IF i = n - 1 THEN 0 ELSE i + 1
  BY RingAssumption, SmallMod, FullMod DEF Children, Succ
<1>2. Succ(i) \in Children
  BY <1>1, RingAssumption DEF Children
<1>3. CASE i = n - 1
  BY <1>1, <1>3, RingAssumption, SmallMod DEF Children, Pred
<1>4. CASE i # n - 1
  BY <1>1, <1>4, RingAssumption, FullMod DEF Children, Pred
<1> QED
  BY <1>2, <1>3, <1>4

\* There are n children, and any set of them can be counted.
LEMMA FiniteChildren ==
  /\ IsFiniteSet(Children) /\ Cardinality(Children) = n
  /\ \A S : S \subseteq Children => IsFiniteSet(S) /\ Cardinality(S) \in Nat
<1>1. IsFiniteSet(Children) /\ Cardinality(Children) = n
  BY FS_Interval, RingAssumption DEF Children
<1>2. ASSUME NEW S, S \subseteq Children PROVE IsFiniteSet(S) /\ Cardinality(S) \in Nat
  BY <1>1, <1>2, FS_Subset, FS_CardinalityType
<1> QED
  BY <1>1, <1>2

\* Without children that ended, none has been waited for.
LEMMA NothingCounted == 0 <= Cardinality({})
  BY FS_EmptySet

\* When the pipes are made nothing has been sent.
LEMMA InitInv == Init => IInv
<1> SUFFICES ASSUME Init PROVE IInv
  OBVIOUS
<1> USE RingAssumption
<1>1. TypeOK /\ Phases
  BY DEF Init, TypeOK, Phases, Children
<1>2. Counted
  BY FS_EmptySet DEF Init, Counted
<1>3. Full = {} /\ Handled = {} /\ Holding = {}
  BY DEF Init, Full, Handled, Holding
<1>4. OneMessage /\ RoundFromStart /\ NextInRound
  BY <1>3 DEF OneMessage, RoundFromStart, NextInRound
<1>5. ResultIsWhole
  BY DEF Init, ResultIsWhole
<1> QED
  BY <1>1, <1>2, <1>4, <1>5 DEF IInv
-----------------------------------------------------------------------------
\* A step that moves neither message nor child past the other keeps the round.
LEMMA RoundStays ==
  ASSUME IInv, Full' = Full, Handled' = Handled, Holding' = Holding,
         UNCHANGED <<start, pipes, buffer>>
  PROVE  OneMessage' /\ RoundFromStart' /\ NextInRound'
  BY DEF IInv, OneMessage, RoundFromStart, NextInRound, Pred

\* A child is born, or its fork() fails, while every pipe is still empty.
LEMMA ForkInv == IInv /\ Fork => IInv'
<1> SUFFICES ASSUME IInv, Fork PROVE IInv'
  OBVIOUS
<1> USE RingAssumption
<1>1. /\ forked \in Children /\ parent = "fork" /\ pc[forked] = "unborn"
      /\ \A i \in Children : pc'[i] = IF i = forked THEN pc'[forked] ELSE pc[i]
      /\ pc'[forked] \in {"reading", "failed"}
      /\ UNCHANGED <<start, pipes, buffer, parent, waited, reaped, received>>
      /\ forked' = forked + 1
  <2>1. forked \in Children /\ parent = "fork"
    BY DEF IInv, TypeOK, Fork, Children
  <2>2. pc[forked] = "unborn" /\ forked \in Nat
    BY <2>1 DEF IInv, Phases, Children
  <2>3. pc \in [Children -> {"unborn", "reading", "writing", "exited", "failed"}]
    BY DEF IInv, TypeOK
  <2> QED
    BY <2>1, <2>2, <2>3 DEF Fork
<1>2. TypeOK'
  <2>1. pc' \in [Children -> {"unborn", "reading", "writing", "exited", "failed"}]
    BY <1>1 DEF IInv, TypeOK, Fork
  <2>2. forked' \in 0..n
    BY <1>1 DEF Children
  <2>3. reaped' \subseteq {i \in Children : pc'[i] = "exited"}
    BY <1>1 DEF IInv, Phases
  <2> QED
    BY <1>1, <2>1, <2>2, <2>3 DEF IInv, TypeOK
<1>3. Phases'
  <2>1. \A i \in Children : i >= forked + 1 <=> i >= forked /\ i # forked
    BY <1>1 DEF Children
  <2> QED
    BY <1>1, <2>1 DEF IInv, Phases
<1>4. Counted'
  BY <1>1, NothingCounted DEF IInv, Phases, Counted
<1>5. Full' = Full
  BY <1>1 DEF Full
<1>6. Handled' = Handled /\ Holding' = Holding
  BY <1>1 DEF Handled, Holding
<1>7. ResultIsWhole'
  BY <1>1 DEF ResultIsWhole
<1> QED
  BY <1>1, <1>2, <1>3, <1>4, <1>5, <1>6, <1>7, RoundStays DEF IInv

\* The message is put into the pipe of the child start, the first one there is.
LEMMA SendInv == IInv /\ ParentSend => IInv'
<1> SUFFICES ASSUME IInv, ParentSend PROVE IInv'
  OBVIOUS
<1> USE RingAssumption
<1>1. /\ parent = "fork" /\ parent' = "wait" /\ forked = n
      /\ UNCHANGED <<start, pc, buffer, forked, waited, reaped, received>>
      /\ \A i \in Children : pipes[i] = <<>> /\ pc[i] \in {"unborn", "reading", "failed"}
  BY DEF IInv, Phases, ParentSend
<1>2. start - 1 \in Children /\ c \in Int
  BY DEF IInv, TypeOK, Children
<1>3. /\ pipes' \in [Children -> Seq(Int)]
      /\ \A i \in Children : pipes'[i] = IF i = start - 1 THEN <<c>> ELSE <<>>
  <2>0. pipes' = [pipes EXCEPT ![start - 1] = Append(pipes[start - 1], c)]
    BY DEF ParentSend
  <2>1. Append(pipes[start - 1], c) = <<c>>
    <3>1. pipes[start - 1] = <<>> /\ Append(<<>>, c) = <<c>>
      BY <1>1, <1>2
    <3> QED
      BY <3>1, Zenon
  <2>2. <<c>> \in Seq(Int)
    BY <1>2
  <2> QED
    BY <1>1, <1>2, <2>0, <2>1, <2>2 DEF IInv, TypeOK
<1>4. TypeOK'
  BY <1>1, <1>3 DEF IInv, TypeOK
<1>5. Phases' /\ ResultIsWhole'
  BY <1>1 DEF IInv, Phases, ResultIsWhole
<1>6. Counted'
  BY <1>1, NothingCounted DEF IInv, Phases, Counted
<1>7. Full' = {start - 1} /\ Handled' = {} /\ Holding' = {}
  <2>0. <<c>> # <<>>
    OBVIOUS
  <2>1. ASSUME NEW i \in Children PROVE pipes'[i] # <<>> <=> i = start - 1
    <3>1. CASE i = start - 1
      <4>1. pipes'[i] = <<c>>
        BY <1>3, <3>1
      <4> QED
        BY <2>0, <3>1, <4>1, Zenon
    <3>2. CASE i # start - 1
      <4>1. pipes'[i] = <<>>
        BY <1>3, <3>2
      <4> QED
        BY <3>2, <4>1, Zenon
    <3> QED
      BY <3>1, <3>2
  <2>2. Full' = {start - 1}
    BY <1>2, <2>1 DEF Full
  <2> QED
    BY <1>1, <2>2 DEF Handled, Holding
<1>8. OneMessage'
  <2>1. Cardinality(Handled') = 0
    BY <1>7, FS_EmptySet
  <2> QED
    BY <1>2, <1>3, <1>7, <2>1 DEF OneMessage
<1>9. RoundFromStart' /\ NextInRound'
  BY <1>1, <1>7 DEF RoundFromStart, NextInRound
<1> QED
  BY <1>4, <1>5, <1>6, <1>8, <1>9 DEF IInv

\* waitpid() takes a child that ended, or fails because none is left.
LEMMA WaitpidInv == IInv /\ Waitpid => IInv'
<1> SUFFICES ASSUME IInv, Waitpid PROVE IInv'
  OBVIOUS
<1> USE RingAssumption
<1>1. /\ parent = "wait" /\ waited' = waited + 1 /\ waited \in 0..n - 1
      /\ UNCHANGED <<start, pipes, pc, buffer, parent, forked, received>>
      /\ reaped \subseteq Children
  BY DEF IInv, TypeOK, Waitpid
<1>2. \/ Alive = {} /\ reaped' = reaped
      \/ \E i \in Alive : pc[i] = "exited" /\ reaped' = reaped \cup {i}
  BY DEF Waitpid, Ended
<1>3. TypeOK'
  <2>1. reaped' \subseteq {i \in Children : pc'[i] = "exited"}
    BY <1>1, <1>2 DEF IInv, TypeOK, Alive
  <2> QED
    BY <1>1, <2>1 DEF IInv, TypeOK
<1>4. Counted'
  <2>1. CASE Alive = {} /\ reaped' = reaped
    <3>1. Alive' = {}
      BY <1>1, <2>1 DEF Alive
    <3> QED
      BY <3>1 DEF Counted
  <2>2. ASSUME NEW i \in Alive, reaped' = reaped \cup {i} PROVE Counted'
    <3>1. i \notin reaped /\ Alive # {}
      BY DEF Alive
    <3>2. Cardinality(reaped') = Cardinality(reaped) + 1 /\ Cardinality(reaped) \in Nat
      BY <1>1, <2>2, <3>1, FiniteChildren, FS_AddElement
    <3>3. waited <= Cardinality(reaped)
      BY <3>1 DEF IInv, Counted
    <3> QED
      BY <1>1, <3>2, <3>3 DEF Counted
  <2> QED
    BY <1>2, <2>1, <2>2
<1>5. Full' = Full /\ Handled' = Handled /\ Holding' = Holding
  BY <1>1 DEF Full, Handled, Holding
<1>6. Phases' /\ ResultIsWhole'
  BY <1>1 DEF IInv, Phases, ResultIsWhole
<1> QED
  BY <1>1, <1>3, <1>4, <1>5, <1>6, RoundStays DEF IInv

\* When the parent has waited n times every child that exists has ended.
LEMMA AllEnded ==
  ASSUME IInv, parent # "fork", waited = n
  PROVE  \A i \in Children : pc[i] \in {"exited", "failed"}
<1> USE RingAssumption
<1>1. /\ reaped \subseteq Children
      /\ \A i \in reaped : pc[i] = "exited"
      /\ \A i \in Children : pc[i] # "unborn"
  BY DEF IInv, TypeOK, Phases, Children
<1>2. CASE Alive = {}
  BY <1>1, <1>2 DEF Alive
<1>3. CASE n <= Cardinality(reaped)
  <2>1. Cardinality(reaped) = Cardinality(Children)
    BY <1>1, <1>3, FiniteChildren, FS_Subset
  <2>2. reaped = Children
    BY <1>1, <2>1, FiniteChildren, FS_Subset
  <2> QED
    BY <1>1, <2>2
<1> QED
  BY <1>2, <1>3 DEF IInv, Counted

\* The parent reads back the message when every child has ended.
LEMMA ReadInv == IInv /\ ParentRead => IInv'
<1> SUFFICES ASSUME IInv, ParentRead PROVE IInv'
  OBVIOUS
<1> USE RingAssumption
<1>1. /\ parent = "wait" /\ waited = n /\ parent' = "done"
      /\ pipes[start - 1] # <<>> /\ start - 1 \in Children
      /\ received' = Head(pipes[start - 1])
      /\ pipes' = [pipes EXCEPT ![start - 1] = Tail(@)]
      /\ UNCHANGED <<start, pc, buffer, forked, waited, reaped>>
  BY DEF IInv, TypeOK, ParentRead, AllWaited, Children
<1>2. pipes[start - 1] = <<c + Cardinality(Handled)>> /\ Full = {start - 1} /\ Holding = {}
  BY <1>1 DEF IInv, OneMessage, Full
<1>3. Handled \subseteq Children /\ c + Cardinality(Handled) \in Int
  BY FiniteChildren DEF Handled
<1>4. received' = c + Cardinality(Handled)
  BY <1>1, <1>2, <1>3
<1>5. pipes' = [pipes EXCEPT ![start - 1] = <<>>]
  BY <1>1, <1>2
<1>6. TypeOK'
  <2>1. pipes' \in [Children -> Seq(Int)]
    BY <1>1, <1>5 DEF IInv, TypeOK
  <2>2. received' \in Int
    BY <1>3, <1>4, Zenon
  <2> QED
    BY <1>1, <2>1, <2>2 DEF IInv, TypeOK
<1>7. Phases' /\ Counted'
  BY <1>1 DEF IInv, Phases, Counted, Alive
<1>8. Full' = {} /\ Holding' = {} /\ Handled' = Handled
  <2>1. \A i \in Children : pipes'[i] = <<>>
    BY <1>1, <1>2, <1>5 DEF IInv, TypeOK, Full
  <2> QED
    BY <1>1, <1>2, <2>1 DEF Full, Holding, Handled
<1>9. OneMessage' /\ RoundFromStart' /\ NextInRound'
  BY <1>1, <1>8 DEF IInv, OneMessage, RoundFromStart, NextInRound
<1>10. ResultIsWhole'
  <2>1. \A i \in Children : pc[i] \in {"exited", "failed"}
    BY <1>1, AllEnded
  <2>2. Handled = {i \in Children : pc[i] # "failed"}
    BY <2>1 DEF Handled
  <2> QED
    BY <1>1, <1>4, <2>1, <2>2 DEF ResultIsWhole
<1> QED
  BY <1>6, <1>7, <1>9, <1>10 DEF IInv
-----------------------------------------------------------------------------
\* The child whose turn it is takes the message out of its pipe.
LEMMA ChildReadInv == ASSUME NEW i \in Children, IInv, ChildRead(i) PROVE IInv'
<1> USE RingAssumption
<1>1. /\ pc[i] = "reading" /\ i \in Full
      /\ pc' = [pc EXCEPT ![i] = "writing"]
      /\ UNCHANGED <<start, parent, forked, waited, reaped, received>>
  BY DEF ChildRead, Full
<1>2. pipes[i] = <<c + Cardinality(Handled)>> /\ Full = {i} /\ Holding = {}
  BY <1>1 DEF IInv, OneMessage
<1>3. /\ Handled \subseteq Children /\ i \notin Handled
      /\ Cardinality(Handled) \in Nat /\ IsFiniteSet(Handled)
  BY <1>1, FiniteChildren DEF Handled
<1>4. /\ pipes' = [pipes EXCEPT ![i] = <<>>]
      /\ buffer' = [buffer EXCEPT ![i] = c + Cardinality(Handled) + 1]
  BY <1>2, <1>3 DEF ChildRead, Plus1
<1>5. \A j \in Children : pc'[j] = IF j = i THEN "writing" ELSE pc[j]
  BY <1>1 DEF IInv, TypeOK
<1>6. TypeOK'
  <2>1. pipes' \in [Children -> Seq(Int)]
    BY <1>4 DEF IInv, TypeOK
  <2>2. buffer' \in [Children -> Int]
    BY <1>3, <1>4 DEF IInv, TypeOK
  <2>3. pc' \in [Children -> {"unborn", "reading", "writing", "exited", "failed"}]
    BY <1>1 DEF IInv, TypeOK
  <2>4. reaped' \subseteq {j \in Children : pc'[j] = "exited"}
    BY <1>1, <1>5 DEF IInv, TypeOK
  <2> QED
    BY <1>1, <2>1, <2>2, <2>3, <2>4 DEF IInv, TypeOK
<1>7. parent # "fork"
  BY <1>2 DEF IInv, Phases
<1>8. Phases'
  BY <1>1, <1>5, <1>7 DEF IInv, Phases
<1>9. Counted'
  <2>1. Alive' = Alive
    BY <1>1, <1>5 DEF Alive
  <2> QED
    BY <1>1, <2>1 DEF IInv, Counted
<1>10. Full' = {} /\ Holding' = {i} /\ Handled' = Handled \cup {i}
  <2>1. \A j \in Children : pipes'[j] = <<>>
    BY <1>2, <1>4 DEF IInv, TypeOK, Full
  <2>2. Full' = {}
    BY <2>1 DEF Full
  <2>3. Holding' = {i}
    BY <1>2, <1>5 DEF Holding
  <2>4. Handled' = Handled \cup {i}
    BY <1>5 DEF Handled
  <2> QED
    BY <2>2, <2>3, <2>4
<1>11. OneMessage'
  <2>1. Cardinality(Handled') = Cardinality(Handled) + 1
    BY <1>3, <1>10, FS_AddElement
  <2>2. buffer'[i] = c + Cardinality(Handled')
    BY <1>3, <1>4, <2>1 DEF IInv, TypeOK
  <2> QED
    BY <1>10, <2>2 DEF OneMessage
<1>12. RoundFromStart' /\ NextInRound'
  BY <1>1, <1>10 DEF IInv, RoundFromStart, NextInRound, Pred
<1>13. ResultIsWhole'
  BY <1>1 DEF IInv, ResultIsWhole
<1> QED
  BY <1>6, <1>8, <1>9, <1>11, <1>12, <1>13 DEF IInv

\* It adds one and passes the message on to the pipe of the next child.
LEMMA ChildWriteInv == ASSUME NEW i \in Children, IInv, ChildWrite(i) PROVE IInv'
<1> USE RingAssumption
<1> DEFINE d == Destination(i)
<1>1. /\ pc[i] = "writing" /\ i \in Holding /\ i \in Handled
      /\ pc' = [pc EXCEPT ![i] = "exited"]
      /\ UNCHANGED <<start, buffer, parent, forked, waited, reaped, received>>
  BY DEF ChildWrite, Holding, Handled
<1>2. buffer[i] = c + Cardinality(Handled) /\ Holding = {i} /\ Full = {}
  BY <1>1 DEF IInv, OneMessage
<1>3. /\ d \in Children
      /\ d = start - 1 \/ Pred(d) = i
  <2>1. start - 1 \in Children
    BY DEF IInv, TypeOK, Children
  <2> QED
    BY <2>1, Neighbours DEF Destination
<1> HIDE DEF d
<1>4. /\ pipes' \in [Children -> Seq(Int)]
      /\ \A j \in Children : pipes'[j] = IF j = d THEN <<buffer[i]>> ELSE <<>>
  <2>1. pipes' = [pipes EXCEPT ![d] = Append(pipes[d], buffer[i])]
    BY DEF ChildWrite, d
  <2>2. \A j \in Children : pipes[j] = <<>>
    BY <1>2 DEF Full
  <2>3. buffer[i] \in Int /\ pipes \in [Children -> Seq(Int)]
    BY DEF IInv, TypeOK
  <2>4. Append(pipes[d], buffer[i]) = <<buffer[i]>>
    <3>1. pipes[d] = <<>> /\ Append(<<>>, buffer[i]) = <<buffer[i]>>
      BY <1>3, <2>2
    <3> QED
      BY <3>1, Zenon
  <2>5. <<buffer[i]>> \in Seq(Int)
    BY <2>3
  <2> QED
    BY <1>3, <2>1, <2>2, <2>3, <2>4, <2>5
<1>5. \A j \in Children : pc'[j] = IF j = i THEN "exited" ELSE pc[j]
  BY <1>1 DEF IInv, TypeOK
<1>6. TypeOK'
  <2>1. pc' \in [Children -> {"unborn", "reading", "writing", "exited", "failed"}]
    BY <1>1 DEF IInv, TypeOK
  <2>2. reaped' \subseteq {j \in Children : pc'[j] = "exited"}
    BY <1>1, <1>5 DEF IInv, TypeOK
  <2> QED
    BY <1>1, <1>4, <2>1, <2>2 DEF IInv, TypeOK
<1>7. parent # "fork"
  BY <1>1 DEF IInv, Phases
<1>8. Phases'
  BY <1>1, <1>5, <1>7 DEF IInv, Phases
<1>9. Counted'
  <2>1. Alive' = Alive
    BY <1>1, <1>5 DEF Alive
  <2> QED
    BY <1>1, <2>1 DEF IInv, Counted
<1>10. Full' = {d} /\ Holding' = {} /\ Handled' = Handled
  <2>1. \A j \in Children : pipes'[j] # <<>> <=> j = d
    <3>1. <<buffer[i]>> # <<>>
      OBVIOUS
    <3> QED
      BY <1>4, <3>1, Zenon
  <2>2. Full' = {d}
    BY <1>3, <2>1 DEF Full
  <2>3. Holding' = {}
    BY <1>2, <1>5 DEF Holding
  <2>4. Handled' = Handled
    BY <1>1, <1>5 DEF Handled
  <2> QED
    BY <2>2, <2>3, <2>4
<1>11. OneMessage'
  <2>1. pipes'[d] = <<c + Cardinality(Handled')>>
    BY <1>2, <1>3, <1>4, <1>10
  <2> QED
    BY <1>10, <2>1 DEF OneMessage
<1>12. RoundFromStart' /\ NextInRound'
  BY <1>1, <1>3, <1>10 DEF IInv, RoundFromStart, NextInRound, Pred
<1>13. ResultIsWhole'
  BY <1>1 DEF IInv, ResultIsWhole
<1> QED
  BY <1>6, <1>8, <1>9, <1>11, <1>12, <1>13 DEF IInv

\* So IInv holds in every state of the program.
LEMMA Invariance == Spec => []IInv
<1>1. IInv /\ UNCHANGED vars => IInv'
  <2> SUFFICES ASSUME IInv, UNCHANGED vars PROVE IInv'
    OBVIOUS
  <2> USE DEF vars
  <2>1. TypeOK' /\ Phases' /\ Counted' /\ ResultIsWhole'
    BY DEF IInv, TypeOK, Phases, Counted, Alive, ResultIsWhole
  <2>2. Full' = Full /\ Handled' = Handled /\ Holding' = Holding
    BY DEF Full, Handled, Holding
  <2> QED
    BY <2>1, <2>2, RoundStays DEF IInv
<1>2. IInv /\ [Next]_vars => IInv'
  BY <1>1, ForkInv, SendInv, WaitpidInv, ReadInv, ChildReadInv, ChildWriteInv
     DEF Next, Parent, Child, Terminated
<1> QED
  BY InitInv, <1>2, PTL DEF Spec

\* The variables have their types, and only children that ended were waited for.
THEOREM TypeCorrect == Spec => []TypeOK
  BY Invariance, PTL DEF IInv

\* For every n there is one message, in one pipe or in one buffer, and it is c
\* plus the number of children that have had it.
THEOREM OneMessageHolds == Spec => []OneMessage
  BY Invariance, PTL DEF IInv

\* For every n and start the message goes round the ring in order, beginning with
\* the child start.
THEOREM RoundFromStartHolds == Spec => []RoundFromStart
  BY Invariance, PTL DEF IInv

\* What the parent prints counts all the children that exist, and they have ended:
\* no schedule lets it read the message back before it has been all the way round.
THEOREM ResultIsWholeHolds == Spec => []ResultIsWhole
  BY Invariance, PTL DEF IInv
=============================================================================
