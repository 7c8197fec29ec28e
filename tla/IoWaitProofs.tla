---------------------------- MODULE IoWaitProofs ----------------------------
(***************************************************************************)
(* Proofs about IoWait, for any number of coroutines, polls and triggering *)
(* threads: the queue holds the parked tasks and no trigger is lost.       *)
(***************************************************************************)
EXTENDS IoWait, TLAPS

(***************************************************************************)
(* The inductive invariant.  Beyond the two properties it says that a      *)
(* thread in IOBlockTriggered has switched its sentry, and that a task on  *)
(* its way to the queue has a sentry that SchedulerSwitch has not seen.    *)
(***************************************************************************)
OnTheWay ==
  \A t \in Tasks : pc[t] \in {"adding", "left", "parked"} => polls[t] > 0

NotSeen ==
  \A s \in Sentries :
    \/ s[2] > polls[s[1]]
    \/ s = Current(s[1]) /\ pc[s[1]] \in {"adding", "left"}
    => switch[s] = "none"

IInv == TypeOK /\ OnTheWay /\ NotSeen /\ QueueIsParked /\ NoLostTrigger

USE IoWaitAssumption

(* The initial states satisfy the invariant.                               *)
LEMMA InitIInv == Init => IInv
<1> SUFFICES ASSUME Init PROVE IInv
  OBVIOUS
<1>1. TypeOK
  BY DEF Init, TypeOK, Sentries
<1>2. OnTheWay /\ NotSeen
  BY DEF Init, OnTheWay, NotSeen
<1>3. QueueIsParked /\ NoLostTrigger
  BY DEF Init, QueueIsParked, NoLostTrigger
<1> QED
  BY <1>1, <1>2, <1>3 DEF IInv

(* The sentry of a task that is in a poll is one of Sentries.              *)
LEMMA CurrentSentry ==
  ASSUME TypeOK, NEW t \in Tasks, polls[t] > 0
  PROVE  Current(t) \in Sentries
BY DEF TypeOK, Current, Sentries

(* Taking a sentry out of the queue makes the one task runnable that is    *)
(* parked with it, and none when the sentry was not in the queue.          *)
LEMMA EraseQueue ==
  ASSUME IInv, NEW s \in Sentries, EraseSentry(s), polls' = polls
  PROVE  /\ QueueIsParked'
         /\ pc' \in [Tasks -> {"run", "adding", "left", "parked", "ready"}]
         /\ wait_io_sentries_' = wait_io_sentries_ \ {s}
         /\ \A t \in Tasks : pc'[t] = pc[t] \/ pc'[t] = "ready"
<1> USE DEF IInv
<1>1. CASE s \in wait_io_sentries_
  <2>1. PICK t \in Tasks : pc[t] = "parked" /\ s = Current(t)
    BY <1>1 DEF QueueIsParked
  <2>2. s[1] = t /\ pc' = [pc EXCEPT ![t] = "ready"] /\ wait_io_sentries_' = wait_io_sentries_ \ {s}
    BY <1>1, <2>1 DEF EraseSentry, Current
  <2>3. \A u \in Tasks : u # t => Current(u) # s
    BY <2>1 DEF Current
  <2>4. \A u \in Tasks : Current(u)' = Current(u)
    BY DEF Current
  <2>5. QueueIsParked'
    BY <2>1, <2>2, <2>3, <2>4 DEF QueueIsParked, TypeOK
  <2> QED
    BY <2>2, <2>5 DEF TypeOK
<1>2. CASE s \notin wait_io_sentries_
  BY <1>2 DEF EraseSentry, QueueIsParked, Current, TypeOK
<1> QED
  BY <1>1, <1>2

(* Every step of every thread keeps the invariant.                         *)
LEMMA NextIInv == IInv /\ [Next]_vars => IInv'
<1> SUFFICES ASSUME IInv, [Next]_vars PROVE IInv'
  OBVIOUS
<1> USE DEF IInv
<1>1. ASSUME NEW t \in Tasks, poll(t) PROVE IInv'
  <2>1. TypeOK'
    BY <1>1 DEF poll, TypeOK
  <2>2. OnTheWay'
    BY <1>1 DEF poll, OnTheWay, TypeOK
  <2>3. NotSeen'
    BY <1>1 DEF poll, NotSeen, TypeOK, Current, Sentries
  <2>4. QueueIsParked'
    BY <1>1 DEF poll, QueueIsParked, TypeOK, Current
  <2>5. NoLostTrigger'
    BY <1>1 DEF poll, NoLostTrigger, WillErase
  <2> QED
    BY <2>1, <2>2, <2>3, <2>4, <2>5
<1>2. ASSUME NEW t \in Tasks, CoSwitch(t) PROVE IInv'
  <2>1. TypeOK'
    BY <1>2 DEF CoSwitch, TypeOK
  <2>2. OnTheWay' /\ NotSeen'
    BY <1>2 DEF CoSwitch, OnTheWay, NotSeen, TypeOK, Current
  <2>3. QueueIsParked'
    BY <1>2 DEF CoSwitch, QueueIsParked, TypeOK, Current
  <2>4. NoLostTrigger'
    BY <1>2 DEF CoSwitch, NoLostTrigger, WillErase
  <2> QED
    BY <2>1, <2>2, <2>3, <2>4
<1>3. ASSUME NEW t \in Tasks, SwapIn(t) PROVE IInv'
  <2>1. TypeOK'
    BY <1>3 DEF SwapIn, TypeOK
  <2>2. OnTheWay' /\ NotSeen'
    BY <1>3 DEF SwapIn, OnTheWay, NotSeen, TypeOK, Current
  <2>3. QueueIsParked'
    BY <1>3 DEF SwapIn, QueueIsParked, TypeOK, Current
  <2>4. NoLostTrigger'
    BY <1>3 DEF SwapIn, NoLostTrigger, WillErase
  <2> QED
    BY <2>1, <2>2, <2>3, <2>4
<1>4. ASSUME NEW t \in Tasks, SwitchPush(t) PROVE IInv'
  <2>1. Current(t) \in Sentries
    BY <1>4, CurrentSentry DEF SwitchPush, OnTheWay
  <2>2. TypeOK'
    BY <1>4, <2>1 DEF SwitchPush, TypeOK
  <2>3. OnTheWay'
    BY <1>4 DEF SwitchPush, OnTheWay, TypeOK
  <2>4. NotSeen'
    BY <1>4, <2>1 DEF SwitchPush, NotSeen, TypeOK, Current, Sentries
  <2>5. QueueIsParked'
    BY <1>4 DEF SwitchPush, QueueIsParked, TypeOK, Current
  <2>6. NoLostTrigger'
    BY <1>4, <2>1 DEF SwitchPush, NoLostTrigger, WillErase, TypeOK
  <2> QED
    BY <2>2, <2>3, <2>4, <2>5, <2>6
<1>5. ASSUME NEW s \in Sentries, SwitchCheck(s) PROVE IInv'
  <2>1. TypeOK'
    BY <1>5 DEF SwitchCheck, TypeOK
  <2>2. OnTheWay' /\ NotSeen'
    BY <1>5 DEF SwitchCheck, OnTheWay, NotSeen, TypeOK, Current
  <2>3. QueueIsParked'
    BY <1>5 DEF SwitchCheck, QueueIsParked, Current
  <2>4. NoLostTrigger'
    BY <1>5 DEF SwitchCheck, NoLostTrigger, WillErase, TypeOK
  <2> QED
    BY <2>1, <2>2, <2>3, <2>4
<1>6. ASSUME NEW s \in Sentries, SwitchErase(s) PROVE IInv'
  <2>1. polls' = polls /\ EraseSentry(s)
    BY <1>6 DEF SwitchErase
  <2>2. TypeOK'
    BY <1>6, <2>1, EraseQueue DEF SwitchErase, TypeOK
  <2>3. \A t \in Tasks : pc'[t] = pc[t] \/ pc'[t] = "ready"
    BY <2>1, EraseQueue
  <2>4. OnTheWay'
    BY <2>1, <2>3 DEF OnTheWay
  <2>5. NotSeen'
    BY <1>6, <2>1, <2>3 DEF SwitchErase, NotSeen, TypeOK, Current, Sentries
  <2>6. NoLostTrigger'
    BY <1>6, <2>1, EraseQueue DEF SwitchErase, NoLostTrigger, WillErase, TypeOK
  <2> QED
    BY <2>1, <2>2, <2>4, <2>5, <2>6, EraseQueue
<1>7. ASSUME NEW a \in Triggerers, NEW s \in Sentries, IOBlockTriggered(a, s) PROVE IInv'
  <2>1. TypeOK'
    BY <1>7 DEF IOBlockTriggered, TypeOK
  <2>2. OnTheWay' /\ NotSeen'
    BY <1>7 DEF IOBlockTriggered, OnTheWay, NotSeen, Current
  <2>3. QueueIsParked'
    BY <1>7 DEF IOBlockTriggered, QueueIsParked, Current
  <2>4. NoLostTrigger'
    BY <1>7 DEF IOBlockTriggered, NoLostTrigger, WillErase, TypeOK
  <2> QED
    BY <2>1, <2>2, <2>3, <2>4
<1>8. ASSUME NEW a \in Triggerers, TriggerErase(a) PROVE IInv'
  <2> DEFINE s == triggering[a]
  <2>1. s \in Sentries /\ polls' = polls /\ EraseSentry(s)
    BY <1>8 DEF TriggerErase, TypeOK
  <2>2. TypeOK'
    BY <1>8, <2>1, EraseQueue DEF TriggerErase, TypeOK
  <2>3. \A t \in Tasks : pc'[t] = pc[t] \/ pc'[t] = "ready"
    BY <2>1, EraseQueue
  <2>4. OnTheWay'
    BY <2>1, <2>3 DEF OnTheWay
  <2>5. NotSeen'
    BY <1>8, <2>1, <2>3 DEF TriggerErase, NotSeen, TypeOK, Current, Sentries
  <2>6. NoLostTrigger'
    BY <1>8, <2>1, EraseQueue DEF TriggerErase, NoLostTrigger, WillErase, TypeOK
  <2> QED
    BY <2>1, <2>2, <2>4, <2>5, <2>6, EraseQueue
<1>9. CASE UNCHANGED vars
  BY <1>9 DEF vars, TypeOK, OnTheWay, NotSeen, QueueIsParked, NoLostTrigger, WillErase, Current
<1> QED
  BY <1>1, <1>2, <1>3, <1>4, <1>5, <1>6, <1>7, <1>8, <1>9 DEF Next, Processer, SchedulerSwitch

(* Type correctness, and the two facts that make the parking protocol of   *)
(* SchedulerSwitch and IOBlockTriggered right, for every number of tasks,  *)
(* threads and polls: no stale trigger makes a task runnable twice or in a *)
(* later poll, and no trigger is lost between the thread that parks a task *)
(* and the one that triggers it.                                           *)
THEOREM ParkingIsSafe == Spec => [](TypeOK /\ QueueIsParked /\ NoLostTrigger)
<1>1. IInv => TypeOK /\ QueueIsParked /\ NoLostTrigger
  BY DEF IInv
<1> QED
  BY InitIInv, NextIInv, <1>1, PTL DEF Spec
=============================================================================
