------------------------------- MODULE IoWait -------------------------------
(***************************************************************************)
(* The IO wait of libgo: how a coroutine inside the hooked poll            *)
(* (libgo/linux/linux_glibc_hook.cpp) parks itself and is made runnable    *)
(* again (libgo/linux/io_wait.cpp, IoSentry of fd_context.cpp).  Each poll *)
(* has an IoSentry of its own.  The file descriptors it is registered with *)
(* let other threads trigger it from then on: WaitLoop for a ready         *)
(* descriptor, close, and the timer of the poll, each of them any number   *)
(* of times and also after the poll has returned, since they hold          *)
(* references to the sentry.  The coroutine is meanwhile on its way from   *)
(* its thread into wait_io_sentries_.                                      *)
(***************************************************************************)
EXTENDS Naturals

CONSTANTS
  Tasks,        \* coroutines
  Triggerers,   \* threads in WaitLoop, close or a timer callback
  NoSentry,     \* a null IoSentryPtr
  MaxPoll       \* bound: how often a coroutine polls

(* The sentry of the n-th poll of a task.                                  *)
Sentries == Tasks \X (1..MaxPoll)

ASSUME IoWaitAssumption == MaxPoll \in Nat /\ NoSentry \notin Sentries

VARIABLES
  polls,              \* how many polls a task has started
  io_state_,          \* IoSentry::io_state_
  wait_io_sentries_,  \* IoWait::wait_io_sentries_
  pc,                 \* where a task is
  switch,             \* where SchedulerSwitch is with a sentry
  triggering          \* the sentry a thread in IOBlockTriggered has switched

vars == <<polls, io_state_, wait_io_sentries_, pc, switch, triggering>>

(* Mutant: the sentry of the poll before.                                  *)
StaleSentry(t) == <<t, polls[t] - 1>>

Current(t) == <<t, polls[t]>>

Created(s) == s[2] <= polls[s[1]]

(***************************************************************************)
(* A task "run"s, is "adding" its sentry to the descriptors in poll, has   *)
(* "left" its thread with state_ io_block, is "parked" by SchedulerSwitch, *)
(* or "ready" in a runnable list.                                          *)
(***************************************************************************)
Init ==
  /\ polls = [t \in Tasks |-> 0]
  /\ io_state_ = [s \in Sentries |-> "pending"]
  /\ wait_io_sentries_ = {}
  /\ pc = [t \in Tasks |-> "ready"]
  /\ switch = [s \in Sentries |-> "none"]
  /\ triggering = [a \in Triggerers |-> NoSentry]

-----------------------------------------------------------------------------
(* poll, in the coroutine.                                                 *)

(* Nothing is ready, and a descriptor takes the new sentry.  (When none    *)
(* does, poll returns and nothing has changed.)                            *)
poll(t) ==
  /\ pc[t] = "run"
  /\ polls[t] < MaxPoll
  /\ polls' = [polls EXCEPT ![t] = @ + 1]
  /\ pc' = [pc EXCEPT ![t] = "adding"]
  /\ UNCHANGED <<io_state_, wait_io_sentries_, switch, triggering>>

CoSwitch(t) ==
  /\ pc[t] = "adding"
  /\ pc' = [pc EXCEPT ![t] = "left"]
  /\ UNCHANGED <<polls, io_state_, wait_io_sentries_, switch, triggering>>

(* The task is resumed and poll returns.                                   *)
SwapIn(t) ==
  /\ pc[t] = "ready"
  /\ pc' = [pc EXCEPT ![t] = "run"]
  /\ UNCHANGED <<polls, io_state_, wait_io_sentries_, switch, triggering>>

-----------------------------------------------------------------------------
(* SchedulerSwitch, on the thread the task left: A, then B.                *)
SwitchPush(t) ==
  /\ pc[t] = "left"
  /\ wait_io_sentries_' = wait_io_sentries_ \cup {Current(t)}
  /\ switch' = [switch EXCEPT ![Current(t)] = "pushed"]
  /\ pc' = [pc EXCEPT ![t] = "parked"]
  /\ UNCHANGED <<polls, io_state_, triggering>>

(* Mutant: io_state_ is not looked at after the push.                      *)
SwitchNoCheck(s) ==
  /\ switch[s] = "pushed"
  /\ switch' = [switch EXCEPT ![s] = "done"]
  /\ UNCHANGED <<polls, io_state_, wait_io_sentries_, pc, triggering>>

SwitchCheck(s) ==
  /\ switch[s] = "pushed"
  /\ switch' = [switch EXCEPT ![s] = IF io_state_[s] = "triggered" THEN "erase" ELSE "done"]
  /\ UNCHANGED <<polls, io_state_, wait_io_sentries_, pc, triggering>>

(* Mutant: the result of erase is ignored.                                 *)
EraseUnchecked(s) ==
  /\ wait_io_sentries_' = wait_io_sentries_ \ {s}
  /\ pc' = [pc EXCEPT ![s[1]] = "ready"]

(* __IOBlockTriggered: whoever takes the sentry out of the queue makes its *)
(* task runnable.                                                          *)
EraseSentry(s) ==
  /\ wait_io_sentries_' = wait_io_sentries_ \ {s}
  /\ pc' = IF s \in wait_io_sentries_ THEN [pc EXCEPT ![s[1]] = "ready"] ELSE pc

SwitchErase(s) ==
  /\ switch[s] = "erase"
  /\ EraseSentry(s)
  /\ switch' = [switch EXCEPT ![s] = "done"]
  /\ UNCHANGED <<polls, io_state_, triggering>>

-----------------------------------------------------------------------------
(* Mutant: the sentry is switched, and the queue not looked into.          *)
TriggerOnly(a, s) ==
  /\ triggering[a] = NoSentry
  /\ Created(s)
  /\ io_state_[s] = "pending"
  /\ io_state_' = [io_state_ EXCEPT ![s] = "triggered"]
  /\ UNCHANGED <<polls, wait_io_sentries_, pc, switch, triggering>>

(* IOBlockTriggered, on another thread: B, then A.                         *)
IOBlockTriggered(a, s) ==
  /\ triggering[a] = NoSentry
  /\ Created(s)
  /\ io_state_[s] = "pending"
  /\ io_state_' = [io_state_ EXCEPT ![s] = "triggered"]
  /\ triggering' = [triggering EXCEPT ![a] = s]
  /\ UNCHANGED <<polls, wait_io_sentries_, pc, switch>>

TriggerErase(a) ==
  /\ triggering[a] # NoSentry
  /\ EraseSentry(triggering[a])
  /\ triggering' = [triggering EXCEPT ![a] = NoSentry]
  /\ UNCHANGED <<polls, io_state_, switch>>

-----------------------------------------------------------------------------
Processer(t) == SwapIn(t) \/ SwitchPush(t)

SchedulerSwitch(s) == SwitchCheck(s) \/ SwitchErase(s)

Next ==
  \/ \E t \in Tasks : poll(t) \/ CoSwitch(t) \/ Processer(t)
  \/ \E s \in Sentries : SchedulerSwitch(s)
  \/ \E a \in Triggerers : TriggerErase(a) \/ \E s \in Sentries : IOBlockTriggered(a, s)

Spec == Init /\ [][Next]_vars

(***************************************************************************)
(* Scheduler threads keep running and finish the functions they are in.    *)
(* Whether a descriptor ever becomes ready is not fair.                    *)
(***************************************************************************)
FairSpec ==
  /\ Spec
  /\ \A t \in Tasks : WF_vars(Processer(t)) /\ WF_vars(CoSwitch(t))
  /\ \A s \in Sentries : WF_vars(SchedulerSwitch(s))
  /\ \A a \in Triggerers : WF_vars(TriggerErase(a))

-----------------------------------------------------------------------------
(* Properties.                                                             *)

TypeOK ==
  /\ polls \in [Tasks -> 0..MaxPoll]
  /\ io_state_ \in [Sentries -> {"pending", "triggered"}]
  /\ wait_io_sentries_ \subseteq Sentries
  /\ pc \in [Tasks -> {"run", "adding", "left", "parked", "ready"}]
  /\ switch \in [Sentries -> {"none", "pushed", "erase", "done"}]
  /\ triggering \in [Triggerers -> Sentries \cup {NoSentry}]

(* The queue holds exactly the sentries of the parked tasks, each for the  *)
(* poll its task is in: erase from it succeeds once per parking, so a late *)
(* or repeated trigger never makes a task runnable that is running, is in  *)
(* a runnable list already, or waits in a later poll.                      *)
QueueIsParked == wait_io_sentries_ = {Current(t) : t \in {u \in Tasks : pc[u] = "parked"}}

(* Someone is about to take the sentry out of the queue: a thread that     *)
(* triggered it, or SchedulerSwitch, which has the look at io_state_ or    *)
(* its erase still to come.                                                *)
WillErase(s) ==
  \/ switch[s] \in {"pushed", "erase"}
  \/ \E a \in Triggerers : triggering[a] = s

(* No lost trigger: a task parked with a triggered sentry will be woken.   *)
(* SchedulerSwitch queues and then looks, IOBlockTriggered triggers and    *)
(* then looks into the queue (the A and B of io_wait.cpp lines 80 to 94).  *)
NoLostTrigger ==
  \A s \in wait_io_sentries_ : io_state_[s] = "triggered" => WillErase(s)

(* A parked coroutine whose sentry was triggered, before or after it       *)
(* parked, returns from its poll.                                          *)
TriggeredPollReturns ==
  \A s \in Sentries :
    (s = Current(s[1]) /\ io_state_[s] = "triggered") ~> (pc[s[1]] = "run")
=============================================================================
