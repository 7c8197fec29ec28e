------------------------------ MODULE Channel ------------------------------
(***************************************************************************)
(* Channel<T> (libgo/channel.h): a queue between coroutines.  A writer     *)
(* needs a signal of write_block_, pushes, and signals read_block_; a      *)
(* reader signals write_block_ first, needs a signal of read_block_, and   *)
(* pops.  A reader that gives up has to take its write signal back.  The   *)
(* values themselves do not matter here, so queue_ is its length.  Each    *)
(* task reads and writes any number of times.                              *)
(***************************************************************************)
EXTENDS CoBlock

CONSTANTS
  write_block_, read_block_,
  queue_lock_,   \* the block_ of the CoMutex around queue_
  Capacity       \* the constructor's capacity

ASSUME ChannelAssumption ==
  /\ Cardinality({write_block_, read_block_, queue_lock_}) = 3
  /\ Objects = {write_block_, read_block_, queue_lock_}
  /\ Capacity \in Nat

VARIABLES
  queue_,        \* the length of queue_
  pc             \* what a task does next when it runs

vars == <<coVars, queue_, pc>>

Goto(t, from, to) == /\ Runs(t)
                     /\ pc[t] = from
                     /\ pc' = [pc EXCEPT ![t] = to]

Init ==
  /\ CoInit([o \in Objects |-> CASE o = write_block_ -> Capacity
                                 [] o = read_block_  -> 0
                                 [] o = queue_lock_  -> 1])
  /\ queue_ = 0
  /\ pc = [t \in Tasks |-> "idle"]

-----------------------------------------------------------------------------
(* operator<<, TimedPush and TryPush.                                      *)
Push(t) ==
  /\ Goto(t, "idle", "push")
  /\ CoBlockWait(t, write_block_)
  /\ UNCHANGED queue_

TimedPush(t) ==
  /\ Goto(t, "idle", "timed_push")
  /\ CoBlockWaitTimed(t, write_block_)
  /\ UNCHANGED queue_

TryPush(t) ==
  /\ Goto(t, "idle", "push")
  /\ TryBlockWait(write_block_)
  /\ UNCHANGED queue_

TimedPushFails(t) ==
  /\ timeout[t]
  /\ Goto(t, "timed_push", "idle")
  /\ UNCHANGED <<coVars, queue_>>


LockToPush(t) ==
  /\ \/ Goto(t, "push", "pushing")
     \/ ~timeout[t] /\ Goto(t, "timed_push", "pushing")
  /\ CoBlockWait(t, queue_lock_)
  /\ UNCHANGED queue_

QueuePush(t) ==
  /\ Goto(t, "pushing", "pushed")
  /\ queue_' = queue_ + 1
  /\ Wakeup(queue_lock_)

(* Mutant: read_block_ is not signalled.                                   *)
NoSignalRead(t) ==
  /\ Goto(t, "pushed", "idle")
  /\ UNCHANGED <<coVars, queue_>>

SignalRead(t) ==
  /\ Goto(t, "pushed", "idle")
  /\ Wakeup(read_block_)
  /\ UNCHANGED queue_

-----------------------------------------------------------------------------

(* operator>>, TimedPop and TryPop begin with write_block_.Wakeup().       *)
SignalWrite(t) ==
  /\ Goto(t, "idle", "pop") \/ Goto(t, "idle", "timed_pop") \/ Goto(t, "idle", "retry")
  /\ Wakeup(write_block_)
  /\ UNCHANGED queue_

Pop(t) ==
  /\ Goto(t, "pop", "take")
  /\ CoBlockWait(t, read_block_)
  /\ UNCHANGED queue_

TimedPop(t) ==
  /\ Goto(t, "timed_pop", "timed_take")
  /\ CoBlockWaitTimed(t, read_block_)
  /\ UNCHANGED queue_

LockToTake(t) ==
  /\ \/ Goto(t, "take", "taking")
     \/ ~timeout[t] /\ Goto(t, "timed_take", "taking")
  /\ CoBlockWait(t, queue_lock_)
  /\ UNCHANGED queue_

QueuePop(t) ==
  /\ Goto(t, "taking", "idle")
  /\ queue_' = queue_ - 1
  /\ Wakeup(queue_lock_)

(* Mutant: when a writer has the signal the value is taken at once.        *)
TimedPopTakes(t) ==
  /\ timeout[t]
  /\ IF wakeup[write_block_] > 0
       THEN Goto(t, "timed_take", "idle") /\ TryBlockWait(write_block_)
       ELSE Goto(t, "timed_take", "take") /\ UNCHANGED coVars
  /\ UNCHANGED queue_

(* Mutant: the write signal is not taken back.                             *)
TimedPopLeaves(t) ==
  /\ timeout[t]
  /\ Goto(t, "timed_take", "idle")
  /\ UNCHANGED <<coVars, queue_>>

(* TimedPop timed out: the write signal is taken back, or else a writer    *)
(* has it and a value is on its way.                                       *)
TimedPopFails(t) ==
  /\ timeout[t]
  /\ IF wakeup[write_block_] > 0
       THEN Goto(t, "timed_take", "idle") /\ TryBlockWait(write_block_)
       ELSE Goto(t, "timed_take", "retry") /\ UNCHANGED coVars
  /\ UNCHANGED queue_

(* The loop of TryPop, and of TimedPop after its timeout: TryBlockWait on  *)
(* read_block_, then on write_block_, then CoYield.                        *)
RetryTake(t) ==
  /\ IF wakeup[read_block_] > 0
       THEN Goto(t, "retry", "take") /\ TryBlockWait(read_block_)
       ELSE Goto(t, "retry", "retract") /\ UNCHANGED coVars
  /\ UNCHANGED queue_

(* Mutant: the loop does not yield.                                        *)
RetractSpins(t) ==
  /\ IF wakeup[write_block_] > 0
       THEN Goto(t, "retract", "idle") /\ TryBlockWait(write_block_)
       ELSE Goto(t, "retract", "retry") /\ UNCHANGED coVars
  /\ UNCHANGED queue_

Retract(t) ==
  /\ IF wakeup[write_block_] > 0
       THEN Goto(t, "retract", "idle") /\ TryBlockWait(write_block_)
       ELSE Goto(t, "retract", "retry") /\ CoYield(t)
  /\ UNCHANGED queue_

-----------------------------------------------------------------------------
Start(t) == Push(t) \/ TimedPush(t) \/ TryPush(t) \/ SignalWrite(t)

Write(t) == TimedPushFails(t) \/ LockToPush(t) \/ QueuePush(t) \/ SignalRead(t)

Read(t) ==
  \/ Pop(t) \/ TimedPop(t) \/ LockToTake(t) \/ QueuePop(t)
  \/ TimedPopFails(t) \/ RetryTake(t) \/ Retract(t)

Processer(t) == Schedule(t) /\ UNCHANGED <<queue_, pc>>

Timer(t) == CancelWait(t) /\ UNCHANGED <<queue_, pc>>

(* Between two calls user code waits for something else (IO, sleep), and   *)
(* comes back through AddTaskRunnable.                                     *)
UserWait(t) ==
  /\ pc[t] = "idle" /\ Runs(t)
  /\ at' = [at EXCEPT ![t] = "ready"]
  /\ block' = [block EXCEPT ![t] = NoObject]
  /\ UNCHANGED <<wakeup, waitq, timed, timeout, queue_, pc>>

Next == \E t \in Tasks : Start(t) \/ Write(t) \/ Read(t) \/ Processer(t) \/ Timer(t) \/ UserWait(t)

Spec == Init /\ [][Next]_vars

(***************************************************************************)
(* The runnable list is FIFO, so a runnable task gets its turn however     *)
(* often others come first (SF); a task goes on with the call it is in,    *)
(* and does not hold the thread for ever between two calls.  Nothing makes *)
(* a task start another call, and no timer has to fire.                    *)
(***************************************************************************)
FairSpec ==
  /\ Spec
  /\ \A t \in Tasks :
       SF_vars(Processer(t)) /\ WF_vars(Write(t)) /\ WF_vars(Read(t)) /\ SF_vars(UserWait(t))

-----------------------------------------------------------------------------
(* Properties.                                                             *)

PCs == {"idle", "push", "timed_push", "pushing", "pushed", "pop", "timed_pop", "take",
        "timed_take", "taking", "retry", "retract"}

TypeOK ==
  /\ CoTypeOK
  /\ queue_ \in Int
  /\ pc \in [Tasks -> PCs]

(* Task t is back from the wait it began last, with a signal.              *)
Back(t) == at[t] \in {"ready", "run"}

Served(t) == Back(t) /\ ~timeout[t]

(* The writers that hold a signal of write_block_, the readers that hold   *)
(* one of read_block_, and the readers that have signalled write_block_.   *)
Writers == {t \in Tasks : \/ pc[t] = "push" /\ Back(t)
                          \/ pc[t] = "timed_push" /\ Served(t)
                          \/ pc[t] = "pushing"}

Readers == {t \in Tasks : \/ pc[t] = "take" /\ Back(t)
                          \/ pc[t] = "timed_take" /\ Served(t)
                          \/ pc[t] = "taking"}

Asking == {t \in Tasks : pc[t] \in {"pop", "timed_pop", "take", "timed_take", "taking",
                                    "retry", "retract"}}

Pushed == {t \in Tasks : pc[t] = "pushed"}

(* Every reader that got through read_block_ finds a value of its own in   *)
(* the queue: front and pop (channel.h lines 140 to 145 and the like) are  *)
(* never called on an empty queue, however retries and timeouts mix.       *)
PopHasValue ==
  wakeup[read_block_] + Cardinality(Readers) + Cardinality(Pushed) <= queue_

(* The queue never outgrows the capacity by more than the readers that     *)
(* wait for a value: a reader that gives up takes its signal back first.   *)
CapacityKept ==
  wakeup[write_block_] + Cardinality(Writers) + queue_ <= Capacity + Cardinality(Asking)


(* With one scheduler thread no signal is lost either: the two counts are  *)
(* exact.  With more, a yield of Retract that follows a wait ended by      *)
(* AddWaitTask waits again, and drops the signal that ends it.             *)
NoSignalLost ==
  /\ wakeup[read_block_] + Cardinality(Readers) + Cardinality(Pushed) = queue_
  /\ wakeup[write_block_] + Cardinality(Writers) + queue_ = Capacity + Cardinality(Asking)

Waits(t, o) == at[t] = "queued" /\ block[t] = o


(* With one scheduler thread, TryPop returns: its loop, which yields while *)
(* neither a value nor its own signal is to be had, ends.                  *)
TryPopReturns ==
  \A t \in Tasks : pc[t] \in {"retry", "retract"} ~> pc[t] \notin {"retry", "retract"}
=============================================================================
