---------------------------- MODULE BlockObject ----------------------------
(***************************************************************************)
(* The blocking primitive of libgo: co::BlockObject, a counting signal     *)
(* with a FIFO queue of waiting coroutines (libgo/block_object.cpp),       *)
(* together with everything a blocked coroutine goes through: the switch   *)
(* of Processer::Run that files a coroutine that gave up its thread        *)
(* (libgo/processer.cpp), and the CoTimer that ends a timed wait           *)
(* (libgo/timer.cpp).  CoMutex, CoRWMutex and Channel are built on it.     *)
(*                                                                         *)
(* A step is one critical section of the object's spin lock lock_, or a    *)
(* piece of code between two of them that touches only what the acting     *)
(* thread owns at that time.  Any number of coroutines run at once, each   *)
(* on a scheduler thread of its own.  Threads are callers outside any      *)
(* coroutine: thread pool workers, timer callbacks, main.  A timer may     *)
(* fire any time after it is armed.                                        *)
(***************************************************************************)
EXTENDS Integers, Sequences, FiniteSets

CONSTANTS
  Tasks,        \* coroutines
  Threads,      \* callers outside coroutines
  Blocks,       \* block objects
  NoTask,       \* a null Task*
  NoBlock,      \* a null BlockObject*
  InitWakeup,   \* init_wakeup of the constructor
  MaxWakeup,    \* max_wakeup_ of the constructor
  MaxSeq,       \* bound on block_sequence_: how often a coroutine may block
  Timeouts,     \* the timeouts CoBlockWaitTimed is called with; 0 is zero()
  Yielders      \* the coroutines that call CoYield

ASSUME BlockObjectAssumption ==
  /\ InitWakeup \in Nat /\ MaxWakeup \in Nat /\ InitWakeup <= MaxWakeup
  /\ MaxSeq \in Nat
  /\ Timeouts \subseteq Nat
  /\ Yielders \subseteq Tasks
  /\ Tasks \cap Threads = {}
  /\ NoTask \notin Tasks \cup Threads /\ NoBlock \notin Blocks

VARIABLES
  wakeup_,            \* BlockObject::wakeup_
  wait_queue_,        \* BlockObject::wait_queue_
  state_,             \* Task::state_
  block_,             \* Task::block_
  block_sequence_,    \* Task::block_sequence_
  block_timeout_,     \* Task::block_timeout_
  is_block_timeout_,  \* Task::is_block_timeout_
  block_timer_,       \* Task::block_timer_: the block_sequence_ it was armed at
  reference_,         \* RefObject::reference_ of the task
  timer,              \* the CoTimer armed by a task at a block_sequence_
  timer_this,         \* the BlockObject its callback captured
  pc,                 \* where a task or a thread is
  waking,             \* the local tk of a running Wakeup
  op,                 \* the call a task gave up its thread in
  got,                \* history: the last wait took a signal
  ret                 \* what the last wait told its caller: TRUE when it returned
                      \* true, or returned at all when it returns nothing

objVars   == <<wakeup_, wait_queue_>>
blockVars == <<block_, block_sequence_, block_timeout_, is_block_timeout_>>
timerVars == <<block_timer_, timer, timer_this>>
callVars  == <<op, got, ret>>
vars == <<objVars, state_, blockVars, timerVars, reference_, pc, waking, callVars>>

Actors == Tasks \cup Threads
Seqs   == 1..MaxSeq

(***************************************************************************)
(* A task is "ready" in a runnable list, "run"ning on a thread, "left" its *)
(* thread and not yet filed by Processer::Run, "waiting" in a wait queue,  *)
(* "popped" from it and not yet runnable, or "dead".  A running actor      *)
(* inside Wakeup is at "wake" (just popped tk) or "cancel" (about to stop  *)
(* tk's timer).                                                            *)
(***************************************************************************)
TaskPCs   == {"ready", "run", "wake", "cancel", "left", "waiting", "popped", "dead"}
ThreadPCs == {"run", "wake", "cancel"}

(***************************************************************************)
(* A timer is "armed" while active_; "cancelling", "erased" and "ending"   *)
(* are the stages of its callback, which runs under fn_lock_.              *)
(***************************************************************************)
Running     == {"cancelling", "erased", "ending"}
TimerStates == {"none", "armed", "over", "cancelled"} \cup Running

Init ==
  /\ wakeup_ = [b \in Blocks |-> InitWakeup]
  /\ wait_queue_ = [b \in Blocks |-> <<>>]
  /\ state_ = [t \in Tasks |-> "runnable"]
  /\ block_ = [t \in Tasks |-> NoBlock]
  /\ block_sequence_ = [t \in Tasks |-> 0]
  /\ block_timeout_ = [t \in Tasks |-> 0]
  /\ is_block_timeout_ = [t \in Tasks |-> FALSE]
  /\ block_timer_ = [t \in Tasks |-> 0]
  /\ reference_ = [t \in Tasks |-> 2]
  /\ timer = [t \in Tasks |-> [s \in Seqs |-> "none"]]
  /\ timer_this = [t \in Tasks |-> [s \in Seqs |-> NoBlock]]
  /\ pc = [a \in Actors |-> IF a \in Tasks THEN "ready" ELSE "run"]
  /\ waking = [a \in Actors |-> NoTask]
  /\ op = [t \in Tasks |-> "none"]
  /\ got = [a \in Actors |-> FALSE]
  /\ ret = [a \in Actors |-> FALSE]

-----------------------------------------------------------------------------
(* What a running coroutine or thread calls.                               *)

(* The fast path of CoBlockWait, CoBlockWaitTimed and TryBlockWait: a      *)
(* stored signal is taken under the lock.                                  *)
TakeSignal(a, b) ==
  /\ pc[a] = "run"
  /\ wakeup_[b] > 0
  /\ wakeup_' = [wakeup_ EXCEPT ![b] = @ - 1]
  /\ got' = [got EXCEPT ![a] = TRUE]
  /\ ret' = [ret EXCEPT ![a] = TRUE]
  /\ UNCHANGED <<wait_queue_, state_, blockVars, timerVars, reference_, pc, waking, op>>

(* CoBlockWaitTimed outside a coroutine: it polls TryBlockWait until the   *)
(* timeout, and returns false however the loop ended.                      *)
PollTimed(a, b) ==
  /\ a \in Threads
  /\ pc[a] = "run"
  /\ \/ /\ wakeup_[b] > 0
        /\ wakeup_' = [wakeup_ EXCEPT ![b] = @ - 1]
        /\ got' = [got EXCEPT ![a] = TRUE]
     \/ /\ wakeup_[b] = 0
        /\ UNCHANGED wakeup_
        /\ got' = [got EXCEPT ![a] = FALSE]
  /\ ret' = [ret EXCEPT ![a] = FALSE]
  /\ UNCHANGED <<wait_queue_, state_, blockVars, timerVars, reference_, pc, waking, op>>

(* Mutant: is_block_timeout_ keeps its value from an earlier wait.         *)
StartWaitNoReset(t, b, call, timeo) ==
  /\ pc[t] = "run"
  /\ wakeup_[b] = 0
  /\ block_sequence_[t] < MaxSeq
  /\ block_' = [block_ EXCEPT ![t] = b]
  /\ state_' = [state_ EXCEPT ![t] = "sys_block"]
  /\ block_timeout_' = [block_timeout_ EXCEPT ![t] = timeo]
  /\ block_sequence_' = [block_sequence_ EXCEPT ![t] = @ + 1]
  /\ pc' = [pc EXCEPT ![t] = "left"]
  /\ op' = [op EXCEPT ![t] = call]
  /\ got' = [got EXCEPT ![t] = FALSE]
  /\ UNCHANGED <<objVars, is_block_timeout_, timerVars, reference_, waking, ret>>

(* The slow path of CoBlockWait (timeo = 0) and CoBlockWaitTimed: no       *)
(* signal, the lock is released, and the coroutine leaves its thread.      *)
StartWait(t, b, call, timeo) ==
  /\ pc[t] = "run"
  /\ wakeup_[b] = 0
  /\ block_sequence_[t] < MaxSeq
  /\ block_' = [block_ EXCEPT ![t] = b]
  /\ state_' = [state_ EXCEPT ![t] = "sys_block"]
  /\ block_timeout_' = [block_timeout_ EXCEPT ![t] = timeo]
  /\ is_block_timeout_' = [is_block_timeout_ EXCEPT ![t] = FALSE]
  /\ block_sequence_' = [block_sequence_ EXCEPT ![t] = @ + 1]
  /\ pc' = [pc EXCEPT ![t] = "left"]
  /\ op' = [op EXCEPT ![t] = call]
  /\ got' = [got EXCEPT ![t] = FALSE]
  /\ UNCHANGED <<objVars, timerVars, reference_, waking, ret>>

CoBlockWait(t, b) == StartWait(t, b, "wait", 0)

CoBlockWaitTimed(t, b) == \E timeo \in Timeouts : StartWait(t, b, "timed", timeo)

(* co_yield, sched_yield and the retry loops of Channel and CoRWMutex.     *)
CoYield(t) ==
  /\ t \in Yielders
  /\ pc[t] = "run"
  /\ pc' = [pc EXCEPT ![t] = "left"]
  /\ op' = [op EXCEPT ![t] = "yield"]
  /\ UNCHANGED <<objVars, state_, blockVars, timerVars, reference_, waking, got, ret>>

(* The coroutine's function returned.                                      *)
Task_CB(t) ==
  /\ pc[t] = "run"
  /\ state_' = [state_ EXCEPT ![t] = "done"]
  /\ pc' = [pc EXCEPT ![t] = "left"]
  /\ UNCHANGED <<objVars, blockVars, timerVars, reference_, waking, callVars>>

(* Mutant: the limit max_wakeup_ is off by one.                            *)
WakeupStoreOverLimit(a, b) ==
  /\ pc[a] = "run"
  /\ wait_queue_[b] = <<>>
  /\ wakeup_[b] <= MaxWakeup
  /\ wakeup_' = [wakeup_ EXCEPT ![b] = @ + 1]
  /\ UNCHANGED <<wait_queue_, state_, blockVars, timerVars, reference_, pc, waking, callVars>>

(* Wakeup, no coroutine waits: the signal is stored, or refused at the     *)
(* limit (Wakeup returns false and nothing changes).                       *)
WakeupStore(a, b) ==
  /\ pc[a] = "run"
  /\ wait_queue_[b] = <<>>
  /\ wakeup_[b] < MaxWakeup
  /\ wakeup_' = [wakeup_ EXCEPT ![b] = @ + 1]
  /\ UNCHANGED <<wait_queue_, state_, blockVars, timerVars, reference_, pc, waking, callVars>>

(* Wakeup: the first waiter is popped under the lock; the signal is its.   *)
WakeupPop(a, b) ==
  /\ pc[a] = "run"
  /\ wait_queue_[b] # <<>>
  /\ LET tk == Head(wait_queue_[b]) IN
       /\ wait_queue_' = [wait_queue_ EXCEPT ![b] = Tail(@)]
       /\ reference_' = [reference_ EXCEPT ![tk] = @ - 1]
       /\ waking' = [waking EXCEPT ![a] = tk]
       /\ got' = [got EXCEPT ![tk] = TRUE]
       /\ pc' = [pc EXCEPT ![a] = "wake", ![tk] = "popped"]
  /\ UNCHANGED <<wakeup_, state_, blockVars, timerVars, op, ret>>

(* After the unlock: tk->block_ = nullptr.                                 *)
WakeupClear(a) ==
  /\ pc[a] = "wake"
  /\ block_' = [block_ EXCEPT ![waking[a]] = NoBlock]
  /\ pc' = [pc EXCEPT ![a] = "cancel"]
  /\ UNCHANGED <<objVars, state_, block_sequence_, block_timeout_, is_block_timeout_,
                 timerVars, reference_, waking, callVars>>

(* Scheduler::AddTaskRunnable and Processer::AddTaskRunnable.              *)
AddTaskRunnable(t) ==
  state_' = [state_ EXCEPT ![t] = "runnable"]

(* Mutant: CancelTimer instead of BlockCancelTimer, which does not wait.   *)
TimerNotAwaited(t, s) == TRUE

(* BlockCancelTimer waits for fn_lock_, so for a running callback to end;  *)
(* it returns true when the callback had not started.                      *)
TimerIdle(t, s) == s # 0 => timer[t][s] \notin Running

Cancelled(t, s) == s # 0 /\ timer[t][s] = "armed"

(* Mutant: the reference of a cancelled timer is not dropped.              *)
WakeupEndLeak(a) ==
  LET tk == waking[a]
      s  == block_timer_[tk]
  IN /\ pc[a] = "cancel"
     /\ TimerIdle(tk, s)
     /\ timer' = IF Cancelled(tk, s) THEN [timer EXCEPT ![tk][s] = "cancelled"] ELSE timer
     /\ reference_' = [reference_ EXCEPT ![tk] = @ + 1]
     /\ block_timer_' = [block_timer_ EXCEPT ![tk] = 0]
     /\ AddTaskRunnable(tk)
     /\ pc' = [pc EXCEPT ![a] = "run", ![tk] = "ready"]
     /\ waking' = [waking EXCEPT ![a] = NoTask]
     /\ UNCHANGED <<objVars, blockVars, timer_this, callVars>>

(* Wakeup ends: the timer is stopped, with its reference when the cancel   *)
(* came first, and tk is made runnable.                                    *)
WakeupEnd(a) ==
  LET tk == waking[a]
      s  == block_timer_[tk]
  IN /\ pc[a] = "cancel"
     /\ TimerIdle(tk, s)
     /\ timer' = IF Cancelled(tk, s) THEN [timer EXCEPT ![tk][s] = "cancelled"] ELSE timer
     /\ reference_' = IF Cancelled(tk, s) THEN reference_   \* DecrementRef, then push
                      ELSE [reference_ EXCEPT ![tk] = @ + 1]
     /\ block_timer_' = [block_timer_ EXCEPT ![tk] = 0]
     /\ AddTaskRunnable(tk)
     /\ pc' = [pc EXCEPT ![a] = "run", ![tk] = "ready"]
     /\ waking' = [waking EXCEPT ![a] = NoTask]
     /\ UNCHANGED <<objVars, blockVars, timer_this, callVars>>

-----------------------------------------------------------------------------
(* Processer::Run.                                                         *)

(* The task is popped from a runnable list and its context resumed: the    *)
(* call it had left its thread in returns.                                 *)
SwapIn(t) ==
  /\ pc[t] = "ready"
  /\ reference_' = [reference_ EXCEPT ![t] = @ - 1]
  /\ ret' = [ret EXCEPT ![t] = CASE op[t] = "timed" -> ~is_block_timeout_[t]
                                 [] op[t] = "wait"  -> TRUE
                                 [] OTHER           -> @]
  /\ op' = [op EXCEPT ![t] = "none"]
  /\ pc' = [pc EXCEPT ![t] = "run"]
  /\ UNCHANGED <<objVars, state_, blockVars, timerVars, waking, got>>

(* case TaskState::runnable.                                               *)
SwitchRunnable(t) ==
  /\ pc[t] = "left" /\ state_[t] = "runnable"
  /\ reference_' = [reference_ EXCEPT ![t] = @ + 1]
  /\ pc' = [pc EXCEPT ![t] = "ready"]
  /\ UNCHANGED <<objVars, state_, blockVars, timerVars, waking, callVars>>

(* case TaskState::done: the scheduler's reference is dropped.             *)
SwitchDone(t) ==
  /\ pc[t] = "left" /\ state_[t] = "done"
  /\ reference_' = [reference_ EXCEPT ![t] = @ - 1]
  /\ pc' = [pc EXCEPT ![t] = "dead"]
  /\ UNCHANGED <<objVars, state_, blockVars, timerVars, waking, callVars>>

(* case TaskState::sys_block, AddWaitTask finds a signal that came after   *)
(* the fast path: it is taken and the task pushed to the runnable list,    *)
(* with state_ and block_ left as they are.                                *)
AddWaitTaskTake(t) ==
  LET b == block_[t] IN
  /\ pc[t] = "left" /\ state_[t] = "sys_block"
  /\ wakeup_[b] > 0
  /\ wakeup_' = [wakeup_ EXCEPT ![b] = @ - 1]
  /\ got' = [got EXCEPT ![t] = TRUE]
  /\ reference_' = [reference_ EXCEPT ![t] = @ + 1]
  /\ pc' = [pc EXCEPT ![t] = "ready"]
  /\ UNCHANGED <<wait_queue_, state_, blockVars, timerVars, waking, op, ret>>

(* Mutant: AddWaitTask relies on the check of the fast path.               *)
AddWaitTaskNoRecheck(t) ==
  /\ pc[t] = "left" /\ state_[t] = "sys_block"
  /\ wait_queue_' = [wait_queue_ EXCEPT ![block_[t]] = Append(@, t)]
  /\ pc' = [pc EXCEPT ![t] = "waiting"]
  /\ reference_' = [reference_ EXCEPT ![t] = @ + 1]
  /\ UNCHANGED <<wakeup_, state_, blockVars, timerVars, waking, callVars>>

(* Mutant: no timer is armed.                                              *)
AddWaitTaskNoTimer(t) == AddWaitTaskNoRecheck(t) /\ wakeup_[block_[t]] = 0

(* case TaskState::sys_block, AddWaitTask queues the task and, for a       *)
(* nonzero timeout, arms a timer that holds a reference to it.             *)
AddWaitTaskQueue(t) ==
  LET b     == block_[t]
      s     == block_sequence_[t]
      timed == block_timeout_[t] # 0
  IN /\ pc[t] = "left" /\ state_[t] = "sys_block"
     /\ wakeup_[b] = 0
     /\ wait_queue_' = [wait_queue_ EXCEPT ![b] = Append(@, t)]
     /\ pc' = [pc EXCEPT ![t] = "waiting"]
     /\ reference_' = [reference_ EXCEPT ![t] = IF timed THEN @ + 2 ELSE @ + 1]
     /\ block_timer_' = IF timed THEN [block_timer_ EXCEPT ![t] = s] ELSE block_timer_
     /\ timer' = IF timed THEN [timer EXCEPT ![t][s] = "armed"] ELSE timer
     /\ timer_this' = IF timed THEN [timer_this EXCEPT ![t][s] = b] ELSE timer_this
     /\ UNCHANGED <<wakeup_, state_, blockVars, waking, callVars>>

-----------------------------------------------------------------------------
(* The callback of a wait's timer, run by CoTimer::operator() in DoTimer.  *)

(* operator() takes fn_lock_, clears active_, and the callback compares    *)
(* the task's block_sequence_ with the one it captured.                    *)
TimerFire(t, s) ==
  /\ timer[t][s] = "armed"
  /\ timer' = [timer EXCEPT ![t][s] = IF block_sequence_[t] = s THEN "cancelling" ELSE "ending"]
  /\ UNCHANGED <<objVars, state_, blockVars, block_timer_, timer_this, reference_, pc, waking, callVars>>

(* The checks of CancelWait under lock_: tk still waits here, in this wait *)
(* and in the queue.                                                       *)
StillWaits(t, s) ==
  LET b == timer_this[t][s] IN
  /\ block_[t] = b
  /\ block_sequence_[t] = s
  /\ \E i \in DOMAIN wait_queue_[b] : wait_queue_[b][i] = t

(* TSQueue::erase: the queue q without its i-th element.                   *)
EraseAt(q, i) == [j \in 1..(Len(q) - 1) |-> IF j < i THEN q[j] ELSE q[j + 1]]

(* Mutant: the task is left in the queue.                                  *)
CancelWaitNoErase(t, s) ==
  /\ timer[t][s] = "cancelling"
  /\ StillWaits(t, s)
  /\ reference_' = [reference_ EXCEPT ![t] = @ - 1]
  /\ pc' = [pc EXCEPT ![t] = "popped"]
  /\ timer' = [timer EXCEPT ![t][s] = "erased"]
  /\ UNCHANGED <<objVars, state_, blockVars, block_timer_, timer_this, waking, callVars>>

(* Mutant: the result of erase is ignored.                                 *)
CancelWaitUnchecked(t, s) ==
  /\ timer[t][s] = "cancelling"
  /\ block_[t] = timer_this[t][s]
  /\ wait_queue_' = [wait_queue_ EXCEPT ![block_[t]] = SelectSeq(@, LAMBDA u : u # t)]
  /\ reference_' = [reference_ EXCEPT ![t] = @ - 1]
  /\ pc' = [pc EXCEPT ![t] = "popped"]
  /\ timer' = [timer EXCEPT ![t][s] = "erased"]
  /\ UNCHANGED <<wakeup_, state_, blockVars, block_timer_, timer_this, waking, callVars>>

(* CancelWait takes tk out of the queue.                                   *)
CancelWaitErase(t, s) ==
  LET b == timer_this[t][s] IN
  /\ timer[t][s] = "cancelling"
  /\ StillWaits(t, s)
  /\ \E i \in DOMAIN wait_queue_[b] :
       /\ wait_queue_[b][i] = t
       /\ wait_queue_' = [wait_queue_ EXCEPT ![b] = EraseAt(@, i)]
  /\ reference_' = [reference_ EXCEPT ![t] = @ - 1]
  /\ pc' = [pc EXCEPT ![t] = "popped"]
  /\ timer' = [timer EXCEPT ![t][s] = "erased"]
  /\ UNCHANGED <<wakeup_, state_, blockVars, block_timer_, timer_this, waking, callVars>>

(* CancelWait returns early: Wakeup came first.                            *)
CancelWaitLate(t, s) ==
  /\ timer[t][s] = "cancelling"
  /\ ~StillWaits(t, s)
  /\ timer' = [timer EXCEPT ![t][s] = "ending"]
  /\ UNCHANGED <<objVars, state_, blockVars, block_timer_, timer_this, reference_, pc, waking, callVars>>

(* The rest of CancelWait, after the unlock.                               *)
CancelWaitEnd(t, s) ==
  /\ timer[t][s] = "erased"
  /\ block_' = [block_ EXCEPT ![t] = NoBlock]
  /\ is_block_timeout_' = [is_block_timeout_ EXCEPT ![t] = TRUE]
  /\ AddTaskRunnable(t)
  /\ reference_' = [reference_ EXCEPT ![t] = @ + 1]
  /\ pc' = [pc EXCEPT ![t] = "ready"]
  /\ timer' = [timer EXCEPT ![t][s] = "ending"]
  /\ UNCHANGED <<objVars, block_sequence_, block_timeout_, block_timer_, timer_this, waking, callVars>>

(* The callback drops its reference and fn_lock_ is released.              *)
TimerEnd(t, s) ==
  /\ timer[t][s] = "ending"
  /\ reference_' = [reference_ EXCEPT ![t] = @ - 1]
  /\ timer' = [timer EXCEPT ![t][s] = "over"]
  /\ UNCHANGED <<objVars, state_, blockVars, block_timer_, timer_this, pc, waking, callVars>>

-----------------------------------------------------------------------------
Call(a) ==
  \E b \in Blocks : TakeSignal(a, b) \/ PollTimed(a, b) \/ WakeupStore(a, b) \/ WakeupPop(a, b)

TaskCall(t) ==
  \/ \E b \in Blocks : CoBlockWait(t, b) \/ CoBlockWaitTimed(t, b)
  \/ CoYield(t)
  \/ Task_CB(t)

Wake(a) == WakeupClear(a) \/ WakeupEnd(a)

Processer(t) ==
  SwapIn(t) \/ SwitchRunnable(t) \/ SwitchDone(t) \/ AddWaitTaskTake(t) \/ AddWaitTaskQueue(t)

Callback(t, s) ==
  \/ TimerFire(t, s) \/ CancelWaitErase(t, s) \/ CancelWaitLate(t, s)
  \/ CancelWaitEnd(t, s) \/ TimerEnd(t, s)

Next ==
  \/ \E a \in Actors : Call(a) \/ Wake(a)
  \/ \E t \in Tasks : TaskCall(t) \/ Processer(t)
  \/ \E t \in Tasks, s \in Seqs : Callback(t, s)

Spec == Init /\ [][Next]_vars

(***************************************************************************)
(* Scheduler threads loop in Scheduler::Run: every filed or runnable task, *)
(* every started Wakeup and every due timer gets its turn.  What the user  *)
(* code calls, and whether it ever signals, is not fair.                   *)
(***************************************************************************)
FairSpec ==
  /\ Spec
  /\ \A t \in Tasks : WF_vars(Processer(t))
  /\ \A a \in Actors : WF_vars(Wake(a))
  /\ \A t \in Tasks, s \in Seqs : WF_vars(Callback(t, s))
-----------------------------------------------------------------------------
(* Properties.                                                             *)

TypeOK ==
  /\ wakeup_ \in [Blocks -> 0..MaxWakeup]
  /\ wait_queue_ \in [Blocks -> Seq(Tasks)]
  /\ state_ \in [Tasks -> {"runnable", "sys_block", "done"}]
  /\ block_ \in [Tasks -> Blocks \cup {NoBlock}]
  /\ block_sequence_ \in [Tasks -> 0..MaxSeq]
  /\ block_timeout_ \in [Tasks -> Timeouts \cup {0}]
  /\ is_block_timeout_ \in [Tasks -> BOOLEAN]
  /\ block_timer_ \in [Tasks -> 0..MaxSeq]
  /\ reference_ \in [Tasks -> Int]
  /\ timer \in [Tasks -> [Seqs -> TimerStates]]
  /\ timer_this \in [Tasks -> [Seqs -> Blocks \cup {NoBlock}]]
  /\ pc \in [Actors -> TaskPCs]
  /\ \A th \in Threads : pc[th] \in ThreadPCs
  /\ waking \in [Actors -> Tasks \cup {NoTask}]
  /\ op \in [Tasks -> {"none", "wait", "timed", "yield"}]
  /\ got \in [Actors -> BOOLEAN]
  /\ ret \in [Actors -> BOOLEAN]

(* No lost wakeup: while a coroutine is in the wait queue no signal is     *)
(* stored.  The check of wakeup_ is made twice, before the coroutine       *)
(* leaves its thread and again by AddWaitTask, because Wakeup may come     *)
(* in between (block_object.cpp, CoBlockWait and AddWaitTask).             *)
NoLostWakeup ==
  \A b \in Blocks : wait_queue_[b] # <<>> => wakeup_[b] = 0

(* A blocked coroutine is in one place of one queue, that of the object    *)
(* its block_ names, and only blocked coroutines are in queues: TSQueue's  *)
(* hooks are in the task, so a second push would corrupt the list.         *)
QueuedOnce ==
  /\ \A b \in Blocks : \A i \in DOMAIN wait_queue_[b] :
       /\ pc[wait_queue_[b][i]] = "waiting"
       /\ block_[wait_queue_[b][i]] = b
       /\ \A j \in DOMAIN wait_queue_[b] : wait_queue_[b][i] = wait_queue_[b][j] => i = j
  /\ \A t \in Tasks : pc[t] = "waiting" =>
       \E i \in DOMAIN wait_queue_[block_[t]] : wait_queue_[block_[t]][i] = t

(* A coroutine taken out of a queue is in the hands of one actor, either   *)
(* one Wakeup or one CancelWait, so it is made runnable exactly once       *)
(* however Wakeup and the timeout race.                                    *)
WokenOnce ==
  \A t \in Tasks :
    LET wakers  == {a \in Actors : waking[a] = t}
        cancels == {s \in Seqs : timer[t][s] = "erased"}
    IN Cardinality(wakers) + Cardinality(cancels) = (IF pc[t] = "popped" THEN 1 ELSE 0)

(* A wait tells its caller the truth: CoBlockWaitTimed returns true, and   *)
(* CoBlockWait returns at all, if and only if the wait consumed a signal.  *)
ReportsSignal(callers) ==
  \A a \in callers : pc[a] = "run" => ret[a] = got[a]

(* For calls made inside a coroutine.                                      *)
CoroutineWaitReportsSignal == ReportsSignal(Tasks)

(* For every caller, as the comment of CoBlockWaitTimed says (block_object.h *)
(* line 28: "@returns: whether a signal was obtained").                    *)
WaitReportsSignal == ReportsSignal(Actors)

(* The references to a task are the scheduler's until the task is done,    *)
(* that of the list it is in, and one per timer whose callback can still   *)
(* run: a task is never freed under a timer or a queue, nor leaked when    *)
(* the cancel of a timer races its callback.                               *)
RefsBalanced ==
  \A t \in Tasks :
    reference_[t] =
        (IF pc[t] = "dead" THEN 0 ELSE 1)
      + (IF pc[t] \in {"ready", "waiting"} THEN 1 ELSE 0)
      + Cardinality({s \in Seqs : timer[t][s] \in {"armed"} \cup Running})

(* A wait's timer does not outlive the wait: from the moment the coroutine *)
(* can run again, and may destroy the object, no callback of a timer is to *)
(* start or is in a part that uses the object (the comment of AddWaitTask, *)
(* block_object.cpp lines 176 and 177, and BlockCancelTimer in Wakeup).    *)
TimerEndsWithWait ==
  \A t \in Tasks, s \in Seqs :
    timer[t][s] \in {"armed", "cancelling", "erased"} =>
      /\ pc[t] \in {"waiting", "popped"}
      /\ block_sequence_[t] = s
      /\ block_[t] \in {timer_this[t][s], NoBlock}

(* A coroutine that only gives up its turn is not made to wait on an       *)
(* object (scheduler.h line 120: CoYield, "the current coroutine gives up  *)
(* the right to run").                                                     *)
YieldDoesNotWait ==
  \A t \in Tasks : op[t] = "yield" => pc[t] # "waiting"

(* A wait with a nonzero timeout ends, signal or not.                      *)
TimedWaitEnds ==
  \A t \in Tasks : (op[t] = "timed" /\ block_timeout_[t] # 0) ~> (op[t] = "none")

(* Every timed wait ends, as its name and the comment of block_object.h    *)
(* line 27 say ("a blocking wait for a signal with a timeout").            *)
EveryTimedWaitEnds ==
  \A t \in Tasks : (op[t] = "timed") ~> (op[t] = "none")

(***************************************************************************)
(* BlockObject implements Semaphore.  A task waits, abstractly, from its   *)
(* slow path until a signal is given to it or CancelWait takes it out of   *)
(* the queue, and returns when its context is resumed.                     *)
(***************************************************************************)
InWait(t)  == op[t] \in {"wait", "timed"}
Expired(t) == is_block_timeout_[t] \/ \E s \in Seqs : timer[t][s] = "erased"

Sem == INSTANCE Semaphore WITH
  signals <- wakeup_,
  waiters <- [b \in Blocks |-> {t \in Tasks : InWait(t) /\ ~got[t] /\ ~Expired(t) /\ block_[t] = b}],
  served  <- {t \in Tasks : InWait(t) /\ got[t]},
  expired <- {t \in Tasks : InWait(t) /\ ~got[t] /\ Expired(t)}

(* Every behaviour of the object is one of the promised semaphore, the     *)
(* promise that no waiter is forgotten included.                           *)
ImplementsSemaphore == Sem!Spec
=============================================================================
