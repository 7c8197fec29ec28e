------------------------------ MODULE CoBlock ------------------------------
(***************************************************************************)
(* How the operations of a client of BlockObject block and resume: the     *)
(* critical sections of BlockObject and the switch of Processer::Run, over *)
(* a bounded number of scheduler threads, with the timer of a timed wait   *)
(* reduced to the moment it takes the waiter out of the queue.  Module     *)
(* BlockObject has the parts left out here.  A client adds its own state   *)
(* and a program counter that names what a task does next once it runs.    *)
(***************************************************************************)
EXTENDS Integers, Sequences, FiniteSets

CONSTANTS
  Tasks,      \* coroutines
  Objects,    \* the BlockObjects of the client
  NoObject,   \* a null BlockObject*
  Procs       \* how many scheduler threads call Scheduler::Run

ASSUME CoBlockAssumption ==
  /\ Procs \in Nat \ {0}
  /\ NoObject \notin Objects

VARIABLES
  wakeup,    \* BlockObject::wakeup_
  waitq,     \* BlockObject::wait_queue_
  at,        \* where a task is
  block,     \* the object that a task in state_ sys_block has in block_
  timed,     \* block_timeout_ is not zero
  timeout    \* the last wait was ended by its timer: is_block_timeout_, or
             \* FALSE when the fast path took a signal

coVars == <<wakeup, waitq, at, block, timed, timeout>>

Places == {"ready", "run", "left", "queued"}

CoInit(init) ==
  /\ wakeup = init
  /\ waitq = [o \in Objects |-> <<>>]
  /\ at = [t \in Tasks |-> "ready"]
  /\ block = [t \in Tasks |-> NoObject]
  /\ timed = [t \in Tasks |-> FALSE]
  /\ timeout = [t \in Tasks |-> FALSE]

-----------------------------------------------------------------------------
(* Calls of a running task.                                                *)

Runs(t) == at[t] = "run"

(* Mutant: wakeup_ is not looked at first.                                 *)
TakeSignalUnchecked(o) ==
  /\ wakeup' = [wakeup EXCEPT ![o] = @ - 1]
  /\ UNCHANGED <<waitq, at, block, timed>>

(* TryBlockWait returning true, and the fast path of the waits.            *)
TakeSignal(o) ==
  /\ wakeup[o] > 0
  /\ wakeup' = [wakeup EXCEPT ![o] = @ - 1]
  /\ UNCHANGED <<waitq, at, block, timed>>

(* The slow path of CoBlockWait and CoBlockWaitTimed.                      *)
Leave(t, o, hasTimeout) ==
  /\ wakeup[o] = 0
  /\ at' = [at EXCEPT ![t] = "left"]
  /\ block' = [block EXCEPT ![t] = o]
  /\ timed' = [timed EXCEPT ![t] = hasTimeout]
  /\ UNCHANGED <<wakeup, waitq>>

CoBlockWait(t, o) ==
  /\ TakeSignal(o) \/ Leave(t, o, FALSE)
  /\ timeout' = [timeout EXCEPT ![t] = FALSE]

CoBlockWaitTimed(t, o) ==
  /\ TakeSignal(o) \/ Leave(t, o, TRUE)
  /\ timeout' = [timeout EXCEPT ![t] = FALSE]

TryBlockWait(o) == TakeSignal(o) /\ UNCHANGED timeout

(* Mutant: the state_ and block_ of the woken task stay.                   *)
WakeupKeepsBlock(o) ==
  /\ IF waitq[o] = <<>>
       THEN wakeup' = [wakeup EXCEPT ![o] = @ + 1] /\ UNCHANGED <<waitq, at>>
       ELSE /\ waitq' = [waitq EXCEPT ![o] = Tail(@)]
            /\ at' = [at EXCEPT ![Head(waitq[o])] = "ready"]
            /\ UNCHANGED wakeup
  /\ UNCHANGED <<block, timed, timeout>>

(* Wakeup: the signal is stored, or the first waiter becomes runnable.     *)
Wakeup(o) ==
  /\ IF waitq[o] = <<>>
       THEN /\ wakeup' = [wakeup EXCEPT ![o] = @ + 1]
            /\ UNCHANGED <<waitq, at, block>>
       ELSE LET tk == Head(waitq[o]) IN
            /\ waitq' = [waitq EXCEPT ![o] = Tail(@)]
            /\ at' = [at EXCEPT ![tk] = "ready"]
            /\ block' = [block EXCEPT ![tk] = NoObject]
            /\ UNCHANGED wakeup
  /\ UNCHANGED <<timed, timeout>>

(* CoYield, also through SleepSwitch(0): state_ and block_ are not touched. *)
CoYield(t) ==
  /\ at' = [at EXCEPT ![t] = "left"]
  /\ UNCHANGED <<wakeup, waitq, block, timed, timeout>>

-----------------------------------------------------------------------------
(* Processer::Run and the timer.                                           *)

(* A scheduler thread with nothing in hand resumes a runnable task.        *)
SwapIn(t) ==
  /\ at[t] = "ready"
  /\ Cardinality({u \in Tasks : at[u] \in {"run", "left"}}) < Procs
  /\ at' = [at EXCEPT ![t] = "run"]
  /\ UNCHANGED <<wakeup, waitq, block, timed, timeout>>

(* case TaskState::runnable.                                               *)
SwitchRunnable(t) ==
  /\ at[t] = "left" /\ block[t] = NoObject
  /\ at' = [at EXCEPT ![t] = "ready"]
  /\ UNCHANGED <<wakeup, waitq, block, timed, timeout>>

(* case TaskState::sys_block: AddWaitTask takes a signal, and the task is  *)
(* runnable with state_ and block_ as they were; or it queues the task.    *)
SwitchBlock(t) ==
  LET o == block[t] IN
  /\ at[t] = "left" /\ o # NoObject
  /\ IF wakeup[o] > 0
       THEN /\ wakeup' = [wakeup EXCEPT ![o] = @ - 1]
            /\ at' = [at EXCEPT ![t] = "ready"]
            /\ UNCHANGED waitq
       ELSE /\ waitq' = [waitq EXCEPT ![o] = Append(@, t)]
            /\ at' = [at EXCEPT ![t] = "queued"]
            /\ UNCHANGED wakeup
  /\ UNCHANGED <<block, timed, timeout>>

(* The timer's CancelWait.                                                 *)
CancelWait(t) ==
  LET o == block[t] IN
  /\ at[t] = "queued" /\ timed[t]
  /\ waitq' = [waitq EXCEPT ![o] = SelectSeq(@, LAMBDA u : u # t)]
  /\ at' = [at EXCEPT ![t] = "ready"]
  /\ block' = [block EXCEPT ![t] = NoObject]
  /\ timeout' = [timeout EXCEPT ![t] = TRUE]
  /\ UNCHANGED <<wakeup, timed>>

Schedule(t) == SwapIn(t) \/ SwitchRunnable(t) \/ SwitchBlock(t)

CoTypeOK ==
  /\ wakeup \in [Objects -> Nat]
  /\ waitq \in [Objects -> Seq(Tasks)]
  /\ at \in [Tasks -> Places]
  /\ block \in [Tasks -> Objects \cup {NoObject}]
  /\ timed \in [Tasks -> BOOLEAN]
  /\ timeout \in [Tasks -> BOOLEAN]
=============================================================================
