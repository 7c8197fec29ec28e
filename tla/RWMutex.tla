------------------------------ MODULE RWMutex ------------------------------
(***************************************************************************)
(* CoRWMutex (libgo/co_rwmutex.cpp) over CoMutex (libgo/co_mutex.cpp): a   *)
(* writer takes the mutex and then waits for the readers to leave; a       *)
(* reader announces itself in readers_c_ and then looks at the mutex.      *)
(* Each task locks and unlocks, as a reader or a writer, any number of     *)
(* times.                                                                  *)
(***************************************************************************)
EXTENDS CoBlock

CONSTANT mtx_      \* the block_ of the CoMutex

ASSUME RWMutexAssumption == Objects = {mtx_}

VARIABLES
  readers_c_,
  pc                 \* what a task does next when it runs

vars == <<coVars, readers_c_, pc>>

Goto(t, from, to) == /\ Runs(t)
                     /\ pc[t] = from
                     /\ pc' = [pc EXCEPT ![t] = to]

is_lock == wakeup[mtx_] = 0

Init ==
  /\ CoInit([o \in Objects |-> 1])
  /\ readers_c_ = 0
  /\ pc = [t \in Tasks |-> "idle"]

-----------------------------------------------------------------------------
(* r_lock and r_try_lock: ++readers_c_, then the mutex is looked at.       *)
r_lock(t) ==
  /\ Goto(t, "idle", "r_check") \/ Goto(t, "r_loop", "r_check") \/ Goto(t, "idle", "r_try")
  /\ readers_c_' = readers_c_ + 1
  /\ UNCHANGED coVars

(* Mutant: a reader does not look at the mutex.                            *)
r_enter_always(t) ==
  /\ Goto(t, "r_check", "reading") \/ Goto(t, "r_try", "reading")
  /\ UNCHANGED <<coVars, readers_c_>>

r_enter(t) ==
  /\ ~is_lock
  /\ Goto(t, "r_check", "reading") \/ Goto(t, "r_try", "reading")
  /\ UNCHANGED <<coVars, readers_c_>>

r_refused(t) ==
  /\ is_lock
  /\ Goto(t, "r_check", "r_back") \/ Goto(t, "r_try", "r_fail")
  /\ UNCHANGED <<coVars, readers_c_>>

(* Mutant: r_try_lock forgets --readers_c_.                                *)
r_fail_counted(t) ==
  /\ Goto(t, "r_fail", "idle")
  /\ UNCHANGED <<coVars, readers_c_>>

(* r_try_lock returns false.                                               *)
r_fail(t) ==
  /\ Goto(t, "r_fail", "idle")
  /\ readers_c_' = readers_c_ - 1
  /\ UNCHANGED coVars

(* r_lock gives up its turn and starts over.                               *)
r_back(t) ==
  /\ Goto(t, "r_back", "r_yield")
  /\ readers_c_' = readers_c_ - 1
  /\ UNCHANGED coVars

r_yield(t) ==
  /\ Goto(t, "r_yield", "r_loop")
  /\ CoYield(t)
  /\ UNCHANGED readers_c_

r_unlock(t) ==
  /\ Goto(t, "reading", "idle")
  /\ readers_c_' = readers_c_ - 1
  /\ UNCHANGED coVars

-----------------------------------------------------------------------------
(* w_lock: the mutex first, then no reader.                                *)
w_lock(t) ==
  /\ Goto(t, "idle", "w_wait")
  /\ CoBlockWait(t, mtx_)
  /\ UNCHANGED readers_c_

w_enter(t) ==
  /\ readers_c_ = 0
  /\ Goto(t, "w_wait", "writing") \/ Goto(t, "w_try", "writing")
  /\ UNCHANGED <<coVars, readers_c_>>

w_yield(t) ==
  /\ readers_c_ # 0
  /\ Goto(t, "w_wait", "w_wait")
  /\ CoYield(t)
  /\ UNCHANGED readers_c_

(* Mutant: w_try_lock is done once it has the mutex.                       *)
w_try_no_readers(t) ==
  /\ Goto(t, "idle", "writing")
  /\ TryBlockWait(mtx_)
  /\ UNCHANGED readers_c_

(* w_try_lock: the mutex, without waiting; given back when there are       *)
(* readers.                                                                *)
w_try_lock(t) ==
  /\ Goto(t, "idle", "w_try")
  /\ TryBlockWait(mtx_)
  /\ UNCHANGED readers_c_

(* Mutant: unlock is called, and called again by the lock guard.           *)
w_try_fail_twice(t) ==
  /\ readers_c_ # 0
  /\ Goto(t, "w_try", "w_unlock")
  /\ Wakeup(mtx_)
  /\ UNCHANGED readers_c_

w_try_fail(t) ==
  /\ readers_c_ # 0
  /\ Goto(t, "w_try", "w_unlock")
  /\ UNCHANGED <<coVars, readers_c_>>

w_leave(t) ==
  /\ Goto(t, "writing", "w_unlock")
  /\ UNCHANGED <<coVars, readers_c_>>

(* CoMutex::unlock throws when Wakeup refuses the signal.                  *)
w_unlock(t) ==
  /\ IF waitq[mtx_] = <<>> /\ wakeup[mtx_] >= 1
       THEN Goto(t, "w_unlock", "double_unlock") /\ UNCHANGED coVars
       ELSE Goto(t, "w_unlock", "idle") /\ Wakeup(mtx_)
  /\ UNCHANGED readers_c_

-----------------------------------------------------------------------------
(* Between the calls, user code may give up the thread: by co_yield, or by *)
(* a wait in the IO or sleep queue, which ends in AddTaskRunnable.         *)
UserYield(t) ==
  /\ pc[t] \in {"idle", "reading", "writing"}
  /\ Runs(t)
  /\ CoYield(t)
  /\ UNCHANGED <<readers_c_, pc>>

UserWait(t) ==
  /\ pc[t] \in {"idle", "reading", "writing"}
  /\ Runs(t)
  /\ at' = [at EXCEPT ![t] = "ready"]
  /\ block' = [block EXCEPT ![t] = NoObject]
  /\ UNCHANGED <<wakeup, waitq, timed, timeout, readers_c_, pc>>

-----------------------------------------------------------------------------
Reader(t) == r_enter(t) \/ r_refused(t) \/ r_fail(t) \/ r_back(t) \/ r_yield(t) \/ r_unlock(t)

Writer(t) == w_enter(t) \/ w_yield(t) \/ w_try_fail(t) \/ w_leave(t) \/ w_unlock(t)

Start(t) == r_lock(t) \/ w_lock(t) \/ w_try_lock(t)

Processer(t) == Schedule(t) /\ UNCHANGED <<readers_c_, pc>>

User(t) == UserYield(t) \/ UserWait(t)

Next == \E t \in Tasks : Start(t) \/ Reader(t) \/ Writer(t) \/ User(t) \/ Processer(t)

Spec == Init /\ [][Next]_vars

(***************************************************************************)
(* Scheduler threads keep running, and the FIFO runnable list they serve   *)
(* gets every task its turn, however often others come first (SF).  A task *)
(* goes on with the call it is in.  User code, however often it waits for  *)
(* something else, at last leaves its section, and it does not hold the    *)
(* thread for ever, since coroutines are not preempted.                    *)
(***************************************************************************)
FairSpec ==
  /\ Spec
  /\ \A t \in Tasks :
       /\ SF_vars(Processer(t))
       /\ WF_vars(Reader(t)) /\ WF_vars(Writer(t)) /\ WF_vars(r_lock(t) /\ pc[t] = "r_loop")
       /\ SF_vars(r_unlock(t)) /\ SF_vars(w_leave(t)) /\ SF_vars(User(t))

-----------------------------------------------------------------------------
(* Properties.                                                             *)

PCs == {"idle", "r_check", "r_try", "r_back", "r_fail", "r_yield", "r_loop", "reading",
        "w_wait", "w_try", "w_unlock", "writing", "double_unlock"}

TypeOK ==
  /\ CoTypeOK
  /\ readers_c_ \in Int
  /\ pc \in [Tasks -> PCs]

(* A writer is alone: no other writer and no reader is in its section.     *)
(* The two flags are set and read without a common lock: the reader adds   *)
(* to readers_c_ before it looks at the mutex, the writer takes the mutex  *)
(* before it looks at readers_c_ (r_lock, w_lock and the try variants).    *)
Exclusion ==
  \A t, u \in Tasks : t # u /\ pc[t] = "writing" => pc[u] \notin {"reading", "writing"}

(* readers_c_ counts the readers inside and the ones that are finding out  *)
(* whether they may enter; the assert of r_unlock (co_rwmutex.cpp:51)      *)
(* never fails.                                                            *)
ReadersCounted ==
  readers_c_ = Cardinality({t \in Tasks : pc[t] \in {"reading", "r_check", "r_try", "r_back", "r_fail"}})

(* CoMutex::unlock never throws ec_mutex_double_unlock when calls are      *)
(* paired, whatever waits in the queue when it is called.                  *)
NoDoubleUnlock == \A t \in Tasks : pc[t] # "double_unlock"

(* With one scheduler thread a coroutine never runs with the state_ and    *)
(* block_ of a wait that is over (AddWaitTask never finds a signal).       *)
NoStaleBlock == \A t \in Tasks : Runs(t) => block[t] = NoObject

(* A writer that asked gets in, once the readers inside leave: readers     *)
(* that come later are refused by the mutex (r_lock's loop, w_lock's loop). *)
WriterEnters == \A t \in Tasks : (pc[t] = "w_wait") ~> (pc[t] = "writing")
=============================================================================
