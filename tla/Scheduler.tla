----------------------------- MODULE Scheduler -----------------------------
(***************************************************************************)
(* The scheduler of libgo (scheduler.cpp, processer.cpp, ts_queue.h):      *)
(* threads call RunUntilNoTask, each serves the list of its own Processer, *)
(* and a thread that found nothing to run steals half of another list.     *)
(*                                                                         *)
(* A step is one critical section of a list's lock or one access to an     *)
(* atomic counter.  What a coroutine waits for (a block object, a sleep,   *)
(* I/O) is abstracted to "it waits, and is made runnable later".           *)
(***************************************************************************)
EXTENDS Integers, FiniteSets, FiniteSetsExt, Sequences, SequencesExt

CONSTANTS
  Tasks,              \* the coroutines that may be created
  Threads,            \* the threads that run the scheduler
  Outsiders,          \* threads that create coroutines and never call Run
  MaxProc,            \* bound: indices of run_proc_list_ are 0 .. MaxProc - 1
  NoTask

ASSUME SchedulerAssumption ==
  /\ IsFiniteSet(Tasks) /\ IsFiniteSet(Threads)
  /\ MaxProc \in Nat \ {0} /\ Cardinality(Threads) <= MaxProc
  /\ NoTask \notin Tasks
  /\ Threads \cap Outsiders = {}

VARIABLES
  enable_work_steal,  \* the option of CoroutineOptions, set before the first Run
  run_proc_list_,  \* how many Processers exist
  thread_id,       \* ThreadLocalInfo::thread_id, also the index of its Processer
  runnable_list_,  \* the list of each Processer
  task_count_,     \* Scheduler::task_count_
  state,           \* of a task: "new", "counted", "runnable", "waiting", "done"
  proc_,           \* Task::proc_, -1 for nullptr
  creating,        \* the task between ++task_count_ and AddTaskRunnable, by creator
  pc,              \* where a thread is in RunUntilNoTask
  current_task_,   \* the task a thread runs
  c,               \* Processer::Run's count of tasks entered
  done_count,      \* tasks ended in this Run and not yet subtracted
  allow_steal,     \* DoRunnable's parameter
  victim,          \* DoRunnable's r
  count,           \* StealHalf's runnable_task_count
  tasks            \* StealHalf's list of stolen tasks

stealing == <<allow_steal, victim, count, tasks>>
running == <<current_task_, c, done_count>>
vars == <<enable_work_steal, run_proc_list_, thread_id, runnable_list_, task_count_, state, proc_,
          creating, pc, running, stealing>>

Procs == 0 .. MaxProc - 1

\* SList keeps the order of what pop_back cut off; at least one element is cut.
pop_back(list, n) ==
  LET k == Max({1, Min({n, Len(list)})})
  IN  IF list = <<>> THEN [left |-> <<>>, cut |-> <<>>]
      ELSE [left |-> SubSeq(list, 1, Len(list) - k),
            cut  |-> SubSeq(list, Len(list) - k + 1, Len(list))]

Init ==
  /\ enable_work_steal \in BOOLEAN
  /\ run_proc_list_ = 0
  /\ thread_id = [th \in Threads |-> -1]
  /\ runnable_list_ = [p \in Procs |-> <<>>]
  /\ task_count_ = 0
  /\ state = [t \in Tasks |-> "new"]
  /\ proc_ = [t \in Tasks |-> -1]
  /\ creating = [a \in Threads \cup Outsiders |-> NoTask]
  /\ pc = [th \in Threads |-> "out"]
  /\ current_task_ = [th \in Threads |-> NoTask]
  /\ c = [th \in Threads |-> 0]
  /\ done_count = [th \in Threads |-> 0]
  /\ allow_steal = [th \in Threads |-> FALSE]
  /\ victim = [th \in Threads |-> -1]
  /\ count = [th \in Threads |-> 0]
  /\ tasks = [th \in Threads |-> <<>>]

-----------------------------------------------------------------------------
(* Creation: ++task_count_, then AddTaskRunnable of the new task.           *)

\* A creator is outside the scheduler, or a coroutine it runs calls go.
MayCreate(a) == a \in Threads => pc[a] \in {"out", "task"}

\* Mutant: the new task is not counted.
CreateUncounted(a, t) ==
  /\ MayCreate(a)
  /\ creating[a] = NoTask
  /\ state[t] = "new"
  /\ state' = [state EXCEPT ![t] = "counted"]
  /\ creating' = [creating EXCEPT ![a] = t]
  /\ UNCHANGED <<enable_work_steal, run_proc_list_, thread_id, runnable_list_,
                 task_count_, proc_, pc, running, stealing>>

CreateTask(a, t) ==
  /\ MayCreate(a)
  /\ creating[a] = NoTask
  /\ state[t] = "new"
  /\ state' = [state EXCEPT ![t] = "counted"]
  /\ task_count_' = task_count_ + 1
  /\ creating' = [creating EXCEPT ![a] = t]
  /\ UNCHANGED <<enable_work_steal, run_proc_list_, thread_id, runnable_list_, proc_,
                 pc, running, stealing>>

\* info.proc, or Processer 0 on a thread that has not run the scheduler.
egod_local_thread(a) == IF a \in Threads /\ thread_id[a] >= 0 THEN thread_id[a] ELSE 0

\* An index egod_random or egod_robin can come to.
egod_random == 0 .. Max({run_proc_list_, 1}) - 1

\* GetProcesser makes every Processer up to the index.
AddTaskRunnable(a, p) ==
  /\ creating[a] # NoTask
  /\ runnable_list_' = [runnable_list_ EXCEPT ![p] = Append(@, creating[a])]
  /\ run_proc_list_' = Max({run_proc_list_, p + 1})
  /\ state' = [state EXCEPT ![creating[a]] = "runnable"]
  /\ creating' = [creating EXCEPT ![a] = NoTask]
  /\ UNCHANGED <<enable_work_steal, thread_id, task_count_, proc_, pc, running, stealing>>

\* egod_default is egod_local_thread when stealing is enabled, else egod_robin.
DispatchDefault(a) ==
  \/ enable_work_steal /\ AddTaskRunnable(a, egod_local_thread(a))
  \/ ~ enable_work_steal /\ \E p \in egod_random : AddTaskRunnable(a, p)

DispatchLocal(a) == AddTaskRunnable(a, egod_local_thread(a))
DispatchRandom(a) == \E p \in egod_random : AddTaskRunnable(a, p)
DispatchIndex(a) == \E p \in Procs : AddTaskRunnable(a, p)

\* A waiting task is made runnable again, in the list of the Processer it left.
ReadyTask(t) ==
  /\ state[t] = "waiting"
  /\ state' = [state EXCEPT ![t] = "runnable"]
  /\ runnable_list_' = [runnable_list_ EXCEPT ![proc_[t]] = Append(@, t)]
  /\ UNCHANGED <<enable_work_steal, run_proc_list_, thread_id, task_count_, proc_,
                 creating, pc, running, stealing>>

-----------------------------------------------------------------------------
(* RunUntilNoTask, Run and DoRunnable.                                      *)

\* The first Run of a thread takes the next thread_id and its Processer.
TakeThreadId(th) ==
  LET id == IF thread_id[th] >= 0 THEN thread_id[th]
            ELSE Cardinality({o \in Threads : thread_id[o] >= 0})
  IN  /\ thread_id' = [thread_id EXCEPT ![th] = id]
      /\ run_proc_list_' = Max({run_proc_list_, id + 1})

EnterRun(th, allow) ==
  /\ pc' = [pc EXCEPT ![th] = "loop"]
  /\ c' = [c EXCEPT ![th] = 0]
  /\ done_count' = [done_count EXCEPT ![th] = 0]
  /\ allow_steal' = [allow_steal EXCEPT ![th] = allow]

Run(th) ==
  /\ pc[th] = "out"
  /\ creating[th] = NoTask
  /\ TakeThreadId(th)
  /\ EnterRun(th, enable_work_steal)
  /\ UNCHANGED <<enable_work_steal, runnable_list_, task_count_, state, proc_,
                 creating, current_task_,
                 victim, count, tasks>>

\* Mutant: the tasks entered are not counted, so the loop runs the list empty.
PopUncounted(th) ==
  LET p == thread_id[th] IN
  /\ pc[th] = "loop"
  /\ c[th] < Len(runnable_list_[p])
  /\ current_task_' = [current_task_ EXCEPT ![th] = Head(runnable_list_[p])]
  /\ runnable_list_' = [runnable_list_ EXCEPT ![p] = Tail(@)]
  /\ pc' = [pc EXCEPT ![th] = "task"]
  /\ UNCHANGED <<enable_work_steal, run_proc_list_, thread_id, task_count_, state,
                 proc_, creating, c,
                 done_count, stealing>>

\* One round of Processer::Run's loop; a list that a thief emptied between
\* size() and pop() ends the loop like one that was empty at size().
PopTask(th) ==
  LET p == thread_id[th] IN
  /\ pc[th] = "loop"
  /\ c[th] < Len(runnable_list_[p])
  /\ current_task_' = [current_task_ EXCEPT ![th] = Head(runnable_list_[p])]
  /\ runnable_list_' = [runnable_list_ EXCEPT ![p] = Tail(@)]
  /\ c' = [c EXCEPT ![th] = @ + 1]
  /\ pc' = [pc EXCEPT ![th] = "task"]
  /\ UNCHANGED <<enable_work_steal, run_proc_list_, thread_id, task_count_, state,
                 proc_, creating,
                 done_count, stealing>>

EndLoop(th) ==
  /\ pc[th] = "loop"
  /\ c[th] >= Len(runnable_list_[thread_id[th]])
  /\ pc' = [pc EXCEPT ![th] = "count"]
  /\ UNCHANGED <<enable_work_steal, run_proc_list_, thread_id, runnable_list_,
                 task_count_, state, proc_,
                 creating, running, stealing>>

Leaves(th) ==
  /\ pc[th] = "task"
  /\ creating[th] = NoTask
  /\ current_task_' = [current_task_ EXCEPT ![th] = NoTask]

\* Mutant: a task that yields is put at the head of the list.
YieldAtHead(th) ==
  LET p == thread_id[th] t == current_task_[th] IN
  /\ Leaves(th)
  /\ proc_' = [proc_ EXCEPT ![t] = p]
  /\ runnable_list_' = [runnable_list_ EXCEPT ![p] = <<t>> \o @]
  /\ pc' = [pc EXCEPT ![th] = "loop"]
  /\ UNCHANGED <<enable_work_steal, run_proc_list_, thread_id, task_count_, state,
                 creating, c, done_count, stealing>>

\* CoYield of a task that stays runnable.
YieldTask(th) ==
  LET p == thread_id[th] t == current_task_[th] IN
  /\ Leaves(th)
  /\ proc_' = [proc_ EXCEPT ![t] = p]
  /\ runnable_list_' = [runnable_list_ EXCEPT ![p] = Append(@, t)]
  /\ pc' = [pc EXCEPT ![th] = "loop"]
  /\ UNCHANGED <<enable_work_steal, run_proc_list_, thread_id, task_count_, state,
                 creating, c, done_count, stealing>>

\* CoYield of a task that goes to wait: io_block, sleep or sys_block.
WaitTask(th) ==
  LET t == current_task_[th] IN
  /\ Leaves(th)
  /\ proc_' = [proc_ EXCEPT ![t] = thread_id[th]]
  /\ state' = [state EXCEPT ![t] = "waiting"]
  /\ pc' = [pc EXCEPT ![th] = "loop"]
  /\ UNCHANGED <<enable_work_steal, run_proc_list_, thread_id, runnable_list_,
                 task_count_, creating, c,
                 done_count, stealing>>

\* The task ends; an exception it left is rethrown out of the loop.
DoneTask(th, eptr_) ==
  /\ Leaves(th)
  /\ state' = [state EXCEPT ![current_task_[th]] = "done"]
  /\ done_count' = [done_count EXCEPT ![th] = @ + 1]
  /\ pc' = [pc EXCEPT ![th] = IF eptr_ THEN "throw" ELSE "loop"]
  /\ UNCHANGED <<enable_work_steal, run_proc_list_, thread_id, runnable_list_,
                 task_count_, proc_, creating,
                 c, stealing>>

\* Mutant: the exception passes DoRunnable without the catch.
RethrowUncounted(th) ==
  /\ pc[th] = "throw"
  /\ done_count' = [done_count EXCEPT ![th] = 0]
  /\ pc' = [pc EXCEPT ![th] = "out"]
  /\ UNCHANGED <<enable_work_steal, run_proc_list_, thread_id, runnable_list_,
                 task_count_, state, proc_,
                 creating, current_task_, c, stealing>>

\* DoRunnable's catch: the count is settled and the exception leaves RunUntilNoTask.
Rethrow(th) ==
  /\ pc[th] = "throw"
  /\ task_count_' = task_count_ - done_count[th]
  /\ done_count' = [done_count EXCEPT ![th] = 0]
  /\ pc' = [pc EXCEPT ![th] = "out"]
  /\ UNCHANGED <<enable_work_steal, run_proc_list_, thread_id, runnable_list_, state,
                 proc_, creating,
                 current_task_, c, stealing>>

\* Mutant: the tasks that were entered are subtracted, ended or not.
SettleEntered(th) ==
  /\ pc[th] = "count"
  /\ task_count_' = task_count_ - c[th]
  /\ done_count' = [done_count EXCEPT ![th] = 0]
  /\ pc' = [pc EXCEPT ![th] = "until"]
  /\ UNCHANGED <<enable_work_steal, run_proc_list_, thread_id, runnable_list_, state,
                 proc_, creating,
                 current_task_, c, stealing>>

SettleCount(th) ==
  /\ pc[th] = "count"
  /\ task_count_' = task_count_ - done_count[th]
  /\ done_count' = [done_count EXCEPT ![th] = 0]
  /\ pc' = [pc EXCEPT ![th] =
              IF c[th] = 0 /\ done_count[th] = 0 /\ allow_steal[th] THEN "steal" ELSE "until"]
  /\ UNCHANGED <<enable_work_steal, run_proc_list_, thread_id, runnable_list_, state,
                 proc_, creating,
                 current_task_, c, stealing>>

\* Mutant: the next list is taken, also after the last one.
NextOne(r, id) == IF r # id THEN r ELSE id + 1

\* Mutant: always a neighbour.
Neighbour(r, id) == IF id > 0 THEN id - 1 ELSE id + 1

\* The list the thread with this id steals from when rand() gave r.
OtherThan(r, id) == IF r # id THEN r ELSE IF id > 0 THEN id - 1 ELSE id + 1

\* DoRunnable picks a list, and StealHalf reads its size.
PickVictim(th) ==
  /\ pc[th] = "steal"
  /\ run_proc_list_ > 1
  /\ \E r \in 0 .. run_proc_list_ - 1 :
       LET v == OtherThan(r, thread_id[th])
       IN  /\ victim' = [victim EXCEPT ![th] = v]
           /\ count' = [count EXCEPT ![th] = Len(runnable_list_[v])]
  /\ pc' = [pc EXCEPT ![th] = "half"]
  /\ UNCHANGED <<enable_work_steal, run_proc_list_, thread_id, runnable_list_,
                 task_count_, state, proc_,
                 creating, running, allow_steal, tasks>>

NoVictim(th) ==
  /\ pc[th] = "steal"
  /\ run_proc_list_ <= 1
  /\ pc' = [pc EXCEPT ![th] = "until"]
  /\ UNCHANGED <<enable_work_steal, run_proc_list_, thread_id, runnable_list_,
                 task_count_, state, proc_,
                 creating, running, stealing>>

\* Mutant: the tasks are copied and not cut off.
StealCopies(th) ==
  LET popped == pop_back(runnable_list_[victim[th]], (count[th] + 1) \div 2) IN
  /\ pc[th] = "half"
  /\ tasks' = [tasks EXCEPT ![th] = popped.cut]
  /\ pc' = [pc EXCEPT ![th] = IF popped.cut = <<>> THEN "until" ELSE "push"]
  /\ victim' = [victim EXCEPT ![th] = -1]
  /\ count' = [count EXCEPT ![th] = 0]
  /\ UNCHANGED <<enable_work_steal, run_proc_list_, thread_id, runnable_list_,
                 task_count_, state, proc_,
                 creating, running, allow_steal>>

\* StealHalf cuts off the tail of a list that may have changed since its size was read.
StealHalf(th) ==
  LET popped == pop_back(runnable_list_[victim[th]], (count[th] + 1) \div 2) IN
  /\ pc[th] = "half"
  /\ runnable_list_' = [runnable_list_ EXCEPT ![victim[th]] = popped.left]
  /\ tasks' = [tasks EXCEPT ![th] = popped.cut]
  /\ pc' = [pc EXCEPT ![th] = IF popped.cut = <<>> THEN "until" ELSE "push"]
  /\ victim' = [victim EXCEPT ![th] = -1]
  /\ count' = [count EXCEPT ![th] = 0]
  /\ UNCHANGED <<enable_work_steal, run_proc_list_, thread_id, task_count_, state,
                 proc_, creating, running,
                 allow_steal>>

\* The stolen tasks enter the thief's list, and DoRunnable(false) starts.
PushStolen(th) ==
  /\ pc[th] = "push"
  /\ runnable_list_' = [runnable_list_ EXCEPT ![thread_id[th]] = @ \o tasks[th]]
  /\ tasks' = [tasks EXCEPT ![th] = <<>>]
  /\ EnterRun(th, FALSE)
  /\ UNCHANGED <<enable_work_steal, run_proc_list_, thread_id, task_count_, state,
                 proc_, creating,
                 current_task_, victim, count>>

\* The condition of RunUntilNoTask's loop (loop_task_count is 0).
RunAgain(th) ==
  /\ pc[th] = "until"
  /\ task_count_ > 0
  /\ EnterRun(th, enable_work_steal)
  /\ UNCHANGED <<enable_work_steal, run_proc_list_, thread_id, runnable_list_,
                 task_count_, state, proc_,
                 creating, current_task_, victim, count, tasks>>

NoTaskLeft(th) ==
  /\ pc[th] = "until"
  /\ task_count_ = 0
  /\ pc' = [pc EXCEPT ![th] = "out"]
  /\ UNCHANGED <<enable_work_steal, run_proc_list_, thread_id, runnable_list_,
                 task_count_, state, proc_,
                 creating, running, stealing>>

-----------------------------------------------------------------------------
Creation ==
  \/ \E a \in Threads \cup Outsiders :
       \/ \E t \in Tasks : CreateTask(a, t)
       \/ DispatchDefault(a)
       \/ DispatchLocal(a)
       \/ DispatchRandom(a)
       \/ DispatchIndex(a)
  \/ \E t \in Tasks : ReadyTask(t)

\* What the coroutine a thread is running does.
TaskStep(th) == YieldTask(th) \/ WaitTask(th) \/ \E eptr_ \in BOOLEAN : DoneTask(th, eptr_)

\* What the scheduler does on a thread.
RunStep(th) ==
  \/ Run(th)
  \/ PopTask(th)
  \/ EndLoop(th)
  \/ Rethrow(th)
  \/ SettleCount(th)
  \/ PickVictim(th)
  \/ NoVictim(th)
  \/ StealHalf(th)
  \/ PushStolen(th)
  \/ RunAgain(th)
  \/ NoTaskLeft(th)

Next == Creation \/ \E th \in Threads : TaskStep(th) \/ RunStep(th)

Spec == Init /\ [][Next]_vars

\* Threads keep calling RunUntilNoTask, coroutines give their thread back, and
\* what a coroutine waits for happens.
Scheduling ==
  /\ \A th \in Threads : WF_vars(RunStep(th)) /\ WF_vars(TaskStep(th))
  /\ \A a \in Threads \cup Outsiders : WF_vars(DispatchLocal(a))
  /\ \A t \in Tasks : WF_vars(ReadyTask(t))

\* rand() comes to every list again and again.
FairRand == \A th \in Threads, v \in Procs : SF_vars(PickVictim(th) /\ victim'[th] = v)

\* A coroutine that is run again and again ends.
TasksEnd ==
  \A t \in Tasks :
    SF_vars(\E th \in Threads : current_task_[th] = t /\ \E e \in BOOLEAN : DoneTask(th, e))

FairSpec == Spec /\ Scheduling

-----------------------------------------------------------------------------
(* Properties.                                                              *)

TypeOK ==
  /\ enable_work_steal \in BOOLEAN
  /\ run_proc_list_ \in 0 .. MaxProc
  /\ thread_id \in [Threads -> -1 .. MaxProc - 1]
  /\ runnable_list_ \in [Procs -> Seq(Tasks)]
  /\ task_count_ \in Nat
  /\ state \in [Tasks -> {"new", "counted", "runnable", "waiting", "done"}]
  /\ proc_ \in [Tasks -> -1 .. MaxProc - 1]
  /\ creating \in [Threads \cup Outsiders -> Tasks \cup {NoTask}]
  /\ pc \in [Threads -> {"out", "loop", "task", "throw", "count", "steal", "half", "push", "until"}]
  /\ current_task_ \in [Threads -> Tasks \cup {NoTask}]
  /\ c \in [Threads -> Nat]
  /\ done_count \in [Threads -> Nat]
  /\ allow_steal \in [Threads -> BOOLEAN]
  /\ victim \in [Threads -> -1 .. MaxProc - 1]
  /\ count \in [Threads -> Nat]
  /\ tasks \in [Threads -> Seq(Tasks)]

\* Every place a task is held at: a position of a list, a position of a stolen
\* list in a thief's hands, or the thread that runs it.
Positions(t, list) == {i \in DOMAIN list : list[i] = t}
Held(t) ==
  UNION {{<<"list", p, i>> : i \in Positions(t, runnable_list_[p])} : p \in Procs}
    \cup UNION {{<<"stolen", th, i>> : i \in Positions(t, tasks[th])} : th \in Threads}
    \cup {<<"run", th, 0>> : th \in {o \in Threads : current_task_[o] = t}}

\* A runnable coroutine is in exactly one place: one list, one thief's hands or
\* one thread; any other is in none.  Popping the head, yielding, waking up and
\* stealing the tail on several threads never duplicate or lose one
\* (processer.cpp, Run and StealHalf).
OnePlace == \A t \in Tasks : Cardinality(Held(t)) = IF state[t] = "runnable" THEN 1 ELSE 0

\* task_count_ counts the coroutines that have not ended and those that have
\* and whose thread has not subtracted them yet, so it never wraps below zero,
\* also when a coroutine's exception breaks off the loop (scheduler.cpp, DoRunnable).
Alive == {t \in Tasks : state[t] \in {"counted", "runnable", "waiting"}}
TaskCounted ==
  task_count_ = Cardinality(Alive) + MapThenSumSet(LAMBDA th : done_count[th], Threads)

\* The list a thread is stealing from exists and is not its own, whatever
\* rand() gave and however many Processers there are (scheduler.cpp, DoRunnable).
VictimIsOther ==
  \A th \in Threads :
    pc[th] = "half" => victim[th] \in (0 .. run_proc_list_ - 1) \ {thread_id[th]}

\* RunUntilNoTask returns only when every coroutine created so far has ended,
\* those in another thread's list, in a thief's hands or waiting included
\* (scheduler.h:126, "loop Run until there is no coroutine").
ReturnsWhenDone ==
  [][\A th \in Threads :
       (pc[th] = "until" /\ pc'[th] = "out") => Alive = {}]_vars

-----------------------------------------------------------------------------
(* Liveness.                                                                *)

\* Processer::Run returns although its coroutines yield for ever, so that the
\* thread gets to its timers, sleepers and I/O (processer.cpp, Run).
RunReturns == \A th \in Threads : pc[th] = "loop" ~> pc[th] \in {"until", "out"}

\* A coroutine in the list of a thread is run or stolen, although others yield
\* for ever: the list is first in, first out, and the thread comes back to it
\* (processer.cpp, Run).
Queued(t, th) == thread_id[th] >= 0 /\ t \in ToSet(runnable_list_[thread_id[th]])
ListMoves == \A t \in Tasks, th \in Threads : Queued(t, th) ~> ~ Queued(t, th)

\* With stealing, if rand() is fair and coroutines end, every coroutine that is created does
\* end, also one dispatched to an index no thread serves: the thread steals it
\* when its own list is empty (scheduler.cpp, DoRunnable).
EveryTaskEnds ==
  (enable_work_steal /\ FairRand /\ TasksEnd) => \A t \in Tasks : state[t] = "counted" ~> state[t] = "done"

=============================================================================
