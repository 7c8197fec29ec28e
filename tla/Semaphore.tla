----------------------------- MODULE Semaphore -----------------------------
(***************************************************************************)
(* What a BlockObject promises its callers: a signal is stored, up to a    *)
(* limit, or given to one waiter; a waiter leaves with one signal or,      *)
(* when it expires, with none; stored signals go before new ones; and a    *)
(* waiter is not left waiting while a signal stays stored.  Queue order,   *)
(* locks, timers and thread switches are out of sight.                     *)
(***************************************************************************)
EXTENDS Naturals

CONSTANTS Tasks, Blocks, InitWakeup, MaxWakeup

VARIABLES
  signals,   \* the signals stored in each object
  waiters,   \* the tasks waiting on each object
  served,    \* the tasks given a signal that have not returned yet
  expired    \* the tasks that gave up and have not returned yet

semVars == <<signals, waiters, served, expired>>

Idle(t) == t \notin served \cup expired /\ \A b \in Blocks : t \notin waiters[b]

Init ==
  /\ signals = [b \in Blocks |-> InitWakeup]
  /\ waiters = [b \in Blocks |-> {}]
  /\ served = {}
  /\ expired = {}

(* A caller takes a stored signal without waiting.                         *)
TakeNow(b) ==
  /\ signals[b] > 0
  /\ signals' = [signals EXCEPT ![b] = @ - 1]
  /\ UNCHANGED <<waiters, served, expired>>

(* A signal is stored.                                                     *)
Store(b) ==
  /\ signals[b] < MaxWakeup
  /\ signals' = [signals EXCEPT ![b] = @ + 1]
  /\ UNCHANGED <<waiters, served, expired>>

(* A task starts to wait.                                                  *)
Ask(t, b) ==
  /\ Idle(t)
  /\ waiters' = [waiters EXCEPT ![b] = @ \cup {t}]
  /\ UNCHANGED <<signals, served, expired>>

(* A waiter takes a signal stored after it asked.                          *)
Take(t, b) ==
  /\ t \in waiters[b]
  /\ signals[b] > 0
  /\ signals' = [signals EXCEPT ![b] = @ - 1]
  /\ waiters' = [waiters EXCEPT ![b] = @ \ {t}]
  /\ served' = served \cup {t}
  /\ UNCHANGED expired

(* A new signal goes straight to a waiter; none may be stored then.        *)
HandOff(t, b) ==
  /\ t \in waiters[b]
  /\ signals[b] = 0
  /\ waiters' = [waiters EXCEPT ![b] = @ \ {t}]
  /\ served' = served \cup {t}
  /\ UNCHANGED <<signals, expired>>

(* A waiter gives up.                                                      *)
Expire(t, b) ==
  /\ t \in waiters[b]
  /\ waiters' = [waiters EXCEPT ![b] = @ \ {t}]
  /\ expired' = expired \cup {t}
  /\ UNCHANGED <<signals, served>>

(* The wait of a task returns.                                             *)
Return(t) ==
  /\ t \in served \cup expired
  /\ served' = served \ {t}
  /\ expired' = expired \ {t}
  /\ UNCHANGED <<signals, waiters>>

Next ==
  \/ \E b \in Blocks : TakeNow(b) \/ Store(b)
  \/ \E t \in Tasks, b \in Blocks : Ask(t, b) \/ Take(t, b) \/ HandOff(t, b) \/ Expire(t, b)
  \/ \E t \in Tasks : Return(t)

SafeSpec == Init /\ [][Next]_semVars

Spec ==
  /\ SafeSpec
  /\ \A t \in Tasks, b \in Blocks : WF_semVars(Take(t, b))
  /\ \A t \in Tasks : WF_semVars(Return(t))
=============================================================================
