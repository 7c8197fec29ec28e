------------------------- MODULE BlockObjectProofs -------------------------
(***************************************************************************)
(* Proofs about BlockObject, for any number of coroutines, threads,        *)
(* objects and waits: no signal is lost, a blocked coroutine is in one     *)
(* queue once, and it is made runnable once, however Wakeup, AddWaitTask   *)
(* and the timer of the wait interleave.                                   *)
(***************************************************************************)
EXTENDS BlockObject, FiniteSetTheorems, TLAPS

(***************************************************************************)
(* The inductive invariant.  Hands: a coroutine taken out of a queue is in *)
(* the hands of one actor, the Wakeup or the CancelWait that took it out,  *)
(* until that actor has made it runnable.  Blocked: what block_ and        *)
(* timer_this point to while they are used.                                *)
(***************************************************************************)
Hands ==
  /\ \A a \in Actors : pc[a] \in {"wake", "cancel"} <=> waking[a] # NoTask
  /\ \A a \in Actors : waking[a] # NoTask => pc[waking[a]] = "popped"
  /\ \A a, c \in Actors : waking[a] # NoTask /\ waking[a] = waking[c] => a = c
  /\ \A t \in Tasks, s \in Seqs : timer[t][s] = "erased" =>
       /\ pc[t] = "popped"
       /\ \A a \in Actors : waking[a] # t
       /\ \A r \in Seqs : timer[t][r] = "erased" => r = s
  /\ \A t \in Tasks : pc[t] = "popped" =>
       (\E a \in Actors : waking[a] = t) \/ (\E s \in Seqs : timer[t][s] = "erased")

Blocked ==
  /\ \A t \in Tasks : pc[t] = "waiting" => state_[t] = "sys_block"
  /\ \A t \in Tasks : state_[t] = "sys_block" /\ pc[t] # "popped" => block_[t] \in Blocks
  /\ \A t \in Tasks, s \in Seqs : timer[t][s] # "none" => timer_this[t][s] \in Blocks

IInv == TypeOK /\ Hands /\ Blocked /\ NoLostWakeup /\ QueuedOnce

USE BlockObjectAssumption

-----------------------------------------------------------------------------
(* What the operations of TSQueue do to a queue.                           *)

(* push: the queue is as before, with the task at its end.                 *)
LEMMA PushQueue ==
  ASSUME NEW q \in Seq(Tasks), NEW t \in Tasks
  PROVE  /\ Append(q, t) \in Seq(Tasks)
         /\ DOMAIN Append(q, t) = 1..(Len(q) + 1)
         /\ DOMAIN q = 1..Len(q) /\ Len(q) \in Nat
         /\ \A i \in 1..Len(q) : Append(q, t)[i] = q[i]
         /\ Append(q, t)[Len(q) + 1] = t
OBVIOUS

(* pop: the first task leaves, the others move up by one.                  *)
LEMMA PopQueue ==
  ASSUME NEW q \in Seq(Tasks), q # <<>>
  PROVE  /\ Head(q) \in Tasks /\ Head(q) = q[1]
         /\ Tail(q) \in Seq(Tasks)
         /\ DOMAIN q = 1..Len(q) /\ Len(q) \in Nat /\ Len(q) > 0
         /\ DOMAIN Tail(q) = 1..(Len(q) - 1)
         /\ \A i \in 1..(Len(q) - 1) : Tail(q)[i] = q[i + 1]
OBVIOUS

(* erase: the i-th task leaves, the ones behind it move up by one.         *)
LEMMA EraseQueue ==
  ASSUME NEW q \in Seq(Tasks), NEW i \in DOMAIN q
  PROVE  /\ EraseAt(q, i) \in Seq(Tasks)
         /\ DOMAIN q = 1..Len(q) /\ Len(q) \in Nat
         /\ DOMAIN EraseAt(q, i) = 1..(Len(q) - 1)
         /\ \A j \in 1..(Len(q) - 1) : EraseAt(q, i)[j] = IF j < i THEN q[j] ELSE q[j + 1]
BY DEF EraseAt

(* The initial states satisfy the invariant.                               *)
LEMMA InitIInv == Init => IInv
<1> SUFFICES ASSUME Init PROVE IInv
  OBVIOUS
<1>1. TypeOK
  BY DEF Init, TypeOK, TimerStates, TaskPCs, ThreadPCs, Actors, Seqs
<1>2. Hands /\ Blocked
  BY DEF Init, Hands, Blocked, Actors
<1>3. NoLostWakeup /\ QueuedOnce
  BY DEF Init, NoLostWakeup, QueuedOnce, Actors
<1> QED
  BY <1>1, <1>2, <1>3 DEF IInv

-----------------------------------------------------------------------------
(* Steps that leave hands and queues alone.                                *)

(* Hands holds on when nobody takes a coroutine out of a queue or hands    *)
(* one on.                                                                 *)
LEMMA HandsFrame ==
  ASSUME TypeOK, Hands, waking' = waking,
         \A a \in Actors : pc'[a] \in {"wake", "cancel"} <=> pc[a] \in {"wake", "cancel"},
         \A t \in Tasks : pc'[t] = "popped" <=> pc[t] = "popped",
         \A t \in Tasks, s \in Seqs : timer'[t][s] = "erased" <=> timer[t][s] = "erased"
  PROVE  Hands'
<1>1. \A a \in Actors : waking[a] # NoTask => waking[a] \in Tasks
  BY DEF TypeOK
<1>2. \A a \in Actors : pc'[a] \in {"wake", "cancel"} <=> waking'[a] # NoTask
  BY DEF Hands
<1>3. \A a \in Actors : waking'[a] # NoTask => pc'[waking'[a]] = "popped"
  BY <1>1 DEF Hands
<1>4. \A a, c \in Actors : waking'[a] # NoTask /\ waking'[a] = waking'[c] => a = c
  BY DEF Hands
<1>5. \A t \in Tasks, s \in Seqs : timer'[t][s] = "erased" =>
        /\ pc'[t] = "popped"
        /\ \A a \in Actors : waking'[a] # t
        /\ \A r \in Seqs : timer'[t][r] = "erased" => r = s
  BY DEF Hands
<1>6. \A t \in Tasks : pc'[t] = "popped" =>
        (\E a \in Actors : waking'[a] = t) \/ (\E s \in Seqs : timer'[t][s] = "erased")
  BY DEF Hands
<1> QED
  BY <1>2, <1>3, <1>4, <1>5, <1>6 DEF Hands

(* QueuedOnce holds on when the queues stay, and no coroutine begins or    *)
(* ends waiting or changes the block_ it waits on.                         *)
LEMMA QueuedFrame ==
  ASSUME TypeOK, QueuedOnce, wait_queue_' = wait_queue_,
         \A t \in Tasks : pc'[t] = "waiting" <=> pc[t] = "waiting",
         \A t \in Tasks : pc[t] = "waiting" => block_'[t] = block_[t]
  PROVE  QueuedOnce'
<1>1. \A b \in Blocks : \A i \in DOMAIN wait_queue_[b] : wait_queue_[b][i] \in Tasks
  BY DEF TypeOK
<1> QED
  BY <1>1 DEF QueuedOnce

-----------------------------------------------------------------------------
(* Steps that take a coroutine out of a queue, or make it runnable.        *)

(* QueuedOnce holds on when the k-th coroutine of a queue is taken out, by *)
(* Wakeup (k = 1) or by CancelWait, and stops waiting.                     *)
LEMMA QueuedRemove ==
  ASSUME TypeOK, QueuedOnce, Blocked, block_' = block_,
         NEW b \in Blocks, NEW k \in DOMAIN wait_queue_[b],
         \A c \in Blocks \ {b} : wait_queue_'[c] = wait_queue_[c],
         DOMAIN wait_queue_'[b] = 1..(Len(wait_queue_[b]) - 1),
         \A j \in 1..(Len(wait_queue_[b]) - 1) :
           wait_queue_'[b][j] = IF j < k THEN wait_queue_[b][j] ELSE wait_queue_[b][j + 1],
         pc'[wait_queue_[b][k]] = "popped",
         \A u \in Tasks \ {wait_queue_[b][k]} : pc'[u] = "waiting" <=> pc[u] = "waiting"
  PROVE  QueuedOnce'
<1> DEFINE q  == wait_queue_[b]
           tk == q[k]
           From(j) == IF j < k THEN j ELSE j + 1
<1>1. q \in Seq(Tasks) /\ DOMAIN q = 1..Len(q) /\ Len(q) \in Nat /\ k \in 1..Len(q)
  BY SMTT(30) DEF TypeOK
<1>2. tk \in Tasks /\ pc[tk] = "waiting" /\ block_[tk] = b
  BY <1>1 DEF QueuedOnce
<1>3. \A j \in 1..(Len(q) - 1) : From(j) \in DOMAIN q /\ From(j) # k /\ wait_queue_'[b][j] = q[From(j)]
  BY <1>1
<1>4. \A j \in DOMAIN q : q[j] \in Tasks /\ (j # k => q[j] # tk)
  BY <1>1 DEF QueuedOnce
<1>5. \A c \in Blocks \ {b} : \A i \in DOMAIN wait_queue_[c] : wait_queue_[c][i] \in Tasks \ {tk}
  BY <1>2 DEF QueuedOnce, TypeOK
<1>6. ASSUME NEW c \in Blocks, NEW i \in DOMAIN wait_queue_'[c], NEW j \in DOMAIN wait_queue_'[c]
      PROVE  /\ pc'[wait_queue_'[c][i]] = "waiting"
             /\ block_[wait_queue_'[c][i]] = c
             /\ wait_queue_'[c][i] = wait_queue_'[c][j] => i = j
  <2>1. CASE c # b
    BY <2>1, <1>5 DEF QueuedOnce
  <2>2. CASE c = b
    <3>1. i \in 1..(Len(q) - 1) /\ j \in 1..(Len(q) - 1)
      BY <2>2
    <3>2. From(i) \in DOMAIN q /\ From(j) \in DOMAIN q /\ From(i) # k
      BY <3>1, <1>3
    <3>3. wait_queue_'[c][i] = q[From(i)] /\ wait_queue_'[c][j] = q[From(j)]
      BY Zenon, <2>2, <3>1, <1>3
    <3>4. pc[q[From(i)]] = "waiting" /\ block_[q[From(i)]] = b /\ (q[From(i)] = q[From(j)] => From(i) = From(j))
      BY <3>2 DEF QueuedOnce
    <3>5. pc'[q[From(i)]] = "waiting"
      BY <3>2, <3>4, <1>4
    <3>6. From(i) = From(j) => i = j
      BY <3>1, <1>1
    <3> QED
      BY <2>2, <3>3, <3>4, <3>5, <3>6
  <2> QED
    BY <2>1, <2>2
<1>7. ASSUME NEW u \in Tasks, pc'[u] = "waiting"
      PROVE  \E i \in DOMAIN wait_queue_'[block_[u]] : wait_queue_'[block_[u]][i] = u
  <2>1. u # tk /\ pc[u] = "waiting" /\ block_[u] \in Blocks
    BY <1>7 DEF Blocked
  <2>2. PICK i \in DOMAIN wait_queue_[block_[u]] : wait_queue_[block_[u]][i] = u
    BY <2>1 DEF QueuedOnce
  <2>3. CASE block_[u] # b
    BY <2>1, <2>2, <2>3
  <2>4. CASE block_[u] = b
    <3>1. i \in 1..Len(q) /\ i # k /\ q[i] = u
      BY <2>1, <2>2, <2>4, <1>1
    <3>2. CASE i < k
      BY <3>1, <3>2, <2>4, <1>1
    <3>3. CASE i > k
      <4>1. i - 1 \in 1..(Len(q) - 1) /\ ~(i - 1 < k) /\ (i - 1) + 1 = i
        BY <3>1, <3>3, <1>1
      <4>2. wait_queue_'[b][i - 1] = u
        BY <4>1, <3>1
      <4> QED
        BY <4>1, <4>2, <2>4
    <3> QED
      BY <3>1, <3>2, <3>3, <1>1
  <2> QED
    BY <2>3, <2>4
<1> QED
  BY <1>6, <1>7 DEF QueuedOnce

(* QueuedOnce holds on when AddWaitTask pushes a coroutine that is in no   *)
(* queue at the tail of the queue it blocks on.                            *)
LEMMA QueuedAppend ==
  ASSUME TypeOK, QueuedOnce, Blocked, block_' = block_,
         NEW t \in Tasks, NEW b \in Blocks, block_[t] = b, pc[t] # "waiting",
         wait_queue_'[b] = Append(wait_queue_[b], t),
         \A c \in Blocks \ {b} : wait_queue_'[c] = wait_queue_[c],
         pc'[t] = "waiting", \A u \in Tasks \ {t} : pc'[u] = pc[u]
  PROVE  QueuedOnce'
<1> DEFINE q == wait_queue_[b]
<1>1. \A c \in Blocks : \A i \in DOMAIN wait_queue_[c] : wait_queue_[c][i] \in Tasks \ {t}
  BY SMTT(30) DEF TypeOK, QueuedOnce
<1>2. /\ DOMAIN q = 1..Len(q) /\ Len(q) \in Nat /\ DOMAIN wait_queue_'[b] = 1..(Len(q) + 1)
      /\ \A i \in 1..Len(q) : wait_queue_'[b][i] = q[i]
      /\ wait_queue_'[b][Len(q) + 1] = t
  <2>1. q \in Seq(Tasks)
    BY DEF TypeOK
  <2> QED
    BY <2>1, PushQueue
<1>3. ASSUME NEW c \in Blocks, NEW i \in DOMAIN wait_queue_'[c], NEW j \in DOMAIN wait_queue_'[c]
      PROVE  /\ pc'[wait_queue_'[c][i]] = "waiting"
             /\ block_[wait_queue_'[c][i]] = c
             /\ wait_queue_'[c][i] = wait_queue_'[c][j] => i = j
  <2>1. CASE c # b
    BY <2>1, <1>1 DEF QueuedOnce
  <2>2. CASE c = b
    <3>1. \A k \in 1..(Len(q) + 1) : k \in 1..Len(q) \/ k = Len(q) + 1
      BY <1>2
    <3>2. \A k \in 1..Len(q) : pc[q[k]] = "waiting" /\ block_[q[k]] = b /\ q[k] \in Tasks \ {t}
      BY <1>1, <1>2 DEF QueuedOnce
    <3>3. \A k, l \in 1..Len(q) : q[k] = q[l] => k = l
      BY <1>2 DEF QueuedOnce
    <3>4. i \in 1..(Len(q) + 1) /\ j \in 1..(Len(q) + 1)
      BY <2>2, <1>2
    <3>5. pc'[wait_queue_'[c][i]] = "waiting" /\ block_[wait_queue_'[c][i]] = c
      BY <2>2, <3>1, <3>2, <3>4, <1>2
    <3>6. wait_queue_'[c][i] = wait_queue_'[c][j] => i = j
      BY <2>2, <3>1, <3>2, <3>3, <3>4, <1>2
    <3> QED
      BY <3>5, <3>6
  <2> QED
    BY <2>1, <2>2
<1>4. ASSUME NEW u \in Tasks, pc'[u] = "waiting"
      PROVE  \E i \in DOMAIN wait_queue_'[block_[u]] : wait_queue_'[block_[u]][i] = u
  <2>1. CASE u = t
    <3>1. Len(q) + 1 \in DOMAIN wait_queue_'[b]
      BY <1>2
    <3> QED
      BY <2>1, <3>1, <1>2
  <2>2. CASE u # t
    <3>1. pc[u] = "waiting" /\ block_[u] \in Blocks
      BY <2>2, <1>4 DEF Blocked
    <3>2. PICK i \in DOMAIN wait_queue_[block_[u]] : wait_queue_[block_[u]][i] = u
      BY <3>1 DEF QueuedOnce
    <3>3. i \in DOMAIN wait_queue_'[block_[u]] /\ wait_queue_'[block_[u]][i] = u
      BY <3>1, <3>2, <1>2
    <3> QED
      BY <3>3
  <2> QED
    BY <2>1, <2>2
<1> QED
  BY <1>3, <1>4 DEF QueuedOnce

(* Wakeup takes a waiting coroutine into its hands.                        *)
LEMMA HandsPop ==
  ASSUME TypeOK, Hands, timer' = timer,
         NEW a \in Actors, NEW tk \in Tasks, pc[a] = "run", pc[tk] = "waiting",
         pc'[a] = "wake", pc'[tk] = "popped", \A c \in Actors \ {a, tk} : pc'[c] = pc[c],
         waking'[a] = tk, \A c \in Actors \ {a} : waking'[c] = waking[c]
  PROVE  Hands'
<1>1. tk # NoTask /\ Tasks \subseteq Actors /\ tk # a
  BY DEF Actors
<1>2. waking[a] = NoTask /\ waking[tk] = NoTask /\ NoTask \notin Actors
  BY <1>1 DEF Hands, Actors
<1>3. \A c \in Actors : waking[c] # tk /\ waking[c] # a
  <2>1. \A c \in Actors : waking[c] # NoTask => pc[waking[c]] = "popped"
    BY DEF Hands
  <2> QED
    BY <1>1, <1>2, <2>1
<1>4. \A s \in Seqs : timer[tk][s] # "erased"
  BY DEF Hands
<1>5. ASSUME NEW c \in Actors
      PROVE  /\ pc'[c] \in {"wake", "cancel"} <=> waking'[c] # NoTask
             /\ waking'[c] # NoTask => pc'[waking'[c]] = "popped"
             /\ \A d \in Actors : waking'[c] # NoTask /\ waking'[c] = waking'[d] => c = d
  <2>1. CASE c = a
    BY <2>1, <1>1, <1>3
  <2>2. CASE c # a
    <3>1. waking'[c] = waking[c] /\ (waking[c] # NoTask => waking[c] \in Actors \ {a, tk})
      BY <2>2, <1>1, <1>3 DEF TypeOK
    <3>2. pc'[c] \in {"wake", "cancel"} <=> waking[c] # NoTask
      BY <2>2, <1>2 DEF Hands
    <3>3. waking[c] # NoTask => pc'[waking[c]] = "popped"
      BY <3>1 DEF Hands
    <3>4. \A d \in Actors : waking[c] # NoTask /\ waking[c] = waking'[d] => c = d
      BY <1>3 DEF Hands
    <3> QED
      BY <3>1, <3>2, <3>3, <3>4
  <2> QED
    BY <2>1, <2>2
<1>6. ASSUME NEW t \in Tasks, NEW s \in Seqs, timer[t][s] = "erased"
      PROVE  /\ pc'[t] = "popped"
             /\ \A c \in Actors : waking'[c] # t
             /\ \A r \in Seqs : timer[t][r] = "erased" => r = s
  <2>1. /\ t # tk /\ pc[t] = "popped" /\ \A c \in Actors : waking[c] # t
        /\ \A r \in Seqs : timer[t][r] = "erased" => r = s
    BY <1>4, <1>6 DEF Hands
  <2> QED
    BY <1>1, <2>1
<1>7. ASSUME NEW t \in Tasks, pc'[t] = "popped"
      PROVE  (\E c \in Actors : waking'[c] = t) \/ (\E s \in Seqs : timer[t][s] = "erased")
  <2>1. CASE t = tk
    BY <2>1
  <2>2. CASE t # tk
    <3>1. pc[t] = "popped"
      BY <2>2, <1>1, <1>7
    <3>2. ASSUME NEW c \in Actors, waking[c] = t PROVE waking'[c] = t
      BY <3>2, <1>1, <1>2
    <3>3. (\E c \in Actors : waking[c] = t) \/ (\E s \in Seqs : timer[t][s] = "erased")
      BY <3>1 DEF Hands
    <3> QED
      BY <3>2, <3>3
  <2> QED
    BY <2>1, <2>2
<1> QED
  BY <1>5, <1>6, <1>7 DEF Hands

(* Wakeup makes the coroutine in its hands runnable.                       *)
LEMMA HandsRelease ==
  ASSUME TypeOK, Hands,
         \A t \in Tasks, s \in Seqs : timer'[t][s] = "erased" <=> timer[t][s] = "erased",
         NEW a \in Actors, NEW tk \in Tasks, pc[a] = "cancel", waking[a] = tk,
         pc'[a] = "run", pc'[tk] = "ready", \A c \in Actors \ {a, tk} : pc'[c] = pc[c],
         waking'[a] = NoTask, \A c \in Actors \ {a} : waking'[c] = waking[c]
  PROVE  Hands'
<1>1. tk \in Tasks /\ tk \in Actors /\ tk # a /\ pc[tk] = "popped" /\ Tasks \subseteq Actors
  BY DEF Hands, TypeOK, Actors
<1>2. \A c \in Actors \ {a} : waking[c] # tk
  BY <1>1 DEF Hands
<1>3. NoTask \notin Actors /\ waking[tk] = NoTask /\ \A c \in Actors : waking[c] # a
  <2>1. \A c \in Actors : waking[c] # NoTask => pc[waking[c]] = "popped"
    BY DEF Hands
  <2> QED
    BY <1>1, <2>1 DEF Hands, Actors
<1>4. \A s \in Seqs : timer[tk][s] # "erased"
  BY <1>1 DEF Hands
<1>5. ASSUME NEW c \in Actors
      PROVE  /\ pc'[c] \in {"wake", "cancel"} <=> waking'[c] # NoTask
             /\ waking'[c] # NoTask => pc'[waking'[c]] = "popped"
             /\ \A d \in Actors : waking'[c] # NoTask /\ waking'[c] = waking'[d] => c = d
  <2>1. CASE c = a
    BY <2>1
  <2>2. CASE c # a
    <3>1. waking'[c] = waking[c] /\ (waking[c] # NoTask => waking[c] \in Actors \ {a, tk})
      BY <2>2, <1>1, <1>2, <1>3 DEF TypeOK
    <3>2. pc'[c] \in {"wake", "cancel"} <=> waking[c] # NoTask
      BY <2>2, <1>3 DEF Hands
    <3>3. waking[c] # NoTask => pc'[waking[c]] = "popped"
      BY <3>1 DEF Hands
    <3>4. \A d \in Actors : waking[c] # NoTask /\ waking[c] = waking'[d] => c = d
      BY DEF Hands
    <3> QED
      BY <3>1, <3>2, <3>3, <3>4
  <2> QED
    BY <2>1, <2>2
<1>6. ASSUME NEW t \in Tasks, NEW s \in Seqs, timer[t][s] = "erased"
      PROVE  /\ pc'[t] = "popped"
             /\ \A c \in Actors : waking'[c] # t
             /\ \A r \in Seqs : timer[t][r] = "erased" => r = s
  <2>1. /\ t # tk /\ t # NoTask /\ pc[t] = "popped" /\ \A c \in Actors : waking[c] # t
        /\ \A r \in Seqs : timer[t][r] = "erased" => r = s
    BY <1>4, <1>6 DEF Hands
  <2> QED
    BY <1>1, <2>1
<1>7. ASSUME NEW t \in Tasks, pc'[t] = "popped"
      PROVE  (\E c \in Actors : waking'[c] = t) \/ (\E s \in Seqs : timer[t][s] = "erased")
  <2>1. pc[t] = "popped" /\ t # tk
    BY <1>1, <1>7
  <2>2. ASSUME NEW c \in Actors, waking[c] = t PROVE waking'[c] = t
    BY <2>1, <2>2
  <2>3. (\E c \in Actors : waking[c] = t) \/ (\E s \in Seqs : timer[t][s] = "erased")
    BY <2>1 DEF Hands
  <2> QED
    BY <2>2, <2>3
<1> QED
  BY <1>5, <1>6, <1>7 DEF Hands

(* CancelWait takes a waiting coroutine into its hands.                    *)
LEMMA HandsCancel ==
  ASSUME TypeOK, Hands, waking' = waking,
         NEW t \in Tasks, NEW s \in Seqs, pc[t] = "waiting",
         pc'[t] = "popped", \A c \in Actors \ {t} : pc'[c] = pc[c],
         timer'[t][s] = "erased",
         \A u \in Tasks, r \in Seqs : (u # t \/ r # s) => timer'[u][r] = timer[u][r]
  PROVE  Hands'
<1>1. Tasks \subseteq Actors
  BY DEF Actors
<1>2. waking[t] = NoTask /\ \A r \in Seqs : timer[t][r] # "erased"
  BY <1>1 DEF Hands
<1>3. \A c \in Actors : waking[c] # t
  BY DEF Hands
<1>4. \A c \in Actors : pc'[c] \in {"wake", "cancel"} <=> waking[c] # NoTask
  BY <1>2 DEF Hands
<1>5. \A c \in Actors : waking[c] # NoTask => pc'[waking[c]] = "popped"
  BY <1>1 DEF Hands, TypeOK
<1>6. \A u \in Tasks, r \in Seqs : timer'[u][r] = "erased" =>
        /\ pc'[u] = "popped"
        /\ \A c \in Actors : waking[c] # u
        /\ \A w \in Seqs : timer'[u][w] = "erased" => w = r
  BY <1>1, <1>2, <1>3 DEF Hands
<1>7. \A u \in Tasks : pc'[u] = "popped" =>
        (\E c \in Actors : waking[c] = u) \/ (\E r \in Seqs : timer'[u][r] = "erased")
  BY <1>1 DEF Hands
<1> QED
  BY <1>4, <1>5, <1>6, <1>7 DEF Hands

(* CancelWait makes the coroutine in its hands runnable.                   *)
LEMMA HandsExpire ==
  ASSUME TypeOK, Hands, waking' = waking,
         NEW t \in Tasks, NEW s \in Seqs, timer[t][s] = "erased",
         pc'[t] = "ready", \A c \in Actors \ {t} : pc'[c] = pc[c],
         timer'[t][s] = "ending",
         \A u \in Tasks, r \in Seqs : (u # t \/ r # s) => timer'[u][r] = timer[u][r]
  PROVE  Hands'
<1>1. Tasks \subseteq Actors
  BY DEF Actors
<1>2. pc[t] = "popped" /\ \A r \in Seqs : timer'[t][r] # "erased"
  BY DEF Hands
<1>3. waking[t] = NoTask /\ \A c \in Actors : waking[c] # t
  BY <1>1, <1>2 DEF Hands
<1>4. \A c \in Actors : pc'[c] \in {"wake", "cancel"} <=> waking[c] # NoTask
  BY <1>3 DEF Hands
<1>5. \A c \in Actors : waking[c] # NoTask => pc'[waking[c]] = "popped"
  BY <1>1, <1>3 DEF Hands, TypeOK
<1>6. \A u \in Tasks, r \in Seqs : timer'[u][r] = "erased" =>
        /\ pc'[u] = "popped"
        /\ \A c \in Actors : waking[c] # u
        /\ \A w \in Seqs : timer'[u][w] = "erased" => w = r
  BY <1>1, <1>2 DEF Hands
<1>7. \A u \in Tasks : pc'[u] = "popped" =>
        (\E c \in Actors : waking[c] = u) \/ (\E r \in Seqs : timer'[u][r] = "erased")
  BY <1>1 DEF Hands
<1> QED
  BY <1>4, <1>5, <1>6, <1>7 DEF Hands

(* The slow path of a wait keeps the invariant, whatever its timeout.      *)
LEMMA StartWaitIInv ==
  ASSUME IInv, NEW t \in Tasks, NEW b \in Blocks,
         NEW call \in {"wait", "timed"}, NEW timeo \in Timeouts \cup {0},
         StartWait(t, b, call, timeo)
  PROVE  IInv'
<1> USE DEF IInv, StartWait, objVars, blockVars, timerVars, callVars
<1>1. TypeOK'
  <2>1. block_sequence_' \in [Tasks -> 0..MaxSeq]
    <3>1. block_sequence_[t] + 1 \in 0..MaxSeq
      BY DEF TypeOK
    <3> QED
      BY Zenon, <3>1 DEF TypeOK
  <2>2. /\ state_' \in [Tasks -> {"runnable", "sys_block", "done"}]
        /\ op' \in [Tasks -> {"none", "wait", "timed", "yield"}]
    BY Zenon DEF TypeOK
  <2>3. /\ block_' \in [Tasks -> Blocks \cup {NoBlock}]
        /\ block_timeout_' \in [Tasks -> Timeouts \cup {0}]
    BY Zenon DEF TypeOK
  <2>4. is_block_timeout_' \in [Tasks -> BOOLEAN] /\ got' \in [Actors -> BOOLEAN]
    BY Zenon DEF TypeOK
  <2>5. pc' \in [Actors -> TaskPCs] /\ \A th \in Threads : pc'[th] \in ThreadPCs
    BY DEF TypeOK, TaskPCs, ThreadPCs, Actors
  <2> QED
    BY Zenon, <2>1, <2>2, <2>3, <2>4, <2>5 DEF TypeOK
<1>2. Hands'
  BY HandsFrame DEF TypeOK, Actors
<1>3. Blocked'
  BY DEF TypeOK, Blocked, Actors
<1>4. NoLostWakeup'
  BY DEF TypeOK, NoLostWakeup
<1>5. QueuedOnce'
  BY QueuedFrame DEF TypeOK, Actors
<1> QED
  BY <1>1, <1>2, <1>3, <1>4, <1>5

(* Every step of every actor keeps the invariant.                          *)
LEMMA NextIInv == IInv /\ [Next]_vars => IInv'
<1> SUFFICES ASSUME IInv, [Next]_vars PROVE IInv'
  OBVIOUS
<1> USE DEF IInv
<1>1. ASSUME NEW a \in Actors, NEW b \in Blocks, TakeSignal(a, b) PROVE IInv'
  <2> USE <1>1 DEF TakeSignal, objVars, blockVars, timerVars, callVars
  <2>1. TypeOK'
    BY DEF TypeOK, TimerStates, Running, TaskPCs, ThreadPCs, Actors, Seqs
  <2>2. Hands'
    BY HandsFrame DEF TypeOK, Actors
  <2>3. Blocked'
    BY DEF TypeOK, Blocked, Actors
  <2>4. NoLostWakeup'
    BY DEF TypeOK, NoLostWakeup
  <2>5. QueuedOnce'
    BY QueuedFrame DEF TypeOK, Actors
  <2> QED
    BY <2>1, <2>2, <2>3, <2>4, <2>5
<1>2. ASSUME NEW a \in Actors, NEW b \in Blocks, PollTimed(a, b) PROVE IInv'
  <2> USE <1>2 DEF PollTimed, objVars, blockVars, timerVars, callVars
  <2>1. TypeOK'
    <3>1. wakeup_[b] \in 0..MaxWakeup /\ (wakeup_[b] > 0 => wakeup_[b] - 1 \in 0..MaxWakeup)
      BY DEF TypeOK
    <3>2. got' \in [Actors -> BOOLEAN] /\ ret' \in [Actors -> BOOLEAN]
      BY Zenon DEF TypeOK
    <3>3. wakeup_' = wakeup_ \/ (wakeup_[b] > 0 /\ wakeup_' = [wakeup_ EXCEPT ![b] = @ - 1])
      OBVIOUS
    <3>4. wakeup_' \in [Blocks -> 0..MaxWakeup]
      BY Zenon, <3>1, <3>3 DEF TypeOK
    <3> QED
      BY <3>2, <3>4 DEF TypeOK
  <2>2. Hands'
    BY HandsFrame DEF TypeOK, Actors
  <2>3. Blocked'
    BY DEF TypeOK, Blocked, Actors
  <2>4. NoLostWakeup'
    BY DEF TypeOK, NoLostWakeup
  <2>5. QueuedOnce'
    BY QueuedFrame DEF TypeOK, Actors
  <2> QED
    BY <2>1, <2>2, <2>3, <2>4, <2>5
<1>3. ASSUME NEW a \in Actors, NEW b \in Blocks, WakeupStore(a, b) PROVE IInv'
  <2> USE <1>3 DEF WakeupStore, objVars, blockVars, timerVars, callVars
  <2>1. TypeOK'
    <3>1. wakeup_[b] + 1 \in 0..MaxWakeup
      BY DEF TypeOK
    <3> QED
      BY <3>1 DEF TypeOK
  <2>2. Hands'
    BY HandsFrame DEF TypeOK, Actors
  <2>3. Blocked'
    BY DEF TypeOK, Blocked, Actors
  <2>4. NoLostWakeup'
    BY DEF TypeOK, NoLostWakeup
  <2>5. QueuedOnce'
    BY QueuedFrame DEF TypeOK, Actors
  <2> QED
    BY <2>1, <2>2, <2>3, <2>4, <2>5
<1>4. ASSUME NEW t \in Tasks, NEW b \in Blocks, CoBlockWait(t, b) PROVE IInv'
  BY StartWaitIInv, <1>4 DEF CoBlockWait
<1>5. ASSUME NEW t \in Tasks, NEW b \in Blocks, CoBlockWaitTimed(t, b) PROVE IInv'
  BY StartWaitIInv, <1>5 DEF CoBlockWaitTimed
<1>6. ASSUME NEW t \in Tasks, CoYield(t) PROVE IInv'
  <2> USE <1>6 DEF CoYield, objVars, blockVars, timerVars, callVars
  <2>1. TypeOK'
    BY DEF TypeOK, TimerStates, Running, TaskPCs, ThreadPCs, Actors, Seqs
  <2>2. Hands'
    BY HandsFrame DEF TypeOK, Actors
  <2>3. Blocked'
    BY DEF TypeOK, Blocked, Actors
  <2>4. NoLostWakeup'
    BY DEF TypeOK, NoLostWakeup
  <2>5. QueuedOnce'
    BY QueuedFrame DEF TypeOK, Actors
  <2> QED
    BY <2>1, <2>2, <2>3, <2>4, <2>5
<1>7. ASSUME NEW t \in Tasks, Task_CB(t) PROVE IInv'
  <2> USE <1>7 DEF Task_CB, objVars, blockVars, timerVars, callVars
  <2>1. TypeOK'
    BY DEF TypeOK, TimerStates, Running, TaskPCs, ThreadPCs, Actors, Seqs
  <2>2. Hands'
    BY HandsFrame DEF TypeOK, Actors
  <2>3. Blocked'
    BY DEF TypeOK, Blocked, Actors
  <2>4. NoLostWakeup'
    BY DEF TypeOK, NoLostWakeup
  <2>5. QueuedOnce'
    BY QueuedFrame DEF TypeOK, Actors
  <2> QED
    BY <2>1, <2>2, <2>3, <2>4, <2>5
<1>8. ASSUME NEW t \in Tasks, SwapIn(t) PROVE IInv'
  <2> USE <1>8 DEF SwapIn, objVars, blockVars, timerVars, callVars
  <2>1. TypeOK'
    <3>1. \E x \in BOOLEAN : ret' = [ret EXCEPT ![t] = x]
      BY Zenon DEF TypeOK, Actors
    <3>2. ret' \in [Actors -> BOOLEAN]
      BY Zenon, <3>1 DEF TypeOK
    <3>3. pc' \in [Actors -> TaskPCs] /\ \A th \in Threads : pc'[th] \in ThreadPCs
      BY DEF TypeOK, TaskPCs, ThreadPCs, Actors
    <3>4. reference_' \in [Tasks -> Int] /\ op' \in [Tasks -> {"none", "wait", "timed", "yield"}]
      BY DEF TypeOK
    <3> QED
      BY Zenon, <3>2, <3>3, <3>4 DEF TypeOK
  <2>2. Hands'
    BY HandsFrame DEF TypeOK, Actors
  <2>3. Blocked'
    BY DEF TypeOK, Blocked, Actors
  <2>4. NoLostWakeup'
    BY DEF TypeOK, NoLostWakeup
  <2>5. QueuedOnce'
    BY QueuedFrame DEF TypeOK, Actors
  <2> QED
    BY <2>1, <2>2, <2>3, <2>4, <2>5
<1>9. ASSUME NEW t \in Tasks, SwitchRunnable(t) PROVE IInv'
  <2> USE <1>9 DEF SwitchRunnable, objVars, blockVars, timerVars, callVars
  <2>1. TypeOK'
    BY DEF TypeOK, TimerStates, Running, TaskPCs, ThreadPCs, Actors, Seqs
  <2>2. Hands'
    BY HandsFrame DEF TypeOK, Actors
  <2>3. Blocked'
    BY DEF TypeOK, Blocked, Actors
  <2>4. NoLostWakeup'
    BY DEF TypeOK, NoLostWakeup
  <2>5. QueuedOnce'
    BY QueuedFrame DEF TypeOK, Actors
  <2> QED
    BY <2>1, <2>2, <2>3, <2>4, <2>5
<1>10. ASSUME NEW t \in Tasks, SwitchDone(t) PROVE IInv'
  <2> USE <1>10 DEF SwitchDone, objVars, blockVars, timerVars, callVars
  <2>1. TypeOK'
    BY SMTT(30) DEF TypeOK, TimerStates, Running, TaskPCs, ThreadPCs, Actors, Seqs
  <2>2. Hands'
    BY HandsFrame DEF TypeOK, Actors
  <2>3. Blocked'
    BY DEF TypeOK, Blocked, Actors
  <2>4. NoLostWakeup'
    BY DEF TypeOK, NoLostWakeup
  <2>5. QueuedOnce'
    BY QueuedFrame DEF TypeOK, Actors
  <2> QED
    BY <2>1, <2>2, <2>3, <2>4, <2>5
<1>11. ASSUME NEW t \in Tasks, AddWaitTaskTake(t) PROVE IInv'
  <2> USE <1>11 DEF AddWaitTaskTake, objVars, blockVars, timerVars, callVars
  <2>0. block_[t] \in Blocks
    BY DEF Blocked
  <2>1. TypeOK'
    <3>1. wakeup_' \in [Blocks -> 0..MaxWakeup]
      BY <2>0 DEF TypeOK
    <3>2. pc' \in [Actors -> TaskPCs] /\ \A th \in Threads : pc'[th] \in ThreadPCs
      BY DEF TypeOK, TaskPCs, ThreadPCs, Actors
    <3>3. got' \in [Actors -> BOOLEAN]
      BY Zenon DEF TypeOK
    <3>4. reference_' \in [Tasks -> Int]
      BY DEF TypeOK
    <3> QED
      BY Zenon, <3>1, <3>2, <3>3, <3>4 DEF TypeOK
  <2>2. Hands'
    BY HandsFrame DEF TypeOK, Actors
  <2>3. Blocked'
    BY DEF TypeOK, Blocked, Actors
  <2>4. NoLostWakeup'
    BY <2>0 DEF TypeOK, NoLostWakeup
  <2>5. QueuedOnce'
    BY QueuedFrame DEF TypeOK, Actors
  <2> QED
    BY <2>1, <2>2, <2>3, <2>4, <2>5
<1>12. ASSUME NEW t \in Tasks, NEW s \in Seqs, TimerFire(t, s) PROVE IInv'
  <2> USE <1>12 DEF TimerFire, objVars, blockVars, timerVars, callVars
  <2>1. TypeOK'
    BY DEF TypeOK, TimerStates, Running, TaskPCs, ThreadPCs, Actors, Seqs
  <2>2. Hands'
    BY SMTT(30), HandsFrame DEF TypeOK, Actors
  <2>3. Blocked'
    BY DEF TypeOK, Blocked, Actors
  <2>4. NoLostWakeup'
    BY DEF TypeOK, NoLostWakeup
  <2>5. QueuedOnce'
    BY QueuedFrame DEF TypeOK, Actors
  <2> QED
    BY <2>1, <2>2, <2>3, <2>4, <2>5
<1>13. ASSUME NEW t \in Tasks, NEW s \in Seqs, CancelWaitLate(t, s) PROVE IInv'
  <2> USE <1>13 DEF CancelWaitLate, objVars, blockVars, timerVars, callVars
  <2>1. TypeOK'
    BY DEF TypeOK, TimerStates, Running, TaskPCs, ThreadPCs, Actors, Seqs
  <2>2. Hands'
    BY SMTT(30), HandsFrame DEF TypeOK, Actors
  <2>3. Blocked'
    BY DEF TypeOK, Blocked, Actors
  <2>4. NoLostWakeup'
    BY DEF TypeOK, NoLostWakeup
  <2>5. QueuedOnce'
    BY QueuedFrame DEF TypeOK, Actors
  <2> QED
    BY <2>1, <2>2, <2>3, <2>4, <2>5
<1>14. ASSUME NEW t \in Tasks, NEW s \in Seqs, TimerEnd(t, s) PROVE IInv'
  <2> USE <1>14 DEF TimerEnd, objVars, blockVars, timerVars, callVars
  <2>1. TypeOK'
    BY SMTT(30) DEF TypeOK, TimerStates, Running, TaskPCs, ThreadPCs, Actors, Seqs
  <2>2. Hands'
    BY SMTT(30), HandsFrame DEF TypeOK, Actors
  <2>3. Blocked'
    BY SMTT(30) DEF TypeOK, Blocked, Actors
  <2>4. NoLostWakeup'
    BY DEF TypeOK, NoLostWakeup
  <2>5. QueuedOnce'
    BY QueuedFrame DEF TypeOK, Actors
  <2> QED
    BY <2>1, <2>2, <2>3, <2>4, <2>5
<1>15. ASSUME NEW t \in Tasks, AddWaitTaskQueue(t) PROVE IInv'
  <2> USE <1>15 DEF AddWaitTaskQueue, objVars, blockVars, timerVars, callVars
  <2> DEFINE b == block_[t]
  <2>1. b \in Blocks /\ wait_queue_[b] \in Seq(Tasks) /\ t \in Actors /\ block_sequence_[t] \in 0..MaxSeq
    BY DEF Blocked, TypeOK, Actors
  <2>2. TypeOK'
    <3>1. wait_queue_' \in [Blocks -> Seq(Tasks)]
      BY <2>1, PushQueue DEF TypeOK
    <3>2. pc' \in [Actors -> TaskPCs] /\ \A th \in Threads : pc'[th] \in ThreadPCs
      BY SMTT(30), <2>1 DEF TypeOK, TaskPCs, ThreadPCs
    <3>3. reference_' \in [Tasks -> Int] /\ block_timer_' \in [Tasks -> 0..MaxSeq]
      BY SMTT(30), <2>1 DEF TypeOK
    <3>4. timer' \in [Tasks -> [Seqs -> TimerStates]]
      BY Zenon DEF TypeOK, TimerStates
    <3>5. timer_this' \in [Tasks -> [Seqs -> Blocks \cup {NoBlock}]]
      BY Zenon, <2>1 DEF TypeOK
    <3> QED
      BY <3>1, <3>2, <3>3, <3>4, <3>5 DEF TypeOK
  <2>3. \A u \in Tasks, s \in Seqs :
          \/ timer'[u][s] = timer[u][s] /\ timer_this'[u][s] = timer_this[u][s]
          \/ timer'[u][s] = "armed" /\ timer_this'[u][s] = b
    BY SMTT(30), <2>1 DEF TypeOK
  <2>4. Hands'
    <3>1. \A a \in Actors : pc'[a] = pc[a] \/ (a = t /\ pc'[a] = "waiting")
      BY <2>1 DEF TypeOK
    <3>2. \A u \in Tasks : u \in Actors
      BY DEF Actors
    <3>3. \A u \in Tasks, s \in Seqs : timer'[u][s] = "erased" => timer[u][s] = "erased"
      BY <2>3
    <3>4. \A u \in Tasks, s \in Seqs : timer[u][s] = "erased" => timer'[u][s] = "erased"
      <4>1. \A u \in Tasks, s \in Seqs : timer[u][s] = "erased" => u # t
        BY Zenon DEF Hands
      <4>2. \A u \in Tasks \ {t} : timer'[u] = timer[u]
        BY DEF TypeOK
      <4> QED
        BY Zenon, <4>1, <4>2
    <3> QED
      BY SMTT(30), <3>1, <3>2, <3>3, <3>4, HandsFrame
  <2>5. Blocked'
    BY SMTT(30), <2>1, <2>3 DEF TypeOK, Blocked
  <2>6. NoLostWakeup'
    BY DEF TypeOK, NoLostWakeup
  <2>7. QueuedOnce'
    <3>1. /\ wait_queue_'[b] = Append(wait_queue_[b], t) /\ pc'[t] = "waiting"
          /\ \A c \in Blocks \ {b} : wait_queue_'[c] = wait_queue_[c]
          /\ \A u \in Tasks \ {t} : pc'[u] = pc[u]
      BY SMTT(30), <2>1 DEF TypeOK
    <3> QED
      BY <2>1, <3>1, QueuedAppend
  <2> QED
    BY <2>2, <2>4, <2>5, <2>6, <2>7
<1>16. ASSUME NEW a \in Actors, NEW b \in Blocks, WakeupPop(a, b) PROVE IInv'
  <2> DEFINE q  == wait_queue_[b]
             tk == Head(q)
  <2>1. q \in Seq(Tasks) /\ q # <<>> /\ pc[a] = "run"
    BY <1>16 DEF WakeupPop, TypeOK
  <2>2. /\ tk \in Tasks /\ tk = q[1] /\ Tail(q) \in Seq(Tasks)
        /\ DOMAIN q = 1..Len(q) /\ Len(q) \in Nat /\ Len(q) > 0
        /\ DOMAIN Tail(q) = 1..(Len(q) - 1)
        /\ \A i \in 1..(Len(q) - 1) : Tail(q)[i] = q[i + 1]
    BY <2>1, PopQueue
  <2>3. pc[tk] = "waiting" /\ tk \in Actors /\ tk # a
    BY <2>1, <2>2 DEF QueuedOnce, Actors
  <2>4. /\ UNCHANGED <<wakeup_, state_, blockVars, timerVars, op, ret>>
        /\ pc' = [pc EXCEPT ![a] = "wake", ![tk] = "popped"]
        /\ waking' = [waking EXCEPT ![a] = tk]
        /\ wait_queue_' = [wait_queue_ EXCEPT ![b] = Tail(q)]
        /\ reference_' = [reference_ EXCEPT ![tk] = @ - 1]
        /\ got' = [got EXCEPT ![tk] = TRUE]
    BY <1>16 DEF WakeupPop
  <2> HIDE DEF tk
  <2> USE <2>4 DEF blockVars, timerVars
  <2>5. TypeOK'
    <3>1. wait_queue_' \in [Blocks -> Seq(Tasks)]
      BY <2>2 DEF TypeOK
    <3>2. pc' \in [Actors -> TaskPCs]
      BY Zenon, <2>3 DEF TypeOK, TaskPCs
    <3>3. \A th \in Threads : pc'[th] \in ThreadPCs
      BY Zenon, <2>2, <2>3 DEF TypeOK, ThreadPCs, Actors
    <3>4. reference_' \in [Tasks -> Int]
      <4>1. reference_[tk] \in Int
        BY Zenon, <2>2 DEF TypeOK
      <4>2. reference_[tk] - 1 \in Int
        BY <4>1
      <4> QED
        BY Zenon, <2>2, <4>2 DEF TypeOK
    <3>5. waking' \in [Actors -> Tasks \cup {NoTask}]
      BY <2>2 DEF TypeOK
    <3>6. got' \in [Actors -> BOOLEAN]
      BY Zenon, <2>2 DEF TypeOK
    <3> QED
      BY Zenon, <3>1, <3>2, <3>3, <3>4, <3>5, <3>6 DEF TypeOK
  <2>6. Hands'
    <3>1. /\ pc'[a] = "wake" /\ pc'[tk] = "popped" /\ \A c \in Actors \ {a, tk} : pc'[c] = pc[c]
          /\ waking'[a] = tk /\ \A c \in Actors \ {a} : waking'[c] = waking[c]
      BY <2>3 DEF TypeOK
    <3> QED
      BY ZenonT(40), <2>1, <2>2, <2>3, <3>1, HandsPop
  <2>7. Blocked'
    BY Zenon, <2>1, <2>2, <2>3 DEF Blocked, Actors, TypeOK
  <2>8. NoLostWakeup'
    BY <2>1 DEF NoLostWakeup, TypeOK
  <2>9. QueuedOnce'
    <3>1. 1 \in DOMAIN q /\ \A j \in 1..(Len(q) - 1) : ~(j < 1)
      BY <2>2
    <3>2. \A c \in Blocks \ {b} : wait_queue_'[c] = wait_queue_[c]
      BY DEF TypeOK
    <3>3. wait_queue_'[b] = Tail(q)
      BY DEF TypeOK
    <3>4. pc'[tk] = "popped" /\ \A u \in Tasks \ {tk} : pc'[u] = "waiting" <=> pc[u] = "waiting"
      BY <2>1, <2>3 DEF TypeOK, Actors
    <3>5. \A j \in 1..(Len(q) - 1) : wait_queue_'[b][j] = IF j < 1 THEN q[j] ELSE q[j + 1]
      BY Zenon, <2>2, <3>1, <3>3
    <3>6. DOMAIN wait_queue_'[b] = 1..(Len(q) - 1) /\ pc'[q[1]] = "popped"
      BY Zenon, <2>2, <3>3, <3>4
    <3>7. \A u \in Tasks \ {q[1]} : pc'[u] = "waiting" <=> pc[u] = "waiting"
      BY Zenon, <2>2, <3>4
    <3> HIDE <2>4
    <3>8. block_' = block_
      BY <2>4
    <3> QED
      BY <3>1, <3>2, <3>5, <3>6, <3>7, <3>8, QueuedRemove
  <2> QED
    BY <2>5, <2>6, <2>7, <2>8, <2>9
<1>17. ASSUME NEW a \in Actors, WakeupClear(a) PROVE IInv'
  <2> USE <1>17 DEF WakeupClear, objVars, timerVars, callVars
  <2>1. waking[a] \in Tasks /\ pc[waking[a]] = "popped"
    BY DEF Hands, TypeOK
  <2>2. TypeOK'
    BY <2>1 DEF TypeOK, TaskPCs, ThreadPCs
  <2>3. Hands'
    <3>1. \A c \in Actors : pc'[c] = pc[c] \/ (c = a /\ pc[c] = "wake" /\ pc'[c] = "cancel")
      BY DEF TypeOK
    <3>2. Tasks \subseteq Actors
      BY DEF Actors
    <3> QED
      BY <3>1, <3>2, HandsFrame
  <2>4. Blocked'
    BY <2>1 DEF TypeOK, Blocked, Actors
  <2>5. NoLostWakeup'
    BY DEF NoLostWakeup
  <2>6. QueuedOnce'
    <3>1. \A u \in Tasks : pc'[u] = "waiting" <=> pc[u] = "waiting"
      BY DEF TypeOK, Actors
    <3>2. \A u \in Tasks : pc[u] = "waiting" => block_'[u] = block_[u]
      BY <2>1 DEF TypeOK
    <3> QED
      BY <3>1, <3>2, QueuedFrame
  <2> QED
    BY <2>2, <2>3, <2>4, <2>5, <2>6
<1>18. ASSUME NEW a \in Actors, WakeupEnd(a) PROVE IInv'
  <2> DEFINE tk == waking[a]
             s  == block_timer_[tk]
  <2>1. tk \in Tasks /\ pc[tk] = "popped" /\ pc[a] = "cancel" /\ tk # a /\ tk \in Actors
    <3>1. pc[a] = "cancel" /\ tk # NoTask
      BY Zenon, <1>18 DEF WakeupEnd, Hands
    <3>2. waking[a] \in Tasks \cup {NoTask}
      BY DEF TypeOK
    <3>3. pc[tk] = "popped"
      BY Zenon, <3>1 DEF Hands
    <3> QED
      BY <3>1, <3>2, <3>3 DEF Actors
  <2>2. /\ UNCHANGED <<objVars, blockVars, timer_this, callVars>>
        /\ block_timer_' = [block_timer_ EXCEPT ![tk] = 0]
        /\ state_' = [state_ EXCEPT ![tk] = "runnable"]
        /\ pc' = [pc EXCEPT ![a] = "run", ![tk] = "ready"]
        /\ waking' = [waking EXCEPT ![a] = NoTask]
        /\ timer' = timer \/ (timer' = [timer EXCEPT ![tk][s] = "cancelled"] /\ s # 0 /\ timer[tk][s] = "armed")
        /\ reference_' = reference_ \/ reference_' = [reference_ EXCEPT ![tk] = @ + 1]
    BY <1>18 DEF WakeupEnd, Cancelled, AddTaskRunnable
  <2>3. s \in 0..MaxSeq /\ (s # 0 => s \in Seqs)
    BY <2>1 DEF TypeOK, Seqs
  <2> HIDE DEF tk, s
  <2> USE <2>2 DEF objVars, blockVars, callVars
  <2>4. \A u \in Tasks, r \in Seqs :
          \/ timer'[u][r] = timer[u][r]
          \/ timer'[u][r] = "cancelled" /\ timer[u][r] = "armed"
    <3>1. CASE timer' = timer
      BY <3>1
    <3>2. CASE timer' = [timer EXCEPT ![tk][s] = "cancelled"] /\ s # 0 /\ timer[tk][s] = "armed"
      BY SMTT(30), <3>2, <2>1, <2>3 DEF TypeOK
    <3> QED
      BY <2>2, <3>1, <3>2
  <2>5. TypeOK'
    <3>1. pc' \in [Actors -> TaskPCs]
      BY Zenon, <2>1 DEF TypeOK, TaskPCs
    <3>2. \A th \in Threads : pc'[th] \in ThreadPCs
      BY Zenon, <2>1 DEF TypeOK, ThreadPCs, Actors
    <3>3. reference_' \in [Tasks -> Int] /\ waking' \in [Actors -> Tasks \cup {NoTask}]
      <4>1. reference_[tk] + 1 \in Int
        BY <2>1 DEF TypeOK
      <4>2. reference_' \in [Tasks -> Int]
        BY Zenon, <4>1 DEF TypeOK
      <4> QED
        BY Zenon, <4>2 DEF TypeOK
    <3>4. timer' \in [Tasks -> [Seqs -> TimerStates]]
      <4>1. CASE timer' = timer
        BY <4>1 DEF TypeOK
      <4>2. CASE timer' = [timer EXCEPT ![tk][s] = "cancelled"]
        BY Zenon, <4>2 DEF TypeOK, TimerStates
      <4> QED
        BY <2>2, <4>1, <4>2
    <3>5. block_timer_' \in [Tasks -> 0..MaxSeq]
      <4>1. 0 \in 0..MaxSeq
        OBVIOUS
      <4> QED
        BY Zenon, <4>1 DEF TypeOK
    <3>6. state_' \in [Tasks -> {"runnable", "sys_block", "done"}]
      BY <2>1 DEF TypeOK
    <3> QED
      BY Zenon, <3>1, <3>2, <3>3, <3>4, <3>5, <3>6 DEF TypeOK
  <2>6. Hands'
    <3>1. /\ pc'[a] = "run" /\ pc'[tk] = "ready" /\ \A c \in Actors \ {a, tk} : pc'[c] = pc[c]
          /\ waking'[a] = NoTask /\ \A c \in Actors \ {a} : waking'[c] = waking[c]
      BY <2>1 DEF TypeOK
    <3>2. waking[a] = tk
      BY DEF tk
    <3>3. \A u \in Tasks, r \in Seqs : timer'[u][r] = "erased" <=> timer[u][r] = "erased"
      BY <2>4
    <3> HIDE <2>2
    <3> QED
      BY <2>1, <3>1, <3>2, <3>3, HandsRelease
  <2>7. Blocked'
    <3>1. state_'[tk] = "runnable" /\ \A u \in Tasks \ {tk} : state_'[u] = state_[u]
      BY <2>1 DEF TypeOK
    <3>2. pc'[tk] = "ready" /\ \A u \in Tasks \ {tk} : pc'[u] = pc[u] \/ (pc'[u] = "run" /\ pc[u] = "cancel")
      BY <2>1 DEF TypeOK, Actors
    <3>3. block_' = block_ /\ timer_this' = timer_this
      OBVIOUS
    <3> HIDE <2>2
    <3>4. \A u \in Tasks : pc'[u] = "waiting" => state_'[u] = "sys_block"
      BY <3>1, <3>2 DEF Blocked
    <3>5. \A u \in Tasks : state_'[u] = "sys_block" /\ pc'[u] # "popped" => block_'[u] \in Blocks
      BY <3>1, <3>2, <3>3 DEF Blocked
    <3>6. \A u \in Tasks, r \in Seqs : timer'[u][r] # "none" => timer_this'[u][r] \in Blocks
      BY <2>4, <3>3 DEF Blocked
    <3> QED
      BY <3>4, <3>5, <3>6 DEF Blocked
  <2>8. NoLostWakeup'
    BY DEF NoLostWakeup
  <2>9. QueuedOnce'
    <3>1. \A u \in Tasks : pc'[u] = "waiting" <=> pc[u] = "waiting"
      BY <2>1 DEF TypeOK, Actors
    <3> QED
      BY Zenon, <3>1, QueuedFrame
  <2> QED
    BY <2>5, <2>6, <2>7, <2>8, <2>9
<1>19. ASSUME NEW t \in Tasks, NEW s \in Seqs, CancelWaitErase(t, s) PROVE IInv'
  <2> DEFINE b == timer_this[t][s]
             q == wait_queue_[b]
  <2>1. b \in Blocks /\ t \in Actors
    BY <1>19 DEF CancelWaitErase, Blocked, Actors
  <2>2. PICK k \in DOMAIN q : q[k] = t /\ wait_queue_' = [wait_queue_ EXCEPT ![b] = EraseAt(q, k)]
    BY Zenon, <1>19 DEF CancelWaitErase
  <2>3. /\ UNCHANGED <<wakeup_, state_, blockVars, block_timer_, timer_this, waking, callVars>>
        /\ pc' = [pc EXCEPT ![t] = "popped"]
        /\ timer' = [timer EXCEPT ![t][s] = "erased"]
        /\ reference_' = [reference_ EXCEPT ![t] = @ - 1]
    BY <1>19 DEF CancelWaitErase
  <2>4. pc[t] = "waiting" /\ q \in Seq(Tasks)
    <3>1. q \in Seq(Tasks)
      BY <2>1 DEF TypeOK
    <3>2. \A c \in Blocks : \A i \in DOMAIN wait_queue_[c] : pc[wait_queue_[c][i]] = "waiting"
      BY DEF QueuedOnce
    <3>3. pc[q[k]] = "waiting"
      BY <3>2, <2>1, <2>2
    <3> QED
      BY <3>1, <3>3, <2>2
  <2>5. /\ EraseAt(q, k) \in Seq(Tasks)
        /\ DOMAIN EraseAt(q, k) = 1..(Len(q) - 1)
        /\ \A j \in 1..(Len(q) - 1) : EraseAt(q, k)[j] = IF j < k THEN q[j] ELSE q[j + 1]
    BY <2>2, <2>4, EraseQueue
  <2>6. /\ wait_queue_'[b] = EraseAt(q, k) /\ \A c \in Blocks \ {b} : wait_queue_'[c] = wait_queue_[c]
        /\ pc'[t] = "popped" /\ \A c \in Actors \ {t} : pc'[c] = pc[c]
        /\ timer'[t][s] = "erased"
        /\ \A u \in Tasks, r \in Seqs : (u # t \/ r # s) => timer'[u][r] = timer[u][r]
    BY Zenon, <2>1, <2>2, <2>3 DEF TypeOK
  <2>7. TypeOK'
    <3>1. wait_queue_' \in [Blocks -> Seq(Tasks)]
      BY Zenon, <2>2, <2>5 DEF TypeOK
    <3>2. pc' \in [Actors -> TaskPCs] /\ \A th \in Threads : pc'[th] \in ThreadPCs
      BY ZenonT(40), <2>3 DEF TypeOK, TaskPCs, ThreadPCs, Actors
    <3>3. timer' \in [Tasks -> [Seqs -> TimerStates]]
      BY Zenon, <2>3 DEF TypeOK, TimerStates, Running
    <3>4. reference_[t] - 1 \in Int
      BY DEF TypeOK
    <3>5. reference_' \in [Tasks -> Int]
      BY Zenon, <2>3, <3>4 DEF TypeOK
    <3> QED
      BY Zenon, <2>3, <3>1, <3>2, <3>3, <3>5 DEF TypeOK, blockVars, callVars
  <2>8. Hands'
    <3>1. waking' = waking /\ \A u \in Tasks : u \in Actors
      BY <2>3 DEF Actors
    <3> QED
      BY <2>4, <2>6, <3>1, HandsCancel
  <2>9. Blocked'
    <3>1. state_' = state_ /\ block_' = block_ /\ timer_this' = timer_this
      BY <2>3 DEF blockVars
    <3>2. \A u \in Tasks : pc'[u] = pc[u] \/ (u = t /\ pc'[u] = "popped")
      BY <2>6 DEF Actors
    <3>3. \A u \in Tasks, r \in Seqs : timer'[u][r] # "none" => timer_this'[u][r] \in Blocks
      BY Zenon, <2>1, <2>6, <3>1 DEF Blocked
    <3> QED
      BY <3>1, <3>2, <3>3 DEF Blocked
  <2>10. NoLostWakeup'
    <3>1. wakeup_' = wakeup_ /\ q # <<>>
      BY <2>2, <2>3, <2>4
    <3> QED
      BY Zenon, <2>1, <2>6, <3>1 DEF NoLostWakeup
  <2>11. QueuedOnce'
    <3>1. \A u \in Tasks \ {q[k]} : pc'[u] = "waiting" <=> pc[u] = "waiting"
      BY <2>2, <2>6 DEF Actors
    <3>2. block_' = block_ /\ pc'[q[k]] = "popped"
      BY <2>2, <2>3, <2>6 DEF blockVars
    <3>3. DOMAIN wait_queue_'[b] = 1..(Len(wait_queue_[b]) - 1)
      BY Zenon, <2>5, <2>6
    <3>4. \A j \in 1..(Len(wait_queue_[b]) - 1) :
            wait_queue_'[b][j] = IF j < k THEN wait_queue_[b][j] ELSE wait_queue_[b][j + 1]
      BY <2>5, <2>6
    <3>5. \A c \in Blocks \ {b} : wait_queue_'[c] = wait_queue_[c]
      BY <2>6
    <3> HIDE DEF b
    <3> QED
      BY <2>1, <3>1, <3>2, <3>3, <3>4, <3>5, QueuedRemove
  <2> QED
    BY <2>7, <2>8, <2>9, <2>10, <2>11
<1>20. ASSUME NEW t \in Tasks, NEW s \in Seqs, CancelWaitEnd(t, s) PROVE IInv'
  <2> USE <1>20 DEF CancelWaitEnd, AddTaskRunnable, objVars, callVars
  <2>1. pc[t] = "popped" /\ t \in Actors
    BY DEF Hands, Actors
  <2>2. TypeOK'
    <3>1. reference_' \in [Tasks -> Int]
      <4>1. reference_[t] + 1 \in Int
        BY DEF TypeOK
      <4> QED
        BY Zenon, <4>1 DEF TypeOK
    <3>2. state_' \in [Tasks -> {"runnable", "sys_block", "done"}]
      BY Zenon DEF TypeOK
    <3>3. block_' \in [Tasks -> Blocks \cup {NoBlock}] /\ is_block_timeout_' \in [Tasks -> BOOLEAN]
      BY Zenon DEF TypeOK
    <3>4. timer' \in [Tasks -> [Seqs -> TimerStates]]
      BY Zenon DEF TypeOK, TimerStates, Running
    <3>5. pc' \in [Actors -> TaskPCs] /\ \A th \in Threads : pc'[th] \in ThreadPCs
      BY <2>1 DEF TypeOK, TaskPCs, ThreadPCs, Actors
    <3> QED
      BY Zenon, <3>1, <3>2, <3>3, <3>4, <3>5 DEF TypeOK
  <2>3. /\ pc'[t] = "ready" /\ \A c \in Actors \ {t} : pc'[c] = pc[c]
        /\ timer'[t][s] = "ending"
        /\ \A u \in Tasks, r \in Seqs : (u # t \/ r # s) => timer'[u][r] = timer[u][r]
    BY <2>1 DEF TypeOK
  <2>4. Hands'
    BY <2>3, HandsExpire
  <2>5. Blocked'
    BY ZenonT(40), <2>1, <2>3 DEF Blocked, TypeOK, Actors
  <2>6. NoLostWakeup'
    BY DEF NoLostWakeup
  <2>7. QueuedOnce'
    <3>1. \A u \in Tasks : pc'[u] = "waiting" <=> pc[u] = "waiting"
      BY <2>1, <2>3 DEF Actors
    <3>2. \A u \in Tasks : pc[u] = "waiting" => block_'[u] = block_[u]
      BY <2>1 DEF TypeOK
    <3> QED
      BY <3>1, <3>2, QueuedFrame
  <2> QED
    BY <2>2, <2>4, <2>5, <2>6, <2>7
<1>21. CASE UNCHANGED vars
  <2>1. TypeOK' /\ NoLostWakeup' /\ Blocked'
    BY <1>21 DEF vars, objVars, blockVars, timerVars, callVars, TypeOK, NoLostWakeup, Blocked
  <2>2. Hands' /\ QueuedOnce'
    BY <1>21, HandsFrame, QueuedFrame DEF vars, objVars, blockVars, timerVars
  <2> QED
    BY <2>1, <2>2
<1>22. CASE \E a \in Actors : Call(a) \/ Wake(a)
  BY <1>1, <1>2, <1>3, <1>16, <1>17, <1>18, <1>22 DEF Call, Wake
<1>23. CASE \E t \in Tasks : TaskCall(t) \/ Processer(t)
  BY <1>4, <1>5, <1>6, <1>7, <1>8, <1>9, <1>10, <1>11, <1>15, <1>23 DEF TaskCall, Processer
<1>24. CASE \E t \in Tasks, s \in Seqs : Callback(t, s)
  BY <1>12, <1>13, <1>14, <1>19, <1>20, <1>24 DEF Callback
<1> QED
  BY <1>21, <1>22, <1>23, <1>24 DEF Next

-----------------------------------------------------------------------------
(* A coroutine in the hands of one actor is counted once.                  *)
LEMMA HandsCount == TypeOK /\ Hands => WokenOnce
<1> SUFFICES ASSUME TypeOK, Hands, NEW t \in Tasks
             PROVE  LET wakers  == {a \in Actors : waking[a] = t}
                        cancels == {s \in Seqs : timer[t][s] = "erased"}
                    IN Cardinality(wakers) + Cardinality(cancels) = (IF pc[t] = "popped" THEN 1 ELSE 0)
  BY DEF WokenOnce
<1> DEFINE wakers  == {a \in Actors : waking[a] = t}
           cancels == {s \in Seqs : timer[t][s] = "erased"}
<1>1. Cardinality({}) = 0 /\ \A x : Cardinality({x}) = 1
  BY FS_EmptySet, FS_Singleton
<1>2. t # NoTask
  OBVIOUS
<1>3. CASE pc[t] # "popped"
  <2>1. wakers = {} /\ cancels = {}
    BY <1>2, <1>3 DEF Hands
  <2> QED
    BY <1>1, <1>3, <2>1
<1>4. CASE pc[t] = "popped" /\ \E a \in Actors : waking[a] = t
  <2>1. PICK a \in Actors : waking[a] = t
    BY <1>4
  <2>2. wakers = {a} /\ cancels = {}
    BY <1>2, <2>1 DEF Hands
  <2> QED
    BY SMTT(30), <1>1, <1>4, <2>2
<1>5. CASE pc[t] = "popped" /\ \E s \in Seqs : timer[t][s] = "erased"
  <2>1. PICK s \in Seqs : timer[t][s] = "erased"
    BY <1>5
  <2>2. cancels = {s} /\ wakers = {}
    BY <2>1 DEF Hands
  <2> QED
    BY <1>1, <1>5, <2>2
<1> QED
  BY <1>3, <1>4, <1>5 DEF Hands

(* Type correctness of the blocking primitive.                             *)
THEOREM TypeCorrect == Spec => []TypeOK
<1>1. IInv => TypeOK
  BY DEF IInv
<1> QED
  BY InitIInv, NextIInv, <1>1, PTL DEF Spec

(* No lost wakeup: whatever Wakeup, AddWaitTask and CancelWait do to one   *)
(* object at the same time, no signal is stored while a coroutine waits.   *)
THEOREM SignalsReachWaiters == Spec => []NoLostWakeup
<1>1. IInv => NoLostWakeup
  BY DEF IInv
<1> QED
  BY InitIInv, NextIInv, <1>1, PTL DEF Spec

(* A blocked coroutine is in one queue once, and is made runnable by one   *)
(* actor, the Wakeup or the timeout that took it out.                      *)
THEOREM WaitersLeaveOnce == Spec => [](QueuedOnce /\ WokenOnce)
<1>1. IInv => QueuedOnce /\ WokenOnce
  BY HandsCount DEF IInv
<1> QED
  BY InitIInv, NextIInv, <1>1, PTL DEF Spec
=============================================================================

