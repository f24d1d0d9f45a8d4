-------------------------- MODULE SchedulerProofs --------------------------
(***************************************************************************)
(* Proofs that the ready queues of Scheduler stay consistent, that         *)
(* schedule() picks the most urgent thread, that the tick is lost only     *)
(* where nobody needs it and that the idle loop can always be left, for    *)
(* any size of the TCB pool, any number of levels and any priorities,      *)
(* policies and deadlines that callers pass.  TypeOK /\ QueueInv is        *)
(* inductive.                                                              *)
(***************************************************************************)
EXTENDS Scheduler, TLAPS

(* Taking the i-th thread out of a queue (the unlinking in schedule() and  *)
(* queue_pop_front) keeps the others, in order.                            *)
LEMMA UnlinkFacts ==
  ASSUME NEW S, NEW s \in Seq(S), NEW i \in 1..Len(s)
  PROVE  /\ Unlink(s, i) \in Seq(S)
         /\ Len(Unlink(s, i)) = Len(s) - 1
         /\ DOMAIN Unlink(s, i) = 1..(Len(s) - 1)
         /\ \A j \in 1..(Len(s) - 1) : Unlink(s, i)[j] = IF j < i THEN s[j] ELSE s[j + 1]
BY DEF Unlink

(* What queue_push_back does to one queue. *)
LEMMA AppendFacts ==
  ASSUME NEW S, NEW s \in Seq(S), NEW x \in S
  PROVE  /\ Append(s, x) \in Seq(S)
         /\ Len(Append(s, x)) = Len(s) + 1
         /\ DOMAIN Append(s, x) = 1..(Len(s) + 1)
         /\ DOMAIN s = 1..Len(s)
         /\ \A j \in 1..Len(s) : Append(s, x)[j] = s[j]
         /\ Append(s, x)[Len(s) + 1] = x
OBVIOUS

(* The constants of the model have their types. *)
LEMMA ConstantFacts == Idle \in Thread /\ Idle \in Level /\ Fresh \notin Thread
BY SchedulerAssumption DEF Idle, Thread, Level, Fresh

-----------------------------------------------------------------------------
(* The queues q hold exactly the threads of S, each once and in the queue  *)
(* of its priority, pr.                                                    *)
Holds(q, S, pr) ==
  /\ q \in [Level -> Seq(Thread)]
  /\ \A p \in Level : \A i \in 1..Len(q[p]) : q[p][i] \in S /\ pr[q[p][i]] = p
  /\ \A p \in Level : \A i, j \in 1..Len(q[p]) : q[p][i] = q[p][j] => i = j
  /\ \A t \in S : \E i \in 1..Len(q[pr[t]]) : q[pr[t]][i] = t

(* queue_push_back adds one thread. *)
LEMMA PushHolds ==
  ASSUME NEW q, NEW S \in SUBSET Thread, Holds(q, S, priority), NEW n \in Int,
         priority \in [Thread -> Nat], \A t \in S : priority[t] \in Level,
         NEW x \in Thread \ S, priority[x] \in Level
  PROVE  /\ Holds(queue_push_back(q, n, x).q, S \cup {x}, priority)
         /\ queue_push_back(q, n, x).total = n + 1
<1> DEFINE r == queue_push_back(q, n, x).q
           px == priority[x]
<1>1. r = [q EXCEPT ![px] = Append(q[px], x)] /\ queue_push_back(q, n, x).total = n + 1
  BY DEF queue_push_back
<1>2. q \in [Level -> Seq(Thread)] /\ px \in Level /\ q[px] \in Seq(Thread)
  BY DEF Holds
<1>3. r \in [Level -> Seq(Thread)]
  BY <1>1, <1>2
<1>4. /\ \A p \in Level : p # px => r[p] = q[p]
      /\ Len(r[px]) = Len(q[px]) + 1
      /\ \A j \in 1..Len(q[px]) : r[px][j] = q[px][j]
      /\ r[px][Len(q[px]) + 1] = x
      /\ Len(q[px]) \in Nat
  BY <1>1, <1>2, AppendFacts
<1> HIDE DEF r, px
<1>5. ASSUME NEW p \in Level, NEW i \in 1..Len(r[p])
      PROVE  /\ r[p][i] \in S \cup {x} /\ priority[r[p][i]] = p
             /\ r[p][i] = x <=> p = px /\ i = Len(q[px]) + 1
             /\ r[p][i] # x => i \in 1..Len(q[p]) /\ r[p][i] = q[p][i]
  <2>1. CASE p # px \/ i # Len(q[px]) + 1
    <3>1. i \in 1..Len(q[p]) /\ r[p][i] = q[p][i]
      BY <2>1, <1>4, <1>2, SMTT(30)
    <3>2. q[p][i] \in S /\ priority[q[p][i]] = p
      BY <3>1 DEF Holds
    <3> QED BY <3>1, <3>2, <2>1
  <2>2. CASE p = px /\ i = Len(q[px]) + 1
    BY <2>2, <1>4 DEF px
  <2> QED BY <2>1, <2>2
<1>6. ASSUME NEW p \in Level, NEW i \in 1..Len(r[p]), NEW j \in 1..Len(r[p]), r[p][i] = r[p][j]
      PROVE  i = j
  <2>1. CASE r[p][i] = x
    <3>1. p = px /\ i = Len(q[px]) + 1
      BY <1>5, <2>1
    <3>2. j = Len(q[px]) + 1
      BY <1>5, <1>6, <2>1, Zenon
    <3> QED BY <3>1, <3>2
  <2>2. CASE r[p][i] # x
    <3>1. /\ i \in 1..Len(q[p]) /\ r[p][i] = q[p][i]
          /\ j \in 1..Len(q[p]) /\ r[p][j] = q[p][j]
      BY <1>5, <1>6, <2>2
    <3>2. \A a, b \in 1..Len(q[p]) : q[p][a] = q[p][b] => a = b
      BY DEF Holds
    <3> QED BY <3>1, <3>2, <1>6, Zenon
  <2> QED BY <2>1, <2>2
<1>7. ASSUME NEW t \in S \cup {x}
      PROVE  \E i \in 1..Len(r[priority[t]]) : r[priority[t]][i] = t
  <2>1. CASE t = x
    <3>1. Len(q[px]) + 1 \in 1..Len(r[px])
      BY <1>4
    <3> QED BY <2>1, <3>1, <1>4 DEF px
  <2>2. CASE t # x
    <3>1. PICK i \in 1..Len(q[priority[t]]) : q[priority[t]][i] = t
      BY <2>2 DEF Holds
    <3>2. i \in 1..Len(r[priority[t]]) /\ r[priority[t]][i] = t
      BY <3>1, <2>2, <1>4, <1>2, SMTT(30)
    <3> QED BY <3>2
  <2> QED BY <2>1, <2>2
<1> QED BY <1>1, <1>3, <1>5, <1>6, <1>7, Zenon DEF Holds, r

(* Unlinking the i-th thread of level p removes that thread and no other. *)
LEMMA UnlinkHolds ==
  ASSUME NEW q, NEW S \in SUBSET Thread, NEW pr, Holds(q, S, pr),
         \A t \in S : pr[t] \in Level,
         NEW p \in Level, NEW i \in 1..Len(q[p])
  PROVE  /\ q[p][i] \in S
         /\ Holds([q EXCEPT ![p] = Unlink(q[p], i)], S \ {q[p][i]}, pr)
<1> DEFINE r == [q EXCEPT ![p] = Unlink(q[p], i)]
           x == q[p][i]
<1>1. q \in [Level -> Seq(Thread)] /\ q[p] \in Seq(Thread) /\ Len(q[p]) \in Nat
  BY DEF Holds
<1>2. x \in S /\ pr[x] = p
  BY DEF Holds
<1>3. /\ r \in [Level -> Seq(Thread)]
      /\ \A l \in Level : l # p => r[l] = q[l]
      /\ Len(r[p]) = Len(q[p]) - 1
      /\ \A j \in 1..(Len(q[p]) - 1) : r[p][j] = IF j < i THEN q[p][j] ELSE q[p][j + 1]
  BY <1>1, UnlinkFacts
<1> DEFINE back(l, j) == IF l = p /\ j >= i THEN j + 1 ELSE j
<1>4. ASSUME NEW l \in Level, NEW j \in 1..Len(r[l])
      PROVE  /\ back(l, j) \in 1..Len(q[l])
             /\ r[l][j] = q[l][back(l, j)]
             /\ l = p => back(l, j) # i
  BY <1>1, <1>3, SMTT(30)
<1> HIDE DEF r, x
<1>5. ASSUME NEW l \in Level, NEW j \in 1..Len(r[l])
      PROVE  r[l][j] \in S \ {x} /\ pr[r[l][j]] = l
  <2>1. r[l][j] \in S /\ pr[r[l][j]] = l
    <3>1. back(l, j) \in 1..Len(q[l]) /\ r[l][j] = q[l][back(l, j)]
      BY <1>4
    <3> HIDE DEF back
    <3> QED BY <3>1 DEF Holds
  <2>2. ASSUME r[l][j] = x PROVE FALSE
    <3>1. l = p
      BY <2>1, <2>2, <1>2
    <3>2. q[p][back(l, j)] = q[p][i]
      BY <1>4, <2>2, <3>1 DEF x
    <3>3. back(l, j) \in 1..Len(q[p]) /\ back(l, j) # i
      BY <1>4, <3>1
    <3> HIDE DEF back
    <3> QED BY <3>2, <3>3 DEF Holds
  <2> QED BY <2>1, <2>2
<1>6. ASSUME NEW l \in Level, NEW j \in 1..Len(r[l]), NEW k \in 1..Len(r[l]), r[l][j] = r[l][k]
      PROVE  j = k
  <2>1. back(l, j) \in 1..Len(q[l]) /\ back(l, k) \in 1..Len(q[l])
    BY <1>4
  <2>2. q[l][back(l, j)] = q[l][back(l, k)]
    BY <1>4, <1>6
  <2>3. back(l, j) = back(l, k)
    <3> HIDE DEF back
    <3> QED BY <2>1, <2>2 DEF Holds
  <2> QED BY <2>3
<1>7. ASSUME NEW t \in S \ {x}
      PROVE  \E j \in 1..Len(r[pr[t]]) : r[pr[t]][j] = t
  <2>1. PICK j \in 1..Len(q[pr[t]]) : q[pr[t]][j] = t
    BY DEF Holds
  <2>2. CASE pr[t] # p
    BY <2>1, <2>2, <1>3
  <2>3. CASE pr[t] = p
    <3>1. j # i
      BY <2>1, <2>3 DEF x
    <3>2. CASE j < i
      <4>1. j \in 1..Len(r[p]) /\ r[p][j] = t
        BY <2>1, <2>3, <3>2, <1>1, <1>3
      <4> QED BY <4>1, <2>3
    <3>3. CASE j > i
      <4>1. j - 1 \in 1..Len(r[p]) /\ r[p][j - 1] = t
        BY <2>1, <2>3, <3>3, <1>1, <1>3
      <4> QED BY <4>1, <2>3
    <3> QED BY <3>1, <3>2, <3>3
  <2> QED BY <2>2, <2>3
<1> QED BY <1>2, <1>3, <1>5, <1>6, <1>7 DEF Holds, r, x

-----------------------------------------------------------------------------
(* The threads that wait for the CPU. *)
WaitSet == {t \in started : state[t] = "READY"}

(* QueueInv in terms of Holds. *)
LEMMA QueueInvHolds ==
  TypeOK => (QueueInv <=> Holds(kReadyQueues, WaitSet, priority) /\ OneRunning /\ StartedKnown)
<1> SUFFICES ASSUME TypeOK
             PROVE  QueueInv <=> Holds(kReadyQueues, WaitSet, priority) /\ OneRunning /\ StartedKnown
  OBVIOUS
<1>1. \A p \in Level : kReadyQueues[p] \in Seq(Thread) /\ DOMAIN kReadyQueues[p] = 1..Len(kReadyQueues[p])
  BY DEF TypeOK
<1>2. ASSUME QueueInv
      PROVE  Holds(kReadyQueues, WaitSet, priority)
  <2>1. \A p \in Level : \A i \in 1..Len(kReadyQueues[p]) :
          kReadyQueues[p][i] \in WaitSet /\ priority[kReadyQueues[p][i]] = p
    BY <1>1, <1>2 DEF QueueInv, QueuedWait, WaitSet
  <2>2. \A p \in Level : \A i, j \in 1..Len(kReadyQueues[p]) :
          kReadyQueues[p][i] = kReadyQueues[p][j] => i = j
    BY <1>1, <1>2 DEF QueueInv, QueuedOnce
  <2>3. ASSUME NEW t \in WaitSet
        PROVE  \E i \in 1..Len(kReadyQueues[priority[t]]) : kReadyQueues[priority[t]][i] = t
    <3>1. priority[t] \in Level
      BY <1>2 DEF QueueInv, StartedKnown, WaitSet
    <3> QED BY <1>1, <1>2, <3>1 DEF QueueInv, NoneLost, WaitSet
  <2> QED BY <2>1, <2>2, <2>3 DEF Holds, TypeOK
<1>3. ASSUME Holds(kReadyQueues, WaitSet, priority), OneRunning, StartedKnown
      PROVE  QueueInv
  <2>1. QueuedWait
    BY <1>1, <1>3 DEF QueuedWait, Holds, WaitSet, OneRunning
  <2>2. QueuedOnce
    <3>1. \A p \in Level : \A i, j \in 1..Len(kReadyQueues[p]) :
            kReadyQueues[p][i] = kReadyQueues[p][j] => i = j
      BY <1>3 DEF Holds
    <3> QED BY <1>1, <3>1 DEF QueuedOnce
  <2>3. NoneLost
    <3> SUFFICES ASSUME NEW t \in started, state[t] = "READY"
                 PROVE  \E i \in DOMAIN kReadyQueues[priority[t]] : kReadyQueues[priority[t]][i] = t
      BY DEF NoneLost
    <3>1. priority[t] \in Level /\ t \in WaitSet
      BY <1>3 DEF StartedKnown, WaitSet
    <3> QED BY <1>1, <1>3, <3>1 DEF Holds
  <2> QED BY <1>3, <2>1, <2>2, <2>3 DEF QueueInv
<1>4. QueueInv => OneRunning /\ StartedKnown
  BY DEF QueueInv
<1> QED BY <1>2, <1>3, <1>4

(* Requeuing the current thread in schedule(): the queues then hold every  *)
(* started thread that has not exited.                                     *)
LEMMA RequeuedHolds ==
  ASSUME TypeOK, QueueInv
  PROVE  /\ Holds(Requeued.q, {t \in started : state[t] # "DEAD"}, priority)
         /\ Requeued.total \in Int
<1> DEFINE alive == {t \in started : state[t] # "DEAD"}
<1>1. Holds(kReadyQueues, WaitSet, priority) /\ OneRunning /\ StartedKnown
  BY QueueInvHolds
<1>2. \A t \in started : t \in Thread /\ state[t] \in {"READY", "RUNNING", "DEAD"}
  BY DEF TypeOK, ThreadState
<1>3. CASE state[kCurrentThread] = "RUNNING"
  <2>1. alive = WaitSet \cup {kCurrentThread}
    BY <1>1, <1>2, <1>3 DEF WaitSet, OneRunning
  <2>2. kCurrentThread \in Thread \ WaitSet /\ priority[kCurrentThread] \in Level
    BY <1>1, <1>3 DEF WaitSet, OneRunning, StartedKnown, TypeOK
  <2>3. WaitSet \in SUBSET Thread /\ \A t \in WaitSet : priority[t] \in Level
    BY <1>1, <1>2 DEF WaitSet, StartedKnown
  <2>4. priority \in [Thread -> Nat] /\ kTotalReady \in Int
    BY DEF TypeOK
  <2> HIDE DEF alive
  <2>5. Requeued = queue_push_back(kReadyQueues, kTotalReady, kCurrentThread)
    BY <1>3 DEF Requeued
  <2>6. /\ Holds(Requeued.q, WaitSet \cup {kCurrentThread}, priority)
        /\ Requeued.total = kTotalReady + 1
    BY <1>1, <2>2, <2>3, <2>4, <2>5, PushHolds
  <2>7. Requeued.total \in Int
    BY <2>4, <2>6
  <2> QED BY <2>1, <2>6, <2>7, Zenon DEF alive
<1>4. CASE state[kCurrentThread] # "RUNNING"
  <2>1. alive = WaitSet
    BY <1>1, <1>2, <1>4 DEF WaitSet, OneRunning
  <2>2. Requeued.q = kReadyQueues /\ Requeued.total = kTotalReady
    BY <1>4 DEF Requeued
  <2> QED BY <1>1, <2>1, <2>2, Zenon DEF TypeOK
<1> QED BY <1>3, <1>4

(* The same after a step. *)
LEMMA QueueInvHoldsNext ==
  (TypeOK => (QueueInv <=> Holds(kReadyQueues, WaitSet, priority) /\ OneRunning /\ StartedKnown))'
BY QueueInvHolds, PTL

-----------------------------------------------------------------------------
(* The tail of schedule(), for a thread taken out of the queues.           *)
LEMMA DispatchTyped ==
  ASSUME TypeOK, NEW next \in Thread, NEW q \in [Level -> Seq(Thread)], NEW n \in Int,
         NEW ticking \in {0, TICK_INTERVAL_MS, FIFO_QUANTUM_MS},
         Dispatch(next, q, n, ticking), UNCHANGED <<tcbs, kSchedulingEnabled, panicked>>
  PROVE  TypeOK'
<1>1. state' \in [Thread -> ThreadState]
  <2>1. \A t \in Thread : state[t] \in ThreadState
    BY DEF TypeOK
  <2>2. "RUNNING" \in ThreadState /\ "READY" \in ThreadState
    BY DEF ThreadState
  <2> QED BY <2>1, <2>2 DEF Dispatch
<1>2. /\ kCurrentThread' \in Thread /\ rsp0' \in Thread
      /\ switchedTo' \in [Thread -> Thread \cup {Fresh}]
      /\ intr' \in BOOLEAN /\ timer' \in {0, TICK_INTERVAL_MS, FIFO_QUANTUM_MS}
  BY Zenon DEF TypeOK, Dispatch, SwitchTo, Resume
<1>3. kReadyQueues' = q /\ kTotalReady' = n
  BY DEF Dispatch
<1> QED BY <1>1, <1>2, <1>3 DEF TypeOK, tcbs

(* A position is a level and an index into the queue of that level. *)
LEMMA PositionFacts ==
  ASSUME NEW q \in [Level -> Seq(Thread)]
  PROVE  \A c : c \in Positions(q) <=> \E p \in Level : \E i \in 1..Len(q[p]) : c = <<p, i>>
<1>1. \A p \in Level : DOMAIN q[p] = 1..Len(q[p])
  OBVIOUS
<1> QED BY <1>1 DEF Positions

(* Once scheduling is enabled, schedule() finds a thread: at least the     *)
(* idle thread is in the queues.                                           *)
LEMMA ScheduleOutcome ==
  ASSUME TypeOK, QueueInv, kSchedulingEnabled, NEW ticking, schedule(ticking)
  PROVE  \E p \in Level : \E i \in 1..Len(Requeued.q[p]) :
           /\ Selected(Requeued.q, <<p, i>>)
           /\ Dispatch(Requeued.q[p][i], [Requeued.q EXCEPT ![p] = Unlink(Requeued.q[p], i)],
                       Requeued.total - 1, ticking)
<1> DEFINE alive == {t \in started : state[t] # "DEAD"}
           r == Requeued
<1>1. Holds(r.q, alive, priority) /\ OneRunning /\ StartedKnown
  BY RequeuedHolds DEF QueueInv
<1>2. r.q \in [Level -> Seq(Thread)]
  BY <1>1 DEF Holds
<1>3. Positions(r.q) # {}
  <2>1. Idle \in alive /\ priority[Idle] \in Level
    BY <1>1 DEF OneRunning, StartedKnown
  <2>2. PICK i \in 1..Len(r.q[priority[Idle]]) : TRUE
    BY <1>1, <2>1 DEF Holds
  <2>3. <<priority[Idle], i>> \in Positions(r.q)
    BY <1>2, <2>1, <2>2, PositionFacts
  <2> QED BY <2>3
<1>4. PICK c \in Positions(r.q) :
        /\ Selected(r.q, c)
        /\ Dispatch(At(r.q, c), [r.q EXCEPT ![c[1]] = Unlink(r.q[c[1]], c[2])], r.total - 1, ticking)
  BY <1>3 DEF schedule
<1>5. PICK p \in Level : \E i \in 1..Len(r.q[p]) : c = <<p, i>>
  BY <1>2, <1>4, PositionFacts
<1> PICK i \in 1..Len(r.q[p]) : c = <<p, i>>
  BY <1>5
<1>6. c[1] = p /\ c[2] = i /\ At(r.q, c) = r.q[p][i]
  BY DEF At
<1> HIDE DEF r
<1> QED BY <1>4, <1>5, <1>6 DEF r

(* schedule() keeps both invariants: what it requeues and what it takes    *)
(* out leave each runnable thread in exactly one place.                    *)
LEMMA ScheduleStep ==
  ASSUME TypeOK, QueueInv, NEW ticking \in {0, TICK_INTERVAL_MS, FIFO_QUANTUM_MS},
         schedule(ticking)
  PROVE  TypeOK' /\ QueueInv'
<1> DEFINE alive == {t \in started : state[t] # "DEAD"}
           r == Requeued
<1>1. CASE ~kSchedulingEnabled
  <2>1. /\ UNCHANGED <<tcbs, kSchedulingEnabled, panicked>>
        /\ UNCHANGED <<state, kReadyQueues, kTotalReady, kCurrentThread, rsp0, switchedTo>>
        /\ intr' = TRUE /\ timer' = ticking
    BY <1>1 DEF schedule
  <2>2. TypeOK'
    BY <2>1 DEF TypeOK, tcbs
  <2>3. QueueInv'
    BY <2>1 DEF QueueInv, QueuedWait, QueuedOnce, NoneLost, OneRunning, StartedKnown, tcbs
  <2> QED BY <2>2, <2>3
<1>2. CASE kSchedulingEnabled
  <2>1. /\ Holds(r.q, alive, priority) /\ r.total \in Int
        /\ OneRunning /\ StartedKnown
    BY RequeuedHolds DEF QueueInv
  <2>2. UNCHANGED <<tcbs, kSchedulingEnabled, panicked>>
    BY DEF schedule
  <2>3. alive \in SUBSET Thread /\ \A t \in alive : priority[t] \in Level
    BY <2>1 DEF TypeOK, StartedKnown
  <2>4. r.q \in [Level -> Seq(Thread)]
    BY <2>1 DEF Holds
  <2>5. PICK p \in Level : \E i \in 1..Len(r.q[p]) :
          Dispatch(r.q[p][i], [r.q EXCEPT ![p] = Unlink(r.q[p], i)], r.total - 1, ticking)
    BY <1>2, ScheduleOutcome, Zenon
  <2>6. PICK i \in 1..Len(r.q[p]) :
          Dispatch(r.q[p][i], [r.q EXCEPT ![p] = Unlink(r.q[p], i)], r.total - 1, ticking)
    BY <2>5
  <2> DEFINE next == r.q[p][i]
             q == [r.q EXCEPT ![p] = Unlink(r.q[p], i)]
  <2>8. Dispatch(next, q, r.total - 1, ticking)
    BY <2>6
  <2>9. next \in alive /\ Holds(q, alive \ {next}, priority)
    BY <2>1, <2>3, UnlinkHolds, Zenon
  <2> HIDE DEF r, next, q
  <2>10. q \in [Level -> Seq(Thread)] /\ next \in Thread /\ r.total - 1 \in Int
    BY <2>9, <2>1, <2>3 DEF Holds
  <2>11. TypeOK'
    BY <2>2, <2>8, <2>10, DispatchTyped
  <2>12. /\ kReadyQueues' = q /\ kCurrentThread' = next
         /\ state' = [t \in Thread |->
                        CASE t = next -> "RUNNING"
                          [] t # next /\ t = kCurrentThread /\ state[t] = "RUNNING" -> "READY"
                          [] OTHER -> state[t]]
    BY <2>8 DEF Dispatch, SwitchTo
  <2>13. /\ started' = started /\ priority' = priority /\ kNextTcbIndex' = kNextTcbIndex
    BY <2>2 DEF tcbs
  <2>14. \A t \in Thread : /\ t = next => state'[t] = "RUNNING"
                           /\ t # next /\ state[t] = "RUNNING" => state'[t] = "READY"
                           /\ t # next /\ state[t] # "RUNNING" => state'[t] = state[t]
    BY <2>1, <2>12 DEF OneRunning
  <2>15. started \subseteq Thread /\ \A t \in Thread : state[t] \in {"READY", "RUNNING", "DEAD"}
    BY DEF TypeOK, ThreadState
  <2>16. WaitSet' = alive \ {next}
    BY <2>13, <2>14, <2>15 DEF WaitSet
  <2>17. OneRunning'
    BY <2>1, <2>9, <2>12, <2>13, <2>14, <2>15, ConstantFacts DEF OneRunning
  <2>18. StartedKnown'
    BY <2>1, <2>9, <2>13, <2>14, <2>15 DEF StartedKnown
  <2>19. Holds(kReadyQueues, WaitSet, priority)'
    BY <2>9, <2>12, <2>13, <2>16 DEF Holds
  <2> QED BY <2>11, <2>17, <2>18, <2>19, QueueInvHoldsNext
<1> QED BY <1>1, <1>2

-----------------------------------------------------------------------------
(* A step that leaves the queues, the states and the set of started        *)
(* threads alone.                                                          *)
LEMMA QuietStep ==
  ASSUME QueueInv,
         UNCHANGED <<kNextTcbIndex, priority, started, state, kReadyQueues, kCurrentThread>>
  PROVE  QueueInv'
BY DEF QueueInv, QueuedWait, QueuedOnce, NoneLost, OneRunning, StartedKnown

(* kthread_create writes only the TCB it takes from the pool, which the    *)
(* scheduler does not know yet.                                            *)
LEMMA CreateStep ==
  ASSUME TypeOK, QueueInv, NEW prio \in PrioInputs, NEW pol \in PolicyInputs,
         NEW dl \in Deadlines(pol), kthread_create(prio, pol, dl)
  PROVE  TypeOK' /\ QueueInv'
<1>1. prio \in Nat /\ pol \in Policy /\ dl \in 0..NoDeadline
  BY SchedulerAssumption DEF Policy, Deadlines
<1>2. TypeOK'
  <2>1. kNextTcbIndex' \in 1..MAX_THREADS
    BY SchedulerAssumption DEF TypeOK, kthread_create, alloc_tcb
  <2>2. /\ policy' \in [Thread -> Policy] /\ priority' \in [Thread -> Nat]
        /\ abs_deadline' \in [Thread -> 0..NoDeadline]
    BY <1>1, Zenon DEF TypeOK, kthread_create
  <2>3. UNCHANGED <<started, state, kReadyQueues, kTotalReady, kSchedulingEnabled,
                    kCurrentThread, cpu, panicked>>
    BY DEF kthread_create
  <2> QED BY <2>1, <2>2, <2>3 DEF TypeOK, cpu
<1>3. /\ UNCHANGED <<started, state, kReadyQueues, kCurrentThread>>
      /\ kNextTcbIndex' = kNextTcbIndex + 1
      /\ \A t \in Thread : t # kNextTcbIndex => priority'[t] = priority[t]
  BY DEF kthread_create, alloc_tcb, TypeOK
<1>4. \A t \in started : t \in Thread /\ priority'[t] = priority[t]
  BY <1>3 DEF QueueInv, StartedKnown, TypeOK, Thread
<1>5. QueuedWait' /\ QueuedOnce' /\ OneRunning'
  BY <1>3, <1>4, SMTT(30) DEF QueueInv, QueuedWait, QueuedOnce, OneRunning
<1>6. NoneLost'
  BY <1>3, <1>4 DEF QueueInv, NoneLost
<1>7. StartedKnown'
  BY <1>3, <1>4 DEF QueueInv, StartedKnown, TypeOK, Thread
<1> QED BY <1>2, <1>5, <1>6, <1>7 DEF QueueInv

(* enqueue_thread puts a new thread in the queue of its priority, or       *)
(* panics.                                                                 *)
LEMMA EnqueueStep ==
  ASSUME TypeOK, QueueInv, NEW t \in Thread, enqueue_thread(t)
  PROVE  TypeOK' /\ QueueInv'
<1>1. CASE priority[t] \notin Level
  <2>1. /\ UNCHANGED <<tcbs, state, kReadyQueues, kTotalReady, kSchedulingEnabled,
                       kCurrentThread, timer, rsp0, switchedTo>>
        /\ panicked' = TRUE /\ intr' = FALSE
    BY <1>1 DEF enqueue_thread, tcbs
  <2>2. TypeOK'
    BY <2>1, Zenon DEF TypeOK, tcbs
  <2> QED BY <2>1, <2>2, QuietStep DEF tcbs
<1>2. CASE priority[t] \in Level
  <2> DEFINE r == queue_push_back(kReadyQueues, kTotalReady, t)
  <2>1. /\ kReadyQueues' = r.q /\ kTotalReady' = r.total /\ started' = started \cup {t}
        /\ t < kNextTcbIndex /\ t \notin started
        /\ UNCHANGED <<panicked, intr, kNextTcbIndex, policy, priority, abs_deadline, state,
                       kSchedulingEnabled, kCurrentThread, timer, rsp0, switchedTo>>
    BY <1>2 DEF enqueue_thread
  <2>2. Holds(kReadyQueues, WaitSet, priority) /\ OneRunning /\ StartedKnown
    BY QueueInvHolds
  <2>3. /\ WaitSet \in SUBSET Thread /\ t \in Thread \ WaitSet
        /\ priority \in [Thread -> Nat] /\ kTotalReady \in Int
        /\ \A u \in WaitSet : priority[u] \in Level
    BY <2>1, <2>2 DEF TypeOK, WaitSet, StartedKnown
  <2> HIDE DEF r
  <2>4. Holds(r.q, WaitSet \cup {t}, priority) /\ r.total \in Int
    <3>1. Holds(r.q, WaitSet \cup {t}, priority) /\ r.total = kTotalReady + 1
      BY <1>2, <2>2, <2>3, PushHolds DEF r
    <3> QED BY <3>1, <2>3
  <2>5. TypeOK'
    BY <2>1, <2>4 DEF TypeOK, Holds
  <2>6. WaitSet' = WaitSet \cup {t}
    BY <2>1, <2>2 DEF WaitSet, StartedKnown
  <2>7. Holds(kReadyQueues, WaitSet, priority)'
    BY <2>1, <2>4, <2>6 DEF Holds
  <2>8. OneRunning' /\ StartedKnown'
    BY <1>2, <2>1, <2>2 DEF OneRunning, StartedKnown
  <2> QED BY <2>5, <2>7, <2>8, QueueInvHoldsNext
<1> QED BY <1>1, <1>2

(* thread_exit: the current thread is in no queue, so its death leaves     *)
(* them alone.                                                             *)
LEMMA ExitStep ==
  ASSUME TypeOK, QueueInv, NEW masked \in BOOLEAN, thread_exit(masked)
  PROVE  TypeOK' /\ QueueInv'
<1>1. /\ UNCHANGED <<tcbs, kReadyQueues, kTotalReady, kSchedulingEnabled, kCurrentThread, timer,
                     rsp0, switchedTo, panicked>>
      /\ state' = [state EXCEPT ![kCurrentThread] = "DEAD"]
      /\ intr' = (intr /\ ~masked)
      /\ kCurrentThread # Idle /\ state[kCurrentThread] = "RUNNING"
  BY DEF thread_exit, Running
<1>2. TypeOK'
  <2>1. intr' \in BOOLEAN
    BY <1>1
  <2>2. state' \in [Thread -> ThreadState]
    BY <1>1 DEF TypeOK, ThreadState
  <2> QED BY <1>1, <2>1, <2>2 DEF TypeOK, tcbs
<1>3. \A t \in Thread : state'[t] = IF t = kCurrentThread THEN "DEAD" ELSE state[t]
  BY <1>1 DEF TypeOK
<1>4. UNCHANGED <<started, priority, kNextTcbIndex, kReadyQueues, kCurrentThread>>
  BY <1>1 DEF tcbs
<1>5. \A t \in started : t \in Thread
  BY DEF TypeOK
<1>6. QueuedWait' /\ QueuedOnce' /\ NoneLost'
  BY <1>3, <1>4, <1>5 DEF QueueInv, QueuedWait, QueuedOnce, NoneLost
<1>7. OneRunning'
  BY <1>1, <1>3, <1>4, <1>5, ConstantFacts DEF QueueInv, OneRunning, TypeOK
<1>8. StartedKnown'
  BY <1>3, <1>4, <1>5 DEF QueueInv, StartedKnown, OneRunning
<1> QED BY <1>2, <1>6, <1>7, <1>8 DEF QueueInv

(* Every step keeps the types and the queues consistent. *)
LEMMA InvStep ==
  ASSUME TypeOK, QueueInv, [Next]_vars
  PROVE  TypeOK' /\ QueueInv'
<1>1. ASSUME NEW prio \in PrioInputs, NEW pol \in PolicyInputs, NEW dl \in Deadlines(pol),
             kthread_create(prio, pol, dl)
      PROVE  TypeOK' /\ QueueInv'
  BY <1>1, CreateStep
<1>2. CASE kthread_create_NoStack
  <2>1. /\ UNCHANGED <<policy, priority, abs_deadline, started, state, kReadyQueues, kTotalReady,
                       kSchedulingEnabled, kCurrentThread, timer, rsp0, switchedTo>>
        /\ kNextTcbIndex < MAX_THREADS /\ kNextTcbIndex' = kNextTcbIndex + 1
        /\ panicked' = TRUE /\ intr' = FALSE
    BY <1>2 DEF kthread_create_NoStack, alloc_tcb
  <2>2. TypeOK'
    <3>1. kNextTcbIndex' \in 1..MAX_THREADS
      BY <2>1, SchedulerAssumption DEF TypeOK
    <3> QED BY <2>1, <3>1, Zenon DEF TypeOK
  <2>3. QueuedWait' /\ QueuedOnce' /\ NoneLost' /\ OneRunning'
    BY <2>1, SMTT(30) DEF QueueInv, QueuedWait, QueuedOnce, NoneLost, OneRunning
  <2>4. StartedKnown'
    BY <2>1 DEF QueueInv, StartedKnown, TypeOK, Thread
  <2> QED BY <2>2, <2>3, <2>4 DEF QueueInv
<1>3. ASSUME NEW t \in Thread, enqueue_thread(t)
      PROVE  TypeOK' /\ QueueInv'
  BY <1>3, EnqueueStep
<1>4. CASE scheduler_start
  <2>1. TypeOK'
    BY <1>4 DEF scheduler_start, TypeOK, tcbs
  <2> QED BY <1>4, <2>1, QuietStep DEF scheduler_start, tcbs
<1>5. CASE yield
  BY <1>5, ScheduleStep, Zenon DEF yield, TypeOK
<1>6. CASE syscall_child_return
  <2>1. TypeOK'
    BY <1>6 DEF syscall_child_return, TypeOK, tcbs
  <2> QED BY <1>6, <2>1, QuietStep DEF syscall_child_return, tcbs
<1>7. CASE apic_timer_handler
  <2>1. CASE ShouldResched
    BY <1>7, <2>1, ScheduleStep DEF apic_timer_handler
  <2>2. CASE ~ShouldResched
    <3>1. TypeOK'
      BY <1>7, <2>2 DEF apic_timer_handler, TypeOK, tcbs
    <3> QED BY <1>7, <2>2, <3>1, QuietStep DEF apic_timer_handler, tcbs
  <2> QED BY <2>1, <2>2
<1>8. ASSUME NEW masked \in BOOLEAN, thread_exit(masked)
      PROVE  TypeOK' /\ QueueInv'
  BY <1>8, ExitStep
<1>9. CASE UNCHANGED vars
  <2>1. TypeOK'
    BY <1>9 DEF vars, TypeOK, tcbs, cpu
  <2> QED BY <1>9, <2>1, QuietStep DEF vars, tcbs
<1> QED BY <1>1, <1>2, <1>3, <1>4, <1>5, <1>6, <1>7, <1>8, <1>9 DEF Next

(* thread_init() leaves a state that satisfies both invariants. *)
LEMMA InvInit == Init => TypeOK /\ QueueInv
<1> SUFFICES ASSUME Init PROVE TypeOK /\ QueueInv
  OBVIOUS
<1>1. TypeOK
  <2>1. kNextTcbIndex \in 1..MAX_THREADS
    BY SchedulerAssumption DEF Init
  <2>2. state \in [Thread -> ThreadState] /\ policy \in [Thread -> Policy]
    BY DEF Init, ThreadState, Policy
  <2>3. priority \in [Thread -> Nat] /\ abs_deadline \in [Thread -> 0..NoDeadline]
    BY SchedulerAssumption DEF Init
  <2>4. kReadyQueues \in [Level -> Seq(Thread)]
    <3>1. <<>> \in Seq(Thread)
      OBVIOUS
    <3> QED BY <3>1 DEF Init
  <2>5. switchedTo \in [Thread -> Thread \cup {Fresh}]
    BY DEF Init
  <2>6. /\ kTotalReady \in Int /\ timer \in {0, TICK_INTERVAL_MS, FIFO_QUANTUM_MS}
        /\ kCurrentThread \in Thread /\ rsp0 \in Thread /\ started \subseteq Thread
    BY ConstantFacts DEF Init
  <2>7. kSchedulingEnabled \in BOOLEAN /\ intr \in BOOLEAN /\ panicked \in BOOLEAN
    BY Zenon DEF Init
  <2> QED BY <2>1, <2>2, <2>3, <2>4, <2>5, <2>6, <2>7 DEF TypeOK
<1>2. QueuedWait /\ QueuedOnce
  BY DEF Init, QueuedWait, QueuedOnce
<1>3. NoneLost /\ OneRunning /\ StartedKnown
  <2>1. NoneLost
    <3>1. started = {Idle} /\ state[Idle] = "RUNNING"
      BY ConstantFacts DEF Init
    <3> QED BY <3>1 DEF NoneLost
  <2>2. OneRunning
    BY ConstantFacts DEF Init, OneRunning
  <2>3. StartedKnown
    BY ConstantFacts DEF Init, StartedKnown, Idle
  <2> QED BY <2>1, <2>2, <2>3
<1> QED BY <1>1, <1>2, <1>3 DEF QueueInv

(* For every pool size and number of levels, no interleaving of thread     *)
(* creation, ticks, yields and exits loses a thread, queues one twice or   *)
(* under a wrong priority, or queues the thread on the CPU; TCBs, queues   *)
(* and CPU state keep their types.                                         *)
THEOREM QueuesConsistent == Spec => []QueuesSound
BY InvInit, InvStep, PTL DEF Spec, QueuesSound

-----------------------------------------------------------------------------
(* The order of the threads *)

(* Deadlines and ranks are numbers, and levels have different ranks. *)
LEMMA UrgencyFacts ==
  ASSUME TypeOK, NEW t \in Thread, NEW u \in Thread
  PROVE  /\ DeadlineOf(t) \in 0..NoDeadline /\ RankOf(t) \in Nat
         /\ DeadlineOf(t) < NoDeadline <=> policy[t] = "DL" /\ abs_deadline[t] < NoDeadline
         /\ ScannedFirst(priority[t], priority[u]) => RankOf(t) <= RankOf(u)
         /\ ScannedFirst(priority[t], priority[u]) /\ priority[t] # priority[u] => RankOf(t) < RankOf(u)
         /\ priority[u] < RtLevels /\ priority[u] > priority[t] => RankOf(u) < RankOf(t)
<1>1. /\ abs_deadline[t] \in 0..NoDeadline /\ priority[t] \in Nat /\ priority[u] \in Nat
      /\ NoDeadline \in Nat /\ RtLevels \in Nat \ {0}
  BY SchedulerAssumption DEF TypeOK
<1> QED BY <1>1 DEF DeadlineOf, RankOf, ScannedFirst

(* The thread at a selected position beats or equals every queued thread. *)
LEMMA SelectedMostUrgent ==
  ASSUME TypeOK, NEW q, NEW S \in SUBSET Thread, Holds(q, S, priority),
         \A t \in S : priority[t] \in Level,
         NEW p \in Level, NEW i \in 1..Len(q[p]), Selected(q, <<p, i>>), NEW u \in S
  PROVE  ~MoreUrgent(u, q[p][i])
<1> DEFINE next == q[p][i]
           c == <<p, i>>
<1>1. PICK j \in 1..Len(q[priority[u]]) : q[priority[u]][j] = u
  BY DEF Holds
<1> DEFINE d == <<priority[u], j>>
<1>2. q \in [Level -> Seq(Thread)] /\ next \in S /\ priority[next] = p
  BY DEF Holds
<1>3. c \in Positions(q) /\ d \in Positions(q)
  BY <1>1, <1>2, PositionFacts
<1>4. At(q, c) = next /\ At(q, d) = u /\ c[1] = p /\ c[2] = i /\ d[1] = priority[u]
  BY <1>1 DEF At
<1>5. next \in Thread /\ u \in Thread
  BY <1>2
<1>6. /\ DeadlineOf(next) \in 0..NoDeadline /\ DeadlineOf(u) \in 0..NoDeadline /\ NoDeadline \in Nat
      /\ RankOf(next) \in Nat /\ RankOf(u) \in Nat
  BY <1>5, UrgencyFacts, SchedulerAssumption
<1> HIDE DEF next, c, d
<1>7. /\ HasDeadline(q, c) <=> DeadlineOf(next) < NoDeadline
      /\ HasDeadline(q, d) <=> DeadlineOf(u) < NoDeadline
  BY <1>4, <1>5, UrgencyFacts DEF HasDeadline
<1>8. CASE \E e \in Positions(q) : HasDeadline(q, e)
  <2>1. HasDeadline(q, c) /\ (HasDeadline(q, d) => Earlier(q, c, d))
    BY <1>3, <1>8 DEF Selected, c
  <2>2. HasDeadline(q, d) => abs_deadline[next] <= abs_deadline[u]
    <3>1. abs_deadline[next] \in Nat /\ abs_deadline[u] \in Nat
      BY <1>5, SchedulerAssumption DEF TypeOK
    <3> QED BY <2>1, <3>1, <1>4 DEF Earlier
  <2>3. HasDeadline(q, d) => DeadlineOf(next) <= DeadlineOf(u)
    BY <2>1, <2>2, <1>4 DEF HasDeadline, DeadlineOf
  <2> QED BY <2>1, <2>3, <1>6, <1>7 DEF MoreUrgent, next
<1>9. CASE ~\E e \in Positions(q) : HasDeadline(q, e)
  <2>1. DeadlineOf(next) = NoDeadline /\ DeadlineOf(u) = NoDeadline
    BY <1>3, <1>6, <1>7, <1>9
  <2>2. ScannedFirst(priority[next], priority[u])
    BY <1>2, <1>3, <1>4, <1>9 DEF Selected, c
  <2>3. RankOf(next) <= RankOf(u)
    BY <2>2, <1>5, UrgencyFacts
  <2> QED BY <2>1, <2>3, <1>6 DEF MoreUrgent, next
<1> QED BY <1>8, <1>9

(* The threads that schedule() chooses from. *)
Alive == {t \in started : state[t] # "DEAD"}

(* What a call of schedule() does to the CPU: the thread it leaves there   *)
(* is the most urgent one alive.                                           *)
LEMMA ScheduleUrgent ==
  ASSUME TypeOK, QueueInv, kSchedulingEnabled, NEW ticking, schedule(ticking)
  PROVE  /\ kCurrentThread' \in Alive /\ Alive \subseteq Thread
         /\ \A u \in Alive : ~MoreUrgent(u, kCurrentThread')
         /\ \A u \in started : Waiting(u)' => u \in Alive
         /\ kCurrentThread' = kCurrentThread => intr' = TRUE /\ timer' = ticking /\ UNCHANGED <<rsp0, switchedTo>>
         /\ kCurrentThread' # kCurrentThread => SwitchTo(kCurrentThread', ticking)
         /\ UNCHANGED <<tcbs, kSchedulingEnabled>>
<1> DEFINE r == Requeued
<1>1. Holds(r.q, Alive, priority) /\ StartedKnown
  BY RequeuedHolds DEF QueueInv, Alive
<1>2. Alive \in SUBSET Thread /\ \A t \in Alive : priority[t] \in Level
  BY <1>1 DEF TypeOK, StartedKnown, Alive
<1>3. PICK p \in Level : \E i \in 1..Len(r.q[p]) :
        /\ Selected(r.q, <<p, i>>)
        /\ Dispatch(r.q[p][i], [r.q EXCEPT ![p] = Unlink(r.q[p], i)], r.total - 1, ticking)
  BY ScheduleOutcome, Zenon
<1>4. PICK i \in 1..Len(r.q[p]) :
        /\ Selected(r.q, <<p, i>>)
        /\ Dispatch(r.q[p][i], [r.q EXCEPT ![p] = Unlink(r.q[p], i)], r.total - 1, ticking)
  BY <1>3
<1> DEFINE next == r.q[p][i]
<1>5. next \in Alive
  BY <1>1 DEF Holds
<1>6. \A u \in Alive : ~MoreUrgent(u, next)
  BY <1>1, <1>2, <1>4, SelectedMostUrgent
<1> HIDE DEF r, next
<1>7. /\ kCurrentThread' = next
      /\ next = kCurrentThread => intr' = TRUE /\ timer' = ticking /\ UNCHANGED <<rsp0, switchedTo>>
      /\ next # kCurrentThread => SwitchTo(next, ticking)
      /\ \A t \in Thread : state'[t] = "READY" => state[t] # "DEAD"
  BY <1>4 DEF Dispatch, SwitchTo, next
<1>8. UNCHANGED <<tcbs, kSchedulingEnabled>>
  BY DEF schedule
<1>9. ASSUME NEW u \in started, Waiting(u)' PROVE u \in Alive
  BY <1>7, <1>9 DEF Waiting, Alive, TypeOK
<1> QED BY <1>2, <1>5, <1>6, <1>7, <1>8, <1>9, Zenon

(* Where a tick reschedules a FIFO thread, somebody more urgent waits. *)
LEMMA HigherIsMoreUrgent ==
  ASSUME TypeOK, QueueInv, policy[kCurrentThread] = "FIFO", ShouldResched
  PROVE  \E u \in Alive : Waiting(u) /\ MoreUrgent(u, kCurrentThread)
<1>1. PICK p \in Level : p < RtLevels /\ p > priority[kCurrentThread] /\ kReadyQueues[p] # <<>>
  BY DEF ShouldResched
<1>2. kReadyQueues[p] \in Seq(Thread) /\ DOMAIN kReadyQueues[p] = 1..Len(kReadyQueues[p])
  BY DEF TypeOK
<1>3. 1 \in DOMAIN kReadyQueues[p]
  BY <1>1, <1>2
<1> DEFINE u == kReadyQueues[p][1]
<1>4. u \in started /\ priority[u] = p /\ state[u] = "READY"
  BY <1>3 DEF QueueInv, QueuedWait
<1>5. u \in Thread /\ kCurrentThread \in Thread
  BY <1>4 DEF TypeOK
<1> HIDE DEF u
<1>6. RankOf(u) < RankOf(kCurrentThread) /\ DeadlineOf(u) \in 0..NoDeadline
  BY <1>1, <1>4, <1>5, UrgencyFacts
<1>7. DeadlineOf(kCurrentThread) = NoDeadline /\ NoDeadline \in Nat
  BY SchedulerAssumption DEF DeadlineOf
<1>8. MoreUrgent(u, kCurrentThread)
  BY <1>6, <1>7 DEF MoreUrgent
<1> QED BY <1>4, <1>8 DEF Alive, Waiting

(* An RR thread that schedule() keeps is alone on its level and strictly   *)
(* more urgent than every thread that waits: it was requeued behind them.  *)
LEMMA RepickedIsStrict ==
  ASSUME TypeOK, QueueInv, kSchedulingEnabled, NEW ticking, schedule(ticking),
         kCurrentThread' = kCurrentThread, policy[kCurrentThread] = "RR",
         NEW u \in started, Waiting(u)
  PROVE  MoreUrgent(kCurrentThread, u)
<1> DEFINE r == Requeued
           t == kCurrentThread
           n == Len(kReadyQueues[priority[t]]) + 1
<1>1. Holds(r.q, Alive, priority) /\ StartedKnown /\ OneRunning
  BY RequeuedHolds DEF QueueInv, Alive
<1>2. PICK p \in Level : \E i \in 1..Len(r.q[p]) : Selected(r.q, <<p, i>>) /\ r.q[p][i] = t
  <2>1. PICK p \in Level : \E i \in 1..Len(r.q[p]) :
          /\ Selected(r.q, <<p, i>>)
          /\ Dispatch(r.q[p][i], [r.q EXCEPT ![p] = Unlink(r.q[p], i)], r.total - 1, ticking)
    BY ScheduleOutcome
  <2> HIDE DEF r
  <2> QED BY <2>1 DEF Dispatch, SwitchTo
<1>3. PICK i \in 1..Len(r.q[p]) : Selected(r.q, <<p, i>>) /\ r.q[p][i] = t
  BY <1>2
<1>4. t \in Alive /\ priority[t] = p
  BY <1>1, <1>3 DEF Holds
<1>5. state[t] = "RUNNING" /\ t \in Thread /\ u \in Thread
  BY <1>1, <1>4 DEF OneRunning, Alive, TypeOK
<1>6. r.q = [kReadyQueues EXCEPT ![p] = Append(kReadyQueues[p], t)]
  BY <1>4, <1>5 DEF Requeued, queue_push_back
<1>7. kReadyQueues \in [Level -> Seq(Thread)] /\ kReadyQueues[p] \in Seq(Thread)
  BY DEF TypeOK
<1>8. r.q[p] = Append(kReadyQueues[p], t) /\ Len(r.q[p]) = n /\ r.q[p][n] = t /\ n \in 1..Len(r.q[p])
  BY <1>4, <1>5, <1>6, <1>7, AppendFacts
<1> HIDE DEF r
<1>9. i = n
  BY <1>1, <1>3, <1>8, Zenon DEF Holds
<1>10. ~HasDeadline(r.q, <<p, i>>)
  BY <1>3 DEF HasDeadline, At
<1>11. i = 1 /\ ~\E e \in Positions(r.q) : HasDeadline(r.q, e)
  BY <1>3, <1>10 DEF Selected
<1>12. r.q \in [Level -> Seq(Thread)] /\ u \in Alive /\ priority[u] \in Level
  BY <1>1 DEF Holds, Alive, Waiting, StartedKnown
<1>13. PICK j \in 1..Len(r.q[priority[u]]) : r.q[priority[u]][j] = u
  BY <1>1, <1>12 DEF Holds
<1>14. <<priority[u], j>> \in Positions(r.q)
  BY <1>12, <1>13, PositionFacts
<1>15. priority[u] # p
  <2>1. SUFFICES ASSUME priority[u] = p PROVE FALSE
    OBVIOUS
  <2>2. Len(r.q[p]) = 1
    BY <1>8, <1>9, <1>11
  <2>3. j = 1
    BY <1>13, <2>1, <2>2
  <2>4. u = t
    BY <1>3, <1>11, <1>13, <2>1, <2>3
  <2> QED BY <2>4, <1>5 DEF Waiting
<1>16. ScannedFirst(p, priority[u])
  BY <1>3, <1>11, <1>14 DEF Selected
<1>17. ~(DeadlineOf(u) < NoDeadline)
  <2>1. ~HasDeadline(r.q, <<priority[u], j>>)
    BY <1>11, <1>14
  <2> QED BY <2>1, <1>5, <1>13, UrgencyFacts DEF HasDeadline, At
<1>18. RankOf(t) < RankOf(u) /\ DeadlineOf(u) \in 0..NoDeadline
  BY <1>4, <1>5, <1>15, <1>16, UrgencyFacts
<1>19. DeadlineOf(t) = NoDeadline /\ NoDeadline \in Nat
  BY SchedulerAssumption DEF DeadlineOf
<1> QED BY <1>17, <1>18, <1>19 DEF MoreUrgent

-----------------------------------------------------------------------------
(* What makes IdleCanWake inductive: the boot context stays a FIFO thread  *)
(* of level 0, has a schedule() call to return to whenever another thread  *)
(* runs, and is alone until scheduling begins, with the timer not armed.   *)
IdleFacts ==
  /\ policy[Idle] = "FIFO" /\ priority[Idle] = 0
  /\ kCurrentThread # Idle => kSchedulingEnabled /\ switchedTo[Idle] # Fresh
  /\ ~kSchedulingEnabled => timer = 0

OrderInv == TypeOK /\ QueueInv /\ IdleCanWake /\ IdleFacts

(* schedule() called with scheduling on, by yield or by the tick. *)
LEMMA OrderSchedule ==
  ASSUME OrderInv, kSchedulingEnabled, NEW ticking, schedule(ticking),
         kCurrentThread' = kCurrentThread => kCurrentThread # Idle
  PROVE  (IdleCanWake /\ IdleFacts)'
<1>1. TypeOK /\ QueueInv
  BY DEF OrderInv
<1>2. /\ kCurrentThread' \in Thread
      /\ kCurrentThread' = kCurrentThread => intr' = TRUE /\ timer' = ticking /\ UNCHANGED <<rsp0, switchedTo>>
      /\ kCurrentThread' # kCurrentThread => SwitchTo(kCurrentThread', ticking)
      /\ policy' = policy /\ priority' = priority /\ kSchedulingEnabled' = kSchedulingEnabled
  BY <1>1, ScheduleUrgent, Zenon DEF tcbs
<1>3. CASE kCurrentThread' = kCurrentThread
  BY <1>2, <1>3 DEF OrderInv, IdleCanWake, IdleFacts
<1>4. CASE kCurrentThread' # kCurrentThread
  <2>1. /\ switchedTo' = [switchedTo EXCEPT ![kCurrentThread] = kCurrentThread']
        /\ rsp0' = IF kCurrentThread' = Idle THEN rsp0 ELSE kCurrentThread'
        /\ Resume(kCurrentThread', ticking)
    BY <1>2, <1>4 DEF SwitchTo
  <2>2. /\ switchedTo \in [Thread -> Thread \cup {Fresh}] /\ kCurrentThread \in Thread
        /\ Idle \in Thread /\ Fresh \notin Thread
    BY <1>1, ConstantFacts DEF TypeOK
  <2>3. kCurrentThread' # Idle => switchedTo'[Idle] # Fresh
    BY <1>2, <2>1, <2>2 DEF OrderInv, IdleFacts
  <2>4. kCurrentThread' = Idle => timer' # 0 /\ intr'
    BY <1>4, <2>1 DEF OrderInv, IdleFacts, Resume, TICK_INTERVAL_MS, FIFO_QUANTUM_MS
  <2> QED BY <1>2, <2>1, <2>3, <2>4 DEF OrderInv, IdleCanWake, IdleFacts
<1> QED BY <1>3, <1>4

(* A tick that reschedules never keeps the idle thread. *)
LEMMA TickLeavesIdle ==
  ASSUME OrderInv, kSchedulingEnabled, kCurrentThread = Idle, ShouldResched, NEW ticking, schedule(ticking)
  PROVE  kCurrentThread' # Idle
<1>1. \E u \in Alive : MoreUrgent(u, Idle)
  BY HigherIsMoreUrgent DEF OrderInv, IdleFacts
<1>2. \A u \in Alive : ~MoreUrgent(u, kCurrentThread')
  BY ScheduleUrgent, Zenon DEF OrderInv
<1> QED BY <1>1, <1>2

(* A step that leaves alone what IdleCanWake and IdleFacts read. *)
LEMMA OrderQuiet ==
  ASSUME OrderInv, UNCHANGED <<policy, priority, kSchedulingEnabled, kCurrentThread, timer, rsp0, switchedTo>>,
         kCurrentThread = Idle /\ kSchedulingEnabled => intr' = intr
  PROVE  (IdleCanWake /\ IdleFacts)'
BY DEF OrderInv, IdleCanWake, IdleFacts

(* Every step keeps the invariant. *)
LEMMA OrderStep ==
  ASSUME OrderInv, [Next]_vars
  PROVE  OrderInv'
<1>1. TypeOK' /\ QueueInv'
  BY InvStep DEF OrderInv
<1> SUFFICES (IdleCanWake /\ IdleFacts)'
  BY <1>1 DEF OrderInv
<1>2. ASSUME NEW prio \in PrioInputs, NEW pol \in PolicyInputs, NEW dl \in Deadlines(pol),
             kthread_create(prio, pol, dl)
      PROVE  (IdleCanWake /\ IdleFacts)'
  <2>1. /\ policy' = [policy EXCEPT ![kNextTcbIndex] = pol] /\ priority' = [priority EXCEPT ![kNextTcbIndex] = prio]
        /\ UNCHANGED <<kSchedulingEnabled, kCurrentThread, timer, intr, rsp0, switchedTo>>
    BY <1>2 DEF kthread_create, cpu
  <2>2. kNextTcbIndex # Idle /\ Idle \in Thread
    BY ConstantFacts DEF OrderInv, TypeOK, Idle
  <2>3. policy'[Idle] = policy[Idle] /\ priority'[Idle] = priority[Idle]
    BY <2>1, <2>2 DEF OrderInv, TypeOK
  <2> QED BY <2>1, <2>3 DEF OrderInv, IdleCanWake, IdleFacts
<1>3. CASE kthread_create_NoStack
  BY <1>3, OrderQuiet DEF kthread_create_NoStack, CanCreate, Booting, Running
<1>4. ASSUME NEW t \in Thread, enqueue_thread(t)
      PROVE  (IdleCanWake /\ IdleFacts)'
  BY <1>4, OrderQuiet DEF enqueue_thread, CanCreate, Booting, Running
<1>5. CASE scheduler_start
  BY <1>5 DEF scheduler_start, Booting, OrderInv, IdleCanWake, IdleFacts, tcbs, TICK_INTERVAL_MS
<1>6. CASE yield
  <2>1. kCurrentThread # Idle /\ kSchedulingEnabled
    BY <1>6 DEF yield, Running, OrderInv, IdleFacts
  <2> QED BY <1>6, <2>1, OrderSchedule DEF yield
<1>7. CASE syscall_child_return
  BY <1>7, OrderQuiet, Zenon DEF syscall_child_return, Running, tcbs
<1>8. CASE apic_timer_handler
  <2>1. kSchedulingEnabled
    BY <1>8 DEF apic_timer_handler, OrderInv, IdleFacts
  <2>2. CASE ShouldResched
    BY <1>8, <2>1, <2>2, TickLeavesIdle, OrderSchedule DEF apic_timer_handler
  <2>3. CASE ~ShouldResched
    BY <1>8, <2>1, <2>3 DEF apic_timer_handler, OrderInv, IdleCanWake, IdleFacts, tcbs, TICK_INTERVAL_MS
  <2> QED BY <2>2, <2>3
<1>9. ASSUME NEW masked \in BOOLEAN, thread_exit(masked)
      PROVE  (IdleCanWake /\ IdleFacts)'
  BY <1>9, OrderQuiet DEF thread_exit, Running, tcbs
<1>10. CASE UNCHANGED vars
  BY <1>10, OrderQuiet DEF vars, tcbs, cpu
<1> QED BY <1>2, <1>3, <1>4, <1>5, <1>6, <1>7, <1>8, <1>9, <1>10 DEF Next

(* thread_init() leaves a state that satisfies it. *)
LEMMA OrderInit == Init => OrderInv
<1> SUFFICES ASSUME Init PROVE OrderInv
  OBVIOUS
<1>1. TypeOK /\ QueueInv
  BY InvInit
<1>2. IdleCanWake /\ IdleFacts
  BY ConstantFacts DEF Init, IdleCanWake, IdleFacts
<1> QED BY <1>1, <1>2 DEF OrderInv

-----------------------------------------------------------------------------
(* Only schedule(), with scheduling on, takes the CPU from a thread. *)
LEMMA OnlyScheduleSwitches ==
  ASSUME OrderInv, [Next]_vars, kCurrentThread' # kCurrentThread
  PROVE  kSchedulingEnabled /\ \E ticking : schedule(ticking)
<1>1. yield \/ apic_timer_handler
  BY DEF Next, vars, kthread_create, kthread_create_NoStack, enqueue_thread, scheduler_start,
         syscall_child_return, thread_exit
<1>2. CASE yield
  BY <1>2 DEF yield, Running, OrderInv, IdleFacts
<1>3. CASE apic_timer_handler
  BY <1>3, Zenon DEF apic_timer_handler, OrderInv, IdleFacts
<1> QED BY <1>1, <1>2, <1>3

(* What SwitchesToMostUrgent says of one step. *)
LEMMA UrgentStep ==
  ASSUME OrderInv, [Next]_vars, kCurrentThread' # kCurrentThread
  PROVE  /\ \A u \in started : Waiting(u)' => ~MoreUrgent(u, kCurrentThread')
         /\ apic_timer_handler /\ policy[kCurrentThread] = "FIFO"
              => MoreUrgent(kCurrentThread', kCurrentThread)
<1>1. PICK ticking : kSchedulingEnabled /\ schedule(ticking)
  BY OnlyScheduleSwitches
<1>2. /\ kCurrentThread' \in Alive /\ Alive \subseteq Thread
      /\ \A u \in Alive : ~MoreUrgent(u, kCurrentThread')
      /\ \A u \in started : Waiting(u)' => u \in Alive
  BY <1>1, ScheduleUrgent, Zenon DEF OrderInv
<1>3. ASSUME apic_timer_handler, policy[kCurrentThread] = "FIFO"
      PROVE  MoreUrgent(kCurrentThread', kCurrentThread)
  <2>1. ShouldResched
    BY <1>3, Zenon DEF apic_timer_handler
  <2>2. PICK u \in Alive : MoreUrgent(u, kCurrentThread)
    BY <1>3, <2>1, HigherIsMoreUrgent DEF OrderInv
  <2>3. ~MoreUrgent(u, kCurrentThread')
    BY <1>2
  <2>4. DeadlineOf(kCurrentThread) = NoDeadline /\ NoDeadline \in Nat
    BY <1>3, SchedulerAssumption DEF DeadlineOf
  <2>5. u \in Thread /\ kCurrentThread \in Thread /\ kCurrentThread' \in Thread
    BY <1>2 DEF OrderInv, TypeOK
  <2>6. /\ DeadlineOf(u) \in 0..NoDeadline /\ DeadlineOf(kCurrentThread') \in 0..NoDeadline
        /\ RankOf(u) \in Nat /\ RankOf(kCurrentThread') \in Nat /\ RankOf(kCurrentThread) \in Nat
    BY <2>5, UrgencyFacts DEF OrderInv
  <2> QED BY <2>2, <2>3, <2>4, <2>6 DEF MoreUrgent
<1> QED BY <1>2, <1>3

(* For every pool size, number of levels, and priorities, policies and     *)
(* deadlines of the threads, a context switch leaves no more urgent thread *)
(* waiting, and a tick takes the CPU from a FIFO thread only for a more    *)
(* urgent one.                                                             *)
THEOREM MostUrgentRuns == Spec => SwitchesToMostUrgent
<1>1. OrderInv /\ [Next]_vars =>
        [kCurrentThread' # kCurrentThread =>
           /\ \A u \in started : Waiting(u)' => ~MoreUrgent(u, kCurrentThread')
           /\ apic_timer_handler /\ policy[kCurrentThread] = "FIFO"
                => MoreUrgent(kCurrentThread', kCurrentThread)]_vars
  BY UrgentStep
<1> QED BY <1>1, OrderInit, OrderStep, PTL DEF Spec, SwitchesToMostUrgent

(* What TickLostOnlyWhenAlone says of a switch. *)
LEMMA SwitchKeepsTick ==
  ASSUME OrderInv, [Next]_vars, kCurrentThread' # kCurrentThread, timer' = 0 \/ ~intr'
  PROVE  switchedTo[kCurrentThread'] = Fresh
<1>1. PICK ticking : kSchedulingEnabled /\ schedule(ticking)
  BY OnlyScheduleSwitches
<1>2. SwitchTo(kCurrentThread', ticking)
  BY <1>1, ScheduleUrgent, Zenon DEF OrderInv
<1> QED BY <1>2 DEF SwitchTo, Resume, TICK_INTERVAL_MS, FIFO_QUANTUM_MS

(* What it says of a tick that keeps the current thread. *)
LEMMA KeptThreadIsAlone ==
  ASSUME OrderInv, [Next]_vars, kCurrentThread' = kCurrentThread, timer # 0, timer' = 0
  PROVE  /\ policy[kCurrentThread] # "FIFO"
         /\ \A u \in started : Waiting(u) =>
              /\ ~MoreUrgent(u, kCurrentThread)
              /\ policy[kCurrentThread] = "RR" => MoreUrgent(kCurrentThread, u)
<1>1. kSchedulingEnabled
  BY ZenonT(30) DEF OrderInv, IdleFacts
<1>2. yield \/ apic_timer_handler
  BY SMTT(30) DEF Next, vars, cpu, kthread_create, kthread_create_NoStack, enqueue_thread, scheduler_start,
         syscall_child_return, thread_exit, TICK_INTERVAL_MS
<1>3. ~yield
  <2>1. SUFFICES ASSUME yield PROVE FALSE
    OBVIOUS
  <2>2. timer' = timer
    BY <1>1, <2>1, ScheduleUrgent, Zenon DEF yield, OrderInv
  <2> QED BY <2>2
<1>4. ShouldResched /\ schedule(0)
  BY <1>2, <1>3 DEF apic_timer_handler, TICK_INTERVAL_MS
<1>5. \A u \in Alive : ~MoreUrgent(u, kCurrentThread)
  BY <1>1, <1>4, ScheduleUrgent, Zenon DEF OrderInv
<1>6. policy[kCurrentThread] # "FIFO"
  BY <1>4, <1>5, HigherIsMoreUrgent DEF OrderInv
<1>7. ASSUME NEW u \in started, Waiting(u)
      PROVE  /\ ~MoreUrgent(u, kCurrentThread)
             /\ policy[kCurrentThread] = "RR" => MoreUrgent(kCurrentThread, u)
  <2>1. u \in Alive
    BY <1>7 DEF Waiting, Alive
  <2> QED BY <1>1, <1>4, <1>5, <1>7, <2>1, RepickedIsStrict DEF OrderInv
<1> QED BY <1>6, <1>7

(* In every instance the CPU goes on without its tick only in the first    *)
(* turn of a thread, or when the thread that a tick keeps is not FIFO and  *)
(* comes before every thread that waits.                                   *)
THEOREM TickIsKept == Spec => TickLostOnlyWhenAlone
<1>1. OrderInv /\ [Next]_vars =>
        [/\ kCurrentThread' # kCurrentThread /\ (timer' = 0 \/ ~intr')
              => switchedTo[kCurrentThread'] = Fresh
         /\ kCurrentThread' = kCurrentThread /\ timer # 0 /\ timer' = 0
              => /\ policy[kCurrentThread] # "FIFO"
                 /\ \A u \in started : Waiting(u) =>
                      /\ ~MoreUrgent(u, kCurrentThread)
                      /\ policy[kCurrentThread] = "RR" => MoreUrgent(kCurrentThread, u)]_vars
  BY SwitchKeepsTick, KeptThreadIsAlone
<1> QED BY <1>1, OrderInit, OrderStep, PTL DEF Spec, TickLostOnlyWhenAlone

(* In every instance the idle loop can be left once scheduling has begun,  *)
(* and the TSS holds the stack of the thread on the CPU.                   *)
THEOREM IdleIsLeft == Spec => []IdleCanWake
<1>1. OrderInv => IdleCanWake
  BY DEF OrderInv
<1> QED BY <1>1, OrderInit, OrderStep, PTL DEF Spec
=============================================================================
