----------------------------- MODULE Scheduler -----------------------------
(***************************************************************************)
(* The kernel threads of VortexOS and the scheduler that switches between  *)
(* them: src/kernel/scheduler.cpp, src/kernel/thread.cpp, and what         *)
(* src/kernel/entry.cpp and src/kernel/syscall.cpp do with them.           *)
(*                                                                         *)
(* One CPU schedules (the application processors halt in ap_kernel_entry). *)
(* A thread is an index of the static TCB pool; index 0 is the boot        *)
(* context, which thread_init makes the idle thread.  What a thread        *)
(* computes is left out: while it runs it may create threads, yield or     *)
(* exit.  schedule() always runs with interrupts off, so it is one step.   *)
(* enqueue_thread() is one step as sys_fork calls it, inside a system call *)
(* with interrupts masked.                                                 *)
(***************************************************************************)
EXTENDS Integers, Sequences, FiniteSets

CONSTANTS
  MAX_THREADS,   \* size of kTcbPool
  RtLevels,      \* priorities 0..RtLevels-1 are real-time (100 in the code)
  Levels,        \* number of ready queues (140 in the code)
  NoDeadline,    \* the all-ones deadline that schedule() starts its scan with
  PrioInputs,    \* priorities that callers pass to kthread_create
  PolicyInputs   \* policies that callers give their threads

ASSUME SchedulerAssumption ==
  /\ MAX_THREADS \in Nat \ {0}
  /\ RtLevels \in Nat \ {0}
  /\ Levels \in Nat /\ RtLevels <= Levels
  /\ NoDeadline \in Nat
  /\ PrioInputs \subseteq Nat
  /\ PolicyInputs \subseteq {"FIFO", "RR", "DL", "NORMAL"}

Thread == 0..(MAX_THREADS - 1)
Idle == 0                        \* kIdleThread
Level == 0..(Levels - 1)
Policy == {"FIFO", "RR", "DL", "NORMAL"}
ThreadState == {"READY", "RUNNING", "DEAD"}   \* BLOCKED is never assigned
TICK_INTERVAL_MS == 1
FIFO_QUANTUM_MS == 10
Fresh == MAX_THREADS             \* no thread: see switchedTo

VARIABLES
  kNextTcbIndex,       \* first unused entry of kTcbPool
  state, policy, priority, abs_deadline,   \* fields of the TCBs
  kReadyQueues,        \* level -> sequence of threads, head first
  kTotalReady,
  kSchedulingEnabled,
  kCurrentThread,
  timer,               \* ms the APIC one-shot was armed with, 0 if not armed
  intr,                \* the interrupt flag of the CPU
  rsp0,                \* thread whose stack top the TSS holds (Idle: boot stack)
  switchedTo,          \* `next' in the suspended schedule() frame of a thread,
                       \* Fresh for a thread that was never switched out
  started,             \* threads handed to enqueue_thread, and the idle thread
  panicked             \* KERNEL_PANIC was reached: cli, hlt for ever

tcbs == <<kNextTcbIndex, policy, priority, abs_deadline, started>>
cpu == <<timer, intr, rsp0, switchedTo>>
vars == <<tcbs, state, kReadyQueues, kTotalReady, kSchedulingEnabled,
          kCurrentThread, cpu, panicked>>

-----------------------------------------------------------------------------
(* Ready queues. *)

Unlink(s, i) == [j \in 1..(Len(s) - 1) |-> IF j < i THEN s[j] ELSE s[j + 1]]

queue_push_back_Front(q, total, t) ==
  [q |-> [q EXCEPT ![priority[t]] = <<t>> \o @], total |-> total + 1]

queue_push_back(q, total, t) ==
  [q |-> [q EXCEPT ![priority[t]] = Append(@, t)], total |-> total + 1]

(* A position of q: a level and an index in the queue of that level. *)
Positions(q) == UNION {{p} \X DOMAIN q[p] : p \in Level}
At(q, c) == q[c[1]][c[2]]

HasDeadline(q, c) ==
  policy[At(q, c)] = "DL" /\ abs_deadline[At(q, c)] < NoDeadline

(* The scan of all queues keeps the first strict minimum it meets. *)
Earlier(q, c, d) ==
  LET x == abs_deadline[At(q, c)]
      y == abs_deadline[At(q, d)]
  IN  \/ x < y
      \/ x = y /\ c[1] < d[1]
      \/ x = y /\ c[1] = d[1] /\ c[2] <= d[2]

ScannedFirst_Ascending(p, r) == p <= r

(* Level p is looked at no later than level r: 99 down to 0, then 100 up. *)
ScannedFirst(p, r) == IF p < RtLevels THEN r <= p \/ r >= RtLevels ELSE p <= r

(* schedule() takes the thread at position c out of the queues q. *)
Selected(q, c) ==
  IF \E d \in Positions(q) : HasDeadline(q, d)
  THEN HasDeadline(q, c) /\ \A d \in Positions(q) : HasDeadline(q, d) => Earlier(q, c, d)
  ELSE c[2] = 1 /\ \A d \in Positions(q) : ScannedFirst(c[1], d[1])

-----------------------------------------------------------------------------
(* schedule(). *)

Resume_NotArmed(next, ticking) == intr' = (switchedTo[next] # Fresh) /\ timer' = ticking

(* The thread that is resumed finishes the schedule() call that suspended  *)
(* it: it arms the timer by the policy of ITS `next', and its caller turns *)
(* interrupts on (sti in yield, iretq in the interrupt stub).  A thread    *)
(* that never ran starts in thread_trampoline and does neither.            *)
Resume(next, ticking) ==
  IF switchedTo[next] = Fresh
  THEN intr' = FALSE /\ timer' = ticking
  ELSE /\ intr' = TRUE
       /\ timer' = IF policy[switchedTo[next]] = "FIFO"
                   THEN FIFO_QUANTUM_MS ELSE TICK_INTERVAL_MS

(* From thread_set_current to the code the next thread resumes with.  The  *)
(* boot context has no stack_base, so the TSS keeps the previous stack.    *)
SwitchTo(next, ticking) ==
  /\ kCurrentThread' = next
  /\ rsp0' = IF next = Idle THEN rsp0 ELSE next
  /\ switchedTo' = [switchedTo EXCEPT ![kCurrentThread] = next]
  /\ Resume(next, ticking)

Requeued_Always == queue_push_back(kReadyQueues, kTotalReady, kCurrentThread)

(* A current thread that is still runnable goes back to its queue. *)
Requeued ==
  IF state[kCurrentThread] = "RUNNING"
  THEN queue_push_back(kReadyQueues, kTotalReady, kCurrentThread)
  ELSE [q |-> kReadyQueues, total |-> kTotalReady]

(* `ticking' is what the one-shot holds when schedule() is entered.  When  *)
(* the thread picked is the current one, schedule() returns at once: it    *)
(* does not arm the timer, and its caller turns interrupts on.             *)
Dispatch(next, q, total, ticking) ==
  /\ kReadyQueues' = q
  /\ kTotalReady' = total
  /\ state' = [t \in Thread |->
                 CASE t = next -> "RUNNING"
                   [] t # next /\ t = kCurrentThread /\ state[t] = "RUNNING" -> "READY"
                   [] OTHER -> state[t]]
  /\ IF next = kCurrentThread
     THEN intr' = TRUE /\ timer' = ticking /\ UNCHANGED <<kCurrentThread, rsp0, switchedTo>>
     ELSE SwitchTo(next, ticking)

schedule(ticking) ==
  /\ IF ~kSchedulingEnabled
     THEN /\ intr' = TRUE /\ timer' = ticking
          /\ UNCHANGED <<state, kReadyQueues, kTotalReady, kCurrentThread, rsp0, switchedTo>>
     ELSE LET r == Requeued IN
            \/ Positions(r.q) = {} /\ Dispatch(Idle, r.q, r.total, ticking)
            \/ \E c \in Positions(r.q) :
                 /\ Selected(r.q, c)
                 /\ Dispatch(At(r.q, c), [r.q EXCEPT ![c[1]] = Unlink(@, c[2])],
                             r.total - 1, ticking)
  /\ UNCHANGED <<tcbs, kSchedulingEnabled, panicked>>

-----------------------------------------------------------------------------
(* What runs on the CPU. *)

(* A thread other than the boot context executes.  The boot context runs   *)
(* kernel_main up to scheduler_start and then only halts.                  *)
Running == ~panicked /\ kCurrentThread # Idle /\ state[kCurrentThread] = "RUNNING"
Booting == ~panicked /\ ~kSchedulingEnabled
CanCreate == Booting \/ Running

(* thread_init(): the boot context becomes the idle thread. *)
Init ==
  /\ kNextTcbIndex = 1
  /\ state = [t \in Thread |-> IF t = Idle THEN "RUNNING" ELSE "READY"]
  /\ policy = [t \in Thread |-> "FIFO"]
  /\ priority = [t \in Thread |-> 0]
  /\ abs_deadline = [t \in Thread |-> 0]
  /\ kReadyQueues = [p \in Level |-> <<>>]
  /\ kTotalReady = 0
  /\ kSchedulingEnabled = FALSE
  /\ kCurrentThread = Idle
  /\ timer = 0
  /\ intr = FALSE
  /\ rsp0 = Idle
  /\ switchedTo = [t \in Thread |-> Fresh]
  /\ started = {Idle}
  /\ panicked = FALSE

(* An entry of the pool is never given back. *)
alloc_tcb == kNextTcbIndex < MAX_THREADS /\ kNextTcbIndex' = kNextTcbIndex + 1

(* kthread_create(), and the policy and deadline its caller stores in the  *)
(* TCB.  When the pool is exhausted it returns null and nothing changes.   *)
kthread_create(prio, pol, dl) ==
  /\ CanCreate
  /\ alloc_tcb
  /\ priority' = [priority EXCEPT ![kNextTcbIndex] = prio]
  /\ policy' = [policy EXCEPT ![kNextTcbIndex] = pol]
  /\ abs_deadline' = [abs_deadline EXCEPT ![kNextTcbIndex] = dl]
  /\ UNCHANGED <<started, state, kReadyQueues, kTotalReady, kSchedulingEnabled,
                 kCurrentThread, cpu, panicked>>

(* pmm_alloc_pages() finds no stack for the new thread. *)
kthread_create_NoStack ==
  /\ CanCreate
  /\ alloc_tcb
  /\ panicked' = TRUE
  /\ intr' = FALSE
  /\ UNCHANGED <<policy, priority, abs_deadline, started, state, kReadyQueues, kTotalReady,
                 kSchedulingEnabled, kCurrentThread, timer, rsp0, switchedTo>>

(* A created thread is handed over once; queue_push_back() panics on a     *)
(* priority that has no queue.                                             *)
enqueue_thread(t) ==
  /\ CanCreate
  /\ t < kNextTcbIndex /\ t \notin started
  /\ IF priority[t] \notin Level
     THEN /\ panicked' = TRUE /\ intr' = FALSE
          /\ UNCHANGED <<started, kReadyQueues, kTotalReady>>
     ELSE LET r == queue_push_back(kReadyQueues, kTotalReady, t) IN
          /\ kReadyQueues' = r.q /\ kTotalReady' = r.total
          /\ started' = started \cup {t}
          /\ UNCHANGED <<panicked, intr>>
  /\ UNCHANGED <<kNextTcbIndex, policy, priority, abs_deadline, state, kSchedulingEnabled,
                 kCurrentThread, timer, rsp0, switchedTo>>

scheduler_start_NoTimer ==
  /\ Booting
  /\ kSchedulingEnabled' = TRUE
  /\ intr' = TRUE
  /\ UNCHANGED <<tcbs, state, kReadyQueues, kTotalReady, kCurrentThread, timer, rsp0,
                 switchedTo, panicked>>

scheduler_start ==
  /\ Booting
  /\ kSchedulingEnabled' = TRUE
  /\ timer' = TICK_INTERVAL_MS
  /\ intr' = TRUE
  /\ UNCHANGED <<tcbs, state, kReadyQueues, kTotalReady, kCurrentThread, rsp0, switchedTo,
                 panicked>>

(* yield(), from a kernel thread or through sys_sched_yield. *)
yield == Running /\ schedule(timer)

(* A forked child leaves the kernel for user mode: sysret restores the     *)
(* user's flags, with interrupts on.                                       *)
syscall_child_return ==
  /\ Running /\ ~intr
  /\ intr' = TRUE
  /\ UNCHANGED <<tcbs, state, kReadyQueues, kTotalReady, kSchedulingEnabled, kCurrentThread,
                 timer, rsp0, switchedTo, panicked>>

ShouldResched_OffByOne ==
  policy[kCurrentThread] = "FIFO" =>
    \E p \in Level : p < RtLevels - 1 /\ p > priority[kCurrentThread] /\ kReadyQueues[p] # <<>>

(* A tick does not preempt a FIFO thread unless a queue above it, and      *)
(* below RtLevels, has a thread.                                           *)
ShouldResched ==
  policy[kCurrentThread] = "FIFO" =>
    \E p \in Level : p < RtLevels /\ p > priority[kCurrentThread] /\ kReadyQueues[p] # <<>>

(* The one-shot expires while interrupts are on. *)
apic_timer_handler ==
  /\ timer # 0 /\ intr
  /\ IF ShouldResched
     THEN schedule(0)
     ELSE /\ timer' = TICK_INTERVAL_MS
          /\ UNCHANGED <<tcbs, state, kReadyQueues, kTotalReady, kSchedulingEnabled,
                         kCurrentThread, intr, rsp0, switchedTo, panicked>>

(* thread_exit(): the thread is dead and halts where it is.  From          *)
(* thread_trampoline the interrupt flag is left as it was; from sys_exit   *)
(* it is off, because SYSCALL masks it.                                    *)
thread_exit(masked) ==
  /\ Running
  /\ state' = [state EXCEPT ![kCurrentThread] = "DEAD"]
  /\ intr' = (intr /\ ~masked)
  /\ UNCHANGED <<tcbs, kReadyQueues, kTotalReady, kSchedulingEnabled, kCurrentThread, timer,
                 rsp0, switchedTo, panicked>>

Deadlines(pol) == IF pol = "DL" THEN 0..NoDeadline ELSE {0}

Next ==
  \/ \E prio \in PrioInputs, pol \in PolicyInputs :
       \E dl \in Deadlines(pol) : kthread_create(prio, pol, dl)
  \/ kthread_create_NoStack
  \/ \E t \in Thread : enqueue_thread(t)
  \/ scheduler_start
  \/ yield
  \/ syscall_child_return
  \/ apic_timer_handler
  \/ \E masked \in BOOLEAN : thread_exit(masked)

Spec == Init /\ [][Next]_vars

(* The APIC timer keeps counting: an expired one-shot is delivered once    *)
(* interrupts are on.                                                      *)
TickingSpec == Spec /\ WF_vars(apic_timer_handler)

(* In addition every thread gives up the CPU now and then. *)
CooperativeSpec == TickingSpec /\ WF_vars(yield)

-----------------------------------------------------------------------------
(* Properties. *)

(* Every variable has its type. *)
TypeOK ==
  /\ kNextTcbIndex \in 1..MAX_THREADS
  /\ state \in [Thread -> ThreadState]
  /\ policy \in [Thread -> Policy]
  /\ priority \in [Thread -> Nat]
  /\ abs_deadline \in [Thread -> 0..NoDeadline]
  /\ kReadyQueues \in [Level -> Seq(Thread)]
  /\ kTotalReady \in Int
  /\ kSchedulingEnabled \in BOOLEAN
  /\ kCurrentThread \in Thread
  /\ timer \in {0, TICK_INTERVAL_MS, FIFO_QUANTUM_MS}
  /\ intr \in BOOLEAN
  /\ rsp0 \in Thread
  /\ switchedTo \in [Thread -> Thread \cup {Fresh}]
  /\ started \subseteq Thread
  /\ panicked \in BOOLEAN

(* The queues hold threads that wait: each has the priority of its queue,  *)
(* is READY and is not the one on the CPU.                                 *)
QueuedWait ==
  \A p \in Level : \A i \in DOMAIN kReadyQueues[p] :
    LET t == kReadyQueues[p][i]
    IN  t \in started /\ priority[t] = p /\ state[t] = "READY" /\ t # kCurrentThread

(* The singly linked queues never hold a thread twice. *)
QueuedOnce ==
  \A p \in Level : \A i, j \in DOMAIN kReadyQueues[p] :
    kReadyQueues[p][i] = kReadyQueues[p][j] => i = j

(* A thread handed to the scheduler is never lost: while it is READY it is *)
(* in the queue of its priority.                                           *)
NoneLost ==
  \A t \in started : state[t] = "READY" =>
    \E i \in DOMAIN kReadyQueues[priority[t]] : kReadyQueues[priority[t]][i] = t

(* The thread on the CPU, and no other, is RUNNING, unless it has exited;  *)
(* the idle thread never exits.                                            *)
OneRunning ==
  /\ \A t \in Thread : state[t] = "RUNNING" => t = kCurrentThread
  /\ state[kCurrentThread] \in {"RUNNING", "DEAD"}
  /\ state[Idle] # "DEAD"
  /\ kCurrentThread \in started

(* Threads are handed to the scheduler after they are created, with a      *)
(* priority that has a queue, and stay READY until then.                   *)
StartedKnown ==
  /\ Idle \in started
  /\ \A t \in started : t < kNextTcbIndex /\ priority[t] \in Level
  /\ \A t \in Thread \ started : state[t] = "READY"

(* The queues and the thread states agree. *)
QueueInv == QueuedWait /\ QueuedOnce /\ NoneLost /\ OneRunning /\ StartedKnown

(* No order of creations, ticks, yields and exits loses a thread, queues   *)
(* one twice or under a wrong priority, or queues the thread on the CPU;   *)
(* the pool is never overrun and every variable keeps its type.            *)
QueuesSound == TypeOK /\ QueueInv

(* Once scheduling has begun, the idle loop can always be left: while it   *)
(* halts, the one-shot is armed and interrupts are on, although schedule() *)
(* does not arm it for the thread it keeps.  And an interrupt from user    *)
(* mode lands on the stack of the thread on the CPU.                       *)
IdleCanWake ==
  /\ kSchedulingEnabled /\ kCurrentThread = Idle => timer # 0 /\ intr
  /\ kCurrentThread \in {Idle, rsp0}

(* How schedule() should rank threads, without its scan: a deadline beats  *)
(* no deadline, the earlier deadline wins; otherwise real-time levels beat *)
(* the others, higher real-time levels and lower other levels first.       *)
DeadlineOf(t) == IF policy[t] = "DL" THEN abs_deadline[t] ELSE NoDeadline
RankOf(t) == IF priority[t] < RtLevels THEN RtLevels - priority[t] ELSE RtLevels + priority[t]
MoreUrgent(u, t) ==
  \/ DeadlineOf(u) < DeadlineOf(t)
  \/ DeadlineOf(u) >= NoDeadline /\ DeadlineOf(t) >= NoDeadline /\ RankOf(u) < RankOf(t)

Waiting(t) == t \in started /\ state[t] = "READY"

(* A context switch never leaves a more urgent thread waiting, for any     *)
(* order in which threads came, went and ticked; and the timer takes the   *)
(* CPU from a FIFO thread only for a more urgent one.                      *)
SwitchesToMostUrgent ==
  [][kCurrentThread' # kCurrentThread =>
       /\ \A u \in started : Waiting(u)' => ~MoreUrgent(u, kCurrentThread')
       /\ apic_timer_handler /\ policy[kCurrentThread] = "FIFO"
            => MoreUrgent(kCurrentThread', kCurrentThread)]_vars

(* The tick outlives context switches and ticks, whoever's stale `next'    *)
(* chose the quantum: the CPU goes on without an armed one-shot or with    *)
(* interrupts off only in the first turn of a new thread; and a tick that  *)
(* keeps the current thread is the last one only when that thread is not   *)
(* FIFO and nobody waits who should run next, so that no turn is missed    *)
(* by the threads that wait then.                                          *)
TickLostOnlyWhenAlone ==
  [][/\ kCurrentThread' # kCurrentThread /\ (timer' = 0 \/ ~intr')
          => switchedTo[kCurrentThread'] = Fresh
     /\ kCurrentThread' = kCurrentThread /\ timer # 0 /\ timer' = 0
          => /\ policy[kCurrentThread] # "FIFO"
             /\ \A u \in started : Waiting(u) =>
                  /\ ~MoreUrgent(u, kCurrentThread)
                  /\ policy[kCurrentThread] = "RR" => MoreUrgent(kCurrentThread, u)]_vars

HigherWaits(t) == \E u \in started : Waiting(u) /\ priority[u] > priority[t] /\ priority[u] < RtLevels

(* While its timer ticks, a FIFO thread that a higher real-time thread     *)
(* waits for is preempted, unless it exits first.                          *)
TickingFifoIsPreempted ==
  \A t \in Thread :
    (kCurrentThread = t /\ policy[t] = "FIFO" /\ timer # 0 /\ intr /\ HigherWaits(t))
      ~> (kCurrentThread # t \/ state[t] = "DEAD" \/ panicked)

(* When threads yield, a waiting real-time thread above the idle level     *)
(* runs in its turn, unless a more urgent thread wants the CPU or a thread *)
(* halts the CPU by exiting.                                               *)
WaitingThreadRuns ==
  \A t \in Thread \ {Idle} :
    (kSchedulingEnabled /\ Waiting(t) /\ priority[t] \in 1..(RtLevels - 1))
      ~> \/ kCurrentThread = t \/ panicked \/ state[kCurrentThread] = "DEAD"
         \/ \E u \in started : state[u] # "DEAD" /\ MoreUrgent(u, t)

-----------------------------------------------------------------------------
(* What the documents say and the code does not do. *)

(* scheduler.hpp: "Idle thread runs when no other thread is ready".  While *)
(* a thread waits, the idle thread does not keep the CPU.                  *)
IdleMakesWay ==
  \A t \in Thread \ {Idle} :
    (kSchedulingEnabled /\ kCurrentThread = Idle /\ Waiting(t)) ~> (kCurrentThread # Idle)

(* README 2.4: "SCHED_RR: Priority-based round-robin".  An RR thread whose *)
(* interrupts are on makes way for a waiting thread of its own level,      *)
(* unless it exits.                                                        *)
RrMakesWay ==
  \A t \in Thread \ {Idle} :
    (kCurrentThread = t /\ policy[t] = "RR" /\ intr /\
       \E u \in started : Waiting(u) /\ priority[u] = priority[t])
      ~> (kCurrentThread # t \/ ~intr \/ state[t] = "DEAD")

(* scheduler.hpp: "Default time quantum for round-robin: 1ms".  A switch   *)
(* to an RR thread that arms the timer arms it with that quantum.          *)
RrQuantumIsOneMs ==
  [][kCurrentThread' # kCurrentThread /\ policy[kCurrentThread'] = "RR"
       /\ switchedTo[kCurrentThread'] # Fresh => timer' = TICK_INTERVAL_MS]_vars

(* thread.cpp, thread_exit: "Yield to scheduler - it will pick the next    *)
(* ready thread".                                                          *)
ExitYields ==
  \A t \in Thread : (kCurrentThread = t /\ state[t] = "DEAD") ~> (kCurrentThread # t)
=============================================================================
