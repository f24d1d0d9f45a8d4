----------------------------- MODULE NvmeProofs -----------------------------
(***************************************************************************)
(* For rings of any size and any number of commands: the phase tags tell   *)
(* new completions from old ones, and no completion is taken twice.        *)
(***************************************************************************)
EXTENDS NvmeQueue, TLAPS

(* Slot s lies in the stretch of a ring that starts at h and ends before t.*)
Within(h, t, s) == IF h <= t THEN h <= s /\ s < t ELSE h <= s \/ s < t

Queued(q, s) == s \in Slot(q) /\ Within(dev[q].head, doorbell[q].sq, s)
Posted(q, s) == s \in Slot(q) /\ Within(ring[q].cq_head, dev[q].tail, s)

(* The doorbells hold the driver's indices. *)
Bells(q) == doorbell[q].sq = ring[q].sq_tail /\ doorbell[q].cq = ring[q].cq_head

(* The controller is on the driver's lap or on the next one. *)
Laps(q) == dev[q].phase = IF ring[q].cq_head <= dev[q].tail THEN ring[q].phase ELSE 1 - ring[q].phase

Tags(q) ==
  \A s \in Slot(q) :
    ring[q].cq[s].phase = (IF s >= ring[q].cq_head THEN ring[q].phase ELSE 1 - ring[q].phase) <=> Posted(q, s)

(* A command is in one place: queued, executing, posted or taken. *)
QueuedOnce(q) ==
  \A s \in Slot(q) : Queued(q, s) =>
    /\ ring[q].sq[s] \in 1..issued[q]
    /\ ring[q].sq[s] \notin dev[q].executing \cup taken[q]
    /\ \A r \in Slot(q) : Queued(q, r) /\ r # s => ring[q].sq[r] # ring[q].sq[s]
    /\ \A r \in Slot(q) : Posted(q, r) => ring[q].cq[r].cmd # ring[q].sq[s]

PostedOnce(q) ==
  \A s \in Slot(q) : Posted(q, s) =>
    /\ ring[q].cq[s].cmd \in 1..issued[q]
    /\ ring[q].cq[s].cmd \notin dev[q].executing \cup taken[q]
    /\ \A r \in Slot(q) : Posted(q, r) /\ r # s => ring[q].cq[r].cmd # ring[q].cq[s].cmd

ExecutingOnce(q) == \A c \in dev[q].executing : c \in 1..issued[q] /\ c \notin taken[q]

TakenIssued(q) == taken[q] \subseteq 1..issued[q]

Once(q) == QueuedOnce(q) /\ PostedOnce(q) /\ ExecutingOnce(q) /\ TakenIssued(q)

(* How many admin commands there have been follows from where nvme_init is.*)
Steps ==
  /\ step \in {"start", "disabling", "setup", "enabling"} => issued[Admin] = 0 /\ waiting = NoQueue
  /\ step = "identify" => issued[Admin] = IF waiting = Admin THEN 1 ELSE 0
  /\ step = "io_queue" => issued[Admin] = 1 /\ waiting = NoQueue
  /\ step = "create_cq" => issued[Admin] = IF waiting = Admin THEN 2 ELSE 1
  /\ step = "create_sq" => issued[Admin] = IF waiting = Admin THEN 3 ELSE 2
  /\ waiting = Io => step = "true"
  /\ step \in {"true", "false"} => waiting # Admin
  /\ \A q \in Queue : waiting = q => issued[q] # 0

(* While no call on q has timed out, what is under way on it is the        *)
(* command that the driver waits for.                                      *)
Alone(q) ==
  timeouts[q] = {} =>
    /\ answer[q].to = answer[q].cmd
    /\ \A s \in Slot(q) : Queued(q, s) => waiting = q /\ ring[q].sq[s] = issued[q]
    /\ \A c \in dev[q].executing : waiting = q /\ c = issued[q]
    /\ \A s \in Slot(q) : Posted(q, s) => waiting = q /\ ring[q].cq[s].cmd = issued[q]

QueueInv(q) == Bells(q) /\ Laps(q) /\ Tags(q) /\ Once(q)

(* What TypeOK says of one queue. *)
QueueType(q) ==
  /\ ring[q] \in [sq : [Slot(q) -> AnyCommand], sq_tail : Slot(q), cq_head : Slot(q), phase : {0, 1},
                  cq : [Slot(q) -> [phase : {0, 1}, cmd : AnyCommand, status : Status]]]
  /\ doorbell[q] \in [sq : Slot(q), cq : Slot(q)]
  /\ dev[q] \in [head : Slot(q), tail : Slot(q), phase : {0, 1}, executing : SUBSET Command(q)]
  /\ issued[q] \in Command(q) \cup {0}
  /\ timeouts[q] \subseteq Command(q) /\ taken[q] \subseteq Command(q)
  /\ answer[q] \in [to : AnyCommand, cmd : AnyCommand, status : Status]

(* What it says of the indices and the phases. *)
Indices(q) ==
  /\ ring[q].sq_tail \in Slot(q) /\ ring[q].cq_head \in Slot(q) /\ ring[q].phase \in {0, 1}
  /\ doorbell[q].sq \in Slot(q) /\ doorbell[q].cq \in Slot(q)
  /\ dev[q].head \in Slot(q) /\ dev[q].tail \in Slot(q) /\ dev[q].phase \in {0, 1}

(* The variables of the queues are functions of the queue. *)
PerQueue ==
  /\ DOMAIN ring = Queue /\ ring = [q \in Queue |-> ring[q]]
  /\ DOMAIN doorbell = Queue /\ doorbell = [q \in Queue |-> doorbell[q]]
  /\ DOMAIN dev = Queue /\ dev = [q \in Queue |-> dev[q]]
  /\ DOMAIN issued = Queue /\ issued = [q \in Queue |-> issued[q]]
  /\ DOMAIN timeouts = Queue /\ timeouts = [q \in Queue |-> timeouts[q]]
  /\ DOMAIN taken = Queue /\ taken = [q \in Queue |-> taken[q]]
  /\ DOMAIN answer = Queue /\ answer = [q \in Queue |-> answer[q]]

RingInv == TypeOK /\ PerQueue /\ Steps /\ \A q \in Queue : QueueInv(q)

-----------------------------------------------------------------------------
(* Arithmetic of the rings. *)

LEMMA ModOfNext ==
  ASSUME NEW n \in Nat, n >= 2, NEW i \in 0..(n - 1)
  PROVE  (i + 1) % n = IF i = n - 1 THEN 0 ELSE i + 1
  OBVIOUS

LEMMA ModOfDifference ==
  ASSUME NEW n \in Nat, n >= 2, NEW i \in 0..(n - 1), NEW j \in 0..(n - 1)
  PROVE  (i - j) % n = IF j <= i THEN i - j ELSE i - j + n
  OBVIOUS

LEMMA AdvanceFacts ==
  ASSUME NEW q \in Queue, NEW i \in Slot(q)
  PROVE  /\ Advance(q, i) = IF i = qsize[q] - 1 THEN 0 ELSE i + 1
         /\ Advance(q, i) \in Slot(q)
  <1>1. qsize[q] \in Nat /\ qsize[q] >= 2
    BY NvmeAssumption
  <1>2. (i + 1) % qsize[q] = IF i = qsize[q] - 1 THEN 0 ELSE i + 1
    BY <1>1, ModOfNext DEF Slot
  <1> QED
    BY <1>1, <1>2 DEF Advance, Slot

(* Commands are numbered from 1. *)
LEMMA CommandsBefore ==
  ASSUME NEW q \in Queue, NEW n \in Command(q) \cup {0}, NEW c \in 1..n
  PROVE  c \in Command(q)
  <1> DEFINE last == IF q = Admin THEN 3 ELSE MaxCommands
  <1>1. last \in Nat /\ Command(q) = 1..last
    BY NvmeAssumption, Zenon DEF Command
  <1> HIDE DEF last
  <1> QED
    BY <1>1

(* The entries that are pending are those between the two indices. *)
LEMMA PendingIsPosted ==
  ASSUME NEW q \in Queue, QueueType(q), NEW s \in Slot(q)
  PROVE  s \in Pending(q) <=> Posted(q, s)
  <1> DEFINE n == qsize[q]
             h == ring[q].cq_head
             t == dev[q].tail
  <1>1. n \in Nat /\ n >= 2
    BY NvmeAssumption
  <1>2. s \in 0..(n - 1) /\ h \in 0..(n - 1) /\ t \in 0..(n - 1)
    BY DEF QueueType, Slot
  <1> HIDE DEF n, h, t
  <1>3. (s - h) % n = IF h <= s THEN s - h ELSE s - h + n
    BY <1>1, <1>2, ModOfDifference
  <1>4. (t - h) % n = IF h <= t THEN t - h ELSE t - h + n
    BY <1>1, <1>2, ModOfDifference
  <1>5. (s - h) % n < (t - h) % n <=> Within(h, t, s)
    BY <1>1, <1>2, <1>3, <1>4 DEF Within
  <1> QED
    BY <1>5 DEF Pending, Posted, n, h, t

(* TypeOK, queue by queue. *)
LEMMA TypeByQueue ==
  TypeOK <=> /\ step \in Step /\ queues \subseteq Queue /\ created \subseteq Request /\ layout \in Layout
             /\ cc \in BOOLEAN /\ csts \in BOOLEAN /\ waiting \in Queue \cup {NoQueue}
             /\ \A q \in Queue : QueueType(q)
  BY DEF TypeOK, QueueType

LEMMA OfQueue ==
  ASSUME RingInv, NEW q \in Queue
  PROVE  QueueType(q) /\ QueueInv(q) /\ PerQueue /\ Indices(q) /\ Bells(q) /\ Laps(q)
  <1>1. QueueType(q)
    BY TypeByQueue, Zenon DEF RingInv
  <1>2. QueueInv(q) /\ PerQueue
    BY Zenon DEF RingInv
  <1>3. Indices(q)
    BY <1>1 DEF QueueType, Indices
  <1> QED
    BY <1>1, <1>2, <1>3, Zenon DEF QueueInv

-----------------------------------------------------------------------------
(* One queue in one step *)

LEMMA Untouched ==
  ASSUME NEW q \in Queue, QueueInv(q), QueueType(q),
         ring'[q] = ring[q], doorbell'[q] = doorbell[q], dev'[q] = dev[q],
         issued'[q] = issued[q], taken'[q] = taken[q]
  PROVE  QueueInv(q)'
  BY SMTT(30) DEF QueueInv, Bells, Laps, Tags, Once, QueuedOnce, PostedOnce, ExecutingOnce, TakenIssued,
     Queued, Posted, Within

LEMMA IssuedFits ==
  ASSUME TypeOK, Steps, NEW q \in Queue, MayIssue(q)
  PROVE  issued[q] \in Nat /\ issued[q] + 1 \in Command(q)
  BY NvmeAssumption DEF TypeOK, Steps, MayIssue, Command, Queue, Admin, Io, NoQueue

LEMMA SubmitOwn ==
  ASSUME RingInv, NEW q \in Queue, Submit(q)
  PROVE  QueueInv(q)' /\ QueueType(q)' /\ (Alone(q) => Alone(q)')
  <1> DEFINE c == issued[q] + 1
             tail == ring[q].sq_tail
             next == Advance(q, tail)
  <1>1. QueueType(q) /\ QueueInv(q) /\ PerQueue
    BY OfQueue, Zenon
  <1>i. Indices(q) /\ Bells(q) /\ Laps(q)
    BY OfQueue, Zenon
  <1>2. issued[q] \in Nat /\ c \in Command(q) /\ c \in AnyCommand
    BY IssuedFits DEF RingInv, Submit, AnyCommand, Queue, Command
  <1>3. tail \in Slot(q) /\ next \in Slot(q) /\ next = IF tail = qsize[q] - 1 THEN 0 ELSE tail + 1
    BY <1>i, AdvanceFacts DEF Indices
  <1>4. /\ issued'[q] = c
        /\ ring'[q].sq = [ring[q].sq EXCEPT ![tail] = c] /\ ring'[q].sq_tail = next
        /\ ring'[q].cq = ring[q].cq /\ ring'[q].cq_head = ring[q].cq_head /\ ring'[q].phase = ring[q].phase
        /\ doorbell'[q].sq = next /\ doorbell'[q].cq = doorbell[q].cq
        /\ dev' = dev /\ taken' = taken /\ timeouts' = timeouts /\ answer' = answer
    BY <1>1, Zenon DEF Submit, PerQueue, QueueType, device
  <1>5. QueueType(q)'
    <2>1. ring'[q] \in [sq : [Slot(q) -> AnyCommand], sq_tail : Slot(q), cq_head : Slot(q), phase : {0, 1},
                  cq : [Slot(q) -> [phase : {0, 1}, cmd : AnyCommand, status : Status]]]
      BY <1>1, <1>2, <1>3, Zenon DEF Submit, PerQueue, QueueType
    <2>2. doorbell'[q] \in [sq : Slot(q), cq : Slot(q)]
      BY <1>1, <1>3 DEF Submit, PerQueue, QueueType
    <2> QED
      BY <1>1, <1>2, <1>4, <2>1, <2>2 DEF QueueType
  <1> HIDE DEF c, tail, next
  <1>6. Bells(q)' /\ Laps(q)' /\ Tags(q)'
    BY <1>1, <1>4 DEF QueueInv, Bells, Laps, Tags, Posted
  <1>7. \A s \in Slot(q) : Posted(q, s)' <=> Posted(q, s)
    BY <1>4 DEF Posted
  <1>8. \A s \in Slot(q) : Queued(q, s)' => s = tail \/ (s # tail /\ Queued(q, s))
    BY <1>i, <1>3, <1>4, NvmeAssumption DEF Queued, Within, Bells, Indices, Slot, tail
  <1>9. \A s \in Slot(q) : s # tail => ring'[q].sq[s] = ring[q].sq[s]
    BY <1>1, <1>3, <1>4 DEF QueueType
  <1>10. ring'[q].sq[tail] = c
    BY <1>1, <1>3, <1>4 DEF QueueType
  <1>11. 1..issued[q] \subseteq 1..issued'[q] /\ c \in 1..issued'[q] /\ c \notin 1..issued[q]
    BY <1>2, <1>4 DEF c
  <1>12. Once(q)'
    <2>1. QueuedOnce(q) /\ PostedOnce(q) /\ ExecutingOnce(q) /\ TakenIssued(q)
      BY <1>1 DEF QueueInv, Once
    <2>2. ring'[q].cq = ring[q].cq /\ dev'[q].executing = dev[q].executing /\ taken'[q] = taken[q]
      BY <1>4
    <2>3. c \notin dev[q].executing \cup taken[q]
      BY <1>11, <2>1 DEF ExecutingOnce, TakenIssued
    <2>4. \A r \in Slot(q) : Posted(q, r) => ring[q].cq[r].cmd # c
      BY <1>11, <2>1 DEF PostedOnce
    <2>5. \A r \in Slot(q) : Queued(q, r) => ring[q].sq[r] # c
      BY <1>11, <2>1 DEF QueuedOnce
    <2>6. QueuedOnce(q)'
      <3> SUFFICES ASSUME NEW s \in Slot(q), Queued(q, s)'
                   PROVE  /\ ring'[q].sq[s] \in 1..issued'[q]
                          /\ ring'[q].sq[s] \notin dev[q].executing \cup taken[q]
                          /\ \A r \in Slot(q) : Queued(q, r)' /\ r # s => ring'[q].sq[r] # ring'[q].sq[s]
                          /\ \A r \in Slot(q) : Posted(q, r) => ring[q].cq[r].cmd # ring'[q].sq[s]
        BY <1>7, <2>2 DEF QueuedOnce
      <3>1. CASE s = tail
        BY <1>8, <1>9, <1>10, <1>11, <2>3, <2>4, <2>5, <3>1
      <3>2. CASE s # tail
        <4>1. Queued(q, s) /\ ring'[q].sq[s] = ring[q].sq[s]
          BY <1>8, <1>9, <3>2
        <4>2. \A r \in Slot(q) : Queued(q, r)' /\ r # s => ring'[q].sq[r] # ring'[q].sq[s]
          BY <1>8, <1>9, <1>10, <2>1, <2>5, <4>1 DEF QueuedOnce
        <4> QED
          BY <1>11, <2>1, <4>1, <4>2 DEF QueuedOnce
      <3> QED
        BY <3>1, <3>2
    <2>7. PostedOnce(q)'
      BY <1>7, <1>11, <2>1, <2>2 DEF PostedOnce
    <2>8. ExecutingOnce(q)' /\ TakenIssued(q)'
      BY <1>11, <2>1, <2>2 DEF ExecutingOnce, TakenIssued
    <2> QED
      BY <2>6, <2>7, <2>8 DEF Once
  <1>13. ASSUME Alone(q) PROVE Alone(q)'
    <2> SUFFICES ASSUME timeouts[q] = {} PROVE Alone(q)'
      BY <1>4 DEF Alone
    <2>1. waiting # q /\ waiting' = q
      BY DEF Submit, MayIssue, Queue, NoQueue, Admin, Io
    <2>2. /\ \A s \in Slot(q) : ~Queued(q, s) /\ ~Posted(q, s)
          /\ dev[q].executing = {} /\ answer[q].to = answer[q].cmd
      BY <1>13, <2>1 DEF Alone
    <2>3. \A s \in Slot(q) : Queued(q, s)' => ring'[q].sq[s] = issued'[q]
      BY <1>4, <1>8, <1>10, <2>2
    <2> QED
      BY <1>4, <1>7, <2>1, <2>2, <2>3 DEF Alone
  <1> QED
    BY <1>5, <1>6, <1>12, <1>13 DEF QueueInv

(* The entry that the driver sees has been posted. *)
LEMMA VisibleIsPosted ==
  ASSUME NEW q \in Queue, QueueType(q), Tags(q), EntryVisible(q)
  PROVE  Posted(q, ring[q].cq_head)
  BY DEF Tags, EntryVisible, Head, QueueType, Slot

LEMMA CompleteOwn ==
  ASSUME RingInv, NEW q \in Queue, Complete(q)
  PROVE  /\ QueueInv(q)' /\ QueueType(q)'
         /\ Alone(q) => Alone(q)'
         /\ Head(q).cmd \notin taken[q] /\ taken'[q] = taken[q] \cup {Head(q).cmd}
  <1> DEFINE h == ring[q].cq_head
             next == Advance(q, h)
             e == ring[q].cq[h]
  <1>1. QueueType(q) /\ QueueInv(q) /\ PerQueue
    BY OfQueue, Zenon
  <1>i. Indices(q) /\ Bells(q) /\ Laps(q)
    BY OfQueue, Zenon
  <1>2. h \in Slot(q) /\ next \in Slot(q) /\ next = IF h = qsize[q] - 1 THEN 0 ELSE h + 1
    BY <1>i, AdvanceFacts DEF Indices
  <1>3. Posted(q, h) /\ e.phase = ring[q].phase
    BY <1>1, VisibleIsPosted DEF QueueInv, Complete, EntryVisible, Head
  <1>4. /\ e.cmd \in 1..issued[q] /\ e.cmd \notin dev[q].executing \cup taken[q]
        /\ \A r \in Slot(q) : Posted(q, r) /\ r # h => ring[q].cq[r].cmd # e.cmd
        /\ \A r \in Slot(q) : Queued(q, r) => ring[q].sq[r] # e.cmd
    <2>1. QueuedOnce(q) /\ PostedOnce(q)
      BY <1>1, Zenon DEF QueueInv, Once
    <2>2. h \in Slot(q) /\ Posted(q, h)
      BY <1>2, <1>3, Zenon
    <2> HIDE DEF h
    <2> QED
      BY <2>1, <2>2, Zenon DEF QueuedOnce, PostedOnce
  <1>5. /\ ring'[q].sq = ring[q].sq /\ ring'[q].sq_tail = ring[q].sq_tail /\ ring'[q].cq = ring[q].cq
        /\ ring'[q].cq_head = next
        /\ ring'[q].phase = IF next = 0 THEN 1 - ring[q].phase ELSE ring[q].phase
        /\ doorbell'[q].sq = doorbell[q].sq /\ doorbell'[q].cq = next
        /\ taken'[q] = taken[q] \cup {e.cmd} /\ dev' = dev /\ issued' = issued /\ timeouts' = timeouts
    BY <1>1, Zenon DEF Complete, PerQueue, QueueType, device, Head, NextPhase
  <1>a. answer'[q] = [to |-> issued[q], cmd |-> e.cmd, status |-> e.status]
    BY <1>1, Zenon DEF Complete, PerQueue, Head
  <1>6. e.cmd \in Command(q) /\ issued[q] \in AnyCommand /\ e \in [phase : {0, 1}, cmd : AnyCommand, status : Status]
    <2>1. issued[q] \in Command(q) \cup {0} /\ e \in [phase : {0, 1}, cmd : AnyCommand, status : Status]
      BY <1>1, <1>2 DEF QueueType
    <2>2. issued[q] \in Command(q) \cup {0} /\ e.cmd \in 1..issued[q]
      BY <1>4, <2>1, Zenon
    <2> HIDE DEF h, e
    <2>3. e.cmd \in Command(q)
      BY <2>2, CommandsBefore
    <2> QED
      BY <2>1, <2>3 DEF AnyCommand, Command, NoCommand, Queue
  <1>7. QueueType(q)'
    <2>1. ring'[q] \in [sq : [Slot(q) -> AnyCommand], sq_tail : Slot(q), cq_head : Slot(q), phase : {0, 1},
                  cq : [Slot(q) -> [phase : {0, 1}, cmd : AnyCommand, status : Status]]]
      BY <1>1, <1>2, SMTT(30) DEF Complete, PerQueue, QueueType, NextPhase
    <2>2. doorbell'[q] \in [sq : Slot(q), cq : Slot(q)]
      BY <1>1, <1>2 DEF Complete, PerQueue, QueueType
    <2>3. answer'[q] \in [to : AnyCommand, cmd : AnyCommand, status : Status]
      BY <1>a, <1>6
    <2> QED
      BY <1>1, <1>5, <1>6, <2>1, <2>2, <2>3 DEF QueueType
  <1> HIDE DEF h, next, e
  <1>8. \A s \in Slot(q) : Posted(q, s)' <=> s # h /\ Posted(q, s)
    BY <1>i, <1>2, <1>3, <1>5, NvmeAssumption DEF Posted, Within, Indices, Slot, h
  <1>9. \A s \in Slot(q) : Queued(q, s)' <=> Queued(q, s)
    BY <1>5 DEF Queued
  <1>10. Bells(q)'
    BY <1>i, <1>5 DEF Bells
  <1>11. Laps(q)'
    BY <1>i, <1>2, <1>3, <1>5, NvmeAssumption DEF Laps, Posted, Within, Indices, Slot, h
  <1>12. Tags(q)'
    <2> SUFFICES ASSUME NEW s \in Slot(q)
                 PROVE  ring[q].cq[s].phase = (IF s >= next THEN ring'[q].phase ELSE 1 - ring'[q].phase)
                          <=> s # h /\ Posted(q, s)
      BY <1>5, <1>8 DEF Tags
    <2>1. ring[q].cq[s].phase \in {0, 1} /\ ring[q].phase \in {0, 1}
      BY <1>1 DEF QueueType
    <2>2. ring[q].cq[s].phase = (IF s >= h THEN ring[q].phase ELSE 1 - ring[q].phase) <=> Posted(q, s)
      BY <1>1 DEF QueueInv, Tags, h
    <2> QED
      BY <1>2, <1>3, <1>5, <2>1, <2>2, NvmeAssumption DEF Slot, e
  <1>13. Once(q)'
    <2>1. QueuedOnce(q) /\ PostedOnce(q) /\ ExecutingOnce(q) /\ TakenIssued(q)
      BY <1>1 DEF QueueInv, Once
    <2>2. /\ ring'[q].sq = ring[q].sq /\ ring'[q].cq = ring[q].cq /\ issued'[q] = issued[q]
          /\ dev'[q].executing = dev[q].executing /\ taken'[q] = taken[q] \cup {e.cmd}
      BY <1>5
    <2>3. QueuedOnce(q)'
      BY <1>4, <1>8, <1>9, <2>1, <2>2 DEF QueuedOnce
    <2>4. PostedOnce(q)'
      BY <1>4, <1>8, <2>1, <2>2 DEF PostedOnce
    <2>5. ExecutingOnce(q)' /\ TakenIssued(q)'
      BY <1>4, <2>1, <2>2 DEF ExecutingOnce, TakenIssued
    <2> QED
      BY <2>3, <2>4, <2>5 DEF Once
  <1>14. ASSUME Alone(q) PROVE Alone(q)'
    <2> SUFFICES ASSUME timeouts[q] = {} PROVE Alone(q)'
      BY <1>5 DEF Alone
    <2>1. e.cmd = issued[q]
      BY <1>2, <1>3, <1>14 DEF Alone, e
    <2>2. \A s \in Slot(q) : ~Queued(q, s) /\ ~(s # h /\ Posted(q, s))
      BY <1>4, <1>14, <2>1 DEF Alone
    <2>3. dev[q].executing = {}
      BY <1>4, <1>14, <2>1 DEF Alone
    <2>4. answer'[q].to = answer'[q].cmd
      BY <1>a, <2>1
    <2> QED
      BY <1>5, <1>8, <1>9, <2>2, <2>3, <2>4 DEF Alone
  <1> QED
    BY <1>4, <1>5, <1>7, <1>10, <1>11, <1>12, <1>13, <1>14, Zenon DEF QueueInv, Head, e, h

LEMMA FetchOwn ==
  ASSUME RingInv, NEW q \in Queue, Fetch(q)
  PROVE  QueueInv(q)' /\ QueueType(q)' /\ (Alone(q) => Alone(q)')
  <1> DEFINE d == dev[q].head
             next == Advance(q, d)
             c == ring[q].sq[d]
  <1>1. QueueType(q) /\ QueueInv(q) /\ PerQueue
    BY OfQueue, Zenon
  <1>i. Indices(q) /\ Bells(q) /\ Laps(q)
    BY OfQueue, Zenon
  <1>2. d \in Slot(q) /\ next \in Slot(q) /\ next = IF d = qsize[q] - 1 THEN 0 ELSE d + 1
    BY <1>i, AdvanceFacts DEF Indices
  <1>3. Queued(q, d)
    BY <1>i, <1>2, NvmeAssumption DEF Fetch, Queued, Within, Indices, Slot
  <1>4. /\ dev'[q].head = next /\ dev'[q].executing = dev[q].executing \cup {c}
        /\ dev'[q].tail = dev[q].tail /\ dev'[q].phase = dev[q].phase
        /\ ring' = ring /\ doorbell' = doorbell /\ issued' = issued /\ taken' = taken
        /\ timeouts' = timeouts /\ answer' = answer
    BY <1>1, Zenon DEF Fetch, PerQueue, QueueType, calls
  <1>5. /\ c \in 1..issued[q] /\ c \notin dev[q].executing \cup taken[q]
        /\ \A r \in Slot(q) : Queued(q, r) /\ r # d => ring[q].sq[r] # c
        /\ \A r \in Slot(q) : Posted(q, r) => ring[q].cq[r].cmd # c
    BY <1>1, <1>2, <1>3 DEF QueueInv, Once, QueuedOnce
  <1>6. c \in Command(q)
    BY <1>1, <1>5, NvmeAssumption, SMTT(30) DEF QueueType, Command, Queue
  <1>7. QueueType(q)'
    <2>1. dev'[q] \in [head : Slot(q), tail : Slot(q), phase : {0, 1}, executing : SUBSET Command(q)]
      BY <1>1, <1>2, <1>6 DEF Fetch, PerQueue, QueueType
    <2> QED
      BY <1>1, <1>4, <2>1 DEF QueueType
  <1> HIDE DEF d, next, c
  <1>8. \A s \in Slot(q) : Queued(q, s)' <=> s # d /\ Queued(q, s)
    BY <1>i, <1>2, <1>3, <1>4, NvmeAssumption DEF Queued, Within, Indices, Slot, d
  <1>9. \A s \in Slot(q) : Posted(q, s)' <=> Posted(q, s)
    BY <1>4 DEF Posted
  <1>10. Bells(q)' /\ Laps(q)' /\ Tags(q)'
    BY <1>1, <1>4, <1>9 DEF QueueInv, Bells, Laps, Tags
  <1>11. Once(q)'
    <2>1. QueuedOnce(q) /\ PostedOnce(q) /\ ExecutingOnce(q) /\ TakenIssued(q)
      BY <1>1 DEF QueueInv, Once
    <2>2. /\ ring'[q] = ring[q] /\ issued'[q] = issued[q] /\ taken'[q] = taken[q]
          /\ dev'[q].executing = dev[q].executing \cup {c}
      BY <1>4
    <2>3. QueuedOnce(q)'
      BY <1>2, <1>5, <1>8, <1>9, <2>1, <2>2, ZenonT(30) DEF QueuedOnce
    <2>4. PostedOnce(q)'
      BY <1>5, <1>9, <2>1, <2>2 DEF PostedOnce
    <2>5. ExecutingOnce(q)' /\ TakenIssued(q)'
      BY <1>5, <2>1, <2>2 DEF ExecutingOnce, TakenIssued
    <2> QED
      BY <2>3, <2>4, <2>5 DEF Once
  <1>12. ASSUME Alone(q) PROVE Alone(q)'
    <2> SUFFICES ASSUME timeouts[q] = {} PROVE Alone(q)'
      BY <1>4 DEF Alone
    <2>1. c = issued[q] /\ waiting = q /\ waiting' = waiting
      BY <1>2, <1>3, <1>12 DEF Alone, c, Fetch, calls
    <2> QED
      BY <1>4, <1>8, <1>9, <1>12, <2>1 DEF Alone
  <1> QED
    BY <1>7, <1>10, <1>11, <1>12 DEF QueueInv

LEMMA PostOwn ==
  ASSUME RingInv, NEW q \in Queue, Post(q)
  PROVE  QueueInv(q)' /\ QueueType(q)' /\ (Alone(q) => Alone(q)') /\ created' \subseteq Request /\ layout' \in Layout
  <1> DEFINE t == dev[q].tail
             h == ring[q].cq_head
             next == Advance(q, t)
  <1>1. QueueType(q) /\ QueueInv(q) /\ PerQueue /\ created \subseteq Request /\ layout \in Layout
    BY OfQueue, TypeByQueue, Zenon DEF RingInv
  <1>i. Indices(q) /\ Bells(q) /\ Laps(q)
    BY OfQueue, Zenon
  <1>2. PICK c \in dev[q].executing : \E st \in Status :
          /\ ring' = [ring EXCEPT ![q].cq[dev[q].tail] = [phase |-> dev[q].phase, cmd |-> c, status |-> st]]
          /\ created' = IF q = Admin /\ st = 0 /\ Opcode[c] # "IDENTIFY" THEN created \cup {Asked(layout, c)} ELSE created
          /\ dev' = [dev EXCEPT ![q].executing = @ \ {c}, ![q].tail = Advance(q, dev[q].tail),
                                ![q].phase = IF Advance(q, dev[q].tail) = 0 THEN 1 - @ ELSE @]
    BY Zenon DEF Post
  <1>3. PICK st \in Status :
          /\ ring' = [ring EXCEPT ![q].cq[dev[q].tail] = [phase |-> dev[q].phase, cmd |-> c, status |-> st]]
          /\ created' = IF q = Admin /\ st = 0 /\ Opcode[c] # "IDENTIFY" THEN created \cup {Asked(layout, c)} ELSE created
          /\ dev' = [dev EXCEPT ![q].executing = @ \ {c}, ![q].tail = Advance(q, dev[q].tail),
                                ![q].phase = IF Advance(q, dev[q].tail) = 0 THEN 1 - @ ELSE @]
    BY <1>2, Zenon
  <1>4. t \in Slot(q) /\ h \in Slot(q) /\ next \in Slot(q) /\ next = IF t = qsize[q] - 1 THEN 0 ELSE t + 1
    BY <1>i, AdvanceFacts DEF Indices
  <1>5. next # h
    BY <1>i, Zenon DEF Post, Bells
  <1>6. /\ ring'[q].sq = ring[q].sq /\ ring'[q].sq_tail = ring[q].sq_tail
        /\ ring'[q].cq_head = ring[q].cq_head /\ ring'[q].phase = ring[q].phase
        /\ dev'[q].executing = dev[q].executing \ {c} /\ dev'[q].tail = next /\ dev'[q].head = dev[q].head
        /\ dev'[q].phase = IF next = 0 THEN 1 - dev[q].phase ELSE dev[q].phase
        /\ doorbell' = doorbell /\ issued' = issued /\ taken' = taken /\ timeouts' = timeouts /\ answer' = answer
    BY <1>1, <1>3, Zenon DEF Post, PerQueue, QueueType, calls
  <1>e. ring'[q].cq = [ring[q].cq EXCEPT ![t] = [phase |-> dev[q].phase, cmd |-> c, status |-> st]]
    BY <1>1, <1>3, Zenon DEF PerQueue, QueueType
  <1>7. /\ c \in 1..issued[q] /\ c \notin taken[q] /\ c \in Command(q) /\ c \in AnyCommand
        /\ \A r \in Slot(q) : Queued(q, r) => ring[q].sq[r] # c
        /\ \A r \in Slot(q) : Posted(q, r) => ring[q].cq[r].cmd # c
    <2>1. c \in Command(q)
      BY <1>1, <1>2 DEF QueueType
    <2>2. QueuedOnce(q) /\ PostedOnce(q) /\ ExecutingOnce(q)
      BY <1>1 DEF QueueInv, Once
    <2> QED
      BY <1>2, <2>1, <2>2 DEF QueuedOnce, PostedOnce, ExecutingOnce, AnyCommand, Queue, Command
  <1>8. created' \subseteq Request /\ layout' \in Layout
    <2>1. q = Admin => Asked(layout, c) \in Request
      BY <1>1, <1>7 DEF Request, Command
    <2>2. layout' = layout
      BY Zenon DEF Post
    <2> QED
      BY <1>1, <1>3, <2>1, <2>2, Zenon
  <1>9. QueueType(q)'
    <2>1. ring'[q] \in [sq : [Slot(q) -> AnyCommand], sq_tail : Slot(q), cq_head : Slot(q), phase : {0, 1},
                  cq : [Slot(q) -> [phase : {0, 1}, cmd : AnyCommand, status : Status]]]
      BY <1>1, <1>3, <1>4, <1>7, Zenon DEF PerQueue, QueueType
    <2>2. dev'[q] \in [head : Slot(q), tail : Slot(q), phase : {0, 1}, executing : SUBSET Command(q)]
      BY <1>1, <1>3, <1>4 DEF PerQueue, QueueType
    <2> QED
      BY <1>1, <1>6, <2>1, <2>2, Zenon DEF QueueType
  <1> HIDE DEF t, h, next
  <1>10. \A s \in Slot(q) : Posted(q, s)' <=> s = t \/ Posted(q, s)
    BY <1>i, <1>4, <1>5, <1>6, NvmeAssumption, SMTT(30) DEF Posted, Within, Indices, Slot, t, h
  <1>11. \A s \in Slot(q) : Queued(q, s)' <=> Queued(q, s)
    BY <1>6, Zenon DEF Queued
  <1>12. /\ \A s \in Slot(q) : s # t => ring'[q].cq[s] = ring[q].cq[s]
         /\ ring'[q].cq[t].cmd = c /\ ring'[q].cq[t].phase = dev[q].phase
    <2>1. ring[q].cq \in [Slot(q) -> [phase : {0, 1}, cmd : AnyCommand, status : Status]]
      BY <1>1, Zenon DEF QueueType
    <2> QED
      BY <1>4, <1>e, <2>1
  <1>13. ~Posted(q, t)
    BY <1>4 DEF Posted, Within, Slot, t
  <1>14. Bells(q)' /\ Laps(q)'
    BY <1>i, <1>4, <1>5, <1>6, NvmeAssumption, SMTT(30) DEF Bells, Laps, Indices, Slot, t, h
  <1>15. Tags(q)'
    <2> SUFFICES ASSUME NEW s \in Slot(q)
                 PROVE  ring'[q].cq[s].phase = (IF s >= h THEN ring[q].phase ELSE 1 - ring[q].phase)
                          <=> s = t \/ Posted(q, s)
      BY <1>6, <1>10 DEF Tags, h
    <2>1. ring[q].cq[s].phase = (IF s >= h THEN ring[q].phase ELSE 1 - ring[q].phase) <=> Posted(q, s)
      BY <1>1 DEF QueueInv, Tags, h
    <2>2. dev[q].phase = IF h <= t THEN ring[q].phase ELSE 1 - ring[q].phase
      BY <1>i DEF Laps, t, h
    <2>3. CASE s = t
      <3>1. ring'[q].cq[s].phase = dev[q].phase
        BY <1>12, <2>3, Zenon
      <3>2. t >= h <=> h <= t
        BY <1>4 DEF Slot
      <3> QED
        BY <2>2, <2>3, <3>1, <3>2, Zenon
    <2>4. CASE s # t
      BY <1>12, <2>1, <2>4, Zenon
    <2> QED
      BY <2>3, <2>4, Zenon
  <1>16. Once(q)'
    <2>1. QueuedOnce(q) /\ PostedOnce(q) /\ ExecutingOnce(q) /\ TakenIssued(q)
      BY <1>1 DEF QueueInv, Once
    <2>2. /\ ring'[q].sq = ring[q].sq /\ issued'[q] = issued[q] /\ taken'[q] = taken[q]
          /\ dev'[q].executing = dev[q].executing \ {c}
      BY <1>6
    <2>3. \A r \in Slot(q) : r # t => ring'[q].cq[r].cmd = ring[q].cq[r].cmd
      BY <1>12
    <2>4. PostedOnce(q)'
      <3> SUFFICES ASSUME NEW s \in Slot(q), Posted(q, s)'
                   PROVE  /\ ring'[q].cq[s].cmd \in 1..issued[q]
                          /\ ring'[q].cq[s].cmd \notin (dev[q].executing \ {c}) \cup taken[q]
                          /\ \A r \in Slot(q) : Posted(q, r)' /\ r # s => ring'[q].cq[r].cmd # ring'[q].cq[s].cmd
        BY <2>2 DEF PostedOnce
      <3>1. CASE s = t
        BY <1>7, <1>10, <1>12, <2>3, <3>1, ZenonT(30)
      <3>2. CASE s # t
        <4>1. Posted(q, s) /\ ring'[q].cq[s].cmd = ring[q].cq[s].cmd
          BY <1>10, <2>3, <3>2, ZenonT(30)
        <4>2. \A r \in Slot(q) : Posted(q, r)' /\ r # s => ring'[q].cq[r].cmd # ring'[q].cq[s].cmd
          <5> SUFFICES ASSUME NEW r \in Slot(q), Posted(q, r)', r # s
                       PROVE  ring'[q].cq[r].cmd # ring'[q].cq[s].cmd
            OBVIOUS
          <5>1. CASE r = t
            BY <1>7, <1>12, <4>1, <5>1, Zenon
          <5>2. CASE r # t
            <6>1. Posted(q, r) /\ ring'[q].cq[r].cmd = ring[q].cq[r].cmd
              BY <1>10, <2>3, <5>2, Zenon
            <6> QED
              BY <2>1, <4>1, <6>1, Zenon DEF PostedOnce
          <5> QED
            BY <5>1, <5>2
        <4> QED
          BY <2>1, <4>1, <4>2 DEF PostedOnce
      <3> QED
        BY <3>1, <3>2
    <2>5. QueuedOnce(q)'
      <3> SUFFICES ASSUME NEW s \in Slot(q), Queued(q, s)
                   PROVE  /\ ring[q].sq[s] \in 1..issued[q]
                          /\ ring[q].sq[s] \notin (dev[q].executing \ {c}) \cup taken[q]
                          /\ \A r \in Slot(q) : Queued(q, r) /\ r # s => ring[q].sq[r] # ring[q].sq[s]
                          /\ \A r \in Slot(q) : Posted(q, r)' => ring'[q].cq[r].cmd # ring[q].sq[s]
        BY <1>11, <2>2, Zenon DEF QueuedOnce
      <3>1. \A r \in Slot(q) : Posted(q, r)' => ring'[q].cq[r].cmd # ring[q].sq[s]
        <4> SUFFICES ASSUME NEW r \in Slot(q), Posted(q, r)' PROVE ring'[q].cq[r].cmd # ring[q].sq[s]
          OBVIOUS
        <4>1. CASE r = t
          BY <1>7, <1>12, <4>1, Zenon
        <4>2. CASE r # t
          <5>1. Posted(q, r) /\ ring'[q].cq[r].cmd = ring[q].cq[r].cmd
            BY <1>10, <2>3, <4>2, Zenon
          <5> QED
            BY <2>1, <5>1, Zenon DEF QueuedOnce
        <4> QED
          BY <4>1, <4>2
      <3> QED
        BY <2>1, <3>1, Zenon DEF QueuedOnce
    <2>6. ExecutingOnce(q)' /\ TakenIssued(q)'
      BY <2>1, <2>2 DEF ExecutingOnce, TakenIssued
    <2> QED
      BY <2>4, <2>5, <2>6 DEF Once
  <1>17. ASSUME Alone(q) PROVE Alone(q)'
    <2> SUFFICES ASSUME timeouts[q] = {} PROVE Alone(q)'
      BY <1>6 DEF Alone
    <2>1. c = issued[q] /\ waiting = q /\ waiting' = waiting
      BY <1>2, <1>17 DEF Alone, Post, calls
    <2>2. \A s \in Slot(q) : Posted(q, s)' => ring'[q].cq[s].cmd = issued[q]
      BY <1>10, <1>12, <1>17, <2>1 DEF Alone
    <2> QED
      BY <1>6, <1>11, <1>17, <2>1, <2>2, ZenonT(30) DEF Alone
  <1> QED
    BY <1>8, <1>9, <1>14, <1>15, <1>16, <1>17 DEF QueueInv

-----------------------------------------------------------------------------
(* The invariant *)

LEMMA RingInit == Init => RingInv
  <1> SUFFICES ASSUME Init PROVE RingInv
    OBVIOUS
  <1>1. TypeOK
    <2>1. ASSUME NEW q \in Queue PROVE QueueType(q)
      <3>1. 0 \in Slot(q) /\ 0 \in AnyCommand /\ 0 \in Status /\ 0 \in {0, 1} /\ 1 \in {0, 1}
        BY NvmeAssumption DEF Slot, AnyCommand, NoCommand, Status
      <3>2. /\ ring[q] = NewRing(q) /\ doorbell[q] = [sq |-> 0, cq |-> 0]
            /\ dev[q] = [head |-> 0, tail |-> 0, phase |-> 1, executing |-> {}]
            /\ issued[q] = 0 /\ taken[q] = {} /\ timeouts[q] = {} /\ answer[q] = NoAnswer
        BY Zenon DEF Init
      <3>3. NoEntry \in [phase : {0, 1}, cmd : AnyCommand, status : Status]
        BY <3>1 DEF NoEntry, NoCommand
      <3>4. ring[q] \in [sq : [Slot(q) -> AnyCommand], sq_tail : Slot(q), cq_head : Slot(q), phase : {0, 1},
                  cq : [Slot(q) -> [phase : {0, 1}, cmd : AnyCommand, status : Status]]]
        BY <3>1, <3>2, <3>3, SMTT(30) DEF NewRing, InitPhase, NoCommand
      <3>5. dev[q] \in [head : Slot(q), tail : Slot(q), phase : {0, 1}, executing : SUBSET Command(q)]
        BY <3>1, <3>2, SMTT(30)
      <3>6. doorbell[q] \in [sq : Slot(q), cq : Slot(q)]
        BY <3>1, <3>2, SMTT(30)
      <3>7. answer[q] \in [to : AnyCommand, cmd : AnyCommand, status : Status]
        BY <3>1, <3>2 DEF NoAnswer, NoCommand
      <3> QED
        BY <3>2, <3>4, <3>5, <3>6, <3>7, Zenon DEF QueueType
    <2>2. /\ step \in Step /\ queues \subseteq Queue /\ created \subseteq Request /\ layout \in Layout
          /\ cc \in BOOLEAN /\ csts \in BOOLEAN /\ waiting \in Queue \cup {NoQueue}
      BY Zenon DEF Init, Step
    <2> QED
      BY <2>1, <2>2, TypeByQueue, Zenon
  <1>2. PerQueue
    BY DEF Init, PerQueue
  <1>3. Steps
    BY DEF Init, Steps, Queue, Admin, Io, NoQueue
  <1>4. ASSUME NEW q \in Queue PROVE QueueInv(q)
    <2>1. qsize[q] \in Nat /\ qsize[q] >= 2 /\ 0 \in Slot(q)
      BY NvmeAssumption DEF Slot
    <2>2. /\ ring[q] = NewRing(q) /\ doorbell[q] = [sq |-> 0, cq |-> 0]
          /\ dev[q] = [head |-> 0, tail |-> 0, phase |-> 1, executing |-> {}]
          /\ issued[q] = 0 /\ taken[q] = {}
      BY Zenon DEF Init
    <2>3. /\ ring[q].sq_tail = 0 /\ ring[q].cq_head = 0 /\ ring[q].phase = 1
          /\ \A s \in Slot(q) : ring[q].cq[s].phase = 0
          /\ doorbell[q].sq = 0 /\ doorbell[q].cq = 0
          /\ dev[q].head = 0 /\ dev[q].tail = 0 /\ dev[q].phase = 1 /\ dev[q].executing = {}
      <3>1. /\ NewRing(q).sq_tail = 0 /\ NewRing(q).cq_head = 0 /\ NewRing(q).phase = 1
            /\ NewRing(q).cq = [s \in Slot(q) |-> NoEntry]
        BY DEF NewRing, InitPhase
      <3>2. NoEntry.phase = 0
        BY DEF NoEntry
      <3>3. \A s \in Slot(q) : ring[q].cq[s] = NoEntry
        BY <2>2, <3>1, Zenon
      <3>4. doorbell[q].sq = 0 /\ doorbell[q].cq = 0
        BY <2>2
      <3>5. dev[q].head = 0 /\ dev[q].tail = 0 /\ dev[q].phase = 1 /\ dev[q].executing = {}
        BY <2>2
      <3> QED
        BY <2>2, <3>1, <3>2, <3>3, <3>4, <3>5, Zenon
    <2>4. \A s \in Slot(q) : ~Posted(q, s) /\ ~Queued(q, s)
      <3>1. \A s \in Slot(q) : ~Within(0, 0, s)
        BY <2>1 DEF Within, Slot
      <3> QED
        BY <2>3, <3>1, Zenon DEF Posted, Queued
    <2>5. Bells(q) /\ Laps(q)
      <3>1. 0 <= 0
        OBVIOUS
      <3> QED
        BY <2>3, <3>1, Zenon DEF Bells, Laps
    <2>6. Tags(q)
      BY <2>1, <2>3, <2>4 DEF Tags, Slot
    <2>7. Once(q)
      BY <2>2, <2>3, <2>4, Zenon DEF Once, QueuedOnce, PostedOnce, ExecutingOnce, TakenIssued
    <2> QED
      BY <2>5, <2>6, <2>7 DEF QueueInv
  <1> QED
    BY <1>1, <1>2, <1>3, <1>4 DEF RingInv

(* A step that leaves the queues alone. *)
LEMMA RingQuiet ==
  ASSUME RingInv, UNCHANGED <<ring, doorbell, dev, issued, taken, timeouts, answer>>,
         (step \in Step /\ queues \subseteq Queue /\ created \subseteq Request /\ layout \in Layout
            /\ cc \in BOOLEAN /\ csts \in BOOLEAN /\ waiting \in Queue \cup {NoQueue})',
         Steps'
  PROVE  RingInv'
  <1>1. PerQueue'
    BY DEF RingInv, PerQueue
  <1>2. ASSUME NEW q \in Queue PROVE QueueInv(q)' /\ QueueType(q)'
    <2>1. QueueInv(q) /\ QueueType(q)
      BY OfQueue, Zenon
    <2> QED
      BY <2>1, Untouched, Zenon DEF QueueType
  <1>3. TypeOK'
    BY <1>2, Zenon DEF TypeOK, QueueType
  <1> QED
    BY <1>1, <1>2, <1>3 DEF RingInv

(* A step of one queue: the other one is left alone. *)
LEMMA RingOfOne ==
  ASSUME RingInv, NEW q \in Queue, QueueInv(q)', QueueType(q)', PerQueue', Steps',
         \A r \in Queue \ {q} :
           /\ ring'[r] = ring[r] /\ doorbell'[r] = doorbell[r] /\ dev'[r] = dev[r] /\ issued'[r] = issued[r]
           /\ taken'[r] = taken[r] /\ timeouts'[r] = timeouts[r] /\ answer'[r] = answer[r],
         (step \in Step /\ queues \subseteq Queue /\ created \subseteq Request /\ layout \in Layout
            /\ cc \in BOOLEAN /\ csts \in BOOLEAN /\ waiting \in Queue \cup {NoQueue})'
  PROVE  RingInv'
  <1>1. ASSUME NEW r \in Queue PROVE QueueInv(r)' /\ QueueType(r)'
    <2>1. CASE r = q
      BY <2>1
    <2>2. CASE r # q
      <3>1. QueueInv(r) /\ QueueType(r)
        BY OfQueue, Zenon
      <3> QED
        BY <2>2, <3>1, Untouched, Zenon DEF QueueType
    <2> QED
      BY <2>1, <2>2
  <1>2. TypeOK'
    BY <1>1, Zenon DEF TypeOK, QueueType
  <1> QED
    BY <1>1, <1>2, Zenon DEF RingInv

LEMMA StepsSubmit ==
  ASSUME TypeOK, PerQueue, Steps, NEW q \in Queue, Submit(q)
  PROVE  Steps'
  BY DEF TypeOK, PerQueue, Steps, Submit, MayIssue, Queue, Admin, Io, NoQueue, Command

LEMMA StepsAfter ==
  ASSUME TypeOK, Steps, NEW q \in Queue, waiting = q, NEW ok \in BOOLEAN,
         waiting' = NoQueue, step' = AfterCommand(ok), issued' = issued
  PROVE  Steps' /\ step' \in Step
  BY DEF TypeOK, Steps, AfterCommand, Step, Queue, Admin, Io, NoQueue

LEMMA RingStep == RingInv /\ [Next]_vars => RingInv'
  <1> SUFFICES ASSUME RingInv, [Next]_vars PROVE RingInv'
    OBVIOUS
  <1>1. TypeOK /\ PerQueue /\ Steps
    BY DEF RingInv
  <1> DEFINE Plain == (step \in Step /\ queues \subseteq Queue /\ created \subseteq Request /\ layout \in Layout
                         /\ cc \in BOOLEAN /\ csts \in BOOLEAN /\ waiting \in Queue \cup {NoQueue})'
             Still == UNCHANGED <<ring, doorbell, dev, issued, taken, timeouts, answer>>
  <1>2. CASE Begin
    <2>1. Still /\ Plain
      BY <1>1, <1>2 DEF Begin, calls, device, TypeOK, Step
    <2>2. Steps'
      BY <1>1, <1>2 DEF Begin, calls, device, Steps, Queue, Admin, Io, NoQueue
    <2> QED
      BY <2>1, <2>2, RingQuiet
  <1>3. CASE Disabled \/ Enabled \/ NotReady
    <2>1. Still /\ Plain
      BY <1>1, <1>3 DEF Disabled, Enabled, NotReady, calls, device, TypeOK, Step
    <2>2. Steps'
      BY <1>1, <1>3 DEF Disabled, Enabled, NotReady, calls, device, Steps, Queue, Admin, Io, NoQueue
    <2> QED
      BY <2>1, <2>2, RingQuiet
  <1>4. CASE Enable \/ CreateIoQueue
    <2>1. Still /\ Plain
      BY <1>1, <1>4, Zenon DEF Enable, CreateIoQueue, calls, device, TypeOK, Step, Queue
    <2>2. Steps'
      BY <1>1, <1>4 DEF Enable, CreateIoQueue, calls, device, Steps, Queue, Admin, Io, NoQueue
    <2> QED
      BY <2>1, <2>2, RingQuiet
  <1>5. CASE FollowEnable \/ UNCHANGED vars
    <2>1. Still /\ Plain
      BY <1>1, <1>5 DEF FollowEnable, vars, calls, device, TypeOK
    <2>2. Steps'
      BY <1>1, <1>5 DEF FollowEnable, vars, calls, device, Steps
    <2> QED
      BY <2>1, <2>2, RingQuiet
  <1>6. ASSUME NEW q \in Queue, Submit(q) PROVE RingInv'
    <2>1. QueueInv(q)' /\ QueueType(q)'
      BY <1>6, SubmitOwn
    <2>2. PerQueue'
      BY <1>1, <1>6, Zenon DEF Submit, PerQueue, device
    <2>3. Steps'
      BY <1>1, <1>6, StepsSubmit
    <2>4. Plain
      BY <1>1, <1>6 DEF Submit, device, TypeOK
    <2>5. \A r \in Queue \ {q} :
           /\ ring'[r] = ring[r] /\ doorbell'[r] = doorbell[r] /\ dev'[r] = dev[r] /\ issued'[r] = issued[r]
           /\ taken'[r] = taken[r] /\ timeouts'[r] = timeouts[r] /\ answer'[r] = answer[r]
      BY <1>1, <1>6 DEF Submit, PerQueue, device
    <2> QED
      BY <2>1, <2>2, <2>3, <2>4, <2>5, RingOfOne
  <1>7. ASSUME NEW q \in Queue, Complete(q) PROVE RingInv'
    <2>1. QueueInv(q)' /\ QueueType(q)'
      BY <1>7, CompleteOwn
    <2>2. PerQueue'
      BY <1>1, <1>7, Zenon DEF Complete, PerQueue, device
    <2>3. Steps' /\ step' \in Step
      <3>1. (Head(q).status = 0) \in BOOLEAN
        OBVIOUS
      <3> QED
        BY <1>1, <1>7, <3>1, StepsAfter, Zenon DEF Complete
    <2>4. Plain
      BY <1>1, <1>7, <2>3 DEF Complete, device, TypeOK
    <2>5. \A r \in Queue \ {q} :
           /\ ring'[r] = ring[r] /\ doorbell'[r] = doorbell[r] /\ dev'[r] = dev[r] /\ issued'[r] = issued[r]
           /\ taken'[r] = taken[r] /\ timeouts'[r] = timeouts[r] /\ answer'[r] = answer[r]
      BY <1>1, <1>7, Zenon DEF Complete, PerQueue, device
    <2> QED
      BY <2>1, <2>2, <2>3, <2>4, <2>5, RingOfOne
  <1>8. ASSUME NEW q \in Queue, GiveUp(q) PROVE RingInv'
    <2>1. QueueInv(q) /\ QueueType(q)
      BY OfQueue, Zenon
    <2>2. timeouts'[q] = timeouts[q] \cup {issued[q]} /\ issued[q] \in Command(q)
      BY <1>1, <1>8, <2>1 DEF GiveUp, PerQueue, Steps, QueueType
    <2>3. QueueInv(q)' /\ QueueType(q)'
      BY <1>8, <2>1, <2>2, Untouched, Zenon DEF GiveUp, QueueType, device
    <2>4. PerQueue'
      BY <1>1, <1>8, Zenon DEF GiveUp, PerQueue, device
    <2>5. Steps' /\ step' \in Step
      BY <1>1, <1>8, StepsAfter, Zenon DEF GiveUp
    <2>6. Plain
      BY <1>1, <1>8, <2>5, Zenon DEF GiveUp, device, TypeOK
    <2>7. \A r \in Queue \ {q} :
           /\ ring'[r] = ring[r] /\ doorbell'[r] = doorbell[r] /\ dev'[r] = dev[r] /\ issued'[r] = issued[r]
           /\ taken'[r] = taken[r] /\ timeouts'[r] = timeouts[r] /\ answer'[r] = answer[r]
      <3>1. ring' = ring /\ doorbell' = doorbell /\ dev' = dev /\ issued' = issued /\ taken' = taken
        BY <1>8, Zenon DEF GiveUp, device
      <3>2. \A r \in Queue \ {q} : timeouts'[r] = timeouts[r] /\ answer'[r] = answer[r]
        BY <1>1, <1>8, Zenon DEF GiveUp, PerQueue
      <3> QED
        BY <3>1, <3>2, Zenon
    <2> QED
      BY <2>3, <2>4, <2>5, <2>6, <2>7, RingOfOne
  <1>9. ASSUME NEW q \in Queue, Fetch(q) PROVE RingInv'
    <2>1. QueueInv(q)' /\ QueueType(q)'
      BY <1>9, FetchOwn
    <2>2. PerQueue' /\ Steps' /\ Plain
      BY <1>1, <1>9, ZenonT(30) DEF Fetch, PerQueue, Steps, calls, TypeOK
    <2>3. \A r \in Queue \ {q} :
           /\ ring'[r] = ring[r] /\ doorbell'[r] = doorbell[r] /\ dev'[r] = dev[r] /\ issued'[r] = issued[r]
           /\ taken'[r] = taken[r] /\ timeouts'[r] = timeouts[r] /\ answer'[r] = answer[r]
      BY <1>1, <1>9 DEF Fetch, PerQueue, calls
    <2> QED
      BY <2>1, <2>2, <2>3, RingOfOne, Zenon
  <1>10. ASSUME NEW q \in Queue, Post(q) PROVE RingInv'
    <2>1. QueueInv(q)' /\ QueueType(q)' /\ created' \subseteq Request /\ layout' \in Layout
      BY <1>10, PostOwn
    <2>2. PerQueue' /\ Steps'
      BY <1>1, <1>10, ZenonT(30) DEF Post, PerQueue, Steps, calls
    <2>3. Plain
      BY <1>1, <1>10, <2>1, Zenon DEF Post, calls, TypeOK
    <2>4. \A r \in Queue \ {q} :
           /\ ring'[r] = ring[r] /\ doorbell'[r] = doorbell[r] /\ dev'[r] = dev[r] /\ issued'[r] = issued[r]
           /\ taken'[r] = taken[r] /\ timeouts'[r] = timeouts[r] /\ answer'[r] = answer[r]
      BY <1>1, <1>10 DEF Post, PerQueue, calls
    <2> QED
      BY <2>1, <2>2, <2>3, <2>4, RingOfOne
  <1> QED
    BY <1>2, <1>3, <1>4, <1>5, <1>6, <1>7, <1>8, <1>9, <1>10 DEF Next

-----------------------------------------------------------------------------
(* What the invariant says *)

LEMMA RingTells == RingInv => PhaseTellsNew
  <1> SUFFICES ASSUME RingInv PROVE PhaseTellsNew
    OBVIOUS
  <1>1. ASSUME NEW q \in Queue, NEW s \in Slot(q)
        PROVE  ring[q].cq[s].phase = (IF s >= ring[q].cq_head THEN ring[q].phase ELSE 1 - ring[q].phase)
                 <=> s \in Pending(q)
    <2>1. QueueType(q) /\ Tags(q)
      BY OfQueue, Zenon DEF QueueInv
    <2> QED
      BY <2>1, PendingIsPosted DEF Tags
  <1> QED
    BY <1>1 DEF PhaseTellsNew, RingInv

(* Only a call that takes a completion changes what calls have returned. *)
LEMMA AnswerIsNew ==
  ASSUME RingInv, [Next]_vars, NEW q \in Queue, answer'[q] # answer[q]
  PROVE  taken'[q] # taken[q]
  <1>1. PerQueue
    BY DEF RingInv
  <1>2. Complete(q)
    <2>1. PICK r \in Queue : Complete(r)
      BY Zenon DEF Next, vars, calls, device, Begin, Disabled, Enable, Enabled, NotReady, CreateIoQueue,
         FollowEnable, Submit, GiveUp, Fetch, Post
    <2> QED
      BY <1>1, <2>1, Zenon DEF Complete, PerQueue
  <1> QED
    BY <1>2, CompleteOwn

(* In every run, for rings of any size and any number of commands, the     *)
(* entry that nvme_admin_cmd, nvme_read_blocks and nvme_write_blocks take  *)
(* by its phase tag is one that the controller has posted since, and none  *)
(* is taken twice: not after wraps, not after late completions.            *)
THEOREM CompletionsTakenOnce == Spec => EachCompletionOnce
  <1>1. RingInv /\ [Next]_vars =>
          [PhaseTellsNew /\ \A q \in Queue : answer'[q] # answer[q] => taken'[q] # taken[q]]_vars
    BY AnswerIsNew, RingTells
  <1> QED
    BY RingInit, RingStep, <1>1, PTL DEF Spec, EachCompletionOnce

-----------------------------------------------------------------------------
(* One command at a time *)

(* A step on one queue, or on none, leaves another queue's commands alone. *)
LEMMA AloneStays ==
  ASSUME NEW q \in Queue, Alone(q),
         ring'[q] = ring[q], doorbell'[q] = doorbell[q], dev'[q] = dev[q],
         issued'[q] = issued[q], answer'[q] = answer[q], timeouts'[q] = timeouts[q],
         waiting = q => waiting' = q
  PROVE  Alone(q)'
  <1>1. \A s \in Slot(q) : (Queued(q, s)' <=> Queued(q, s)) /\ (Posted(q, s)' <=> Posted(q, s))
    BY DEF Queued, Posted
  <1> QED
    BY <1>1 DEF Alone

LEMMA AloneInit == Init => \A q \in Queue : Alone(q)
  <1> SUFFICES ASSUME Init, NEW q \in Queue PROVE Alone(q)
    OBVIOUS
  <1>1. /\ ring[q].cq_head = 0 /\ doorbell[q] = [sq |-> 0, cq |-> 0] /\ answer[q] = NoAnswer
        /\ dev[q] = [head |-> 0, tail |-> 0, phase |-> 1, executing |-> {}]
    BY DEF Init, NewRing
  <1>2. \A s \in Slot(q) : ~Queued(q, s) /\ ~Posted(q, s)
    BY <1>1, NvmeAssumption DEF Queued, Posted, Within, Slot
  <1> QED
    BY <1>1, <1>2 DEF Alone, NoAnswer

LEMMA AloneStep ==
  ASSUME RingInv, \A q \in Queue : Alone(q), [Next]_vars, NEW r \in Queue
  PROVE  Alone(r)'
  <1>1. PerQueue /\ Alone(r)
    BY DEF RingInv
  <1>2. CASE Begin \/ Disabled \/ Enable \/ Enabled \/ NotReady \/ CreateIoQueue \/ FollowEnable \/ UNCHANGED vars
    <2>1. UNCHANGED <<ring, doorbell, dev, calls>>
      BY <1>2, Zenon DEF Begin, Disabled, Enable, Enabled, NotReady, CreateIoQueue, FollowEnable, vars, device
    <2> QED
      BY <1>1, <2>1, AloneStays DEF calls
  <1>3. ASSUME NEW q \in Queue, Submit(q) PROVE Alone(r)'
    <2>1. CASE q = r
      BY <1>1, <1>3, <2>1, SubmitOwn
    <2>2. CASE q # r
      <3>1. /\ ring'[r] = ring[r] /\ doorbell'[r] = doorbell[r] /\ dev'[r] = dev[r] /\ issued'[r] = issued[r]
            /\ answer'[r] = answer[r] /\ timeouts'[r] = timeouts[r]
        BY <1>1, <1>3, <2>2 DEF Submit, PerQueue, device
      <3>2. waiting # r
        BY <1>3 DEF Submit, MayIssue, Queue, NoQueue, Admin, Io
      <3> QED
        BY <1>1, <3>1, <3>2, AloneStays, Zenon
    <2> QED
      BY <2>1, <2>2
  <1>4. ASSUME NEW q \in Queue, Complete(q) PROVE Alone(r)'
    <2>1. CASE q = r
      BY <1>1, <1>4, <2>1, CompleteOwn, ZenonT(30)
    <2>2. CASE q # r
      <3>1. /\ ring'[r] = ring[r] /\ doorbell'[r] = doorbell[r] /\ dev'[r] = dev[r] /\ issued'[r] = issued[r]
            /\ answer'[r] = answer[r] /\ timeouts'[r] = timeouts[r] /\ waiting = q
        BY <1>1, <1>4, <2>2, Zenon DEF Complete, PerQueue, device
      <3> QED
        BY <1>1, <2>2, <3>1, AloneStays, ZenonT(30)
    <2> QED
      BY <2>1, <2>2
  <1>5. ASSUME NEW q \in Queue, GiveUp(q) PROVE Alone(r)'
    <2>1. CASE q = r
      <3>1. timeouts'[r] # {}
        BY <1>1, <1>5, <2>1, ZenonT(30) DEF GiveUp, PerQueue
      <3> QED
        BY <3>1 DEF Alone
    <2>2. CASE q # r
      <3>1. /\ ring'[r] = ring[r] /\ doorbell'[r] = doorbell[r] /\ dev'[r] = dev[r] /\ issued'[r] = issued[r]
            /\ answer'[r] = answer[r] /\ timeouts'[r] = timeouts[r] /\ waiting = q
        BY <1>1, <1>5, <2>2 DEF GiveUp, PerQueue, device
      <3> QED
        BY <1>1, <2>2, <3>1, AloneStays
    <2> QED
      BY <2>1, <2>2
  <1>6. ASSUME NEW q \in Queue, Fetch(q) PROVE Alone(r)'
    <2>1. CASE q = r
      BY <1>1, <1>6, <2>1, FetchOwn
    <2>2. CASE q # r
      <3>1. /\ ring'[r] = ring[r] /\ doorbell'[r] = doorbell[r] /\ dev'[r] = dev[r] /\ issued'[r] = issued[r]
            /\ answer'[r] = answer[r] /\ timeouts'[r] = timeouts[r] /\ waiting' = waiting
        BY <1>1, <1>6, <2>2 DEF Fetch, PerQueue, calls
      <3> QED
        BY <1>1, <3>1, AloneStays
    <2> QED
      BY <2>1, <2>2
  <1>7. ASSUME NEW q \in Queue, Post(q) PROVE Alone(r)'
    <2>1. CASE q = r
      BY <1>1, <1>7, <2>1, PostOwn
    <2>2. CASE q # r
      <3>1. /\ ring'[r] = ring[r] /\ doorbell'[r] = doorbell[r] /\ dev'[r] = dev[r] /\ issued'[r] = issued[r]
            /\ answer'[r] = answer[r] /\ timeouts'[r] = timeouts[r] /\ waiting' = waiting
        BY <1>1, <1>7, <2>2 DEF Post, PerQueue, calls
      <3> QED
        BY <1>1, <3>1, AloneStays
    <2> QED
      BY <2>1, <2>2
  <1> QED
    BY <1>2, <1>3, <1>4, <1>5, <1>6, <1>7 DEF Next

(* For rings of any size and any number of commands: while no call on a    *)
(* queue has timed out, the completion that the driver takes is that of    *)
(* the command it has just submitted, although nothing in the protocol     *)
(* names the command, and between calls both rings are empty.              *)
THEOREM OwnAnswers == Spec => []OwnAnswerWithoutTimeout
  <1> DEFINE Ones == RingInv /\ \A q \in Queue : Alone(q)
  <1>1. Init => Ones
    BY RingInit, AloneInit
  <1>2. Ones /\ [Next]_vars => Ones'
    BY RingStep, AloneStep, ZenonT(30)
  <1>3. Ones => OwnAnswerWithoutTimeout
    <2> SUFFICES ASSUME Ones, NEW q \in Queue, timeouts[q] = {}
                 PROVE  /\ answer[q].to = answer[q].cmd
                        /\ waiting # q => dev[q].executing = {} /\ Pending(q) = {} /\ dev[q].head = doorbell[q].sq
      BY DEF OwnAnswerWithoutTimeout
    <2>1. QueueType(q) /\ Indices(q) /\ Alone(q)
      BY OfQueue, Zenon
    <2>2. ASSUME waiting # q PROVE dev[q].executing = {} /\ Pending(q) = {} /\ dev[q].head = doorbell[q].sq
      <3>1. dev[q].executing = {} /\ \A s \in Slot(q) : ~Queued(q, s) /\ ~Posted(q, s)
        BY <2>1, <2>2 DEF Alone
      <3>2. \A s \in Slot(q) : s \notin Pending(q)
        BY <2>1, <3>1, PendingIsPosted
      <3>3. Pending(q) = {}
        BY <3>2 DEF Pending
      <3>4. dev[q].head = doorbell[q].sq
        BY <2>1, <3>1, NvmeAssumption DEF Indices, Queued, Within, Slot
      <3> QED
        BY <3>1, <3>3, <3>4
    <2> QED
      BY <2>1, <2>2, ZenonT(30) DEF Alone
  <1> QED
    BY <1>1, <1>2, <1>3, PTL DEF Spec

(* For rings of any size: on a controller that reads cdw10 and cdw11 as    *)
(* NVM Express has it, CREATE_CQ makes queue qsize - 1, CREATE_SQ names a  *)
(* completion queue 1 that is not there, and no I/O pair comes about.      *)
THEOREM NvmeLayoutGetsNoIo == Spec => []NoIoWithNvmeLayout
  <1> DEFINE Lacks == layout = "nvme" => \A x \in created : x.op # "CREATE_SQ" /\ x.id # Io
             Inv == RingInv /\ Lacks
  <1>1. Init => Inv
    BY RingInit, Zenon DEF Init
  <1>2. Inv /\ [Next]_vars => Inv'
    <2> SUFFICES ASSUME RingInv, Lacks, [Next]_vars PROVE Lacks'
      BY RingStep, Zenon
    <2>1. CASE UNCHANGED <<created, layout>>
      BY <2>1, Zenon
    <2>2. ASSUME NEW q \in Queue, Post(q), layout = "nvme" PROVE \A x \in created' : x.op # "CREATE_SQ" /\ x.id # Io
      <3>1. PICK c \in dev[q].executing, st \in Status :
              /\ st = 0 => CanSucceed(q, c)
              /\ created' = IF q = Admin /\ st = 0 /\ Opcode[c] # "IDENTIFY" THEN created \cup {Asked(layout, c)} ELSE created
        BY <2>2, Zenon DEF Post
      <3>2. CASE q = Admin /\ st = 0 /\ Opcode[c] # "IDENTIFY"
        <4>1. Opcode[c] # "CREATE_SQ"
          <5>1. Asked(layout, c).cq = IF Opcode[c] = "CREATE_CQ" THEN 0 ELSE 1
            BY DEF Asked, Cdw
          <5> QED
            BY <2>2, <3>1, <3>2, <5>1 DEF CanSucceed, Io
        <4>2. Asked(layout, c).op = Opcode[c] /\ Asked(layout, c).id = qsize[Io] - 1
          BY <2>2 DEF Asked, Cdw
        <4>3. qsize[Io] \in Nat /\ qsize[Io] >= 3
          BY NvmeAssumption DEF Queue
        <4> QED
          BY <2>2, <3>1, <3>2, <4>1, <4>2, <4>3 DEF Io
      <3>3. CASE ~(q = Admin /\ st = 0 /\ Opcode[c] # "IDENTIFY")
        BY <2>2, <3>1, <3>3
      <3> QED
        BY <3>2, <3>3
    <2>3. (\E q \in Queue : Post(q) /\ layout' = layout) \/ UNCHANGED <<created, layout>>
      BY Zenon DEF Next, vars, device, Begin, Disabled, Enable, Enabled, NotReady, CreateIoQueue, FollowEnable,
                   Submit, Complete, GiveUp, Fetch, Post
    <2> QED
      BY <2>1, <2>2, <2>3, Zenon
  <1>3. Inv => NoIoWithNvmeLayout
    BY Zenon DEF NoIoWithNvmeLayout, Serves
  <1> QED
    BY <1>1, <1>2, <1>3, PTL DEF Spec
=============================================================================
