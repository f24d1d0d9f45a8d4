----------------------------- MODULE NvmeQueue -----------------------------
(***************************************************************************)
(* src/kernel/nvme.cpp: nvme_init brings the controller up and creates the *)
(* admin and the I/O queue pair; nvme_admin_cmd, nvme_read_blocks and      *)
(* nvme_write_blocks drive a pair one command at a time; the controller    *)
(* serves them.                                                            *)
(*                                                                         *)
(* Commands are numbered, queue by queue, in the order they are issued;    *)
(* the code sets no command id, so the number is not in the protocol.  The *)
(* driver waits for a bounded time; the controller answers in any order    *)
(* and as late as it likes, as an NVMe controller may.                     *)
(***************************************************************************)
EXTENDS Integers

CONSTANTS
  qsize,         \* entries of each ring of a queue (64 and 256 in the code)
  MaxCommands    \* bound on the reads and writes that are issued

Admin == 0
Io == 1
Queue == {Admin, Io}

ASSUME NvmeAssumption ==
  /\ qsize \in [Queue -> Nat] /\ \A q \in Queue : qsize[q] >= 2
  /\ qsize[Io] >= 3
  /\ MaxCommands \in Nat

Slot(q) == 0..(qsize[q] - 1)
Status == {0, 1}                 \* success, and any error
NoCommand == 0

(* nvme_init issues three admin commands, in this order. *)
Opcode_SqFirst == <<"IDENTIFY", "CREATE_SQ", "CREATE_CQ">>
Opcode == <<"IDENTIFY", "CREATE_CQ", "CREATE_SQ">>

(* What cdw10 and cdw11 of the two that create the I/O queues hold, in     *)
(* their low and high halves.                                              *)
Cdw(c) ==
  [lo10 |-> qsize[Io] - 1, hi10 |-> IF Opcode[c] = "CREATE_CQ" THEN 3 ELSE 1,
   lo11 |-> 1, hi11 |-> IF Opcode[c] = "CREATE_CQ" THEN 0 ELSE 1]

(* What a controller takes them for.  The driver has the size in cdw10 and *)
(* the queue's number in cdw11 ("CQ ID 1, SQ ID 1"); NVM Express has the   *)
(* number in the low half of cdw10 and the size in the high one.           *)
Layout == {"driver", "nvme"}

Asked(l, c) ==
  [op |-> Opcode[c], cq |-> Cdw(c).hi11,
   id |-> IF l = "driver" THEN Cdw(c).lo11 ELSE Cdw(c).lo10,
   entries |-> (IF l = "driver" THEN Cdw(c).lo10 ELSE Cdw(c).hi10) + 1]

Request == {Asked(l, c) : l \in Layout, c \in 1..3}

Command(q) == IF q = Admin THEN 1..3 ELSE 1..MaxCommands
AnyCommand == {NoCommand} \cup Command(Admin) \cup Command(Io)

(* Where nvme_init is: at one of its waits, at an admin command, or back.  *)
Step == {"start", "disabling", "setup", "enabling", "identify", "io_queue",
         "create_cq", "create_sq", "true", "false"}

NoQueue == 2

VARIABLES
  step,
  queues,        \* those of kAdminQ and kIoQ that are not null
  ring,          \* NvmeQueue of each pair: submission and completion ring, indices, phase
  doorbell,      \* doorbell registers of each pair
  cc, csts,      \* CC.EN and CSTS.RDY
  issued,        \* number of the last command issued on each queue
  waiting,       \* the queue the driver spins on, or NoQueue
  timeouts,      \* commands the driver gave up on
  answer,        \* what the last call on each queue returned, see NoAnswer
  taken,         \* history: commands whose completion was taken
  dev,           \* the controller's side of each pair
  created,       \* the I/O queues the controller has made
  layout         \* how it reads cdw10 and cdw11

calls == <<issued, waiting, timeouts, answer, taken>>
device == <<dev, created, layout>>
vars == <<step, queues, ring, doorbell, cc, csts, calls, device>>

NoEntry == [phase |-> 0, cmd |-> NoCommand, status |-> 0]
NoAnswer == [to |-> NoCommand, cmd |-> NoCommand, status |-> 0]

InitPhase_Zero == 0
InitPhase == 1

(* nvme_create_queue: zeroed rings, phase 1. *)
NewRing(q) ==
  [sq |-> [s \in Slot(q) |-> NoCommand], sq_tail |-> 0,
   cq |-> [s \in Slot(q) |-> NoEntry], cq_head |-> 0, phase |-> InitPhase]

(* The firmware may leave the controller running. *)
Init ==
  /\ step = "start" /\ queues = {} /\ ring = [q \in Queue |-> NewRing(q)]
  /\ cc \in BOOLEAN /\ csts = cc
  /\ issued = [q \in Queue |-> 0] /\ waiting = NoQueue
  /\ timeouts = [q \in Queue |-> {}] /\ taken = [q \in Queue |-> {}]
  /\ answer = [q \in Queue |-> NoAnswer]
  /\ doorbell = [q \in Queue |-> [sq |-> 0, cq |-> 0]]
  /\ dev = [q \in Queue |-> [head |-> 0, tail |-> 0, phase |-> 1, executing |-> {}]]
  /\ created = {} /\ layout \in Layout

-----------------------------------------------------------------------------
(* nvme_init, from wait to wait. *)

(* BAR0 may be zero; a controller that is enabled is disabled first. *)
Begin ==
  /\ step = "start"
  /\ \E bar0 \in BOOLEAN :
       /\ step' = IF ~bar0 THEN "false" ELSE IF cc THEN "disabling" ELSE "setup"
       /\ cc' = (cc /\ ~bar0)
  /\ UNCHANGED <<queues, ring, doorbell, csts, calls, device>>

Disabled ==
  /\ step = "disabling" /\ ~csts
  /\ step' = "setup"
  /\ UNCHANGED <<queues, ring, doorbell, cc, csts, calls, device>>

(* The admin pair, its registers, CC.EN; without memory for it, nothing. *)
Enable ==
  /\ step = "setup"
  /\ \/ /\ queues' = queues \cup {Admin}
        /\ cc' = TRUE
        /\ step' = "enabling"
     \/ step' = "false" /\ UNCHANGED <<queues, cc>>
  /\ UNCHANGED <<ring, doorbell, csts, calls, device>>

(* Ready; the page for the identify data may be missing. *)
Enabled ==
  /\ step = "enabling" /\ csts
  /\ step' \in {"identify", "false"}
  /\ UNCHANGED <<queues, ring, doorbell, cc, csts, calls, device>>

(* The count of a wait for CSTS.RDY runs out.  The bit is read once more   *)
(* after the count has reached zero, so it may have changed in time.       *)
NotReady ==
  /\ step \in {"disabling", "enabling"}
  /\ step' = "false"
  /\ UNCHANGED <<queues, ring, doorbell, cc, csts, calls, device>>

(* The I/O pair; without memory for it nvme_init is done. *)
CreateIoQueue ==
  /\ step = "io_queue"
  /\ \/ queues' = queues \cup {Io} /\ step' = "create_cq"
     \/ step' = "true" /\ UNCHANGED queues
  /\ UNCHANGED <<ring, doorbell, cc, csts, calls, device>>

(* What nvme_init does with the result of its admin command: only that of  *)
(* Identify matters.                                                       *)
AfterCommand(ok) ==
  CASE step = "identify" -> IF ok THEN "io_queue" ELSE "false"
    [] step = "create_cq" -> "create_sq"
    [] OTHER -> "true"

-----------------------------------------------------------------------------
(* The three calls that issue a command. *)

Advance(q, i) == (i + 1) % qsize[q]

(* nvme_init issues admin commands; reads and writes come after it.        *)
MayIssue(q) ==
  /\ q \in queues /\ waiting = NoQueue
  /\ IF q = Admin THEN step \in {"identify", "create_cq", "create_sq"}
                  ELSE step = "true" /\ issued[Io] < MaxCommands

(* Place the command at the tail and ring the doorbell; nobody looks       *)
(* whether the ring has room.                                              *)
Submit(q) ==
  /\ MayIssue(q)
  /\ issued' = [issued EXCEPT ![q] = @ + 1]
  /\ LET tail == ring[q].sq_tail
     IN  /\ ring' = [ring EXCEPT ![q].sq[tail] = issued'[q], ![q].sq_tail = Advance(q, tail)]
         /\ doorbell' = [doorbell EXCEPT ![q].sq = Advance(q, tail)]
  /\ waiting' = q
  /\ UNCHANGED <<step, queues, cc, csts, timeouts, answer, taken, device>>

Head(q) == ring[q].cq[ring[q].cq_head]

EntryVisible(q) == Head(q).phase = ring[q].phase

NextPhase_Keep(q, h) == ring[q].phase
NextPhase(q, h) == IF h = 0 THEN 1 - ring[q].phase ELSE ring[q].phase

(* The entry at the head has the expected phase: it is taken as the answer *)
(* to the command just submitted.                                          *)
Complete(q) ==
  /\ waiting = q /\ EntryVisible(q)
  /\ answer' = [answer EXCEPT ![q] = [to |-> issued[q], cmd |-> Head(q).cmd, status |-> Head(q).status]]
  /\ taken' = [taken EXCEPT ![q] = @ \cup {Head(q).cmd}]
  /\ LET h == Advance(q, ring[q].cq_head)
     IN  /\ ring' = [ring EXCEPT ![q].cq_head = h, ![q].phase = NextPhase(q, h)]
         /\ doorbell' = [doorbell EXCEPT ![q].cq = h]
  /\ waiting' = NoQueue
  /\ step' = AfterCommand(Head(q).status = 0)
  /\ UNCHANGED <<queues, cc, csts, issued, timeouts, device>>

(* The spin count runs out: -2, or false. *)
GiveUp(q) ==
  /\ waiting = q /\ ~EntryVisible(q)
  /\ waiting' = NoQueue
  /\ timeouts' = [timeouts EXCEPT ![q] = @ \cup {issued[q]}]
  /\ step' = AfterCommand(FALSE)
  /\ UNCHANGED <<queues, ring, doorbell, cc, csts, issued, answer, taken, device>>

-----------------------------------------------------------------------------
(* The controller (external). *)

FollowEnable ==
  /\ csts # cc
  /\ csts' = cc
  /\ UNCHANGED <<step, queues, ring, doorbell, cc, calls, device>>

Serves(q) ==
  csts /\ (q = Io => \E x \in created : x.op = "CREATE_SQ" /\ x.id = Io /\ x.entries = qsize[Io])

Fetch(q) ==
  /\ Serves(q) /\ dev[q].head # doorbell[q].sq
  /\ dev' = [dev EXCEPT ![q].executing = @ \cup {ring[q].sq[dev[q].head]},
                        ![q].head = Advance(q, @)]
  /\ UNCHANGED <<step, queues, ring, doorbell, cc, csts, calls, created, layout>>

(* A submission queue is made for a completion queue that is there. *)
CanSucceed(q, c) ==
  (q = Admin /\ Opcode[c] = "CREATE_SQ") =>
    \E x \in created : x.op = "CREATE_CQ" /\ x.id = Asked(layout, c).cq

(* A completion is posted unless the completion ring is full. *)
Post(q) ==
  /\ Advance(q, dev[q].tail) # doorbell[q].cq
  /\ \E c \in dev[q].executing, st \in Status :
       /\ st = 0 => CanSucceed(q, c)
       /\ ring' = [ring EXCEPT ![q].cq[dev[q].tail] = [phase |-> dev[q].phase, cmd |-> c, status |-> st]]
       /\ created' = IF q = Admin /\ st = 0 /\ Opcode[c] # "IDENTIFY" THEN created \cup {Asked(layout, c)} ELSE created
       /\ LET t == Advance(q, dev[q].tail)
          IN  dev' = [dev EXCEPT ![q].executing = @ \ {c}, ![q].tail = t,
                                 ![q].phase = IF t = 0 THEN 1 - @ ELSE @]
  /\ UNCHANGED <<step, queues, doorbell, cc, csts, calls, layout>>

Next ==
  \/ Begin \/ Disabled \/ Enable \/ Enabled \/ NotReady \/ CreateIoQueue \/ FollowEnable
  \/ \E q \in Queue : Submit(q) \/ Complete(q) \/ GiveUp(q) \/ Fetch(q) \/ Post(q)

Spec == Init /\ [][Next]_vars

(* The driver's loop runs on; the controller serves what it is given. *)
FairSpec ==
  Spec /\ \A q \in Queue : WF_vars(Complete(q)) /\ WF_vars(Fetch(q)) /\ WF_vars(Post(q))

-----------------------------------------------------------------------------
(* Properties. *)

(* Every variable has its type. *)
TypeOK ==
  /\ step \in Step /\ queues \subseteq Queue /\ created \subseteq Request /\ layout \in Layout
  /\ cc \in BOOLEAN /\ csts \in BOOLEAN /\ waiting \in Queue \cup {NoQueue}
  /\ \A q \in Queue :
       /\ ring[q] \in [sq : [Slot(q) -> AnyCommand], sq_tail : Slot(q), cq_head : Slot(q), phase : {0, 1},
                       cq : [Slot(q) -> [phase : {0, 1}, cmd : AnyCommand, status : Status]]]
       /\ doorbell[q] \in [sq : Slot(q), cq : Slot(q)]
       /\ dev[q] \in [head : Slot(q), tail : Slot(q), phase : {0, 1}, executing : SUBSET Command(q)]
       /\ issued[q] \in Command(q) \cup {0}
       /\ timeouts[q] \subseteq Command(q) /\ taken[q] \subseteq Command(q)
       /\ answer[q] \in [to : AnyCommand, cmd : AnyCommand, status : Status]

(* Slots the controller has filled and the driver has not taken. *)
Pending(q) ==
  LET h == ring[q].cq_head
  IN  {s \in Slot(q) : (s - h) % qsize[q] < (dev[q].tail - h) % qsize[q]}

(* The phase tag tells new entries from old ones, across any number of     *)
(* wraps: the driver sees an entry exactly when one is pending, and the    *)
(* pending entries are those whose tag is the phase of their lap.          *)
PhaseTellsNew ==
  TypeOK /\ \A q \in Queue : \A s \in Slot(q) :
    LET lap == IF s >= ring[q].cq_head THEN ring[q].phase ELSE 1 - ring[q].phase
    IN  ring[q].cq[s].phase = lap <=> s \in Pending(q)

(* While no call on a queue has timed out, the answer to a call is the     *)
(* completion of its own command, and nothing is left behind in the rings. *)
OwnAnswerWithoutTimeout ==
  \A q \in Queue : timeouts[q] = {} =>
    /\ answer[q].to = answer[q].cmd
    /\ waiting # q => dev[q].executing = {} /\ Pending(q) = {} /\ dev[q].head = doorbell[q].sq

(* No completion answers two calls, however late it comes and however      *)
(* often the rings wrap: an answer is a completion not taken before, and   *)
(* the phase tags keep telling new entries from old.                       *)
EachCompletionOnce ==
  [][PhaseTellsNew /\ \A q \in Queue : answer'[q] # answer[q] => taken'[q] # taken[q]]_vars

(* While no call has timed out, a controller that serves its queues answers*)
(* every call: no lap of the rings leaves the two sides waiting for each   *)
(* other.  For reads and writes it is enough that nvme_init saw its last   *)
(* admin command succeed: then the controller has both I/O queues, with    *)
(* the numbers and sizes that the driver goes by.  (One that reads the     *)
(* commands as NVM Express has it never lets that command succeed.)        *)
CallAnswered ==
  \A q \in Queue : \A c \in Command(q) :
    /\ waiting = q /\ issued[q] = c
    /\ \A r \in Queue : timeouts[r] = {}
    /\ q = Io => answer[Admin].status = 0
    ~> (waiting # q \/ issued[q] # c)

(* A controller that reads the commands as NVM Express has it never gets   *)
(* the I/O queue pair that nvme_read_blocks and nvme_write_blocks ring the *)
(* doorbells of.                                                           *)
NoIoWithNvmeLayout == layout = "nvme" => ~Serves(Io)

(* nvme.hpp, nvme_read_blocks: "true on success".  A call that reports     *)
(* success was answered by the completion of its own command.              *)
SuccessMeansDone == \A q \in Queue : answer[q].status = 0 => answer[q].to = answer[q].cmd

(* nvme.hpp, nvme_init: "true if controller was successfully initialized". *)
(* A controller that nvme_init reports as up has an I/O queue pair: false  *)
(* when an admin command fails, and always with the layout "nvme".         *)
TrueMeansUsable == step = "true" => Io \in queues /\ Serves(Io)
=============================================================================
