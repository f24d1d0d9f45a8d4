----------------------------- MODULE TrapFrames -----------------------------
(***************************************************************************)
(* What the assembly puts on the kernel stack and takes off it again: the  *)
(* interrupt stubs (isr_stubs.cpp) with isr_dispatch (idt.cpp), the system *)
(* call entry (syscall_entry.asm), and the switch to a new thread          *)
(* (kthread_create, context_switch.S, thread_trampoline).  The kernel      *)
(* stack is a sequence, its top at the end; a word is a number.            *)
(***************************************************************************)
EXTENDS Integers, Sequences, SequencesExt

CONSTANTS
  MaxNest,        \* traps on the stack at one time
  Touched,        \* registers that running code changes
  Numbers,        \* system calls that user code makes
  Results         \* what the system call functions return

ASSUME TrapAssumption == MaxNest \in Nat /\ Numbers \subseteq Nat /\ Results \subseteq Nat

(* The order of the pushes in isr_common_handler and syscall_entry. *)
GPR == <<"rax", "rbx", "rcx", "rdx", "rsi", "rdi", "rbp", "r8", "r9", "r10",
         "r11", "r12", "r13", "r14", "r15">>

(* struct InterruptFrame, from its last field to its first: as pushed. *)
InterruptFrame == <<"ss", "rsp", "rflags", "cs", "rip", "error_code", "vector">> \o GPR

Touchable == Touched \cap Range(GPR)

BREAKPOINT == 3
DOUBLE_FAULT == 8
GENERAL_PROTECT == 13
PAGE_FAULT == 14
TIMER == 32
Vectors == {BREAKPOINT, DOUBLE_FAULT, GENERAL_PROTECT, PAGE_FAULT, TIMER}
PushesErrorCode == {DOUBLE_FAULT, GENERAL_PROTECT, PAGE_FAULT}
ErrorCode == 7                       \* a write of user code to a present page
SYSCALL == 128                       \* the vector that syscall_entry writes
SYS_EXECVE == 59
UserSps == {1000, SYS_EXECVE}        \* stack pointers that user code has
KernelTop == 2000                    \* what is at [gs:0x18]
UserCs == 27
Selector == 8
Func == 77                           \* the function a new thread is to run
Trampoline == 78                     \* the address of thread_trampoline
Half == 65536                        \* stands for 2^32
UserRips == {1, 2, Half + 1, Half + 2}
Entry == 79                          \* where the program of an execve starts

VARIABLES
  gpr, rip, intr,     \* registers; interrupt flag, 0 or 1
  usp,                \* stack pointer of the code that no trap has interrupted
  stack,              \* kernel stack of the running thread
  parked,             \* kernel stack of the thread that was switched away from
  mode,               \* "run", "compat" (user code in 32-bit mode), "handler",
                      \* "syscall", "lost", "panic", "started" (in
                      \* thread_trampoline) or "entered" (what it calls)
  saved,              \* the contexts that traps have interrupted, oldest first
  number, result      \* the system call made last, and what its function returned

vars == <<gpr, rip, intr, usp, stack, parked, mode, saved, number, result>>

Init ==
  /\ gpr = [r \in Range(GPR) |-> 0] /\ rip \in {1, Half + 1} /\ intr = 1
  /\ usp \in UserSps /\ stack = <<>> /\ parked = <<>> /\ mode = "run" /\ saved = <<>>
  /\ number = 0 /\ result = 0

(* Code that is not in a handler goes on. *)
Compute(r) ==
  /\ mode \in {"run", "compat"}
  /\ gpr' = [gpr EXCEPT ![r] = 1 - @]
  /\ rip' = IF rip \in {1, Half + 1} THEN rip + 1 ELSE rip - 1
  /\ UNCHANGED <<intr, usp, stack, parked, mode, saved, number, result>>

-----------------------------------------------------------------------------
(* Interrupts *)

Pushed(g) == [i \in DOMAIN GPR |-> g[GPR[i]]]
Restored_Shifted(s) == [r \in Range(GPR) |-> s[Len(s) - Len(GPR) + (CHOOSE i \in DOMAIN GPR : GPR[(i % 15) + 1] = r)]]
Restored(s) == [r \in Range(GPR) |-> s[Len(s) - Len(GPR) + (CHOOSE i \in DOMAIN GPR : GPR[i] = r)]]
Dropped(s, n) == SubSeq(s, 1, Len(s) - n)

(* The field as C++ code reads it through the pointer to the top word. *)
Field(s, name) ==
  LET fromEnd == Len(InterruptFrame) - (CHOOSE i \in DOMAIN InterruptFrame : InterruptFrame[i] = name)
  IN  IF Len(s) > fromEnd THEN s[Len(s) - fromEnd] ELSE 0

StackPointer == IF stack = <<>> THEN usp ELSE Len(stack)

Context(vec) ==
  [gpr |-> gpr, rip |-> rip, sp |-> StackPointer, intr |-> intr, vec |-> vec, mode |-> mode]

(* The processor, the stub and the pushes of the common handler.  The gate *)
(* of a breakpoint leaves interrupts on.                                   *)
StubPushes_ErrorCode(vec) == <<0, vec>>
StubPushes(vec) == <<vec>>

GateKeepsIf(vec) == vec = BREAKPOINT

Interrupt(vec) ==
  /\ \/ mode \in {"run", "compat"}
     \/ mode = "handler" /\ vec = TIMER
     \/ mode \in {"syscall", "entered"} /\ vec = PAGE_FAULT
  /\ vec = TIMER => intr = 1
  /\ Len(saved) < MaxNest
  /\ stack' = stack \o <<Selector, StackPointer, intr, Selector, rip>>
                    \o (IF vec \in PushesErrorCode THEN <<ErrorCode>> ELSE <<>>)
                    \o StubPushes(vec) \o Pushed(gpr)
  /\ saved' = Append(saved, Context(vec))
  /\ intr' = IF GateKeepsIf(vec) THEN intr ELSE 0
  /\ mode' = "handler"
  /\ UNCHANGED <<gpr, rip, usp, parked, number, result>>

(* isr_dispatch: the handlers of #DF and #GP panic, and so does the one of *)
(* #PF for a fault that is not copy-on-write.                              *)
DispatchPanics ==
  /\ mode = "handler"
  /\ Field(stack, "vector") \in {DOUBLE_FAULT, GENERAL_PROTECT, PAGE_FAULT}
  /\ mode' = "panic"
  /\ UNCHANGED <<gpr, rip, intr, usp, stack, parked, saved, number, result>>

(* The handler returns: registers are popped, the vector is dropped, and   *)
(* IRETQ takes the next five words for RIP, CS, RFLAGS, RSP and SS.        *)
IretFrame(s) == Dropped(s, Len(GPR) + 1)

isr_common_handler_Return ==
  LET s == IretFrame(stack)
      sp == s[Len(s) - 3]
  IN  /\ mode = "handler"
      /\ Field(stack, "vector") \in {BREAKPOINT, PAGE_FAULT, TIMER}
      /\ gpr' = Restored(stack)
      /\ rip' = s[Len(s)]
      /\ IF s[Len(s) - 1] = Selector
         THEN /\ intr' = s[Len(s) - 2]
              /\ stack' = IF sp \in UserSps \cup {KernelTop} THEN <<>> ELSE SubSeq(stack, 1, sp)
              /\ mode' = Last(saved).mode
              /\ saved' = Front(saved)
         ELSE mode' = "lost" /\ UNCHANGED <<intr, stack, saved>>
      /\ UNCHANGED <<usp, parked, number, result>>

-----------------------------------------------------------------------------
(* System calls: user code, interrupts on, nothing on the kernel stack. *)

(* SYSCALL puts RIP in RCX and RFLAGS in R11; the entry code then goes     *)
(* through RAX to store the user's stack pointer, before RAX is pushed.    *)
AtPush_ViaRcx(g) == [g EXCEPT !["rcx"] = usp, !["r11"] = intr]
AtPush(g) == [g EXCEPT !["rax"] = usp, !["rcx"] = rip, !["r11"] = intr]

(* The entry code lays out CS below RIP. *)
syscall_entry(n) ==
  /\ mode = "run" /\ saved = <<>> /\ intr = 1
  /\ number' = n /\ result' = 0
  /\ stack' = <<UserCs, usp, intr, rip, UserCs, 0, SYSCALL>> \o Pushed(AtPush(gpr))
  /\ gpr' = AtPush(gpr)
  /\ intr' = 0
  /\ mode' = "syscall"
  /\ saved' = <<Context(SYSCALL)>>
  /\ UNCHANGED <<rip, usp, parked>>

(* Pop the registers and step over the rest of a frame, user stack pointer *)
(* included.  SYSRET without a 64-bit operand size takes RIP from the low  *)
(* half of RCX and goes on in 32-bit mode; RFLAGS come from R11.           *)
Sysret(frame) ==
  /\ gpr' = Restored(frame)
  /\ rip' = gpr'["rcx"] % Half /\ intr' = gpr'["r11"]
  /\ usp' = KernelTop
  /\ stack' = <<>>
  /\ mode' = "compat" /\ saved' = <<>>

(* syscall_handler returns the result in RAX, and the entry code pops RAX. *)
(* An execve that fails returns 0.                                         *)
syscall_entry_Return(x) ==
  /\ mode = "syscall"
  /\ Field(stack, "rax") = SYS_EXECVE => x = 0
  /\ result' = x
  /\ Sysret(stack)
  /\ UNCHANGED <<parked, number>>

(* sys_execve_impl sets these fields of its frame, then calls              *)
(* syscall_child_return, which leaves as the entry code does.              *)
ExecFields == [rip |-> Entry, rsp |-> 1000, rax |-> 0, cs |-> UserCs, ss |-> UserCs, rflags |-> 1]

ExecFrame(s) ==
  [i \in DOMAIN s |-> IF InterruptFrame[i] \in DOMAIN ExecFields THEN ExecFields[InterruptFrame[i]] ELSE s[i]]

sys_execve ==
  /\ mode = "syscall"
  /\ Field(stack, "rax") = SYS_EXECVE
  /\ result' = 0
  /\ Sysret(ExecFrame(stack))
  /\ UNCHANGED <<parked, number>>

-----------------------------------------------------------------------------
(* Switching threads *)

(* context_switch, from its first push to its last pop. *)
PushOrder == <<"rbx", "rbp", "r12", "r13", "r14", "r15">>
PopOrder_Swapped == <<"r15", "r14", "r12", "r13", "rbp", "rbx">>
PopOrder == <<"r15", "r14", "r13", "r12", "rbp", "rbx">>

(* What kthread_create leaves on a new stack: the address that RET pops,   *)
(* and the words named R15, R14, R13, R12, RBP and RBX.                    *)
NewFrame == <<Trampoline, 0, 0, 0, Func, 0, 0>>

(* The call of context_switch pushes its return address. *)
SwitchedOut == stack \o <<rip>> \o [i \in DOMAIN PushOrder |-> gpr[PushOrder[i]]]

(* The word of a stack that an index from its top names; 0 past its end. *)
FromTop(s, i) == IF i < Len(s) THEN s[Len(s) - i] ELSE 0
Popped(s) ==
  [regs |-> [r \in Range(PopOrder) |-> FromTop(s, (CHOOSE i \in DOMAIN PopOrder : PopOrder[i] = r) - 1)],
   rip |-> FromTop(s, Len(PopOrder)),
   stack |-> SubSeq(s, 1, Len(s) - Len(PopOrder) - 1)]

(* schedule, called by a kernel thread or by the timer's handler, switches *)
(* to a thread that has not run yet.                                       *)
context_switch_ToNew ==
  LET new == Popped(NewFrame)
  IN  /\ mode = "run" \/ (mode = "handler" /\ Last(saved).vec = TIMER)
      /\ parked' = SwitchedOut
      /\ gpr' = [r \in Range(GPR) |-> IF r \in Range(PopOrder) THEN new.regs[r] ELSE gpr[r]]
      /\ rip' = new.rip
      /\ stack' = new.stack /\ saved' = <<>>
      /\ mode' = "started"
      /\ UNCHANGED <<intr, usp, number, result>>

(* It calls the function that it takes R12 for. *)
thread_trampoline ==
  /\ mode = "started"
  /\ rip' = gpr["r12"]
  /\ mode' = "entered"
  /\ UNCHANGED <<gpr, intr, usp, stack, parked, saved, number, result>>

Next ==
  \/ \E r \in Touchable : Compute(r)
  \/ \E vec \in Vectors : Interrupt(vec)
  \/ DispatchPanics
  \/ isr_common_handler_Return
  \/ \E n \in Numbers : syscall_entry(n)
  \/ \E x \in Results : syscall_entry_Return(x)
  \/ sys_execve
  \/ context_switch_ToNew
  \/ thread_trampoline

Spec == Init /\ [][Next]_vars

-----------------------------------------------------------------------------
(* Properties. *)

(* A trap without an error code is transparent: when its handler returns,  *)
(* registers, RIP, stack and interrupt flag are those it interrupted, also *)
(* after traps nested in it.                                               *)
PlainTrapReturns ==
  [][(isr_common_handler_Return /\ Last(saved).vec \notin PushesErrorCode) =>
       /\ gpr' = Last(saved).gpr /\ rip' = Last(saved).rip /\ intr' = Last(saved).intr
       /\ Last(saved).sp = IF stack' = <<>> THEN usp ELSE Len(stack')]_vars

(* A system call gives user code back every register but RAX, RCX and R11, *)
(* the low half of its RIP and its interrupt flag, whatever the handler    *)
(* did in between, execve's changes to the frame included: syscall_entry   *)
(* has only these three to work with before it has pushed the others.      *)
SyscallKeepsRegisters ==
  [][(mode = "syscall" /\ mode' = "compat") =>
       LET before == Last(saved)
       IN  /\ \A r \in Range(GPR) \ {"rax", "rcx", "r11"} : gpr'[r] = before.gpr[r]
           /\ rip' = before.rip % Half /\ intr' = before.intr]_vars

(* A switch loses nothing of either thread: the words that context_switch  *)
(* leaves on the old thread's stack are the ones its pops would take back  *)
(* to the same registers, return address and stack, and the new thread     *)
(* arrives in thread_trampoline with its stack used up and its entry in    *)
(* one of the registers that survive calls.                                *)
SwitchIsExact ==
  [][(mode # "started" /\ mode' = "started") =>
       /\ LET old == Popped(parked')
          IN  old.rip = rip /\ old.stack = stack /\ \A r \in Range(PopOrder) : old.regs[r] = gpr[r]
       /\ rip' = Trampoline /\ stack' = <<>>
       /\ \E r \in Range(PopOrder) : gpr'[r] = Func]_vars

(* The handler of a fault with an error code reads the error code and the  *)
(* RIP of that fault in its InterruptFrame.                                *)
FaultFrameTruthful ==
  (mode = "handler" /\ Last(saved).vec \in PushesErrorCode) =>
    /\ Field(stack, "vector") = Last(saved).vec
    /\ Field(stack, "error_code") = ErrorCode
    /\ Field(stack, "rip") = Last(saved).rip

(* idt.hpp: stubs "push a fake error code (0) for vectors that don't have  *)
(* one, so the stack frame is always the same size".                       *)
FakeErrorCode ==
  (mode = "handler" /\ Last(saved).vec \notin PushesErrorCode) => Field(stack, "error_code") = 0

(* isr_stubs.cpp, of the return: "CPU restores CS:RIP, SS:RSP, RFLAGS". *)
ReturnsToInterrupted == mode # "lost"

(* syscall.cpp: "Syscall number is in RAX", of the frame. *)
NumberReachesHandler == mode = "syscall" => Field(stack, "rax") = number

(* syscall.cpp: "Parent returns child PID": a system call's result is what *)
(* user code finds in RAX.                                                 *)
ResultReachesUser == [][mode = "syscall" => gpr'["rax"] = result']_vars

(* syscall_entry.asm: "Save user RSP before switching to kernel stack": it *)
(* is there for user code to go on with.                                   *)
UserStackKept == [][usp' = usp]_vars

(* syscall_entry.asm: "SYSCALL/SYSRET in 64-bit mode". *)
StaysIn64BitMode == mode # "compat"

(* syscall.cpp, of execve: "Return to user mode at the ELF entry point". *)
ExecEnters == [][sys_execve => rip' = Entry]_vars

(* thread.cpp: "R12 holds the entry function pointer": that function is    *)
(* what a new thread runs.                                                 *)
NewThreadHasEntry == mode = "entered" => rip = Func
=============================================================================
