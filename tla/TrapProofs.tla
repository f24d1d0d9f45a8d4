----------------------------- MODULE TrapProofs -----------------------------
(***************************************************************************)
(* Proofs about TrapFrames.tla: what the handlers find on the kernel       *)
(* stack, and what the code that they interrupted gets back.               *)
(***************************************************************************)
EXTENDS TrapFrames, TLAPS

-----------------------------------------------------------------------------
(* Registers and their places *)

Registers == Range(GPR)

LEMMA Lengths ==
  /\ Len(GPR) = 15 /\ DOMAIN GPR = 1..15
  /\ Len(InterruptFrame) = 22 /\ DOMAIN InterruptFrame = 1..22
  BY DEF GPR, InterruptFrame

LEMMA EachOnce == \A j, k \in 1..15 : GPR[j] = GPR[k] => j = k
  BY DEF GPR

LEMMA RegisterNames == \A r \in Registers : \E k \in 1..15 : GPR[k] = r
  BY Lengths, Zenon DEF Registers, Range

LEMMA PlaceOf ==
  ASSUME NEW k \in 1..15
  PROVE  (CHOOSE j \in DOMAIN GPR : GPR[j] = GPR[k]) = k
  BY Lengths, EachOnce

LEMMA FieldPlaces ==
  /\ (CHOOSE j \in DOMAIN InterruptFrame : InterruptFrame[j] = "vector") = 7
  /\ (CHOOSE j \in DOMAIN InterruptFrame : InterruptFrame[j] = "error_code") = 6
  /\ (CHOOSE j \in DOMAIN InterruptFrame : InterruptFrame[j] = "rip") = 5
  <1>1. /\ InterruptFrame[7] = "vector" /\ \A j \in 1..22 : InterruptFrame[j] = "vector" => j = 7
        /\ InterruptFrame[6] = "error_code" /\ \A j \in 1..22 : InterruptFrame[j] = "error_code" => j = 6
        /\ InterruptFrame[5] = "rip" /\ \A j \in 1..22 : InterruptFrame[j] = "rip" => j = 5
    BY DEF InterruptFrame, GPR
  <1> QED
    BY <1>1, Lengths

-----------------------------------------------------------------------------
(* What is on the stack *)

(* The words that the processor, the stub and the common handler push for  *)
(* context c lie above the first n words of s, and nothing above them.     *)
PlainWords == 21

FrameWords(vec) == IF vec \in PushesErrorCode THEN PlainWords + 1 ELSE PlainWords

OnTop(s, g) == \A k \in 1..15 : s[Len(s) - 15 + k] = g[GPR[k]]

Holds(s, n, c) ==
  /\ Len(s) = n + FrameWords(c.vec)
  /\ s[n + 2] = c.sp /\ s[n + 3] = c.intr /\ s[n + 4] = Selector /\ s[n + 5] = c.rip
  /\ c.vec \in PushesErrorCode => s[n + 6] = ErrorCode
  /\ s[Len(s) - 15] = c.vec
  /\ OnTop(s, c.gpr)

(* Where RIP can be, and what a trap can have interrupted. *)
Places == UserRips \cup {0, Trampoline}

Contexts == [gpr : [Registers -> Int], rip : Places, sp : Nat, intr : {0, 1},
             vec : Vectors \cup {SYSCALL}, mode : {"run", "compat", "handler", "syscall", "entered"}]

TrapTypes ==
  /\ gpr \in [Registers -> Int] /\ intr \in {0, 1} /\ usp \in UserSps \cup {KernelTop}
  /\ stack \in Seq(Int) /\ saved \in Seq(Contexts)
  /\ mode \in {"run", "compat", "handler", "syscall", "lost", "panic", "started", "entered"}
  /\ mode # "lost" => rip \in Places
  /\ mode \in {"run", "compat"} => rip \in UserRips
  /\ mode = "started" => gpr["r12"] = 0

(* No trap is on the stack. *)
Level0 == mode \in {"run", "compat", "started", "entered"} /\ saved = <<>> /\ stack = <<>>

(* One is: only a breakpoint's handler runs with interrupts on. *)
First ==
  /\ saved[1].mode \in {"run", "compat"} => saved[1].rip \in UserRips
  /\ saved[1].mode \in {"run", "compat", "entered"} /\ saved[1].sp = usp
  /\ saved[1].mode = "entered" => saved[1].vec = PAGE_FAULT

Level1 ==
  /\ mode = "handler" /\ Len(saved) = 1 /\ Holds(stack, 0, saved[1])
  /\ First /\ saved[1].vec \in Vectors
  /\ intr = 1 => saved[1].vec = BREAKPOINT

(* Two are: the timer's came while the breakpoint's handler ran. *)
Level2 ==
  /\ mode = "handler" /\ Len(saved) = 2
  /\ Len(stack) > PlainWords /\ Holds(SubSeq(stack, 1, PlainWords), 0, saved[1]) /\ Holds(stack, PlainWords, saved[2])
  /\ First /\ saved[1].vec = BREAKPOINT
  /\ saved[2].vec = TIMER /\ saved[2].mode = "handler" /\ saved[2].sp = PlainWords
  /\ intr = 0

(* A system call is being handled, or has run into a page fault. *)
InCall(s) ==
  /\ Len(s) = Len(InterruptFrame)
  /\ saved[1].vec = SYSCALL /\ saved[1].rip \in UserRips
  /\ OnTop(s, [saved[1].gpr EXCEPT !["rax"] = usp, !["rcx"] = saved[1].rip, !["r11"] = saved[1].intr])

Call == mode = "syscall" /\ Len(saved) = 1 /\ InCall(stack) /\ intr = 0

FaultInCall ==
  /\ mode = "handler" /\ Len(saved) = 2 /\ saved[2].vec = PAGE_FAULT
  /\ Holds(stack, Len(InterruptFrame), saved[2]) /\ intr = 0

Levels == Level0 \/ Level1 \/ Level2 \/ Call \/ FaultInCall \/ mode \in {"lost", "panic"}

TrapInv == TrapTypes /\ Levels

-----------------------------------------------------------------------------
(* Pushing and popping *)

Joined(u, s, m, t, l) ==
  /\ u \in Seq(Int) /\ Len(u) = m + l
  /\ \A j \in 1..m : u[j] = s[j]
  /\ \A k \in 1..l : u[m + k] = t[k]

LEMMA Joining ==
  ASSUME NEW s \in Seq(Int), NEW t \in Seq(Int), NEW m \in Nat, NEW l \in Nat, Len(s) = m, Len(t) = l
  PROVE  Joined(s \o t, s, m, t, l)
  BY DEF Joined

LEMMA PushedWords ==
  ASSUME NEW g \in [Registers -> Int]
  PROVE  /\ Pushed(g) \in Seq(Int) /\ Len(Pushed(g)) = 15
         /\ \A k \in 1..15 : Pushed(g)[k] = g[GPR[k]]
  <1>1. Pushed(g) = [k \in 1..15 |-> g[GPR[k]]]
    BY Lengths DEF Pushed
  <1>2. \A k \in 1..15 : GPR[k] \in Registers
    BY Lengths, Zenon DEF Registers, Range
  <1>3. \A k \in 1..15 : g[GPR[k]] \in Int
    BY <1>2
  <1> QED
    BY <1>1, <1>3

Laid(s, c) ==
  s \o <<Selector, c.sp, c.intr, Selector, c.rip>>
    \o (IF c.vec \in PushesErrorCode THEN <<ErrorCode>> ELSE <<>>)
    \o <<c.vec>> \o Pushed(c.gpr)

LEMMA FrameLaid ==
  ASSUME NEW s \in Seq(Int), NEW c \in Contexts
  PROVE  /\ Laid(s, c) \in Seq(Int) /\ Holds(Laid(s, c), Len(s), c)
         /\ \A j \in 1..Len(s) : Laid(s, c)[j] = s[j]
  <1> DEFINE A == <<Selector, c.sp, c.intr, Selector, c.rip>>
             E == IF c.vec \in PushesErrorCode THEN <<ErrorCode>> ELSE <<>>
             V == <<c.vec>>
             P == Pushed(c.gpr)
             e == IF c.vec \in PushesErrorCode THEN 1 ELSE 0
  <1>1. /\ c.sp \in Int /\ c.intr \in Int /\ c.rip \in Int /\ c.vec \in Int /\ c.gpr \in [Registers -> Int]
        /\ Selector \in Int /\ ErrorCode \in Int
    BY DEF Contexts, Places, UserRips, Half, Trampoline, Vectors, SYSCALL, Selector, ErrorCode,
           BREAKPOINT, DOUBLE_FAULT, GENERAL_PROTECT, PAGE_FAULT, TIMER
  <1>2. /\ A \in Seq(Int) /\ Len(A) = 5
        /\ A[2] = c.sp /\ A[3] = c.intr /\ A[4] = Selector /\ A[5] = c.rip
    BY <1>1
  <1>3. E \in Seq(Int) /\ Len(E) = e /\ (c.vec \in PushesErrorCode => E[1] = ErrorCode)
    BY <1>1
  <1>4. V \in Seq(Int) /\ Len(V) = 1 /\ V[1] = c.vec
    BY <1>1
  <1>5. P \in Seq(Int) /\ Len(P) = 15 /\ \A k \in 1..15 : P[k] = c.gpr[GPR[k]]
    BY <1>1, PushedWords, Zenon
  <1>6. Laid(s, c) = (((s \o A) \o E) \o V) \o P
    BY DEF Laid
  <1>7. Len(s) \in Nat /\ e \in {0, 1} /\ (e = 1 <=> c.vec \in PushesErrorCode)
    OBVIOUS
  <1> HIDE DEF A, E, V, P, e
  <1> DEFINE s1 == s \o A
             s2 == s1 \o E
             s3 == s2 \o V
             t == s3 \o P
  <1>8. PICK n \in Nat : n = Len(s)
    BY <1>7
  <1>9. PICK a \in Nat, v \in Nat, p \in Nat : a = 5 /\ v = 1 /\ p = 15
    OBVIOUS
  <1>10. /\ n + a \in Nat /\ n + a + e \in Nat /\ n + a + e + v \in Nat /\ e \in Nat
         /\ Len(A) = a /\ Len(V) = v /\ Len(P) = p
    BY <1>2, <1>4, <1>5, <1>7, <1>9
  <1>11. Joined(s1, s, n, A, a)
    BY <1>2, <1>8, <1>10, Joining, Zenon
  <1> HIDE DEF s1
  <1>12. Joined(s2, s1, n + a, E, e)
    <2>1. s1 \in Seq(Int) /\ Len(s1) = n + a
      BY <1>11, Zenon DEF Joined
    <2> QED
      BY <1>3, <1>10, <2>1, Joining, Zenon
  <1> HIDE DEF s2
  <1>13. Joined(s3, s2, n + a + e, V, v)
    <2>1. s2 \in Seq(Int) /\ Len(s2) = n + a + e
      BY <1>12, Zenon DEF Joined
    <2> QED
      BY <1>4, <1>10, <2>1, Joining, Zenon
  <1> HIDE DEF s3
  <1>14. Joined(t, s3, n + a + e + v, P, p)
    <2>1. s3 \in Seq(Int) /\ Len(s3) = n + a + e + v
      BY <1>13, Zenon DEF Joined
    <2> QED
      BY <1>5, <1>10, <2>1, Joining, Zenon
  <1>15. Laid(s, c) = t
    BY <1>6 DEF s1, s2, s3
  <1> HIDE DEF t
  <1>17. \A j \in 1..(n + a) : t[j] = s1[j]
    <2> SUFFICES ASSUME NEW j \in 1..(n + a) PROVE t[j] = s1[j]
      OBVIOUS
    <2>1. j \in 1..(n + a + e) /\ j \in 1..(n + a + e + v)
      BY <1>7
    <2> QED
      BY <1>12, <1>13, <1>14, <2>1, Zenon DEF Joined
  <1>18. c.vec \in PushesErrorCode => t[n + a + e] = ErrorCode
    <2> SUFFICES ASSUME c.vec \in PushesErrorCode PROVE t[n + a + e] = ErrorCode
      OBVIOUS
    <2>1. e = 1
      BY <1>7, Zenon
    <2>2. e \in 1..e /\ n + a + e \in 1..(n + a + e) /\ n + a + e \in 1..(n + a + e + v)
      BY <2>1
    <2>3. E[e] = ErrorCode
      BY <1>3, <2>1, Zenon
    <2> QED
      BY <1>12, <1>13, <1>14, <2>2, <2>3, Zenon DEF Joined
  <1>19. t[n + a + e + v] = c.vec
    <2>1. v \in 1..v /\ n + a + e + v \in 1..(n + a + e + v)
      BY <1>7, <1>9
    <2>2. V[v] = c.vec
      BY <1>4, <1>9, Zenon
    <2> QED
      BY <1>13, <1>14, <2>1, <2>2, Zenon DEF Joined
  <1>20. Len(t) = n + FrameWords(c.vec) /\ Len(t) - 15 = n + a + e + v
    <2>1. PICK l : l = Len(t)
      OBVIOUS
    <2>2. l = n + a + e + v + p
      BY <1>14, <2>1, Zenon DEF Joined
    <2>3. l = n + FrameWords(c.vec) /\ l - 15 = n + a + e + v
      BY <1>7, <1>9, <2>2 DEF FrameWords, PlainWords
    <2> QED
      BY <2>1, <2>3, Zenon
  <1>21. OnTop(t, c.gpr)
    <2> SUFFICES ASSUME NEW k \in 1..15 PROVE t[Len(t) - 15 + k] = c.gpr[GPR[k]]
      BY Zenon DEF OnTop
    <2>1. k \in 1..p /\ P[k] = c.gpr[GPR[k]]
      BY <1>5, <1>9, Zenon
    <2> QED
      BY <1>14, <1>20, <2>1, Zenon DEF Joined
  <1>22. /\ t[n + 2] = c.sp /\ t[n + 3] = c.intr
         /\ t[n + 4] = Selector /\ t[n + 5] = c.rip
         /\ \A j \in 1..n : t[j] = s[j]
    <2>1. /\ \A k \in 1..5 : k \in 1..a /\ n + k \in 1..(n + a)
          /\ \A j \in 1..n : j \in 1..(n + a)
          /\ 2 \in 1..5 /\ 3 \in 1..5 /\ 4 \in 1..5 /\ 5 \in 1..5
      BY <1>9
    <2>2. \A k \in 1..5 : t[n + k] = A[k]
      BY <1>11, <1>17, <2>1, Zenon DEF Joined
    <2>3. \A j \in 1..n : t[j] = s[j]
      BY <1>11, <1>17, <2>1, Zenon DEF Joined
    <2> QED
      BY <1>2, <2>1, <2>2, <2>3, Zenon
  <1>23. c.vec \in PushesErrorCode => n + a + e = n + 6
    BY <1>7, <1>9
  <1> QED
    BY <1>8, <1>14, <1>15, <1>18, <1>19, <1>20, <1>21, <1>22, <1>23, Zenon DEF Holds, Joined

LEMMA RestoredIs ==
  ASSUME NEW s, NEW g \in [Registers -> Int], OnTop(s, g)
  PROVE  Restored(s) = g
  <1> DEFINE At(r) == CHOOSE j \in DOMAIN GPR : GPR[j] = r
  <1>1. ASSUME NEW r \in Registers PROVE s[Len(s) - Len(GPR) + At(r)] = g[r]
    <2>1. PICK k \in 1..15 : GPR[k] = r
      BY RegisterNames
    <2>2. At(r) = k
      BY <2>1, PlaceOf
    <2> QED
      BY <2>1, <2>2, Lengths, Zenon DEF OnTop
  <1>2. Restored(s) = [r \in Registers |-> s[Len(s) - Len(GPR) + At(r)]]
    BY DEF Restored, Registers
  <1> HIDE DEF At
  <1> QED
    BY <1>1, <1>2

LEMMA FieldIs ==
  ASSUME NEW s \in Seq(Int), Len(s) > 20
  PROVE  /\ Field(s, "vector") = s[Len(s) - 15]
         /\ Field(s, "error_code") = s[Len(s) - 16]
         /\ Field(s, "rip") = s[Len(s) - 17]
  <1>1. Len(s) \in Nat
    OBVIOUS
  <1>2. PICK l \in Nat : l = Len(s)
    BY <1>1
  <1>3. 22 - 7 = 15 /\ 22 - 6 = 16 /\ 22 - 5 = 17 /\ l > 15 /\ l > 16 /\ l > 17
    BY <1>2
  <1> QED
    BY <1>2, <1>3, Lengths, FieldPlaces, Zenon DEF Field

(* What IRETQ finds, n words up, when the handler returns. *)
LEMMA IretWords ==
  ASSUME NEW s \in Seq(Int), NEW n \in Nat, NEW c \in Contexts, Holds(s, n, c)
  PROVE  /\ Len(IretFrame(s)) = n + (IF c.vec \in PushesErrorCode THEN 6 ELSE 5)
         /\ \A j \in 1..Len(IretFrame(s)) : IretFrame(s)[j] = s[j]
         /\ Field(s, "vector") = c.vec /\ Restored(s) = c.gpr
  <1>1. Len(s) = n + (IF c.vec \in PushesErrorCode THEN 22 ELSE 21)
    <2>1. Len(s) = n + FrameWords(c.vec)
      BY Zenon DEF Holds
    <2> QED
      BY <2>1 DEF FrameWords, PlainWords
  <1>2. PICK m \in Nat : m = n + (IF c.vec \in PushesErrorCode THEN 6 ELSE 5)
    OBVIOUS
  <1>3. Len(s) = m + 16
    BY <1>1, <1>2
  <1>4. IretFrame(s) = SubSeq(s, 1, m)
    <2>1. Len(s) - 16 = m
      BY <1>3
    <2>2. 15 + 1 = 16
      OBVIOUS
    <2> QED
      BY <2>1, <2>2, Lengths, Zenon DEF IretFrame, Dropped
  <1>5. Len(SubSeq(s, 1, m)) = m /\ \A j \in 1..m : SubSeq(s, 1, m)[j] = s[j]
    BY <1>3
  <1>6. Field(s, "vector") = c.vec
    <2>1. Len(s) > 20
      BY <1>1
    <2> QED
      BY <2>1, FieldIs, Zenon DEF Holds
  <1>7. Restored(s) = c.gpr
    <2>1. c.gpr \in [Registers -> Int]
      BY DEF Contexts
    <2> QED
      BY <2>1, RestoredIs, Zenon DEF Holds
  <1> QED
    BY <1>2, <1>4, <1>5, <1>6, <1>7, Zenon

LEMMA PlainReturn ==
  ASSUME NEW s \in Seq(Int), NEW n \in Nat, NEW c \in Contexts, Holds(s, n, c), c.vec \notin PushesErrorCode
  PROVE  LET f == IretFrame(s)
         IN  /\ f[Len(f)] = c.rip /\ f[Len(f) - 1] = Selector
             /\ f[Len(f) - 2] = c.intr /\ f[Len(f) - 3] = c.sp
  <1>1. Len(IretFrame(s)) = n + 5 /\ \A j \in 1..(n + 5) : IretFrame(s)[j] = s[j]
    BY IretWords, Zenon
  <1>2. /\ n + 5 - 1 = n + 4 /\ n + 5 - 2 = n + 3 /\ n + 5 - 3 = n + 2
        /\ n + 5 \in 1..(n + 5) /\ n + 4 \in 1..(n + 5) /\ n + 3 \in 1..(n + 5) /\ n + 2 \in 1..(n + 5)
    OBVIOUS
  <1>3. s[n + 5] = c.rip /\ s[n + 4] = Selector /\ s[n + 3] = c.intr /\ s[n + 2] = c.sp
    BY Zenon DEF Holds
  <1>4. PICK f : f = IretFrame(s)
    OBVIOUS
  <1>5. Len(f) - 1 = n + 4 /\ Len(f) - 2 = n + 3 /\ Len(f) - 3 = n + 2 /\ Len(f) = n + 5
    BY <1>1, <1>2, <1>4
  <1>6. f[n + 5] = c.rip /\ f[n + 4] = Selector /\ f[n + 3] = c.intr /\ f[n + 2] = c.sp
    BY <1>1, <1>2, <1>3, <1>4, Zenon
  <1> QED
    BY <1>4, <1>5, <1>6, Zenon

(* With an error code below the vector, IRETQ takes the code for RIP and   *)
(* RIP for the selector.                                                   *)
LEMMA FaultReturn ==
  ASSUME NEW s \in Seq(Int), NEW n \in Nat, NEW c \in Contexts, Holds(s, n, c), c.vec \in PushesErrorCode
  PROVE  /\ IretFrame(s)[Len(IretFrame(s)) - 1] # Selector
         /\ Field(s, "error_code") = ErrorCode /\ Field(s, "rip") = c.rip
  <1>1. Len(IretFrame(s)) = n + 6 /\ \A j \in 1..(n + 6) : IretFrame(s)[j] = s[j]
    BY IretWords, Zenon
  <1>2. n + 6 - 1 = n + 5 /\ n + 5 \in 1..(n + 6)
    OBVIOUS
  <1>3. s[n + 5] = c.rip /\ s[n + 6] = ErrorCode /\ Len(s) = n + 22
    <2>1. s[n + 5] = c.rip /\ s[n + 6] = ErrorCode /\ Len(s) = n + FrameWords(c.vec)
      BY Zenon DEF Holds
    <2> QED
      BY <2>1 DEF FrameWords, PlainWords
  <1>4. c.rip # Selector
    BY DEF Contexts, Places, UserRips, Half, Trampoline, Selector
  <1>5. Len(s) > 20 /\ Len(s) - 16 = n + 6 /\ Len(s) - 17 = n + 5
    BY <1>3
  <1>6. Field(s, "error_code") = s[n + 6] /\ Field(s, "rip") = s[n + 5]
    BY <1>5, FieldIs, Zenon
  <1>7. PICK f : f = IretFrame(s)
    OBVIOUS
  <1>8. Len(f) - 1 = n + 5
    BY <1>1, <1>2, <1>7
  <1>9. f[n + 5] # Selector
    BY <1>1, <1>2, <1>3, <1>4, <1>7, Zenon
  <1> QED
    BY <1>3, <1>6, <1>7, <1>8, <1>9, Zenon

-----------------------------------------------------------------------------
(* Traps *)

(* A sequence of contexts t is s with x behind it. *)
OneMore(t, s, x) ==
  /\ t \in Seq(Contexts) /\ Len(t) = Len(s) + 1
  /\ t[Len(s) + 1] = x /\ \A j \in 1..Len(s) : t[j] = s[j]

LEMMA Appending ==
  ASSUME NEW s \in Seq(Contexts), NEW x \in Contexts
  PROVE  OneMore(Append(s, x), s, x)
  BY DEF OneMore

LEMMA LastOfOne ==
  ASSUME NEW s \in Seq(Contexts), Len(s) = 1
  PROVE  s[1] \in Contexts /\ Last(s) = s[1] /\ Front(s) = <<>>
  <1>1. Front(s) = SubSeq(s, 1, 0)
    BY DEF Front
  <1> QED
    BY <1>1 DEF Last

LEMMA LastOfTwo ==
  ASSUME NEW s \in Seq(Contexts), Len(s) = 2
  PROVE  /\ s[1] \in Contexts /\ s[2] \in Contexts /\ Last(s) = s[2]
         /\ Front(s) \in Seq(Contexts) /\ Len(Front(s)) = 1 /\ Front(s)[1] = s[1]
  <1>1. Front(s) = SubSeq(s, 1, 1)
    BY DEF Front
  <1> QED
    BY <1>1 DEF Last

LEMMA ContextType ==
  ASSUME TrapTypes, mode \in {"run", "compat", "handler", "syscall", "entered"}, NEW vec \in Vectors \cup {SYSCALL}
  PROVE  /\ Context(vec) \in Contexts
         /\ Context(vec).gpr = gpr /\ Context(vec).rip = rip /\ Context(vec).intr = intr
         /\ Context(vec).vec = vec /\ Context(vec).mode = mode /\ Context(vec).sp = StackPointer
  <1>1. StackPointer \in Nat
    BY DEF TrapTypes, StackPointer, UserSps, SYS_EXECVE, KernelTop
  <1>2. gpr \in [Registers -> Int] /\ intr \in {0, 1} /\ rip \in Places
    BY Zenon DEF TrapTypes
  <1> QED
    BY <1>1, <1>2 DEF Context, Contexts

(* The processor and the stub push a frame for the code they interrupt. *)
LEMMA InterruptPushes ==
  ASSUME TrapTypes, NEW vec \in Vectors, Interrupt(vec)
  PROVE  /\ Context(vec) \in Contexts
         /\ stack' \in Seq(Int) /\ Holds(stack', Len(stack), Context(vec))
         /\ \A j \in 1..Len(stack) : stack'[j] = stack[j]
         /\ OneMore(saved', saved, Context(vec))
  <1>1. mode \in {"run", "compat", "handler", "syscall", "entered"}
    BY DEF Interrupt
  <1> DEFINE c == Context(vec)
  <1>2. /\ c \in Contexts /\ c.gpr = gpr /\ c.rip = rip /\ c.intr = intr
        /\ c.vec = vec /\ c.sp = StackPointer
    BY <1>1, ContextType, Zenon
  <1>3. stack' = Laid(stack, c)
    <2>1. stack' = stack \o <<Selector, StackPointer, intr, Selector, rip>>
                    \o (IF vec \in PushesErrorCode THEN <<ErrorCode>> ELSE <<>>)
                    \o <<vec>> \o Pushed(gpr)
      BY Zenon DEF Interrupt, StubPushes
    <2> HIDE DEF c
    <2> QED
      BY <1>2, <2>1, Zenon DEF Laid
  <1>4. saved' = Append(saved, c)
    BY Zenon DEF Interrupt
  <1> HIDE DEF c
  <1>5. stack \in Seq(Int) /\ saved \in Seq(Contexts)
    BY Zenon DEF TrapTypes
  <1>6. /\ stack' \in Seq(Int) /\ Holds(stack', Len(stack), c)
        /\ \A j \in 1..Len(stack) : stack'[j] = stack[j]
    BY <1>2, <1>3, <1>5, FrameLaid, Zenon
  <1>7. OneMore(saved', saved, c)
    BY <1>2, <1>4, <1>5, Appending, Zenon
  <1> QED
    BY <1>2, <1>6, <1>7, Zenon DEF c

LEMMA InterruptTypes ==
  ASSUME TrapTypes, NEW vec \in Vectors, Interrupt(vec)
  PROVE  TrapTypes'
  <1>1. stack' \in Seq(Int) /\ saved' \in Seq(Contexts)
    BY InterruptPushes, Zenon DEF OneMore
  <1>2. mode # "lost" /\ mode' = "handler"
    BY DEF Interrupt
  <1>3. gpr' = gpr /\ rip' = rip /\ usp' = usp /\ intr' \in {0, 1}
    BY DEF Interrupt, TrapTypes
  <1> QED
    BY <1>1, <1>2, <1>3 DEF TrapTypes

LEMMA Bottom ==
  ASSUME NEW s \in Seq(Int), NEW t \in Seq(Int), NEW n \in Nat, Len(s) = n, Len(t) > n,
         \A j \in 1..Len(s) : t[j] = s[j]
  PROVE  SubSeq(t, 1, n) = s
  OBVIOUS

LEMMA InterruptStep ==
  ASSUME TrapInv, NEW vec \in Vectors, Interrupt(vec)
  PROVE  Levels'
  <1> DEFINE c == Context(vec)
  <1>1. /\ TrapTypes /\ stack \in Seq(Int) /\ saved \in Seq(Contexts) /\ intr \in {0, 1}
        /\ mode \in {"run", "compat"} => rip \in UserRips
    BY Zenon DEF TrapInv, TrapTypes
  <1>2. /\ c \in Contexts /\ stack' \in Seq(Int) /\ Holds(stack', Len(stack), c)
        /\ \A j \in 1..Len(stack) : stack'[j] = stack[j]
        /\ OneMore(saved', saved, c)
    BY <1>1, InterruptPushes, Zenon
  <1>3. mode \in {"run", "compat", "handler", "syscall", "entered"} /\ mode' = "handler" /\ usp' = usp
    BY DEF Interrupt
  <1>4. c.rip = rip /\ c.vec = vec /\ c.mode = mode /\ c.sp = StackPointer
    BY <1>1, <1>3, ContextType, Zenon
  <1>5. vec \in {BREAKPOINT, DOUBLE_FAULT, GENERAL_PROTECT, PAGE_FAULT, TIMER}
    BY Zenon DEF Vectors
  <1> HIDE DEF c
  <1>6. CASE mode \in {"run", "compat", "entered"}
    <2>1. saved = <<>> /\ stack = <<>>
      BY <1>6 DEF TrapInv, Levels, Level0, Level1, Level2, Call, FaultInCall
    <2>2. Len(saved') = 1 /\ saved'[1] = c /\ Holds(stack', 0, c)
      BY <1>2, <2>1 DEF OneMore
    <2>3. c.sp = usp /\ (mode = "entered" => vec = PAGE_FAULT) /\ (intr' = 1 => vec = BREAKPOINT)
      BY <1>4, <1>6, <2>1 DEF StackPointer, Interrupt, GateKeepsIf
    <2>4. First'
      BY <1>1, <1>3, <1>4, <1>6, <2>2, <2>3 DEF First
    <2>5. Level1'
      BY <1>3, <1>4, <2>2, <2>3, <2>4, Zenon DEF Level1
    <2> QED
      BY <2>5, Zenon DEF Levels
  <1>7. CASE mode = "handler"
    <2>1. vec = TIMER /\ intr = 1 /\ intr' = 0
      BY <1>7 DEF Interrupt, GateKeepsIf, TIMER, BREAKPOINT
    <2>2. Level1
      BY <1>7, <2>1 DEF TrapInv, Levels, Level0, Level1, Level2, Call, FaultInCall
    <2>3. Len(saved) = 1 /\ saved[1].vec = BREAKPOINT /\ Holds(stack, 0, saved[1]) /\ First
      BY <2>1, <2>2, Zenon DEF Level1
    <2>4. Len(saved') = 2 /\ saved'[1] = saved[1] /\ saved'[2] = c
      BY <1>2, <2>3 DEF OneMore
    <2>5. Len(stack) = PlainWords
      <3>1. Len(stack) = 0 + FrameWords(BREAKPOINT)
        BY <2>3, Zenon DEF Holds
      <3> QED
        BY <3>1 DEF FrameWords, PlainWords, BREAKPOINT, PushesErrorCode, DOUBLE_FAULT, GENERAL_PROTECT, PAGE_FAULT
    <2>6. c.sp = PlainWords
      <3>1. stack # <<>>
        BY <2>5 DEF PlainWords
      <3> QED
        BY <1>4, <2>5, <3>1, Zenon DEF StackPointer
    <2>7. Len(stack') > PlainWords
      <3>1. Len(stack') = Len(stack) + FrameWords(vec)
        BY <1>2, <1>4, Zenon DEF Holds
      <3> QED
        BY <1>1, <3>1, <2>5 DEF FrameWords, PlainWords
    <2>8. SubSeq(stack', 1, PlainWords) = stack
      <3>1. PlainWords \in Nat
        BY DEF PlainWords
      <3> QED
        BY <1>1, <1>2, <2>5, <2>7, <3>1, Bottom, Zenon
    <2>9. First'
      BY <1>3, <2>3, <2>4, Zenon DEF First
    <2>10. Level2'
      BY <1>2, <1>3, <1>4, <1>7, <2>1, <2>3, <2>4, <2>5, <2>6, <2>7, <2>8, <2>9, Zenon DEF Level2
    <2> QED
      BY <2>10, Zenon DEF Levels
  <1>8. CASE mode = "syscall"
    <2>1. vec = PAGE_FAULT /\ intr' = 0
      BY <1>8 DEF Interrupt, GateKeepsIf, PAGE_FAULT, BREAKPOINT
    <2>2. Call
      BY <1>8 DEF TrapInv, Levels, Level0, Level1, Level2, Call, FaultInCall
    <2>3. Len(saved) = 1 /\ Len(stack) = Len(InterruptFrame)
      BY <2>2, Zenon DEF Call, InCall
    <2>4. Len(saved') = 2 /\ saved'[2] = c
      BY <1>2, <2>3 DEF OneMore
    <2>5. FaultInCall'
      BY <1>2, <1>3, <1>4, <2>1, <2>3, <2>4, Zenon DEF FaultInCall
    <2> QED
      BY <2>5, Zenon DEF Levels
  <1> QED
    BY <1>3, <1>6, <1>7, <1>8

(* A handler's return, by what is on top of the stack. *)
LEMMA Returning ==
  ASSUME TrapTypes, isr_common_handler_Return, NEW n \in Nat, NEW c \in Contexts,
         Last(saved) = c, Holds(stack, n, c)
  PROVE  /\ mode = "handler" /\ gpr' = c.gpr /\ usp' = usp
         /\ c.vec \in PushesErrorCode => mode' = "lost" /\ intr' = intr /\ stack' = stack /\ saved' = saved
         /\ c.vec \notin PushesErrorCode =>
              /\ rip' = c.rip /\ intr' = c.intr /\ mode' = c.mode /\ saved' = Front(saved)
              /\ stack' = IF c.sp \in UserSps \cup {KernelTop} THEN <<>> ELSE SubSeq(stack, 1, c.sp)
  <1>1. stack \in Seq(Int)
    BY Zenon DEF TrapTypes
  <1>2. Restored(stack) = c.gpr
    BY <1>1, IretWords, Zenon
  <1>3. PICK f : f = IretFrame(stack)
    OBVIOUS
  <1>4. /\ mode = "handler" /\ gpr' = Restored(stack) /\ rip' = f[Len(f)] /\ usp' = usp
        /\ IF f[Len(f) - 1] = Selector
           THEN /\ intr' = f[Len(f) - 2]
                /\ stack' = IF f[Len(f) - 3] \in UserSps \cup {KernelTop} THEN <<>> ELSE SubSeq(stack, 1, f[Len(f) - 3])
                /\ mode' = Last(saved).mode
                /\ saved' = Front(saved)
           ELSE mode' = "lost" /\ UNCHANGED <<intr, stack, saved>>
    BY <1>3, Zenon DEF isr_common_handler_Return
  <1>5. CASE c.vec \in PushesErrorCode
    <2>1. f[Len(f) - 1] # Selector
      BY <1>1, <1>3, <1>5, FaultReturn, Zenon
    <2> QED
      BY <1>2, <1>4, <1>5, <2>1, Zenon
  <1>6. CASE c.vec \notin PushesErrorCode
    <2>1. /\ f[Len(f)] = c.rip /\ f[Len(f) - 1] = Selector
          /\ f[Len(f) - 2] = c.intr /\ f[Len(f) - 3] = c.sp
      BY <1>1, <1>3, <1>6, PlainReturn, Zenon
    <2> QED
      BY <1>2, <1>4, <1>6, <2>1, Zenon
  <1> QED
    BY <1>5, <1>6, Zenon

LEMMA ReturnLost ==
  ASSUME TrapTypes, gpr' \in [Registers -> Int], mode' = "lost",
         UNCHANGED <<intr, usp, stack, saved>>
  PROVE  TrapInv'
  BY DEF TrapTypes, TrapInv, Levels

LEMMA ReturnFirst ==
  ASSUME TrapTypes, Level1, isr_common_handler_Return
  PROVE  TrapInv'
  <1> DEFINE c == saved[1]
  <1>1. saved \in Seq(Contexts) /\ Len(saved) = 1 /\ Holds(stack, 0, c) /\ First
    BY Zenon DEF TrapTypes, Level1
  <1>2. c \in Contexts /\ Last(saved) = c /\ Front(saved) = <<>>
    BY <1>1, LastOfOne, Zenon
  <1> HIDE DEF c
  <1>3. 0 \in Nat /\ c.gpr \in [Registers -> Int] /\ c.intr \in {0, 1} /\ c.rip \in Places
    BY <1>2 DEF Contexts
  <1>4. CASE c.vec \in PushesErrorCode
    <2>1. gpr' = c.gpr /\ mode' = "lost" /\ UNCHANGED <<intr, usp, stack, saved>>
      BY <1>1, <1>2, <1>3, <1>4, Returning, Zenon
    <2> QED
      BY <1>3, <2>1, ReturnLost, Zenon
  <1>5. CASE c.vec \notin PushesErrorCode
    <2>1. /\ gpr' = c.gpr /\ rip' = c.rip /\ intr' = c.intr /\ mode' = c.mode /\ saved' = <<>> /\ usp' = usp
          /\ stack' = IF c.sp \in UserSps \cup {KernelTop} THEN <<>> ELSE SubSeq(stack, 1, c.sp)
      BY <1>1, <1>2, <1>3, <1>5, Returning, Zenon
    <2>2. c.mode \in {"run", "compat"} /\ c.rip \in UserRips/\ c.sp = usp
      BY <1>1, <1>5 DEF First, c, PushesErrorCode
    <2>3. usp \in UserSps \cup {KernelTop}
      BY Zenon DEF TrapTypes
    <2>4. TrapTypes'
      BY <1>3, <2>1, <2>2, <2>3 DEF TrapTypes
    <2> QED
      BY <2>1, <2>2, <2>3, <2>4 DEF TrapInv, Levels, Level0
  <1> QED
    BY <1>4, <1>5, Zenon

LEMMA ReturnSecond ==
  ASSUME TrapTypes, Level2, isr_common_handler_Return
  PROVE  TrapInv'
  <1> DEFINE c == saved[1]
             d == saved[2]
  <1>1. /\ saved \in Seq(Contexts) /\ Len(saved) = 2 /\ stack \in Seq(Int) /\ Len(stack) > PlainWords
        /\ Holds(SubSeq(stack, 1, PlainWords), 0, c) /\ Holds(stack, PlainWords, d)
        /\ First /\ c.vec = BREAKPOINT /\ d.vec = TIMER /\ d.mode = "handler" /\ d.sp = PlainWords
    BY Zenon DEF TrapTypes, Level2
  <1>2. /\ c \in Contexts /\ d \in Contexts /\ Last(saved) = d
        /\ Front(saved) \in Seq(Contexts) /\ Len(Front(saved)) = 1 /\ Front(saved)[1] = c
    BY <1>1, LastOfTwo, Zenon
  <1>3. /\ PlainWords \in Nat /\ PlainWords \notin UserSps \cup {KernelTop} /\ TIMER \notin PushesErrorCode
        /\ BREAKPOINT \in Vectors
    BY DEF PlainWords, UserSps, SYS_EXECVE, KernelTop, TIMER, PushesErrorCode, DOUBLE_FAULT, GENERAL_PROTECT, PAGE_FAULT, Vectors
  <1>4. d.gpr \in [Registers -> Int] /\ d.intr \in {0, 1} /\ d.rip \in Places
    BY <1>2 DEF Contexts
  <1>5. First /\ saved[1] = c
    BY <1>1
  <1> HIDE DEF c, d
  <1>6. /\ gpr' = d.gpr /\ rip' = d.rip /\ intr' = d.intr /\ mode' = d.mode /\ saved' = Front(saved) /\ usp' = usp
        /\ stack' = SubSeq(stack, 1, PlainWords)
    BY <1>1, <1>2, <1>3, Returning, Zenon
  <1>7. SubSeq(stack, 1, PlainWords) \in Seq(Int)
    BY <1>1, <1>3
  <1>8. mode' = "handler"
    BY <1>1, <1>6, Zenon
  <1>9. TrapTypes'
    BY <1>2, <1>4, <1>6, <1>7, <1>8 DEF TrapTypes
  <1>10. First'
    BY <1>2, <1>5, <1>6, Zenon DEF First
  <1>11. Level1'
    BY <1>1, <1>2, <1>3, <1>6, <1>8, <1>10, Zenon DEF Level1
  <1> QED
    BY <1>9, <1>11, Zenon DEF TrapInv, Levels

LEMMA ReturnInCall ==
  ASSUME TrapTypes, FaultInCall, isr_common_handler_Return
  PROVE  TrapInv'
  <1> DEFINE d == saved[2]
  <1>1. /\ saved \in Seq(Contexts) /\ Len(saved) = 2 /\ d.vec = PAGE_FAULT
        /\ Holds(stack, Len(InterruptFrame), d)
    BY Zenon DEF TrapTypes, FaultInCall
  <1>2. d \in Contexts /\ Last(saved) = d
    BY <1>1, LastOfTwo, Zenon
  <1> HIDE DEF d
  <1>3. Len(InterruptFrame) \in Nat /\ PAGE_FAULT \in PushesErrorCode
    BY Lengths DEF PushesErrorCode
  <1>4. d.gpr \in [Registers -> Int]
    BY <1>2 DEF Contexts
  <1>5. gpr' = d.gpr /\ mode' = "lost" /\ UNCHANGED <<intr, usp, stack, saved>>
    BY <1>1, <1>2, <1>3, Returning, Zenon
  <1> QED
    BY <1>4, <1>5, ReturnLost, Zenon

LEMMA ReturnStep ==
  ASSUME TrapInv, isr_common_handler_Return
  PROVE  TrapInv'
  <1>1. mode = "handler"
    BY DEF isr_common_handler_Return
  <1>2. TrapTypes /\ (Level1 \/ Level2 \/ FaultInCall)
    BY <1>1 DEF TrapInv, Levels, Level0, Call
  <1> QED
    BY <1>2, ReturnFirst, ReturnSecond, ReturnInCall, Zenon

-----------------------------------------------------------------------------
(* The other steps *)

LEMMA ComputeStep ==
  ASSUME TrapInv, NEW r \in Touchable, Compute(r)
  PROVE  TrapInv'
  <1>1. r \in Registers
    BY DEF Touchable, Registers
  <1>2. /\ mode \in {"run", "compat"} /\ mode' = mode
        /\ rip' = IF rip \in {1, Half + 1} THEN rip + 1 ELSE rip - 1
        /\ gpr' = [gpr EXCEPT ![r] = 1 - @]
        /\ UNCHANGED <<intr, usp, stack, saved>>
    BY DEF Compute
  <1>3. gpr \in [Registers -> Int] /\ rip \in UserRips/\ saved = <<>> /\ stack = <<>>
    BY <1>2 DEF TrapInv, TrapTypes, Levels, Level0, Level1, Level2, Call, FaultInCall
  <1>4. gpr' \in [Registers -> Int] /\ rip' \in UserRips
    BY <1>1, <1>2, <1>3 DEF UserRips, Half
  <1>5. TrapTypes'
    BY <1>2, <1>4 DEF TrapInv, TrapTypes, Places
  <1> QED
    BY <1>2, <1>3, <1>5 DEF TrapInv, Levels, Level0

LEMMA PanicStep ==
  ASSUME TrapInv, DispatchPanics
  PROVE  TrapInv'
  BY DEF TrapInv, TrapTypes, Levels, DispatchPanics

(* What syscall_entry pushes for the context it comes from. *)
InEntry(c, u) == [c.gpr EXCEPT !["rax"] = u, !["rcx"] = c.rip, !["r11"] = c.intr]

LEMMA EntryWords ==
  ASSUME NEW g \in [Registers -> Int], NEW u \in Int, NEW p \in Int, NEW b \in Int
  PROVE  LET s == <<UserCs, u, b, p, UserCs, 0, SYSCALL>> \o Pushed(g)
         IN  s \in Seq(Int) /\ Len(s) = Len(InterruptFrame) /\ OnTop(s, g)
  <1> DEFINE A == <<UserCs, u, b, p, UserCs, 0, SYSCALL>>
             P == Pushed(g)
             t == A \o P
  <1>1. A \in Seq(Int) /\ Len(A) = 7
    BY DEF UserCs, SYSCALL
  <1>2. P \in Seq(Int) /\ Len(P) = 15 /\ \A k \in 1..15 : P[k] = g[GPR[k]]
    BY PushedWords, Zenon
  <1>3. PICK m \in Nat, l \in Nat : m = 7 /\ l = 15
    OBVIOUS
  <1> HIDE DEF A, P
  <1>4. Joined(t, A, m, P, l)
    BY <1>1, <1>2, <1>3, Joining, Zenon
  <1> HIDE DEF t
  <1>5. t \in Seq(Int) /\ Len(t) = m + l /\ \A k \in 1..l : t[m + k] = P[k]
    BY <1>4, Zenon DEF Joined
  <1>6. PICK n : n = Len(t)
    BY Zenon
  <1>7. n = 22 /\ n - 15 = m
    BY <1>3, <1>5, <1>6
  <1>8. OnTop(t, g)
    <2> SUFFICES ASSUME NEW k \in 1..15 PROVE t[Len(t) - 15 + k] = g[GPR[k]]
      BY Zenon DEF OnTop
    <2>1. k \in 1..l /\ P[k] = g[GPR[k]]
      BY <1>2, <1>3, Zenon
    <2> QED
      BY <1>5, <1>6, <1>7, <2>1, Zenon
  <1> QED
    BY <1>5, <1>6, <1>7, <1>8, Lengths, Zenon DEF t, A, P

LEMMA EntryStep ==
  ASSUME TrapInv, NEW n \in Numbers, syscall_entry(n)
  PROVE  TrapInv'
  <1> DEFINE c == Context(SYSCALL)
  <1>1. /\ mode = "run" /\ mode' = "syscall" /\ intr' = 0 /\ saved' = <<c>> /\ rip' = rip /\ usp' = usp
        /\ gpr' = AtPush(gpr) /\ stack' = <<UserCs, usp, intr, rip, UserCs, 0, SYSCALL>> \o Pushed(AtPush(gpr))
    BY DEF syscall_entry
  <1>2. /\ TrapTypes /\ gpr \in [Registers -> Int] /\ rip \in UserRips/\ rip \in Places
        /\ usp \in UserSps \cup {KernelTop} /\ intr \in {0, 1}
    BY <1>1 DEF TrapInv, TrapTypes
  <1>3. /\ c \in Contexts /\ c.gpr = gpr /\ c.rip = rip /\ c.intr = intr /\ c.vec = SYSCALL
    BY <1>1, <1>2, ContextType
  <1> HIDE DEF c
  <1>4. usp \in Int /\ rip \in Int /\ intr \in Int
    BY <1>2 DEF UserSps, SYS_EXECVE, KernelTop, UserRips, Half
  <1>5. AtPush(gpr) = InEntry(c, usp) /\ AtPush(gpr) \in [Registers -> Int]
    BY <1>2, <1>3, <1>4, ZenonT(30) DEF AtPush, InEntry
  <1>6. stack' \in Seq(Int) /\ Len(stack') = Len(InterruptFrame) /\ OnTop(stack', AtPush(gpr))
    BY <1>1, <1>4, <1>5, EntryWords, Zenon
  <1>7. saved' \in Seq(Contexts) /\ Len(saved') = 1 /\ saved'[1] = c
    BY <1>1, <1>3
  <1>8. TrapTypes'
    BY <1>1, <1>2, <1>5, <1>6, <1>7 DEF TrapTypes
  <1>9. InCall(stack)'
    BY <1>1, <1>2, <1>3, <1>5, <1>6, <1>7, Zenon DEF InCall, InEntry
  <1>10. Call'
    BY <1>1, <1>7, <1>9, Zenon DEF Call, InCall
  <1> QED
    BY <1>8, <1>10, Zenon DEF TrapInv, Levels

LEMMA NamedRegisters == {"rax", "rbx", "rcx", "rbp", "r11", "r12", "r13", "r14", "r15"} \subseteq Registers
  <1>1. /\ GPR[1] = "rax" /\ GPR[2] = "rbx" /\ GPR[3] = "rcx" /\ GPR[7] = "rbp" /\ GPR[11] = "r11"
        /\ GPR[12] = "r12" /\ GPR[13] = "r13" /\ GPR[14] = "r14" /\ GPR[15] = "r15"
    BY DEF GPR
  <1>2. \A k \in 1..15 : GPR[k] \in Registers
    BY Lengths, Zenon DEF Registers, Range
  <1> QED
    BY <1>1, <1>2

LEMMA OtherNames ==
  \A k \in 1..15 : GPR[k] \notin {"rip", "rsp", "cs", "ss", "rflags"}
  <1>1. \A k \in 1..15 : GPR[k] # "rip" /\ GPR[k] # "rsp"
    BY DEF GPR
  <1>2. \A k \in 1..15 : GPR[k] # "cs" /\ GPR[k] # "ss"
    BY DEF GPR
  <1>3. \A k \in 1..15 : GPR[k] # "rflags"
    BY DEF GPR
  <1> QED
    BY <1>1, <1>2, <1>3, Zenon

(* The frame that execve leaves is the one it found, but for RAX among the *)
(* registers.                                                              *)
LEMMA ExecWords ==
  ASSUME NEW s \in Seq(Int), NEW g \in [Registers -> Int], Len(s) = Len(InterruptFrame), OnTop(s, g)
  PROVE  OnTop(ExecFrame(s), [g EXCEPT !["rax"] = 0])
  <1>1. Len(s) = 22 /\ DOMAIN s = 1..22
    BY Lengths
  <1>2. Len(ExecFrame(s)) = 22
    <2>1. ExecFrame(s) = [j \in 1..22 |-> ExecFrame(s)[j]]
      BY <1>1, Zenon DEF ExecFrame
    <2> QED
      BY <2>1
  <1>3. DOMAIN ExecFields = {"rip", "rsp", "rax", "cs", "ss", "rflags"} /\ ExecFields["rax"] = 0
    BY DEF ExecFields
  <1> SUFFICES ASSUME NEW k \in 1..15
               PROVE  ExecFrame(s)[Len(ExecFrame(s)) - 15 + k] = [g EXCEPT !["rax"] = 0][GPR[k]]
    BY Zenon DEF OnTop
  <1>4. 7 + k \in 1..22 /\ 22 - 15 + k = 7 + k
    OBVIOUS
  <1>5. InterruptFrame[7 + k] = GPR[k]
    BY DEF InterruptFrame, GPR
  <1>6. GPR[k] \in Registers /\ "rax" \in Registers
    BY Lengths, NamedRegisters, Zenon DEF Registers, Range
  <1>7. GPR[k] \in DOMAIN ExecFields => GPR[k] = "rax"
    BY <1>3, OtherNames, Zenon
  <1>8. s[7 + k] = g[GPR[k]]
    BY <1>1, <1>4, Zenon DEF OnTop
  <1>9. ExecFrame(s)[7 + k] = IF GPR[k] \in DOMAIN ExecFields THEN ExecFields[GPR[k]] ELSE s[7 + k]
    BY <1>1, <1>4, <1>5, Zenon DEF ExecFrame
  <1>10. ExecFrame(s)[7 + k] = [g EXCEPT !["rax"] = 0][GPR[k]]
    <2>1. CASE GPR[k] = "rax"
      BY <1>3, <1>6, <1>9, <2>1
    <2>2. CASE GPR[k] # "rax"
      BY <1>6, <1>7, <1>8, <1>9, <2>2, Zenon
    <2> QED
      BY <2>1, <2>2, Zenon
  <1> QED
    BY <1>2, <1>4, <1>10, Zenon

(* The frame of a system call's handler. *)
LEMMA CallFrame ==
  ASSUME TrapInv, mode = "syscall"
  PROVE  \E c \in Contexts :
           /\ c = Last(saved) /\ OnTop(stack, InEntry(c, usp)) /\ c.rip \in UserRips
           /\ stack \in Seq(Int) /\ Len(stack) = Len(InterruptFrame)
           /\ c.gpr \in [Registers -> Int] /\ c.intr \in {0, 1} /\ usp \in Int /\ c.rip \in Int
  <1>1. Call
    BY DEF TrapInv, Levels, Level0, Level1, Level2, FaultInCall
  <1>2. PICK c : c = saved[1]
    OBVIOUS
  <1>3. /\ Len(saved) = 1 /\ c.rip \in UserRips /\ OnTop(stack, InEntry(c, usp))
        /\ Len(stack) = Len(InterruptFrame)
    BY <1>1, <1>2, Zenon DEF Call, InCall, InEntry
  <1>4. saved \in Seq(Contexts) /\ stack \in Seq(Int) /\ usp \in UserSps \cup {KernelTop}
    BY Zenon DEF TrapInv, TrapTypes
  <1>5. c \in Contexts /\ c = Last(saved)
    BY <1>2, <1>3, <1>4, LastOfOne, Zenon
  <1>6. c.gpr \in [Registers -> Int] /\ c.intr \in {0, 1} /\ usp \in Int /\ c.rip \in Int
    BY <1>3, <1>4, <1>5 DEF Contexts, UserSps, SYS_EXECVE, KernelTop, UserRips, Half
  <1> QED
    BY <1>3, <1>4, <1>5, <1>6, Zenon

(* What user code gets back when the registers of frame f are popped. *)
Back(c) ==
  /\ c = Last(saved) /\ gpr' \in [Registers -> Int] /\ intr' \in {0, 1} /\ rip' \in UserRips
  /\ \A r \in Registers \ {"rax", "rcx", "r11"} : gpr'[r] = c.gpr[r]
  /\ rip' = c.rip % Half /\ intr' = c.intr

LEMMA SysretGives ==
  ASSUME NEW f, NEW c \in Contexts, NEW u \in Int, Sysret(f), OnTop(f, InEntry(c, u)), c = Last(saved),
         c.rip \in UserRips, c.gpr \in [Registers -> Int], c.intr \in {0, 1}, c.rip \in Int
  PROVE  Back(c)
  <1>1. /\ InEntry(c, u) \in [Registers -> Int]
        /\ InEntry(c, u)["rcx"] = c.rip /\ InEntry(c, u)["r11"] = c.intr
        /\ \A r \in Registers \ {"rax", "rcx", "r11"} : InEntry(c, u)[r] = c.gpr[r]
    BY NamedRegisters DEF InEntry
  <1>2. Restored(f) = InEntry(c, u)
    BY <1>1, RestoredIs, Zenon
  <1>3. gpr' = Restored(f) /\ rip' = gpr'["rcx"] % Half /\ intr' = gpr'["r11"]
    BY Zenon DEF Sysret
  <1>4. c.rip % Half \in UserRips
    BY DEF UserRips, Half
  <1> QED
    BY <1>1, <1>2, <1>3, <1>4, Zenon DEF Back

LEMMA EntryReturns ==
  ASSUME TrapInv, NEW x, syscall_entry_Return(x)
  PROVE  \E c \in Contexts : Back(c)
  <1>1. mode = "syscall" /\ Sysret(stack)
    BY Zenon DEF syscall_entry_Return
  <1> QED
    BY <1>1, CallFrame, SysretGives, Zenon

LEMMA ExecReturns ==
  ASSUME TrapInv, sys_execve
  PROVE  \E c \in Contexts : Back(c)
  <1>1. mode = "syscall" /\ Sysret(ExecFrame(stack))
    BY Zenon DEF sys_execve
  <1>2. PICK c \in Contexts :
           /\ c = Last(saved) /\ OnTop(stack, InEntry(c, usp)) /\ c.rip \in UserRips
           /\ stack \in Seq(Int) /\ Len(stack) = Len(InterruptFrame)
           /\ c.gpr \in [Registers -> Int] /\ c.intr \in {0, 1} /\ usp \in Int /\ c.rip \in Int
    BY <1>1, CallFrame, Zenon
  <1>3. InEntry(c, usp) \in [Registers -> Int]
    <2>1. c.intr \in Int
      BY <1>2
    <2> QED
      BY <1>2, <2>1, NamedRegisters, Zenon DEF InEntry
  <1>4. OnTop(ExecFrame(stack), [InEntry(c, usp) EXCEPT !["rax"] = 0])
    BY <1>2, <1>3, ExecWords, Zenon
  <1>5. [InEntry(c, usp) EXCEPT !["rax"] = 0] = InEntry(c, 0)
    BY <1>2, NamedRegisters DEF InEntry
  <1>6. 0 \in Int
    OBVIOUS
  <1> QED
    BY <1>1, <1>2, <1>4, <1>5, <1>6, SysretGives, Zenon

LEMMA SysretStep ==
  ASSUME NEW f, NEW c \in Contexts, Sysret(f), Back(c)
  PROVE  TrapInv'
  <1>1. gpr' \in [Registers -> Int] /\ rip' \in UserRips /\ intr' \in {0, 1}
    BY Zenon DEF Back
  <1>2. usp' = KernelTop /\ stack' = <<>> /\ mode' = "compat" /\ saved' = <<>>
    BY Zenon DEF Sysret
  <1>3. TrapTypes'
    BY <1>1, <1>2 DEF TrapTypes, Places
  <1> QED
    BY <1>2, <1>3 DEF TrapInv, Levels, Level0

-----------------------------------------------------------------------------
(* Switching threads *)

LEMMA Orders ==
  /\ Len(PopOrder) = 6 /\ DOMAIN PopOrder = 1..6 /\ DOMAIN PushOrder = 1..6
  /\ Range(PopOrder) = {"r15", "r14", "r13", "r12", "rbp", "rbx"}
  /\ Range(PopOrder) \subseteq Registers
  <1>1. Len(PopOrder) = 6 /\ DOMAIN PopOrder = 1..6 /\ DOMAIN PushOrder = 1..6
    BY DEF PopOrder, PushOrder
  <1>2. Range(PopOrder) = {"r15", "r14", "r13", "r12", "rbp", "rbx"}
    <2>1. Range(PopOrder) = {PopOrder[k] : k \in 1..6}
      BY <1>1, Zenon DEF Range
    <2>2. 1..6 = {1, 2, 3, 4, 5, 6}
      OBVIOUS
    <2>3. /\ PopOrder[1] = "r15" /\ PopOrder[2] = "r14" /\ PopOrder[3] = "r13"
          /\ PopOrder[4] = "r12" /\ PopOrder[5] = "rbp" /\ PopOrder[6] = "rbx"
      BY DEF PopOrder
    <2>4. Range(PopOrder) = {PopOrder[k] : k \in {1, 2, 3, 4, 5, 6}}
      BY <2>1, <2>2, Zenon
    <2> QED
      BY <2>3, <2>4, Zenon
  <1> QED
    BY <1>1, <1>2, NamedRegisters

LEMMA PopPlace ==
  ASSUME NEW r \in Range(PopOrder)
  PROVE  \E k \in 1..6 : /\ (CHOOSE j \in DOMAIN PopOrder : PopOrder[j] = r) = k
                         /\ PopOrder[k] = r /\ PushOrder[7 - k] = r /\ 7 - k \in 1..6
  <1>1. \E j \in DOMAIN PopOrder : PopOrder[j] = r
    BY Zenon DEF Range
  <1>2. PICK k \in DOMAIN PopOrder : k = (CHOOSE j \in DOMAIN PopOrder : PopOrder[j] = r) /\ PopOrder[k] = r
    BY <1>1, Zenon
  <1>3. k \in 1..6 /\ 7 - k \in 1..6
    <2>1. k \in 1..6
      BY <1>2, Orders, Zenon
    <2> QED
      BY <2>1
  <1>4. PushOrder[7 - k] = PopOrder[k]
    BY <1>3 DEF PopOrder, PushOrder
  <1> QED
    BY <1>2, <1>3, <1>4, Zenon

(* The words that context_switch leaves on a stack with n words. *)
LEMMA SwitchWords ==
  ASSUME TrapTypes, mode # "lost"
  PROVE  \E n \in Nat : /\ n = Len(stack) /\ SwitchedOut \in Seq(Int) /\ Len(SwitchedOut) = n + 7
                        /\ \A j \in 1..n : SwitchedOut[j] = stack[j]
                        /\ SwitchedOut[n + 1] = rip
                        /\ \A k \in 1..6 : SwitchedOut[n + 1 + k] = gpr[PushOrder[k]]
  <1> DEFINE A == <<rip>>
             P == [k \in DOMAIN PushOrder |-> gpr[PushOrder[k]]]
             s1 == stack \o A
             t == s1 \o P
  <1>1. stack \in Seq(Int) /\ gpr \in [Registers -> Int] /\ rip \in Int
    BY DEF TrapTypes, Places, UserRips, Half, Trampoline
  <1>2. PICK n \in Nat, a \in Nat, p \in Nat : n = Len(stack) /\ a = 1 /\ p = 6
    BY <1>1
  <1>3. A \in Seq(Int) /\ Len(A) = a /\ A[1] = rip
    BY <1>1, <1>2
  <1>4. P \in Seq(Int) /\ Len(P) = p /\ \A k \in 1..6 : P[k] = gpr[PushOrder[k]]
    <2>1. P = [k \in 1..6 |-> gpr[PushOrder[k]]]
      BY Orders
    <2>2. \A k \in 1..6 : PushOrder[k] \in Registers
      BY NamedRegisters DEF PushOrder
    <2>3. \A k \in 1..6 : gpr[PushOrder[k]] \in Int
      BY <1>1, <2>2
    <2> HIDE DEF P
    <2> QED
      BY <1>2, <2>1, <2>3
  <1>5. SwitchedOut = t
    BY DEF SwitchedOut
  <1> HIDE DEF A, P
  <1>6. Joined(s1, stack, n, A, a)
    BY <1>1, <1>2, <1>3, Joining, Zenon
  <1>7. s1 \in Seq(Int) /\ Len(s1) = n + a /\ n + a \in Nat
    BY <1>6 DEF Joined
  <1> HIDE DEF s1
  <1>8. Joined(t, s1, n + a, P, p)
    BY <1>4, <1>7, Joining, Zenon
  <1> HIDE DEF t
  <1>9. n + a + p = n + 7 /\ n + a = n + 1 /\ n + a \in 1..(n + a) /\ a \in 1..a /\ \A j \in 1..n : j \in 1..(n + a)
    BY <1>2
  <1>10. t \in Seq(Int) /\ Len(t) = n + 7
    BY <1>8, <1>9, Zenon DEF Joined
  <1>11. \A j \in 1..n : t[j] = stack[j]
    BY <1>6, <1>8, <1>9, Zenon DEF Joined
  <1>12. t[n + 1] = rip
    <2>1. A[a] = rip
      BY <1>2, <1>3, Zenon
    <2>2. s1[n + a] = rip
      BY <1>6, <1>9, <2>1, Zenon DEF Joined
    <2> QED
      BY <1>8, <1>9, <2>2, Zenon DEF Joined
  <1>13. \A k \in 1..6 : t[n + 1 + k] = gpr[PushOrder[k]]
    <2>1. \A k \in 1..p : t[n + a + k] = P[k]
      BY <1>8, Zenon DEF Joined
    <2> QED
      BY <1>2, <1>4, <2>1, Zenon
  <1> QED
    BY <1>2, <1>5, <1>10, <1>11, <1>12, <1>13, Zenon

(* Popping them gives the old thread back. *)
LEMMA PoppedOld ==
  ASSUME TrapTypes, mode # "lost"
  PROVE  LET old == Popped(SwitchedOut)
         IN  old.rip = rip /\ old.stack = stack /\ \A r \in Range(PopOrder) : old.regs[r] = gpr[r]
  <1> DEFINE t == SwitchedOut
             old == Popped(t)
  <1>1. PICK n \in Nat : /\ n = Len(stack) /\ t \in Seq(Int) /\ Len(t) = n + 7
                         /\ \A j \in 1..n : t[j] = stack[j]
                         /\ t[n + 1] = rip
                         /\ \A k \in 1..6 : t[n + 1 + k] = gpr[PushOrder[k]]
    BY SwitchWords, Zenon
  <1> HIDE DEF t
  <1>2. old.rip = rip
    <2>1. old.rip = FromTop(t, 6)
      BY Orders DEF Popped
    <2>2. 6 < Len(t) /\ Len(t) - 6 = n + 1
      BY <1>1
    <2> QED
      BY <1>1, <2>1, <2>2, Zenon DEF FromTop
  <1>3. old.stack = stack
    <2>1. old.stack = SubSeq(t, 1, Len(t) - 6 - 1)
      BY Orders DEF Popped
    <2>2. Len(t) - 6 - 1 = n /\ Len(t) > n
      BY <1>1
    <2>3. stack \in Seq(Int)
      BY Zenon DEF TrapTypes
    <2>4. SubSeq(t, 1, n) = stack
      <3>1. Len(stack) = n /\ \A j \in 1..Len(stack) : t[j] = stack[j]
        BY <1>1, Zenon
      <3>2. t \in Seq(Int) /\ Len(t) > n
        BY <1>1, <2>2, Zenon
      <3> QED
        BY <2>3, <3>1, <3>2, Bottom, Zenon
    <2> QED
      BY <2>1, <2>2, <2>4, Zenon
  <1>4. ASSUME NEW r \in Range(PopOrder) PROVE old.regs[r] = gpr[r]
    <2>1. PICK k \in 1..6 : /\ (CHOOSE j \in DOMAIN PopOrder : PopOrder[j] = r) = k
                            /\ PushOrder[7 - k] = r /\ 7 - k \in 1..6
      BY PopPlace, Zenon
    <2>2. old.regs[r] = FromTop(t, (CHOOSE j \in DOMAIN PopOrder : PopOrder[j] = r) - 1)
      BY DEF Popped
    <2>3. old.regs[r] = FromTop(t, k - 1)
      BY <2>1, <2>2, Zenon
    <2>4. k - 1 < Len(t) /\ Len(t) - (k - 1) = n + 1 + (7 - k)
      BY <1>1
    <2> QED
      BY <1>1, <2>1, <2>3, <2>4, Zenon DEF FromTop
  <1> QED
    BY <1>2, <1>3, <1>4, Zenon DEF t

(* What a new thread finds. *)
LEMMA PoppedNew ==
  LET new == Popped(NewFrame)
  IN  /\ new.rip = Trampoline /\ new.stack = <<>>
      /\ new.regs["r13"] = Func /\ new.regs["r12"] = 0
      /\ \A r \in Range(PopOrder) : new.regs[r] \in Int
  <1> DEFINE t == NewFrame
             new == Popped(t)
  <1>1. /\ t \in Seq(Int) /\ Len(t) = 7 /\ t[1] = Trampoline /\ t[5] = Func /\ t[4] = 0
    BY DEF NewFrame, Trampoline, Func
  <1>2. \A k \in 1..7 : t[k] \in Int
    BY DEF NewFrame, Trampoline, Func
  <1> HIDE DEF t
  <1>3. new.rip = Trampoline
    <2>1. new.rip = FromTop(t, 6)
      BY Orders DEF Popped
    <2>2. 6 < 7 /\ 7 - 6 = 1
      OBVIOUS
    <2> QED
      BY <1>1, <2>1, <2>2, Zenon DEF FromTop
  <1>4. new.stack = <<>>
    <2>1. new.stack = SubSeq(t, 1, 7 - 6 - 1)
      BY <1>1, Orders DEF Popped
    <2>2. 7 - 6 - 1 = 0
      OBVIOUS
    <2> QED
      BY <1>1, <2>1, <2>2
  <1>5. ASSUME NEW r \in Range(PopOrder), NEW k \in 1..6, PopOrder[k] = r PROVE new.regs[r] = t[8 - k]
    <2>1. (CHOOSE j \in DOMAIN PopOrder : PopOrder[j] = r) = k
      <3>1. \A j \in 1..6 : PopOrder[j] = PopOrder[k] => j = k
        BY DEF PopOrder
      <3> QED
        BY <1>5, <3>1, Orders
    <2>2. new.regs[r] = FromTop(t, (CHOOSE j \in DOMAIN PopOrder : PopOrder[j] = r) - 1)
      BY DEF Popped
    <2>3. new.regs[r] = FromTop(t, k - 1)
      BY <2>1, <2>2, Zenon
    <2>4. k - 1 < 7 /\ 7 - (k - 1) = 8 - k
      OBVIOUS
    <2> QED
      BY <1>1, <2>3, <2>4, Zenon DEF FromTop
  <1>6. new.regs["r13"] = Func /\ new.regs["r12"] = 0
    <2>1. /\ PopOrder[3] = "r13" /\ PopOrder[4] = "r12" /\ 3 \in 1..6 /\ 4 \in 1..6
          /\ 8 - 3 = 5 /\ 8 - 4 = 4
      BY DEF PopOrder
    <2>2. "r13" \in Range(PopOrder) /\ "r12" \in Range(PopOrder)
      BY Orders
    <2> HIDE DEF new
    <2> QED
      BY <1>1, <1>5, <2>1, <2>2, Zenon
  <1>7. ASSUME NEW r \in Range(PopOrder) PROVE new.regs[r] \in Int
    <2>1. PICK k \in 1..6 : PopOrder[k] = r
      BY PopPlace, Zenon
    <2>2. 8 - k \in 1..7
      OBVIOUS
    <2> QED
      BY <1>2, <1>5, <2>1, <2>2, Zenon
  <1> QED
    BY <1>3, <1>4, <1>6, <1>7, Zenon DEF t

LEMMA SwitchStep ==
  ASSUME TrapInv, context_switch_ToNew
  PROVE  TrapInv'
  <1> DEFINE new == Popped(NewFrame)
  <1>1. /\ gpr' = [r \in Registers |-> IF r \in Range(PopOrder) THEN new.regs[r] ELSE gpr[r]]
        /\ rip' = new.rip /\ stack' = new.stack /\ saved' = <<>> /\ mode' = "started"
        /\ UNCHANGED <<intr, usp>>
    BY DEF context_switch_ToNew, Registers
  <1>2. /\ new.rip = Trampoline /\ new.stack = <<>>
        /\ new.regs["r12"] = 0 /\ \A r \in Range(PopOrder) : new.regs[r] \in Int
    BY PoppedNew
  <1> HIDE DEF new
  <1>3. gpr \in [Registers -> Int] /\ intr \in {0, 1} /\ usp \in UserSps \cup {KernelTop}
    BY Zenon DEF TrapInv, TrapTypes
  <1>4. gpr' \in [Registers -> Int] /\ gpr'["r12"] = 0
    BY <1>1, <1>2, <1>3, Orders, NamedRegisters, ZenonT(30)
  <1>5. TrapTypes'
    BY <1>1, <1>2, <1>3, <1>4 DEF TrapTypes, Places
  <1> QED
    BY <1>1, <1>2, <1>5 DEF TrapInv, Levels, Level0

LEMMA TrampolineStep ==
  ASSUME TrapInv, thread_trampoline
  PROVE  TrapInv'
  <1>1. /\ mode = "started" /\ mode' = "entered" /\ rip' = gpr["r12"]
        /\ UNCHANGED <<gpr, intr, usp, stack, saved>>
    BY DEF thread_trampoline
  <1>2. rip' \in Places /\ saved = <<>> /\ stack = <<>>
    BY <1>1 DEF TrapInv, TrapTypes, Places, Levels, Level0, Level1, Level2, Call, FaultInCall
  <1>3. TrapTypes'
    BY <1>1, <1>2 DEF TrapInv, TrapTypes
  <1> QED
    BY <1>1, <1>2, <1>3 DEF TrapInv, Levels, Level0

-----------------------------------------------------------------------------
(* Whatever interrupts what, the kernel stack holds the frames of the      *)
(* traps that have not returned, one or two of them, and nothing else.     *)
THEOREM TrapInvariant == Spec => []TrapInv
  <1>1. Init => TrapInv
    <2> SUFFICES ASSUME Init PROVE TrapInv
      OBVIOUS
    <2>1. gpr \in [Registers -> Int]
      BY DEF Init, Registers
    <2>2. rip \in UserRips
      BY DEF Init, UserRips
    <2>3. TrapTypes
      BY <2>1, <2>2 DEF Init, TrapTypes, Places
    <2> QED
      BY <2>3 DEF Init, TrapInv, Levels, Level0
  <1>2. TrapInv /\ [Next]_vars => TrapInv'
    <2> SUFFICES ASSUME TrapInv, [Next]_vars PROVE TrapInv'
      OBVIOUS
    <2>1. ASSUME NEW r \in Touchable, Compute(r) PROVE TrapInv'
      BY <2>1, ComputeStep
    <2>2. ASSUME NEW vec \in Vectors, Interrupt(vec) PROVE TrapInv'
      BY <2>2, InterruptTypes, InterruptStep, Zenon DEF TrapInv
    <2>3. CASE DispatchPanics
      BY <2>3, PanicStep
    <2>4. CASE isr_common_handler_Return
      BY <2>4, ReturnStep
    <2>5. ASSUME NEW n \in Numbers, syscall_entry(n) PROVE TrapInv'
      BY <2>5, EntryStep
    <2>6. ASSUME NEW x \in Results, syscall_entry_Return(x) PROVE TrapInv'
      BY <2>6, EntryReturns, SysretStep, Zenon DEF syscall_entry_Return
    <2>7. CASE sys_execve
      BY <2>7, ExecReturns, SysretStep, Zenon DEF sys_execve
    <2>8. CASE context_switch_ToNew
      BY <2>8, SwitchStep
    <2>9. CASE thread_trampoline
      BY <2>9, TrampolineStep
    <2>10. CASE UNCHANGED vars
      BY <2>10, Zenon DEF vars, TrapInv, TrapTypes, Levels, Level0, Level1, Level2, Call, FaultInCall, First, InCall
    <2> QED
      BY <2>1, <2>2, <2>3, <2>4, <2>5, <2>6, <2>7, <2>8, <2>9, <2>10, Zenon DEF Next
  <1> QED
    BY <1>1, <1>2, PTL DEF Spec

(* A handler runs above the frame of what it interrupted last. *)
LEMMA TopFrame ==
  ASSUME TrapInv, mode = "handler"
  PROVE  \E n \in Nat, c \in Contexts : c = Last(saved) /\ Holds(stack, n, c)
  <1>1. saved \in Seq(Contexts) /\ (Level1 \/ Level2 \/ FaultInCall)
    BY DEF TrapInv, TrapTypes, Levels, Level0, Call
  <1>2. 0 \in Nat /\ PlainWords \in Nat /\ Len(InterruptFrame) \in Nat
    BY Lengths DEF PlainWords
  <1>3. CASE Level1
    BY <1>1, <1>2, <1>3, LastOfOne, Zenon DEF Level1
  <1>4. CASE Level2
    BY <1>1, <1>2, <1>4, LastOfTwo, Zenon DEF Level2
  <1>5. CASE FaultInCall
    BY <1>1, <1>2, <1>5, LastOfTwo, Zenon DEF FaultInCall
  <1> QED
    BY <1>1, <1>3, <1>4, <1>5, Zenon

(* For any nesting that the gates allow: the handler of a fault with an    *)
(* error code finds that fault's vector, error code and RIP in its frame.  *)
THEOREM FaultFramesAreTruthful == Spec => []FaultFrameTruthful
  <1>1. TrapInv => FaultFrameTruthful
    <2> SUFFICES ASSUME TrapInv, mode = "handler", Last(saved).vec \in PushesErrorCode
                 PROVE  /\ Field(stack, "vector") = Last(saved).vec
                        /\ Field(stack, "error_code") = ErrorCode
                        /\ Field(stack, "rip") = Last(saved).rip
      BY DEF FaultFrameTruthful
    <2>1. stack \in Seq(Int)
      BY Zenon DEF TrapInv, TrapTypes
    <2>2. PICK n \in Nat, c \in Contexts : c = Last(saved) /\ Holds(stack, n, c)
      BY TopFrame, Zenon
    <2>3. Field(stack, "vector") = c.vec
      BY <2>1, <2>2, IretWords, Zenon
    <2>4. Field(stack, "error_code") = ErrorCode /\ Field(stack, "rip") = c.rip
      BY <2>1, <2>2, FaultReturn, Zenon
    <2> QED
      BY <2>2, <2>3, <2>4, Zenon
  <1> QED
    BY <1>1, TrapInvariant, PTL

(* A trap without an error code returns to exactly what it interrupted,    *)
(* also when another one was nested in it.                                 *)
THEOREM PlainTrapsReturn == Spec => PlainTrapReturns
  <1> DEFINE Transparent ==
        /\ gpr' = Last(saved).gpr /\ rip' = Last(saved).rip /\ intr' = Last(saved).intr
        /\ Last(saved).sp = IF stack' = <<>> THEN usp ELSE Len(stack')
  <1>1. ASSUME TrapInv, isr_common_handler_Return, Last(saved).vec \notin PushesErrorCode
        PROVE  Transparent
    <2>1. mode = "handler"
      BY <1>1 DEF isr_common_handler_Return
    <2>2. /\ TrapTypes /\ saved \in Seq(Contexts) /\ stack \in Seq(Int) /\ usp \in UserSps \cup {KernelTop}
          /\ Level1 \/ Level2 \/ FaultInCall
      BY <1>1, <2>1 DEF TrapInv, TrapTypes, Levels, Level0, Call
    <2>3. PICK n \in Nat, c \in Contexts : c = Last(saved) /\ Holds(stack, n, c)
      BY <1>1, <2>1, TopFrame, Zenon
    <2>4. /\ gpr' = c.gpr /\ rip' = c.rip /\ intr' = c.intr
          /\ stack' = IF c.sp \in UserSps \cup {KernelTop} THEN <<>> ELSE SubSeq(stack, 1, c.sp)
      BY <1>1, <2>2, <2>3, Returning, Zenon
    <2>5. CASE Level1
      <3>1. c = saved[1]
        BY <2>2, <2>3, <2>5, LastOfOne, Zenon DEF Level1
      <3>2. c.sp = usp
        BY <2>5, <3>1, Zenon DEF Level1, First
      <3> QED
        BY <2>2, <2>3, <2>4, <3>2, Zenon
    <2>6. CASE Level2
      <3>1. c = saved[2]
        BY <2>2, <2>3, <2>6, LastOfTwo, Zenon DEF Level2
      <3>2. c.sp = PlainWords /\ Len(stack) > PlainWords
        BY <2>6, <3>1, Zenon DEF Level2
      <3>3. stack' = SubSeq(stack, 1, PlainWords)
        <4>1. PlainWords \notin UserSps \cup {KernelTop}
          BY DEF PlainWords, UserSps, SYS_EXECVE, KernelTop
        <4> QED
          BY <2>4, <3>2, <4>1, Zenon
      <3>4. Len(stack') = PlainWords /\ stack' # <<>>
        BY <2>2, <3>2, <3>3 DEF PlainWords
      <3> QED
        BY <2>3, <2>4, <3>2, <3>4, Zenon
    <2>7. CASE FaultInCall
      <3>1. PAGE_FAULT \in PushesErrorCode
        BY DEF PushesErrorCode
      <3> QED
        BY <1>1, <2>2, <2>7, <3>1, LastOfTwo, Zenon DEF FaultInCall
    <2> QED
      BY <2>2, <2>5, <2>6, <2>7, Zenon
  <1>2. TrapInv /\ [Next]_vars =>
          [(isr_common_handler_Return /\ Last(saved).vec \notin PushesErrorCode) => Transparent]_vars
    BY <1>1, Zenon
  <1> QED
    BY <1>2, TrapInvariant, PTL DEF Spec, PlainTrapReturns

(* A system call gives user code back every register but three, the low    *)
(* half of its RIP and its interrupt flag, whatever its handler computes,  *)
(* and whatever execve writes to the frame.                                *)
THEOREM SyscallsKeepRegisters == Spec => SyscallKeepsRegisters
  <1> DEFINE Kept ==
        LET before == Last(saved)
        IN  /\ \A r \in Range(GPR) \ {"rax", "rcx", "r11"} : gpr'[r] = before.gpr[r]
            /\ rip' = before.rip % Half /\ intr' = before.intr
  <1>1. ASSUME TrapInv, Next, mode = "syscall", mode' = "compat"
        PROVE  Kept
    <2>1. sys_execve \/ \E x \in Results : syscall_entry_Return(x)
      BY <1>1 DEF Next, Compute, Interrupt, DispatchPanics, isr_common_handler_Return, syscall_entry,
                  context_switch_ToNew, thread_trampoline
    <2> QED
      BY <1>1, <2>1, EntryReturns, ExecReturns, Zenon DEF Registers, Back
  <1>2. TrapInv /\ [Next]_vars => [(mode = "syscall" /\ mode' = "compat") => Kept]_vars
    BY <1>1, Zenon
  <1> QED
    BY <1>2, TrapInvariant, PTL DEF Spec, SyscallKeepsRegisters

(* A switch loses nothing of either thread, whether a kernel thread or the *)
(* timer's handler calls schedule.                                         *)
THEOREM SwitchesAreExact == Spec => SwitchIsExact
  <1> DEFINE Exact ==
        /\ LET old == Popped(parked')
           IN  old.rip = rip /\ old.stack = stack /\ \A r \in Range(PopOrder) : old.regs[r] = gpr[r]
        /\ rip' = Trampoline /\ stack' = <<>>
        /\ \E r \in Range(PopOrder) : gpr'[r] = Func
  <1>1. ASSUME TrapInv, Next, mode # "started", mode' = "started"
        PROVE  Exact
    <2>1. context_switch_ToNew
      <3>1. ASSUME isr_common_handler_Return PROVE mode' # "started"
        <4>1. mode = "handler"
          BY <3>1 DEF isr_common_handler_Return
        <4>2. PICK n \in Nat, c \in Contexts : c = Last(saved) /\ Holds(stack, n, c)
          BY <1>1, <4>1, TopFrame, Zenon
        <4>3. mode' = "lost" \/ mode' = c.mode
          BY <1>1, <3>1, <4>2, Returning, Zenon DEF TrapInv
        <4> QED
          BY <4>2, <4>3 DEF Contexts
      <3> QED
        BY <1>1, <3>1 DEF Next, Compute, Interrupt, DispatchPanics, syscall_entry, syscall_entry_Return, sys_execve, Sysret,
                          thread_trampoline
    <2>2. mode # "lost" /\ TrapTypes
      BY <1>1, <2>1 DEF context_switch_ToNew, TrapInv
    <2>3. /\ parked' = SwitchedOut /\ rip' = Popped(NewFrame).rip /\ stack' = Popped(NewFrame).stack
          /\ gpr' = [r \in Range(GPR) |-> IF r \in Range(PopOrder) THEN Popped(NewFrame).regs[r] ELSE gpr[r]]
      BY <2>1, Zenon DEF context_switch_ToNew
    <2>4. "r13" \in Range(PopOrder) /\ "r13" \in Range(GPR)
      BY Orders, NamedRegisters DEF Registers
    <2>5. gpr'["r13"] = Func
      BY <2>3, <2>4, PoppedNew
    <2>6. rip' = Trampoline /\ stack' = <<>>
      BY <2>3, PoppedNew, Zenon
    <2>7. LET old == Popped(parked')
          IN  old.rip = rip /\ old.stack = stack /\ \A r \in Range(PopOrder) : old.regs[r] = gpr[r]
      BY <2>2, <2>3, PoppedOld, Zenon
    <2> QED
      BY <2>4, <2>5, <2>6, <2>7, Zenon
  <1>2. TrapInv /\ [Next]_vars => [(mode # "started" /\ mode' = "started") => Exact]_vars
    BY <1>1, Zenon
  <1> QED
    BY <1>2, TrapInvariant, PTL DEF Spec, SwitchIsExact
=============================================================================
