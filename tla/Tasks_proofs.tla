---------------------------- MODULE Tasks_proofs ----------------------------
(***************************************************************************)
(* Tasks: their contexts, frames and registers, for any number of tasks    *)
(* and any interrupts that user code causes; and the table that leads to   *)
(* them and the list of their services, for any number of servers and      *)
(* names and whatever fails while they are loaded.                         *)
(***************************************************************************)
EXTENDS Interrupts, TaskTable, SequenceTheorems, FiniteSetTheorems,
        WellFoundedInduction, TLAPS

-----------------------------------------------------------------------------
(* Contexts, frames and registers.  The invariant says where the machine   *)
(* can be: still booting, in a task, in the idle thread, in the kernel for *)
(* a task, or in the handler of an interrupt of the hardware, which is     *)
(* itself never interrupted; and what is on the stacks in each case.       *)

IntsOfUsers ==
  /\ Ints \subseteq ExceptionInts \cup UserInts \cup SyscallInts
  /\ Idle \notin Tasks

Bodies    == {"none", "quiet", "request", "exit"}
KernelPcs == {"isr", "syscall", "exception", "paused", "restore", "sched", "switch", "isr_out"}
Section_  == {"paused", "restore"}

\* Kernel code for a task, and the handler of the timer.
KernelCode ==
  [pc : KernelPcs, int : Nat \ IrqInts, old_ctx : {"TASK"},
   state : BOOLEAN, body : Bodies, next : Threads]
IrqCode ==
  [pc : {"isr", "tick", "isr_out"}, int : {PicMasterInt}, old_ctx : {"TASK"},
   state : BOOLEAN, body : Bodies, next : Threads]
KernelFrames == [code : KernelCode, ints : BOOLEAN, cr3 : {Kernel}]

Registers ==
  [on : Threads, ints : BOOLEAN, cr3 : Threads \cup {Kernel},
   gdt : Nat, gs : Nat, esp0 : Threads]

TypeInv ==
  /\ current \in Threads
  /\ cpu \in Registers
  /\ stack = [t \in Threads |-> stack[t]]
  /\ saved = [t \in Threads |-> saved[t]]
  /\ tls \in [Threads -> Nat]
  /\ alive \subseteq Threads /\ Idle \in alive
  /\ enabled \in BOOLEAN /\ pending \in BOOLEAN
  /\ failure \in {"none", "switch_to_exited"}

\* The stack of a task that waits for the processor: its first frame, and the
\* one it left the kernel with, outside of sections of its own.
Waiting(t, s) ==
  \/ s = <<StartFrame(t)>>
  \/ /\ t # Idle
     /\ s = <<StartFrame(t), s[2]>> /\ s[2] \in KernelFrames
     /\ s[2].code.pc \notin Section_

\* Kernel code c of the current task: the scheduler is paused exactly in its
\* sections, and if the task has exited there is no way back to its own code.
OfCurrent(c) ==
  /\ enabled <=> c.pc \notin Section_
  /\ c.pc \in Section_ => c.state
  /\ current \notin alive =>
       \/ c.pc = "restore" /\ c.body = "exit" /\ pending
       \/ c.pc = "sched"
       \/ c.pc = "switch" /\ c.next \in alive

Booting ==
  /\ ctx = "BOOT_TIME" /\ current = Idle /\ alive = Threads /\ enabled
  /\ cpu.on = Idle /\ ~cpu.ints
  /\ code \in KernelCode /\ code.pc \in {"sched", "switch"}
  /\ stack = [t \in Threads |-> <<StartFrame(t)>>]

InTask ==
  /\ ctx = "TASK" /\ current \in Tasks \cap alive /\ enabled
  /\ code = UserCode /\ stack[current] = <<>>
  /\ cpu.ints /\ cpu.cr3 = current /\ cpu.gs = tls[current]

InIdle ==
  /\ ctx = "TASK" /\ current = Idle /\ enabled
  /\ code = IdleCode /\ stack[Idle] = <<>>
  /\ cpu.ints /\ cpu.cr3 = Kernel

InKernel ==
  /\ ctx = "TASK" /\ current \in Tasks
  /\ code \in KernelCode /\ OfCurrent(code) /\ cpu.cr3 = Kernel
  /\ stack[current] = <<StartFrame(current)>>

InIrq ==
  /\ code \in IrqCode /\ ~cpu.ints /\ cpu.cr3 = Kernel
  /\ ctx = IF code.pc = "isr" THEN "TASK" ELSE "INTERRUPT"
  /\ \/ stack[current] = <<StartFrame(current)>> /\ enabled /\ current \in alive
     \/ /\ current \in Tasks
        /\ LET s == stack[current] IN
             s = <<StartFrame(current), s[2]>> /\ s[2] \in KernelFrames /\ OfCurrent(s[2].code)

Own == cpu.on = current /\ cpu.esp0 = current /\ cpu.gdt = tls[current]

Others ==
  \A t \in alive : t # current \/ ctx = "BOOT_TIME" =>
    saved[t] = <<t, Len(stack[t])>> /\ Waiting(t, stack[t])

MachineInv ==
  /\ TypeInv /\ Others
  /\ \/ Booting
     \/ Own /\ (InTask \/ InIdle \/ InKernel \/ InIrq)

-----------------------------------------------------------------------------
(* Stacks are at most two frames deep.                                      *)

LEMMA OneFrame ==
  ASSUME NEW a
  PROVE  /\ Len(<<a>>) = 1 /\ <<a>>[1] = a
         /\ SubSeq(<<a>>, 1, 0) = <<>> /\ Append(<<>>, a) = <<a>>
<1>1. Len(<<a>>) = 1 /\ <<a>>[1] = a /\ Append(<<>>, a) = <<a>>
  OBVIOUS
<1>2. SubSeq(<<a>>, 1, 0) = <<>>
  OBVIOUS
<1>3. QED
  BY <1>1, <1>2

LEMMA TwoFrames ==
  ASSUME NEW a, NEW b
  PROVE  /\ Len(<<a, b>>) = 2 /\ <<a, b>>[1] = a /\ <<a, b>>[2] = b
         /\ SubSeq(<<a, b>>, 1, 1) = <<a>> /\ Append(<<a>>, b) = <<a, b>>
<1> DEFINE S == {a, b}
<1>1. <<a, b>> \in Seq(S) /\ Len(<<a, b>>) = 2 /\ <<a, b>>[1] = a /\ <<a, b>>[2] = b
  OBVIOUS
<1>4. Append(<<a>>, b) = <<a, b>>
  <2> DEFINE r == Append(<<a>>, b)
  <2>1. <<a>> \in Seq(S) /\ b \in S /\ Len(<<a>>) = 1 /\ <<a>>[1] = a
    OBVIOUS
  <2>2. r \in Seq(S) /\ Len(r) = 2 /\ r[1] = a /\ r[2] = b
    BY <2>1, AppendProperties, SMT
  <2> HIDE DEF r, S
  <2>3. \A i \in 1 .. Len(r) : r[i] = <<a, b>>[i]
    BY <1>1, <2>2
  <2>4. r = <<a, b>>
    BY <1>1, <2>2, <2>3, SeqEqual
  <2>5. QED
    BY <2>4 DEF r
<1>2. SubSeq(<<a, b>>, 1, 1) = <<a>>
  <2> DEFINE r == SubSeq(<<a, b>>, 1, 1)
  <2>1. <<a, b>> \in Seq({a, b}) /\ Len(<<a, b>>) = 2
    OBVIOUS
  <2>2. r \in Seq({a, b}) /\ Len(r) = 1 /\ r[1] = a
    BY <2>1, SubSeqProperties, SMT
  <2>3. <<a>> \in Seq({a, b}) /\ Len(<<a>>) = 1 /\ <<a>>[1] = a
    OBVIOUS
  <2> HIDE DEF r
  <2>4. r = <<a>>
    BY <2>2, <2>3, SeqEqual
  <2>5. QED
    BY <2>4 DEF r
<1>3. QED
  BY <1>1, <1>2, <1>4

\* The codes of tasks, of the idle thread and of handlers are told apart by
\* where they are.
LEMMA Codes ==
  /\ UserCode.pc = "user" /\ IdleCode.pc = "idle"
  /\ UserCode.int = 255 /\ IdleCode.int = 255
  /\ 255 \notin IrqInts /\ PicMasterInt \in IrqInts
BY DEF UserCode, IdleCode, At, IrqInts, PicMasterInt

LEMMA StartFrames ==
  ASSUME NEW t
  PROVE  /\ StartFrame(t) = [code |-> IF t = Idle THEN IdleCode ELSE UserCode,
                             ints |-> TRUE, cr3 |-> IF t = Idle THEN Kernel ELSE t]
BY DEF StartFrame, KernelFrame, UserFrame

\* Going on elsewhere keeps the interrupt and the context to go back to.
LEMMA GoesTo ==
  ASSUME NEW c, NEW pc
  PROVE  Goes(c, pc) \in [pc : {pc}, int : {c.int}, old_ctx : {c.old_ctx},
                          state : {TRUE}, body : {"none"}, next : {Idle}]
<1> DEFINE r == At(pc)
<1>1. r = [pc |-> pc, int |-> 255, old_ctx |-> "TASK",
           state |-> TRUE, body |-> "none", next |-> Idle]
  BY DEF At
<1> HIDE DEF r
<1>2. [r EXCEPT !.int = c.int, !.old_ctx = c.old_ctx] \in
        [pc : {pc}, int : {c.int}, old_ctx : {c.old_ctx},
         state : {TRUE}, body : {"none"}, next : {Idle}]
  BY <1>1
<1>3. QED
  BY <1>2 DEF Goes, r

LEMMA GoesKernel ==
  ASSUME NEW c, NEW pc
  PROVE  /\ c \in KernelCode /\ pc \in KernelPcs => Goes(c, pc) \in KernelCode
         /\ c \in IrqCode /\ pc \in {"isr", "tick", "isr_out"} => Goes(c, pc) \in IrqCode
         /\ Goes(c, pc).pc = pc
<1> DEFINE g == Goes(c, pc)
<1>1. g \in [pc : {pc}, int : {c.int}, old_ctx : {c.old_ctx},
              state : {TRUE}, body : {"none"}, next : {Idle}]
  BY GoesTo
<1> HIDE DEF g
<1>2. ASSUME c \in KernelCode, pc \in KernelPcs PROVE g \in KernelCode
  BY <1>1, <1>2 DEF KernelCode, Threads, Bodies
<1>3. ASSUME c \in IrqCode, pc \in {"isr", "tick", "isr_out"} PROVE g \in IrqCode
  BY <1>1, <1>3 DEF IrqCode, Threads, Bodies
<1>4. g.pc = pc
  BY <1>1
<1>5. QED
  BY <1>2, <1>3, <1>4 DEF g

\* What a handler starts as.
LEMMA Isr ==
  ASSUME NEW int
  PROVE  [At("isr") EXCEPT !.int = int] \in
           [pc : {"isr"}, int : {int}, old_ctx : {"TASK"},
            state : {TRUE}, body : {"none"}, next : {Idle}]
<1> DEFINE r == At("isr")
<1>1. r = [pc |-> "isr", int |-> 255, old_ctx |-> "TASK",
           state |-> TRUE, body |-> "none", next |-> Idle]
  BY DEF At
<1> HIDE DEF r
<1>2. [r EXCEPT !.int = int] \in
        [pc : {"isr"}, int : {int}, old_ctx : {"TASK"},
         state : {TRUE}, body : {"none"}, next : {Idle}]
  BY <1>1
<1>3. QED
  BY <1>2 DEF r

-----------------------------------------------------------------------------
(* Switching.                                                               *)

\* A task that waits goes on in its own code, or in the kernel's.
LEMMA Resumed ==
  ASSUME IntsOfUsers, NEW t \in Threads, NEW s, NEW c \in Registers,
         s = [u \in Threads |-> s[u]], Waiting(t, s[t]),
         c.gdt = tls[t], c.esp0 = t,
         Resume(<<t, Len(s[t])>>, s, c),
         current' = t, t \in alive', tls' = tls, enabled', ctx' = "TASK"
  PROVE  /\ cpu' \in Registers /\ Own'
         /\ InTask' \/ InIdle' \/ InKernel'
         /\ stack' = [u \in Threads |-> stack'[u]]
         /\ \A u \in Threads : u # t => stack'[u] = s[u]
<1> DEFINE f == s[t][Len(s[t])]
<1>1. /\ cpu' = [c EXCEPT !.on = t, !.ints = f.ints, !.cr3 = f.cr3, !.gs = c.gdt]
      /\ code' = f.code
      /\ stack' = [s EXCEPT ![t] = SubSeq(@, 1, Len(s[t]) - 1)]
  BY DEF Resume
<1>2. stack' = [u \in Threads |-> IF u = t THEN SubSeq(s[t], 1, Len(s[t]) - 1) ELSE s[u]]
  BY <1>1
<1>3. /\ stack' = [u \in Threads |-> stack'[u]]
      /\ \A u \in Threads : u # t => stack'[u] = s[u]
      /\ stack'[t] = SubSeq(s[t], 1, Len(s[t]) - 1)
  BY <1>2
<1>4. CASE s[t] = <<StartFrame(t)>>
  <2>1. f = StartFrame(t) /\ stack'[t] = <<>>
    BY <1>3, <1>4, OneFrame
  <2>2. /\ f.ints = TRUE
        /\ f.cr3 = IF t = Idle THEN Kernel ELSE t
        /\ f.code = IF t = Idle THEN IdleCode ELSE UserCode
    BY <2>1, StartFrames
  <2>3. cpu' \in Registers /\ Own' /\ cpu'.ints /\ cpu'.gs = tls[t] /\ cpu'.cr3 = f.cr3
    BY <1>1, <2>2 DEF Registers, Own
  <2>4. InTask' \/ InIdle'
    BY <1>1, <2>1, <2>2, <2>3 DEF InTask, InIdle, Threads
  <2>5. QED
    BY <1>3, <2>3, <2>4
<1>5. CASE /\ t # Idle
           /\ s[t] = <<StartFrame(t), s[t][2]>> /\ s[t][2] \in KernelFrames
           /\ s[t][2].code.pc \notin Section_
  <2>1. f = s[t][2] /\ stack'[t] = <<StartFrame(t)>>
    <3>1. PICK a, b : a = StartFrame(t) /\ s[t] = <<a, b>>
      BY <1>5
    <3>2. Len(s[t]) = 2 /\ SubSeq(s[t], 1, 1) = <<a>>
      BY <3>1, TwoFrames
    <3>3. Len(s[t]) - 1 = 1
      BY <3>2
    <3>4. QED
      BY <1>3, <3>1, <3>2, <3>3
  <2>2. f.ints \in BOOLEAN /\ f.cr3 = Kernel /\ f.code \in KernelCode
    BY <1>5, <2>1 DEF KernelFrames
  <2>3. cpu' \in Registers /\ Own' /\ cpu'.cr3 = Kernel
    BY <1>1, <2>2 DEF Registers, Own
  <2>4. InKernel'
    BY <1>1, <1>5, <2>1, <2>2, <2>3 DEF InKernel, OfCurrent, Threads
  <2>5. QED
    BY <1>3, <2>3, <2>4
<1>6. QED
  BY <1>4, <1>5 DEF Waiting

LEMMA SwitchedRegisters ==
  ASSUME TypeInv, NEW t \in Threads
  PROVE  Switched(t) \in Registers /\ Switched(t).gdt = tls[t] /\ Switched(t).esp0 = t
BY DEF TypeInv, Registers, Switched, WithTls

\* The switch itself: all that live wait on the stacks s, t among them.
LEMMA SwitchedOver ==
  ASSUME IntsOfUsers, TypeInv, NEW t \in alive, NEW s, s = [u \in Threads |-> s[u]],
         Resume(saved[t], s, Switched(t)), saved[t] = <<t, Len(s[t])>>,
         saved' = [u \in Threads |-> saved'[u]],
         Waiting(t, s[t]),
         \A u \in alive : u # t => saved'[u] = <<u, Len(s[u])>> /\ Waiting(u, s[u]),
         current' = t, ctx' = "TASK", enabled, pending' \in BOOLEAN,
         UNCHANGED <<tls, alive, enabled, failure>>
  PROVE  MachineInv'
<1>1. t \in Threads
  BY DEF TypeInv
<1>2. /\ cpu' \in Registers /\ Own'
      /\ InTask' \/ InIdle' \/ InKernel'
      /\ stack' = [u \in Threads |-> stack'[u]]
      /\ \A u \in Threads : u # t => stack'[u] = s[u]
  <2>1. Switched(t) \in Registers /\ Switched(t).gdt = tls[t] /\ Switched(t).esp0 = t
    BY <1>1, SwitchedRegisters
  <2>2. Resume(<<t, Len(s[t])>>, s, Switched(t))
    OBVIOUS
  <2>3. tls' = tls /\ enabled' /\ t \in alive'
    OBVIOUS
  <2>4. QED
    BY <1>1, <2>1, <2>2, <2>3, Resumed
<1>3. TypeInv'
  BY <1>1, <1>2 DEF TypeInv
<1>4. Others'
  <2> SUFFICES ASSUME NEW u \in alive, u # t
               PROVE  saved'[u] = <<u, Len(stack'[u])>> /\ Waiting(u, stack'[u])
    BY DEF Others, Waiting
  <2>1. u \in Threads /\ stack'[u] = s[u]
    BY <1>2 DEF TypeInv
  <2>2. QED
    BY <2>1
<1>5. QED
  BY <1>2, <1>3, <1>4 DEF MachineInv

\* A step of kernel code for a task that stays on the processor.
LEMMA KernelStep ==
  ASSUME MachineInv, Own, InKernel,
         UNCHANGED <<ctx, current, stack, saved, failure>>,
         cpu' \in Registers, cpu'.on = cpu.on, cpu'.esp0 = cpu.esp0, cpu'.cr3 = cpu.cr3,
         cpu'.gdt = tls'[current], tls' \in [Threads -> Nat],
         alive' \subseteq alive, Idle \in alive',
         enabled' \in BOOLEAN, pending' \in BOOLEAN,
         code' \in KernelCode, OfCurrent(code)'
  PROVE  MachineInv'
<1>1. TypeInv'
  BY DEF MachineInv, TypeInv
<1>2. Others'
  BY DEF MachineInv, TypeInv, Others, Waiting
<1>3. Own' /\ InKernel'
  BY DEF Own, InKernel, StartFrame
<1>4. QED
  BY <1>1, <1>2, <1>3 DEF MachineInv

\* A step that moves only the frames and registers of the task on the processor.
LEMMA CurrentStep ==
  ASSUME MachineInv, Own, ctx # "BOOT_TIME", ctx' # "BOOT_TIME",
         UNCHANGED <<current, saved, failure, tls, alive, enabled>>, pending' \in BOOLEAN,
         cpu' \in Registers, cpu'.on = cpu.on, cpu'.esp0 = cpu.esp0, cpu'.gdt = cpu.gdt,
         NEW s, stack' = [stack EXCEPT ![current] = s],
         InTask' \/ InIdle' \/ InKernel' \/ InIrq'
  PROVE  MachineInv'
<1>1. stack' = [u \in Threads |-> IF u = current THEN s ELSE stack[u]]
  BY DEF MachineInv, TypeInv
<1>2. TypeInv'
  BY <1>1 DEF MachineInv, TypeInv
<1>3. Others'
  BY <1>1 DEF MachineInv, TypeInv, Others, Waiting
<1>4. Own'
  BY DEF Own
<1>5. QED
  BY <1>2, <1>3, <1>4 DEF MachineInv

\* Where the machine is, by the place in the code.
LEMMA Where ==
  ASSUME IntsOfUsers, MachineInv
  PROVE  /\ code.pc = "user" => Own /\ InTask
         /\ code.pc = "idle" => Own /\ InIdle
         /\ code.pc = "tick" => Own /\ InIrq
         /\ code.pc \in {"syscall", "exception", "paused", "restore"} => Own /\ InKernel
         /\ code.pc = "isr" => Own /\ ((InKernel /\ code.int \notin IrqInts)
                                        \/ (InIrq /\ code.int \in IrqInts))
         /\ code.pc = "isr_out" => Own /\ (InKernel \/ InIrq)
         /\ code.pc \in {"sched", "switch"} => Booting \/ (Own /\ InKernel)
<1>1. CASE Booting
  <2>1. code.pc \in {"sched", "switch"}
    BY <1>1 DEF Booting
  <2>2. /\ code.pc # "user" /\ code.pc # "idle" /\ code.pc # "tick"
        /\ code.pc \notin {"syscall", "exception", "paused", "restore"}
        /\ code.pc # "isr" /\ code.pc # "isr_out"
    BY <2>1
  <2>3. QED
    BY <1>1, <2>2, Zenon
<1>2. CASE Own /\ InTask
  BY <1>2, Codes DEF InTask
<1>3. CASE Own /\ InIdle
  BY <1>3, Codes DEF InIdle
<1>4. CASE Own /\ InKernel
  <2>1. code.pc \in KernelPcs /\ code.int \notin IrqInts
    BY <1>4 DEF InKernel, KernelCode
  <2>2. code.pc # "user" /\ code.pc # "idle" /\ code.pc # "tick" /\ code.int \notin IrqInts
    BY <2>1 DEF KernelPcs
  <2>3. QED
    BY <1>4, <2>2, Zenon
<1>5. CASE Own /\ InIrq
  BY <1>5, Codes DEF InIrq, IrqCode
<1>6. QED
  BY <1>1, <1>2, <1>3, <1>4, <1>5 DEF MachineInv

-----------------------------------------------------------------------------
(* Each action.                                                             *)

LEMMA InitInv ==
  ASSUME IntsOfUsers
  PROVE  Init => MachineInv
<1> SUFFICES ASSUME Init PROVE MachineInv
  OBVIOUS
<1>1. code \in KernelCode /\ code.pc = "sched"
  BY DEF Init, At, KernelCode, KernelPcs, Bodies, Threads, IrqInts, PicMasterInt
<1>2. TypeInv
  BY DEF Init, TypeInv, Threads, Registers
<1>3. \A t \in Threads : stack[t] = <<StartFrame(t)>> /\ saved[t] = <<t, 1>>
  BY DEF Init
<1>4. Others
  BY <1>3, OneFrame DEF Init, Others, Waiting
<1>5. Booting
  BY <1>1 DEF Init, Booting
<1>6. QED
  BY <1>2, <1>4, <1>5 DEF MachineInv

\* intr.S: what a handler is entered with.
LEMMA Entered ==
  ASSUME TypeInv, Own, NEW int, Enter(int)
  PROVE  /\ LET frame == [code |-> code, ints |-> cpu.ints, cr3 |-> cpu.cr3] IN
            /\ InUser => stack' = [stack EXCEPT ![current] = <<frame>>]
            /\ ~InUser => stack' = [stack EXCEPT ![current] = Append(stack[current], frame)]
         /\ cpu' \in Registers
         /\ cpu'.on = current /\ cpu'.esp0 = current /\ cpu'.gdt = cpu.gdt
         /\ cpu'.cr3 = Kernel /\ cpu'.ints = (cpu.ints /\ int \in TrapGates)
         /\ code' \in [pc : {"isr"}, int : {int}, old_ctx : {"TASK"},
                       state : {TRUE}, body : {"none"}, next : {Idle}]
<1> DEFINE frame == [code |-> code, ints |-> cpu.ints, cr3 |-> cpu.cr3]
<1>1. /\ stack' = [stack EXCEPT ![current] =
                     Append(IF InUser THEN <<>> ELSE stack[current], frame)]
      /\ cpu' = [cpu EXCEPT !.on = current, !.ints = cpu.ints /\ int \in TrapGates, !.cr3 = Kernel]
      /\ code' = [At("isr") EXCEPT !.int = int]
  BY DEF Enter, Own
<1>2. cpu \in Registers /\ current \in Threads /\ cpu.esp0 = current
  BY DEF TypeInv, Own
<1>3. (cpu.ints /\ int \in TrapGates) \in BOOLEAN
  OBVIOUS
<1>4. /\ cpu' \in Registers
      /\ cpu'.on = current /\ cpu'.esp0 = current /\ cpu'.gdt = cpu.gdt
      /\ cpu'.cr3 = Kernel /\ cpu'.ints = (cpu.ints /\ int \in TrapGates)
  BY <1>1, <1>2, <1>3 DEF Registers
<1>5. Append(<<>>, frame) = <<frame>>
  BY OneFrame
<1> HIDE DEF frame
<1>6. /\ InUser => stack' = [stack EXCEPT ![current] = <<frame>>]
      /\ ~InUser => stack' = [stack EXCEPT ![current] = Append(stack[current], frame)]
  BY <1>1, <1>5
<1>7. QED
  BY <1>1, <1>4, <1>6, Isr DEF frame

LEMMA UserInterruptInv ==
  ASSUME IntsOfUsers, MachineInv, NEW int \in Ints, UserInterrupt(int)
  PROVE  MachineInv'
<1>1. Own /\ InTask /\ TypeInv
  BY Where DEF UserInterrupt, Running, MachineInv
<1>2. /\ InUser /\ Enter(int)
      /\ UNCHANGED <<ctx, current, saved, tls, alive, enabled, pending, failure>>
  BY DEF UserInterrupt, Running, InUser, tasks, sched
<1>3. int \in Nat \ IrqInts
  BY DEF IntsOfUsers, ExceptionInts, UserInts, SyscallInts, IrqInts, PicMasterInt
<1>4. /\ cpu' \in Registers
      /\ cpu'.on = current /\ cpu'.esp0 = current /\ cpu'.gdt = cpu.gdt /\ cpu'.cr3 = Kernel
      /\ code' \in KernelCode /\ code'.pc = "isr"
  <2>1. code' \in [pc : {"isr"}, int : {int}, old_ctx : {"TASK"},
                   state : {TRUE}, body : {"none"}, next : {Idle}]
    BY <1>1, <1>2, Entered
  <2>2. code' \in KernelCode /\ code'.pc = "isr"
    BY <1>3, <2>1 DEF KernelCode, KernelPcs, Bodies, Threads
  <2>3. QED
    BY <1>1, <1>2, <2>2, Entered
<1>5. stack' = [stack EXCEPT ![current] = <<StartFrame(current)>>]
  <2>1. [code |-> code, ints |-> cpu.ints, cr3 |-> cpu.cr3] = StartFrame(current)
    BY <1>1, StartFrames DEF InTask, IntsOfUsers, MachineInv, TypeInv, Registers
  <2>2. QED
    BY <1>1, <1>2, <2>1, Entered, OneFrame
<1>6. InKernel'
  <2>1. stack'[current] = <<StartFrame(current)>>
    BY <1>1, <1>5 DEF TypeInv
  <2>2. OfCurrent(code)'
    BY <1>1, <1>2, <1>4 DEF OfCurrent, InTask, Section_
  <2>3. QED
    BY <1>1, <1>2, <1>4, <2>1, <2>2 DEF InKernel, InTask, StartFrame
<1>7. QED
  BY <1>1, <1>2, <1>4, <1>5, <1>6, CurrentStep DEF Own, InTask, TypeInv

\* An interrupt of the hardware, in a task, the idle thread or the kernel.
LEMMA IrqInv ==
  ASSUME IntsOfUsers, MachineInv, Irq
  PROVE  MachineInv'
<1>1. /\ Enter(PicMasterInt) /\ cpu.ints
      /\ UNCHANGED <<ctx, current, saved, tls, alive, enabled, pending, failure>>
  BY DEF Irq, tasks, sched
<1>2. Own /\ TypeInv /\ (InTask \/ InIdle \/ InKernel) /\ ctx = "TASK"
  BY <1>1 DEF MachineInv, Booting, InIrq, InTask, InIdle, InKernel
<1>3. /\ cpu' \in Registers
      /\ cpu'.on = current /\ cpu'.esp0 = current /\ cpu'.gdt = cpu.gdt /\ cpu'.cr3 = Kernel
      /\ cpu'.ints = FALSE
      /\ code' \in IrqCode /\ code'.pc = "isr"
  <2>1. code' \in [pc : {"isr"}, int : {PicMasterInt}, old_ctx : {"TASK"},
                   state : {TRUE}, body : {"none"}, next : {Idle}]
    BY <1>1, <1>2, Entered
  <2>2. code' \in IrqCode /\ code'.pc = "isr"
    BY <2>1 DEF IrqCode, Bodies, Threads
  <2>3. PicMasterInt \notin TrapGates
    BY DEF PicMasterInt, TrapGates, UserInts, SyscallInts
  <2>4. /\ cpu' \in Registers
        /\ cpu'.on = current /\ cpu'.esp0 = current /\ cpu'.gdt = cpu.gdt /\ cpu'.cr3 = Kernel
        /\ cpu'.ints = (cpu.ints /\ PicMasterInt \in TrapGates)
    BY <1>1, <1>2, Entered
  <2>5. QED
    BY <2>2, <2>3, <2>4
<1> DEFINE frame == [code |-> code, ints |-> cpu.ints, cr3 |-> cpu.cr3]
<1>4. CASE InTask \/ InIdle
  <2>1. frame = StartFrame(current)
    BY <1>1, <1>4, StartFrames DEF InTask, InIdle, IntsOfUsers, MachineInv, TypeInv, Registers
  <2>2. stack[current] = <<>>
    BY <1>4 DEF InTask, InIdle
  <2>3. stack' = [stack EXCEPT ![current] = <<frame>>]
    <3>1. /\ InUser => stack' = [stack EXCEPT ![current] = <<frame>>]
          /\ ~InUser => stack' = [stack EXCEPT ![current] = Append(stack[current], frame)]
      BY <1>1, <1>2, Entered
    <3>2. Append(<<>>, frame) = <<frame>>
      BY OneFrame
    <3> HIDE DEF frame
    <3>3. QED
      BY <2>2, <3>1, <3>2
  <2>4. stack' = [stack EXCEPT ![current] = <<StartFrame(current)>>]
    BY <2>1, <2>3
  <2>5. stack'[current] = <<StartFrame(current)>>
    BY <1>2, <2>4 DEF TypeInv
  <2>6. enabled /\ current \in alive
    BY <1>4 DEF InTask, InIdle, MachineInv, TypeInv
  <2>7. InIrq'
    BY <1>1, <1>2, <1>3, <2>5, <2>6 DEF InIrq, StartFrame
  <2>8. QED
    BY <1>1, <1>2, <1>3, <2>4, <2>7, CurrentStep DEF Own, TypeInv
<1>5. CASE InKernel
  <2>1. ~InUser /\ stack[current] = <<StartFrame(current)>>
    BY <1>5 DEF InUser, InKernel, KernelCode, KernelPcs
  <2>2. frame \in KernelFrames /\ frame.code = code /\ OfCurrent(code)
    BY <1>2, <1>5 DEF InKernel, KernelFrames, TypeInv, Registers
  <2> HIDE DEF frame
  <2>3. stack' = [stack EXCEPT ![current] = <<StartFrame(current), frame>>]
    <3>1. ~InUser => stack' = [stack EXCEPT ![current] = Append(stack[current], frame)]
      BY <1>1, <1>2, Entered DEF frame
    <3>2. Append(<<StartFrame(current)>>, frame) = <<StartFrame(current), frame>>
      BY TwoFrames
    <3>3. QED
      BY <2>1, <3>1, <3>2
  <2>4. stack'[current] = <<StartFrame(current), frame>>
    BY <1>2, <2>3 DEF TypeInv
  <2>5. /\ stack'[current] = <<StartFrame(current), stack'[current][2]>>
        /\ stack'[current][2] = frame
    BY <2>4
  <2>6. OfCurrent(stack[current][2].code)'
    BY <1>1, <2>2, <2>5 DEF OfCurrent
  <2>7. current' \in Tasks
    BY <1>1, <1>5 DEF InKernel
  <2>8. InIrq'
    BY <1>1, <1>2, <1>3, <2>2, <2>5, <2>6, <2>7 DEF InIrq, StartFrame
  <2>9. QED
    BY <1>1, <1>2, <1>3, <2>3, <2>8, CurrentStep DEF Own, TypeInv
<1>6. QED
  BY <1>2, <1>4, <1>5

\* x86_isr_handler, an interrupt of the hardware
LEMMA IsrIrqInv ==
  ASSUME IntsOfUsers, MachineInv, IsrIrq
  PROVE  MachineInv'
<1>1. /\ code.pc = "isr" /\ code.int \in IrqInts
      /\ code' = [code EXCEPT !.pc = "tick", !.old_ctx = ctx] /\ ctx' = "INTERRUPT"
      /\ UNCHANGED <<current, cpu, stack, saved, tls, alive, enabled, pending, failure>>
  BY DEF IsrIrq, Running, Handles, tasks, sched
<1>2. Own /\ InIrq /\ TypeInv
  BY <1>1, Where DEF MachineInv, InKernel, KernelCode
<1>3. ctx = "TASK" /\ code \in IrqCode
  BY <1>1, <1>2 DEF InIrq
<1>4. code' \in IrqCode /\ code'.pc = "tick"
  BY <1>1, <1>3 DEF IrqCode
<1>5. InIrq'
  <2>1. OfCurrent(stack[current][2].code)' <=> OfCurrent(stack[current][2].code)
    BY <1>1 DEF OfCurrent
  <2>2. QED
    BY <1>1, <1>2, <1>4, <2>1 DEF InIrq, StartFrame
<1>6. stack' = [stack EXCEPT ![current] = stack[current]]
  BY <1>1, <1>2 DEF TypeInv
<1>7. QED
  BY <1>1, <1>2, <1>3, <1>5, <1>6, CurrentStep DEF TypeInv

\* x86_isr_handler, the rest: no fault is ever one in an interrupt.
LEMMA IsrTaskInv ==
  ASSUME IntsOfUsers, MachineInv, IsrTask
  PROVE  MachineInv'
<1>1. Own /\ InKernel /\ TypeInv /\ code.pc = "isr" /\ ctx = "TASK" /\ code \in KernelCode
  BY Where DEF IsrTask, Running, MachineInv, InKernel
<1>2. PICK pc \in {"syscall", "exception", "isr_out"} :
         code' = [code EXCEPT !.pc = pc, !.old_ctx = ctx] /\ ctx' = "TASK"
  BY <1>1 DEF IsrTask, Handles, UserHandled
<1>3. UNCHANGED <<current, cpu, stack, saved, tls, alive, enabled, pending, failure>>
  BY <1>1 DEF IsrTask, tasks, sched
<1>4. code' \in KernelCode /\ code'.pc = pc
  BY <1>1, <1>2 DEF KernelCode, KernelPcs
<1>5. OfCurrent(code)'
  BY <1>1, <1>3, <1>4 DEF InKernel, OfCurrent, Section_
<1>6. cpu' \in Registers /\ cpu'.gdt = tls'[current]
  BY <1>1, <1>3 DEF TypeInv, Own
<1>7. QED
  BY <1>1, <1>2, <1>3, <1>4, <1>5, <1>6, KernelStep DEF TypeInv

\* switch_to, from boot, from a system call and from the handler of the timer.
LEMMA SwitchInv ==
  ASSUME IntsOfUsers, MachineInv, NEW t \in Threads, SwitchTo(t),
         code.pc \in {"switch", "tick"}, enabled, pending' \in BOOLEAN, failure = "none",
         UNCHANGED <<tls, alive, enabled>>
  PROVE  MachineInv'
<1> USE DEF TypeInv
<1>0. TypeInv /\ Others
  BY DEF MachineInv
<1>1. CASE t \notin alive
  <2>1. UNCHANGED <<ctx, current, cpu, code, stack, saved>> /\ failure' = "switch_to_exited"
    BY <1>1 DEF SwitchTo
  <2>2. TypeInv'
    BY <1>0, <2>1
  <2>3. Others'
    BY <1>0, <2>1 DEF Others, Waiting, StartFrame
  <2>4. OfCurrent(code) => OfCurrent(code)'
    BY <2>1 DEF OfCurrent, Section_
  <2>5. OfCurrent(stack[current][2].code) => OfCurrent(stack[current][2].code)'
    BY <2>1 DEF OfCurrent, Section_
  <2>6. Booting => Booting'
    BY <2>1 DEF Booting, StartFrame
  <2>7. Own /\ InKernel => Own' /\ InKernel'
    BY <2>1, <2>4 DEF Own, InKernel, StartFrame
  <2>8. Own /\ InIrq => Own' /\ InIrq'
    BY <2>1, <2>5 DEF Own, InIrq, StartFrame
  <2>9. Booting \/ (Own /\ InKernel) \/ (Own /\ InIrq)
    BY Where
  <2>10. QED
    BY <2>2, <2>3, <2>6, <2>7, <2>8, <2>9 DEF MachineInv
<1>2. CASE t \in alive /\ Booting
  <2>1. SwitchFromBoot(t) /\ failure' = failure
    BY <1>2 DEF SwitchTo, Booting
  <2>2. /\ ctx' = "TASK" /\ current' = t /\ saved' = saved
        /\ Resume(saved[t], stack, Switched(t))
    BY <2>1 DEF SwitchFromBoot
  <2>3. \A u \in alive : saved[u] = <<u, Len(stack[u])>> /\ Waiting(u, stack[u])
    BY <1>0, <1>2 DEF Others, Booting
  <2>4. QED
    BY <1>0, <1>2, <2>1, <2>2, <2>3, SwitchedOver
<1>3. CASE t \in alive /\ code.pc = "switch" /\ Own /\ InKernel
  <2>1. SwitchFromTask(t) /\ failure' = failure /\ ctx = "TASK"
    BY <1>3 DEF SwitchTo, InKernel
  <2>2. code \in KernelCode /\ OfCurrent(code) /\ current \in Tasks /\ cpu.on = current
    BY <1>3 DEF InKernel, Own
  <2>3. CASE t = current
    <3>1. code' = Goes(code, "isr_out") /\ UNCHANGED <<ctx, current, cpu, stack, saved>>
      BY <2>1, <2>3 DEF SwitchFromTask
    <3>2. code' \in KernelCode /\ code'.pc = "isr_out"
      BY <2>2, <3>1, GoesKernel DEF KernelPcs
    <3>3. OfCurrent(code)'
      BY <1>3, <2>3, <3>1, <3>2 DEF OfCurrent, Section_
    <3>4. QED
      BY <1>0, <1>3, <2>1, <3>1, <3>2, <3>3, KernelStep DEF Own
  <2>4. CASE t # current
    <3> DEFINE f == [code |-> Goes(code, "isr_out"), ints |-> cpu.ints, cr3 |-> cpu.cr3]
               s == [stack EXCEPT ![current] = <<StartFrame(current), f>>]
    <3>1. stack[current] = <<StartFrame(current)>>
      BY <1>3 DEF InKernel
    <3>2. f \in KernelFrames /\ f.code.pc = "isr_out"
      <4>1. Goes(code, "isr_out") \in KernelCode /\ Goes(code, "isr_out").pc = "isr_out"
        BY <2>2, GoesKernel DEF KernelPcs
      <4>2. cpu.cr3 = Kernel /\ cpu.ints \in BOOLEAN
        BY <1>0, <1>3 DEF InKernel, Registers
      <4>3. QED
        BY <4>1, <4>2 DEF KernelFrames
    <3>3. [stack EXCEPT ![cpu.on] = Append(@, f)] = s
      <4> HIDE DEF f
      <4>1. Append(<<StartFrame(current)>>, f) = <<StartFrame(current), f>>
        BY TwoFrames
      <4>2. QED
        BY <2>2, <3>1, <4>1
    <3>4. /\ current' = t /\ ctx' = ctx
          /\ saved' = [saved EXCEPT ![current] = <<cpu.on, Len(s[cpu.on])>>]
          /\ Resume(saved[t], s, Switched(t))
      BY <2>1, <2>4, <3>3 DEF SwitchFromTask
    <3> HIDE DEF f
    <3>5. /\ s = [u \in Threads |-> s[u]]
          /\ s[current] = <<StartFrame(current), f>>
          /\ \A u \in Threads : u # current => s[u] = stack[u]
      BY <1>0
    <3>6. /\ saved' = [u \in Threads |-> saved'[u]]
          /\ saved'[current] = <<current, Len(s[current])>>
          /\ \A u \in Threads : u # current => saved'[u] = saved[u]
      BY <1>0, <2>2, <3>4
    <3> HIDE DEF s
    <3>7. Waiting(current, s[current])
      <4>1. s[current] = <<StartFrame(current), s[current][2]>> /\ s[current][2] = f
        BY <3>5
      <4>2. QED
        BY <2>2, <3>2, <4>1 DEF Waiting, Section_, IntsOfUsers
    <3>8. \A u \in alive : u # current => saved[u] = <<u, Len(s[u])>> /\ Waiting(u, s[u])
      BY <1>0, <3>5 DEF Others
    <3>9. \A u \in alive : u # t => saved'[u] = <<u, Len(s[u])>> /\ Waiting(u, s[u])
      BY <1>0, <3>6, <3>7, <3>8
    <3>10. saved[t] = <<t, Len(s[t])>> /\ Waiting(t, s[t])
      BY <1>3, <2>4, <3>8
    <3>11. QED
      BY <1>0, <1>3, <2>1, <3>4, <3>5, <3>6, <3>9, <3>10, SwitchedOver
  <2>5. QED
    BY <2>3, <2>4
<1>4. CASE t \in alive /\ code.pc = "tick" /\ Own /\ InIrq
  <2>1. SwitchFromInterrupt(t) /\ failure' = failure /\ ctx = "INTERRUPT"
    BY <1>4 DEF SwitchTo, InIrq
  <2>2. code \in IrqCode /\ cpu.on = current /\ current \in Threads
    BY <1>0, <1>4 DEF InIrq, Own
  <2>3. CASE t = current
    <3>1. code' = Goes(code, "isr_out") /\ UNCHANGED <<ctx, current, cpu, stack, saved>>
      BY <2>1, <2>3 DEF SwitchFromInterrupt
    <3>2. code' \in IrqCode /\ code'.pc = "isr_out"
      BY <2>2, <3>1, GoesKernel
    <3>3. OfCurrent(stack[current][2].code) => OfCurrent(stack[current][2].code)'
      BY <1>4, <2>3, <3>1 DEF OfCurrent, Section_
    <3>4. InIrq'
      BY <1>4, <2>1, <3>1, <3>2, <3>3 DEF InIrq, StartFrame
    <3>5. stack' = [stack EXCEPT ![current] = stack[current]]
      BY <1>0, <3>1
    <3>6. QED
      BY <1>0, <1>4, <2>1, <3>1, <3>4, <3>5, CurrentStep
  <2>4. CASE t # current
    <3>1. /\ current' = t /\ ctx' = "TASK"
          /\ saved' = [saved EXCEPT ![current] = <<current, Len(stack[current])>>]
          /\ Resume(saved[t], stack, Switched(t))
      BY <2>1, <2>2, <2>4 DEF SwitchFromInterrupt, InterruptFrame
    <3>2. /\ saved' = [u \in Threads |-> saved'[u]]
          /\ saved'[current] = <<current, Len(stack[current])>>
          /\ \A u \in Threads : u # current => saved'[u] = saved[u]
      BY <1>0, <3>1
    <3>3. Waiting(current, stack[current])
      BY <1>4 DEF InIrq, Waiting, OfCurrent, IntsOfUsers
    <3>4. \A u \in alive : u # current => saved[u] = <<u, Len(stack[u])>> /\ Waiting(u, stack[u])
      BY <1>0 DEF Others
    <3>5. \A u \in alive : u # t => saved'[u] = <<u, Len(stack[u])>> /\ Waiting(u, stack[u])
      BY <1>0, <3>2, <3>3, <3>4
    <3>6. saved[t] = <<t, Len(stack[t])>> /\ Waiting(t, stack[t])
      BY <1>4, <2>4, <3>4
    <3>7. QED
      BY <1>0, <1>4, <2>1, <3>1, <3>2, <3>5, <3>6, SwitchedOver
  <2>5. QED
    BY <2>3, <2>4
<1>5. QED
  BY <1>1, <1>2, <1>3, <1>4, Where

LEMMA TickInv ==
  ASSUME IntsOfUsers, MachineInv, Tick
  PROVE  MachineInv'
<1>1. /\ code.pc = "tick" /\ failure = "none" /\ Own /\ InIrq /\ TypeInv
      /\ UNCHANGED <<tls, alive, enabled>>
  BY Where DEF Tick, Running, tasks, MachineInv
<1>2. CASE enabled
  <2>1. PICK t \in alive : SwitchTo(t)
    BY <1>2 DEF Tick
  <2>2. pending' \in BOOLEAN /\ t \in Threads
    BY <1>1, <1>2, <2>1 DEF Tick, TypeInv
  <2>3. QED
    BY <1>1, <1>2, <2>1, <2>2, SwitchInv
<1>3. CASE ~enabled
  <2>1. /\ pending' = TRUE /\ code' = Goes(code, "isr_out")
        /\ UNCHANGED <<ctx, current, cpu, stack, saved, failure>>
    BY <1>3 DEF Tick
  <2>2. code \in IrqCode /\ ctx = "INTERRUPT"
    BY <1>1 DEF InIrq
  <2>3. code' \in IrqCode /\ code'.pc = "isr_out"
    BY <2>1, <2>2, GoesKernel
  <2>4. OfCurrent(stack[current][2].code) => OfCurrent(stack[current][2].code)'
    BY <1>1, <2>1 DEF OfCurrent, Section_
  <2>5. InIrq'
    BY <1>1, <2>1, <2>2, <2>3, <2>4 DEF InIrq, StartFrame
  <2>6. stack' = [stack EXCEPT ![current] = stack[current]]
    BY <1>1, <2>1 DEF TypeInv
  <2>7. QED
    BY <1>1, <2>1, <2>2, <2>5, <2>6, CurrentStep DEF TypeInv
<1>4. QED
  BY <1>1, <1>2, <1>3 DEF TypeInv

\* __restore_context, from the end of a handler
LEMMA IsrOutInv ==
  ASSUME IntsOfUsers, MachineInv, IsrOut
  PROVE  MachineInv'
<1>1. /\ code.pc = "isr_out" /\ Own /\ (InKernel \/ InIrq) /\ TypeInv
      /\ ctx' = code.old_ctx /\ Resume(<<current, Len(stack[current])>>, stack, cpu)
      /\ UNCHANGED <<current, saved, failure, tls, alive, enabled, pending>>
  BY Where DEF IsrOut, Running, MachineInv, Own, InterruptFrame, tasks, sched
<1>2. ctx' = "TASK" /\ ctx # "BOOT_TIME"
  BY <1>1 DEF InKernel, InIrq, KernelCode, IrqCode
<1>3. CASE stack[current] = <<StartFrame(current)>> /\ enabled /\ current \in alive
  <2>1. Waiting(current, stack[current])
    BY <1>3 DEF Waiting
  <2>2. /\ cpu' \in Registers /\ Own'
        /\ InTask' \/ InIdle' \/ InKernel'
        /\ stack' = [u \in Threads |-> stack'[u]]
        /\ \A u \in Threads : u # current => stack'[u] = stack[u]
    <3>1. /\ current \in Threads /\ cpu \in Registers /\ stack = [u \in Threads |-> stack[u]]
          /\ cpu.gdt = tls[current] /\ cpu.esp0 = current
          /\ current' = current /\ current \in alive' /\ tls' = tls /\ enabled'
      BY <1>1, <1>3 DEF TypeInv, Own
    <3>2. QED
      BY <1>1, <1>2, <2>1, <3>1, Resumed
  <2>3. stack' = [stack EXCEPT ![current] = stack'[current]]
    BY <1>1, <2>2 DEF TypeInv
  <2>4. QED
    BY <1>1, <1>2, <2>2, <2>3, CurrentStep DEF Own, TypeInv
<1>4. CASE /\ current \in Tasks
           /\ stack[current] = <<StartFrame(current), stack[current][2]>>
           /\ stack[current][2] \in KernelFrames /\ OfCurrent(stack[current][2].code)
  <2> DEFINE f == stack[current][2]
  <2>1. Len(stack[current]) = 2 /\ SubSeq(stack[current], 1, 1) = <<StartFrame(current)>>
    BY <1>4, TwoFrames
  <2>2. /\ cpu' = [cpu EXCEPT !.on = current, !.ints = f.ints, !.cr3 = f.cr3, !.gs = cpu.gdt]
        /\ code' = f.code
        /\ stack' = [stack EXCEPT ![current] = <<StartFrame(current)>>]
    <3>1. LET g == stack[current][Len(stack[current])] IN
          /\ cpu' = [cpu EXCEPT !.on = current, !.ints = g.ints, !.cr3 = g.cr3, !.gs = cpu.gdt]
          /\ code' = g.code
          /\ stack' = [stack EXCEPT ![current] = SubSeq(@, 1, Len(stack[current]) - 1)]
      BY <1>1 DEF Resume
    <3>2. Len(stack[current]) - 1 = 1
      BY <2>1
    <3>3. SubSeq(stack[current], 1, Len(stack[current]) - 1) = <<StartFrame(current)>>
      BY <2>1, <3>2
    <3>4. QED
      BY <2>1, <3>1, <3>3
  <2>3. f.ints \in BOOLEAN /\ f.cr3 = Kernel /\ f.code \in KernelCode
    BY <1>4 DEF KernelFrames
  <2>4. /\ cpu' \in Registers /\ cpu'.on = cpu.on /\ cpu'.esp0 = cpu.esp0
        /\ cpu'.gdt = cpu.gdt /\ cpu'.cr3 = Kernel
    BY <1>1, <2>2, <2>3 DEF TypeInv, Registers, Own
  <2>5. OfCurrent(code)'
    BY <1>1, <1>4, <2>2 DEF OfCurrent
  <2>6. stack'[current] = <<StartFrame(current)>>
    BY <1>1, <2>2 DEF TypeInv
  <2>7. InKernel'
    BY <1>1, <1>2, <1>4, <2>2, <2>3, <2>4, <2>5, <2>6 DEF InKernel, StartFrame
  <2>8. QED
    BY <1>1, <1>2, <2>2, <2>4, <2>7, CurrentStep DEF TypeInv
<1>5. InKernel => stack[current] = <<StartFrame(current)>> /\ enabled /\ current \in alive
  BY <1>1 DEF InKernel, OfCurrent, Section_
<1>6. QED
  BY <1>1, <1>3, <1>4, <1>5 DEF InIrq

\* TASK_ATOMIC_ENTER
LEMMA PauseInv ==
  ASSUME IntsOfUsers, MachineInv, NEW body \in {"quiet", "request", "exit"}, Pause(body),
         code.pc \in {"syscall", "exception"}
  PROVE  MachineInv'
<1>1. /\ Own /\ InKernel /\ TypeInv /\ code \in KernelCode /\ enabled /\ current \in alive
      /\ enabled' = FALSE
      /\ code' = [Goes(code, "paused") EXCEPT !.state = enabled, !.body = body]
      /\ UNCHANGED <<ctx, current, cpu, stack, saved, tls, alive, pending, failure>>
  BY Where DEF InKernel, OfCurrent, Section_, MachineInv, Pause, tasks
<1>2. code' \in KernelCode /\ code'.pc = "paused" /\ code'.state = TRUE
  <2> DEFINE g == Goes(code, "paused")
  <2>1. g \in KernelCode /\ g.pc = "paused"
    BY <1>1, GoesKernel DEF KernelPcs
  <2> HIDE DEF g
  <2>2. code' = [g EXCEPT !.state = TRUE, !.body = body]
    BY <1>1 DEF TypeInv, g
  <2>3. QED
    BY <2>1, <2>2 DEF KernelCode, Bodies
<1>3. OfCurrent(code)'
  BY <1>1, <1>2 DEF OfCurrent, Section_
<1>4. QED
  BY <1>1, <1>2, <1>3, KernelStep DEF TypeInv, Own

\* The system calls.
LEMMA SyscallInv ==
  ASSUME IntsOfUsers, MachineInv, Syscall
  PROVE  MachineInv'
<1>1. /\ code.pc = "syscall" /\ Own /\ InKernel /\ TypeInv /\ code \in KernelCode
      /\ enabled /\ current \in alive
  <2>1. code.pc = "syscall"
    BY DEF Syscall, SetTls, SetUserIsr, BrkWithoutData, Running
  <2>2. Own /\ InKernel
    BY <2>1, Where
  <2>3. QED
    BY <2>1, <2>2 DEF InKernel, OfCurrent, Section_, MachineInv
<1>2. code' = Goes(code, "isr_out") => code' \in KernelCode /\ code'.pc = "isr_out"
  BY <1>1, GoesKernel DEF KernelPcs
<1>3. ASSUME NEW base \in {0, 1}, SetTls(base) PROVE MachineInv'
  <2>1. /\ tls' = [tls EXCEPT ![current] = base] /\ cpu' = [cpu EXCEPT !.gdt = base]
        /\ code' = Goes(code, "isr_out")
        /\ UNCHANGED <<ctx, current, stack, saved, alive, enabled, pending, failure>>
    BY <1>3 DEF SetTls, WithTls, sched
  <2>2. /\ cpu' \in Registers /\ cpu'.on = cpu.on /\ cpu'.esp0 = cpu.esp0
        /\ cpu'.cr3 = cpu.cr3 /\ cpu'.gdt = base
    BY <1>1, <2>1 DEF TypeInv, Registers
  <2>3. tls' \in [Threads -> Nat] /\ tls'[current] = base
    BY <1>1, <2>1 DEF TypeInv
  <2>4. OfCurrent(code)'
    BY <1>1, <1>2, <2>1 DEF OfCurrent, Section_
  <2>5. QED
    BY <1>1, <1>2, <2>1, <2>2, <2>3, <2>4, KernelStep DEF TypeInv
<1>4. CASE SetUserIsr
  <2>1. /\ code' = Goes(code, "isr_out")
        /\ UNCHANGED <<ctx, current, cpu, stack, saved, tls, alive, enabled, pending, failure>>
    BY <1>4 DEF SetUserIsr, sched
  <2>2. OfCurrent(code)'
    BY <1>1, <1>2, <2>1 DEF OfCurrent, Section_
  <2>3. QED
    BY <1>1, <1>2, <2>1, <2>2, KernelStep DEF TypeInv, Own
<1>5. CASE BrkWithoutData
  <2>1. /\ code' = Goes(code, "isr_out") /\ cpu' = [cpu EXCEPT !.ints = FALSE]
        /\ UNCHANGED <<ctx, current, stack, saved, tls, alive, enabled, pending, failure>>
    BY <1>5 DEF BrkWithoutData, tasks, sched
  <2>2. /\ cpu' \in Registers /\ cpu'.on = cpu.on /\ cpu'.esp0 = cpu.esp0
        /\ cpu'.cr3 = cpu.cr3 /\ cpu'.gdt = cpu.gdt
    BY <1>1, <2>1 DEF TypeInv, Registers
  <2>3. OfCurrent(code)'
    BY <1>1, <1>2, <2>1 DEF OfCurrent, Section_
  <2>4. QED
    BY <1>1, <1>2, <2>1, <2>2, <2>3, KernelStep DEF TypeInv, Own
<1>6. ASSUME NEW body \in {"quiet", "request", "exit"}, Pause(body) PROVE MachineInv'
  BY <1>1, <1>6, PauseInv
<1>7. QED
  BY <1>3, <1>4, <1>5, <1>6 DEF Syscall

LEMMA SectionInv ==
  ASSUME IntsOfUsers, MachineInv, Section
  PROVE  MachineInv'
<1>1. /\ code.pc = "paused" /\ Own /\ InKernel /\ TypeInv /\ code \in KernelCode
      /\ current \in Tasks /\ current \in alive /\ ~enabled /\ code.state
  BY Where DEF Section, Running, MachineInv, InKernel, OfCurrent, Section_, TypeInv
<1>2. /\ pending' = (pending \/ code.body # "quiet")
      /\ alive' = IF code.body = "exit" THEN alive \ {current} ELSE alive
      /\ cpu' = [cpu EXCEPT !.ints = cpu.ints \/ code.body = "exit"]
      /\ code' = [code EXCEPT !.pc = "restore"]
      /\ UNCHANGED <<ctx, current, stack, saved, tls, enabled, failure>>
  BY DEF Section
<1>3. /\ code' \in KernelCode /\ code'.pc = "restore" /\ code'.body = code.body
      /\ code'.state = code.state
  BY <1>1, <1>2 DEF KernelCode, KernelPcs
<1>4. /\ cpu' \in Registers /\ cpu'.on = cpu.on /\ cpu'.esp0 = cpu.esp0
      /\ cpu'.cr3 = cpu.cr3 /\ cpu'.gdt = cpu.gdt
  <2>1. (cpu.ints \/ code.body = "exit") \in BOOLEAN
    OBVIOUS
  <2>2. QED
    BY <1>1, <1>2, <2>1 DEF TypeInv, Registers
<1>5. alive' \subseteq alive /\ Idle \in alive' /\ pending' \in BOOLEAN
  BY <1>1, <1>2 DEF TypeInv, IntsOfUsers
<1>6. current \notin alive' => code.body = "exit" /\ pending'
  BY <1>1, <1>2
<1>7. OfCurrent(code)'
  BY <1>1, <1>2, <1>3, <1>6 DEF OfCurrent, Section_
<1>8. QED
  BY <1>1, <1>2, <1>3, <1>4, <1>5, <1>7, KernelStep DEF TypeInv, Own

LEMMA RestoreInv ==
  ASSUME IntsOfUsers, MachineInv, Restore
  PROVE  MachineInv'
<1>1. /\ code.pc = "restore" /\ Own /\ InKernel /\ TypeInv /\ code \in KernelCode
      /\ OfCurrent(code) /\ code.state
  BY Where DEF Restore, Running, MachineInv, InKernel, OfCurrent, Section_
<1>2. /\ enabled' = TRUE
      /\ code' = Goes(code, IF pending THEN "sched" ELSE "isr_out")
      /\ UNCHANGED <<ctx, current, cpu, stack, saved, tls, alive, pending, failure>>
  BY <1>1 DEF Restore, tasks
<1>3. code' \in KernelCode /\ code'.pc = IF pending THEN "sched" ELSE "isr_out"
  BY <1>1, <1>2, GoesKernel DEF KernelPcs
<1>4. current \notin alive => pending
  BY <1>1 DEF OfCurrent
<1>5. OfCurrent(code)'
  BY <1>2, <1>3, <1>4 DEF OfCurrent, Section_
<1>6. QED
  BY <1>1, <1>2, <1>3, <1>5, KernelStep DEF TypeInv, Own

\* defsched_sched, from boot or from a task
LEMMA ChooseInv ==
  ASSUME IntsOfUsers, MachineInv, Choose
  PROVE  MachineInv'
<1>1. /\ code.pc = "sched" /\ (Booting \/ (Own /\ InKernel)) /\ TypeInv /\ Others
  BY Where DEF Choose, Running, MachineInv
<1>2. /\ pending' = FALSE
      /\ UNCHANGED <<ctx, current, cpu, stack, saved, tls, alive, enabled, failure>>
  BY DEF Choose, tasks
<1>3. PICK t \in alive : code' = [Goes(code, "switch") EXCEPT !.next = t]
  BY DEF Choose
<1>4. code' \in KernelCode /\ code'.pc = "switch" /\ code'.next = t
  <2> DEFINE g == Goes(code, "switch")
  <2>1. g \in KernelCode /\ g.pc = "switch"
    BY <1>1, GoesKernel DEF KernelPcs, Booting, InKernel
  <2> HIDE DEF g
  <2>2. code' = [g EXCEPT !.next = t] /\ t \in Threads
    BY <1>1, <1>3 DEF TypeInv, g
  <2>3. QED
    BY <2>1, <2>2 DEF KernelCode
<1>5. CASE Booting
  <2>1. Booting'
    BY <1>2, <1>4, <1>5 DEF Booting, StartFrame
  <2>2. TypeInv' /\ Others'
    BY <1>1, <1>2 DEF TypeInv, Others, Waiting, StartFrame
  <2>3. QED
    BY <2>1, <2>2 DEF MachineInv
<1>6. CASE Own /\ InKernel
  <2>1. enabled
    BY <1>1, <1>6 DEF InKernel, OfCurrent, Section_
  <2>2. OfCurrent(code)'
    BY <1>2, <1>4, <2>1 DEF OfCurrent, Section_
  <2>3. QED
    BY <1>1, <1>2, <1>4, <1>6, <2>2, KernelStep DEF TypeInv, Own
<1>7. QED
  BY <1>1, <1>5, <1>6

LEMMA SwitchesInv ==
  ASSUME IntsOfUsers, MachineInv, Switch
  PROVE  MachineInv'
<1>1. /\ code.pc = "switch" /\ failure = "none" /\ TypeInv
      /\ (Booting \/ (Own /\ InKernel))
      /\ SwitchTo(code.next)
      /\ UNCHANGED <<tls, alive, enabled, pending>>
  BY Where DEF Switch, Running, tasks, sched, MachineInv
<1>2. enabled /\ code.next \in Threads
  BY <1>1 DEF Booting, InKernel, OfCurrent, Section_, KernelCode
<1>3. QED
  BY <1>1, <1>2, SwitchInv DEF TypeInv

LEMMA NextInv ==
  ASSUME IntsOfUsers, MachineInv, [Next]_vars
  PROVE  MachineInv'
<1>1. CASE TimerFires \/ UNCHANGED vars
  <2>1. UNCHANGED <<ctx, current, cpu, code, stack, saved, tls, alive, enabled, pending, failure>>
    BY <1>1 DEF TimerFires, vars, machine, tasks, sched
  <2>2. QED
    BY <2>1 DEF MachineInv, TypeInv, Others, Waiting, StartFrame, Booting, Own, InTask, InIdle,
                InKernel, InIrq, OfCurrent
<1>2. CASE TriggerException
  BY <1>2, PauseInv DEF TriggerException, Running
<1>3. QED
  BY <1>1, <1>2, IrqInv, UserInterruptInv, IsrIrqInv, IsrTaskInv, TickInv, IsrOutInv, SyscallInv,
     SectionInv, RestoreInv, ChooseInv, SwitchesInv
     DEF Next, Code, Handler, User

-----------------------------------------------------------------------------
(* What follows.                                                            *)

LEMMA AlwaysMachineInv ==
  ASSUME IntsOfUsers
  PROVE  Spec => []MachineInv
<1>1. Init => MachineInv
  BY InitInv
<1>2. MachineInv /\ [Next]_vars => MachineInv'
  BY NextInv
<1>3. QED
  BY <1>1, <1>2, PTL DEF Spec

LEMMA InvContext ==
  ASSUME MachineInv
  PROVE  ContextMatches
<1>1. failure # "fault_in_interrupt"
  BY DEF MachineInv, TypeInv
<1>2. (code.int \in IrqInts /\ code.pc # "isr") <=> (ctx = "INTERRUPT")
  <2>1. CASE Booting \/ InKernel
    BY <2>1 DEF Booting, InKernel, KernelCode
  <2>2. CASE InTask \/ InIdle
    BY <2>2, Codes DEF InTask, InIdle
  <2>3. CASE InIrq
    BY <2>3, Codes DEF InIrq, IrqCode
  <2>4. QED
    BY <2>1, <2>2, <2>3 DEF MachineInv
<1>3. ctx = "BOOT_TIME" => Booting
  BY DEF MachineInv, InTask, InIdle, InKernel, InIrq
<1>4. ctx = "BOOT_TIME" => \A t \in Tasks : stack[t] = <<StartFrame(t)>>
  BY <1>3 DEF Booting, Threads
<1>5. QED
  BY <1>1, <1>2, <1>4 DEF ContextMatches

LEMMA InvFrames ==
  ASSUME MachineInv
  PROVE  FramesKept
<1> SUFFICES ASSUME NEW t \in alive, t # current \/ ctx = "BOOT_TIME"
             PROVE  /\ saved[t] = <<t, Len(stack[t])>>
                    /\ Len(stack[t]) > 0
                    /\ t # Idle => \A i \in DOMAIN stack[t] : stack[t][i].code.pc = "user" <=> i = 1
  BY DEF FramesKept
<1>1. saved[t] = <<t, Len(stack[t])>> /\ Waiting(t, stack[t])
  BY DEF MachineInv, Others
<1>2. t # Idle => StartFrame(t).code.pc = "user"
  BY StartFrames, Codes
<1>3. CASE stack[t] = <<StartFrame(t)>>
  <2>1. Len(stack[t]) = 1 /\ DOMAIN stack[t] = {1} /\ stack[t][1] = StartFrame(t)
    BY <1>3
  <2>2. QED
    BY <1>1, <1>2, <2>1
<1>4. CASE /\ stack[t] = <<StartFrame(t), stack[t][2]>> /\ stack[t][2] \in KernelFrames
  <2>1. /\ Len(stack[t]) = 2 /\ DOMAIN stack[t] = {1, 2} /\ stack[t][1] = StartFrame(t)
    BY <1>4
  <2>2. stack[t][2].code.pc # "user"
    BY <1>4 DEF KernelFrames, KernelCode, KernelPcs
  <2>3. QED
    BY <1>1, <1>2, <2>1, <2>2
<1>5. QED
  BY <1>1, <1>3, <1>4 DEF Waiting

LEMMA InvOwn ==
  ASSUME IntsOfUsers, MachineInv
  PROVE  OwnMachine
BY Where DEF OwnMachine, InUser, InTask, Own, MachineInv

\* interrupt.c, task.c: contexts match the code that runs, and no fault is ever
\* one in an interrupt, for any tasks and any interrupts of user code.
THEOREM ContextAlwaysMatches ==
  ASSUME IntsOfUsers
  PROVE  Spec => []ContextMatches
<1>1. MachineInv => ContextMatches
  BY InvContext
<1>2. QED
  BY <1>1, AlwaysMachineInv, PTL

\* intr.S, arch/x86/task.c: the frames of every task that waits are on its own
\* stack, where its saved stack pointer says, for any number of tasks.
THEOREM FramesAlwaysKept ==
  ASSUME IntsOfUsers
  PROVE  Spec => []FramesKept
<1>1. MachineInv => FramesKept
  BY InvFrames
<1>2. QED
  BY <1>1, AlwaysMachineInv, PTL

\* gdt.c, lock.h, syskrn.c: a task in user mode has its page table, its TLS, its
\* kernel stack, interrupts and the scheduler, for any number of tasks.
THEOREM AlwaysOwnMachine ==
  ASSUME IntsOfUsers
  PROVE  Spec => []OwnMachine
<1>1. MachineInv => OwnMachine
  BY InvOwn
<1>2. QED
  BY <1>1, AlwaysMachineInv, PTL

-----------------------------------------------------------------------------
(* The table of tasks and the list of services.                            *)

ConstantsApart ==
  /\ IsFiniteSet(Servers) /\ IdleThread \notin Servers
  /\ NULL \notin Servers \cup Names \cup {IdleThread}

Service == [name : Names, task : Servers]
Answer  == [name : Names, tid : Tids, owner : Servers]

TableTypes ==
  /\ toLoad \subseteq Servers /\ failures \in Nat
  /\ table \in [Tids -> Servers \cup {IdleThread, NULL}]
  /\ LiveTasks \subseteq Servers \cup {IdleThread}
  /\ live \in [LiveTasks -> Tids]
  /\ declared \in [LiveTasks -> Names \cup {NULL}]
  /\ services \in Seq(Service)
  /\ answers \in [Servers -> Answer \cup {Nothing}]

\* While servers are loaded none of them runs, so ids are taken only then and
\* no one has been told one; entry 0 is the idle thread's until a server fails.
BootInv ==
  /\ toLoad \cap LiveTasks = {}
  /\ failures = 0 => table[0] = IdleThread
  /\ toLoad # {} => \A t \in Servers : answers[t] = Nothing

TaskInv == TableTypes /\ BootInv /\ TableSound /\ ServicesSound

-----------------------------------------------------------------------------
(* Lemmas.                                                                  *)

LEMMA Least ==
  ASSUME NEW S \in SUBSET Nat, S # {}
  PROVE  \E m \in S : \A n \in S : ~(n < m)
<1> DEFINE R == OpToRel(<, Nat)
<1>1. \E m \in S : \A n \in S : <<n, m>> \notin R
  <2>1. IsWellFoundedOn(R, Nat)
    BY NatLessThanWellFounded
  <2> HIDE DEF R
  <2> QED
    BY <2>1, WFMin
<1>2. ASSUME NEW n \in S, NEW m \in S, n < m PROVE <<n, m>> \in R
  BY <1>2 DEF OpToRel
<1> HIDE DEF R
<1>3. \A n \in S, m \in S : n < m => <<n, m>> \in R
  BY <1>2
<1>4. QED
  BY <1>1, <1>3

\* The table is large enough: as long as a server is to be loaded, there is a
\* free entry, and __find_free_tid finds one.
LEMMA FreeTid ==
  ASSUME ConstantsApart, TaskInv, NEW t \in toLoad
  PROVE  FindFreeTid \in Tids /\ table[FindFreeTid] = NULL
<1> DEFINE Users == (Servers \ {t}) \cup {IdleThread}
           F == {tid \in Tids : table[tid] = NULL}
<1>1. IsFiniteSet(Users) /\ Cardinality(Users) = Cardinality(Servers)
  <2>1. t \in Servers /\ IdleThread \notin Servers \ {t} /\ IsFiniteSet(Servers)
    BY DEF ConstantsApart, TaskInv, TableTypes
  <2>2. IsFiniteSet(Servers \ {t}) /\ Cardinality(Servers \ {t}) = Cardinality(Servers) - 1
    BY <2>1, FS_RemoveElement
  <2>3. IsFiniteSet(Users) /\ Cardinality(Users) = Cardinality(Servers \ {t}) + 1
    BY <2>1, <2>2, FS_AddElement
  <2>4. QED
    BY <2>1, <2>2, <2>3, FS_CardinalityType
<1>2. Cardinality(Servers) \in Nat
  BY FS_CardinalityType DEF ConstantsApart
<1>3. IsFiniteSet(Tids) /\ Cardinality(Tids) = Cardinality(Servers) + 1
  BY <1>2, FS_Interval DEF Tids
<1>4. F # {}
  <2> SUFFICES ASSUME F = {} PROVE FALSE
    OBVIOUS
  <2>1. \A tid \in Tids : table[tid] \in LiveTasks /\ live[table[tid]] = tid
    BY DEF TaskInv, TableSound
  <2>2. LiveTasks \subseteq Users
    BY DEF TaskInv, TableTypes, BootInv
  <2>3. table \in [Tids -> Users]
    BY <2>1, <2>2 DEF TaskInv, TableTypes
  <2>4. PICK u, v \in Tids : u # v /\ table[u] = table[v]
    <3> HIDE DEF Users
    <3> QED
      BY <1>1, <1>2, <1>3, <2>3, FS_PigeonHole
  <2>5. QED
    BY <2>1, <2>4
<1>5. F \in SUBSET Nat
  BY <1>2 DEF Tids
<1>6. PICK m \in F : \A n \in F : ~(n < m)
  BY <1>4, <1>5, Least
<1>7. m \in Tids /\ GetTask(m) = NULL /\ \A u \in 0 .. (m - 1) : GetTask(u) # NULL
  BY <1>2, <1>6 DEF Tids, GetTask
<1>8. QED
  BY <1>7 DEF FindFreeTid, GetTask

LEMMA ServiceSeq ==
  ASSUME NEW q \in Seq(Service)
  PROVE  /\ Len(q) \in Nat /\ DOMAIN q = 1..Len(q)
         /\ \A i \in 1..Len(q) : q[i] \in Service
         /\ \A x : x \in ToSet(q) <=> \E i \in 1..Len(q) : q[i] = x
BY DEF ToSet

\* What a list with a service more, at its head, has.
LEMMA Prepended ==
  ASSUME NEW q \in Seq(Service), NEW s \in Service
  PROVE  LET r == <<s>> \o q IN
         /\ r \in Seq(Service) /\ Len(r) = Len(q) + 1 /\ r[1] = s
         /\ \A i \in 1..Len(q) : r[i + 1] = q[i]
         /\ ToSet(r) = ToSet(q) \cup {s}
<1> DEFINE r == <<s>> \o q
<1>1. /\ r \in Seq(Service) /\ Len(r) = 1 + Len(q)
      /\ \A i \in 1..(1 + Len(q)) : r[i] = IF i <= 1 THEN s ELSE q[i - 1]
  <2>1. <<s>> \in Seq(Service) /\ Len(<<s>>) = 1 /\ <<s>>[1] = s
    OBVIOUS
  <2> DEFINE one == <<s>>
  <2> HIDE DEF one
  <2>2. /\ one \o q \in Seq(Service) /\ Len(one \o q) = Len(one) + Len(q)
        /\ \A i \in 1..(Len(one) + Len(q)) :
             (one \o q)[i] = IF i <= Len(one) THEN one[i] ELSE q[i - Len(one)]
    BY <2>1, ConcatProperties DEF one
  <2>3. one \in Seq(Service) /\ Len(one) = 1 /\ one[1] = s /\ r = one \o q
    BY <2>1 DEF one
  <2> HIDE DEF r
  <2>4. QED
    BY <2>2, <2>3, ServiceSeq
<1> HIDE DEF r
<1>2. r[1] = s /\ \A i \in 1..Len(q) : r[i + 1] = q[i]
  BY <1>1, ServiceSeq
<1>3. ASSUME NEW x PROVE x \in ToSet(r) <=> x \in ToSet(q) \cup {s}
  <2>1. CASE x \in ToSet(r)
    <3>1. PICK i \in 1..Len(r) : r[i] = x
      BY <1>1, <2>1, ServiceSeq
    <3>2. i = 1 \/ (i - 1 \in 1..Len(q) /\ q[i - 1] = x)
      BY <1>1, <3>1, ServiceSeq
    <3>3. QED
      BY <1>2, <2>1, <3>1, <3>2, ServiceSeq
  <2>2. CASE x = s
    BY <1>1, <1>2, <2>2, ServiceSeq
  <2>3. CASE x \in ToSet(q)
    <3>1. PICK i \in 1..Len(q) : q[i] = x
      BY <2>3, ServiceSeq
    <3>2. i + 1 \in 1..Len(r) /\ r[i + 1] = x
      BY <1>1, <1>2, <3>1, ServiceSeq
    <3>3. QED
      BY <1>1, <2>3, <3>2, ServiceSeq
  <2>4. QED
    BY <2>1, <2>2, <2>3
<1>4. ToSet(r) = ToSet(q) \cup {s}
  BY <1>3
<1>5. QED
  BY <1>1, <1>2, <1>4 DEF r

\* What a list without its element at i has: each other element, once.
LEMMA Removed ==
  ASSUME NEW q \in Seq(Service), NEW i \in 1..Len(q)
  PROVE  LET r == RemoveAt(q, i) IN
         /\ r \in Seq(Service) /\ Len(r) = Len(q) - 1
         /\ \A j \in 1..Len(r) : r[j] = q[IF j < i THEN j ELSE j + 1]
<1> DEFINE a == SubSeq(q, 1, i - 1)
           b == SubSeq(q, i + 1, Len(q))
<1>1. Len(q) \in Nat /\ \A j \in 1..Len(q) : q[j] \in Service
  BY ServiceSeq
<1>2. /\ a \in Seq(Service) /\ Len(a) = i - 1
      /\ \A j \in 1..(i - 1) : a[j] = q[j]
  <2>1. \A j \in 1..(i - 1) : q[j] \in Service
    BY <1>1
  <2>2. QED
    BY <1>1, <2>1, SubSeqProperties
<1>3. /\ b \in Seq(Service) /\ Len(b) = Len(q) - i
      /\ \A j \in 1..(Len(q) - i) : b[j] = q[i + j]
  <2>1. \A j \in (i + 1)..Len(q) : q[j] \in Service
    BY <1>1
  <2>2. QED
    BY <1>1, <2>1, SubSeqProperties
<1>4. RemoveAt(q, i) = a \o b
  BY DEF RemoveAt
<1> HIDE DEF a, b
<1>5. /\ a \o b \in Seq(Service) /\ Len(a \o b) = Len(a) + Len(b)
      /\ \A j \in 1..(Len(a) + Len(b)) : (a \o b)[j] = IF j <= Len(a) THEN a[j] ELSE b[j - Len(a)]
  BY <1>2, <1>3, ConcatProperties
<1> DEFINE r == a \o b
<1> HIDE DEF r
<1>6. /\ r \in Seq(Service) /\ Len(r) = Len(q) - 1
      /\ \A j \in 1..(Len(q) - 1) : r[j] = IF j <= i - 1 THEN a[j] ELSE b[j - (i - 1)]
  BY <1>1, <1>2, <1>3, <1>5 DEF r
<1>7. ASSUME NEW j \in 1..Len(r) PROVE r[j] = q[IF j < i THEN j ELSE j + 1]
  <2>1. CASE j < i
    BY <1>1, <1>2, <1>6, <2>1
  <2>2. CASE j >= i
    <3>1. j - (i - 1) \in 1..(Len(q) - i) /\ i + (j - (i - 1)) = j + 1 /\ ~(j <= i - 1)
      BY <1>1, <1>6, <2>2
    <3>2. r[j] = b[j - (i - 1)]
      BY <1>1, <1>6, <3>1
    <3>3. b[j - (i - 1)] = q[i + (j - (i - 1))]
      BY <1>3, <3>1
    <3>4. QED
      BY <2>2, <3>1, <3>2, <3>3, <1>1, <1>6
  <2>3. QED
    BY <2>1, <2>2, <1>1, <1>6
<1>8. QED
  BY <1>4, <1>6, <1>7 DEF r

\* What the list of services has after a task was destroyed, with the service
\* it declared, if it did, taken out.
LEMMA UnregisteredOnce ==
  ASSUME ConstantsApart, TaskInv, NEW t \in LiveTasks \ {IdleThread}
  PROVE  LET r == Unregistered(t) IN
         /\ r \in Seq(Service)
         /\ ToSet(r) = {s \in ToSet(services) : s.task # t}
         /\ \A i, j \in DOMAIN r : r[i].name = r[j].name => i = j
<1>1. /\ services \in Seq(Service) /\ Len(services) \in Nat /\ DOMAIN services = 1..Len(services)
      /\ \A i \in 1..Len(services) : services[i] \in Service
      /\ \A x : x \in ToSet(services) <=> \E i \in 1..Len(services) : services[i] = x
  BY ServiceSeq DEF TaskInv, TableTypes
<1>2. /\ \A i, j \in DOMAIN services : services[i].name = services[j].name => i = j
      /\ \A s \in ToSet(services) : s.task \in LiveTasks /\ declared[s.task] = s.name
      /\ declared[t] # NULL => [name |-> declared[t], task |-> t] \in ToSet(services)
  BY DEF TaskInv, ServicesSound
<1>3. CASE declared[t] = NULL
  <2>1. Unregistered(t) = services
    BY <1>3 DEF Unregistered
  <2>2. ASSUME NEW s \in ToSet(services) PROVE s.task # t
    <3>1. declared[s.task] = s.name /\ s.name \in Names
      BY <1>1, <1>2 DEF Service
    <3>2. QED
      BY <1>3, <3>1 DEF ConstantsApart
  <2>3. QED
    BY <1>1, <1>2, <2>1, <2>2
<1>4. CASE declared[t] # NULL
  <2> DEFINE i == CHOOSE n \in DOMAIN services : services[n].task = t
             r == RemoveAt(services, i)
  <2>1. i \in 1..Len(services) /\ services[i].task = t
    <3>1. PICK n \in 1..Len(services) : services[n] = [name |-> declared[t], task |-> t]
      BY <1>1, <1>2, <1>4
    <3>2. QED
      BY <1>1, <3>1
  <2>2. Unregistered(t) = r
    BY <1>4 DEF Unregistered
  <2> HIDE DEF i
  <2>3. /\ r \in Seq(Service) /\ Len(r) = Len(services) - 1
        /\ \A j \in 1..Len(r) : r[j] = services[IF j < i THEN j ELSE j + 1]
    BY <1>1, <2>1, Removed
  <2> HIDE DEF r
  <2>4. ASSUME NEW n \in 1..Len(services), services[n].task = t PROVE n = i
    <3>1. services[n].name = declared[t] /\ services[i].name = declared[t]
      BY <1>1, <1>2, <2>1, <2>4
    <3>2. QED
      BY <1>1, <1>2, <2>1, <3>1
  <2>5. ASSUME NEW x PROVE x \in ToSet(r) <=> x \in ToSet(services) /\ x.task # t
    <3>1. CASE x \in ToSet(r)
      <4>1. PICK j \in 1..Len(r) : r[j] = x
        BY <2>3, <3>1, ServiceSeq
      <4> DEFINE n == IF j < i THEN j ELSE j + 1
      <4>2. n \in 1..Len(services) /\ n # i /\ services[n] = x
        BY <1>1, <2>1, <2>3, <4>1
      <4> HIDE DEF n
      <4>3. QED
        BY <1>1, <2>4, <3>1, <4>2
    <3>2. CASE x \in ToSet(services) /\ x.task # t
      <4>1. PICK n \in 1..Len(services) : services[n] = x
        BY <1>1, <3>2
      <4> DEFINE j == IF n < i THEN n ELSE n - 1
      <4>2. n # i
        BY <2>1, <3>2, <4>1
      <4>3. j \in 1..Len(r) /\ (IF j < i THEN j ELSE j + 1) = n
        BY <1>1, <2>1, <2>3, <4>1, <4>2
      <4> HIDE DEF j
      <4>4. r[j] = x
        BY <2>3, <4>1, <4>3
      <4>5. QED
        BY <2>3, <3>2, <4>3, <4>4, ServiceSeq
    <3>3. QED
      BY <3>1, <3>2
  <2>6. ASSUME NEW j \in 1..Len(r), NEW k \in 1..Len(r), r[j].name = r[k].name PROVE j = k
    <3> DEFINE m == IF j < i THEN j ELSE j + 1
               n == IF k < i THEN k ELSE k + 1
    <3>1. m \in 1..Len(services) /\ n \in 1..Len(services) /\ r[j] = services[m] /\ r[k] = services[n]
      BY <1>1, <2>1, <2>3
    <3>2. m = n => j = k
      BY <1>1, <2>1, <2>3
    <3> HIDE DEF m, n
    <3>3. services[m].name = services[n].name
      BY <2>6, <3>1
    <3>4. m = n
      <4>1. \A x, y \in 1..Len(services) : services[x].name = services[y].name => x = y
        BY <1>1, <1>2
      <4>2. QED
        BY <3>1, <3>3, <4>1
    <3>5. QED
      BY <3>2, <3>4
  <2>7. ToSet(r) = {s \in ToSet(services) : s.task # t}
    BY <2>5
  <2>8. DOMAIN r = 1..Len(r)
    BY <2>3
  <2>9. QED
    BY <2>2, <2>3, <2>6, <2>7, <2>8
<1>5. QED
  BY <1>3, <1>4

-----------------------------------------------------------------------------
(* The invariant, one lemma per action.                                     *)

LEMMA TableStarts ==
  ASSUME ConstantsApart, TasksInit
  PROVE  TaskInv
<1>1. Cardinality(Servers) \in Nat
  BY FS_CardinalityType DEF ConstantsApart
<1>2. 0 \in Tids
  BY <1>1 DEF Tids
<1>3. services \in Seq(Service) /\ ToSet(services) = {} /\ DOMAIN services = {}
  BY DEF TasksInit, ToSet
<1>4. TableTypes
  BY <1>2, <1>3 DEF TasksInit, TableTypes, LiveTasks
<1>5. BootInv
  BY <1>2 DEF TasksInit, BootInv, LiveTasks, ConstantsApart
<1>6. TableSound
  BY <1>2 DEF TasksInit, TableSound, LiveTasks, GetTask
<1>7. ServicesSound
  BY <1>3 DEF TasksInit, ServicesSound, LiveTasks
<1>8. QED
  BY <1>4, <1>5, <1>6, <1>7 DEF TaskInv

LEMMA LoadServerInv ==
  ASSUME ConstantsApart, TaskInv, NEW t \in toLoad, LoadServer(t)
  PROVE  TaskInv'
<1> DEFINE f == FindFreeTid
<1>1. f \in Tids /\ table[f] = NULL
  BY FreeTid
<1>2. /\ t \in Servers /\ t # IdleThread /\ t # NULL /\ t \notin LiveTasks
      /\ toLoad \subseteq Servers
  BY DEF TaskInv, TableTypes, BootInv, ConstantsApart
<1> HIDE DEF f
<1>3. /\ LiveTasks' = LiveTasks \cup {t}
      /\ live'[t] = f /\ declared'[t] = NULL
      /\ \A u \in LiveTasks : live'[u] = live[u] /\ declared'[u] = declared[u]
      /\ live' \in [LiveTasks' -> Tids] /\ declared' \in [LiveTasks' -> Names \cup {NULL}]
  BY <1>1, <1>2 DEF LoadServer, Add, LiveTasks, TaskInv, TableTypes, f
<1>4. /\ table' \in [Tids -> Servers \cup {IdleThread, NULL}]
      /\ table'[f] = t /\ \A tid \in Tids \ {f} : table'[tid] = table[tid]
  BY <1>1, <1>2 DEF LoadServer, TaskInv, TableTypes, f
<1>5. TableTypes'
  BY <1>2, <1>3, <1>4 DEF LoadServer, TaskInv, TableTypes
<1>6. BootInv'
  <2>1. failures = 0 => f # 0
    BY <1>1 DEF TaskInv, BootInv, ConstantsApart
  <2>2. 0 \in Tids
    BY FS_CardinalityType DEF Tids, ConstantsApart
  <2>3. QED
    BY <1>3, <1>4, <2>1, <2>2 DEF LoadServer, TaskInv, BootInv
<1>7. TableSound'
  <2>1. ASSUME NEW tid \in Tids, table'[tid] # NULL
        PROVE  table'[tid] \in LiveTasks' /\ live'[table'[tid]] = tid
    BY <1>2, <1>3, <1>4, <2>1 DEF TaskInv, TableSound
  <2>2. ASSUME failures' < 2, NEW u \in LiveTasks' \ {IdleThread}
        PROVE  table'[live'[u]] = u
    <3>1. CASE u = t
      BY <1>3, <1>4, <3>1
    <3>2. CASE u # t
      <4>1. u \in LiveTasks \ {IdleThread} /\ table[live[u]] = u /\ u # NULL /\ live[u] \in Tids
        BY <1>3, <2>2, <3>2 DEF LoadServer, TaskInv, TableTypes, TableSound, GetTask, ConstantsApart
      <4>2. QED
        BY <1>1, <1>3, <1>4, <4>1
    <3>3. QED
      BY <3>1, <3>2
  <2>3. QED
    BY <2>1, <2>2 DEF TableSound, GetTask, Tids
<1>8. ServicesSound'
  <2>1. services' = services /\ answers' = answers /\ failures' = failures
        /\ \A u \in Servers : answers[u] = Nothing
    BY DEF LoadServer, TaskInv, BootInv
  <2>2. QED
    BY <1>2, <1>3, <2>1 DEF TaskInv, ServicesSound, Nothing
<1>9. QED
  BY <1>5, <1>6, <1>7, <1>8 DEF TaskInv

LEMMA LoadNoTaskInv ==
  ASSUME ConstantsApart, TaskInv, NEW t \in toLoad, LoadNoTask(t)
  PROVE  TaskInv'
<1>1. LiveTasks' = LiveTasks
  BY DEF LoadNoTask, LiveTasks
<1>2. TableTypes' /\ BootInv' /\ TableSound' /\ ServicesSound'
  BY <1>1 DEF LoadNoTask, TaskInv, TableTypes, BootInv, TableSound, ServicesSound, GetTask,
              Nothing, Answer, Service, Tids
<1>3. QED
  BY <1>2 DEF TaskInv

LEMMA LoadFailsInv ==
  ASSUME ConstantsApart, TaskInv, NEW t \in toLoad, LoadFails(t)
  PROVE  TaskInv'
<1>1. /\ LiveTasks' = LiveTasks /\ live' = live /\ declared' = declared
      /\ services' = services /\ answers' = answers /\ toLoad' \subseteq toLoad
      /\ failures' = failures + 1 /\ failures \in Nat
  BY DEF LoadFails, LiveTasks, TaskInv, TableTypes
<1>2. 0 \in Tids
  BY FS_CardinalityType DEF Tids, ConstantsApart
<1>3. /\ table' \in [Tids -> Servers \cup {IdleThread, NULL}]
      /\ table'[0] = NULL /\ \A tid \in Tids \ {0} : table'[tid] = table[tid]
  BY <1>2 DEF LoadFails, TaskInv, TableTypes
<1>4. TableTypes'
  BY <1>1, <1>3 DEF TaskInv, TableTypes
<1>5. BootInv'
  BY <1>1 DEF TaskInv, BootInv
<1>6. TableSound'
  <2>1. ASSUME NEW tid \in Tids, table'[tid] # NULL
        PROVE  table'[tid] \in LiveTasks' /\ live'[table'[tid]] = tid
    BY <1>1, <1>3, <2>1 DEF TaskInv, TableSound
  <2>2. ASSUME failures' < 2, NEW u \in LiveTasks' \ {IdleThread}
        PROVE  table'[live'[u]] = u
    <3>1. failures = 0 /\ failures < 2
      BY <1>1, <2>2
    <3>2. table[live[u]] = u /\ live[u] \in Tids
      BY <1>1, <2>2, <3>1 DEF TaskInv, TableTypes, TableSound, GetTask
    <3>3. live[u] # 0
      BY <2>2, <3>1, <3>2 DEF TaskInv, BootInv
    <3>4. QED
      BY <1>1, <1>3, <3>2, <3>3
  <2>3. QED
    BY <2>1, <2>2 DEF TableSound, GetTask, Tids
<1>7. ServicesSound'
  <2>1. \A u \in Servers : answers[u] = Nothing
    BY DEF TaskInv, BootInv
  <2>2. QED
    BY <1>1, <2>1 DEF TaskInv, ServicesSound, Nothing
<1>8. QED
  BY <1>4, <1>5, <1>6, <1>7 DEF TaskInv

LEMMA ExitInv ==
  ASSUME ConstantsApart, TaskInv, toLoad = {}, NEW t \in LiveTasks \ {IdleThread}, Exit(t)
  PROVE  TaskInv'
<1>1. t \in Servers /\ t # NULL /\ live[t] \in Tids
  BY DEF TaskInv, TableTypes, ConstantsApart
<1>2. /\ LiveTasks' = LiveTasks \ {t}
      /\ \A u \in LiveTasks' : live'[u] = live[u] /\ declared'[u] = declared[u]
      /\ live' \in [LiveTasks' -> Tids] /\ declared' \in [LiveTasks' -> Names \cup {NULL}]
  BY DEF Exit, TaskDestroy, Drop, LiveTasks, TaskInv, TableTypes
<1>3. /\ table' \in [Tids -> Servers \cup {IdleThread, NULL}]
      /\ table'[live[t]] = NULL
      /\ \A tid \in Tids \ {live[t]} : table'[tid] = table[tid]
  BY <1>1 DEF Exit, TaskDestroy, TaskInv, TableTypes
<1>4. /\ answers' \in [Servers -> Answer \cup {Nothing}]
      /\ answers'[t] = Nothing /\ \A u \in Servers \ {t} : answers'[u] = answers[u]
      /\ toLoad' = {} /\ failures' = failures /\ services' = Unregistered(t)
  BY <1>1 DEF Exit, TaskDestroy, TaskInv, TableTypes
<1>5. /\ services' \in Seq(Service)
      /\ ToSet(services') = {s \in ToSet(services) : s.task # t}
      /\ \A i, j \in DOMAIN services' : services'[i].name = services'[j].name => i = j
  BY <1>4, UnregisteredOnce
<1>6. TableTypes'
  BY <1>2, <1>3, <1>4, <1>5 DEF TaskInv, TableTypes, Answer, Service, Tids
<1>7. BootInv'
  <2>1. failures = 0 => live[t] # 0
    BY <1>1 DEF TaskInv, BootInv, TableSound, GetTask
  <2>2. 0 \in Tids
    BY FS_CardinalityType DEF Tids, ConstantsApart
  <2>3. QED
    BY <1>3, <1>4, <2>1, <2>2 DEF TaskInv, BootInv
<1>8. TableSound'
  <2>1. ASSUME NEW tid \in Tids, table'[tid] # NULL
        PROVE  table'[tid] \in LiveTasks' /\ live'[table'[tid]] = tid
    <3>1. table'[tid] = table[tid] /\ table[tid] \in LiveTasks /\ live[table[tid]] = tid /\ tid # live[t]
      BY <1>3, <2>1 DEF TaskInv, TableSound
    <3>2. QED
      BY <1>2, <3>1
  <2>2. ASSUME failures' < 2, NEW u \in LiveTasks' \ {IdleThread}
        PROVE  table'[live'[u]] = u
    <3>1. table[live[u]] = u /\ table[live[t]] = t /\ live[u] \in Tids /\ u # t
      BY <1>2, <1>4, <2>2 DEF TaskInv, TableTypes, TableSound, GetTask
    <3>2. QED
      BY <1>2, <1>3, <2>2, <3>1
  <2>3. QED
    BY <2>1, <2>2 DEF TableSound, GetTask, Tids
<1>9. ServicesSound'
  <2>1. \A s \in ToSet(services') : s.task \in LiveTasks' /\ declared'[s.task] = s.name
    BY <1>2, <1>5 DEF TaskInv, ServicesSound
  <2>2. \A u \in LiveTasks' : declared'[u] # NULL => [name |-> declared'[u], task |-> u] \in ToSet(services')
    BY <1>2, <1>5 DEF TaskInv, ServicesSound
  <2>3. ASSUME failures' < 2, NEW u \in Servers, answers'[u] # Nothing
        PROVE  table'[answers'[u].tid] \in {NULL, answers'[u].owner}
    <3>1. u # t /\ answers'[u] = answers[u] /\ answers[u] \in Answer
      BY <1>4, <2>3 DEF TaskInv, TableTypes
    <3>2. answers[u].tid \in Tids
      BY <3>1 DEF Answer
    <3>3. table[answers[u].tid] \in {NULL, answers[u].owner}
      BY <1>4, <2>3, <3>1 DEF TaskInv, ServicesSound, GetTask
    <3>4. QED
      BY <1>3, <3>1, <3>2, <3>3
  <2>4. QED
    BY <1>5, <2>1, <2>2, <2>3 DEF ServicesSound, GetTask, Nothing
<1>10. QED
  BY <1>6, <1>7, <1>8, <1>9 DEF TaskInv

LEMMA DeclareInv ==
  ASSUME ConstantsApart, TaskInv, toLoad = {}, NEW t \in LiveTasks \ {IdleThread}, NEW name \in Names,
         DeclareService(t, name)
  PROVE  TaskInv'
<1> DEFINE s == NewService(t, name)
<1>1. t \in Servers /\ s \in Service /\ s.name = name /\ s.task = t /\ declared[t] = NULL
      /\ services \in Seq(Service) /\ Len(services) \in Nat
      /\ \A x \in ToSet(services) : x.name # name
  BY ServiceSeq DEF NewService, Service, TaskInv, TableTypes, DeclareService, ServiceRegister, Registered
<1>2. /\ services' = <<s>> \o services /\ declared' = [declared EXCEPT ![t] = name]
      /\ live' = live /\ table' = table /\ toLoad' = toLoad /\ failures' = failures
      /\ answers' = answers /\ LiveTasks' = LiveTasks
  BY DEF DeclareService, ServiceRegister, LiveTasks
<1> HIDE DEF s
<1>3. /\ services' \in Seq(Service) /\ Len(services') = Len(services) + 1 /\ services'[1] = s
      /\ \A i \in 1..Len(services) : services'[i + 1] = services[i]
      /\ ToSet(services') = ToSet(services) \cup {s}
  BY <1>1, <1>2, Prepended
<1>4. /\ declared' \in [LiveTasks -> Names \cup {NULL}] /\ declared'[t] = name
      /\ \A u \in LiveTasks \ {t} : declared'[u] = declared[u]
  BY <1>2 DEF TaskInv, TableTypes
<1>5. TableTypes' /\ BootInv' /\ TableSound'
  BY <1>2, <1>3, <1>4 DEF TaskInv, TableTypes, BootInv, TableSound, GetTask, Service, Answer, Nothing, Tids
<1>6. ServicesSound'
  <2>1. ASSUME NEW i \in 1..Len(services'), NEW j \in 1..Len(services'),
               services'[i].name = services'[j].name
        PROVE  i = j
    <3>1. \A x \in 1..Len(services) : services[x] \in ToSet(services) /\ services[x].name # name
      BY <1>1, ServiceSeq
    <3>2. \A x, y \in 1..Len(services) : services[x].name = services[y].name => x = y
      <4>1. DOMAIN services = 1..Len(services)
        BY <1>1
      <4>2. QED
        BY <4>1 DEF TaskInv, ServicesSound
    <3>3. ASSUME NEW x \in 1..Len(services'), x # 1
          PROVE  x - 1 \in 1..Len(services) /\ services'[x] = services[x - 1]
      <4>1. x - 1 \in 1..Len(services) /\ (x - 1) + 1 = x
        BY <1>1, <1>3, <3>3
      <4>2. QED
        BY <1>3, <4>1
    <3>4. CASE i = 1 /\ j # 1
      BY <1>1, <1>3, <2>1, <3>1, <3>3, <3>4
    <3>5. CASE i # 1 /\ j = 1
      BY <1>1, <1>3, <2>1, <3>1, <3>3, <3>5
    <3>6. CASE i # 1 /\ j # 1
      <4>1. i - 1 = j - 1
        BY <2>1, <3>2, <3>3, <3>6
      <4>2. QED
        BY <1>1, <1>3, <4>1
    <3>7. QED
      BY <3>4, <3>5, <3>6
  <2>2. \A x \in ToSet(services') : x.task \in LiveTasks' /\ declared'[x.task] = x.name
    <3>1. ASSUME NEW x \in ToSet(services)
          PROVE  x.task \in LiveTasks' /\ declared'[x.task] = x.name
      <4>1. x.task \in LiveTasks /\ declared[x.task] = x.name
        BY DEF TaskInv, ServicesSound
      <4>2. x \in Service
        BY <1>1, ServiceSeq
      <4>3. x.name # NULL
        BY <4>2 DEF Service, ConstantsApart
      <4>4. QED
        BY <1>1, <1>2, <1>4, <4>1, <4>3
    <3>2. s.task \in LiveTasks' /\ declared'[s.task] = s.name
      BY <1>1, <1>2, <1>4
    <3>3. QED
      BY <1>3, <3>1, <3>2
  <2>3. \A u \in LiveTasks' : declared'[u] # NULL => [name |-> declared'[u], task |-> u] \in ToSet(services')
    BY <1>2, <1>3, <1>4 DEF TaskInv, ServicesSound, s, NewService
  <2>4. DOMAIN services' = 1..Len(services')
    BY <1>3
  <2>5. failures' < 2 => \A u \in Servers : answers'[u] # Nothing =>
           table'[answers'[u].tid] \in {NULL, answers'[u].owner}
    BY <1>2 DEF TaskInv, ServicesSound, GetTask
  <2>6. QED
    BY <2>1, <2>2, <2>3, <2>4, <2>5 DEF ServicesSound, GetTask, Nothing
<1>7. QED
  BY <1>5, <1>6 DEF TaskInv

LEMMA QueryInv ==
  ASSUME ConstantsApart, TaskInv, toLoad = {}, NEW t \in LiveTasks \ {IdleThread}, NEW name \in Names,
         QueryService(t, name)
  PROVE  TaskInv'
<1> DEFINE s == LookupByName(name)
           a == IF Registered(name) THEN [name |-> name, tid |-> live[s.task], owner |-> s.task]
                ELSE Nothing
<1>1. /\ answers' = [answers EXCEPT ![t] = a]
      /\ services' = services /\ declared' = declared /\ live' = live /\ table' = table
      /\ toLoad' = toLoad /\ failures' = failures /\ LiveTasks' = LiveTasks
      /\ t \in Servers
  BY DEF QueryService, LiveTasks, TaskInv, TableTypes
<1>2. ASSUME Registered(name)
      PROVE  /\ s.task \in Servers /\ live[s.task] \in Tids
             /\ failures < 2 => table[live[s.task]] = s.task
  <2>1. s \in ToSet(services)
    BY <1>2 DEF Registered, LookupByName
  <2>2. s \in Service
    BY <2>1, ServiceSeq DEF TaskInv, TableTypes
  <2>3. s.task \in Servers /\ s.task \in LiveTasks
    BY <2>1, <2>2 DEF Service, TaskInv, ServicesSound
  <2>4. s.task # IdleThread
    BY <2>3 DEF ConstantsApart
  <2>5. QED
    BY <2>3, <2>4 DEF TaskInv, TableTypes, TableSound, GetTask
<1> HIDE DEF s
<1>3. a \in Answer \cup {Nothing}
  BY <1>2 DEF Answer
<1>4. failures < 2 /\ a # Nothing => table[a.tid] \in {NULL, a.owner}
  BY <1>2
<1> HIDE DEF a
<1>5. /\ answers' \in [Servers -> Answer \cup {Nothing}]
      /\ answers'[t] = a /\ \A u \in Servers \ {t} : answers'[u] = answers[u]
  BY <1>1, <1>3 DEF TaskInv, TableTypes
<1>6. TableTypes' /\ BootInv' /\ TableSound'
  BY <1>1, <1>5 DEF TaskInv, TableTypes, BootInv, TableSound, GetTask, Service, Answer, Nothing, Tids
<1>7. ServicesSound'
  <2>1. failures' < 2 => \A u \in Servers : answers'[u] # Nothing =>
           table'[answers'[u].tid] \in {NULL, answers'[u].owner}
    BY <1>1, <1>4, <1>5 DEF TaskInv, ServicesSound, GetTask
  <2>2. QED
    BY <1>1, <2>1 DEF TaskInv, ServicesSound, GetTask, Nothing
<1>8. QED
  BY <1>6, <1>7 DEF TaskInv

LEMMA TableSteps ==
  ASSUME ConstantsApart, TaskInv, [TaskNext]_taskVars
  PROVE  TaskInv'
<1>1. CASE Boot
  BY <1>1, LoadServerInv, LoadNoTaskInv, LoadFailsInv DEF Boot
<1>2. CASE Runs
  BY <1>2, ExitInv, DeclareInv, QueryInv DEF Runs
<1>3. CASE UNCHANGED taskVars
  <2>1. LiveTasks' = LiveTasks
    BY <1>3 DEF taskVars, LiveTasks
  <2>2. QED
    BY <1>3, <2>1 DEF taskVars, TaskInv, TableTypes, BootInv, TableSound, ServicesSound, GetTask,
                      Nothing, Answer, Service, Tids
<1>4. QED
  BY <1>1, <1>2, <1>3 DEF TaskNext

LEMMA AlwaysTaskInv ==
  ASSUME ConstantsApart
  PROVE  TaskSpec => []TaskInv
<1>1. TasksInit => TaskInv
  BY TableStarts
<1>2. TaskInv /\ [TaskNext]_taskVars => TaskInv'
  BY TableSteps
<1>3. QED
  BY <1>1, <1>2, PTL DEF TaskSpec

\* task.c, srvrd.c: ids lead to live tasks and, until a second server fails to
\* load, each task is found by its id, for any number of servers.
THEOREM TableAlwaysSound ==
  ASSUME ConstantsApart
  PROVE  TaskSpec => []TableSound
<1>1. TaskInv => TableSound
  BY DEF TaskInv
<1>2. QED
  BY <1>1, AlwaysTaskInv, PTL

\* task.c, syskrn.c: a name has one service, of a live task, and the id a client
\* was told never leads to another task, for any number of servers and names.
THEOREM ServicesAlwaysSound ==
  ASSUME ConstantsApart
  PROVE  TaskSpec => []ServicesSound
<1>1. TaskInv => ServicesSound
  BY DEF TaskInv
<1>2. QED
  BY <1>1, AlwaysTaskInv, PTL
=============================================================================
