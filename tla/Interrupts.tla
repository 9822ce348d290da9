----------------------------- MODULE Interrupts -----------------------------
(***************************************************************************)
(* Interrupts, system calls, exceptions and context switches on the x86    *)
(* (interrupt.c, intr.S, arch/x86/task.c, task.c, lock.h, 8259-pic.c): the *)
(* frames on the kernel stacks and the registers that go with a task.      *)
(*                                                                         *)
(* One processor runs `code'.  An interrupt pushes what it needs to go on  *)
(* with that code, a frame, on a kernel stack; switching to another task   *)
(* is going on with the frame its saved stack pointer leads to.  Which     *)
(* task is next is any that lives: KernelSync has the scheduler's choice.  *)
(***************************************************************************)
EXTENDS Integers, Sequences, FiniteSets

CONSTANTS
  Tasks,       \* the user tasks
  Idle,        \* the idle thread, which runs in the kernel
  Ints,        \* interrupts that user code causes
  TlsSetters,  \* bound: the tasks that set their TLS segment
  UserIsrs     \* bound: the tasks that install a handler for an interrupt

VARIABLES
  ctx,       \* get_current_context ()
  current,   \* get_current_task ()
  cpu,       \* registers, the TLS entry of the GDT and esp0 of the TSS
  code,      \* the code running: where it is, and its local variables
  stack,     \* the frames on each task's kernel stack, the innermost last
  saved,     \* stack_info.esp of each task: a stack and a place on it
  tls,       \* tls_start of each task
  uisr,      \* the tasks with an entry in uisr_eip for the interrupt they use
  alive,     \* the tasks that have not exited
  enabled, pending,  \* the scheduler's state, and whether it was asked for
  timer,     \* IRQ 0 at the interrupt controller: requested, in service
  failure    \* why the kernel stopped, or "none"

machine == <<cpu, code, stack, saved>>
sched   == <<enabled, pending>>
tasks   == <<tls, uisr, alive>>
vars    == <<ctx, current, machine, tasks, sched, timer, failure>>

Threads == Tasks \cup {Idle}
Kernel  == "kernel_pagedir"

\* Where a code is, with the handler's old_ctx, a section's saved scheduler
\* state and defsched_sched's choice.
At(pc)     == [pc |-> pc, int |-> 255, old_ctx |-> "TASK",
               state |-> TRUE, body |-> "none", next |-> Idle]
UserCode   == At("user")
IdleCode   == At("idle")
Goes(c, pc) == [At(pc) EXCEPT !.int = c.int, !.old_ctx = c.old_ctx]

\* x86_init_stack_frame_kernel and _user: where the processor goes from there,
\* the segments telling the mode, with interrupts on either way.
KernelFrame == [code |-> IdleCode, ints |-> TRUE]
UserFrame   == [code |-> UserCode, ints |-> TRUE]

\* __task_config_start: the frame a new task starts from, with the page table
\* of its space.
StartFrame(t) ==
  LET start == IF t = Idle THEN KernelFrame ELSE UserFrame IN
  [code |-> start.code, ints |-> start.ints, cr3 |-> IF t = Idle THEN Kernel ELSE t]

\* main, up to test_kthreads: the servers are loaded, interrupts are off, the
\* timer is not masked and the scheduler has been resumed.
Init ==
  /\ ctx = "BOOT_TIME" /\ current = Idle
  /\ cpu = [on |-> Idle, ints |-> FALSE, cr3 |-> Kernel, gdt |-> 0, gs |-> 0, esp0 |-> Idle]
  /\ code = At("sched")
  /\ stack = [t \in Threads |-> <<StartFrame(t)>>]
  /\ saved = [t \in Threads |-> <<t, 1>>]
  /\ tls = [t \in Threads |-> 0] /\ uisr = {} /\ alive = Threads
  /\ enabled = TRUE /\ pending = FALSE
  /\ timer = [irr |-> FALSE, isr |-> FALSE]
  /\ failure = "none"

-----------------------------------------------------------------------------
\* The processor and intr.S.

InUser == code.pc = "user"

\* pic_remap_irq_vector, pic_init: the interrupts of the hardware start here.
PicMasterInt == 32

\* x86_init_all_gates: the numbers of exceptions, of the hardware's interrupts,
\* of those user code may handle itself and of system calls.  The gates of the
\* latter two are trap gates, which leave interrupts as they are.
ExceptionInts == 0 .. (PicMasterInt - 1)
IrqInts       == PicMasterInt .. 55
UserInts      == 56 .. 159
SyscallInts   == 160 .. 162
TrapGates     == UserInts \cup SyscallInts

\* An interrupt is taken: from user mode the frame goes to the bottom of the
\* stack esp0 leads to, from the kernel to the stack in use (SAVE_ALL).
Enter(int) ==
  LET to    == IF InUser THEN cpu.esp0 ELSE cpu.on
      under == IF InUser THEN <<>> ELSE stack[to]
  IN /\ stack' = [stack EXCEPT ![to] =
                    Append(under, [code |-> code, ints |-> cpu.ints, cr3 |-> cpu.cr3])]
     /\ cpu' = [cpu EXCEPT !.on = to, !.ints = @ /\ int \in TrapGates, !.cr3 = Kernel]
     /\ code' = [At("isr") EXCEPT !.int = int]

\* __restore_context: the frame at place p of the stacks s is gone on with,
\* the rest of its stack above it forgotten; gs takes what the GDT says.
Resume(p, s, c) ==
  LET frame == s[p[1]][p[2]] IN
  /\ cpu' = [c EXCEPT !.on = p[1], !.ints = frame.ints, !.cr3 = frame.cr3, !.gs = c.gdt]
  /\ code' = frame.code
  /\ stack' = [s EXCEPT ![p[1]] = SubSeq(@, 1, p[2] - 1)]

\* get_interrupt_frame: set when a handler starts, it is read only by that of
\* an interrupt of the hardware, which runs with interrupts off: it is always
\* the frame this handler was entered with.
InterruptFrame == <<cpu.on, Len(stack[cpu.on])>>

\* x86_setup_tls: the TLS segment's entry of the GDT
WithTls(c, base) == [c EXCEPT !.gdt = base]

\* Mutant: the stack for interrupts from user mode stays that of the old task.
SwitchedSameStack(t) == [cpu EXCEPT !.gdt = tls[t]]

\* Mutant: the TLS segment stays that of the old task.
SwitchedSameTls(t) == [cpu EXCEPT !.esp0 = t]

\* x86_setup_tls and x86_set_kernel_stack, on the way to task t.
Switched(t) == [WithTls(cpu, tls[t]) EXCEPT !.esp0 = t]

\* switch_to from boot: what ran so far is forgotten.
SwitchFromBoot(t) ==
  /\ ctx' = "TASK" /\ current' = t
  /\ Resume(saved[t], stack, Switched(t))
  /\ UNCHANGED saved

\* switch_to from a task: __task_switch_from_current_asm pushes a frame that
\* returns to the caller with the flags from before switch_lock.
SwitchFromTask(t) ==
  LET s == [stack EXCEPT ![cpu.on] =
              Append(@, [code |-> Goes(code, "isr_out"), ints |-> cpu.ints, cr3 |-> cpu.cr3])]
  IN IF t = current
     THEN code' = Goes(code, "isr_out") /\ UNCHANGED <<ctx, current, cpu, stack, saved>>
     ELSE /\ current' = t
          /\ saved' = [saved EXCEPT ![current] = <<cpu.on, Len(s[cpu.on])>>]
          /\ Resume(saved[t], s, Switched(t))
          /\ UNCHANGED ctx

\* Mutant: the context stays that of the interrupt.
SwitchFromInterruptStill(t) ==
  IF t = current
  THEN code' = Goes(code, "isr_out") /\ UNCHANGED <<ctx, current, cpu, stack, saved>>
  ELSE /\ current' = t /\ UNCHANGED ctx
       /\ saved' = [saved EXCEPT ![current] = InterruptFrame]
       /\ Resume(saved[t], stack, Switched(t))

\* switch_to from an interrupt: the task will go on with the frame of the
\* interrupt, the rest of the handler never runs.
SwitchFromInterrupt(t) ==
  IF t = current
  THEN code' = Goes(code, "isr_out") /\ UNCHANGED <<ctx, current, cpu, stack, saved>>
  ELSE /\ ctx' = "TASK" /\ current' = t
       /\ saved' = [saved EXCEPT ![current] = InterruptFrame]
       /\ Resume(saved[t], stack, Switched(t))

\* switch_to, which asserts that its task has not exited.
SwitchTo(t) ==
  IF t \notin alive
  THEN failure' = "switch_to_exited" /\ UNCHANGED <<ctx, current, cpu, code, stack, saved>>
  ELSE /\ UNCHANGED failure
       /\ CASE ctx = "BOOT_TIME" -> SwitchFromBoot(t)
            [] ctx = "TASK"      -> SwitchFromTask(t)
            [] ctx = "INTERRUPT" -> SwitchFromInterrupt(t)

-----------------------------------------------------------------------------
\* The code, one action per place it can be interrupted at.

Running(pc) == failure = "none" /\ code.pc = pc

\* int 0xa0 to 0xa2, int 56 to 159, and exceptions of user code.
UserInterrupt(int) ==
  /\ Running("user")
  /\ Enter(int)
  /\ UNCHANGED <<ctx, current, saved, tasks, sched, timer, failure>>

\* The 8254 asks for an interrupt, once until it is taken.
TimerFires ==
  /\ failure = "none"
  /\ ~timer.irr
  /\ timer' = [timer EXCEPT !.irr = TRUE]
  /\ UNCHANGED <<ctx, current, machine, tasks, sched, failure>>

\* The controller interrupts when interrupts are on and it has been told of
\* the end of the last one.
Irq ==
  /\ failure = "none"
  /\ timer.irr /\ ~timer.isr /\ cpu.ints
  /\ timer' = [irr |-> FALSE, isr |-> TRUE]
  /\ Enter(PicMasterInt)
  /\ UNCHANGED <<ctx, current, saved, tasks, sched, failure>>

\* What x86_isr_handler does before it looks at the interrupt's number.
Handles(pc, c) ==
  /\ ctx' = c
  /\ code' = [code EXCEPT !.pc = pc, !.old_ctx = ctx]

\* pic_end_of_interrupt of the master, as x86_isr_handler does it
EndOfInterrupt == timer' = [timer EXCEPT !.isr = FALSE]

\* Mutant: the controller is not told of the end of the interrupt.
IsrIrqNoEoi ==
  /\ Running("isr") /\ code.int \in IrqInts
  /\ Handles("tick", "INTERRUPT")
  /\ UNCHANGED <<current, cpu, stack, saved, tasks, sched, timer, failure>>

\* x86_isr_handler, an interrupt of the hardware: PIC_EOI is sent first.
IsrIrq ==
  /\ Running("isr") /\ code.int \in IrqInts
  /\ Handles("tick", "INTERRUPT")
  /\ EndOfInterrupt
  /\ UNCHANGED <<current, cpu, stack, saved, tasks, sched, failure>>

\* x86_user_interrupt: the task goes on at its handler.  What it returns to is
\* pushed on its own stack, which need not be mapped.
UserHandled == code.int \in UserInts /\ current \in uisr /\ Handles("isr_out", "TASK")

\* x86_isr_handler, the rest.  Page faults are never resolved (vm_handle_page_
\* fault returns -1); an interrupt without a handler, or whose handler cannot
\* be called as the user's stack is not mapped, is an exception.
IsrTask ==
  /\ Running("isr") /\ code.int \notin IrqInts
  /\ IF ctx # "TASK"
     THEN /\ failure' = "fault_in_interrupt" /\ UNCHANGED <<ctx, code>>
     ELSE /\ UNCHANGED failure
          /\ \/ code.int \in SyscallInts /\ Handles("syscall", "TASK")
             \/ code.int \in ExceptionInts /\ Handles("exception", "TASK")
             \/ code.int \in UserInts /\ Handles("exception", "TASK")
             \/ UserHandled
  /\ UNCHANGED <<current, cpu, stack, saved, tasks, sched, timer>>

\* trigger_hook leads to defsched_sys_timer.
Tick ==
  /\ Running("tick")
  /\ IF enabled
     THEN pending' = FALSE /\ \E t \in alive : SwitchTo(t)
     ELSE /\ pending' = TRUE /\ code' = Goes(code, "isr_out")
          /\ UNCHANGED <<ctx, current, cpu, stack, saved, failure>>
  /\ UNCHANGED <<tasks, enabled, timer>>

\* The end of x86_isr_handler, and of __intr_common.
IsrOut ==
  /\ Running("isr_out")
  /\ ctx' = code.old_ctx
  /\ Resume(InterruptFrame, stack, cpu)
  /\ UNCHANGED <<current, saved, tasks, sched, timer, failure>>

\* System calls that are one critical section or none: syscall_krn_set_tls,
\* arch_private_syscall, and syscall_krn_brk of a task without a data segment,
\* which returns with interrupts off.
SetTls(base) ==
  /\ Running("syscall") /\ current \in TlsSetters
  /\ tls' = [tls EXCEPT ![current] = base]
  /\ cpu' = WithTls(cpu, base)
  /\ code' = Goes(code, "isr_out")
  /\ UNCHANGED <<ctx, current, stack, saved, uisr, alive, sched, timer, failure>>

SetUserIsr ==
  /\ Running("syscall") /\ current \in UserIsrs
  /\ uisr' = uisr \cup {current}
  /\ code' = Goes(code, "isr_out")
  /\ UNCHANGED <<ctx, current, cpu, stack, saved, tls, alive, sched, timer, failure>>

BrkWithoutData ==
  /\ Running("syscall")
  /\ cpu' = [cpu EXCEPT !.ints = FALSE]
  /\ code' = Goes(code, "isr_out")
  /\ UNCHANGED <<ctx, current, stack, saved, tasks, sched, timer, failure>>

\* TASK_ATOMIC_ENTER: the scheduler is paused ...  A system call's section
\* does nothing of interest here, or asks for the scheduler as sleeping and
\* waking do, or ends the task.
Pause(body) ==
  /\ enabled' = FALSE
  /\ code' = [Goes(code, "paused") EXCEPT !.state = enabled, !.body = body]
  /\ UNCHANGED <<ctx, current, cpu, stack, saved, tasks, pending, timer, failure>>

\* task_trigger_exception: no task has handlers, so it is killed.  The panic
\* that CRITICAL_IS_INSIDE decides about only prints.
TriggerException == Running("exception") /\ Pause("exit")

\* ... and interrupts go off until the section ends; TASK_ATOMIC_ABORT turns
\* them on whatever they were.
Section ==
  /\ Running("paused")
  /\ pending' = (pending \/ code.body # "quiet")
  /\ alive' = IF code.body = "exit" THEN alive \ {current} ELSE alive
  /\ cpu' = [cpu EXCEPT !.ints = @ \/ code.body = "exit"]
  /\ code' = [code EXCEPT !.pc = "restore"]
  /\ UNCHANGED <<ctx, current, stack, saved, tls, uisr, enabled, timer, failure>>

\* sched_restore, or resume in TASK_ATOMIC_ABORT: a request is honoured.
Restore ==
  /\ Running("restore")
  /\ enabled' = (code.state \/ code.body = "exit")
  /\ code' = Goes(code, IF enabled' /\ pending THEN "sched" ELSE "isr_out")
  /\ UNCHANGED <<ctx, current, cpu, stack, saved, tasks, pending, timer, failure>>

\* The section of defsched_sched.
Choose ==
  /\ Running("sched")
  /\ pending' = FALSE
  /\ \E t \in alive : code' = [Goes(code, "switch") EXCEPT !.next = t]
  /\ UNCHANGED <<ctx, current, cpu, stack, saved, tasks, enabled, timer, failure>>

Switch ==
  /\ Running("switch")
  /\ SwitchTo(code.next)
  /\ UNCHANGED <<tasks, sched, timer>>

Syscall == \/ \E base \in {0, 1} : SetTls(base)
           \/ SetUserIsr \/ BrkWithoutData
           \/ Running("syscall") /\ \E body \in {"quiet", "request", "exit"} : Pause(body)
Handler == IsrIrq \/ IsrTask \/ Tick \/ IsrOut
Code    == Syscall \/ TriggerException \/ Section \/ Restore \/ Choose \/ Switch \/ Handler
User    == \E int \in Ints : UserInterrupt(int)

Next == Irq \/ TimerFires \/ Code \/ User

\* The processor does not stop in the middle of kernel code, and it looks for
\* interrupts before each instruction.
Spec == Init /\ [][Next]_vars /\ WF_vars(Code) /\ SF_vars(Irq)

-----------------------------------------------------------------------------
\* The context is that of the code that runs, whichever activations the switch
\* from an interrupt forgot: INTERRUPT from the handler of an interrupt to its
\* end, and TASK in tasks, so that no system call meets the assertion that a
\* fault happened in an interrupt.
ContextMatches ==
  /\ failure # "fault_in_interrupt"
  /\ (code.int \in IrqInts /\ code.pc # "isr") <=> (ctx = "INTERRUPT")
  /\ ctx = "BOOT_TIME" => \A t \in Tasks : stack[t] = <<StartFrame(t)>>

\* The stack pointer saved for each task that waits for the processor leads to
\* its innermost frame, on its own stack, and the first frame of a task is one
\* that returns to user mode: no interrupt was pushed over another's frames.
FramesKept ==
  \A t \in alive : t # current \/ ctx = "BOOT_TIME" =>
    /\ saved[t] = <<t, Len(stack[t])>>
    /\ Len(stack[t]) > 0
    /\ t # Idle => \A i \in DOMAIN stack[t] : stack[t][i].code.pc = "user" <=> i = 1

\* A task in user mode has the processor as it should: its own page table and
\* TLS segment, its own empty kernel stack for the next interrupt, interrupts
\* on and the scheduler running, whatever sections it went through, the one
\* that brk does not leave included.
OwnMachine ==
  InUser =>
    /\ current \in Tasks \cap alive
    /\ cpu.cr3 = current /\ cpu.gs = tls[current]
    /\ cpu.esp0 = current /\ stack[current] = <<>>
    /\ cpu.ints /\ enabled

\* Every tick is taken at last: no handler, switch or section leaves interrupts
\* off, or the controller waiting, for ever.
TickServed == timer.irr ~> (~timer.irr \/ failure # "none")
=============================================================================
