------------------------------- MODULE Sched -------------------------------
(***************************************************************************)
(* The default scheduler of the Atomik microkernel                         *)
(* (scheds/default/defsched.c, sched.c), the task-atomic sections that     *)
(* pause it (lock/lock.h) and the context switch (task.c: switch_to).      *)
(*                                                                         *)
(* One CPU.  The body of a task-atomic section runs with interrupts off    *)
(* and the scheduler paused, so it is one step.  What follows the `sti' of *)
(* its end is not: at[t] is the place task t has reached on its way out.   *)
(*                                                                         *)
(*   run          outside any section                                      *)
(*   leave        CRITICAL_LEAVE done, scheduler state not yet restored    *)
(*   check        defsched_set_state: enabled is set, pending not yet read *)
(*   sched        in schedule(), about to choose the next task             *)
(*   sched_leave  next task chosen, interrupts back on, still paused       *)
(*   sched_check  as `check', for the section inside defsched_sched        *)
(*   switch       about to call switch_to with the task chosen             *)
(*                                                                         *)
(* `chosen[t]' is the stack of the local variables `new' of the activations*)
(* of defsched_sched on the kernel stack of t: it nests, because a timer   *)
(* tick between `sched_leave' and `sched_check' makes the inner            *)
(* sched_restore call schedule() again.                                    *)
(***************************************************************************)
EXTENDS Naturals, Sequences, FiniteSets, SequencesExt

CONSTANTS
  Tasks,       (* the tasks, all loaded and awaken at boot                  *)
  Idle,        (* the idle task, never in the run queue                     *)
  MaxNested    (* bound: a tick may hit the exit window of a defsched_sched *)
               (* only while at most MaxNested activations are on the stack *)

ASSUME SchedAssumption ==
  /\ Idle \notin Tasks
  /\ IsFiniteSet(Tasks)
  /\ MaxNested \in Nat

VARIABLES
  runqueue,       (* the circular run queue, as the sequence from its head  *)
  ts_state,       (* task->ts_state                                         *)
  current,        (* get_current_task ()                                    *)
  enabled,        (* CURRENT_INFO->enabled                                  *)
  sched_pending,  (* CURRENT_INFO->sched_pending                            *)
  at,             (* where each task stands in the exit of a section        *)
  chosen,         (* `new' of each pending defsched_sched, innermost last   *)
  failure         (* "none", or why the kernel has bug-checked              *)

schedVars == <<runqueue, ts_state, current, enabled, sched_pending, at, chosen, failure>>

RUNNING   == "RUNNING"
SOFT_WAIT == "SOFT_WAIT"
EXITED    == "EXITED"
States    == {RUNNING, SOFT_WAIT, EXITED}

Threads   == Tasks \cup {Idle}
Places    == {"run", "leave", "check", "sched", "sched_leave", "sched_check", "switch"}
Window    == {"sched_leave", "sched_check", "switch"}
Failures  == {"none", "already_in_state", "switch_to_exited", "kernel_stack",
              "not_owner", "already_released"}

-----------------------------------------------------------------------------
(* The run queue: a circular list whose head is the task now running.       *)

(* circular_list_remove_element: the neighbours of t are linked together.   *)
Position(t, q) == CHOOSE i \in DOMAIN q : q[i] = t
Unlink(t, q)   == IF t \in ToSet(q) THEN RemoveAt(q, Position(t, q)) ELSE q

(* Mutant: an empty ring scrolls to the idle task. *)
ScrollNextIdle(q) == IF q = <<>> THEN <<Idle>> ELSE Append(Tail(q), Head(q))

ScrollNext(q)    == IF q = <<>> THEN q ELSE Append(Tail(q), Head(q))

(* Mutant: with no task to run, the one on the CPU goes on. *)
NextTaskStays(q) == IF q = <<>> THEN current ELSE Head(q)

(* What defsched_sched picks after it has scrolled the queue to q.          *)
NextTask(q) == IF q = <<>> THEN Idle ELSE Head(q)

(* test_kthreads: the boot code awakens the tasks in load order with the    *)
(* scheduler paused and then resumes it, which switches to the first pick.  *)
SchedInit ==
  /\ \E order \in [1..Cardinality(Tasks) -> Tasks] :
       /\ \A t \in Tasks : \E i \in 1..Cardinality(Tasks) : order[i] = t
       /\ runqueue = order
       /\ current  = NextTask(order)
  /\ ts_state = [t \in Threads |-> IF t = Idle THEN SOFT_WAIT ELSE RUNNING]
  /\ enabled = TRUE
  /\ sched_pending = FALSE
  /\ at = [t \in Threads |-> "run"]
  /\ chosen = [t \in Threads |-> <<>>]
  /\ failure = "none"

-----------------------------------------------------------------------------
(* FAIL and ASSERT: bugcheck () never returns.                              *)
Bugcheck(why) ==
  /\ failure' = why
  /\ UNCHANGED <<runqueue, ts_state, current, enabled, sched_pending, at, chosen>>

(* Task t is on the CPU, outside any section, running its own code.         *)
OnCpu(t) ==
  /\ failure = "none"
  /\ current = t
  /\ at[t] = "run"

(* The task on the CPU goes through a section that neither sleeps nor wakes *)
(* anyone; the wrappers of waitqueue.c are the other bodies.                *)
Atomic(t) ==
  /\ enabled' = FALSE
  /\ at' = [at EXCEPT ![t] = "leave"]
  /\ UNCHANGED <<current, chosen, failure>>

QuietSection(t) ==
  /\ Atomic(t)
  /\ UNCHANGED <<runqueue, ts_state, sched_pending>>

(* Mutant: the task that goes to sleep stays in the run queue. *)
SuspendSelfLinked(t) ==
  /\ Atomic(t)
  /\ UNCHANGED runqueue
  /\ ts_state' = [ts_state EXCEPT ![t] = SOFT_WAIT]
  /\ sched_pending' = TRUE

(* wake_up (t, SOFT_WAIT) and schedule () inside a section.                 *)
SuspendSelf(t) ==
  /\ Atomic(t)
  /\ runqueue' = IF ts_state[t] = RUNNING THEN Unlink(t, runqueue) ELSE runqueue
  /\ ts_state' = [ts_state EXCEPT ![t] = SOFT_WAIT]
  /\ sched_pending' = TRUE

(* wake_up (t, EXITED), task_destroy and schedule () inside a section.      *)
ExitSelf(t) ==
  /\ Atomic(t)
  /\ runqueue' = IF ts_state[t] = RUNNING THEN Unlink(t, runqueue) ELSE runqueue
  /\ ts_state' = [ts_state EXCEPT ![t] = EXITED]
  /\ sched_pending' = TRUE

(* wake_up (x, RUNNING, reason > 0) for each x of ws in turn, inside the    *)
(* section of t: every one goes to the head of the queue, and schedule ()   *)
(* only leaves a request, if there was anyone to wake.                      *)
Awaken(t, ws) ==
  /\ Atomic(t)
  /\ runqueue' = Reverse(ws) \o runqueue
  /\ ts_state' = [x \in Threads |-> IF x \in ToSet(ws) THEN RUNNING ELSE ts_state[x]]
  /\ sched_pending' = (sched_pending \/ ws # <<>>)

-----------------------------------------------------------------------------
(* The way out of a section, one step per point a tick can come in between. *)

Moving(t, from) ==
  /\ failure = "none"
  /\ current = t
  /\ at[t] = from

(* Mutant: the scheduler stays paused after the section. *)
LeavePaused(t) ==
  /\ Moving(t, "leave")
  /\ at' = [at EXCEPT ![t] = "run"]
  /\ UNCHANGED <<runqueue, ts_state, current, enabled, sched_pending, chosen, failure>>

(* sched_restore (1), or resume () when a task exits: enabled is set ...    *)
Leave(t) ==
  /\ Moving(t, "leave")
  /\ enabled' = TRUE
  /\ at' = [at EXCEPT ![t] = "check"]
  /\ UNCHANGED <<runqueue, ts_state, current, sched_pending, chosen, failure>>

(* Mutant: sched_restore does not look at sched_pending. *)
CheckNothing(t) ==
  /\ Moving(t, "check")
  /\ at' = [at EXCEPT ![t] = "run"]
  /\ UNCHANGED <<runqueue, ts_state, current, enabled, sched_pending, chosen, failure>>

(* ... and a pending request is honoured.                                   *)
Check(t) ==
  /\ Moving(t, "check")
  /\ at' = [at EXCEPT ![t] = IF sched_pending THEN "sched" ELSE "run"]
  /\ UNCHANGED <<runqueue, ts_state, current, enabled, sched_pending, chosen, failure>>

(* The section of defsched_sched: scroll, pick the head, drop the request.  *)
Choose(t) ==
  /\ Moving(t, "sched")
  /\ runqueue' = ScrollNext(runqueue)
  /\ chosen' = [chosen EXCEPT ![t] = Append(@, NextTask(ScrollNext(runqueue)))]
  /\ sched_pending' = FALSE
  /\ enabled' = FALSE
  /\ at' = [at EXCEPT ![t] = "sched_leave"]
  /\ UNCHANGED <<ts_state, current, failure>>

ChooseLeave(t) ==
  /\ Moving(t, "sched_leave")
  /\ enabled' = TRUE
  /\ at' = [at EXCEPT ![t] = "sched_check"]
  /\ UNCHANGED <<runqueue, ts_state, current, sched_pending, chosen, failure>>

(* A tick left a request meanwhile: schedule () is called again before the  *)
(* switch to the task chosen above.                                         *)
ChooseCheck(t) ==
  /\ Moving(t, "sched_check")
  /\ at' = [at EXCEPT ![t] = IF sched_pending THEN "sched" ELSE "switch"]
  /\ UNCHANGED <<runqueue, ts_state, current, enabled, sched_pending, chosen, failure>>

(* switch_to (new).  When t runs again it returns from this activation.     *)
SwitchTo(t) ==
  /\ Moving(t, "switch")
  /\ LET new == Last(chosen[t]) IN
       IF ts_state[new] = EXITED
       THEN Bugcheck("switch_to_exited")
       ELSE /\ current' = new
            /\ chosen' = [chosen EXCEPT ![t] = Front(@)]
            /\ at' = [at EXCEPT ![t] = IF Len(chosen[t]) = 1 THEN "run" ELSE "switch"]
            /\ UNCHANGED <<runqueue, ts_state, enabled, sched_pending, failure>>

KernelStep(t) ==
  Leave(t) \/ Check(t) \/ Choose(t) \/ ChooseLeave(t) \/ ChooseCheck(t) \/ SwitchTo(t)

(* The timer interrupt (defsched_sys_timer).  With the scheduler enabled it *)
(* preempts: the interrupted task goes on from here when it is next chosen. *)
(* The interrupt handler itself runs with interrupts off: it is one step.   *)
TickAllowed == at[current] \in Window => Len(chosen[current]) <= MaxNested

Tick ==
  /\ failure = "none"
  /\ TickAllowed
  /\ IF enabled
     THEN /\ runqueue' = ScrollNext(runqueue)
          /\ current' = NextTask(ScrollNext(runqueue))
          /\ sched_pending' = FALSE
     ELSE /\ sched_pending' = TRUE
          /\ UNCHANGED <<runqueue, current>>
  /\ UNCHANGED <<ts_state, enabled, at, chosen, failure>>

SchedTypeOK ==
  /\ runqueue \in Seq(Tasks)
  /\ ts_state \in [Threads -> States]
  /\ current \in Threads
  /\ enabled \in BOOLEAN
  /\ sched_pending \in BOOLEAN
  /\ at \in [Threads -> Places]
  /\ chosen \in [Threads -> Seq(Threads)]
  /\ failure \in Failures
=============================================================================
