----------------------------- MODULE KernelSync -----------------------------
(***************************************************************************)
(* Kernel synchronisation as a whole: tasks that use mutexes and events    *)
(* under the default scheduler and the timer interrupt, and that may exit. *)
(***************************************************************************)
EXTENDS Mutex, Event

CONSTANTS
  Allocators,  (* the tasks that also allocate on their own account: they   *)
               (* hold salloc_mutex over steps where a tick can preempt     *)
  CanExit      (* the tasks that may call syscall_krn_exit                  *)

ASSUME KernelSyncAssumption == Allocators \subseteq Tasks /\ CanExit \subseteq Tasks

vars == <<schedVars, waitVars, mutexVars, eventVars>>

Init == SchedInit /\ WaitInit /\ MutexInit /\ EventInit

(* A caller of the kernel's own code never nests two mutexes other than a   *)
(* cache's inside the allocator's: here it holds at most one at a time.     *)
MayTake(t, m) ==
  /\ holding[t] = {}
  /\ m = SallocMutex => t \in Allocators

(* down, try_down and up, as salloc_task, sfree_task and the cache          *)
(* operations call them.                                                    *)
MutexOp(t) ==
  \E m \in Mutexes :
    /\ UNCHANGED eventVars
    /\ \/ MayTake(t, m) /\ (DownTake(t, m) \/ DownSleep(t, m) \/ TryDown(t, m))
       \/ Up(t, m)

(* An event is waited on or signalled outside any mutex.                    *)
EventOp(t) ==
  /\ Free(t)
  /\ holding[t] = {}
  /\ UNCHANGED mutexVars
  /\ \E e \in Events :
       \/ EventWait(t, e)
       \/ EventSignal(t, e)
       \/ EventClear(t, e)
       \/ \E flag \in BOOLEAN : EventSetAutoReset(t, e, flag)

(* syscall_krn_exit, and task_trigger_exception for an exception without a  *)
(* handler.  Destroying the task frees memory, hence takes salloc_mutex.    *)
Exit(t) ==
  /\ Free(t)
  /\ t \in CanExit
  /\ holding[t] = {}
  /\ IF locked[SallocMutex] THEN Bugcheck("kernel_stack") ELSE ExitSelf(t)
  /\ UNCHANGED <<waitVars, mutexVars, eventVars>>

TaskStep(t) == MutexOp(t) \/ EventOp(t) \/ Exit(t)

Kernel(t) == KernelStep(t) /\ UNCHANGED <<waitVars, mutexVars, eventVars>>
Timer     == Tick /\ UNCHANGED <<waitVars, mutexVars, eventVars>>

Next ==
  \/ \E t \in Tasks : TaskStep(t) \/ Kernel(t)
  \/ Timer

(* The code between two interrupts goes on by itself; nothing makes a task  *)
(* ask for a service, but one that is in `down' or holds a mutex goes on.   *)
Fairness ==
  /\ \A t \in Tasks : WF_vars(Kernel(t))
  /\ SF_vars(Timer)

Spec == Init /\ [][Next]_vars
FairSpec == Spec /\ Fairness

-----------------------------------------------------------------------------
(* Every variable holds a value of its type.                                *)
TypeOK == SchedTypeOK /\ WaitTypeOK /\ MutexTypeOK /\ EventTypeOK

Waiters(q) == ToSet(wq[q])

(* The circular run queue threads exactly the tasks in state RUNNING, each  *)
(* of them once: wake_up never leaves a task linked twice or lost.          *)
RunqueueExact ==
  /\ IsInjective(runqueue)
  /\ \A t \in Tasks : ts_state[t] = RUNNING <=> t \in ToSet(runqueue)

(* Exactly the sleeping tasks are linked in wait queues, each in one place: *)
(* a wakeup finds a task that really sleeps and no task sleeps unreachable. *)
SleepersQueued ==
  /\ \A q \in Queues : IsInjective(wq[q])
  /\ \A p, q \in Queues : p # q => Waiters(p) \cap Waiters(q) = {}
  /\ \A t \in Tasks : ts_state[t] = SOFT_WAIT <=> \E q \in Queues : t \in Waiters(q)

(* Two tasks never are between down and up of one mutex, and the one that   *)
(* is there is the owner up checks for.                                     *)
MutualExclusion ==
  \A m \in Mutexes :
    /\ \A t, u \in Tasks : m \in holding[t] /\ m \in holding[u] => t = u
    /\ \A t \in Tasks : m \in holding[t] => locked[m] /\ owner[m] = t

(* No lost wakeup: if a mutex is free while tasks wait for it, one task it  *)
(* has woken is on its way to try again (up signals only one).              *)
WakeupOnTheWay ==
  \A m \in Mutexes :
    ~locked[m] /\ wq[m] # <<>>
      => \E t \in Tasks : downing[t] = m /\ ts_state[t] = RUNNING

(* A task that executes outside the kernel's exit path is runnable: the     *)
(* switch never resumes a sleeping or dead task.                            *)
OnlyRunnableRun ==
  current \in Tasks /\ at[current] = "run" => ts_state[current] = RUNNING

(* No one is left waiting on a manual event that is signaled.               *)
SignaledHasNoWaiters == \A e \in Events : signaled[e] => wq[e] = <<>>

(* The kernel's own consistency checks never fire.                          *)
NoBugcheck == failure = "none"

(* A request for scheduling made while the scheduler was paused is served.  *)
RequestServed == sched_pending ~> ~sched_pending

(* A task that has gone to sleep leaves the CPU.                            *)
SleeperLeavesCpu ==
  \A t \in Tasks : (current = t /\ ts_state[t] = SOFT_WAIT) ~> (current # t)

(* down, try_down and up implement an abstract lock per mutex: a grant only *)
(* when no one has it, and only its holder gives it back.                   *)
L == INSTANCE Lock WITH held <- holding

ImplementsLock == L!Spec

-----------------------------------------------------------------------------
(* What comments and assertions of the code say, and the runs refute.       *)

(* switch_to: "ASSERT (task->ts_state != TASK_STATE_EXITED)" holds.         *)
NeverSwitchToExited == failure # "switch_to_exited"

(* mutex.c, down: after a contended attempt, "Let's wait until it's free":  *)
(* the task gets into the wait queue instead of using up its kernel stack.  *)
ContentionWaits == failure # "kernel_stack"
=============================================================================
