----------------------------- MODULE WaitQueue -----------------------------
(***************************************************************************)
(* Wait queues (waitqueue.c): the only way a task of this kernel blocks.   *)
(* Each operator is what one function does inside its caller's task-atomic *)
(* section, composed with the scheduler calls it makes.                    *)
(*                                                                         *)
(* wait_queue_put_task allocates its list element with kalloc, which takes *)
(* salloc_mutex (salloc.c): so the word of every mutex is declared here,   *)
(* below the mutexes that are built on wait queues.                        *)
(***************************************************************************)
EXTENDS Sched

CONSTANTS
  Mutexes,      (* the mutexes, salloc_mutex among them                     *)
  Events,       (* the events                                               *)
  SallocMutex,  (* salloc_mutex: guards the allocator's task pool           *)
  NoOne         (* the owner of a mutex no one has taken yet                *)

ASSUME WaitQueueAssumption ==
  /\ SallocMutex \in Mutexes
  /\ Mutexes \cap Events = {}
  /\ NoOne \notin Tasks \cup Mutexes

Queues == Mutexes \cup Events

VARIABLES
  wq,      (* wq_queue of each mutex and event: tasks, first to wake first  *)
  locked,  (* mutex->value = MUTEX_LOCKED                                   *)
  owner    (* mutex->owner                                                  *)

waitVars == <<wq, locked, owner>>

WaitInit ==
  /\ wq = [q \in Queues |-> <<>>]
  /\ locked = [m \in Mutexes |-> FALSE]
  /\ owner = [m \in Mutexes |-> NoOne]

(* wait_queue_put_task, with memory for the element: the last to wake       *)
PutTask(q, t) == Append(wq[q], t)

(* __sleep (q) by t.  The list element comes from salloc_task: down, alloc, *)
(* up, all inside the caller's section.  If salloc_mutex is taken, down     *)
(* sleeps on it, which allocates a list element, which calls down ... until *)
(* the kernel stack overflows.                                              *)
Sleep(t, q) ==
  IF locked[SallocMutex]
  THEN /\ Bugcheck("kernel_stack")
       /\ UNCHANGED waitVars
  ELSE IF ts_state[t] = SOFT_WAIT
  THEN /\ Bugcheck("already_in_state")
       /\ UNCHANGED waitVars
  ELSE /\ SuspendSelf(t)
       /\ wq' = [wq EXCEPT ![q] = PutTask(q, t)]
       /\ owner' = [owner EXCEPT ![SallocMutex] = t]
       /\ UNCHANGED locked

(* Mutant: the task woken is not taken out of the wait queue. *)
SignalOneLinked(t, q) ==
  /\ Awaken(t, IF wq[q] = <<>> THEN <<>> ELSE <<Head(wq[q])>>)
  /\ UNCHANGED wq

(* signal (q, reason) by t: the first waiter, if any, is made runnable.     *)
SignalOne(t, q) ==
  IF wq[q] # <<>> /\ ts_state[Head(wq[q])] = RUNNING
  THEN /\ Bugcheck("already_in_state")
       /\ UNCHANGED wq
  ELSE /\ Awaken(t, IF wq[q] = <<>> THEN <<>> ELSE <<Head(wq[q])>>)
       /\ wq' = [wq EXCEPT ![q] = IF @ = <<>> THEN @ ELSE Tail(@)]

(* __signal_all (q, reason) by t: every waiter, first one first.            *)
SignalAll(t, q) ==
  /\ Awaken(t, wq[q])
  /\ wq' = [wq EXCEPT ![q] = <<>>]

WaitTypeOK ==
  /\ wq \in [Queues -> Seq(Tasks)]
  /\ locked \in [Mutexes -> BOOLEAN]
  /\ owner \in [Mutexes -> Tasks \cup {NoOne}]
=============================================================================
