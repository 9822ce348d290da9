------------------------------- MODULE Mutex -------------------------------
(***************************************************************************)
(* Mutexes (mutex.c): a word, an owner and a wait queue.  `down' is a loop *)
(* over a section that either takes the mutex or sleeps on it, so a task   *)
(* that has been woken still competes for the mutex with everyone else.    *)
(***************************************************************************)
EXTENDS WaitQueue

VARIABLES
  downing,  (* the mutex whose `down' loop the task is in, or NoOne         *)
  holding   (* the mutexes whose `down' the task has returned from          *)

mutexVars == <<downing, holding>>

MutexInit ==
  /\ downing = [t \in Tasks |-> NoOne]
  /\ holding = [t \in Tasks |-> {}]

(* The task runs its own code: in no loop of `down'.                        *)
Free(t) == OnCpu(t) /\ downing[t] = NoOne

(* Mutant: the owner is not recorded. *)
AcquireAnonymous(t, m) ==
  /\ QuietSection(t)
  /\ locked' = [locked EXCEPT ![m] = TRUE]
  /\ holding' = [holding EXCEPT ![t] = @ \cup {m}]
  /\ downing' = [downing EXCEPT ![t] = NoOne]
  /\ UNCHANGED <<wq, owner>>

Acquire(t, m) ==
  /\ QuietSection(t)
  /\ locked' = [locked EXCEPT ![m] = TRUE]
  /\ owner' = [owner EXCEPT ![m] = t]
  /\ holding' = [holding EXCEPT ![t] = @ \cup {m}]
  /\ downing' = [downing EXCEPT ![t] = NoOne]
  /\ UNCHANGED wq

(* Mutant: a task woken takes the mutex without another look at it. *)
DownTakeWoken(t, m) ==
  /\ OnCpu(t)
  /\ downing[t] = m \/ (downing[t] = NoOne /\ m \notin holding[t] /\ ~locked[m])
  /\ Acquire(t, m)

(* An iteration of the loop of `down', the first one or one after a wakeup. *)
DownTake(t, m) ==
  /\ OnCpu(t)
  /\ downing[t] = m \/ (downing[t] = NoOne /\ m \notin holding[t])
  /\ ~locked[m]
  /\ Acquire(t, m)

DownSleep(t, m) ==
  /\ OnCpu(t)
  /\ downing[t] = m \/ (downing[t] = NoOne /\ m \notin holding[t])
  /\ locked[m]
  /\ Sleep(t, m)
  /\ downing' = [downing EXCEPT ![t] = m]
  /\ UNCHANGED holding

(* Mutant: the state of the mutex is not tested. *)
TryDownAlways(t, m) ==
  /\ Free(t)
  /\ m \notin holding[t]
  /\ Acquire(t, m)

(* try_down: as `down', without the wait.                                   *)
TryDown(t, m) ==
  /\ Free(t)
  /\ m \notin holding[t]
  /\ IF locked[m]
     THEN QuietSection(t) /\ UNCHANGED <<waitVars, mutexVars>>
     ELSE Acquire(t, m)

(* Mutant: up forgets to wake a waiter. *)
UpSilent(t, m) ==
  /\ Free(t)
  /\ m \in holding[t]
  /\ locked' = [locked EXCEPT ![m] = FALSE]
  /\ holding' = [holding EXCEPT ![t] = @ \ {m}]
  /\ QuietSection(t)
  /\ UNCHANGED <<wq, owner, downing>>

(* up: only the owner may release; the first waiter gets another try.       *)
Up(t, m) ==
  /\ Free(t)
  /\ m \in holding[t]
  /\ IF locked[m] /\ owner[m] = t
     THEN /\ locked' = [locked EXCEPT ![m] = FALSE]
          /\ holding' = [holding EXCEPT ![t] = @ \ {m}]
          /\ SignalOne(t, m)
          /\ UNCHANGED <<owner, downing>>
     ELSE /\ Bugcheck(IF locked[m] THEN "not_owner" ELSE "already_released")
          /\ UNCHANGED <<waitVars, mutexVars>>

MutexTypeOK ==
  /\ downing \in [Tasks -> Mutexes \cup {NoOne}]
  /\ holding \in [Tasks -> SUBSET Mutexes]
=============================================================================
