----------------------------- MODULE TaskTable ------------------------------
(***************************************************************************)
(* Tasks and services (task.c, srvrd.c, syskrn.c): how the boot loads the  *)
(* servers, the table that leads from an id to a task, the list of named   *)
(* services, and what becomes of them when tasks exit or are killed.       *)
(*                                                                         *)
(* The boot runs with interrupts off and the scheduler paused; afterwards  *)
(* every system call here is a critical section: each is one step.         *)
(***************************************************************************)
EXTENDS Integers, SequencesExt

CONSTANTS
  Servers,     \* executables of serv/ in the initial ram disk
  IdleThread,  \* the idle thread, which has id 0
  Names,       \* names of services
  NULL

VARIABLES
  toLoad,     \* the executables not yet loaded
  failures,   \* how many of them have failed
  table,      \* task_list_table, the ids that can be in use
  live,       \* ts_tid of the tasks allocated and running
  services,   \* service_list: the newest first
  declared,   \* ts_service of each live task: a name, or NULL
  answers     \* what each task was last told by query_service

taskVars == <<toLoad, failures, table, live, services, declared, answers>>

Tids      == 0 .. Cardinality(Servers)
LiveTasks == DOMAIN live
Nothing   == [name |-> NULL, tid |-> -1, owner |-> NULL]

\* init_task_list_table, init_kernel_threads
TasksInit ==
  /\ toLoad = Servers
  /\ failures = 0
  /\ table = [tid \in Tids |-> IF tid = 0 THEN IdleThread ELSE NULL]
  /\ live = [t \in {IdleThread} |-> 0]
  /\ services = <<>>
  /\ declared = [t \in {IdleThread} |-> NULL]
  /\ answers = [t \in Servers |-> Nothing]

\* get_task
GetTask(tid) == table[tid]

\* __find_free_tid: task_last_tid is never written, the search starts at 0.
FindFreeTid == CHOOSE tid \in Tids : GetTask(tid) = NULL /\ \A u \in 0 .. (tid - 1) : GetTask(u) # NULL

Add(f, t, v) == [u \in DOMAIN f \cup {t} |-> IF u = t THEN v ELSE f[u]]
Drop(f, t)   == [u \in DOMAIN f \ {t} |-> f[u]]

\* user_task_new_from_exec and register_task, with memory for all they need;
\* wake_up makes the task runnable.
LoadServer(t) ==
  /\ t \in toLoad
  /\ toLoad' = toLoad \ {t}
  /\ table' = [table EXCEPT ![FindFreeTid] = t]
  /\ live' = Add(live, t, FindFreeTid)
  /\ declared' = Add(declared, t, NULL)
  /\ UNCHANGED <<failures, services, answers>>

\* __alloc_task fails: there is nothing to undo.
LoadNoTask(t) ==
  /\ t \in toLoad
  /\ toLoad' = toLoad \ {t}
  /\ UNCHANGED <<failures, table, live, services, declared, answers>>

\* A later step fails: a file that is not an executable, a region in the way,
\* no memory.  task_destroy takes entry 0 from the table, as the task has no
\* id yet; what __alloc_task left in ts_tid is 0.
LoadFails(t) ==
  /\ t \in toLoad
  /\ toLoad' = toLoad \ {t}
  /\ failures' = failures + 1
  /\ table' = [table EXCEPT ![0] = NULL]
  /\ UNCHANGED <<live, services, declared, answers>>

\* service_new, of a name copied with it
NewService(t, name) == [name |-> name, task |-> t]

\* __service_unregister, which finds the service by the task's ts_service.
Unregistered(t) ==
  IF declared[t] = NULL THEN services
  ELSE RemoveAt(services, CHOOSE i \in DOMAIN services : services[i].task = t)

\* Mutant: the task's service is not unregistered.
TaskDestroyServing(t) ==
  /\ table' = [table EXCEPT ![live[t]] = NULL]
  /\ live' = Drop(live, t)
  /\ declared' = Drop(declared, t)
  /\ UNCHANGED services

\* Mutant: the task's entry stays in the table.
TaskDestroyListed(t) ==
  /\ services' = Unregistered(t)
  /\ live' = Drop(live, t)
  /\ declared' = Drop(declared, t)
  /\ UNCHANGED table

\* task_destroy of a task that has run: ts_service leads to its service.
TaskDestroy(t) ==
  /\ table' = [table EXCEPT ![live[t]] = NULL]
  /\ services' = Unregistered(t)
  /\ live' = Drop(live, t)
  /\ declared' = Drop(declared, t)

\* syscall_krn_exit, or task_trigger_exception
Exit(t) ==
  /\ TaskDestroy(t)
  /\ answers' = [answers EXCEPT ![t] = Nothing]
  /\ UNCHANGED <<toLoad, failures>>

Registered(name) == \E s \in ToSet(services) : s.name = name
LookupByName(name) == CHOOSE s \in ToSet(services) : s.name = name

\* __service_register: the newest service is the first of the list.
ServiceRegister(t, name) ==
  /\ ~Registered(name)
  /\ services' = <<NewService(t, name)>> \o services

\* syscall_krn_declare_service that succeeds.  -EINVAL when the task has a
\* service, -EEXIST when the name is taken, -EFAULT and -ENOMEM change nothing.
DeclareService(t, name) ==
  /\ declared[t] = NULL
  /\ ServiceRegister(t, name)
  /\ declared' = [declared EXCEPT ![t] = name]
  /\ UNCHANGED <<toLoad, failures, table, live, answers>>

\* syscall_krn_query_service, -ESRCH when there is no such service.
QueryService(t, name) ==
  /\ answers' = [answers EXCEPT ![t] =
       IF Registered(name)
       THEN [name |-> name, tid |-> live[LookupByName(name).task],
             owner |-> LookupByName(name).task]
       ELSE Nothing]
  /\ UNCHANGED <<toLoad, failures, table, live, services, declared>>

\* srvrd_load, which goes on after a server that cannot be loaded.
Boot == \E t \in toLoad : LoadServer(t) \/ LoadNoTask(t) \/ LoadFails(t)

Runs ==
  /\ toLoad = {}
  /\ \E t \in LiveTasks \ {IdleThread} :
       \/ Exit(t)
       \/ \E name \in Names : DeclareService(t, name) \/ QueryService(t, name)

TaskNext == Boot \/ Runs

TaskSpec == TasksInit /\ [][TaskNext]_taskVars

-----------------------------------------------------------------------------
\* An id leads to a task that lives and has that id, or to none, so that no
\* message is put in the queue of a task that is gone, and each task is found
\* by its id.  Each server that fails to load takes entry 0 from whoever has
\* it: first from the idle thread, which is not looked for again, but the next
\* server takes id 0 and a second failure would hide it.
TableSound ==
  /\ \A tid \in Tids : table[tid] # NULL => table[tid] \in LiveTasks /\ live[table[tid]] = tid
  /\ failures < 2 => \A t \in LiveTasks \ {IdleThread} : GetTask(live[t]) = t

\* A name has one service, of a live task that knows it as its own; and the id
\* a task was given for a service never leads to another task than the one that
\* declared it, even if that one has exited since.
ServicesSound ==
  /\ \A i, j \in DOMAIN services : services[i].name = services[j].name => i = j
  /\ \A s \in ToSet(services) : s.task \in LiveTasks /\ declared[s.task] = s.name
  /\ \A t \in LiveTasks : declared[t] # NULL => [name |-> declared[t], task |-> t] \in ToSet(services)
  /\ failures < 2 => \A t \in Servers : answers[t] # Nothing =>
       GetTask(answers[t].tid) \in {NULL, answers[t].owner}
=============================================================================
