------------------------- MODULE KernelSync_proofs -------------------------
(***************************************************************************)
(* What is proved of KernelSync for any number of tasks, mutexes and       *)
(* events: mutual exclusion, types, the run queue and the wait queues, for *)
(* any nesting of scheduler activations (MaxNested); and what holds of     *)
(* sleepers and wakeups as long as activations do not nest.                *)
(***************************************************************************)
EXTENDS KernelSync, SequenceTheorems, FiniteSetTheorems, TLAPS

(* The inductive invariant: MutualExclusion and the types it needs.         *)
MutexInv ==
  /\ locked \in [Mutexes -> BOOLEAN]
  /\ owner \in [Mutexes -> Tasks \cup {NoOne}]
  /\ holding \in [Tasks -> SUBSET Mutexes]
  /\ MutualExclusion

(* Going to sleep takes and releases salloc_mutex within one section: at    *)
(* the end it is as free as before, whoever is its last owner.              *)
LEMMA SleepKeepsMutexes ==
  ASSUME NEW t, NEW q, Sleep(t, q)
  PROVE  /\ locked' = locked
         /\ \/ owner' = owner
            \/ ~locked[SallocMutex] /\ owner' = [owner EXCEPT ![SallocMutex] = t]
BY DEF Sleep, waitVars

(* Taking a free mutex makes the taker its only holder.                     *)
LEMMA AcquireKeepsInv ==
  ASSUME NEW t \in Tasks, NEW m \in Mutexes, MutexInv, ~locked[m], Acquire(t, m)
  PROVE  MutexInv'
<1>1. /\ locked' = [locked EXCEPT ![m] = TRUE]
      /\ owner' = [owner EXCEPT ![m] = t]
      /\ holding' = [holding EXCEPT ![t] = @ \cup {m}]
  BY DEF Acquire
<1>2. \A u \in Tasks : m \notin holding[u]
  BY DEF MutexInv, MutualExclusion
<1>3. (/\ locked \in [Mutexes -> BOOLEAN]
       /\ owner \in [Mutexes -> Tasks \cup {NoOne}]
       /\ holding \in [Tasks -> SUBSET Mutexes])'
  BY <1>1 DEF MutexInv
<1>4. MutualExclusion'
  BY <1>1, <1>2 DEF MutexInv, MutualExclusion
<1>5. QED
  BY <1>3, <1>4 DEF MutexInv

(* A step that puts a task to sleep preserves the invariant.                *)
LEMMA SleepKeepsInv ==
  ASSUME NEW t \in Tasks, NEW q, MutexInv, Sleep(t, q), holding' = holding
  PROVE  MutexInv'
<1>1. CASE owner' = owner
  BY <1>1, SleepKeepsMutexes DEF MutexInv, MutualExclusion
<1>2. CASE ~locked[SallocMutex] /\ owner' = [owner EXCEPT ![SallocMutex] = t]
  <2>1. SallocMutex \in Mutexes
    BY WaitQueueAssumption
  <2>2. \A u \in Tasks : SallocMutex \notin holding[u]
    BY <1>2, <2>1 DEF MutexInv, MutualExclusion
  <2>3. locked' = locked
    BY SleepKeepsMutexes
  <2>4. QED
    BY <1>2, <2>1, <2>2, <2>3 DEF MutexInv, MutualExclusion
<1>3. QED
  BY <1>1, <1>2, SleepKeepsMutexes

(* An operation of a task on a mutex preserves the invariant.               *)
LEMMA MutexOpKeepsInv ==
  ASSUME NEW t \in Tasks, MutexInv, MutexOp(t)
  PROVE  MutexInv'
<1>1. PICK m \in Mutexes :
        \/ DownTake(t, m) \/ DownSleep(t, m) \/ TryDown(t, m)
        \/ Up(t, m)
  BY DEF MutexOp
<1>2. CASE DownTake(t, m)
  BY <1>2, AcquireKeepsInv DEF DownTake
<1>3. CASE DownSleep(t, m)
  BY <1>3, SleepKeepsInv DEF DownSleep
<1>4. CASE TryDown(t, m)
  <2>1. CASE locked[m]
    BY <1>4, <2>1 DEF TryDown, waitVars, mutexVars, MutexInv, MutualExclusion
  <2>2. CASE ~locked[m]
    BY <1>4, <2>2, AcquireKeepsInv DEF TryDown
  <2>3. QED
    BY <2>1, <2>2
<1>5. CASE Up(t, m)
  <2>1. CASE locked[m] /\ owner[m] = t
    <3>1. /\ locked' = [locked EXCEPT ![m] = FALSE]
          /\ holding' = [holding EXCEPT ![t] = @ \ {m}]
          /\ owner' = owner
          /\ m \in holding[t]
      BY <1>5, <2>1 DEF Up
    <3>2. \A u \in Tasks : m \in holding[u] => u = t
      BY <3>1 DEF MutexInv, MutualExclusion
    <3>3. QED
      BY <3>1, <3>2 DEF MutexInv, MutualExclusion
  <2>2. CASE ~(locked[m] /\ owner[m] = t)
    BY <1>5, <2>2 DEF Up, waitVars, mutexVars, MutexInv, MutualExclusion
  <2>3. QED
    BY <2>1, <2>2
<1>6. QED
  BY <1>1, <1>2, <1>3, <1>4, <1>5

(* An operation of a task on an event preserves the invariant.              *)
LEMMA EventOpKeepsInv ==
  ASSUME NEW t \in Tasks, MutexInv, EventOp(t)
  PROVE  MutexInv'
<1>1. holding' = holding
  BY DEF EventOp, mutexVars
<1>2. PICK e \in Events :
        \/ EventWait(t, e)
        \/ EventSignal(t, e)
        \/ EventClear(t, e)
        \/ \E flag \in BOOLEAN : EventSetAutoReset(t, e, flag)
  BY DEF EventOp
<1>3. CASE EventWait(t, e)
  <2>1. CASE signaled[e]
    BY <1>1, <1>3, <2>1 DEF EventWait, waitVars, MutexInv, MutualExclusion
  <2>2. CASE ~signaled[e]
    BY <1>1, <1>3, <2>2, SleepKeepsInv DEF EventWait
  <2>3. QED
    BY <2>1, <2>2
<1>4. CASE EventSignal(t, e)
  BY <1>1, <1>4 DEF EventSignal, waitVars, MutexInv, MutualExclusion
<1>5. CASE EventClear(t, e)
  BY <1>1, <1>5 DEF EventClear, waitVars, MutexInv, MutualExclusion
<1>6. CASE \E flag \in BOOLEAN : EventSetAutoReset(t, e, flag)
  BY <1>1, <1>6 DEF EventSetAutoReset, waitVars, MutexInv, MutualExclusion
<1>7. QED
  BY <1>2, <1>3, <1>4, <1>5, <1>6

(* MutexInv holds in every reachable state.                                 *)
LEMMA MutexInvInitially == Init => MutexInv
<1> SUFFICES ASSUME Init PROVE MutexInv
  OBVIOUS
<1>1. /\ locked = [m \in Mutexes |-> FALSE]
      /\ owner = [m \in Mutexes |-> NoOne]
      /\ holding = [t \in Tasks |-> {}]
  BY DEF Init, WaitInit, MutexInit
<1>2. QED
  BY <1>1 DEF MutexInv, MutualExclusion

LEMMA MutexInvKept == MutexInv /\ [Next]_vars => MutexInv'
<1> SUFFICES ASSUME MutexInv, [Next]_vars PROVE MutexInv'
  OBVIOUS
<1>1. ASSUME NEW t \in Tasks, MutexOp(t) PROVE MutexInv'
  BY <1>1, MutexOpKeepsInv
<1>2. ASSUME NEW t \in Tasks, EventOp(t) PROVE MutexInv'
  BY <1>2, EventOpKeepsInv
<1>3. ASSUME NEW t \in Tasks, Exit(t) PROVE MutexInv'
  BY <1>3 DEF Exit, waitVars, mutexVars, MutexInv, MutualExclusion
<1>4. ASSUME NEW t \in Tasks, Kernel(t) PROVE MutexInv'
  BY <1>4 DEF Kernel, waitVars, mutexVars, MutexInv, MutualExclusion
<1>5. CASE Timer
  BY <1>5 DEF Timer, waitVars, mutexVars, MutexInv, MutualExclusion
<1>6. CASE UNCHANGED vars
  BY <1>6 DEF vars, waitVars, mutexVars, MutexInv, MutualExclusion
<1>7. QED
  BY <1>1, <1>2, <1>3, <1>4, <1>5, <1>6 DEF Next, TaskStep

(* Mutual exclusion of every mutex, with the owner that up checks for.      *)
THEOREM MutualExclusionHolds == Spec => []MutualExclusion
<1>1. MutexInv => MutualExclusion
  BY DEF MutexInv
<1>2. QED
  BY <1>1, MutexInvInitially, MutexInvKept, PTL DEF Spec

-----------------------------------------------------------------------------
(* The mutexes implement the abstract lock: every step of the kernel is a   *)
(* grant, a return, or leaves what each task holds alone.                   *)

(* A task takes a free mutex: an abstract grant.                            *)
LEMMA AcquireIsGrant ==
  ASSUME NEW t \in Tasks, NEW m \in Mutexes, MutexInv, ~locked[m], Acquire(t, m)
  PROVE  L!Grant(t, m)
BY DEF Acquire, MutexInv, MutualExclusion, L!Grant

LEMMA MutexOpIsLockStep ==
  ASSUME NEW t \in Tasks, MutexInv, MutexOp(t)
  PROVE  L!Next \/ holding' = holding
<1>1. PICK m \in Mutexes :
        DownTake(t, m) \/ DownSleep(t, m) \/ TryDown(t, m) \/ Up(t, m)
  BY DEF MutexOp
<1>2. CASE DownTake(t, m)
  BY <1>2, AcquireIsGrant DEF DownTake, L!Next
<1>3. CASE DownSleep(t, m)
  BY <1>3 DEF DownSleep
<1>4. CASE TryDown(t, m)
  BY <1>4, AcquireIsGrant DEF TryDown, mutexVars, L!Next
<1>5. CASE Up(t, m)
  BY <1>5 DEF Up, mutexVars, L!Next, L!GiveBack
<1>6. QED
  BY <1>1, <1>2, <1>3, <1>4, <1>5

(* Refinement: down, try_down and up behave as the lock their callers need. *)
THEOREM LockRefinement == Spec => ImplementsLock
<1>1. Init => L!Init
  BY DEF Init, MutexInit, L!Init
<1>2. MutexInv /\ [Next]_vars => [L!Next]_holding
  <2> SUFFICES ASSUME MutexInv, [Next]_vars PROVE L!Next \/ holding' = holding
    OBVIOUS
  <2>1. ASSUME NEW t \in Tasks, MutexOp(t) PROVE L!Next \/ holding' = holding
    BY <2>1, MutexOpIsLockStep
  <2>2. ASSUME NEW t \in Tasks, EventOp(t) \/ Exit(t) \/ Kernel(t)
        PROVE  holding' = holding
    BY <2>2 DEF EventOp, Exit, Kernel, mutexVars
  <2>3. CASE Timer \/ UNCHANGED vars
    BY <2>3 DEF Timer, vars, mutexVars
  <2>4. QED
    BY <2>1, <2>2, <2>3 DEF Next, TaskStep
<1>3. QED
  BY <1>1, <1>2, MutexInvInitially, MutexInvKept, PTL DEF Spec, ImplementsLock, L!Spec

-----------------------------------------------------------------------------
(***************************************************************************)
(* Type correctness of KernelSync for any number of tasks, mutexes and     *)
(* events and any nesting of scheduler activations.  TypeOK alone is not   *)
(* inductive: switch_to takes the innermost choice of a stack, so a task   *)
(* in a window of defsched_sched must have made one.                       *)
(***************************************************************************)

WindowHasChoice == \A t \in Threads : at[t] \in Window => chosen[t] # <<>>

TypeInv == TypeOK /\ WindowHasChoice

(* Lemmas on the operators of the run queue.                                *)
LEMMA UnlinkType ==
  ASSUME NEW q \in Seq(Tasks), NEW t
  PROVE  Unlink(t, q) \in Seq(Tasks)
<1>1. CASE t \in ToSet(q)
  <2> DEFINE i == Position(t, q)
  <2>1. i \in 1..Len(q)
    BY <1>1 DEF Position, ToSet
  <2>2. SubSeq(q, 1, i - 1) \in Seq(Tasks) /\ SubSeq(q, i + 1, Len(q)) \in Seq(Tasks)
    <3> HIDE DEF i
    <3>1. \A j \in 1..(i - 1) : q[j] \in Tasks
      BY <2>1
    <3>2. \A j \in (i + 1)..Len(q) : q[j] \in Tasks
      BY <2>1
    <3>3. QED
      BY <2>1, <3>1, <3>2, SubSeqProperties
  <2>3. QED
    BY <1>1, <2>2, ConcatProperties DEF Unlink, RemoveAt
<1>2. QED
  BY <1>1 DEF Unlink

LEMMA ReverseType ==
  ASSUME NEW q \in Seq(Tasks)
  PROVE  Reverse(q) \in Seq(Tasks)
BY DEF Reverse

LEMMA AppendType ==
  ASSUME NEW S, NEW q \in Seq(S), NEW e \in S
  PROVE  Append(q, e) \in Seq(S) /\ Append(q, e) # <<>>
<1>1. Append(q, e) \in Seq(S) /\ Len(Append(q, e)) = Len(q) + 1
  BY AppendProperties
<1>2. Len(q) \in Nat /\ Len(<<>>) = 0
  BY LenProperties, EmptySeq
<1>3. QED
  BY <1>1, <1>2

LEMMA FrontType ==
  ASSUME NEW S, NEW q \in Seq(S), q # <<>>
  PROVE  /\ Last(q) \in S
         /\ Front(q) \in Seq(S)
         /\ Len(q) # 1 => Front(q) # <<>>
<1>1. Len(q) \in Nat \ {0} /\ \A j \in 1..Len(q) : q[j] \in S
  BY EmptySeq, ElementOfSeq
<1>2. Last(q) \in S
  BY <1>1 DEF Last
<1>3. /\ SubSeq(q, 1, Len(q) - 1) \in Seq(S)
      /\ Len(SubSeq(q, 1, Len(q) - 1)) = Len(q) - 1
  <2> DEFINE n == Len(q) - 1
  <2>1. n \in Nat /\ \A j \in 1..n : q[j] \in S
    BY <1>1
  <2> HIDE DEF n
  <2>2. /\ SubSeq(q, 1, n) \in Seq(S)
        /\ Len(SubSeq(q, 1, n)) = IF 1 <= n THEN n - 1 + 1 ELSE 0
    BY <2>1, SubSeqProperties
  <2>3. Len(SubSeq(q, 1, n)) = n
    BY <2>1, <2>2
  <2>4. QED
    BY <2>2, <2>3 DEF n
<1>4. Len(q) # 1 => Len(Front(q)) # 0
  BY <1>1, <1>3 DEF Front
<1>5. QED
  BY <1>2, <1>3, <1>4, EmptySeq DEF Front

LEMMA ScrollNextType ==
  ASSUME NEW q \in Seq(Tasks)
  PROVE  ScrollNext(q) \in Seq(Tasks) /\ NextTask(ScrollNext(q)) \in Threads
<1>1. ScrollNext(q) \in Seq(Tasks)
  BY HeadTailProperties, AppendProperties DEF ScrollNext
<1>2. QED
  BY <1>1, HeadTailProperties DEF NextTask, Threads

-----------------------------------------------------------------------------
(* What the bodies of sections do to the scheduler's variables.             *)

(* The scheduler's part of TypeInv.                                         *)
SchedInv == SchedTypeOK /\ WindowHasChoice

LEMMA AtomicType ==
  ASSUME NEW t \in Tasks, SchedInv, Atomic(t),
         runqueue' \in Seq(Tasks), ts_state' \in [Threads -> States],
         sched_pending' \in BOOLEAN
  PROVE  SchedInv'
BY DEF SchedInv, SchedTypeOK, WindowHasChoice, Atomic, Threads, Places, Window

LEMMA QuietSectionType ==
  ASSUME NEW t \in Tasks, SchedInv, QuietSection(t)
  PROVE  SchedInv'
BY AtomicType DEF QuietSection, SchedInv, SchedTypeOK

LEMMA SuspendSelfType ==
  ASSUME NEW t \in Tasks, SchedInv, SuspendSelf(t)
  PROVE  SchedInv'
BY AtomicType, UnlinkType DEF SuspendSelf, SchedInv, SchedTypeOK, Threads, States

LEMMA ExitSelfType ==
  ASSUME NEW t \in Tasks, SchedInv, ExitSelf(t)
  PROVE  SchedInv'
BY AtomicType, UnlinkType DEF ExitSelf, SchedInv, SchedTypeOK, Threads, States

LEMMA AwakenType ==
  ASSUME NEW t \in Tasks, NEW ws \in Seq(Tasks), SchedInv, Awaken(t, ws)
  PROVE  SchedInv'
<1>1. runqueue' \in Seq(Tasks)
  BY ReverseType, ConcatProperties DEF Awaken, SchedInv, SchedTypeOK
<1>2. ts_state' \in [Threads -> States] /\ sched_pending' \in BOOLEAN
  BY DEF Awaken, SchedInv, SchedTypeOK, States
<1>3. QED
  BY <1>1, <1>2, AtomicType DEF Awaken

LEMMA BugcheckType ==
  ASSUME SchedInv, NEW why \in Failures, Bugcheck(why)
  PROVE  SchedInv'
BY DEF Bugcheck, SchedInv, SchedTypeOK, WindowHasChoice

LEMMA KernelStepType ==
  ASSUME NEW t \in Tasks, SchedInv, KernelStep(t)
  PROVE  SchedInv'
<1> USE DEF SchedInv, SchedTypeOK, WindowHasChoice, Moving, Threads, Places, Window
<1>1. CASE Leave(t)
  BY <1>1 DEF Leave
<1>2. CASE Check(t)
  BY <1>2 DEF Check
<1>3. CASE Choose(t)
  <2>1. runqueue' \in Seq(Tasks) /\ NextTask(ScrollNext(runqueue)) \in Threads
    BY <1>3, ScrollNextType DEF Choose
  <2>2. Append(chosen[t], NextTask(ScrollNext(runqueue))) \in Seq(Threads) \ {<<>>}
    <3> chosen[t] \in Seq(Threads)
      OBVIOUS
    <3>1. QED
      BY <2>1, AppendType
  <2>3. QED
    BY <1>3, <2>1, <2>2 DEF Choose
<1>4. CASE ChooseLeave(t)
  BY <1>4 DEF ChooseLeave
<1>5. CASE ChooseCheck(t)
  BY <1>5 DEF ChooseCheck
<1>6. CASE SwitchTo(t)
  <2>1. chosen[t] \in Seq(Threads) /\ chosen[t] # <<>>
    BY <1>6 DEF SwitchTo
  <2>2. /\ Last(chosen[t]) \in Threads
        /\ Front(chosen[t]) \in Seq(Threads)
        /\ Len(chosen[t]) # 1 => Front(chosen[t]) # <<>>
    BY <2>1, FrontType
  <2>4. CASE ts_state[Last(chosen[t])] = EXITED
    BY <1>6, <2>4, BugcheckType DEF SwitchTo, Failures
  <2>5. CASE ts_state[Last(chosen[t])] # EXITED
    BY <1>6, <2>2, <2>5 DEF SwitchTo
  <2>6. QED
    BY <2>4, <2>5
<1>7. QED
  BY <1>1, <1>2, <1>3, <1>4, <1>5, <1>6 DEF KernelStep

LEMMA TickType ==
  ASSUME SchedInv, Tick
  PROVE  SchedInv'
BY ScrollNextType DEF Tick, SchedInv, SchedTypeOK, WindowHasChoice

-----------------------------------------------------------------------------
(* What the wait queues, the mutexes and the events do.                     *)

(* The part of TypeInv the wait queues touch.                               *)
WaitInv == SchedInv /\ WaitTypeOK

LEMMA SleepType ==
  ASSUME NEW t \in Tasks, NEW q \in Queues, WaitInv, Sleep(t, q)
  PROVE  WaitInv'
<1>1. CASE UNCHANGED waitVars
  BY <1>1, BugcheckType, SuspendSelfType
  DEF Sleep, PutTask, WaitInv, WaitTypeOK, waitVars, Failures
<1>2. CASE /\ SuspendSelf(t)
           /\ wq' = [wq EXCEPT ![q] = Append(@, t)]
           /\ owner' = [owner EXCEPT ![SallocMutex] = t]
           /\ UNCHANGED locked
  <2>1. Append(wq[q], t) \in Seq(Tasks)
    BY AppendType DEF WaitInv, WaitTypeOK
  <2>2. QED
    BY <1>2, <2>1, SuspendSelfType DEF WaitInv, WaitTypeOK
<1>3. QED
  BY <1>1, <1>2 DEF Sleep, PutTask

LEMMA SignalOneType ==
  ASSUME NEW t \in Tasks, NEW q \in Queues, WaitInv, SignalOne(t, q),
         locked' \in [Mutexes -> BOOLEAN], owner' = owner
  PROVE  WaitInv'
<1>1. wq \in [Queues -> Seq(Tasks)]
  BY DEF WaitInv, WaitTypeOK
<1>2. CASE Bugcheck("already_in_state") /\ UNCHANGED wq
  BY <1>2, BugcheckType DEF WaitInv, WaitTypeOK, Failures
<1>3. CASE wq[q] = <<>> /\ Awaken(t, <<>>) /\ wq' = [wq EXCEPT ![q] = @]
  BY <1>1, <1>3, AwakenType DEF WaitInv, WaitTypeOK
<1>4. CASE wq[q] # <<>> /\ Awaken(t, <<Head(wq[q])>>) /\ wq' = [wq EXCEPT ![q] = Tail(@)]
  <2>1. Head(wq[q]) \in Tasks /\ Tail(wq[q]) \in Seq(Tasks)
    BY <1>1, <1>4, HeadTailProperties
  <2>2. <<Head(wq[q])>> \in Seq(Tasks)
    BY <2>1
  <2>3. QED
    BY <1>1, <1>4, <2>1, <2>2, AwakenType DEF WaitInv, WaitTypeOK
<1>5. QED
  BY <1>2, <1>3, <1>4 DEF SignalOne

LEMMA SignalAllType ==
  ASSUME NEW t \in Tasks, NEW q \in Queues, WaitInv, SignalAll(t, q),
         UNCHANGED <<locked, owner>>
  PROVE  WaitInv'
<1>1. wq[q] \in Seq(Tasks) /\ <<>> \in Seq(Tasks)
  BY DEF WaitInv, WaitTypeOK
<1>2. QED
  BY <1>1, AwakenType DEF SignalAll, WaitInv, WaitTypeOK

LEMMA QuietSectionWaitType ==
  ASSUME NEW t \in Tasks, WaitInv, QuietSection(t), UNCHANGED waitVars
  PROVE  WaitInv'
BY QuietSectionType DEF WaitInv, WaitTypeOK, waitVars

(* The mutexes' part of TypeInv.                                            *)
MutexTypes == WaitInv /\ MutexTypeOK

LEMMA AcquireType ==
  ASSUME NEW t \in Tasks, NEW m \in Mutexes, MutexTypes, Acquire(t, m)
  PROVE  MutexTypes'
BY QuietSectionType DEF Acquire, MutexTypes, WaitInv, WaitTypeOK, MutexTypeOK

LEMMA MutexOpType ==
  ASSUME NEW t \in Tasks, MutexTypes, MutexOp(t)
  PROVE  MutexTypes'
<1>1. PICK m \in Mutexes :
        DownTake(t, m) \/ DownSleep(t, m) \/ TryDown(t, m) \/ Up(t, m)
  BY DEF MutexOp
<1>2. m \in Queues
  BY DEF Queues
<1>3. CASE DownTake(t, m)
  BY <1>3, AcquireType DEF DownTake
<1>4. CASE DownSleep(t, m)
  BY <1>2, <1>4, SleepType DEF DownSleep, MutexTypes, MutexTypeOK
<1>5. CASE TryDown(t, m)
  BY <1>5, AcquireType, QuietSectionWaitType
  DEF TryDown, mutexVars, MutexTypes, MutexTypeOK
<1>6. CASE Up(t, m)
  <2>1. CASE locked[m] /\ owner[m] = t
    <3>1. /\ locked' = [locked EXCEPT ![m] = FALSE]
          /\ holding' = [holding EXCEPT ![t] = @ \ {m}]
          /\ SignalOne(t, m)
          /\ owner' = owner /\ downing' = downing
      BY <1>6, <2>1 DEF Up
    <3>2. locked' \in [Mutexes -> BOOLEAN] /\ MutexTypeOK'
      BY <3>1 DEF MutexTypes, MutexTypeOK, WaitInv, WaitTypeOK
    <3>3. QED
      BY <1>2, <3>1, <3>2, SignalOneType DEF MutexTypes
  <2>2. CASE ~(locked[m] /\ owner[m] = t)
    BY <1>6, <2>2, BugcheckType
    DEF Up, waitVars, mutexVars, MutexTypes, MutexTypeOK, WaitInv, WaitTypeOK, Failures
  <2>3. QED
    BY <2>1, <2>2
<1>7. QED
  BY <1>1, <1>3, <1>4, <1>5, <1>6

LEMMA EventOpType ==
  ASSUME NEW t \in Tasks, WaitInv, EventTypeOK, EventOp(t)
  PROVE  WaitInv' /\ EventTypeOK'
<1>1. PICK e \in Events :
        \/ EventWait(t, e)
        \/ EventSignal(t, e)
        \/ EventClear(t, e)
        \/ \E flag \in BOOLEAN : EventSetAutoReset(t, e, flag)
  BY DEF EventOp
<1>2. e \in Queues
  BY DEF Queues
<1>3. CASE EventWait(t, e)
  BY <1>2, <1>3, SleepType, QuietSectionWaitType DEF EventWait, eventVars, EventTypeOK
<1>4. CASE EventSignal(t, e)
  BY <1>2, <1>4, SignalAllType, QuietSectionWaitType DEF EventSignal, EventTypeOK
<1>5. CASE EventClear(t, e)
  BY <1>5, QuietSectionWaitType DEF EventClear, EventTypeOK
<1>6. CASE \E flag \in BOOLEAN : EventSetAutoReset(t, e, flag)
  BY <1>6, QuietSectionWaitType DEF EventSetAutoReset, EventTypeOK
<1>7. QED
  BY <1>1, <1>3, <1>4, <1>5, <1>6

-----------------------------------------------------------------------------
(* TypeInv holds at the start ...                                           *)
LEMMA TypeInvInitially == Init => TypeInv
<1> SUFFICES ASSUME Init PROVE TypeInv
  OBVIOUS
<1>1. Cardinality(Tasks) \in Nat
  BY SchedAssumption, FS_CardinalityType
<1>2. runqueue \in Seq(Tasks) /\ current \in Threads
  <2>1. PICK order \in [1..Cardinality(Tasks) -> Tasks] :
          runqueue = order /\ current = NextTask(order)
    BY DEF Init, SchedInit
  <2>2. order \in Seq(Tasks)
    BY <1>1
  <2>3. QED
    BY <2>1, <2>2, HeadTailProperties DEF NextTask, Threads
<1>3. /\ ts_state = [t \in Threads |-> IF t = Idle THEN SOFT_WAIT ELSE RUNNING]
      /\ enabled = TRUE /\ sched_pending = FALSE /\ failure = "none"
      /\ at = [t \in Threads |-> "run"]
      /\ chosen = [t \in Threads |-> <<>>]
  BY DEF Init, SchedInit
<1>4. SchedTypeOK
  <2>1. <<>> \in Seq(Threads)
    BY EmptySeq
  <2>2. QED
    BY <1>2, <1>3, <2>1 DEF SchedTypeOK, States, Places, Failures
<1>5. WindowHasChoice
  BY <1>3 DEF WindowHasChoice, Window
<1>6. WaitTypeOK /\ MutexTypeOK /\ EventTypeOK
  BY DEF Init, WaitInit, MutexInit, EventInit, WaitTypeOK, MutexTypeOK, EventTypeOK
<1>7. QED
  BY <1>4, <1>5, <1>6 DEF TypeInv, TypeOK

(* ... and every step keeps it.                                             *)
LEMMA TypeInvKept == TypeInv /\ [Next]_vars => TypeInv'
<1> SUFFICES ASSUME TypeInv, [Next]_vars PROVE TypeInv'
  OBVIOUS
<1> USE DEF TypeInv, TypeOK, SchedInv, WaitInv, MutexTypes
<1>1. ASSUME NEW t \in Tasks, MutexOp(t) PROVE TypeInv'
  BY <1>1, MutexOpType DEF MutexOp, eventVars, EventTypeOK
<1>2. ASSUME NEW t \in Tasks, EventOp(t) PROVE TypeInv'
  BY <1>2, EventOpType DEF EventOp, mutexVars, MutexTypeOK
<1>3. ASSUME NEW t \in Tasks, Exit(t) PROVE TypeInv'
  BY <1>3, ExitSelfType, BugcheckType
  DEF Exit, waitVars, mutexVars, eventVars, WaitTypeOK, MutexTypeOK, EventTypeOK, Failures
<1>4. ASSUME NEW t \in Tasks, Kernel(t) PROVE TypeInv'
  BY <1>4, KernelStepType
  DEF Kernel, waitVars, mutexVars, eventVars, WaitTypeOK, MutexTypeOK, EventTypeOK
<1>5. CASE Timer
  BY <1>5, TickType
  DEF Timer, waitVars, mutexVars, eventVars, WaitTypeOK, MutexTypeOK, EventTypeOK
<1>6. CASE UNCHANGED vars
  BY <1>6 DEF vars, schedVars, waitVars, mutexVars, eventVars, SchedTypeOK,
     WindowHasChoice, WaitTypeOK, MutexTypeOK, EventTypeOK
<1>7. QED
  BY <1>1, <1>2, <1>3, <1>4, <1>5, <1>6 DEF Next, TaskStep

(* Type correctness: run queue and wait queues only ever hold tasks, and    *)
(* the CPU only ever runs a task or the idle task.                          *)
THEOREM TypeCorrect == Spec => []TypeOK
<1>1. TypeInv => TypeOK
  BY DEF TypeInv
<1>2. QED
  BY <1>1, TypeInvInitially, TypeInvKept, PTL DEF Spec

-----------------------------------------------------------------------------
(***************************************************************************)
(* The run queue and the wait queues, for any number of tasks, mutexes and *)
(* events and any nesting of scheduler activations.  The run queue is exact*)
(* only because a task is never linked in two wait queues, and that holds  *)
(* only because an exited task that is still on the CPU is on its way out: *)
(* the request it left is not lost before the scheduler has chosen again.  *)
(***************************************************************************)

(* Lemmas on sequences in which nothing is repeated.                        *)

LEMMA Elements ==
  ASSUME NEW q \in Seq(Tasks)
  PROVE  /\ Len(q) \in Nat /\ DOMAIN q = 1..Len(q)
         /\ \A i \in 1..Len(q) : q[i] \in Tasks
         /\ ToSet(q) \subseteq Tasks
         /\ \A x : x \in ToSet(q) <=> \E i \in 1..Len(q) : q[i] = x
         /\ IsInjective(q) <=> \A i, j \in 1..Len(q) : q[i] = q[j] => i = j
BY DEF ToSet, IsInjective

LEMMA AppendOnce ==
  ASSUME NEW q \in Seq(Tasks), IsInjective(q), NEW t \in Tasks, t \notin ToSet(q)
  PROVE  IsInjective(Append(q, t)) /\ ToSet(Append(q, t)) = ToSet(q) \cup {t}
<1> DEFINE a == Append(q, t)
<1>1. /\ a \in Seq(Tasks) /\ Len(a) = Len(q) + 1
      /\ \A i \in 1..Len(q) : a[i] = q[i]
      /\ a[Len(q) + 1] = t
  BY AppendProperties
<1> HIDE DEF a
<1>2. IsInjective(a)
  BY <1>1, Elements
<1>3. ToSet(a) = ToSet(q) \cup {t}
  <2>1. ASSUME NEW x PROVE x \in ToSet(a) <=> x \in ToSet(q) \cup {t}
    BY <1>1, Elements
  <2>2. QED
    BY <2>1
<1>4. QED
  BY <1>2, <1>3 DEF a

LEMMA TailOnce ==
  ASSUME NEW q \in Seq(Tasks), IsInjective(q), q # <<>>
  PROVE  /\ Head(q) \in ToSet(q) /\ Tail(q) \in Seq(Tasks)
         /\ IsInjective(Tail(q)) /\ ToSet(Tail(q)) = ToSet(q) \ {Head(q)}
<1> DEFINE r == Tail(q)
<1>1. /\ r \in Seq(Tasks) /\ Len(r) = Len(q) - 1
      /\ \A i \in 1..Len(r) : r[i] = q[i + 1]
      /\ Head(q) = q[1] /\ Len(q) \in Nat \ {0}
  BY HeadTailProperties, EmptySeq, LenProperties
<1> HIDE DEF r
<1>2. IsInjective(r) /\ Head(q) \in ToSet(q)
  BY <1>1, Elements
<1>3. ASSUME NEW x PROVE x \in ToSet(r) <=> x \in ToSet(q) \ {Head(q)}
  <2>1. CASE x \in ToSet(r)
    <3>1. PICK i \in 1..Len(r) : r[i] = x
      BY <1>1, <2>1, Elements
    <3>2. i + 1 \in 1..Len(q) /\ q[i + 1] = x /\ i + 1 # 1 /\ 1 \in 1..Len(q)
      BY <1>1, <3>1, Elements
    <3>3. QED
      BY <1>1, <3>2, <2>1, Elements
  <2>2. CASE x \in ToSet(q) \ {Head(q)}
    <3>1. PICK i \in 1..Len(q) : q[i] = x
      BY <2>2, Elements
    <3>2. i - 1 \in 1..Len(r) /\ r[i - 1] = x
      BY <1>1, <2>2, <3>1, Elements
    <3>3. QED
      BY <1>1, <2>2, <3>2, Elements
  <2>3. QED
    BY <2>1, <2>2
<1>4. QED
  BY <1>1, <1>2, <1>3 DEF r

LEMMA ScrollOnce ==
  ASSUME NEW q \in Seq(Tasks), IsInjective(q)
  PROVE  /\ IsInjective(ScrollNext(q)) /\ ToSet(ScrollNext(q)) = ToSet(q)
         /\ NextTask(ScrollNext(q)) \in ToSet(q) \cup {Idle}
<1>1. CASE q = <<>>
  BY <1>1 DEF ScrollNext, NextTask
<1>2. CASE q # <<>>
  <2>1. Head(q) \in Tasks /\ Head(q) \in ToSet(q) /\ Head(q) \notin ToSet(Tail(q))
        /\ Tail(q) \in Seq(Tasks) /\ IsInjective(Tail(q))
        /\ ToSet(Tail(q)) = ToSet(q) \ {Head(q)}
    BY <1>2, TailOnce, Elements
  <2>2. /\ ScrollNext(q) = Append(Tail(q), Head(q))
        /\ IsInjective(ScrollNext(q)) /\ ToSet(ScrollNext(q)) = ToSet(q)
    <3>1. ScrollNext(q) = Append(Tail(q), Head(q))
      BY <1>2 DEF ScrollNext
    <3>2. /\ IsInjective(Append(Tail(q), Head(q)))
          /\ ToSet(Append(Tail(q), Head(q))) = ToSet(Tail(q)) \cup {Head(q)}
      BY <2>1, AppendOnce
    <3>3. ToSet(Tail(q)) \cup {Head(q)} = ToSet(q)
      BY <2>1
    <3>4. QED
      BY <3>1, <3>2, <3>3
  <2>3. ScrollNext(q) \in Seq(Tasks) /\ ScrollNext(q) # <<>>
    BY <2>1, <2>2, AppendType
  <2>4. Head(ScrollNext(q)) \in ToSet(q)
    BY <2>2, <2>3, TailOnce
  <2>5. QED
    BY <2>2, <2>3, <2>4 DEF NextTask
<1>3. QED
  BY <1>1, <1>2

LEMMA UnlinkOnce ==
  ASSUME NEW q \in Seq(Tasks), IsInjective(q), NEW t \in Tasks
  PROVE  IsInjective(Unlink(t, q)) /\ ToSet(Unlink(t, q)) = ToSet(q) \ {t}
<1>1. CASE t \notin ToSet(q)
  BY <1>1 DEF Unlink
<1>2. CASE t \in ToSet(q)
  <2> DEFINE p == Position(t, q)
             a == SubSeq(q, 1, p - 1)
             b == SubSeq(q, p + 1, Len(q))
             r == a \o b
  <2>1. p \in 1..Len(q) /\ q[p] = t /\ Len(q) \in Nat
    BY <1>2, Elements DEF Position
  <2>2. Unlink(t, q) = r
    BY <1>2 DEF Unlink, RemoveAt
  <2> HIDE DEF p
  <2>3. /\ a \in Seq(Tasks) /\ Len(a) = p - 1
        /\ \A i \in 1..(p - 1) : a[i] = q[i]
    <3>1. \A j \in 1..(p - 1) : q[j] \in Tasks
      BY <2>1, Elements
    <3>2. QED
      BY <2>1, <3>1, SubSeqProperties
  <2>4. /\ b \in Seq(Tasks) /\ Len(b) = Len(q) - p
        /\ \A i \in 1..(Len(q) - p) : b[i] = q[p + i]
    <3>1. \A j \in (p + 1)..Len(q) : q[j] \in Tasks
      BY <2>1, Elements
    <3>2. QED
      BY <2>1, <3>1, SubSeqProperties
  <2> HIDE DEF a, b
  <2>5. /\ r \in Seq(Tasks) /\ Len(r) = Len(q) - 1
        /\ \A i \in 1..Len(r) : r[i] = q[IF i < p THEN i ELSE i + 1]
    <3>1. /\ r \in Seq(Tasks) /\ Len(r) = Len(a) + Len(b)
          /\ \A i \in 1..(Len(a) + Len(b)) : r[i] = IF i <= Len(a) THEN a[i] ELSE b[i - Len(a)]
      BY <2>3, <2>4, ConcatProperties
    <3>2. ASSUME NEW i \in 1..Len(r) PROVE r[i] = q[IF i < p THEN i ELSE i + 1]
      <4>1. CASE i < p
        BY <2>1, <2>3, <2>4, <3>1, <4>1
      <4>2. CASE i >= p
        <5>1. i - Len(a) \in 1..(Len(q) - p) /\ r[i] = b[i - Len(a)]
          BY <2>1, <2>3, <2>4, <3>1, <4>2
        <5>2. p + (i - Len(a)) = i + 1
          BY <2>1, <2>3
        <5>3. r[i] = q[i + 1]
          BY <2>4, <5>1, <5>2
        <5>4. ~(i < p)
          BY <2>1, <4>2
        <5>5. QED
          BY <5>3, <5>4
      <4>3. QED
        BY <2>1, <4>1, <4>2
    <3>3. QED
      BY <2>1, <2>3, <2>4, <3>1, <3>2
  <2> HIDE DEF r
  <2>6. IsInjective(r)
    BY <2>1, <2>5, Elements
  <2>7. ASSUME NEW x PROVE x \in ToSet(r) <=> x \in ToSet(q) \ {t}
    <3>1. CASE x \in ToSet(r)
      <4>1. PICK i \in 1..Len(r) : r[i] = x
        BY <2>5, <3>1, Elements
      <4>2. PICK j \in 1..Len(q) : j # p /\ q[j] = x
        BY <2>1, <2>5, <4>1
      <4>3. QED
        BY <2>1, <3>1, <4>2, Elements
    <3>2. CASE x \in ToSet(q) \ {t}
      <4>1. PICK j \in 1..Len(q) : q[j] = x
        BY <3>2, Elements
      <4>2. j # p
        BY <2>1, <3>2, <4>1
      <4>3. PICK i \in 1..Len(r) : i = IF j < p THEN j ELSE j - 1
        BY <2>1, <2>5, <4>2
      <4>4. r[i] = x
        BY <2>1, <2>5, <4>1, <4>2, <4>3
      <4>5. QED
        BY <2>5, <3>2, <4>4, Elements
    <3>3. QED
      BY <3>1, <3>2
  <2>8. QED
    BY <2>2, <2>6, <2>7
<1>3. QED
  BY <1>1, <1>2

LEMMA PrependOnce ==
  ASSUME NEW p \in Seq(Tasks), NEW q \in Seq(Tasks), IsInjective(p), IsInjective(q),
         ToSet(p) \cap ToSet(q) = {}
  PROVE  /\ IsInjective(Reverse(p) \o q)
         /\ ToSet(Reverse(p) \o q) = ToSet(p) \cup ToSet(q)
<1> DEFINE b == Reverse(p)
           r == b \o q
<1>1. /\ b \in Seq(Tasks) /\ Len(b) = Len(p) /\ Len(p) \in Nat /\ Len(q) \in Nat
      /\ \A i \in 1..Len(p) : b[i] = p[(Len(p) - i) + 1]
  BY ReverseType, Elements DEF Reverse
<1> HIDE DEF b
<1>2. /\ r \in Seq(Tasks) /\ Len(r) = Len(p) + Len(q)
      /\ \A i \in 1..Len(p) : r[i] = p[(Len(p) - i) + 1]
      /\ \A i \in (Len(p) + 1)..(Len(p) + Len(q)) : r[i] = q[i - Len(p)]
  <2>1. /\ r \in Seq(Tasks) /\ Len(r) = Len(b) + Len(q)
        /\ \A i \in 1..(Len(b) + Len(q)) : r[i] = IF i <= Len(b) THEN b[i] ELSE q[i - Len(b)]
    BY <1>1, ConcatProperties
  <2>2. QED
    BY <1>1, <2>1
<1> HIDE DEF r
<1>3. \A i \in 1..Len(p), j \in 1..Len(q) : p[i] # q[j]
  BY Elements
<1>4. ASSUME NEW i \in 1..Len(r), NEW j \in 1..Len(r), r[i] = r[j] PROVE i = j
  <2> DEFINE n == Len(p)
  <2>1. CASE i <= n /\ j <= n
    <3>1. /\ (n - i) + 1 \in 1..n /\ (n - j) + 1 \in 1..n
          /\ p[(n - i) + 1] = p[(n - j) + 1]
      BY <1>1, <1>2, <1>4, <2>1
    <3>2. (n - i) + 1 = (n - j) + 1
      BY <3>1, Elements
    <3>3. QED
      BY <1>1, <1>2, <3>2
  <2>2. CASE i > n /\ j > n
    <3>1. /\ i - n \in 1..Len(q) /\ j - n \in 1..Len(q) /\ q[i - n] = q[j - n]
      BY <1>1, <1>2, <1>4, <2>2
    <3>2. i - n = j - n
      BY <3>1, Elements
    <3>3. QED
      BY <1>1, <1>2, <3>2
  <2>3. CASE i <= n /\ j > n
    <3>1. /\ i \in 1..n /\ j \in (n + 1)..(n + Len(q))
          /\ (n - i) + 1 \in 1..n /\ j - n \in 1..Len(q)
      BY <1>1, <1>2, <2>3
    <3>2. r[i] = p[(n - i) + 1]
      BY <1>2, <3>1
    <3>3. r[j] = q[j - n]
      BY <1>2, <3>1
    <3>4. QED
      BY <1>3, <1>4, <3>1, <3>2, <3>3
  <2>4. CASE i > n /\ j <= n
    <3>1. /\ j \in 1..n /\ i \in (n + 1)..(n + Len(q))
          /\ (n - j) + 1 \in 1..n /\ i - n \in 1..Len(q)
      BY <1>1, <1>2, <2>4
    <3>2. r[j] = p[(n - j) + 1]
      BY <1>2, <3>1
    <3>3. r[i] = q[i - n]
      BY <1>2, <3>1
    <3>4. QED
      BY <1>3, <1>4, <3>1, <3>2, <3>3
  <2>5. QED
    BY <1>1, <1>2, <2>1, <2>2, <2>3, <2>4
<1>5. ASSUME NEW x PROVE x \in ToSet(r) <=> x \in ToSet(p) \cup ToSet(q)
  <2>1. CASE x \in ToSet(r)
    <3>1. PICK i \in 1..Len(r) : r[i] = x
      BY <1>2, <2>1, Elements
    <3>2. CASE i <= Len(p)
      <4>1. (Len(p) - i) + 1 \in 1..Len(p) /\ p[(Len(p) - i) + 1] = x
        BY <1>1, <1>2, <3>1, <3>2
      <4>2. QED
        BY <2>1, <4>1, Elements
    <3>3. CASE i > Len(p)
      <4>1. i - Len(p) \in 1..Len(q) /\ q[i - Len(p)] = x
        BY <1>1, <1>2, <3>1, <3>3
      <4>2. QED
        BY <2>1, <4>1, Elements
    <3>4. QED
      BY <1>1, <1>2, <3>2, <3>3
  <2>2. CASE x \in ToSet(p)
    <3>1. PICK i \in 1..Len(p) : p[i] = x
      BY <2>2, Elements
    <3>2. PICK j \in 1..Len(p) : j = (Len(p) - i) + 1
      BY <1>1
    <3>3. (Len(p) - j) + 1 = i /\ j \in 1..Len(r)
      BY <1>1, <1>2, <3>2
    <3>4. r[j] = x
      BY <1>2, <3>1, <3>3
    <3>5. QED
      BY <1>2, <2>2, <3>3, <3>4, Elements
  <2>3. CASE x \in ToSet(q)
    <3>1. PICK i \in 1..Len(q) : q[i] = x
      BY <2>3, Elements
    <3>2. PICK j : j = Len(p) + i
      OBVIOUS
    <3>. j \in (Len(p) + 1)..(Len(p) + Len(q))
      BY <1>1, <3>2
    <3>3. j - Len(p) = i /\ j \in 1..Len(r)
      BY <1>1, <1>2, <3>2
    <3>4. r[j] = x
      BY <1>2, <3>1, <3>3
    <3>5. QED
      BY <1>2, <2>3, <3>3, <3>4, Elements
  <2>4. QED
    BY <2>1, <2>2, <2>3
<1>6. IsInjective(r)
  BY <1>2, <1>4, Elements
<1>7. QED
  BY <1>5, <1>6 DEF r, b

-----------------------------------------------------------------------------
(* The inductive invariant.                                                 *)

(* Each task is linked in at most one wait queue, once, and is not runnable.*)
WaitersApart ==
  /\ \A q \in Queues : IsInjective(wq[q])
  /\ \A p, q \in Queues : p # q => Waiters(p) \cap Waiters(q) = {}
  /\ \A q \in Queues : \A t \in Waiters(q) : ts_state[t] # RUNNING

IdleWaits == ts_state[Idle] = SOFT_WAIT

QueueInv == RunqueueExact /\ WaitersApart /\ IdleWaits

(* An exited task still on the CPU is in a section, or has left it with its *)
(* request for scheduling not served: it never gets to its own code again.  *)
ExitedLeaves ==
  ts_state[current] = EXITED =>
    /\ at[current] # "run"
    /\ at[current] \in {"leave", "check"} => sched_pending

QueuesInv == TypeInv /\ QueueInv /\ ExitedLeaves

(* The task on the CPU that runs its own code has not exited.               *)
LEMMA CallerNotExited ==
  ASSUME NEW t \in Tasks, QueuesInv, OnCpu(t)
  PROVE  ts_state[t] # EXITED
BY DEF QueuesInv, ExitedLeaves, OnCpu

(* A section in which no one sleeps, wakes or exits.                        *)
LEMMA QuietKeepsQueues ==
  ASSUME NEW t \in Tasks, QueuesInv, OnCpu(t), QuietSection(t), wq' = wq
  PROVE  QueueInv' /\ ExitedLeaves'
BY CallerNotExited
DEF QueuesInv, QueueInv, RunqueueExact, WaitersApart, Waiters, IdleWaits, ExitedLeaves,
    OnCpu, QuietSection, Atomic

(* A failed check of the kernel stops everything where it is.               *)
LEMMA BugcheckKeepsQueues ==
  ASSUME QueuesInv, NEW why, Bugcheck(why), wq' = wq
  PROVE  QueueInv' /\ ExitedLeaves'
BY DEF QueuesInv, QueueInv, RunqueueExact, WaitersApart, Waiters, IdleWaits, ExitedLeaves,
       Bugcheck

(* wake_up of the caller: it leaves the run queue with its state.           *)
LEMMA LeaveRunqueue ==
  ASSUME NEW t \in Tasks, NEW s \in States \ {RUNNING}, QueuesInv,
         runqueue' = IF ts_state[t] = RUNNING THEN Unlink(t, runqueue) ELSE runqueue,
         ts_state' = [ts_state EXCEPT ![t] = s]
  PROVE  RunqueueExact' /\ IdleWaits'
<1>1. runqueue \in Seq(Tasks) /\ ts_state \in [Threads -> States] /\ t \in Threads /\ t # Idle
  BY SchedAssumption DEF QueuesInv, TypeInv, TypeOK, SchedTypeOK, Threads
<1>2. IsInjective(runqueue) /\ \A u \in Tasks : ts_state[u] = RUNNING <=> u \in ToSet(runqueue)
  BY DEF QueuesInv, QueueInv, RunqueueExact
<1>3. IsInjective(runqueue') /\ ToSet(runqueue') = ToSet(runqueue) \ {t}
  <2>1. CASE ts_state[t] = RUNNING
    BY <1>1, <1>2, <2>1, UnlinkOnce
  <2>2. CASE ts_state[t] # RUNNING
    BY <1>2, <2>2
  <2>3. QED
    BY <2>1, <2>2
<1>4. /\ ts_state'[t] # RUNNING
      /\ \A u \in Threads \ {t} : ts_state'[u] = ts_state[u]
  BY <1>1
<1>5. RunqueueExact'
  <2>1. ASSUME NEW u \in Tasks PROVE ts_state'[u] = RUNNING <=> u \in ToSet(runqueue')
    BY <1>2, <1>3, <1>4 DEF Threads
  <2>2. QED
    BY <1>3, <2>1 DEF RunqueueExact
<1>6. IdleWaits'
  BY <1>1, <1>4 DEF QueuesInv, QueueInv, IdleWaits, Threads
<1>7. QED
  BY <1>5, <1>6

(* __sleep: the caller is linked in no wait queue, as it runs, and enters   *)
(* one when it leaves the run queue.                                        *)
LEMMA SleepKeepsQueues ==
  ASSUME NEW t \in Tasks, NEW q \in Queues, QueuesInv, OnCpu(t), Sleep(t, q)
  PROVE  QueueInv' /\ ExitedLeaves'
<1>1. CASE UNCHANGED waitVars /\ \E why : Bugcheck(why)
  BY <1>1, BugcheckKeepsQueues DEF waitVars
<1>2. CASE /\ ts_state[t] # SOFT_WAIT
           /\ SuspendSelf(t)
           /\ wq' = [wq EXCEPT ![q] = Append(@, t)]
  <2>1. /\ wq \in [Queues -> Seq(Tasks)] /\ ts_state \in [Threads -> States]
        /\ t \in Threads /\ at \in [Threads -> Places] /\ current = t
    BY DEF QueuesInv, TypeInv, TypeOK, SchedTypeOK, WaitTypeOK, Threads, OnCpu
  <2>2. ts_state[t] = RUNNING
    BY <1>2, <2>1, CallerNotExited DEF States
  <2>3. \A p \in Queues : t \notin Waiters(p)
    BY <2>2 DEF QueuesInv, QueueInv, WaitersApart
  <2>4. IsInjective(Append(wq[q], t)) /\ ToSet(Append(wq[q], t)) = Waiters(q) \cup {t}
    BY <2>1, <2>3, AppendOnce DEF QueuesInv, QueueInv, WaitersApart, Waiters
  <2>5. /\ \A p \in Queues \ {q} : wq'[p] = wq[p]
        /\ wq'[q] = Append(wq[q], t)
    BY <1>2, <2>1
  <2>6. ts_state' = [ts_state EXCEPT ![t] = SOFT_WAIT]
    BY <1>2 DEF SuspendSelf
  <2>7. WaitersApart'
    <3>1. \A p \in Queues : IsInjective(wq'[p])
      BY <2>4, <2>5 DEF QueuesInv, QueueInv, WaitersApart
    <3>2. \A p \in Queues : Waiters(p)' = IF p = q THEN Waiters(q) \cup {t} ELSE Waiters(p)
      BY <2>4, <2>5 DEF Waiters
    <3>3. \A p, r \in Queues : p # r => Waiters(p)' \cap Waiters(r)' = {}
      BY <2>3, <3>2 DEF QueuesInv, QueueInv, WaitersApart
    <3>4. ASSUME NEW p \in Queues, NEW u \in Waiters(p)' PROVE ts_state'[u] # RUNNING
      <4>1. CASE u = t
        BY <2>1, <2>6, <4>1 DEF RUNNING, SOFT_WAIT
      <4>2. CASE u # t
        BY <2>6, <3>2, <3>4, <4>2 DEF QueuesInv, QueueInv, WaitersApart
      <4>3. QED
        BY <4>1, <4>2
    <3>5. QED
      BY <3>1, <3>3, <3>4 DEF WaitersApart, Waiters
  <2>8. RunqueueExact' /\ IdleWaits'
    BY <1>2, LeaveRunqueue DEF SuspendSelf, States, RUNNING, SOFT_WAIT
  <2>9. ExitedLeaves'
    BY <1>2, <2>1, <2>6 DEF ExitedLeaves, SuspendSelf, Atomic, SOFT_WAIT, EXITED
  <2>10. QED
    BY <2>7, <2>8, <2>9 DEF QueueInv
<1>3. QED
  BY <1>1, <1>2 DEF Sleep, PutTask

(* Some waiters of q, the first if there are any, are made runnable, and    *)
(* those left keep waiting.                                                 *)
Awakens(t, q, ws, left) ==
  /\ ws \in Seq(Tasks) /\ IsInjective(ws)
  /\ left \in Seq(Tasks) /\ IsInjective(left)
  /\ ToSet(ws) \subseteq Waiters(q) /\ ToSet(left) = Waiters(q) \ ToSet(ws)
  /\ wq[q] # <<>> => Head(wq[q]) \in ToSet(ws)
  /\ Awaken(t, ws)
  /\ wq' = [wq EXCEPT ![q] = left]

(* They enter the run queue, where none of them is yet.                     *)
LEMMA AwakensKeepsQueues ==
  ASSUME NEW t \in Tasks, NEW q \in Queues, QueuesInv, OnCpu(t), NEW ws, NEW left,
         Awakens(t, q, ws, left)
  PROVE  QueueInv' /\ ExitedLeaves'
<1> USE DEF Awakens
<1>1. /\ wq \in [Queues -> Seq(Tasks)] /\ ts_state \in [Threads -> States]
      /\ runqueue \in Seq(Tasks) /\ t \in Threads /\ at \in [Threads -> Places]
      /\ current = t
  BY DEF QueuesInv, TypeInv, TypeOK, SchedTypeOK, WaitTypeOK, Threads, OnCpu
<1>2. /\ ts_state' = [x \in Threads |-> IF x \in ToSet(ws) THEN RUNNING ELSE ts_state[x]]
      /\ runqueue' = Reverse(ws) \o runqueue
  BY DEF Awaken
<1>3. \A x \in ToSet(ws) : x \in Tasks /\ ts_state[x] # RUNNING
  BY Elements DEF QueuesInv, QueueInv, WaitersApart
<1>4. RunqueueExact'
  <2>1. IsInjective(runqueue) /\ ToSet(ws) \cap ToSet(runqueue) = {}
    BY <1>3 DEF QueuesInv, QueueInv, RunqueueExact
  <2>2. IsInjective(runqueue') /\ ToSet(runqueue') = ToSet(ws) \cup ToSet(runqueue)
    BY <1>1, <1>2, <2>1, PrependOnce
  <2>3. ASSUME NEW u \in Tasks PROVE ts_state'[u] = RUNNING <=> u \in ToSet(runqueue')
    BY <1>2, <2>2 DEF QueuesInv, QueueInv, RunqueueExact, Threads
  <2>4. QED
    BY <2>2, <2>3 DEF RunqueueExact
<1>5. WaitersApart'
  <2>1. \A p \in Queues : wq'[p] = IF p = q THEN left ELSE wq[p]
    BY <1>1
  <2>2. \A p \in Queues : Waiters(p)' = IF p = q THEN Waiters(q) \ ToSet(ws) ELSE Waiters(p)
    <3>1. Waiters(q)' = Waiters(q) \ ToSet(ws)
      BY <2>1 DEF Waiters
    <3>2. \A p \in Queues \ {q} : Waiters(p)' = Waiters(p)
      BY <2>1 DEF Waiters
    <3>3. QED
      BY <3>1, <3>2
  <2>3. \A p \in Queues : IsInjective(wq'[p])
    BY <2>1 DEF QueuesInv, QueueInv, WaitersApart
  <2>4. \A p, r \in Queues : p # r => Waiters(p)' \cap Waiters(r)' = {}
    BY <2>2 DEF QueuesInv, QueueInv, WaitersApart
  <2>5. ASSUME NEW p \in Queues, NEW u \in Waiters(p)' PROVE ts_state'[u] # RUNNING
    <3>1. u \in Waiters(p) /\ u \notin ToSet(ws)
      BY <2>2, <2>5 DEF QueuesInv, QueueInv, WaitersApart
    <3>2. u \in Threads
      BY <1>1, <3>1, Elements DEF Waiters, Threads
    <3>3. QED
      BY <1>2, <3>1, <3>2 DEF QueuesInv, QueueInv, WaitersApart
  <2>6. QED
    BY <2>3, <2>4, <2>5 DEF WaitersApart, Waiters
<1>6. IdleWaits'
  <2>1. Idle \in Threads /\ Idle \notin ToSet(ws)
    BY <1>3, SchedAssumption DEF Threads
  <2>2. QED
    BY <1>2, <2>1 DEF QueuesInv, QueueInv, IdleWaits
<1>7. ExitedLeaves'
  <2>1. ts_state'[t] # EXITED
    BY <1>1, <1>2, CallerNotExited DEF RUNNING, EXITED
  <2>2. QED
    BY <1>1, <2>1 DEF ExitedLeaves, Awaken, Atomic
<1>8. QED
  BY <1>4, <1>5, <1>6, <1>7 DEF QueueInv

(* signal: the first waiter, if any.                                        *)
LEMMA SignalOneAwakens ==
  ASSUME NEW t \in Tasks, NEW q \in Queues, QueuesInv, SignalOne(t, q)
  PROVE  \E ws, left : Awakens(t, q, ws, left)
<1>1. wq[q] \in Seq(Tasks) /\ IsInjective(wq[q])
  BY DEF QueuesInv, QueueInv, WaitersApart, TypeInv, TypeOK, WaitTypeOK
<1>2. CASE wq[q] = <<>>
  <2>1. <<>> \in Seq(Tasks) /\ IsInjective(<<>>) /\ ToSet(<<>>) = {}
    BY DEF IsInjective, ToSet
  <2>2. Awakens(t, q, <<>>, <<>>)
    BY <1>2, <2>1 DEF SignalOne, Awakens, Waiters
  <2>3. QED
    BY <2>2
<1>3. CASE wq[q] # <<>>
  <2> DEFINE x == Head(wq[q])
             r == Tail(wq[q])
  <2>1. /\ x \in Waiters(q) /\ r \in Seq(Tasks) /\ IsInjective(r)
        /\ ToSet(r) = Waiters(q) \ {x}
    BY <1>1, <1>3, TailOnce DEF Waiters
  <2>2. x \in Tasks
    BY <1>1, <2>1, Elements DEF Waiters
  <2>3. Awaken(t, <<x>>) /\ wq' = [wq EXCEPT ![q] = r]
    BY <1>3, <2>1 DEF SignalOne, QueuesInv, QueueInv, WaitersApart
  <2>4. wq[q] # <<>> => Head(wq[q]) = x
    OBVIOUS
  <2> HIDE DEF x, r
  <2>5. <<x>> \in Seq(Tasks) /\ IsInjective(<<x>>) /\ ToSet(<<x>>) = {x}
    BY <2>2 DEF IsInjective, ToSet
  <2>6. Awakens(t, q, <<x>>, r)
    BY <2>1, <2>3, <2>4, <2>5 DEF Awakens
  <2>7. QED
    BY <2>6
<1>4. QED
  BY <1>2, <1>3

(* __signal_all: every waiter.                                              *)
LEMMA SignalAllAwakens ==
  ASSUME NEW t \in Tasks, NEW q \in Queues, QueuesInv, SignalAll(t, q)
  PROVE  Awakens(t, q, wq[q], <<>>)
<1>1. wq[q] \in Seq(Tasks) /\ IsInjective(wq[q])
  BY DEF QueuesInv, QueueInv, WaitersApart, TypeInv, TypeOK, WaitTypeOK
<1>2. <<>> \in Seq(Tasks) /\ IsInjective(<<>>) /\ ToSet(<<>>) = {}
  BY DEF IsInjective, ToSet
<1>3. wq[q] # <<>> => Head(wq[q]) \in Waiters(q)
  BY <1>1, TailOnce DEF Waiters
<1>4. QED
  BY <1>1, <1>2, <1>3 DEF SignalAll, Awakens, Waiters

(* An exit: the task leaves the run queue for good, with a request pending. *)
LEMMA ExitKeepsQueues ==
  ASSUME NEW t \in Tasks, QueuesInv, OnCpu(t), ExitSelf(t), wq' = wq
  PROVE  QueueInv' /\ ExitedLeaves'
<1>1. ts_state \in [Threads -> States] /\ at \in [Threads -> Places] /\ t \in Threads
      /\ current = t
  BY DEF QueuesInv, TypeInv, TypeOK, SchedTypeOK, Threads, OnCpu
<1>2. ts_state' = [ts_state EXCEPT ![t] = EXITED]
  BY DEF ExitSelf
<1>3. RunqueueExact' /\ IdleWaits'
  BY <1>2, LeaveRunqueue DEF ExitSelf, States, RUNNING, EXITED
<1>4. WaitersApart'
  BY <1>1, <1>2 DEF QueuesInv, QueueInv, WaitersApart, Waiters, RUNNING, EXITED
<1>5. ExitedLeaves'
  BY <1>1 DEF ExitedLeaves, ExitSelf, Atomic
<1>6. QED
  BY <1>3, <1>4, <1>5 DEF QueueInv

(* The scheduler takes what it resumes from the run queue.                  *)
LEMMA ScrollKeepsQueues ==
  ASSUME QueuesInv, runqueue' = ScrollNext(runqueue), ts_state' = ts_state, wq' = wq
  PROVE  QueueInv' /\ ts_state[NextTask(ScrollNext(runqueue))] # EXITED
<1>1. runqueue \in Seq(Tasks) /\ IsInjective(runqueue)
  BY DEF QueuesInv, QueueInv, RunqueueExact, TypeInv, TypeOK, SchedTypeOK
<1>2. /\ IsInjective(runqueue') /\ ToSet(runqueue') = ToSet(runqueue)
      /\ NextTask(ScrollNext(runqueue)) \in ToSet(runqueue) \cup {Idle}
  BY <1>1, ScrollOnce
<1>3. QueueInv'
  BY <1>2 DEF QueuesInv, QueueInv, RunqueueExact, WaitersApart, Waiters, IdleWaits
<1>4. \A u \in ToSet(runqueue) : ts_state[u] = RUNNING
  BY <1>1, Elements DEF QueuesInv, QueueInv, RunqueueExact
<1>5. QED
  BY <1>2, <1>3, <1>4 DEF QueuesInv, QueueInv, IdleWaits, RUNNING, SOFT_WAIT, EXITED

LEMMA KernelStepKeepsQueues ==
  ASSUME NEW t \in Tasks, QueuesInv, KernelStep(t), wq' = wq
  PROVE  QueueInv' /\ ExitedLeaves'
<1>1. at \in [Threads -> Places] /\ t \in Threads
  BY DEF QueuesInv, TypeInv, TypeOK, SchedTypeOK, Threads
<1>2. ASSUME UNCHANGED <<runqueue, ts_state>> PROVE QueueInv'
  BY <1>2 DEF QueuesInv, QueueInv, RunqueueExact, WaitersApart, Waiters, IdleWaits
<1>3. CASE Leave(t)
  BY <1>1, <1>2, <1>3 DEF Leave, Moving, QueuesInv, ExitedLeaves
<1>4. CASE Check(t)
  BY <1>1, <1>2, <1>4 DEF Check, Moving, QueuesInv, ExitedLeaves
<1>5. CASE Choose(t)
  BY <1>1, <1>5, ScrollKeepsQueues DEF Choose, Moving, ExitedLeaves
<1>6. CASE ChooseLeave(t)
  BY <1>1, <1>2, <1>6 DEF ChooseLeave, Moving, ExitedLeaves
<1>7. CASE ChooseCheck(t)
  BY <1>1, <1>2, <1>7 DEF ChooseCheck, Moving, ExitedLeaves
<1>8. CASE SwitchTo(t)
  <2>1. CASE ts_state[Last(chosen[t])] = EXITED
    BY <1>8, <2>1, BugcheckKeepsQueues DEF SwitchTo
  <2>2. CASE ts_state[Last(chosen[t])] # EXITED
    BY <1>2, <1>8, <2>2 DEF SwitchTo, ExitedLeaves
  <2>3. QED
    BY <2>1, <2>2
<1>9. QED
  BY <1>3, <1>4, <1>5, <1>6, <1>7, <1>8 DEF KernelStep

LEMMA TickKeepsQueues ==
  ASSUME QueuesInv, Tick, wq' = wq
  PROVE  QueueInv' /\ ExitedLeaves'
<1>1. CASE enabled
  BY <1>1, ScrollKeepsQueues DEF Tick, ExitedLeaves
<1>2. CASE ~enabled
  BY <1>2
  DEF Tick, QueuesInv, QueueInv, RunqueueExact, WaitersApart, Waiters, IdleWaits, ExitedLeaves
<1>3. QED
  BY <1>1, <1>2

LEMMA MutexOpKeepsQueues ==
  ASSUME NEW t \in Tasks, QueuesInv, MutexOp(t)
  PROVE  QueueInv' /\ ExitedLeaves'
<1>1. PICK m \in Mutexes :
        DownTake(t, m) \/ DownSleep(t, m) \/ TryDown(t, m) \/ Up(t, m)
  BY DEF MutexOp
<1>2. m \in Queues
  BY DEF Queues
<1>3. CASE DownTake(t, m)
  BY <1>3, QuietKeepsQueues DEF DownTake, Acquire
<1>4. CASE DownSleep(t, m)
  BY <1>2, <1>4, SleepKeepsQueues DEF DownSleep
<1>5. CASE TryDown(t, m)
  BY <1>5, QuietKeepsQueues DEF TryDown, Free, Acquire, waitVars
<1>6. CASE Up(t, m)
  <2>1. CASE locked[m] /\ owner[m] = t
    BY <1>2, <1>6, <2>1, SignalOneAwakens, AwakensKeepsQueues DEF Up, Free
  <2>2. CASE ~(locked[m] /\ owner[m] = t)
    BY <1>6, <2>2, BugcheckKeepsQueues DEF Up, waitVars
  <2>3. QED
    BY <2>1, <2>2
<1>7. QED
  BY <1>1, <1>3, <1>4, <1>5, <1>6

LEMMA EventOpKeepsQueues ==
  ASSUME NEW t \in Tasks, QueuesInv, EventOp(t)
  PROVE  QueueInv' /\ ExitedLeaves'
<1>1. PICK e \in Events :
        \/ EventWait(t, e)
        \/ EventSignal(t, e)
        \/ EventClear(t, e)
        \/ \E flag \in BOOLEAN : EventSetAutoReset(t, e, flag)
  BY DEF EventOp
<1>2. e \in Queues /\ OnCpu(t)
  BY DEF Queues, EventOp, Free
<1>3. CASE EventWait(t, e)
  BY <1>2, <1>3, SleepKeepsQueues, QuietKeepsQueues DEF EventWait, waitVars
<1>4. CASE EventSignal(t, e)
  BY <1>2, <1>4, SignalAllAwakens, AwakensKeepsQueues, QuietKeepsQueues
  DEF EventSignal, waitVars
<1>5. CASE EventClear(t, e)
  BY <1>2, <1>5, QuietKeepsQueues DEF EventClear, waitVars
<1>6. CASE \E flag \in BOOLEAN : EventSetAutoReset(t, e, flag)
  BY <1>2, <1>6, QuietKeepsQueues DEF EventSetAutoReset, waitVars
<1>7. QED
  BY <1>1, <1>3, <1>4, <1>5, <1>6

-----------------------------------------------------------------------------
(* At the start every task is in the run queue once: it has as many places  *)
(* as there are tasks.                                                      *)
LEMMA QueuesInvInitially == Init => QueuesInv
<1> SUFFICES ASSUME Init PROVE QueuesInv
  OBVIOUS
<1> DEFINE n == Cardinality(Tasks)
<1>1. n \in Nat /\ IsFiniteSet(Tasks)
  BY SchedAssumption, FS_CardinalityType
<1>2. /\ ts_state = [t \in Threads |-> IF t = Idle THEN SOFT_WAIT ELSE RUNNING]
      /\ wq = [q \in Queues |-> <<>>]
      /\ at = [t \in Threads |-> "run"]
  BY DEF Init, SchedInit, WaitInit
<1>3. runqueue \in [1..n -> Tasks] /\ \A t \in Tasks : \E i \in 1..n : runqueue[i] = t
  BY DEF Init, SchedInit
<1> HIDE DEF n
<1>4. DOMAIN runqueue = 1..n /\ ToSet(runqueue) = Tasks
  BY <1>3 DEF ToSet
<1>5. IsInjective(runqueue)
  <2>1. runqueue \in Surjection(1..n, Tasks)
    BY <1>3 DEF Surjection
  <2>2. IsFiniteSet(1..n) /\ Cardinality(1..n) = n
    BY <1>1, FS_Interval
  <2>3. runqueue \in Injection(1..n, Tasks)
    BY <1>1, <2>1, <2>2, FS_SurjSameCardinalityImpliesInj DEF n
  <2>4. QED
    BY <1>4, <2>3 DEF Injection, IsInjective
<1>6. Idle \in Threads /\ Idle \notin Tasks
  BY SchedAssumption DEF Threads
<1>7. RunqueueExact /\ IdleWaits
  BY <1>2, <1>4, <1>5, <1>6 DEF RunqueueExact, IdleWaits, Threads
<1>8. WaitersApart
  BY <1>2 DEF WaitersApart, Waiters, IsInjective, ToSet
<1>9. ExitedLeaves
  <2>1. current \in Threads
    BY TypeInvInitially DEF TypeInv, TypeOK, SchedTypeOK
  <2>2. QED
    BY <1>2, <2>1 DEF ExitedLeaves, RUNNING, SOFT_WAIT, EXITED
<1>10. QED
  BY <1>7, <1>8, <1>9, TypeInvInitially DEF QueuesInv, QueueInv

LEMMA QueuesInvKept == QueuesInv /\ [Next]_vars => QueuesInv'
<1> SUFFICES ASSUME QueuesInv, [Next]_vars PROVE QueueInv' /\ ExitedLeaves'
  BY TypeInvKept DEF QueuesInv
<1>1. ASSUME NEW t \in Tasks, MutexOp(t) PROVE QueueInv' /\ ExitedLeaves'
  BY <1>1, MutexOpKeepsQueues
<1>2. ASSUME NEW t \in Tasks, EventOp(t) PROVE QueueInv' /\ ExitedLeaves'
  BY <1>2, EventOpKeepsQueues
<1>3. ASSUME NEW t \in Tasks, Exit(t) PROVE QueueInv' /\ ExitedLeaves'
  BY <1>3, ExitKeepsQueues, BugcheckKeepsQueues DEF Exit, Free, waitVars
<1>4. ASSUME NEW t \in Tasks, Kernel(t) PROVE QueueInv' /\ ExitedLeaves'
  BY <1>4, KernelStepKeepsQueues DEF Kernel, waitVars
<1>5. CASE Timer
  BY <1>5, TickKeepsQueues DEF Timer, waitVars
<1>6. CASE UNCHANGED vars
  BY <1>6 DEF vars, schedVars, waitVars, QueuesInv, QueueInv, RunqueueExact, WaitersApart,
     Waiters, IdleWaits, ExitedLeaves
<1>7. QED
  BY <1>1, <1>2, <1>3, <1>4, <1>5, <1>6 DEF Next, TaskStep

(* The run queue threads exactly the runnable tasks, each once, however     *)
(* sections, timer ticks, wakeups and exits interleave.                     *)
THEOREM RunqueueAlwaysExact == Spec => []RunqueueExact
<1>1. QueuesInv => RunqueueExact
  BY DEF QueuesInv, QueueInv
<1>2. QED
  BY <1>1, QueuesInvInitially, QueuesInvKept, PTL DEF Spec

-----------------------------------------------------------------------------
(* Events: a task that finds the event signaled does not wait, and one that *)
(* signals it for good wakes everyone.                                      *)

(* Going to sleep on a queue adds no waiter to any other.                   *)
LEMMA SleepAddsThere ==
  ASSUME NEW t \in Tasks, NEW q \in Queues, TypeOK, Sleep(t, q)
  PROVE  \A p \in Queues \ {q} : wq'[p] = wq[p]
BY DEF Sleep, PutTask, waitVars, TypeOK, WaitTypeOK

LEMMA EventOpKeepsEvents ==
  ASSUME NEW t \in Tasks, TypeOK, SignaledHasNoWaiters, EventOp(t)
  PROVE  SignaledHasNoWaiters'
<1>1. PICK e \in Events :
        \/ EventWait(t, e)
        \/ EventSignal(t, e)
        \/ EventClear(t, e)
        \/ \E flag \in BOOLEAN : EventSetAutoReset(t, e, flag)
  BY DEF EventOp
<1>2. /\ \A d \in Events : d \in Queues
      /\ wq \in [Queues -> Seq(Tasks)] /\ signaled \in [Events -> BOOLEAN]
  BY DEF Queues, TypeOK, WaitTypeOK, EventTypeOK
<1>3. CASE EventWait(t, e)
  <2>1. CASE signaled[e]
    BY <1>3, <2>1 DEF EventWait, waitVars, eventVars, SignaledHasNoWaiters
  <2>2. CASE ~signaled[e]
    <3>1. signaled' = signaled /\ \A d \in Events \ {e} : wq'[d] = wq[d]
      BY <1>2, <1>3, <2>2, SleepAddsThere DEF EventWait, eventVars
    <3>2. QED
      BY <2>2, <3>1 DEF SignaledHasNoWaiters
  <2>3. QED
    BY <2>1, <2>2
<1>4. CASE EventSignal(t, e)
  <2>1. CASE ~auto_reset[e] /\ signaled[e]
    BY <1>2, <1>4, <2>1 DEF EventSignal, waitVars, SignaledHasNoWaiters
  <2>2. CASE ~(~auto_reset[e] /\ signaled[e])
    BY <1>2, <1>4, <2>2 DEF EventSignal, SignalAll, SignaledHasNoWaiters
  <2>3. QED
    BY <2>1, <2>2
<1>5. CASE EventClear(t, e)
  BY <1>2, <1>5 DEF EventClear, waitVars, SignaledHasNoWaiters
<1>6. CASE \E flag \in BOOLEAN : EventSetAutoReset(t, e, flag)
  BY <1>6 DEF EventSetAutoReset, waitVars, SignaledHasNoWaiters
<1>7. QED
  BY <1>1, <1>3, <1>4, <1>5, <1>6

(* A mutex is not an event: its waiters and wakeups are other queues'.      *)
LEMMA MutexOpKeepsEvents ==
  ASSUME NEW t \in Tasks, TypeOK, SignaledHasNoWaiters, MutexOp(t)
  PROVE  SignaledHasNoWaiters'
<1>1. PICK m \in Mutexes :
        DownTake(t, m) \/ DownSleep(t, m) \/ TryDown(t, m) \/ Up(t, m)
  BY DEF MutexOp
<1>2. /\ m \in Queues /\ \A e \in Events : e \in Queues \ {m}
      /\ wq \in [Queues -> Seq(Tasks)]
  BY WaitQueueAssumption DEF Queues, TypeOK, WaitTypeOK
<1>3. signaled' = signaled
  BY DEF MutexOp, eventVars
<1>4. CASE DownTake(t, m)
  BY <1>3, <1>4 DEF DownTake, Acquire, SignaledHasNoWaiters
<1>5. CASE DownSleep(t, m)
  BY <1>2, <1>3, <1>5, SleepAddsThere DEF DownSleep, SignaledHasNoWaiters
<1>6. CASE TryDown(t, m)
  BY <1>3, <1>6 DEF TryDown, Acquire, waitVars, SignaledHasNoWaiters
<1>7. CASE Up(t, m)
  <2>1. \A e \in Events : wq'[e] = wq[e]
    BY <1>2, <1>7 DEF Up, SignalOne, waitVars
  <2>2. QED
    BY <1>3, <2>1 DEF SignaledHasNoWaiters
<1>8. QED
  BY <1>1, <1>4, <1>5, <1>6, <1>7

(* No task is left waiting on a manual event that is signaled.              *)
THEOREM SignaledNeverWaitedFor == Spec => []SignaledHasNoWaiters
<1>1. Init => SignaledHasNoWaiters
  BY DEF Init, EventInit, SignaledHasNoWaiters
<1>2. TypeOK /\ SignaledHasNoWaiters /\ [Next]_vars => SignaledHasNoWaiters'
  <2> SUFFICES ASSUME TypeOK, SignaledHasNoWaiters, [Next]_vars
               PROVE  SignaledHasNoWaiters'
    OBVIOUS
  <2>1. ASSUME NEW t \in Tasks, TaskStep(t) PROVE SignaledHasNoWaiters'
    BY <2>1, MutexOpKeepsEvents, EventOpKeepsEvents
    DEF TaskStep, Exit, waitVars, eventVars, SignaledHasNoWaiters
  <2>2. CASE (\E t \in Tasks : Kernel(t)) \/ Timer \/ UNCHANGED vars
    BY <2>2 DEF Kernel, Timer, vars, waitVars, eventVars, SignaledHasNoWaiters
  <2>3. QED
    BY <2>1, <2>2 DEF Next
<1>3. QED
  BY <1>1, <1>2, TypeCorrect, PTL DEF Spec

-----------------------------------------------------------------------------
(***************************************************************************)
(* What holds for any number of tasks, mutexes and events as long as no    *)
(* tick hits the window in which a choice of defsched_sched has been made  *)
(* and not yet acted upon (MaxNested = 0): only runnable tasks run, every  *)
(* sleeper can be woken, no wakeup is lost and, if only wait queues        *)
(* allocate memory, no check of the kernel fails.  The window is where the *)
(* counterexamples of the runs about exits live: there the choice on the   *)
(* stack may be of a task that has slept or exited since.                  *)
(***************************************************************************)

(* A task in the window is the one on the CPU and has chosen the head of    *)
(* the run queue as it is now; no other choice or request is pending.       *)
ChoiceFresh ==
  \A t \in Threads :
    IF at[t] \in Window
    THEN current = t /\ chosen[t] = <<NextTask(runqueue)>> /\ ~sched_pending
    ELSE chosen[t] = <<>>

(* A task on the CPU that no longer is runnable is on its way out of it.    *)
SleeperLeaves ==
  current \in Tasks /\ ts_state[current] # RUNNING =>
    /\ at[current] # "run"
    /\ at[current] \in {"leave", "check"} => sched_pending

(* The tasks that sleep are those linked in wait queues.                    *)
SleepersLinked ==
  \A t \in Tasks : ts_state[t] = SOFT_WAIT <=> \E q \in Queues : t \in Waiters(q)

(* Who waits for a mutex is in the loop of down that wants it.              *)
WaitersDown == \A m \in Mutexes : \A t \in Waiters(m) : downing[t] = m

RunInv == ChoiceFresh /\ SleeperLeaves /\ SleepersLinked /\ WaitersDown /\ WakeupOnTheWay

SleepInv == QueuesInv /\ RunInv

(* The types of the variables that the lemmas below update at one place.    *)
LEMMA Types ==
  ASSUME QueuesInv
  PROVE  /\ runqueue \in Seq(Tasks) /\ ts_state \in [Threads -> States]
         /\ at \in [Threads -> Places] /\ chosen \in [Threads -> Seq(Threads)]
         /\ wq \in [Queues -> Seq(Tasks)] /\ locked \in [Mutexes -> BOOLEAN]
         /\ downing \in [Tasks -> Mutexes \cup {NoOne}]
         /\ current \in Threads /\ Tasks \subseteq Threads /\ Mutexes \subseteq Queues
BY DEF QueuesInv, TypeInv, TypeOK, SchedTypeOK, WaitTypeOK, MutexTypeOK, Threads, Queues

(* A task that runs its own code is runnable, and no choice is pending.     *)
LEMMA CallerRuns ==
  ASSUME NEW t \in Tasks, SleepInv, OnCpu(t)
  PROVE  /\ ts_state[t] = RUNNING
         /\ \A q \in Queues : t \notin Waiters(q)
         /\ \A u \in Threads : at[u] \notin Window /\ chosen[u] = <<>>
BY DEF SleepInv, RunInv, SleeperLeaves, ChoiceFresh, QueuesInv, QueueInv, WaitersApart, OnCpu,
       Window

(* So the body of a section has no choice to make stale.                    *)
LEMMA SectionKeepsChoice ==
  ASSUME NEW t \in Tasks, SleepInv, OnCpu(t), Atomic(t)
  PROVE  ChoiceFresh'
<1>1. /\ chosen' = chosen /\ at \in [Threads -> Places] /\ at' = [at EXCEPT ![t] = "leave"]
  BY Types DEF Atomic, SleepInv
<1>2. \A u \in Threads : at'[u] \notin Window /\ chosen'[u] = <<>>
  BY <1>1, CallerRuns DEF Window
<1>3. QED
  BY <1>2 DEF ChoiceFresh

LEMMA QuietKeepsRun ==
  ASSUME NEW t \in Tasks, SleepInv, OnCpu(t), QuietSection(t), wq' = wq
  PROVE  ChoiceFresh' /\ SleeperLeaves' /\ SleepersLinked'
BY CallerRuns, SectionKeepsChoice
DEF QuietSection, Atomic, OnCpu, SleeperLeaves, SleepersLinked, Waiters, SleepInv, RunInv

LEMMA BugcheckKeepsRun ==
  ASSUME SleepInv, NEW why, Bugcheck(why), wq' = wq
  PROVE  ChoiceFresh' /\ SleeperLeaves' /\ SleepersLinked'
BY DEF Bugcheck, SleepInv, RunInv, ChoiceFresh, SleeperLeaves, SleepersLinked, Waiters

(* What a successful __sleep does.                                          *)
LEMMA SleepEffect ==
  ASSUME NEW t \in Tasks, NEW q \in Queues, SleepInv, OnCpu(t), Sleep(t, q)
  PROVE  /\ locked' = locked
         /\ \/ UNCHANGED <<ts_state, wq>> /\ locked[SallocMutex] /\ Bugcheck("kernel_stack")
            \/ /\ ~locked[SallocMutex] /\ SuspendSelf(t)
               /\ ts_state' = [ts_state EXCEPT ![t] = SOFT_WAIT]
               /\ Waiters(q)' = Waiters(q) \cup {t}
               /\ \A p \in Queues \ {q} : Waiters(p)' = Waiters(p)
<1>1. ts_state[t] # SOFT_WAIT
  BY CallerRuns DEF RUNNING, SOFT_WAIT
<1>2. CASE locked[SallocMutex]
  BY <1>2 DEF Sleep, Bugcheck, waitVars
<1>3. CASE ~locked[SallocMutex]
  <2>1. SuspendSelf(t) /\ locked' = locked /\ wq' = [wq EXCEPT ![q] = Append(@, t)]
    BY <1>1, <1>3 DEF Sleep, PutTask
  <2>2. /\ wq \in [Queues -> Seq(Tasks)]
        /\ IsInjective(wq[q]) /\ t \notin ToSet(wq[q])
    BY Types, CallerRuns DEF SleepInv, QueuesInv, QueueInv, WaitersApart, Waiters
  <2>3. wq'[q] = Append(wq[q], t) /\ \A p \in Queues \ {q} : wq'[p] = wq[p]
    BY <2>1, <2>2
  <2>4. ToSet(Append(wq[q], t)) = ToSet(wq[q]) \cup {t}
    BY <2>2, AppendOnce
  <2>5. QED
    BY <1>3, <2>1, <2>3, <2>4 DEF SuspendSelf, Waiters
<1>4. QED
  BY <1>2, <1>3

LEMMA SleepKeepsRun ==
  ASSUME NEW t \in Tasks, NEW q \in Queues, SleepInv, OnCpu(t), Sleep(t, q)
  PROVE  ChoiceFresh' /\ SleeperLeaves' /\ SleepersLinked'
<1>1. CASE UNCHANGED wq /\ Bugcheck("kernel_stack")
  BY <1>1, BugcheckKeepsRun
<1>2. CASE /\ SuspendSelf(t)
           /\ ts_state' = [ts_state EXCEPT ![t] = SOFT_WAIT]
           /\ Waiters(q)' = Waiters(q) \cup {t}
           /\ \A p \in Queues \ {q} : Waiters(p)' = Waiters(p)
  <2>1. ChoiceFresh' /\ sched_pending' /\ current' = t /\ at'[t] = "leave"
    BY <1>2, SectionKeepsChoice, Types DEF SuspendSelf, Atomic, OnCpu, SleepInv
  <2>2. SleeperLeaves'
    BY <2>1 DEF SleeperLeaves
  <2>3. SleepersLinked'
    <3>1. ts_state'[t] = SOFT_WAIT /\ \A u \in Tasks \ {t} : ts_state'[u] = ts_state[u]
      BY <1>2, Types DEF SleepInv
    <3>2. \A u \in Tasks \ {t} : \A p \in Queues : u \in Waiters(p)' <=> u \in Waiters(p)
      BY <1>2
    <3>3. QED
      BY <1>2, <3>1, <3>2 DEF SleepersLinked, Waiters, SleepInv, RunInv
  <2>4. QED
    BY <2>1, <2>2, <2>3
<1>3. QED
  BY <1>1, <1>2, SleepEffect

(* What a wakeup does to those that wait.                                   *)
LEMMA AwakensEffect ==
  ASSUME NEW t \in Tasks, NEW q \in Queues, QueuesInv, NEW ws, NEW left,
         Awakens(t, q, ws, left)
  PROVE  /\ Waiters(q)' = Waiters(q) \ ToSet(ws)
         /\ \A p \in Queues \ {q} : Waiters(p)' = Waiters(p)
         /\ \A u \in Threads : ts_state'[u] = IF u \in ToSet(ws) THEN RUNNING ELSE ts_state[u]
<1>1. wq \in [Queues -> Seq(Tasks)] /\ wq' = [wq EXCEPT ![q] = left]
  BY Types DEF Awakens
<1>2. Waiters(q)' = Waiters(q) \ ToSet(ws)
  BY <1>1 DEF Waiters, Awakens
<1>3. \A p \in Queues \ {q} : Waiters(p)' = Waiters(p)
  BY <1>1 DEF Waiters
<1>4. QED
  BY <1>2, <1>3 DEF Awakens, Awaken

LEMMA AwakensKeepsRun ==
  ASSUME NEW t \in Tasks, NEW q \in Queues, SleepInv, OnCpu(t), NEW ws, NEW left,
         Awakens(t, q, ws, left)
  PROVE  ChoiceFresh' /\ SleeperLeaves' /\ SleepersLinked'
<1>1. Atomic(t) /\ current' = t /\ QueuesInv /\ Tasks \subseteq Threads
  BY Types DEF Awakens, Awaken, Atomic, OnCpu, SleepInv
<1>2. ChoiceFresh'
  BY <1>1, SectionKeepsChoice
<1>3. /\ Waiters(q)' = Waiters(q) \ ToSet(ws)
      /\ \A p \in Queues \ {q} : Waiters(p)' = Waiters(p)
      /\ \A u \in Threads : ts_state'[u] = IF u \in ToSet(ws) THEN RUNNING ELSE ts_state[u]
  BY <1>1, AwakensEffect
<1>4. SleeperLeaves'
  BY <1>1, <1>3, CallerRuns DEF SleeperLeaves
<1>5. SleepersLinked'
  <2>1. ToSet(ws) \subseteq Waiters(q) /\ \A p \in Queues \ {q} : ToSet(ws) \cap Waiters(p) = {}
    BY <1>1 DEF Awakens, QueuesInv, QueueInv, WaitersApart
  <2>2. ASSUME NEW u \in Tasks
        PROVE  ts_state'[u] = SOFT_WAIT <=> \E p \in Queues : u \in Waiters(p)'
    <3>1. CASE u \in ToSet(ws)
      BY <1>1, <1>3, <2>1, <3>1 DEF RUNNING, SOFT_WAIT
    <3>2. CASE u \notin ToSet(ws)
      BY <1>1, <1>3, <3>2 DEF SleepersLinked, SleepInv, RunInv
    <3>3. QED
      BY <3>1, <3>2
  <2>3. QED
    BY <2>2 DEF SleepersLinked, Waiters
<1>6. QED
  BY <1>2, <1>4, <1>5

LEMMA ExitKeepsRun ==
  ASSUME NEW t \in Tasks, SleepInv, OnCpu(t), ExitSelf(t), wq' = wq
  PROVE  ChoiceFresh' /\ SleeperLeaves' /\ SleepersLinked'
<1>1. /\ Atomic(t) /\ current' = t /\ sched_pending' /\ t \in Threads
      /\ ts_state' = [ts_state EXCEPT ![t] = EXITED]
      /\ ts_state \in [Threads -> States] /\ Tasks \subseteq Threads
      /\ at'[t] = "leave"
  BY Types DEF ExitSelf, Atomic, OnCpu, SleepInv
<1>2. SleeperLeaves'
  BY <1>1 DEF SleeperLeaves
<1>3. SleepersLinked'
  BY <1>1, CallerRuns
  DEF SleepersLinked, Waiters, SleepInv, RunInv, RUNNING, SOFT_WAIT, EXITED
<1>4. QED
  BY <1>1, <1>2, <1>3, SectionKeepsChoice

(* What the scheduler resumes is runnable, or the idle task.                *)
LEMMA HeadRuns ==
  ASSUME QueuesInv
  PROVE  /\ NextTask(runqueue) \in Tasks => ts_state[NextTask(runqueue)] = RUNNING
         /\ ts_state[NextTask(runqueue)] # EXITED
         /\ NextTask(ScrollNext(runqueue)) \in Tasks =>
              ts_state[NextTask(ScrollNext(runqueue))] = RUNNING
<1>1. runqueue \in Seq(Tasks) /\ IsInjective(runqueue)
  BY Types DEF QueuesInv, QueueInv, RunqueueExact
<1>2. /\ NextTask(runqueue) \in ToSet(runqueue) \cup {Idle}
      /\ NextTask(ScrollNext(runqueue)) \in ToSet(runqueue) \cup {Idle}
  BY <1>1, TailOnce, ScrollOnce DEF NextTask
<1>3. \A u \in ToSet(runqueue) : ts_state[u] = RUNNING
  BY <1>1, Elements DEF QueuesInv, QueueInv, RunqueueExact
<1>4. QED
  BY <1>2, <1>3, SchedAssumption
  DEF QueuesInv, QueueInv, IdleWaits, RUNNING, SOFT_WAIT, EXITED

LEMMA KernelStepKeepsRun ==
  ASSUME NEW t \in Tasks, SleepInv, KernelStep(t), wq' = wq
  PROVE  ChoiceFresh' /\ SleeperLeaves' /\ SleepersLinked'
<1>1. /\ at \in [Threads -> Places] /\ chosen \in [Threads -> Seq(Threads)]
      /\ t \in Threads /\ Tasks \subseteq Threads
  BY Types DEF SleepInv
<1>2. ASSUME ts_state' = ts_state PROVE SleepersLinked'
  BY <1>2 DEF SleepersLinked, Waiters, SleepInv, RunInv
<1>3. current = t /\ SleeperLeaves /\ ChoiceFresh
  BY DEF KernelStep, Leave, Check, Choose, ChooseLeave, ChooseCheck, SwitchTo, Moving,
     SleepInv, RunInv
<1>4. CASE Leave(t)
  BY <1>1, <1>2, <1>4
  DEF Leave, Moving, SleepInv, RunInv, ChoiceFresh, SleeperLeaves, Window
<1>5. CASE Check(t)
  BY <1>1, <1>2, <1>5
  DEF Check, Moving, SleepInv, RunInv, ChoiceFresh, SleeperLeaves, Window
<1>6. CASE Choose(t)
  <2>1. \A u \in Threads : at[u] \notin Window /\ chosen[u] = <<>>
    BY <1>6 DEF Choose, Moving, SleepInv, RunInv, ChoiceFresh, Window
  <2>2. Append(chosen[t], NextTask(ScrollNext(runqueue))) = <<NextTask(ScrollNext(runqueue))>>
    <3>1. chosen[t] = <<>>
      BY <1>1, <2>1
    <3>2. QED
      BY <3>1
  <2>3. ChoiceFresh'
    BY <1>1, <1>6, <2>1, <2>2 DEF Choose, Moving, ChoiceFresh, Window
  <2>4. QED
    BY <1>1, <1>2, <1>6, <2>3 DEF Choose, Moving, SleeperLeaves
<1>7. CASE ChooseLeave(t)
  BY <1>1, <1>2, <1>7
  DEF ChooseLeave, Moving, SleepInv, RunInv, ChoiceFresh, SleeperLeaves, Window
<1>8. CASE ChooseCheck(t)
  BY <1>1, <1>2, <1>8
  DEF ChooseCheck, Moving, SleepInv, RunInv, ChoiceFresh, SleeperLeaves, Window
<1>9. CASE SwitchTo(t)
  <2> DEFINE new == NextTask(runqueue)
  <2>1. /\ chosen[t] = <<new>> /\ at[t] \in Window
        /\ \A u \in Threads \ {t} : at[u] \notin Window /\ chosen[u] = <<>>
    BY <1>1, <1>3, <1>9 DEF SwitchTo, Moving, ChoiceFresh, Window
  <2>2. ts_state[new] # EXITED /\ (new \in Tasks => ts_state[new] = RUNNING)
    BY HeadRuns DEF SleepInv
  <2> HIDE DEF new
  <2>3. Last(chosen[t]) = new /\ Front(chosen[t]) = <<>> /\ Len(chosen[t]) = 1
    BY <2>1 DEF Last, Front
  <2>4. /\ current' = new /\ chosen' = [chosen EXCEPT ![t] = <<>>]
        /\ at' = [at EXCEPT ![t] = "run"] /\ ts_state' = ts_state
    BY <1>9, <2>2, <2>3 DEF SwitchTo
  <2>5. ChoiceFresh'
    BY <1>1, <2>1, <2>4 DEF ChoiceFresh, Window
  <2>6. SleeperLeaves'
    BY <2>2, <2>4 DEF SleeperLeaves
  <2>7. QED
    BY <1>2, <2>4, <2>5, <2>6
<1>10. QED
  BY <1>4, <1>5, <1>6, <1>7, <1>8, <1>9 DEF KernelStep

(* A tick outside the window switches to a runnable task, or leaves a       *)
(* request.                                                                 *)
LEMMA TickKeepsRun ==
  ASSUME MaxNested = 0, SleepInv, Tick, wq' = wq
  PROVE  ChoiceFresh' /\ SleeperLeaves' /\ SleepersLinked'
<1>1. at[current] \notin Window
  <2>1. current \in Threads /\ (at[current] \in Window => chosen[current] # <<>>)
    BY Types DEF SleepInv, QueuesInv, TypeInv, WindowHasChoice
  <2>2. chosen[current] \in Seq(Threads)
    BY <2>1, Types DEF SleepInv
  <2>3. Len(chosen[current]) \in Nat /\ (Len(chosen[current]) = 0 => chosen[current] = <<>>)
    BY <2>2, EmptySeq, LenProperties
  <2>4. QED
    BY <2>1, <2>3 DEF Tick, TickAllowed
<1>2. \A u \in Threads : at[u] \notin Window /\ chosen[u] = <<>>
  BY <1>1 DEF SleepInv, RunInv, ChoiceFresh
<1>3. ChoiceFresh' /\ SleepersLinked'
  BY <1>2 DEF Tick, ChoiceFresh, SleepersLinked, Waiters, SleepInv, RunInv
<1>4. SleeperLeaves'
  <2>1. CASE enabled
    BY <2>1, HeadRuns DEF Tick, SleeperLeaves, SleepInv
  <2>2. CASE ~enabled
    BY <2>2 DEF Tick, SleeperLeaves, SleepInv, RunInv
  <2>3. QED
    BY <2>1, <2>2
<1>5. QED
  BY <1>3, <1>4

-----------------------------------------------------------------------------
(* No wakeup of a mutex is lost.                                            *)

WakeupInv == WaitersDown /\ WakeupOnTheWay

(* A step that leaves mutexes, waiters and who is runnable alone.           *)
LEMMA StutterKeepsWakeups ==
  ASSUME SleepInv, ts_state' = ts_state, wq' = wq, UNCHANGED <<locked, downing>>
  PROVE  WakeupInv'
BY DEF SleepInv, RunInv, WakeupInv, WaitersDown, WakeupOnTheWay, Waiters

LEMMA AcquireKeepsWakeups ==
  ASSUME NEW t \in Tasks, NEW m \in Mutexes, SleepInv, OnCpu(t), Acquire(t, m),
         downing[t] \in {m, NoOne}
  PROVE  WakeupInv'
<1>1. /\ ts_state' = ts_state /\ wq' = wq
      /\ locked' = [locked EXCEPT ![m] = TRUE] /\ downing' = [downing EXCEPT ![t] = NoOne]
  BY DEF Acquire, QuietSection
<1>2. locked \in [Mutexes -> BOOLEAN] /\ downing \in [Tasks -> Mutexes \cup {NoOne}]
      /\ wq \in [Queues -> Seq(Tasks)] /\ Mutexes \subseteq Queues
  BY Types DEF SleepInv
<1>3. WaitersDown'
  <2>1. \A n \in Mutexes : \A u \in Waiters(n) : u \in Tasks /\ u # t
    BY <1>2, CallerRuns, Elements DEF Waiters
  <2>2. QED
    BY <1>1, <1>2, <2>1 DEF WaitersDown, Waiters, SleepInv, RunInv
<1>4. WakeupOnTheWay'
  <2>1. ASSUME NEW n \in Mutexes, ~locked'[n], wq'[n] # <<>>
        PROVE  \E u \in Tasks : downing'[u] = n /\ ts_state'[u] = RUNNING
    <3>1. n # m /\ ~locked[n] /\ wq[n] # <<>>
      BY <1>1, <1>2, <2>1
    <3>2. PICK u \in Tasks : downing[u] = n /\ ts_state[u] = RUNNING
      BY <3>1 DEF SleepInv, RunInv, WakeupOnTheWay
    <3>3. n # NoOne
      BY WaitQueueAssumption
    <3>4. QED
      BY <1>1, <1>2, <3>1, <3>2, <3>3
  <2>2. QED
    BY <2>1 DEF WakeupOnTheWay
<1>5. QED
  BY <1>3, <1>4 DEF WakeupInv

(* down goes to sleep only on a locked mutex, as one more that wants it.    *)
LEMMA SleepKeepsWakeups ==
  ASSUME NEW t \in Tasks, NEW q \in Queues, SleepInv, OnCpu(t), Sleep(t, q),
         \/ q \in Mutexes /\ locked[q] /\ downing[t] \in {q, NoOne}
              /\ downing' = [downing EXCEPT ![t] = q]
         \/ q \notin Mutexes /\ downing[t] = NoOne /\ downing' = downing
  PROVE  WakeupInv'
<1>1. /\ downing \in [Tasks -> Mutexes \cup {NoOne}] /\ wq \in [Queues -> Seq(Tasks)]
      /\ Mutexes \subseteq Queues /\ Tasks \subseteq Threads /\ NoOne \notin Mutexes
      /\ ts_state \in [Threads -> States]
  BY Types, WaitQueueAssumption DEF SleepInv
<1>2. \A n \in Mutexes : \A u \in Waiters(n) : u \in Tasks /\ u # t
  BY <1>1, CallerRuns, Elements DEF Waiters
<1>3. locked' = locked
  BY SleepEffect
<1>4. CASE UNCHANGED <<ts_state, wq>>
  <2>1. WaitersDown'
    BY <1>1, <1>2, <1>4 DEF WaitersDown, Waiters, SleepInv, RunInv
  <2>2. ASSUME NEW n \in Mutexes, ~locked'[n], wq'[n] # <<>>
        PROVE  \E u \in Tasks : downing'[u] = n /\ ts_state'[u] = RUNNING
    <3>1. PICK u \in Tasks : downing[u] = n /\ ts_state[u] = RUNNING
      BY <1>3, <1>4, <2>2 DEF SleepInv, RunInv, WakeupOnTheWay
    <3>2. downing'[u] = n
      BY <1>1, <1>3, <2>2, <3>1
    <3>3. QED
      BY <1>4, <3>1, <3>2
  <2>3. QED
    BY <2>1, <2>2 DEF WakeupInv, WakeupOnTheWay
<1>5. CASE /\ ts_state' = [ts_state EXCEPT ![t] = SOFT_WAIT]
           /\ Waiters(q)' = Waiters(q) \cup {t}
           /\ \A p \in Queues \ {q} : Waiters(p)' = Waiters(p)
  <2>1. ASSUME NEW n \in Mutexes, NEW u \in Waiters(n)' PROVE downing'[u] = n
    <3>1. CASE u = t
      BY <1>1, <1>2, <1>5, <2>1, <3>1
    <3>2. CASE u # t
      <4>1. u \in Waiters(n)
        BY <1>1, <1>5, <2>1, <3>2
      <4>2. QED
        BY <1>1, <1>2, <3>2, <4>1 DEF WaitersDown, SleepInv, RunInv
    <3>3. QED
      BY <3>1, <3>2
  <2>2. ASSUME NEW n \in Mutexes, ~locked'[n], wq'[n] # <<>>
        PROVE  \E u \in Tasks : downing'[u] = n /\ ts_state'[u] = RUNNING
    <3>1. n # q /\ ~locked[n] /\ wq'[n] = wq[n]
      BY <1>1, <1>3, <2>2, SleepAddsThere DEF SleepInv, QueuesInv, TypeInv
    <3>2. PICK u \in Tasks : downing[u] = n /\ ts_state[u] = RUNNING
      BY <2>2, <3>1 DEF SleepInv, RunInv, WakeupOnTheWay
    <3>3. u # t
      BY <1>1, <3>1, <3>2
    <3>4. QED
      BY <1>1, <1>5, <3>2, <3>3
  <2>3. QED
    BY <2>1, <2>2 DEF WakeupInv, WaitersDown, WakeupOnTheWay, Waiters
<1>6. QED
  BY <1>4, <1>5, SleepEffect

(* up wakes a waiter of the mutex it releases; an event wakes none of a     *)
(* mutex.                                                                   *)
LEMMA AwakensKeepsWakeups ==
  ASSUME NEW t \in Tasks, NEW q \in Queues, SleepInv, NEW ws, NEW left,
         Awakens(t, q, ws, left), downing' = downing,
         \A n \in Mutexes \ {q} : locked'[n] = locked[n]
  PROVE  WakeupInv'
<1>1. /\ wq \in [Queues -> Seq(Tasks)] /\ QueuesInv
      /\ Mutexes \subseteq Queues /\ Tasks \subseteq Threads
  BY Types DEF SleepInv
<1>2. /\ Waiters(q)' = Waiters(q) \ ToSet(ws)
      /\ \A p \in Queues \ {q} : Waiters(p)' = Waiters(p)
      /\ \A u \in Threads : ts_state'[u] = IF u \in ToSet(ws) THEN RUNNING ELSE ts_state[u]
  BY <1>1, AwakensEffect
<1>3. WaitersDown'
  <2>1. ASSUME NEW n \in Mutexes, NEW u \in Waiters(n)' PROVE downing'[u] = n
    <3>1. u \in Waiters(n)
      BY <1>1, <1>2, <2>1
    <3>2. QED
      BY <3>1 DEF WaitersDown, SleepInv, RunInv
  <2>2. QED
    BY <2>1 DEF WaitersDown, Waiters
<1>4. ASSUME NEW n \in Mutexes, ~locked'[n], wq'[n] # <<>>
      PROVE  \E u \in Tasks : downing'[u] = n /\ ts_state'[u] = RUNNING
  <2>1. CASE n = q
    <3>1. wq'[q] = left /\ left \in Seq(Tasks) /\ left # <<>>
      BY <1>1, <1>4, <2>1 DEF Awakens
    <3>2. left[1] \in ToSet(left)
      BY <3>1, EmptySeq, Elements
    <3>3. wq[q] # <<>>
      <4>1. left[1] \in ToSet(wq[q])
        BY <3>2 DEF Awakens, Waiters
      <4>2. QED
        BY <4>1 DEF ToSet
    <3>4. Head(wq[q]) \in ToSet(ws) /\ Head(wq[q]) \in Waiters(q)
      BY <3>3 DEF Awakens
    <3>5. Head(wq[q]) \in Tasks
      BY <1>1, <3>4, Elements DEF Waiters
    <3>6. downing[Head(wq[q])] = q
      BY <2>1, <3>4 DEF WaitersDown, SleepInv, RunInv
    <3>7. QED
      BY <1>1, <1>2, <2>1, <3>4, <3>5, <3>6
  <2>2. CASE n # q
    <3>1. ~locked[n] /\ wq[n] # <<>>
      BY <1>1, <1>4, <2>2 DEF Awakens
    <3>2. PICK u \in Tasks : downing[u] = n /\ ts_state[u] = RUNNING
      BY <3>1 DEF SleepInv, RunInv, WakeupOnTheWay
    <3>3. QED
      BY <1>1, <1>2, <3>2
  <2>3. QED
    BY <2>1, <2>2
<1>5. QED
  BY <1>3, <1>4 DEF WakeupInv, WakeupOnTheWay

(* A task that exits neither waits for a mutex nor wants one.               *)
LEMMA ExitKeepsWakeups ==
  ASSUME NEW t \in Tasks, SleepInv, ExitSelf(t), downing[t] = NoOne,
         wq' = wq, UNCHANGED <<locked, downing>>
  PROVE  WakeupInv'
<1>1. /\ ts_state \in [Threads -> States] /\ Tasks \subseteq Threads
      /\ ts_state' = [ts_state EXCEPT ![t] = EXITED] /\ NoOne \notin Mutexes
  BY Types, WaitQueueAssumption DEF SleepInv, ExitSelf
<1>2. \A u \in Tasks \ {t} : ts_state'[u] = ts_state[u]
  BY <1>1
<1>3. QED
  BY <1>1, <1>2 DEF SleepInv, RunInv, WakeupInv, WaitersDown, WakeupOnTheWay, Waiters

-----------------------------------------------------------------------------
(* SleepInv holds at the start, and every step keeps it.                    *)
LEMMA SleepInvInitially == Init => SleepInv
<1> SUFFICES ASSUME Init PROVE RunInv
  BY QueuesInvInitially DEF SleepInv
<1>1. /\ ts_state = [t \in Threads |-> IF t = Idle THEN SOFT_WAIT ELSE RUNNING]
      /\ wq = [q \in Queues |-> <<>>]
      /\ at = [t \in Threads |-> "run"] /\ chosen = [t \in Threads |-> <<>>]
  BY DEF Init, SchedInit, WaitInit
<1>2. \A t \in Tasks : ts_state[t] = RUNNING
  BY <1>1, SchedAssumption DEF Threads
<1>3. \A q \in Queues : wq[q] = <<>> /\ Waiters(q) = {}
  BY <1>1 DEF Waiters, ToSet
<1>4. ChoiceFresh /\ SleeperLeaves
  BY <1>1, <1>2 DEF ChoiceFresh, SleeperLeaves, Window
<1>5. SleepersLinked /\ WaitersDown /\ WakeupOnTheWay
  BY <1>2, <1>3
  DEF SleepersLinked, WaitersDown, WakeupOnTheWay, Queues, RUNNING, SOFT_WAIT
<1>6. QED
  BY <1>4, <1>5 DEF RunInv

LEMMA MutexOpKeepsRun ==
  ASSUME NEW t \in Tasks, SleepInv, MutexOp(t)
  PROVE  RunInv'
<1>1. PICK m \in Mutexes :
        DownTake(t, m) \/ DownSleep(t, m) \/ TryDown(t, m) \/ Up(t, m)
  BY DEF MutexOp
<1>2. m \in Queues /\ QueuesInv
  BY DEF Queues, SleepInv
<1> USE DEF RunInv, WakeupInv
<1>3. CASE DownTake(t, m)
  BY <1>3, QuietKeepsRun, AcquireKeepsWakeups DEF DownTake, Acquire
<1>4. CASE DownSleep(t, m)
  BY <1>2, <1>4, SleepKeepsRun, SleepKeepsWakeups DEF DownSleep
<1>5. CASE TryDown(t, m)
  <2>1. CASE locked[m]
    BY <1>5, <2>1, QuietKeepsRun, StutterKeepsWakeups
    DEF TryDown, Free, QuietSection, waitVars, mutexVars
  <2>2. CASE ~locked[m]
    BY <1>5, <2>2, QuietKeepsRun, AcquireKeepsWakeups DEF TryDown, Free, Acquire
  <2>3. QED
    BY <2>1, <2>2
<1>6. CASE Up(t, m)
  <2>1. CASE locked[m] /\ owner[m] = t
    <3>1. /\ SignalOne(t, m) /\ OnCpu(t) /\ downing' = downing
          /\ locked' = [locked EXCEPT ![m] = FALSE]
      BY <1>6, <2>1 DEF Up, Free
    <3>2. PICK ws, left : Awakens(t, m, ws, left)
      BY <1>2, <3>1, SignalOneAwakens
    <3>3. \A n \in Mutexes \ {m} : locked'[n] = locked[n]
      BY <1>2, <3>1, Types
    <3>4. QED
      BY <1>2, <3>1, <3>2, <3>3, AwakensKeepsRun, AwakensKeepsWakeups
  <2>2. CASE ~(locked[m] /\ owner[m] = t)
    BY <1>6, <2>2, BugcheckKeepsRun, StutterKeepsWakeups
    DEF Up, Bugcheck, waitVars, mutexVars
  <2>3. QED
    BY <2>1, <2>2
<1>7. QED
  BY <1>1, <1>3, <1>4, <1>5, <1>6

LEMMA EventOpKeepsRun ==
  ASSUME NEW t \in Tasks, SleepInv, EventOp(t)
  PROVE  RunInv'
<1>1. PICK e \in Events :
        \/ EventWait(t, e)
        \/ EventSignal(t, e)
        \/ EventClear(t, e)
        \/ \E flag \in BOOLEAN : EventSetAutoReset(t, e, flag)
  BY DEF EventOp
<1>2. /\ e \in Queues /\ e \notin Mutexes /\ QueuesInv
      /\ OnCpu(t) /\ downing[t] = NoOne /\ downing' = downing
  BY WaitQueueAssumption DEF Queues, EventOp, Free, mutexVars, SleepInv
<1> USE DEF RunInv, WakeupInv
<1>3. ASSUME QuietSection(t), UNCHANGED waitVars PROVE RunInv'
  BY <1>2, <1>3, QuietKeepsRun, StutterKeepsWakeups DEF QuietSection, waitVars
<1>4. CASE EventWait(t, e)
  BY <1>2, <1>3, <1>4, SleepKeepsRun, SleepKeepsWakeups DEF EventWait
<1>5. CASE EventSignal(t, e)
  BY <1>2, <1>3, <1>5, SignalAllAwakens, AwakensKeepsRun, AwakensKeepsWakeups DEF EventSignal
<1>6. CASE EventClear(t, e)
  BY <1>3, <1>6 DEF EventClear
<1>7. CASE \E flag \in BOOLEAN : EventSetAutoReset(t, e, flag)
  BY <1>3, <1>7 DEF EventSetAutoReset
<1>8. QED
  BY <1>1, <1>4, <1>5, <1>6, <1>7

LEMMA SleepInvKept == MaxNested = 0 /\ SleepInv /\ [Next]_vars => SleepInv'
<1> SUFFICES ASSUME MaxNested = 0, SleepInv, [Next]_vars PROVE RunInv'
  BY QueuesInvKept DEF SleepInv
<1>1. ASSUME NEW t \in Tasks, MutexOp(t) PROVE RunInv'
  BY <1>1, MutexOpKeepsRun
<1>2. ASSUME NEW t \in Tasks, EventOp(t) PROVE RunInv'
  BY <1>2, EventOpKeepsRun
<1>3. ASSUME NEW t \in Tasks, Exit(t) PROVE RunInv'
  BY <1>3, ExitKeepsRun, ExitKeepsWakeups, BugcheckKeepsRun, StutterKeepsWakeups
  DEF Exit, Free, Bugcheck, waitVars, mutexVars, RunInv, WakeupInv
<1>4. ASSUME NEW t \in Tasks, Kernel(t) PROVE RunInv'
  <2>1. KernelStep(t) /\ wq' = wq /\ locked' = locked /\ downing' = downing
    BY <1>4 DEF Kernel, waitVars, mutexVars
  <2>2. ts_state' = ts_state
    BY <2>1
    DEF KernelStep, Leave, Check, Choose, ChooseLeave, ChooseCheck, SwitchTo, Bugcheck
  <2>3. QED
    BY <2>1, <2>2, KernelStepKeepsRun, StutterKeepsWakeups DEF RunInv, WakeupInv
<1>5. CASE Timer
  BY <1>5, TickKeepsRun, StutterKeepsWakeups
  DEF Timer, Tick, waitVars, mutexVars, RunInv, WakeupInv
<1>6. CASE UNCHANGED vars
  BY <1>6 DEF vars, schedVars, waitVars, mutexVars, SleepInv, RunInv, ChoiceFresh,
     SleeperLeaves, SleepersLinked, WaitersDown, WakeupOnTheWay, Waiters
<1>7. QED
  BY <1>1, <1>2, <1>3, <1>4, <1>5, <1>6 DEF Next, TaskStep

LEMMA SleepInvAlways ==
  ASSUME MaxNested = 0
  PROVE  Spec => []SleepInv
<1>1. SleepInv /\ [Next]_vars => SleepInv'
  BY SleepInvKept
<1>2. QED
  BY <1>1, SleepInvInitially, PTL DEF Spec

(* Every sleeping task is linked in one wait queue, and every task linked   *)
(* in one sleeps.                                                           *)
THEOREM SleepersAlwaysQueued ==
  ASSUME MaxNested = 0
  PROVE  Spec => []SleepersQueued
<1>1. SleepInv => SleepersQueued
  BY DEF SleepInv, RunInv, QueuesInv, QueueInv, WaitersApart, SleepersLinked, SleepersQueued
<1>2. QED
  BY <1>1, SleepInvAlways, PTL

(* The switch, from a section or from the timer, only resumes runnable      *)
(* tasks.                                                                   *)
THEOREM OnlyRunnableEverRun ==
  ASSUME MaxNested = 0
  PROVE  Spec => []OnlyRunnableRun
<1>1. SleepInv => OnlyRunnableRun
  BY DEF SleepInv, RunInv, SleeperLeaves, OnlyRunnableRun
<1>2. QED
  BY <1>1, SleepInvAlways, PTL

(* A mutex that is free and waited for has woken a task that is still to    *)
(* try again: up, which wakes only one, never wakes one that has gone.      *)
THEOREM NoWakeupLost ==
  ASSUME MaxNested = 0
  PROVE  Spec => []WakeupOnTheWay
<1>1. SleepInv => WakeupOnTheWay
  BY DEF SleepInv, RunInv
<1>2. QED
  BY <1>1, SleepInvAlways, PTL

-----------------------------------------------------------------------------
(* None of the kernel's checks fails.                                       *)

(* Only wait queues allocate: no step finds salloc_mutex taken.             *)
FailInv == NoBugcheck /\ ~locked[SallocMutex]

LEMMA TaskStepKeepsChecks ==
  ASSUME Allocators = {}, NEW t \in Tasks, SleepInv, MutexInv, FailInv, TaskStep(t)
  PROVE  FailInv'
<1> USE DEF FailInv, NoBugcheck
<1>1. locked \in [Mutexes -> BOOLEAN] /\ SallocMutex \in Mutexes /\ QueuesInv
  BY Types, WaitQueueAssumption DEF SleepInv
<1>2. ASSUME NEW q \in Queues, OnCpu(t), Sleep(t, q) PROVE FailInv'
  BY <1>1, <1>2, SleepEffect DEF SuspendSelf, Atomic
<1>3. ASSUME NEW m \in Mutexes, Acquire(t, m), m # SallocMutex PROVE FailInv'
  BY <1>1, <1>3 DEF Acquire, QuietSection, Atomic
<1>4. CASE MutexOp(t)
  <2>1. PICK m \in Mutexes :
          \/ MayTake(t, m) /\ (DownTake(t, m) \/ DownSleep(t, m) \/ TryDown(t, m))
          \/ Up(t, m)
    BY <1>4 DEF MutexOp
  <2>2. m \in Queues
    BY DEF Queues
  <2>3. CASE MayTake(t, m) /\ DownTake(t, m)
    BY <1>3, <2>3 DEF MayTake, DownTake
  <2>4. CASE DownSleep(t, m)
    BY <1>2, <2>2, <2>4 DEF DownSleep
  <2>5. CASE MayTake(t, m) /\ TryDown(t, m)
    BY <1>3, <2>5 DEF MayTake, TryDown, QuietSection, Atomic, waitVars
  <2>6. CASE Up(t, m)
    <3>1. locked[m] /\ owner[m] = t
      BY <2>6 DEF Up, MutexInv, MutualExclusion
    <3>2. PICK ws, left : Awakens(t, m, ws, left)
      BY <1>1, <2>2, <2>6, <3>1, SignalOneAwakens DEF Up
    <3>3. failure' = failure /\ locked' = [locked EXCEPT ![m] = FALSE]
      BY <2>6, <3>1, <3>2 DEF Up, Awakens, Awaken, Atomic
    <3>4. QED
      BY <1>1, <3>3
  <2>7. QED
    BY <2>1, <2>3, <2>4, <2>5, <2>6
<1>5. CASE EventOp(t)
  BY <1>2, <1>5
  DEF EventOp, Free, EventWait, EventSignal, EventClear, EventSetAutoReset, Queues,
      QuietSection, SignalAll, Awaken, Atomic, waitVars
<1>6. CASE Exit(t)
  BY <1>6 DEF Exit, ExitSelf, Atomic, waitVars
<1>7. QED
  BY <1>4, <1>5, <1>6 DEF TaskStep

LEMMA KernelKeepsChecks ==
  ASSUME SleepInv, FailInv, (\E t \in Tasks : Kernel(t)) \/ Timer \/ UNCHANGED vars
  PROVE  FailInv'
<1>1. locked' = locked
  BY DEF Kernel, Timer, vars, waitVars
<1>2. CASE \E t \in Tasks : Kernel(t)
  <2>1. PICK t \in Tasks : KernelStep(t)
    BY <1>2 DEF Kernel
  <2>2. CASE SwitchTo(t)
    <3>1. chosen[t] = <<NextTask(runqueue)>>
      BY <2>2, Types DEF SwitchTo, Moving, SleepInv, RunInv, ChoiceFresh, Window
    <3>2. Last(chosen[t]) = NextTask(runqueue)
      BY <3>1 DEF Last
    <3>3. QED
      BY <1>1, <2>2, <3>2, HeadRuns DEF SwitchTo, SleepInv, FailInv, NoBugcheck
  <2>3. CASE ~SwitchTo(t)
    BY <1>1, <2>1, <2>3
    DEF KernelStep, Leave, Check, Choose, ChooseLeave, ChooseCheck, FailInv, NoBugcheck
  <2>4. QED
    BY <2>2, <2>3
<1>3. CASE Timer \/ UNCHANGED vars
  BY <1>1, <1>3 DEF Timer, Tick, vars, schedVars, FailInv, NoBugcheck
<1>4. QED
  BY <1>2, <1>3

(* The assertions and checks of the kernel never fail: no task is woken or  *)
(* put to sleep twice, no exited task resumed, no mutex released by another *)
(* than its owner, and no wait recurses on the allocator's own mutex.       *)
THEOREM ChecksNeverFail ==
  ASSUME MaxNested = 0, Allocators = {}
  PROVE  Spec => []NoBugcheck
<1>1. Init => SleepInv /\ MutexInv /\ FailInv
  <2>1. Init => FailInv
    BY WaitQueueAssumption DEF Init, SchedInit, WaitInit, FailInv, NoBugcheck
  <2>2. QED
    BY <2>1, SleepInvInitially, MutexInvInitially
<1>2. SleepInv /\ MutexInv /\ FailInv /\ [Next]_vars => (SleepInv /\ MutexInv /\ FailInv)'
  <2> SUFFICES ASSUME SleepInv, MutexInv, FailInv, [Next]_vars PROVE FailInv'
    BY SleepInvKept, MutexInvKept
  <2>1. QED
    BY TaskStepKeepsChecks, KernelKeepsChecks DEF Next
<1>3. FailInv => NoBugcheck
  BY DEF FailInv
<1>4. QED
  BY <1>1, <1>2, <1>3, PTL DEF Spec
=============================================================================
