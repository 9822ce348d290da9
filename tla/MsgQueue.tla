------------------------------ MODULE MsgQueue ------------------------------
(***************************************************************************)
(* Message passing (msg.c, sysipc.c): every task has a queue of incoming   *)
(* messages and a table of pending ones, the messages it has requested or  *)
(* received and not yet released.  A message refers to a body by way of a  *)
(* counted kernel object (object.c); sending it makes another reference.   *)
(*                                                                         *)
(* Each system call is one task-atomic section, hence one step, except for *)
(* a blocking receive: it leaves the section before it waits for the event *)
(* of its queue and enters it again once woken.                            *)
(***************************************************************************)
EXTENDS Integers, VremapOps

CONSTANTS
  Tasks,
  Bodies,        (* the message bodies there is memory for                  *)
  PendingCount,  (* MSG_PENDING_COUNT                                       *)
  Sizes,         (* the sizes bodies are requested with, in pages           *)
  RegionPages,   (* the pages of a task's vremap region                     *)
  Headers,       (* what is written to a body, as far as receivers match it *)
  Filters,       (* what receivers ask for                                  *)
  Wildcard,      (* MSG_TYPE_ANY, MSG_LINK_ANY                              *)
  UnmapsBlindly, (* whether tasks unmap messages they have not mapped       *)
  Recipients,    (* bound: the tasks messages are sent to                    *)
  MaxIncoming    (* bound: no one sends to a queue that is this long        *)

ASSUME MsgQueueAssumption ==
  /\ PendingCount \in Nat \ {0}
  /\ Sizes \subseteq Nat
  /\ RegionPages \in Nat \ {0}
  /\ UnmapsBlindly \in BOOLEAN
  /\ Recipients \subseteq Tasks
  /\ MaxIncoming \in Nat
  /\ \A h \in Headers : DOMAIN h = {"type", "link"}
  /\ \A f \in Filters : DOMAIN f = {"type", "link"}

VARIABLES
  alive,      (* task->ts_msgq is there                                     *)
  incoming,   (* mq_incoming, from its head                                 *)
  pending,    (* mq_pending: messages, and the links of the free list       *)
  last_free,  (* mq_last_free_msg                                           *)
  chunks,     (* the free list of mq_region                                 *)
  body,       (* each body: free memory, or its size, header and references *)
  pc,         (* where each task is in a blocking receive                   *)
  call,       (* the receive it is in: its filter, and if it reads too      *)
  failure     (* "none", or why the kernel has stopped                      *)

queueVars == <<alive, incoming, pending, last_free, chunks>>
vars == <<queueVars, body, pc, call, failure>>

Ids     == 0 .. (PendingCount - 1)
NoId    == -1
NoVirt  == 0
Base    == 1                   (* USER_MSGQ_VREMAP_START                     *)
Memory  == [count |-> 0, size |-> 0, header |-> [type |-> 0, link |-> 0]]
NoCall  == [filter |-> [type |-> Wildcard, link |-> Wildcard], read |-> FALSE]

Message == [body : Bodies, ro : BOOLEAN, virt : Nat]
Link    == [next : Ids \cup {NoId}]            (* MSG_PTR_IDX                *)

IsMessage(slot) == "body" \in DOMAIN slot      (* MSG_PTR_IS_VALID           *)
FreeIds(t) == {i \in Ids : ~IsMessage(pending[t][i])}

(* msgq_new: all the table is one list of free slots.                       *)
EmptyTable == [i \in Ids |-> [next |-> IF i = PendingCount - 1 THEN NoId ELSE i + 1]]
NewRegion  == <<[address |-> Base, pages |-> RegionPages]>>

Init ==
  /\ alive = [t \in Tasks |-> TRUE]
  /\ incoming = [t \in Tasks |-> <<>>]
  /\ pending = [t \in Tasks |-> EmptyTable]
  /\ last_free = [t \in Tasks |-> 0]
  /\ chunks = [t \in Tasks |-> NewRegion]
  /\ body = [b \in Bodies |-> Memory]
  /\ pc = [t \in Tasks |-> "user"]
  /\ call = [t \in Tasks |-> NoCall]
  /\ failure = "none"

-----------------------------------------------------------------------------
(* References to bodies.                                                    *)

(* msg_body_new with msg_new_from_msg: the first reference is the caller's. *)
NewBody(size, h) == [count |-> 1, size |-> size, header |-> h]
NewMessage(b)    == [body |-> b, ro |-> FALSE, virt |-> NoVirt]

(* msg_new_from_ref: those who receive a body may not write to its pages.   *)
NewReference(b)  == [NewMessage(b) EXCEPT !.ro = TRUE]

(* msg_body_dtor, with it msg_body_destroy                                  *)
Destroyed(f, b) == [f EXCEPT ![b] = Memory]

(* kernel_object_open_task, on the object of b                              *)
Opened(b) == [body EXCEPT ![b].count = @ + 1]

(* msg_destroy: kernel_object_ref_close; the last one frees the body.       *)
Closed(f, b) ==
  IF f[b].count = 1 THEN Destroyed(f, b) ELSE [f EXCEPT ![b].count = @ - 1]

(* Mutant: the slot taken is not unlinked from the free list. *)
PutMsgLinked(t, m) ==
  /\ last_free[t] # NoId
  /\ pending' = [pending EXCEPT ![t][last_free[t]] = m]
  /\ UNCHANGED last_free

(* __msgq_alloc_id and what its callers put in the slot.                    *)
PutMsg(t, m) ==
  /\ last_free[t] # NoId
  /\ pending' = [pending EXCEPT ![t][last_free[t]] = m]
  /\ last_free' = [last_free EXCEPT ![t] = pending[t][last_free[t]].next]

(* __msgq_release_id                                                        *)
ReleaseId(t, id) ==
  /\ pending' = [pending EXCEPT ![t][id] = [next |-> last_free[t]]]
  /\ last_free' = [last_free EXCEPT ![t] = id]

(* A task runs its own code and calls; ids of free slots are -EBADF.        *)
Calls(t) == failure = "none" /\ alive[t] /\ pc[t] = "user"
Has(t, id) == IsMessage(pending[t][id])

(* Mutant: no one is woken. *)
NoSignal(u) == UNCHANGED pc

(* event_signal of an auto-reset event: it wakes its waiter, if any, and    *)
(* is forgotten.                                                            *)
Signal(u) == pc' = [pc EXCEPT ![u] = IF @ = "asleep" THEN "retry" ELSE @]

Deliver(u, b) ==
  /\ Len(incoming[u]) < MaxIncoming
  /\ incoming' = [incoming EXCEPT ![u] = Append(@, NewReference(b))]
  /\ Signal(u)

-----------------------------------------------------------------------------
(* The system calls.  Those that fail change nothing and are left out, when *)
(* that is so.                                                              *)

(* __msg_request                                                            *)
Request(t, b, size) ==
  /\ body[b] = Memory
  /\ PutMsg(t, NewMessage(b))
  /\ body' = [body EXCEPT ![b] = NewBody(size, Memory.header)]
  /\ UNCHANGED <<alive, incoming, chunks, pc, call, failure>>

(* __msg_request, of sys_msg_request or sys_msg_write, when the body and    *)
(* its object are there but the reference cannot be allocated: the object   *)
(* takes the body with it and then __msg_request destroys it again.         *)
RequestFails(t, b) ==
  /\ last_free[t] # NoId
  /\ body[b] = Memory
  /\ failure' = "body_freed_twice"
  /\ UNCHANGED <<queueVars, body, pc, call>>

(* __msg_remap_flags                                                        *)
Remapped(t, id, size) ==
  /\ HasRoom(chunks[t], size)
  /\ chunks' = [chunks EXCEPT ![t] = Take(@, size)]
  /\ pending' = [pending EXCEPT ![t][id].virt = Head(chunks[t]).address]

(* __msg_map: mapping a message again forgets the run it was mapped to.     *)
Map(t, id) ==
  /\ Has(t, id)
  /\ LET size == body[pending[t][id].body].size IN size > 0 /\ Remapped(t, id, size)
  /\ UNCHANGED <<alive, incoming, last_free, body, pc, call, failure>>

(* __msg_unmap: a message that is mapped is refused, and one that is not    *)
(* has its pages, if it has any, released at address 0.                     *)
Unmap(t, id) ==
  /\ Has(t, id)
  /\ UnmapsBlindly \/ body[pending[t][id].body].size = 0
  /\ LET m   == pending[t][id]
         run == [address |-> m.virt, pages |-> body[m.body].size]
         merge == TryMerge(chunks[t], run)
     IN /\ run.pages = 0 \/ m.virt = NoVirt
        /\ IF merge.how = "double_free"
           THEN failure' = "run_freed_twice" /\ UNCHANGED <<chunks, pending>>
           ELSE /\ chunks' = [chunks EXCEPT ![t] =
                     IF merge.how = "apart" THEN Insert(run, @) ELSE merge.list]
                /\ pending' = [pending EXCEPT ![t][id].virt = NoVirt]
                /\ UNCHANGED failure
  /\ UNCHANGED <<alive, incoming, last_free, body, pc, call>>

(* __msg_send: the sender keeps its message.                                *)
Send(t, id, u) ==
  /\ Has(t, id)
  /\ alive[u]
  /\ Deliver(u, pending[t][id].body)
  /\ body' = Opened(pending[t][id].body)
  /\ UNCHANGED <<alive, pending, last_free, chunks, call, failure>>

(* __msg_release: the run of a message still mapped is not given back.      *)
Release(t, id) ==
  /\ Has(t, id)
  /\ ReleaseId(t, id)
  /\ body' = Closed(body, pending[t][id].body)
  /\ UNCHANGED <<alive, incoming, chunks, pc, call, failure>>

(* __msg_write_micro, also on a message received.                           *)
WriteMicro(t, id, h) ==
  /\ Has(t, id)
  /\ body' = [body EXCEPT ![pending[t][id].body].header = h]
  /\ UNCHANGED <<queueVars, pc, call, failure>>

(* sys_msg_write: request, write, send and release in one section.  The     *)
(* slot is taken and given back, so the table ends as it was.               *)
Write(t, u, b, h) ==
  /\ Calls(t)
  /\ last_free[t] # NoId
  /\ body[b] = Memory
  /\ alive[u]
  /\ Deliver(u, b)
  /\ body' = [body EXCEPT ![b] = NewBody(0, h)]
  /\ UNCHANGED <<alive, pending, last_free, chunks, call, failure>>

-----------------------------------------------------------------------------
(* Receiving.                                                               *)

(* The loop of __msg_recv_by_type passes over a message only if both its    *)
(* type and its link are asked for and differ.                              *)
Stops(m, f) ==
  LET h == body[m.body].header IN
    f.type = Wildcard \/ h.type = f.type \/ f.link = Wildcard \/ h.link = f.link

Matches(t, f) == {i \in DOMAIN incoming[t] : Stops(incoming[t][i], f)}

(* Mutant: the message received last is taken first. *)
Latest(hits) == CHOOSE i \in hits : \A j \in hits : j <= i
TakeLatest(t, c) ==
  LET i == Latest(Matches(t, c.filter))
      m == incoming[t][i]
  IN /\ incoming' = [incoming EXCEPT ![t] = RemoveAt(@, i)]
     /\ IF c.read
        THEN body' = Closed(body, m.body) /\ UNCHANGED <<pending, last_free>>
        ELSE PutMsg(t, m) /\ UNCHANGED body

(* The message found leaves the queue for the table and, when the call is   *)
(* sys_msg_read, is read and released at once.                              *)
TakeFirst(t, c) ==
  LET i == Earliest(Matches(t, c.filter))
      m == incoming[t][i]
  IN /\ incoming' = [incoming EXCEPT ![t] = RemoveAt(@, i)]
     /\ IF c.read
        THEN body' = Closed(body, m.body) /\ UNCHANGED <<pending, last_free>>
        ELSE PutMsg(t, m) /\ UNCHANGED body

(* One pass of the section of sys_msg_recv_by_type or sys_msg_read_by_type. *)
(* Incoming messages form a ring: with messages there and none to stop at,  *)
(* the search never ends.  A full table is -EMFILE and leaves the message.  *)
Receive(t, c, nonblock) ==
  /\ UNCHANGED <<alive, chunks>>
  /\ IF incoming[t] # <<>> /\ Matches(t, c.filter) = {}
     THEN /\ failure' = "hang"
          /\ UNCHANGED <<incoming, pending, last_free, body, pc, call>>
     ELSE /\ IF incoming[t] = <<>> \/ last_free[t] = NoId
             THEN UNCHANGED <<incoming, pending, last_free, body>>
             ELSE TakeFirst(t, c)
          /\ LET waits == incoming[t] = <<>> /\ ~nonblock IN
             /\ pc' = [pc EXCEPT ![t] = IF waits THEN "window" ELSE "user"]
             /\ call' = [call EXCEPT ![t] = IF waits THEN c ELSE NoCall]
          /\ UNCHANGED failure

(* The system calls sys_msg_recv, sys_msg_read and sys_msg_read_by_type.    *)
Recv(t) ==
  /\ Calls(t)
  /\ \E f \in Filters, read, nonblock \in BOOLEAN :
       /\ read \/ f = NoCall.filter
       /\ Receive(t, [filter |-> f, read |-> read], nonblock)

(* event_wait: an auto-reset event is never signaled beforehand.            *)
EventWait(t) ==
  /\ failure = "none"
  /\ pc[t] = "window"
  /\ pc' = [pc EXCEPT ![t] = "asleep"]
  /\ UNCHANGED <<queueVars, body, call, failure>>

RecvAgain(t) ==
  /\ failure = "none"
  /\ pc[t] = "retry"
  /\ Receive(t, call[t], FALSE)

-----------------------------------------------------------------------------
(* Mutant: an exiting task leaves its incoming messages behind. *)
HeldByTable(t) == {i \in Ids : Has(t, i)}
RefsOfTable(t, b) == Cardinality({i \in HeldByTable(t) : pending[t][i].body = b})
ForgetTable(t) ==
  [b \in Bodies |-> IF body[b].count > 0 /\ body[b].count = RefsOfTable(t, b)
                    THEN Memory
                    ELSE [body[b] EXCEPT !.count = @ - RefsOfTable(t, b)]]
ExitForgetful(t) ==
  /\ Calls(t)
  /\ alive' = [alive EXCEPT ![t] = FALSE]
  /\ body' = ForgetTable(t)
  /\ incoming' = [incoming EXCEPT ![t] = <<>>]
  /\ pending' = [pending EXCEPT ![t] = EmptyTable]
  /\ last_free' = [last_free EXCEPT ![t] = 0]
  /\ chunks' = [chunks EXCEPT ![t] = NewRegion]
  /\ UNCHANGED <<pc, call, failure>>

(* msgq_destroy closes a reference per message, incoming or pending.        *)
InQueue(t, b) == {i \in DOMAIN incoming[t] : incoming[t][i].body = b}
InTable(t, b) == {i \in Ids : Has(t, i) /\ pending[t][i].body = b}
RefsOf(t, b)  == Cardinality(InQueue(t, b)) + Cardinality(InTable(t, b))

Exit(t) ==
  /\ Calls(t)
  /\ alive' = [alive EXCEPT ![t] = FALSE]
  /\ body' = [b \in Bodies |->
       IF body[b].count > 0 /\ body[b].count = RefsOf(t, b) THEN Memory
       ELSE [body[b] EXCEPT !.count = @ - RefsOf(t, b)]]
  /\ incoming' = [incoming EXCEPT ![t] = <<>>]
  /\ pending' = [pending EXCEPT ![t] = EmptyTable]
  /\ last_free' = [last_free EXCEPT ![t] = 0]
  /\ chunks' = [chunks EXCEPT ![t] = NewRegion]
  /\ UNCHANGED <<pc, call, failure>>

(* msgq_new, for a new task that is given the id of one that has exited.    *)
Spawn(t) ==
  /\ failure = "none"
  /\ ~alive[t]
  /\ alive' = [alive EXCEPT ![t] = TRUE]
  /\ UNCHANGED <<incoming, pending, last_free, chunks, body, pc, call, failure>>

(* The system calls, by name, and the queue each of them asks for.          *)
SysMsgRequest(t) ==
  /\ Calls(t)
  /\ \/ \E b \in Bodies, size \in Sizes : Request(t, b, size)
     \/ \E b \in Bodies : RequestFails(t, b)

SysMsgUnmap(t)   == Calls(t) /\ \E id \in Ids : Unmap(t, id)
SysMsgMap(t)     == Calls(t) /\ \E id \in Ids : Map(t, id)
SysMsgSend(t)    == Calls(t) /\ \E id \in Ids, u \in Recipients : Send(t, id, u)
SysMsgRelease(t) == Calls(t) /\ \E id \in Ids : Release(t, id)
SysMsgWriteMicro(t) == Calls(t) /\ \E id \in Ids, h \in Headers : WriteMicro(t, id, h)

Step(t) ==
  \/ SysMsgRequest(t) \/ SysMsgUnmap(t) \/ SysMsgMap(t)
  \/ SysMsgSend(t) \/ SysMsgRelease(t) \/ SysMsgWriteMicro(t)
  \/ \E u \in Recipients, b \in Bodies, h \in Headers : Write(t, u, b, h)
  \/ Recv(t) \/ EventWait(t) \/ RecvAgain(t)
  \/ Exit(t) \/ Spawn(t)

Next == \E t \in Tasks : Step(t)

Spec == Init /\ [][Next]_vars

-----------------------------------------------------------------------------
(* The free slots of a task's table are one list that starts at             *)
(* mq_last_free_msg, follows the indices kept in the slots themselves and   *)
(* ends at -1, whatever the order messages were requested and released in:  *)
(* the assertions of __msgq_alloc_id and __msgq_release_id never fail.      *)
FreeListSound ==
  \A t \in Tasks :
    \E list \in SetToSeqs(FreeIds(t)) :
      LET ends == Append(list, NoId) IN
        /\ last_free[t] = ends[1]
        /\ \A i \in DOMAIN list : pending[t][list[i]].next = ends[i + 1]

Refs(b) ==
  Cardinality(UNION {{t} \X InQueue(t, b) : t \in Tasks})
    + Cardinality(UNION {{t} \X InTable(t, b) : t \in Tasks})

(* The count of a body's kernel object is the number of messages, anywhere, *)
(* that refer to it: a body is not freed under a receiver by the sender's   *)
(* release or exit, and is freed with its last message.                     *)
RefcountExact == \A b \in Bodies : body[b].count = Refs(b)

(* A message sent to a task that sleeps for one wakes it, whoever sends it  *)
(* and by whichever call.                                                   *)
SendWakes ==
  [][\A t \in Tasks :
       pc[t] = "asleep" /\ Len(incoming[t]) < Len(incoming'[t]) => pc'[t] # "asleep"]_vars

(* Messages are received in the order they were sent: one overtakes others  *)
(* only when the receiver has asked for a type and a link, and those passed *)
(* over have neither.                                                       *)
InOrder ==
  [][\A t \in Tasks :
       Len(incoming'[t]) < Len(incoming[t]) /\ alive'[t] =>
         \E i \in DOMAIN incoming[t], f \in Filters :
           /\ incoming'[t] = RemoveAt(incoming[t], i)
           /\ \A j \in 1..(i - 1) :
                LET h == body[incoming[t][j].body].header IN
                  /\ f.type \notin {Wildcard, h.type}
                  /\ f.link \notin {Wildcard, h.link}]_vars

(* What msg.h says of mq_incoming_ready: it is signaled when the queue has  *)
(* at least one message, so no task sleeps on it while one is there.        *)
BlockedOnlyWhenEmpty == \A t \in Tasks : pc[t] = "asleep" => incoming[t] = <<>>
=============================================================================
