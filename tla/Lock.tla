-------------------------------- MODULE Lock --------------------------------
(***************************************************************************)
(* What a mutex promises its callers, without words, owners, wait queues   *)
(* or a scheduler: each lock is granted to a task only while no task has   *)
(* it, and only the task that has it gives it back.                        *)
(***************************************************************************)
CONSTANTS Tasks, Mutexes

VARIABLE held  (* the locks each task has *)

Init == held = [t \in Tasks |-> {}]

Grant(t, m) ==
  /\ \A u \in Tasks : m \notin held[u]
  /\ held' = [held EXCEPT ![t] = @ \cup {m}]

GiveBack(t, m) ==
  /\ m \in held[t]
  /\ held' = [held EXCEPT ![t] = @ \ {m}]

Next == \E t \in Tasks, m \in Mutexes : Grant(t, m) \/ GiveBack(t, m)

Spec == Init /\ [][Next]_held
=============================================================================
