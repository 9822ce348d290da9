------------------------------- MODULE Event -------------------------------
(***************************************************************************)
(* Events (event.c).  A manual event stays signaled until it is cleared;   *)
(* an auto-reset event only wakes whoever waits at the moment of the call. *)
(***************************************************************************)
EXTENDS WaitQueue

VARIABLES
  signaled,    (* ev->signaled                                              *)
  auto_reset   (* ev->auto_reset                                            *)

eventVars == <<signaled, auto_reset>>

(* init_event                                                               *)
EventInit ==
  /\ signaled = [e \in Events |-> FALSE]
  /\ auto_reset = [e \in Events |-> FALSE]

EventWait(t, e) ==
  /\ IF signaled[e]
     THEN QuietSection(t) /\ UNCHANGED waitVars
     ELSE Sleep(t, e)
  /\ UNCHANGED eventVars

(* Mutant: only the first waiter is woken. *)
EventSignalFirst(t, e) ==
  /\ IF ~auto_reset[e] /\ signaled[e]
     THEN QuietSection(t) /\ UNCHANGED waitVars
     ELSE SignalOne(t, e) /\ UNCHANGED <<locked, owner>>
  /\ signaled' = [signaled EXCEPT ![e] = @ \/ ~auto_reset[e]]
  /\ UNCHANGED auto_reset

EventSignal(t, e) ==
  /\ IF ~auto_reset[e] /\ signaled[e]
     THEN QuietSection(t) /\ UNCHANGED waitVars
     ELSE SignalAll(t, e) /\ UNCHANGED <<locked, owner>>
  /\ signaled' = [signaled EXCEPT ![e] = @ \/ ~auto_reset[e]]
  /\ UNCHANGED auto_reset

EventClear(t, e) ==
  /\ QuietSection(t)
  /\ signaled' = [signaled EXCEPT ![e] = FALSE]
  /\ UNCHANGED <<waitVars, auto_reset>>

EventSetAutoReset(t, e, flag) ==
  /\ QuietSection(t)
  /\ auto_reset' = [auto_reset EXCEPT ![e] = flag]
  /\ UNCHANGED <<waitVars, signaled>>

EventTypeOK ==
  /\ signaled \in [Events -> BOOLEAN]
  /\ auto_reset \in [Events -> BOOLEAN]
=============================================================================
