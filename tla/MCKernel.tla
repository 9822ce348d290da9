------------------------------ MODULE MCKernel ------------------------------
(***************************************************************************)
(* The machine level of the kernel, in parts each checked on its own:      *)
(* interrupts and context switches, the table of tasks and services, and   *)
(* the consoles, written to by anyone or by Linux programs.  The first     *)
(* state chooses one and the others never move.                            *)
(***************************************************************************)
EXTENDS Interrupts, TaskTable, LinuxAbi

MCPlaces == {<<1, 1>>, <<Width + 1, 0>>}
MCTexts == {<<g>> : g \in Glyphs} \cup {<<g, g>> : g \in Glyphs}

ASSUME InterruptsAssumption ==
  /\ Ints \subseteq ExceptionInts \cup UserInts \cup SyscallInts
  /\ Idle \notin Tasks /\ TlsSetters \subseteq Tasks /\ UserIsrs \subseteq Tasks
ASSUME TaskTableAssumption == IdleThread \notin Servers /\ NULL \notin Servers \cup Names

VARIABLE part

KernelInit ==
  /\ part \in {"interrupts", "tasks", "console", "linux"}
  /\ Init /\ TasksInit /\ ConsoleInit /\ LinuxInit
  /\ part \notin {"console", "linux"} => cursor = 0
KernelNext ==
  /\ UNCHANGED part
  /\ \/ part = "interrupts" /\ Next /\ UNCHANGED taskVars
     \/ part = "tasks" /\ TaskNext /\ UNCHANGED vars
     \/ part = "console" /\ ConsoleNext /\ UNCHANGED <<taskVars, vars>>
     \/ part = "linux" /\ LinuxNext /\ UNCHANGED <<taskVars, vars>>
  /\ part \notin {"console", "linux"} => UNCHANGED consoleVars
  /\ part # "linux" => UNCHANGED linuxVars

\* Fairness is that of the processor, see Interrupts.
KernelSpec ==
  /\ KernelInit /\ [][KernelNext]_<<part, taskVars, consoleVars, linuxVars, vars>>
  /\ WF_vars(part = "interrupts" /\ Code /\ UNCHANGED <<part, taskVars, consoleVars, linuxVars>>)
  /\ SF_vars(part = "interrupts" /\ Irq /\ UNCHANGED <<part, taskVars, consoleVars, linuxVars>>)
=============================================================================
