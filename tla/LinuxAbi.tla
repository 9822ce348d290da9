------------------------------ MODULE LinuxAbi ------------------------------
(***************************************************************************)
(* Linux programs (osabi/elf32-linux-gnu): the shared object that waits    *)
(* for the file server, takes interrupt 0x80 and answers the system calls  *)
(* of its program, and the kernel calls it prints with, which write to the *)
(* console that is shown one page of a string, or one character of a       *)
(* buffer, at a time.                                                      *)
(*                                                                         *)
(* What is printed of calls that are not implemented is left out.          *)
(***************************************************************************)
EXTENDS Console

CONSTANTS
  Programs,
  Texts,      \* bound: buffers written, each on one page, and the character after it
  Cuts,       \* where a string of the object may cross a page, 0 if it does not
  Breaks,     \* addresses of the data segment
  Bases,      \* where programs put their thread areas
  LinuxCalls  \* bound: how many system calls are made

ASSUME LinuxAssumption ==
  /\ Texts \subseteq Seq(Glyphs) \ {<<>>} /\ Cuts \subseteq Nat
  /\ Breaks # {} /\ Breaks \subseteq Nat \ {0} /\ LinuxCalls \in Nat

VARIABLES
  served,   \* whether the service "fs" is declared
  prog,     \* the programs
  cut       \* of each program, where the strings of its object cross a page

linuxVars == <<served, prog, cut>>

ESRCH == 3
EFAULT == 14
EINVAL == 22
ENOSYS == 38

UserTlsBase == 0          \* where the loader has put %gs

\* A program waiting for the service: `out' is what is left to print in its
\* system call, `own' the thread areas whose first word is their address.
NewProgram == [pc |-> "waits", gate |-> FALSE, eax |-> 0, out |-> <<>>, entry |-> -1,
               base |-> UserTlsBase, own |-> {}, brk |-> Min(Breaks)]

LinuxInit ==
  /\ served = FALSE /\ prog = [p \in Programs |-> NewProgram]
  /\ cut \in [Programs -> Cuts]

Becoming(p, to) == prog' = [prog EXCEPT ![p] = to]
Returns(p, value) == Becoming(p, [prog[p] EXCEPT !.eax = value])
AtCall(p) == prog[p].pc = "runs" /\ prog[p].out = <<>>

-----------------------------------------------------------------------------
(* The start of a program.                                                  *)

\* declare_service of the file server
Declare == ~served /\ served' = TRUE /\ UNCHANGED <<prog, cut, consoleVars>>

\* wait_for_service asks until the answer is not -ESRCH.
WaitForService(p) ==
  /\ prog[p].pc = "waits" /\ served
  /\ Becoming(p, [prog[p] EXCEPT !.pc = "starts"])
  /\ UNCHANGED <<served, cut, consoleVars>>

\* linux_abi_init, after the files it opens for a test: the gate is set, the
\* first thread area gets its address and the program is entered.
AbiInit(p) ==
  /\ prog[p].pc = "starts"
  /\ Becoming(p, [prog[p] EXCEPT !.pc = "runs", !.gate = TRUE, !.own = @ \cup {prog[p].base}])
  /\ UNCHANGED <<served, cut, consoleVars>>

-----------------------------------------------------------------------------
(* System calls.                                                            *)

String(chars) == [kind |-> "string", chars |-> chars, at |-> 0]
Light  == String(<<"esc", "[", "n1", ";", "n37", "m">>)
Normal == String(<<"esc", "[", "n0", "m">>)

\* put: the kernel prints one character more than it is asked to.
Put(text) == [kind |-> "buffer", chars |-> text, at |-> 0]

Implemented == {"exit", "write", "open", "brk", "uname", "writev", "set_thread_area", "exit_group"}
NotImplemented == {"fork", "process_vm_writev"}

\* sys_write, which leaves eax as it was: the number of the call.
Write(p, fd, text) ==
  IF fd \in {1, 2} THEN Becoming(p, [prog[p] EXCEPT !.out = <<Light, Put(text), Normal>>, !.eax = 4])
  ELSE Returns(p, -ENOSYS)

\* Mutant: colors are not put back.
WritevLight(p, fd, texts) ==
  IF fd \in {1, 2}
  THEN Becoming(p, [prog[p] EXCEPT !.eax = 146,
                                   !.out = <<Light>> \o [i \in DOMAIN texts |-> Put(texts[i])]])
  ELSE Returns(p, -ENOSYS)

\* sys_writev
Writev(p, fd, texts) ==
  IF fd \in {1, 2}
  THEN Becoming(p, [prog[p] EXCEPT !.eax = 146,
                                   !.out = <<Light>> \o [i \in DOMAIN texts |-> Put(texts[i])] \o <<Normal>>])
  ELSE Returns(p, -ENOSYS)

\* sys_uname
Uname(p, buf) == Returns(p, IF buf = "NULL" THEN -EFAULT ELSE 0)

\* sys_brk and syscall_krn_brk, where memory may be short.
Brk(p, a) ==
  CASE a = 0 -> Returns(p, prog[p].brk)
    [] a # 0 /\ a < prog[p].brk -> Returns(p, -EINVAL)
    [] OTHER -> \E b \in {a, prog[p].brk} : Becoming(p, [prog[p] EXCEPT !.brk = b, !.eax = b])

\* sys_set_thread_area: -1 is replaced in the descriptor, which the program
\* may use again.
SetThreadArea(p, desc) ==
  LET entry == IF desc.entry = -1 THEN 6 ELSE desc.entry IN
  CASE desc.null -> Returns(p, -EFAULT)
    [] ~desc.null /\ ~desc.valid -> Returns(p, -EINVAL)
    [] ~desc.null /\ desc.valid /\ entry # 6 -> Returns(p, -ESRCH)
    [] OTHER -> Becoming(p, [prog[p] EXCEPT !.eax = 0, !.entry = 6, !.base = desc.base,
                                            !.own = @ \cup {desc.base}])

\* sys_exit
SysExit(p) == Becoming(p, [prog[p] EXCEPT !.pc = "exited"])

Descriptors(p) == [null : BOOLEAN, valid : BOOLEAN, entry : {prog[p].entry, 7}, base : Bases]

\* syscall_run
SyscallRun(p, call) ==
  CASE call \in {"exit", "exit_group"} -> SysExit(p)
    [] call = "write" -> \E fd \in {0, 1}, text \in Texts : Write(p, fd, text)
    [] call = "writev" -> \E fd \in {0, 2}, a, b \in Texts : Writev(p, fd, <<a, b>>)
    [] call = "brk" -> \E a \in Breaks \cup {0} : Brk(p, a)
    [] call = "uname" -> \E buf \in {"NULL", "buf"} : Uname(p, buf)
    [] call = "set_thread_area" -> \E desc \in Descriptors(p) : SetThreadArea(p, desc)
    [] OTHER -> Returns(p, -ENOSYS)

Interrupt(p) ==
  /\ AtCall(p) /\ prog[p].gate /\ calls < LinuxCalls /\ calls' = calls + 1
  /\ \E call \in Implemented \cup NotImplemented : SyscallRun(p, call)
  /\ UNCHANGED <<served, cut, con, syscon, content, free, cursor, shown>>

-----------------------------------------------------------------------------
(* Printing.                                                                *)

\* What is left to print once n characters of the first are printed.
Printed(p, n) ==
  LET first == Head(prog[p].out) IN
  IF n = Len(first.chars) THEN Tail(prog[p].out)
  ELSE <<[first EXCEPT !.at = n]>> \o Tail(prog[p].out)

\* syscall_krn_debug_string: what is on one page is printed in a section.  At
\* the end of a page the next page is not looked up before it is read, and a
\* zero there ends the string.
DebugString(p) ==
  LET first == Head(prog[p].out)
      end == IF first.at < cut[p] /\ cut[p] < Len(first.chars) THEN cut[p] ELSE Len(first.chars)
  IN /\ first.kind = "string"
     /\ Becomes(syscon, PutAll(Screen(syscon), SubSeq(first.chars, first.at + 1, end)))
     /\ \E n \in {end, Len(first.chars)} : Becoming(p, [prog[p] EXCEPT !.out = Printed(p, n)])

\* syscall_krn_debug_buf: each character in a section of its own, one more than
\* there are.
DebugBuf(p) ==
  LET first == Head(prog[p].out) IN
  /\ first.kind = "buffer"
  /\ IF Len(first.chars) = 1 THEN UNCHANGED consoleVars
     ELSE Becomes(syscon, PutChar(Screen(syscon), first.chars[first.at + 1]))
  /\ Becoming(p, [prog[p] EXCEPT !.out = Printed(p, first.at + 1)])

KernelCall(p) ==
  /\ prog[p].pc = "runs" /\ prog[p].out # <<>>
  /\ DebugString(p) \/ DebugBuf(p)
  /\ UNCHANGED <<served, cut, calls>>

Program(p) == WaitForService(p) \/ AbiInit(p) \/ Interrupt(p) \/ KernelCall(p)

LinuxNext == Declare \/ \E p \in Programs : Program(p)

LinuxSpec == ConsoleInit /\ LinuxInit /\ [][LinuxNext]_<<linuxVars, consoleVars>>

-----------------------------------------------------------------------------
\* syskrn.c: the escape sequences of a program are never cut off by what
\* another one prints in between.
EscapesWhole == ~con[syscon].escape.on

\* The program has printed the first page of a string and not the rest.
MidString(p) == prog[p].out # <<>> /\ Head(prog[p].out).kind = "string" /\ Head(prog[p].out).at > 0

\* syskrn.c, of the section in debug_string: "it prevents escape sequences to be
\* cutted off by preemption".  No one prints while the string of another program
\* has an escape sequence open.
EscapesUncut ==
  [][\A p, q \in Programs :
       p # q /\ MidString(q) /\ con[syscon].escape.on => ~KernelCall(p)]_<<prog, con>>

\* Programs write in a color of theirs and put the color back, each with calls
\* of its own: once programs may run, in whatever order they write, escape
\* sequences are complete and when no program is in a write the color is the
\* one there was; and a program that runs finds the address of its thread area
\* there.
LinuxKept ==
  served =>
    /\ EscapesWhole
    /\ (\A p \in Programs : prog[p].out = <<>>) => con[syscon].color = DefaultColor
    /\ \A p \in Programs : prog[p].pc = "runs" => prog[p].base \in prog[p].own
=============================================================================
