------------------------------ MODULE FileTable ------------------------------
(***************************************************************************)
(* The file tree and the table of open files of the file system server     *)
(* (serv/fs/main.c, u_util.c).  A handle is an index of the table; its     *)
(* owner is the task whose request opened it.                              *)
(*                                                                         *)
(* The server's loop reaches only fs_file_open.  fs_close and fs_lseek are *)
(* there for requests it does not serve yet: they are modelled as what any *)
(* owner may ask with any handle.                                          *)
(***************************************************************************)
EXTENDS Integers, SequencesExt, FiniteSets

CONSTANTS
  Owners,   \* ids of the tasks that open files
  NULL,
  Built,    \* bound: how many files of the tree there is memory for
  MaxOpen   \* bound: the slots the table may grow to

VARIABLES
  tree,      \* the files of the tree, by path
  openfile,  \* openfile_list: handles, and NULL where one was closed
  told       \* the handles each task has been told and not closed

tableVars == <<tree, openfile, told>>

\* init_fs_tree, in the order it creates files.
Created == <<
  <<>>, <<"etc">>, <<"bin">>, <<"usr">>,
  <<"etc", "passwd">>, <<"etc", "hostname">>, <<"etc", "atomik-release">>,
  <<"bin", "uname">>, <<"etc", "atomik">>,
  <<"etc", "atomik", "settings.conf">>, <<"bin", "ls">> >>
Dirs == {Created[i] : i \in {1, 2, 3, 4, 9}}

\* When memory runs out init_fs_tree returns -ENOMEM, which _start does not
\* take for a failure: the server goes on with the files there are.
Init ==
  /\ \E n \in Built : tree = {Created[i] : i \in 1..n}
  /\ openfile = <<>>
  /\ told = [c \in Owners |-> {}]

\* fs_lseek: the files of a directory, or the bytes of a file.
MaxSize(file) ==
  IF file \in Dirs THEN Cardinality({f \in tree : f # <<>> /\ Front(f) = file}) ELSE 14

-----------------------------------------------------------------------------
\* A path is its names, whether it starts with a slash and whether it ends
\* with one.
Found(file)  == [file |-> file, error |-> "none"]
Error(error) == [file |-> NULL, error |-> error]

\* memfs_namei: names are looked up one by one; one that is to be a directory
\* and is not is ENOTDIR, and the first one not found is ENOENT.
Namei(path) ==
  LET names == path.names
      wrong == {i \in 1..Len(names) :
                  \/ SubSeq(names, 1, i) \notin tree
                  \/ /\ i < Len(names) \/ path.trailing
                     /\ SubSeq(names, 1, i) \notin Dirs}
      first == CHOOSE i \in wrong : \A j \in wrong : i <= j
  IN IF ~path.absolute THEN Error("ENOENT")
     ELSE IF wrong = {} THEN Found(names)
     ELSE Error(IF SubSeq(names, 1, first) \in tree THEN "ENOTDIR" ELSE "ENOENT")

\* Mutant: the first slot is taken for free.
FreeSlotFirst(list) == 1

\* ptr_list_append_check: the first slot that is NULL, or a new one.
FreeSlot(list) ==
  IF \E i \in DOMAIN list : list[i] = NULL
  THEN CHOOSE i \in DOMAIN list : list[i] = NULL /\ \A j \in 1..(i - 1) : list[j] # NULL
  ELSE Len(list) + 1

\* fs_file_open: the table with the handle in it and the answer.  Memory may
\* run out for the handle, which is ENOENT, and for the table, ENOMEM.
Opens(owner, path) ==
  LET named  == Namei(path)
      slot   == FreeSlot(openfile)
      handle == [owner |-> owner, file |-> named.file, ptr |-> 0]
      grown  == [i \in 1..(IF slot > Len(openfile) THEN slot ELSE Len(openfile)) |->
                   IF i = slot THEN handle ELSE openfile[i]]
      refused(e) == [list |-> openfile, error |-> e, handle |-> NULL]
  IN IF named.error # "none" THEN {refused(named.error)}
     ELSE {refused("ENOENT")} \cup
          IF slot > MaxOpen THEN {refused("ENOMEM")}
          ELSE {[list |-> grown, error |-> "none", handle |-> slot - 1]}

\* mf_handle_from_hid: NULL is -EBADF.
HandleFromHid(owner, hid) ==
  IF \/ hid >= Len(openfile)
     \/ openfile[hid + 1] = NULL
     \/ openfile[hid + 1].owner # owner
  THEN NULL ELSE openfile[hid + 1]

-----------------------------------------------------------------------------
FileOpen(owner, path) ==
  /\ \E a \in Opens(owner, path) :
       /\ openfile' = a.list
       /\ told' = IF a.handle = NULL THEN told
                  ELSE [told EXCEPT ![owner] = @ \cup {a.handle}]
  /\ UNCHANGED tree

Close(owner, hid) ==
  /\ HandleFromHid(owner, hid) # NULL
  /\ openfile' = [openfile EXCEPT ![hid + 1] = NULL]
  /\ told' = [told EXCEPT ![owner] = @ \ {hid}]
  /\ UNCHANGED tree

\* fs_lseek: SEEK_SET, SEEK_CUR and SEEK_END.
Lseek(owner, hid, off, whence) ==
  LET handle == HandleFromHid(owner, hid)
      size   == MaxSize(handle.file)
      to     == off + CASE whence = "SET" -> 0
                        [] whence = "CUR" -> handle.ptr
                        [] whence = "END" -> size
  IN /\ handle # NULL
     /\ openfile' = [openfile EXCEPT ![hid + 1].ptr =
                       IF to < 0 THEN 0 ELSE IF to > size THEN size ELSE to]
     /\ UNCHANGED <<tree, told>>

-----------------------------------------------------------------------------
\* A handle a task has been told leads to a handle of its own until the task
\* closes it, whatever others open and close, whatever fragments the server
\* joins, and although slots are used again.
HandlesPrivate ==
  \A c \in Owners : \A hid \in told[c] : HandleFromHid(c, hid) # NULL

\* No handle is left that no task knows of, and each is in its file.
TableExact ==
  \A i \in DOMAIN openfile :
    openfile[i] # NULL =>
      /\ i - 1 \in told[openfile[i].owner]
      /\ openfile[i].file \in tree
      /\ openfile[i].ptr \in 0..MaxSize(openfile[i].file)
=============================================================================
