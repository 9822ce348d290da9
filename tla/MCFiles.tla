------------------------------ MODULE MCFiles ------------------------------
(***************************************************************************)
(* The file system server in two parts, each checked on its own: its table *)
(* of open files with all its operations, and the clients that open files  *)
(* through its queue.  The first state chooses one of them.                *)
(***************************************************************************)
EXTENDS Files, TLC

CONSTANTS Offsets

Absolute(names) == [absolute |-> TRUE, names |-> names, trailing |-> FALSE]
Etc    == Absolute(<<"etc">>)
Passwd == Absolute(<<"etc", "passwd">>)

\* Files, directories, paths that are not there and one that takes a file for a
\* directory.
Paths == {Etc, Passwd, Absolute(<<>>), [Etc EXCEPT !.absolute = FALSE],
          [Passwd EXCEPT !.trailing = TRUE], Absolute(<<"etc", "passwd", "x">>)}
MCOffsets == {-20, 1}
MCRequests == {<<Passwd>>, <<Junk, Etc>>}

\* All pieces of a request but the last fill a fragment: one that has more than
\* one piece starts with Junk, which is no name of the tree.
ASSUME RequestAssumption ==
  /\ Junk \notin {"etc", "bin", "usr"}
  /\ \A r \in Requests :
       /\ r \in Seq({r[i] : i \in DOMAIN r}) /\ 1 \in DOMAIN r
       /\ \/ r[1] = Junk
          \/ r = <<r[1]>> /\ r[1].names \in Seq({r[1].names[i] : i \in DOMAIN r[1].names})

ASSUME FilesAssumption == Fs \notin Owners /\ NULL \notin Owners /\ Built \subseteq 1..Len(Created)

VARIABLE part

MCInit == part \in {"table", "clients"} /\ FilesInit

TableNext ==
  \E c \in Owners :
    \/ \E path \in Paths : FileOpen(c, path)
    \/ \E hid \in 0 .. (MaxOpen - 1) :
         Close(c, hid) \/ \E off \in Offsets, w \in {"SET", "CUR", "END"} : Lseek(c, hid, off, w)

MCNext ==
  /\ UNCHANGED part
  /\ \/ /\ part = "table" /\ TableNext
        /\ UNCHANGED <<queue, pc, clientVars, msg, declared, disturbed, failure>>
     \/ part = "clients" /\ FilesNext

MCSpec == MCInit /\ [][MCNext]_<<part, filesVars>>

Symmetric == Permutations(Owners)

\* Handles are those of the tasks that were told them (see FileTable); answers
\* that are lost leave handles behind, but not operations of the table.
HandlesKept == HandlesPrivate /\ (part = "table" => TableExact)
=============================================================================
