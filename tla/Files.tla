-------------------------------- MODULE Files --------------------------------
(***************************************************************************)
(* Clients that open files through the file system server (user/fs.c,      *)
(* user/ipc.c, serv/fs/main.c): requests cut into fragments, the queue of  *)
(* the server, which puts fragments together again, and its answers.       *)
(*                                                                         *)
(* A request's payload is a sequence of pieces, one per fragment.  All but *)
(* the last fill their fragment.  A path that is longer than a fragment    *)
(* names no file of this tree.                                             *)
(***************************************************************************)
EXTENDS FileTable

CONSTANTS
  Requests,   \* the payloads clients send, sequences of pieces
  Junk,       \* a piece that fills a fragment and is no path
  Fs,         \* the id of the server
  MaxOpens,   \* bound: how often each client calls fs_open
  MayFail     \* whether memory may run out in the user library

Clients == Owners
Tasks   == Clients \cup {Fs}

VARIABLES
  queue,      \* the messages sent to each task
  pc,         \* where each task is
  payload,    \* what each client asks for
  sent,       \* how many of its fragments are sent
  opens,      \* how many times each client has called fs_open
  answer,     \* what the last fs_open of each client returned
  msg,        \* what the server has read of a message
  declared,   \* whether the service "fs" can be found
  disturbed,  \* history: fragments of two requests were joined, or memory ran
              \* out on the way of a request or an answer
  failure     \* "stale_message" once the server uses a message it has not got

clientVars == <<payload, sent, opens, answer>>
filesVars  == <<tableVars, queue, pc, clientVars, msg, declared, disturbed, failure>>

FilesInit ==
  /\ Init
  /\ queue = [t \in Tasks |-> <<>>]
  /\ pc = [t \in Tasks |-> IF t = Fs THEN "start" ELSE "idle"]
  /\ payload = [c \in Clients |-> NULL] /\ sent = [c \in Clients |-> 0]
  /\ opens = [c \in Clients |-> 0] /\ answer = [c \in Clients |-> NULL]
  /\ msg = NULL /\ declared = FALSE /\ disturbed = FALSE /\ failure = "none"

-----------------------------------------------------------------------------
\* Messages.  Sizes count half fragments: a last fragment is half full.

PayloadSize == 2                        \* MSG_FRAG_PAYLOAD_SIZE
Size(pieces) == 2 * (Len(pieces) - 1) + 1

\* fragmsg_write: mh_msg_size is that of the whole, in every fragment.  `of' is
\* the request it is part of, which the program does not know.
Fragment(c, i) ==
  [sender |-> c, msg_size |-> Size(payload[c]), data |-> payload[c][i],
   size |-> IF i < Len(payload[c]) THEN PayloadSize ELSE 1, of |-> opens[c]]

\* Mutant: the path is the last piece of the message.
PathOfLast(pieces) == Last(pieces)

\* fm_filename is a string: it ends in the first piece that is not full.
PathOf(pieces) == Head(pieces)
Named(pieces) == IF PathOf(pieces) = Junk THEN [absolute |-> TRUE, names |-> <<Junk>>, trailing |-> FALSE]
                 ELSE PathOf(pieces)

At(t, where) == failure = "none" /\ pc[t] = where
Goes(t, where) == pc' = [pc EXCEPT ![t] = where]

\* sys_msg_write wakes who sleeps for a message, not who is about to (MsgQueue).
Woken(where) == IF where = "asleep" THEN "retry" ELSE where

Reading(t) == failure = "none" /\ pc[t] \in {"read", "retry"}

\* A read that finds nothing waits.
Waits(t) ==
  /\ \/ Reading(t) /\ queue[t] = <<>> /\ Goes(t, "window")
     \/ At(t, "window") /\ Goes(t, "asleep")
  /\ UNCHANGED <<tableVars, queue, clientVars, msg, declared, disturbed, failure>>

-----------------------------------------------------------------------------
\* A client.

Returns(c, value) ==
  /\ Goes(c, "idle")
  /\ answer' = [answer EXCEPT ![c] = value]

\* fs_open: the service is asked for, as long as no answer was its id.
Open(c, pieces) ==
  /\ At(c, "idle") /\ opens[c] < MaxOpens
  /\ opens' = [opens EXCEPT ![c] = @ + 1]
  /\ payload' = [payload EXCEPT ![c] = pieces]
  /\ sent' = [sent EXCEPT ![c] = 0]
  /\ IF declared THEN Goes(c, "write") /\ UNCHANGED answer ELSE Returns(c, NULL)
  /\ UNCHANGED <<tableVars, queue, msg, declared, disturbed, failure>>

\* fragmsg_write, one fragment.
Write(c) ==
  /\ At(c, "write")
  /\ sent' = [sent EXCEPT ![c] = @ + 1]
  /\ queue' = [queue EXCEPT ![Fs] = Append(@, Fragment(c, sent[c] + 1))]
  /\ pc' = [pc EXCEPT ![Fs] = Woken(@),
                      ![c] = IF sent'[c] = Len(payload[c]) THEN "read" ELSE @]
  /\ UNCHANGED <<tableVars, payload, opens, answer, msg, declared, disturbed, failure>>

\* fs_open, when the memory for a fragment or for the answer runs out: what was
\* sent stays sent, and its answer is left for the next call.
GivesUp(c) ==
  /\ MayFail /\ (At(c, "write") \/ At(c, "read"))
  /\ Returns(c, NULL)
  /\ disturbed' = (disturbed \/ sent[c] > 0)
  /\ UNCHANGED <<tableVars, queue, payload, sent, opens, msg, declared, failure>>

\* The first message there is is the answer, whatever it answers.
TakeAnswer(c) ==
  /\ Reading(c) /\ queue[c] # <<>>
  /\ queue' = [queue EXCEPT ![c] = Tail(@)]
  /\ LET m == Head(queue[c]) IN
     /\ Returns(c, [to |-> payload[c], handle |-> m.handle, error |-> m.error])
     /\ told' = IF m.handle = NULL THEN told ELSE [told EXCEPT ![c] = @ \cup {m.handle}]
  /\ UNCHANGED <<tree, openfile, payload, sent, opens, msg, declared, disturbed, failure>>

-----------------------------------------------------------------------------
\* The server.

Start ==
  /\ At(Fs, "start")
  /\ declared' = TRUE /\ Goes(Fs, "read")
  /\ UNCHANGED <<tableVars, queue, clientVars, msg, disturbed, failure>>

\* fragmsg_read: a fragment is added to what was read.
Joined(whole, m) == [whole EXCEPT !.data = Append(@, m.data), !.size = @ + m.size]

\* fragmsg_read, the first fragment, whatever it is part of.
ReadFirst ==
  /\ Reading(Fs) /\ msg = NULL /\ queue[Fs] # <<>>
  /\ LET m == Head(queue[Fs]) IN
     /\ msg' = [m EXCEPT !.data = <<m.data>>]
     /\ Goes(Fs, IF m.msg_size <= PayloadSize THEN "serve" ELSE "read")
  /\ queue' = [queue EXCEPT ![Fs] = Tail(@)]
  /\ UNCHANGED <<tableVars, clientVars, declared, disturbed, failure>>

\* fragmsg_read, another: requests have one type and link, those of any client.
\* Too much of it is -E2BIG, but msgid < 0 is never true of an unsigned number.
ReadMore ==
  /\ Reading(Fs) /\ msg # NULL /\ queue[Fs] # <<>>
  /\ LET m == Head(queue[Fs])
         joined == Joined(msg, m)
     IN IF joined.size > msg.msg_size
        THEN failure' = "stale_message" /\ UNCHANGED <<msg, pc, disturbed>>
        ELSE /\ msg' = joined
             /\ Goes(Fs, IF joined.size = msg.msg_size THEN "serve" ELSE "read")
             /\ disturbed' = (disturbed \/ m.sender # msg.sender \/ m.of # msg.of)
             /\ UNCHANGED failure
  /\ queue' = [queue EXCEPT ![Fs] = Tail(@)]
  /\ UNCHANGED <<tableVars, clientVars, declared>>

\* fragmsg_read returns -ENOMEM, or, when it cannot make room for the fragments,
\* the length of the first, with no message for _start, which uses the last one.
ReadFails ==
  /\ MayFail /\ At(Fs, "read") /\ (msg # NULL => Len(msg.data) = 1)
  /\ failure' = "stale_message"
  /\ UNCHANGED <<tableVars, queue, pc, clientVars, msg, declared, disturbed>>

\* The answer is sent, or given up as memory runs out; the file stays open.
Serve ==
  /\ At(Fs, "serve")
  /\ \E a \in Opens(msg.sender, Named(msg.data)) :
       /\ openfile' = a.list
       /\ \/ /\ queue' = [queue EXCEPT ![msg.sender] =
                            Append(@, [handle |-> a.handle, error |-> a.error])]
             /\ pc' = [pc EXCEPT ![Fs] = "read",
                                 ![msg.sender] = Woken(@)]
             /\ UNCHANGED disturbed
          \/ MayFail /\ disturbed' = TRUE /\ Goes(Fs, "read") /\ UNCHANGED queue
  /\ msg' = NULL
  /\ UNCHANGED <<tree, told, clientVars, declared, failure>>

Client(c) == (\E r \in Requests : Open(c, r)) \/ Write(c) \/ GivesUp(c) \/ TakeAnswer(c)
Server    == Start \/ ReadFirst \/ ReadMore \/ ReadFails \/ Serve

FilesNext == (\E c \in Clients : Client(c)) \/ Server \/ (\E t \in Tasks : Waits(t))

-----------------------------------------------------------------------------
\* As long as the server joins fragments of one request only and no memory runs
\* out on the way, what fs_open returns is about the path it was asked for: a
\* handle is one of the file the path names, and ENOTDIR means a file on the way.
AnswersMatch ==
  \A c \in Clients :
    ~disturbed /\ answer[c] # NULL =>
      LET to == answer[c].to
          p  == Head(to)
      IN /\ answer[c].handle # NULL =>
              /\ to = <<p>> /\ p.absolute
              /\ openfile[answer[c].handle + 1].file = p.names
              /\ p.names \in tree /\ (p.trailing => p.names \in Dirs)
         /\ answer[c].error = "ENOTDIR" =>
              \E i \in 1..Len(p.names) : SubSeq(p.names, 1, i) \in tree \ Dirs
=============================================================================
