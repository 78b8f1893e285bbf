------------------------------ MODULE Chardev2 ------------------------------
(***************************************************************************)
(* examples/chardev2.c: a device that keeps a message, set and got by      *)
(* ioctl or by write and read, and examples/other/userspace_ioctl.c, the   *)
(* program that sets the message and gets it back, byte by byte and whole. *)
(*                                                                         *)
(* The ioctls exclude each other with a compare-and-swap on already_open;  *)
(* read and write do not look at it.  A step is one access to the message  *)
(* or to the flag, by a program or by a process that reads or writes the   *)
(* device directly.                                                        *)
(*                                                                         *)
(* A character is an integer, 0 is NUL, and a byte from 128 on is negative *)
(* where char is signed (x86, before Linux 6.2).  Insertion and removal of *)
(* the module are those of chardev.c (module Chardev).                     *)
(*                                                                         *)
(* External: ioctl(2) returns -1 for a negative result; every user buffer  *)
(* is accessible, and so is what is behind the message (a read that faults *)
(* is not modelled); pread(2) passes any position and does not move the    *)
(* file's.                                                                 *)
(***************************************************************************)
EXTENDS Integers, Sequences

CONSTANTS
    Programs,     \* processes running userspace_ioctl
    Raw,          \* processes that use read, write and one ioctl as they like
    Parties,      \* the sets of processes tried together
    Chars,        \* the characters of the texts, none of them 0
    Texts,        \* the texts that are set or written
    Positions,    \* positions and indices that Raw processes choose
    BUF_LEN       \* size of the message (80 in the code)

VARIABLES
    party,         \* the processes that use the device in this behaviour
    message,       \* the buffer, index 0 to BUF_LEN
    already_open,
    current,       \* the text of the last IOCTL_SET_MSG, cut to the buffer
    pc,            \* per process: its next statement
    text,          \* per process: the text it sets or writes
    i,             \* per process: the index of its loop
    buf,           \* per process: the characters it got
    offset         \* per process of Raw: the position of its file

devVars == <<message, already_open, current>>
procVars == <<text, i, buf>>
vars == <<party, devVars, pc, procVars, offset>>

Users == Programs \union Raw

\* The statements of the program, and of the ioctls it is in.
InIoctl == {"set_write", "set_done", "nth_read", "get_read", "get_done", "asked"}
Locations == InIoctl \union {"idle", "set", "nth", "get", "check", "read",
                             "pread", "astray", "write", "failed"}

Cut(t) == SubSeq(t, 1, IF Len(t) < BUF_LEN THEN Len(t) ELSE BUF_LEN)

Init ==
    /\ party \in Parties
    /\ message = [n \in 0 .. BUF_LEN |-> 0]
    /\ already_open = 0
    /\ current = <<>>
    /\ pc = [p \in Users |-> "idle"]
    /\ text = [p \in Users |-> <<>>]
    /\ i = [p \in Users |-> 0]
    /\ buf = [p \in Users |-> <<>>]
    /\ offset = [p \in Raw |-> 0]

Goto(p, loc) == pc' = [pc EXCEPT ![p] = loc]
Index(p, n) == i' = [i EXCEPT ![p] = n]

\* p is between two runs of the program, or two calls, that remember nothing.
Returned(p) ==
    /\ text' = [text EXCEPT ![p] = <<>>]
    /\ buf' = [buf EXCEPT ![p] = <<>>]
    /\ Index(p, 0)

\* The n-th byte, from 0, of a text in user space: its NUL after the end.
Byte(t, n) == IF n < Len(t) THEN t[n + 1] ELSE 0

-----------------------------------------------------------------------------
(* device_ioctl: taking and leaving the device                             *)

\* Mutant of Enter: the flag is not tested.
EnterAnyway(p, from, to) ==
    /\ pc[p] = from
    /\ already_open' = 1
    /\ Goto(p, to)
    /\ UNCHANGED <<message, current>>

Enter(p, from, to) ==
    /\ pc[p] = from
    /\ IF already_open = 0
       THEN already_open' = 1 /\ Goto(p, to)
       ELSE UNCHANGED already_open /\ Goto(p, "failed")
    /\ UNCHANGED <<message, current>>

Leave(p, to) ==
    /\ already_open' = 0
    /\ Goto(p, to)

-----------------------------------------------------------------------------
(* device_write and device_read, called by the ioctls and by Raw           *)

\* Mutant of Limit: the byte behind the last one of the buffer is used.
LimitPastEnd(length) == IF length < BUF_LEN + 1 THEN length ELSE BUF_LEN + 1

Limit(length) == IF length < BUF_LEN THEN length ELSE BUF_LEN

\* One round of the loop of device_write, or its end.
WriteByte(p, loc, length, after) ==
    /\ pc[p] = loc
    /\ IF i[p] < Limit(length)
       THEN /\ message' = [message EXCEPT ![i[p]] = Byte(text[p], i[p])]
            /\ Index(p, i[p] + 1)
            /\ UNCHANGED <<pc, text, buf>>
       ELSE /\ Goto(p, after)
            /\ IF after = "idle" THEN Returned(p) ELSE UNCHANGED procVars
            /\ UNCHANGED message
    /\ UNCHANGED <<already_open, current>>

\* One round of the loop of device_read with a large buffer, or its end.
ReadByte(p, loc, after) ==
    /\ pc[p] = loc
    /\ IF message[i[p]] # 0
       THEN /\ buf' = [buf EXCEPT ![p] = Append(@, message[i[p]])]
            /\ Index(p, i[p] + 1)
            /\ UNCHANGED <<pc, text>>
       ELSE /\ Goto(p, after)
            /\ IF after = "idle" THEN Returned(p) ELSE UNCHANGED procVars
    /\ UNCHANGED devVars

-----------------------------------------------------------------------------
(* userspace_ioctl.c                                                       *)

Start(p) ==
    /\ pc[p] = "idle"
    /\ \E t \in Texts : text' = [text EXCEPT ![p] = t]
    /\ Goto(p, "set")
    /\ UNCHANGED <<party, devVars, i, buf, offset>>

SetMsg(p) ==
    /\ Enter(p, "set", "set_write")
    /\ Index(p, 0)
    /\ UNCHANGED <<text, buf>>

\* Mutant of SetLength: the terminating NUL is not counted.
LengthOfText(t) == Limit(Len(t))

\* The loop that looks for the NUL starts when one character has been got,
\* gets it again, and so counts the NUL, unless it is the first.
SetLength(t) == IF t = <<>> THEN 0 ELSE Limit(Len(t) + 1)

SetMsgWrite(p) == WriteByte(p, "set_write", SetLength(text[p]), "set_done")

SetMsgDone(p) ==
    /\ pc[p] = "set_done"
    /\ Leave(p, "nth")
    /\ current' = Cut(text[p])
    /\ Index(p, 0)
    /\ buf' = [buf EXCEPT ![p] = <<>>]
    /\ UNCHANGED <<message, text>>

GetNthByte(p) ==
    /\ Enter(p, "nth", "nth_read")
    /\ UNCHANGED procVars

\* Mutant of GetNthByteDone: the program does not go on to the next byte.
SameByteAgain(p) ==
    /\ pc[p] = "nth_read"
    /\ LET c == message[i[p]]
       IN  Leave(p, IF c < 0 THEN "failed" ELSE IF c = 0 THEN "get" ELSE "nth")
    /\ UNCHANGED <<message, current, procVars>>

\* message[n], which the program prints until it is NUL; a negative result
\* is taken for a failure.
GetNthByteDone(p) ==
    /\ pc[p] = "nth_read"
    /\ LET c == message[i[p]]
       IN  /\ Leave(p, IF c < 0 THEN "failed" ELSE IF c = 0 THEN "get" ELSE "nth")
           /\ buf' = [buf EXCEPT ![p] = Append(@, c)]
    /\ Index(p, i[p] + 1)
    /\ UNCHANGED <<message, current, text>>

GetMsg(p) ==
    /\ Enter(p, "get", "get_read")
    /\ Index(p, 0)
    /\ buf' = [buf EXCEPT ![p] = <<>>]
    /\ UNCHANGED text

GetMsgRead(p) == ReadByte(p, "get_read", "get_done")

\* The NUL behind the copy, and the end of the ioctl.
GetMsgDone(p) ==
    /\ pc[p] = "get_done"
    /\ Leave(p, "idle")
    /\ Returned(p)
    /\ UNCHANGED <<message, current>>

\* A failed call ends the program; it may be run again.
Exit(p) ==
    /\ pc[p] = "failed"
    /\ Goto(p, "idle")
    /\ Returned(p)
    /\ UNCHANGED devVars

Program(p) ==
    /\ \/ SetMsg(p) \/ SetMsgWrite(p) \/ SetMsgDone(p)
       \/ GetNthByte(p) \/ GetNthByteDone(p)
       \/ GetMsg(p) \/ GetMsgRead(p) \/ GetMsgDone(p) \/ Exit(p)
    /\ UNCHANGED <<party, offset>>

-----------------------------------------------------------------------------
(* Processes that write to and read from the device file                   *)

Write(p) ==
    /\ pc[p] = "idle"
    /\ \E t \in Texts : text' = [text EXCEPT ![p] = t]
    /\ Index(p, 0)
    /\ Goto(p, "write")
    /\ UNCHANGED <<devVars, buf, offset>>

\* The position of the file stays where it is.
device_write(p) ==
    /\ WriteByte(p, "write", Len(text[p]), "idle")
    /\ UNCHANGED offset

\* At the end of the message: end of file, and back to the beginning.
ReadEnd(p) ==
    /\ pc[p] = "idle"
    /\ message[offset[p]] = 0
    /\ offset' = [offset EXCEPT ![p] = 0]
    /\ UNCHANGED <<devVars, pc, procVars>>

Read(p) ==
    /\ pc[p] = "idle"
    /\ message[offset[p]] # 0
    /\ Index(p, offset[p])
    /\ Goto(p, "read")
    /\ UNCHANGED <<devVars, text, buf, offset>>

ReadCopies(p) ==
    /\ ReadByte(p, "read", "idle")
    /\ offset' = [offset EXCEPT ![p] = IF pc'[p] = "idle" THEN i[p] ELSE @]

\* The buffer of the reader is full.
ReadFull(p) ==
    /\ pc[p] = "read"
    /\ buf[p] # <<>>
    /\ Goto(p, "idle")
    /\ offset' = [offset EXCEPT ![p] = i[p]]
    /\ Returned(p)
    /\ UNCHANGED devVars

device_read(p) == ReadEnd(p) \/ Read(p) \/ ReadCopies(p) \/ ReadFull(p)

\* device_read with a position that the caller chose, which nothing bounds.
\* From inside the buffer its loop is that of every read; from behind it the
\* loop is somewhere else ("astray").
Pread(p, pos) ==
    /\ pc[p] = "idle"
    /\ Index(p, pos)
    /\ Goto(p, IF pos <= BUF_LEN THEN "pread" ELSE "astray")
    /\ UNCHANGED <<devVars, text, buf, offset>>

\* The copy stops at a NUL or when the buffer of the reader is full.
PreadCopies(p) ==
    /\ \/ ReadByte(p, "pread", "idle")
       \/ /\ \/ pc[p] = "pread" /\ buf[p] # <<>>
             \/ pc[p] = "astray"
          /\ Goto(p, "idle")
          /\ Returned(p)
          /\ UNCHANGED devVars
    /\ UNCHANGED offset

\* IOCTL_GET_NTH_BYTE with an index that the caller chose, which nothing
\* bounds either: a byte of the message, of what is behind it if the index is.
AskByte(p, n) ==
    /\ Enter(p, "idle", "asked")
    /\ Index(p, n)
    /\ UNCHANGED <<text, buf, offset>>

AskByteDone(p) ==
    /\ pc[p] = "asked"
    /\ Leave(p, "idle")
    /\ Returned(p)
    /\ UNCHANGED <<message, current, offset>>

RawStep(p) ==
    /\ \/ Write(p) \/ device_write(p) \/ device_read(p)
       \/ \E pos \in Positions : Pread(p, pos) \/ AskByte(p, pos)
       \/ PreadCopies(p) \/ AskByteDone(p)
       \/ Exit(p) /\ UNCHANGED offset
    /\ UNCHANGED party

-----------------------------------------------------------------------------

Next ==
    \/ \E p \in Programs \intersect party : Start(p) \/ Program(p)
    \/ \E p \in Raw \intersect party : RawStep(p)

\* A program that was started is run; nothing in it blocks.
Fairness == \A p \in Programs : WF_vars(Program(p))

Spec == Init /\ [][Next]_vars /\ Fairness

-----------------------------------------------------------------------------
(* Properties                                                              *)

TypeOK ==
    /\ party \subseteq Users
    /\ message \in [0 .. BUF_LEN -> Chars \union {0}]
    /\ already_open \in {0, 1}
    /\ current \in Seq(Chars)
    /\ pc \in [Users -> Locations]
    /\ text \in [Users -> Texts \union {<<>>}]
    /\ i \in [Users -> Nat]
    /\ buf \in [Users -> Seq(Chars \union {0})]
    /\ offset \in [Raw -> Nat]

\* The message stays terminated however many processes write to it at the
\* same time, so that no loop over it that begins in the buffer, in the driver
\* or byte by byte in the program, leaves it, and read(2) always begins there.
\* (pread(2) and IOCTL_GET_NTH_BYTE begin where the caller says, which
\* chardev2.c:68 and 168 do not bound: of those that begin behind the buffer
\* nothing is said.)
LoopsStayInBuffer ==
    /\ message[BUF_LEN] = 0
    /\ \A p \in Users :
           pc[p] \in {"read", "pread", "get_read", "nth", "nth_read"} => i[p] <= BUF_LEN
    /\ \A p \in Raw : offset[p] <= BUF_LEN

\* IOCTL_GET_MSG gives the message of the last IOCTL_SET_MSG, whole: not a
\* mixture of two, not one with the tail of an older one ("set that to be the
\* device's message", chardev2.c:135, "the current message", 153; "Used to
\* prevent concurrent access into the same device", 28-29).
GetReturnsLastSet ==
    \A p \in Programs : pc[p] = "get_done" => buf[p] = current

\* The same, as long as everybody uses ioctls: of the programs that run at
\* the same time "we don't want to talk to two" (chardev2.c:128).
IoctlsReturnLastSet == party \subseteq Programs => GetReturnsLastSet

\* The program ends: its loop over the bytes of a message that others keep
\* changing comes to a NUL or to a failed ioctl.
ProgramsEnd ==
    \A p \in Programs : pc[p] = "set" ~> pc[p] = "idle"
=============================================================================
