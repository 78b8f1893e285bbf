----------------------------- MODULE MCDevices -----------------------------
(***************************************************************************)
(* The character devices, Chardev, Chardev2 and IoctlData, for TLC.  They  *)
(* share no state, so a behaviour is about one of them: "device" says      *)
(* which, and the reachable states are those of the one and of the other.  *)
(***************************************************************************)
EXTENDS Chardev, Integers, Sequences

CONSTANTS Programs, Raw, Parties, Chars, Texts, BUF_LEN,
          Files, Threads, Blocks, Args, CharModulus

\* Of chardev2.c: a character is not NUL, and no text is empty (the one of
\* userspace_ioctl.c is not); a process uses the ioctls or read and write.
ASSUME BufLenAssumption == BUF_LEN \in Nat \ {0}
ASSUME CharsAssumption == Chars \subseteq Int \ {0}
ASSUME TextsAssumption == Texts \subseteq Seq(Chars) \ {<<>>}
ASSUME PartiesAssumption == /\ Parties \subseteq SUBSET (Programs \union Raw)
                            /\ Programs \intersect Raw = {}

\* Of ioctl.c: values are numbers, and a file and its memory are something.
ASSUME ArgsAssumption == Args \subseteq Nat
ASSUME CharModulusAssumption == CharModulus \in Nat \ {0}
ASSUME NamesAssumption == "none" \notin Blocks /\ "nofile" \notin Files

VARIABLES device,
          party, message, busy, current, cpc, text, i, buf, position,
          state, private, heap, val, ioctl_num, call, filp, data, lastSet

\* Texts shorter than the buffer, filling it and longer than it.
MCTexts == {<<1>>, <<2, 2>>, <<1, 2, 1>>}

Ioctl == INSTANCE Chardev2
            WITH already_open <- busy, pc <- cpc, offset <- position

Data == INSTANCE IoctlData

ioctlVars == <<party, message, busy, current, cpc, text, i, buf, position>>
dataVars == <<state, private, heap, val, ioctl_num, call, filp, data, lastSet>>

MCInit ==
    /\ device \in {"chardev", "chardev2", "ioctl"}
    /\ Init /\ Ioctl!Init /\ Data!Init
    /\ device # "chardev2" => party = CHOOSE s \in Parties : TRUE
    /\ device # "chardev" => driver = CHOOSE d \in Drivers : TRUE

MCNext ==
    /\ \/ device = "chardev" /\ Next /\ UNCHANGED <<ioctlVars, dataVars>>
       \/ device = "chardev2" /\ Ioctl!Next /\ UNCHANGED <<vars, dataVars>>
       \/ device = "ioctl" /\ Data!Next /\ UNCHANGED <<vars, ioctlVars>>
    /\ UNCHANGED device

\* A device that a behaviour is not about has no step to be fair to.
MCSpec ==
    /\ MCInit
    /\ [][MCNext]_<<device, vars, ioctlVars, dataVars>>
    /\ Fairness
    /\ Ioctl!Fairness

\* All devices stay within their types.
DevicesTypeOK == TypeOK /\ Ioctl!TypeOK /\ Data!TypeOK

\* A read of chardev.c and static_key.c returns one message, whole, and the
\* loops of chardev2.c that begin in its buffer stay there: for every position
\* but those behind the message that a caller of pread(2), or of an ioctl that
\* asks for one byte, chooses itself.
CopiesAreWhole == ReadsAreWhole /\ Ioctl!LoopsStayInBuffer

\* An ioctl that asks gets what an ioctl has set: the last message of the
\* device in chardev2.c, the value of the same file in ioctl.c, whatever
\* other files, threads and processes do (chardev2.c: other ioctls); and no
\* call of ioctl.c is left with memory that was freed.
IoctlsReturnLastSet == Ioctl!IoctlsReturnLastSet /\ Data!FilesKeepApart

\* A process that reads until the end comes to it, and an ioctl program ends.
CallersFinish == ReadersReachEof /\ Ioctl!ProgramsEnd
=============================================================================
