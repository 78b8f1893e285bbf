------------------------------ MODULE Chardev ------------------------------
(***************************************************************************)
(* examples/chardev.c and static_key.c: a character device that one        *)
(* process at a time may open (-EBUSY for the others) and that composes a  *)
(* message at each open.  static_key.c is derived from chardev.c: it       *)
(* reports the state of a static key and lets the holder write a command   *)
(* that switches it; its file operations name their owner, those of        *)
(* chardev.c do not.  Which of the two a behaviour is about is fixed in    *)
(* its initial state.                                                      *)
(*                                                                         *)
(* The actors are the processes and the one that inserts and removes the   *)
(* module.  They open the device through the node that device_create made. *)
(*                                                                         *)
(* External: opening a character device finds the registered driver, takes *)
(* a reference to the owner of its file operations if they name one (which *)
(* fails when the owner is going away) and calls its open; closing calls   *)
(* its release and drops the reference.  rmmod fails while references are  *)
(* held; a failing init frees the module whether or not there are any.     *)
(* read(2) calls on one open file do not overlap and go on where the last  *)
(* one ended; pread(2) passes any position and does not move the file's.   *)
(* What is behind the message can be read (a read that faults is not       *)
(* modelled).                                                              *)
(***************************************************************************)
EXTENDS Naturals

CONSTANTS
    Procs,        \* the processes
    Drivers,      \* the modules tried, of "chardev" and "static_key"
    Lengths,      \* lengths of the reads that are tried
    Positions,    \* positions that pread(2) is tried with
    IntModulus    \* an int wraps at this value (2^32 in the code)

ASSUME DriversAssumption == Drivers \subseteq {"chardev", "static_key"}
ASSUME LengthsAssumption == Lengths \subseteq Nat \ {0}
ASSUME PositionsAssumption == Positions \subseteq Nat
ASSUME IntModulusAssumption == IntModulus \in Nat \ {0}

VARIABLES
    driver,        \* the module the behaviour is about
    mod,           \* the module: where its init or exit is
    node,          \* the device node: absent or present
    already_open,
    counter,       \* the static of device_open (chardev.c)
    fkey,          \* the static key: on or off (static_key.c)
    msg,           \* the message, by what it tells
    pc,            \* per process: where it is
    offset,        \* per process: the position of its file
    told,          \* per process: the message composed by its open
    seen,          \* per process: the messages its reads came from, since EOF
    switched,      \* the holders that wrote a command since their open
    strayed        \* the holders that read behind the message since their open

modVars == <<driver, mod, node>>
devVars == <<already_open, counter, fkey, msg>>
fileVars == <<offset, told, seen, switched, strayed>>
vars == <<modVars, devVars, pc, fileVars>>

\* .owner = THIS_MODULE
HasOwner == driver = "static_key"

Counts == 0 .. IntModulus - 1
Messages == IF driver = "chardev" THEN Counts ELSE {"on", "off"}

\* The length of the text: that of chardev.c with a one-digit number,
\* "enabled\n" or "disabled\n".
MsgLen(m) ==
    CASE driver = "chardev" -> 40
      [] driver = "static_key" /\ m = "on" -> 8
      [] OTHER -> 9

\* "find": in open(2), the node was found; "cas" and "tell": in device_open;
\* "open": device_open returned 0; "stale": the module went away under it.
InModule == {"cas", "tell", "open"}
Locations == InModule \union {"idle", "find", "stale"}

\* Between register_chrdev and unregister_chrdev.
Registered == mod \in {"registered", "class", "live", "going", "destroyed"}

\* What the zeroed buffer stands for until a message is composed.
First == IF driver = "chardev" THEN 0 ELSE "off"

Init ==
    /\ driver \in Drivers
    /\ mod = "out" /\ node = "absent"
    /\ already_open = 0 /\ counter = 0 /\ fkey = "off" /\ msg = First
    /\ pc = [p \in Procs |-> "idle"]
    /\ offset = [p \in Procs |-> 0]
    /\ told = [p \in Procs |-> First]
    /\ seen = [p \in Procs |-> {}]
    /\ switched = {} /\ strayed = {}

Goto(p, loc) == pc' = [pc EXCEPT ![p] = loc]

\* Nothing is known of a file that is closed.
Forget(S) ==
    /\ offset' = [p \in Procs |-> IF p \in S THEN 0 ELSE offset[p]]
    /\ told' = [p \in Procs |-> IF p \in S THEN First ELSE told[p]]
    /\ seen' = [p \in Procs |-> IF p \in S THEN {} ELSE seen[p]]
    /\ switched' = switched \ S /\ strayed' = strayed \ S

-----------------------------------------------------------------------------
(* chardev_init and chardev_exit                                           *)

\* register_chrdev by a fresh module (its failure changes nothing).
chardev_init ==
    /\ mod = "out"
    /\ mod' = "registered"
    /\ already_open' = 0 /\ counter' = 0 /\ fkey' = "off" /\ msg' = First
    /\ UNCHANGED <<driver, node, pc, fileVars>>

ClassCreate ==
    /\ mod = "registered"
    /\ mod' = "class"
    /\ UNCHANGED <<driver, node, devVars, pc, fileVars>>

\* The memory of the module is freed, whoever is using it.
FreeModule ==
    /\ mod' = "out"
    /\ pc' = [p \in Procs |-> IF pc[p] \in InModule THEN "stale" ELSE pc[p]]
    /\ Forget(Procs)
    /\ UNCHANGED <<driver, node, devVars>>

\* The device is unregistered and init returns the error.  The references
\* of those who found the driver meanwhile do not save it.
ClassCreateError ==
    /\ mod = "registered"
    /\ FreeModule

\* device_create; its result is not tested.
DeviceCreate ==
    /\ mod = "class"
    /\ mod' = "live"
    /\ node' \in {"absent", "present"}
    /\ UNCHANGED <<driver, devVars, pc, fileVars>>

\* Mutant of RefCount: the file operations have no owner.
NoRefCount == {}

\* The processes that hold a reference to the module.
RefCount == IF HasOwner THEN {p \in Procs : pc[p] \in InModule} ELSE {}

Rmmod ==
    /\ mod = "live"
    /\ RefCount = {}
    /\ mod' = "going"
    /\ UNCHANGED <<driver, node, devVars, pc, fileVars>>

DeviceDestroy ==
    /\ mod = "going"
    /\ node' = "absent"
    /\ mod' = "destroyed"
    /\ UNCHANGED <<driver, devVars, pc, fileVars>>

\* class_destroy and unregister_chrdev, after which the module is freed.
Unregister ==
    /\ mod = "destroyed"
    /\ FreeModule

-----------------------------------------------------------------------------
(* open(2) and device_open                                                 *)

Open(p) ==
    /\ pc[p] = "idle"
    /\ node = "present"
    /\ Goto(p, "find")
    /\ UNCHANGED <<modVars, devVars, fileVars>>

\* chrdev_open: -ENXIO if the driver is gone or its owner is going.
ChrdevOpen(p) ==
    /\ pc[p] = "find"
    /\ Goto(p, IF Registered /\ ~(HasOwner /\ mod \in {"going", "destroyed"})
               THEN "cas" ELSE "idle")
    /\ UNCHANGED <<modVars, devVars, fileVars>>

\* Mutant of TakeDevice: the device is taken without looking at the flag.
TakeAnyway(p) ==
    /\ pc[p] = "cas"
    /\ already_open' = 1
    /\ Goto(p, "tell")
    /\ UNCHANGED <<modVars, counter, fkey, msg, fileVars>>

TakeDevice(p) ==
    /\ pc[p] = "cas"
    /\ already_open = 0
    /\ already_open' = 1
    /\ Goto(p, "tell")
    /\ UNCHANGED <<modVars, counter, fkey, msg, fileVars>>

Busy(p) ==
    /\ pc[p] = "cas"
    /\ already_open = 1
    /\ Goto(p, "idle")
    /\ UNCHANGED <<modVars, devVars, fileVars>>

\* Mutants of NewMessage: the first message is never replaced; the number
\* told is one ahead of the counter, which wraps too late.
OldMessage == msg
AheadMessage == IF driver = "chardev" THEN counter + 1 ELSE fkey

NewMessage == IF driver = "chardev" THEN counter ELSE fkey

\* sprintf into msg; chardev.c counts, static_key.c passes its branches.
ComposeMessage(p) ==
    /\ pc[p] = "tell"
    /\ msg' = NewMessage
    /\ counter' = IF driver = "chardev" THEN (counter + 1) % IntModulus
                                        ELSE counter
    /\ told' = [told EXCEPT ![p] = NewMessage]
    /\ Goto(p, "open")
    /\ UNCHANGED <<modVars, already_open, fkey, offset, seen, switched, strayed>>

-----------------------------------------------------------------------------
(* device_read, device_write and device_release                            *)

\* Mutant of ReadEnd: the message begins anew instead of end of file.
ReadOnAndOn(p) ==
    /\ pc[p] = "open"
    /\ offset[p] = MsgLen(msg)
    /\ offset' = [offset EXCEPT ![p] = 1]
    /\ UNCHANGED <<modVars, devVars, pc, told, seen, switched, strayed>>

\* At the terminating NUL: reset the offset and report end of file.
ReadEnd(p) ==
    /\ pc[p] = "open"
    /\ offset[p] = MsgLen(msg)
    /\ offset' = [offset EXCEPT ![p] = 0]
    /\ seen' = [seen EXCEPT ![p] = {}]
    /\ UNCHANGED <<modVars, devVars, pc, told, switched, strayed>>

\* Copy to user space until the buffer is full or the message ends.
ReadSome(p, length) ==
    /\ pc[p] = "open"
    /\ offset[p] < MsgLen(msg)
    /\ LET left == MsgLen(msg) - offset[p]
       IN  offset' = [offset EXCEPT ![p] =
                        @ + (IF length < left THEN length ELSE left)]
    /\ seen' = [seen EXCEPT ![p] = @ \union {msg}]
    /\ UNCHANGED <<modVars, devVars, pc, told, switched, strayed>>

device_read(p, length) == ReadEnd(p) \/ ReadSome(p, length)

\* device_read with a position that the caller chose (at the NUL: an end of
\* file that changes nothing).  It is not compared with the length of the
\* message: from behind the NUL the reader gets whatever is there, which may
\* be of any message.
Pread(p, pos) ==
    /\ pc[p] = "open"
    /\ \/ /\ pos < MsgLen(msg)
          /\ seen' = [seen EXCEPT ![p] = @ \union {msg}]
          /\ UNCHANGED strayed
       \/ /\ pos > MsgLen(msg)
          /\ seen' = [seen EXCEPT ![p] = Messages]
          /\ strayed' = strayed \union {p}
    /\ UNCHANGED <<modVars, devVars, pc, offset, told, switched>>

\* What a command of at most 10 bytes does to the key.  The bytes of a
\* shorter one than "enable" are compared with what the stack holds.
Effects(command) ==
    CASE command = "enable"  -> {"on"}
      [] command = "disable" -> {"off"}
      [] command = "short"   -> {fkey, "on", "off"}
      [] OTHER               -> {fkey}

Commands == {"enable", "disable", "short", "invalid"}

\* static_key.c; chardev.c answers -EINVAL.
device_write(p, command) ==
    /\ pc[p] = "open"
    /\ driver = "static_key"
    /\ fkey' \in Effects(command)
    /\ switched' = switched \union {p}
    /\ UNCHANGED <<modVars, already_open, counter, msg, pc, offset, told, seen, strayed>>

\* Mutant of device_release: the flag stays set.
ReleaseKeepsFlag(p) ==
    /\ pc[p] = "open"
    /\ Goto(p, "idle")
    /\ Forget({p})
    /\ UNCHANGED <<modVars, devVars>>

device_release(p) ==
    /\ pc[p] = "open"
    /\ already_open' = 0
    /\ Goto(p, "idle")
    /\ Forget({p})
    /\ UNCHANGED <<modVars, counter, fkey, msg>>

-----------------------------------------------------------------------------

device_open(p) == TakeDevice(p) \/ Busy(p) \/ ComposeMessage(p)

ProcStep(p) ==
    \/ Open(p) \/ ChrdevOpen(p) \/ device_open(p)
    \/ \E length \in Lengths : device_read(p, length)
    \/ \E pos \in Positions : Pread(p, pos)
    \/ \E command \in Commands : device_write(p, command)
    \/ device_release(p)

ModuleStep ==
    \/ chardev_init \/ ClassCreate \/ ClassCreateError \/ DeviceCreate
    \/ Rmmod \/ DeviceDestroy \/ Unregister

Next == ModuleStep \/ \E p \in Procs : ProcStep(p)

SafeSpec == Init /\ [][Next]_vars

\* The kernel runs what is in device_open.
Fairness == \A p \in Procs : WF_vars(device_open(p))

Spec == SafeSpec /\ Fairness

\* A program like cat: it goes on reading its open file.
UsersRead ==
    \A p \in Procs : WF_vars(\E length \in Lengths : device_read(p, length))


-----------------------------------------------------------------------------
(* Properties                                                              *)

TypeOK ==
    /\ mod \in {"out", "registered", "class", "live", "going", "destroyed"}
    /\ node \in {"absent", "present"}
    /\ already_open \in {0, 1}
    /\ counter \in Counts
    /\ fkey \in {"on", "off"}
    /\ msg \in Messages
    /\ pc \in [Procs -> Locations]
    /\ offset \in [Procs -> Nat]
    /\ told \in [Procs -> Messages]
    /\ seen \in [Procs -> SUBSET Messages]
    /\ switched \subseteq Procs /\ strayed \subseteq Procs

\* What a process gets by read(2), or by pread(2) from inside the message,
\* between its open, or an end of file, and the next end of file is one
\* message, the one composed when it opened the device: the position is its
\* own and the buffer is shared, but nobody composes another message between
\* two of its reads.  read(2) never looks past the end.  (A process that itself
\* passes a position behind the message to pread(2) gets anything: nothing
\* bounds *offset there, chardev.c:129, static_key.c:132.)
ReadsAreWhole ==
    \A p \in Procs : pc[p] = "open" =>
        /\ p \notin strayed => seen[p] \subseteq {told[p]}
        /\ offset[p] <= MsgLen(msg)

\* The state a holder is told is the state of the key until the holder
\* itself writes a command: nobody else can switch it meanwhile.
KeyStateIsCurrent ==
    driver = "static_key" =>
        \A p \in Procs : pc[p] = "open" /\ p \notin switched => told[p] = fkey

\* A process that keeps reading gets to the end of file, or has closed the
\* file: the position cannot miss the terminating NUL.
ReadersReachEof ==
    UsersRead => \A p \in Procs :
                    (pc[p] = "open" /\ seen[p] # {})
                        ~> (seen[p] = {} \/ pc[p] # "open")

\* "The kernel automatically manages the reference count when file
\* operations are in progress" (lkmpg.tex:1465): nobody has the device open,
\* or is opening it, once rmmod has begun to take the module away.
NoUserWhileGoing ==
    mod \in {"going", "destroyed"} => \A p \in Procs : pc[p] \notin InModule

\* The same of the driver whose file operations name their owner.
OwnerKeepsModule == HasOwner => NoUserWhileGoing

\* Where a process stands with the device.
standing(p) ==
    CASE pc[p] = "cas" -> "trying"
      [] pc[p] \in {"tell", "open"} -> "in"
      [] pc[p] = "stale" -> "revoked"
      [] OTHER -> "out"

Abstract == INSTANCE ExclusiveOpen
               WITH st <- [p \in Procs |-> standing(p)], Vanishes <- TRUE

\* The device of either driver is an exclusively opened file: one process at
\* a time is past device_open, over closes, removals and new insertions, and
\* a free device is granted to somebody who tries.  It never makes an opener
\* wait.  It may vanish under all of its users at once: with chardev.c, which
\* names no owner, when the module is removed, and with both when class_create
\* fails after somebody found the registered driver (static_key.c:66-70).
ImplementsExclusiveOpen == Abstract!Spec
=============================================================================
