------------------------------ MODULE GpioDev ------------------------------
(***************************************************************************)
(* examples/led.c and dht11.c: a character device in front of one GPIO     *)
(* line, an LED that is written and a sensor that is read.  The two share  *)
(* one life cycle: init takes five resources one after the other and sets  *)
(* the direction of the line, a failure jumps into the list of releases,   *)
(* and exit goes through the whole list.  Users come as soon as the node   *)
(* exists, which is before the line is requested.                          *)
(*                                                                         *)
(* dht11.c takes a measurement in open(2): it pulls the line low, lets go  *)
(* of it, listens, and tries again when that fails.  "woken" says whether  *)
(* the sensor saw the line pulled low, which takes a line that is driven.  *)
(*                                                                         *)
(* External: opening a character device takes a reference to the owner of  *)
(* its file operations, unless they name none or the owner is going away;  *)
(* cdev_init clears the owner of the cdev itself.  rmmod fails while       *)
(* references are held; an init that fails does not look at them.  Setting *)
(* the value of an input changes what it would drive, not its direction.   *)
(***************************************************************************)
EXTENDS Naturals, Sequences

CONSTANTS
    Devices,    \* of "led" (Linux before 6.4), "led64" (since) and "dht11"
    Users,      \* the processes that use the node
    Lengths,    \* lengths of the reads that are tried
    Retries     \* how often dht11.c tries a measurement (5 in the code)

VARIABLES
    gadget,       \* the module the behaviour is about (never changes)
    stage,        \* out, init, undo, live or exit
    place,        \* the next step of that stage
    taken,        \* the resources held by the module
    dir, level,   \* the line: its direction, and the level it drives if "out"
    woken,        \* the sensor was told to send and has not yet sent
    size,         \* device_buffer_size (led.c)
    signal,       \* control_signal[0] (led.c)
    msgLen,       \* strlen(msg) (dht11.c)
    pc,           \* per process: where it is
    retry,        \* per process: the loop counter of device_open (dht11.c)
    offset        \* per process: the position of its file (dht11.c)

modVars == <<gadget, stage, place, taken>>
lineVars == <<dir, level, woken>>
ledVars == <<size, signal>>
fileVars == <<retry, offset>>
vars == <<modVars, lineVars, ledVars, msgLen, pc, fileVars>>

Resources == <<"region", "cdev", "class", "node", "gpio">>

\* The file operations of led.c name their owner before Linux 6.4 only.
HasOwner == gadget # "led64"

\* "find": in open(2), the node was found; "stale": the module went away.
InOpen == {"low", "high", "listen", "wait", "restore"}
InWrite == {"copy", "switch", "on", "off"}
InModule == InOpen \union InWrite \union {"open"}

\* The texts for measurements of one, and of two digits each.
MsgLens == {34, 36}

Init ==
    /\ gadget \in Devices
    /\ stage = "out" /\ place = 1 /\ taken = {}
    /\ dir = "in" /\ level = 0 /\ woken = FALSE
    /\ size = 0 /\ signal = "other" /\ msgLen = 0
    /\ pc = [p \in Users |-> "idle"]
    /\ retry = [p \in Users |-> 0]
    /\ offset = [p \in Users |-> 0]

Goto(p, loc) == pc' = [pc EXCEPT ![p] = loc]

-----------------------------------------------------------------------------
(* init and exit                                                           *)

\* A fresh module: its variables are zero.
Load ==
    /\ stage = "out"
    /\ stage' = "init" /\ place' = 1
    /\ size' = 0 /\ signal' = "other" /\ msgLen' = 0
    /\ UNCHANGED <<gadget, taken, lineVars, pc, fileVars>>

InitStep ==
    /\ stage = "init" /\ place <= Len(Resources)
    /\ taken' = taken \union {Resources[place]}
    /\ place' = place + 1
    /\ UNCHANGED <<gadget, stage, lineVars, ledVars, msgLen, pc, fileVars>>

\* gpio_direction_output, low for the LED and high for the sensor.
SetDirection ==
    /\ stage = "init" /\ place = Len(Resources) + 1
    /\ dir' = "out" /\ level' = IF gadget = "dht11" THEN 1 ELSE 0
    /\ stage' = "live"
    /\ UNCHANGED <<gadget, place, taken, woken, ledVars, msgLen, pc, fileVars>>

\* Releasing from the n-th resource down; after the first one the memory of
\* the module is freed, whoever is using it.
ReleaseFrom(n) ==
    IF n = 0
    THEN /\ stage' = "out" /\ place' = 1
         /\ pc' = [p \in Users |-> IF pc[p] \in InModule THEN "stale" ELSE pc[p]]
    ELSE /\ stage' = IF stage = "init" THEN "undo" ELSE stage
         /\ place' = n
         /\ UNCHANGED pc

\* Mutant of FailLabel: every failure jumps one label too far.
NextLabel(step) == IF step < 3 THEN 0 ELSE step - 2

\* Where the failure of a step goes: fail1 for the second one, and so on.
FailLabel(step) == step - 1

InitFails ==
    /\ stage = "init"
    /\ ReleaseFrom(FailLabel(place))
    /\ UNCHANGED <<gadget, taken, lineVars, ledVars, msgLen, fileVars>>

\* A release of the list at the end of init, or of the same list in exit.
Release ==
    /\ stage \in {"undo", "exit"} /\ place <= Len(Resources)
    /\ taken' = taken \ {Resources[place]}
    /\ ReleaseFrom(place - 1)
    /\ UNCHANGED <<gadget, lineVars, ledVars, msgLen, fileVars>>

\* The processes that hold a reference to the module.
RefCount == IF HasOwner THEN {p \in Users : pc[p] \in InModule} ELSE {}

Rmmod ==
    /\ stage = "live"
    /\ RefCount = {}
    /\ stage' = "exit"
    /\ UNCHANGED <<gadget, place, taken, lineVars, ledVars, msgLen, pc, fileVars>>

\* The first statement of exit sets the line low; the releases follow.
ExitLow ==
    /\ stage = "exit" /\ place = Len(Resources) + 1
    /\ level' = 0
    /\ place' = Len(Resources)
    /\ UNCHANGED <<gadget, stage, taken, dir, woken, ledVars, msgLen, pc, fileVars>>

-----------------------------------------------------------------------------
(* open(2); device_open of dht11.c                                         *)

Open(p) ==
    /\ pc[p] = "idle"
    /\ "node" \in taken
    /\ Goto(p, "find")
    /\ UNCHANGED <<modVars, lineVars, ledVars, msgLen, fileVars>>

\* chrdev_open: -ENXIO if the device is gone or its owner is going.
ChrdevOpen(p) ==
    /\ pc[p] = "find"
    /\ Goto(p, IF "cdev" \notin taken \/ (HasOwner /\ stage = "exit")
               THEN "idle"
               ELSE IF gadget = "dht11" THEN "low" ELSE "open")
    /\ retry' = [retry EXCEPT ![p] = 0]
    /\ offset' = [offset EXCEPT ![p] = 0]
    /\ UNCHANGED <<modVars, lineVars, ledVars, msgLen>>

\* dht11_read_data: the line is low for 20 ms, ...
PullLow(p) ==
    /\ pc[p] = "low"
    /\ level' = 0
    /\ woken' = (woken \/ dir = "out")
    /\ Goto(p, "high")
    /\ UNCHANGED <<modVars, dir, ledVars, msgLen, fileVars>>

\* ... then high, ...
PullHigh(p) ==
    /\ pc[p] = "high"
    /\ level' = 1
    /\ Goto(p, "listen")
    /\ UNCHANGED <<modVars, dir, woken, ledVars, msgLen, fileVars>>

\* ... and then an input.
Listen(p) ==
    /\ pc[p] = "listen"
    /\ dir' = "in"
    /\ Goto(p, "wait")
    /\ UNCHANGED <<modVars, level, woken, ledVars, msgLen, fileVars>>

\* All 40 bits arrive in time and the checksum is right.
Measured(p) ==
    /\ pc[p] = "wait"
    /\ woken
    /\ woken' = FALSE
    /\ dir' = "out" /\ level' = 1
    /\ msgLen' \in MsgLens
    /\ Goto(p, "open")
    /\ UNCHANGED <<modVars, ledVars, fileVars>>

\* Mutant of NotMeasured: the loop counts in a variable that starts anew.
TryForEver(p) ==
    /\ pc[p] = "wait"
    /\ woken' \in {woken, FALSE}
    /\ Goto(p, "low")
    /\ UNCHANGED <<modVars, dir, level, ledVars, msgLen, fileVars>>

\* A wait of the attempt runs out, or the checksum is wrong: try again, or
\* leave the loop.
NotMeasured(p) ==
    /\ pc[p] = "wait"
    /\ woken' \in {woken, FALSE}
    /\ retry' = [retry EXCEPT ![p] = @ + 1]
    /\ Goto(p, IF retry[p] + 1 < Retries THEN "low" ELSE "restore")
    /\ UNCHANGED <<modVars, dir, level, ledVars, msgLen, offset>>

\* Mutant of Restore: the line stays an input when the open fails.
GiveUp(p) ==
    /\ pc[p] = "restore"
    /\ Goto(p, "idle")
    /\ UNCHANGED <<modVars, lineVars, ledVars, msgLen, fileVars>>

\* The open fails; the line is driven high again.
Restore(p) ==
    /\ pc[p] = "restore"
    /\ dir' = "out" /\ level' = 1
    /\ Goto(p, "idle")
    /\ UNCHANGED <<modVars, woken, ledVars, msgLen, fileVars>>

device_open(p) ==
    \/ PullLow(p) \/ PullHigh(p) \/ Listen(p)
    \/ Measured(p) \/ NotMeasured(p) \/ Restore(p)

-----------------------------------------------------------------------------
(* device_read of dht11.c, device_write of led.c, device_release           *)

\* Some of the message, which may have been replaced by a shorter or a
\* longer one since the last read; at or after its end, nothing.
device_read(p, length) ==
    /\ gadget = "dht11" /\ pc[p] = "open"
    /\ offset[p] < msgLen
    /\ LET remain == msgLen - offset[p]
       IN  offset' = [offset EXCEPT ![p] =
                        @ + (IF length < remain THEN length ELSE remain)]
    /\ UNCHANGED <<modVars, lineVars, ledVars, msgLen, pc, retry>>

\* device_buffer_size is shared by all writers.
WriteSize(p, length) ==
    /\ gadget # "dht11" /\ pc[p] = "open"
    /\ size' = IF length < 2 THEN length ELSE 2
    /\ Goto(p, "copy")
    /\ UNCHANGED <<modVars, lineVars, signal, msgLen, fileVars>>

\* copy_from_user of that many bytes.
WriteCopy(p, byte) ==
    /\ pc[p] = "copy"
    /\ signal' = IF size = 0 THEN signal ELSE byte
    /\ Goto(p, "switch")
    /\ UNCHANGED <<modVars, lineVars, size, msgLen, fileVars>>

\* -EFAULT: nothing, or a first byte, was copied.
WriteFault(p, byte) ==
    /\ pc[p] = "copy" /\ size > 0
    /\ signal' \in {signal, byte}
    /\ Goto(p, "open")
    /\ UNCHANGED <<modVars, lineVars, size, msgLen, fileVars>>

WriteSwitch(p) ==
    /\ pc[p] = "switch"
    /\ Goto(p, CASE signal = "0" -> "off" [] signal = "1" -> "on"
                 [] OTHER -> "open")
    /\ UNCHANGED <<modVars, lineVars, ledVars, msgLen, fileVars>>

\* gpio_set_value
WriteSet(p) ==
    /\ pc[p] \in {"on", "off"}
    /\ level' = IF pc[p] = "on" THEN 1 ELSE 0
    /\ Goto(p, "open")
    /\ UNCHANGED <<modVars, dir, woken, ledVars, msgLen, fileVars>>

device_write(p) ==
    \/ \E length \in 0 .. 3 : WriteSize(p, length)
    \/ \E byte \in {"0", "1", "other"} : WriteCopy(p, byte) \/ WriteFault(p, byte)
    \/ WriteSwitch(p) \/ WriteSet(p)

device_release(p) ==
    /\ pc[p] = "open"
    /\ Goto(p, "idle")
    /\ UNCHANGED <<modVars, lineVars, ledVars, msgLen, fileVars>>

-----------------------------------------------------------------------------

ModuleStep ==
    Load \/ InitStep \/ SetDirection \/ InitFails \/ Release \/ Rmmod \/ ExitLow

UserStep(p) ==
    \/ Open(p) \/ ChrdevOpen(p) \/ device_open(p)
    \/ \E length \in Lengths : device_read(p, length)
    \/ device_write(p) \/ device_release(p)

Next == ModuleStep \/ \E p \in Users : UserStep(p)

\* A process in the kernel goes on, and every wait of an attempt has a limit.
Fairness == \A p \in Users : WF_vars(device_open(p))

Spec == Init /\ [][Next]_vars /\ Fairness

-----------------------------------------------------------------------------
(* Properties                                                              *)

TypeOK ==
    /\ stage \in {"out", "init", "undo", "live", "exit"}
    /\ place \in 1 .. Len(Resources) + 1
    /\ taken \subseteq {Resources[n] : n \in 1 .. Len(Resources)}
    /\ dir \in {"in", "out"} /\ level \in {0, 1} /\ woken \in BOOLEAN
    /\ size \in 0 .. 2 /\ signal \in {"0", "1", "other"}
    /\ msgLen \in MsgLens \union {0}
    /\ pc \in [Users -> InModule \union {"idle", "find", "stale"}]
    /\ retry \in [Users -> 0 .. Retries]
    /\ offset \in [Users -> 0 .. 36]

\* What init took, and nothing else, is released, last taken first: the
\* resources held are always the first ones of the list, none when the
\* module is out, after any failure, after exit, and after a reload.
HeldInOrder ==
    /\ \E n \in 0 .. Len(Resources) : taken = {Resources[m] : m \in 1 .. n}
    /\ stage = "out" => taken = {}

\* Whoever measured, however often it failed and whoever else was measuring
\* at the same time: when nobody is left in device_open the line of the
\* sensor is driven high, as the next measurement needs it.
LineReadyForNextOpen ==
    gadget = "dht11" /\ stage = "live"
        /\ (\A p \in Users : pc[p] \notin InOpen)
    => dir = "out" /\ level = 1

\* An open of the sensor returns, with a measurement or an error, even if
\* the sensor never answers.
OpenReturns == \A p \in Users : pc[p] \in InOpen ~> pc[p] \notin InOpen
=============================================================================
