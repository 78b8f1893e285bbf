----------------------------- MODULE IoctlData -----------------------------
(***************************************************************************)
(* examples/ioctl.c: a device each open file of which has a value of its   *)
(* own, in memory that open allocates and close frees, set and got under   *)
(* a lock; and one number that all files share, without a lock.            *)
(*                                                                         *)
(* Threads make the calls; several may use one open file at a time.        *)
(*                                                                         *)
(* External: the module does not make the node (mknod does), so files are  *)
(* opened as soon as the cdev is added; the file operations name their     *)
(* owner, so rmmod fails while a file is open; the release function is     *)
(* called when the file is closed and no call on it is in progress;        *)
(* kmalloc returns memory that is not allocated, with any contents.        *)
(***************************************************************************)
EXTENDS Naturals

CONSTANTS
    Files,        \* the file objects
    Threads,      \* the threads that use them
    Blocks,       \* the memory for struct test_ioctl_data
    Args,         \* the values of struct ioctl_arg that are set
    CharModulus   \* an unsigned char wraps at this value (256 in the code)

VARIABLES
    state,         \* the module: out, region or in
    private,       \* per file: filp->private_data, None if it is not open
    heap,          \* the blocks allocated
    val,           \* per block: its val
    ioctl_num,
    call,          \* per thread: the call it is in
    filp,          \* per thread: the file of that call
    data,          \* per thread: its local variable data.val, or val
    lastSet        \* per file: what was last set through it, since its open

None == "none"
NoFile == "nofile"

devVars == <<private, heap, val, lastSet>>
callVars == <<call, filp, data>>
vars == <<state, devVars, ioctl_num, callVars>>

CharValues == 0 .. CharModulus - 1
Default == CharModulus - 1
OpenFiles == {f \in Files : private[f] # None}

Init ==
    /\ state = "out"
    /\ private = [f \in Files |-> None]
    /\ heap = {}
    /\ val = [b \in Blocks |-> 0]
    /\ lastSet = [f \in Files |-> Default]
    /\ ioctl_num = 0
    /\ call = [t \in Threads |-> "none"]
    /\ filp = [t \in Threads |-> NoFile]
    /\ data = [t \in Threads |-> 0]

-----------------------------------------------------------------------------
(* ioctl_init and ioctl_exit                                               *)

\* alloc_chrdev_region by a fresh module.
ioctl_init ==
    /\ state = "out"
    /\ state' = "region"
    /\ ioctl_num' = 0
    /\ UNCHANGED <<devVars, callVars>>

CdevAdd ==
    /\ state = "region"
    /\ state' = "in"
    /\ UNCHANGED <<devVars, ioctl_num, callVars>>

\* The region is unregistered again.
CdevAddFails ==
    /\ state = "region"
    /\ state' = "out"
    /\ UNCHANGED <<devVars, ioctl_num, callVars>>

ioctl_exit ==
    /\ state = "in"
    /\ OpenFiles = {}
    /\ state' = "out"
    /\ UNCHANGED <<devVars, ioctl_num, callVars>>

-----------------------------------------------------------------------------
(* open and close                                                          *)

\* (When kmalloc fails, nothing changes.)
test_ioctl_open(f) ==
    /\ state = "in"
    /\ private[f] = None
    /\ \E b \in Blocks \ heap :
        /\ heap' = heap \union {b}
        /\ private' = [private EXCEPT ![f] = b]
        /\ val' = [val EXCEPT ![b] = Default]
    /\ lastSet' = [lastSet EXCEPT ![f] = Default]
    /\ UNCHANGED <<state, ioctl_num, callVars>>

\* Mutant of test_ioctl_close: the memory is freed while calls on the file
\* are in progress (as from flush, which every close(2) calls).
FreeOnFlush(f) ==
    /\ f \in OpenFiles
    /\ heap' = heap \ {private[f]}
    /\ UNCHANGED <<state, private, val, lastSet, ioctl_num, callVars>>

test_ioctl_close(f) ==
    /\ f \in OpenFiles
    /\ \A t \in Threads : call[t] # "none" => filp[t] # f
    /\ heap' = heap \ {private[f]}
    /\ private' = [private EXCEPT ![f] = None]
    /\ UNCHANGED <<state, val, lastSet, ioctl_num, callVars>>

-----------------------------------------------------------------------------
(* test_ioctl_ioctl and test_ioctl_read                                    *)

Enter(t, f, what) ==
    /\ call[t] = "none"
    /\ f \in OpenFiles
    /\ call' = [call EXCEPT ![t] = what]
    /\ filp' = [filp EXCEPT ![t] = f]

\* The local variables are gone.
Return(t) ==
    /\ call' = [call EXCEPT ![t] = "none"]
    /\ filp' = [filp EXCEPT ![t] = NoFile]
    /\ data' = [data EXCEPT ![t] = 0]

\* IOCTL_VALSET up to copy_from_user.  (If that fails, nothing changes.)
ValSet(t, f, arg) ==
    /\ Enter(t, f, "store")
    /\ data' = [data EXCEPT ![t] = arg]
    /\ UNCHANGED <<state, devVars, ioctl_num>>

\* Under the write lock: an unsigned int goes into an unsigned char.
Store(t) ==
    /\ call[t] = "store"
    /\ val' = [val EXCEPT ![private[filp[t]]] = data[t] % CharModulus]
    /\ lastSet' = [lastSet EXCEPT ![filp[t]] = data[t] % CharModulus]
    /\ Return(t)
    /\ UNCHANGED <<state, private, heap, ioctl_num>>

\* IOCTL_VALGET, and read, up to the lock.
ValGet(t, f) ==
    /\ Enter(t, f, "load")
    /\ UNCHANGED <<state, devVars, ioctl_num, data>>

\* Under the read lock.
Load(t) ==
    /\ call[t] = "load"
    /\ data' = [data EXCEPT ![t] = val[private[filp[t]]]]
    /\ call' = [call EXCEPT ![t] = "reply"]
    /\ UNCHANGED <<state, devVars, ioctl_num, filp>>

\* The value is copied to user space, once, or count times by read.
Reply(t) ==
    /\ call[t] = "reply"
    /\ Return(t)
    /\ UNCHANGED <<state, devVars, ioctl_num>>

\* IOCTL_VALGET_NUM
ValGetNum(t, f) ==
    /\ Enter(t, f, "reply")
    /\ data' = [data EXCEPT ![t] = ioctl_num]
    /\ UNCHANGED <<state, devVars, ioctl_num>>

\* IOCTL_VALSET_NUM
ValSetNum(t, f, arg) ==
    /\ call[t] = "none"
    /\ f \in OpenFiles
    /\ ioctl_num' = arg
    /\ UNCHANGED <<state, devVars, callVars>>

-----------------------------------------------------------------------------

Next ==
    \/ ioctl_init \/ CdevAdd \/ CdevAddFails \/ ioctl_exit
    \/ \E f \in Files : test_ioctl_open(f) \/ test_ioctl_close(f)
    \/ \E t \in Threads : Store(t) \/ Load(t) \/ Reply(t)
    \/ \E t \in Threads, f \in Files :
        \/ ValGet(t, f) \/ ValGetNum(t, f)
        \/ \E arg \in Args : ValSet(t, f, arg) \/ ValSetNum(t, f, arg)

Spec == Init /\ [][Next]_vars

-----------------------------------------------------------------------------
(* Properties                                                              *)

TypeOK ==
    /\ state \in {"out", "region", "in"}
    /\ private \in [Files -> Blocks \union {None}]
    /\ heap \subseteq Blocks
    /\ val \in [Blocks -> CharValues]
    /\ lastSet \in [Files -> CharValues]
    /\ ioctl_num \in Args \union {0}
    /\ call \in [Threads -> {"none", "store", "load", "reply"}]
    /\ filp \in [Threads -> Files \union {NoFile}]
    /\ data \in [Threads -> Args \union CharValues]

\* Every open file has memory of its own, holding what was last set through
\* that file (255 if nothing was), whatever other threads do through it and
\* through other files; no memory is leaked by close, and no call, and no
\* module that was removed, is left with memory that was freed.
FilesKeepApart ==
    /\ heap = {private[f] : f \in OpenFiles}
    /\ \A f, g \in OpenFiles : private[f] = private[g] => f = g
    /\ \A f \in OpenFiles : val[private[f]] = lastSet[f]
    /\ \A t \in Threads : call[t] # "none" => filp[t] \in OpenFiles
    /\ state = "out" => OpenFiles = {}
=============================================================================
