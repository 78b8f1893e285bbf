------------------------------- MODULE Sleep -------------------------------
(***************************************************************************)
(* examples/sleep.c: /proc/sleep, a file that one process at a time may    *)
(* hold open.  Other openers wait on waitq (or get -EAGAIN), and are woken *)
(* by module_close or by a signal.                                         *)
(*                                                                         *)
(* The two actors are the processes that call open, read, write and close, *)
(* and the process that inserts and removes the module.  A step is one     *)
(* access to state that somebody else can change: the atomic_cmpxchg's,    *)
(* each step of wait_event_interruptible (its first test, the enqueueing,  *)
(* the second test, schedule()), the test for a signal, and, in            *)
(* module_close, the atomic_set and the wake_up as two steps.              *)
(*                                                                         *)
(* External to src/, as sleep.c uses them:                                 *)
(*  - wait queues: prepare_to_wait puts the caller on the queue and marks  *)
(*    it TASK_INTERRUPTIBLE unless a signal is pending; a wake-up makes    *)
(*    every queued, marked task runnable and dequeues it;                  *)
(*  - signals: a signal for one thread, or one that kills the process, is  *)
(*    in current->pending ("private"); a signal for the process that it    *)
(*    handles or that stops it is in the process's shared_pending          *)
(*    ("shared") only.  Either wakes an interruptible sleeper;             *)
(*  - procfs: no operation starts once remove_proc_entry has been called,  *)
(*    remove_proc_entry waits for the ones in progress and then calls      *)
(*    proc_release for the files that are still open.                      *)
(***************************************************************************)
EXTENDS Naturals, Sequences

CONSTANTS
    Procs,           \* the processes that use the file
    MESSAGE_LENGTH,  \* size of the message buffer (80 in the code)
    InputLengths,    \* lengths of the writes that are tried
    BufferLengths,   \* lengths of the reads that are tried
    MaxReads         \* bound: reads per open

ASSUME MessageLengthAssumption == MESSAGE_LENGTH \in Nat \ {0}
ASSUME InputLengthsAssumption == InputLengths \subseteq Nat
ASSUME BufferLengthsAssumption == BufferLengths \subseteq Nat
ASSUME MaxReadsAssumption == MaxReads \in Nat

VARIABLES
    already_open,  \* 1 if the file is currently open by somebody
    waitq,         \* the tasks queued on the wait queue
    sleepy,        \* the tasks marked TASK_INTERRUPTIBLE
    pending,       \* per process: the kinds of unblocked signals pending
    message,       \* length of the stored message
    finished,      \* the static flag of module_output
    pc,            \* per process: where it is
    mod,           \* the module: where its insertion or removal is
    replies        \* per process: what reads of its open file returned

ioVars == <<message, finished, replies>>
waitVars == <<waitq, sleepy>>
vars == <<already_open, waitVars, pending, ioVars, pc, mod>>

\* Inside module_open, by the statement to execute next.
InOpen == {"enter", "retry", "cond", "prepare", "check", "sched", "sig"}

\* "open": holds the file; "wake": in module_close, before wake_up;
\* "stale": its file was released under it by remove_proc_entry.
Locations == InOpen \union {"idle", "open", "wake", "stale"}

ModStates == {"out", "live", "rundown", "closing", "wake"}

SignalKinds == {"private", "shared"}

\* "Last input:" and the newline around the message in output_msg.
DECORATION == 12

\* sizeof(output_msg)
OUTPUT_LENGTH == MESSAGE_LENGTH + 30

Least(m, n) == IF m <= n THEN m ELSE n

Init ==
    /\ already_open = 0
    /\ waitq = {}
    /\ sleepy = {}
    /\ pending = [p \in Procs |-> {}]
    /\ message = 0
    /\ finished = FALSE
    /\ pc = [p \in Procs |-> "idle"]
    /\ mod = "out"
    /\ replies = [p \in Procs |-> <<>>]

Goto(p, loc) == pc' = [pc EXCEPT ![p] = loc]

-----------------------------------------------------------------------------
(* Inserting the module.  When proc_create fails nothing changes.          *)

sleep_init ==
    /\ mod = "out"
    /\ mod' = "live"
    /\ already_open' = 0
    /\ message' = 0
    /\ finished' = FALSE
    /\ UNCHANGED <<waitVars, pending, pc, replies>>

-----------------------------------------------------------------------------
(* module_open                                                             *)

Open(p) ==
    /\ pc[p] = "idle"
    /\ mod = "live"
    /\ Goto(p, "enter")
    /\ UNCHANGED <<already_open, waitVars, pending, ioVars, mod>>

\* Back in user mode the pending signals are delivered.
Return(p, loc) ==
    /\ Goto(p, loc)
    /\ pending' = [pending EXCEPT ![p] = {}]

\* Mutant of Acquire: an increment in place of the compare-and-exchange.
AcquireByIncrement(p) ==
    /\ already_open' = already_open + 1
    /\ Return(p, "open")
    /\ UNCHANGED <<waitVars, ioVars, mod>>

Acquire(p) ==
    /\ already_open = 0
    /\ already_open' = 1
    /\ Return(p, "open")
    /\ UNCHANGED <<waitVars, ioVars, mod>>

TryOnce(p) ==
    /\ pc[p] = "enter"
    /\ Acquire(p)

\* The file is taken: -EAGAIN under O_NONBLOCK, else on to the loop.
TryOnceFails(p) ==
    /\ pc[p] = "enter"
    /\ already_open = 1
    /\ Return(p, "idle") \/ (Goto(p, "retry") /\ UNCHANGED pending)
    /\ UNCHANGED <<already_open, waitVars, ioVars, mod>>

\* Mutant of TryAgain: "if" for "while", the file is not tested again.
TakeWithoutRetest(p) ==
    /\ pc[p] = "retry"
    /\ already_open' = 1
    /\ Return(p, "open")
    /\ UNCHANGED <<waitVars, ioVars, mod>>

TryAgain(p) ==
    /\ pc[p] = "retry"
    /\ Acquire(p)

TryAgainFails(p) ==
    /\ pc[p] = "retry"
    /\ already_open = 1
    /\ Goto(p, "cond")
    /\ UNCHANGED <<already_open, waitVars, pending, ioVars, mod>>

\* wait_event_interruptible does not queue when its condition holds at once.
TestCondition(p) ==
    /\ pc[p] = "cond"
    /\ Goto(p, IF already_open = 0 THEN "sig" ELSE "prepare")
    /\ UNCHANGED <<already_open, waitVars, pending, ioVars, mod>>

\* Mutant of PrepareToWait: sleep without the second test.
SleepAtOnce(p) ==
    /\ pc[p] = "prepare"
    /\ IF pending[p] = {}
       THEN /\ waitq' = waitq \union {p}
            /\ sleepy' = sleepy \union {p}
            /\ Goto(p, "sched")
       ELSE /\ waitq' = waitq \ {p}
            /\ UNCHANGED sleepy
            /\ Goto(p, "sig")
    /\ UNCHANGED <<already_open, pending, ioVars, mod>>

\* prepare_to_wait_event: with a signal pending the wait is over.
PrepareToWait(p) ==
    /\ pc[p] = "prepare"
    /\ IF pending[p] = {}
       THEN /\ waitq' = waitq \union {p}
            /\ sleepy' = sleepy \union {p}
            /\ Goto(p, "check")
       ELSE /\ waitq' = waitq \ {p}
            /\ UNCHANGED sleepy
            /\ Goto(p, "sig")
    /\ UNCHANGED <<already_open, pending, ioVars, mod>>

\* The second test, now queued and marked; finish_wait when it holds.
CheckCondition(p) ==
    /\ pc[p] = "check"
    /\ IF already_open = 0
       THEN /\ waitq' = waitq \ {p}
            /\ sleepy' = sleepy \ {p}
            /\ Goto(p, "sig")
       ELSE /\ UNCHANGED waitVars
            /\ Goto(p, "sched")
    /\ UNCHANGED <<already_open, pending, ioVars, mod>>

\* schedule() returns when the task is not (or no longer) marked.
Scheduled(p) ==
    /\ pc[p] = "sched"
    /\ p \notin sleepy
    /\ Goto(p, "prepare")
    /\ UNCHANGED <<already_open, waitVars, pending, ioVars, mod>>

\* Mutant of TestSignal: the result of the wait is ignored.
IgnoreSignal(p) ==
    /\ pc[p] = "sig"
    /\ Goto(p, "retry")
    /\ UNCHANGED <<already_open, waitVars, pending, ioVars, mod>>

\* The loop over current->pending: the shared signals are not looked at.
TestSignal(p) ==
    /\ pc[p] = "sig"
    /\ IF "private" \in pending[p]
       THEN Return(p, "idle")
       ELSE Goto(p, "retry") /\ UNCHANGED pending
    /\ UNCHANGED <<already_open, waitVars, ioVars, mod>>

-----------------------------------------------------------------------------
(* module_output and module_input, called by the process that holds the    *)
(* file while procfs still admits operations.                              *)

\* Mutant of module_output: finished is never set.
OutputForever(p, len) ==
    /\ pc[p] = "open"
    /\ mod = "live"
    /\ Len(replies[p]) < MaxReads
    /\ replies' = [replies EXCEPT
                     ![p] = Append(@, Least(len, DECORATION + message))]
    /\ UNCHANGED <<already_open, waitVars, pending, message, finished, pc, mod>>

module_output(p, len) ==
    /\ pc[p] = "open"
    /\ mod = "live"
    /\ Len(replies[p]) < MaxReads
    /\ finished' = ~finished
    /\ LET n == IF finished THEN 0 ELSE Least(len, DECORATION + message)
       IN  replies' = [replies EXCEPT ![p] = Append(@, n)]
    /\ UNCHANGED <<already_open, waitVars, pending, message, pc, mod>>

\* Mutant of module_input: no room is kept for the NUL.
InputFillsBuffer(p, length) ==
    /\ pc[p] = "open"
    /\ mod = "live"
    /\ message' = Least(MESSAGE_LENGTH, length)
    /\ UNCHANGED <<already_open, waitVars, pending, finished, pc, mod, replies>>

module_input(p, length) ==
    /\ pc[p] = "open"
    /\ mod = "live"
    /\ message' = Least(MESSAGE_LENGTH - 1, length)
    /\ UNCHANGED <<already_open, waitVars, pending, finished, pc, mod, replies>>

-----------------------------------------------------------------------------
(* module_close, by the holder (close_free, then close_wake).              *)

\* Mutant of wake_up: nobody is woken.
WakeNobody == UNCHANGED waitVars

wake_up ==
    /\ waitq' = waitq \ sleepy
    /\ sleepy' = sleepy \ waitq

close_free(p) ==
    /\ pc[p] = "open"
    /\ already_open' = 0
    /\ Goto(p, "wake")
    /\ replies' = [replies EXCEPT ![p] = <<>>]
    /\ UNCHANGED <<waitVars, pending, message, finished, mod>>

close_wake(p) ==
    /\ pc[p] = "wake"
    /\ wake_up
    /\ Goto(p, "idle")
    /\ UNCHANGED <<already_open, pending, ioVars, mod>>

\* Closing a file that was released before calls nothing in the module.
CloseStale(p) ==
    /\ pc[p] = "stale"
    /\ Goto(p, "idle")
    /\ UNCHANGED <<already_open, waitVars, pending, ioVars, mod>>

-----------------------------------------------------------------------------
(* sleep_exit: remove_proc_entry, and module_close for a file left open.   *)

sleep_exit ==
    /\ mod = "live"
    /\ mod' = "rundown"
    /\ UNCHANGED <<already_open, waitVars, pending, ioVars, pc>>

RundownDone ==
    /\ mod = "rundown"
    /\ \A p \in Procs : pc[p] \notin InOpen
    /\ mod' = "closing"
    /\ UNCHANGED <<already_open, waitVars, pending, ioVars, pc>>

\* Mutant of ReleaseLeftOpen: the flag stays set.
ReleaseKeepsFlag(p) ==
    /\ mod = "closing"
    /\ pc[p] = "open"
    /\ Goto(p, "stale")
    /\ mod' = "wake"
    /\ replies' = [replies EXCEPT ![p] = <<>>]
    /\ UNCHANGED <<already_open, waitVars, pending, message, finished>>

ReleaseLeftOpen(p) ==
    /\ mod = "closing"
    /\ pc[p] = "open"
    /\ already_open' = 0
    /\ Goto(p, "stale")
    /\ mod' = "wake"
    /\ replies' = [replies EXCEPT ![p] = <<>>]
    /\ UNCHANGED <<waitVars, pending, message, finished>>

ReleaseWakes ==
    /\ mod = "wake"
    /\ wake_up
    /\ mod' = "closing"
    /\ UNCHANGED <<already_open, pending, ioVars, pc>>

ExitDone ==
    /\ mod = "closing"
    /\ \A p \in Procs : pc[p] \notin {"open", "wake"}
    /\ mod' = "out"
    /\ UNCHANGED <<already_open, waitVars, pending, ioVars, pc>>

-----------------------------------------------------------------------------
(* A signal that the process does not block arrives while it is in open(). *)

Signal(p, kind) ==
    /\ pc[p] \in InOpen
    /\ pending' = [pending EXCEPT ![p] = @ \union {kind}]
    /\ sleepy' = sleepy \ {p}
    /\ UNCHANGED <<already_open, waitq, ioVars, pc, mod>>

-----------------------------------------------------------------------------

\* The steps a process takes inside the module without being asked again.
module_open(p) ==
    \/ TryOnce(p) \/ TryOnceFails(p) \/ TryAgain(p) \/ TryAgainFails(p)
    \/ TestCondition(p) \/ PrepareToWait(p) \/ CheckCondition(p)
    \/ Scheduled(p) \/ TestSignal(p)

ProcStep(p) ==
    \/ Open(p) \/ module_open(p)
    \/ \E len \in BufferLengths : module_output(p, len)
    \/ \E length \in InputLengths : module_input(p, length)
    \/ close_free(p) \/ close_wake(p) \/ CloseStale(p)
    \/ \E kind \in SignalKinds : Signal(p, kind)

RemovalStep ==
    \/ RundownDone
    \/ \E p \in Procs : ReleaseLeftOpen(p)
    \/ ReleaseWakes
    \/ ExitDone

Next ==
    \/ \E p \in Procs : ProcStep(p)
    \/ sleep_init \/ sleep_exit \/ RemovalStep

SafeSpec == Init /\ [][Next]_vars

\* The scheduler runs every task that is in kernel code and not asleep.
KernelFairness ==
    /\ \A p \in Procs : WF_vars(module_open(p)) /\ WF_vars(close_wake(p))
    /\ WF_vars(RemovalStep)

Spec == SafeSpec /\ KernelFairness

-----------------------------------------------------------------------------
(* Properties                                                              *)

TypeOK ==
    /\ already_open \in {0, 1}
    /\ waitq \subseteq Procs
    /\ sleepy \subseteq Procs
    /\ pending \in [Procs -> SUBSET SignalKinds]
    /\ message \in Nat
    /\ finished \in BOOLEAN
    /\ pc \in [Procs -> Locations]
    /\ mod \in ModStates
    /\ replies \in [Procs -> Seq(Nat)]

\* At most one process holds the file, whatever the interleaving of openers,
\* waiters, closers and the removal of the module.
MutualExclusion ==
    \A p, q \in Procs : pc[p] = "open" /\ pc[q] = "open" => p = q

\* already_open is 1 exactly while somebody holds the file: no error path,
\* no signal and no forced release leaves the flag set (nobody could ever
\* open again) or clear (two could).
FlagIffHeld ==
    already_open = 1 <=> \E p \in Procs : pc[p] = "open"

\* No lost wake-up: a process that is asleep while the file is free is about
\* to be woken by a module_close that has not reached its wake_up yet.
NoLostWakeup ==
    \A p \in Procs :
        pc[p] = "sched" /\ p \in sleepy /\ already_open = 0
            => mod = "wake" \/ \E q \in Procs : pc[q] = "wake"

\* Nobody sleeps through a signal, and a sleeper is always on the queue that
\* wake_up walks.
SleepersCanBeWoken ==
    \A p \in sleepy : p \in waitq /\ pending[p] = {}

\* The message and its terminating NUL, and the formatted reply, always fit
\* their buffers.
BuffersInBounds ==
    /\ message + 1 <= MESSAGE_LENGTH
    /\ DECORATION + message + 1 <= OUTPUT_LENGTH

\* A reader that holds the file reaches end of file: of two consecutive
\* reads at least one returns 0, although the flag that says so is shared by
\* every process that ever opened the file.
ReadersReachEof ==
    \A p \in Procs : \A i \in 1 .. Len(replies[p]) - 1 :
        replies[p][i] = 0 \/ replies[p][i + 1] = 0

\* The file behaves as an exclusively opened file, liveness included: a free
\* file is taken while somebody waits for it.
standing(p) ==
    CASE pc[p] \in InOpen -> "trying"
      [] pc[p] = "open"   -> "in"
      [] pc[p] = "stale"  -> "revoked"
      [] OTHER            -> "out"

Abstract == INSTANCE ExclusiveOpen
               WITH st <- [p \in Procs |-> standing(p)], Vanishes <- FALSE

ImplementsExclusiveOpen == Abstract!Spec

\* A signal for the thread, or one that kills the process, ends the wait:
\* open() returns even if the holder never closes the file.
FatalSignalEndsOpen ==
    \A p \in Procs :
        (pc[p] \in InOpen /\ "private" \in pending[p]) ~> pc[p] \notin InOpen

\* Users who close what they open (a process that exits does).
UsersClose == \A p \in Procs : WF_vars(close_free(p))

\* Removing the module ends if the users close their files: the waiters it
\* waits for get the file one after the other and no new one comes in.
RemovalEnds ==
    UsersClose => (mod = "rundown" ~> mod = "out")

\* What sleep.c:120-123 says: "If we woke up because we got a signal we're
\* not blocking, return -EINTR ... This allows processes to be killed or
\* stopped."  Stated of every signal.
AnySignalEndsOpen ==
    \A p \in Procs :
        (pc[p] \in InOpen /\ pending[p] # {}) ~> pc[p] \notin InOpen
=============================================================================
