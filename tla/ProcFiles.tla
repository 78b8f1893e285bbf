----------------------------- MODULE ProcFiles -----------------------------
(***************************************************************************)
(* Files in /proc and debugfs behind which a module keeps a buffer:        *)
(* examples/procfs2.c, procfs3.c and hello-debugfs-file.c.  Every process  *)
(* has a file of its own; the buffer and its size are shared.  procfs2.c   *)
(* and procfs3.c use them without a lock, hello-debugfs-file.c holds       *)
(* message_lock from the first to the last use of them.                    *)
(*                                                                         *)
(* A byte of the buffer is known by the call of write(2) it came from; the *)
(* text hello-debugfs-file.c starts with counts as the first.  A step is   *)
(* one access to shared memory, and a copy goes byte by byte.  The         *)
(* compiler may keep procfs_buffer_size in a register from its assignment  *)
(* to the copy, or load it again; after the copy it is loaded again.       *)
(* Reading procfs2.c (and procfs1.c) returns a constant text, whatever     *)
(* was written and however short the read is.                              *)
(***************************************************************************)
EXTENDS Naturals

CONSTANTS
    Variants,   \* of "procfs2", "procfs3" and "debugfs"
    Callers,    \* the processes
    MAX_SIZE,   \* PROCFS_MAX_SIZE, MESSAGE_MAX_LEN
    TEXT_SIZE,  \* sizeof(s), the text of procfs2.c
    Asked,      \* the lengths of reads and writes that are tried
    MaxWrites   \* bound: calls of write(2), and the text there is at first

VARIABLES
    variant,    \* the module the behaviour is about (never changes)
    buffer,     \* per byte: the write it came from, 0 for a NUL
    bsize,      \* procfs_buffer_size, message_len
    mutex,      \* who holds message_lock: a set of at most one process
    writes,     \* how many writes there were
    call,       \* per process: its call, see Calls
    fpos,       \* per process: the position of its file
    stored,     \* history: the last write that gave message_len
    wiped,      \* history: so many bytes were zeroed by failing writes since
    overlap     \* history: two calls were in progress at the same time

vars == <<variant, buffer, bsize, mutex, writes, call, fpos, stored, wiped,
          overlap>>

Writes == 1 .. MaxWrites
Lowest(m, n) == IF m < n THEN m ELSE n

\* id: the write (0: a read); size: the value of its own assignment to
\* procfs_buffer_size; n: how many bytes to copy; k: how many are copied;
\* from: the writes they came from; ret: what the call returned.
Calls == [pc : {"idle", "lock", "clamp", "size", "test", "copy", "text",
                "end", "oob"},
          id : Writes \union {0}, len : Asked \union {0}, size : Nat, n : Nat, k : Nat,
          from : SUBSET (Writes \union {0}), ret : Nat]

Idle(k, from, ret) ==
    [pc |-> "idle", id |-> 0, len |-> 0, size |-> 0, n |-> 0, k |-> k, from |-> from,
     ret |-> ret]

Init ==
    /\ variant \in Variants
    /\ bsize = IF variant = "debugfs" THEN 1 ELSE 0
    /\ buffer = [b \in 0 .. MAX_SIZE - 1 |-> IF b < bsize THEN 1 ELSE 0]
    /\ mutex = {} /\ writes = 1 /\ stored = 1 /\ wiped = 0 /\ overlap = FALSE
    /\ call = [p \in Callers |-> Idle(0, {}, 0)]
    /\ fpos = [p \in Callers |-> 0]

-----------------------------------------------------------------------------

Begin(p, id, len, loc) ==
    /\ call[p].pc = "idle"
    /\ call' = [call EXCEPT ![p] = IF loc = "idle" THEN Idle(0, {}, 0)
                  ELSE [Idle(0, {}, 0) EXCEPT !.pc = loc, !.id = id, !.len = len]]
    /\ overlap' = (overlap \/ \E q \in Callers \ {p} : call[q].pc # "idle")

\* read(2).  A position that is not 0 is the end for procfs3.c, and starts
\* the file anew.
Read(p, len) ==
    /\ Begin(p, 0, len, CASE variant = "debugfs" -> "lock"
                          [] variant = "procfs2" /\ fpos[p] < TEXT_SIZE -> "text"
                          [] variant = "procfs3" /\ fpos[p] = 0 /\ bsize # 0 -> "size"
                          [] OTHER -> "idle")
    /\ fpos' = [fpos EXCEPT ![p] = IF variant = "procfs3" THEN 0 ELSE @]
    /\ UNCHANGED <<variant, stored, wiped, buffer, bsize, mutex, writes>>

\* write(2).  message_write refuses a position that is not 0.
Write(p, len) ==
    /\ writes < MaxWrites
    /\ variant = "debugfs" => fpos[p] = 0
    /\ writes' = writes + 1
    /\ Begin(p, writes + 1, len, IF variant = "debugfs" THEN "lock" ELSE "size")
    /\ UNCHANGED <<variant, stored, wiped, buffer, bsize, mutex, fpos>>

\* Mutant of MutexLock: the lock is taken by whoever wants it.
NoLock(p) ==
    /\ call[p].pc = "lock"
    /\ mutex' = mutex \union {p}
    /\ call' = [call EXCEPT ![p].pc = "size"]
    /\ UNCHANGED <<variant, stored, wiped, buffer, bsize, writes, fpos, overlap>>

MutexLock(p) ==
    /\ call[p].pc = "lock"
    /\ mutex = {}
    /\ mutex' = {p}
    /\ call' = [call EXCEPT ![p].pc = "size"]
    /\ UNCHANGED <<variant, stored, wiped, buffer, bsize, writes, fpos, overlap>>

\* Mutant of NewSize: a write to procfs3.c is not limited to the buffer.
SizeOfCall(p) ==
    IF call[p].id = 0 THEN Lowest(bsize, call[p].len) ELSE call[p].len

\* What the unlocked drivers assign to procfs_buffer_size.
NewSize(p) ==
    CASE call[p].id = 0 -> Lowest(bsize, call[p].len)
      [] call[p].id # 0 /\ variant = "procfs2" -> call[p].len
      [] call[p].id # 0 /\ variant = "procfs3" -> Lowest(MAX_SIZE, call[p].len)

SetSize(p) ==
    /\ call[p].pc = "size" /\ variant # "debugfs"
    /\ bsize' = NewSize(p)
    /\ call' = [call EXCEPT ![p].size = NewSize(p),
                            ![p].pc = IF variant = "procfs2" THEN "clamp" ELSE "test"]
    /\ UNCHANGED <<variant, stored, wiped, buffer, mutex, writes, fpos, overlap>>

\* procfs2.c cuts the size down to the buffer in a statement of its own.
ClampSize(p) ==
    /\ call[p].pc = "clamp"
    /\ bsize' = Lowest(bsize, MAX_SIZE - 1)
    /\ call' = [call EXCEPT ![p].size = Lowest(@, MAX_SIZE - 1), ![p].pc = "test"]
    /\ UNCHANGED <<variant, stored, wiped, buffer, mutex, writes, fpos, overlap>>

\* The length for the copy, from a register or from memory.
LoadSize(p) ==
    /\ call[p].pc = "test"
    /\ \E n \in {call[p].size, bsize} :
          call' = [call EXCEPT ![p].n = n, ![p].pc = "copy"]
    /\ UNCHANGED <<variant, stored, wiped, buffer, bsize, mutex, writes, fpos, overlap>>

\* Mutant of BufferLimit: a write may fill the buffer to its last byte.
WholeBuffer == MAX_SIZE

\* The last byte is for the NUL.
BufferLimit == MAX_SIZE - 1

\* simple_read_from_buffer and simple_write_to_buffer.
SimpleLength(p) ==
    /\ call[p].pc = "size" /\ variant = "debugfs"
    /\ LET end == IF call[p].id = 0 THEN bsize ELSE BufferLimit
           n == IF fpos[p] >= end THEN 0 ELSE Lowest(call[p].len, end - fpos[p])
       IN  call' = [call EXCEPT ![p].n = n, ![p].pc = "copy"]
    /\ UNCHANGED <<variant, stored, wiped, buffer, bsize, mutex, writes, fpos, overlap>>

\* Where byte k of the copy is in the buffer.
Where(p) == call[p].k + IF variant = "debugfs" THEN fpos[p] ELSE 0

CopyByte(p) ==
    /\ call[p].pc = "copy" /\ call[p].k < call[p].n
    /\ IF Where(p) >= MAX_SIZE
       THEN call' = [call EXCEPT ![p].pc = "oob"] /\ UNCHANGED buffer
       ELSE IF call[p].id = 0
       THEN /\ call' = [call EXCEPT ![p].k = @ + 1,
                                    ![p].from = @ \union {buffer[Where(p)]}]
            /\ UNCHANGED buffer
       ELSE /\ call' = [call EXCEPT ![p].k = @ + 1]
            /\ buffer' = [buffer EXCEPT ![Where(p)] = call[p].id]
    /\ UNCHANGED <<variant, stored, wiped, bsize, mutex, writes, fpos, overlap>>

CopyEnds(p) ==
    /\ call[p].pc = "copy" /\ call[p].k = call[p].n
    /\ call' = [call EXCEPT ![p].pc = "end"]
    /\ UNCHANGED <<variant, stored, wiped, buffer, bsize, mutex, writes, fpos, overlap>>

\* procfile_read of procfs1.c and procfs2.c
CopyText(p) ==
    /\ call[p].pc = "text"
    /\ call' = [call EXCEPT ![p] = Idle(TEXT_SIZE, {}, TEXT_SIZE)]
    /\ fpos' = [fpos EXCEPT ![p] = @ + TEXT_SIZE]
    /\ UNCHANGED <<variant, stored, wiped, buffer, bsize, mutex, writes, overlap>>

\* procfs2.c stores a NUL after the text; both count what is in
\* procfs_buffer_size now.
EndUnlocked(p) ==
    /\ call[p].pc = "end" /\ variant # "debugfs"
    /\ call' = [call EXCEPT ![p] =
                  IF variant = "procfs2" /\ bsize >= MAX_SIZE
                  THEN [@ EXCEPT !.pc = "oob"] ELSE Idle(@.k, @.from, bsize)]
    /\ fpos' = [fpos EXCEPT ![p] = @ + bsize]
    /\ UNCHANGED <<variant, stored, wiped, buffer, bsize, mutex, writes, overlap>>

\* message_write sets the length only if something was copied.
EndLocked(p) ==
    LET stores == call[p].id # 0 /\ call[p].k > 0
    IN  /\ call[p].pc = "end" /\ variant = "debugfs"
        /\ fpos' = [fpos EXCEPT ![p] = @ + call[p].k]
        /\ bsize' = IF stores THEN fpos'[p] ELSE bsize
        /\ stored' = IF stores THEN call[p].id ELSE stored
        /\ wiped' = IF stores THEN 0 ELSE wiped
        /\ call' = [call EXCEPT ![p] =
                      IF @.id # 0 /\ bsize' >= MAX_SIZE
                      THEN [@ EXCEPT !.pc = "oob"] ELSE Idle(@.k, @.from, @.k)]
        /\ mutex' = mutex \ {p}
        /\ UNCHANGED <<variant, buffer, writes, overlap>>

\* A fault in the memory of the caller.  copy_from_user fills what it could
\* not copy with zeros.  The unlocked drivers return -EFAULT (0 for the fixed
\* text); debugfs counts what was copied, if anything.
Fault(p) ==
    LET c == call[p]
    IN  /\ c.pc = "text" \/ (c.pc = "copy" /\ c.k < c.n)
        /\ call' = [call EXCEPT ![p] =
                      CASE c.id # 0 /\ c.n > MAX_SIZE -> [c EXCEPT !.pc = "oob"]
                        [] variant = "debugfs" -> [c EXCEPT !.n = c.k]
                        [] OTHER -> Idle(0, {}, 0)]
        /\ buffer' = [b \in 0 .. MAX_SIZE - 1 |->
                        IF c.id # 0 /\ c.k <= b /\ b < c.n THEN 0 ELSE buffer[b]]
        /\ wiped' = IF variant = "debugfs" /\ c.id # 0 /\ c.k = 0 /\ wiped < c.n
                    THEN c.n ELSE wiped
        /\ UNCHANGED <<variant, stored, bsize, mutex, writes, fpos, overlap>>

\* close(2) and open(2)
Reopen(p) ==
    /\ call[p].pc = "idle" /\ fpos[p] # 0
    /\ fpos' = [fpos EXCEPT ![p] = 0]
    /\ UNCHANGED <<variant, stored, wiped, buffer, bsize, mutex, writes, call, overlap>>

-----------------------------------------------------------------------------

CallStep(p) ==
    \/ \E len \in Asked : Read(p, len) \/ Write(p, len)
    \/ MutexLock(p) \/ SetSize(p) \/ ClampSize(p) \/ LoadSize(p) \/ SimpleLength(p)
    \/ CopyByte(p) \/ CopyEnds(p) \/ CopyText(p) \/ EndUnlocked(p) \/ EndLocked(p)
    \/ Fault(p) \/ Reopen(p)

Next == \E p \in Callers : CallStep(p)

Spec == Init /\ [][Next]_vars

-----------------------------------------------------------------------------
(* Properties                                                              *)

TypeOK ==
    /\ buffer \in [0 .. MAX_SIZE - 1 -> Writes \union {0}]
    /\ bsize \in Nat /\ writes \in 0 .. MaxWrites /\ overlap \in BOOLEAN
    /\ mutex \subseteq Callers /\ stored \in Writes /\ wiped \in Nat
    /\ call \in [Callers -> Calls]
    /\ fpos \in [Callers -> Nat]

\* The driver does what it promises: it has a lock, or calls came one by one.
Orderly == variant = "debugfs" \/ ~overlap

\* No call touches a byte outside the buffer: not with a lock, not if calls
\* come one by one, and for procfs3.c, which limits the size before it
\* stores it, not under any interleaving.
StaysInBuffer ==
    Orderly \/ variant = "procfs3" => \A p \in Callers : call[p].pc # "oob"

\* A call returns the number of bytes it has copied.  (procfs2.c and
\* procfs3.c return, and add to the position, a size that another call may
\* have changed.)
CountsAreTrue ==
    Orderly => \A p \in Callers : call[p].pc = "idle" => call[p].ret = call[p].k

\* With the lock, the message is what the last write stored of which
\* anything arrived (a shorter one, one cut short by a fault), never a
\* mixture of two; and a read returns bytes of one write only.  The code lets
\* one thing happen to it: a write that faults at its first byte returns
\* -EFAULT and keeps message_len, but has zeroed as many bytes of the message
\* as it was to copy (hello-debugfs-file.c:51-56).
MessagesAreWhole ==
    variant = "debugfs" =>
        /\ mutex = {} => \A b \in 0 .. bsize - 1 :
                             buffer[b] = IF b < wiped THEN 0 ELSE stored
        /\ \A p \in Callers : \A v, w \in call[p].from : v # 0 /\ w # 0 => v = w
=============================================================================
