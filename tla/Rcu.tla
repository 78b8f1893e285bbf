-------------------------------- MODULE Rcu --------------------------------
(***************************************************************************)
(* examples/example_rcu.c: a pointer published with rcu_assign_pointer, a  *)
(* reader thread that follows it under rcu_read_lock, and an updater (the  *)
(* init and exit functions) that frees the old block after a grace period. *)
(*                                                                         *)
(* Blocks are numbered in the order of their allocation; 0 is NULL.        *)
(*                                                                         *)
(* External: synchronize_rcu returns when the read-side critical sections  *)
(* that began before it have ended; kthread_stop returns when the thread   *)
(* function has, or at once if it never started.                           *)
(***************************************************************************)
EXTENDS Naturals

CONSTANT MaxBlocks   \* bound: blocks ever allocated

ASSUME MaxBlocksAssumption == MaxBlocks \in Nat

VARIABLES
    shared_data,  \* the published block
    blocks,       \* how many blocks have been allocated
    first,        \* the first block of this load of the module
    freed,        \* the blocks freed
    old_p,        \* the updater's old block
    pc,           \* the updater: its next statement
    round,        \* the update it is at: 1 and 2 in init, 3 in exit
    grace,        \* synchronize_rcu: waits for the reader, or its wait is over
    reader,       \* the reader: none, test, lock, deref, read or print
    p,            \* the reader's pointer
    stop          \* kthread_stop has been called

memVars == <<shared_data, blocks, first, freed>>
readVars == <<reader, p, stop>>
vars == <<memVars, old_p, pc, round, grace, readVars>>

\* Between rcu_read_lock and rcu_read_unlock.
InSection == {"deref", "read"}

Init ==
    /\ shared_data = 0 /\ blocks = 0 /\ first = 1 /\ freed = {}
    /\ old_p = 0 /\ pc = "out" /\ round = 1 /\ grace = "over"
    /\ reader = "none" /\ p = 0 /\ stop = FALSE

-----------------------------------------------------------------------------
(* update_data, called twice by init and spelled out once more in exit.    *)

\* Where the updater goes after its update.
AfterUpdate ==
    IF round = 1 THEN "spawn" ELSE IF round = 2 THEN "live" ELSE "out"

\* Mutant of Publish: NULL is freed like a block.
PublishUntested(new) ==
    /\ old_p' = shared_data
    /\ shared_data' = new
    /\ pc' = "sync"
    /\ UNCHANGED <<first, freed, round, grace, readVars>>

\* What shared_data becomes: a new block, NULL in exit.
Publish(new) ==
    /\ old_p' = shared_data
    /\ shared_data' = new
    /\ pc' = IF shared_data = 0 THEN AfterUpdate ELSE "sync"
    /\ UNCHANGED <<first, freed, round, grace, readVars>>

update_data ==
    /\ pc = "update" /\ round < 3
    /\ blocks < MaxBlocks
    /\ blocks' = blocks + 1
    /\ Publish(blocks + 1)

\* Without memory update_data returns and keeps the old value.
update_data_fails ==
    /\ pc = "update" /\ round < 3
    /\ pc' = AfterUpdate
    /\ UNCHANGED <<memVars, old_p, round, grace, readVars>>

\* synchronize_rcu begins: a reader in its critical section is waited for.
SyncBegins ==
    /\ pc = "sync"
    /\ grace' = IF reader \in InSection THEN "waits" ELSE "over"
    /\ pc' = "wait"
    /\ UNCHANGED <<memVars, old_p, round, readVars>>

\* Mutant of FreeOld: kfree without the grace period.
FreeAtOnce ==
    /\ pc \in {"sync", "wait"}
    /\ freed' = freed \union {old_p}
    /\ pc' = AfterUpdate
    /\ grace' = "over"
    /\ UNCHANGED <<shared_data, blocks, first, old_p, round, readVars>>

FreeOld ==
    /\ pc = "wait" /\ grace = "over"
    /\ freed' = freed \union {old_p}
    /\ pc' = AfterUpdate
    /\ UNCHANGED <<shared_data, blocks, first, old_p, round, grace, readVars>>

-----------------------------------------------------------------------------
(* example_rcu_init and example_rcu_exit                                   *)

example_rcu_init ==
    /\ pc = "out"
    /\ pc' = "update"
    /\ round' = 1
    /\ shared_data' = 0        \* the static of a fresh module
    /\ stop' = FALSE
    /\ first' = blocks + 1
    /\ UNCHANGED <<blocks, freed, old_p, grace, reader, p>>

KthreadRun ==
    /\ pc = "spawn"
    /\ reader' = "test"
    /\ pc' = "update"
    /\ round' = 2
    /\ UNCHANGED <<memVars, old_p, grace, p, stop>>

\* init returns the error at once.
KthreadRunFails ==
    /\ pc = "spawn"
    /\ pc' = "failed"
    /\ UNCHANGED <<memVars, old_p, round, grace, readVars>>

\* The module that failed to load is gone from the kernel.
InitFailed ==
    /\ pc = "failed"
    /\ pc' = "out"
    /\ UNCHANGED <<memVars, old_p, round, grace, readVars>>

example_rcu_exit ==
    /\ pc = "live"
    /\ pc' = "stopping"
    /\ stop' = TRUE
    /\ UNCHANGED <<memVars, old_p, round, grace, reader, p>>

\* Mutant of KthreadStopped: the reader is not waited for.
KthreadStopNoWait ==
    /\ pc = "stopping"
    /\ pc' = "update"
    /\ round' = 3
    /\ UNCHANGED <<memVars, old_p, grace, readVars>>

KthreadStopped ==
    /\ pc = "stopping"
    /\ reader = "none"
    /\ pc' = "update"
    /\ round' = 3
    /\ UNCHANGED <<memVars, old_p, grace, readVars>>

\* Mutant of ClearPointer: exit forgets the last block.
ClearOnly ==
    /\ pc = "update" /\ round = 3
    /\ shared_data' = 0
    /\ pc' = "out"
    /\ UNCHANGED <<blocks, first, freed, old_p, round, grace, readVars>>

ClearPointer ==
    /\ pc = "update" /\ round = 3
    /\ Publish(0)
    /\ UNCHANGED blocks

-----------------------------------------------------------------------------
(* reader_thread_fn                                                        *)

\* Mutant of TestStop: the request to stop is not looked at.
TestNothing ==
    /\ reader = "test"
    /\ reader' = "deref"
    /\ UNCHANGED <<memVars, old_p, pc, round, grace, p, stop>>

\* The loop condition, and rcu_read_lock.
TestStop ==
    /\ reader = "test"
    /\ reader' = IF stop THEN "none" ELSE "deref"
    /\ UNCHANGED <<memVars, old_p, pc, round, grace, p, stop>>

Dereference ==
    /\ reader = "deref"
    /\ p' = shared_data
    /\ reader' = "read"
    /\ UNCHANGED <<memVars, old_p, pc, round, grace, stop>>

\* Mutant of ReadValue: the value is read after rcu_read_unlock.
ReadAfterUnlock ==
    /\ reader \in {"read", "print"}
    /\ IF reader = "read"
       THEN reader' = "print" /\ grace' = "over" /\ UNCHANGED p
       ELSE reader' = "test" /\ UNCHANGED <<p, grace>>
    /\ UNCHANGED <<memVars, old_p, pc, round, stop>>

\* p->value, if p is not NULL, and rcu_read_unlock; then print and sleep.
ReadValue ==
    /\ reader = "read"
    /\ p' = 0
    /\ grace' = "over"
    /\ reader' = "print"
    /\ UNCHANGED <<memVars, old_p, pc, round, stop>>

PrintAndSleep ==
    /\ reader = "print"
    /\ reader' = "test"
    /\ UNCHANGED <<memVars, old_p, pc, round, grace, p, stop>>

-----------------------------------------------------------------------------

Updater ==
    \/ update_data \/ update_data_fails \/ SyncBegins \/ FreeOld
    \/ KthreadRun \/ KthreadRunFails \/ InitFailed
    \/ KthreadStopped \/ ClearPointer

Reader == TestStop \/ Dereference \/ ReadValue \/ PrintAndSleep

Next == example_rcu_init \/ example_rcu_exit \/ Updater \/ Reader

\* The scheduler runs the updater and the reader thread.
Fairness == WF_vars(Updater) /\ WF_vars(Reader)

Spec == Init /\ [][Next]_vars /\ Fairness

-----------------------------------------------------------------------------
(* Properties                                                              *)

TypeOK ==
    /\ shared_data \in 0 .. blocks
    /\ blocks \in 0 .. MaxBlocks
    /\ first \in 1 .. blocks + 1
    /\ freed \subseteq 1 .. blocks
    /\ old_p \in 0 .. blocks
    /\ pc \in {"out", "update", "sync", "wait", "spawn", "failed", "live",
               "stopping"}
    /\ round \in 1 .. 3
    /\ grace \in {"over", "waits"} /\ stop \in BOOLEAN
    /\ reader \in {"none", "test", "print"} \union InSection
    /\ p \in 0 .. blocks

\* The reader never follows a pointer to freed memory, because a block it
\* picked up inside its critical section outlives the section; what is
\* published is not freed, and no block is freed twice.
NoUseAfterFree ==
    /\ p \notin freed
    /\ shared_data \notin freed
    /\ pc \in {"sync", "wait"} => old_p \notin freed

\* A module that left through exit has freed every block it allocated since
\* its init: with NoUseAfterFree, each exactly once.
NothingLeaksOnExit ==
    pc = "out" /\ round = 3 => first .. blocks \subseteq freed

\* The reader thread has left the module's code when the module is gone.
NoReaderWhenOut ==
    pc = "out" => reader = "none" /\ p = 0

\* exit returns: the reader sees the stop request, and the grace period ends.
ExitReturns == pc = "stopping" ~> pc = "out"
=============================================================================
