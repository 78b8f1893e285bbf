----------------------------- MODULE RcuProofs -----------------------------
(***************************************************************************)
(* For every number of blocks and of loads of the module: the reader of    *)
(* example_rcu.c never follows a pointer to freed memory, nothing that is  *)
(* published is freed and nothing is freed twice.                          *)
(***************************************************************************)
EXTENDS Rcu, TLAPS

\* Blocks are numbers that have been handed out, and the reader has a
\* pointer only inside its critical section.
Numbers ==
    /\ blocks \in Nat
    /\ shared_data \in 0 .. blocks
    /\ old_p \in 0 .. blocks
    /\ p \in 0 .. blocks
    /\ first \in 1 .. blocks + 1
    /\ freed \subseteq 1 .. blocks
    /\ p # 0 => reader = "read"

\* What the updater is about to free is neither published nor freed; its
\* exit function runs when the reader is gone.
Retired ==
    /\ shared_data \notin freed
    /\ pc \in {"sync", "wait"} => /\ old_p \notin freed
                                  /\ old_p # 0
                                  /\ old_p # shared_data

\* The grace period covers the reader: a pointer it has that is no longer
\* published is the one the updater has yet to free, and waits for it to be
\* given up.
Covered ==
    p # 0 /\ p # shared_data =>
        /\ p = old_p
        /\ pc = "sync" \/ (pc = "wait" /\ grace = "waits")

\* No reader while the module is out (the pointer is reset by a new load).
Absent ==
    /\ pc \in {"out", "spawn", "failed"} => reader = "none"
    /\ pc = "update" /\ round # 2 => reader = "none"
    /\ pc \in {"sync", "wait"} /\ round # 2 => reader = "none"
    /\ pc \in {"spawn", "failed"} => round = 1
    /\ round \in {1, 2, 3}

GraceInv == Numbers /\ Retired /\ Covered /\ Absent

\* Every block of this load is freed, published, or about to be freed; exit
\* publishes none.
Accounted ==
    /\ \A b \in first .. blocks :
           \/ b \in freed
           \/ b = shared_data
           \/ pc \in {"sync", "wait"} /\ b = old_p
    /\ pc \in {"sync", "wait", "out"} /\ round = 3 => shared_data = 0

USE MaxBlocksAssumption

\* The initial state satisfies the invariant.
LEMMA GraceInit == Init => GraceInv
  BY DEF Init, GraceInv, Numbers, Retired, Covered, Absent

\* Every step keeps the invariant.
LEMMA GraceStep == GraceInv /\ [Next]_vars => GraceInv'
<1> SUFFICES ASSUME GraceInv, [Next]_vars PROVE GraceInv'
  OBVIOUS
<1> USE DEF GraceInv, Numbers, Retired, Covered, Absent
<1>1. CASE example_rcu_init
  BY <1>1 DEF example_rcu_init
<1>2. CASE example_rcu_exit
  BY <1>2 DEF example_rcu_exit, memVars
<1>3. CASE update_data
  BY <1>3 DEF update_data, Publish, AfterUpdate, readVars
<1>4. CASE update_data_fails
  BY <1>4 DEF update_data_fails, AfterUpdate, memVars, readVars
<1>5. CASE SyncBegins
  BY <1>5 DEF SyncBegins, InSection, memVars, readVars
<1>6. CASE FreeOld
  BY <1>6 DEF FreeOld, AfterUpdate, readVars
<1>7. CASE KthreadRun
  BY <1>7 DEF KthreadRun, memVars
<1>8. CASE KthreadRunFails
  BY <1>8 DEF KthreadRunFails, memVars, readVars
<1>9. CASE InitFailed
  BY <1>9 DEF InitFailed, memVars, readVars
<1>10. CASE KthreadStopped
  BY <1>10 DEF KthreadStopped, memVars, readVars
<1>11. CASE ClearPointer
  BY <1>11 DEF ClearPointer, Publish, AfterUpdate, readVars
<1>12. CASE TestStop
  BY <1>12 DEF TestStop, memVars
<1>13. CASE Dereference
  BY <1>13 DEF Dereference, memVars
<1>14. CASE ReadValue
  BY <1>14 DEF ReadValue, memVars
<1>15. CASE PrintAndSleep
  BY <1>15 DEF PrintAndSleep, memVars
<1>16. CASE UNCHANGED vars
  BY <1>16 DEF vars, memVars, readVars
<1> QED
  BY <1>1, <1>2, <1>3, <1>4, <1>5, <1>6, <1>7, <1>8, <1>9, <1>10, <1>11,
     <1>12, <1>13, <1>14, <1>15, <1>16 DEF Next, Updater, Reader

\* synchronize_rcu between the unpublishing and the kfree is enough: the
\* reader never has a freed block, what is published is not freed, and no
\* block is freed twice.
THEOREM NoUseAfterFreeHolds == Spec => []NoUseAfterFree
<1>1. GraceInv => NoUseAfterFree
  BY DEF GraceInv, Numbers, Retired, Covered, NoUseAfterFree
<1> QED
  BY <1>1, GraceInit, GraceStep, PTL DEF Spec

\* The reader thread has left the module's code when the module is gone.
THEOREM NoReaderWhenOutHolds == Spec => []NoReaderWhenOut
<1>1. GraceInv => NoReaderWhenOut
  BY DEF GraceInv, Numbers, Absent, NoReaderWhenOut
<1> QED
  BY <1>1, GraceInit, GraceStep, PTL DEF Spec

\* A step keeps account of every block.
LEMMA AccountStep == GraceInv /\ Accounted /\ [Next]_vars => Accounted'
<1> SUFFICES ASSUME GraceInv, Accounted, [Next]_vars PROVE Accounted'
  OBVIOUS
<1> USE DEF GraceInv, Numbers, Retired, Absent, Accounted
<1>1. CASE example_rcu_init
  BY <1>1 DEF example_rcu_init
<1>2. CASE example_rcu_exit
  BY <1>2 DEF example_rcu_exit, memVars
<1>3. CASE update_data
  BY <1>3 DEF update_data, Publish, AfterUpdate, readVars
<1>4. CASE update_data_fails
  BY <1>4 DEF update_data_fails, AfterUpdate, memVars, readVars
<1>5. CASE SyncBegins
  BY <1>5 DEF SyncBegins, memVars, readVars
<1>6. CASE FreeOld
  BY <1>6 DEF FreeOld, AfterUpdate, readVars
<1>7. CASE KthreadRun \/ KthreadRunFails \/ InitFailed \/ KthreadStopped
  BY <1>7 DEF KthreadRun, KthreadRunFails, InitFailed, KthreadStopped, memVars,
              readVars
<1>8. CASE ClearPointer
  BY <1>8 DEF ClearPointer, Publish, AfterUpdate, readVars
<1>9. CASE Reader
  BY <1>9 DEF Reader, TestStop, Dereference, ReadValue, PrintAndSleep, memVars
<1>10. CASE UNCHANGED vars
  BY <1>10 DEF vars, memVars, readVars
<1> QED
  BY <1>1, <1>2, <1>3, <1>4, <1>5, <1>6, <1>7, <1>8, <1>9, <1>10
  DEF Next, Updater

\* A module that left through its exit function has freed every block it
\* allocated since its init.
THEOREM NothingLeaksOnExitHolds == Spec => []NothingLeaksOnExit
<1>1. Init => Accounted
  BY DEF Init, Accounted
<1>2. GraceInv /\ Accounted => NothingLeaksOnExit
  BY DEF GraceInv, Numbers, Accounted, NothingLeaksOnExit
<1> QED
  BY <1>1, <1>2, GraceInit, GraceStep, AccountStep, PTL DEF Spec

\* The other variables: the bound on the blocks, and the places.
Places ==
    /\ blocks <= MaxBlocks
    /\ pc \in {"out", "update", "sync", "wait", "spawn", "failed", "live",
               "stopping"}
    /\ grace \in {"over", "waits"} /\ stop \in BOOLEAN
    /\ reader \in {"none", "test", "print"} \union InSection

\* A step keeps them within their types.
LEMMA PlacesStep == GraceInv /\ Places /\ [Next]_vars => Places'
<1> SUFFICES ASSUME GraceInv, Places, [Next]_vars PROVE Places'
  OBVIOUS
<1> USE DEF GraceInv, Numbers, Places, InSection, AfterUpdate, memVars, readVars
<1>1. CASE example_rcu_init \/ example_rcu_exit
  BY <1>1 DEF example_rcu_init, example_rcu_exit
<1>2. CASE update_data \/ update_data_fails \/ ClearPointer
  BY <1>2 DEF update_data, update_data_fails, ClearPointer, Publish
<1>3. CASE SyncBegins \/ FreeOld
  BY <1>3 DEF SyncBegins, FreeOld
<1>4. CASE KthreadRun \/ KthreadRunFails \/ InitFailed \/ KthreadStopped
  BY <1>4 DEF KthreadRun, KthreadRunFails, InitFailed, KthreadStopped
<1>5. CASE Reader
  BY <1>5 DEF Reader, TestStop, Dereference, ReadValue, PrintAndSleep
<1>6. CASE UNCHANGED vars
  BY <1>6 DEF vars
<1> QED BY <1>1, <1>2, <1>3, <1>4, <1>5, <1>6 DEF Next, Updater

\* The two together are the type invariant.
LEMMA RcuTypes == GraceInv /\ Places => TypeOK
<1> SUFFICES ASSUME GraceInv, Places PROVE TypeOK
  OBVIOUS
<1>1. blocks \in 0 .. MaxBlocks /\ round \in 1 .. 3
  BY DEF GraceInv, Numbers, Absent, Places
<1> QED BY <1>1, Zenon DEF GraceInv, Numbers, Places, TypeOK

\* The initial state has its types.
LEMMA PlacesInit == Init => Places
<1> SUFFICES ASSUME Init PROVE Places
  OBVIOUS
<1>1. blocks <= MaxBlocks /\ reader \in {"none", "test", "print"} \union InSection
  BY DEF Init
<1>2. stop \in BOOLEAN
  BY DEF Init
<1> QED BY <1>1, <1>2 DEF Init, Places

\* The variables stay within their types.
THEOREM RcuTypeCorrect == Spec => []TypeOK
BY GraceInit, GraceStep, PlacesInit, PlacesStep, RcuTypes, PTL DEF Spec
=============================================================================
