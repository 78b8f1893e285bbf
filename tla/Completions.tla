----------------------------- MODULE Completions -----------------------------
(***************************************************************************)
(* examples/completions.c: two kernel threads ordered by a completion (the *)
(* flywheel spins up after the crank was turned), and an exit function     *)
(* that waits for the completions of both.                                 *)
(*                                                                         *)
(* A thread is in the module's code from the first statement of its        *)
(* function until it calls kthread_complete_and_exit, which completes once *)
(* more and does not return.                                               *)
(*                                                                         *)
(* External: a completion counts; complete adds one and wakes one waiter,  *)
(* complete_all makes the count endless and wakes all; wait_for_completion *)
(* takes one, or queues and sleeps in the same critical section.  A thread *)
(* made by kthread_create runs its function when it is first woken, unless *)
(* it was asked to stop before.                                            *)
(***************************************************************************)
EXTENDS Naturals

VARIABLES
    main,      \* the process in completions_init or completions_exit
    done,      \* per thread: the count of its completion
    asleep,    \* who sleeps in wait_for_completion: main, flywheel
    pc,        \* per thread: its next statement
    printed    \* the messages printed since the load, as a set

compVars == <<done, asleep>>
vars == <<main, compVars, pc, printed>>

Threads == {"crank", "flywheel"}

\* "parked": created, never woken; "woken": about to start; "turn", "wait"
\* and "signal": in the thread function; "leave": complete_all has run and
\* kthread_complete_and_exit has not been called; "exiting": it has, or the
\* thread was stopped before it started; "gone": the kernel has reaped it.
Locations == {"none", "parked", "woken", "wait", "turn", "signal", "leave",
              "exiting", "gone"}

Init ==
    /\ main = "out"
    /\ done = [t \in Threads |-> 0]
    /\ asleep = {}
    /\ pc = [t \in Threads |-> "none"]
    /\ printed = {}

Goto(t, loc) == pc' = [pc EXCEPT ![t] = loc]

\* The count after complete_all; complete and wait leave it alone.
Endless == 3

\* Who waits for the completion of t when it sleeps.
Waiters(t) ==
    IF t = "crank"
    THEN {"flywheel"} \union (IF main = "exit1" THEN {"main"} ELSE {})
    ELSE IF main = "exit2" THEN {"main"} ELSE {}

\* wait_for_completion of w, for t: take one and go on, or sleep.
Take(w, t) ==
    /\ w \notin asleep
    /\ done[t] > 0
    /\ done' = [done EXCEPT ![t] = IF @ = Endless THEN @ ELSE @ - 1]
    /\ UNCHANGED asleep

Sleep(w, t) ==
    /\ w \notin asleep
    /\ done[t] = 0
    /\ asleep' = asleep \union {w}
    /\ UNCHANGED done

complete_all(t) ==
    /\ done' = [done EXCEPT ![t] = Endless]
    /\ asleep' = asleep \ Waiters(t)

\* Mutant of complete: the endless count is counted up.
CompleteCounts(t) ==
    /\ done' = [done EXCEPT ![t] = @ + 1]
    /\ asleep' = asleep \ Waiters(t)

complete(t) ==
    /\ done' = [done EXCEPT ![t] = IF @ = Endless THEN @ ELSE @ + 1]
    /\ LET sleepers == asleep \intersect Waiters(t)
       IN  IF sleepers = {} THEN UNCHANGED asleep
           ELSE \E w \in sleepers : asleep' = asleep \ {w}

-----------------------------------------------------------------------------
(* completions_init and completions_exit                                   *)

\* A new load, followed only if the threads of the last one are gone.
completions_init ==
    /\ main = "out"
    /\ \A t \in Threads : pc[t] \in {"none", "gone"}
    /\ main' = "crank"
    /\ done' = [t \in Threads |-> 0]
    /\ asleep' = {}
    /\ pc' = [t \in Threads |-> "none"]
    /\ printed' = {}

CreateCrank ==
    /\ main = "crank"
    /\ \/ main' = "flywheel" /\ Goto("crank", "parked")
       \/ main' = "out" /\ UNCHANGED pc
    /\ UNCHANGED <<compVars, printed>>

CreateFlywheel ==
    /\ main = "flywheel"
    /\ main' = "wake1"
    /\ Goto("flywheel", "parked")
    /\ UNCHANGED <<compVars, printed>>

\* ERROR_THREAD_2: the crank thread ends without running its function.
CreateFlywheelFails ==
    /\ main = "flywheel"
    /\ main' = "stopping"
    /\ Goto("crank", "exiting")
    /\ UNCHANGED <<compVars, printed>>

\* kthread_stop returns when the thread is gone, and init with an error.
KthreadStopped ==
    /\ main = "stopping"
    /\ pc["crank"] = "gone"
    /\ main' = "out"
    /\ UNCHANGED <<compVars, pc, printed>>

WakeFlywheel ==
    /\ main = "wake1"
    /\ main' = "wake2"
    /\ Goto("flywheel", "woken")
    /\ UNCHANGED <<compVars, printed>>

WakeCrank ==
    /\ main = "wake2"
    /\ main' = "live"
    /\ Goto("crank", "woken")
    /\ UNCHANGED <<compVars, printed>>

completions_exit ==
    /\ main = "live"
    /\ main' = "exit1"
    /\ UNCHANGED <<compVars, pc, printed>>

ExitWaits(here, t, next) ==
    /\ main = here
    /\ \/ Take("main", t) /\ main' = next
       \/ Sleep("main", t) /\ UNCHANGED main
    /\ UNCHANGED <<pc, printed>>

ExitWaitsCrank == ExitWaits("exit1", "crank", "exit2")

ExitWaitsFlywheel == ExitWaits("exit2", "flywheel", "out")

-----------------------------------------------------------------------------
(* machine_crank_thread and machine_flywheel_spinup_thread                 *)

Starts(t) ==
    /\ pc[t] = "woken"
    /\ Goto(t, IF t = "crank" THEN "turn" ELSE "wait")
    /\ UNCHANGED <<main, compVars, printed>>

\* Mutant of WaitForCrank: the wait is left out.
DoNotWait ==
    /\ pc["flywheel"] = "wait"
    /\ Goto("flywheel", "turn")
    /\ UNCHANGED <<main, compVars, printed>>

WaitForCrank ==
    /\ pc["flywheel"] = "wait"
    /\ \/ Take("flywheel", "crank") /\ Goto("flywheel", "turn")
       \/ Sleep("flywheel", "crank") /\ UNCHANGED pc
    /\ UNCHANGED <<main, printed>>

PrintMessage(t) ==
    /\ pc[t] = "turn"
    /\ printed' = printed \union {t}
    /\ Goto(t, "signal")
    /\ UNCHANGED <<main, compVars>>

CompleteAll(t) ==
    /\ pc[t] = "signal"
    /\ complete_all(t)
    /\ Goto(t, "leave")
    /\ UNCHANGED <<main, printed>>

CompleteAndExit(t) ==
    /\ pc[t] = "leave"
    /\ complete(t)
    /\ Goto(t, "exiting")
    /\ UNCHANGED <<main, printed>>

ThreadExits(t) ==
    /\ pc[t] = "exiting"
    /\ Goto(t, "gone")
    /\ UNCHANGED <<main, compVars, printed>>

-----------------------------------------------------------------------------

MainStep ==
    \/ CreateCrank \/ CreateFlywheel \/ CreateFlywheelFails
    \/ KthreadStopped \/ WakeFlywheel \/ WakeCrank \/ ExitWaitsCrank \/ ExitWaitsFlywheel

ThreadStep(t) ==
    \/ Starts(t) \/ PrintMessage(t) \/ CompleteAll(t) \/ CompleteAndExit(t)
    \/ ThreadExits(t)
    \/ t = "flywheel" /\ WaitForCrank

Next ==
    \/ completions_init \/ completions_exit \/ MainStep
    \/ \E t \in Threads : ThreadStep(t)

\* The scheduler runs the process in init or exit and both threads.
Fairness ==
    /\ WF_vars(MainStep)
    /\ \A t \in Threads : WF_vars(ThreadStep(t))

Spec == Init /\ [][Next]_vars /\ Fairness

-----------------------------------------------------------------------------
(* Properties                                                              *)

TypeOK ==
    /\ main \in {"out", "crank", "flywheel", "stopping", "wake1", "wake2",
                 "live", "exit1", "exit2"}
    /\ done \in [Threads -> 0 .. Endless]
    /\ asleep \subseteq {"main", "flywheel"}
    /\ pc \in [Threads -> Locations]
    /\ printed \subseteq Threads

\* The flywheel never spins up before the crank was turned, in whatever
\* order the scheduler starts the two threads.
CrankBeforeFlywheel ==
    "flywheel" \in printed => "crank" \in printed

\* Every load that succeeded can be removed: completions_exit returns.  Two
\* waiters need the crank's completion, so one complete() would not do.
ExitReturns == main = "exit1" ~> main = "out"

\* A module that is out, after exit or after a failed init, has no thread
\* that is still before its complete_all, or not yet started.  (It may have
\* one that is right after it: the call of kthread_complete_and_exit,
\* completions.c:20-24 and 34-38, is in the module's code, and what exit
\* waits for has happened before.)
ThreadsCompletedWhenOut ==
    main = "out" => \A t \in Threads : pc[t] \in {"none", "leave", "exiting", "gone"}
=============================================================================
