---------------------------- MODULE KernelProofs ----------------------------
(***************************************************************************)
(* Proofs about the examples of MCKernel: completions.c (Completion), the  *)
(* timer, work queue and tasklet modules (Later), led.c and dht11.c        *)
(* (Device); and, with the proofs about the button drivers (GpioProofs)    *)
(* and example_rcu.c (RcuProofs), about all of them as the run checks them.*)
(***************************************************************************)
EXTENDS GpioProofs, RcuProofs

-----------------------------------------------------------------------------
(* completions.c.                                                          *)

\* Where the threads are while init makes and wakes them, or gives up.
ThreadsMade ==
    /\ main = "crank" => \A t \in Completion!Threads : thread[t] = "none"
    /\ main \in {"flywheel", "wake1", "wake2"} => thread["crank"] = "parked"
    /\ main \in {"flywheel", "stopping"} => thread["flywheel"] = "none"
    /\ main = "wake1" => thread["flywheel"] = "parked"
    /\ main \in {"wake2", "live", "exit1", "exit2"} =>
           thread["flywheel"] # "parked"
    /\ main \in {"stopping", "live", "exit1", "exit2"} =>
           thread["crank"] # "parked"

\* Exit has waited for the crank, then for the flywheel: either has completed
\* before; and the thread that a failing init stops never ran.
ThreadsAwaited ==
    /\ \A t \in Completion!Threads :
           done[t] > 0 => thread[t] \in {"leave", "exiting", "gone"}
    /\ main = "exit2" => thread["crank"] \in {"leave", "exiting", "gone"}
    /\ main = "stopping" => thread["crank"] \in {"exiting", "gone"}
    /\ Completion!ThreadsCompletedWhenOut

\* Whoever has taken the completion of the crank, or completes it, comes
\* after its message.
CrankFirst ==
    /\ done["crank"] > 0 => "crank" \in printed
    /\ thread["crank"] \in {"signal", "leave"} => "crank" \in printed
    /\ thread["flywheel"] \in {"turn", "signal", "leave"} => "crank" \in printed
    /\ Completion!CrankBeforeFlywheel

CompletionInv == Completion!TypeOK /\ ThreadsMade /\ ThreadsAwaited /\ CrankFirst

\* The first states satisfy the invariant.
LEMMA CompletionInit == Completion!Init => CompletionInv
BY DEF Completion!Init, CompletionInv, Completion!TypeOK, ThreadsMade,
       ThreadsAwaited, CrankFirst, Completion!ThreadsCompletedWhenOut,
       Completion!CrankBeforeFlywheel, Completion!Threads,
       Completion!Locations, Completion!Endless

\* Every step keeps the invariant.
LEMMA CompletionStep ==
    CompletionInv /\ [Completion!Next]_Completion!vars => CompletionInv'
<1> SUFFICES ASSUME CompletionInv, [Completion!Next]_Completion!vars
             PROVE  CompletionInv'
  OBVIOUS
<1> USE DEF CompletionInv, Completion!TypeOK, ThreadsMade, ThreadsAwaited,
            CrankFirst, Completion!ThreadsCompletedWhenOut,
            Completion!CrankBeforeFlywheel, Completion!Threads,
            Completion!Locations, Completion!Endless, Completion!Goto,
            Completion!compVars, Completion!Take, Completion!Sleep
<1>1. CASE Completion!completions_init \/ Completion!completions_exit
  <2>1. CASE Completion!completions_init
    <3>1. \A t \in Completion!Threads : done'[t] = 0 /\ thread'[t] = "none"
      BY <2>1 DEF Completion!completions_init
    <3>2. Completion!TypeOK'
      BY <2>1 DEF Completion!completions_init
    <3> QED BY <2>1, <3>1, <3>2 DEF Completion!completions_init
  <2>2. CASE Completion!completions_exit
    BY <2>2 DEF Completion!completions_exit
  <2> QED BY <1>1, <2>1, <2>2
<1>2. CASE Completion!CreateCrank
  BY <1>2 DEF Completion!CreateCrank
<1>3. CASE Completion!CreateFlywheel \/ Completion!CreateFlywheelFails
  BY <1>3 DEF Completion!CreateFlywheel, Completion!CreateFlywheelFails
<1>4. CASE Completion!KthreadStopped
  BY <1>4 DEF Completion!KthreadStopped
<1>5. CASE Completion!WakeFlywheel \/ Completion!WakeCrank
  BY <1>5 DEF Completion!WakeFlywheel, Completion!WakeCrank
<1>6. CASE Completion!ExitWaitsCrank
  <2>1. /\ done' \in [Completion!Threads -> 0 .. 3]
        /\ \A t \in Completion!Threads : done'[t] > 0 => done[t] > 0
    BY <1>6 DEF Completion!ExitWaitsCrank, Completion!ExitWaits
  <2>2. main' = "exit2" => done["crank"] > 0
    BY <1>6 DEF Completion!ExitWaitsCrank, Completion!ExitWaits
  <2> QED BY <1>6, <2>1, <2>2 DEF Completion!ExitWaitsCrank, Completion!ExitWaits
<1>7. CASE Completion!ExitWaitsFlywheel
  <2>1. /\ done' \in [Completion!Threads -> 0 .. 3]
        /\ \A t \in Completion!Threads : done'[t] > 0 => done[t] > 0
    BY <1>7 DEF Completion!ExitWaitsFlywheel, Completion!ExitWaits
  <2>2. main' = "out" => done["flywheel"] > 0
    BY <1>7 DEF Completion!ExitWaitsFlywheel, Completion!ExitWaits
  <2> QED BY <1>7, <2>1, <2>2 DEF Completion!ExitWaitsFlywheel, Completion!ExitWaits
<1>8. ASSUME NEW t \in Completion!Threads, Completion!Starts(t)
      PROVE  CompletionInv'
  BY <1>8 DEF Completion!Starts
<1>9. ASSUME NEW t \in Completion!Threads, Completion!PrintMessage(t)
      PROVE  CompletionInv'
  BY <1>9 DEF Completion!PrintMessage
<1>10. ASSUME NEW t \in Completion!Threads, Completion!CompleteAll(t)
       PROVE  CompletionInv'
  <2>1. /\ done' \in [Completion!Threads -> 0 .. 3]
        /\ \A u \in Completion!Threads \ {t} : done'[u] = done[u]
    BY <1>10 DEF Completion!CompleteAll, Completion!complete_all
  <2>2. /\ thread[t] = "signal" /\ thread' = [thread EXCEPT ![t] = "leave"]
        /\ asleep' \subseteq asleep /\ UNCHANGED <<main, printed>>
    BY <1>10 DEF Completion!CompleteAll, Completion!complete_all
  <2>3. /\ thread'[t] = "leave"
        /\ \A u \in Completion!Threads \ {t} : thread'[u] = thread[u]
    BY <2>2
  <2> QED BY <2>1, <2>2, <2>3
<1>11. ASSUME NEW t \in Completion!Threads, Completion!CompleteAndExit(t)
       PROVE  CompletionInv'
  <2>1. /\ done' \in [Completion!Threads -> 0 .. 3]
        /\ \A u \in Completion!Threads \ {t} : done'[u] = done[u]
    BY <1>11 DEF Completion!CompleteAndExit, Completion!complete
  <2>2. /\ thread[t] = "leave" /\ thread' = [thread EXCEPT ![t] = "exiting"]
        /\ asleep' \subseteq asleep /\ UNCHANGED <<main, printed>>
    BY <1>11 DEF Completion!CompleteAndExit, Completion!complete
  <2>3. /\ thread'[t] = "exiting"
        /\ \A u \in Completion!Threads \ {t} : thread'[u] = thread[u]
    BY <2>2
  <2> QED BY <2>1, <2>2, <2>3
<1>12. ASSUME NEW t \in Completion!Threads, Completion!ThreadExits(t)
       PROVE  CompletionInv'
  BY <1>12 DEF Completion!ThreadExits
<1>13. CASE Completion!WaitForCrank
  <2>1. /\ done' \in [Completion!Threads -> 0 .. 3]
        /\ \A t \in Completion!Threads : done'[t] > 0 => done[t] > 0
    BY <1>13 DEF Completion!WaitForCrank
  <2>2. thread' # thread => done["crank"] > 0
    BY <1>13 DEF Completion!WaitForCrank
  <2>3. /\ thread["flywheel"] = "wait" /\ UNCHANGED <<main, printed>>
        /\ thread'["crank"] = thread["crank"]
        /\ thread'["flywheel"] \in {"wait", "turn"}
        /\ thread' \in [Completion!Threads -> Completion!Locations]
        /\ asleep' \subseteq {"main", "flywheel"}
    <3>1. thread["flywheel"] = "wait" /\ UNCHANGED <<main, printed>>
      BY <1>13 DEF Completion!WaitForCrank
    <3>2. \/ thread' = [thread EXCEPT !["flywheel"] = "turn"]
          \/ thread' = thread
      BY <1>13 DEF Completion!WaitForCrank
    <3>3. asleep' \subseteq asleep \union {"flywheel"}
      BY <1>13 DEF Completion!WaitForCrank
    <3>4. asleep' \subseteq {"main", "flywheel"}
      BY <3>3
    <3>5. thread \in [{"crank", "flywheel"} -> Completion!Locations]
      BY DEF Completion!Threads
    <3>6. /\ thread'["crank"] = thread["crank"]
          /\ thread'["flywheel"] \in {"wait", "turn"}
      BY <3>1, <3>2, <3>5
    <3>7. thread' \in [Completion!Threads -> Completion!Locations]
      BY <3>2
    <3> QED BY <3>1, <3>4, <3>6, <3>7
  <2>4. thread'["flywheel"] = "turn" => "crank" \in printed
    BY <1>13, <2>2, <2>3
  <2>5. Completion!TypeOK'
    BY <1>13, <2>1, <2>3 DEF Completion!WaitForCrank
  <2>6. ThreadsMade'
    BY <2>3
  <2>8. ThreadsAwaited'
    <3>1. main # "out"
      BY <2>3
    <3>2. done'["flywheel"] = 0
      BY <2>1, <2>3
    <3> QED BY <2>1, <2>3, <3>1, <3>2
  <2>7. CrankFirst'
    BY <2>1, <2>3, <2>4
  <2> QED BY <2>5, <2>6, <2>7, <2>8
<1>14. CASE UNCHANGED Completion!vars
  BY <1>14 DEF Completion!vars
<1> QED
  BY <1>1, <1>2, <1>3, <1>4, <1>5, <1>6, <1>7, <1>8, <1>9, <1>10, <1>11,
     <1>12, <1>13, <1>14
  DEF Completion!Next, Completion!MainStep, Completion!ThreadStep

-----------------------------------------------------------------------------
(* kbleds.c, sched.c and example_tasklet.c.                                *)

\* A console that is lit, or that the handler is about to light, is the one in
\* the foreground or one that was left.
LitConsoles ==
    /\ handler = "chosen" => console = fg_console \/ console \in turned
    /\ \A c \in Consoles :
           leds[c] # "RESTORE_LEDS" => c = fg_console \/ c \in turned

\* Only the timer of kbleds.c has anything to do with the LEDs, and what its
\* handler shows is a state of them; between the stop and the end of exit
\* nothing is pending or running.
LaterInv ==
    /\ Later!TypeOK
    /\ kind # "kbleds" => /\ \A c \in Consoles : leds[c] = "RESTORE_LEDS"
                         /\ handler \in {"idle", "called"}
    /\ handler = "chosen" => status # "none"
    /\ mod = "stopped" => ~armed /\ handler = "idle"
    /\ LitConsoles
    /\ Later!NothingRunsWhenOut

\* The first states satisfy the invariant.
LEMMA LaterInit == Later!Init => LaterInv
BY DEF Later!Init, LaterInv, LitConsoles, Later!TypeOK,
       Later!NothingRunsWhenOut, Later!LedStates

\* Every step keeps the invariant.
LEMMA LaterStep == LaterInv /\ [Later!Next]_Later!vars => LaterInv'
<1> SUFFICES ASSUME LaterInv, [Later!Next]_Later!vars PROVE LaterInv'
  OBVIOUS
<1> USE DEF LaterInv, LitConsoles, Later!TypeOK, Later!NothingRunsWhenOut,
            Later!LedStates, Later!modVars, Later!ledVars
<1>1. CASE Later!Load \/ Later!LoadReturns \/ Later!Rmmod
  BY <1>1 DEF Later!Load, Later!LoadReturns, Later!Rmmod
<1>2. CASE Later!Called
  BY <1>2 DEF Later!Called
<1>3. CASE Later!Choose \/ Later!ShowLeds \/ Later!SwitchConsole
  <2>1. CASE Later!Choose
    BY <2>1 DEF Later!Choose
  <2>2. CASE Later!ShowLeds
    <3>1. /\ handler = "chosen" /\ leds' = [leds EXCEPT ![console] = status]
          /\ handler' = "shown"
          /\ UNCHANGED <<kind, mod, armed, status, fg_console, console, turned>>
      BY <2>2 DEF Later!ShowLeds
    <3>2. \A c \in Consoles : leds'[c] = IF c = console THEN status ELSE leds[c]
      BY <3>1
    <3> QED BY <3>1, <3>2
  <2>3. CASE Later!SwitchConsole
    BY <2>3 DEF Later!SwitchConsole
  <2> QED BY <1>3, <2>1, <2>2, <2>3
<1>4. CASE Later!Rearm \/ Later!HandlerReturns
  BY <1>4 DEF Later!Rearm, Later!HandlerReturns
<1>5. CASE Later!StopDeferred
  BY <1>5 DEF Later!StopDeferred
<1>6. CASE Later!ExitReturns
  <2>1. CASE kind = "kbleds"
    <3>1. /\ leds' = [leds EXCEPT ![fg_console] = "RESTORE_LEDS"]
          /\ turned' = turned \ {fg_console}
          /\ mod = "stopped" /\ mod' = "out"
          /\ UNCHANGED <<kind, armed, handler, status, fg_console, console>>
      BY <1>6, <2>1 DEF Later!ExitReturns
    <3>2. \A c \in Consoles : leds'[c] = IF c = fg_console THEN "RESTORE_LEDS"
                                         ELSE leds[c]
      BY <3>1
    <3> QED BY <2>1, <3>1, <3>2
  <2>2. CASE kind # "kbleds"
    BY <1>6, <2>2 DEF Later!ExitReturns
  <2> QED BY <2>1, <2>2
<1>7. CASE UNCHANGED Later!vars
  BY <1>7 DEF Later!vars
<1> QED BY <1>1, <1>2, <1>3, <1>4, <1>5, <1>6, <1>7
        DEF Later!Next, Later!Handler, Later!LoadFails

-----------------------------------------------------------------------------
(* led.c and dht11.c.                                                      *)

\* The first n resources of the list.
First(n) == {Device!Resources[m] : m \in 1 .. n}

\* The list has five entries, all different.
LEMMA ResourceFacts ==
    /\ Len(Device!Resources) = 5
    /\ First(0) = {}
    /\ \A n \in 1 .. 5 : /\ First(n - 1) \union {Device!Resources[n]} = First(n)
                         /\ First(n) \ {Device!Resources[n]} = First(n - 1)
                         /\ First(n) \subseteq First(5)
    /\ "gpio" \in First(5)
<1>1. Len(Device!Resources) = 5
  BY DEF Device!Resources
<1>2. First(0) = {}
  BY DEF First
<1>3. \A m, n \in 1 .. 5 : Device!Resources[m] = Device!Resources[n] => m = n
  BY DEF Device!Resources
<1>4. ASSUME NEW n \in 1 .. 5
      PROVE  /\ First(n - 1) \union {Device!Resources[n]} = First(n)
             /\ First(n) \ {Device!Resources[n]} = First(n - 1)
             /\ First(n) \subseteq First(5)
  <2>1. 1 .. n = (1 .. n - 1) \union {n} /\ 1 .. n \subseteq 1 .. 5
    OBVIOUS
  <2> QED BY <1>3, <2>1 DEF First
<1>5. Device!Resources[5] = "gpio"
  BY DEF Device!Resources
<1>6. "gpio" \in First(5)
  BY <1>5 DEF First
<1> QED BY <1>1, <1>2, <1>4, <1>6

\* What is held is what the place in init, in its releases, or in exit says.
HeldByPlace ==
    /\ stage = "out" => place = 1 /\ taken = {}
    /\ stage = "init" => taken = First(place - 1)
    /\ stage = "undo" => place <= 5
    /\ stage = "live" => place = 6 /\ taken = First(5)
    /\ stage = "exit" /\ place = 6 => taken = First(5)
    /\ stage \in {"undo", "exit"} /\ place # 6 => taken = First(place)

\* dht11.c has no write, led.c no measurement; an attempt that is under way
\* is one of those that are allowed.
UsersInv ==
    /\ gadget = "dht11" => \A u \in Users : user[u] \notin Device!InWrite
    /\ \A u \in Users :
           user[u] \in {"low", "high", "listen", "wait"} => retry[u] < Retries

\* The types of the module, of the line and the buffers, and of the users.
ModTypes ==
    /\ stage \in {"out", "init", "undo", "live", "exit"}
    /\ place \in 1 .. 6
    /\ taken \subseteq First(5)
LineTypes ==
    /\ dir \in {"in", "out"} /\ level \in {0, 1} /\ woken \in BOOLEAN
    /\ size \in 0 .. 2 /\ signal \in {"0", "1", "other"}
    /\ msgLen \in {0, 34, 36}
UserTypes ==
    /\ user \in [Users -> Device!InModule \union {"idle", "find", "stale"}]
    /\ retry \in [Users -> 0 .. Retries]
    /\ offset \in [Users -> 0 .. 36]

\* They are the type invariant.
LEMMA DeviceTypes == ModTypes /\ LineTypes /\ UserTypes => Device!TypeOK
<1>1. Len(Device!Resources) = 5
  BY ResourceFacts
<1>2. ModTypes => /\ place \in 1 .. Len(Device!Resources) + 1
                  /\ taken \subseteq {Device!Resources[n] : n \in 1 .. Len(Device!Resources)}
  BY <1>1 DEF ModTypes, First
<1>3. LineTypes => msgLen \in Device!MsgLens \union {0}
  BY DEF LineTypes, Device!MsgLens
<1> QED BY <1>2, <1>3, Zenon DEF ModTypes, LineTypes, UserTypes, Device!TypeOK

DeviceInv ==
    /\ ModTypes /\ LineTypes /\ UserTypes
    /\ HeldByPlace /\ UsersInv /\ Device!LineReadyForNextOpen

\* The first states satisfy the invariant.
LEMMA DeviceInit == Device!Init => DeviceInv
<1> SUFFICES ASSUME Device!Init PROVE DeviceInv
  OBVIOUS
<1> USE DEF Device!Init
<1>1. ModTypes
  BY DEF ModTypes
<1>2. LineTypes
  <2>1. dir \in {"in", "out"} /\ level \in {0, 1} /\ woken \in BOOLEAN
    OBVIOUS
  <2>2. size \in 0 .. 2 /\ signal \in {"0", "1", "other"}
    OBVIOUS
  <2>3. msgLen \in {0, 34, 36}
    OBVIOUS
  <2> QED BY <2>1, <2>2, <2>3, Zenon DEF LineTypes
<1>3. UserTypes
  BY RetriesAssumption DEF UserTypes
<1>4. HeldByPlace
  BY DEF HeldByPlace
<1>5. UsersInv
  BY DEF UsersInv, Device!InWrite
<1>6. Device!LineReadyForNextOpen
  BY DEF Device!LineReadyForNextOpen
<1> QED BY <1>1, <1>2, <1>3, <1>4, <1>5, <1>6 DEF DeviceInv

\* The steps of init and exit, whoever is using the device.
LEMMA DeviceModuleStep ==
    ASSUME DeviceInv, Device!ModuleStep PROVE DeviceInv'
<1> USE DEF Device!modVars, Device!lineVars, Device!ledVars, Device!fileVars
<1>1. ModTypes /\ LineTypes /\ UserTypes /\ HeldByPlace /\ UsersInv
  BY DEF DeviceInv
<1>2. Len(Device!Resources) = 5 /\ First(0) = {}
  BY ResourceFacts
<1>3. \A n \in 1 .. 5 : /\ First(n - 1) \union {Device!Resources[n]} = First(n)
                        /\ First(n) \ {Device!Resources[n]} = First(n - 1)
                        /\ First(n) \subseteq First(5)
  BY ResourceFacts
<1>4. UNCHANGED <<gadget, retry, offset>>
  BY DEF Device!ModuleStep, Device!Load, Device!InitStep, Device!SetDirection,
         Device!InitFails, Device!Release, Device!Rmmod, Device!ExitLow
<1>5. /\ user' \in [Users -> Device!InModule \union {"idle", "find", "stale"}]
      /\ \A u \in Users : user'[u] \in {user[u], "stale"}
  <2>1. user \in [Users -> Device!InModule \union {"idle", "find", "stale"}]
    BY <1>1 DEF UserTypes
  <2>2. \/ UNCHANGED user
        \/ user' = [u \in Users |->
                      IF user[u] \in Device!InModule THEN "stale" ELSE user[u]]
    BY DEF Device!ModuleStep, Device!Load, Device!InitStep, Device!SetDirection,
           Device!InitFails, Device!Release, Device!Rmmod, Device!ExitLow,
           Device!ReleaseFrom
  <2> QED BY <2>1, <2>2
<1>6. UserTypes'
  BY <1>1, <1>4, <1>5 DEF UserTypes
<1>7. LineTypes'
  BY <1>1 DEF LineTypes, Device!ModuleStep, Device!Load, Device!InitStep,
              Device!SetDirection, Device!InitFails, Device!Release,
              Device!Rmmod, Device!ExitLow
<1>8. ModTypes' /\ HeldByPlace'
  <2> USE <1>1 DEF ModTypes, HeldByPlace
  <2>1. CASE Device!Load
    BY <1>2, <2>1 DEF Device!Load
  <2>2. CASE Device!InitStep
    BY <1>2, <1>3, <2>2 DEF Device!InitStep
  <2>3. CASE Device!SetDirection
    BY <1>2, <2>3 DEF Device!SetDirection
  <2>4. CASE Device!InitFails
    <3>1. stage = "init" /\ taken = First(place - 1) /\ UNCHANGED taken
      BY <2>4 DEF Device!InitFails
    <3>2. CASE place = 1
      BY <1>2, <2>4, <3>1, <3>2
      DEF Device!InitFails, Device!ReleaseFrom, Device!FailLabel
    <3>3. CASE place # 1
      <4>1. stage' = "undo" /\ place' = place - 1 /\ place - 1 \in 1 .. 5
        BY <2>4, <3>1, <3>3
        DEF Device!InitFails, Device!ReleaseFrom, Device!FailLabel
      <4> QED BY <3>1, <4>1
    <3> QED BY <3>2, <3>3
  <2>5. CASE Device!Release
    <3>1. /\ stage \in {"undo", "exit"} /\ place \in 1 .. 5
          /\ taken = First(place) /\ taken' = First(place - 1)
      BY <1>2, <1>3, <2>5 DEF Device!Release
    <3>2. CASE place = 1
      BY <1>2, <2>5, <3>1, <3>2 DEF Device!Release, Device!ReleaseFrom
    <3>3. CASE place # 1
      <4>1. stage' = stage /\ place' = place - 1 /\ place - 1 \in 1 .. 5
        BY <2>5, <3>1, <3>3 DEF Device!Release, Device!ReleaseFrom
      <4> QED BY <1>3, <3>1, <4>1
    <3> QED BY <3>1, <3>2, <3>3
  <2>6. CASE Device!Rmmod
    BY <2>6 DEF Device!Rmmod
  <2>7. CASE Device!ExitLow
    BY <1>2, <1>3, <2>7 DEF Device!ExitLow
  <2> QED BY <2>1, <2>2, <2>3, <2>4, <2>5, <2>6, <2>7 DEF Device!ModuleStep
<1>9. UsersInv'
  BY <1>1, <1>4, <1>5 DEF UsersInv, Device!InWrite
<1>10. Device!LineReadyForNextOpen'
  <2>1. ASSUME gadget = "dht11", stage' = "live" PROVE stage = "live" \/ Device!SetDirection
    BY <2>1 DEF Device!ModuleStep, Device!Load, Device!InitStep,
           Device!InitFails, Device!Release, Device!Rmmod, Device!ExitLow,
           Device!ReleaseFrom
  <2>2. CASE Device!SetDirection
    BY <2>2 DEF Device!SetDirection, Device!LineReadyForNextOpen
  <2>3. ASSUME stage = "live", stage' = "live" PROVE FALSE
    BY <2>3 DEF Device!ModuleStep, Device!Load, Device!InitStep,
           Device!SetDirection, Device!InitFails, Device!Release, Device!Rmmod,
           Device!ExitLow
  <2> QED BY <1>4, <2>1, <2>2, <2>3 DEF Device!LineReadyForNextOpen
<1> QED BY <1>6, <1>7, <1>8, <1>9, <1>10 DEF DeviceInv

\* The steps of the users.
LEMMA DeviceUserStep ==
    ASSUME DeviceInv, NEW u \in Users, Device!UserStep(u) PROVE DeviceInv'
<1> USE DEF Device!modVars, Device!lineVars, Device!ledVars, Device!fileVars,
            Device!Goto
<1>1. ModTypes /\ LineTypes /\ UserTypes /\ HeldByPlace /\ UsersInv
      /\ Device!LineReadyForNextOpen
  BY DEF DeviceInv
<1>2. UNCHANGED Device!modVars
  BY DEF Device!UserStep, Device!Open, Device!ChrdevOpen, Device!device_open,
         Device!PullLow, Device!PullHigh, Device!Listen, Device!Measured,
         Device!NotMeasured, Device!Restore, Device!device_read,
         Device!device_write, Device!WriteSize, Device!WriteCopy,
         Device!WriteFault, Device!WriteSwitch, Device!WriteSet,
         Device!device_release
<1>3. ModTypes' /\ HeldByPlace'
  BY <1>1, <1>2 DEF ModTypes, HeldByPlace
<1> USE DEF Device!InModule, Device!InOpen, Device!InWrite
<1>4. CASE Device!Open(u) \/ Device!ChrdevOpen(u)
  <2>1. LineTypes' /\ UNCHANGED <<dir, level>>
    BY <1>1, <1>4 DEF Device!Open, Device!ChrdevOpen, LineTypes
  <2>2. UserTypes'
    BY <1>1, <1>4, RetriesAssumption DEF Device!Open, Device!ChrdevOpen, UserTypes
  <2>3. UsersInv'
    BY <1>1, <1>2, <1>4, RetriesAssumption
    DEF Device!Open, Device!ChrdevOpen, UsersInv, UserTypes
  <2>4. \A v \in Users : user[v] \in Device!InOpen => user'[v] \in Device!InOpen
    BY <1>1, <1>4 DEF Device!Open, Device!ChrdevOpen, UserTypes
  <2>5. Device!LineReadyForNextOpen'
    BY <1>1, <1>2, <2>1, <2>4 DEF Device!LineReadyForNextOpen
  <2> QED BY <1>3, <2>1, <2>2, <2>3, <2>5 DEF DeviceInv
<1>5. CASE Device!device_open(u)
  <2>1. LineTypes'
    BY <1>1, <1>5 DEF Device!device_open, Device!PullLow, Device!PullHigh,
         Device!Listen, Device!Measured, Device!NotMeasured, Device!Restore,
         LineTypes, Device!MsgLens
  <2>2. UserTypes' /\ UsersInv'
    <3>1. CASE Device!NotMeasured(u)
      <4>1. user[u] = "wait" /\ retry[u] + 1 \in 0 .. Retries
        BY <1>1, <3>1, RetriesAssumption DEF Device!NotMeasured, UsersInv, UserTypes
      <4>2. UserTypes'
        BY <1>1, <3>1, <4>1 DEF Device!NotMeasured, UserTypes
      <4>3. UsersInv'
        BY <1>1, <1>2, <3>1, <4>1
        DEF Device!NotMeasured, UsersInv, UserTypes
      <4> QED BY <4>2, <4>3
    <3>2. CASE ~Device!NotMeasured(u)
      <4>1. UNCHANGED <<retry, offset>>
        BY <1>5, <3>2 DEF Device!device_open, Device!PullLow, Device!PullHigh,
             Device!Listen, Device!Measured, Device!Restore
      <4>2. PICK loc \in {"high", "listen", "wait", "open", "idle"} :
              /\ user[u] \in Device!InOpen
              /\ loc \in {"high", "listen", "wait"} =>
                   user[u] \in {"low", "high", "listen"}
              /\ user' = [user EXCEPT ![u] = loc]
        BY <1>5, <3>2 DEF Device!device_open, Device!PullLow, Device!PullHigh,
             Device!Listen, Device!Measured, Device!Restore
      <4>3. UserTypes'
        BY <1>1, <4>1, <4>2 DEF UserTypes
      <4>4. UsersInv'
        BY <1>1, <1>2, <4>1, <4>2 DEF UsersInv, UserTypes
      <4> QED BY <4>3, <4>4
    <3> QED BY <3>1, <3>2
  <2>3. Device!LineReadyForNextOpen'
    <3>1. CASE Device!Measured(u) \/ Device!Restore(u)
      BY <3>1 DEF Device!Measured, Device!Restore, Device!LineReadyForNextOpen
    <3>2. CASE ~(Device!Measured(u) \/ Device!Restore(u))
      <4>1. user'[u] \in Device!InOpen
        BY <1>1, <1>5, <3>2 DEF Device!device_open, Device!PullLow,
           Device!PullHigh, Device!Listen, Device!NotMeasured, UserTypes
      <4> QED BY <4>1 DEF Device!LineReadyForNextOpen
    <3> QED BY <3>1, <3>2
  <2> QED BY <1>3, <2>1, <2>2, <2>3 DEF DeviceInv
<1>6. ASSUME NEW length \in Lengths, Device!device_read(u, length)
      PROVE  DeviceInv'
  <2>1. UNCHANGED <<Device!lineVars, Device!ledVars, msgLen, user, retry>>
    BY <1>6 DEF Device!device_read
  <2>2. offset' \in [Users -> 0 .. 36]
    <3>1. offset \in [Users -> 0 .. 36] /\ msgLen \in {0, 34, 36}
      BY <1>1 DEF UserTypes, LineTypes
    <3>2. length \in Nat
      BY LengthsAssumption
    <3> QED BY <1>6, <3>1, <3>2 DEF Device!device_read
  <2>3. LineTypes' /\ UserTypes'
    BY <1>1, <2>1, <2>2 DEF LineTypes, UserTypes
  <2>4. UsersInv' /\ Device!LineReadyForNextOpen'
    BY <1>1, <1>2, <2>1 DEF UsersInv, Device!LineReadyForNextOpen
  <2> QED BY <1>3, <2>3, <2>4 DEF DeviceInv
<1>7. CASE Device!device_write(u) \/ Device!device_release(u)
  <2>1. UNCHANGED <<dir, woken, msgLen, retry, offset>>
    BY <1>7 DEF Device!device_write, Device!WriteSize, Device!WriteCopy,
       Device!WriteFault, Device!WriteSwitch, Device!WriteSet,
       Device!device_release
  <2>2. /\ level' \in {0, 1} /\ size' \in 0 .. 2
        /\ signal' \in {"0", "1", "other"}
    BY <1>1, <1>7 DEF Device!device_write, Device!WriteSize, Device!WriteCopy,
       Device!WriteFault, Device!WriteSwitch, Device!WriteSet,
       Device!device_release, LineTypes
  <2>3. PICK loc \in Device!InWrite \union {"open", "idle"} :
          /\ user[u] \in Device!InModule \ Device!InOpen
          /\ gadget = "dht11" => loc = "idle" /\ UNCHANGED level
          /\ user' = [user EXCEPT ![u] = loc]
    BY <1>1, <1>7 DEF Device!device_write, Device!WriteSize, Device!WriteCopy,
       Device!WriteFault, Device!WriteSwitch, Device!WriteSet,
       Device!device_release, UsersInv
  <2>4. LineTypes'
    BY <1>1, <2>1, <2>2 DEF LineTypes
  <2>5. UserTypes'
    BY <1>1, <2>1, <2>3 DEF UserTypes
  <2>6. UsersInv'
    BY <1>1, <1>2, <2>1, <2>3 DEF UsersInv, UserTypes
  <2>7. Device!LineReadyForNextOpen'
    BY <1>1, <1>2, <2>1, <2>3 DEF Device!LineReadyForNextOpen, UserTypes
  <2> QED BY <1>3, <2>4, <2>5, <2>6, <2>7 DEF DeviceInv
<1> QED BY <1>4, <1>5, <1>6, <1>7 DEF Device!UserStep

\* Every step keeps the invariant.
LEMMA DeviceStep == DeviceInv /\ [Device!Next]_Device!vars => DeviceInv'
<1> SUFFICES ASSUME DeviceInv, [Device!Next]_Device!vars PROVE DeviceInv'
  OBVIOUS
<1>1. CASE UNCHANGED Device!vars
  <2>1. /\ UNCHANGED <<gadget, stage, place, taken, dir, level, woken, size>>
        /\ UNCHANGED <<signal, msgLen, user, retry, offset>>
    BY <1>1 DEF Device!vars, Device!modVars, Device!lineVars, Device!ledVars,
                Device!fileVars
  <2>2. ModTypes' /\ HeldByPlace' /\ UserTypes'
    BY <2>1 DEF DeviceInv, ModTypes, HeldByPlace, UserTypes
  <2>3. LineTypes'
    BY <2>1 DEF DeviceInv, LineTypes
  <2>4. UsersInv' /\ Device!LineReadyForNextOpen'
    BY <2>1 DEF DeviceInv, UsersInv, Device!LineReadyForNextOpen
  <2> QED BY <2>2, <2>3, <2>4 DEF DeviceInv
<1> QED BY <1>1, DeviceModuleStep, DeviceUserStep DEF Device!Next

\* The invariant says what the properties do.
LEMMA DeviceInvIsEnough ==
    DeviceInv => Device!TypeOK /\ Device!HeldInOrder
<1> SUFFICES ASSUME DeviceInv PROVE Device!TypeOK /\ Device!HeldInOrder
  OBVIOUS
<1>1. Device!TypeOK
  BY DeviceTypes DEF DeviceInv
<1>2. \E n \in 0 .. 5 : taken = First(n)
  <2>1. First(0) = {} /\ place \in 1 .. 6
    BY ResourceFacts DEF DeviceInv, ModTypes
  <2>2. \/ taken = {} \/ taken = First(place - 1) \/ taken = First(5)
        \/ place <= 5 /\ taken = First(place)
    BY <2>1 DEF DeviceInv, HeldByPlace, ModTypes
  <2>3. place - 1 \in 0 .. 5 /\ (place <= 5 => place \in 0 .. 5)
    BY <2>1
  <2> QED BY <2>1, <2>2, <2>3
<1>3. stage = "out" => taken = {}
  BY DEF DeviceInv, HeldByPlace
<1>4. Device!HeldInOrder
  BY <1>2, <1>3, ResourceFacts DEF Device!HeldInOrder, First
<1> QED BY <1>1, <1>4

-----------------------------------------------------------------------------
(* The examples as the run kernel checks them.                             *)

mcvars == <<example, vars, gpioVars, completionVars, deviceVars, laterVars>>

KernelInv ==
    GraceInv /\ Places /\ GpioInv /\ CompletionInv /\ DeviceInv /\ LaterInv

\* A step is one of a single example; the others stand still.
LEMMA KernelSteps ==
    [MCNext]_mcvars => /\ [Next]_vars /\ [Gpio!Next]_Gpio!vars
                       /\ [Completion!Next]_Completion!vars
                       /\ [Device!Next]_Device!vars /\ [Later!Next]_Later!vars
<1> SUFFICES ASSUME [MCNext]_mcvars
             PROVE  /\ [Next]_vars /\ [Gpio!Next]_Gpio!vars
                    /\ [Completion!Next]_Completion!vars
                    /\ [Device!Next]_Device!vars /\ [Later!Next]_Later!vars
  OBVIOUS
<1>1. UNCHANGED gpioVars => UNCHANGED Gpio!vars
  BY DEF gpioVars, Gpio!vars, Gpio!modVars, Gpio!ledVars, Gpio!workVars
<1>2. UNCHANGED completionVars => UNCHANGED Completion!vars
  BY DEF completionVars, Completion!vars, Completion!compVars
<1>3. UNCHANGED deviceVars => UNCHANGED Device!vars
  BY DEF deviceVars, Device!vars, Device!modVars, Device!lineVars,
         Device!ledVars, Device!fileVars
<1>4. UNCHANGED laterVars => UNCHANGED Later!vars
  BY DEF laterVars, Later!vars, Later!modVars, Later!ledVars
<1>5. \/ MCNext
      \/ UNCHANGED <<vars, gpioVars, completionVars, deviceVars, laterVars>>
  BY DEF mcvars
<1> QED BY <1>1, <1>2, <1>3, <1>4, <1>5 DEF MCNext

\* All invariants hold in every state of the composition.
LEMMA KernelCorrect == MCSpec => []KernelInv
<1>1. MCInit => KernelInv
  BY GraceInit, PlacesInit, GpioInit, CompletionInit, DeviceInit, LaterInit, Zenon
  DEF MCInit, KernelInv
<1>2. KernelInv /\ [MCNext]_mcvars => KernelInv'
  BY KernelSteps, GraceStep, PlacesStep, GpioStep, CompletionStep, DeviceStep,
     LaterStep, Zenon DEF KernelInv
<1> QED BY <1>1, <1>2, PTL DEF MCSpec, mcvars

\* All examples stay within their types.
THEOREM KernelTypeCorrect == MCSpec => []KernelTypeOK
<1>1. KernelInv => KernelTypeOK
  BY RcuTypes, GpioInvIsEnough, DeviceInvIsEnough, Zenon
  DEF KernelInv, KernelTypeOK, CompletionInv, LaterInv
<1> QED BY <1>1, KernelCorrect, PTL

\* The labels at the end of init and the statements of exit of the GPIO
\* drivers release nothing that is not held there, and those of led.c and
\* dht11.c all of it, last taken first, whichever step of init failed and
\* whatever interrupts and users came in between.
THEOREM ReleasesMatchHolds == MCSpec => []ReleasesMatch
<1>1. KernelInv => ReleasesMatch
  BY GpioInvIsEnough, DeviceInvIsEnough, Zenon DEF KernelInv, ReleasesMatch
<1> QED BY <1>1, KernelCorrect, PTL

\* The lines of the button drivers are held as long as an interrupt that uses
\* them can come, in all variants (of the older code, unless init has failed
\* and not succeeded since).
THEOREM HandlersHaveTheirLinesHolds == MCSpec => []HandlersHaveTheirLines
<1>1. KernelInv => HandlersHaveTheirLines
  BY GpioInvIsEnough, Zenon DEF KernelInv, HandlersHaveTheirLines
<1> QED BY <1>1, KernelCorrect, PTL

\* The LED is off after the exit of the button drivers, and dht11.c leaves
\* the line of the sensor ready for the next open.
THEOREM LinesLeftInOrderHolds == MCSpec => []LinesLeftInOrder
<1>1. KernelInv => LinesLeftInOrder
  BY GpioInvIsEnough, Zenon DEF KernelInv, LinesLeftInOrder, DeviceInv
<1> QED BY <1>1, KernelCorrect, PTL

\* What an exit waits for or gives back is gone when the module is out: lines
\* and interrupts (of the older button drivers, unless init failed), threads
\* up to their complete_all, timer, work of sched.c and tasklet, and the LEDs
\* of the consoles that nobody has turned away from.  (The bottomhalf_work of
\* bottomhalf.c is not among them: nothing waits for it.)
THEOREM AwaitedWhenOutHolds == MCSpec => []AwaitedWhenOut
<1>1. KernelInv => AwaitedWhenOut
  BY GpioInvIsEnough, Zenon
  DEF KernelInv, AwaitedWhenOut, CompletionInv, ThreadsAwaited, LaterInv
<1> QED BY <1>1, KernelCorrect, PTL

\* One button turns the LED on, the other off, in the variants that make its
\* line an output.
THEOREM ButtonsDriveTheLedHolds == MCSpec => []ButtonsDriveTheLed
<1>1. KernelInv => ButtonsDriveTheLed
  BY GpioInvIsEnough, Zenon DEF KernelInv, ButtonsDriveTheLed
<1> QED BY <1>1, KernelCorrect, PTL

\* The flywheel of completions.c turns after the crank, in every order in
\* which the threads are woken and scheduled.
THEOREM CrankBeforeFlywheelHolds == MCSpec => []CrankBeforeFlywheel
<1>1. KernelInv => CrankBeforeFlywheel
  BY Zenon DEF KernelInv, CrankBeforeFlywheel, CompletionInv, CrankFirst
<1> QED BY <1>1, KernelCorrect, PTL
=============================================================================
