------------------------------ MODULE MCKernel ------------------------------
(***************************************************************************)
(* The examples with interrupts, threads, deferred work and GPIO lines,    *)
(* Rcu, GpioIrq, Completions, GpioDev and Deferred, for TLC.  They share   *)
(* no state, so a behaviour is about one of them: "example" says which.    *)
(***************************************************************************)
EXTENDS Rcu, Sequences

CONSTANTS Drivers, Apis, Devices, Users, Lengths, Retries, Kinds,
          Consoles

\* Of the button drivers, of led.c and dht11.c, and of the modules that leave
\* something to run later.
ASSUME DriversAssumption == Drivers \subseteq {"intrpt", "bottomhalf", "threaded"}
ASSUME ApisAssumption == Apis \subseteq {"array", "single"}
ASSUME DevicesAssumption == Devices \subseteq {"led", "led64", "dht11"}
ASSUME LengthsAssumption == Lengths \subseteq Nat
ASSUME RetriesAssumption == Retries \in Nat \ {0}
ASSUME KindsAssumption == Kinds \subseteq {"kbleds", "sched", "tasklet"}

VARIABLES example,
          driver, api, phase, at, last, held, ledDir, led, isr, pending,
          running, lastButton,
          main, done, asleep, thread, printed,
          gadget, stage, place, taken, dir, level, woken, size, signal, msgLen,
          user, retry, offset,
          kind, mod, armed, handler, status, fg_console, console, leds, turned

Gpio == INSTANCE GpioIrq
Completion == INSTANCE Completions WITH pc <- thread
Device == INSTANCE GpioDev WITH pc <- user
Later == INSTANCE Deferred

gpioVars == <<driver, api, phase, at, last, held, ledDir, led, isr, pending,
              running, lastButton>>
completionVars == <<main, done, asleep, thread, printed>>
deviceVars == <<gadget, stage, place, taken, dir, level, woken, size, signal,
                msgLen, user, retry, offset>>
laterVars == <<kind, mod, armed, handler, status, fg_console, console, leds,
               turned>>

MCInit ==
    /\ example \in {"rcu", "gpio", "completions", "device", "later"}
    /\ Init /\ Gpio!Init /\ Completion!Init /\ Device!Init /\ Later!Init
    /\ example # "gpio" => /\ driver = CHOOSE d \in Drivers : TRUE
                           /\ api = CHOOSE a \in Apis : TRUE
    /\ example # "device" => gadget = CHOOSE d \in Devices : TRUE
    /\ example # "later" => /\ kind = CHOOSE k \in Kinds : TRUE
                            /\ fg_console = CHOOSE c \in Consoles : TRUE

MCNext ==
    /\ \/ /\ example = "rcu" /\ Next
          /\ UNCHANGED <<gpioVars, completionVars, deviceVars, laterVars>>
       \/ /\ example = "gpio" /\ Gpio!Next
          /\ UNCHANGED <<vars, completionVars, deviceVars, laterVars>>
       \/ /\ example = "completions" /\ Completion!Next
          /\ UNCHANGED <<vars, gpioVars, deviceVars, laterVars>>
       \/ /\ example = "device" /\ Device!Next
          /\ UNCHANGED <<vars, gpioVars, completionVars, laterVars>>
       \/ /\ example = "later" /\ Later!Next
          /\ UNCHANGED <<vars, gpioVars, completionVars, deviceVars>>
    /\ UNCHANGED example

\* An example that a behaviour is not about has no step to be fair to.
MCSpec ==
    /\ MCInit
    /\ [][MCNext]_<<example, vars, gpioVars, completionVars, deviceVars,
                    laterVars>>
    /\ Fairness
    /\ Completion!Fairness
    /\ Device!Fairness
    /\ Later!Fairness

\* All examples stay within their types.
KernelTypeOK == TypeOK /\ Gpio!TypeOK /\ Completion!TypeOK
                /\ Device!TypeOK /\ Later!TypeOK

\* What an exit waits for or gives back is gone when the module is out: the
\* lines and interrupts of the button drivers, with their handlers (but not
\* bottomhalf_work, see Gpio!NoWorkWhenOut, and not after a failed init of
\* the older code, see Gpio!NothingHeldWhenOut); the threads of completions.c
\* as far as their complete_all (the statement after it may be still to come);
\* the timer of kbleds.c, with the LEDs of the consoles that the user has not
\* turned away from, the work of sched.c and the tasklet.
AwaitedWhenOut ==
    /\ Gpio!ReleasedWhenOut
    /\ Completion!ThreadsCompletedWhenOut
    /\ Later!NothingRunsWhenOut

\* The failure labels of init and the statements of exit release nothing that
\* is not held; those of led.c and dht11.c release all that is held, in the
\* order opposite to that of init.  (Those of the button drivers may release
\* less: see Gpio!NothingHeldWhenOut.)
ReleasesMatch == Gpio!ReleasesOnlyWhatIsHeld /\ Device!HeldInOrder

\* What a driver leaves on a line: the LED is off after the exit of the
\* button drivers, and dht11.c leaves the line ready for the next open.
LinesLeftInOrder == Gpio!LedOffAfterExit /\ Device!LineReadyForNextOpen

\* Exits return, whatever threads, timers, work and tasklets do, and so
\* does every open of dht11.c, whatever the sensor does.
CallsReturn ==
    /\ ExitReturns
    /\ Completion!ExitReturns
    /\ Later!RmmodReturns
    /\ Device!OpenReturns

\* The properties of the instances, under names a .cfg can use.
HandlersHaveTheirLines == Gpio!HandlersHaveTheirLines
ButtonsDriveTheLed == Gpio!ButtonsDriveTheLed
CrankBeforeFlywheel == Completion!CrankBeforeFlywheel
=============================================================================
