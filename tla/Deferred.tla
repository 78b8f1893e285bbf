------------------------------ MODULE Deferred ------------------------------
(***************************************************************************)
(* Three modules that leave something to run later, and must stop it       *)
(* before their code goes: examples/kbleds.c, a timer whose handler blinks *)
(* the LEDs of the console in the foreground and arms the timer again;     *)
(* sched.c, one item on a queue of its own; example_tasklet.c, one tasklet.*)
(*                                                                         *)
(* External: timer_delete_sync takes a pending timer away, and waits for a *)
(* handler that runs and takes away what it has armed.  flush_workqueue    *)
(* and tasklet_kill wait until what is pending has run.  KDSETLED sets the *)
(* LEDs of the console it is called for; the user may bring another one to *)
(* the foreground at any time.                                             *)
(***************************************************************************)
CONSTANTS
    Kinds,      \* of "kbleds", "sched" and "tasklet"
    Consoles    \* the consoles of the keyboard

VARIABLES
    kind,       \* the module the behaviour is about (never changes)
    mod,        \* out, init, live, exit, or stopped (in exit)
    armed,      \* the timer, item or tasklet is pending
    handler,    \* idle, called, chosen (kbledstatus is set) or shown
    status,     \* kbledstatus (none: 0, before the first blink)
    fg_console, \* the console in the foreground
    console,    \* the console that the handler has found there
    leds,       \* per console: the last argument of KDSETLED
    turned      \* the consoles turned away from since exit restored them

modVars == <<kind, mod>>
ledVars == <<fg_console, console, leds, turned>>
vars == <<modVars, armed, handler, status, ledVars>>

LedStates == {"ALL_LEDS_ON", "RESTORE_LEDS"}

Init ==
    /\ kind \in Kinds
    /\ mod = "out" /\ armed = FALSE /\ handler = "idle"
    /\ status = "none"
    /\ fg_console \in Consoles /\ console = fg_console
    /\ leds = [c \in Consoles |-> "RESTORE_LEDS"]
    /\ turned = {}

-----------------------------------------------------------------------------
(* Init.  Only sched.c can fail, before it has queued anything.            *)

Load ==
    /\ mod = "out" /\ handler = "idle"
    /\ mod' = "init" /\ armed' = TRUE /\ status' = "none"
    /\ UNCHANGED <<kind, handler, ledVars>>

LoadFails ==
    /\ kind = "sched" /\ mod = "out"
    /\ UNCHANGED vars

\* example_tasklet_init waits for 200 ms before it returns.
LoadReturns ==
    /\ mod = "init"
    /\ mod' = "live"
    /\ UNCHANGED <<kind, armed, handler, status, ledVars>>

-----------------------------------------------------------------------------
(* my_timer_func, work_handler and tasklet_fn                              *)

Called ==
    /\ armed /\ handler = "idle"
    /\ armed' = FALSE /\ handler' = "called"
    /\ UNCHANGED <<modVars, status, ledVars>>

\* The console is looked up before the status is chosen.
Choose ==
    /\ kind = "kbleds" /\ handler = "called"
    /\ console' = fg_console
    /\ status' = IF status = "ALL_LEDS_ON" THEN "RESTORE_LEDS" ELSE "ALL_LEDS_ON"
    /\ handler' = "chosen"
    /\ UNCHANGED <<modVars, armed, fg_console, leds, turned>>

ShowLeds ==
    /\ handler = "chosen"
    /\ leds' = [leds EXCEPT ![console] = status]
    /\ handler' = "shown"
    /\ UNCHANGED <<modVars, armed, status, fg_console, console, turned>>

\* add_timer, and the end of the handler.
Rearm ==
    /\ handler = "shown"
    /\ armed' = TRUE /\ handler' = "idle"
    /\ UNCHANGED <<modVars, status, ledVars>>

\* The other handlers only print.
HandlerReturns ==
    /\ kind # "kbleds" /\ handler = "called"
    /\ handler' = "idle"
    /\ UNCHANGED <<modVars, armed, status, ledVars>>

Handler == Choose \/ ShowLeds \/ Rearm \/ HandlerReturns

\* The user turns to another console (which only kbleds.c looks at).
SwitchConsole ==
    /\ kind = "kbleds"
    /\ \E c \in Consoles \ {fg_console} : fg_console' = c
    /\ turned' = turned \union {fg_console}
    /\ UNCHANGED <<modVars, armed, handler, status, console, leds>>

-----------------------------------------------------------------------------
(* kbleds_cleanup, sched_exit and example_tasklet_exit                     *)

Rmmod ==
    /\ mod = "live"
    /\ mod' = "exit"
    /\ UNCHANGED <<kind, armed, handler, status, ledVars>>

\* Mutant of StopDeferred: del_timer, which does not wait.
StopAtOnce ==
    /\ mod = "exit"
    /\ armed' = FALSE /\ mod' = "stopped"
    /\ UNCHANGED <<kind, handler, status, ledVars>>

StopDeferred ==
    /\ mod = "exit" /\ handler = "idle"
    /\ kind = "kbleds" \/ ~armed
    /\ armed' = FALSE /\ mod' = "stopped"
    /\ UNCHANGED <<kind, handler, status, ledVars>>

\* The last ioctl of kbleds_cleanup, for the console that is in the foreground
\* now; destroy_workqueue.
ExitReturns ==
    /\ mod = "stopped"
    /\ IF kind = "kbleds"
       THEN /\ leds' = [leds EXCEPT ![fg_console] = "RESTORE_LEDS"]
            /\ turned' = turned \ {fg_console}
       ELSE UNCHANGED <<leds, turned>>
    /\ mod' = "out"
    /\ UNCHANGED <<kind, armed, handler, status, fg_console, console>>

-----------------------------------------------------------------------------

Next == \/ Load \/ LoadFails \/ LoadReturns \/ Called \/ Handler
        \/ SwitchConsole \/ Rmmod \/ StopDeferred \/ ExitReturns

\* A process that is in init or exit, and a handler, are not left alone by
\* the scheduler.  A timer waits for BLINK_DELAY between two calls, and
\* timer_delete_sync tries again all the time: it is not always the loser.
Fairness ==
    /\ WF_vars(LoadReturns) /\ WF_vars(Called) /\ WF_vars(Handler)
    /\ SF_vars(StopDeferred) /\ WF_vars(ExitReturns)

Spec == Init /\ [][Next]_vars /\ Fairness

-----------------------------------------------------------------------------
(* Properties                                                              *)

TypeOK ==
    /\ mod \in {"out", "init", "live", "exit", "stopped"}
    /\ armed \in BOOLEAN
    /\ handler \in {"idle", "called", "chosen", "shown"}
    /\ status \in LedStates \union {"none"}
    /\ fg_console \in Consoles /\ console \in Consoles
    /\ leds \in [Consoles -> LedStates]
    /\ turned \subseteq Consoles

\* Whenever rmmod comes, also between the call of a handler and its arming
\* of the timer: once the module is out, no handler runs or will run, and
\* the LEDs show the state of the keyboard again, on every console but those
\* that the user has turned away from.  (The handler, kbleds.c:37, and exit,
\* 83, take whichever console is in the foreground: one that was left while
\* it was lit stays lit.)
NothingRunsWhenOut ==
    mod = "out" =>
        /\ ~armed /\ handler = "idle"
        /\ \A c \in Consoles \ turned : leds[c] = "RESTORE_LEDS"

\* A timer that arms itself again cannot keep the module from going, and
\* exit waits for no handler that does not come.
RmmodReturns == mod = "exit" ~> mod = "out"
=============================================================================
