------------------------------ MODULE GpioIrq ------------------------------
(***************************************************************************)
(* examples/intrpt.c, bottomhalf.c and bh_threaded.c: an LED and two       *)
(* buttons on GPIO lines, the buttons with interrupt handlers.  The three  *)
(* drivers share one life cycle: an init function that acquires resources  *)
(* one after the other and on failure jumps into a list of releases, and   *)
(* an exit function.  Each is written twice, for kernels with              *)
(* gpio_request_array ("array") and since 6.10 ("single").                 *)
(*                                                                         *)
(* Interrupts come whenever their line is requested, during the init, the  *)
(* release and the exit too, and run on other CPUs than these.             *)
(*                                                                         *)
(* External: request_irq takes a free line; free_irq returns when no       *)
(* handler (or handler thread) of the line is running; schedule_work       *)
(* queues a work item that is not pending, running or not;                 *)
(* gpio_request_array is all or nothing; a line is an input until its      *)
(* direction is set, and keeps its direction and level when it is freed.   *)
(***************************************************************************)
EXTENDS Naturals, Sequences

CONSTANTS
    Drivers,    \* of {"intrpt", "bottomhalf", "threaded"}
    Apis        \* of {"array", "single"}

VARIABLES
    driver, api,   \* which module this is (never changes)
    phase,         \* out, init, unwind, live or exit
    at,            \* the next step of that phase
    last,          \* how the module last left: none, failed or exited
    held,          \* the resources held by the module
    ledDir, led,   \* the LED line: its direction and its output level
    isr,           \* per button: its handler is idle, top or thread
    pending,       \* bottomhalf_work is queued
    running,       \* bottomhalf_work_fn is executing
    lastButton     \* the button handled last since the load (2: none)

modVars == <<driver, api, phase, at, last, held>>
ledVars == <<ledDir, led>>
workVars == <<pending, running>>
vars == <<modVars, ledVars, isr, workVars, lastButton>>

Buttons == {0, 1}
Irq(b) == IF b = 0 THEN "irq0" ELSE "irq1"
Gpios == {"led", "btn0", "btn1"}
Resources == Gpios \union {"irq0", "irq1"}

-----------------------------------------------------------------------------
(* The three lists of the code, as data.                                   *)

\* The releases at the end of init, from the topmost label down.
Cleanup(a) ==
    IF a = "single"
    THEN <<{"irq0"}, {"btn1"}, {"btn0"}, {"led"}>>
    ELSE <<{"irq0"}, {"btn0", "btn1"}, {"led"}>>

\* A step of init: what it takes, and the place in Cleanup its failure goes
\* to (one past the end is a plain return).  "out" makes the LED an output.
S(takes, fail) == [takes |-> takes, fail |-> fail, out |-> FALSE]
Out(takes, fail) == [takes |-> takes, fail |-> fail, out |-> TRUE]

\* The empty steps set the direction of a button, or are gpio_to_irq.
ArraySteps ==
    <<Out({"led"}, 4), S({"btn0", "btn1"}, 3),
      S({}, 2), S({"irq0"}, 2), S({}, 2), S({"irq1"}, 1)>>

\* The directions are set by two of the drivers only.
IntrptSteps ==
    <<S({"led"}, 5), S({"btn0"}, 4), S({"btn1"}, 3),
      S({}, 2), S({"irq0"}, 2), S({}, 1), S({"irq1"}, 1)>>
DirectedSteps ==
    <<S({"led"}, 5), Out({}, 4), S({"btn0"}, 4), S({"btn1"}, 3),
      S({}, 2), S({}, 2), S({}, 2), S({"irq0"}, 2), S({}, 1), S({"irq1"}, 1)>>

\* Mutant of InitSteps: nobody makes the LED an output.
StepsWithoutDirection(d, a) == IF a = "array" THEN ArraySteps ELSE IntrptSteps

InitSteps(d, a) ==
    IF a = "array" THEN ArraySteps
    ELSE IF d = "intrpt" THEN IntrptSteps ELSE DirectedSteps

E(frees) == [frees |-> frees, off |-> FALSE]
LedOff == [frees |-> {}, off |-> TRUE]

ArrayExit ==
    <<E({"irq0"}), E({"irq1"}), LedOff, E({"led"}), E({"btn0", "btn1"})>>
SingleExit ==
    <<E({"irq0"}), E({"irq1"}), LedOff, E({"led"}), E({"btn0"}), E({"btn1"})>>

\* Mutant of ExitSteps: the lines are freed before the interrupts.
ExitGpiosFirst(a) ==
    <<E({"led"}), E({"btn0", "btn1"}), E({"irq0"}), E({"irq1"}), LedOff>>

\* The statements of the exit function, in order.
ExitSteps(a) == IF a = "single" THEN SingleExit ELSE ArrayExit

-----------------------------------------------------------------------------

Init ==
    /\ driver \in Drivers /\ api \in Apis
    /\ phase = "out" /\ at = 1 /\ last = "none"
    /\ held = {}
    /\ ledDir = "in" /\ led = 0
    /\ isr = [b \in Buttons |-> "idle"]
    /\ pending = FALSE /\ running = FALSE
    /\ lastButton = 2

\* free_irq waits for the handlers; gpio_free does not wait.
Quiet(res) == \A b \in Buttons : Irq(b) \in res => isr[b] = "idle"

Load ==
    /\ phase = "out"
    /\ phase' = "init"
    /\ at' = 1
    /\ lastButton' = 2
    /\ UNCHANGED <<driver, api, last, held, ledVars, isr, workVars>>

\* A step of init that succeeds; the last one makes the module live.
InitStep ==
    LET steps == InitSteps(driver, api)
    IN  /\ phase = "init"
        /\ steps[at].takes \intersect held = {}
        /\ held' = held \union steps[at].takes
        /\ IF steps[at].out THEN ledDir' = "out" /\ led' = 0
                            ELSE UNCHANGED ledVars
        /\ IF at = Len(steps) THEN phase' = "live" /\ at' = 1
                              ELSE at' = at + 1 /\ UNCHANGED phase
        /\ UNCHANGED <<driver, api, last, isr, workVars, lastButton>>

\* Going on with the releases from place n.
UnwindFrom(n) ==
    IF n > Len(Cleanup(api))
    THEN phase' = "out" /\ at' = 1 /\ last' = "failed"
    ELSE phase' = "unwind" /\ at' = n /\ UNCHANGED last

InitFails ==
    /\ phase = "init"
    /\ UnwindFrom(InitSteps(driver, api)[at].fail)
    /\ UNCHANGED <<driver, api, held, ledVars, isr, workVars, lastButton>>

UnwindStep ==
    /\ phase = "unwind"
    /\ Quiet(Cleanup(api)[at])
    /\ held' = held \ Cleanup(api)[at]
    /\ UnwindFrom(at + 1)
    /\ UNCHANGED <<driver, api, ledVars, isr, workVars, lastButton>>

Unload ==
    /\ phase = "live"
    /\ phase' = "exit"
    /\ UNCHANGED <<driver, api, at, last, held, ledVars, isr, workVars, lastButton>>

ExitStep ==
    LET steps == ExitSteps(api)
    IN  /\ phase = "exit"
        /\ Quiet(steps[at].frees)
        /\ held' = held \ steps[at].frees
        /\ led' = IF steps[at].off THEN 0 ELSE led
        /\ IF at = Len(steps)
           THEN phase' = "out" /\ at' = 1 /\ last' = "exited"
           ELSE at' = at + 1 /\ UNCHANGED <<phase, last>>
        /\ UNCHANGED <<driver, api, ledDir, isr, workVars, lastButton>>

-----------------------------------------------------------------------------
(* Interrupts and the bottom halves.                                       *)

Interrupt(b) ==
    /\ Irq(b) \in held
    /\ isr[b] = "idle"
    /\ isr' = [isr EXCEPT ![b] = "top"]
    /\ UNCHANGED <<modVars, ledVars, workVars, lastButton>>

\* button_isr of intrpt.c and bottomhalf.c: button 0 turns the LED on if it
\* is off, button 1 off if it is on.  Of a line that is an input the level
\* read is that of the outside.  (Two handlers running at once read and set
\* the LED as if one had run after the other.)
button_isr(b) ==
    /\ driver \in {"intrpt", "bottomhalf"}
    /\ isr[b] = "top"
    /\ led' \in IF ledDir = "out" THEN {1 - b} ELSE {led, 1 - b}
    /\ lastButton' = b
    /\ pending' = (pending \/ driver = "bottomhalf")
    /\ isr' = [isr EXCEPT ![b] = "idle"]
    /\ UNCHANGED <<modVars, ledDir, running>>

button_top_half(b) ==
    /\ driver = "threaded"
    /\ isr[b] = "top"
    /\ isr' = [isr EXCEPT ![b] = "thread"]
    /\ UNCHANGED <<modVars, ledVars, workVars, lastButton>>

button_bottom_half(b) ==
    /\ isr[b] = "thread"
    /\ lastButton' = b
    /\ isr' = [isr EXCEPT ![b] = "idle"]
    /\ UNCHANGED <<modVars, ledVars, workVars>>

WorkStarts ==
    /\ pending /\ ~running
    /\ pending' = FALSE
    /\ running' = TRUE
    /\ UNCHANGED <<modVars, ledVars, isr, lastButton>>

bottomhalf_work_fn ==
    /\ running
    /\ running' = FALSE
    /\ UNCHANGED <<modVars, ledVars, isr, pending, lastButton>>

-----------------------------------------------------------------------------

ModuleStep ==
    Load \/ InitStep \/ InitFails \/ UnwindStep \/ Unload \/ ExitStep

HandlerStep ==
    \/ \E b \in Buttons : \/ Interrupt(b) \/ button_isr(b)
                          \/ button_top_half(b) \/ button_bottom_half(b)
    \/ WorkStarts \/ bottomhalf_work_fn

Next == ModuleStep \/ HandlerStep

Spec == Init /\ [][Next]_vars

-----------------------------------------------------------------------------
(* Properties                                                              *)

Places ==
    CASE phase = "init"   -> DOMAIN InitSteps(driver, api)
      [] phase = "unwind" -> DOMAIN Cleanup(api)
      [] phase = "exit"   -> DOMAIN ExitSteps(api)
      [] OTHER            -> {1}

TypeOK ==
    /\ driver \in Drivers /\ api \in Apis
    /\ phase \in {"out", "init", "unwind", "live", "exit"}
    /\ at \in Places
    /\ last \in {"none", "failed", "exited"}
    /\ held \subseteq Resources
    /\ ledDir \in {"in", "out"} /\ led \in {0, 1}
    /\ isr \in [Buttons -> {"idle", "top", "thread"}]
    /\ pending \in BOOLEAN /\ running \in BOOLEAN
    /\ lastButton \in {0, 1, 2}

\* Neither the failure paths of init nor exit release what is not held, in
\* any of the six variants: no label stands before what its jumps have taken.
\* (Whether all that is held is released is NothingHeldWhenOut.)
ReleasesOnlyWhatIsHeld ==
    /\ phase = "unwind" => Cleanup(api)[at] \subseteq held
    /\ phase = "exit" => ExitSteps(api)[at].frees \subseteq held

\* After exit the LED is off, whatever button was pressed during exit: the
\* handlers are gone before it is turned off.
LedOffAfterExit ==
    phase = "out" /\ last = "exited" => led = 0

\* An init of the older code has failed, and none succeeded since: it may
\* have left its first interrupt behind (see NothingHeldWhenOut).
MayHaveLeaked ==
    /\ api = "array"
    /\ phase = "unwind" \/ (phase \in {"out", "init"} /\ last = "failed")

\* An interrupt that can come finds the lines its handler uses: in all six
\* variants they are requested before it and freed after it, in init, in exit
\* and, of the newer code, from every failure label.
HandlersHaveTheirLines ==
    ~MayHaveLeaked =>
        \A b \in Buttons :
            Irq(b) \in held \/ isr[b] # "idle" => Gpios \subseteq held

\* "Every resource acquired must be released on error" (lkmpg.tex:996), and
\* exit undoes init: a module that is out holds nothing and no handler of
\* it runs.
NothingHeldWhenOut ==
    phase = "out" => held = {} /\ \A b \in Buttons : isr[b] = "idle"

\* The same, except after a failed init of the older code.
ReleasedWhenOut ==
    api = "single" \/ last # "failed" => NothingHeldWhenOut

\* "Press one button to turn on a LED and another to turn it off"
\* (intrpt.c:8, bottomhalf.c:8), of the variants that make the LED line an
\* output and whose handlers use it.
Lit == ledDir = "out" /\ led = 1

ButtonsDriveTheLed ==
    driver = "bottomhalf" \/ (driver = "intrpt" /\ api = "array") =>
        (phase = "live" => /\ lastButton = 0 => Lit
                           /\ lastButton = 1 => ~Lit)

\* "The cleanup_module() function is supposed to undo whatever init_module()
\* did, so the module can be unloaded safely." (lkmpg.tex:577): no work of a
\* module that is out is queued or executing.
NoWorkWhenOut ==
    phase = "out" => ~pending /\ ~running
=============================================================================
