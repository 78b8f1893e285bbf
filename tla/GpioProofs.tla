----------------------------- MODULE GpioProofs -----------------------------
(***************************************************************************)
(* Proofs about the button drivers intrpt.c, bottomhalf.c and              *)
(* bh_threaded.c (Gpio, an instance of GpioIrq in MCKernel), in all six    *)
(* variants.  The lists of the code are first turned into three tables:    *)
(* which step of init takes a resource, which label of its end and which   *)
(* statement of exit releases it.                                          *)
(***************************************************************************)
EXTENDS MCKernel, TLAPS

-----------------------------------------------------------------------------
(* The lists of the code as tables.                                        *)

\* The step of init that takes a resource.
TakenAt(d, a, r) ==
    IF r = "led" THEN 1
    ELSE IF a = "array"
    THEN IF r = "irq0" THEN 4 ELSE IF r = "irq1" THEN 6 ELSE 2
    ELSE IF d = "intrpt"
    THEN IF r = "btn0" THEN 2 ELSE IF r = "btn1" THEN 3
         ELSE IF r = "irq0" THEN 5 ELSE 7
    ELSE IF r = "btn0" THEN 3 ELSE IF r = "btn1" THEN 4
         ELSE IF r = "irq0" THEN 8 ELSE 10

InitLen(d, a) == IF a = "array" THEN 6 ELSE IF d = "intrpt" THEN 7 ELSE 10

\* The label at the end of init that releases it (0: none).
UndoneAt(a, r) ==
    IF r = "irq0" THEN 1
    ELSE IF r = "irq1" THEN 0
    ELSE IF a = "array"
    THEN IF r = "led" THEN 3 ELSE 2
    ELSE IF r = "led" THEN 4 ELSE IF r = "btn0" THEN 3 ELSE 2

UndoLen(a) == IF a = "array" THEN 3 ELSE 4

\* The statement of exit that releases it.
FreedAt(a, r) ==
    IF r = "irq0" THEN 1
    ELSE IF r = "irq1" THEN 2
    ELSE IF r = "led" THEN 4
    ELSE IF r = "btn0" \/ a = "array" THEN 5 ELSE 6

ExitLen(a) == IF a = "array" THEN 5 ELSE 6

\* The step that makes the LED an output (none of intrpt.c since 6.10).
OutAt(a) == IF a = "array" THEN 1 ELSE 2

Resources == {"led", "btn0", "btn1", "irq0", "irq1"}

\* The resources of the drivers.
LEMMA ResourceSet == Gpio!Resources = Resources
BY DEF Gpio!Resources, Gpio!Gpios, Resources

\* What a step of init takes is what the table says, its failure jumps to
\* the label that releases what the earlier ones have taken, but for one
\* jump of the older code, which forgets the first interrupt.
LEMMA InitTable ==
    ASSUME NEW d, NEW a \in {"array", "single"},
           NEW n \in 1 .. InitLen(d, a)
    PROVE  LET step == Gpio!InitSteps(d, a)[n]
           IN  /\ step.takes \subseteq Resources
               /\ \A r \in Resources : r \in step.takes <=> TakenAt(d, a, r) = n
               /\ step.fail \in 1 .. UndoLen(a) + 1
               /\ \A r \in Resources :
                    UndoneAt(a, r) >= step.fail => TakenAt(d, a, r) < n
               /\ \A r \in Resources :
                    TakenAt(d, a, r) < n =>
                      \/ UndoneAt(a, r) >= step.fail
                      \/ a = "array" /\ r = "irq0"
               /\ step.out \in BOOLEAN
               /\ a = "array" \/ d # "intrpt" => (step.out <=> n = OutAt(a))
<1> DEFINE step == Gpio!InitSteps(d, a)[n]
<1>0. \A res, f : /\ Gpio!S(res, f).takes = res /\ Gpio!S(res, f).fail = f
                  /\ Gpio!S(res, f).out = FALSE
                  /\ Gpio!Out(res, f).takes = res /\ Gpio!Out(res, f).fail = f
                  /\ Gpio!Out(res, f).out = TRUE
  BY DEF Gpio!S, Gpio!Out
<1>1. CASE a = "array"
  <2>1. n \in 1 .. 6 /\ step = Gpio!ArraySteps[n]
    BY <1>1 DEF Gpio!InitSteps, InitLen
  <2>2. step = IF n = 1 THEN Gpio!Out({"led"}, 4)
               ELSE IF n = 2 THEN Gpio!S({"btn0", "btn1"}, 3)
               ELSE IF n = 4 THEN Gpio!S({"irq0"}, 2)
               ELSE IF n = 6 THEN Gpio!S({"irq1"}, 1)
               ELSE Gpio!S({}, 2)
    BY <2>1 DEF Gpio!ArraySteps
  <2> HIDE DEF step
  <2>3. /\ step.takes = IF n = 1 THEN {"led"} ELSE IF n = 2 THEN {"btn0", "btn1"}
                        ELSE IF n = 4 THEN {"irq0"} ELSE IF n = 6 THEN {"irq1"}
                        ELSE {}
        /\ step.fail = IF n = 1 THEN 4 ELSE IF n = 2 THEN 3
                       ELSE IF n = 6 THEN 1 ELSE 2
    BY <1>0, <2>2
  <2>7. step.out \in BOOLEAN /\ (step.out <=> n = 1)
    <3>1. CASE n = 1
      BY <1>0, <2>2, <3>1, Zenon
    <3>2. CASE n # 1
      <4>1. step.out = FALSE
        BY <1>0, <2>2, <3>2
      <4> QED BY <3>2, <4>1
    <3> QED BY <3>1, <3>2
  <2>4. /\ step.takes \subseteq Resources
        /\ \A r \in Resources : r \in step.takes <=> TakenAt(d, a, r) = n
    BY <1>1, <2>1, <2>3 DEF TakenAt, Resources
  <2>5. step.fail \in 1 .. UndoLen(a) + 1
    BY <1>1, <2>1, <2>3 DEF UndoLen
  <2>6. \A r \in Resources :
            /\ UndoneAt(a, r) >= step.fail => TakenAt(d, a, r) < n
            /\ TakenAt(d, a, r) < n =>
                 UndoneAt(a, r) >= step.fail \/ (a = "array" /\ r = "irq0")
    BY <1>1, <2>1, <2>3 DEF TakenAt, UndoneAt, Resources
  <2> QED BY <1>1, <2>4, <2>5, <2>6, <2>7 DEF step, OutAt
<1>2. CASE a = "single" /\ d = "intrpt"
  <2>1. n \in 1 .. 7 /\ step = Gpio!IntrptSteps[n]
    BY <1>2 DEF Gpio!InitSteps, InitLen
  <2>2. step = IF n = 1 THEN Gpio!S({"led"}, 5)
               ELSE IF n = 2 THEN Gpio!S({"btn0"}, 4)
               ELSE IF n = 3 THEN Gpio!S({"btn1"}, 3)
               ELSE IF n = 4 THEN Gpio!S({}, 2)
               ELSE IF n = 5 THEN Gpio!S({"irq0"}, 2)
               ELSE IF n = 6 THEN Gpio!S({}, 1)
               ELSE Gpio!S({"irq1"}, 1)
    BY <2>1 DEF Gpio!IntrptSteps
  <2> HIDE DEF step
  <2>3. /\ step.takes = IF n = 1 THEN {"led"} ELSE IF n = 2 THEN {"btn0"}
                        ELSE IF n = 3 THEN {"btn1"} ELSE IF n = 5 THEN {"irq0"}
                        ELSE IF n = 7 THEN {"irq1"} ELSE {}
        /\ step.fail = IF n = 1 THEN 5 ELSE IF n = 2 THEN 4 ELSE IF n = 3 THEN 3
                       ELSE IF n < 6 THEN 2 ELSE 1
        /\ step.out = FALSE
    BY <1>0, <2>1, <2>2
  <2>4. /\ step.takes \subseteq Resources
        /\ \A r \in Resources : r \in step.takes <=> TakenAt(d, a, r) = n
    BY <1>2, <2>1, <2>3 DEF TakenAt, Resources
  <2>5. step.fail \in 1 .. UndoLen(a) + 1
    BY <1>2, <2>1, <2>3 DEF UndoLen
  <2>6. \A r \in Resources :
            UndoneAt(a, r) >= step.fail <=> TakenAt(d, a, r) < n
    BY <1>2, <2>1, <2>3 DEF TakenAt, UndoneAt, Resources
  <2> QED BY <1>2, <2>3, <2>4, <2>5, <2>6 DEF step
<1>3. CASE a = "single" /\ d # "intrpt"
  <2>1. n \in 1 .. 10 /\ step = Gpio!DirectedSteps[n]
    BY <1>3 DEF Gpio!InitSteps, InitLen
  <2>2. step = IF n = 1 THEN Gpio!S({"led"}, 5)
               ELSE IF n = 2 THEN Gpio!Out({}, 4)
               ELSE IF n = 3 THEN Gpio!S({"btn0"}, 4)
               ELSE IF n = 4 THEN Gpio!S({"btn1"}, 3)
               ELSE IF n = 8 THEN Gpio!S({"irq0"}, 2)
               ELSE IF n = 9 THEN Gpio!S({}, 1)
               ELSE IF n = 10 THEN Gpio!S({"irq1"}, 1)
               ELSE Gpio!S({}, 2)
    BY <2>1 DEF Gpio!DirectedSteps
  <2> HIDE DEF step
  <2>3. /\ step.takes = IF n = 1 THEN {"led"} ELSE IF n = 3 THEN {"btn0"}
                        ELSE IF n = 4 THEN {"btn1"} ELSE IF n = 8 THEN {"irq0"}
                        ELSE IF n = 10 THEN {"irq1"} ELSE {}
        /\ step.fail = IF n = 1 THEN 5 ELSE IF n < 4 THEN 4 ELSE IF n = 4 THEN 3
                       ELSE IF n < 9 THEN 2 ELSE 1
    BY <1>0, <2>1, <2>2
  <2>7. step.out \in BOOLEAN /\ (step.out <=> n = 2)
    <3>1. CASE n = 2
      <4>1. step.out = TRUE
        BY <1>0, <2>2, <3>1
      <4> QED BY <3>1, <4>1
    <3>2. CASE n # 2
      <4>1. step.out = FALSE
        BY <1>0, <2>2, <3>2
      <4> QED BY <3>2, <4>1
    <3> QED BY <3>1, <3>2
  <2>4. /\ step.takes \subseteq Resources
        /\ \A r \in Resources : r \in step.takes <=> TakenAt(d, a, r) = n
    BY <1>3, <2>1, <2>3 DEF TakenAt, Resources
  <2>5. step.fail \in 1 .. UndoLen(a) + 1
    BY <1>3, <2>1, <2>3 DEF UndoLen
  <2>6. \A r \in Resources :
            UndoneAt(a, r) >= step.fail <=> TakenAt(d, a, r) < n
    BY <1>3, <2>1, <2>3 DEF TakenAt, UndoneAt, Resources
  <2> QED BY <1>3, <2>4, <2>5, <2>6, <2>7 DEF step, OutAt
<1> QED BY <1>1, <1>2, <1>3

\* The lengths of the lists.
LEMMA ListLengths ==
    ASSUME NEW d, NEW a \in {"array", "single"}
    PROVE  /\ Len(Gpio!InitSteps(d, a)) = InitLen(d, a)
           /\ DOMAIN Gpio!InitSteps(d, a) = 1 .. InitLen(d, a)
           /\ Len(Gpio!Cleanup(a)) = UndoLen(a)
           /\ DOMAIN Gpio!Cleanup(a) = 1 .. UndoLen(a)
           /\ Len(Gpio!ExitSteps(a)) = ExitLen(a)
           /\ DOMAIN Gpio!ExitSteps(a) = 1 .. ExitLen(a)
<1>1. Len(Gpio!ArraySteps) = 6 /\ DOMAIN Gpio!ArraySteps = 1 .. 6
  BY DEF Gpio!ArraySteps
<1>2. Len(Gpio!IntrptSteps) = 7 /\ DOMAIN Gpio!IntrptSteps = 1 .. 7
  BY DEF Gpio!IntrptSteps
<1>3. Len(Gpio!DirectedSteps) = 10 /\ DOMAIN Gpio!DirectedSteps = 1 .. 10
  BY DEF Gpio!DirectedSteps
<1>4. Len(Gpio!ArrayExit) = 5 /\ DOMAIN Gpio!ArrayExit = 1 .. 5
  BY DEF Gpio!ArrayExit
<1>5. Len(Gpio!SingleExit) = 6 /\ DOMAIN Gpio!SingleExit = 1 .. 6
  BY DEF Gpio!SingleExit
<1>6. Len(Gpio!Cleanup(a)) = UndoLen(a) /\ DOMAIN Gpio!Cleanup(a) = 1 .. UndoLen(a)
  <2>1. CASE a = "array"
    BY <2>1 DEF Gpio!Cleanup, UndoLen
  <2>2. CASE a = "single"
    BY <2>2 DEF Gpio!Cleanup, UndoLen
  <2> QED BY <2>1, <2>2
<1> QED BY <1>1, <1>2, <1>3, <1>4, <1>5, <1>6
        DEF Gpio!InitSteps, Gpio!ExitSteps, InitLen, ExitLen

\* What a label at the end of init releases.
LEMMA UndoTable ==
    ASSUME NEW a \in {"array", "single"}, NEW n \in 1 .. UndoLen(a)
    PROVE  /\ Gpio!Cleanup(a)[n] \subseteq Resources
           /\ \A r \in Resources : r \in Gpio!Cleanup(a)[n] <=> UndoneAt(a, r) = n
BY DEF Gpio!Cleanup, UndoLen, UndoneAt, Resources

\* What a statement of exit releases.
LEMMA ExitTable ==
    ASSUME NEW a \in {"array", "single"}, NEW n \in 1 .. ExitLen(a)
    PROVE  LET step == Gpio!ExitSteps(a)[n]
           IN  /\ step.frees \subseteq Resources
               /\ \A r \in Resources : r \in step.frees <=> FreedAt(a, r) = n
               /\ step.off \in BOOLEAN
               /\ step.off <=> n = 3
<1> DEFINE step == Gpio!ExitSteps(a)[n]
<1>1. /\ \A res : Gpio!E(res).frees = res /\ Gpio!E(res).off = FALSE
      /\ Gpio!LedOff.frees = {} /\ Gpio!LedOff.off = TRUE
  BY DEF Gpio!E, Gpio!LedOff
<1>2. step = IF n = 1 THEN Gpio!E({"irq0"}) ELSE IF n = 2 THEN Gpio!E({"irq1"})
             ELSE IF n = 3 THEN Gpio!LedOff ELSE IF n = 4 THEN Gpio!E({"led"})
             ELSE IF a = "array" THEN Gpio!E({"btn0", "btn1"})
             ELSE IF n = 5 THEN Gpio!E({"btn0"}) ELSE Gpio!E({"btn1"})
  BY DEF Gpio!ExitSteps, Gpio!ArrayExit, Gpio!SingleExit, ExitLen
<1> HIDE DEF step
<1>3. /\ step.frees = IF n = 1 THEN {"irq0"} ELSE IF n = 2 THEN {"irq1"}
                      ELSE IF n = 3 THEN {} ELSE IF n = 4 THEN {"led"}
                      ELSE IF a = "array" THEN {"btn0", "btn1"}
                      ELSE IF n = 5 THEN {"btn0"} ELSE {"btn1"}
  BY <1>1, <1>2
<1>5. step.off \in BOOLEAN /\ (step.off <=> n = 3)
  <2>1. CASE n = 3
    <3>1. step.off = TRUE
      BY <1>1, <1>2, <2>1
    <3> QED BY <2>1, <3>1
  <2>2. CASE n # 3
    <3>1. step.off = FALSE
      BY <1>1, <1>2, <2>2
    <3> QED BY <2>2, <3>1
  <2> QED BY <2>1, <2>2
<1>4. /\ step.frees \subseteq Resources
      /\ \A r \in Resources : r \in step.frees <=> FreedAt(a, r) = n
  BY <1>3 DEF FreedAt, ExitLen, Resources
<1> QED BY <1>4, <1>5 DEF step

-----------------------------------------------------------------------------
(* The inductive invariant.                                                *)

USE DEF Gpio!modVars, Gpio!ledVars, Gpio!workVars

\* The types, with the places of the lists spelled out.
GpioTypes ==
    /\ driver \in Drivers /\ driver \in {"intrpt", "bottomhalf", "threaded"}
    /\ api \in Apis /\ api \in {"array", "single"}
    /\ phase \in {"out", "init", "unwind", "live", "exit"}
    /\ phase = "init" => at \in 1 .. InitLen(driver, api)
    /\ phase = "unwind" => at \in 1 .. UndoLen(api)
    /\ phase = "exit" => at \in 1 .. ExitLen(api)
    /\ phase \in {"out", "live"} => at = 1
    /\ last \in {"none", "failed", "exited"}
    /\ held \subseteq Resources

LedTypes ==
    /\ ledDir \in {"in", "out"} /\ led \in {0, 1} /\ lastButton \in {0, 1, 2}

HandlerTypes ==
    /\ isr \in [Gpio!Buttons -> {"idle", "top", "thread"}]
    /\ pending \in BOOLEAN /\ running \in BOOLEAN
    /\ \A b \in Gpio!Buttons : isr[b] = "thread" => driver = "threaded"

\* What is held is what the tables say; a failed init of the older code may
\* have left the first interrupt.
HeldByTable ==
    /\ phase = "out" =>
           held = {} \/ (api = "array" /\ last = "failed" /\ held \subseteq {"irq0"})
    /\ phase = "init" => \A r \in Resources :
           /\ TakenAt(driver, api, r) < at => r \in held
           /\ r \in held => \/ TakenAt(driver, api, r) < at
                            \/ api = "array" /\ r = "irq0" /\ last = "failed"
    /\ phase = "unwind" => \A r \in Resources :
           /\ UndoneAt(api, r) >= at => r \in held
           /\ r \in held => UndoneAt(api, r) >= at \/ (api = "array" /\ r = "irq0")
    /\ phase = "live" => held = Resources
    /\ phase = "exit" => \A r \in Resources : r \in held <=> FreedAt(api, r) >= at

\* free_irq has waited for the handler of an interrupt that is not held.
HandlersAreHeld ==
    \A b \in Gpio!Buttons : isr[b] # "idle" => Gpio!Irq(b) \in held

\* From the statement of exit that turns it off, the LED stays off.
StaysOff ==
    /\ phase = "exit" /\ at > 3 => led = 0
    /\ phase = "out" /\ last = "exited" => led = 0

\* In the variants that make the LED an output and use it: it is one from
\* that step on, and shows the button handled last, of which there is none
\* before the first interrupt is requested.
Tracks == (lastButton = 0 => led = 1) /\ (lastButton = 1 => led = 0)

FollowsButtons ==
    driver = "bottomhalf" \/ (driver = "intrpt" /\ api = "array") =>
        /\ phase = "init" /\ at > OutAt(api) => ledDir = "out"
        /\ phase = "live" => ledDir = "out" /\ Tracks
        /\ phase = "init" /\ "irq0" \notin held => lastButton = 2
        /\ phase = "init" /\ at > TakenAt(driver, api, "irq0") => Tracks

GpioInv ==
    /\ GpioTypes /\ LedTypes /\ HandlerTypes /\ HeldByTable /\ HandlersAreHeld
    /\ StaysOff /\ FollowsButtons

\* The first states satisfy the invariant.
LEMMA GpioInit == Gpio!Init => GpioInv
<1> SUFFICES ASSUME Gpio!Init PROVE GpioInv
  OBVIOUS
<1>1. GpioTypes /\ LedTypes
  BY DriversAssumption, ApisAssumption DEF Gpio!Init, GpioTypes, LedTypes
<1>2. HandlerTypes
  BY DEF Gpio!Init, HandlerTypes
<1>3. HeldByTable /\ HandlersAreHeld /\ StaysOff
  BY DEF Gpio!Init, HeldByTable, HandlersAreHeld, StaysOff
<1>4. FollowsButtons
  BY DEF Gpio!Init, FollowsButtons
<1> QED BY <1>1, <1>2, <1>3, <1>4 DEF GpioInv

\* A step that leaves the module, the LED and the handlers alone keeps the
\* invariant.
LEMMA GpioFrame ==
    ASSUME GpioInv, UNCHANGED <<driver, api, phase, at, last, held, ledDir, led,
                                isr, lastButton>>,
           pending' \in BOOLEAN, running' \in BOOLEAN
    PROVE  GpioInv'
BY DEF GpioInv, GpioTypes, LedTypes, HandlerTypes, HeldByTable, HandlersAreHeld,
       StaysOff, FollowsButtons, Tracks

\* A step of a handler, or of the thread of one, keeps the invariant.
LEMMA GpioHandlerStep ==
    ASSUME GpioInv, NEW b \in Gpio!Buttons,
           \/ Gpio!Interrupt(b) \/ Gpio!button_isr(b)
           \/ Gpio!button_top_half(b) \/ Gpio!button_bottom_half(b)
    PROVE  GpioInv'
<1>1. /\ UNCHANGED <<driver, api, phase, at, last, held, ledDir>>
      /\ isr' \in [Gpio!Buttons -> {"idle", "top", "thread"}]
      /\ \A c \in Gpio!Buttons : c # b => isr'[c] = isr[c]
      /\ Gpio!Irq(b) \in held
      /\ isr'[b] = "thread" => driver = "threaded"
  BY DEF GpioInv, HandlerTypes, HandlersAreHeld, Gpio!Interrupt, Gpio!button_isr,
         Gpio!button_top_half, Gpio!button_bottom_half
<1>2. pending' \in BOOLEAN /\ running' \in BOOLEAN
  BY DEF GpioInv, HandlerTypes, Gpio!Interrupt, Gpio!button_isr,
         Gpio!button_top_half, Gpio!button_bottom_half
<1>3. GpioTypes' /\ HeldByTable'
  BY <1>1 DEF GpioInv, GpioTypes, HeldByTable
<1>4. HandlerTypes' /\ HandlersAreHeld'
  BY <1>1, <1>2 DEF GpioInv, HandlerTypes, HandlersAreHeld
<1>5. LedTypes'
  BY DEF GpioInv, LedTypes, Gpio!Interrupt, Gpio!button_isr, Gpio!Buttons,
         Gpio!button_top_half, Gpio!button_bottom_half
\* Handlers that run find their interrupt held.
<1>6. /\ phase = "exit" => ~(at > 3)
      /\ ~(phase = "out" /\ last = "exited")
      /\ phase = "init" => "irq0" \in held
  <2>1. Gpio!Irq(b) \in {"irq0", "irq1"} /\ Gpio!Irq(b) \in Resources
    BY DEF Gpio!Irq, Resources
  <2>2. phase = "exit" => ~(at > 3)
    BY <1>1, <2>1 DEF GpioInv, GpioTypes, HeldByTable, FreedAt, ExitLen
  <2>3. ~(phase = "out" /\ last = "exited")
    BY <1>1 DEF GpioInv, HeldByTable
  <2>4. ASSUME phase = "init" PROVE "irq0" \in held
    <3>1. \A r \in Resources : r \in held =>
             TakenAt(driver, api, r) < at \/ (api = "array" /\ r = "irq0")
      BY <2>4 DEF GpioInv, HeldByTable
    <3>2. at \in 1 .. InitLen(driver, api)
      BY <2>4 DEF GpioInv, GpioTypes
    <3>3. TakenAt(driver, api, "irq1") = InitLen(driver, api)
      BY DEF TakenAt, InitLen
    <3>4. InitLen(driver, api) \in Nat
      BY DEF InitLen
    <3>5. Gpio!Irq(b) # "irq1"
      BY <1>1, <2>1, <3>1, <3>2, <3>3, <3>4
    <3> QED BY <1>1, <2>1, <3>5
  <2> QED BY <2>2, <2>3, <2>4
<1>7. StaysOff'
  BY <1>1, <1>6 DEF StaysOff
<1>8. FollowsButtons'
  <2> SUFFICES ASSUME driver = "bottomhalf" \/ (driver = "intrpt" /\ api = "array")
               PROVE  /\ phase = "init" /\ at > OutAt(api) => ledDir = "out"
                      /\ phase = "live" => ledDir = "out" /\ Tracks'
                      /\ phase = "init" /\ "irq0" \notin held => lastButton' = 2
                      /\ phase = "init" /\ at > TakenAt(driver, api, "irq0")
                           => Tracks'
    BY <1>1 DEF FollowsButtons, OutAt, TakenAt
  <2>1. driver # "threaded"
    OBVIOUS
  <2>2. CASE Gpio!Interrupt(b)
    <3>1. UNCHANGED <<led, lastButton>>
      BY <2>2 DEF Gpio!Interrupt
    <3> QED BY <3>1, <1>6 DEF GpioInv, FollowsButtons, Tracks
  <2>3. CASE Gpio!button_isr(b)
    <3>1. ASSUME ledDir = "out" PROVE Tracks'
      BY <2>3, <3>1 DEF Gpio!button_isr, Tracks, Gpio!Buttons
    <3>2. phase = "init" /\ at > TakenAt(driver, api, "irq0") => ledDir = "out"
      <4>1. TakenAt(driver, api, "irq0") > OutAt(api) /\ OutAt(api) \in Nat
            /\ TakenAt(driver, api, "irq0") \in Nat
        BY DEF TakenAt, OutAt
      <4>2. phase = "init" => at \in Nat
        BY DEF GpioInv, GpioTypes, InitLen
      <4> QED BY <4>1, <4>2 DEF GpioInv, FollowsButtons
    <3> QED BY <3>1, <3>2, <1>6 DEF GpioInv, FollowsButtons
  <2>4. ~Gpio!button_top_half(b) /\ ~Gpio!button_bottom_half(b)
    BY <2>1 DEF Gpio!button_top_half, Gpio!button_bottom_half, GpioInv, HandlerTypes
  <2> QED BY <2>2, <2>3, <2>4
<1> QED BY <1>3, <1>4, <1>5, <1>7, <1>8 DEF GpioInv

\* Load keeps the invariant.
LEMMA GpioLoad == GpioInv /\ Gpio!Load => GpioInv'
<1> SUFFICES ASSUME GpioInv, Gpio!Load PROVE GpioInv'
  OBVIOUS
<1>1. /\ UNCHANGED <<driver, api, last, held, ledDir, led, isr, pending, running>>
      /\ phase = "out" /\ phase' = "init" /\ at' = 1 /\ lastButton' = 2
  BY DEF Gpio!Load
<1>2. GpioTypes' /\ LedTypes'
  BY <1>1 DEF GpioInv, GpioTypes, LedTypes, InitLen
<1>3. HandlerTypes' /\ HandlersAreHeld'
  BY <1>1 DEF GpioInv, HandlerTypes, HandlersAreHeld
<1>4. \A r \in Resources : ~(TakenAt(driver, api, r) < 1)
  BY DEF TakenAt
<1>5. HeldByTable'
  BY <1>1, <1>4 DEF GpioInv, HeldByTable
<1>6. StaysOff' /\ FollowsButtons'
  <2>1. ~(1 > OutAt(api))
    BY DEF OutAt
  <2> QED BY <1>1, <2>1 DEF StaysOff, FollowsButtons, Tracks
<1> QED BY <1>2, <1>3, <1>5, <1>6 DEF GpioInv

\* A step of init that succeeds keeps the invariant.
LEMMA GpioInitStep == GpioInv /\ Gpio!InitStep => GpioInv'
<1> SUFFICES ASSUME GpioInv, Gpio!InitStep PROVE GpioInv'
  OBVIOUS
<1> DEFINE step == Gpio!InitSteps(driver, api)[at]
<1>1. /\ UNCHANGED <<driver, api, last, isr, pending, running, lastButton>>
      /\ phase = "init" /\ step.takes \intersect held = {}
      /\ held' = held \union step.takes
      /\ IF step.out THEN ledDir' = "out" /\ led' = 0
                     ELSE UNCHANGED <<ledDir, led>>
      /\ IF at = Len(Gpio!InitSteps(driver, api))
         THEN phase' = "live" /\ at' = 1 ELSE at' = at + 1 /\ phase' = "init"
  BY DEF Gpio!InitStep
<1>2. /\ at \in 1 .. InitLen(driver, api) /\ InitLen(driver, api) \in Nat
      /\ driver \in {"intrpt", "bottomhalf", "threaded"}
      /\ api \in {"array", "single"}
  BY <1>1 DEF GpioInv, GpioTypes, InitLen
<1>3. /\ step.takes \subseteq Resources
      /\ \A r \in Resources : r \in step.takes <=> TakenAt(driver, api, r) = at
      /\ step.out \in BOOLEAN
      /\ api = "array" \/ driver # "intrpt" => (step.out <=> at = OutAt(api))
  BY <1>2, InitTable
<1>4. Len(Gpio!InitSteps(driver, api)) = InitLen(driver, api)
  BY <1>2, ListLengths
<1> HIDE DEF step
<1>5. IF at = InitLen(driver, api)
      THEN phase' = "live" /\ at' = 1
      ELSE /\ at' = at + 1 /\ phase' = "init" /\ at' \in 1 .. InitLen(driver, api)
  BY <1>1, <1>2, <1>4
<1>6. GpioTypes'
  BY <1>1, <1>2, <1>3, <1>5 DEF GpioInv, GpioTypes, InitLen
<1>7. LedTypes'
  BY <1>1 DEF GpioInv, LedTypes
<1>8. HandlerTypes' /\ HandlersAreHeld'
  BY <1>1 DEF GpioInv, HandlerTypes, HandlersAreHeld
<1>9. \A r \in Resources :
          TakenAt(driver, api, r) \in 1 .. InitLen(driver, api)
  BY <1>2 DEF TakenAt, InitLen, Resources
<1>10. \A r \in Resources :
          /\ TakenAt(driver, api, r) < at + 1 => r \in held'
          /\ r \in held' => \/ TakenAt(driver, api, r) < at + 1
                            \/ api = "array" /\ r = "irq0" /\ last = "failed"
  BY <1>1, <1>2, <1>3, <1>9 DEF GpioInv, HeldByTable
<1>11. at = InitLen(driver, api) => held' = Resources
  <2> SUFFICES ASSUME at = InitLen(driver, api) PROVE held' = Resources
    OBVIOUS
  <2>1. \A r \in Resources : r \in held'
    BY <1>2, <1>9, <1>10
  <2> QED BY <1>1, <1>3, <2>1 DEF GpioInv, GpioTypes
<1>12. HeldByTable'
  BY <1>1, <1>5, <1>10, <1>11 DEF HeldByTable
<1>13. StaysOff'
  BY <1>5 DEF StaysOff
<1>14. FollowsButtons'
  <2> SUFFICES ASSUME driver = "bottomhalf" \/ (driver = "intrpt" /\ api = "array")
               PROVE  /\ at >= OutAt(api) => ledDir' = "out"
                      /\ "irq0" \notin held' => lastButton = 2
                      /\ at >= TakenAt(driver, api, "irq0") => Tracks'
    <3>1. /\ InitLen(driver, api) >= OutAt(api)
          /\ InitLen(driver, api) >= TakenAt(driver, api, "irq0")
          /\ OutAt(api) \in Nat /\ TakenAt(driver, api, "irq0") \in Nat
      BY <1>2 DEF InitLen, OutAt, TakenAt
    <3> QED BY <1>1, <1>2, <1>5, <3>1 DEF FollowsButtons, Tracks
  <2>1. /\ step.out <=> at = OutAt(api)
        /\ OutAt(api) \in Nat /\ TakenAt(driver, api, "irq0") \in Nat
        /\ OutAt(api) < TakenAt(driver, api, "irq0")
    BY <1>2, <1>3 DEF OutAt, TakenAt
  <2>2. at >= OutAt(api) => ledDir' = "out"
    BY <1>1, <1>2, <2>1 DEF GpioInv, FollowsButtons
  <2>3. "irq0" \notin held => lastButton = 2
    BY <1>1 DEF GpioInv, FollowsButtons
  <2>4. at > TakenAt(driver, api, "irq0") => Tracks'
    BY <1>1, <1>2, <2>1 DEF GpioInv, FollowsButtons, Tracks
  <2>5. at = TakenAt(driver, api, "irq0") => Tracks'
    <3> SUFFICES ASSUME at = TakenAt(driver, api, "irq0") PROVE Tracks'
      OBVIOUS
    <3>1. "irq0" \notin held
      BY <1>1, <1>3 DEF Resources
    <3> QED BY <1>1, <2>3, <3>1 DEF Tracks
  <2> QED BY <1>1, <1>2, <2>1, <2>2, <2>3, <2>4, <2>5
<1> QED BY <1>6, <1>7, <1>8, <1>12, <1>13, <1>14 DEF GpioInv

\* What going on with the releases from a place leads to: the next label,
\* or out, with nothing or the forgotten interrupt held.
LEMMA GpioUnwindFrom ==
    ASSUME GpioInv, NEW n \in 1 .. UndoLen(api) + 1, Gpio!UnwindFrom(n),
           UNCHANGED <<driver, api, ledDir, led, isr, pending, running, lastButton>>,
           held' \subseteq Resources,
           \A r \in Resources :
               /\ UndoneAt(api, r) >= n => r \in held'
               /\ r \in held' => UndoneAt(api, r) >= n \/ (api = "array" /\ r = "irq0"),
           \A b \in Gpio!Buttons : isr[b] # "idle" => Gpio!Irq(b) \in held'
    PROVE  GpioInv'
<1>1. api \in {"array", "single"} /\ UndoLen(api) \in Nat
  BY DEF GpioInv, GpioTypes, UndoLen
<1>2. Len(Gpio!Cleanup(api)) = UndoLen(api)
  BY <1>1, ListLengths
<1>3. \/ n > UndoLen(api) /\ phase' = "out" /\ at' = 1 /\ last' = "failed"
      \/ n \in 1 .. UndoLen(api) /\ phase' = "unwind" /\ at' = n /\ last' = last
  BY <1>1, <1>2 DEF Gpio!UnwindFrom
<1>4. GpioTypes' /\ LedTypes'
  BY <1>3 DEF GpioInv, GpioTypes, LedTypes
<1>5. HandlerTypes' /\ HandlersAreHeld'
  BY DEF GpioInv, HandlerTypes, HandlersAreHeld
<1>6. HeldByTable'
  <2>1. \A r \in Resources : UndoneAt(api, r) \in 0 .. UndoLen(api)
    BY <1>1 DEF UndoneAt, UndoLen, Resources
  <2>2. ASSUME n > UndoLen(api)
        PROVE  \A r \in held' : api = "array" /\ r = "irq0"
    BY <1>1, <2>1, <2>2
  <2> QED BY <1>3, <2>2 DEF HeldByTable
<1>7. StaysOff' /\ FollowsButtons'
  BY <1>3 DEF StaysOff, FollowsButtons
<1> QED BY <1>4, <1>5, <1>6, <1>7 DEF GpioInv

\* A step of init that fails keeps the invariant.
LEMMA GpioInitFails == GpioInv /\ Gpio!InitFails => GpioInv'
<1> SUFFICES ASSUME GpioInv, Gpio!InitFails PROVE GpioInv'
  OBVIOUS
<1> DEFINE step == Gpio!InitSteps(driver, api)[at]
<1>1. /\ UNCHANGED <<driver, api, held, ledDir, led, isr, pending, running,
                     lastButton>>
      /\ phase = "init" /\ Gpio!UnwindFrom(step.fail)
  BY DEF Gpio!InitFails
<1>2. at \in 1 .. InitLen(driver, api) /\ api \in {"array", "single"}
  BY <1>1 DEF GpioInv, GpioTypes
<1>3. /\ step.fail \in 1 .. UndoLen(api) + 1
      /\ \A r \in Resources :
           /\ UndoneAt(api, r) >= step.fail => TakenAt(driver, api, r) < at
           /\ TakenAt(driver, api, r) < at =>
                UndoneAt(api, r) >= step.fail \/ (api = "array" /\ r = "irq0")
  BY <1>2, InitTable
<1> HIDE DEF step
<1>4. \A r \in Resources :
          /\ UndoneAt(api, r) >= step.fail => r \in held'
          /\ r \in held' =>
               UndoneAt(api, r) >= step.fail \/ (api = "array" /\ r = "irq0")
  BY <1>1, <1>3 DEF GpioInv, HeldByTable
<1>5. /\ held' \subseteq Resources
      /\ \A b \in Gpio!Buttons : isr[b] # "idle" => Gpio!Irq(b) \in held'
  BY <1>1 DEF GpioInv, GpioTypes, HandlersAreHeld
<1> QED BY <1>1, <1>3, <1>4, <1>5, GpioUnwindFrom

\* A release at the end of init keeps the invariant: what it releases is
\* held, and an interrupt is idle before it goes.
LEMMA GpioUnwindStep == GpioInv /\ Gpio!UnwindStep => GpioInv'
<1> SUFFICES ASSUME GpioInv, Gpio!UnwindStep PROVE GpioInv'
  OBVIOUS
<1>1. /\ UNCHANGED <<driver, api, ledDir, led, isr, pending, running, lastButton>>
      /\ phase = "unwind" /\ Gpio!UnwindFrom(at + 1)
      /\ held' = held \ Gpio!Cleanup(api)[at]
      /\ \A b \in Gpio!Buttons :
             Gpio!Irq(b) \in Gpio!Cleanup(api)[at] => isr[b] = "idle"
  BY DEF Gpio!UnwindStep, Gpio!Quiet
<1>2. at \in 1 .. UndoLen(api) /\ api \in {"array", "single"} /\ UndoLen(api) \in Nat
  BY <1>1 DEF GpioInv, GpioTypes, UndoLen
<1>3. \A r \in Resources : r \in Gpio!Cleanup(api)[at] <=> UndoneAt(api, r) = at
  BY <1>2, UndoTable
<1>4. \A r \in Resources : UndoneAt(api, r) \in Nat
  BY DEF UndoneAt
<1>5. \A r \in Resources :
          /\ UndoneAt(api, r) >= at + 1 => r \in held'
          /\ r \in held' =>
               UndoneAt(api, r) >= at + 1 \/ (api = "array" /\ r = "irq0")
  BY <1>1, <1>2, <1>3, <1>4 DEF GpioInv, HeldByTable
<1>6. /\ held' \subseteq Resources
      /\ \A b \in Gpio!Buttons : isr[b] # "idle" => Gpio!Irq(b) \in held'
  BY <1>1 DEF GpioInv, GpioTypes, HandlersAreHeld
<1>7. at + 1 \in 1 .. UndoLen(api) + 1
  BY <1>2
<1> QED BY <1>1, <1>5, <1>6, <1>7, GpioUnwindFrom

\* The start of exit keeps the invariant.
LEMMA GpioUnload == GpioInv /\ Gpio!Unload => GpioInv'
<1> SUFFICES ASSUME GpioInv, Gpio!Unload PROVE GpioInv'
  OBVIOUS
<1>1. /\ UNCHANGED <<driver, api, at, last, held, ledDir, led, isr, pending,
                     running, lastButton>>
      /\ phase = "live" /\ phase' = "exit"
  BY DEF Gpio!Unload
<1>2. at = 1 /\ held = Resources
  BY <1>1 DEF GpioInv, GpioTypes, HeldByTable
<1>3. GpioTypes' /\ LedTypes'
  BY <1>1, <1>2 DEF GpioInv, GpioTypes, LedTypes, ExitLen
<1>4. HandlerTypes' /\ HandlersAreHeld'
  BY <1>1 DEF GpioInv, HandlerTypes, HandlersAreHeld
<1>5. \A r \in Resources : FreedAt(api, r) >= 1
  BY DEF FreedAt
<1>6. HeldByTable'
  BY <1>1, <1>2, <1>5 DEF HeldByTable
<1>7. StaysOff' /\ FollowsButtons'
  BY <1>1, <1>2 DEF StaysOff, FollowsButtons
<1> QED BY <1>3, <1>4, <1>6, <1>7 DEF GpioInv

\* A statement of exit keeps the invariant.
LEMMA GpioExitStep == GpioInv /\ Gpio!ExitStep => GpioInv'
<1> SUFFICES ASSUME GpioInv, Gpio!ExitStep PROVE GpioInv'
  OBVIOUS
<1> DEFINE step == Gpio!ExitSteps(api)[at]
<1>1. /\ UNCHANGED <<driver, api, ledDir, isr, pending, running, lastButton>>
      /\ phase = "exit"
      /\ held' = held \ step.frees
      /\ led' = IF step.off THEN 0 ELSE led
      /\ \A b \in Gpio!Buttons : Gpio!Irq(b) \in step.frees => isr[b] = "idle"
      /\ IF at = Len(Gpio!ExitSteps(api))
         THEN phase' = "out" /\ at' = 1 /\ last' = "exited"
         ELSE at' = at + 1 /\ phase' = "exit" /\ last' = last
  BY DEF Gpio!ExitStep, Gpio!Quiet
<1>2. at \in 1 .. ExitLen(api) /\ api \in {"array", "single"} /\ ExitLen(api) \in {5, 6}
  BY <1>1 DEF GpioInv, GpioTypes, ExitLen
<1>3. /\ \A r \in Resources : r \in step.frees <=> FreedAt(api, r) = at
      /\ step.off \in BOOLEAN
      /\ step.off <=> at = 3
  BY <1>2, ExitTable
<1>4. Len(Gpio!ExitSteps(api)) = ExitLen(api)
  BY <1>2, ListLengths
<1> HIDE DEF step
<1>5. \/ at = ExitLen(api) /\ phase' = "out" /\ at' = 1 /\ last' = "exited"
      \/ /\ at' = at + 1 /\ phase' = "exit" /\ last' = last
         /\ at' \in 1 .. ExitLen(api)
  BY <1>1, <1>2, <1>4
<1>6. GpioTypes'
  BY <1>1, <1>5 DEF GpioInv, GpioTypes
<1>7. LedTypes'
  BY <1>1 DEF GpioInv, LedTypes
<1>8. HandlerTypes' /\ HandlersAreHeld'
  BY <1>1 DEF GpioInv, HandlerTypes, HandlersAreHeld
<1>9. \A r \in Resources : FreedAt(api, r) \in 1 .. ExitLen(api)
  BY <1>2 DEF FreedAt, ExitLen, Resources
<1>10. \A r \in Resources : r \in held' <=> FreedAt(api, r) >= at + 1
  BY <1>1, <1>2, <1>3, <1>9 DEF GpioInv, HeldByTable
<1>11. at = ExitLen(api) => held' = {}
  <2> SUFFICES ASSUME at = ExitLen(api) PROVE held' = {}
    OBVIOUS
  <2>1. \A r \in Resources : r \notin held'
    BY <1>2, <1>9, <1>10
  <2> QED BY <1>1, <2>1 DEF GpioInv, GpioTypes
<1>12. HeldByTable'
  BY <1>1, <1>5, <1>10, <1>11 DEF HeldByTable
<1>13. StaysOff'
  <2>1. at > 3 => led = 0
    BY <1>1 DEF GpioInv, StaysOff
  <2>2. at >= 3 => led' = 0
    BY <1>1, <1>2, <1>3, <2>1
  <2> QED BY <1>2, <1>5, <2>2 DEF StaysOff
<1>14. FollowsButtons'
  BY <1>5 DEF FollowsButtons
<1> QED BY <1>6, <1>7, <1>8, <1>12, <1>13, <1>14 DEF GpioInv

\* Every step of the drivers keeps the invariant.
LEMMA GpioStep == GpioInv /\ [Gpio!Next]_Gpio!vars => GpioInv'
<1> SUFFICES ASSUME GpioInv, [Gpio!Next]_Gpio!vars PROVE GpioInv'
  OBVIOUS
<1>1. CASE Gpio!ModuleStep
  BY <1>1, GpioLoad, GpioInitStep, GpioInitFails, GpioUnwindStep, GpioUnload,
     GpioExitStep, Zenon DEF Gpio!ModuleStep
<1>2. CASE \E b \in Gpio!Buttons :
              \/ Gpio!Interrupt(b) \/ Gpio!button_isr(b)
              \/ Gpio!button_top_half(b) \/ Gpio!button_bottom_half(b)
  BY <1>2, GpioHandlerStep
<1>3. CASE Gpio!WorkStarts
  BY <1>3, GpioFrame DEF Gpio!WorkStarts, GpioInv, HandlerTypes
<1>4. CASE Gpio!bottomhalf_work_fn
  BY <1>4, GpioFrame DEF Gpio!bottomhalf_work_fn, GpioInv, HandlerTypes
<1>5. CASE UNCHANGED Gpio!vars
  BY <1>5, GpioFrame DEF Gpio!vars, GpioInv, HandlerTypes
<1> QED BY <1>1, <1>2, <1>3, <1>4, <1>5, Zenon DEF Gpio!Next, Gpio!HandlerStep

\* What the runs check follows from the invariant.
LEMMA GpioInvIsEnough ==
    GpioInv => /\ Gpio!TypeOK /\ Gpio!ReleasesOnlyWhatIsHeld
               /\ Gpio!LedOffAfterExit /\ Gpio!HandlersHaveTheirLines
               /\ Gpio!ReleasedWhenOut /\ Gpio!ButtonsDriveTheLed
<1> SUFFICES ASSUME GpioInv
             PROVE  /\ Gpio!TypeOK /\ Gpio!ReleasesOnlyWhatIsHeld
                    /\ Gpio!LedOffAfterExit /\ Gpio!HandlersHaveTheirLines
                    /\ Gpio!ReleasedWhenOut /\ Gpio!ButtonsDriveTheLed
  OBVIOUS
<1>1. api \in {"array", "single"}
  BY DEF GpioInv, GpioTypes
<1>2. Gpio!TypeOK
  <2>1. at \in Gpio!Places
    <3>1. /\ DOMAIN Gpio!InitSteps(driver, api) = 1 .. InitLen(driver, api)
          /\ DOMAIN Gpio!Cleanup(api) = 1 .. UndoLen(api)
          /\ DOMAIN Gpio!ExitSteps(api) = 1 .. ExitLen(api)
      BY <1>1, ListLengths
    <3>2. CASE phase = "init"
      BY <3>1, <3>2 DEF GpioInv, GpioTypes, Gpio!Places
    <3>3. CASE phase = "unwind"
      BY <3>1, <3>3 DEF GpioInv, GpioTypes, Gpio!Places
    <3>4. CASE phase = "exit"
      BY <3>1, <3>4 DEF GpioInv, GpioTypes, Gpio!Places
    <3>5. CASE phase \in {"out", "live"}
      BY <3>5 DEF GpioInv, GpioTypes, Gpio!Places
    <3> QED BY <3>2, <3>3, <3>4, <3>5 DEF GpioInv, GpioTypes
  <2>2. /\ driver \in Drivers /\ api \in Apis
        /\ phase \in {"out", "init", "unwind", "live", "exit"}
        /\ last \in {"none", "failed", "exited"}
        /\ held \subseteq Gpio!Resources
    BY ResourceSet DEF GpioInv, GpioTypes
  <2>3. /\ ledDir \in {"in", "out"} /\ led \in {0, 1}
        /\ lastButton \in {0, 1, 2}
    BY DEF GpioInv, LedTypes
  <2>4. /\ isr \in [Gpio!Buttons -> {"idle", "top", "thread"}]
        /\ pending \in BOOLEAN /\ running \in BOOLEAN
    BY DEF GpioInv, HandlerTypes
  <2> QED BY <2>1, <2>2, <2>3, <2>4, Zenon DEF Gpio!TypeOK
<1>3. Gpio!ReleasesOnlyWhatIsHeld
  <2>1. ASSUME phase = "unwind" PROVE Gpio!Cleanup(api)[at] \subseteq held
    <3>1. at \in 1 .. UndoLen(api) /\ UndoLen(api) \in Nat
      BY <2>1 DEF GpioInv, GpioTypes, UndoLen
    <3>2. /\ Gpio!Cleanup(api)[at] \subseteq Resources
          /\ \A r \in Resources : r \in Gpio!Cleanup(api)[at] => UndoneAt(api, r) = at
      BY <1>1, <3>1, UndoTable
    <3> QED BY <2>1, <3>1, <3>2 DEF GpioInv, HeldByTable
  <2>2. ASSUME phase = "exit" PROVE Gpio!ExitSteps(api)[at].frees \subseteq held
    <3>1. at \in 1 .. ExitLen(api) /\ ExitLen(api) \in Nat
      BY <2>2 DEF GpioInv, GpioTypes, ExitLen
    <3>2. /\ Gpio!ExitSteps(api)[at].frees \subseteq Resources
          /\ \A r \in Resources :
               r \in Gpio!ExitSteps(api)[at].frees => FreedAt(api, r) = at
      BY <1>1, <3>1, ExitTable
    <3> QED BY <2>2, <3>1, <3>2 DEF GpioInv, HeldByTable
  <2> QED BY <2>1, <2>2 DEF Gpio!ReleasesOnlyWhatIsHeld
<1>4. Gpio!LedOffAfterExit
  BY DEF GpioInv, StaysOff, Gpio!LedOffAfterExit
<1>5. Gpio!HandlersHaveTheirLines
  <2> SUFFICES ASSUME ~Gpio!MayHaveLeaked, NEW b \in Gpio!Buttons,
                      Gpio!Irq(b) \in held
               PROVE  Gpio!Gpios \subseteq held
    BY DEF GpioInv, HandlersAreHeld, Gpio!HandlersHaveTheirLines
  <2>1. Gpio!Irq(b) \in {"irq0", "irq1"}
    BY DEF Gpio!Irq
  <2>2. CASE phase = "init"
    <3>1. at \in Nat
      BY <2>2 DEF GpioInv, GpioTypes, InitLen
    <3>2. \A r \in {"irq0", "irq1"} : r \in held => TakenAt(driver, api, r) < at
      BY <2>2 DEF GpioInv, HeldByTable, Resources, Gpio!MayHaveLeaked
    <3>3. \A r \in {"led", "btn0", "btn1"} : TakenAt(driver, api, r) < at => r \in held
      BY <2>2 DEF GpioInv, HeldByTable, Resources
    <3>4. \A r \in {"led", "btn0", "btn1"}, q \in {"irq0", "irq1"} :
             TakenAt(driver, api, q) < at => TakenAt(driver, api, r) < at
      BY <3>1 DEF TakenAt
    <3> QED BY <2>1, <3>2, <3>3, <3>4 DEF Gpio!Gpios
  <2>3. CASE phase = "unwind"
    <3>1. at \in 1 .. 4 /\ api = "single"
      BY <1>1, <2>3 DEF GpioInv, GpioTypes, UndoLen, Gpio!MayHaveLeaked
    <3>2. at = 1
      BY <2>1, <2>3, <3>1 DEF GpioInv, HeldByTable, UndoneAt, Resources
    <3> QED BY <2>3, <3>2 DEF GpioInv, HeldByTable, UndoneAt, Resources, Gpio!Gpios
  <2>4. CASE phase = "exit"
    <3>1. at \in 1 .. 6
      BY <2>4 DEF GpioInv, GpioTypes, ExitLen
    <3>2. at < 3
      BY <2>1, <2>4, <3>1 DEF GpioInv, HeldByTable, FreedAt, Resources
    <3> QED BY <2>4, <3>1, <3>2 DEF GpioInv, HeldByTable, FreedAt, Resources, Gpio!Gpios
  <2>5. CASE phase = "live"
    BY <2>5 DEF GpioInv, HeldByTable, Resources, Gpio!Gpios
  <2>6. CASE phase = "out"
    BY <1>1, <2>6 DEF GpioInv, HeldByTable, Gpio!MayHaveLeaked
  <2> QED BY <2>2, <2>3, <2>4, <2>5, <2>6 DEF GpioInv, GpioTypes
<1>6. Gpio!ReleasedWhenOut
  BY <1>1 DEF GpioInv, HeldByTable, HandlersAreHeld, Gpio!ReleasedWhenOut,
              Gpio!NothingHeldWhenOut
<1>7. Gpio!ButtonsDriveTheLed
  BY DEF GpioInv, FollowsButtons, Tracks, Gpio!ButtonsDriveTheLed, Gpio!Lit
<1> QED BY <1>2, <1>3, <1>4, <1>5, <1>6, <1>7
=============================================================================
