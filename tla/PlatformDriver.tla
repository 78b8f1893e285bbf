--------------------------- MODULE PlatformDriver ---------------------------
(***************************************************************************)
(* Drivers of platform devices: examples/dma.c, which makes its device     *)
(* itself, devicetree.c and devicemodel.c, whose devices come and go with  *)
(* the board.  A probe takes managed resources one after the other and may *)
(* fail at each; it runs in a process of its own (init, a write to the     *)
(* "bind" file, the arrival of a device), one per device at a time.        *)
(*                                                                         *)
(* External, the driver core: it holds the lock of a device from the first *)
(* to the last step of probe and of remove; a probe that failed, and a     *)
(* remove, are followed by the release of the managed resources and of     *)
(* the pointer set with platform_set_drvdata; an unsuccessful probe does   *)
(* not make platform_driver_register fail; platform_driver_unregister      *)
(* takes the driver off the list first, and then removes it from each      *)
(* device, whose lock it waits for.                                        *)
(***************************************************************************)
EXTENDS Naturals, Sequences

CONSTANTS
    Boards,     \* of "dma", "devicetree" and "devicemodel"
    Pdevs       \* the devices; dma.c makes Mine

VARIABLES
    board,      \* the driver the behaviour is about (never changes)
    rung,       \* out, init, added (dma.c: the device is there), live, exit
    listed,     \* the driver is registered
    pdevs,      \* the devices there are, and allocated if not added yet
    visible,    \* those of them a driver can be bound to
    bind,       \* per device: no, probing, bound or removing
    step,       \* per device: how far the probe is
    managed,    \* per device: what devm_* holds for it
    mapped,     \* per device: the streaming mapping is there
    drvdata     \* per device: what platform_get_drvdata returns

vars == <<board, rung, listed, pdevs, visible, bind, step, managed, mapped,
          drvdata>>

Mine == CHOOSE d \in Pdevs : TRUE

\* What a probe does, in the order of the code.
Steps ==
    CASE board = "dma" -> <<"mask", "demo", "coherent", "streaming", "map",
                            "unmap", "drvdata">>
      [] board = "devicetree" -> <<"data", "drvdata">>
      [] board = "devicemodel" -> <<>>

\* dma_set_mask_and_coherent, the allocations and dma_map_single can fail.
CanFail(what) == what \notin {"unmap", "drvdata"}

\* What remove dereferences: dt_remove prints the label of its data.
Needs == IF board = "devicetree" THEN {"data"} ELSE {}

Init ==
    /\ board \in Boards
    /\ rung = "out" /\ listed = FALSE
    /\ pdevs = {} /\ visible = {}
    /\ bind = [d \in Pdevs |-> "no"] /\ step = [d \in Pdevs |-> 0]
    /\ managed = [d \in Pdevs |-> {}] /\ mapped = [d \in Pdevs |-> FALSE]
    /\ drvdata = [d \in Pdevs |-> "none"]

probeVars == <<bind, step, managed, mapped, drvdata>>

-----------------------------------------------------------------------------
(* dma_demo_init, dt_init, devicemodel_init                                *)

\* platform_device_alloc; the other drivers start with the registration.
Start ==
    /\ rung = "out"
    /\ IF board = "dma"
       THEN pdevs' = {Mine} /\ rung' = "init"
       ELSE rung' = "added" /\ UNCHANGED pdevs
    /\ UNCHANGED <<board, listed, visible, probeVars>>

\* platform_device_add
Add ==
    /\ rung = "init"
    /\ visible' = {Mine} /\ rung' = "added"
    /\ UNCHANGED <<board, listed, pdevs, probeVars>>

\* platform_device_put
AddFails ==
    /\ rung = "init"
    /\ pdevs' = {} /\ rung' = "out"
    /\ UNCHANGED <<board, listed, visible, probeVars>>

Register ==
    /\ rung = "added"
    /\ listed' = TRUE /\ rung' = "live"
    /\ UNCHANGED <<board, pdevs, visible, probeVars>>

\* Mutant of RegisterFails: the device stays.
RegisterFailsOnly ==
    /\ rung = "added"
    /\ rung' = "out"
    /\ UNCHANGED <<board, listed, pdevs, visible, probeVars>>

\* Mutant of RegisterFails: platform_device_put, as if it was not added.
RegisterFailsPut ==
    /\ rung = "added"
    /\ rung' = "out" /\ pdevs' = {}
    /\ UNCHANGED <<board, listed, visible, probeVars>>

\* dma.c takes its device away again.
RegisterFails ==
    /\ rung = "added"
    /\ rung' = "out"
    /\ IF board = "dma" THEN pdevs' = {} /\ visible' = {}
                        ELSE UNCHANGED <<pdevs, visible>>
    /\ UNCHANGED <<board, listed, probeVars>>

-----------------------------------------------------------------------------
(* The probes                                                              *)

StartProbe(d) ==
    /\ listed /\ d \in visible /\ bind[d] = "no"
    /\ bind' = [bind EXCEPT ![d] = "probing"]
    /\ step' = [step EXCEPT ![d] = 0]
    /\ UNCHANGED <<board, rung, listed, pdevs, visible, managed, mapped, drvdata>>

\* Mutant of Mapping: the buffer is left mapped.
MappingStays(what, before) == before \/ what = "map"

\* dma_map_single and dma_unmap_single
Mapping(what, before) == what = "map" \/ (before /\ what # "unmap")

ProbeStep(d) ==
    /\ bind[d] = "probing" /\ step[d] < Len(Steps)
    /\ LET what == Steps[step[d] + 1]
       IN  /\ managed' = [managed EXCEPT ![d] =
                 IF what \in {"demo", "coherent", "streaming", "data"}
                 THEN @ \union {what} ELSE @]
           /\ mapped' = [mapped EXCEPT ![d] = Mapping(what, @)]
           /\ drvdata' = [drvdata EXCEPT ![d] =
                 IF what = "drvdata" THEN IF board = "dma" THEN "demo" ELSE "data"
                 ELSE @]
    /\ step' = [step EXCEPT ![d] = @ + 1]
    /\ UNCHANGED <<board, rung, listed, pdevs, visible, bind>>

\* The device has no driver any more; its managed resources go.
Unbound(d) ==
    /\ bind' = [bind EXCEPT ![d] = "no"]
    /\ managed' = [managed EXCEPT ![d] = {}]
    /\ drvdata' = [drvdata EXCEPT ![d] = "none"]
    /\ UNCHANGED <<board, rung, listed, pdevs, visible, step, mapped>>

ProbeFails(d) ==
    /\ bind[d] = "probing" /\ step[d] < Len(Steps)
    /\ CanFail(Steps[step[d] + 1])
    /\ Unbound(d)

Bound(d) ==
    /\ bind[d] = "probing" /\ step[d] = Len(Steps)
    /\ bind' = [bind EXCEPT ![d] = "bound"]
    /\ UNCHANGED <<board, rung, listed, pdevs, visible, step, managed, mapped,
                   drvdata>>

-----------------------------------------------------------------------------
(* Removal: by the "unbind" file, with the device, or with the module.     *)

StartRemove(d) ==
    /\ bind[d] = "bound"
    /\ bind' = [bind EXCEPT ![d] = "removing"]
    /\ UNCHANGED <<board, rung, listed, pdevs, visible, step, managed, mapped,
                   drvdata>>

\* dma_demo_remove, dt_remove, devicemodel_remove
Remove(d) == bind[d] = "removing" /\ Unbound(d)

\* The board brings a device, and takes one away that has no driver (left).
Plug(d) ==
    /\ board # "dma" /\ d \notin pdevs
    /\ pdevs' = pdevs \union {d} /\ visible' = visible \union {d}
    /\ UNCHANGED <<board, rung, listed, probeVars>>

Unplug(d) ==
    /\ board # "dma" /\ d \in pdevs /\ bind[d] = "no"
    /\ pdevs' = pdevs \ {d} /\ visible' = visible \ {d}
    /\ UNCHANGED <<board, rung, listed, probeVars>>

\* platform_driver_unregister: first no new probe, then no device is left.
Unregister ==
    /\ rung = "live"
    /\ listed' = FALSE /\ rung' = "exit"
    /\ UNCHANGED <<board, pdevs, visible, probeVars>>

\* Mutant of Detached: devices are not waited for.
DetachedAtOnce == TRUE

Detached == \A d \in Pdevs : bind[d] = "no"

\* The end of the exit functions; dma_demo_exit unregisters its device.
ExitReturns ==
    /\ rung = "exit" /\ Detached
    /\ rung' = "out"
    /\ IF board = "dma" THEN pdevs' = {} /\ visible' = {}
                        ELSE UNCHANGED <<pdevs, visible>>
    /\ UNCHANGED <<board, listed, probeVars>>

-----------------------------------------------------------------------------

Next ==
    \/ Start \/ Add \/ AddFails \/ Register \/ RegisterFails
    \/ Unregister \/ ExitReturns
    \/ \E d \in Pdevs :
         \/ StartProbe(d) \/ ProbeStep(d) \/ ProbeFails(d) \/ Bound(d)
         \/ StartRemove(d) \/ Remove(d) \/ Plug(d) \/ Unplug(d)

Spec == Init /\ [][Next]_vars

-----------------------------------------------------------------------------
(* Properties                                                              *)

TypeOK ==
    /\ rung \in {"out", "init", "added", "live", "exit"}
    /\ listed \in BOOLEAN
    /\ visible \subseteq pdevs /\ pdevs \subseteq Pdevs
    /\ bind \in [Pdevs -> {"no", "probing", "bound", "removing"}]
    /\ \A d \in Pdevs : step[d] \in 0 .. Len(Steps)
    /\ managed \in [Pdevs -> SUBSET {"demo", "coherent", "streaming", "data"}]
    /\ mapped \in [Pdevs -> BOOLEAN]
    /\ drvdata \in [Pdevs -> {"none", "demo", "data"}]

\* Whichever step of a probe fails, and however a device loses its driver:
\* a device without a driver holds no buffer, and no buffer that is freed
\* is still mapped for DMA; remove finds the data that probe has left.
ProbesCleanUp ==
    \A d \in Pdevs :
        /\ bind[d] = "no" => managed[d] = {} /\ ~mapped[d]
        /\ bind[d] \in {"bound", "removing"} =>
             /\ ~mapped[d]
             /\ Needs \subseteq managed[d]
             /\ drvdata[d] \in managed[d] \union {"none"}
             /\ Needs # {} => drvdata[d] # "none"

\* A module that is out, also after a failed init, drives no device and
\* has left none of its own.
NoDriverWhenOut ==
    rung = "out" => /\ \A d \in Pdevs : bind[d] = "no"
                    /\ ~listed
                    /\ board = "dma" => pdevs = {}
=============================================================================
