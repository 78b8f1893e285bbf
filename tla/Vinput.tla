------------------------------- MODULE Vinput -------------------------------
(***************************************************************************)
(* examples/vinput.c: the life cycle of virtual input devices, created and *)
(* destroyed through the class attributes export and unexport, with the    *)
(* types (vkbd.c registers one) that come and go with their modules, and   *)
(* the files open on /dev/vinputN.                                         *)
(*                                                                         *)
(* Several administrators may write to the attributes at once: the driver  *)
(* locks its list and its bitmap, not the operations as a whole.  A step   *)
(* is one critical section of vinput_lock or one call that makes a device  *)
(* visible or takes it away.                                               *)
(*                                                                         *)
(* A struct vinput is numbered by the order of its list_add, so the list   *)
(* vinput_vdevices (list_add inserts at the head) is a set of numbers read *)
(* in descending order.  kzalloc and list_add are one step, and so are     *)
(* list_del and kfree: an object is allocated while it is on the list, and *)
(* a number that was used and is not on the list is freed memory.          *)
(* Following such a pointer, or unregistering what is not registered, is   *)
(* undefined: the process goes to "oops" and the behaviour ends there.     *)
(*                                                                         *)
(* External: the driver core (device_register, device_unregister, which    *)
(* calls dev.release when it drops the last reference), the input core     *)
(* (input_*_device), sysfs, and the module loader.                         *)
(***************************************************************************)
EXTENDS Integers

CONSTANTS
    Admins,         \* processes writing to export/unexport, (un)loading types
    Users,          \* processes with a file on /dev/vinputN
    Types,          \* the virtual input types (struct vinput_device)
    VINPUT_MINORS,  \* number of ids
    MaxAllocs       \* bound: structs vinput ever allocated

ASSUME MinorsAssumption == VINPUT_MINORS \in Nat \ {0}
ASSUME MaxAllocsAssumption == MaxAllocs \in Nat

VARIABLES
    up,       \* vinput_init has succeeded, vinput_end has not run
    loaded,   \* the types whose module is in the kernel
    devs,     \* vinput_devices: the types registered
    ids,      \* vinput_ids: the ids marked as used
    vdevs,    \* vinput_vdevices: the devices on the list
    count,    \* how many devices have been allocated
    dev,      \* per device: [id, type, input, node], see Devices
    pc,       \* per administrator: the next statement
    op,       \* per administrator: its request, see Requests
    ptr,      \* per administrator: the device it works on (0: none)
    fd        \* per user: its file, see Opens

adminVars == <<pc, op, ptr>>
vars == <<up, loaded, devs, ids, vdevs, count, dev, adminVars, fd>>

Ids == 0 .. VINPUT_MINORS - 1
Objs == 1 .. MaxAllocs

NoType == "none"

\* input: the struct input_dev; node: whether the driver core has the device.
Inputs == {"none", "allocated", "registered", "gone"}
Devices == [id : Ids, type : Types \union {NoType},
            input : Inputs, node : {"absent", "present"}]
Requests == [type : Types \union {NoType}, id : Ids \union {-1},
             next : Objs \union {0}]
NoRequest == [type |-> NoType, id |-> -1, next |-> 0]

\* to: the device private_data points to, or will; of an open in progress,
\* seeking: the minor number it looks for.
Opens == [to : Objs \union {0}, seeking : Ids \union {-1}]
NoFile == [to |-> 0, seeking |-> -1]

Locations == {"idle", "alloc", "input", "register", "init", "recheck",
              "unreg_input", "unreg_dev", "walk", "oops"}

Init ==
    /\ up = FALSE
    /\ loaded = {} /\ devs = {}
    /\ ids = {} /\ vdevs = {} /\ count = 0
    /\ dev = [v \in Objs |-> [id |-> 0, type |-> NoType, input |-> "none",
                              node |-> "absent"]]
    /\ pc = [a \in Admins |-> "idle"]
    /\ op = [a \in Admins |-> NoRequest]
    /\ ptr = [a \in Admins |-> 0]
    /\ fd = [u \in Users |-> NoFile]

Goto(a, loc) == pc' = [pc EXCEPT ![a] = loc]

\* w is the device after v on the list, 0 at the end.
Follows(w, v) ==
    LET rest == {x \in vdevs : x < v}
    IN  IF rest = {} THEN w = 0 ELSE w \in rest /\ \A x \in rest : x <= w

\* The administrator's request is over.
Done(a) ==
    /\ Goto(a, "idle")
    /\ op' = [op EXCEPT ![a] = NoRequest]
    /\ ptr' = [ptr EXCEPT ![a] = 0]

\* vinput_destroy_vdevice: off the list, the id is free, kfree.
Destroy(v) ==
    /\ vdevs' = vdevs \ {v}
    /\ ids' = ids \ {dev[v].id}

-----------------------------------------------------------------------------
(* The driver itself, and its types.                                       *)

\* The bitmap and the lists of a fresh module are empty.  (A failed
\* register_chrdev or class_register leaves nothing.)
vinput_init ==
    /\ ~up
    /\ up' = TRUE
    /\ devs' = {} /\ ids' = {} /\ vdevs' = {}
    /\ UNCHANGED <<loaded, count, dev, adminVars, fd>>

\* The module is not in use: no type depends on it, no file is open, and
\* class_unregister waits for the writes to its attributes.
vinput_end ==
    /\ up
    /\ loaded = {}
    /\ \A u \in Users : fd[u] = NoFile
    /\ \A a \in Admins : pc[a] = "idle"
    /\ up' = FALSE
    /\ UNCHANGED <<loaded, devs, ids, vdevs, count, dev, adminVars, fd>>

vinput_register(t) ==
    /\ up
    /\ t \notin loaded
    /\ loaded' = loaded \union {t}
    /\ devs' = devs \union {t}
    /\ UNCHANGED <<up, ids, vdevs, count, dev, adminVars, fd>>

\* Called from the exit function of the type's module.
vinput_unregister(a, t) ==
    /\ pc[a] = "idle"
    /\ t \in devs
    /\ devs' = devs \ {t}
    /\ Goto(a, "walk")
    /\ op' = [op EXCEPT ![a].type = t]
    /\ \E first \in Objs \union {0} :
         Follows(first, count + 1) /\ ptr' = [ptr EXCEPT ![a] = first]
    /\ UNCHANGED <<up, loaded, ids, vdevs, count, dev, fd>>

\* Mutant of Walk: only the first device of the type is unregistered.
WalkStopsEarly(a) ==
    /\ pc[a] = "walk"
    /\ ptr[a] \in vdevs
    /\ IF dev[ptr[a]].type = op[a].type
       THEN Goto(a, "unreg_input") /\ UNCHANGED <<op, ptr>>
       ELSE /\ \E next \in Objs \union {0} :
                 Follows(next, ptr[a]) /\ ptr' = [ptr EXCEPT ![a] = next]
            /\ UNCHANGED <<pc, op>>
    /\ UNCHANGED <<up, loaded, devs, ids, vdevs, count, dev, fd>>

\* list_for_each_safe, without the lock: the next pointer is read here.
Walk(a) ==
    /\ pc[a] = "walk"
    /\ ptr[a] \in vdevs
    /\ \E next \in Objs \union {0} :
         /\ Follows(next, ptr[a])
         /\ IF dev[ptr[a]].type = op[a].type
            THEN /\ Goto(a, "unreg_input")
                 /\ op' = [op EXCEPT ![a].next = next]
                 /\ UNCHANGED ptr
            ELSE /\ ptr' = [ptr EXCEPT ![a] = next]
                 /\ UNCHANGED <<pc, op>>
    /\ UNCHANGED <<up, loaded, devs, ids, vdevs, count, dev, fd>>

\* The walk is over and the module of the type leaves the kernel.
WalkEnds(a) ==
    /\ pc[a] = "walk"
    /\ ptr[a] = 0
    /\ loaded' = loaded \ {op[a].type}
    /\ Done(a)
    /\ UNCHANGED <<up, devs, ids, vdevs, count, dev, fd>>

-----------------------------------------------------------------------------
(* export_store                                                            *)

\* vinput_get_device_by_type; -ENODEV when the type is not registered.
export_store(a, t) ==
    /\ up
    /\ pc[a] = "idle"
    /\ t \in devs
    /\ Goto(a, "alloc")
    /\ op' = [op EXCEPT ![a].type = t]
    /\ UNCHANGED <<up, loaded, devs, ids, vdevs, count, dev, ptr, fd>>

\* vinput_alloc_vdevice, to the end of its first critical section.  With no
\* memory (-ENOMEM) or no id left (-ENOBUFS) nothing is kept.
AllocFails(a) ==
    /\ pc[a] = "alloc"
    /\ Done(a)
    /\ UNCHANGED <<up, loaded, devs, ids, vdevs, count, dev, fd>>

AllocWithin(a, range, marked) ==
    /\ pc[a] = "alloc"
    /\ count < MaxAllocs
    /\ \E i \in range \ ids :
         /\ \A j \in range \ ids : i <= j
         /\ ids' = IF marked THEN ids \union {i} ELSE ids
         /\ dev' = [dev EXCEPT ![count + 1].id = i]
    /\ count' = count + 1
    /\ vdevs' = vdevs \union {count + 1}
    /\ ptr' = [ptr EXCEPT ![a] = count + 1]
    /\ Goto(a, "input")
    /\ UNCHANGED <<up, loaded, devs, op, fd>>

\* Mutants of Alloc: ">" for ">=" in the test of the id; no set_bit.
AllocOneTooMany(a) == AllocWithin(a, Ids \union {VINPUT_MINORS}, TRUE)
AllocUnmarked(a) == AllocWithin(a, Ids, FALSE)

Alloc(a) == AllocWithin(a, Ids, TRUE)

AllocInput(a) ==
    /\ pc[a] = "input"
    /\ ptr[a] \in vdevs
    /\ dev' = [dev EXCEPT ![ptr[a]].input = "allocated"]
    /\ Goto(a, "register")
    /\ UNCHANGED <<up, loaded, devs, ids, vdevs, count, op, ptr, fd>>

\* fail_input_dev: off the list and freed, the id stays marked.
AllocInputFails(a) ==
    /\ pc[a] = "input"
    /\ ptr[a] \in vdevs
    /\ vdevs' = vdevs \ {ptr[a]}
    /\ Done(a)
    /\ UNCHANGED <<up, loaded, devs, ids, count, dev, fd>>

Register(a) ==
    /\ pc[a] = "register"
    /\ ptr[a] \in vdevs
    /\ dev' = [dev EXCEPT ![ptr[a]].type = op[a].type,
                          ![ptr[a]].node = "present"]
    /\ Goto(a, "init")
    /\ UNCHANGED <<up, loaded, devs, ids, vdevs, count, op, ptr, fd>>

\* fail_register
RegisterFails(a) ==
    /\ pc[a] = "register"
    /\ ptr[a] \in vdevs
    /\ dev' = [dev EXCEPT ![ptr[a]].type = op[a].type,
                          ![ptr[a]].input = "gone"]
    /\ Destroy(ptr[a])
    /\ Done(a)
    /\ UNCHANGED <<up, loaded, devs, count, fd>>

\* vinput_register_vdevice: the type's init() registers the input device.
InitVdev(a) ==
    /\ pc[a] = "init"
    /\ ptr[a] \in vdevs
    /\ dev[ptr[a]].type \in loaded
    /\ dev' = [dev EXCEPT ![ptr[a]].input = "registered"]
    /\ Done(a)
    /\ UNCHANGED <<up, loaded, devs, ids, vdevs, count, fd>>

\* Mutant of InitVdevFails: the device is not unregistered.
InitVdevFailsKeepsDevice(a) ==
    /\ pc[a] = "init"
    /\ ptr[a] \in vdevs
    /\ dev[ptr[a]].type \in loaded
    /\ dev' = [dev EXCEPT ![ptr[a]].input = "gone"]
    /\ Done(a)
    /\ UNCHANGED <<up, loaded, devs, ids, vdevs, count, fd>>

\* fail_register_vinput: device_unregister releases, and so destroys, it.
InitVdevFails(a) ==
    /\ pc[a] = "init"
    /\ ptr[a] \in vdevs
    /\ dev[ptr[a]].type \in loaded
    /\ dev' = [dev EXCEPT ![ptr[a]].input = "gone",
                          ![ptr[a]].node = "absent"]
    /\ Destroy(ptr[a])
    /\ Done(a)
    /\ UNCHANGED <<up, loaded, devs, count, fd>>

-----------------------------------------------------------------------------
(* unexport_store                                                          *)

\* The locked part of vinput_get_vdevice_by_id: v is the device with the id,
\* or the last of the list.
Found(v, i) ==
    \/ dev[v].id = i
    \/ Follows(0, v) /\ \A w \in vdevs : dev[w].id # i

\* With an empty list it is -ENODEV at once.
unexport_store(a, i) ==
    /\ up
    /\ pc[a] = "idle"
    /\ \E v \in vdevs : Found(v, i) /\ ptr' = [ptr EXCEPT ![a] = v]
    /\ op' = [op EXCEPT ![a].id = i]
    /\ Goto(a, "recheck")
    /\ UNCHANGED <<up, loaded, devs, ids, vdevs, count, dev, fd>>

\* Its test of the id after the unlock.
Recheck(a) ==
    /\ pc[a] = "recheck"
    /\ ptr[a] \in vdevs
    /\ IF dev[ptr[a]].id = op[a].id
       THEN Goto(a, "unreg_input") /\ UNCHANGED <<op, ptr>>
       ELSE Done(a)
    /\ UNCHANGED <<up, loaded, devs, ids, vdevs, count, dev, fd>>

\* vinput_unregister_vdevice (the type's kill(), if any, keeps no state here).
UnregisterInput(a) ==
    /\ pc[a] = "unreg_input"
    /\ ptr[a] \in vdevs
    /\ dev[ptr[a]].input = "registered"
    /\ dev[ptr[a]].type \in loaded
    /\ dev' = [dev EXCEPT ![ptr[a]].input = "gone"]
    /\ Goto(a, "unreg_dev")
    /\ UNCHANGED <<up, loaded, devs, ids, vdevs, count, op, ptr, fd>>

\* device_unregister, and through vinput_release_dev the destruction; then
\* unexport_store returns and vinput_unregister goes on to its next device.
UnregisterDevice(a) ==
    /\ pc[a] = "unreg_dev"
    /\ ptr[a] \in vdevs
    /\ dev[ptr[a]].node = "present"
    /\ dev' = [dev EXCEPT ![ptr[a]].node = "absent"]
    /\ Destroy(ptr[a])
    /\ IF op[a].id = -1
       THEN /\ Goto(a, "walk")
            /\ ptr' = [ptr EXCEPT ![a] = op[a].next]
            /\ UNCHANGED op
       ELSE Done(a)
    /\ UNCHANGED <<up, loaded, devs, count, fd>>

-----------------------------------------------------------------------------
(* Files on /dev/vinputN.                                                  *)

\* The minor number is whatever inode is opened.
vinput_open(u, i) ==
    /\ up
    /\ fd[u] = NoFile
    /\ \E v \in vdevs :
         Found(v, i) /\ fd' = [fd EXCEPT ![u] = [to |-> v, seeking |-> i]]
    /\ UNCHANGED <<up, loaded, devs, ids, vdevs, count, dev, adminVars>>

\* The test after the unlock, and what open makes of it.  The device may have
\* been freed by then: its id may be anything.
OpenChecks(u) ==
    /\ fd[u].seeking # -1
    /\ \/ /\ fd[u].to \in vdevs => dev[fd[u].to].id = fd[u].seeking
          /\ fd' = [fd EXCEPT ![u].seeking = -1]
       \/ /\ fd[u].to \in vdevs => dev[fd[u].to].id # fd[u].seeking
          /\ fd' = [fd EXCEPT ![u] = NoFile]
    /\ UNCHANGED <<up, loaded, devs, ids, vdevs, count, dev, adminVars>>

vinput_release(u) ==
    /\ fd[u] # NoFile /\ fd[u].seeking = -1
    /\ fd' = [fd EXCEPT ![u] = NoFile]
    /\ UNCHANGED <<up, loaded, devs, ids, vdevs, count, dev, adminVars>>

-----------------------------------------------------------------------------
(* What the code follows without looking: the pointer is to freed memory,  *)
(* to a device half made or half gone, or to a type that has left.         *)

Dangling(a) ==
    \/ /\ pc[a] \in {"input", "register", "init", "recheck",
                     "unreg_input", "unreg_dev"}
       /\ ptr[a] \notin vdevs
    \/ pc[a] = "walk" /\ ptr[a] # 0 /\ ptr[a] \notin vdevs
    \/ pc[a] \in {"init", "unreg_input"} /\ dev[ptr[a]].type \notin loaded
    \/ pc[a] = "unreg_input" /\ dev[ptr[a]].input # "registered"
    \/ pc[a] = "unreg_dev" /\ dev[ptr[a]].node = "absent"

Oops(a) ==
    /\ Dangling(a)
    /\ Goto(a, "oops")
    /\ UNCHANGED <<up, loaded, devs, ids, vdevs, count, dev, op, ptr, fd>>

-----------------------------------------------------------------------------

AdminStep(a) ==
    \/ \E t \in Types : vinput_unregister(a, t) \/ export_store(a, t)
    \/ \E i \in Ids : unexport_store(a, i)
    \/ Walk(a) \/ WalkEnds(a)
    \/ AllocFails(a) \/ Alloc(a) \/ AllocInput(a) \/ AllocInputFails(a)
    \/ Register(a) \/ RegisterFails(a) \/ InitVdev(a) \/ InitVdevFails(a)
    \/ Recheck(a) \/ UnregisterInput(a) \/ UnregisterDevice(a)
    \/ Oops(a)

Next ==
    /\ \A a \in Admins : pc[a] # "oops"
    /\ \/ vinput_init \/ vinput_end
       \/ \E t \in Types : vinput_register(t)
       \/ \E a \in Admins : AdminStep(a)
       \/ \E u \in Users :
            (\E i \in Ids : vinput_open(u, i)) \/ OpenChecks(u) \/ vinput_release(u)

Spec == Init /\ [][Next]_vars

-----------------------------------------------------------------------------
(* Properties                                                              *)

TypeOK ==
    /\ up \in BOOLEAN
    /\ devs \subseteq Types
    /\ loaded \subseteq Types
    /\ ids \subseteq Ids
    /\ count \in 0 .. MaxAllocs
    /\ vdevs \subseteq 1 .. count
    /\ dev \in [Objs -> Devices]
    /\ pc \in [Admins -> Locations]
    /\ op \in [Admins -> Requests]
    /\ ptr \in [Admins -> Objs \union {0}]
    /\ fd \in [Users -> Opens]

\* The ids of the devices on the list differ pairwise, whatever exports,
\* unexports and removals of types run at the same time: /dev/vinputN always
\* names one device.
IdsUnique ==
    \A v, w \in vdevs : dev[v].id = dev[w].id => v = w

\* What keeps them apart: the bitmap has the id of every listed device
\* marked.
ListedIdsMarked ==
    \A v \in vdevs : dev[v].id \in ids

\* Export is all or nothing: a device that no administrator is working on
\* is registered with the driver core and the input core, after every
\* failure path.
CompleteUnlessWorkedOn ==
    \A v \in vdevs :
        \/ \E a \in Admins : ptr[a] = v
        \/ dev[v].node = "present" /\ dev[v].input = "registered"

\* One administrator at a time never follows a dangling pointer, destroys a
\* device twice or unregisters what is not registered.
NoUndefinedBehaviour ==
    \A a \in Admins : ~Dangling(a)

\* With one administrator, removing a type takes all its devices with it,
\* so none is left when vinput itself goes.
DevicesHaveTheirType ==
    \A v \in vdevs :
        dev[v].node = "present" => dev[v].type \in loaded /\ up

\* "Every resource acquired must be released on error" (lkmpg.tex:996), of
\* the ids: when no request is in progress the ids marked are those of the
\* devices that exist.
IdsAreReleased ==
    (\A a \in Admins : pc[a] = "idle") => ids = {dev[v].id : v \in vdevs}
=============================================================================
