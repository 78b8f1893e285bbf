---------------------------- MODULE VinputProofs ----------------------------
(***************************************************************************)
(* Proofs about Vinput, for any number of administrators, types, ids and   *)
(* allocations: type correctness, that ids stay unique on the list, and    *)
(* that export is all or nothing.  The last section is about one           *)
(* administrator alone, who never follows a dangling pointer; the theorem  *)
(* is in ModulesProofs, whose specification lets one alone.                *)
(***************************************************************************)
EXTENDS Vinput, TLAPS

-----------------------------------------------------------------------------
(* Type correctness.                                                       *)

\* A request that is over leaves its administrator's variables typed.
LEMMA DoneType ==
    ASSUME TypeOK, NEW a \in Admins, Done(a)
    PROVE  /\ pc' \in [Admins -> Locations]
           /\ op' \in [Admins -> Requests]
           /\ ptr' \in [Admins -> Objs \union {0}]
<1>1. NoRequest \in Requests
  BY DEF NoRequest, Requests
<1> QED BY <1>1 DEF TypeOK, Done, Goto, Locations

\* A device on the list is one that was allocated.
LEMMA ListedIsObj ==
    ASSUME TypeOK, NEW v \in vdevs PROVE v \in Objs
BY MaxAllocsAssumption DEF TypeOK, Objs

\* An update of one device keeps dev typed.
LEMMA DevType ==
    ASSUME dev \in [Objs -> Devices], NEW v \in Objs,
           NEW t \in Types \union {NoType}, NEW i \in Inputs,
           NEW n \in {"absent", "present"}
    PROVE  /\ [dev EXCEPT ![v].type = t] \in [Objs -> Devices]
           /\ [dev EXCEPT ![v].input = i] \in [Objs -> Devices]
           /\ [dev EXCEPT ![v].node = n] \in [Objs -> Devices]
           /\ [dev EXCEPT ![v].type = t, ![v].node = n] \in [Objs -> Devices]
           /\ [dev EXCEPT ![v].type = t, ![v].input = i] \in [Objs -> Devices]
           /\ [dev EXCEPT ![v].input = i, ![v].node = n] \in [Objs -> Devices]
<1>1. \A d \in Devices :
        /\ [d EXCEPT !.type = t] \in Devices
        /\ [d EXCEPT !.input = i] \in Devices
        /\ [d EXCEPT !.node = n] \in Devices
  BY DEF Devices
<1>2. ASSUME NEW f \in [Objs -> Devices]
      PROVE  /\ [f EXCEPT ![v].type = t] \in [Objs -> Devices]
             /\ [f EXCEPT ![v].input = i] \in [Objs -> Devices]
             /\ [f EXCEPT ![v].node = n] \in [Objs -> Devices]
  BY <1>1
<1> QED BY <1>2

\* The state of vinput.c stays within its types: in particular no id beyond
\* VINPUT_MINORS is ever marked, and only allocated devices are on the list.
THEOREM TypeCorrect == Spec => []TypeOK
<1> USE MinorsAssumption, MaxAllocsAssumption
<1>1. Init => TypeOK
  <2> SUFFICES ASSUME Init PROVE TypeOK
    OBVIOUS
  <2>1. up \in BOOLEAN BY Zenon DEF Init
  <2>2. dev \in [Objs -> Devices]
    BY DEF Init, Objs, Devices, Ids, Inputs
  <2> QED BY <2>1, <2>2 DEF Init, TypeOK, Locations, Requests, NoRequest, Opens, NoFile
<1>2. TypeOK /\ [Next]_vars => TypeOK'
  <2> SUFFICES ASSUME TypeOK, [Next]_vars PROVE TypeOK'
    OBVIOUS
  <2>0. \A v \in vdevs : v \in Objs
    BY ListedIsObj
  <2> USE DEF TypeOK, adminVars, Goto, Done, Locations
  <2>1. ASSUME vinput_init \/ vinput_end PROVE TypeOK'
    <3>1. up' \in BOOLEAN BY <2>1, Zenon DEF vinput_init, vinput_end
    <3> QED BY <2>1, <3>1 DEF vinput_init, vinput_end
  <2>2. ASSUME NEW t \in Types, vinput_register(t) PROVE TypeOK'
    BY <2>2 DEF vinput_register
  <2>3. ASSUME NEW u \in Users, NEW i \in Ids, vinput_open(u, i)
        PROVE  TypeOK'
    BY <2>0, <2>3 DEF vinput_open, Opens
  <2>4. ASSUME NEW u \in Users, OpenChecks(u) \/ vinput_release(u) PROVE TypeOK'
    BY <2>4 DEF OpenChecks, vinput_release, Opens, NoFile
  <2>5. ASSUME NEW a \in Admins, AdminStep(a) PROVE TypeOK'
    <3>1. ASSUME NEW t \in Types, vinput_unregister(a, t) PROVE TypeOK'
      BY <3>1 DEF vinput_unregister, Requests
    <3>2. ASSUME NEW t \in Types, export_store(a, t) PROVE TypeOK'
      BY <3>2 DEF export_store, Requests
    <3>3. ASSUME NEW i \in Ids, unexport_store(a, i) PROVE TypeOK'
      <4>1. vdevs \subseteq Objs BY DEF Objs
      <4> QED BY <3>3, <4>1 DEF unexport_store, Requests
    <3>4. CASE Walk(a) BY <3>4, SMTT(30) DEF Walk, Requests
    <3>5. CASE WalkEnds(a) BY <3>5 DEF WalkEnds, Requests, NoRequest
    <3>6. CASE AllocFails(a) BY <3>6 DEF AllocFails, Requests, NoRequest
    <3>7. CASE Alloc(a)
      <4>1. PICK i \in Ids \ ids :
              /\ ids' = ids \union {i}
              /\ dev' = [dev EXCEPT ![count + 1].id = i]
        BY <3>7 DEF Alloc, AllocWithin
      <4>2. count + 1 \in Objs /\ count' = count + 1
        BY <3>7 DEF Alloc, AllocWithin, Objs
      <4>3. \A d \in Devices : [d EXCEPT !.id = i] \in Devices
        BY DEF Devices
      <4>4. dev' \in [Objs -> Devices]
        BY <4>1, <4>2, <4>3
      <4>5. vdevs' \subseteq 1 .. count' /\ count' \in 0 .. MaxAllocs
        BY <3>7 DEF Alloc, AllocWithin
      <4> QED BY <3>7, <4>1, <4>2, <4>4, <4>5 DEF Alloc, AllocWithin
    <3>8. CASE AllocInput(a)
      <4>1. ptr[a] \in Objs BY <2>0, <3>8, Zenon DEF AllocInput
      <4>2. dev' \in [Objs -> Devices]
        BY <3>8, <4>1, DevType DEF AllocInput, Inputs
      <4> QED BY <3>8, <4>2 DEF AllocInput
    <3>9. CASE AllocInputFails(a)
      BY <3>9, DoneType DEF AllocInputFails
    <3>10. CASE Register(a)
      <4>1. ptr[a] \in Objs BY <2>0, <3>10, Zenon DEF Register
      <4>t. op[a].type \in Types \union {NoType} BY DEF Requests
      <4>d. dev' = [dev EXCEPT ![ptr[a]].type = op[a].type, ![ptr[a]].node = "present"]
        BY <3>10, Zenon DEF Register
      <4>2. dev' \in [Objs -> Devices]
        BY <4>1, <4>t, <4>d, DevType, Zenon DEF Inputs
      <4> QED BY <3>10, <4>2 DEF Register
    <3>11. CASE RegisterFails(a)
      <4>1. ptr[a] \in Objs BY <2>0, <3>11, Zenon DEF RegisterFails
      <4>t. op[a].type \in Types \union {NoType} BY DEF Requests
      <4>d. dev' = [dev EXCEPT ![ptr[a]].type = op[a].type, ![ptr[a]].input = "gone"]
        BY <3>11, Zenon DEF RegisterFails
      <4>2. dev' \in [Objs -> Devices]
        BY <4>1, <4>t, <4>d, DevType, ZenonT(60) DEF Inputs
      <4>3. Done(a) BY <3>11 DEF RegisterFails
      <4> QED BY <3>11, <4>2, <4>3, DoneType DEF RegisterFails, Destroy
    <3>12. CASE InitVdev(a)
      <4>1. ptr[a] \in Objs BY <2>0, <3>12, Zenon DEF InitVdev
      <4>2. dev' \in [Objs -> Devices]
        BY <3>12, <4>1, DevType DEF InitVdev, Inputs
      <4>3. Done(a) BY <3>12 DEF InitVdev
      <4> QED BY <3>12, <4>2, <4>3, DoneType DEF InitVdev
    <3>13. CASE InitVdevFails(a)
      <4>1. ptr[a] \in Objs BY <2>0, <3>13, Zenon DEF InitVdevFails
      <4>2. dev' \in [Objs -> Devices]
        BY <3>13, <4>1, DevType DEF InitVdevFails, Inputs
      <4>3. Done(a) BY <3>13 DEF InitVdevFails
      <4> QED BY <3>13, <4>2, <4>3, DoneType DEF InitVdevFails, Destroy
    <3>14. CASE Recheck(a)
      <4>1. CASE Done(a) BY <3>14, <4>1, DoneType DEF Recheck
      <4>2. CASE pc' = [pc EXCEPT ![a] = "unreg_input"] /\ UNCHANGED <<op, ptr>>
        BY <3>14, <4>2 DEF Recheck
      <4> QED BY <3>14, <4>1, <4>2 DEF Recheck
    <3>15. CASE UnregisterInput(a)
      <4>1. ptr[a] \in Objs BY <2>0, <3>15, Zenon DEF UnregisterInput
      <4>2. dev' \in [Objs -> Devices]
        BY <3>15, <4>1, DevType DEF UnregisterInput, Inputs
      <4> QED BY <3>15, <4>2 DEF UnregisterInput
    <3>16. CASE UnregisterDevice(a)
      <4>1. ptr[a] \in Objs BY <2>0, <3>16, ZenonT(60) DEF UnregisterDevice
      <4>2. dev' \in [Objs -> Devices]
        BY <3>16, <4>1, DevType DEF UnregisterDevice, Inputs
      <4>3. CASE op[a].id = -1
        <5>1. op[a].next \in Objs \union {0} BY DEF Requests
        <5> QED BY <3>16, <4>2, <4>3, <5>1 DEF UnregisterDevice, Destroy
      <4>4. CASE op[a].id # -1
        <5>1. Done(a) BY <3>16, <4>4 DEF UnregisterDevice
        <5> QED BY <3>16, <4>2, <5>1, DoneType DEF UnregisterDevice, Destroy
      <4> QED BY <4>3, <4>4
    <3>17. CASE Oops(a) BY <3>17 DEF Oops
    <3> QED BY <2>5, <3>1, <3>2, <3>3, <3>4, <3>5, <3>6, <3>7, <3>8, <3>9,
               <3>10, <3>11, <3>12, <3>13, <3>14, <3>15, <3>16, <3>17
            DEF AdminStep
  <2>6. CASE UNCHANGED vars BY <2>6 DEF vars
  <2> QED BY <2>1, <2>2, <2>3, <2>4, <2>5, <2>6 DEF Next
<1> QED BY <1>1, <1>2, PTL DEF Spec

-----------------------------------------------------------------------------
(* Unique ids.  Neither invariant is inductive alone: a new id is unique    *)
(* because the ids in use are marked, and clearing the bit of one device    *)
(* leaves the others marked because their ids differ.                       *)

IdInv == IdsUnique /\ ListedIdsMarked

\* A step that marks no id, clears none and lists no device: devices may
\* leave the list, none changes its id.
LEMMA IdFrame ==
    ASSUME TypeOK, IdInv, vdevs' \subseteq vdevs, ids' = ids,
           \A v \in vdevs' : dev'[v].id = dev[v].id
    PROVE  IdInv'
BY DEF IdInv, IdsUnique, ListedIdsMarked

\* vinput_destroy_vdevice clears the bit of its own device only.
LEMMA IdDestroy ==
    ASSUME TypeOK, IdInv, NEW v \in vdevs, Destroy(v),
           \A w \in vdevs : dev'[w].id = dev[w].id
    PROVE  IdInv'
BY DEF IdInv, IdsUnique, ListedIdsMarked, Destroy

\* An update of a device's other fields keeps every id.
LEMMA SameIds ==
    ASSUME TypeOK, NEW v \in Objs, NEW t, NEW i, NEW n,
           \/ dev' = [dev EXCEPT ![v].input = i]
           \/ dev' = [dev EXCEPT ![v].node = n]
           \/ dev' = [dev EXCEPT ![v].type = t, ![v].node = n]
           \/ dev' = [dev EXCEPT ![v].type = t, ![v].input = i]
           \/ dev' = [dev EXCEPT ![v].input = i, ![v].node = n]
    PROVE  \A w \in vdevs : dev'[w].id = dev[w].id
<1>1. vdevs \subseteq Objs
  BY MaxAllocsAssumption DEF TypeOK, Objs
<1>2. \A w \in vdevs : dev[w] \in Devices
  BY <1>1 DEF TypeOK
<1>3. ASSUME NEW w \in vdevs, w = v PROVE dev'[w].id = dev[w].id
  BY <1>2, <1>3 DEF TypeOK, Devices
<1>4. ASSUME NEW w \in vdevs, w # v PROVE dev'[w] = dev[w]
  BY <1>1, <1>4 DEF TypeOK
<1> QED BY <1>3, <1>4

\* At any time the devices on vinput_vdevices have different ids, and every
\* one of these ids is marked in vinput_ids: for any number of concurrent
\* administrators, although they hold vinput_lock only here and there.
THEOREM IdsStayUnique == Spec => [](IdsUnique /\ ListedIdsMarked)
<1>1. Init => IdInv
  BY DEF Init, IdInv, IdsUnique, ListedIdsMarked
<1>2. TypeOK /\ IdInv /\ [Next]_vars => IdInv'
  <2> SUFFICES ASSUME TypeOK, IdInv, [Next]_vars PROVE IdInv'
    OBVIOUS
  <2>1. ASSUME vinput_init \/ vinput_end PROVE IdInv'
    <3>1. CASE vinput_init
      BY <3>1 DEF vinput_init, IdInv, IdsUnique, ListedIdsMarked
    <3>2. CASE vinput_end
      BY <3>2, IdFrame DEF vinput_end
    <3> QED BY <2>1, <3>1, <3>2
  <2>2. ASSUME NEW t \in Types, vinput_register(t) PROVE IdInv'
    BY <2>2, IdFrame DEF vinput_register
  <2>3. ASSUME NEW u \in Users, NEW i \in Ids, vinput_open(u, i) PROVE IdInv'
    BY <2>3, IdFrame DEF vinput_open
  <2>4. ASSUME NEW u \in Users, OpenChecks(u) \/ vinput_release(u) PROVE IdInv'
    BY <2>4, IdFrame DEF OpenChecks, vinput_release
  <2>5. ASSUME NEW a \in Admins, AdminStep(a) PROVE IdInv'
    <3>1. ASSUME NEW t \in Types, vinput_unregister(a, t) PROVE IdInv'
      BY <3>1, IdFrame DEF vinput_unregister
    <3>2. ASSUME NEW t \in Types, export_store(a, t) PROVE IdInv'
      BY <3>2, IdFrame DEF export_store
    <3>3. ASSUME NEW i \in Ids, unexport_store(a, i) PROVE IdInv'
      BY <3>3, IdFrame DEF unexport_store
    <3>4. CASE Walk(a) BY <3>4, IdFrame DEF Walk
    <3>5. CASE WalkEnds(a) BY <3>5, IdFrame DEF WalkEnds
    <3>6. CASE AllocFails(a) BY <3>6, IdFrame DEF AllocFails
    <3>7. CASE Alloc(a)
      <4>1. PICK i \in Ids \ ids :
              /\ ids' = ids \union {i}
              /\ dev' = [dev EXCEPT ![count + 1].id = i]
        BY <3>7 DEF Alloc, AllocWithin
      <4>2. /\ vdevs' = vdevs \union {count + 1}
            /\ count + 1 \in Objs
        BY <3>7, MaxAllocsAssumption DEF Alloc, AllocWithin, TypeOK, Objs
      <4>3. dev[count + 1] \in Devices
        BY <4>2 DEF TypeOK
      <4>4. dev'[count + 1].id = i
        BY <4>1, <4>2, <4>3 DEF TypeOK, Devices
      <4>5. \A w \in vdevs : w \in Objs /\ w # count + 1
        BY MaxAllocsAssumption DEF TypeOK, Objs
      <4>6. \A w \in vdevs : dev'[w].id = dev[w].id
        BY <4>1, <4>2, <4>5 DEF TypeOK
      <4> QED BY <4>1, <4>2, <4>4, <4>6
              DEF IdInv, IdsUnique, ListedIdsMarked
    <3>8. CASE AllocInput(a)
      <4>1. ptr[a] \in Objs BY <3>8 DEF AllocInput, TypeOK, Objs
      <4> QED BY <3>8, <4>1, SameIds, IdFrame DEF AllocInput
    <3>9. CASE AllocInputFails(a) BY <3>9, IdFrame DEF AllocInputFails
    <3>10. CASE Register(a)
      <4>1. ptr[a] \in Objs BY <3>10 DEF Register, TypeOK, Objs
      <4> QED BY <3>10, <4>1, SameIds, IdFrame DEF Register
    <3>11. CASE RegisterFails(a)
      <4>1. ptr[a] \in Objs BY <3>11 DEF RegisterFails, TypeOK, Objs
      <4> QED BY <3>11, <4>1, SameIds, IdDestroy DEF RegisterFails
    <3>12. CASE InitVdev(a)
      <4>1. ptr[a] \in Objs BY <3>12 DEF InitVdev, TypeOK, Objs
      <4> QED BY <3>12, <4>1, SameIds, IdFrame DEF InitVdev
    <3>13. CASE InitVdevFails(a)
      <4>1. ptr[a] \in Objs BY <3>13 DEF InitVdevFails, TypeOK, Objs
      <4> QED BY <3>13, <4>1, SameIds, IdDestroy DEF InitVdevFails
    <3>14. CASE Recheck(a) BY <3>14, IdFrame DEF Recheck
    <3>15. CASE UnregisterInput(a)
      <4>1. ptr[a] \in Objs BY <3>15 DEF UnregisterInput, TypeOK, Objs
      <4> QED BY <3>15, <4>1, SameIds, IdFrame DEF UnregisterInput
    <3>16. CASE UnregisterDevice(a)
      <4>1. ptr[a] \in Objs BY <3>16 DEF UnregisterDevice, TypeOK, Objs
      <4> QED BY <3>16, <4>1, SameIds, IdDestroy DEF UnregisterDevice
    <3>17. CASE Oops(a) BY <3>17, IdFrame DEF Oops
    <3> QED BY <2>5, <3>1, <3>2, <3>3, <3>4, <3>5, <3>6, <3>7, <3>8, <3>9,
               <3>10, <3>11, <3>12, <3>13, <3>14, <3>15, <3>16, <3>17
            DEF AdminStep
  <2>6. CASE UNCHANGED vars BY <2>6, IdFrame DEF vars
  <2> QED BY <2>1, <2>2, <2>3, <2>4, <2>5, <2>6 DEF Next
<1> QED BY <1>1, <1>2, TypeCorrect, PTL DEF Spec, IdInv

-----------------------------------------------------------------------------
(* Export is all or nothing.  That some administrator points to an         *)
(* incomplete device is not inductive: one that only looks at it may go    *)
(* away.  The one that made it incomplete is what the invariant is about.  *)

Complete(v) == dev[v].node = "present" /\ dev[v].input = "registered"

\* Where an administrator is while its device is not complete.
Making == {"input", "register", "init", "unreg_dev", "oops"}

WorkInv ==
    /\ \A a \in Admins : ptr[a] <= count /\ op[a].next <= count
    /\ \A a \in Admins :
         pc[a] = "init" /\ ptr[a] \in vdevs => dev[ptr[a]].node = "present"
    /\ \A v \in vdevs :
         Complete(v) \/ \E a \in Admins : ptr[a] = v /\ pc[a] \in Making

\* A step of administrator a, who may change the device it points to.
LEMMA WorkStep ==
    ASSUME TypeOK, WorkInv, NEW a \in Admins,
           \A b \in Admins : b # a => /\ pc'[b] = pc[b] /\ ptr'[b] = ptr[b]
                                      /\ op'[b] = op[b],
           count' \in Nat, count <= count',
           vdevs' \subseteq vdevs \union (IF count' = count THEN {} ELSE {count + 1}),
           \A w \in vdevs : w # ptr[a] => dev'[w] = dev[w],
           \A w \in vdevs \intersect vdevs' :
              dev[w].node = "present" => dev'[w].node = "present",
           ptr'[a] <= count', op'[a].next <= count',
           pc'[a] = "init" /\ ptr'[a] \in vdevs' => dev'[ptr'[a]].node = "present",
           \A v \in vdevs' :
              v = ptr[a] \/ v \notin vdevs =>
                 \/ dev'[v].node = "present" /\ dev'[v].input = "registered"
                 \/ ptr'[a] = v /\ pc'[a] \in Making
                 \/ v \in vdevs /\ dev'[v] = dev[v] /\ pc[a] \notin Making
    PROVE  WorkInv'
<1>0. count \in Nat /\ \A b \in Admins : ptr[b] \in Nat /\ op[b].next \in Nat
  BY MaxAllocsAssumption DEF TypeOK, Objs, Requests
<1>1. \A b \in Admins : ptr'[b] <= count' /\ op'[b].next <= count'
  BY <1>0 DEF WorkInv
<1>2. ASSUME NEW b \in Admins, pc'[b] = "init", ptr'[b] \in vdevs'
      PROVE  dev'[ptr'[b]].node = "present"
  <2>1. CASE b = a
    BY <1>2, <2>1
  <2>2. CASE b # a
    <3>1. ptr'[b] = ptr[b] /\ pc[b] = "init" /\ ptr[b] # count + 1
      BY <1>0, <1>2, <2>2 DEF WorkInv
    <3>2. ptr[b] \in vdevs
      BY <1>2, <3>1
    <3> QED BY <1>2, <3>1, <3>2 DEF WorkInv
  <2> QED BY <2>1, <2>2
<1>3. ASSUME NEW v \in vdevs'
      PROVE  \/ dev'[v].node = "present" /\ dev'[v].input = "registered"
             \/ \E b \in Admins : ptr'[b] = v /\ pc'[b] \in Making
  <2>1. CASE v \in vdevs /\ v # ptr[a]
    <3>1. dev'[v] = dev[v]
      BY <2>1
    <3>2. CASE Complete(v)
      BY <3>1, <3>2 DEF Complete
    <3>3. CASE ~Complete(v)
      <4>1. PICK b \in Admins : ptr[b] = v /\ pc[b] \in Making
        BY <2>1, <3>3 DEF WorkInv
      <4> QED BY <2>1, <4>1
    <3> QED BY <3>2, <3>3
  <2>2. CASE v \in vdevs /\ v = ptr[a] /\ dev'[v] = dev[v] /\ pc[a] \notin Making
    <3>1. CASE Complete(v)
      BY <2>2, <3>1 DEF Complete
    <3>2. CASE ~Complete(v)
      <4>1. PICK b \in Admins : ptr[b] = v /\ pc[b] \in Making
        BY <2>2, <3>2 DEF WorkInv
      <4>2. b # a
        BY <2>2, <4>1
      <4> QED BY <4>1, <4>2
    <3> QED BY <3>1, <3>2
  <2>3. CASE v \notin vdevs \/ v = ptr[a]
    BY <2>2, <2>3
  <2> QED BY <2>1, <2>3
<1> QED BY <1>1, <1>2, <1>3 DEF WorkInv, Complete

\* A step of nobody, after which no device is new.
LEMMA WorkFrame ==
    ASSUME WorkInv, UNCHANGED <<adminVars, count, dev>>, vdevs' \subseteq vdevs
    PROVE  WorkInv'
BY DEF WorkInv, Complete, adminVars

\* An update of one device changes what it says and no other device.
LEMMA OneDevice ==
    ASSUME TypeOK, NEW v \in Objs, NEW t, NEW i, NEW n
    PROVE  /\ dev' = [dev EXCEPT ![v].input = i] =>
                /\ dev'[v].input = i /\ dev'[v].node = dev[v].node
                /\ dev'[v].type = dev[v].type
           /\ dev' = [dev EXCEPT ![v].node = n] =>
                /\ dev'[v].node = n /\ dev'[v].input = dev[v].input
                /\ dev'[v].type = dev[v].type
           /\ dev' = [dev EXCEPT ![v].type = t, ![v].node = n] =>
                dev'[v].type = t /\ dev'[v].node = n /\ dev'[v].input = dev[v].input
           /\ \/ dev' = [dev EXCEPT ![v].input = i]
              \/ dev' = [dev EXCEPT ![v].node = n]
              \/ dev' = [dev EXCEPT ![v].type = t, ![v].node = n]
              \/ dev' = [dev EXCEPT ![v].type = t, ![v].input = i]
              \/ dev' = [dev EXCEPT ![v].input = i, ![v].node = n]
              => \A w \in Objs : w # v => dev'[w] = dev[w]
<1>1. dev[v] \in Devices
  BY DEF TypeOK
<1>2. dev' = [dev EXCEPT ![v].input = i] =>
        /\ dev'[v].input = i /\ dev'[v].node = dev[v].node
        /\ dev'[v].type = dev[v].type
  BY <1>1 DEF TypeOK, Devices
<1>3. dev' = [dev EXCEPT ![v].node = n] =>
        /\ dev'[v].node = n /\ dev'[v].input = dev[v].input
        /\ dev'[v].type = dev[v].type
  BY <1>1 DEF TypeOK, Devices
<1>4. dev' = [dev EXCEPT ![v].type = t, ![v].node = n] =>
        dev'[v].type = t /\ dev'[v].node = n /\ dev'[v].input = dev[v].input
  BY <1>1 DEF TypeOK, Devices
<1>5. \/ dev' = [dev EXCEPT ![v].input = i]
      \/ dev' = [dev EXCEPT ![v].node = n]
      \/ dev' = [dev EXCEPT ![v].type = t, ![v].node = n]
      \/ dev' = [dev EXCEPT ![v].type = t, ![v].input = i]
      \/ dev' = [dev EXCEPT ![v].input = i, ![v].node = n]
      => \A w \in Objs : w # v => dev'[w] = dev[w]
  BY DEF TypeOK
<1> QED BY <1>2, <1>3, <1>4, <1>5

\* Where the administrators are after a step of one of them.
LEMMA AdminFrame ==
    ASSUME TypeOK, NEW a \in Admins
    PROVE  /\ \A loc : Goto(a, loc) =>
                pc'[a] = loc /\ \A b \in Admins : b # a => pc'[b] = pc[b]
           /\ \A v : ptr' = [ptr EXCEPT ![a] = v] =>
                ptr'[a] = v /\ \A b \in Admins : b # a => ptr'[b] = ptr[b]
           /\ Done(a) =>
                /\ pc'[a] = "idle" /\ op'[a] = NoRequest /\ ptr'[a] = 0
                /\ \A b \in Admins : b # a => /\ pc'[b] = pc[b] /\ op'[b] = op[b]
                                              /\ ptr'[b] = ptr[b]
<1>1. ASSUME NEW loc, Goto(a, loc)
      PROVE  pc'[a] = loc /\ \A b \in Admins : b # a => pc'[b] = pc[b]
  BY <1>1 DEF Goto, TypeOK
<1>2. ASSUME NEW v, ptr' = [ptr EXCEPT ![a] = v]
      PROVE  ptr'[a] = v /\ \A b \in Admins : b # a => ptr'[b] = ptr[b]
  BY <1>2 DEF TypeOK
<1>3. ASSUME Done(a)
      PROVE  /\ pc'[a] = "idle" /\ op'[a] = NoRequest /\ ptr'[a] = 0
             /\ \A b \in Admins : b # a => /\ pc'[b] = pc[b] /\ op'[b] = op[b]
                                           /\ ptr'[b] = ptr[b]
  BY <1>3 DEF Done, Goto, TypeOK
<1> QED BY <1>1, <1>2, <1>3

\* The requests of an administrator, and the walk, change no device.
LEMMA WorkLooks ==
    ASSUME TypeOK, WorkInv, NEW a \in Admins,
           \/ \E t \in Types : vinput_unregister(a, t) \/ export_store(a, t)
           \/ \E i \in Ids : unexport_store(a, i)
           \/ Walk(a) \/ WalkEnds(a) \/ AllocFails(a) \/ Recheck(a) \/ Oops(a)
    PROVE  WorkInv'
<1>1. UNCHANGED <<vdevs, count, dev>>
  BY DEF vinput_unregister, export_store, unexport_store, Walk, WalkEnds,
     AllocFails, Recheck, Oops
<1>2. count \in Nat /\ \A b \in Admins : ptr[b] \in Nat /\ op[b].next \in Nat
  BY MaxAllocsAssumption DEF TypeOK, Objs, Requests
<1>3. \A b \in Admins : b # a => /\ pc'[b] = pc[b] /\ ptr'[b] = ptr[b]
                                 /\ op'[b] = op[b]
  BY DEF TypeOK, vinput_unregister, export_store, unexport_store, Walk, WalkEnds,
     AllocFails, Recheck, Oops, Done, Goto
<1>4. pc[a] \notin Making \/ (pc'[a] \in Making /\ ptr'[a] = ptr[a])
  BY DEF TypeOK, Making, vinput_unregister, export_store, unexport_store, Walk,
     WalkEnds, AllocFails, Recheck, Oops, Goto
<1>5. pc'[a] # "init"
  BY DEF TypeOK, vinput_unregister, export_store, unexport_store, Walk, WalkEnds,
     AllocFails, Recheck, Oops, Done, Goto
<1>6. ptr'[a] <= count /\ op'[a].next <= count
  <2>1. ASSUME NEW t \in Types, vinput_unregister(a, t)
        PROVE  ptr'[a] <= count /\ op'[a].next <= count
    <3>1. PICK x \in Objs \union {0} :
            Follows(x, count + 1) /\ ptr' = [ptr EXCEPT ![a] = x]
      BY <2>1 DEF vinput_unregister
    <3>2. x <= count
      <4>1. x = 0 \/ x \in vdevs
        BY <3>1 DEF Follows
      <4>2. vdevs \subseteq 1 .. count /\ count \in Nat
        BY <1>2 DEF TypeOK
      <4>3. CASE x = 0
        BY <4>2, <4>3
      <4>4. CASE x \in vdevs
        BY <4>2, <4>4
      <4> QED BY <4>1, <4>3, <4>4
    <3>3. op'[a].next = op[a].next
      BY <2>1 DEF vinput_unregister, TypeOK, Requests
    <3> QED BY <3>1, <3>2, <3>3 DEF WorkInv, TypeOK
  <2>2. ASSUME NEW t \in Types, export_store(a, t)
        PROVE  ptr'[a] <= count /\ op'[a].next <= count
    <3>1. op'[a].next = op[a].next
      BY <2>2 DEF export_store, TypeOK, Requests
    <3> QED BY <2>2, <3>1 DEF WorkInv, export_store
  <2>3. ASSUME NEW i \in Ids, unexport_store(a, i)
        PROVE  ptr'[a] <= count /\ op'[a].next <= count
    <3>1. op'[a].next = op[a].next
      BY <2>3 DEF unexport_store, TypeOK, Requests
    <3>2. PICK v \in vdevs : ptr' = [ptr EXCEPT ![a] = v]
      BY <2>3 DEF unexport_store
    <3> QED BY <3>1, <3>2, <1>2 DEF WorkInv, TypeOK
  <2>4. CASE Walk(a)
    <3>1. PICK x \in Objs \union {0} :
            /\ Follows(x, ptr[a])
            /\ \/ op' = [op EXCEPT ![a].next = x] /\ ptr' = ptr
               \/ ptr' = [ptr EXCEPT ![a] = x] /\ op' = op
      BY <2>4 DEF Walk
    <3>2. x <= count
      BY <1>2, <3>1 DEF Follows, TypeOK
    <3>3. (op'[a].next = x \/ op'[a].next = op[a].next)
          /\ (ptr'[a] = x \/ ptr'[a] = ptr[a])
      BY <3>1 DEF TypeOK, Requests
    <3> QED BY <3>2, <3>3 DEF WorkInv
  <2>5. CASE WalkEnds(a) \/ AllocFails(a) \/ Recheck(a) \/ Oops(a)
    <3>1. (ptr'[a] = 0 /\ op'[a] = NoRequest) \/ (ptr'[a] = ptr[a] /\ op'[a] = op[a])
      BY <2>5, AdminFrame DEF WalkEnds, AllocFails, Recheck, Oops
    <3> QED BY <1>2, <3>1 DEF WorkInv, NoRequest
  <2> QED BY <2>1, <2>2, <2>3, <2>4, <2>5
<1> QED BY <1>1, <1>2, <1>3, <1>4, <1>5, <1>6, WorkStep

\* The steps that make a device and take it away.
LEMMA WorkMakes ==
    ASSUME TypeOK, WorkInv, NEW a \in Admins,
           \/ AllocInput(a) \/ AllocInputFails(a) \/ Register(a) \/ RegisterFails(a)
           \/ InitVdev(a) \/ InitVdevFails(a) \/ UnregisterInput(a)
           \/ UnregisterDevice(a)
    PROVE  WorkInv'
<1>1. count' = count /\ ptr[a] \in vdevs /\ pc[a] # "idle"
  BY DEF AllocInput, AllocInputFails, Register, RegisterFails, InitVdev,
     InitVdevFails, UnregisterInput, UnregisterDevice
<1>2. count \in Nat /\ \A b \in Admins : ptr[b] \in Nat /\ op[b].next \in Nat
  BY MaxAllocsAssumption DEF TypeOK, Objs, Requests
<1>3. \A b \in Admins : b # a => /\ pc'[b] = pc[b] /\ ptr'[b] = ptr[b]
                                 /\ op'[b] = op[b]
  BY DEF TypeOK, AllocInput, AllocInputFails, Register, RegisterFails, InitVdev,
     InitVdevFails, UnregisterInput, UnregisterDevice, Done, Goto
<1>4. vdevs \subseteq Objs /\ ptr[a] \in Objs
  BY <1>1, MaxAllocsAssumption DEF TypeOK, Objs
<1>5. \A w \in Objs : w # ptr[a] => dev'[w] = dev[w]
  BY <1>4 DEF TypeOK, AllocInput, AllocInputFails, Register, RegisterFails, InitVdev,
     InitVdevFails, UnregisterInput, UnregisterDevice
<1>6. vdevs' = vdevs \/ vdevs' = vdevs \ {ptr[a]}
  BY DEF AllocInput, AllocInputFails, Register, RegisterFails, InitVdev,
     InitVdevFails, UnregisterInput, UnregisterDevice, Destroy
<1>7. ptr'[a] <= count /\ op'[a].next <= count
  <2>1. \/ ptr'[a] = 0 /\ op'[a] = NoRequest
        \/ ptr'[a] = ptr[a] /\ op'[a] = op[a]
        \/ ptr'[a] = op[a].next /\ op'[a] = op[a]
    BY DEF TypeOK, AllocInput, AllocInputFails, Register, RegisterFails, InitVdev,
       InitVdevFails, UnregisterInput, UnregisterDevice, Done, Goto
  <2> QED BY <1>2, <2>1 DEF WorkInv, NoRequest
<1>8. ptr[a] \in vdevs' =>
        /\ dev[ptr[a]].node = "present" => dev'[ptr[a]].node = "present"
        /\ pc'[a] = "init" => ptr'[a] = ptr[a] /\ dev'[ptr[a]].node = "present"
        /\ \/ dev'[ptr[a]].node = "present" /\ dev'[ptr[a]].input = "registered"
           \/ ptr'[a] = ptr[a] /\ pc'[a] \in Making
  <2>1. CASE AllocInput(a)
    BY <1>4, <2>1, OneDevice, AdminFrame DEF AllocInput, Making
  <2>2. CASE Register(a)
    <3>1. dev' = [dev EXCEPT ![ptr[a]].type = op[a].type, ![ptr[a]].node = "present"]
      BY <2>2 DEF Register
    <3>2. dev'[ptr[a]].node = "present"
      <4>1. dev \in [Objs -> Devices] /\ dev[ptr[a]] \in Devices
        BY <1>4 DEF TypeOK
      <4> QED BY <1>4, <3>1, <4>1 DEF Devices
    <3>3. pc'[a] = "init" /\ ptr'[a] = ptr[a]
      BY <2>2, AdminFrame DEF Register
    <3> QED BY <3>2, <3>3 DEF Making
  <2>3. CASE InitVdev(a)
    <3>1. dev[ptr[a]].node = "present"
      BY <1>1, <2>3 DEF InitVdev, WorkInv
    <3> QED BY <1>4, <2>3, <3>1, OneDevice, AdminFrame DEF InitVdev
  <2>4. CASE UnregisterInput(a)
    BY <1>4, <2>4, OneDevice, AdminFrame DEF UnregisterInput, Making
  <2>5. CASE AllocInputFails(a) \/ RegisterFails(a) \/ InitVdevFails(a)
             \/ UnregisterDevice(a)
    BY <2>5 DEF AllocInputFails, RegisterFails, InitVdevFails, UnregisterDevice, Destroy
  <2> QED BY <2>1, <2>2, <2>3, <2>4, <2>5
<1>9. ptr[a] \notin vdevs' => pc'[a] # "init"
  <2>1. CASE AllocInputFails(a) \/ RegisterFails(a) \/ InitVdevFails(a)
    BY <2>1, AdminFrame DEF AllocInputFails, RegisterFails, InitVdevFails
  <2>2. CASE UnregisterDevice(a)
    BY <2>2, AdminFrame DEF UnregisterDevice
  <2>3. CASE AllocInput(a) \/ Register(a) \/ InitVdev(a) \/ UnregisterInput(a)
    BY <1>1, <2>3 DEF AllocInput, Register, InitVdev, UnregisterInput
  <2> QED BY <2>1, <2>2, <2>3
<1>10. \A w \in vdevs \intersect vdevs' :
         dev[w].node = "present" => dev'[w].node = "present"
  BY <1>4, <1>5, <1>8
<1> QED BY <1>1, <1>2, <1>3, <1>4, <1>5, <1>6, <1>7, <1>8, <1>9, <1>10, WorkStep

\* A new device is the one its administrator works on.
LEMMA WorkAlloc ==
    ASSUME TypeOK, WorkInv, NEW a \in Admins, Alloc(a)
    PROVE  WorkInv'
<1>1. PICK i \in Ids : dev' = [dev EXCEPT ![count + 1].id = i]
  BY DEF Alloc, AllocWithin
<1>2. /\ vdevs' = vdevs \union {count + 1} /\ count' = count + 1
      /\ ptr' = [ptr EXCEPT ![a] = count + 1] /\ Goto(a, "input") /\ op' = op
  BY DEF Alloc, AllocWithin
<1>3. count \in Nat /\ vdevs \subseteq 1 .. count
      /\ \A b \in Admins : ptr[b] \in Nat /\ op[b].next \in Nat
  BY MaxAllocsAssumption DEF TypeOK, Objs, Requests
<1>4. \A w \in vdevs : dev'[w] = dev[w]
  BY <1>1, <1>3, MaxAllocsAssumption DEF TypeOK, Objs
<1>5. pc'[a] = "input" /\ ptr'[a] = count + 1
      /\ \A b \in Admins : b # a => pc'[b] = pc[b] /\ ptr'[b] = ptr[b] /\ op'[b] = op[b]
  BY <1>2, AdminFrame
<1>6. ptr'[a] <= count' /\ op'[a].next <= count'
  BY <1>2, <1>3, <1>5 DEF WorkInv
<1>7. \A v \in vdevs' : v = ptr[a] \/ v \notin vdevs =>
        (ptr'[a] = v /\ pc'[a] \in Making)
        \/ (v \in vdevs /\ dev'[v] = dev[v] /\ pc[a] \notin Making)
  <2>1. pc[a] \notin Making
    BY DEF Alloc, AllocWithin, Making
  <2> QED BY <1>2, <1>4, <1>5, <2>1 DEF Making
<1> QED BY <1>2, <1>3, <1>4, <1>5, <1>6, <1>7, WorkStep

\* Whatever fails on the way, a device that no administrator works on has
\* both its node and its input device: with any number of exports, unexports
\* and removals of types at the same time.
THEOREM ExportIsAllOrNothing == Spec => []CompleteUnlessWorkedOn
<1>1. Init => WorkInv
  BY DEF Init, WorkInv, NoRequest
<1>2. TypeOK /\ WorkInv /\ [Next]_vars => WorkInv'
  <2> SUFFICES ASSUME TypeOK, WorkInv, [Next]_vars PROVE WorkInv'
    OBVIOUS
  <2>1. ASSUME vinput_init \/ vinput_end PROVE WorkInv'
    BY <2>1, WorkFrame DEF vinput_init, vinput_end
  <2>2. ASSUME NEW t \in Types, vinput_register(t) PROVE WorkInv'
    BY <2>2, WorkFrame DEF vinput_register
  <2>3. ASSUME NEW u \in Users, NEW i \in Ids, vinput_open(u, i) PROVE WorkInv'
    BY <2>3, WorkFrame DEF vinput_open
  <2>4. ASSUME NEW u \in Users, OpenChecks(u) \/ vinput_release(u) PROVE WorkInv'
    BY <2>4, WorkFrame DEF OpenChecks, vinput_release
  <2>5. ASSUME NEW a \in Admins, AdminStep(a) PROVE WorkInv'
    BY <2>5, WorkLooks, WorkMakes, WorkAlloc DEF AdminStep
  <2>6. CASE UNCHANGED vars
    BY <2>6, WorkFrame DEF vars
  <2> QED BY <2>1, <2>2, <2>3, <2>4, <2>5, <2>6 DEF Next
<1>3. WorkInv => CompleteUnlessWorkedOn
  BY DEF WorkInv, Complete, CompleteUnlessWorkedOn
<1> QED BY <1>1, <1>2, <1>3, TypeCorrect, PTL DEF Spec

-----------------------------------------------------------------------------
(* One administrator at a time.  Where it is says what it may rely on: its *)
(* device is on the list, all the others are complete and their type is    *)
(* there, and the walk of vinput_unregister has no device of its type left *)
(* behind it.                                                              *)

Sound(v) == Complete(v) /\ dev[v].type \in loaded

\* Administrator a is removing a type.
Walking(a) ==
    pc[a] = "walk" \/ (pc[a] \in {"unreg_input", "unreg_dev"} /\ op[a].id = -1)

TypesInv(a) ==
    /\ devs \subseteq loaded
    /\ ~up => loaded = {} /\ vdevs = {} /\ pc[a] = "idle"
    /\ Walking(a) => op[a].type \in loaded /\ op[a].type \notin devs

PlaceInv(a) ==
    /\ pc[a] # "oops"
    /\ pc[a] = "idle" => ptr[a] = 0 /\ op[a] = NoRequest
    /\ pc[a] = "alloc" => ptr[a] = 0
    /\ pc[a] \in {"alloc", "input", "register"} => op[a].type \in devs
    /\ pc[a] \in {"input", "register"} => /\ ptr[a] \in vdevs
                                          /\ dev[ptr[a]].node = "absent"
    /\ pc[a] \in {"init", "unreg_dev"} => /\ ptr[a] \in vdevs
                                          /\ dev[ptr[a]].type \in loaded
                                          /\ dev[ptr[a]].node = "present"
    /\ pc[a] = "recheck" => ptr[a] \in vdevs /\ op[a].id # -1
    /\ pc[a] = "unreg_input" => ptr[a] \in vdevs

WalkInv(a) ==
    /\ pc[a] = "walk" =>
         /\ ptr[a] \in vdevs \union {0}
         /\ \A v \in vdevs : dev[v].type = op[a].type => v <= ptr[a]
    /\ pc[a] \in {"unreg_input", "unreg_dev"} /\ op[a].id = -1 =>
         /\ op[a].next \in vdevs \union {0} /\ op[a].next # ptr[a]
         /\ \A v \in vdevs : dev[v].type = op[a].type => v = ptr[a] \/ v <= op[a].next

ListInv(a) ==
    /\ \A v \in vdevs :
         v # ptr[a] \/ pc[a] \in {"recheck", "walk", "unreg_input"} => Sound(v)
    /\ \A v \in Objs : v > count => dev[v].node = "absent"

AloneInv(a) ==
    /\ \A b \in Admins : b # a => pc[b] = "idle"
    /\ TypesInv(a) /\ PlaceInv(a) /\ WalkInv(a) /\ ListInv(a)

\* The first states satisfy the invariant.
LEMMA AloneInit ==
    ASSUME Init, NEW a \in Admins
    PROVE  AloneInv(a)
<1>1. ~up
  BY Zenon DEF Init
<1>2. TypesInv(a)
  BY <1>1 DEF Init, TypesInv, Walking
<1>3. PlaceInv(a) /\ WalkInv(a) /\ ListInv(a)
  BY DEF Init, PlaceInv, WalkInv, ListInv
<1> QED BY <1>2, <1>3 DEF AloneInv, Init

\* The invariant is what the property needs.
LEMMA AloneIsSafe ==
    ASSUME TypeOK, NEW a \in Admins, AloneInv(a)
    PROVE  NoUndefinedBehaviour /\ DevicesHaveTheirType
<1>1. ASSUME NEW b \in Admins PROVE ~Dangling(b)
  <2>1. CASE b # a
    BY <2>1 DEF AloneInv, Dangling
  <2>2. CASE b = a
    <3>1. pc[a] = "unreg_input" => ptr[a] \in vdevs /\ Sound(ptr[a])
      BY DEF AloneInv, PlaceInv, ListInv
    <3> QED BY <2>2, <3>1 DEF AloneInv, PlaceInv, WalkInv, Sound, Complete, Dangling
  <2> QED BY <2>1, <2>2
<1>2. ASSUME NEW v \in vdevs, dev[v].node = "present"
      PROVE  dev[v].type \in loaded /\ up
  <2>1. up
    BY DEF AloneInv, TypesInv
  <2>2. v # 0
    BY MaxAllocsAssumption DEF TypeOK
  <2>3. pc[a] \in Locations
    BY DEF TypeOK
  <2>4. dev[v].type \in loaded
    BY <1>2, <2>2, <2>3
    DEF AloneInv, PlaceInv, ListInv, Sound, Complete, Locations
  <2> QED BY <2>1, <2>4
<1> QED BY <1>1, <1>2 DEF NoUndefinedBehaviour, DevicesHaveTheirType

\* Nobody else can do anything without leaving "idle".
LEMMA OthersWait ==
    ASSUME TypeOK, NEW b \in Admins, pc[b] = "idle", AdminStep(b)
    PROVE  pc'[b] # "idle"
BY DEF TypeOK, AdminStep, vinput_unregister, export_store, unexport_store, Walk,
   WalkEnds, AllocFails, Alloc, AllocWithin, AllocInput, AllocInputFails, Register,
   RegisterFails, InitVdev, InitVdevFails, Recheck, UnregisterInput,
   UnregisterDevice, Oops, Dangling, Goto

\* The driver and its types come, and files are opened and closed.
LEMMA AloneDriver ==
    ASSUME TypeOK, NEW a \in Admins, AloneInv(a),
           \/ vinput_init \/ vinput_end
           \/ \E t \in Types : vinput_register(t)
           \/ \E u \in Users :
                (\E i \in Ids : vinput_open(u, i)) \/ OpenChecks(u) \/ vinput_release(u)
           \/ UNCHANGED vars
    PROVE  AloneInv(a)'
<1>1. UNCHANGED <<count, dev, pc, op, ptr>>
  BY DEF vinput_init, vinput_end, vinput_register, vinput_open, OpenChecks,
     vinput_release, adminVars, vars
<1>2. CASE vinput_init
  <2>1. ~up /\ up' /\ loaded' = loaded /\ devs' = {} /\ vdevs' = {}
    BY <1>2, Zenon DEF vinput_init
  <2>2. loaded = {} /\ pc[a] = "idle"
    BY <2>1 DEF AloneInv, TypesInv
  <2>3. TypesInv(a)'
    BY <1>1, <2>1, <2>2 DEF TypesInv, Walking
  <2>4. PlaceInv(a)' /\ WalkInv(a)' /\ ListInv(a)'
    BY <1>1, <2>1, <2>2 DEF AloneInv, PlaceInv, WalkInv, ListInv
  <2> QED BY <1>1, <2>3, <2>4 DEF AloneInv
<1>3. CASE vinput_end
  <2>1. /\ pc[a] = "idle" /\ loaded = {}
        /\ loaded' = loaded /\ devs' = devs /\ vdevs' = vdevs
    BY <1>3 DEF vinput_end
  <2>2. vdevs = {}
    BY <2>1, MaxAllocsAssumption DEF TypeOK, AloneInv, PlaceInv, ListInv, Sound
  <2>3. TypesInv(a)'
    BY <1>1, <2>1, <2>2 DEF AloneInv, TypesInv, Walking
  <2>4. PlaceInv(a)' /\ WalkInv(a)' /\ ListInv(a)'
    BY <1>1, <2>1, <2>2 DEF AloneInv, PlaceInv, WalkInv, ListInv
  <2> QED BY <1>1, <2>3, <2>4 DEF AloneInv
<1>4. CASE \E t \in Types : vinput_register(t)
  <2>1. PICK t \in Types : vinput_register(t)
    BY <1>4
  <2>2. up /\ t \notin loaded /\ loaded' = loaded \union {t}
        /\ devs' = devs \union {t} /\ up' = up /\ vdevs' = vdevs
    BY <2>1 DEF vinput_register
  <2>3. TypesInv(a)'
    BY <1>1, <2>2 DEF AloneInv, TypesInv, Walking
  <2>4. PlaceInv(a)' /\ WalkInv(a)'
    BY <1>1, <2>2 DEF AloneInv, PlaceInv, WalkInv
  <2>5. ListInv(a)'
    BY <1>1, <2>2 DEF AloneInv, ListInv, Sound, Complete
  <2> QED BY <1>1, <2>3, <2>4, <2>5 DEF AloneInv
<1>5. CASE UNCHANGED <<up, loaded, devs, vdevs>>
  <2>1. TypesInv(a)' /\ PlaceInv(a)' /\ WalkInv(a)'
    BY <1>1, <1>5 DEF AloneInv, TypesInv, Walking, PlaceInv, WalkInv
  <2>2. ListInv(a)'
    BY <1>1, <1>5 DEF AloneInv, ListInv, Sound, Complete
  <2> QED BY <1>1, <2>1, <2>2 DEF AloneInv
<1> QED BY <1>2, <1>3, <1>4, <1>5 DEF vinput_open, OpenChecks, vinput_release, vars

\* The administrator begins a request, or ends one without a device.
LEMMA AloneBegins ==
    ASSUME TypeOK, NEW a \in Admins, AloneInv(a), TypeOK',
           \A b \in Admins : b # a => pc'[b] = "idle",
           \/ \E t \in Types : vinput_unregister(a, t) \/ export_store(a, t)
           \/ \E i \in Ids : unexport_store(a, i)
           \/ AllocFails(a) \/ Recheck(a)
    PROVE  AloneInv(a)'
<1>1. UNCHANGED <<up, loaded, vdevs, count, dev>>
  BY DEF vinput_unregister, export_store, unexport_store, AllocFails, Recheck
<1>2. count \in Nat /\ vdevs \subseteq 1 .. count /\ 0 \notin vdevs
  BY MaxAllocsAssumption DEF TypeOK
<1>3. ASSUME NEW t \in Types, vinput_unregister(a, t) PROVE AloneInv(a)'
  <2>1. PICK x \in Objs \union {0} :
          Follows(x, count + 1) /\ ptr' = [ptr EXCEPT ![a] = x]
    BY <1>3 DEF vinput_unregister
  <2>2. pc[a] = "idle" /\ t \in devs /\ devs' = devs \ {t} /\ pc'[a] = "walk"
        /\ ptr'[a] = x /\ op'[a].type = t
    <3>1. pc[a] = "idle" /\ t \in devs /\ devs' = devs \ {t}
      BY <1>3 DEF vinput_unregister
    <3>2. pc'[a] = "walk" /\ ptr'[a] = x
      BY <1>3, <2>1, AdminFrame DEF vinput_unregister
    <3>3. op' = [op EXCEPT ![a].type = t] /\ op \in [Admins -> Requests]
      BY <1>3 DEF vinput_unregister, TypeOK
    <3>4. op'[a].type = t
      BY <3>3 DEF Requests
    <3> QED BY <3>1, <3>2, <3>4
  <2>3. x \in vdevs \union {0} /\ \A v \in vdevs : v <= x
    BY <1>2, <2>1 DEF Follows
  <2>4. \A v \in vdevs : Sound(v)
    BY <1>2, <2>2 DEF AloneInv, PlaceInv, ListInv
  <2>5. TypesInv(a)'
    BY <1>1, <2>2 DEF AloneInv, TypesInv, Walking
  <2>6. PlaceInv(a)' /\ WalkInv(a)'
    BY <1>1, <2>2, <2>3 DEF PlaceInv, WalkInv
  <2>7. ListInv(a)'
    BY <1>1, <2>4 DEF AloneInv, ListInv, Sound, Complete
  <2> QED BY <2>5, <2>6, <2>7 DEF AloneInv
<1>4. ASSUME NEW t \in Types, export_store(a, t) PROVE AloneInv(a)'
  <2>1. pc[a] = "idle" /\ t \in devs /\ devs' = devs /\ up /\ ptr' = ptr
        /\ op' = [op EXCEPT ![a].type = t] /\ op \in [Admins -> Requests]
    BY <1>4 DEF export_store, TypeOK
  <2>2. pc'[a] = "alloc" /\ ptr'[a] = 0
    BY <1>4, <2>1, AdminFrame DEF export_store, AloneInv, PlaceInv
  <2>3. op'[a].type = t
    BY <2>1 DEF Requests
  <2>4. \A v \in vdevs : Sound(v)
    BY <1>2, <2>1 DEF AloneInv, PlaceInv, ListInv
  <2>5. TypesInv(a)'
    BY <1>1, <2>1, <2>2 DEF AloneInv, TypesInv, Walking
  <2>6. PlaceInv(a)' /\ WalkInv(a)'
    BY <1>1, <2>1, <2>2, <2>3 DEF PlaceInv, WalkInv
  <2>7. ListInv(a)'
    BY <1>1, <2>4 DEF AloneInv, ListInv, Sound, Complete
  <2> QED BY <2>5, <2>6, <2>7 DEF AloneInv
<1>5. ASSUME NEW i \in Ids, unexport_store(a, i) PROVE AloneInv(a)'
  <2>1. PICK v \in vdevs : ptr' = [ptr EXCEPT ![a] = v]
    BY <1>5 DEF unexport_store
  <2>2. pc[a] = "idle" /\ devs' = devs /\ up
        /\ op' = [op EXCEPT ![a].id = i] /\ op \in [Admins -> Requests]
    BY <1>5 DEF unexport_store, TypeOK
  <2>3. pc'[a] = "recheck" /\ ptr'[a] \in vdevs
    <3>1. pc'[a] = "recheck"
      BY <1>5, AdminFrame DEF unexport_store
    <3>2. ptr'[a] = v
      BY <2>1, AdminFrame
    <3> QED BY <3>1, <3>2
  <2>4. op'[a].id = i /\ i # -1
    BY <2>2, MinorsAssumption DEF Requests, Ids
  <2>5. \A w \in vdevs : Sound(w)
    BY <1>2, <2>2 DEF AloneInv, PlaceInv, ListInv
  <2>6. TypesInv(a)'
    BY <1>1, <2>2, <2>3 DEF AloneInv, TypesInv, Walking
  <2>7. PlaceInv(a)' /\ WalkInv(a)'
    BY <1>1, <2>2, <2>3, <2>4 DEF PlaceInv, WalkInv
  <2>8. ListInv(a)'
    BY <1>1, <2>5 DEF AloneInv, ListInv, Sound, Complete
  <2> QED BY <2>6, <2>7, <2>8 DEF AloneInv
<1>6. CASE (AllocFails(a) \/ Recheck(a)) /\ Done(a)
  <2>1. pc'[a] = "idle" /\ ptr'[a] = 0 /\ op'[a] = NoRequest /\ devs' = devs
        /\ pc[a] \in {"alloc", "recheck"}
    BY <1>6, AdminFrame DEF AllocFails, Recheck
  <2>2. \A v \in vdevs : Sound(v)
    BY <1>2, <2>1 DEF AloneInv, PlaceInv, ListInv
  <2>3. TypesInv(a)'
    BY <1>1, <2>1 DEF AloneInv, TypesInv, Walking
  <2>4. PlaceInv(a)' /\ WalkInv(a)'
    BY <1>1, <2>1 DEF PlaceInv, WalkInv
  <2>5. ListInv(a)'
    BY <1>1, <2>2 DEF AloneInv, ListInv, Sound, Complete
  <2> QED BY <2>3, <2>4, <2>5 DEF AloneInv
<1>7. CASE Recheck(a) /\ ~Done(a)
  <2>1. pc[a] = "recheck" /\ pc'[a] = "unreg_input" /\ op' = op /\ ptr' = ptr
        /\ devs' = devs
    BY <1>7, AdminFrame DEF Recheck
  <2>2. ptr[a] \in vdevs /\ op[a].id # -1
    BY <2>1 DEF AloneInv, PlaceInv
  <2>3. TypesInv(a)'
    BY <1>1, <2>1, <2>2 DEF AloneInv, TypesInv, Walking
  <2>4. PlaceInv(a)' /\ WalkInv(a)'
    BY <1>1, <2>1, <2>2 DEF PlaceInv, WalkInv
  <2>5. ListInv(a)'
    BY <1>1, <2>1 DEF AloneInv, ListInv, Sound, Complete
  <2> QED BY <2>3, <2>4, <2>5 DEF AloneInv
<1> QED BY <1>3, <1>4, <1>5, <1>6, <1>7 DEF AllocFails

\* The walk over the list when a type is removed.
LEMMA AloneWalks ==
    ASSUME TypeOK, NEW a \in Admins, AloneInv(a), TypeOK',
           \A b \in Admins : b # a => pc'[b] = "idle",
           Walk(a) \/ WalkEnds(a)
    PROVE  AloneInv(a)'
<1>1. UNCHANGED <<up, devs, vdevs, count, dev>> /\ pc[a] = "walk"
  BY DEF Walk, WalkEnds
<1>2. count \in Nat /\ vdevs \subseteq 1 .. count /\ 0 \notin vdevs
  BY MaxAllocsAssumption DEF TypeOK
<1>3. /\ \A v \in vdevs : Sound(v)
      /\ \A v \in vdevs : dev[v].type = op[a].type => v <= ptr[a]
      /\ op[a].type \in loaded /\ op[a].type \notin devs
  BY <1>1 DEF AloneInv, ListInv, WalkInv, TypesInv, Walking
<1>4. CASE Walk(a)
  <2>1. PICK x \in Objs \union {0} :
          /\ Follows(x, ptr[a])
          /\ IF dev[ptr[a]].type = op[a].type
             THEN /\ Goto(a, "unreg_input")
                  /\ op' = [op EXCEPT ![a].next = x]
                  /\ UNCHANGED ptr
             ELSE /\ ptr' = [ptr EXCEPT ![a] = x]
                  /\ UNCHANGED <<pc, op>>
    BY <1>4 DEF Walk
  <2>2. ptr[a] \in vdevs /\ loaded' = loaded
    BY <1>4 DEF Walk
  <2>3. /\ x \in vdevs \union {0} /\ x < ptr[a]
        /\ \A v \in vdevs : v < ptr[a] => v <= x
    BY <1>2, <2>1, <2>2 DEF Follows
  <2>4. CASE dev[ptr[a]].type = op[a].type
    <3>1. pc'[a] = "unreg_input" /\ ptr' = ptr
      BY <2>1, <2>4, AdminFrame
    <3>2. op'[a].next = x /\ op'[a].id = op[a].id /\ op'[a].type = op[a].type
      <4>1. op' = [op EXCEPT ![a].next = x] /\ op \in [Admins -> Requests]
        BY <2>1, <2>4 DEF TypeOK
      <4> QED BY <4>1 DEF Requests
    <3>3. \A v \in vdevs : dev[v].type = op[a].type => v = ptr[a] \/ v <= x
      <4>1. ASSUME NEW v \in vdevs, dev[v].type = op[a].type, v # ptr[a]
            PROVE  v <= x
        <5>1. v <= ptr[a]
          BY <1>3, <4>1
        <5>2. v < ptr[a]
          <6>1. v \in 1 .. count /\ ptr[a] \in 1 .. count
            BY <1>2, <2>2
          <6> QED BY <1>2, <4>1, <5>1, <6>1
        <5> QED BY <2>3, <5>2
      <4> QED BY <4>1
    <3>4. TypesInv(a)'
      BY <1>1, <1>3, <2>2, <3>1, <3>2 DEF AloneInv, TypesInv, Walking
    <3>5. PlaceInv(a)'
      BY <1>1, <2>2, <3>1 DEF PlaceInv
    <3>6. WalkInv(a)'
      BY <1>1, <1>2, <2>2, <2>3, <3>1, <3>2, <3>3 DEF WalkInv
    <3>7. ListInv(a)'
      BY <1>1, <1>3, <2>2 DEF AloneInv, ListInv, Sound, Complete
    <3> QED BY <3>4, <3>5, <3>6, <3>7 DEF AloneInv
  <2>5. CASE dev[ptr[a]].type # op[a].type
    <3>1. pc' = pc /\ op' = op /\ ptr'[a] = x
      BY <2>1, <2>5, AdminFrame
    <3>2. \A v \in vdevs : dev[v].type = op[a].type => v <= x
      <4>1. ASSUME NEW v \in vdevs, dev[v].type = op[a].type PROVE v <= x
        <5>1. v <= ptr[a] /\ v # ptr[a]
          BY <1>3, <2>5, <4>1
        <5>2. v < ptr[a]
          BY <1>2, <2>2, <5>1
        <5> QED BY <2>3, <5>2
      <4> QED BY <4>1
    <3>3. TypesInv(a)'
      BY <1>1, <1>3, <2>2, <3>1 DEF AloneInv, TypesInv, Walking
    <3>4. PlaceInv(a)' /\ WalkInv(a)'
      BY <1>1, <2>3, <3>1, <3>2 DEF PlaceInv, WalkInv
    <3>5. ListInv(a)'
      BY <1>1, <1>3, <2>2 DEF AloneInv, ListInv, Sound, Complete
    <3> QED BY <3>3, <3>4, <3>5 DEF AloneInv
  <2> QED BY <2>4, <2>5
<1>5. CASE WalkEnds(a)
  <2>1. pc'[a] = "idle" /\ ptr'[a] = 0 /\ op'[a] = NoRequest /\ ptr[a] = 0
        /\ loaded' = loaded \ {op[a].type}
    BY <1>5, AdminFrame DEF WalkEnds
  <2>2. \A v \in vdevs : dev[v].type # op[a].type
    BY <1>2, <1>3, <2>1
  <2>3. TypesInv(a)'
    BY <1>1, <1>3, <2>1 DEF AloneInv, TypesInv, Walking
  <2>4. PlaceInv(a)' /\ WalkInv(a)'
    BY <1>1, <2>1 DEF PlaceInv, WalkInv
  <2>5. ListInv(a)'
    BY <1>1, <1>3, <2>1, <2>2 DEF AloneInv, ListInv, Sound, Complete
  <2> QED BY <2>3, <2>4, <2>5 DEF AloneInv
<1> QED BY <1>4, <1>5

\* The administrator makes a device.
LEMMA AloneMakes ==
    ASSUME TypeOK, NEW a \in Admins, AloneInv(a), TypeOK',
           \A b \in Admins : b # a => pc'[b] = "idle",
           Alloc(a) \/ AllocInput(a) \/ Register(a) \/ InitVdev(a)
    PROVE  AloneInv(a)'
<1>1. UNCHANGED <<up, loaded, devs>>
  BY DEF Alloc, AllocWithin, AllocInput, Register, InitVdev
<1>2. count \in Nat /\ vdevs \subseteq 1 .. count /\ 0 \notin vdevs
      /\ 1 .. count \subseteq Objs
  BY MaxAllocsAssumption DEF TypeOK, Objs
<1>3. up
  BY DEF AloneInv, TypesInv, Alloc, AllocWithin, AllocInput, Register, InitVdev
<1>4. CASE Alloc(a)
  <2>1. PICK i \in Ids : dev' = [dev EXCEPT ![count + 1].id = i]
    BY <1>4 DEF Alloc, AllocWithin
  <2>2. /\ vdevs' = vdevs \union {count + 1} /\ count' = count + 1 /\ op' = op
        /\ count + 1 \in Objs /\ pc[a] = "alloc"
    BY <1>2, <1>4, MaxAllocsAssumption DEF Alloc, AllocWithin, Objs
  <2>3. pc'[a] = "input" /\ ptr'[a] = count + 1
    BY <1>4, AdminFrame DEF Alloc, AllocWithin
  <2>4. \A w \in Objs : w # count + 1 => dev'[w] = dev[w]
    BY <2>1 DEF TypeOK
  <2>5. dev'[count + 1].node = "absent"
    <3>1. dev[count + 1] \in Devices /\ dev \in [Objs -> Devices]
      BY <2>2 DEF TypeOK
    <3>2. dev[count + 1].node = "absent"
      BY <1>2, <2>2 DEF AloneInv, ListInv
    <3> QED BY <2>1, <2>2, <3>1, <3>2 DEF Devices
  <2>6. \A v \in vdevs : Sound(v) /\ v # count + 1 /\ dev'[v] = dev[v]
    BY <1>2, <2>2, <2>4 DEF AloneInv, PlaceInv, ListInv
  <2>7. TypesInv(a)'
    BY <1>1, <1>3, <2>3 DEF AloneInv, TypesInv, Walking
  <2>8. PlaceInv(a)' /\ WalkInv(a)'
    BY <1>1, <2>2, <2>3, <2>5 DEF AloneInv, PlaceInv, WalkInv
  <2>9. ListInv(a)'
    <3>1. ASSUME NEW v \in Objs, v > count + 1 PROVE dev'[v].node = "absent"
      <4>1. v > count /\ v # count + 1 /\ v \in Nat
        BY <1>2, <3>1 DEF Objs
      <4> QED BY <2>4, <4>1 DEF AloneInv, ListInv
    <3> QED BY <1>1, <2>2, <2>3, <2>6, <3>1 DEF ListInv, Sound, Complete
  <2> QED BY <2>7, <2>8, <2>9 DEF AloneInv
<1>5. CASE AllocInput(a) \/ Register(a) \/ InitVdev(a)
  <2>1. UNCHANGED <<vdevs, count>> /\ ptr[a] \in vdevs /\ ptr[a] \in Objs
    BY <1>2, <1>5 DEF AllocInput, Register, InitVdev
  <2>2. /\ dev \in [Objs -> Devices] /\ dev[ptr[a]] \in Devices
        /\ \A w \in Objs : w # ptr[a] => dev'[w] = dev[w]
    BY <1>5, <2>1 DEF TypeOK, AllocInput, Register, InitVdev
  <2>3. \A v \in vdevs : v # ptr[a] => Sound(v) /\ dev'[v] = dev[v]
    BY <1>2, <2>2 DEF AloneInv, ListInv
  <2>4. \A v \in Objs : v > count => dev'[v].node = "absent"
    <3>1. ASSUME NEW v \in Objs, v > count PROVE v # ptr[a]
      <4>1. ptr[a] \in 1 .. count
        BY <1>2, <2>1
      <4> QED BY <1>2, <3>1, <4>1
    <3> QED BY <2>2, <3>1 DEF AloneInv, ListInv
  <2>5. CASE AllocInput(a)
    <3>1. pc[a] = "input" /\ pc'[a] = "register" /\ op' = op /\ ptr' = ptr
      BY <2>5, AdminFrame DEF AllocInput
    <3>2. dev'[ptr[a]].node = "absent"
      <4>1. dev' = [dev EXCEPT ![ptr[a]].input = "allocated"]
        BY <2>5 DEF AllocInput
      <4>2. dev[ptr[a]].node = "absent"
        BY <3>1 DEF AloneInv, PlaceInv
      <4> QED BY <2>1, <2>2, <4>1, <4>2 DEF Devices
    <3>3. TypesInv(a)'
      BY <1>1, <1>3, <3>1 DEF AloneInv, TypesInv, Walking
    <3>4. PlaceInv(a)' /\ WalkInv(a)'
      BY <1>1, <2>1, <3>1, <3>2 DEF AloneInv, PlaceInv, WalkInv
    <3>5. ListInv(a)'
      BY <1>1, <2>1, <2>3, <2>4, <3>1 DEF ListInv, Sound, Complete
    <3> QED BY <3>3, <3>4, <3>5 DEF AloneInv
  <2>6. CASE Register(a)
    <3>1. pc[a] = "register" /\ pc'[a] = "init" /\ op' = op /\ ptr' = ptr
      BY <2>6, AdminFrame DEF Register
    <3>2. dev'[ptr[a]].node = "present" /\ dev'[ptr[a]].type = op[a].type
      <4>1. dev' = [dev EXCEPT ![ptr[a]].type = op[a].type,
                               ![ptr[a]].node = "present"]
        BY <2>6 DEF Register
      <4> QED BY <2>1, <2>2, <4>1 DEF Devices
    <3>3. op[a].type \in loaded
      BY <3>1 DEF AloneInv, PlaceInv, TypesInv
    <3>4. TypesInv(a)'
      BY <1>1, <1>3, <3>1 DEF AloneInv, TypesInv, Walking
    <3>5. PlaceInv(a)' /\ WalkInv(a)'
      BY <1>1, <2>1, <3>1, <3>2, <3>3 DEF PlaceInv, WalkInv
    <3>6. ListInv(a)'
      BY <1>1, <2>1, <2>3, <2>4, <3>1 DEF ListInv, Sound, Complete
    <3> QED BY <3>4, <3>5, <3>6 DEF AloneInv
  <2>7. CASE InitVdev(a)
    <3>1. pc[a] = "init" /\ pc'[a] = "idle" /\ op'[a] = NoRequest /\ ptr'[a] = 0
      BY <2>7, AdminFrame DEF InitVdev
    <3>2. /\ dev'[ptr[a]].node = "present" /\ dev'[ptr[a]].input = "registered"
          /\ dev'[ptr[a]].type \in loaded
      <4>1. dev' = [dev EXCEPT ![ptr[a]].input = "registered"]
        BY <2>7 DEF InitVdev
      <4>2. dev[ptr[a]].node = "present" /\ dev[ptr[a]].type \in loaded
        BY <3>1 DEF AloneInv, PlaceInv
      <4> QED BY <2>1, <2>2, <4>1, <4>2 DEF Devices
    <3>3. TypesInv(a)'
      BY <1>1, <1>3, <3>1 DEF AloneInv, TypesInv, Walking
    <3>4. PlaceInv(a)' /\ WalkInv(a)'
      BY <3>1 DEF PlaceInv, WalkInv
    <3>5. ListInv(a)'
      BY <1>1, <2>1, <2>3, <2>4, <3>2 DEF ListInv, Sound, Complete
    <3> QED BY <3>3, <3>4, <3>5 DEF AloneInv
  <2> QED BY <1>5, <2>5, <2>6, <2>7
<1> QED BY <1>4, <1>5

\* The administrator takes a device away, also one that it could not make.
LEMMA AloneTakesAway ==
    ASSUME TypeOK, NEW a \in Admins, AloneInv(a), TypeOK',
           \A b \in Admins : b # a => pc'[b] = "idle",
           \/ AllocInputFails(a) \/ RegisterFails(a) \/ InitVdevFails(a)
           \/ UnregisterInput(a) \/ UnregisterDevice(a)
    PROVE  AloneInv(a)'
<1>1. UNCHANGED <<up, loaded, devs, count>> /\ ptr[a] \in vdevs
  BY DEF AllocInputFails, RegisterFails, InitVdevFails, UnregisterInput,
     UnregisterDevice
<1>2. count \in Nat /\ vdevs \subseteq 1 .. count /\ 0 \notin vdevs
      /\ 1 .. count \subseteq Objs /\ ptr[a] \in Objs
  BY <1>1, MaxAllocsAssumption DEF TypeOK, Objs
<1>3. up
  BY <1>1 DEF AloneInv, TypesInv
<1>4. /\ dev \in [Objs -> Devices] /\ dev[ptr[a]] \in Devices
      /\ \A w \in Objs : w # ptr[a] => dev'[w] = dev[w]
  BY <1>2 DEF TypeOK, AllocInputFails, RegisterFails, InitVdevFails,
     UnregisterInput, UnregisterDevice
<1>5. \A v \in vdevs : v # ptr[a] => Sound(v) /\ dev'[v] = dev[v]
  BY <1>2, <1>4 DEF AloneInv, ListInv
<1>6. \A v \in Objs : v > count => dev'[v].node = "absent"
  <2>1. ASSUME NEW v \in Objs, v > count PROVE v # ptr[a]
    <3>1. ptr[a] \in 1 .. count
      BY <1>1, <1>2
    <3> QED BY <1>2, <2>1, <3>1
  <2> QED BY <1>4, <2>1 DEF AloneInv, ListInv
<1>7. CASE AllocInputFails(a) \/ RegisterFails(a) \/ InitVdevFails(a)
           \/ (UnregisterDevice(a) /\ op[a].id # -1)
  <2>1. vdevs' = vdevs \ {ptr[a]} /\ Done(a)
    BY <1>7 DEF AllocInputFails, RegisterFails, InitVdevFails, UnregisterDevice,
       Destroy
  <2>2. pc'[a] = "idle" /\ op'[a] = NoRequest /\ ptr'[a] = 0
    BY <2>1, AdminFrame
  <2>3. TypesInv(a)'
    BY <1>1, <1>3, <2>2 DEF AloneInv, TypesInv, Walking
  <2>4. PlaceInv(a)' /\ WalkInv(a)'
    BY <2>2 DEF PlaceInv, WalkInv
  <2>5. ListInv(a)'
    BY <1>1, <1>5, <1>6, <2>1 DEF ListInv, Sound, Complete
  <2> QED BY <2>3, <2>4, <2>5 DEF AloneInv
<1>8. CASE UnregisterInput(a)
  <2>1. pc[a] = "unreg_input" /\ pc'[a] = "unreg_dev" /\ op' = op /\ ptr' = ptr
        /\ vdevs' = vdevs
    BY <1>8, AdminFrame DEF UnregisterInput
  <2>2. /\ dev'[ptr[a]].node = "present" /\ dev'[ptr[a]].type \in loaded
        /\ dev'[ptr[a]].type = dev[ptr[a]].type
    <3>1. dev' = [dev EXCEPT ![ptr[a]].input = "gone"]
      BY <1>8 DEF UnregisterInput
    <3>2. dev[ptr[a]].node = "present" /\ dev[ptr[a]].type \in loaded
      BY <1>1, <2>1 DEF AloneInv, ListInv, Sound, Complete
    <3> QED BY <1>2, <1>4, <3>1, <3>2 DEF Devices
  <2>3. TypesInv(a)'
    BY <1>1, <1>3, <2>1 DEF AloneInv, TypesInv, Walking
  <2>4. PlaceInv(a)'
    BY <1>1, <2>1, <2>2 DEF PlaceInv
  <2>5. WalkInv(a)'
    BY <1>1, <1>5, <2>1, <2>2 DEF AloneInv, WalkInv
  <2>6. ListInv(a)'
    BY <1>1, <1>5, <1>6, <2>1 DEF ListInv, Sound, Complete
  <2> QED BY <2>3, <2>4, <2>5, <2>6 DEF AloneInv
<1>9. CASE UnregisterDevice(a) /\ op[a].id = -1
  <2>1. pc[a] = "unreg_dev" /\ pc'[a] = "walk" /\ op' = op /\ ptr'[a] = op[a].next
        /\ vdevs' = vdevs \ {ptr[a]}
    BY <1>9, AdminFrame DEF UnregisterDevice, Destroy
  <2>2. /\ op[a].next \in vdevs \union {0} /\ op[a].next # ptr[a]
        /\ \A v \in vdevs : dev[v].type = op[a].type => v = ptr[a] \/ v <= op[a].next
        /\ op[a].type \in loaded /\ op[a].type \notin devs
    BY <1>9, <2>1 DEF AloneInv, WalkInv, TypesInv, Walking
  <2>3. TypesInv(a)'
    BY <1>1, <1>3, <2>1, <2>2 DEF AloneInv, TypesInv, Walking
  <2>4. PlaceInv(a)'
    BY <2>1 DEF PlaceInv
  <2>5. WalkInv(a)'
    BY <1>1, <1>5, <2>1, <2>2 DEF WalkInv
  <2>6. ListInv(a)'
    BY <1>1, <1>5, <1>6, <2>1 DEF ListInv, Sound, Complete
  <2> QED BY <2>3, <2>4, <2>5, <2>6 DEF AloneInv
<1> QED BY <1>7, <1>8, <1>9

\* Every step keeps the invariant while the others stay idle.
LEMMA AloneStep ==
    ASSUME TypeOK, TypeOK', NEW a \in Admins, AloneInv(a), [Next]_vars,
           \A b \in Admins : b # a => pc'[b] = "idle"
    PROVE  AloneInv(a)'
<1>1. ASSUME NEW b \in Admins, AdminStep(b) PROVE AloneInv(a)'
  <2>1. b = a
    BY <1>1, OthersWait DEF AloneInv
  <2>2. ~Oops(a)
    <3>1. ~Dangling(a)
      BY AloneIsSafe DEF NoUndefinedBehaviour
    <3> QED BY <3>1 DEF Oops
  <2> QED BY <1>1, <2>1, <2>2, AloneBegins, AloneWalks, AloneMakes, AloneTakesAway
          DEF AdminStep
<1>2. CASE ~\E b \in Admins : AdminStep(b)
  BY <1>2, AloneDriver DEF Next
<1> QED BY <1>1, <1>2
=============================================================================
