--------------------------- MODULE DevicesProofs ---------------------------
(***************************************************************************)
(* Proofs about the character devices of MCDevices: chardev.c and          *)
(* static_key.c (Chardev), ioctl.c (Data, an instance of IoctlData), and,  *)
(* with the proofs about chardev2.c (Chardev2Proofs), about all of them as *)
(* the run checks them; for any number of processes, files and threads and *)
(* any size of buffers.                                                    *)
(***************************************************************************)
EXTENDS Chardev2Proofs, TLAPS

-----------------------------------------------------------------------------
(* chardev.c and static_key.c.                                             *)

\* At most one process has the device, from the compare-and-swap to the
\* release, and the flag is set meanwhile.
HolderInv ==
    \A p, q \in Procs :
        pc[p] \in {"tell", "open"} =>
            already_open = 1 /\ (pc[q] \in {"tell", "open"} => p = q)

\* Nobody is in the code of a module that is out, nor, when it names its
\* owner, of one that is going.
NobodyInside ==
    mod = "out" \/ (HasOwner /\ mod \in {"going", "destroyed"}) =>
        \A p \in Procs : pc[p] \notin InModule

\* What the holder was told, and has read, unless it read behind the message,
\* is in the buffer; and it is the state of the key, until the holder switches
\* it.
ToldInv ==
    \A p \in Procs : pc[p] = "open" =>
        /\ told[p] = msg
        /\ p \notin strayed => seen[p] \subseteq {msg}
        /\ offset[p] <= MsgLen(msg)
        /\ driver = "static_key" /\ p \notin switched => told[p] = fkey

\* Nothing is known of a file before its open is done.
FreshInv ==
    \A p \in Procs : pc[p] # "open" =>
        offset[p] = 0 /\ seen[p] = {} /\ p \notin switched /\ p \notin strayed

ChardevInv == HolderInv /\ NobodyInside /\ ToldInv /\ FreshInv

\* The counter of device_open wraps within its type.
LEMMA CounterWraps ==
    ASSUME NEW n \in Nat PROVE n % IntModulus \in Counts
BY IntModulusAssumption DEF Counts

\* The first states are typed.
LEMMA ChardevTypeInit == Init => TypeOK
BY IntModulusAssumption, DriversAssumption
   DEF Init, TypeOK, Counts, Messages, First, Locations

\* No step changes which of the two modules it is.
LEMMA DriverStays == [Next]_vars => driver' = driver
BY DEF Next, ModuleStep, ProcStep, vars, modVars, chardev_init, ClassCreate,
       ClassCreateError, FreeModule, DeviceCreate, Rmmod, DeviceDestroy,
       Unregister, Open, ChrdevOpen, device_open, TakeDevice, Busy,
       ComposeMessage, device_read, ReadEnd, ReadSome, Pread, device_write,
       device_release

\* Every step keeps the types.
LEMMA ChardevTypeStep == TypeOK /\ [Next]_vars => TypeOK'
<1> SUFFICES ASSUME TypeOK, [Next]_vars PROVE TypeOK'
  OBVIOUS
<1> USE DEF TypeOK, Goto, modVars, devVars, fileVars, InModule, Locations
<1>1. Messages' = Messages
  BY DriverStays DEF Messages
<1>2. ASSUME ModuleStep PROVE TypeOK'
  <2>1. First \in Messages /\ 0 \in Counts
    BY IntModulusAssumption DEF First, Messages, Counts
  <2> QED BY <1>1, <1>2, <2>1
          DEF ModuleStep, chardev_init, ClassCreate, ClassCreateError,
              FreeModule, Forget, DeviceCreate, Rmmod, DeviceDestroy, Unregister
<1>3. ASSUME NEW p \in Procs, Open(p) \/ ChrdevOpen(p) \/ TakeDevice(p)
                              \/ Busy(p) \/ device_release(p)
      PROVE  TypeOK'
  <2>1. First \in Messages
    BY IntModulusAssumption DEF First, Messages, Counts
  <2> QED BY <1>1, <1>3, <2>1
          DEF Open, ChrdevOpen, TakeDevice, Busy, device_release, Forget
<1>4. ASSUME NEW p \in Procs, ComposeMessage(p) PROVE TypeOK'
  <2>1. counter \in Nat /\ (counter + 1) % IntModulus \in Counts
    BY CounterWraps DEF Counts
  <2>2. NewMessage \in Messages
    BY DEF NewMessage, Messages
  <2> QED BY <1>1, <1>4, <2>1, <2>2 DEF ComposeMessage
<1>5. ASSUME NEW p \in Procs, NEW length \in Lengths, device_read(p, length)
      PROVE  TypeOK'
  <2>1. MsgLen(msg) \in Nat /\ length \in Nat
    BY LengthsAssumption DEF MsgLen
  <2>2. offset' \in [Procs -> Nat]
    BY <1>5, <2>1 DEF device_read, ReadEnd, ReadSome
  <2>3. seen' \in [Procs -> SUBSET Messages]
    BY <1>5 DEF device_read, ReadEnd, ReadSome
  <2> QED BY <1>1, <1>5, <2>2, <2>3 DEF device_read, ReadEnd, ReadSome
<1>6. ASSUME NEW p \in Procs, NEW command \in Commands,
             device_write(p, command)
      PROVE  TypeOK'
  BY <1>1, <1>6 DEF device_write, Effects
<1>7. ASSUME NEW p \in Procs, NEW pos \in Positions, Pread(p, pos)
      PROVE  TypeOK'
  <2>1. seen' \in [Procs -> SUBSET Messages] /\ strayed' \subseteq Procs
    BY <1>7 DEF Pread
  <2> QED BY <1>1, <1>7, <2>1 DEF Pread
<1>8. CASE UNCHANGED vars
  BY <1>1, <1>8 DEF vars
<1> QED
  BY <1>2, <1>3, <1>4, <1>5, <1>6, <1>7, <1>8 DEF Next, ProcStep, device_open

\* chardev.c and static_key.c stay within their types, for any number of
\* processes and any value at which the counter wraps.
THEOREM ChardevTypeCorrect == SafeSpec => []TypeOK
BY ChardevTypeInit, ChardevTypeStep, PTL DEF SafeSpec

\* Every step keeps the invariant of the holder.
LEMMA ChardevStep == TypeOK /\ ChardevInv /\ [Next]_vars => ChardevInv'
<1> SUFFICES ASSUME TypeOK, ChardevInv, [Next]_vars PROVE ChardevInv'
  OBVIOUS
<1> USE DEF TypeOK, Goto, modVars, devVars, fileVars, InModule, Locations,
            ChardevInv, HolderInv, NobodyInside, ToldInv, FreshInv, HasOwner
<1>1. driver' = driver
  BY DriverStays
<1>2. \A m : MsgLen(m)' = MsgLen(m)
  BY <1>1 DEF MsgLen
<1>3. CASE chardev_init
  BY <1>1, <1>3 DEF chardev_init
<1>4. CASE ClassCreateError \/ Unregister
  <2>1. \A p \in Procs : pc'[p] \notin InModule
    BY <1>4 DEF ClassCreateError, Unregister, FreeModule
  <2>2. FreshInv'
    BY <1>4 DEF ClassCreateError, Unregister, FreeModule, Forget
  <2> QED BY <2>1, <2>2
<1>5. CASE ClassCreate \/ DeviceCreate \/ Rmmod \/ DeviceDestroy
  <2>1. UNCHANGED <<devVars, pc, fileVars>>
    BY <1>5 DEF ClassCreate, DeviceCreate, Rmmod, DeviceDestroy
  <2>2. NobodyInside'
    BY <1>1, <1>5, <2>1 DEF ClassCreate, DeviceCreate, Rmmod, DeviceDestroy, RefCount
  <2>3. ToldInv'
    BY <1>1, <1>2, <2>1
  <2> QED BY <2>1, <2>2, <2>3
<1>6. ASSUME NEW p \in Procs, Open(p) \/ ChrdevOpen(p) \/ Busy(p)
      PROVE  ChardevInv'
  <2>1. \A q \in Procs : pc'[q] \in {"tell", "open"} => pc'[q] = pc[q]
    BY <1>6 DEF Open, ChrdevOpen, Busy
  <2>2. UNCHANGED <<devVars, fileVars, mod>>
    BY <1>6 DEF Open, ChrdevOpen, Busy
  <2>3. NobodyInside'
    BY <1>1, <1>6 DEF Open, ChrdevOpen, Busy, Registered
  <2>4. \A q \in Procs : pc'[q] # "open" => pc[q] # "open"
    BY <1>6 DEF Open, ChrdevOpen, Busy
  <2> QED BY <1>1, <1>2, <2>1, <2>2, <2>3, <2>4
<1>7. ASSUME NEW p \in Procs, TakeDevice(p) PROVE ChardevInv'
  BY <1>1, <1>2, <1>7 DEF TakeDevice
<1>8. ASSUME NEW p \in Procs, ComposeMessage(p) PROVE ChardevInv'
  <2>1. \A q \in Procs : q # p => pc'[q] \notin {"tell", "open"}
    BY <1>8 DEF ComposeMessage
  <2>2. MsgLen(msg') \in Nat
    BY DEF MsgLen
  <2>3. ToldInv'
    BY <1>1, <1>2, <1>8, <2>1, <2>2 DEF ComposeMessage, NewMessage
  <2> QED BY <1>1, <1>8, <2>3 DEF ComposeMessage
<1>9. ASSUME NEW p \in Procs, NEW length \in Lengths, device_read(p, length)
      PROVE  ChardevInv'
  <2>1. MsgLen(msg) \in Nat /\ length \in Nat
    BY LengthsAssumption DEF MsgLen
  <2>2. offset'[p] <= MsgLen(msg)
    BY <1>9, <2>1 DEF device_read, ReadEnd, ReadSome
  <2>3. p \notin strayed => seen'[p] \subseteq {msg}
    BY <1>9 DEF device_read, ReadEnd, ReadSome
  <2>4. \A q \in Procs : q # p => offset'[q] = offset[q] /\ seen'[q] = seen[q]
    BY <1>9 DEF device_read, ReadEnd, ReadSome
  <2>5. /\ UNCHANGED <<modVars, devVars, pc, told, switched, strayed>>
        /\ pc[p] = "open"
    BY <1>9 DEF device_read, ReadEnd, ReadSome
  <2> QED BY <1>1, <1>2, <2>2, <2>3, <2>4, <2>5
<1>10. ASSUME NEW p \in Procs, NEW command \in Commands,
              device_write(p, command)
       PROVE  ChardevInv'
  <2>1. \A q \in Procs : pc[q] = "open" => q = p
    BY <1>10 DEF device_write
  <2>2. p \in switched'
    BY <1>10 DEF device_write
  <2>3. UNCHANGED <<modVars, already_open, msg, pc, offset, told, seen, strayed>>
    BY <1>10 DEF device_write
  <2>4. \A q \in Procs : pc[q] # "open" => q \notin switched'
    BY <1>10 DEF device_write
  <2> QED BY <1>1, <1>2, <2>1, <2>2, <2>3, <2>4
<1>11. ASSUME NEW p \in Procs, device_release(p) PROVE ChardevInv'
  <2>1. \A q \in Procs : pc'[q] \notin {"tell", "open"}
    BY <1>11 DEF device_release
  <2>2. FreshInv'
    BY <1>11 DEF device_release, Forget
  <2>3. NobodyInside'
    BY <1>1, <1>11 DEF device_release
  <2> QED BY <2>1, <2>2, <2>3
<1>12. ASSUME NEW p \in Procs, NEW pos \in Positions, Pread(p, pos)
       PROVE  ChardevInv'
  <2>1. /\ UNCHANGED <<modVars, devVars, pc, offset, told, switched>>
        /\ pc[p] = "open"
    BY <1>12 DEF Pread
  <2>2. p \notin strayed' => seen'[p] \subseteq {msg}
    BY <1>12 DEF Pread
  <2>3. \A q \in Procs : q # p => /\ seen'[q] = seen[q]
                                  /\ q \in strayed' <=> q \in strayed
    BY <1>12 DEF Pread
  <2> QED BY <1>1, <1>2, <2>1, <2>2, <2>3
<1>13. CASE UNCHANGED vars
  BY <1>1, <1>2, <1>13 DEF vars
<1> QED
  BY <1>3, <1>4, <1>5, <1>6, <1>7, <1>8, <1>9, <1>10, <1>11, <1>12, <1>13
  DEF Next, ModuleStep, ProcStep, device_open

\* The invariant of the holder holds in every state.
LEMMA ChardevCorrect == SafeSpec => [](TypeOK /\ ChardevInv)
<1>1. Init => ChardevInv
  BY DEF Init, ChardevInv, HolderInv, NobodyInside, ToldInv, FreshInv, InModule
<1> QED BY <1>1, ChardevTypeInit, ChardevTypeStep, ChardevStep, PTL DEF SafeSpec

\* The state a holder of static_key.c is told is the state of the key, until
\* the holder itself writes a command, for any number of processes that try
\* to open the device meanwhile.
THEOREM KeyStateIsCurrentHolds == SafeSpec => []KeyStateIsCurrent
<1>1. ChardevInv => KeyStateIsCurrent
  BY DEF ChardevInv, ToldInv, KeyStateIsCurrent
<1> QED BY <1>1, ChardevCorrect, PTL

\* A driver that names its owner is never taken away from under a process
\* that has the device open or is opening it.
THEOREM OwnerKeepsModuleHolds == SafeSpec => []OwnerKeepsModule
<1>1. ChardevInv => OwnerKeepsModule
  BY DEF ChardevInv, NobodyInside, OwnerKeepsModule, NoUserWhileGoing
<1> QED BY <1>1, ChardevCorrect, PTL

\* The device of chardev.c, and that of static_key.c, is a file that one
\* process at a time may open, and that may vanish under all of its users:
\* every step is one of ExclusiveOpen, or changes nobody's standing.  A
\* removal of chardev.c and a failing class_create of either driver are the
\* steps in which it vanishes.
THEOREM ChardevImplementsExclusiveOpenSafely == SafeSpec => Abstract!SafeSpec
<1> DEFINE stand == [p \in Procs |-> standing(p)]
<1>1. Init => Abstract!Init
  BY DEF Init, Abstract!Init, standing
<1>2. TypeOK /\ ChardevInv /\ [Next]_vars => [Abstract!Next]_stand
  <2> SUFFICES ASSUME TypeOK, ChardevInv, [Next]_vars
               PROVE  Abstract!Next \/ stand' = stand
    OBVIOUS
  <2> USE DEF TypeOK, Goto, InModule, Locations, standing
  <2>1. ASSUME ModuleStep PROVE Abstract!Next \/ stand' = stand
    <3>1. CASE ClassCreateError \/ Unregister
      <4>1. pc' = [p \in Procs |-> IF pc[p] \in InModule THEN "stale" ELSE pc[p]]
        BY <3>1 DEF ClassCreateError, Unregister, FreeModule
      <4>2. stand' = [p \in Procs |-> IF stand[p] \in {"trying", "in"}
                                      THEN "revoked" ELSE stand[p]]
        BY <4>1
      <4>3. Abstract!Lose
        BY <4>2 DEF Abstract!Lose
      <4> QED BY <4>3 DEF Abstract!Next
    <3>2. CASE pc' = pc
      BY <3>2
    <3> QED BY <2>1, <3>1, <3>2
            DEF ModuleStep, chardev_init, ClassCreate, DeviceCreate, Rmmod,
                DeviceDestroy
  <2>2. ASSUME NEW p \in Procs, ProcStep(p)
        PROVE  Abstract!Next \/ stand' = stand
    <3> USE DEF Abstract!Move
    <3>1. CASE Open(p)
      BY <3>1 DEF Open
    <3>2. CASE ChrdevOpen(p)
      <4>1. Abstract!Try(p) \/ stand' = stand
        BY <3>2 DEF ChrdevOpen, Abstract!Try
      <4> QED BY <4>1 DEF Abstract!Next
    <3>3. CASE TakeDevice(p)
      <4>1. \A q \in Procs : pc[q] \notin {"tell", "open"}
        BY <3>3 DEF TakeDevice, ChardevInv, HolderInv
      <4>2. Abstract!Grant(p)
        BY <3>3, <4>1 DEF TakeDevice, Abstract!Grant
      <4> QED BY <4>2 DEF Abstract!Next
    <3>4. CASE Busy(p)
      <4>1. Abstract!Deny(p)
        BY <3>4 DEF Busy, Abstract!Deny
      <4> QED BY <4>1 DEF Abstract!Next
    <3>5. CASE ComposeMessage(p)
      BY <3>5 DEF ComposeMessage
    <3>6. CASE device_release(p)
      <4>1. Abstract!Release(p)
        BY <3>6 DEF device_release, Abstract!Release
      <4> QED BY <4>1 DEF Abstract!Next
    <3>7. CASE pc' = pc
      BY <3>7
    <3> QED BY <2>2, <3>1, <3>2, <3>3, <3>4, <3>5, <3>6, <3>7
            DEF ProcStep, device_open, device_read, ReadEnd, ReadSome, Pread,
                device_write
  <2>3. CASE UNCHANGED vars
    BY <2>3 DEF vars
  <2> QED BY <2>1, <2>2, <2>3 DEF Next
<1> QED BY <1>1, <1>2, ChardevCorrect, PTL DEF SafeSpec, Abstract!SafeSpec

-----------------------------------------------------------------------------
(* ioctl.c.                                                                *)

\* Files are open only while the cdev is there.
DataInv ==
    /\ Data!TypeOK
    /\ Data!FilesKeepApart
    /\ state # "in" => Data!OpenFiles = {}

\* What is stored in the unsigned char is one of its values.
LEMMA CharWraps ==
    ASSUME NEW n \in Nat PROVE n % CharModulus \in Data!CharValues
BY CharModulusAssumption DEF Data!CharValues

\* The first states satisfy the invariant.
LEMMA DataInit == Data!Init => DataInv
BY CharModulusAssumption
   DEF Data!Init, DataInv, Data!TypeOK, Data!FilesKeepApart, Data!OpenFiles,
       Data!CharValues, Data!Default, Data!None, Data!NoFile

\* Every step keeps the invariant.
LEMMA DataStep == DataInv /\ [Data!Next]_Data!vars => DataInv'
<1> SUFFICES ASSUME DataInv, [Data!Next]_Data!vars PROVE DataInv'
  OBVIOUS
<1> USE NamesAssumption
    DEF DataInv, Data!TypeOK, Data!FilesKeepApart, Data!OpenFiles, Data!None,
        Data!NoFile, Data!devVars, Data!callVars
<1>1. CASE Data!ioctl_init \/ Data!CdevAdd \/ Data!CdevAddFails \/ Data!ioctl_exit
  BY <1>1 DEF Data!ioctl_init, Data!CdevAdd, Data!CdevAddFails, Data!ioctl_exit
<1>2. ASSUME NEW f \in Files, Data!test_ioctl_open(f) PROVE DataInv'
  <2>1. PICK b \in Blocks \ heap :
          /\ heap' = heap \union {b}
          /\ private' = [private EXCEPT ![f] = b]
          /\ val' = [val EXCEPT ![b] = Data!Default]
    BY <1>2 DEF Data!test_ioctl_open
  <2>2. Data!Default \in Data!CharValues
    BY CharModulusAssumption DEF Data!Default, Data!CharValues
  <2>3. Data!TypeOK'
    BY <1>2, <2>1, <2>2 DEF Data!test_ioctl_open
  <2>4. Data!OpenFiles' = Data!OpenFiles \union {f} /\ f \notin Data!OpenFiles
    BY <1>2, <2>1 DEF Data!test_ioctl_open
  <2>5. \A g \in Data!OpenFiles : private'[g] = private[g] /\ private[g] \in heap
    BY <2>1, <2>4
  <2>6. private'[f] = b
    BY <2>1
  <2> QED BY <1>2, <2>1, <2>2, <2>3, <2>4, <2>5, <2>6 DEF Data!test_ioctl_open
<1>3. ASSUME NEW f \in Files, Data!test_ioctl_close(f) PROVE DataInv'
  BY <1>3 DEF Data!test_ioctl_close
<1>4. ASSUME NEW t \in Threads, Data!Store(t) PROVE DataInv'
  <2>1. /\ filp[t] \in Data!OpenFiles
        /\ private[filp[t]] \in Blocks
    BY <1>4 DEF Data!Store
  <2>2. data[t] % CharModulus \in Data!CharValues
    BY CharWraps, ArgsAssumption DEF Data!CharValues
  <2>3. 0 \in Data!CharValues
    BY CharModulusAssumption DEF Data!CharValues
  <2> QED BY <1>4, <2>1, <2>2, <2>3 DEF Data!Store, Data!Return
<1>5. ASSUME NEW t \in Threads, Data!Load(t) PROVE DataInv'
  <2>1. /\ filp[t] \in Data!OpenFiles
        /\ private[filp[t]] \in Blocks
    BY <1>5 DEF Data!Load
  <2> QED BY <1>5, <2>1 DEF Data!Load
<1>6. ASSUME NEW t \in Threads, Data!Reply(t) PROVE DataInv'
  <2>1. 0 \in Data!CharValues
    BY CharModulusAssumption DEF Data!CharValues
  <2> QED BY <1>6, <2>1 DEF Data!Reply, Data!Return
<1>7. ASSUME NEW t \in Threads, NEW f \in Files, NEW arg \in Args,
             Data!ValSet(t, f, arg) \/ Data!ValSetNum(t, f, arg)
      PROVE  DataInv'
  BY <1>7 DEF Data!ValSet, Data!ValSetNum, Data!Enter
<1>8. ASSUME NEW t \in Threads, NEW f \in Files,
             Data!ValGet(t, f) \/ Data!ValGetNum(t, f)
      PROVE  DataInv'
  <2>1. 0 \in Data!CharValues
    BY CharModulusAssumption DEF Data!CharValues
  <2> QED BY <1>8, <2>1 DEF Data!ValGet, Data!ValGetNum, Data!Enter
<1>9. CASE UNCHANGED Data!vars
  BY <1>9 DEF Data!vars
<1> QED BY <1>1, <1>2, <1>3, <1>4, <1>5, <1>6, <1>7, <1>8, <1>9 DEF Data!Next

\* Every open file of ioctl.c has memory of its own, allocated as long as a
\* call can use it, that holds what was last set through that file, for any
\* number of files and threads.
THEOREM FilesKeepApartHolds == Data!Spec => []Data!FilesKeepApart
<1>1. DataInv => Data!FilesKeepApart
  BY DEF DataInv
<1> QED BY <1>1, DataInit, DataStep, PTL DEF Data!Spec

-----------------------------------------------------------------------------
(* The devices as the run devices checks them.                             *)

DevicesInv ==
    TypeOK /\ ChardevInv /\ LoopInv /\ IoctlInv /\ DataInv

\* A step is one of a single device; the others stand still.
LEMMA DeviceSteps ==
    [MCNext]_<<device, vars, ioctlVars, dataVars>> =>
        [Next]_vars /\ [Ioctl!Next]_Ioctl!vars /\ [Data!Next]_Data!vars
<1> SUFFICES ASSUME [MCNext]_<<device, vars, ioctlVars, dataVars>>
             PROVE  [Next]_vars /\ [Ioctl!Next]_Ioctl!vars /\ [Data!Next]_Data!vars
  OBVIOUS
<1>1. UNCHANGED ioctlVars => UNCHANGED Ioctl!vars
  BY DEF ioctlVars, Ioctl!vars, Ioctl!devVars, Ioctl!procVars
<1>2. UNCHANGED dataVars => UNCHANGED Data!vars
  BY DEF dataVars, Data!vars, Data!devVars, Data!callVars
<1> QED BY <1>1, <1>2 DEF MCNext

\* All invariants hold in every state of the composition.
LEMMA DevicesCorrect == MCSpec => []DevicesInv
<1>1. MCInit => DevicesInv
  <2>1. Init => ChardevInv
    BY DEF Init, ChardevInv, HolderInv, NobodyInside, ToldInv, FreshInv, InModule
  <2> QED BY <2>1, ChardevTypeInit, LoopInit, IoctlInit, DataInit
          DEF MCInit, DevicesInv
<1>2. DevicesInv /\ [MCNext]_<<device, vars, ioctlVars, dataVars>> => DevicesInv'
  BY DeviceSteps, ChardevTypeStep, ChardevStep, LoopStep, IoctlStep, DataStep
  DEF DevicesInv
<1> QED BY <1>1, <1>2, PTL DEF MCSpec

\* All devices stay within their types.
THEOREM DevicesTypeCorrect == MCSpec => []DevicesTypeOK
<1>1. DevicesInv => DevicesTypeOK
  BY DEF DevicesInv, DevicesTypeOK, LoopInv, DataInv
<1> QED BY <1>1, DevicesCorrect, PTL

\* What a holder of chardev.c or static_key.c reads is one message, unless it
\* passes pread(2) a position behind the message, and no loop over the message
\* of chardev2.c that begins in its buffer leaves it.
THEOREM CopiesAreWholeHolds == MCSpec => []CopiesAreWhole
<1>1. DevicesInv => CopiesAreWhole
  BY DEF DevicesInv, CopiesAreWhole, ChardevInv, ToldInv, ReadsAreWhole, LoopInv
<1> QED BY <1>1, DevicesCorrect, PTL

\* An ioctl gets what an ioctl has set: chardev2.c the last message, ioctl.c
\* the last value of the same file.
THEOREM DevicesReturnLastSet == MCSpec => []IoctlsReturnLastSet
<1>1. DevicesInv => IoctlsReturnLastSet
  BY IoctlInvIsEnough DEF DevicesInv, IoctlsReturnLastSet, DataInv
<1> QED BY <1>1, DevicesCorrect, PTL
=============================================================================
