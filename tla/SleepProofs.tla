---------------------------- MODULE SleepProofs ----------------------------
(***************************************************************************)
(* Proofs about Sleep, for every set of processes and every choice of the  *)
(* lengths: type correctness, the safety of the open/wait/close protocol,  *)
(* the bounds of the buffers, end of file, and that the protocol           *)
(* implements ExclusiveOpen (its safety part).                             *)
(***************************************************************************)
EXTENDS Sleep, TLAPS

ProcActions(p) ==
    \/ Open(p) \/ TryOnce(p) \/ TryOnceFails(p) \/ TryAgain(p)
    \/ TryAgainFails(p) \/ TestCondition(p) \/ PrepareToWait(p)
    \/ CheckCondition(p) \/ Scheduled(p) \/ TestSignal(p)
    \/ close_free(p) \/ close_wake(p) \/ CloseStale(p) \/ ReleaseLeftOpen(p)

ModActions ==
    sleep_init \/ sleep_exit \/ RundownDone \/ ReleaseWakes \/ ExitDone

\* Next, flattened to one quantifier per actor.
LEMMA NextCases ==
    Next => \/ \E p \in Procs : ProcActions(p)
            \/ \E p \in Procs, len \in BufferLengths : module_output(p, len)
            \/ \E p \in Procs, length \in InputLengths : module_input(p, length)
            \/ \E p \in Procs, kind \in SignalKinds : Signal(p, kind)
            \/ ModActions
BY Zenon DEF Next, ProcStep, RemovalStep, module_open, ProcActions, ModActions

-----------------------------------------------------------------------------
(* Type correctness.                                                       *)

\* The smaller of two lengths is a length, and is bounded by both.
LEMMA LeastFact ==
    ASSUME NEW m \in Nat, NEW n \in Nat
    PROVE  Least(m, n) \in Nat /\ Least(m, n) <= m /\ Least(m, n) <= n
BY DEF Least

\* The state of sleep.c stays within its types: already_open is 0 or 1, and
\* every process and the module are at one of the listed places.
THEOREM TypeCorrect == SafeSpec => []TypeOK
<1>1. Init => TypeOK
  <2> SUFFICES ASSUME Init PROVE TypeOK
    OBVIOUS
  <2>1. finished \in BOOLEAN
    BY Zenon DEF Init
  <2>2. replies \in [Procs -> Seq(Nat)]
    BY DEF Init
  <2> QED BY <2>1, <2>2 DEF Init, TypeOK, Locations, ModStates
<1>2. TypeOK /\ [Next]_vars => TypeOK'
  <2> SUFFICES ASSUME TypeOK, [Next]_vars PROVE TypeOK'
    OBVIOUS
  <2> USE DEF TypeOK, Locations, InOpen, ModStates, SignalKinds,
              ioVars, waitVars, Goto, Return
  <2>1. ASSUME NEW p \in Procs, ProcActions(p) PROVE TypeOK'
    <3>1. CASE Open(p) BY <3>1 DEF Open
    <3>2. CASE TryOnce(p) BY <3>2 DEF TryOnce, Acquire
    <3>3. CASE TryOnceFails(p) BY <3>3 DEF TryOnceFails
    <3>4. CASE TryAgain(p) BY <3>4 DEF TryAgain, Acquire
    <3>5. CASE TryAgainFails(p) BY <3>5 DEF TryAgainFails
    <3>6. CASE TestCondition(p) BY <3>6 DEF TestCondition
    <3>7. CASE PrepareToWait(p) BY <3>7 DEF PrepareToWait
    <3>8. CASE CheckCondition(p) BY <3>8 DEF CheckCondition
    <3>9. CASE Scheduled(p) BY <3>9 DEF Scheduled
    <3>10. CASE TestSignal(p) BY <3>10 DEF TestSignal
    <3>11. CASE close_free(p) BY <3>11 DEF close_free
    <3>12. CASE close_wake(p) BY <3>12 DEF close_wake, wake_up
    <3>13. CASE CloseStale(p) BY <3>13 DEF CloseStale
    <3>14. CASE ReleaseLeftOpen(p) BY <3>14 DEF ReleaseLeftOpen
    <3> QED BY <2>1, <3>1, <3>2, <3>3, <3>4, <3>5, <3>6, <3>7, <3>8, <3>9,
               <3>10, <3>11, <3>12, <3>13, <3>14 DEF ProcActions
  <2>2. ASSUME NEW p \in Procs, NEW len \in BufferLengths,
               module_output(p, len)
        PROVE  TypeOK'
    <3> DEFINE n == IF finished THEN 0 ELSE Least(len, DECORATION + message)
    <3>1. n \in Nat
      <4>1. len \in Nat /\ DECORATION + message \in Nat
        BY BufferLengthsAssumption DEF DECORATION
      <4>2. Least(len, DECORATION + message) \in Nat
        BY <4>1, LeastFact, Zenon
      <4> QED BY <4>2, Zenon
    <3>2. replies' = [replies EXCEPT ![p] = Append(@, n)]
      BY <2>2 DEF module_output
    <3>3. replies' \in [Procs -> Seq(Nat)]
      BY <3>1, <3>2
    <3> QED BY <2>2, <3>3 DEF module_output
  <2>3. ASSUME NEW p \in Procs, NEW length \in InputLengths,
               module_input(p, length)
        PROVE  TypeOK'
    <3>1. message' \in Nat
      BY <2>3, InputLengthsAssumption, MessageLengthAssumption, LeastFact
         DEF module_input
    <3> QED BY <2>3, <3>1 DEF module_input
  <2>4. ASSUME NEW p \in Procs, NEW kind \in SignalKinds, Signal(p, kind)
        PROVE  TypeOK'
    BY <2>4 DEF Signal
  <2>5. ASSUME ModActions PROVE TypeOK'
    <3>1. finished' \in BOOLEAN
      BY <2>5, Zenon DEF ModActions, sleep_init, sleep_exit, RundownDone,
                         ReleaseWakes, ExitDone
    <3> QED BY <2>5, <3>1 DEF ModActions, sleep_init, sleep_exit,
                              RundownDone, ReleaseWakes, ExitDone, wake_up
  <2>6. CASE UNCHANGED vars BY <2>6 DEF vars
  <2> QED BY <2>1, <2>2, <2>3, <2>4, <2>5, <2>6, NextCases
<1> QED BY <1>1, <1>2, PTL DEF SafeSpec

-----------------------------------------------------------------------------
(* The protocol.  MutualExclusion needs the flag to tell the truth          *)
(* (FlagIffHeld); that needs the removal of the module to wait for the      *)
(* processes inside (ExitWaits), or a new insertion would reset the flag    *)
(* under them; NoLostWakeup needs sleepers to be queued.                    *)

\* No process is in module_open once the rundown is over, and none is in
\* the module at all once it is out.
ExitWaits ==
    \A p \in Procs :
        /\ mod \in {"closing", "wake", "out"} => pc[p] \notin InOpen
        /\ mod = "out" => pc[p] \notin {"open", "wake"}

ProtocolInv ==
    /\ MutualExclusion
    /\ FlagIffHeld
    /\ NoLostWakeup
    /\ SleepersCanBeWoken
    /\ ExitWaits

\* A step inside module_open that does not get the file, and stays inside or
\* returns, changes nothing that the flag, the holder or the removal tell.
LEMMA InsideStep ==
    ASSUME TypeOK, ProtocolInv, NEW p \in Procs, NEW loc \in InOpen \union {"idle"},
           pc[p] \in InOpen, pc' = [pc EXCEPT ![p] = loc],
           already_open' = already_open, mod' = mod
    PROVE  /\ MutualExclusion' /\ FlagIffHeld' /\ ExitWaits'
           /\ pc'[p] = loc /\ \A q \in Procs \ {p} : pc'[q] = pc[q]
           /\ (\E q \in Procs : pc[q] = "wake") => \E q \in Procs : pc'[q] = "wake"
<1>1. pc'[p] = loc /\ \A q \in Procs \ {p} : pc'[q] = pc[q]
  BY DEF TypeOK
<1>2. \A q \in Procs : /\ pc'[q] = "open" <=> pc[q] = "open"
                       /\ pc'[q] = "wake" <=> pc[q] = "wake"
  BY <1>1 DEF InOpen
<1>3. MutualExclusion'
  BY <1>2 DEF ProtocolInv, MutualExclusion
<1>4. FlagIffHeld'
  BY <1>2 DEF ProtocolInv, FlagIffHeld
<1>5. ExitWaits'
  BY <1>1, <1>2 DEF ProtocolInv, ExitWaits
<1> QED BY <1>1, <1>2, <1>3, <1>4, <1>5

\* The protocol of module_open, module_close and sleep_exit is safe for any
\* number of processes: the invariants above hold together in every state.
LEMMA ProtocolStep ==
    TypeOK /\ ProtocolInv /\ [Next]_vars => ProtocolInv'
<1> SUFFICES ASSUME TypeOK, ProtocolInv, [Next]_vars PROVE ProtocolInv'
  OBVIOUS
<1> USE DEF TypeOK, ProtocolInv, MutualExclusion, FlagIffHeld, NoLostWakeup,
            SleepersCanBeWoken, ExitWaits, Locations, InOpen, ModStates,
            SignalKinds, ioVars, waitVars, Goto, Return
<1>1. ASSUME NEW p \in Procs, ProcActions(p) PROVE ProtocolInv'
  <2>1. CASE Open(p) BY <2>1 DEF Open
  <2>2. CASE TryOnce(p) BY <2>2 DEF TryOnce, Acquire
  <2>3. CASE TryOnceFails(p)
    <3>1. PICK loc \in {"idle", "retry"} : pc' = [pc EXCEPT ![p] = loc]
      BY <2>3 DEF TryOnceFails
    <3>2. /\ MutualExclusion' /\ FlagIffHeld' /\ ExitWaits' /\ pc'[p] = loc
          /\ \A q \in Procs \ {p} : pc'[q] = pc[q]
          /\ (\E q \in Procs : pc[q] = "wake") => \E q \in Procs : pc'[q] = "wake"
      BY <2>3, <3>1, InsideStep DEF TryOnceFails
    <3>3. NoLostWakeup'
      BY <2>3, <3>1, <3>2 DEF TryOnceFails
    <3>4. SleepersCanBeWoken'
      BY <2>3 DEF TryOnceFails
    <3> QED BY <3>2, <3>3, <3>4
  <2>4. CASE TryAgain(p) BY <2>4 DEF TryAgain, Acquire
  <2>5. CASE TryAgainFails(p) BY <2>5 DEF TryAgainFails
  <2>6. CASE TestCondition(p) BY <2>6 DEF TestCondition
  <2>7. CASE PrepareToWait(p)
    <3>1. PICK loc \in {"check", "sig"} : pc' = [pc EXCEPT ![p] = loc]
      BY <2>7 DEF PrepareToWait
    <3>2. /\ MutualExclusion' /\ FlagIffHeld' /\ ExitWaits' /\ pc'[p] = loc
          /\ \A q \in Procs \ {p} : pc'[q] = pc[q]
          /\ (\E q \in Procs : pc[q] = "wake") => \E q \in Procs : pc'[q] = "wake"
      BY <2>7, <3>1, InsideStep DEF PrepareToWait
    <3>3. \A q \in Procs \ {p} : q \in sleepy' => q \in sleepy
      BY <2>7 DEF PrepareToWait
    <3>4. NoLostWakeup'
      BY <2>7, <3>1, <3>2, <3>3 DEF PrepareToWait
    <3>5. pending' = pending
      BY <2>7 DEF PrepareToWait
    <3>6. SleepersCanBeWoken'
      <4>1. CASE pending[p] = {}
        BY <2>7, <3>5, <4>1 DEF PrepareToWait
      <4>2. CASE pending[p] # {}
        <5>1. p \notin sleepy BY <4>2
        <5> QED BY <2>7, <3>5, <4>2, <5>1 DEF PrepareToWait
      <4> QED BY <4>1, <4>2
    <3> QED BY <3>2, <3>4, <3>6
  <2>8. CASE CheckCondition(p)
    <3>1. PICK loc \in {"sched", "sig"} : pc' = [pc EXCEPT ![p] = loc]
      BY <2>8 DEF CheckCondition
    <3>2. /\ MutualExclusion' /\ FlagIffHeld' /\ ExitWaits' /\ pc'[p] = loc
          /\ \A q \in Procs \ {p} : pc'[q] = pc[q]
          /\ (\E q \in Procs : pc[q] = "wake") => \E q \in Procs : pc'[q] = "wake"
      BY <2>8, <3>1, InsideStep DEF CheckCondition
    <3>3. /\ sleepy' \subseteq sleepy /\ pending' = pending
          /\ \A q \in Procs \ {p} : q \in waitq => q \in waitq'
          /\ p \in sleepy' => p \in waitq' /\ already_open' = 1
      BY <2>8 DEF CheckCondition
    <3>4. NoLostWakeup'
      BY <2>8, <3>1, <3>2, <3>3 DEF CheckCondition
    <3>5. SleepersCanBeWoken'
      BY <3>3
    <3> QED BY <3>2, <3>4, <3>5
  <2>9. CASE Scheduled(p) BY <2>9 DEF Scheduled
  <2>10. CASE TestSignal(p)
    <3>1. PICK loc \in {"idle", "retry"} : pc' = [pc EXCEPT ![p] = loc]
      BY <2>10 DEF TestSignal
    <3>2. /\ MutualExclusion' /\ FlagIffHeld' /\ ExitWaits' /\ pc'[p] = loc
          /\ \A q \in Procs \ {p} : pc'[q] = pc[q]
          /\ (\E q \in Procs : pc[q] = "wake") => \E q \in Procs : pc'[q] = "wake"
      BY <2>10, <3>1, InsideStep DEF TestSignal
    <3>3. NoLostWakeup'
      BY <2>10, <3>1, <3>2 DEF TestSignal
    <3>4. SleepersCanBeWoken'
      BY <2>10 DEF TestSignal
    <3> QED BY <3>2, <3>3, <3>4
  <2>11. CASE close_free(p) BY <2>11 DEF close_free
  <2>12. CASE close_wake(p) BY <2>12 DEF close_wake, wake_up
  <2>13. CASE CloseStale(p) BY <2>13 DEF CloseStale
  <2>14. CASE ReleaseLeftOpen(p) BY <2>14 DEF ReleaseLeftOpen
  <2> QED BY <1>1, <2>1, <2>2, <2>3, <2>4, <2>5, <2>6, <2>7, <2>8, <2>9,
             <2>10, <2>11, <2>12, <2>13, <2>14 DEF ProcActions
<1>2. ASSUME NEW p \in Procs, NEW len \in BufferLengths, module_output(p, len)
      PROVE  ProtocolInv'
  BY <1>2 DEF module_output
<1>3. ASSUME NEW p \in Procs, NEW length \in InputLengths,
             module_input(p, length)
      PROVE  ProtocolInv'
  BY <1>3 DEF module_input
<1>4. ASSUME NEW p \in Procs, NEW kind \in SignalKinds, Signal(p, kind)
      PROVE  ProtocolInv'
  BY <1>4 DEF Signal
<1>5. ASSUME ModActions PROVE ProtocolInv'
  BY <1>5 DEF ModActions, sleep_init, sleep_exit, RundownDone, ReleaseWakes,
              ExitDone, wake_up
<1>6. CASE UNCHANGED vars BY <1>6 DEF vars
<1> QED BY <1>1, <1>2, <1>3, <1>4, <1>5, <1>6, NextCases

\* The protocol invariant holds in every reachable state.
LEMMA ProtocolCorrect == SafeSpec => []ProtocolInv
<1>1. Init => ProtocolInv
  BY DEF Init, ProtocolInv, MutualExclusion, FlagIffHeld, NoLostWakeup,
         SleepersCanBeWoken, ExitWaits, InOpen
<1> QED BY <1>1, TypeCorrect, ProtocolStep, PTL DEF SafeSpec

\* At most one process is past module_open, for any number of processes.
THEOREM MutualExclusionHolds == SafeSpec => []MutualExclusion
<1>1. ProtocolInv => MutualExclusion
  BY DEF ProtocolInv
<1> QED BY <1>1, ProtocolCorrect, PTL

\* already_open tells the truth, after errors, signals and removals too.
THEOREM FlagIffHeldHolds == SafeSpec => []FlagIffHeld
<1>1. ProtocolInv => FlagIffHeld
  BY DEF ProtocolInv
<1> QED BY <1>1, ProtocolCorrect, PTL

\* The order "clear the flag, then wake" of module_close, against the order
\* "queue, then test" of the waiter, loses no wake-up.
THEOREM NoLostWakeupHolds == SafeSpec => [](NoLostWakeup /\ SleepersCanBeWoken)
<1>1. ProtocolInv => NoLostWakeup /\ SleepersCanBeWoken
  BY DEF ProtocolInv
<1> QED BY <1>1, ProtocolCorrect, PTL

-----------------------------------------------------------------------------
(* The buffers and end of file.                                            *)

\* message[i] = '\0' and sprintf into output_msg stay inside their arrays,
\* for every length of input.
THEOREM BuffersInBoundsHolds == SafeSpec => []BuffersInBounds
<1> USE MessageLengthAssumption DEF BuffersInBounds, DECORATION, OUTPUT_LENGTH
<1>1. Init => BuffersInBounds
  BY DEF Init
<1>2. TypeOK /\ BuffersInBounds /\ [Next]_vars => BuffersInBounds'
  <2> SUFFICES ASSUME TypeOK, BuffersInBounds, [Next]_vars
               PROVE  BuffersInBounds'
    OBVIOUS
  <2> USE DEF TypeOK, ioVars
  <2>1. ASSUME NEW p \in Procs, NEW length \in InputLengths,
               module_input(p, length)
        PROVE  BuffersInBounds'
    BY <2>1, InputLengthsAssumption DEF module_input, Least
  <2>2. ASSUME sleep_init PROVE BuffersInBounds'
    BY <2>2 DEF sleep_init
  <2>3. ASSUME message' = message PROVE BuffersInBounds'
    BY <2>3
  <2>4. ASSUME NEW p \in Procs, ProcActions(p) PROVE message' = message
    BY <2>4, Zenon
       DEF ProcActions, Open, TryOnce, TryOnceFails, TryAgain, TryAgainFails,
           Acquire, TestCondition, PrepareToWait, CheckCondition, Scheduled,
           TestSignal, close_free, close_wake, CloseStale, ReleaseLeftOpen
  <2>5. ASSUME NEW p \in Procs, NEW len \in BufferLengths,
               module_output(p, len)
        PROVE  message' = message
    BY <2>5 DEF module_output
  <2>6. ASSUME NEW p \in Procs, NEW kind \in SignalKinds, Signal(p, kind)
        PROVE  message' = message
    BY <2>6 DEF Signal
  <2>7. ASSUME ModActions PROVE sleep_init \/ message' = message
    BY <2>7, Zenon DEF ModActions, sleep_exit, RundownDone, ReleaseWakes,
                       ExitDone
  <2>8. CASE UNCHANGED vars BY <2>3, <2>8 DEF vars
  <2> QED BY <2>1, <2>2, <2>3, <2>4, <2>5, <2>6, <2>7, <2>8, NextCases
<1> QED BY <1>1, <1>2, TypeCorrect, PTL DEF SafeSpec

\* What ReadersReachEof rests on: replies belong to an open file, and the
\* shared flag is set after a reply that was not end of file.
EofInv ==
    /\ ReadersReachEof
    /\ \A p \in Procs : replies[p] # <<>> =>
           /\ pc[p] = "open"
           /\ replies[p][Len(replies[p])] # 0 => finished

\* A step that leaves the replies, the flag and the holders alone.
LEMMA EofFrame ==
    ASSUME TypeOK, EofInv, replies' = replies, finished' = finished,
           \A p \in Procs : pc[p] = "open" => pc'[p] = "open"
    PROVE  EofInv'
BY DEF TypeOK, EofInv, ReadersReachEof

\* A reader that holds the file is told end of file at the latest by every
\* second read, although module_output keeps one flag for all processes.
THEOREM ReadersReachEofHolds == SafeSpec => []ReadersReachEof
<1>1. Init => EofInv
  BY DEF Init, EofInv, ReadersReachEof
<1>2. TypeOK /\ ProtocolInv /\ EofInv /\ [Next]_vars => EofInv'
  <2> SUFFICES ASSUME TypeOK, ProtocolInv, EofInv, [Next]_vars PROVE EofInv'
    OBVIOUS
  <2> USE DEF ioVars, Goto, Return
  <2>1. ASSUME NEW p \in Procs, NEW len \in BufferLengths,
               module_output(p, len)
        PROVE  EofInv'
    <3> DEFINE n == IF finished THEN 0 ELSE Least(len, DECORATION + message)
    <3>1. n \in Nat /\ (finished => n = 0)
      <4>1. len \in Nat /\ DECORATION + message \in Nat
        BY BufferLengthsAssumption DEF DECORATION, TypeOK
      <4>2. Least(len, DECORATION + message) \in Nat
        BY <4>1, LeastFact, Zenon
      <4> QED BY <4>2, Zenon
    <3> HIDE DEF n
    <3>2. /\ replies' = [replies EXCEPT ![p] = Append(@, n)]
          /\ pc[p] = "open" /\ pc' = pc
      BY <2>1 DEF module_output, n
    <3>3. finished' = ~finished /\ finished \in BOOLEAN
      BY <2>1, Zenon DEF module_output, TypeOK
    <3>4. n # 0 => finished'
      BY <3>1, <3>3, Zenon
    <3>5. ASSUME NEW q \in Procs, q # p PROVE replies[q] = <<>>
      BY <3>2, <3>5 DEF EofInv, ProtocolInv, MutualExclusion
    <3>6. ASSUME NEW q \in Procs, q # p PROVE replies'[q] = <<>>
      BY <3>2, <3>5, <3>6 DEF TypeOK
    <3>7. /\ replies'[p] = Append(replies[p], n)
          /\ replies[p] \in Seq(Nat)
      BY <3>2 DEF TypeOK
    <3>8. Len(replies[p]) > 0 => replies[p][Len(replies[p])] = 0 \/ n = 0
      <4>1. Len(replies[p]) > 0 => replies[p] # <<>>
        BY <3>7
      <4>2. replies[p] # <<>> => replies[p][Len(replies[p])] = 0 \/ finished
        BY Zenon DEF EofInv
      <4> QED BY <4>1, <4>2, <3>1, Zenon
    <3>9. ReadersReachEof'
      <4> SUFFICES ASSUME NEW q \in Procs,
                          NEW i \in 1 .. Len(replies'[q]) - 1
                   PROVE  replies'[q][i] = 0 \/ replies'[q][i + 1] = 0
        BY DEF ReadersReachEof
      <4>1. q = p
        BY <3>6
      <4>2. CASE i = Len(replies[p])
        BY <3>1, <3>7, <3>8, <4>1, <4>2
      <4>3. CASE i < Len(replies[p])
        <5>1. i \in 1 .. Len(replies[p]) - 1
          BY <3>7, <4>1, <4>3
        <5>2. replies[p][i] = 0 \/ replies[p][i + 1] = 0
          BY <5>1 DEF EofInv, ReadersReachEof
        <5>3. ASSUME NEW j \in 1 .. Len(replies[p])
              PROVE  replies'[p][j] = replies[p][j]
          BY <3>1, <3>7
        <5>4. i \in 1 .. Len(replies[p]) /\ i + 1 \in 1 .. Len(replies[p])
          BY <3>7, <5>1
        <5>5. /\ replies'[p][i] = replies[p][i]
              /\ replies'[p][i + 1] = replies[p][i + 1]
          BY <5>3, <5>4, Zenon
        <5> QED BY <4>1, <5>2, <5>5
      <4> QED BY <3>1, <3>7, <4>1, <4>2, <4>3
    <3>10. replies'[p][Len(replies'[p])] = n
      BY <3>1, <3>7
    <3>11. ASSUME NEW q \in Procs, replies'[q] # <<>>
           PROVE  /\ pc'[q] = "open"
                  /\ replies'[q][Len(replies'[q])] # 0 => finished'
      <4>1. q = p
        BY <3>6, <3>11
      <4> QED BY <3>2, <3>4, <3>10, <4>1, Zenon
    <3> QED BY <3>9, <3>11, Zenon DEF EofInv
  <2>2. ASSUME NEW p \in Procs, close_free(p) \/ ReleaseLeftOpen(p)
        PROVE  EofInv'
    <3>1. /\ replies' = [replies EXCEPT ![p] = <<>>]
          /\ \A q \in Procs : q # p => pc'[q] = pc[q]
          /\ finished' = finished
      BY <2>2 DEF close_free, ReleaseLeftOpen, TypeOK
    <3>2. /\ replies'[p] = <<>>
          /\ \A q \in Procs : q # p => replies'[q] = replies[q]
      BY <3>1 DEF TypeOK
    <3> QED BY <3>1, <3>2 DEF TypeOK, EofInv, ReadersReachEof
  <2>3. ASSUME NEW p \in Procs, ProcActions(p),
               ~close_free(p), ~ReleaseLeftOpen(p)
        PROVE  EofInv'
    <3>1. replies' = replies /\ finished' = finished
      BY <2>3, Zenon
         DEF ProcActions, Open, TryOnce, TryOnceFails, TryAgain,
             TryAgainFails, Acquire, TestCondition, PrepareToWait,
             CheckCondition, Scheduled, TestSignal, close_wake, CloseStale
    <3>2. \A q \in Procs : pc[q] = "open" => pc'[q] = "open"
      BY <2>3
         DEF TypeOK, ProcActions, Open, TryOnce, TryOnceFails, TryAgain,
             TryAgainFails, Acquire, TestCondition, PrepareToWait,
             CheckCondition, Scheduled, TestSignal, close_wake, CloseStale
    <3> QED BY <3>1, <3>2, EofFrame
  <2>4. ASSUME NEW p \in Procs, NEW length \in InputLengths,
               module_input(p, length)
        PROVE  EofInv'
    BY <2>4, EofFrame DEF module_input
  <2>5. ASSUME NEW p \in Procs, NEW kind \in SignalKinds, Signal(p, kind)
        PROVE  EofInv'
    BY <2>5, EofFrame DEF Signal
  <2>6. ASSUME sleep_init PROVE EofInv'
    <3>1. \A p \in Procs : replies[p] = <<>>
      BY <2>6 DEF EofInv, ProtocolInv, ExitWaits, sleep_init
    <3>2. replies' = replies
      BY <2>6 DEF sleep_init
    <3> QED BY <3>1, <3>2 DEF EofInv, ReadersReachEof
  <2>7. ASSUME ModActions, ~sleep_init PROVE EofInv'
    BY <2>7, EofFrame DEF ModActions, sleep_exit, RundownDone, ReleaseWakes,
                          ExitDone
  <2>8. CASE UNCHANGED vars BY <2>8, EofFrame DEF vars
  <2> QED BY <2>1, <2>2, <2>3, <2>4, <2>5, <2>6, <2>7, <2>8, NextCases
<1>3. EofInv => ReadersReachEof
  BY DEF EofInv
<1> QED BY <1>1, <1>2, <1>3, TypeCorrect, ProtocolCorrect, PTL DEF SafeSpec

-----------------------------------------------------------------------------
(* Refinement: the safety part of ExclusiveOpen.                           *)

\* /proc/sleep behaves as an exclusively opened file: every step of the
\* module is a step of ExclusiveOpen, or changes nobody's standing.
THEOREM ImplementsExclusiveOpenSafely == SafeSpec => Abstract!SafeSpec
<1> DEFINE stand == [p \in Procs |-> standing(p)]
<1> USE DEF standing, InOpen
<1>1. Init => Abstract!Init
  BY DEF Init, Abstract!Init
<1>2. TypeOK /\ ProtocolInv /\ [Next]_vars => [Abstract!Next]_stand
  <2> SUFFICES ASSUME TypeOK, ProtocolInv, [Next]_vars
               PROVE  Abstract!Next \/ stand' = stand
    OBVIOUS
  <2> USE DEF TypeOK, Locations, Goto, Return, ioVars, waitVars
  <2>1. ASSUME NEW p \in Procs, ProcActions(p)
        PROVE  Abstract!Next \/ stand' = stand
    <3> USE DEF Abstract!Move
    <3>1. CASE Open(p)
      <4>1. Abstract!Try(p) BY <3>1 DEF Open, Abstract!Try
      <4> QED BY <4>1 DEF Abstract!Next
    <3>2. CASE TryOnce(p) \/ TryAgain(p)
      <4>1. \A q \in Procs : pc[q] # "open"
        BY <3>2 DEF TryOnce, TryAgain, Acquire, ProtocolInv, FlagIffHeld
      <4>2. Abstract!Grant(p)
        BY <3>2, <4>1 DEF TryOnce, TryAgain, Acquire, Abstract!Grant
      <4> QED BY <4>2 DEF Abstract!Next
    <3>3. CASE TryOnceFails(p) \/ TestSignal(p)
      <4>1. Abstract!Deny(p) \/ stand' = stand
        BY <3>3 DEF TryOnceFails, TestSignal, Abstract!Deny
      <4> QED BY <4>1 DEF Abstract!Next
    <3>4. CASE TryAgainFails(p) BY <3>4 DEF TryAgainFails
    <3>5. CASE TestCondition(p) BY <3>5 DEF TestCondition
    <3>6. CASE PrepareToWait(p) BY <3>6 DEF PrepareToWait
    <3>7. CASE CheckCondition(p) BY <3>7 DEF CheckCondition
    <3>8. CASE Scheduled(p) BY <3>8 DEF Scheduled
    <3>9. CASE close_free(p)
      <4>1. Abstract!Release(p) BY <3>9 DEF close_free, Abstract!Release
      <4> QED BY <4>1 DEF Abstract!Next
    <3>10. CASE close_wake(p) BY <3>10 DEF close_wake
    <3>11. CASE CloseStale(p)
      <4>1. Abstract!Drop(p) BY <3>11 DEF CloseStale, Abstract!Drop
      <4> QED BY <4>1 DEF Abstract!Next
    <3>12. CASE ReleaseLeftOpen(p)
      <4>1. \A q \in Procs : pc[q] \notin InOpen
        BY <3>12 DEF ReleaseLeftOpen, ProtocolInv, ExitWaits
      <4>2. Abstract!Revoke(p)
        BY <3>12, <4>1 DEF ReleaseLeftOpen, Abstract!Revoke
      <4> QED BY <4>2 DEF Abstract!Next
    <3> QED BY <2>1, <3>1, <3>2, <3>3, <3>4, <3>5, <3>6, <3>7, <3>8, <3>9,
               <3>10, <3>11, <3>12 DEF ProcActions
  <2>2. ASSUME NEW p \in Procs, NEW len \in BufferLengths,
               module_output(p, len)
        PROVE  stand' = stand
    BY <2>2 DEF module_output
  <2>3. ASSUME NEW p \in Procs, NEW length \in InputLengths,
               module_input(p, length)
        PROVE  stand' = stand
    BY <2>3 DEF module_input
  <2>4. ASSUME NEW p \in Procs, NEW kind \in SignalKinds, Signal(p, kind)
        PROVE  stand' = stand
    BY <2>4 DEF Signal
  <2>5. ASSUME ModActions PROVE stand' = stand
    BY <2>5 DEF ModActions, sleep_init, sleep_exit, RundownDone,
                ReleaseWakes, ExitDone
  <2>6. CASE UNCHANGED vars BY <2>6 DEF vars
  <2> QED BY <2>1, <2>2, <2>3, <2>4, <2>5, <2>6, NextCases
<1> QED BY <1>1, <1>2, TypeCorrect, ProtocolCorrect, PTL
        DEF SafeSpec, Abstract!SafeSpec
=============================================================================
