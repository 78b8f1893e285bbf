--------------------------- MODULE ModulesProofs ---------------------------
(***************************************************************************)
(* Proofs about the modules and scripts of MCModules: the spy on a system  *)
(* call (Spy), the network device (Net), the scripts (Script, Test), the   *)
(* files of /proc (SeqF, Proc), the keyboard (Kbd), the platform drivers   *)
(* (Platform), the block device (Blk), and virtual input devices with one  *)
(* administrator.                                                          *)
(***************************************************************************)
EXTENDS MCModules, VinputProofs

mcvars == <<subject, vars, procVars, kbdVars, seqVars, blkVars, netVars,
            platformVars, spyVars, scriptVars, testVars>>

-----------------------------------------------------------------------------
(* syscall-steal.c.                                                        *)

\* The spies that have kept an entry of the table and are still there.
Active == {"kept", "live", "checked", "asleep"}

\* With kprobes the table is left alone, and only a registered probe runs.
ProbeInv ==
    hook = "kprobe" =>
        /\ table = "kernel"
        /\ \A m \in Spies : /\ original[m] = "kernel"
                            /\ life[m] \in {"new", "live", "asleep", "gone"}
                            /\ m \in probes => life[m] = "live"
        /\ \A c \in Openers : frames[c] = {}
                              /\ (at[c] \in Spies => life[at[c]] = "live")

\* The replacements are a stack: the table has the topmost spy, each spy
\* has kept the one below it, which is there, and no two the same.
Stacked ==
    /\ table \in Spies => life[table] \in {"live", "checked"}
    /\ \A m \in Spies :
         /\ life[m] \in Active /\ original[m] \in Spies => life[original[m]] = "live"
         /\ life[m] \in {"live", "checked"} => original[m] # table
    /\ \A m, n \in Spies :
         /\ life[m] \in {"kept", "live", "checked"}
         /\ life[n] \in {"kept", "live", "checked"}
         /\ original[m] = original[n]
         => m = n

\* A call is in the code of a spy that is there.
CallsInside ==
    \A c \in Openers : \A m \in Spies :
        m \in frames[c] \/ at[c] = m => life[m] \in Active

SpyInv ==
    /\ Spy!TypeOK
    /\ hook \in {"table", "kprobe"}
    /\ hook = "table" => probes = {}
    /\ ProbeInv
    /\ hook = "table" /\ ~(warned \/ together \/ late) => Stacked /\ CallsInside

\* The first states satisfy the invariant.
LEMMA SpyInit == Spy!Init => SpyInv
<1> SUFFICES ASSUME Spy!Init PROVE SpyInv
  OBVIOUS
<1> USE SpiesAssumption
<1>1. Spy!TypeOK /\ hook \in {"table", "kprobe"} /\ probes = {}
  BY HooksAssumption DEF Spy!Init, Spy!TypeOK
<1>2. /\ table = "kernel" /\ "kernel" \notin Spies /\ "user" \notin Spies
      /\ \A m \in Spies : life[m] = "new" /\ original[m] = "kernel" /\ m \notin probes
      /\ \A c \in Openers : at[c] = "user" /\ frames[c] = {}
  BY DEF Spy!Init
<1>3. ProbeInv
  BY <1>2 DEF ProbeInv
<1>4. Stacked /\ CallsInside
  BY <1>2 DEF Stacked, CallsInside, Active
<1> QED BY <1>1, <1>3, <1>4 DEF SpyInv

\* Every step stays within the types.
LEMMA SpyTypes == Spy!TypeOK /\ [Spy!Next]_Spy!vars => Spy!TypeOK'
<1> SUFFICES ASSUME Spy!TypeOK, [Spy!Next]_Spy!vars PROVE Spy!TypeOK'
  OBVIOUS
<1> USE DEF Spy!TypeOK, Spy!Becomes
<1>1. ASSUME NEW m \in Spies, Spy!syscall_steal_start(m) PROVE Spy!TypeOK'
  BY <1>1 DEF Spy!syscall_steal_start, Spy!StartFails, Spy!Keep, Spy!Replace,
              Spy!Register
<1>2. ASSUME NEW m \in Spies, Spy!syscall_steal_end(m) PROVE Spy!TypeOK'
  BY <1>2 DEF Spy!syscall_steal_end, Spy!Check, Spy!Restore, Spy!Unregister,
              Spy!Gone
<1>3. ASSUME NEW c \in Openers, Spy!Enter(c) PROVE Spy!TypeOK'
  BY <1>3 DEF Spy!Enter
<1>4. ASSUME NEW c \in Openers, Spy!our_sys_openat(c) PROVE Spy!TypeOK'
  BY <1>4 DEF Spy!our_sys_openat
<1>5. ASSUME NEW c \in Openers, Spy!Return(c) PROVE Spy!TypeOK'
  BY <1>5 DEF Spy!Return
<1>6. ASSUME NEW c \in Openers, NEW m \in Spies, Spy!PreHandler(c, m)
      PROVE  Spy!TypeOK'
  BY <1>6 DEF Spy!PreHandler
<1>7. CASE UNCHANGED Spy!vars
  BY <1>7 DEF Spy!vars
<1> QED BY <1>1, <1>2, <1>3, <1>4, <1>5, <1>6, <1>7 DEF Spy!Next

\* With kprobes: unregister_kprobe waits for the handlers, so nothing runs
\* the code of a module that is gone.
LEMMA ProbeStep ==
    ASSUME Spy!TypeOK, ProbeInv, Spy!Next PROVE ProbeInv'
<1>1. hook' = hook
  BY DEF Spy!Next, Spy!syscall_steal_start, Spy!StartFails, Spy!Keep, Spy!Replace,
         Spy!Register, Spy!syscall_steal_end, Spy!Check, Spy!Restore,
         Spy!Unregister, Spy!Gone, Spy!Enter, Spy!our_sys_openat, Spy!Return,
         Spy!PreHandler
<1> SUFFICES ASSUME hook = "kprobe" PROVE ProbeInv'
  BY <1>1 DEF ProbeInv
<1> USE SpiesAssumption, <1>1 DEF Spy!TypeOK, ProbeInv, Spy!Becomes
<1>2. ASSUME NEW m \in Spies, Spy!syscall_steal_start(m) PROVE ProbeInv'
  BY <1>2 DEF Spy!syscall_steal_start, Spy!StartFails, Spy!Keep, Spy!Replace,
              Spy!Register
<1>3. ASSUME NEW m \in Spies, Spy!syscall_steal_end(m) PROVE ProbeInv'
  BY <1>3 DEF Spy!syscall_steal_end, Spy!Check, Spy!Restore, Spy!Unregister,
              Spy!Unregistered, Spy!Gone
<1>4. ASSUME NEW c \in Openers, Spy!Enter(c) PROVE ProbeInv'
  BY <1>4 DEF Spy!Enter
<1>5. ASSUME NEW c \in Openers, Spy!our_sys_openat(c) PROVE ProbeInv'
  BY <1>5 DEF Spy!our_sys_openat
<1>6. ASSUME NEW c \in Openers, Spy!Return(c) PROVE ProbeInv'
  BY <1>6 DEF Spy!Return
<1>7. ASSUME NEW c \in Openers, NEW m \in Spies, Spy!PreHandler(c, m)
      PROVE  ProbeInv'
  BY <1>7 DEF Spy!PreHandler
<1> QED BY <1>2, <1>3, <1>4, <1>5, <1>6, <1>7 DEF Spy!Next

\* A module that starts keeps the stack, if no other start or end is under
\* way.
LEMMA StackStart ==
    ASSUME Spy!TypeOK, Stacked, CallsInside, hook = "table", NEW m \in Spies,
           Spy!syscall_steal_start(m), ~together'
    PROVE  Stacked' /\ CallsInside'
<1> USE DEF Spy!TypeOK, Stacked, CallsInside, Active, Spy!Becomes
<1>1. CASE Spy!StartFails(m)
  BY <1>1 DEF Spy!StartFails
<1>2. CASE Spy!Keep(m)
  <2>1. /\ \A n \in Spies : life[n] \notin {"kept", "checked", "asleep"}
        /\ life[m] = "new" /\ table' = table /\ original'[m] = table
        /\ life'[m] = "kept" /\ UNCHANGED <<at, frames>>
    BY <1>2 DEF Spy!Keep, Spy!UnderWay
  <2>2. \A n \in Spies \ {m} : original'[n] = original[n] /\ life'[n] = life[n]
    BY <1>2 DEF Spy!Keep
  <2> QED BY <2>1, <2>2
<1>3. CASE Spy!Replace(m)
  <2>1. /\ table' = m /\ life[m] = "kept" /\ life'[m] = "live"
        /\ UNCHANGED <<at, frames, original>>
        /\ \A n \in Spies \ {m} : life'[n] = life[n]
    BY <1>3 DEF Spy!Replace
  <2> QED BY <2>1
<1>4. ~Spy!Register(m)
  BY DEF Spy!Register
<1> QED BY <1>1, <1>2, <1>3, <1>4 DEF Spy!syscall_steal_start

\* A module that ends keeps the stack, if it was on its top and every call
\* leaves its code in time.
LEMMA StackEnd ==
    ASSUME Spy!TypeOK, Stacked, CallsInside, hook = "table", NEW m \in Spies,
           Spy!syscall_steal_end(m), ~together', ~warned', ~late'
    PROVE  Stacked' /\ CallsInside'
<1> USE DEF Spy!TypeOK, Stacked, CallsInside, Active, Spy!Becomes
<1>1. CASE Spy!Check(m)
  <2>a. \A n \in Spies : life[n] \notin {"kept", "checked", "asleep"}
    BY <1>1, Zenon DEF Spy!Check, Spy!UnderWay
  <2>b. table = m
    BY <1>1, Zenon DEF Spy!Check, Spy!SomebodyElsePlayed
  <2>c. /\ life[m] = "live" /\ life' = [life EXCEPT ![m] = "checked"]
        /\ UNCHANGED <<at, frames, original, table>>
    BY <1>1 DEF Spy!Check
  <2>1. /\ \A n \in Spies : life[n] \notin {"kept", "checked", "asleep"}
        /\ life[m] = "live" /\ table = m /\ life'[m] = "checked"
        /\ UNCHANGED <<at, frames, original, table>>
        /\ \A n \in Spies \ {m} : life'[n] = life[n]
    BY <2>a, <2>b, <2>c
  <2>2. CallsInside'
    BY <2>1
  <2>3. \A n \in Spies :
          /\ life[n] \in Active <=> life[n] = "live"
          /\ life[n] = "live" => original[n] # m
          /\ life'[n] \in Active <=> life[n] = "live"
          /\ life'[n] \in {"kept", "live", "checked"} => life[n] = "live"
          /\ n # m => life'[n] = life[n]
    BY <2>1
  <2>4. table' \in Spies => life'[table'] \in {"live", "checked"}
    BY <2>1
  <2>5. \A n \in Spies :
          /\ life'[n] \in Active /\ original'[n] \in Spies =>
               life'[original'[n]] = "live"
          /\ life'[n] \in {"live", "checked"} => original'[n] # table'
    BY <2>1, <2>3
  <2>6. \A k, n \in Spies :
          /\ life'[k] \in {"kept", "live", "checked"}
          /\ life'[n] \in {"kept", "live", "checked"}
          /\ original'[k] = original'[n]
          => k = n
    BY <2>1, <2>3
  <2> QED BY <2>2, <2>4, <2>5, <2>6
<1>2. CASE Spy!Restore(m)
  <2>1. /\ life[m] = "checked" /\ table' = original[m] /\ life'[m] = "asleep"
        /\ UNCHANGED <<at, frames, original>>
        /\ \A n \in Spies \ {m} : life'[n] = life[n]
    BY <1>2 DEF Spy!Restore
  <2> QED BY <2>1
<1>3. CASE Spy!Gone(m)
  <2>1. /\ life[m] = "asleep" /\ life'[m] = "gone"
        /\ UNCHANGED <<at, frames, original, table>>
        /\ \A n \in Spies \ {m} : life'[n] = life[n]
    BY <1>3 DEF Spy!Gone
  <2>2. \A c \in Openers : m \notin frames[c] /\ at[c] # m
    BY <1>3 DEF Spy!Gone
  <2> QED BY <2>1, <2>2
<1>4. ~Spy!Unregister(m)
  BY DEF Spy!Unregister
<1> QED BY <1>1, <1>2, <1>3, <1>4 DEF Spy!syscall_steal_end

\* A call keeps the stack, and enters only code that is there.
LEMMA StackCall ==
    ASSUME Spy!TypeOK, Stacked, CallsInside, hook = "table", NEW c \in Openers,
           \/ Spy!Enter(c) \/ Spy!our_sys_openat(c) \/ Spy!Return(c)
    PROVE  Stacked' /\ CallsInside'
<1> USE SpiesAssumption DEF Spy!TypeOK
<1>1. UNCHANGED <<life, table, original>>
      /\ \A d \in Openers \ {c} : at'[d] = at[d] /\ frames'[d] = frames[d]
  BY DEF Spy!Enter, Spy!our_sys_openat, Spy!Return
<1>2. Stacked'
  BY <1>1 DEF Stacked
<1>3. \A m \in Spies : m \in frames'[c] \/ at'[c] = m => life[m] \in Active
  <2>1. CASE Spy!Enter(c)
    BY <2>1 DEF Spy!Enter, Stacked, CallsInside, Active
  <2>2. CASE Spy!our_sys_openat(c)
    <3>1. at[c] \in Spies /\ life[at[c]] \in Active
      BY <2>2 DEF Spy!our_sys_openat, CallsInside
    <3>2. /\ frames'[c] \subseteq frames[c] \union {at[c]}
          /\ at'[c] = original[at[c]]
      BY <2>2 DEF Spy!our_sys_openat
    <3>3. at'[c] \in Spies => life[at'[c]] = "live"
      BY <3>1, <3>2 DEF Stacked
    <3> QED BY <3>1, <3>2, <3>3 DEF CallsInside, Active
  <2>3. CASE Spy!Return(c)
    BY <2>3 DEF Spy!Return, CallsInside
  <2> QED BY <2>1, <2>2, <2>3
<1>4. CallsInside'
  BY <1>1, <1>3 DEF CallsInside
<1> QED BY <1>2, <1>4

\* Every step keeps the invariant.
LEMMA SpyStep == SpyInv /\ [Spy!Next]_Spy!vars => SpyInv'
<1> SUFFICES ASSUME SpyInv, [Spy!Next]_Spy!vars PROVE SpyInv'
  OBVIOUS
<1>1. Spy!TypeOK'
  BY SpyTypes DEF SpyInv
<1>2. CASE UNCHANGED Spy!vars
  <2>1. UNCHANGED <<hook, life, table, original, probes, at, frames, warned,
                    together, late>>
    BY <1>2 DEF Spy!vars
  <2>2. ProbeInv'
    BY <2>1 DEF SpyInv, ProbeInv
  <2>3. Stacked /\ CallsInside => Stacked' /\ CallsInside'
    BY <2>1 DEF Stacked, CallsInside
  <2> QED BY <1>1, <2>1, <2>2, <2>3 DEF SpyInv
<1>3. CASE Spy!Next
  <2>1. ProbeInv'
    BY <1>3, ProbeStep DEF SpyInv
  <2>2. /\ hook' = hook
        /\ hook = "table" => probes' = {}
        /\ ~(warned' \/ together' \/ late') => ~(warned \/ together \/ late)
    <3>1. ASSUME NEW m \in Spies, Spy!syscall_steal_start(m) PROVE <2>2!:
      <4>1. hook' = hook /\ (hook = "table" => probes' = {})
        BY <3>1 DEF SpyInv, Spy!syscall_steal_start, Spy!StartFails, Spy!Keep,
                    Spy!Replace, Spy!Register
      <4>2. ~(warned' \/ together' \/ late') => ~(warned \/ together \/ late)
        BY <3>1, Zenon DEF Spy!syscall_steal_start, Spy!StartFails, Spy!Keep,
                           Spy!Replace, Spy!Register
      <4> QED BY <4>1, <4>2
    <3>2. ASSUME NEW m \in Spies, Spy!syscall_steal_end(m) PROVE <2>2!:
      <4>1. hook' = hook /\ (hook = "table" => probes' = {})
        BY <3>2 DEF SpyInv, Spy!syscall_steal_end, Spy!Check, Spy!Restore,
                    Spy!Unregister, Spy!Gone
      <4>2. ~(warned' \/ together' \/ late') => ~(warned \/ together \/ late)
        BY <3>2, Zenon DEF Spy!syscall_steal_end, Spy!Check, Spy!Restore,
                           Spy!Unregister, Spy!Gone
      <4> QED BY <4>1, <4>2
    <3>3. ASSUME NEW c \in Openers,
                 \/ Spy!Enter(c) \/ Spy!our_sys_openat(c) \/ Spy!Return(c)
                 \/ \E m \in Spies : Spy!PreHandler(c, m)
          PROVE  <2>2!:
      BY <3>3 DEF SpyInv, Spy!Enter, Spy!our_sys_openat, Spy!Return, Spy!PreHandler
    <3> QED BY <1>3, <3>1, <3>2, <3>3 DEF Spy!Next
  <2>3. ASSUME hook = "table", ~(warned' \/ together' \/ late')
        PROVE  Stacked' /\ CallsInside'
    <3>1. Spy!TypeOK /\ Stacked /\ CallsInside
      BY <2>2, <2>3 DEF SpyInv
    <3>2. ASSUME NEW c \in Openers, NEW m \in Spies PROVE ~Spy!PreHandler(c, m)
      BY <2>3 DEF SpyInv, Spy!PreHandler
    <3> QED BY <1>3, <2>3, <3>1, <3>2, StackStart, StackEnd, StackCall DEF Spy!Next
  <2> QED BY <1>1, <2>1, <2>2, <2>3 DEF SpyInv
<1> QED BY <1>2, <1>3

\* The invariant says what the property does.
LEMMA SpyInvIsEnough == SpyInv => Spy!DanglingOnlyAfterWarning
<1> SUFFICES ASSUME SpyInv, ~(warned \/ together \/ late),
                    NEW m \in Spy!Reachable \intersect Spies
             PROVE  life[m] # "gone"
  BY DEF Spy!DanglingOnlyAfterWarning
<1>1. \/ \E c \in Openers : at[c] = m \/ m \in frames[c]
      \/ table = m
      \/ \E n \in Spies : life[n] \in Active /\ original[n] = m
  <2>1. \/ m \in {at[c] : c \in Openers}
        \/ m \in UNION {frames[c] : c \in Openers}
        \/ m = table
        \/ m \in {original[n] : n \in {n \in Spies : life[n] \in
                                      {"kept", "live", "checked", "asleep"}}}
    BY DEF Spy!Reachable
  <2>2. m \in UNION {frames[c] : c \in Openers} =>
           \E c \in Openers : m \in frames[c]
    OBVIOUS
  <2> QED BY <2>1, <2>2 DEF Active
<1>2. CASE hook = "kprobe"
  BY <1>1, <1>2, SpiesAssumption DEF SpyInv, ProbeInv, Spy!TypeOK
<1>3. CASE hook = "table"
  BY <1>1, <1>3 DEF SpyInv, Stacked, CallsInside, Active
<1> QED BY <1>2, <1>3 DEF SpyInv

-----------------------------------------------------------------------------
(* vnetloop.c.                                                             *)

Fields == {"tx_packets", "tx_bytes", "rx_packets", "rx_bytes"}

\* Where a transmission is when no update of the counters is in progress,
\* and when its packet has been counted.
Between == {"none", "begin", "rx"}
Counted == {"tx_bytes", "rx_packets", "rx_bytes", "end", "rx"}

\* The counters the reader has read in this round.
Got ==
    IF reader = "tx_bytes" THEN {"tx_packets"}
    ELSE IF reader = "rx_packets" THEN {"tx_packets", "tx_bytes"}
    ELSE IF reader = "rx_bytes" THEN {"tx_packets", "tx_bytes", "rx_packets"}
    ELSE IF reader = "retry" THEN Fields ELSE {}

CounterTypes ==
    stats \in [Fields -> Nat] /\ seen \in [Fields -> Nat] /\ shown \in [Fields -> Nat]

XmitTypes ==
    /\ xmit \in [at : Fields \union {"none", "begin", "end", "rx"},
                 len : Sizes \union {0}, copy : BOOLEAN]
    /\ xmit.at # "none" => xmit.len \in Sizes
    /\ reader \in Fields \union {"none", "begin", "retry"}
    /\ net \in {"out", "registered", "up"}

\* The packets that were received and not taken up are among those sent.
BacklogInv ==
    /\ backlog \in Nat
    /\ stats["tx_packets"] <= MaxPackets
    /\ xmit.at \in {"begin", "tx_packets"} => stats["tx_packets"] < MaxPackets
    /\ IF xmit.at \in Counted THEN backlog < stats["tx_packets"]
                              ELSE backlog <= stats["tx_packets"]
    /\ net = "out" => xmit.at = "none" /\ reader = "none" /\ backlog = 0

\* What was shown was there, and so was what has been read since.
ShownInv ==
    /\ \A f \in Fields : shown[f] <= stats[f]
    /\ \A f \in Got : shown[f] <= seen[f] /\ seen[f] <= stats[f]

\* With the sequence counter: it is even between two updates, when the
\* counters are values of the past; as long as it has not moved, what was
\* read is what is there.
SeqInv ==
    /\ seq \in Nat /\ start \in Nat
    /\ build = "seq" =>
         /\ xmit.at \in Between <=> seq % 2 = 0
         /\ xmit.at \in Between => stats \in past
         /\ shown \in past
         /\ reader \in Fields \union {"retry"} =>
              /\ start <= seq /\ start % 2 = 0
              /\ start = seq => \A f \in Got : seen[f] = stats[f]

NetInv == CounterTypes /\ XmitTypes /\ BacklogInv /\ ShownInv /\ SeqInv

\* The names of the counters, as a set and one by one.
LEMMA NetNames ==
    /\ Net!Names = Fields
    /\ Net!Fields[1] = "tx_packets" /\ Net!Fields[2] = "tx_bytes"
    /\ Net!Fields[3] = "rx_packets" /\ Net!Fields[4] = "rx_bytes"
BY DEF Net!Names, Net!Fields, Fields

\* The sequence counter alternates.
LEMMA Parity ==
    ASSUME NEW n \in Nat
    PROVE  (n + 1) % 2 = 0 <=> n % 2 # 0
OBVIOUS

\* The first states satisfy the invariant.
LEMMA NetInit == Net!Init => NetInv
<1> SUFFICES ASSUME Net!Init PROVE NetInv
  OBVIOUS
<1> USE SizesAssumption
<1>1. CounterTypes /\ \A f \in Fields : stats[f] = 0 /\ shown[f] = 0
  BY NetNames DEF Net!Init, Net!Zero, CounterTypes
<1>2. XmitTypes /\ xmit.at = "none" /\ reader = "none" /\ Got = {}
  BY DEF Net!Init, Net!Idle, XmitTypes, Got
<1>3. BacklogInv /\ ShownInv
  BY <1>1, <1>2 DEF Net!Init, BacklogInv, ShownInv, Counted, Fields
<1>4. SeqInv
  BY <1>2 DEF Net!Init, SeqInv, Between, Fields
<1> QED BY <1>1, <1>2, <1>3, <1>4 DEF NetInv

\* A step of the module keeps the invariant.
LEMMA NetModuleStep ==
    ASSUME NetInv, \/ Net!vnetloop_init \/ Net!vnetloop_open \/ Net!vnetloop_stop
                   \/ Net!vnetloop_exit
    PROVE  NetInv'
<1> USE SizesAssumption
<1>1. CASE Net!vnetloop_init
  <2>1. /\ net' \in {"out", "registered"} /\ net = "out" /\ seq' = 0 /\ past' = {Net!Zero}
        /\ stats' = Net!Zero /\ shown' = Net!Zero
        /\ UNCHANGED <<build, xmit, backlog, reader, start, seen>>
    BY <1>1 DEF Net!vnetloop_init
  <2>2. CounterTypes' /\ \A f \in Fields : stats'[f] = 0 /\ shown'[f] = 0
    BY <2>1, NetNames DEF NetInv, CounterTypes, Net!Zero
  <2>3. XmitTypes' /\ xmit.at = "none" /\ reader = "none" /\ backlog = 0 /\ Got' = {}
    BY <2>1 DEF NetInv, XmitTypes, BacklogInv, Got
  <2>4. BacklogInv' /\ ShownInv'
    BY <2>1, <2>2, <2>3 DEF BacklogInv, ShownInv, Counted, Fields
  <2>5. SeqInv'
    BY <2>1, <2>3 DEF NetInv, SeqInv, Between, Fields
  <2> QED BY <2>2, <2>3, <2>4, <2>5 DEF NetInv
<1>2. CASE ~Net!vnetloop_init
  <2>1. /\ UNCHANGED <<build, stats, seq, xmit, reader, start, seen, shown, past>>
        /\ net' \in {"out", "registered", "up"}
        /\ backlog' = backlog \/ (net' = "out" /\ backlog' = 0)
        /\ net' = "out" => net = "out" \/ (xmit = Net!Idle /\ reader = "none" /\ backlog' = 0)
    BY <1>2 DEF Net!vnetloop_open, Net!vnetloop_stop, Net!vnetloop_exit,
                Net!readerVars
  <2>2. CounterTypes' /\ XmitTypes' /\ SeqInv' /\ ShownInv' /\ Got' = Got
    BY <2>1 DEF NetInv, CounterTypes, XmitTypes, SeqInv, ShownInv, Got
  <2>3. BacklogInv'
    <3>1. xmit = Net!Idle => xmit.at = "none"
      BY DEF Net!Idle
    <3>2. stats["tx_packets"] \in Nat
      BY DEF NetInv, CounterTypes, Fields
    <3> QED BY <2>1, <3>1, <3>2 DEF NetInv, BacklogInv, Counted
  <2> QED BY <2>2, <2>3 DEF NetInv
<1> QED BY <1>1, <1>2

\* A step of a transmission keeps the invariant.
LEMMA NetXmitStep == ASSUME NetInv, Net!vnetloop_xmit PROVE NetInv'
<1> USE SizesAssumption
<1>1. /\ UNCHANGED <<build, net, reader, start, seen, shown>> /\ Got' = Got
      /\ stats["tx_packets"] \in Nat /\ stats["tx_packets"] = stats.tx_packets
  BY DEF Net!vnetloop_xmit, Net!Xmit, Net!UpdateBegin, Net!Count, Net!UpdateEnd,
         Net!XmitEnd, Net!netVars, Net!readerVars, Got, NetInv, CounterTypes, Fields
<1>2. ASSUME NEW len \in Sizes, NEW copy \in BOOLEAN, Net!Xmit(len, copy)
      PROVE  NetInv'
  <2>1. /\ xmit = Net!Idle /\ stats["tx_packets"] < MaxPackets /\ net = "up"
        /\ xmit' = [at |-> "begin", len |-> len, copy |-> copy]
        /\ UNCHANGED <<stats, seq, backlog, past>>
    BY <1>1, <1>2 DEF Net!Xmit
  <2>2. xmit.at = "none" /\ xmit'.at = "begin" /\ XmitTypes'
    BY <1>1, <2>1 DEF NetInv, XmitTypes, Net!Idle
  <2>3. CounterTypes' /\ ShownInv' /\ BacklogInv'
    BY <1>1, <2>1, <2>2 DEF NetInv, CounterTypes, ShownInv, BacklogInv, Counted
  <2>4. SeqInv'
    BY <1>1, <2>1, <2>2 DEF NetInv, SeqInv, Between
  <2> QED BY <2>2, <2>3, <2>4 DEF NetInv
<1>3. ASSUME Net!UpdateBegin \/ Net!UpdateEnd PROVE NetInv'
  <2>1. /\ UNCHANGED <<stats, backlog>>
        /\ \/ xmit.at = "begin" /\ xmit' = [xmit EXCEPT !.at = "tx_packets"]
              /\ past' = past
           \/ xmit.at = "end" /\ xmit' = [xmit EXCEPT !.at = "rx"]
              /\ past' = past \union {stats}
        /\ seq' = IF build = "seq" THEN seq + 1 ELSE seq
    BY <1>3 DEF Net!UpdateBegin, Net!UpdateEnd, Net!Bump
  <2>2. /\ XmitTypes'
        /\ \/ xmit.at = "begin" /\ xmit'.at = "tx_packets" /\ past' = past
           \/ xmit.at = "end" /\ xmit'.at = "rx" /\ past' = past \union {stats}
    BY <1>1, <2>1 DEF NetInv, XmitTypes, Fields
  <2>3. CounterTypes' /\ ShownInv' /\ BacklogInv'
    BY <1>1, <2>1, <2>2 DEF NetInv, CounterTypes, ShownInv, BacklogInv, Counted
  <2>4. SeqInv'
    <3>1. seq \in Nat /\ start \in Nat /\ seq' \in Nat
      BY <2>1 DEF NetInv, SeqInv
    <3> SUFFICES ASSUME build = "seq"
                 PROVE  /\ xmit'.at \in Between <=> seq' % 2 = 0
                        /\ xmit'.at \in Between => stats' \in past'
                        /\ shown' \in past'
                        /\ reader \in Fields \union {"retry"} =>
                             start <= seq' /\ start % 2 = 0 /\ start # seq'
      BY <1>1, <3>1 DEF SeqInv
    <3>2. (seq + 1) % 2 = 0 <=> seq % 2 # 0
      BY <3>1, Parity
    <3>3. /\ xmit.at \in Between <=> seq % 2 = 0
          /\ shown \in past
          /\ reader \in Fields \union {"retry"} => start <= seq /\ start % 2 = 0
      BY DEF NetInv, SeqInv
    <3> QED BY <1>1, <2>1, <2>2, <3>1, <3>2, <3>3 DEF Between
  <2> QED BY <2>2, <2>3, <2>4 DEF NetInv
<1>4. ASSUME Net!Count PROVE NetInv'
  <2>1. /\ xmit.at \in Fields /\ UNCHANGED <<seq, backlog, past>>
        /\ stats' = [stats EXCEPT ![xmit.at] = @ + Net!Adds(xmit.at)]
        /\ xmit' = [xmit EXCEPT !.at = Net!After(xmit.at)]
    BY <1>4, NetNames DEF Net!Count
  <2>2. Net!Adds(xmit.at) \in Nat /\ (xmit.at = "tx_packets" => Net!Adds(xmit.at) = 1)
    <3>1. xmit.len \in Nat /\ xmit.len >= ETH_HLEN
      BY <2>1 DEF NetInv, XmitTypes, Fields
    <3> QED BY <2>1, <3>1 DEF Net!Adds, Fields
  <2>3. /\ Net!After(xmit.at) \in {"tx_bytes", "rx_packets", "rx_bytes", "end"}
    BY DEF Net!After
  <2>4. xmit'.at = Net!After(xmit.at) /\ XmitTypes'
    BY <1>1, <2>1, <2>3 DEF NetInv, XmitTypes, Fields
  <2>5. /\ CounterTypes' /\ \A f \in Fields : stats[f] <= stats'[f]
        /\ xmit.at = "tx_packets" => stats'["tx_packets"] = stats["tx_packets"] + 1
        /\ xmit.at # "tx_packets" => stats'["tx_packets"] = stats["tx_packets"]
    BY <1>1, <2>1, <2>2 DEF NetInv, CounterTypes, Fields
  <2>6. ShownInv'
    <3>1. Got \subseteq Fields
      BY DEF Got, Fields
    <3> QED BY <1>1, <2>5, <3>1 DEF NetInv, ShownInv, CounterTypes
  <2>7. BacklogInv'
    BY <1>1, <2>1, <2>3, <2>4, <2>5 DEF NetInv, BacklogInv, Counted, Fields
  <2>8. SeqInv'
    <3>1. xmit.at \notin Between /\ xmit'.at \notin Between
      BY <2>1, <2>3, <2>4 DEF Between, Fields
    <3> QED BY <1>1, <2>1, <3>1 DEF NetInv, SeqInv
  <2> QED BY <2>4, <2>5, <2>6, <2>7, <2>8 DEF NetInv
<1>5. ASSUME Net!XmitEnd PROVE NetInv'
  <2>1. /\ xmit.at = "rx" /\ UNCHANGED <<stats, seq, past>>
        /\ xmit' = Net!Idle /\ backlog' = backlog + IF xmit.copy THEN 1 ELSE 0
    BY <1>5 DEF Net!XmitEnd
  <2>2. xmit'.at = "none" /\ XmitTypes'
    BY <1>1, <2>1 DEF NetInv, XmitTypes, Net!Idle
  <2>3. CounterTypes' /\ ShownInv'
    BY <1>1, <2>1 DEF NetInv, CounterTypes, ShownInv
  <2>4. BacklogInv'
    BY <1>1, <2>1, <2>2 DEF NetInv, BacklogInv, Counted
  <2>5. SeqInv'
    BY <1>1, <2>1, <2>2 DEF NetInv, SeqInv, Between
  <2> QED BY <2>2, <2>3, <2>4, <2>5 DEF NetInv
<1> QED BY <1>2, <1>3, <1>4, <1>5 DEF Net!vnetloop_xmit

\* A step of the reader of the statistics keeps the invariant.
LEMMA NetReaderStep ==
    ASSUME NetInv, Net!vnetloop_get_stats64
    PROVE  /\ NetInv'
           /\ build = "seq" => shown' \in past'
           /\ \A f \in Fields : shown[f] <= shown'[f] /\ shown'[f] <= stats[f]
<1>1. UNCHANGED <<build, net, stats, seq, xmit, backlog, past>>
  BY DEF Net!vnetloop_get_stats64, Net!FetchBegin, Net!Fetch, Net!FetchRetry,
         Net!netVars
<1>2. \A f \in Fields : shown[f] \in Nat /\ seen[f] \in Nat /\ stats[f] \in Nat
  BY DEF NetInv, CounterTypes
<1>3. CASE Net!FetchBegin
  <2>1. /\ net # "out" /\ seq % 2 = 0 /\ start' = seq /\ reader' = "tx_packets"
        /\ UNCHANGED <<seen, shown>> /\ Got' = {}
    BY <1>3 DEF Net!FetchBegin, Got
  <2>2. CounterTypes' /\ XmitTypes' /\ BacklogInv' /\ ShownInv'
    BY <1>1, <2>1 DEF NetInv, CounterTypes, XmitTypes, BacklogInv, ShownInv, Fields
  <2>3. SeqInv'
    BY <1>1, <2>1 DEF NetInv, SeqInv
  <2>4. NetInv'
    BY <2>2, <2>3 DEF NetInv
  <2> QED BY <1>1, <1>2, <2>1, <2>4 DEF NetInv, ShownInv, SeqInv
<1>4. ASSUME NEW n \in 1 .. 4, Net!Fetch(n)
      PROVE  /\ NetInv' /\ shown' = shown
  <2> DEFINE f == Net!Fields[n]
  <2>1. /\ reader = f /\ seen' = [seen EXCEPT ![f] = stats[f]]
        /\ reader' = IF n < 4 THEN Net!Fields[n + 1] ELSE "retry"
        /\ UNCHANGED <<start, shown>>
    BY <1>4 DEF Net!Fetch
  <2>2. f \in Fields /\ reader' \in Fields \union {"retry"}
        /\ Got' = Got \union {f} /\ f \notin Got /\ Got \subseteq Fields
    BY <2>1, NetNames DEF Got, Fields
  <2> HIDE DEF f
  <2>3. CounterTypes' /\ seen'[f] = stats[f]
        /\ \A g \in Got : seen'[g] = seen[g]
    BY <1>1, <1>2, <2>1, <2>2 DEF NetInv, CounterTypes
  <2>4. XmitTypes'
    BY <1>1, <2>2 DEF NetInv, XmitTypes
  <2>5. BacklogInv'
    BY <1>1, <2>1, <2>2 DEF NetInv, BacklogInv, Fields
  <2>6. ShownInv'
    BY <1>1, <1>2, <2>1, <2>2, <2>3 DEF NetInv, ShownInv
  <2>7. SeqInv'
    BY <1>1, <2>1, <2>2, <2>3 DEF NetInv, SeqInv
  <2> QED BY <2>1, <2>3, <2>4, <2>5, <2>6, <2>7 DEF NetInv
<1>5. CASE Net!FetchRetry
  <2>1. /\ reader = "retry" /\ start' = 0 /\ seen' = Net!Zero
        /\ \/ seq = start /\ reader' = "none" /\ shown' = seen
           \/ reader' = "begin" /\ shown' = shown
        /\ Got = Fields /\ Got' = {}
    BY <1>5 DEF Net!FetchRetry, Net!Unchanged, Got
  <2>2. \A f \in Fields : shown[f] <= shown'[f] /\ shown'[f] <= stats[f]
    BY <1>2, <2>1 DEF NetInv, ShownInv
  <2>3. CounterTypes'
    BY <1>1, <2>1, NetNames DEF NetInv, CounterTypes, Net!Zero
  <2>4. XmitTypes' /\ BacklogInv'
    BY <1>1, <2>1 DEF NetInv, XmitTypes, BacklogInv
  <2>5. ShownInv'
    BY <1>1, <2>1, <2>2 DEF ShownInv
  <2>6. build = "seq" => shown' \in past
    <3> SUFFICES ASSUME build = "seq", seq = start, shown' = seen PROVE shown' \in past
      BY <2>1 DEF NetInv, SeqInv
    <3>1. \A f \in Fields : seen[f] = stats[f]
      BY <2>1 DEF NetInv, SeqInv
    <3>2. seen = stats
      BY <3>1 DEF NetInv, CounterTypes
    <3>3. stats \in past
      BY <2>1 DEF NetInv, SeqInv
    <3> QED BY <3>2, <3>3
  <2>7. SeqInv'
    BY <1>1, <2>1, <2>6 DEF NetInv, SeqInv, Fields
  <2> QED BY <1>1, <2>2, <2>3, <2>4, <2>5, <2>6, <2>7 DEF NetInv
<1> QED BY <1>1, <1>2, <1>3, <1>4, <1>5
        DEF Net!vnetloop_get_stats64, NetInv, ShownInv, SeqInv

\* Every step keeps the invariant, and what a reader is shown was there at
\* one moment and never goes back while the device is there.
LEMMA NetStep ==
    ASSUME NetInv, [Net!Next]_Net!vars
    PROVE  /\ NetInv'
           /\ build = "seq" => shown' \in past'
           /\ net # "out" => \A f \in Fields : shown[f] <= shown'[f]
                                              /\ shown'[f] <= stats[f]
<1>1. \A f \in Fields : shown[f] \in Nat /\ shown[f] <= shown[f]
                        /\ shown[f] <= stats[f]
  BY DEF NetInv, CounterTypes, ShownInv
<1>2. build = "seq" => shown \in past
  BY DEF NetInv, SeqInv
<1>3. CASE \/ Net!vnetloop_init \/ Net!vnetloop_open \/ Net!vnetloop_stop
           \/ Net!vnetloop_exit
  <2>1. /\ NetInv' /\ build' = build
        /\ net = "out" \/ (shown' = shown /\ past' = past)
    BY <1>3, NetModuleStep DEF Net!vnetloop_init, Net!vnetloop_open,
       Net!vnetloop_stop, Net!vnetloop_exit, Net!readerVars
  <2>2. build = "seq" => shown' \in past'
    BY <2>1 DEF NetInv, SeqInv
  <2> QED BY <1>1, <2>1, <2>2
<1>4. CASE Net!vnetloop_xmit
  <2>1. /\ NetInv' /\ build' = build /\ shown' = shown
    BY <1>4, NetXmitStep DEF Net!vnetloop_xmit, Net!Xmit, Net!UpdateBegin,
       Net!Count, Net!UpdateEnd, Net!XmitEnd, Net!netVars, Net!readerVars
  <2>2. build = "seq" => shown' \in past'
    BY <2>1 DEF NetInv, SeqInv
  <2> QED BY <1>1, <2>1, <2>2
<1>5. CASE Net!vnetloop_get_stats64
  BY <1>5, NetReaderStep
<1>6. CASE Net!Receive \/ UNCHANGED Net!vars
  <2>1. /\ UNCHANGED <<build, net, stats, seq, xmit, reader, start, seen, shown,
                       past>>
        /\ backlog' = backlog \/ (backlog > 0 /\ backlog' = backlog - 1)
    BY <1>6 DEF Net!Receive, Net!vars, Net!netVars, Net!readerVars
  <2>2. CounterTypes' /\ XmitTypes' /\ ShownInv' /\ Got' = Got
    BY <2>1 DEF NetInv, CounterTypes, XmitTypes, ShownInv, Got
  <2>3. BacklogInv'
    <3>1. stats["tx_packets"] \in Nat
      BY DEF NetInv, CounterTypes, Fields
    <3> QED BY <2>1, <3>1 DEF NetInv, BacklogInv
  <2>4. SeqInv'
    BY <2>1, <2>2 DEF NetInv, SeqInv
  <2> QED BY <1>1, <1>2, <2>1, <2>2, <2>3, <2>4 DEF NetInv
<1> QED BY <1>3, <1>4, <1>5, <1>6 DEF Net!Next

\* The invariant contains the types.
LEMMA NetTypes == NetInv => Net!TypeOK
<1> SUFFICES ASSUME NetInv PROVE Net!TypeOK
  OBVIOUS
<1>1. backlog \in 0 .. MaxPackets
  <2>1. stats["tx_packets"] \in Nat
    BY DEF NetInv, CounterTypes, Fields
  <2> QED BY <2>1, SizesAssumption DEF NetInv, BacklogInv
<1>2. seq \in Nat /\ start \in Nat
  BY DEF NetInv, SeqInv
<1> QED BY <1>1, <1>2, NetNames, Zenon
        DEF NetInv, CounterTypes, XmitTypes, Net!TypeOK

-----------------------------------------------------------------------------
(* test-modules.sh and guest-test.sh.                                      *)

\* What the guest has said is in the log, unless a line was not readable;
\* QEMU ends with status 0 when the script is through, or was not there.
Reported ==
    /\ \A m \in Test!Modules :
         m < ko => result[m] \in IF m \in Excluded THEN {"SKIP"} ELSE {"PASS", "FAIL"}
    /\ ~garbled => \A m \in Test!Modules : result[m] = "FAIL" => <<"FAIL", m>> \in log
    /\ guest = "boot" => log = {}
    /\ guest = "poweroff" /\ ~died => log = {}
    /\ qemu = "ok" /\ ~died => log = {} \/ ko > NumModules

\* A verdict is about the end of QEMU and what is in the log.
Judged ==
    verdict = "success" =>
        /\ qemu = "ok" /\ log # {}
        /\ \A m \in Test!Modules : <<"FAIL", m>> \notin log

TestInv == Test!TypeOK /\ Reported /\ Judged

\* The first states satisfy the invariant.
LEMMA TestInit == Test!Init => TestInv
BY NumModulesAssumption
DEF Test!Init, TestInv, Test!TypeOK, Test!Modules, Test!Kinds, Reported, Judged

\* A line of guest-test.sh keeps the invariant.
LEMMA TestSay ==
    ASSUME TestInv, Test!Testing, NEW said \in Test!Kinds, NEW readable,
           Test!Say(said, readable),
           said \in IF ko \in Excluded THEN {"SKIP"} ELSE {"PASS", "FAIL"}
    PROVE  TestInv'
<1> USE NumModulesAssumption DEF Test!Testing, Test!Modules
<1>1. /\ result' = [result EXCEPT ![ko] = said]
      /\ \/ log' = log \union {<<said, ko>>} /\ garbled' = garbled
         \/ garbled' = TRUE /\ log' = log
      /\ ko' = ko + 1 /\ half' = 0
      /\ UNCHANGED <<qemu, guest, died, verdict>>
  BY DEF Test!Say
<1>2. qemu = "on" /\ guest = "test" /\ ko \in 1 .. NumModules
  BY DEF TestInv, Test!TypeOK
<1>3. Test!TypeOK'
  BY <1>1, <1>2 DEF TestInv, Test!TypeOK, Test!Kinds
<1>4. \A m \in Test!Modules : result'[m] = IF m = ko THEN said ELSE result[m]
  BY <1>1, <1>2 DEF TestInv, Test!TypeOK
<1>5. Reported'
  <2>1. \A m \in Test!Modules : m < ko' =>
           result'[m] \in IF m \in Excluded THEN {"SKIP"} ELSE {"PASS", "FAIL"}
    BY <1>1, <1>2, <1>4 DEF TestInv, Reported
  <2>2. ~garbled' => \A m \in Test!Modules :
           result'[m] = "FAIL" => <<"FAIL", m>> \in log'
    BY <1>1, <1>4 DEF TestInv, Reported
  <2> QED BY <1>1, <1>2, <2>1, <2>2 DEF Reported
<1>6. Judged'
  BY <1>1, <1>2 DEF TestInv, Judged
<1> QED BY <1>3, <1>5, <1>6 DEF TestInv

\* Every step keeps the invariant.
LEMMA TestStep == TestInv /\ [Test!Next]_Test!vars => TestInv'
<1> SUFFICES ASSUME TestInv, [Test!Next]_Test!vars PROVE TestInv'
  OBVIOUS
<1>1. CASE Test!BootFails \/ Test!Boot \/ Test!EndEarly \/ Test!Hang
  BY <1>1 DEF Test!BootFails, Test!Boot, Test!EndEarly, Test!Hang, TestInv,
              Test!TypeOK, Reported, Judged
<1>2. CASE Test!Poweroff
  BY <1>2 DEF Test!Poweroff, TestInv, Test!TypeOK, Reported, Judged
<1>3. CASE Test!ScriptDies
  BY <1>3 DEF Test!ScriptDies, TestInv, Test!TypeOK, Reported, Judged
<1>4. CASE Test!Half
  BY <1>4 DEF Test!Half, Test!Testing, TestInv, Test!TypeOK, Reported, Judged
<1>5. CASE Test!Judge
  <2>1. /\ UNCHANGED <<qemu, guest, ko, half, result, log, died, garbled>>
        /\ verdict' \in {"success", "failure"}
        /\ verdict' = "success" => Test!Accepted
    BY <1>5 DEF Test!Judge
  <2>2. Test!Accepted => qemu = "ok" /\ log # {}
                         /\ \A m \in Test!Modules : <<"FAIL", m>> \notin log
    BY DEF Test!Accepted, Test!Lines
  <2> QED BY <2>1, <2>2 DEF TestInv, Test!TypeOK, Reported, Judged
<1>6. ASSUME NEW ok \in BOOLEAN,
             Test!Mount(ok) \/ Test!Skip(ok) \/ Test!Pass(ok) \/ Test!Fail(ok)
      PROVE  TestInv'
  <2>1. CASE Test!Mount(ok)
    BY <2>1 DEF Test!Mount, TestInv, Test!TypeOK, Reported, Judged
  <2>2. CASE Test!Skip(ok)
    BY <2>2, TestSay DEF Test!Skip, Test!Kinds
  <2>3. CASE Test!Pass(ok)
    BY <2>3, TestSay DEF Test!Pass, Test!Kinds
  <2>4. CASE Test!Fail(ok)
    BY <2>4, TestSay DEF Test!Fail, Test!Kinds
  <2> QED BY <1>6, <2>1, <2>2, <2>3, <2>4
<1>7. CASE UNCHANGED Test!vars
  BY <1>7 DEF Test!vars, TestInv, Test!TypeOK, Reported, Judged
<1> QED BY <1>1, <1>2, <1>3, <1>4, <1>5, <1>6, <1>7 DEF Test!Next

\* The invariant says what the property does.
LEMMA TestInvIsEnough == TestInv => Test!GreenMeansTested
<1> SUFFICES ASSUME TestInv, verdict = "success", ~died, ~garbled,
                    NEW m \in Test!Modules
             PROVE  result[m] = IF m \in Excluded THEN "SKIP" ELSE "PASS"
  BY DEF Test!GreenMeansTested
<1>1. ko > NumModules /\ m < ko
  BY NumModulesAssumption DEF TestInv, Reported, Judged, Test!Modules, Test!TypeOK
<1>2. result[m] # "FAIL"
  BY DEF TestInv, Reported, Judged
<1> QED BY <1>1, <1>2 DEF TestInv, Reported

-----------------------------------------------------------------------------
(* setup.sh.                                                               *)

USE DEF Script!inputs, Script!locals

\* The inputs and the edits they have had.
InputInv ==
    /\ kconfig \in Nat /\ defaults \in Nat /\ local \in Nat /\ script \in Nat
    /\ kconfig >= 1 /\ defaults >= 1 /\ script >= 1
    /\ kconfig + defaults + local + script - 3 <= MaxEdits

\* Where the stamps are computed and not written yet.
KernelSteps == {"prebuilt", "make", "prepare", "kstamp", "unpack"}
InitramfsSteps == {"bbcurl", "bbuntar", "bbmake", "pack", "gzip", "cstamp"}

\* Versions on the disk and in the variables of the script are not newer
\* than the inputs.
OlderInv ==
    /\ disk.kstamp[1] <= kconfig /\ disk.kstamp[2] <= defaults
    /\ disk.cstamp <= script
    /\ sstep \in KernelSteps => expected[1] <= kconfig /\ expected[2] <= defaults
    /\ sstep \in InitramfsSteps => iexpected <= script
    /\ sstep = "unpack" =>
         /\ expected[1] <= tag.kconfig /\ expected[2] <= tag.defaults
         /\ tag.kconfig <= kconfig /\ tag.defaults <= defaults
         /\ tag.script <= script

\* A stamp, and a kernel, of the current files.
IsCurrent(stamp) == stamp[1] = kconfig /\ stamp[2] = defaults
Current(kernel) == kernel.kconfig = kconfig /\ (~astray => kernel.defaults = defaults)

\* The settings that were sourced are the current ones, as long as the stamp
\* that is or will be computed is; unless config.defaults went astray.
SourcedInv ==
    ~astray =>
        /\ sstep \in Script!Sourcing => sourced.defaults = defaults
        /\ sstep \in KernelSteps /\ IsCurrent(expected) =>
             sourced.defaults = defaults

\* The stamp of the kernel is current only if its outputs are, but while a
\* release is unpacked; while the kernel is built it is not current.
KernelStamp ==
    /\ sstep # "unpack" /\ IsCurrent(disk.kstamp) =>
         Current(disk.image) /\ Current(disk.symvers)
    /\ sstep \in {"prebuilt", "make", "prepare", "kstamp"} => ~IsCurrent(disk.kstamp)
    /\ sstep \in {"prepare", "kstamp"} /\ IsCurrent(expected) => Current(disk.image)
    /\ sstep = "kstamp" /\ IsCurrent(expected) => Current(disk.symvers)
    /\ sstep = "unpack" =>
         /\ "image" \notin sfiles =>
              disk.image.kconfig = tag.kconfig /\ disk.image.defaults = tag.defaults
         /\ "symvers" \notin sfiles =>
              disk.symvers.kconfig = tag.kconfig /\ disk.symvers.defaults = tag.defaults

\* The same of the stamp of the initramfs.
InitramfsStamp ==
    /\ sstep # "unpack" /\ disk.cstamp = script =>
         disk.cpio.of = script /\ disk.cpio.whole = TRUE
    /\ sstep \in InitramfsSteps => disk.cstamp # script
    /\ sstep \in {"gzip", "cstamp"} /\ iexpected = script => disk.cpio.of = script
    /\ sstep = "cstamp" => disk.cpio.whole = TRUE
    /\ sstep = "unpack" =>
         /\ "cstamp" \notin sfiles => disk.cstamp = tag.script
         /\ "cpio" \notin sfiles => disk.cpio.of = tag.script
         /\ "cpio" \notin sfiles /\ "cpio_rest" \notin sfiles =>
              disk.cpio.whole = TRUE

ScriptInv ==
    /\ Script!TypeOK /\ InputInv /\ OlderInv /\ SourcedInv
    /\ ~cut => KernelStamp /\ InitramfsStamp

USE DEF KernelSteps, InitramfsSteps, IsCurrent, Current, Script!history

\* A version that an input has is one there can be.
LEMMA InputVersions ==
    InputInv => /\ kconfig \in Script!Versions /\ defaults \in Script!Versions
                /\ local \in Script!Versions /\ script \in Script!Versions
                /\ 0 \in Script!Versions
BY MaxEditsAssumption DEF InputInv, Script!Versions

\* A stamp that is the one of the current files, by its parts.
LEMMA StampParts ==
    ASSUME NEW st \in Script!Stamps
    PROVE  st = <<kconfig, defaults>> <=> IsCurrent(st)
BY DEF Script!Stamps

\* What is on the disk: the types of its parts.
LEMMA DiskParts ==
    ASSUME disk \in Script!Disks
    PROVE  /\ \A f \in Script!Downloads : disk[f] \in Script!Copies
           /\ disk.image \in Script!Kernels /\ disk.symvers \in Script!Kernels
           /\ disk.kstamp \in Script!Stamps /\ disk.cstamp \in Script!Versions
           /\ disk.kstamp[1] \in Nat /\ disk.kstamp[2] \in Nat /\ disk.cstamp \in Nat
           /\ disk.busybox \in BOOLEAN
           /\ disk.cpio \in Script!Archives
<1>1. /\ disk.image \in Script!Kernels /\ disk.symvers \in Script!Kernels
      /\ disk.kstamp \in Script!Stamps /\ disk.cstamp \in Script!Versions
      /\ disk.busybox \in BOOLEAN
      /\ disk.cpio \in Script!Archives
  BY DEF Script!Disks
<1>2. \A f \in Script!Downloads : disk[f] \in Script!Copies
  BY DEF Script!Disks, Script!Downloads
<1>3. disk.kstamp[1] \in Nat /\ disk.kstamp[2] \in Nat /\ disk.cstamp \in Nat
  BY <1>1, MaxEditsAssumption DEF Script!Stamps, Script!Versions
<1> QED BY <1>1, <1>2, <1>3

\* An update of one part of the disk: the others stay, and so do the types.
LEMMA DiskUpdate ==
    ASSUME disk \in Script!Disks, NEW f, NEW v, disk' = [disk EXCEPT ![f] = v],
           \/ f \in Script!Downloads /\ v \in Script!Copies
           \/ f \in {"image", "symvers"} /\ v \in Script!Kernels
           \/ f = "kstamp" /\ v \in Script!Stamps
           \/ f = "cstamp" /\ v \in Script!Versions
           \/ f = "busybox" /\ v \in BOOLEAN
           \/ f = "cpio" /\ v \in Script!Archives
    PROVE  /\ disk' \in Script!Disks
           /\ disk'[f] = v
           /\ \A g \in {"image", "symvers", "kstamp", "cstamp", "cpio"} :
                g # f => disk'[g] = disk[g]
BY DEF Script!Disks, Script!Downloads

\* The first states satisfy the invariant.
LEMMA ScriptInit == Script!Init => ScriptInv
<1> SUFFICES ASSUME Script!Init PROVE ScriptInv
  OBVIOUS
<1> USE MaxEditsAssumption
<1>1. InputInv /\ sstep = "idle"
  BY DEF Script!Init, InputInv
<1>2. /\ disk.kstamp[1] = 0 /\ disk.kstamp[2] = 0 /\ disk.cstamp = 0
  BY DEF Script!Init, Script!NoStamp
<1>3. Script!TypeOK
  <2>0. 0 \in Script!Versions
    BY DEF Script!Versions
  <2>1. disk \in Script!Disks
    <3>1. Script!NoKernel \in Script!Kernels /\ Script!NoStamp \in Script!Stamps
      BY <2>0 DEF Script!NoKernel, Script!Kernels, Script!NoStamp, Script!Stamps
    <3>2. Script!NoCpio \in Script!Archives
      BY <2>0 DEF Script!NoCpio, Script!Archives, Script!NoSettings, Script!Settings
    <3> QED BY <2>0, <3>1, <3>2 DEF Script!Init, Script!Disks, Script!Copies
  <2>2. cut \in BOOLEAN /\ astray \in BOOLEAN
    BY Zenon DEF Script!Init
  <2>3. /\ {kconfig, defaults, local, script, iexpected} \subseteq Script!Versions
        /\ sfiles \subseteq Script!Parts
    BY DEF Script!Init, Script!Versions, Script!Parts
  <2>4. /\ sourced \in Script!Settings /\ expected \in Script!Stamps
        /\ tag \in Script!Tags
    BY <2>0 DEF Script!Init, Script!NoSettings, Script!Settings, Script!NoStamp,
                Script!Stamps, Script!NoTag, Script!Tags
  <2> QED BY <2>1, <2>2, <2>3, <2>4 DEF Script!TypeOK
<1>4. OlderInv /\ SourcedInv /\ KernelStamp /\ InitramfsStamp
  BY <1>1, <1>2 DEF InputInv, OlderInv, SourcedInv, KernelStamp, InitramfsStamp,
                    Script!Sourcing
<1> QED BY <1>1, <1>3, <1>4 DEF ScriptInv

\* A step that leaves the outputs and their stamps alone, and after which
\* the script is at none of the places where more is known, keeps the
\* invariant; so does one that stays where it is.
Elsewhere ==
    {"idle", "phase1", "phase2", "phase3", "curl_xz", "curl_gz", "untar_xz",
     "untar_gz"}

LEMMA ScriptFrame ==
    ASSUME ScriptInv, Script!TypeOK', UNCHANGED Script!inputs,
           \A g \in {"image", "symvers", "kstamp", "cstamp", "cpio"} :
             disk'[g] = disk[g],
           sstep' \in Elsewhere, SourcedInv',
           cut' = cut, astray' = astray, sstep # "unpack"
    PROVE  ScriptInv'
<1> /\ disk'.image = disk.image /\ disk'.symvers = disk.symvers
    /\ disk'.kstamp = disk.kstamp /\ disk'.cstamp = disk.cstamp
    /\ disk'.cpio = disk.cpio
  OBVIOUS
<1>1. InputInv'
  BY DEF ScriptInv, InputInv
<1>2. OlderInv'
  BY DEF ScriptInv, OlderInv, Elsewhere
<1>3. ~cut' => KernelStamp'
  BY DEF ScriptInv, KernelStamp, Elsewhere
<1>4. ~cut' => InitramfsStamp'
  BY DEF ScriptInv, InitramfsStamp, Elsewhere
<1> QED BY <1>1, <1>2, <1>3, <1>4 DEF ScriptInv

\* The settings stay the right ones when neither they nor the files change
\* and the script goes on, or ends.
LEMMA SourcedFrame ==
    ASSUME ScriptInv, UNCHANGED <<Script!inputs, sourced, astray>>,
           \/ sstep' \in Script!Sourcing /\ sstep \in Script!Sourcing
           \/ /\ sstep' \in KernelSteps /\ sstep \in KernelSteps
              /\ expected' = expected
           \/ sstep' \notin Script!Sourcing \union KernelSteps
    PROVE  SourcedInv'
<1>1. sstep' \in Script!Sourcing => sstep \in Script!Sourcing
  BY DEF Script!Sourcing
<1>2. sstep' \in KernelSteps => sstep \in KernelSteps /\ expected' = expected
  BY DEF Script!Sourcing
<1> QED BY <1>1, <1>2 DEF ScriptInv, SourcedInv

\* The types of the script's variables when the inputs are left alone.
LEMMA ScriptTypes ==
    ASSUME ScriptInv, disk' \in Script!Disks, UNCHANGED <<Script!inputs, sourced>>,
           UNCHANGED Script!locals
             \/ (/\ expected' \in Script!Stamps /\ iexpected' \in Script!Versions
                 /\ UNCHANGED <<sfiles, tag>>)
             \/ Script!Stop,
           cut' \in BOOLEAN, astray' = astray
    PROVE  Script!TypeOK'
<1>0. Script!NoStamp \in Script!Stamps /\ Script!NoTag \in Script!Tags
      /\ 0 \in Script!Versions
  BY InputVersions DEF ScriptInv, Script!NoStamp, Script!Stamps, Script!NoTag, Script!Tags
<1>1. {kconfig, defaults, local, script, iexpected}' \subseteq Script!Versions
  BY <1>0 DEF ScriptInv, Script!TypeOK, Script!Stop
<1>2. sfiles' \subseteq Script!Parts
  BY DEF ScriptInv, Script!TypeOK, Script!Stop
<1>3. expected' \in Script!Stamps /\ tag' \in Script!Tags
  BY <1>0 DEF ScriptInv, Script!TypeOK, Script!Stop
<1>4. sourced' \in Script!Settings /\ astray' \in BOOLEAN
  BY DEF ScriptInv, Script!TypeOK
<1>5. disk' \in Script!Disks
  OBVIOUS
<1> QED BY Zenon, <1>1, <1>2, <1>3, <1>4, <1>5 DEF Script!TypeOK

\* The user: edits, a start, an interruption.
LEMMA ScriptUser ==
    ASSUME ScriptInv,
           \/ Script!EditKconfig \/ Script!EditDefaults \/ Script!EditLocal
           \/ Script!EditScript \/ Script!Start \/ Script!Interrupt
    PROVE  ScriptInv'
<1> USE MaxEditsAssumption
<1>a. /\ disk \in Script!Disks /\ cut \in BOOLEAN /\ astray \in BOOLEAN
      /\ disk.kstamp[1] \in Nat /\ disk.kstamp[2] \in Nat /\ disk.cstamp \in Nat
  BY DiskParts DEF ScriptInv, Script!TypeOK
<1>b. /\ expected[1] \in Nat /\ expected[2] \in Nat /\ iexpected \in Nat
      /\ tag.kconfig \in Nat /\ tag.defaults \in Nat /\ tag.script \in Nat
  BY DEF ScriptInv, Script!TypeOK, Script!Versions, Script!Stamps, Script!Tags
<1>c. InputInv' /\ UNCHANGED <<sourced, Script!locals, disk, cut>>
        /\ astray' \in BOOLEAN => Script!TypeOK'
  <2> SUFFICES ASSUME InputInv', UNCHANGED <<sourced, Script!locals, disk, cut>>,
                      astray' \in BOOLEAN
               PROVE  Script!TypeOK'
    OBVIOUS
  <2>2. iexpected' \in Script!Versions
    BY DEF ScriptInv, Script!TypeOK
  <2>3. /\ kconfig' \in Script!Versions /\ defaults' \in Script!Versions
        /\ local' \in Script!Versions /\ script' \in Script!Versions
    <3>1. /\ kconfig' \in Nat /\ defaults' \in Nat /\ local' \in Nat /\ script' \in Nat
          /\ kconfig' >= 1 /\ defaults' >= 1 /\ script' >= 1
          /\ kconfig' + defaults' + local' + script' - 3 <= MaxEdits
      BY Zenon DEF InputInv
    <3>2. \A a, b, c, d \in Nat :
             a >= 1 /\ b >= 1 /\ d >= 1 /\ a + b + c + d - 3 <= MaxEdits =>
               {a, b, c, d} \subseteq Script!Versions
      BY DEF Script!Versions
    <3> QED BY <3>1, <3>2, Zenon
  <2>1. {kconfig, defaults, local, script, iexpected}' \subseteq Script!Versions
    BY <2>2, <2>3
  <2> QED BY Zenon, <2>1 DEF ScriptInv, Script!TypeOK, Script!locals
<1>1. CASE Script!EditKconfig
  <2>0. /\ kconfig' = kconfig + 1
        /\ UNCHANGED <<sstep, defaults, local, script, sourced, Script!locals, cut,
                       astray, disk>>
    BY <1>1 DEF Script!EditKconfig
  <2>1. InputInv'
    BY <1>1 DEF Script!EditKconfig, Script!Edits, ScriptInv, InputInv
  <2>2. Script!TypeOK'
    BY <1>a, <1>c, <2>0, <2>1
  <2>3. OlderInv'
    BY <2>0, <1>a, <1>b DEF ScriptInv, InputInv, OlderInv
  <2>6. ~IsCurrent(disk.kstamp)' /\ (sstep \in KernelSteps => ~IsCurrent(expected)')
    BY <2>0, <1>a, <1>b DEF ScriptInv, InputInv, OlderInv
  <2>7. SourcedInv'
    BY <2>0, <2>6 DEF ScriptInv, SourcedInv
  <2>4. ~cut' => KernelStamp'
    BY <2>0, <2>6 DEF ScriptInv, KernelStamp
  <2>5. ~cut' => InitramfsStamp'
    BY <2>0 DEF ScriptInv, InitramfsStamp
  <2> QED BY <2>1, <2>2, <2>3, <2>4, <2>5, <2>7 DEF ScriptInv
<1>2. CASE Script!EditDefaults
  <2>0. /\ defaults' = defaults + 1
        /\ UNCHANGED <<sstep, kconfig, local, script, sourced, Script!locals, cut,
                       disk>>
    BY <1>2 DEF Script!EditDefaults
  <2>8. astray' = (sstep \in Script!Sourcing)
    BY <1>2 DEF Script!EditDefaults
  <2>9. astray' \in BOOLEAN /\ (~astray' => sstep \notin Script!Sourcing)
    <3>1. CASE sstep \in Script!Sourcing
      BY <2>8, <3>1
    <3>2. CASE sstep \notin Script!Sourcing
      BY <2>8, <3>2
    <3> QED BY <3>1, <3>2
  <2>1. InputInv'
    BY <1>2 DEF Script!EditDefaults, Script!Edits, ScriptInv, InputInv
  <2>2. Script!TypeOK'
    BY <1>c, <2>0, <2>1, <2>9
  <2>3. OlderInv'
    BY <2>0, <1>a, <1>b DEF ScriptInv, InputInv, OlderInv
  <2>6. ~IsCurrent(disk.kstamp)' /\ (sstep \in KernelSteps => ~IsCurrent(expected)')
    BY <2>0, <1>a, <1>b DEF ScriptInv, InputInv, OlderInv
  <2>7. SourcedInv'
    BY <2>0, <2>6, <2>9 DEF SourcedInv
  <2>4. ~cut' => KernelStamp'
    BY <2>0, <2>6 DEF ScriptInv, KernelStamp
  <2>5. ~cut' => InitramfsStamp'
    BY <2>0 DEF ScriptInv, InitramfsStamp
  <2> QED BY <2>1, <2>2, <2>3, <2>4, <2>5, <2>7 DEF ScriptInv
<1>5. CASE Script!EditLocal
  <2>0. /\ local' = local + 1
        /\ UNCHANGED <<sstep, kconfig, defaults, script, sourced, Script!locals, cut,
                       astray, disk>>
    BY <1>5 DEF Script!EditLocal
  <2>1. InputInv'
    BY <1>5 DEF Script!EditLocal, Script!Edits, ScriptInv, InputInv
  <2>2. Script!TypeOK'
    BY <1>a, <1>c, <2>0, <2>1
  <2>3. OlderInv' /\ SourcedInv'
    BY <2>0 DEF ScriptInv, OlderInv, SourcedInv
  <2>4. ~cut' => KernelStamp' /\ InitramfsStamp'
    BY <2>0 DEF ScriptInv, KernelStamp, InitramfsStamp
  <2> QED BY <2>1, <2>2, <2>3, <2>4 DEF ScriptInv
<1>6. CASE Script!EditScript
  <2>0. /\ script' = script + 1
        /\ UNCHANGED <<sstep, kconfig, defaults, local, sourced, Script!locals, cut,
                       astray, disk>>
    BY <1>6 DEF Script!EditScript
  <2>1. InputInv'
    BY <1>6 DEF Script!EditScript, Script!Edits, ScriptInv, InputInv
  <2>2. Script!TypeOK'
    BY <1>a, <1>c, <2>0, <2>1
  <2>3. OlderInv'
    BY <2>0, <1>a, <1>b DEF ScriptInv, InputInv, OlderInv
  <2>7. SourcedInv'
    BY <2>0 DEF ScriptInv, SourcedInv
  <2>4. ~cut' => KernelStamp'
    BY <2>0 DEF ScriptInv, KernelStamp
  <2>5. ~cut' => InitramfsStamp'
    BY <2>0, <1>a, <1>b DEF ScriptInv, InputInv, OlderInv, InitramfsStamp
  <2> QED BY <2>1, <2>2, <2>3, <2>4, <2>5, <2>7 DEF ScriptInv
<1>3. CASE Script!Start
  <2>0. /\ sstep = "idle" /\ sstep' = "phase1" /\ UNCHANGED Script!inputs
        /\ UNCHANGED <<Script!locals, cut, astray>>
        /\ sourced' = [defaults |-> defaults, local |-> local]
    BY <1>3 DEF Script!Start
  <2>1. sourced' \in Script!Settings /\ sourced'.defaults = defaults
    BY <2>0, InputVersions DEF ScriptInv, Script!Settings
  <2>2. /\ disk' \in Script!Disks
        /\ \A g \in {"image", "symvers", "kstamp", "cstamp", "cpio"} :
             disk'[g] = disk[g]
    <3>1. CASE disk' = disk
      BY <3>1, <1>a
    <3>2. CASE disk' = [f \in DOMAIN disk |-> CASE f \in Script!Downloads -> "none"
                                                 [] f = "busybox" -> FALSE
                                                 [] OTHER -> disk[f]]
      BY <3>2, <1>a DEF Script!Disks, Script!Copies, Script!Downloads
    <3> QED BY <1>3, <3>1, <3>2 DEF Script!Start
  <2>3. Script!TypeOK'
    <3>1. {kconfig, defaults, local, script, iexpected}' \subseteq Script!Versions
      BY <2>0 DEF ScriptInv, Script!TypeOK
    <3> QED BY Zenon, <2>0, <2>1, <2>2, <3>1 DEF ScriptInv, Script!TypeOK, Script!locals
  <2>4. SourcedInv'
    BY <2>0, <2>1 DEF SourcedInv, Script!Sourcing
  <2> QED BY <2>0, <2>2, <2>3, <2>4, ScriptFrame DEF Elsewhere
<1>4. CASE Script!Interrupt
  <2>0. cut' \in BOOLEAN /\ (sstep = "unpack" => cut') /\ (sstep # "unpack" => cut' = cut)
    BY Zenon, <1>4, <1>a DEF Script!Interrupt
  <2>1. Script!TypeOK'
    BY <1>4, <1>a, <2>0, ScriptTypes DEF Script!Interrupt, Script!Stop
  <2>4. SourcedInv'
    BY <1>4, SourcedFrame DEF Script!Interrupt, Script!Stop, Script!Sourcing
  <2>2. CASE sstep # "unpack"
    BY <1>4, <2>0, <2>1, <2>2, <2>4, ScriptFrame
    DEF Script!Interrupt, Script!Stop, Elsewhere
  <2>3. CASE sstep = "unpack"
    BY <1>4, <2>0, <2>1, <2>3, <2>4
    DEF Script!Interrupt, Script!Stop, ScriptInv, InputInv, OlderInv
  <2> QED BY <2>2, <2>3
<1> QED BY <1>1, <1>2, <1>3, <1>4, <1>5, <1>6

\* Phase 1 touches no output and no stamp.
LEMMA ScriptDownload ==
    ASSUME ScriptInv, Script!download_kernel
    PROVE  ScriptInv'
<1>a. disk \in Script!Disks /\ cut \in BOOLEAN
  BY DEF ScriptInv, Script!TypeOK
<1>1. \/ UNCHANGED disk
      \/ \E f \in Script!Downloads, v \in Script!Copies :
           disk' = [disk EXCEPT ![f] = v]
  BY DEF Script!download_kernel, Script!SourceStep, Script!CurlKernel,
         Script!UntarKernel, Script!Fill, Script!Copies, Script!Downloads
<1>2. /\ disk' \in Script!Disks
      /\ \A g \in {"image", "symvers", "kstamp", "cstamp", "cpio"} :
           disk'[g] = disk[g]
  BY <1>1, <1>a, DiskUpdate DEF Script!Downloads
<1>3. UNCHANGED <<Script!inputs, sourced, cut, astray>> /\ UNCHANGED Script!locals
  BY DEF Script!download_kernel, Script!SourceStep, Script!CurlKernel,
         Script!UntarKernel, Script!Goto
<1>4. sstep \in Script!Sourcing /\ sstep' \in Script!Sourcing
  BY DEF Script!download_kernel, Script!SourceStep, Script!CurlKernel,
         Script!UntarKernel, Script!Goto, Script!Sourcing
<1>5. Script!TypeOK'
  BY <1>2, <1>3, <1>a, ScriptTypes
<1>6. SourcedInv'
  BY <1>3, <1>4, SourcedFrame
<1>7. sstep # "unpack" /\ sstep' \in Elsewhere
  BY <1>4 DEF Script!Sourcing, Elsewhere
<1> QED BY <1>2, <1>3, <1>5, <1>6, <1>7, ScriptFrame

\* A release: its download, its files one after the other, and the end.
LEMMA ScriptRelease ==
    ASSUME ScriptInv,
           \/ Script!Prebuilt \/ Script!NoPrebuilt \/ Script!Unpacked
           \/ Script!UnpackFails \/ \E f \in Script!Parts : Script!Unpack(f)
    PROVE  ScriptInv'
<1> USE MaxEditsAssumption
<1>a. /\ disk \in Script!Disks /\ cut \in BOOLEAN /\ astray \in BOOLEAN
      /\ disk.kstamp[1] \in Nat /\ disk.kstamp[2] \in Nat /\ disk.cstamp \in Nat
      /\ expected \in Script!Stamps /\ tag \in Script!Tags
      /\ sfiles \subseteq Script!Parts
  BY DiskParts DEF ScriptInv, Script!TypeOK
<1>b. /\ tag.kconfig \in Script!Versions /\ tag.defaults \in Script!Versions
      /\ tag.script \in Script!Versions
      /\ tag.kconfig \in Nat /\ tag.defaults \in Nat /\ tag.script \in Nat
      /\ expected[1] \in Nat /\ expected[2] \in Nat
  BY <1>a DEF Script!Tags, Script!Stamps, Script!Versions
<1>c. /\ kconfig \in Script!Versions /\ defaults \in Script!Versions
      /\ script \in Script!Versions /\ 0 \in Script!Versions
  BY InputVersions DEF ScriptInv
<1>1. CASE Script!Prebuilt
  <2>0. /\ sstep = "prebuilt" /\ sstep' = "unpack" /\ sfiles' = Script!Packed
        /\ tag' = [kconfig |-> kconfig, defaults |-> defaults, script |-> script]
        /\ UNCHANGED Script!inputs
        /\ UNCHANGED <<sourced, expected, iexpected, cut, astray, disk>>
    BY <1>1 DEF Script!Prebuilt
  <2>1. Script!TypeOK'
    <3>1. tag' \in Script!Tags
      BY <2>0, <1>c DEF Script!Tags
    <3>2. sfiles' \subseteq Script!Parts
      BY <2>0 DEF Script!Parts
    <3>3. {kconfig, defaults, local, script, iexpected}' \subseteq Script!Versions
      BY <2>0 DEF ScriptInv, Script!TypeOK
    <3> QED BY Zenon, <2>0, <3>1, <3>2, <3>3 DEF ScriptInv, Script!TypeOK
  <2>2. tag'.kconfig = kconfig /\ tag'.defaults = defaults /\ tag'.script = script
    BY <2>0
  <2>3. InputInv' /\ OlderInv'
    BY <2>0, <1>b, <2>2 DEF ScriptInv, InputInv, OlderInv
  <2>5. SourcedInv'
    BY <2>0, SourcedFrame
  <2>4. ~cut' => KernelStamp' /\ InitramfsStamp'
    BY <2>0, <2>2 DEF Script!Packed, ScriptInv, KernelStamp, InitramfsStamp
  <2> QED BY <2>1, <2>3, <2>4, <2>5 DEF ScriptInv
<1>5. CASE Script!NoPrebuilt
  <2>0. /\ sstep = "prebuilt" /\ sstep' = "make" /\ UNCHANGED Script!inputs
        /\ UNCHANGED <<sourced, Script!locals, cut, astray, disk>>
    BY <1>5 DEF Script!NoPrebuilt, Script!Goto
  <2>1. Script!TypeOK'
    BY <2>0, <1>a, ScriptTypes
  <2>3. InputInv' /\ OlderInv'
    BY <2>0 DEF ScriptInv, InputInv, OlderInv
  <2>5. SourcedInv'
    BY <2>0, SourcedFrame
  <2>4. ~cut' => KernelStamp' /\ InitramfsStamp'
    BY <2>0 DEF ScriptInv, KernelStamp, InitramfsStamp
  <2> QED BY <2>1, <2>3, <2>4, <2>5 DEF ScriptInv
<1>2. CASE Script!Unpacked
  <2>0. /\ sstep = "unpack" /\ sfiles = {} /\ sstep' = "phase3"
        /\ UNCHANGED Script!inputs
        /\ UNCHANGED <<sourced, Script!locals, cut, astray>>
        /\ disk' = [disk EXCEPT !["kstamp"] = expected]
    BY <1>2 DEF Script!Unpacked, Script!Goto
  <2>1. /\ disk' \in Script!Disks
        /\ disk'.kstamp = expected
        /\ \A g \in {"image", "symvers", "cstamp", "cpio"} : disk'[g] = disk[g]
    BY <2>0, <1>a, DiskUpdate
  <2>b. /\ disk'.image = disk.image /\ disk'.symvers = disk.symvers
        /\ disk'.cstamp = disk.cstamp /\ disk'.cpio = disk.cpio
    BY <2>1
  <2>2. Script!TypeOK'
    BY <2>0, <1>a, <2>1, ScriptTypes
  <2>3. InputInv' /\ OlderInv'
    BY <2>0, <2>1, <2>b DEF ScriptInv, InputInv, OlderInv
  <2>6. SourcedInv'
    BY <2>0, SourcedFrame DEF Script!Sourcing
  <2>c. IsCurrent(expected) => tag.kconfig = kconfig /\ tag.defaults = defaults
    BY <2>0, <1>b DEF ScriptInv, InputInv, OlderInv
  <2>4. ~cut' => KernelStamp'
    BY <2>0, <2>1, <2>b, <2>c DEF ScriptInv, KernelStamp
  <2>5. ~cut' => InitramfsStamp'
    BY <2>0, <2>1, <2>b DEF ScriptInv, InitramfsStamp
  <2> QED BY <2>2, <2>3, <2>4, <2>5, <2>6 DEF ScriptInv
<1>3. CASE Script!UnpackFails
  <2>0. cut' \in BOOLEAN /\ cut'
    BY Zenon, <1>3 DEF Script!UnpackFails
  <2>1. Script!TypeOK'
    BY <1>3, <1>a, <2>0, ScriptTypes DEF Script!UnpackFails
  <2>2. SourcedInv'
    BY <1>3, SourcedFrame DEF Script!UnpackFails
  <2> QED BY <1>3, <2>0, <2>1, <2>2 DEF Script!UnpackFails, ScriptInv, InputInv, OlderInv
<1>4. ASSUME NEW f \in Script!Parts, Script!Unpack(f)
      PROVE  ScriptInv'
  <2>0. /\ sstep = "unpack" /\ sstep' = "unpack" /\ f \in sfiles
        /\ UNCHANGED Script!inputs
        /\ UNCHANGED <<sourced, expected, iexpected, tag, cut, astray>>
        /\ sfiles' = (sfiles \ {f}) \union IF f = "cpio" THEN {"cpio_rest"} ELSE {}
    BY <1>4 DEF Script!Unpack
  <2>2. InputInv' /\ SourcedInv'
    BY <2>0, SourcedFrame DEF ScriptInv, InputInv
  <2>1. ASSUME disk' \in Script!Disks, OlderInv', ~cut' => KernelStamp' /\ InitramfsStamp'
        PROVE  ScriptInv'
    <3>1. sfiles' \subseteq Script!Parts
      BY <2>0, <1>a DEF Script!Parts
    <3>2. {kconfig, defaults, local, script, iexpected}' \subseteq Script!Versions
      BY <2>0 DEF ScriptInv, Script!TypeOK
    <3>3. Script!TypeOK'
      BY Zenon, <2>0, <2>1, <3>1, <3>2 DEF ScriptInv, Script!TypeOK
    <3> QED BY Zenon, <2>1, <2>2, <3>3 DEF ScriptInv
  <2>3. CASE f \in {"image", "symvers"}
    <3> DEFINE v == [kconfig |-> tag.kconfig, defaults |-> tag.defaults, local |-> 0]
    <3>1. disk' = [disk EXCEPT ![f] = v]
      BY <1>4, <2>3 DEF Script!Unpack
    <3>a. /\ v \in Script!Kernels
          /\ v.kconfig = tag.kconfig /\ v.defaults = tag.defaults
      BY <1>b, <1>c DEF Script!Kernels
    <3> HIDE DEF v
    <3>2. /\ disk' \in Script!Disks
          /\ disk'[f] = v
          /\ \A g \in {"image", "symvers", "kstamp", "cstamp", "cpio"} :
               g # f => disk'[g] = disk[g]
      BY <3>1, <3>a, <2>3, <1>a, DiskUpdate
    <3>3. /\ disk'.cstamp = disk.cstamp /\ disk'.cpio = disk.cpio
          /\ disk'.kstamp = disk.kstamp
          /\ disk'.image = IF f = "image" THEN v ELSE disk.image
          /\ disk'.symvers = IF f = "symvers" THEN v ELSE disk.symvers
      BY <3>2, <2>3
    <3>4. OlderInv'
      BY <2>0, <3>3 DEF ScriptInv, OlderInv
    <3>5. ~cut' => KernelStamp' /\ InitramfsStamp'
      BY <2>0, <2>3, <3>3, <3>a DEF ScriptInv, KernelStamp, InitramfsStamp
    <3> QED BY <2>1, <3>2, <3>4, <3>5
  <2>6. CASE f = "kstamp"
    <3> DEFINE v == <<tag.kconfig, tag.defaults>>
    <3>1. disk' = [disk EXCEPT !["kstamp"] = v]
      BY <1>4, <2>6 DEF Script!Unpack
    <3>a. v \in Script!Stamps /\ v[1] = tag.kconfig /\ v[2] = tag.defaults
      BY <1>b DEF Script!Stamps
    <3> HIDE DEF v
    <3>2. /\ disk' \in Script!Disks
          /\ disk'["kstamp"] = v
          /\ \A g \in {"image", "symvers", "kstamp", "cstamp", "cpio"} :
               g # "kstamp" => disk'[g] = disk[g]
      BY <3>1, <3>a, <1>a, DiskUpdate
    <3>3. /\ disk'.cstamp = disk.cstamp /\ disk'.cpio = disk.cpio
          /\ disk'.kstamp = v /\ disk'.image = disk.image
          /\ disk'.symvers = disk.symvers
      BY <3>2
    <3>4. OlderInv'
      BY <2>0, <3>3, <3>a DEF ScriptInv, OlderInv
    <3>5. ~cut' => KernelStamp' /\ InitramfsStamp'
      BY <2>0, <2>6, <3>3 DEF ScriptInv, KernelStamp, InitramfsStamp
    <3> QED BY <2>1, <3>2, <3>4, <3>5
  <2>4. CASE f = "cstamp"
    <3>1. disk' = [disk EXCEPT !["cstamp"] = tag.script]
      BY <1>4, <2>4 DEF Script!Unpack
    <3>2. /\ disk' \in Script!Disks
          /\ disk'["cstamp"] = tag.script
          /\ \A g \in {"image", "symvers", "kstamp", "cstamp", "cpio"} :
               g # "cstamp" => disk'[g] = disk[g]
      BY <3>1, <1>a, <1>b, DiskUpdate
    <3>3. /\ disk'.cstamp = tag.script /\ disk'.cpio = disk.cpio
          /\ disk'.kstamp = disk.kstamp /\ disk'.image = disk.image
          /\ disk'.symvers = disk.symvers
      BY <3>2
    <3>4. OlderInv'
      BY <2>0, <3>3 DEF ScriptInv, OlderInv
    <3>5. ~cut' => KernelStamp' /\ InitramfsStamp'
      BY <2>0, <2>4, <3>3 DEF ScriptInv, KernelStamp, InitramfsStamp
    <3> QED BY <2>1, <3>2, <3>4, <3>5
  <2>5. CASE f \in {"cpio", "cpio_rest"}
    <3> DEFINE b == [defaults |-> tag.defaults, local |-> 0]
               v == [of |-> tag.script, box |-> b, whole |-> f # "cpio"]
    <3>1. disk' = [disk EXCEPT !["cpio"] = v]
      BY <1>4, <2>5 DEF Script!Unpack
    <3>b. b \in Script!Settings
      BY <1>b, <1>c DEF Script!Settings
    <3> HIDE DEF b
    <3>2. v \in Script!Archives
      BY <1>b, <3>b DEF Script!Archives
    <3> HIDE DEF v
    <3>3. /\ disk' \in Script!Disks
          /\ disk'["cpio"] = v
          /\ \A g \in {"image", "symvers", "kstamp", "cstamp", "cpio"} :
               g # "cpio" => disk'[g] = disk[g]
      BY <3>1, <3>2, <1>a, DiskUpdate
    <3>4. disk'.cpio.of = tag.script /\ (f = "cpio_rest" => disk'.cpio.whole = TRUE)
      <4>1. v.of = tag.script
        BY DEF v
      <4>2. ASSUME f = "cpio_rest" PROVE v.whole = TRUE
        <5>1. (f # "cpio") = TRUE
          BY <4>2
        <5> QED BY <5>1 DEF v
      <4> QED BY <3>3, <4>1, <4>2
    <3>5. /\ disk'.cstamp = disk.cstamp
          /\ disk'.kstamp = disk.kstamp /\ disk'.image = disk.image
          /\ disk'.symvers = disk.symvers
      BY <3>3
    <3>6. OlderInv'
      BY <2>0, <3>5 DEF ScriptInv, OlderInv
    <3>7. ~cut' => KernelStamp' /\ InitramfsStamp'
      BY <2>0, <2>5, <3>4, <3>5 DEF ScriptInv, KernelStamp, InitramfsStamp
    <3> QED BY <2>1, <3>3, <3>6, <3>7
  <2> QED BY <2>3, <2>4, <2>5, <2>6 DEF Script!Parts, Script!Packed
<1> QED BY <1>1, <1>2, <1>3, <1>4, <1>5

\* Phase 2 without a release: it is skipped, or the kernel is built and its
\* stamp is written last.
LEMMA ScriptKernel ==
    ASSUME ScriptInv,
           \/ Script!SkipKernel \/ Script!PrepareKernel \/ Script!MakeImage
           \/ Script!MakePrepare \/ Script!StampKernel
    PROVE  ScriptInv'
<1> USE MaxEditsAssumption
<1>a. /\ disk \in Script!Disks /\ cut \in BOOLEAN
      /\ disk.image \in Script!Kernels /\ disk.kstamp \in Script!Stamps
      /\ expected \in Script!Stamps /\ sourced \in Script!Settings
      /\ iexpected \in Script!Versions
  BY DiskParts DEF ScriptInv, Script!TypeOK
<1>c. kconfig \in Script!Versions /\ defaults \in Script!Versions
  BY InputVersions DEF ScriptInv
<1>1. CASE Script!SkipKernel
  <2>1. Script!TypeOK'
    BY <1>1, <1>a, ScriptTypes DEF Script!SkipKernel, Script!Goto
  <2>2. SourcedInv'
    BY <1>1, SourcedFrame DEF Script!SkipKernel, Script!Goto, Script!Sourcing
  <2> QED BY <1>1, <2>1, <2>2, ScriptFrame DEF Script!SkipKernel, Script!Goto, Elsewhere
<1>2. CASE Script!PrepareKernel
  <2>0. /\ sstep = "phase2" /\ ~Script!KernelFresh /\ sstep' \in {"prebuilt", "make"}
        /\ expected' = <<kconfig, defaults>>
        /\ UNCHANGED Script!inputs
        /\ UNCHANGED <<sourced, iexpected, sfiles, tag, cut, astray, disk>>
    BY <1>2 DEF Script!PrepareKernel
  <2>a. expected' \in Script!Stamps /\ expected'[1] = kconfig /\ expected'[2] = defaults
    BY <2>0, <1>c DEF Script!Stamps
  <2>1. Script!TypeOK'
    BY <2>0, <2>a, <1>a, ScriptTypes
  <2>2. InputInv' /\ OlderInv'
    BY <2>0, <2>a DEF ScriptInv, InputInv, OlderInv
  <2>5. SourcedInv'
    BY <2>0 DEF ScriptInv, SourcedInv, Script!Sourcing
  <2>6. ASSUME ~cut PROVE ~IsCurrent(disk.kstamp)
    <3>1. SUFFICES ASSUME IsCurrent(disk.kstamp) PROVE FALSE
      OBVIOUS
    <3>2. disk.kstamp = <<kconfig, defaults>>
      BY <3>1, <1>a, StampParts
    <3>3. disk.image.kconfig = kconfig
      BY <2>0, <2>6, <3>1 DEF ScriptInv, KernelStamp
    <3>4. Script!NoKernel.kconfig # kconfig
      BY DEF Script!NoKernel, ScriptInv, InputInv
    <3>5. disk.image # Script!NoKernel
      BY <3>3, <3>4
    <3> QED BY <2>0, <3>2, <3>5 DEF Script!KernelFresh
  <2>3. ~cut' => KernelStamp'
    BY <2>0, <2>6 DEF KernelStamp
  <2>4. ~cut' => InitramfsStamp'
    BY <2>0 DEF ScriptInv, InitramfsStamp
  <2> QED BY <2>1, <2>2, <2>3, <2>4, <2>5 DEF ScriptInv
<1>3. CASE Script!MakeImage
  <2> DEFINE v == [kconfig |-> kconfig, defaults |-> sourced.defaults,
                   local |-> sourced.local]
  <2>0. /\ sstep = "make" /\ sstep' = "prepare"
        /\ UNCHANGED Script!inputs
        /\ UNCHANGED <<sourced, Script!locals, cut, astray>>
        /\ disk' = [disk EXCEPT !["image"] = v]
    BY <1>3 DEF Script!MakeImage, Script!Goto
  <2>a. /\ v \in Script!Kernels
        /\ v.kconfig = kconfig /\ v.defaults = sourced.defaults
    BY <1>a, <1>c DEF Script!Kernels, Script!Settings
  <2> HIDE DEF v
  <2>1. /\ disk' \in Script!Disks /\ disk'.image = v
        /\ \A g \in {"symvers", "kstamp", "cstamp", "cpio"} : disk'[g] = disk[g]
    BY <2>0, <2>a, <1>a, DiskUpdate, ZenonT(60)
  <2>2. /\ disk'.symvers = disk.symvers /\ disk'.kstamp = disk.kstamp
        /\ disk'.cstamp = disk.cstamp /\ disk'.cpio = disk.cpio
    BY <2>1
  <2>3. Script!TypeOK'
    BY <2>0, <1>a, <2>1, ScriptTypes
  <2>4. InputInv' /\ OlderInv'
    BY <2>0, <2>2 DEF ScriptInv, InputInv, OlderInv
  <2>7. SourcedInv'
    BY <2>0, SourcedFrame
  <2>5. ~cut' => KernelStamp'
    <3>1. IsCurrent(expected) => Current(v)
      BY <2>0, <2>a DEF ScriptInv, SourcedInv
    <3> QED BY <2>0, <2>1, <2>2, <3>1 DEF ScriptInv, KernelStamp
  <2>6. ~cut' => InitramfsStamp'
    BY <2>0, <2>2 DEF ScriptInv, InitramfsStamp
  <2> QED BY <2>3, <2>4, <2>5, <2>6, <2>7 DEF ScriptInv
<1>4. CASE Script!MakePrepare
  <2>0. /\ sstep = "prepare" /\ sstep' = "kstamp"
        /\ UNCHANGED Script!inputs
        /\ UNCHANGED <<sourced, Script!locals, cut, astray>>
        /\ disk' = [disk EXCEPT !["symvers"] = disk.image]
    BY <1>4 DEF Script!MakePrepare, Script!Goto
  <2>1. /\ disk' \in Script!Disks /\ disk'.symvers = disk.image
        /\ \A g \in {"image", "kstamp", "cstamp", "cpio"} : disk'[g] = disk[g]
    BY <2>0, <1>a, DiskUpdate
  <2>2. /\ disk'.image = disk.image /\ disk'.kstamp = disk.kstamp
        /\ disk'.cstamp = disk.cstamp /\ disk'.cpio = disk.cpio
    BY <2>1
  <2>3. Script!TypeOK'
    BY <2>0, <1>a, <2>1, ScriptTypes
  <2>4. InputInv' /\ OlderInv'
    BY <2>0, <2>2 DEF ScriptInv, InputInv, OlderInv
  <2>7. SourcedInv'
    BY <2>0, SourcedFrame
  <2>5. ~cut' => KernelStamp'
    BY <2>0, <2>1, <2>2 DEF ScriptInv, KernelStamp
  <2>6. ~cut' => InitramfsStamp'
    BY <2>0, <2>2 DEF ScriptInv, InitramfsStamp
  <2> QED BY <2>3, <2>4, <2>5, <2>6, <2>7 DEF ScriptInv
<1>5. CASE Script!StampKernel
  <2>0. /\ sstep = "kstamp" /\ sstep' = "phase3"
        /\ UNCHANGED Script!inputs
        /\ UNCHANGED <<sourced, Script!locals, cut, astray>>
        /\ disk' = [disk EXCEPT !["kstamp"] = expected]
    BY <1>5 DEF Script!StampKernel, Script!Goto
  <2>1. /\ disk' \in Script!Disks /\ disk'.kstamp = expected
        /\ \A g \in {"image", "symvers", "cstamp", "cpio"} : disk'[g] = disk[g]
    BY <2>0, <1>a, DiskUpdate
  <2>2. /\ disk'.image = disk.image /\ disk'.symvers = disk.symvers
        /\ disk'.cstamp = disk.cstamp /\ disk'.cpio = disk.cpio
    BY <2>1
  <2>3. Script!TypeOK'
    BY <2>0, <1>a, <2>1, ScriptTypes
  <2>4. InputInv' /\ OlderInv'
    BY <2>0, <2>1, <2>2 DEF ScriptInv, InputInv, OlderInv
  <2>7. SourcedInv'
    BY <2>0, SourcedFrame DEF Script!Sourcing
  <2>5. ~cut' => KernelStamp'
    BY <2>0, <2>1, <2>2 DEF ScriptInv, KernelStamp
  <2>6. ~cut' => InitramfsStamp'
    BY <2>0, <2>2 DEF ScriptInv, InitramfsStamp
  <2> QED BY <2>3, <2>4, <2>5, <2>6, <2>7 DEF ScriptInv
<1> QED BY <1>1, <1>2, <1>3, <1>4, <1>5

\* Building busybox touches no output and no stamp, and goes on to packing.
LEMMA ScriptBusybox ==
    ASSUME ScriptInv, Script!build_busybox
    PROVE  ScriptInv'
<1>a. disk \in Script!Disks /\ cut \in BOOLEAN
  BY DEF ScriptInv, Script!TypeOK
<1>1. \/ \E f \in Script!Downloads, v \in Script!Copies :
           disk' = [disk EXCEPT ![f] = v]
      \/ disk' = [disk EXCEPT !["busybox"] = TRUE]
  BY DEF Script!build_busybox, Script!BusyboxCurl, Script!BusyboxUntar,
         Script!BusyboxMake, Script!Fill, Script!Copies, Script!Downloads
<1>2. /\ disk' \in Script!Disks
      /\ \A g \in {"image", "symvers", "kstamp", "cstamp", "cpio"} :
           disk'[g] = disk[g]
  <2>1. CASE disk' = [disk EXCEPT !["busybox"] = TRUE]
    BY <2>1, <1>a DEF Script!Disks
  <2>2. ASSUME NEW f \in Script!Downloads, NEW v \in Script!Copies,
               disk' = [disk EXCEPT ![f] = v]
        PROVE  /\ disk' \in Script!Disks
               /\ \A g \in {"image", "symvers", "kstamp", "cstamp", "cpio"} :
                    disk'[g] = disk[g]
    BY <2>2, <1>a, DiskUpdate DEF Script!Downloads
  <2> QED BY <1>1, <2>1, <2>2
<1>3. UNCHANGED <<Script!inputs, sourced, cut, astray>> /\ UNCHANGED Script!locals
  BY DEF Script!build_busybox, Script!BusyboxCurl, Script!BusyboxUntar,
         Script!BusyboxMake, Script!Goto
<1>4. /\ sstep \in {"bbcurl", "bbuntar", "bbmake"}
      /\ sstep' \in {"bbcurl", "bbuntar", "bbmake", "pack"}
  BY DEF Script!build_busybox, Script!BusyboxCurl, Script!BusyboxUntar,
         Script!BusyboxMake, Script!Goto
<1>5. Script!TypeOK'
  BY <1>2, <1>3, <1>a, ScriptTypes
<1>6. /\ disk'.image = disk.image /\ disk'.symvers = disk.symvers
      /\ disk'.kstamp = disk.kstamp /\ disk'.cstamp = disk.cstamp
      /\ disk'.cpio = disk.cpio
  BY <1>2
<1>7. InputInv' /\ OlderInv'
  BY <1>3, <1>4, <1>6 DEF ScriptInv, InputInv, OlderInv
<1>9. SourcedInv'
  BY <1>3, <1>4, SourcedFrame DEF Script!Sourcing
<1>8. ~cut' => KernelStamp' /\ InitramfsStamp'
  BY <1>3, <1>4, <1>6 DEF ScriptInv, KernelStamp, InitramfsStamp
<1> QED BY <1>5, <1>7, <1>8, <1>9 DEF ScriptInv

\* Phase 3: it is skipped, or the archive is made and its stamp is written
\* last.
LEMMA ScriptInitramfs ==
    ASSUME ScriptInv,
           \/ Script!SkipInitramfs \/ Script!PrepareInitramfs \/ Script!Pack
           \/ Script!Gzip \/ Script!StampInitramfs
    PROVE  ScriptInv'
<1> USE MaxEditsAssumption
<1>a. /\ disk \in Script!Disks /\ cut \in BOOLEAN
      /\ disk.cpio \in Script!Archives
      /\ expected \in Script!Stamps /\ iexpected \in Script!Versions
      /\ sourced \in Script!Settings
  BY DiskParts DEF ScriptInv, Script!TypeOK
<1>c. script \in Script!Versions
  BY InputVersions DEF ScriptInv
<1>1. CASE Script!SkipInitramfs
  <2>1. Script!TypeOK'
    BY <1>1, <1>a, ScriptTypes DEF Script!SkipInitramfs, Script!Stop
  <2>2. SourcedInv'
    BY <1>1, SourcedFrame DEF Script!SkipInitramfs, Script!Stop, Script!Sourcing
  <2> QED BY <1>1, <2>1, <2>2, ScriptFrame
          DEF Script!SkipInitramfs, Script!Stop, Elsewhere
<1>2. CASE Script!PrepareInitramfs
  <2>2. /\ sstep = "phase3" /\ sstep' \in {"bbcurl", "bbuntar", "bbmake", "pack"}
        /\ iexpected' = script /\ UNCHANGED Script!inputs
        /\ UNCHANGED <<sourced, expected, sfiles, tag, cut, astray, disk>>
    BY <1>2 DEF Script!PrepareInitramfs
  <2>1. Script!TypeOK'
    BY <2>2, <1>a, <1>c, ScriptTypes
  <2>3. InputInv' /\ OlderInv'
    BY <2>2 DEF ScriptInv, InputInv, OlderInv
  <2>7. SourcedInv'
    BY <2>2, SourcedFrame DEF Script!Sourcing
  <2>4. ~cut' => KernelStamp'
    BY <2>2 DEF ScriptInv, KernelStamp
  <2>5. ASSUME ~cut PROVE disk.cstamp # script
    <3>1. SUFFICES ASSUME disk.cstamp = script PROVE disk.cpio # Script!NoCpio
      BY <1>2 DEF Script!PrepareInitramfs, Script!InitramfsFresh
    <3>2. disk.cpio.of = script /\ script >= 1
      BY <2>2, <2>5, <3>1 DEF ScriptInv, InputInv, InitramfsStamp
    <3>3. Script!NoCpio.of = 0
      BY DEF Script!NoCpio
    <3> QED BY <3>2, <3>3
  <2>6. ~cut' => InitramfsStamp'
    BY <2>2, <2>5 DEF ScriptInv, InitramfsStamp
  <2> QED BY <2>1, <2>3, <2>4, <2>6, <2>7 DEF ScriptInv
<1>3. CASE Script!Pack
  <2> DEFINE v == [of |-> script, box |-> sourced, whole |-> FALSE]
  <2>0. v \in Script!Archives /\ v.of = script
    BY <1>a, <1>c DEF Script!Archives
  <2>1. /\ sstep = "pack" /\ sstep' = "gzip" /\ UNCHANGED Script!inputs
        /\ UNCHANGED <<sourced, Script!locals, cut, astray>>
        /\ disk' = [disk EXCEPT !["cpio"] = v]
    BY <1>3 DEF Script!Pack, Script!Goto
  <2> HIDE DEF v
  <2>2. /\ disk' \in Script!Disks /\ disk'.cpio = v
        /\ \A g \in {"image", "symvers", "kstamp", "cstamp"} : disk'[g] = disk[g]
    BY <2>0, <2>1, <1>a, DiskUpdate
  <2>3. /\ disk'.image = disk.image /\ disk'.symvers = disk.symvers
        /\ disk'.kstamp = disk.kstamp /\ disk'.cstamp = disk.cstamp
        /\ disk'.cpio.of = script
    BY <2>0, <2>2
  <2>4. Script!TypeOK'
    BY <2>1, <1>a, <2>2, ScriptTypes
  <2>5. InputInv' /\ OlderInv'
    BY <2>1, <2>3 DEF ScriptInv, InputInv, OlderInv
  <2>8. SourcedInv'
    BY <2>1, SourcedFrame DEF Script!Sourcing
  <2>6. ~cut' => KernelStamp'
    BY <2>1, <2>3 DEF ScriptInv, KernelStamp
  <2>7. ~cut' => InitramfsStamp'
    BY <2>1, <2>3 DEF ScriptInv, InitramfsStamp
  <2> QED BY <2>4, <2>5, <2>6, <2>7, <2>8 DEF ScriptInv
<1>4. CASE Script!Gzip
  <2> DEFINE v == [disk.cpio EXCEPT !.whole = TRUE]
  <2>0. /\ v \in Script!Archives
        /\ v.of = disk.cpio.of /\ v.whole = TRUE
    BY <1>a DEF Script!Archives
  <2>1. /\ sstep = "gzip" /\ sstep' = "cstamp" /\ UNCHANGED Script!inputs
        /\ UNCHANGED <<sourced, Script!locals, cut, astray>>
        /\ disk' = [disk EXCEPT !["cpio"] = v]
    BY <1>4 DEF Script!Gzip, Script!Goto
  <2> HIDE DEF v
  <2>2. /\ disk' \in Script!Disks /\ disk'.cpio = v
        /\ \A g \in {"image", "symvers", "kstamp", "cstamp"} : disk'[g] = disk[g]
    BY <2>0, <2>1, <1>a, DiskUpdate
  <2>3. /\ disk'.image = disk.image /\ disk'.symvers = disk.symvers
        /\ disk'.kstamp = disk.kstamp /\ disk'.cstamp = disk.cstamp
        /\ disk'.cpio.of = disk.cpio.of /\ disk'.cpio.whole = TRUE
    BY <2>0, <2>2
  <2>4. Script!TypeOK'
    BY <2>1, <1>a, <2>2, ScriptTypes
  <2>5. InputInv' /\ OlderInv'
    BY <2>1, <2>3 DEF ScriptInv, InputInv, OlderInv
  <2>8. SourcedInv'
    BY <2>1, SourcedFrame DEF Script!Sourcing
  <2>6. ~cut' => KernelStamp'
    BY <2>1, <2>3 DEF ScriptInv, KernelStamp
  <2>7. ~cut' => InitramfsStamp'
    BY <2>1, <2>3 DEF ScriptInv, InitramfsStamp
  <2> QED BY <2>4, <2>5, <2>6, <2>7, <2>8 DEF ScriptInv
<1>5. CASE Script!StampInitramfs
  <2>0. /\ sstep = "cstamp" /\ Script!Stop /\ sstep' = "idle"
        /\ UNCHANGED Script!inputs /\ UNCHANGED <<sourced, cut, astray>>
        /\ disk' = [disk EXCEPT !["cstamp"] = iexpected]
    BY <1>5 DEF Script!StampInitramfs, Script!Stop
  <2>1. /\ disk' \in Script!Disks /\ disk'.cstamp = iexpected
        /\ \A g \in {"image", "symvers", "kstamp", "cpio"} : disk'[g] = disk[g]
    BY <2>0, <1>a, DiskUpdate
  <2>2. /\ disk'.image = disk.image /\ disk'.symvers = disk.symvers
        /\ disk'.kstamp = disk.kstamp /\ disk'.cpio = disk.cpio
    BY <2>1
  <2>3. Script!TypeOK'
    BY <2>0, <1>a, <2>1, ScriptTypes
  <2>4. InputInv' /\ OlderInv'
    BY <2>0, <2>1, <2>2 DEF ScriptInv, InputInv, OlderInv
  <2>7. SourcedInv'
    BY <2>0, SourcedFrame DEF Script!Sourcing
  <2>5. ~cut' => KernelStamp'
    BY <2>0, <2>2 DEF ScriptInv, KernelStamp
  <2>6. ~cut' => InitramfsStamp'
    BY <2>0, <2>1, <2>2 DEF ScriptInv, InitramfsStamp
  <2> QED BY <2>3, <2>4, <2>5, <2>6, <2>7 DEF ScriptInv
<1> QED BY <1>1, <1>2, <1>3, <1>4, <1>5

\* Every step of setup.sh and of its user keeps the invariant.
LEMMA ScriptStep == ScriptInv /\ [Script!Next]_(Script!vars) => ScriptInv'
<1> SUFFICES ASSUME ScriptInv, [Script!Next]_(Script!vars) PROVE ScriptInv'
  OBVIOUS
<1>1. CASE UNCHANGED Script!vars
  BY <1>1 DEF Script!vars, ScriptInv, Script!TypeOK, InputInv, OlderInv, SourcedInv,
              KernelStamp, InitramfsStamp
<1>2. CASE Script!Next
  BY <1>2, ScriptUser, ScriptDownload, ScriptRelease, ScriptKernel, ScriptBusybox,
     ScriptInitramfs
  DEF Script!Next, Script!build_kernel, Script!build_initramfs
<1> QED BY <1>1, <1>2

\* What the script skips is current, and everything has its type.
LEMMA ScriptInvIsEnough ==
    ScriptInv => Script!TypeOK /\ Script!SkippedOutputIsCurrent
<1> SUFFICES ASSUME ScriptInv PROVE Script!SkippedOutputIsCurrent
  BY DEF ScriptInv
<1>1. ASSUME ~cut, sstep = "phase2", Script!KernelFresh
      PROVE  Current(disk.image) /\ Current(disk.symvers)
  <2>1. IsCurrent(disk.kstamp)
    BY <1>1 DEF Script!KernelFresh
  <2> QED BY <1>1, <2>1 DEF ScriptInv, KernelStamp
<1>2. ASSUME ~cut, sstep = "phase3", Script!InitramfsFresh
      PROVE  disk.cpio.of = script /\ disk.cpio.whole
  BY <1>2 DEF ScriptInv, InitramfsStamp, Script!InitramfsFresh
<1> QED BY <1>1, <1>2 DEF Script!SkippedOutputIsCurrent

-----------------------------------------------------------------------------
(* procfs4.c.                                                              *)

\* A pass: nothing is in the buffer until my_seq_next has moved the
\* position; after that the line is got or still to be got.
PassInv ==
    /\ pass \in [Files -> Nat] /\ ended = [f \in Files |-> LINE]
    /\ \A f \in Files :
         /\ index[f] = 0 => pass[f] = 0 /\ unread[f] = 0
         /\ index[f] = 1 => pass[f] + unread[f] = LINE
         /\ loop[f] # "idle" => index[f] = 0

\* A file whose reads were long enough has nothing left in the buffer, and
\* the line it has got is the one of this pass.
WholeInv ==
    \A f \in Files : f \notin pieces =>
        /\ lines[f] = index[f] /\ unread[f] = 0
        /\ loop[f] # "idle" => LINE <= want[f]

\* Without overlapping reads the counter counts the calls of my_seq_next,
\* and nobody else stores between the load and the store of one.
CountInv ==
    /\ counter = nexts
    /\ \A f, g \in Files : loop[f] # "idle" /\ loop[g] # "idle" => f = g
    /\ \A f \in Files : loop[f] = "store" => reg[f] = counter
    /\ \A f \in Files : line[f][1] = line[f][2]

SeqFileInv ==
    /\ SeqF!TypeOK /\ PassInv /\ WholeInv
    /\ line \in [Files -> Nat \X Nat]
    /\ ~mixed => CountInv

\* The first states satisfy the invariant.
LEMMA SeqFileInit == SeqF!Init => SeqFileInv
<1> SUFFICES ASSUME SeqF!Init PROVE SeqFileInv
  OBVIOUS
<1> USE LinesAssumption
<1>1. SeqF!TypeOK
  <2>1. mixed \in BOOLEAN
    BY Zenon DEF SeqF!Init
  <2> QED BY <2>1 DEF SeqF!Init, SeqF!TypeOK
<1>2. PassInv /\ WholeInv
  BY DEF SeqF!Init, PassInv, WholeInv
<1>3. line \in [Files -> Nat \X Nat] /\ \A f \in Files : line[f][1] = line[f][2]
  BY DEF SeqF!Init
<1>4. CountInv
  BY <1>3 DEF SeqF!Init, CountInv
<1> QED BY <1>1, <1>2, <1>3, <1>4 DEF SeqFileInv

\* The types and the passes.
LEMMA PassStep ==
    ASSUME SeqFileInv, NEW f \in Files,
           \/ SeqF!StartEnds(f) \/ SeqF!Show(f)
           \/ SeqF!NextLoad(f) \/ SeqF!NextStore(f) \/ SeqF!Rewind(f)
           \/ \E len \in Lens : \/ SeqF!Start(f, len) \/ SeqF!ReadLeft(f, len)
                                \/ SeqF!ReadLeftEnds(f, len)
    PROVE  SeqF!TypeOK' /\ PassInv' /\ WholeInv' /\ line' \in [Files -> Nat \X Nat]
<1> USE LinesAssumption
<1>0. mixed' \in BOOLEAN
  BY Zenon DEF SeqFileInv, SeqF!TypeOK, SeqF!Start, SeqF!StartEnds, SeqF!Show,
     SeqF!NextLoad, SeqF!NextStore, SeqF!Rewind, SeqF!ReadLeft, SeqF!ReadLeftEnds
<1>1. ASSUME NEW len \in Lens, SeqF!Start(f, len)
      PROVE  SeqF!TypeOK' /\ PassInv' /\ WholeInv' /\ line' \in [Files -> Nat \X Nat]
  <2>1. SeqF!TypeOK'
    BY <1>0, <1>1 DEF SeqF!Start, SeqFileInv, SeqF!TypeOK
  <2>2. PassInv'
    BY <1>1 DEF SeqF!Start, SeqFileInv, SeqF!TypeOK, PassInv
  <2>3. WholeInv'
    BY <1>1 DEF SeqF!Start, SeqFileInv, SeqF!TypeOK, WholeInv
  <2> QED BY <1>1, <2>1, <2>2, <2>3 DEF SeqF!Start, SeqFileInv
<1>2. CASE SeqF!StartEnds(f)
  <2>1. SeqF!TypeOK'
    BY <1>0, <1>2 DEF SeqF!StartEnds, SeqF!StartedAt, SeqFileInv, SeqF!TypeOK
  <2>2. index[f] = 1 /\ pass[f] = LINE
    BY <1>2 DEF SeqF!StartEnds, SeqFileInv, SeqF!TypeOK, PassInv
  <2>3. PassInv'
    BY <1>2, <2>2
    DEF SeqF!StartEnds, SeqF!StartedAt, SeqFileInv, SeqF!TypeOK, PassInv
  <2>4. WholeInv'
    BY <1>2 DEF SeqF!StartEnds, SeqF!StartedAt, SeqFileInv, SeqF!TypeOK, WholeInv
  <2> QED BY <1>2, <2>1, <2>3, <2>4 DEF SeqF!StartEnds, SeqFileInv
<1>3. CASE SeqF!Show(f)
  <2>1. SeqF!TypeOK'
    BY <1>0, <1>3 DEF SeqF!Show, SeqFileInv, SeqF!TypeOK
  <2>2. PassInv'
    BY <1>3 DEF SeqF!Show, SeqFileInv, SeqF!TypeOK, PassInv
  <2>3. WholeInv'
    BY <1>3 DEF SeqF!Show, SeqFileInv, SeqF!TypeOK, WholeInv
  <2>4. line' \in [Files -> Nat \X Nat]
    BY <1>3 DEF SeqF!Show, SeqFileInv, SeqF!TypeOK
  <2> QED BY <2>1, <2>2, <2>3, <2>4
<1>4. CASE SeqF!NextLoad(f)
  <2>1. SeqF!TypeOK'
    BY <1>0, <1>4 DEF SeqF!NextLoad, SeqFileInv, SeqF!TypeOK
  <2>2. PassInv'
    BY <1>4 DEF SeqF!NextLoad, SeqFileInv, SeqF!TypeOK, PassInv
  <2>3. WholeInv'
    BY <1>4 DEF SeqF!NextLoad, SeqFileInv, SeqF!TypeOK, WholeInv
  <2> QED BY <1>4, <2>1, <2>2, <2>3 DEF SeqF!NextLoad, SeqFileInv
<1>5. CASE SeqF!NextStore(f)
  <2> DEFINE n == SeqF!AtMost(want[f], LINE)
  <2>0. index[f] = 0 /\ pass[f] = 0
    BY <1>5 DEF SeqF!NextStore, SeqFileInv, PassInv
  <2>1. n \in 0 .. LINE /\ (LINE <= want[f] => n = LINE)
    BY DEF SeqFileInv, SeqF!TypeOK, SeqF!AtMost
  <2>2. /\ index' = [index EXCEPT ![f] = @ + 1]
        /\ pass' = [pass EXCEPT ![f] = n]
        /\ unread' = [unread EXCEPT ![f] = LINE - n]
        /\ lines' = [lines EXCEPT ![f] = @ + 1]
        /\ loop' = [loop EXCEPT ![f] = "idle"]
        /\ loop[f] = "store"
        /\ counter' = reg[f] + 1 /\ nexts' = nexts + 1
        /\ want' = [want EXCEPT ![f] = 0]
        /\ UNCHANGED <<reg, pieces, line, ended, mixed>>
    BY <1>5 DEF SeqF!NextStore
  <2> HIDE DEF n
  <2>3. SeqF!TypeOK'
    BY <1>0, <2>0, <2>1, <2>2 DEF SeqFileInv, SeqF!TypeOK
  <2>4. PassInv'
    BY <2>0, <2>1, <2>2 DEF SeqFileInv, SeqF!TypeOK, PassInv
  <2>5. WholeInv'
    BY <2>0, <2>1, <2>2 DEF SeqFileInv, SeqF!TypeOK, WholeInv
  <2> QED BY <2>2, <2>3, <2>4, <2>5 DEF SeqFileInv
<1>6. CASE SeqF!Rewind(f)
  <2>1. SeqF!TypeOK'
    BY <1>0, <1>6 DEF SeqF!Rewind, SeqFileInv, SeqF!TypeOK
  <2>2. PassInv'
    BY <1>6 DEF SeqF!Rewind, SeqFileInv, SeqF!TypeOK, PassInv
  <2>3. WholeInv'
    BY <1>6 DEF SeqF!Rewind, SeqFileInv, SeqF!TypeOK, WholeInv
  <2> QED BY <1>6, <2>1, <2>2, <2>3 DEF SeqF!Rewind, SeqFileInv
<1>7. ASSUME NEW len \in Lens, SeqF!ReadLeft(f, len)
      PROVE  SeqF!TypeOK' /\ PassInv' /\ WholeInv' /\ line' \in [Files -> Nat \X Nat]
  <2>1. unread[f] \in 0 .. LINE /\ unread[f] > 0 /\ index[f] = 1 /\ f \in pieces
    BY <1>7 DEF SeqF!ReadLeft, SeqFileInv, SeqF!TypeOK, PassInv, WholeInv
  <2>2. SeqF!TypeOK'
    BY <1>0, <1>7, <2>1 DEF SeqF!ReadLeft, SeqFileInv, SeqF!TypeOK
  <2>3. PassInv'
    BY <1>7, <2>1 DEF SeqF!ReadLeft, SeqFileInv, SeqF!TypeOK, PassInv
  <2>4. WholeInv'
    BY <1>7, <2>1 DEF SeqF!ReadLeft, SeqFileInv, SeqF!TypeOK, WholeInv
  <2> QED BY <1>7, <2>2, <2>3, <2>4 DEF SeqF!ReadLeft, SeqFileInv
<1>8. ASSUME NEW len \in Lens, SeqF!ReadLeftEnds(f, len)
      PROVE  SeqF!TypeOK' /\ PassInv' /\ WholeInv' /\ line' \in [Files -> Nat \X Nat]
  <2>1. /\ unread[f] \in 0 .. LINE /\ unread[f] > 0 /\ f \in pieces
        /\ pass[f] + unread[f] = LINE
    BY <1>8 DEF SeqF!ReadLeftEnds, SeqFileInv, SeqF!TypeOK, PassInv, WholeInv
  <2>2. SeqF!TypeOK'
    BY <1>0, <1>8, <2>1
    DEF SeqF!ReadLeftEnds, SeqF!StartedAt, SeqFileInv, SeqF!TypeOK
  <2>3. PassInv'
    BY <1>8, <2>1
    DEF SeqF!ReadLeftEnds, SeqF!StartedAt, SeqFileInv, SeqF!TypeOK, PassInv
  <2>4. WholeInv'
    BY <1>8, <2>1
    DEF SeqF!ReadLeftEnds, SeqF!StartedAt, SeqFileInv, SeqF!TypeOK, WholeInv
  <2> QED BY <1>8, <2>2, <2>3, <2>4 DEF SeqF!ReadLeftEnds, SeqFileInv
<1> QED BY <1>1, <1>2, <1>3, <1>4, <1>5, <1>6, <1>7, <1>8

\* Every step keeps the invariant.
LEMMA SeqFileStep == SeqFileInv /\ [SeqF!Next]_(SeqF!vars) => SeqFileInv'
<1> SUFFICES ASSUME SeqFileInv, [SeqF!Next]_(SeqF!vars) PROVE SeqFileInv'
  OBVIOUS
<1>1. CASE UNCHANGED SeqF!vars
  BY <1>1 DEF SeqF!vars, SeqFileInv, SeqF!TypeOK, PassInv, WholeInv, CountInv
<1>2. ASSUME NEW f \in Files,
             \/ SeqF!StartEnds(f) \/ SeqF!Show(f)
             \/ SeqF!NextLoad(f) \/ SeqF!NextStore(f) \/ SeqF!Rewind(f)
             \/ \E len \in Lens : \/ SeqF!Start(f, len) \/ SeqF!ReadLeft(f, len)
                                  \/ SeqF!ReadLeftEnds(f, len)
      PROVE  SeqFileInv'
  <2>1. SeqF!TypeOK' /\ PassInv' /\ WholeInv' /\ line' \in [Files -> Nat \X Nat]
    BY <1>2, PassStep
  <2>2. ASSUME ~mixed' PROVE CountInv'
    <3>0. mixed => mixed'
      BY Zenon, <1>2 DEF SeqF!Start, SeqF!StartEnds, SeqF!Show, SeqF!NextLoad,
         SeqF!NextStore, SeqF!Rewind, SeqF!ReadLeft, SeqF!ReadLeftEnds
    <3>1. CountInv /\ loop \in [Files -> {"idle", "show", "load", "store"}]
          /\ reg \in [Files -> Nat] /\ line \in [Files -> Nat \X Nat]
      BY <3>0, <2>2 DEF SeqFileInv, SeqF!TypeOK
    <3>2. CASE \E len \in Lens : SeqF!Start(f, len)
      <4>1. \A g \in Files : loop[g] = "idle"
        BY <3>2, <2>2 DEF SeqF!Start
      <4> QED BY <3>1, <3>2, <4>1 DEF SeqF!Start, CountInv
    <3>3. CASE SeqF!Show(f)
      <4>1. \A g \in Files : line'[g] = IF g = f THEN <<counter, nexts>> ELSE line[g]
        BY <3>1, <3>3 DEF SeqF!Show
      <4>2. \A g \in Files : line'[g][1] = line'[g][2]
        BY <3>1, <4>1 DEF CountInv
      <4> QED BY <3>1, <3>3, <4>2 DEF SeqF!Show, CountInv
    <3>4. CASE SeqF!NextLoad(f)
      BY <3>1, <3>4 DEF SeqF!NextLoad, CountInv
    <3>5. CASE SeqF!NextStore(f)
      <4>1. \A g \in Files : loop'[g] # "idle" => FALSE
        BY <3>1, <3>5 DEF SeqF!NextStore, CountInv
      <4> QED BY <3>1, <3>5, <4>1 DEF SeqF!NextStore, CountInv
    <3>6. CASE \/ SeqF!StartEnds(f) \/ SeqF!Rewind(f)
               \/ \E len \in Lens : SeqF!ReadLeft(f, len) \/ SeqF!ReadLeftEnds(f, len)
      BY <3>1, <3>6 DEF SeqF!StartEnds, SeqF!Rewind, SeqF!ReadLeft, SeqF!ReadLeftEnds,
         CountInv
    <3> QED BY <1>2, <3>2, <3>3, <3>4, <3>5, <3>6
  <2> QED BY <2>1, <2>2 DEF SeqFileInv
<1> QED BY <1>1, <1>2 DEF SeqF!Next

\* A pass is one line, and without overlaps the lines count the passes.
LEMMA SeqFileInvIsEnough ==
    SeqFileInv => SeqF!TypeOK /\ SeqF!LineThenEof /\ SeqF!LinesCountPasses
<1> SUFFICES ASSUME SeqFileInv
             PROVE  SeqF!LineThenEof /\ SeqF!LinesCountPasses
  BY DEF SeqFileInv
<1>1. SeqF!LineThenEof
  BY LinesAssumption DEF SeqFileInv, SeqF!TypeOK, PassInv, WholeInv, SeqF!LineThenEof
<1>2. SeqF!LinesCountPasses
  BY DEF SeqFileInv, CountInv, SeqF!LinesCountPasses
<1> QED BY <1>1, <1>2

-----------------------------------------------------------------------------
(* vinput_read, vinput_write and vkbd.c.                                   *)

\* What is known of a reader since it has opened the file.
Eyes == [pos : Nat, ample : BOOLEAN, plain : BOOLEAN, from : SUBSET Int, got : Nat,
         eof : BOOLEAN, over : BOOLEAN]

\* A position is within buff; and if every count was above VINPUT_MAX_LEN,
\* each read that returned something ended at the end of the text there was.
EyeInv ==
    /\ eye \in [Readers -> Eyes]
    /\ \A r \in Readers :
         /\ eye[r].pos = eye[r].got /\ eye[r].pos <= MAX_LEN /\ ~eye[r].over
         /\ eye[r].ample => /\ eye[r].plain
                            /\ \A e \in eye[r].from :
                                 eye[r].from = {e} => eye[r].got = Kbd!TextLen(e)

\* One typist at a time: its key is the entry from the store to the report.
SendInv ==
    /\ \A t, u \in Typists : typist[t].pc # "idle" /\ typist[u].pc # "idle" => t = u
    /\ \A t \in Typists : typist[t].pc = "stored" => lastEntry = typist[t].key
    /\ (\A t \in Typists : typist[t].pc # "stored") => lastEntry = reported

TypistTypes ==
    /\ lastEntry \in Keys \union {0} /\ reported \in Int
    /\ sends \in 0 .. MaxSends
    /\ typist \in [Typists -> [pc : {"idle", "parsed", "stored"},
                               key : Keys \union {0}]]

KbdInv ==
    /\ TypistTypes /\ crossed \in BOOLEAN /\ EyeInv
    /\ ~crossed => SendInv

\* The event of a key is the key.
LEMMA EventIsKey == \A key \in Int : Kbd!EventOf(key) = key
BY DEF Kbd!EventOf

\* The first states satisfy the invariant.
LEMMA KbdInit == Kbd!Init => KbdInv
<1> SUFFICES ASSUME Kbd!Init PROVE KbdInv
  OBVIOUS
<1>1. TypistTypes
  BY KeysAssumption DEF Kbd!Init, Kbd!Waiting, TypistTypes
<1>2. crossed \in BOOLEAN
  BY Zenon DEF Kbd!Init
<1>3. EyeInv
  <2>1. Kbd!Opened \in Eyes
    <3>1. TRUE \in BOOLEAN /\ FALSE \in BOOLEAN
      BY Zenon
    <3> QED BY <3>1 DEF Kbd!Opened, Eyes
  <2>2. eye \in [Readers -> Eyes] /\ \A r \in Readers : eye[r] = Kbd!Opened
    BY <2>1 DEF Kbd!Init
  <2>3. /\ Kbd!Opened.pos = 0 /\ Kbd!Opened.got = 0 /\ ~Kbd!Opened.over
        /\ Kbd!Opened.plain /\ Kbd!Opened.from = {}
    BY DEF Kbd!Opened
  <2> QED BY <2>2, <2>3, KeysAssumption DEF EyeInv
<1>4. SendInv
  BY DEF Kbd!Init, Kbd!Waiting, SendInv
<1> QED BY <1>1, <1>2, <1>3, <1>4 DEF KbdInv

\* The typists.
LEMMA TypistStep ==
    ASSUME KbdInv, NEW t \in Typists,
           \/ Kbd!StoreEntry(t) \/ Kbd!Report(t)
           \/ \E number \in Keys, junk \in BOOLEAN : Kbd!Write(t, number, junk)
    PROVE  KbdInv'
<1> USE KeysAssumption
<1>a. Keys \subseteq Int /\ \A k \in Keys \union {0} : k \in Int
  OBVIOUS
<1>0. eye' = eye
  BY DEF Kbd!StoreEntry, Kbd!Report, Kbd!Write
<1>1. EyeInv'
  BY <1>0 DEF KbdInv, EyeInv
<1>2. crossed' \in BOOLEAN /\ (crossed => crossed')
  BY Zenon DEF KbdInv, Kbd!StoreEntry, Kbd!Report, Kbd!Write
<1>3. CASE Kbd!StoreEntry(t)
  <2>1. TypistTypes'
    BY <1>3 DEF Kbd!StoreEntry, KbdInv, TypistTypes
  <2>2. SendInv => SendInv'
    BY <1>3 DEF Kbd!StoreEntry, KbdInv, TypistTypes, SendInv
  <2> QED BY <1>1, <1>2, <2>1, <2>2 DEF KbdInv
<1>4. CASE Kbd!Report(t)
  <2>0. reported' = typist[t].key /\ typist[t].key \in Keys \union {0}
    <3>1. reported' = Kbd!EventOf(typist[t].key)
      BY <1>4 DEF Kbd!Report
    <3>2. typist[t].key \in Keys \union {0}
      BY DEF KbdInv, TypistTypes
    <3>3. typist[t].key \in Int
      BY <3>2, <1>a
    <3> QED BY <3>1, <3>2, <3>3, EventIsKey
  <2>1. TypistTypes'
    BY <1>4, <1>a, <2>0 DEF Kbd!Report, Kbd!Waiting, KbdInv, TypistTypes
  <2>2. SendInv => SendInv'
    <3> SUFFICES ASSUME SendInv PROVE SendInv'
      OBVIOUS
    <3>1. lastEntry = typist[t].key /\ lastEntry' = lastEntry
      BY <1>4 DEF Kbd!Report, SendInv
    <3>2. \A u \in Typists : typist'[u].pc = "idle"
      <4>1. \A u \in Typists : u # t => typist[u].pc = "idle"
        BY <1>4 DEF Kbd!Report, SendInv
      <4>2. typist' = [typist EXCEPT ![t] = Kbd!Waiting] /\ Kbd!Waiting.pc = "idle"
        BY <1>4 DEF Kbd!Report, Kbd!Waiting
      <4> QED BY <4>1, <4>2 DEF KbdInv, TypistTypes
    <3> QED BY <2>0, <3>1, <3>2 DEF SendInv
  <2> QED BY <1>1, <1>2, <2>1, <2>2 DEF KbdInv
<1>5. ASSUME NEW number \in Keys, NEW junk \in BOOLEAN, Kbd!Write(t, number, junk)
      PROVE  KbdInv'
  <2>0. Kbd!Parsed(number, junk) \in Keys \union {0}
    BY DEF Kbd!Parsed
  <2>1. TypistTypes'
    BY <1>5, <2>0 DEF Kbd!Write, KbdInv, TypistTypes
  <2>2. ASSUME ~crossed' PROVE SendInv'
    <3>1. SendInv
      BY <1>2, <2>2 DEF KbdInv
    <3>2. \A u \in Typists : typist[u].pc = "idle"
      BY <1>5, <2>2 DEF Kbd!Write
    <3>3. \A u \in Typists : typist'[u].pc = IF u = t THEN "parsed" ELSE "idle"
      BY <1>5, <3>2 DEF Kbd!Write, KbdInv, TypistTypes
    <3> QED BY <1>5, <3>1, <3>2, <3>3 DEF Kbd!Write, SendInv
  <2> QED BY <1>1, <1>2, <2>1, <2>2 DEF KbdInv
<1> QED BY <1>3, <1>4, <1>5

\* A reader that reads.  vinput_read returns nothing behind the text, the
\* rest of the text for an ample count, and never more than is in buff.
LEMMA EyeReads ==
    ASSUME KbdInv, NEW r \in Readers, NEW size \in Counts, Kbd!Read(r, size)
    PROVE  EyeInv'
<1> USE KeysAssumption
<1> DEFINE pos == eye[r].pos
           len == Kbd!TextLen(lastEntry)
           n == Kbd!Returned(pos, size, len)
           new == [pos   |-> pos + n,
                   ample |-> eye[r].ample /\ size > MAX_LEN,
                   plain |-> eye[r].plain /\ Kbd!OfText(pos, size, len, n) = n,
                   from  |-> eye[r].from \union IF n = 0 THEN {} ELSE {lastEntry},
                   got   |-> eye[r].got + n,
                   eof   |-> eye[r].eof \/ (n = 0 /\ size > 0),
                   over  |-> eye[r].over \/ pos + n > MAX_LEN + 1]
<1>1. eye' = [eye EXCEPT ![r] = new]
  BY DEF Kbd!Read
<1>2. eye[r] \in Eyes
  BY DEF KbdInv, EyeInv
<1>3. /\ pos \in Nat /\ pos <= MAX_LEN /\ eye[r].got = pos /\ ~eye[r].over
      /\ lastEntry \in Int
  BY <1>2 DEF KbdInv, EyeInv, TypistTypes, Eyes
<1>4. len \in {3, 4}
  BY DEF Kbd!TextLen
<1>5. /\ n \in Nat /\ pos + n <= MAX_LEN
      /\ size > MAX_LEN => /\ Kbd!OfText(pos, size, len, n) = n
                           /\ n > 0 => pos + n = len
  <2>1. size \in Nat
    OBVIOUS
  <2> HIDE DEF pos, len
  <2>2. n = Kbd!Returned(pos, size, len)
    OBVIOUS
  <2> HIDE DEF n
  <2> QED BY <1>3, <1>4, <2>1, <2>2 DEF Kbd!Returned, Kbd!OfText
<1>6. new \in Eyes
  <2>1. new.pos \in Nat /\ new.got \in Nat /\ new.from \in SUBSET Int
    <3> HIDE DEF n, pos
    <3>1. /\ new.pos = pos + n /\ new.got = eye[r].got + n
          /\ new.from = eye[r].from \union IF n = 0 THEN {} ELSE {lastEntry}
      OBVIOUS
    <3>2. eye[r].from \subseteq Int
      BY <1>2 DEF Eyes
    <3> HIDE DEF new
    <3>3. new.pos \in Nat /\ new.got \in Nat
      BY <3>1, <1>3, <1>5
    <3> QED BY <3>1, <3>2, <3>3, <1>3
  <2>2. /\ new.ample \in BOOLEAN /\ new.plain \in BOOLEAN /\ new.eof \in BOOLEAN
        /\ new.over \in BOOLEAN
    <3> HIDE DEF n, pos, len
    <3> QED BY Zenon
  <2>3. new = [pos |-> new.pos, ample |-> new.ample, plain |-> new.plain,
               from |-> new.from, got |-> new.got, eof |-> new.eof, over |-> new.over]
    <3> HIDE DEF n, pos, len
    <3> QED OBVIOUS
  <2> HIDE DEF new
  <2> QED BY <2>1, <2>2, <2>3 DEF Eyes
<1>7. new.pos = new.got /\ new.pos <= MAX_LEN /\ ~new.over
  <2> HIDE DEF n, pos
  <2>1. new.pos = pos + n /\ new.got = eye[r].got + n
    OBVIOUS
  <2>2. new.over <=> (eye[r].over \/ pos + n > MAX_LEN + 1)
    OBVIOUS
  <2> HIDE DEF new
  <2> QED BY <2>1, <2>2, <1>3, <1>5
<1>8. ASSUME new.ample
      PROVE  new.plain /\ \A e \in new.from : new.from = {e} => new.got = Kbd!TextLen(e)
  <2>1. eye[r].ample /\ size > MAX_LEN
    <3> HIDE DEF n, pos, len
    <3> QED BY <1>8
  <2>2. new.plain <=> (eye[r].plain /\ Kbd!OfText(pos, size, len, n) = n)
    <3> HIDE DEF n, pos, len
    <3> QED OBVIOUS
  <2>3. new.got = pos + n /\ new.from = eye[r].from \union IF n = 0 THEN {} ELSE {lastEntry}
    <3> HIDE DEF n, pos, len
    <3> QED BY <1>3
  <2>4. /\ eye[r].plain
        /\ \A e \in eye[r].from : eye[r].from = {e} => pos = Kbd!TextLen(e)
    BY <1>3, <2>1 DEF KbdInv, EyeInv
  <2> HIDE DEF new
  <2>5. CASE n = 0
    <3> HIDE DEF n, pos, len
    <3> QED BY <1>3, <1>5, <2>1, <2>2, <2>3, <2>4, <2>5
  <2>6. CASE n > 0
    <3>1. new.got = Kbd!TextLen(lastEntry)
      BY <1>5, <2>1, <2>3, <2>6
    <3> HIDE DEF n, pos, len
    <3>2. \A e \in new.from : new.from = {e} => e = lastEntry
      BY <2>3, <2>6
    <3> QED BY <1>5, <2>1, <2>2, <2>4, <3>1, <3>2
  <2> QED BY <1>5, <2>5, <2>6
<1> HIDE DEF new
<1> QED BY <1>1, <1>6, <1>7, <1>8 DEF KbdInv, EyeInv

\* Every step keeps the invariant.
LEMMA KbdStep == KbdInv /\ [Kbd!Next]_(Kbd!vars) => KbdInv'
<1> SUFFICES ASSUME KbdInv, [Kbd!Next]_(Kbd!vars) PROVE KbdInv'
  OBVIOUS
<1>1. CASE UNCHANGED Kbd!vars
  BY <1>1 DEF Kbd!vars, KbdInv, TypistTypes, EyeInv, SendInv
<1>2. ASSUME NEW t \in Typists,
             \/ Kbd!StoreEntry(t) \/ Kbd!Report(t)
             \/ \E number \in Keys, junk \in BOOLEAN : Kbd!Write(t, number, junk)
      PROVE  KbdInv'
  BY <1>2, TypistStep
<1>3. ASSUME NEW r \in Readers, NEW size \in Counts, Kbd!Read(r, size)
      PROVE  KbdInv'
  <2>1. UNCHANGED <<lastEntry, reported, sends, crossed, typist>>
    BY <1>3 DEF Kbd!Read
  <2> QED BY <1>3, <2>1, EyeReads DEF KbdInv, TypistTypes, SendInv
<1>4. ASSUME NEW r \in Readers, Kbd!Reopen(r)
      PROVE  KbdInv'
  <2>1. UNCHANGED <<lastEntry, reported, sends, crossed, typist>>
    BY <1>4 DEF Kbd!Reopen
  <2>2. Kbd!Opened \in Eyes
    <3>1. TRUE \in BOOLEAN /\ FALSE \in BOOLEAN
      BY Zenon
    <3> QED BY <3>1 DEF Kbd!Opened, Eyes
  <2>3. /\ Kbd!Opened.pos = 0 /\ Kbd!Opened.got = 0 /\ ~Kbd!Opened.over
        /\ Kbd!Opened.plain /\ Kbd!Opened.from = {}
    BY DEF Kbd!Opened
  <2>4. eye' = [eye EXCEPT ![r] = Kbd!Opened]
    BY <1>4 DEF Kbd!Reopen
  <2>5. EyeInv'
    BY <2>2, <2>3, <2>4, KeysAssumption DEF KbdInv, EyeInv
  <2> QED BY <2>1, <2>5 DEF KbdInv, TypistTypes, SendInv
<1> QED BY <1>1, <1>2, <1>3, <1>4 DEF Kbd!Next

\* The properties of the keyboard follow.
LEMMA KbdInvIsEnough ==
    KbdInv => /\ Kbd!TypeOK /\ Kbd!LastEntryIsReported /\ Kbd!CopiesStayInBuff
              /\ Kbd!EntryThenEof
<1> SUFFICES ASSUME KbdInv
             PROVE  /\ Kbd!TypeOK /\ Kbd!LastEntryIsReported /\ Kbd!CopiesStayInBuff
                    /\ Kbd!EntryThenEof
  OBVIOUS
<1>1. Kbd!TypeOK
  BY DEF KbdInv, TypistTypes, EyeInv, Kbd!TypeOK
<1>2. Kbd!LastEntryIsReported
  BY DEF KbdInv, SendInv, Kbd!LastEntryIsReported
<1>3. Kbd!CopiesStayInBuff /\ Kbd!EntryThenEof
  BY DEF KbdInv, EyeInv, Kbd!CopiesStayInBuff, Kbd!EntryThenEof
<1> QED BY <1>1, <1>2, <1>3

-----------------------------------------------------------------------------
(* procfs2.c, procfs3.c and hello-debugfs-file.c.                          *)

\* hello-debugfs-file.c: a call past the lock holds it, alone; a copy ends
\* before the last byte of the buffer, and a read within the message.
LockedCall(p) ==
    /\ call[p].pc \in {"idle", "lock", "size", "copy", "end"}
    /\ call[p].pc \in {"size", "copy", "end"} <=> p \in mutex
    /\ call[p].pc = "idle" => call[p].ret = call[p].k
    /\ call[p].pc \in {"lock", "size"} => call[p].k = 0 /\ call[p].from = {}
    /\ call[p].pc # "idle" /\ call[p].id # 0 => fpos[p] = 0 /\ call[p].from = {}
    /\ call[p].pc \in {"copy", "end"} =>
         /\ call[p].k <= call[p].n
         /\ call[p].id # 0 => call[p].n <= MAX_SIZE - 1
         /\ call[p].id = 0 /\ call[p].n > 0 => fpos[p] + call[p].n <= bsize

LockInv ==
    /\ bsize <= MAX_SIZE - 1
    /\ \A p, q \in mutex : p = q
    /\ \A p \in Callers : LockedCall(p)

\* The bytes of the message are of one write, zeroed ones aside, but while
\* the next one copies; what that one has copied is its own, and a read has
\* got bytes of the message that is there.
Whole == \A b \in 0 .. bsize - 1 : buffer[b] = IF b < wiped THEN 0 ELSE stored

MessageCall(p) ==
    /\ \A v, w \in call[p].from : v # 0 /\ w # 0 => v = w
    /\ call[p].pc \in {"copy", "end"} /\ call[p].id = 0 =>
         call[p].from \subseteq {0, stored}
    /\ call[p].pc \in {"copy", "end"} /\ call[p].id # 0 =>
         \A b \in 0 .. call[p].k - 1 : buffer[b] = call[p].id

MessageInv ==
    /\ (\A p \in mutex : call[p].id = 0 \/ call[p].k = 0) => Whole
    /\ \A p \in Callers : MessageCall(p)

\* procfs3.c limits every size before it is stored.
LimitedInv ==
    /\ bsize <= MAX_SIZE
    /\ \A p \in Callers : /\ call[p].pc # "oob"
                          /\ call[p].size <= MAX_SIZE /\ call[p].n <= MAX_SIZE

\* procfs2.c and procfs3.c, one call at a time: procfs_buffer_size is what
\* the call has stored in it.
LoneCall(p) ==
    /\ call[p].pc # "oob"
    /\ call[p].pc = "idle" => call[p].ret = call[p].k
    /\ call[p].pc \in {"size", "clamp", "test"} => call[p].k = 0
    /\ call[p].pc = "text" => call[p].n = 0
    /\ call[p].pc \in {"clamp", "test"} => call[p].size = bsize
    /\ call[p].pc \in {"copy", "end"} => call[p].n = bsize /\ call[p].k <= call[p].n
    /\ call[p].pc = "end" => call[p].k = call[p].n
    /\ call[p].pc \in {"test", "copy", "end"} /\ variant = "procfs2" =>
         bsize <= MAX_SIZE - 1

LoneInv ==
    /\ \A p, q \in Callers : call[p].pc # "idle" /\ call[q].pc # "idle" => p = q
    /\ \A p \in Callers : LoneCall(p)

ProcInv ==
    /\ Proc!TypeOK /\ variant \in {"procfs2", "procfs3", "debugfs"}
    /\ variant = "debugfs" => LockInv /\ MessageInv
    /\ variant = "procfs3" => LimitedInv
    /\ variant # "debugfs" => \A p \in Callers : call[p].pc # "lock"
    /\ variant # "debugfs" /\ ~overlap => LoneInv

\* The states of a call, and the types of its parts.
ProcPcs == {"idle", "lock", "clamp", "size", "test", "copy", "text", "end", "oob"}

LEMMA CallParts ==
    ASSUME NEW c \in Proc!Calls
    PROVE  /\ c.pc \in ProcPcs /\ c.id \in Proc!Writes \union {0} /\ c.id \in Nat
           /\ c.len \in Asked \union {0} /\ c.len \in Nat
           /\ c.size \in Nat /\ c.n \in Nat /\ c.k \in Nat /\ c.ret \in Nat
           /\ c.from \subseteq Proc!Writes \union {0}
<1>1. /\ c.pc \in ProcPcs /\ c.id \in Proc!Writes \union {0}
      /\ c.len \in Asked \union {0}
      /\ c.size \in Nat /\ c.n \in Nat /\ c.k \in Nat /\ c.ret \in Nat
      /\ c.from \subseteq Proc!Writes \union {0}
  BY DEF Proc!Calls, ProcPcs
<1>2. \A a \in Asked \union {0} : a \in Nat
  BY ProcAssumption
<1>3. \A w \in Proc!Writes \union {0} : w \in Nat
  BY ProcAssumption DEF Proc!Writes
<1> QED BY <1>1, <1>2, <1>3

\* A call that has ended.
LEMMA IdleParts ==
    ASSUME NEW k \in Nat, NEW from \in SUBSET (Proc!Writes \union {0}), NEW ret \in Nat
    PROVE  /\ Proc!Idle(k, from, ret) \in Proc!Calls
           /\ Proc!Idle(k, from, ret).pc = "idle" /\ Proc!Idle(k, from, ret).id = 0
           /\ Proc!Idle(k, from, ret).k = k /\ Proc!Idle(k, from, ret).from = from
           /\ Proc!Idle(k, from, ret).ret = ret
           /\ Proc!Idle(k, from, ret).size = 0 /\ Proc!Idle(k, from, ret).n = 0
BY DEF Proc!Idle, Proc!Calls

\* A step of one process changes its call only.
LEMMA CallUpdate ==
    ASSUME call \in [Callers -> Proc!Calls], NEW p \in Callers,
           NEW new \in Proc!Calls, call' = [call EXCEPT ![p] = new]
    PROVE  /\ call' \in [Callers -> Proc!Calls] /\ call'[p] = new
           /\ \A q \in Callers : q # p => call'[q] = call[q]
OBVIOUS

\* The beginning of a call.
LEMMA BeginCall ==
    ASSUME call \in [Callers -> Proc!Calls], NEW p \in Callers,
           NEW id \in Proc!Writes \union {0}, NEW len \in Asked, NEW loc \in ProcPcs,
           Proc!Begin(p, id, len, loc)
    PROVE  /\ call' \in [Callers -> Proc!Calls]
           /\ \A q \in Callers : q # p => call'[q] = call[q]
           /\ call[p].pc = "idle" /\ call'[p].pc = loc
           /\ call'[p].id = (IF loc = "idle" THEN 0 ELSE id)
           /\ call'[p].size = 0 /\ call'[p].n = 0 /\ call'[p].k = 0
           /\ call'[p].from = {} /\ call'[p].ret = 0
<1> DEFINE old == Proc!Idle(0, {}, 0)
           new == IF loc = "idle" THEN old
                  ELSE [old EXCEPT !.pc = loc, !.id = id, !.len = len]
<1>1. call[p].pc = "idle" /\ call' = [call EXCEPT ![p] = new]
  BY DEF Proc!Begin
<1>2. /\ old \in Proc!Calls /\ old.pc = "idle" /\ old.id = 0 /\ old.k = 0
      /\ old.from = {} /\ old.ret = 0 /\ old.size = 0 /\ old.n = 0
  BY IdleParts
<1> HIDE DEF old
<1>3. /\ new \in Proc!Calls /\ new.pc = loc
      /\ new.id = (IF loc = "idle" THEN 0 ELSE id)
      /\ new.size = 0 /\ new.n = 0 /\ new.k = 0 /\ new.from = {} /\ new.ret = 0
  <2>1. CASE loc = "idle"
    BY <1>2, <2>1
  <2>2. CASE loc # "idle"
    BY <1>2, <2>2 DEF Proc!Calls, ProcPcs
  <2> QED BY <2>1, <2>2
<1> HIDE DEF new
<1> QED BY <1>1, <1>3, CallUpdate

\* The first states satisfy the invariant.
LEMMA ProcInit == Proc!Init => ProcInv
<1> SUFFICES ASSUME Proc!Init PROVE ProcInv
  OBVIOUS
<1> USE ProcAssumption
<1> DEFINE old == Proc!Idle(0, {}, 0)
<1>2. /\ old \in Proc!Calls /\ old.pc = "idle" /\ old.id = 0 /\ old.k = 0
      /\ old.from = {} /\ old.ret = 0 /\ old.size = 0 /\ old.n = 0
  BY IdleParts
<1>3. call = [p \in Callers |-> old] /\ variant \in {"procfs2", "procfs3", "debugfs"}
  BY DEF Proc!Init
<1> HIDE DEF old
<1>4. Proc!TypeOK
  <2>1. overlap \in BOOLEAN
    BY Zenon DEF Proc!Init
  <2>2. /\ buffer \in [0 .. MAX_SIZE - 1 -> Proc!Writes \union {0}]
        /\ bsize \in Nat /\ writes \in 0 .. MaxWrites /\ mutex \subseteq Callers
        /\ fpos \in [Callers -> Nat] /\ stored \in Proc!Writes /\ wiped \in Nat
    BY DEF Proc!Init, Proc!Writes
  <2>3. call \in [Callers -> Proc!Calls]
    BY <1>2, <1>3
  <2> QED BY <2>1, <2>2, <2>3 DEF Proc!TypeOK
<1>5. \A p \in Callers : call[p] = old
  BY <1>3
<1>6. variant = "debugfs" => LockInv
  BY <1>2, <1>5 DEF Proc!Init, LockInv, LockedCall
<1>7. variant = "debugfs" => MessageInv
  BY <1>2, <1>5 DEF Proc!Init, MessageInv, MessageCall, Whole
<1>8. variant # "debugfs" => LimitedInv
  BY <1>2, <1>5 DEF Proc!Init, LimitedInv
<1>9. LoneInv
  BY <1>2, <1>5 DEF LoneInv, LoneCall
<1> QED BY <1>2, <1>3, <1>4, <1>5, <1>6, <1>7, <1>8, <1>9 DEF ProcInv

\* A step within the call of p gives it these values; its write and what it
\* last returned stay, and so do the other calls.
Becomes(p, loc, size, n, k, from) ==
    /\ call' \in [Callers -> Proc!Calls]
    /\ \A q \in Callers : q # p => call'[q] = call[q]
    /\ call'[p].id = call[p].id /\ call'[p].ret = call[p].ret
    /\ call'[p].pc = loc /\ call'[p].size = size /\ call'[p].n = n
    /\ call'[p].k = k /\ call'[p].from = from

\* A read gets a byte.
LEMMA GetsByte ==
    ASSUME call \in [Callers -> Proc!Calls], NEW p \in Callers,
           NEW v \in Proc!Writes \union {0}, NEW c, c = call[p],
           call' = [call EXCEPT ![p].k = @ + 1, ![p].from = @ \union {v}]
    PROVE  Becomes(p, c.pc, c.size, c.n, c.k + 1, c.from \union {v})
<1> DEFINE a == c.k + 1
           f == c.from \union {v}
           new == [c EXCEPT !.k = a, !.from = f]
<1>0. c \in Proc!Calls /\ c.k \in Nat /\ c.from \subseteq Proc!Writes \union {0}
  BY CallParts
<1>1. call' = [call EXCEPT ![p] = new]
  OBVIOUS
<1>2. a \in Nat /\ f \subseteq Proc!Writes \union {0}
  BY <1>0
<1> HIDE DEF a, f
<1>3. new \in Proc!Calls
  BY <1>0, <1>2 DEF Proc!Calls
<1>4. /\ new.pc = c.pc /\ new.id = c.id /\ new.ret = c.ret /\ new.size = c.size
      /\ new.n = c.n /\ new.k = a /\ new.from = f
  BY <1>0 DEF Proc!Calls
<1> HIDE DEF new
<1>5. Becomes(p, c.pc, c.size, c.n, a, f)
  BY <1>1, <1>3, <1>4, CallUpdate DEF Becomes
<1> QED BY <1>5 DEF a, f

\* The updates that steps within a call make of it.
LEMMA Updates ==
    ASSUME call \in [Callers -> Proc!Calls], NEW p \in Callers,
           NEW loc \in ProcPcs, NEW m \in Nat, NEW v \in Proc!Writes \union {0},
           NEW c, c = call[p]
    PROVE  /\ call' = [call EXCEPT ![p].pc = loc] =>
                Becomes(p, loc, c.size, c.n, c.k, c.from)
           /\ call' = [call EXCEPT ![p].size = m, ![p].pc = loc] =>
                Becomes(p, loc, m, c.n, c.k, c.from)
           /\ call' = [call EXCEPT ![p].n = m, ![p].pc = loc] =>
                Becomes(p, loc, c.size, m, c.k, c.from)
           /\ call' = [call EXCEPT ![p].k = @ + 1, ![p].from = @ \union {v}] =>
                Becomes(p, c.pc, c.size, c.n, c.k + 1, c.from \union {v})
           /\ call' = [call EXCEPT ![p].k = @ + 1] =>
                Becomes(p, c.pc, c.size, c.n, c.k + 1, c.from)
           /\ call' = [call EXCEPT ![p].n = m] =>
                Becomes(p, c.pc, c.size, m, c.k, c.from)
<1>0. c \in Proc!Calls /\ c.k \in Nat /\ c.from \subseteq Proc!Writes \union {0}
  BY CallParts
<1>1. ASSUME call' = [call EXCEPT ![p].pc = loc]
      PROVE  Becomes(p, loc, c.size, c.n, c.k, c.from)
  BY <1>0, <1>1 DEF Proc!Calls, ProcPcs, Becomes
<1>2. ASSUME call' = [call EXCEPT ![p].size = m, ![p].pc = loc]
      PROVE  Becomes(p, loc, m, c.n, c.k, c.from)
  BY <1>0, <1>2 DEF Proc!Calls, ProcPcs, Becomes
<1>3. ASSUME call' = [call EXCEPT ![p].n = m, ![p].pc = loc]
      PROVE  Becomes(p, loc, c.size, m, c.k, c.from)
  BY <1>0, <1>3 DEF Proc!Calls, ProcPcs, Becomes
<1>4. ASSUME call' = [call EXCEPT ![p].k = @ + 1, ![p].from = @ \union {v}]
      PROVE  Becomes(p, c.pc, c.size, c.n, c.k + 1, c.from \union {v})
  BY <1>4, GetsByte
<1>5. ASSUME call' = [call EXCEPT ![p].k = @ + 1]
      PROVE  Becomes(p, c.pc, c.size, c.n, c.k + 1, c.from)
  BY <1>0, <1>5 DEF Proc!Calls, ProcPcs, Becomes
<1>6. ASSUME call' = [call EXCEPT ![p].n = m]
      PROVE  Becomes(p, c.pc, c.size, m, c.k, c.from)
  BY <1>0, <1>6 DEF Proc!Calls, ProcPcs, Becomes
<1> QED BY <1>1, <1>2, <1>3, <1>4, <1>5, <1>6

\* With the lock, what is known of the other calls stays.
LEMMA LockedOthers ==
    ASSUME ProcInv, variant = "debugfs", NEW p \in Callers,
           \A q \in Callers : q # p => /\ call'[q] = call[q] /\ fpos'[q] = fpos[q]
                                       /\ q \in mutex' <=> q \in mutex,
           p \in mutex \/ UNCHANGED <<bsize, buffer, stored>>
    PROVE  \A q \in Callers : q # p => LockedCall(q)' /\ MessageCall(q)'
<1> SUFFICES ASSUME NEW q \in Callers, q # p
             PROVE  LockedCall(q)' /\ MessageCall(q)'
  OBVIOUS
<1>1. LockedCall(q) /\ MessageCall(q)
  BY DEF ProcInv, LockInv, MessageInv
<1>2. p \in mutex => call[q].pc \notin {"copy", "end"}
  BY <1>1 DEF ProcInv, LockInv, LockedCall
<1>3. LockedCall(q)'
  BY <1>1, <1>2 DEF LockedCall
<1>4. MessageCall(q)'
  BY <1>1, <1>2 DEF MessageCall
<1> QED BY <1>3, <1>4

\* What a step of p has to establish when the message is locked.
LEMMA LockedEnough ==
    ASSUME ProcInv, variant = "debugfs", variant' = variant, NEW p \in Callers,
           Proc!TypeOK', LockedCall(p)', MessageCall(p)', bsize' <= MAX_SIZE - 1,
           \A q \in Callers : q # p => /\ call'[q] = call[q] /\ fpos'[q] = fpos[q]
                                       /\ q \in mutex' <=> q \in mutex,
           p \in mutex' \/ p \in mutex => mutex' \subseteq {p},
           p \in mutex \/ UNCHANGED <<bsize, buffer, stored>>,
           (\A q \in mutex' : call'[q].id = 0 \/ call'[q].k = 0) => Whole'
    PROVE  ProcInv'
<1>1. \A q \in Callers : LockedCall(q)' /\ MessageCall(q)'
  BY LockedOthers
<1>2. \A q, r \in mutex' : q = r
  BY DEF ProcInv, LockInv, Proc!TypeOK
<1>3. LockInv' /\ MessageInv'
  BY <1>1, <1>2 DEF LockInv, MessageInv
<1> QED BY <1>3 DEF ProcInv

\* The types of what is not the call.
ProcRest ==
    /\ buffer \in [0 .. MAX_SIZE - 1 -> Proc!Writes \union {0}]
    /\ bsize \in Nat /\ writes \in 0 .. MaxWrites /\ mutex \subseteq Callers
    /\ fpos \in [Callers -> Nat] /\ stored \in Proc!Writes /\ wiped \in Nat

\* A history variable stays a Boolean, and its TRUE stays.
LEMMA OverlapStep ==
    ASSUME overlap \in BOOLEAN, NEW p \in Callers, Proc!CallStep(p)
    PROVE  overlap' \in BOOLEAN /\ (overlap => overlap')
BY Zenon DEF Proc!CallStep, Proc!Read, Proc!Write, Proc!Begin, Proc!MutexLock,
   Proc!SetSize, Proc!ClampSize, Proc!LoadSize, Proc!SimpleLength, Proc!CopyByte,
   Proc!CopyEnds, Proc!CopyText, Proc!EndUnlocked, Proc!EndLocked, Proc!Fault,
   Proc!Reopen

\* hello-debugfs-file.c: a call begins and takes the lock.
LEMMA LockedBegin ==
    ASSUME ProcInv, variant = "debugfs", NEW p \in Callers, overlap' \in BOOLEAN,
           \/ \E len \in Asked : Proc!Read(p, len) \/ Proc!Write(p, len)
           \/ Proc!MutexLock(p) \/ Proc!Reopen(p)
    PROVE  ProcInv'
<1> USE ProcAssumption
<1>a. /\ call \in [Callers -> Proc!Calls] /\ ProcRest /\ LockedCall(p) /\ MessageCall(p)
      /\ call[p] \in Proc!Calls /\ bsize <= MAX_SIZE - 1
      /\ (\A q \in mutex : call[q].id = 0 \/ call[q].k = 0) => Whole
  BY DEF ProcInv, Proc!TypeOK, ProcRest, LockInv, MessageInv
<1>1. ASSUME NEW len \in Asked, Proc!Read(p, len) \/ Proc!Write(p, len)
      PROVE  ProcInv'
  <2> DEFINE id == IF Proc!Read(p, len) THEN 0 ELSE writes + 1
  <2>0. /\ UNCHANGED <<variant, buffer, bsize, mutex, stored, wiped>>
        /\ id \in Proc!Writes \union {0} /\ writes' \in 0 .. MaxWrites
        /\ id # 0 => fpos[p] = 0
    BY <1>1, <1>a DEF Proc!Read, Proc!Write, Proc!Writes, ProcRest
  <2>b. fpos' = fpos
    BY <1>1, <1>a DEF Proc!Read, Proc!Write, ProcRest
  <2>1. Proc!Begin(p, id, len, "lock")
    BY <1>1 DEF Proc!Read, Proc!Write
  <2> HIDE DEF id
  <2>2. "lock" \in ProcPcs
    BY DEF ProcPcs
  <2>3. /\ call' \in [Callers -> Proc!Calls]
        /\ \A q \in Callers : q # p => call'[q] = call[q]
        /\ call[p].pc = "idle" /\ call'[p].pc = "lock" /\ call'[p].id = id
        /\ call'[p].k = 0 /\ call'[p].from = {}
    BY <1>a, <2>0, <2>1, <2>2, BeginCall
  <2>4. Proc!TypeOK'
    BY <1>a, <2>0, <2>b, <2>3 DEF Proc!TypeOK, ProcRest, Proc!Writes
  <2>5. p \notin mutex
    BY <1>a, <2>3 DEF LockedCall
  <2>6. LockedCall(p)'
    BY <2>0, <2>b, <2>3, <2>5 DEF LockedCall
  <2>7. MessageCall(p)'
    BY <2>3 DEF MessageCall
  <2>8. (\A q \in mutex' : call'[q].id = 0 \/ call'[q].k = 0) => Whole'
    <3>1. Whole => Whole'
      BY <2>0 DEF Whole
    <3>2. \A q \in mutex : q \in Callers /\ q # p
      BY <1>a, <2>5 DEF ProcRest
    <3> QED BY <1>a, <2>0, <2>3, <3>1, <3>2
  <2> QED BY <1>a, <2>0, <2>b, <2>3, <2>4, <2>5, <2>6, <2>7, <2>8, LockedEnough
<1>2. CASE Proc!MutexLock(p)
  <2>0. /\ UNCHANGED <<variant, buffer, bsize, writes, fpos, stored, wiped>>
        /\ mutex = {} /\ mutex' = {p} /\ call[p].pc = "lock"
        /\ call' = [call EXCEPT ![p].pc = "size"]
    BY <1>2 DEF Proc!MutexLock
  <2>1. "size" \in ProcPcs /\ 0 \in Nat /\ 0 \in Proc!Writes \union {0}
    BY DEF ProcPcs
  <2>2. Becomes(p, "size", call[p].size, call[p].n, call[p].k, call[p].from)
    BY <1>a, <2>0, <2>1, Updates
  <2>3. Proc!TypeOK'
    BY <1>a, <2>0, <2>2 DEF Proc!TypeOK, ProcRest, Proc!Writes, Becomes
  <2>4. LockedCall(p)'
    BY <1>a, <2>0, <2>2 DEF LockedCall, Becomes
  <2>5. MessageCall(p)'
    BY <1>a, <2>0, <2>2 DEF MessageCall, Becomes
  <2>6. (\A q \in mutex' : call'[q].id = 0 \/ call'[q].k = 0) => Whole'
    BY <1>a, <2>0 DEF Whole
  <2>7. \A q \in Callers : q # p => /\ call'[q] = call[q] /\ fpos'[q] = fpos[q]
                                    /\ q \in mutex' <=> q \in mutex
    BY <2>0, <2>2 DEF Becomes
  <2> QED BY <1>a, <2>0, <2>3, <2>4, <2>5, <2>6, <2>7, LockedEnough
<1>3. CASE Proc!Reopen(p)
  <2>0. /\ UNCHANGED <<variant, buffer, bsize, mutex, writes, call, stored, wiped>>
        /\ call[p].pc = "idle" /\ fpos' = [fpos EXCEPT ![p] = 0]
    BY <1>3 DEF Proc!Reopen
  <2>1. Proc!TypeOK'
    BY <1>a, <2>0 DEF Proc!TypeOK, ProcRest, Proc!Writes
  <2>2. p \notin mutex
    BY <1>a, <2>0 DEF LockedCall
  <2>3. LockedCall(p)' /\ MessageCall(p)'
    BY <1>a, <2>0 DEF LockedCall, MessageCall
  <2>4. (\A q \in mutex' : call'[q].id = 0 \/ call'[q].k = 0) => Whole'
    BY <1>a, <2>0 DEF Whole
  <2> QED BY <1>a, <2>0, <2>1, <2>2, <2>3, <2>4, LockedEnough DEF ProcRest
<1> QED BY <1>1, <1>2, <1>3

\* The other calls, after a step of p that holds the lock and keeps it.
LEMMA LockedInside ==
    ASSUME ProcInv, variant = "debugfs", NEW p \in Callers, p \in mutex,
           overlap' \in BOOLEAN,
           UNCHANGED <<variant, bsize, mutex, writes, fpos, stored>>, wiped' \in Nat,
           buffer' \in [0 .. MAX_SIZE - 1 -> Proc!Writes \union {0}],
           call' \in [Callers -> Proc!Calls],
           \A q \in Callers : q # p => call'[q] = call[q],
           LockedCall(p)', MessageCall(p)',
           call'[p].id = 0 \/ call'[p].k = 0 => Whole'
    PROVE  ProcInv'
<1>1. Proc!TypeOK'
  BY DEF ProcInv, Proc!TypeOK, Proc!Writes
<1>2. \A q \in Callers : q # p => /\ call'[q] = call[q] /\ fpos'[q] = fpos[q]
                                  /\ q \in mutex' <=> q \in mutex
  OBVIOUS
<1>3. mutex' \subseteq {p} /\ bsize' <= MAX_SIZE - 1
  BY DEF ProcInv, LockInv
<1>4. (\A q \in mutex' : call'[q].id = 0 \/ call'[q].k = 0) => Whole'
  OBVIOUS
<1> QED BY <1>1, <1>2, <1>3, <1>4, LockedEnough

\* hello-debugfs-file.c: the copy.
LEMMA LockedCopy ==
    ASSUME ProcInv, variant = "debugfs", NEW p \in Callers, overlap' \in BOOLEAN,
           \/ Proc!SimpleLength(p) \/ Proc!CopyByte(p) \/ Proc!CopyEnds(p)
           \/ Proc!Fault(p)
    PROVE  ProcInv'
<1> USE ProcAssumption
<1>a. /\ call \in [Callers -> Proc!Calls] /\ ProcRest /\ LockedCall(p) /\ MessageCall(p)
      /\ call[p] \in Proc!Calls /\ bsize <= MAX_SIZE - 1
      /\ (\A q \in mutex : call[q].id = 0 \/ call[q].k = 0) => Whole
  BY DEF ProcInv, Proc!TypeOK, ProcRest, LockInv, MessageInv
<1>b. /\ p \in mutex /\ mutex = {p}
      /\ UNCHANGED <<variant, bsize, mutex, writes, fpos, stored>>
  <2>1. /\ call[p].pc \in {"size", "copy"}
        /\ UNCHANGED <<variant, bsize, mutex, writes, fpos, stored>>
    BY <1>a DEF Proc!SimpleLength, Proc!CopyByte, Proc!CopyEnds, Proc!Fault, LockedCall
  <2>2. p \in mutex
    BY <1>a, <2>1 DEF LockedCall
  <2> QED BY <2>1, <2>2 DEF ProcInv, LockInv
<1>c. /\ call[p].k \in Nat /\ call[p].n \in Nat /\ call[p].len \in Nat
      /\ call[p].id \in Proc!Writes \union {0} /\ call[p].pc \in ProcPcs
      /\ fpos[p] \in Nat /\ bsize \in Nat
  BY <1>a, CallParts DEF ProcRest
<1>d. {"copy", "end"} \subseteq ProcPcs /\ 0 \in Proc!Writes \union {0} /\ 0 \in Nat
  BY DEF ProcPcs
<1>e. call[p].id = 0 \/ call[p].k = 0 => Whole
  BY <1>a, <1>b
<1>1. CASE Proc!SimpleLength(p)
  <2> DEFINE end == IF call[p].id = 0 THEN bsize ELSE Proc!BufferLimit
             n == IF fpos[p] >= end THEN 0
                  ELSE Proc!Lowest(call[p].len, end - fpos[p])
  <2>1. /\ n \in Nat
        /\ call[p].id # 0 => n <= MAX_SIZE - 1
        /\ call[p].id = 0 /\ n > 0 => fpos[p] + n <= bsize
    BY <1>c DEF Proc!Lowest, Proc!BufferLimit
  <2>2. /\ call[p].pc = "size" /\ buffer' = buffer /\ wiped' = wiped
        /\ call' = [call EXCEPT ![p].n = n, ![p].pc = "copy"]
    BY <1>1 DEF Proc!SimpleLength
  <2> HIDE DEF n
  <2>3. Becomes(p, "copy", call[p].size, n, call[p].k, call[p].from)
    BY <1>a, <1>d, <2>1, <2>2, Updates
  <2>4. call[p].k = 0 /\ call[p].from = {}
    BY <1>a, <2>2 DEF LockedCall
  <2>5. LockedCall(p)'
    BY <1>a, <1>b, <2>1, <2>2, <2>3, <2>4 DEF LockedCall, Becomes
  <2>6. MessageCall(p)'
    BY <2>3, <2>4 DEF MessageCall, Becomes
  <2>7. Whole'
    BY <1>b, <1>e, <2>2, <2>4 DEF Whole
  <2> QED BY <1>a, <1>b, <2>2, <2>3, <2>5, <2>6, <2>7, LockedInside
          DEF ProcRest, Becomes
<1>2. CASE Proc!CopyEnds(p)
  <2>1. /\ call[p].pc = "copy" /\ UNCHANGED <<buffer, wiped>> /\ call[p].k = call[p].n
        /\ call' = [call EXCEPT ![p].pc = "end"]
    BY <1>2 DEF Proc!CopyEnds
  <2>2. Becomes(p, "end", call[p].size, call[p].n, call[p].k, call[p].from)
    BY <1>a, <1>d, <2>1, Updates
  <2>3. LockedCall(p)'
    BY <1>a, <1>b, <2>1, <2>2 DEF LockedCall, Becomes
  <2>4. MessageCall(p)'
    BY <1>a, <1>b, <2>1, <2>2 DEF MessageCall, Becomes
  <2>5. call'[p].id = 0 \/ call'[p].k = 0 => Whole'
    BY <1>b, <1>e, <2>1, <2>2 DEF Whole, Becomes
  <2> QED BY <1>a, <1>b, <2>1, <2>2, <2>3, <2>4, <2>5, LockedInside
          DEF ProcRest, Becomes
<1>3. CASE Proc!Fault(p)
  <2> DEFINE gone(b) == call[p].id # 0 /\ call[p].k <= b /\ b < call[p].n
  <2>0. /\ call[p].pc = "copy" /\ call[p].k < call[p].n
        /\ ~(call[p].id # 0 /\ call[p].n > MAX_SIZE)
    BY <1>3, <1>a, <1>c DEF Proc!Fault, LockedCall
  <2>1. /\ call' = [call EXCEPT ![p].n = call[p].k]
        /\ buffer' = [b \in 0 .. MAX_SIZE - 1 |-> IF gone(b) THEN 0 ELSE buffer[b]]
        /\ wiped' = IF call[p].id # 0 /\ call[p].k = 0 /\ wiped < call[p].n
                    THEN call[p].n ELSE wiped
    BY <1>3, <2>0 DEF Proc!Fault
  <2>2. Becomes(p, call[p].pc, call[p].size, call[p].k, call[p].k, call[p].from)
    BY <1>a, <1>c, <1>d, <2>1, Updates
  <2>3. LockedCall(p)'
    BY <1>a, <1>b, <1>c, <2>0, <2>2 DEF LockedCall, Becomes
  <2>4. /\ buffer' \in [0 .. MAX_SIZE - 1 -> Proc!Writes \union {0}] /\ wiped' \in Nat
        /\ \A b \in 0 .. MAX_SIZE - 1 :
             buffer'[b] = IF gone(b) THEN 0 ELSE buffer[b]
    BY <1>a, <1>c, <2>1 DEF ProcRest
  <2>5. MessageCall(p)'
    <3>1. ASSUME call[p].id # 0, NEW b \in 0 .. call[p].k - 1
          PROVE  buffer'[b] = call[p].id
      <4>1. buffer[b] = call[p].id
        BY <1>a, <2>0, <3>1 DEF MessageCall
      <4>2. b \in 0 .. MAX_SIZE - 1 /\ ~gone(b)
        BY <1>a, <1>c, <2>0, <3>1 DEF LockedCall
      <4> QED BY <2>4, <4>1, <4>2
    <3> QED BY <1>a, <1>b, <2>0, <2>2, <3>1 DEF MessageCall, Becomes
  <2>6. ASSUME call[p].id = 0 \/ call[p].k = 0 PROVE Whole'
    <3>1. ASSUME NEW b \in 0 .. bsize - 1
          PROVE  buffer'[b] = IF b < wiped' THEN 0 ELSE stored
      <4>1. b \in 0 .. MAX_SIZE - 1 /\ b \in Nat
        BY <1>a, <1>c, <3>1
      <4>2. buffer[b] = IF b < wiped THEN 0 ELSE stored
        BY <1>e, <2>6, <3>1 DEF Whole
      <4>3. buffer'[b] = IF gone(b) THEN 0 ELSE buffer[b]
        BY <2>4, <4>1
      <4>4. wiped \in Nat
        BY <1>a DEF ProcRest
      <4>5. CASE call[p].id = 0
        BY <2>1, <4>2, <4>3, <4>5
      <4>6. CASE call[p].id # 0
        BY <1>c, <2>1, <2>6, <4>1, <4>2, <4>3, <4>4, <4>6
      <4> QED BY <4>5, <4>6
    <3> QED BY <1>b, <3>1 DEF Whole
  <2>7. call'[p].id = 0 \/ call'[p].k = 0 => Whole'
    BY <2>2, <2>6 DEF Becomes
  <2> QED BY <1>a, <1>b, <2>2, <2>3, <2>4, <2>5, <2>7, LockedInside DEF Becomes
<1>4. CASE Proc!CopyByte(p)
  <2> DEFINE w == call[p].k + fpos[p]
  <2>0. /\ call[p].pc = "copy" /\ call[p].k < call[p].n /\ Proc!Where(p) = w
    BY <1>4 DEF Proc!CopyByte, Proc!Where
  <2>1. /\ w \in Nat /\ w < MAX_SIZE
        /\ call[p].id = 0 => w <= bsize - 1
        /\ call[p].id # 0 => w = call[p].k
    BY <1>a, <1>c, <2>0 DEF LockedCall
  <2>2. CASE call[p].id = 0
    <3>1. /\ call' = [call EXCEPT ![p].k = @ + 1, ![p].from = @ \union {buffer[w]}]
          /\ buffer' = buffer /\ wiped' = wiped
      BY <1>4, <2>0, <2>1, <2>2 DEF Proc!CopyByte
    <3> HIDE DEF w
    <3>2. buffer[w] \in Proc!Writes \union {0}
      BY <1>a, <2>1 DEF ProcRest
    <3>3. Becomes(p, "copy", call[p].size, call[p].n, call[p].k + 1,
                  call[p].from \union {buffer[w]})
      BY <1>a, <2>0, <3>1, <3>2, GetsByte
    <3>4. LockedCall(p)'
      BY <1>a, <1>b, <1>c, <2>0, <2>2, <3>3 DEF LockedCall, Becomes
    <3>5. Whole
      BY <1>e, <2>2
    <3>6. call[p].from \subseteq {0, stored}
      BY <1>a, <2>0, <2>2 DEF MessageCall
    <3>7. w \in 0 .. bsize - 1
      BY <1>c, <2>1, <2>2
    <3>8. call[p].from \union {buffer[w]} \subseteq {0, stored}
      BY <3>5, <3>6, <3>7 DEF Whole
    <3>9. \A v, u \in call[p].from \union {buffer[w]} : v # 0 /\ u # 0 => v = u
      BY <3>8
    <3>10. MessageCall(p)'
      BY <1>b, <2>2, <3>1, <3>3, <3>8, <3>9 DEF MessageCall, Becomes
    <3>11. Whole'
      BY <1>b, <3>1, <3>5 DEF Whole
    <3> QED BY <1>a, <1>b, <3>1, <3>3, <3>4, <3>10, <3>11, LockedInside
            DEF ProcRest, Becomes
  <2>3. CASE call[p].id # 0
    <3>1. /\ call' = [call EXCEPT ![p].k = @ + 1]
          /\ buffer' = [buffer EXCEPT ![call[p].k] = call[p].id] /\ wiped' = wiped
      BY <1>4, <2>0, <2>1, <2>3 DEF Proc!CopyByte
    <3>2. Becomes(p, "copy", call[p].size, call[p].n, call[p].k + 1, call[p].from)
      BY <1>a, <1>d, <2>0, <3>1, Updates
    <3>3. buffer' \in [0 .. MAX_SIZE - 1 -> Proc!Writes \union {0}] /\ wiped' \in Nat
      BY <1>a, <1>c, <3>1 DEF ProcRest
    <3>4. LockedCall(p)'
      BY <1>a, <1>b, <1>c, <2>0, <2>3, <3>2 DEF LockedCall, Becomes
    <3>5. \A b \in 0 .. call[p].k : buffer'[b] = call[p].id
      <4>1. \A b \in 0 .. call[p].k - 1 : buffer[b] = call[p].id
        BY <1>a, <2>0, <2>3 DEF MessageCall
      <4>2. call[p].k \in 0 .. MAX_SIZE - 1
        BY <1>c, <2>1, <2>3
      <4>3. \A b \in 0 .. call[p].k : b = call[p].k \/ b \in 0 .. call[p].k - 1
        BY <1>c
      <4>4. \A b \in 0 .. call[p].k : b \in 0 .. MAX_SIZE - 1
        BY <4>2
      <4> QED BY <1>a, <3>1, <4>1, <4>2, <4>3, <4>4 DEF ProcRest
    <3>6. MessageCall(p)'
      <4>1. \A b \in 0 .. call'[p].k - 1 : buffer'[b] = call'[p].id
        BY <1>c, <3>2, <3>5 DEF Becomes
      <4> QED BY <1>a, <2>3, <3>2, <4>1 DEF MessageCall, Becomes
    <3>7. ~(call'[p].id = 0 \/ call'[p].k = 0)
      BY <1>c, <2>3, <3>2 DEF Becomes
    <3> QED BY <1>b, <3>2, <3>3, <3>4, <3>6, <3>7, LockedInside DEF Becomes
  <2> QED BY <2>2, <2>3
<1> QED BY <1>1, <1>2, <1>3, <1>4

\* hello-debugfs-file.c: the end of a call, which gives the lock back.
LEMMA LockedEnd ==
    ASSUME ProcInv, variant = "debugfs", NEW p \in Callers, overlap' \in BOOLEAN,
           Proc!EndLocked(p)
    PROVE  ProcInv'
<1> USE ProcAssumption
<1>a. /\ call \in [Callers -> Proc!Calls] /\ ProcRest /\ LockedCall(p) /\ MessageCall(p)
      /\ call[p] \in Proc!Calls /\ bsize <= MAX_SIZE - 1
      /\ (\A q \in mutex : call[q].id = 0 \/ call[q].k = 0) => Whole
  BY DEF ProcInv, Proc!TypeOK, ProcRest, LockInv, MessageInv
<1>b. /\ call[p].k \in Nat /\ call[p].n \in Nat /\ call[p].from \subseteq Proc!Writes \union {0}
      /\ fpos[p] \in Nat /\ bsize \in Nat /\ call[p].id \in Proc!Writes \union {0}
  BY <1>a, CallParts DEF ProcRest
<1>1. /\ call[p].pc = "end" /\ UNCHANGED <<variant, buffer, writes>>
      /\ fpos' = [fpos EXCEPT ![p] = @ + call[p].k]
      /\ bsize' = IF call[p].id # 0 /\ call[p].k > 0 THEN fpos'[p] ELSE bsize
      /\ stored' = IF call[p].id # 0 /\ call[p].k > 0 THEN call[p].id ELSE stored
      /\ wiped' = IF call[p].id # 0 /\ call[p].k > 0 THEN 0 ELSE wiped
      /\ mutex' = mutex \ {p}
  BY DEF Proc!EndLocked
<1>2. p \in mutex /\ mutex = {p} /\ mutex' = {}
  BY <1>a, <1>1 DEF LockedCall, ProcInv, LockInv
<1>3. fpos' \in [Callers -> Nat] /\ fpos'[p] = fpos[p] + call[p].k
  BY <1>a, <1>b, <1>1 DEF ProcRest
<1>4. call[p].id # 0 => fpos[p] = 0 /\ call[p].k <= MAX_SIZE - 1
  BY <1>a, <1>b, <1>1 DEF LockedCall
<1>5. /\ bsize' \in Nat /\ bsize' <= MAX_SIZE - 1
      /\ call[p].id # 0 /\ call[p].k > 0 => bsize' = call[p].k
  BY <1>a, <1>b, <1>1, <1>3, <1>4
<1>6. call' = [call EXCEPT ![p] = Proc!Idle(call[p].k, call[p].from, call[p].k)]
  <2>1. ~(call[p].id # 0 /\ bsize' >= MAX_SIZE)
    BY <1>5
  <2> QED BY <2>1, <1>a DEF Proc!EndLocked
<1> DEFINE new == Proc!Idle(call[p].k, call[p].from, call[p].k)
<1>7. /\ new \in Proc!Calls /\ new.pc = "idle" /\ new.id = 0 /\ new.k = call[p].k
      /\ new.from = call[p].from /\ new.ret = call[p].k
  BY <1>b, IdleParts
<1> HIDE DEF new
<1>8. /\ call' \in [Callers -> Proc!Calls] /\ call'[p] = new
      /\ \A q \in Callers : q # p => call'[q] = call[q]
  BY <1>a, <1>6, <1>7, CallUpdate DEF new
<1>9. Proc!TypeOK'
  <2>1. stored' \in Proc!Writes /\ wiped' \in Nat
    BY <1>a, <1>b, <1>1 DEF ProcRest
  <2> QED BY <1>a, <1>1, <1>2, <1>3, <1>5, <1>8, <2>1
          DEF Proc!TypeOK, ProcRest, Proc!Writes
<1>10. LockedCall(p)'
  BY <1>2, <1>7, <1>8 DEF LockedCall
<1>11. MessageCall(p)'
  BY <1>a, <1>7, <1>8 DEF MessageCall
<1>12. Whole'
  <2>1. CASE call[p].id # 0 /\ call[p].k > 0
    <3>1. \A b \in 0 .. call[p].k - 1 : buffer[b] = call[p].id
      BY <1>a, <1>1, <2>1 DEF MessageCall
    <3> QED BY <1>1, <1>5, <2>1, <3>1 DEF Whole
  <2>2. CASE ~(call[p].id # 0 /\ call[p].k > 0)
    <3>1. UNCHANGED <<bsize, stored, wiped>> /\ (call[p].id = 0 \/ call[p].k = 0)
      BY <1>b, <1>1, <2>2
    <3>2. Whole
      BY <1>a, <1>2, <3>1
    <3> QED BY <1>1, <3>1, <3>2 DEF Whole
  <2> QED BY <2>1, <2>2
<1>13. \A q \in Callers : q # p => /\ call'[q] = call[q] /\ fpos'[q] = fpos[q]
                                   /\ q \in mutex' <=> q \in mutex
  BY <1>a, <1>1, <1>2, <1>8 DEF ProcRest
<1> QED BY <1>1, <1>2, <1>5, <1>9, <1>10, <1>11, <1>12, <1>13, LockedEnough

\* hello-debugfs-file.c: every step.
LEMMA LockedStep ==
    ASSUME ProcInv, variant = "debugfs", NEW p \in Callers, Proc!CallStep(p)
    PROVE  ProcInv'
<1>1. overlap' \in BOOLEAN
  BY OverlapStep DEF ProcInv, Proc!TypeOK
<1>2. call[p].pc \in {"idle", "lock", "size", "copy", "end"}
  BY DEF ProcInv, LockInv, LockedCall
<1>3. ~(\/ Proc!SetSize(p) \/ Proc!ClampSize(p) \/ Proc!LoadSize(p)
        \/ Proc!CopyText(p) \/ Proc!EndUnlocked(p))
  BY <1>2 DEF Proc!SetSize, Proc!ClampSize, Proc!LoadSize, Proc!CopyText,
     Proc!EndUnlocked
<1> QED BY <1>1, <1>3, LockedBegin, LockedCopy, LockedEnd DEF Proc!CallStep

\* procfs2.c and procfs3.c: what a step of p has to establish.
LEMMA UnlockedEnough ==
    ASSUME ProcInv, variant # "debugfs", variant' = variant, NEW p \in Callers,
           Proc!TypeOK', \A q \in Callers : q # p => call'[q] = call[q],
           call'[p].pc # "lock",
           variant = "procfs3" => /\ bsize' <= MAX_SIZE /\ call'[p].pc # "oob"
                                  /\ call'[p].size <= MAX_SIZE /\ call'[p].n <= MAX_SIZE,
           ~overlap' => /\ ~overlap /\ LoneCall(p)'
                        /\ \A q \in Callers : q # p => call[q].pc = "idle"
    PROVE  ProcInv'
<1>1. variant = "procfs3" => LimitedInv'
  BY DEF ProcInv, LimitedInv
<1>2. \A q \in Callers : call'[q].pc # "lock"
  BY DEF ProcInv
<1>3. ASSUME ~overlap' PROVE LoneInv'
  <2>1. \A q \in Callers : q # p => call'[q].pc = "idle" /\ LoneCall(q)'
    BY <1>3 DEF ProcInv, LoneInv, LoneCall
  <2>2. LoneCall(p)'
    BY <1>3
  <2> QED BY <2>1, <2>2 DEF LoneInv
<1> QED BY <1>1, <1>2, <1>3 DEF ProcInv

\* A step within a call keeps the other variables' types; without overlaps
\* nobody else has a call.
LEMMA UnlockedInside ==
    ASSUME ProcInv, variant # "debugfs", NEW p \in Callers, call[p].pc # "idle",
           UNCHANGED <<variant, mutex, writes, overlap, stored, wiped>>,
           bsize' \in Nat, fpos' \in [Callers -> Nat],
           buffer' \in [0 .. MAX_SIZE - 1 -> Proc!Writes \union {0}],
           call' \in [Callers -> Proc!Calls],
           \A q \in Callers : q # p => call'[q] = call[q],
           call'[p].pc # "lock",
           variant = "procfs3" => /\ bsize' <= MAX_SIZE /\ call'[p].pc # "oob"
                                  /\ call'[p].size <= MAX_SIZE /\ call'[p].n <= MAX_SIZE,
           LoneInv => LoneCall(p)'
    PROVE  ProcInv'
<1>1. Proc!TypeOK'
  BY DEF ProcInv, Proc!TypeOK, Proc!Writes
<1>2. ~overlap => LoneInv
  BY DEF ProcInv
<1>3. LoneInv => \A q \in Callers : q # p => call[q].pc = "idle"
  BY DEF LoneInv
<1> QED BY <1>1, <1>2, <1>3, UnlockedEnough

\* procfs2.c and procfs3.c: a call begins.
LEMMA UnlockedBegin ==
    ASSUME ProcInv, variant # "debugfs", NEW p \in Callers,
           overlap' \in BOOLEAN, overlap => overlap',
           \/ \E len \in Asked : Proc!Read(p, len) \/ Proc!Write(p, len)
           \/ Proc!Reopen(p)
    PROVE  ProcInv'
<1> USE ProcAssumption
<1>a. /\ call \in [Callers -> Proc!Calls] /\ ProcRest
      /\ variant \in {"procfs2", "procfs3"}
      /\ variant = "procfs3" => bsize <= MAX_SIZE
  BY DEF ProcInv, Proc!TypeOK, ProcRest, LimitedInv
<1>1. ASSUME NEW len \in Asked, NEW id \in Proc!Writes \union {0},
             NEW loc \in {"size", "text", "idle"}, Proc!Begin(p, id, len, loc),
             UNCHANGED <<variant, buffer, bsize, mutex, stored, wiped>>,
             writes' \in 0 .. MaxWrites, fpos' \in [Callers -> Nat]
      PROVE  ProcInv'
  <2>1. loc \in ProcPcs
    BY DEF ProcPcs
  <2>2. /\ call' \in [Callers -> Proc!Calls]
        /\ \A q \in Callers : q # p => call'[q] = call[q]
        /\ call'[p].pc = loc /\ call'[p].size = 0 /\ call'[p].n = 0
        /\ call'[p].k = 0 /\ call'[p].ret = 0
    BY <1>a, <1>1, <2>1, BeginCall
  <2>3. Proc!TypeOK'
    BY <1>a, <1>1, <2>2 DEF Proc!TypeOK, ProcRest, Proc!Writes
  <2>4. ~overlap' => \A q \in Callers : q # p => call[q].pc = "idle"
    BY <1>1 DEF Proc!Begin
  <2>5. LoneCall(p)'
    BY <1>1, <2>2 DEF LoneCall
  <2> QED BY <1>a, <1>1, <2>2, <2>3, <2>4, <2>5, UnlockedEnough
<1>2. ASSUME NEW len \in Asked, Proc!Read(p, len)
      PROVE  ProcInv'
  <2>1. PICK loc \in {"size", "text", "idle"} : Proc!Begin(p, 0, len, loc)
    <3>1. Proc!Begin(p, 0, len, CASE variant = "debugfs" -> "lock"
                          [] variant = "procfs2" /\ fpos[p] < TEXT_SIZE -> "text"
                          [] variant = "procfs3" /\ fpos[p] = 0 /\ bsize # 0 -> "size"
                          [] OTHER -> "idle")
      BY <1>2 DEF Proc!Read
    <3>2. CASE variant = "procfs2" /\ fpos[p] < TEXT_SIZE
      BY <3>1, <3>2
    <3>3. CASE variant = "procfs3" /\ fpos[p] = 0 /\ bsize # 0
      BY <3>1, <3>3
    <3>4. CASE /\ ~(variant = "procfs2" /\ fpos[p] < TEXT_SIZE)
               /\ ~(variant = "procfs3" /\ fpos[p] = 0 /\ bsize # 0)
      BY <3>1, <3>4
    <3> QED BY <3>2, <3>3, <3>4
  <2>2. /\ UNCHANGED <<variant, buffer, bsize, mutex, writes, stored, wiped>>
        /\ fpos' \in [Callers -> Nat]
    BY <1>2, <1>a DEF Proc!Read, ProcRest
  <2> QED BY <1>1, <1>a, <2>1, <2>2 DEF ProcRest
<1>3. ASSUME NEW len \in Asked, Proc!Write(p, len)
      PROVE  ProcInv'
  <2>1. /\ Proc!Begin(p, writes + 1, len, "size") /\ writes < MaxWrites
        /\ writes' = writes + 1
        /\ UNCHANGED <<variant, buffer, bsize, mutex, fpos, stored, wiped>>
    BY <1>3 DEF Proc!Write
  <2>2. writes + 1 \in Proc!Writes /\ writes' \in 0 .. MaxWrites
    BY <1>a, <2>1 DEF ProcRest, Proc!Writes
  <2> QED BY <1>1, <1>a, <2>1, <2>2 DEF ProcRest
<1>4. CASE Proc!Reopen(p)
  <2>1. /\ UNCHANGED <<variant, buffer, bsize, mutex, writes, call, overlap, stored, wiped>>
        /\ fpos' \in [Callers -> Nat]
    BY <1>4, <1>a DEF Proc!Reopen, ProcRest
  <2>2. Proc!TypeOK'
    BY <2>1 DEF ProcInv, Proc!TypeOK, Proc!Writes
  <2> QED BY <2>1, <2>2 DEF ProcInv, LimitedInv, LoneInv, LoneCall
<1> QED BY <1>2, <1>3, <1>4

\* procfs2.c and procfs3.c: the sizes that a call stores and loads.
LEMMA UnlockedSize ==
    ASSUME ProcInv, variant # "debugfs", NEW p \in Callers,
           Proc!SetSize(p) \/ Proc!ClampSize(p) \/ Proc!LoadSize(p)
    PROVE  ProcInv'
<1> USE ProcAssumption
<1>a. /\ call \in [Callers -> Proc!Calls] /\ ProcRest /\ call[p] \in Proc!Calls
      /\ variant \in {"procfs2", "procfs3"}
      /\ variant = "procfs3" => /\ bsize <= MAX_SIZE /\ call[p].size <= MAX_SIZE
                                /\ call[p].n <= MAX_SIZE
  BY DEF ProcInv, Proc!TypeOK, ProcRest, LimitedInv
<1>b. /\ call[p].k \in Nat /\ call[p].n \in Nat /\ call[p].len \in Nat
      /\ call[p].size \in Nat /\ bsize \in Nat
  BY <1>a, CallParts DEF ProcRest
<1>c. {"clamp", "test", "copy"} \subseteq ProcPcs /\ 0 \in Proc!Writes \union {0}
  BY DEF ProcPcs
<1>d. /\ UNCHANGED <<variant, mutex, writes, overlap, fpos, buffer, stored, wiped>>
      /\ fpos \in [Callers -> Nat]
      /\ buffer \in [0 .. MAX_SIZE - 1 -> Proc!Writes \union {0}]
  BY <1>a DEF Proc!SetSize, Proc!ClampSize, Proc!LoadSize, ProcRest
<1>e. LoneInv => LoneCall(p)
  BY DEF LoneInv
<1>1. CASE Proc!SetSize(p)
  <2> DEFINE m == Proc!NewSize(p)
             loc == IF variant = "procfs2" THEN "clamp" ELSE "test"
  <2>1. m \in Nat /\ (variant = "procfs3" => m <= MAX_SIZE)
    <3>1. CASE call[p].id = 0
      BY <1>a, <1>b, <3>1 DEF Proc!NewSize, Proc!Lowest
    <3>2. CASE call[p].id # 0 /\ variant = "procfs2"
      BY <1>b, <3>2 DEF Proc!NewSize, Proc!Lowest
    <3>3. CASE call[p].id # 0 /\ variant = "procfs3"
      BY <1>b, <3>3 DEF Proc!NewSize, Proc!Lowest
    <3> QED BY <1>a, <3>1, <3>2, <3>3
  <2>2. /\ call[p].pc = "size" /\ bsize' = m
        /\ call' = [call EXCEPT ![p].size = m, ![p].pc = loc]
    BY <1>1 DEF Proc!SetSize
  <2>3. loc \in ProcPcs /\ loc \in {"clamp", "test"} /\ (variant = "procfs2" => loc = "clamp")
    BY <1>c
  <2> HIDE DEF m, loc
  <2>4. Becomes(p, loc, m, call[p].n, call[p].k, call[p].from)
    BY <1>a, <1>c, <2>1, <2>2, <2>3, Updates
  <2>5. LoneInv => LoneCall(p)'
    BY <1>d, <1>e, <2>2, <2>3, <2>4 DEF LoneCall, Becomes
  <2>6. /\ bsize' \in Nat /\ call'[p].pc # "lock"
        /\ variant = "procfs3" => /\ bsize' <= MAX_SIZE /\ call'[p].pc # "oob"
                                  /\ call'[p].size <= MAX_SIZE
                                  /\ call'[p].n <= MAX_SIZE
    BY <1>a, <1>b, <2>1, <2>2, <2>3, <2>4 DEF Becomes
  <2>7. /\ call' \in [Callers -> Proc!Calls]
        /\ \A q \in Callers : q # p => call'[q] = call[q]
    BY <2>4 DEF Becomes
  <2> QED BY <1>d, <2>2, <2>5, <2>6, <2>7, UnlockedInside
<1>2. CASE Proc!ClampSize(p)
  <2> DEFINE m == Proc!Lowest(call[p].size, MAX_SIZE - 1)
  <2>1. /\ m \in Nat /\ m <= MAX_SIZE
        /\ Proc!Lowest(bsize, MAX_SIZE - 1) \in Nat
        /\ Proc!Lowest(bsize, MAX_SIZE - 1) <= MAX_SIZE - 1
    BY <1>b DEF Proc!Lowest
  <2>2. /\ call[p].pc = "clamp" /\ bsize' = Proc!Lowest(bsize, MAX_SIZE - 1)
        /\ call' = [call EXCEPT ![p].size = m, ![p].pc = "test"]
    BY <1>2 DEF Proc!ClampSize
  <2>3. LoneInv => m = bsize'
    BY <1>e, <2>2 DEF LoneCall
  <2> HIDE DEF m
  <2>4. Becomes(p, "test", m, call[p].n, call[p].k, call[p].from)
    BY <1>a, <1>c, <2>1, <2>2, Updates
  <2>5. LoneInv => LoneCall(p)'
    BY <1>d, <1>e, <2>1, <2>2, <2>3, <2>4 DEF LoneCall, Becomes
  <2>6. /\ bsize' \in Nat /\ call'[p].pc # "lock"
        /\ variant = "procfs3" => /\ bsize' <= MAX_SIZE /\ call'[p].pc # "oob"
                                  /\ call'[p].size <= MAX_SIZE
                                  /\ call'[p].n <= MAX_SIZE
    BY <1>a, <1>b, <2>1, <2>2, <2>4 DEF Becomes
  <2>7. /\ call' \in [Callers -> Proc!Calls]
        /\ \A q \in Callers : q # p => call'[q] = call[q]
    BY <2>4 DEF Becomes
  <2> QED BY <1>d, <2>2, <2>5, <2>6, <2>7, UnlockedInside
<1>3. CASE Proc!LoadSize(p)
  <2>1. PICK m \in {call[p].size, bsize} :
          call' = [call EXCEPT ![p].n = m, ![p].pc = "copy"]
    BY <1>3 DEF Proc!LoadSize
  <2>2. call[p].pc = "test" /\ bsize' = bsize
    BY <1>3 DEF Proc!LoadSize
  <2>3. m \in Nat /\ (variant = "procfs3" => m <= MAX_SIZE)
    BY <1>a, <1>b
  <2>4. Becomes(p, "copy", call[p].size, m, call[p].k, call[p].from)
    BY <1>a, <1>c, <2>1, <2>3, Updates
  <2>5. LoneInv => m = bsize
    BY <1>e, <2>2 DEF LoneCall
  <2>6. LoneInv => LoneCall(p)'
    BY <1>b, <1>d, <1>e, <2>2, <2>4, <2>5 DEF LoneCall, Becomes
  <2> QED BY <1>a, <1>b, <1>d, <2>2, <2>3, <2>4, <2>6, UnlockedInside DEF Becomes
<1> QED BY <1>1, <1>2, <1>3

\* procfs2.c and procfs3.c: the copy of a byte, and its end.
LEMMA UnlockedCopy ==
    ASSUME ProcInv, variant # "debugfs", NEW p \in Callers,
           Proc!CopyByte(p) \/ Proc!CopyEnds(p)
    PROVE  ProcInv'
<1> USE ProcAssumption
<1>a. /\ call \in [Callers -> Proc!Calls] /\ ProcRest /\ call[p] \in Proc!Calls
      /\ variant \in {"procfs2", "procfs3"}
      /\ variant = "procfs3" => /\ bsize <= MAX_SIZE /\ call[p].size <= MAX_SIZE
                                /\ call[p].n <= MAX_SIZE
  BY DEF ProcInv, Proc!TypeOK, ProcRest, LimitedInv
<1>b. /\ call[p].k \in Nat /\ call[p].n \in Nat /\ bsize \in Nat
      /\ call[p].id \in Proc!Writes \union {0}
  BY <1>a, CallParts DEF ProcRest
<1>c. {"copy", "end", "oob"} \subseteq ProcPcs /\ 0 \in Proc!Writes \union {0} /\ 0 \in Nat
  BY DEF ProcPcs
<1>d. /\ UNCHANGED <<variant, mutex, writes, overlap, fpos, bsize, stored, wiped>>
      /\ fpos \in [Callers -> Nat]
      /\ buffer \in [0 .. MAX_SIZE - 1 -> Proc!Writes \union {0}]
      /\ call[p].pc = "copy"
  BY <1>a DEF Proc!CopyByte, Proc!CopyEnds, ProcRest
<1>e. LoneInv => LoneCall(p)
  BY DEF LoneInv
<1>1. CASE Proc!CopyEnds(p)
  <2>1. /\ call[p].k = call[p].n /\ buffer' = buffer
        /\ call' = [call EXCEPT ![p].pc = "end"]
    BY <1>1 DEF Proc!CopyEnds
  <2>2. Becomes(p, "end", call[p].size, call[p].n, call[p].k, call[p].from)
    BY <1>a, <1>c, <2>1, Updates
  <2>3. LoneInv => LoneCall(p)'
    BY <1>d, <1>e, <2>1, <2>2 DEF LoneCall, Becomes
  <2> QED BY <1>a, <1>b, <1>d, <2>1, <2>2, <2>3, UnlockedInside DEF Becomes
<1>2. CASE Proc!CopyByte(p) /\ call[p].k >= MAX_SIZE
  <2>1. /\ call[p].k < call[p].n /\ buffer' = buffer
        /\ call' = [call EXCEPT ![p].pc = "oob"]
    BY <1>2, <1>b DEF Proc!CopyByte, Proc!Where
  <2>2. Becomes(p, "oob", call[p].size, call[p].n, call[p].k, call[p].from)
    BY <1>a, <1>c, <2>1, Updates
  <2>3. variant = "procfs2" /\ ~LoneInv
    BY <1>a, <1>b, <1>d, <1>e, <1>2, <2>1 DEF LoneCall
  <2> QED BY <1>a, <1>b, <1>d, <2>1, <2>2, <2>3, UnlockedInside DEF Becomes
<1>3. CASE Proc!CopyByte(p) /\ call[p].k < MAX_SIZE
  <2>0. call[p].k < call[p].n /\ Proc!Where(p) = call[p].k /\ call[p].k \in 0 .. MAX_SIZE - 1
    BY <1>3, <1>b DEF Proc!CopyByte, Proc!Where
  <2>1. \E from : Becomes(p, "copy", call[p].size, call[p].n, call[p].k + 1, from)
    <3>1. CASE call[p].id = 0
      <4>1. call' = [call EXCEPT ![p].k = @ + 1,
                                 ![p].from = @ \union {buffer[call[p].k]}]
        BY <1>3, <1>b, <2>0, <3>1 DEF Proc!CopyByte
      <4>2. buffer[call[p].k] \in Proc!Writes \union {0}
        BY <1>d, <2>0
      <4>3. Becomes(p, call[p].pc, call[p].size, call[p].n, call[p].k + 1,
                    call[p].from \union {buffer[call[p].k]})
        BY <1>a, <1>c, <4>1, <4>2, Updates
      <4> QED BY <1>d, <4>3
    <3>2. CASE call[p].id # 0
      <4>1. call' = [call EXCEPT ![p].k = @ + 1]
        BY <1>3, <1>b, <2>0, <3>2 DEF Proc!CopyByte
      <4>2. Becomes(p, call[p].pc, call[p].size, call[p].n, call[p].k + 1, call[p].from)
        BY <1>a, <1>c, <4>1, Updates
      <4> QED BY <1>d, <4>2
    <3> QED BY <3>1, <3>2
  <2>2. buffer' \in [0 .. MAX_SIZE - 1 -> Proc!Writes \union {0}]
    <3>1. buffer' = buffer \/ buffer' = [buffer EXCEPT ![call[p].k] = call[p].id]
      BY <1>3, <1>b, <2>0 DEF Proc!CopyByte
    <3> QED BY <1>b, <1>d, <3>1
  <2>3. LoneInv => LoneCall(p)'
    BY <1>b, <1>d, <1>e, <2>0, <2>1 DEF LoneCall, Becomes
  <2> QED BY <1>a, <1>b, <1>d, <2>1, <2>2, <2>3, UnlockedInside DEF Becomes
<1> QED BY <1>b, <1>1, <1>2, <1>3

\* procfs2.c and procfs3.c: a call returns.
LEMMA UnlockedEnd ==
    ASSUME ProcInv, variant # "debugfs", NEW p \in Callers,
           Proc!CopyText(p) \/ Proc!EndUnlocked(p) \/ Proc!Fault(p)
    PROVE  ProcInv'
<1> USE ProcAssumption
<1>a. /\ call \in [Callers -> Proc!Calls] /\ ProcRest /\ call[p] \in Proc!Calls
      /\ variant \in {"procfs2", "procfs3"}
      /\ variant = "procfs3" => /\ bsize <= MAX_SIZE /\ call[p].size <= MAX_SIZE
                                /\ call[p].n <= MAX_SIZE
  BY DEF ProcInv, Proc!TypeOK, ProcRest, LimitedInv
<1>b. /\ call[p].k \in Nat /\ call[p].n \in Nat /\ bsize \in Nat /\ fpos[p] \in Nat
      /\ call[p].from \subseteq Proc!Writes \union {0}
  BY <1>a, CallParts DEF ProcRest
<1>c. {"oob"} \subseteq ProcPcs /\ 0 \in Proc!Writes \union {0} /\ 0 \in Nat
  BY DEF ProcPcs
<1>d. /\ UNCHANGED <<variant, mutex, writes, overlap, bsize, stored, wiped>>
      /\ fpos' \in [Callers -> Nat]
      /\ buffer' \in [0 .. MAX_SIZE - 1 -> Proc!Writes \union {0}]
      /\ call[p].pc \in {"text", "copy", "end"}
  <2>1. \A m \in Nat : [fpos EXCEPT ![p] = @ + m] \in [Callers -> Nat]
    BY <1>a, <1>b DEF ProcRest
  <2>2. fpos' \in [Callers -> Nat]
    BY <1>a, <1>b, <2>1 DEF Proc!CopyText, Proc!EndUnlocked, Proc!Fault, ProcRest
  <2>3. buffer' \in [0 .. MAX_SIZE - 1 -> Proc!Writes \union {0}]
    <3>1. CASE Proc!CopyText(p) \/ Proc!EndUnlocked(p)
      BY <1>a, <3>1 DEF Proc!CopyText, Proc!EndUnlocked, ProcRest
    <3>2. CASE Proc!Fault(p)
      BY <1>a, <3>2 DEF Proc!Fault, ProcRest
    <3> QED BY <3>1, <3>2
  <2> QED BY <1>a, <2>2, <2>3 DEF Proc!CopyText, Proc!EndUnlocked, Proc!Fault
<1>e. LoneInv => LoneCall(p)
  BY DEF LoneInv
<1>1. ASSUME NEW k \in Nat, NEW from \in SUBSET (Proc!Writes \union {0}), NEW ret \in Nat,
             call' = [call EXCEPT ![p] = Proc!Idle(k, from, ret)],
             LoneInv => ret = k
      PROVE  ProcInv'
  <2> DEFINE new == Proc!Idle(k, from, ret)
  <2>1. /\ new \in Proc!Calls /\ new.pc = "idle" /\ new.k = k /\ new.ret = ret
        /\ new.size = 0 /\ new.n = 0
    BY IdleParts
  <2>2. call' = [call EXCEPT ![p] = new]
    BY <1>1
  <2> HIDE DEF new
  <2>3. /\ call' \in [Callers -> Proc!Calls] /\ call'[p] = new
        /\ \A q \in Callers : q # p => call'[q] = call[q]
    BY <1>a, <2>1, <2>2, CallUpdate
  <2>4. LoneInv => LoneCall(p)'
    BY <1>1, <2>1, <2>3 DEF LoneCall
  <2> QED BY <1>a, <1>b, <1>d, <2>1, <2>3, <2>4, UnlockedInside
<1>2. CASE Proc!CopyText(p)
  BY <1>1, <1>2 DEF Proc!CopyText
<1>3. CASE Proc!Fault(p) /\ ~(call[p].id # 0 /\ call[p].n > MAX_SIZE)
  <2>1. call' = [call EXCEPT ![p] = Proc!Idle(0, {}, 0)]
    BY <1>3 DEF Proc!Fault
  <2> QED BY <1>1, <2>1
<1>6. CASE Proc!Fault(p) /\ call[p].id # 0 /\ call[p].n > MAX_SIZE
  <2>1. call' = [call EXCEPT ![p].pc = "oob"]
    BY <1>6 DEF Proc!Fault
  <2>2. Becomes(p, "oob", call[p].size, call[p].n, call[p].k, call[p].from)
    BY <1>a, <1>c, <2>1, Updates
  <2>3. call[p].pc # "idle" /\ variant = "procfs2"
    BY <1>a, <1>b, <1>6 DEF Proc!Fault
  <2>4. ~LoneInv
    <3>1. call[p].pc = "copy" \/ call[p].pc = "text"
      BY <1>6 DEF Proc!Fault
    <3> QED BY <1>b, <1>e, <1>6, <2>3, <3>1 DEF LoneCall
  <2> QED BY <1>a, <1>b, <1>d, <2>2, <2>3, <2>4, UnlockedInside DEF Becomes
<1>4. CASE Proc!EndUnlocked(p) /\ variant = "procfs2" /\ bsize >= MAX_SIZE
  <2>1. call[p].pc = "end" /\ call' = [call EXCEPT ![p].pc = "oob"]
    BY <1>4 DEF Proc!EndUnlocked
  <2>2. Becomes(p, "oob", call[p].size, call[p].n, call[p].k, call[p].from)
    BY <1>a, <1>c, <2>1, Updates
  <2>3. ~LoneInv
    BY <1>b, <1>e, <1>4, <2>1 DEF LoneCall
  <2> QED BY <1>a, <1>b, <1>d, <1>4, <2>1, <2>2, <2>3, UnlockedInside DEF Becomes
<1>5. CASE Proc!EndUnlocked(p) /\ ~(variant = "procfs2" /\ bsize >= MAX_SIZE)
  <2>1. /\ call[p].pc = "end"
        /\ call' = [call EXCEPT ![p] = Proc!Idle(call[p].k, call[p].from, bsize)]
    BY <1>5 DEF Proc!EndUnlocked
  <2>2. LoneInv => bsize = call[p].k
    BY <1>e, <2>1 DEF LoneCall
  <2> QED BY <1>1, <1>b, <2>1, <2>2
<1> QED BY <1>2, <1>3, <1>4, <1>5, <1>6

\* Every step keeps the invariant.
LEMMA ProcStep == ProcInv /\ [Proc!Next]_(Proc!vars) => ProcInv'
<1> SUFFICES ASSUME ProcInv, [Proc!Next]_(Proc!vars) PROVE ProcInv'
  OBVIOUS
<1>1. CASE UNCHANGED Proc!vars
  <2>1. Proc!TypeOK'
    BY <1>1 DEF Proc!vars, ProcInv, Proc!TypeOK, Proc!Writes
  <2>2. variant = "debugfs" => LockInv' /\ MessageInv'
    BY <1>1 DEF Proc!vars, ProcInv, LockInv, LockedCall, MessageInv, MessageCall, Whole
  <2> QED BY <1>1, <2>1, <2>2 DEF Proc!vars, ProcInv, LimitedInv, LoneInv, LoneCall
<1>2. ASSUME NEW p \in Callers, Proc!CallStep(p), variant # "debugfs"
      PROVE  ProcInv'
  <2>1. overlap' \in BOOLEAN /\ (overlap => overlap')
    BY <1>2, OverlapStep DEF ProcInv, Proc!TypeOK
  <2>2. ~(Proc!MutexLock(p) \/ Proc!SimpleLength(p) \/ Proc!EndLocked(p))
    BY <1>2 DEF ProcInv, Proc!MutexLock, Proc!SimpleLength, Proc!EndLocked
  <2> QED BY <1>2, <2>1, <2>2, UnlockedBegin, UnlockedSize, UnlockedCopy, UnlockedEnd
          DEF Proc!CallStep
<1> QED BY <1>1, <1>2, LockedStep DEF Proc!Next

\* The properties of the files follow.
LEMMA ProcInvIsEnough ==
    ProcInv => /\ Proc!TypeOK /\ Proc!StaysInBuffer /\ Proc!CountsAreTrue
               /\ Proc!MessagesAreWhole
<1> SUFFICES ASSUME ProcInv
             PROVE  Proc!StaysInBuffer /\ Proc!CountsAreTrue /\ Proc!MessagesAreWhole
  BY DEF ProcInv
<1>1. Proc!StaysInBuffer
  BY DEF ProcInv, LockInv, LockedCall, LimitedInv, LoneInv, LoneCall,
     Proc!StaysInBuffer, Proc!Orderly
<1>2. Proc!CountsAreTrue
  BY DEF ProcInv, LockInv, LockedCall, LoneInv, LoneCall, Proc!CountsAreTrue,
     Proc!Orderly
<1>3. Proc!MessagesAreWhole
  BY DEF ProcInv, MessageInv, MessageCall, Whole, Proc!MessagesAreWhole
<1> QED BY <1>1, <1>2, <1>3

-----------------------------------------------------------------------------
(* dma.c, devicetree.c and devicemodel.c.                                  *)

\* How many steps the probe of a driver has.
LastStep == CASE board = "dma" -> 7 [] board = "devicetree" -> 2 [] OTHER -> 0

PlatformTypes ==
    /\ board \in {"dma", "devicetree", "devicemodel"}
    /\ rung \in {"out", "init", "added", "live", "exit"}
    /\ visible \subseteq pdevs /\ pdevs \subseteq Pdevs
    /\ bind \in [Pdevs -> {"no", "probing", "bound", "removing"}]
    /\ step \in [Pdevs -> 0 .. 7]
    /\ managed \in [Pdevs -> SUBSET {"demo", "coherent", "streaming", "data"}]
    /\ drvdata \in [Pdevs -> {"none", "demo", "data"}]

\* The driver is registered while the module is live; before and after there
\* is no driver on any device, and dma.c has its own device in between.
RungInv ==
    /\ listed <=> rung = "live"
    /\ rung \in {"out", "init", "added"} => \A d \in Pdevs : bind[d] = "no"
    /\ rung = "init" => board = "dma" /\ pdevs = {Platform!Mine} /\ visible = {}
    /\ board = "dma" /\ rung = "out" => pdevs = {}

\* How far a probe is says what the device holds: the mapping is there
\* between two steps that cannot fail, and the data before the pointer to it.
ProbeOf(d) ==
    /\ step[d] <= LastStep
    /\ bind[d] = "no" => managed[d] = {} /\ ~mapped[d] /\ drvdata[d] = "none"
    /\ bind[d] # "no" =>
         /\ mapped[d] => board = "dma" /\ step[d] = 5
         /\ board = "dma" /\ step[d] >= 2 => "demo" \in managed[d]
         /\ board = "devicetree" /\ step[d] >= 1 => "data" \in managed[d]
         /\ drvdata[d] # "none" =>
              /\ step[d] = LastStep
              /\ \/ board = "dma" /\ drvdata[d] = "demo"
                 \/ board = "devicetree" /\ drvdata[d] = "data"
         /\ board = "devicetree" /\ step[d] = 2 => drvdata[d] = "data"
    /\ bind[d] \in {"bound", "removing"} => step[d] = LastStep

PlatformInv ==
    /\ PlatformTypes /\ listed \in BOOLEAN /\ mapped \in [Pdevs -> BOOLEAN]
    /\ RungInv
    /\ \A d \in Pdevs : ProbeOf(d)

\* The steps of the probes.
LEMMA ProbeTable ==
    ASSUME board \in {"dma", "devicetree", "devicemodel"}
    PROVE  /\ LastStep \in 0 .. 7 /\ Len(Platform!Steps) = LastStep
           /\ board = "dma" => /\ LastStep = 7
                               /\ Platform!Steps[1] = "mask" /\ Platform!Steps[2] = "demo"
                               /\ Platform!Steps[3] = "coherent"
                               /\ Platform!Steps[4] = "streaming"
                               /\ Platform!Steps[5] = "map" /\ Platform!Steps[6] = "unmap"
                               /\ Platform!Steps[7] = "drvdata"
           /\ board = "devicetree" => /\ LastStep = 2
                                      /\ Platform!Steps[1] = "data"
                                      /\ Platform!Steps[2] = "drvdata"
           /\ board = "devicemodel" => LastStep = 0
<1>1. CASE board = "dma"
  BY <1>1 DEF LastStep, Platform!Steps
<1>2. CASE board = "devicetree"
  BY <1>2 DEF LastStep, Platform!Steps
<1>3. CASE board = "devicemodel"
  BY <1>3 DEF LastStep, Platform!Steps
<1> QED BY <1>1, <1>2, <1>3

\* The first states satisfy the invariant.
LEMMA PlatformInit == Platform!Init => PlatformInv
<1> SUFFICES ASSUME Platform!Init PROVE PlatformInv
  OBVIOUS
<1>1. PlatformTypes
  BY BoardsAssumption DEF Platform!Init, PlatformTypes
<1>2. listed \in BOOLEAN /\ mapped \in [Pdevs -> BOOLEAN] /\ ~listed
      /\ \A d \in Pdevs : ~mapped[d]
  BY Zenon DEF Platform!Init
<1>3. RungInv
  BY <1>2 DEF Platform!Init, RungInv
<1>4. LastStep \in 0 .. 7
  BY <1>1, ProbeTable DEF PlatformTypes
<1>5. \A d \in Pdevs : ProbeOf(d)
  BY <1>2, <1>4 DEF Platform!Init, ProbeOf
<1> QED BY <1>1, <1>2, <1>3, <1>5 DEF PlatformInv

\* The module comes and goes, and so do the devices of the board.
LEMMA PlatformModule ==
    ASSUME PlatformInv,
           \/ Platform!Start \/ Platform!Add \/ Platform!AddFails \/ Platform!Register
           \/ Platform!RegisterFails \/ Platform!Unregister \/ Platform!ExitReturns
           \/ \E d \in Pdevs : Platform!Plug(d) \/ Platform!Unplug(d)
    PROVE  PlatformInv'
<1>0. Platform!Mine \in Pdevs
  BY BoardsAssumption DEF Platform!Mine
<1>1. UNCHANGED <<board, bind, step, managed, mapped, drvdata>>
  BY DEF Platform!Start, Platform!Add, Platform!AddFails, Platform!Register,
     Platform!RegisterFails, Platform!Unregister, Platform!ExitReturns,
     Platform!Plug, Platform!Unplug, Platform!probeVars
<1>2. \A d \in Pdevs : ProbeOf(d)'
  BY <1>1 DEF PlatformInv, ProbeOf, LastStep
<1>3. PlatformTypes'
  <2>1. visible' \subseteq pdevs' /\ pdevs' \subseteq Pdevs
    BY <1>0 DEF PlatformInv, PlatformTypes, RungInv, Platform!Start, Platform!Add,
       Platform!AddFails, Platform!Register, Platform!RegisterFails,
       Platform!Unregister, Platform!ExitReturns, Platform!Plug, Platform!Unplug
  <2>2. rung' \in {"out", "init", "added", "live", "exit"}
    BY DEF PlatformInv, PlatformTypes, Platform!Start, Platform!Add,
       Platform!AddFails, Platform!Register, Platform!RegisterFails,
       Platform!Unregister, Platform!ExitReturns, Platform!Plug, Platform!Unplug
  <2> QED BY <1>1, <2>1, <2>2 DEF PlatformInv, PlatformTypes
<1>4. listed' \in BOOLEAN /\ mapped' \in [Pdevs -> BOOLEAN]
  <2>1. listed' = listed \/ listed' = TRUE \/ listed' = FALSE
    BY Zenon DEF Platform!Start, Platform!Add, Platform!AddFails, Platform!Register,
       Platform!RegisterFails, Platform!Unregister, Platform!ExitReturns,
       Platform!Plug, Platform!Unplug
  <2> QED BY <1>1, <2>1, Zenon DEF PlatformInv
<1>5. RungInv'
  BY <1>1 DEF PlatformInv, PlatformTypes, RungInv, Platform!Start, Platform!Add,
     Platform!AddFails, Platform!Register, Platform!RegisterFails,
     Platform!Unregister, Platform!ExitReturns, Platform!Detached, Platform!Plug,
     Platform!Unplug
<1> QED BY <1>2, <1>3, <1>4, <1>5 DEF PlatformInv

\* A probe begins with nothing held.
LEMMA PlatformStartProbe ==
    ASSUME PlatformInv, NEW d \in Pdevs, Platform!StartProbe(d)
    PROVE  PlatformInv'
<1>1. UNCHANGED <<board, rung, listed, pdevs, visible, managed, mapped, drvdata>>
      /\ bind[d] = "no" /\ listed
  BY DEF Platform!StartProbe
<1>2. PlatformTypes'
  BY <1>1 DEF PlatformInv, PlatformTypes, Platform!StartProbe
<1>3. RungInv'
  BY <1>1 DEF PlatformInv, PlatformTypes, RungInv, Platform!StartProbe
<1>4. LastStep' = LastStep /\ LastStep \in 0 .. 7
  BY <1>1, ProbeTable DEF PlatformInv, PlatformTypes, LastStep
<1>5. ASSUME NEW e \in Pdevs PROVE ProbeOf(e)'
  <2>1. CASE e = d
    <3>1. bind'[e] = "probing" /\ step'[e] = 0
      BY <2>1 DEF PlatformInv, PlatformTypes, Platform!StartProbe
    <3>2. managed'[e] = {} /\ ~mapped'[e] /\ drvdata'[e] = "none"
      BY <1>1, <2>1 DEF PlatformInv, ProbeOf
    <3> QED BY <1>1, <1>4, <3>1, <3>2, ProbeTable
            DEF PlatformInv, PlatformTypes, ProbeOf
  <2>2. CASE e # d
    BY <1>1, <1>4, <2>2 DEF PlatformInv, PlatformTypes, ProbeOf, Platform!StartProbe
  <2> QED BY <2>1, <2>2
<1>6. listed' \in BOOLEAN /\ mapped' \in [Pdevs -> BOOLEAN]
  BY <1>1, Zenon DEF PlatformInv
<1> QED BY <1>2, <1>3, <1>5, <1>6 DEF PlatformInv

\* A step of a probe that succeeds.
LEMMA PlatformProbeStep ==
    ASSUME PlatformInv, NEW d \in Pdevs, Platform!ProbeStep(d)
    PROVE  PlatformInv'
<1> DEFINE what == Platform!Steps[step[d] + 1]
<1>1. UNCHANGED <<board, rung, listed, pdevs, visible, bind>> /\ bind[d] = "probing"
      /\ step[d] < Len(Platform!Steps)
  BY DEF Platform!ProbeStep
<1>2. LastStep' = LastStep /\ LastStep \in 0 .. 7 /\ Len(Platform!Steps) = LastStep
      /\ step[d] \in 0 .. 7
  BY <1>1, ProbeTable DEF PlatformInv, PlatformTypes, LastStep
<1>3. step' = [step EXCEPT ![d] = @ + 1]
      /\ step' \in [Pdevs -> 0 .. 7] /\ step'[d] = step[d] + 1 /\ step'[d] <= LastStep
  BY <1>1, <1>2 DEF PlatformInv, PlatformTypes, Platform!ProbeStep
<1>4. managed' = [managed EXCEPT ![d] =
                    IF what \in {"demo", "coherent", "streaming", "data"}
                    THEN managed[d] \union {what} ELSE managed[d]]
  BY DEF Platform!ProbeStep
<1>5. drvdata' = [drvdata EXCEPT ![d] =
                    IF what = "drvdata" THEN IF board = "dma" THEN "demo" ELSE "data"
                    ELSE drvdata[d]]
  BY DEF Platform!ProbeStep
<1>6. /\ mapped' \in [Pdevs -> BOOLEAN]
      /\ \A e \in Pdevs : e # d => mapped'[e] = mapped[e]
      /\ mapped'[d] <=> (what = "map" \/ (mapped[d] /\ what # "unmap"))
  <2>1. mapped' = [mapped EXCEPT ![d] = Platform!Mapping(what, mapped[d])]
    BY DEF Platform!ProbeStep
  <2>2. mapped \in [Pdevs -> BOOLEAN]
    BY DEF PlatformInv
  <2>3. Platform!Mapping(what, mapped[d]) \in BOOLEAN
    BY Zenon DEF Platform!Mapping
  <2> HIDE DEF what
  <2>4. mapped' \in [Pdevs -> BOOLEAN]
    BY <2>1, <2>2, <2>3, Zenon
  <2>5. \A e \in Pdevs : e # d => mapped'[e] = mapped[e]
    BY <2>1, <2>2, Zenon
  <2>6. mapped'[d] = Platform!Mapping(what, mapped[d])
    BY <2>1, <2>2, Zenon
  <2> QED BY <2>4, <2>5, <2>6, Zenon DEF Platform!Mapping
<1> HIDE DEF what
<1>7. PlatformTypes'
  BY <1>1, <1>3, <1>4, <1>5 DEF PlatformInv, PlatformTypes
<1>8. RungInv'
  BY <1>1 DEF PlatformInv, PlatformTypes, RungInv
<1>9. ASSUME NEW e \in Pdevs PROVE ProbeOf(e)'
  <2>1. CASE e = d
    <3>1. managed'[d] = (IF what \in {"demo", "coherent", "streaming", "data"}
                         THEN managed[d] \union {what} ELSE managed[d])
      BY <1>4 DEF PlatformInv, PlatformTypes
    <3>2. drvdata'[d] = (IF what = "drvdata"
                         THEN IF board = "dma" THEN "demo" ELSE "data"
                         ELSE drvdata[d])
      BY <1>5 DEF PlatformInv, PlatformTypes
    <3>3. ProbeOf(d) /\ board \in {"dma", "devicetree", "devicemodel"}
      BY DEF PlatformInv, PlatformTypes
    <3>4. CASE board = "dma"
      <4>1. LastStep = 7 /\ step[d] \in 0 .. 6
            /\ (step[d] = 0 => what = "mask") /\ (step[d] = 1 => what = "demo")
            /\ (step[d] = 2 => what = "coherent") /\ (step[d] = 3 => what = "streaming")
            /\ (step[d] = 4 => what = "map") /\ (step[d] = 5 => what = "unmap")
            /\ (step[d] = 6 => what = "drvdata")
        BY <1>1, <1>2, <3>4, ProbeTable DEF what
      <4>2. mapped'[d] => step'[d] = 5
        BY <1>1, <1>3, <1>6, <3>3, <4>1 DEF ProbeOf
      <4>3. step'[d] >= 2 => "demo" \in managed'[d]
        BY <1>1, <1>3, <3>1, <3>3, <3>4, <4>1 DEF ProbeOf
      <4>4. drvdata'[d] # "none" => step'[d] = 7 /\ drvdata'[d] = "demo"
        BY <1>1, <1>3, <3>2, <3>3, <3>4, <4>1 DEF ProbeOf
      <4> QED BY <1>1, <1>2, <1>3, <2>1, <3>4, <4>1, <4>2, <4>3, <4>4 DEF ProbeOf
    <3>5. CASE board = "devicetree"
      <4>1. LastStep = 2 /\ step[d] \in 0 .. 1
            /\ (step[d] = 0 => what = "data") /\ (step[d] = 1 => what = "drvdata")
        BY <1>1, <1>2, <3>5, ProbeTable DEF what
      <4>2. ~mapped'[d]
        BY <1>1, <1>6, <3>3, <3>5, <4>1 DEF ProbeOf
      <4>3. "data" \in managed'[d]
        BY <1>1, <3>1, <3>3, <3>5, <4>1 DEF ProbeOf
      <4>4. (drvdata'[d] # "none" => step'[d] = 2 /\ drvdata'[d] = "data")
            /\ (step'[d] = 2 => drvdata'[d] = "data")
        BY <1>1, <1>3, <3>2, <3>3, <3>5, <4>1 DEF ProbeOf
      <4> QED BY <1>1, <1>2, <1>3, <2>1, <3>5, <4>1, <4>2, <4>3, <4>4 DEF ProbeOf
    <3>6. CASE board = "devicemodel"
      BY <1>1, <1>2, <3>6, ProbeTable
    <3> QED BY <3>3, <3>4, <3>5, <3>6
  <2>2. CASE e # d
    <3>1. managed'[e] = managed[e] /\ drvdata'[e] = drvdata[e] /\ step'[e] = step[e]
      BY <1>3, <1>4, <1>5, <2>2 DEF PlatformInv, PlatformTypes
    <3> QED BY <1>1, <1>2, <1>6, <2>2, <3>1 DEF PlatformInv, ProbeOf
  <2> QED BY <2>1, <2>2
<1>10. listed' \in BOOLEAN
  BY <1>1, Zenon DEF PlatformInv
<1> QED BY <1>6, <1>7, <1>8, <1>9, <1>10 DEF PlatformInv

\* A device that loses its driver while nothing of it is mapped.
LEMMA PlatformUnbound ==
    ASSUME PlatformInv, NEW d \in Pdevs, Platform!Unbound(d), ~mapped[d]
    PROVE  PlatformInv'
<1>1. UNCHANGED <<board, rung, listed, pdevs, visible, step, mapped>>
  BY DEF Platform!Unbound
<1>2. PlatformTypes'
  BY <1>1 DEF PlatformInv, PlatformTypes, Platform!Unbound
<1>3. RungInv'
  BY <1>1 DEF PlatformInv, PlatformTypes, RungInv, Platform!Unbound
<1>4. LastStep' = LastStep
  BY <1>1 DEF LastStep
<1>5. ASSUME NEW e \in Pdevs PROVE ProbeOf(e)'
  <2>1. CASE e = d
    BY <1>1, <1>4, <2>1 DEF PlatformInv, PlatformTypes, ProbeOf, Platform!Unbound
  <2>2. CASE e # d
    BY <1>1, <1>4, <2>2 DEF PlatformInv, PlatformTypes, ProbeOf, Platform!Unbound
  <2> QED BY <2>1, <2>2
<1>6. listed' \in BOOLEAN /\ mapped' \in [Pdevs -> BOOLEAN]
  BY <1>1, Zenon DEF PlatformInv
<1> QED BY <1>2, <1>3, <1>5, <1>6 DEF PlatformInv

\* A probe that fails, or that is done, and the removal of a driver.
LEMMA PlatformBinding ==
    ASSUME PlatformInv, NEW d \in Pdevs,
           \/ Platform!ProbeFails(d) \/ Platform!Bound(d)
           \/ Platform!StartRemove(d) \/ Platform!Remove(d)
    PROVE  PlatformInv'
<1>1. ProbeOf(d) /\ board \in {"dma", "devicetree", "devicemodel"}
      /\ step[d] \in 0 .. 7 /\ LastStep \in 0 .. 7 /\ Len(Platform!Steps) = LastStep
  BY ProbeTable DEF PlatformInv, PlatformTypes
<1>2. CASE Platform!ProbeFails(d)
  <2>1. bind[d] = "probing" /\ Platform!Unbound(d)
        /\ Platform!Steps[step[d] + 1] \notin {"unmap", "drvdata"}
    BY <1>2 DEF Platform!ProbeFails, Platform!CanFail
  <2>2. ~(board = "dma" /\ step[d] = 5)
    BY <1>1, <2>1, ProbeTable
  <2> QED BY <1>1, <2>1, <2>2, PlatformUnbound DEF ProbeOf
<1>3. CASE Platform!Remove(d)
  <2>1. bind[d] = "removing" /\ Platform!Unbound(d)
    BY <1>3 DEF Platform!Remove
  <2>2. ~mapped[d]
    BY <1>1, <2>1, ProbeTable DEF ProbeOf
  <2> QED BY <2>1, <2>2, PlatformUnbound
<1>4. CASE Platform!Bound(d) \/ Platform!StartRemove(d)
  <2>1. UNCHANGED <<board, rung, listed, pdevs, visible, step, managed, mapped, drvdata>>
        /\ step[d] = LastStep /\ bind[d] \in {"probing", "bound"}
    BY <1>1, <1>4 DEF ProbeOf, Platform!Bound, Platform!StartRemove
  <2>2. bind' = [bind EXCEPT ![d] = "bound"] \/ bind' = [bind EXCEPT ![d] = "removing"]
    BY <1>4 DEF Platform!Bound, Platform!StartRemove
  <2>3. PlatformTypes'
    BY <2>1, <2>2 DEF PlatformInv, PlatformTypes
  <2>4. RungInv'
    BY <2>1, <2>2 DEF PlatformInv, PlatformTypes, RungInv
  <2>5. LastStep' = LastStep
    BY <2>1 DEF LastStep
  <2>6. ASSUME NEW e \in Pdevs PROVE ProbeOf(e)'
    <3>1. CASE e = d
      BY <1>1, <2>1, <2>2, <2>5, <3>1 DEF PlatformInv, PlatformTypes, ProbeOf
    <3>2. CASE e # d
      BY <2>1, <2>2, <2>5, <3>2 DEF PlatformInv, PlatformTypes, ProbeOf
    <3> QED BY <3>1, <3>2
  <2>7. listed' \in BOOLEAN /\ mapped' \in [Pdevs -> BOOLEAN]
    BY <2>1, Zenon DEF PlatformInv
  <2> QED BY <2>3, <2>4, <2>6, <2>7 DEF PlatformInv
<1> QED BY <1>2, <1>3, <1>4

\* Every step keeps the invariant.
LEMMA PlatformStep ==
    ASSUME PlatformInv, [Platform!Next]_(Platform!vars)
    PROVE  PlatformInv'
<1>1. CASE UNCHANGED Platform!vars
  <2>1. UNCHANGED <<board, rung, listed, pdevs, visible, bind, step, managed, mapped,
                    drvdata>>
    BY <1>1 DEF Platform!vars
  <2>2. listed' \in BOOLEAN /\ mapped' \in [Pdevs -> BOOLEAN]
    BY <2>1, Zenon DEF PlatformInv
  <2> QED BY <2>1, <2>2 DEF PlatformInv, PlatformTypes, RungInv, ProbeOf, LastStep
<1>2. CASE Platform!Next
  BY <1>2, PlatformModule, PlatformStartProbe, PlatformProbeStep, PlatformBinding
  DEF Platform!Next
<1> QED BY <1>1, <1>2

\* The properties of the drivers follow.
LEMMA PlatformInvIsEnough ==
    PlatformInv => Platform!TypeOK /\ Platform!ProbesCleanUp /\ Platform!NoDriverWhenOut
<1> SUFFICES ASSUME PlatformInv
             PROVE  Platform!TypeOK /\ Platform!ProbesCleanUp /\ Platform!NoDriverWhenOut
  OBVIOUS
<1>1. LastStep \in 0 .. 7 /\ Len(Platform!Steps) = LastStep
      /\ board \in {"dma", "devicetree", "devicemodel"}
  BY ProbeTable DEF PlatformInv, PlatformTypes
<1>2. Platform!TypeOK
  <2>1. \A d \in Pdevs : step[d] \in 0 .. Len(Platform!Steps)
    BY <1>1 DEF PlatformInv, PlatformTypes, ProbeOf
  <2> QED BY <2>1, Zenon DEF PlatformInv, PlatformTypes, Platform!TypeOK
<1>3. ASSUME NEW d \in Pdevs
      PROVE  /\ bind[d] = "no" => managed[d] = {} /\ ~mapped[d]
             /\ bind[d] \in {"bound", "removing"} =>
                  /\ ~mapped[d]
                  /\ Platform!Needs \subseteq managed[d]
                  /\ drvdata[d] \in managed[d] \union {"none"}
                  /\ Platform!Needs # {} => drvdata[d] # "none"
  <2>1. ProbeOf(d) /\ step[d] \in 0 .. 7
    BY DEF PlatformInv, PlatformTypes
  <2>2. CASE board = "dma"
    BY <2>1, <2>2, ProbeTable, <1>1 DEF ProbeOf, Platform!Needs
  <2>3. CASE board = "devicetree"
    BY <2>1, <2>3, ProbeTable, <1>1 DEF ProbeOf, Platform!Needs
  <2>4. CASE board = "devicemodel"
    BY <2>1, <2>4, ProbeTable, <1>1 DEF ProbeOf, Platform!Needs
  <2> QED BY <1>1, <2>2, <2>3, <2>4
<1>4. Platform!NoDriverWhenOut
  BY DEF PlatformInv, RungInv, Platform!NoDriverWhenOut
<1> QED BY <1>2, <1>3, <1>4 DEF Platform!ProbesCleanUp

-----------------------------------------------------------------------------
(* blkram.c.                                                               *)

\* The first n of a list.
Firsts(list, n) == {list[m] : m \in 1 .. n}

\* The resource whose release waits for the requests.
DrainAt == IF era = "5.10" THEN 5 ELSE 6

\* What is held are the first resources, and the list of releases is these
\* backwards.
StackInv ==
    /\ era \in {"5.10", "5.15", "5.16", "5.18"}
    /\ bstage \in {"out", "init", "undo", "live", "exit"}
    /\ next \in 1 .. Len(Blk!Resources)
    /\ todo \in Seq(Firsts(Blk!Resources, Len(Blk!Resources)))
    /\ bstage = "out" => owned = {}
    /\ bstage = "init" => owned = Firsts(Blk!Resources, next - 1)
    /\ bstage = "live" => owned = Firsts(Blk!Resources, Len(Blk!Resources))
    /\ bstage \notin {"undo", "exit"} => todo = <<>>
    /\ bstage = "undo" => Len(todo) < Len(Blk!Resources)
    /\ bstage \in {"undo", "exit"} =>
         /\ Len(todo) \in 1 .. Len(Blk!Resources)
         /\ owned = Firsts(Blk!Resources, Len(todo))
         /\ \A n \in 1 .. Len(todo) : todo[n] = Blk!Resources[Len(todo) + 1 - n]

\* The device is open while the module is live; a request can outlive that
\* until the release that waits for it.
RequestInv ==
    /\ opened => bstage = "live"
    /\ \A s \in Slots :
         rq[s].on => \/ bstage = "live"
                     \/ bstage = "exit" /\ Len(todo) >= DrainAt

DiskRequests == [on : BOOLEAN, offset : 0 .. SIZE, rest : Seq(Nat \ {0}),
                 status : {"ok", "ioerr"}]

RequestTypes == rq \in [Slots -> DiskRequests]

BlkInv ==
    /\ StackInv /\ opened \in BOOLEAN /\ RequestTypes /\ RequestInv
    /\ \A t \in touched : t[1] < SIZE /\ t[2]
    /\ left \subseteq {"queue"} /\ (era \in {"5.10", "5.18"} => left = {})

\* The list of resources: no resource is there twice, the memory is the
\* third, and a failure at one jumps to the release of the one before it.
LEMMA ResourceTable ==
    ASSUME era \in {"5.10", "5.15", "5.16", "5.18"}
    PROVE  /\ Len(Blk!Resources) = DrainAt + (IF era = "5.10" THEN 2 ELSE 0)
           /\ Len(Blk!Resources) \in {6, 7}
           /\ \A m, n \in 1 .. Len(Blk!Resources) :
                Blk!Resources[m] = Blk!Resources[n] => m = n
           /\ Blk!Resources[3] = "data"
           /\ Blk!Resources[Len(Blk!Resources)] = "added"
           /\ \A n \in 1 .. Len(Blk!Resources) :
                Blk!Drains(Blk!Resources[n]) <=> n = DrainAt
           /\ Blk!Label(Blk!Resources[1]) = "return"
           /\ \A n \in 2 .. Len(Blk!Resources) :
                /\ Blk!Label(Blk!Resources[n]) = Blk!Resources[n - 1]
                /\ Blk!Resources[n - 1] # "return"
<1>1. CASE era = "5.10"
  BY <1>1 DEF Blk!Resources, Blk!Drains, Blk!Label, DrainAt
<1>2. CASE era # "5.10"
  BY <1>2 DEF Blk!Resources, Blk!Drains, Blk!Label, DrainAt
<1> QED BY <1>1, <1>2

\* The labels at the end of blkram_init are the resources backwards.
LEMMA ErrorTable ==
    ASSUME era \in {"5.10", "5.15", "5.16", "5.18"}
    PROVE  /\ Blk!ErrorPath \in Seq(Firsts(Blk!Resources, Len(Blk!Resources)))
           /\ Len(Blk!ErrorPath) \in 4 .. 5
           /\ \A n \in 1 .. Len(Blk!ErrorPath) :
                Blk!ErrorPath[n] = Blk!Resources[Len(Blk!ErrorPath) + 1 - n]
<1>1. CASE era = "5.10"
  BY <1>1 DEF Blk!Resources, Blk!ErrorPath, Firsts
<1>2. CASE era = "5.15"
  BY <1>2 DEF Blk!Resources, Blk!ErrorPath, Firsts
<1>3. CASE era \in {"5.16", "5.18"}
  <2>1. /\ Blk!ErrorPath = <<"disk", "tags", "data", "dev", "major">>
        /\ Blk!Resources = <<"major", "dev", "data", "tags", "disk", "added">>
    BY <1>3 DEF Blk!Resources, Blk!ErrorPath
  <2> QED BY <2>1 DEF Firsts
<1> QED BY <1>1, <1>2, <1>3

\* The first states satisfy the invariant.
LEMMA BlkInit == Blk!Init => BlkInv
<1> SUFFICES ASSUME Blk!Init PROVE BlkInv
  OBVIOUS
<1>0. era \in {"5.10", "5.15", "5.16", "5.18"}
  BY SegmentsAssumption DEF Blk!Init
<1>1. StackInv
  BY <1>0, ResourceTable DEF Blk!Init, StackInv
<1>2. opened \in BOOLEAN /\ ~opened
  BY Zenon DEF Blk!Init
<1>3. RequestTypes
  BY SegmentsAssumption DEF Blk!Init, Blk!NoRequest, RequestTypes, DiskRequests
<1>4. RequestInv
  BY <1>2 DEF Blk!Init, Blk!NoRequest, RequestInv
<1>5. touched = {} /\ left = {}
  BY DEF Blk!Init
<1> QED BY <1>1, <1>2, <1>3, <1>4, <1>5 DEF BlkInv

\* Init takes one resource after the other.
LEMMA BlkTakes ==
    ASSUME BlkInv, Blk!Load \/ Blk!Take
    PROVE  BlkInv'
<1>1. UNCHANGED <<era, todo, opened, rq, touched, left>>
  BY DEF Blk!Load, Blk!Take
<1>2. Blk!Resources' = Blk!Resources /\ DrainAt' = DrainAt
  BY <1>1 DEF Blk!Resources, DrainAt
<1>3. Len(Blk!Resources) \in {6, 7}
  BY ResourceTable DEF BlkInv, StackInv
<1>4. bstage \in {"out", "init"} /\ bstage' \in {"init", "live"}
  BY DEF Blk!Load, Blk!Take
<1>5. StackInv'
  <2>1. CASE Blk!Load
    <3>1. Firsts(Blk!Resources, 0) = {}
      BY DEF Firsts
    <3>2. next' = 1 /\ next' - 1 = 0 /\ bstage' = "init" /\ bstage = "out"
          /\ owned' = owned
      BY <2>1 DEF Blk!Load
    <3>3. owned' = Firsts(Blk!Resources, next' - 1)
      BY <3>1, <3>2 DEF BlkInv, StackInv
    <3> QED BY <1>1, <1>2, <1>3, <3>2, <3>3 DEF BlkInv, StackInv
  <2>2. CASE Blk!Take
    <3>1. Firsts(Blk!Resources, next) = Firsts(Blk!Resources, next - 1) \union {Blk!Resources[next]}
      BY <1>3 DEF BlkInv, StackInv, Firsts
    <3> QED BY <1>1, <1>2, <1>3, <2>2, <3>1 DEF BlkInv, StackInv, Blk!Take
  <2> QED BY <2>1, <2>2
<1>6. RequestInv'
  BY <1>1, <1>2, <1>4 DEF BlkInv, RequestInv
<1>7. opened' \in BOOLEAN
  BY <1>1, Zenon DEF BlkInv
<1> QED BY <1>1, <1>5, <1>6, <1>7 DEF BlkInv, RequestTypes

\* A failure jumps to the release of what was taken last.
LEMMA BlkTakeFails ==
    ASSUME BlkInv, Blk!TakeFails
    PROVE  BlkInv'
<1>1. UNCHANGED <<era, next, owned, opened, rq, touched, left>> /\ bstage = "init"
      /\ bstage' \in {"out", "undo"}
  BY DEF Blk!TakeFails
<1>2. Blk!Resources' = Blk!Resources /\ DrainAt' = DrainAt
  BY <1>1 DEF Blk!Resources, DrainAt
<1>3. Len(Blk!Resources) \in {6, 7} /\ era \in {"5.10", "5.15", "5.16", "5.18"}
      /\ next \in 1 .. Len(Blk!Resources)
  BY ResourceTable DEF BlkInv, StackInv
<1>4. StackInv'
  <2>1. CASE next = 1
    <3>1. bstage' = "out" /\ todo' = todo
      BY <1>3, <2>1, ResourceTable DEF Blk!TakeFails
    <3>2. Firsts(Blk!Resources, 0) = {}
      BY DEF Firsts
    <3> QED BY <1>1, <1>2, <2>1, <3>1, <3>2 DEF BlkInv, StackInv
  <2>2. CASE next # 1
    <3>1. Blk!Label(Blk!Resources[next]) = Blk!Resources[next - 1]
          /\ Blk!Resources[next - 1] # "return"
      BY <1>3, <2>2, ResourceTable
    <3>2. PICK n \in 1 .. Len(Blk!ErrorPath) :
            /\ Blk!ErrorPath[n] = Blk!Resources[next - 1]
            /\ todo' = SubSeq(Blk!ErrorPath, n, Len(Blk!ErrorPath))
      BY <3>1 DEF Blk!TakeFails
    <3>3. bstage' = "undo"
      BY <3>1 DEF Blk!TakeFails
    <3>4. /\ Len(Blk!ErrorPath) \in 4 .. 5
          /\ Blk!ErrorPath \in Seq(Firsts(Blk!Resources, Len(Blk!Resources)))
          /\ \A m \in 1 .. Len(Blk!ErrorPath) :
               Blk!ErrorPath[m] = Blk!Resources[Len(Blk!ErrorPath) + 1 - m]
      BY <1>3, ErrorTable
    <3>5. Len(Blk!ErrorPath) + 1 - n = next - 1
      <4>1. Blk!Resources[Len(Blk!ErrorPath) + 1 - n] = Blk!Resources[next - 1]
        BY <3>2, <3>4
      <4>2. \A m, k \in 1 .. Len(Blk!Resources) :
              Blk!Resources[m] = Blk!Resources[k] => m = k
        BY <1>3, ResourceTable
      <4>3. Len(Blk!ErrorPath) + 1 - n \in 1 .. Len(Blk!Resources)
            /\ next - 1 \in 1 .. Len(Blk!Resources)
        <5>1. next - 1 \in 1 .. Len(Blk!Resources)
          BY <1>3, <2>2
        <5>2. n \in 1 .. Len(Blk!ErrorPath)
          OBVIOUS
        <5>3. Len(Blk!ErrorPath) \in 4 .. 5 /\ Len(Blk!Resources) \in 6 .. 7
          BY <1>3, <3>4
        <5>4. \A e \in 4 .. 5, r \in 6 .. 7 : \A k \in 1 .. e : e + 1 - k \in 1 .. r
          OBVIOUS
        <5> QED BY <5>1, <5>2, <5>3, <5>4, Zenon
      <4> QED BY <4>1, <4>2, <4>3
    <3>6. /\ todo' \in Seq(Firsts(Blk!Resources, Len(Blk!Resources)))
          /\ Len(todo') = next - 1
          /\ \A m \in 1 .. Len(todo') : todo'[m] = Blk!ErrorPath[n + m - 1]
      BY <3>2, <3>4, <3>5
    <3>7. ASSUME NEW m \in 1 .. Len(todo')
          PROVE  todo'[m] = Blk!Resources[Len(todo') + 1 - m]
      <4>1. n + m - 1 \in 1 .. Len(Blk!ErrorPath)
            /\ Len(Blk!ErrorPath) + 1 - (n + m - 1) = Len(todo') + 1 - m
        BY <1>3, <3>2, <3>4, <3>5, <3>6
      <4> QED BY <3>4, <3>6, <4>1
    <3> QED BY <1>1, <1>2, <1>3, <2>2, <3>3, <3>6, <3>7 DEF BlkInv, StackInv
  <2> QED BY <2>1, <2>2
<1>5. RequestInv'
  BY <1>1 DEF BlkInv, RequestInv
<1>6. opened' \in BOOLEAN
  BY <1>1, Zenon DEF BlkInv
<1> QED BY <1>1, <1>4, <1>5, <1>6 DEF BlkInv, RequestTypes

\* One release: the last resource that is held goes.
LEMMA BlkRelease ==
    ASSUME BlkInv, Blk!Release
    PROVE  BlkInv'
<1>1. UNCHANGED <<era, next, opened, rq, touched>> /\ bstage \in {"undo", "exit"}
      /\ owned' = owned \ {Head(todo)} /\ todo' = Tail(todo)
      /\ bstage' = (IF todo' = <<>> THEN "out" ELSE bstage)
  BY DEF Blk!Release
<1>2. Blk!Resources' = Blk!Resources /\ DrainAt' = DrainAt
  BY <1>1 DEF Blk!Resources, DrainAt
<1>3. /\ Len(Blk!Resources) \in {6, 7} /\ era \in {"5.10", "5.15", "5.16", "5.18"}
      /\ todo \in Seq(Firsts(Blk!Resources, Len(Blk!Resources)))
      /\ Len(todo) \in 1 .. Len(Blk!Resources)
      /\ owned = Firsts(Blk!Resources, Len(todo))
      /\ \A n \in 1 .. Len(todo) : todo[n] = Blk!Resources[Len(todo) + 1 - n]
  BY <1>1, ResourceTable DEF BlkInv, StackInv
<1>4. Head(todo) = Blk!Resources[Len(todo)]
  BY <1>3
<1>5. /\ todo' \in Seq(Firsts(Blk!Resources, Len(Blk!Resources)))
      /\ Len(todo') = Len(todo) - 1
      /\ \A n \in 1 .. Len(todo') : todo'[n] = todo[n + 1]
  BY <1>1, <1>3
<1>6. owned' = Firsts(Blk!Resources, Len(todo'))
  <2>1. \A m, n \in 1 .. Len(Blk!Resources) :
          Blk!Resources[m] = Blk!Resources[n] => m = n
    BY <1>3, ResourceTable
  <2>2. Len(todo) \in 1 .. Len(Blk!Resources) /\ Len(todo) - 1 = Len(todo')
    BY <1>3, <1>5
  <2>3. Firsts(Blk!Resources, Len(todo)) \ {Blk!Resources[Len(todo)]}
          = Firsts(Blk!Resources, Len(todo) - 1)
    BY <1>3, <2>1 DEF Firsts
  <2> QED BY <1>1, <1>3, <1>4, <2>2, <2>3
<1>7. \A n \in 1 .. Len(todo') : todo'[n] = Blk!Resources[Len(todo') + 1 - n]
  BY <1>3, <1>5
<1>8. todo' = <<>> <=> Len(todo') = 0
  BY <1>5
<1>9. StackInv'
  <2>1. Firsts(Blk!Resources, 0) = {}
    BY DEF Firsts
  <2> QED BY <1>1, <1>2, <1>3, <1>5, <1>6, <1>7, <1>8, <2>1 DEF BlkInv, StackInv
<1>10. RequestInv'
  <2>1. ~opened
    BY <1>1 DEF BlkInv, RequestInv
  <2>2. ASSUME NEW s \in Slots, rq[s].on PROVE bstage' = "exit" /\ Len(todo') >= DrainAt
    <3>1. bstage = "exit" /\ Len(todo) >= DrainAt
      BY <1>1, <2>2 DEF BlkInv, RequestInv
    <3>2. Len(todo) # DrainAt
      <4>1. ~Blk!Drains(Head(todo))
        BY <2>2 DEF Blk!Release
      <4> QED BY <1>3, <1>4, <4>1, ResourceTable
    <3>3. DrainAt \in {5, 6}
      BY DEF DrainAt
    <3>4. Len(todo') >= DrainAt
      BY <1>3, <1>5, <3>1, <3>2, <3>3
    <3>5. todo' # <<>>
      BY <1>8, <3>3, <3>4
    <3> QED BY <1>1, <3>1, <3>4, <3>5
  <2> QED BY <1>1, <1>2, <2>1, <2>2 DEF RequestInv
<1>11. opened' \in BOOLEAN
  BY <1>1, Zenon DEF BlkInv
<1>12. left' \subseteq {"queue"} /\ (era' \in {"5.10", "5.18"} => left' = {})
  BY <1>1 DEF BlkInv, Blk!Release, Blk!LeavesQueue
<1> QED BY <1>1, <1>9, <1>10, <1>11, <1>12 DEF BlkInv, RequestTypes

\* blkram_exit goes through all of the resources.
LEMMA BlkRmmod ==
    ASSUME BlkInv, Blk!Rmmod
    PROVE  BlkInv'
<1>1. UNCHANGED <<era, next, owned, opened, rq, touched, left>> /\ bstage = "live"
      /\ bstage' = "exit" /\ ~opened
  BY DEF Blk!Rmmod
<1>2. Blk!Resources' = Blk!Resources /\ DrainAt' = DrainAt
  BY <1>1 DEF Blk!Resources, DrainAt
<1>3. Len(Blk!Resources) \in {6, 7} /\ era \in {"5.10", "5.15", "5.16", "5.18"}
      /\ Len(Blk!Resources) >= DrainAt
  <2>1. era \in {"5.10", "5.15", "5.16", "5.18"}
    BY DEF BlkInv, StackInv
  <2>2. DrainAt \in {5, 6}
    BY DEF DrainAt
  <2> QED BY <2>1, <2>2, ResourceTable
<1>4. /\ todo' \in Seq(Firsts(Blk!Resources, Len(Blk!Resources)))
      /\ Len(todo') = Len(Blk!Resources)
      /\ \A n \in 1 .. Len(todo') : todo'[n] = Blk!Resources[Len(todo') + 1 - n]
  <2>1. CASE era = "5.10"
    BY <2>1 DEF Blk!Rmmod, Blk!Resources, Firsts
  <2>2. CASE era # "5.10"
    BY <2>2 DEF Blk!Rmmod, Blk!Resources, Firsts
  <2> QED BY <2>1, <2>2
<1>5. StackInv'
  BY <1>1, <1>2, <1>3, <1>4 DEF BlkInv, StackInv
<1>6. RequestInv'
  BY <1>1, <1>2, <1>3, <1>4 DEF BlkInv, RequestInv
<1>7. opened' \in BOOLEAN
  BY <1>1, Zenon DEF BlkInv
<1> QED BY <1>1, <1>5, <1>6, <1>7 DEF BlkInv, RequestTypes

\* Open and close.
LEMMA BlkUsers ==
    ASSUME BlkInv, Blk!Open \/ Blk!Close
    PROVE  BlkInv'
<1>1. UNCHANGED <<era, bstage, next, todo, owned, rq, touched, left>>
  BY DEF Blk!Open, Blk!Close
<1>2. Blk!Resources' = Blk!Resources /\ DrainAt' = DrainAt
  BY <1>1 DEF Blk!Resources, DrainAt
<1>3. StackInv'
  BY <1>1, <1>2 DEF BlkInv, StackInv
<1>4. opened' \in BOOLEAN
  <2>1. opened' = TRUE \/ opened' = FALSE
    BY Zenon DEF Blk!Open, Blk!Close
  <2> QED BY <2>1, Zenon
<1>5. opened' => bstage = "live"
  <2>1. CASE Blk!Open
    <3>1. "added" \in owned /\ bstage # "exit"
      BY <2>1 DEF Blk!Open
    <3>2. /\ Len(Blk!Resources) \in {6, 7}
          /\ Blk!Resources[Len(Blk!Resources)] = "added"
          /\ \A m, n \in 1 .. Len(Blk!Resources) :
               Blk!Resources[m] = Blk!Resources[n] => m = n
      BY ResourceTable DEF BlkInv, StackInv
    <3>3. \A n \in 0 .. Len(Blk!Resources) - 1 : "added" \notin Firsts(Blk!Resources, n)
      BY <3>2 DEF Firsts
    <3>4. bstage # "undo"
      BY <3>1, <3>2, <3>3 DEF BlkInv, StackInv
    <3>5. bstage # "init"
      BY <3>1, <3>2, <3>3 DEF BlkInv, StackInv
    <3> QED BY <3>1, <3>4, <3>5 DEF BlkInv, StackInv
  <2>2. CASE Blk!Close
    BY <2>2 DEF Blk!Close
  <2> QED BY <2>1, <2>2
<1>6. RequestInv'
  BY <1>1, <1>2, <1>5 DEF BlkInv, RequestInv
<1> QED BY <1>1, <1>3, <1>4, <1>6 DEF BlkInv, RequestTypes

\* A step of a request.
LEMMA BlkRequest ==
    ASSUME BlkInv, NEW s \in Slots,
           \/ Blk!blkram_queue_rq(s)
           \/ \E sector \in 0 .. SIZE, segments \in Segments, pt \in BOOLEAN :
                Blk!Submit(s, sector, segments, pt)
    PROVE  BlkInv'
<1>1. UNCHANGED <<era, bstage, next, todo, owned, opened, left>>
  BY DEF Blk!blkram_queue_rq, Blk!Transfer, Blk!EndRequest, Blk!Submit
<1>2. Blk!Resources' = Blk!Resources /\ DrainAt' = DrainAt
  BY <1>1 DEF Blk!Resources, DrainAt
<1>3. StackInv'
  BY <1>1, <1>2 DEF BlkInv, StackInv
<1>4. opened' \in BOOLEAN
  BY <1>1, Zenon DEF BlkInv
<1>5. PICK r \in DiskRequests : rq' = [rq EXCEPT ![s] = r] /\ (r.on => bstage = "live" \/ rq[s].on)
  <2>1. CASE \E sector \in 0 .. SIZE, segments \in Segments, pt \in BOOLEAN :
               Blk!Submit(s, sector, segments, pt)
    <3>1. PICK sector \in 0 .. SIZE, segments \in Segments, pt \in BOOLEAN :
            Blk!Submit(s, sector, segments, pt)
      BY <2>1
    <3>2. bstage = "live"
      BY <3>1 DEF BlkInv, RequestInv, Blk!Submit
    <3> DEFINE r == [on |-> TRUE, offset |-> sector,
                     rest |-> IF pt THEN <<>> ELSE segments,
                     status |-> IF pt THEN "ioerr" ELSE "ok"]
    <3>3. rq' = [rq EXCEPT ![s] = r]
      BY <3>1 DEF Blk!Submit
    <3>4. r \in DiskRequests
      BY SegmentsAssumption DEF DiskRequests
    <3> QED BY <3>2, <3>3, <3>4
  <2>2. CASE Blk!EndRequest(s)
    <3>1. Blk!NoRequest \in DiskRequests /\ ~Blk!NoRequest.on
      BY SegmentsAssumption DEF Blk!NoRequest, DiskRequests
    <3>2. rq' = [rq EXCEPT ![s] = Blk!NoRequest]
      BY <2>2 DEF Blk!EndRequest
    <3> QED BY <3>1, <3>2
  <2>3. CASE Blk!Transfer(s)
    <3>1. rq[s].on /\ rq[s].rest # <<>> /\ rq[s] \in DiskRequests
      BY <2>3 DEF BlkInv, RequestTypes, Blk!Transfer
    <3>2. CASE Blk!Fits(s)
      <4> DEFINE r == [rq[s] EXCEPT !.offset = rq[s].offset + Head(rq[s].rest),
                                    !.rest = Tail(rq[s].rest)]
      <4>1. rq' = [rq EXCEPT ![s] = r]
        BY <2>3, <3>1, <3>2 DEF BlkInv, RequestTypes, DiskRequests, Blk!Transfer
      <4>2. Head(rq[s].rest) \in Nat \ {0} /\ Tail(rq[s].rest) \in Seq(Nat \ {0})
            /\ rq[s].offset \in 0 .. SIZE
        BY <3>1 DEF DiskRequests
      <4>3. rq[s].offset + Head(rq[s].rest) \in 0 .. SIZE
        BY <3>2, <4>2, SegmentsAssumption DEF Blk!Fits
      <4>4. r \in DiskRequests
        BY <3>1, <4>2, <4>3 DEF DiskRequests
      <4> QED BY <3>1, <4>1, <4>4
    <3>3. CASE ~Blk!Fits(s)
      <4> DEFINE r == [rq[s] EXCEPT !.rest = <<>>, !.status = "ioerr"]
      <4>1. rq' = [rq EXCEPT ![s] = r]
        BY <2>3, <3>1, <3>3 DEF BlkInv, RequestTypes, DiskRequests, Blk!Transfer
      <4>2. r \in DiskRequests
        <5>1. <<>> \in Seq(Nat \ {0})
          OBVIOUS
        <5> QED BY <3>1, <5>1 DEF DiskRequests
      <4> QED BY <3>1, <4>1, <4>2
    <3> QED BY <3>2, <3>3
  <2> QED BY <2>1, <2>2, <2>3 DEF Blk!blkram_queue_rq
<1>6. RequestTypes'
  BY <1>5 DEF BlkInv, RequestTypes
<1>7. RequestInv'
  <2>1. ASSUME NEW e \in Slots, rq'[e].on
        PROVE  bstage = "live" \/ (bstage = "exit" /\ Len(todo) >= DrainAt)
    <3>1. e # s => rq'[e] = rq[e]
      BY <1>5 DEF BlkInv, RequestTypes
    <3>2. e = s => rq'[e] = r
      BY <1>5 DEF BlkInv, RequestTypes
    <3>3. e # s => rq[e].on
      BY <2>1, <3>1
    <3>4. e = s => bstage = "live" \/ rq[e].on
      BY <1>5, <2>1, <3>2
    <3> QED BY <3>3, <3>4 DEF BlkInv, RequestInv
  <2> QED BY <1>1, <1>2, <2>1 DEF BlkInv, RequestInv
<1>8. \A t \in touched' : t[1] < SIZE /\ t[2]
  <2>1. CASE touched' = touched
    BY <2>1 DEF BlkInv
  <2>2. CASE Blk!Transfer(s) /\ Blk!Fits(s)
    <3>1. rq[s].on /\ rq[s].rest # <<>> /\ rq[s] \in DiskRequests
      BY <2>2 DEF BlkInv, RequestTypes, Blk!Transfer
    <3>2. touched' = touched \union
            {<<rq[s].offset + Head(rq[s].rest) - 1, "data" \in owned>>}
      BY <2>2 DEF Blk!Transfer
    <3>3. rq[s].offset + Head(rq[s].rest) - 1 < SIZE
      BY <2>2, <3>1, SegmentsAssumption DEF DiskRequests, Blk!Fits
    <3>4. "data" \in owned
      <4>1. bstage = "live" \/ (bstage = "exit" /\ Len(todo) >= DrainAt)
        BY <3>1 DEF BlkInv, RequestInv
      <4>2. Len(Blk!Resources) \in {6, 7} /\ Blk!Resources[3] = "data"
            /\ DrainAt \in {5, 6}
        BY ResourceTable DEF BlkInv, StackInv, DrainAt
      <4>3. \A n \in Nat : n >= 3 => "data" \in Firsts(Blk!Resources, n)
        BY <4>2 DEF Firsts
      <4> QED BY <4>1, <4>2, <4>3 DEF BlkInv, StackInv
    <3>5. ASSUME NEW t \in touched' PROVE t[1] < SIZE /\ t[2]
      <4>1. CASE t \in touched
        BY <4>1 DEF BlkInv
      <4>2. CASE t = <<rq[s].offset + Head(rq[s].rest) - 1, "data" \in owned>>
        <5>1. t[1] = rq[s].offset + Head(rq[s].rest) - 1
          BY <4>2
        <5>2. t[2] = ("data" \in owned)
          BY <4>2
        <5>3. t[2]
          BY <3>4, <5>2, Zenon
        <5> QED BY <3>3, <5>1, <5>3
      <4> QED BY <3>2, <4>1, <4>2
    <3> QED BY <3>5
  <2> QED BY <2>1, <2>2
          DEF Blk!blkram_queue_rq, Blk!Transfer, Blk!EndRequest, Blk!Submit
<1> QED BY <1>1, <1>3, <1>4, <1>6, <1>7, <1>8 DEF BlkInv

\* Every step keeps the invariant.
LEMMA BlkStep ==
    ASSUME BlkInv, [Blk!Next]_(Blk!vars)
    PROVE  BlkInv'
<1>1. CASE UNCHANGED Blk!vars
  <2>1. UNCHANGED <<era, bstage, next, todo, owned, opened, rq, touched, left>>
    BY <1>1 DEF Blk!vars
  <2>2. Blk!Resources' = Blk!Resources /\ DrainAt' = DrainAt
    BY <2>1 DEF Blk!Resources, DrainAt
  <2>3. opened' \in BOOLEAN
    BY <2>1, Zenon DEF BlkInv
  <2>4. StackInv' /\ RequestInv' /\ RequestTypes'
    BY <2>1, <2>2 DEF BlkInv, StackInv, RequestInv, RequestTypes
  <2> QED BY <2>1, <2>3, <2>4 DEF BlkInv
<1>2. CASE Blk!Next
  BY <1>2, BlkTakes, BlkTakeFails, BlkRelease, BlkRmmod, BlkUsers, BlkRequest
  DEF Blk!Next
<1> QED BY <1>1, <1>2

\* The properties of the block device follow.
LEMMA BlkInvIsEnough ==
    BlkInv => Blk!TypeOK /\ Blk!TransfersHaveMemory /\ Blk!GivenBackInOrder
<1> SUFFICES ASSUME BlkInv
             PROVE  Blk!TypeOK /\ Blk!TransfersHaveMemory /\ Blk!GivenBackInOrder
  OBVIOUS
<1>1. Len(Blk!Resources) \in {6, 7}
  BY ResourceTable DEF BlkInv, StackInv
<1>2. Blk!TypeOK
  <2>1. owned \subseteq Firsts(Blk!Resources, Len(Blk!Resources))
    BY <1>1 DEF BlkInv, StackInv, Firsts
  <2>2. \A s \in Slots : rq[s].offset \in 0 .. SIZE
    BY DEF BlkInv, RequestTypes, DiskRequests
  <2> QED BY <2>1, <2>2, Zenon DEF BlkInv, StackInv, Firsts, Blk!TypeOK
<1>3. Blk!GivenBackInOrder
  <2>1. CASE bstage \in {"undo", "exit"}
    <3>1. /\ Len(todo) \in 1 .. Len(Blk!Resources)
          /\ owned = Firsts(Blk!Resources, Len(todo))
          /\ \A n \in 1 .. Len(todo) : todo[n] = Blk!Resources[Len(todo) + 1 - n]
      BY <2>1 DEF BlkInv, StackInv
    <3>2. owned = {todo[n] : n \in 1 .. Len(todo)}
      <4>1. ASSUME NEW m \in 1 .. Len(todo)
            PROVE  Blk!Resources[m] \in {todo[n] : n \in 1 .. Len(todo)}
        <5>1. Len(todo) + 1 - m \in 1 .. Len(todo)
              /\ todo[Len(todo) + 1 - m] = Blk!Resources[m]
          BY <1>1, <3>1
        <5> QED BY <5>1
      <4>2. ASSUME NEW m \in 1 .. Len(todo)
            PROVE  todo[m] \in Firsts(Blk!Resources, Len(todo))
        BY <1>1, <3>1 DEF Firsts
      <4> QED BY <3>1, <4>1, <4>2 DEF Firsts
    <3>3. ASSUME NEW i \in 1 .. Len(todo), NEW j \in 1 .. Len(todo), i < j
          PROVE  \E m, n \in 1 .. Len(Blk!Resources) :
                    todo[i] = Blk!Resources[m] /\ todo[j] = Blk!Resources[n] /\ n < m
      <4>1. /\ Len(todo) + 1 - i \in 1 .. Len(Blk!Resources)
            /\ Len(todo) + 1 - j \in 1 .. Len(Blk!Resources)
            /\ Len(todo) + 1 - j < Len(todo) + 1 - i
        BY <1>1, <3>1, <3>3
      <4> QED BY <3>1, <4>1
    <3> QED BY <2>1, <3>2, <3>3 DEF Blk!GivenBackInOrder, BlkInv
  <2>2. CASE bstage \notin {"undo", "exit"}
    BY <2>2 DEF BlkInv, StackInv, Blk!GivenBackInOrder
  <2> QED BY <2>1, <2>2
<1>4. Blk!TransfersHaveMemory
  BY DEF BlkInv, Blk!TransfersHaveMemory
<1> QED BY <1>2, <1>3, <1>4

-----------------------------------------------------------------------------
(* All of them, as MCModules composes them.                                *)

\* A step of the composition is a step of a component or leaves it alone.
LEMMA ModulesSteps ==
    ASSUME [MCNext]_mcvars
    PROVE  /\ [Net!Next]_(Net!vars) /\ [Spy!Next]_(Spy!vars)
           /\ [Script!Next]_(Script!vars) /\ [Test!Next]_(Test!vars)
           /\ [SeqF!Next]_(SeqF!vars) /\ [Kbd!Next]_(Kbd!vars)
           /\ [Proc!Next]_(Proc!vars) /\ [Platform!Next]_(Platform!vars)
           /\ [Blk!Next]_(Blk!vars)
<1>1. [Net!Next]_(Net!vars)
  BY DEF MCNext, mcvars, netVars, Net!vars
<1>2. [Spy!Next]_(Spy!vars)
  BY DEF MCNext, mcvars, spyVars, Spy!vars
<1>3. [Script!Next]_(Script!vars)
  BY DEF MCNext, mcvars, scriptVars, Script!vars
<1>4. [Test!Next]_(Test!vars)
  BY DEF MCNext, mcvars, testVars, Test!vars
<1>5. [SeqF!Next]_(SeqF!vars)
  BY DEF MCNext, mcvars, seqVars, SeqF!vars
<1>6. [Kbd!Next]_(Kbd!vars)
  BY DEF MCNext, mcvars, kbdVars, Kbd!vars
<1>7. [Proc!Next]_(Proc!vars)
  BY DEF MCNext, mcvars, procVars, Proc!vars
<1>8. [Platform!Next]_(Platform!vars)
  BY DEF MCNext, mcvars, platformVars, Platform!vars
<1>9. [Blk!Next]_(Blk!vars)
  BY DEF MCNext, mcvars, blkVars, Blk!vars
<1> QED BY <1>1, <1>2, <1>3, <1>4, <1>5, <1>6, <1>7, <1>8, <1>9

ModulesInv ==
    /\ NetInv /\ SpyInv /\ ScriptInv /\ TestInv /\ SeqFileInv /\ KbdInv /\ ProcInv
    /\ PlatformInv /\ BlkInv

\* The invariants of the components hold of the composition.
LEMMA ModulesCorrect == MCSpec => []ModulesInv
<1>1. MCInit => ModulesInv
  BY NetInit, SpyInit, ScriptInit, TestInit, SeqFileInit, KbdInit, ProcInit,
     PlatformInit, BlkInit
  DEF MCInit, ModulesInv
<1>2. ModulesInv /\ [MCNext]_mcvars => ModulesInv'
  BY ModulesSteps, NetStep, SpyStep, ScriptStep, TestStep, SeqFileStep, KbdStep,
     ProcStep, PlatformStep, BlkStep
  DEF ModulesInv
<1> QED BY <1>1, <1>2, PTL DEF MCSpec, mcvars

\* syscall-steal.c: as long as the kernel log has not had a warning that the
\* table was changed by someone else, two spies were not loaded or removed
\* at the same time, and every call left in the time that msleep gives it,
\* no call runs, returns to or can reach the code of a module that is gone.
THEOREM DanglingOnlyAfterWarningHolds == MCSpec => []DanglingOnlyAfterWarning
<1>1. ModulesInv => DanglingOnlyAfterWarning
  BY SpyInvIsEnough DEF ModulesInv, DanglingOnlyAfterWarning
<1> QED BY <1>1, ModulesCorrect, PTL

\* vnetloop.c: vnetloop_get_stats64 reports counters of one moment where the
\* sequence counter protects them, and never lower ones than before while
\* the device is there.
THEOREM StatsAreConsistentHolds == MCSpec => StatsAreConsistent
<1>1. ModulesInv /\ [MCNext]_mcvars =>
        [/\ build = "seq" => shown' \in past'
         /\ net # "out" => \A f \in Net!Names : shown[f] <= shown'[f]
                                               /\ shown'[f] <= stats[f]]_(Net!vars)
  BY ModulesSteps, NetStep, NetNames DEF ModulesInv
<1> QED BY <1>1, ModulesCorrect, PTL
        DEF MCSpec, mcvars, StatsAreConsistent, Net!StatsAreConsistent

\* setup.sh skips no phase whose output is missing or out of date, and
\* test-modules.sh succeeds only if every module was tested.
THEOREM ScriptsKeepTheirWordHolds == MCSpec => []ScriptsKeepTheirWord
<1>1. ModulesInv => ScriptsKeepTheirWord
  BY ScriptInvIsEnough, TestInvIsEnough DEF ModulesInv, ScriptsKeepTheirWord
<1> QED BY <1>1, ModulesCorrect, PTL

\* A pass over the file of procfs4.c is one whole line and then the end, and
\* the lines count the passes; a reader of the keyboard gets an entry and
\* then the end; and a call of the files of procfs2.c, procfs3.c and
\* hello-debugfs-file.c returns the number of bytes it has copied, with the
\* lock or if calls come one by one.
THEOREM TextThenEofHolds == MCSpec => []TextThenEof
<1>1. ModulesInv => TextThenEof
  BY SeqFileInvIsEnough, KbdInvIsEnough, ProcInvIsEnough DEF ModulesInv, TextThenEof
<1> QED BY <1>1, ModulesCorrect, PTL

\* The message of hello-debugfs-file.c is of one write and a read returns
\* bytes of one message; the last entry of vkbd.c is the event that was
\* reported.
THEOREM MessagesAreWholeHolds == MCSpec => []MessagesAreWhole
<1>1. ModulesInv => MessagesAreWhole
  BY KbdInvIsEnough, ProcInvIsEnough DEF ModulesInv, MessagesAreWhole
<1> QED BY <1>1, ModulesCorrect, PTL

\* Every copy from or to a buffer of a module has the memory: the buffers of
\* the files in /proc and debugfs (of procfs2.c if calls come one by one),
\* the buffer of vinput_read, and the data of the RAM disk, also for a
\* request that is on its way when blkram.c goes.
THEOREM CopiesHaveMemoryHolds == MCSpec => []CopiesHaveMemory
<1>1. ModulesInv => CopiesHaveMemory
  BY ProcInvIsEnough, KbdInvIsEnough, BlkInvIsEnough DEF ModulesInv, CopiesHaveMemory
<1> QED BY <1>1, ModulesCorrect, PTL

\* blkram_init, whichever of its steps fails, and blkram_exit give back what
\* was taken, the last first; a probe of dma.c, devicetree.c or devicemodel.c
\* that fails and a driver that goes leave nothing held or mapped.
THEOREM TakenIsGivenBackHolds == MCSpec => []TakenIsGivenBack
<1>1. ModulesInv => TakenIsGivenBack
  BY BlkInvIsEnough, PlatformInvIsEnough DEF ModulesInv, TakenIsGivenBack
<1> QED BY <1>1, ModulesCorrect, PTL

\* The components stay within their types.
THEOREM ModulesTypesHold == MCSpec => []ModulesTypeOK
<1>1. ModulesInv => ModulesTypeOK
  <2> SUFFICES ASSUME ModulesInv PROVE ModulesTypeOK
    OBVIOUS
  <2>1. Net!TypeOK
    <3>1. backlog \in 0 .. MaxPackets
      BY SizesAssumption, NetNames
      DEF ModulesInv, NetInv, CounterTypes, BacklogInv, Fields
    <3>2. Net!Names = Fields
      BY NetNames
    <3> QED BY <3>1, <3>2, Zenon
            DEF ModulesInv, NetInv, CounterTypes, XmitTypes, SeqInv, Net!TypeOK
  <2>2. Spy!TypeOK /\ Test!TypeOK
    BY DEF ModulesInv, SpyInv, TestInv
  <2> QED BY <2>1, <2>2, ProcInvIsEnough, KbdInvIsEnough, SeqFileInvIsEnough,
             BlkInvIsEnough, PlatformInvIsEnough, ScriptInvIsEnough
          DEF ModulesInv, ModulesTypeOK
<1> QED BY <1>1, ModulesCorrect, PTL

-----------------------------------------------------------------------------
(* The virtual input devices, with one administrator and with several.     *)

\* A behaviour of the composition is one of vinput.c.
LEMMA ModulesRunVinput == MCSpec => Spec
<1>1. MCInit => Init
  BY DEF MCInit
<1>2. [MCNext]_mcvars => [Next]_vars
  BY DEF MCNext, mcvars, Alone, Together
<1> QED BY <1>1, <1>2, PTL DEF MCSpec, mcvars, Spec

\* vinput.c: an administrator that is alone with any number of types, ids and
\* users never follows a dangling pointer, destroys a device twice or
\* unregisters what is not registered, on any success or failure path of
\* export_store and unexport_store; and the removal of a type takes all of
\* its devices with it.
THEOREM SafeWhenAloneHolds == MCSpec => []SafeWhenAlone
<1> DEFINE Inv == subject = "alone" => AloneInv(First)
<1>1. MCInit => Inv
  BY AloneInit, FirstAssumption DEF MCInit
<1>2. TypeOK /\ TypeOK' /\ Inv /\ [MCNext]_mcvars => Inv'
  <2> SUFFICES ASSUME TypeOK, TypeOK', Inv, [MCNext]_mcvars, subject' = "alone"
               PROVE  AloneInv(First)'
    OBVIOUS
  <2>1. subject = "alone" /\ AloneInv(First)
    BY DEF MCNext, mcvars
  <2>2. [Next]_vars /\ \A b \in Admins : b # First => pc'[b] = "idle"
    <3>1. CASE Alone
      BY <3>1 DEF Alone
    <3>2. CASE UNCHANGED vars
      BY <2>1, <3>2 DEF vars, adminVars, AloneInv
    <3> QED BY <2>1, <3>1, <3>2 DEF MCNext, mcvars
  <2> QED BY <2>1, <2>2, AloneStep, FirstAssumption
<1>3. TypeOK /\ Inv => SafeWhenAlone
  BY AloneIsSafe, FirstAssumption DEF SafeWhenAlone
<1>4. MCSpec => []TypeOK
  BY ModulesRunVinput, TypeCorrect, PTL
<1> QED BY <1>1, <1>2, <1>3, <1>4, PTL DEF MCSpec, mcvars
=============================================================================
