---------------------------- MODULE SyscallSteal ----------------------------
(***************************************************************************)
(* examples/syscall-steal.c, inserted several times (under several names). *)
(* Built for the table ("table"), each insertion keeps the entry of openat *)
(* it finds, puts its own function there, and puts what it kept back when  *)
(* it is removed.  Built for kprobes ("kprobe"), it registers a probe.     *)
(*                                                                         *)
(* External: the address of a module that was removed is not used again;   *)
(* unregister_kprobe waits for handlers that are running.                  *)
(***************************************************************************)
CONSTANTS
    Hooks,      \* of "table" and "kprobe", the two builds
    Spies,      \* the insertions of the module
    Calls       \* the calls of openat in progress at a time

VARIABLES
    hook,       \* the build the behaviour is about (never changes)
    life,       \* per spy: new, kept, live, checked, asleep or gone
    table,      \* sys_call_table[__NR_openat]
    original,   \* per spy: original_call
    probes,     \* the spies whose kprobe is registered
    at,         \* per call: user, trap, kernel or the spy whose code it runs
    frames,     \* per call: the spies it will return to
    warned,     \* history: a removal said that somebody else played with it
    together,   \* history: two insertions or removals were under way at once
    late        \* history: a msleep ended before a call had left the code

vars == <<hook, life, table, original, probes, at, frames, warned, together, late>>

Init ==
    /\ hook \in Hooks
    /\ life = [m \in Spies |-> "new"]
    /\ table = "kernel" /\ original = [m \in Spies |-> "kernel"]
    /\ probes = {}
    /\ at = [c \in Calls |-> "user"] /\ frames = [c \in Calls |-> {}]
    /\ warned = FALSE /\ together = FALSE /\ late = FALSE

UnderWay == \E m \in Spies : life[m] \in {"kept", "checked", "asleep"}

Becomes(m, state) == life' = [life EXCEPT ![m] = state]

-----------------------------------------------------------------------------
(* syscall_steal_start                                                     *)

\* acquire_sys_call_table finds no table, or register_kprobe fails.
StartFails(m) ==
    /\ life[m] = "new"
    /\ Becomes(m, "gone")
    /\ UNCHANGED <<hook, table, original, probes, at, frames,
                   warned, together, late>>

\* original_call = sys_call_table_stolen[__NR_openat]
Keep(m) ==
    /\ hook = "table" /\ life[m] = "new"
    /\ original' = [original EXCEPT ![m] = table]
    /\ together' = (together \/ UnderWay)
    /\ Becomes(m, "kept")
    /\ UNCHANGED <<hook, table, probes, at, frames, warned, late>>

Replace(m) ==
    /\ hook = "table" /\ life[m] = "kept"
    /\ table' = m
    /\ Becomes(m, "live")
    /\ UNCHANGED <<hook, original, probes, at, frames, warned, together, late>>

Register(m) ==
    /\ hook = "kprobe" /\ life[m] = "new"
    /\ probes' = probes \union {m}
    /\ Becomes(m, "live")
    /\ UNCHANGED <<hook, table, original, at, frames, warned, together, late>>

syscall_steal_start(m) == StartFails(m) \/ Keep(m) \/ Replace(m) \/ Register(m)

-----------------------------------------------------------------------------
(* syscall_steal_end                                                       *)

\* Mutant of SomebodyElsePlayed: satisfied with any replacement.
NobodyPlayed(m) == table = "kernel"

SomebodyElsePlayed(m) == table # m

Check(m) ==
    /\ hook = "table" /\ life[m] = "live"
    /\ warned' = (warned \/ SomebodyElsePlayed(m))
    /\ together' = (together \/ UnderWay)
    /\ Becomes(m, "checked")
    /\ UNCHANGED <<hook, table, original, probes, at, frames, late>>

\* It goes on after the warning all the same.
Restore(m) ==
    /\ hook = "table" /\ life[m] = "checked"
    /\ table' = original[m]
    /\ Becomes(m, "asleep")
    /\ UNCHANGED <<hook, original, probes, at, frames, warned, together, late>>

\* Mutant of Unregistered: the probe goes while its handler runs.
UnregisteredAtOnce(m) == TRUE

Unregistered(m) == \A c \in Calls : at[c] # m

Unregister(m) ==
    /\ hook = "kprobe" /\ life[m] = "live"
    /\ Unregistered(m)
    /\ probes' = probes \ {m}
    /\ Becomes(m, "asleep")
    /\ UNCHANGED <<hook, table, original, at, frames, warned, together, late>>

\* msleep(2000) returns and the code of the module is freed.
Gone(m) ==
    /\ life[m] = "asleep"
    /\ late' = (late \/ \E c \in Calls : /\ hook = "table"
                                         /\ m \in frames[c] \union {at[c]})
    /\ Becomes(m, "gone")
    /\ UNCHANGED <<hook, table, original, probes, at, frames, warned, together>>

syscall_steal_end(m) == Check(m) \/ Restore(m) \/ Unregister(m) \/ Gone(m)

-----------------------------------------------------------------------------
(* A call of openat                                                        *)

\* The system call goes through the table; with kprobes it then traps.
Enter(c) ==
    /\ at[c] = "user"
    /\ at' = [at EXCEPT ![c] = IF hook = "table" THEN table ELSE "trap"]
    /\ UNCHANGED <<hook, life, table, original, probes, frames,
                   warned, together, late>>

\* sys_call_kprobe_pre_handler of one of the probes.
PreHandler(c, m) ==
    /\ at[c] = "trap" /\ m \in probes
    /\ at' = [at EXCEPT ![c] = m]
    /\ UNCHANGED <<hook, life, table, original, probes, frames,
                   warned, together, late>>

\* our_sys_openat reports the file, or not, and calls original_call; the
\* compiler may make this a jump.  A handler returns into the trap.
our_sys_openat(c) ==
    /\ at[c] \in Spies
    /\ life[at[c]] # "gone"
    /\ at' = [at EXCEPT ![c] = IF hook = "table" THEN original[at[c]] ELSE "trap"]
    /\ \/ hook = "table" /\ frames' = [frames EXCEPT ![c] = @ \union {at[c]}]
       \/ UNCHANGED frames
    /\ UNCHANGED <<hook, life, table, original, probes, warned, together, late>>

\* The kernel's own sys_openat, and back through the frames to the program.
Return(c) ==
    /\ \/ /\ at[c] = "trap"
          /\ at' = [at EXCEPT ![c] = "kernel"] /\ UNCHANGED frames
       \/ /\ at[c] = "kernel"
          /\ at' = [at EXCEPT ![c] = "user"] /\ frames' = [frames EXCEPT ![c] = {}]
    /\ UNCHANGED <<hook, life, table, original, probes, warned, together, late>>

-----------------------------------------------------------------------------

Next ==
    \/ \E m \in Spies : syscall_steal_start(m) \/ syscall_steal_end(m)
    \/ \E c \in Calls : \/ Enter(c) \/ our_sys_openat(c) \/ Return(c)
                        \/ \E m \in Spies : PreHandler(c, m)

Spec == Init /\ [][Next]_vars

-----------------------------------------------------------------------------
(* Properties                                                              *)

TypeOK ==
    /\ life \in [Spies -> {"new", "kept", "live", "checked", "asleep", "gone"}]
    /\ table \in Spies \union {"kernel"}
    /\ original \in [Spies -> Spies \union {"kernel"}]
    /\ probes \subseteq Spies
    /\ at \in [Calls -> Spies \union {"user", "trap", "kernel"}]
    /\ frames \in [Calls -> SUBSET Spies]

\* The functions a call may still be sent to.
Reachable ==
    {at[c] : c \in Calls} \union (UNION {frames[c] : c \in Calls}) \union {table}
        \union {original[m] : m \in {m \in Spies : life[m] \in
                                       {"kept", "live", "checked", "asleep"}}}

\* The warning of syscall_steal_end is there when it is needed: as long as
\* insertions and removals come one at a time, every call leaves the code
\* in the two seconds that msleep gives it, and no removal has warned, no
\* call runs, returns to or can reach the code of a module that is gone.
\* With kprobes it needs none of these conditions.
DanglingOnlyAfterWarning ==
    (warned \/ together \/ late)
        \/ \A m \in Reachable \intersect Spies : life[m] # "gone"
=============================================================================
