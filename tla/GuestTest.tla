----------------------------- MODULE GuestTest -----------------------------
(***************************************************************************)
(* The test of all modules in a virtual machine: devtools/test-modules.sh  *)
(* starts QEMU (boot.sh), whose init runs guest-test.sh and powers off.    *)
(* The host learns what happened from the exit status of QEMU and from the *)
(* lines on the serial console.                                            *)
(*                                                                         *)
(* External: a guest can hang at any time (a panic is a hang: nothing asks *)
(* for a reboot), QEMU can crash, guest-test.sh can be killed, and a line  *)
(* that the kernel writes to the console at the same time makes a line of  *)
(* the script unrecognisable.                                              *)
(***************************************************************************)
EXTENDS Naturals

CONSTANTS
    NumModules,     \* the modules are 1 .. NumModules, in the order of the glob
    Excluded,       \* those in one of the two files non-working
    Hosts           \* of "timeout" and "forever": is there timeout(1)

VARIABLES
    host,       \* the host the behaviour is about (never changes)
    qemu,       \* off, on, or how it has ended: ok, failed, killed
    guest,      \* boot, test, poweroff or hung
    ko,         \* guest-test.sh: the module at hand
    half,       \* how many of insmod, rmmod, insmod, rmmod have succeeded
    result,     \* per module: what became of it in the guest
    log,        \* LOGFILE: the lines that grep finds
    died,       \* history: guest-test.sh was killed
    garbled,    \* history: a line was not recognisable
    verdict     \* how test-modules.sh has ended: none, success or failure

vars == <<host, qemu, guest, ko, half, result, log, died, garbled, verdict>>

Modules == 1 .. NumModules
Kinds == {"PASS", "FAIL", "SKIP"}

Init ==
    /\ host \in Hosts
    /\ qemu = "off" /\ guest = "boot" /\ ko = 1 /\ half = 0
    /\ result = [m \in Modules |-> "untested"]
    /\ log = {} /\ died = FALSE /\ garbled = FALSE /\ verdict = "none"

-----------------------------------------------------------------------------
(* boot.sh and QEMU                                                        *)

\* No kernel, no initramfs or no QEMU: boot.sh fails.
BootFails ==
    /\ qemu = "off"
    /\ qemu' = "failed"
    /\ UNCHANGED <<host, guest, ko, half, result, log, died, garbled, verdict>>

Boot ==
    /\ qemu = "off"
    /\ qemu' = "on"
    /\ UNCHANGED <<host, guest, ko, half, result, log, died, garbled, verdict>>

\* QEMU itself fails, or is killed after TIMEOUT seconds.
EndEarly ==
    /\ qemu = "on"
    /\ \/ qemu' = "failed"
       \/ host = "timeout" /\ qemu' = "killed"
    /\ UNCHANGED <<host, guest, ko, half, result, log, died, garbled, verdict>>

Hang ==
    /\ qemu = "on" /\ guest # "hung"
    /\ guest' = "hung"
    /\ UNCHANGED <<host, qemu, ko, half, result, log, died, garbled, verdict>>

-----------------------------------------------------------------------------
(* initramfs/init                                                          *)

\* Without the mount there is no guest-test.sh, and init powers off.
Mount(ok) ==
    /\ qemu = "on" /\ guest = "boot"
    /\ guest' = IF ok THEN "test" ELSE "poweroff"
    /\ UNCHANGED <<host, qemu, ko, half, result, log, died, garbled, verdict>>

\* init looks at the status of the script only to print it: QEMU ends with
\* status 0, whatever the script says.
Poweroff ==
    /\ qemu = "on"
    /\ guest = "poweroff" \/ (guest = "test" /\ ko > NumModules)
    /\ qemu' = "ok"
    /\ UNCHANGED <<host, guest, ko, half, result, log, died, garbled, verdict>>

ScriptDies ==
    /\ qemu = "on" /\ guest = "test"
    /\ died' = TRUE /\ guest' = "poweroff"
    /\ UNCHANGED <<host, qemu, ko, half, result, log, garbled, verdict>>

-----------------------------------------------------------------------------
(* guest-test.sh                                                           *)

Testing == qemu = "on" /\ guest = "test" /\ ko <= NumModules

\* The script says what became of the module and goes on to the next one.
Say(kind, readable) ==
    /\ result' = [result EXCEPT ![ko] = kind]
    /\ IF readable
       THEN log' = log \union {<<kind, ko>>} /\ UNCHANGED garbled
       ELSE garbled' = TRUE /\ UNCHANGED log
    /\ ko' = ko + 1 /\ half' = 0
    /\ UNCHANGED <<host, qemu, guest, died, verdict>>

Skip(readable) ==
    /\ Testing /\ ko \in Excluded
    /\ Say("SKIP", readable)

\* An insmod or rmmod that is not the last succeeds.
Half ==
    /\ Testing /\ ko \notin Excluded /\ half < 3
    /\ half' = half + 1
    /\ UNCHANGED <<host, qemu, guest, ko, result, log, died, garbled, verdict>>

Pass(readable) ==
    /\ Testing /\ ko \notin Excluded /\ half = 3
    /\ Say("PASS", readable)

\* Any of the four fails (and the module is removed, if it can be).
Fail(readable) ==
    /\ Testing /\ ko \notin Excluded
    /\ Say("FAIL", readable)

-----------------------------------------------------------------------------
(* test-modules.sh, once QEMU has ended                                    *)

Lines(kind) == {m \in Modules : <<kind, m>> \in log}

\* Mutant of Accepted: partial output is good enough.
AcceptedPartial == Lines("FAIL") = {} /\ Lines("PASS") # {}

Accepted == Lines("FAIL") = {} /\ Lines("PASS") # {} /\ qemu = "ok"

Judge ==
    /\ qemu \in {"ok", "failed", "killed"} /\ verdict = "none"
    /\ verdict' = IF Accepted THEN "success" ELSE "failure"
    /\ UNCHANGED <<host, qemu, guest, ko, half, result, log, died, garbled>>

-----------------------------------------------------------------------------

Next ==
    \/ BootFails \/ Boot \/ EndEarly \/ Hang \/ Poweroff \/ ScriptDies \/ Half
    \/ Judge
    \/ \E ok \in BOOLEAN : Mount(ok) \/ Skip(ok) \/ Pass(ok) \/ Fail(ok)

Spec == Init /\ [][Next]_vars

-----------------------------------------------------------------------------
(* Properties                                                              *)

TypeOK ==
    /\ qemu \in {"off", "on", "ok", "failed", "killed"}
    /\ guest \in {"boot", "test", "poweroff", "hung"}
    /\ ko \in 1 .. NumModules + 1 /\ half \in 0 .. 3
    /\ result \in [Modules -> Kinds \union {"untested"}]
    /\ log \subseteq Kinds \X Modules
    /\ verdict \in {"none", "success", "failure"}

\* "A non-zero exit is always a hard failure even if some tests passed,
\* because the run may be incomplete" (test-modules.sh:61): when the tests
\* succeed, every module that is not excluded was inserted and removed
\* twice, wherever the guest hung, QEMU crashed or the time ran out.  (The
\* exit status of guest-test.sh does not reach the host; it needs that the
\* script was not killed and that its lines came through.)
GreenMeansTested ==
    verdict = "success" /\ ~died /\ ~garbled =>
        \A m \in Modules : result[m] = IF m \in Excluded THEN "SKIP" ELSE "PASS"
=============================================================================
