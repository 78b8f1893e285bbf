--------------------------- MODULE ExclusiveOpen ---------------------------
(***************************************************************************)
(* What an exclusive-open file promises its users: at any time at most one *)
(* process is past open(), an open() ends by a grant or by an error, and a *)
(* free file does not stay free while somebody is trying to open it.       *)
(* Removing the file takes it away from its owner only when nobody is      *)
(* inside open(); a file that may vanish is lost to all of them at once.   *)
(*                                                                         *)
(* This is the abstract specification that Sleep (/proc/sleep) implements, *)
(* whose file does not vanish, and Chardev, whose file does.               *)
(***************************************************************************)
CONSTANTS
    Procs,
    Vanishes    \* whether the file may be lost to everybody

VARIABLE st     \* per process: its standing with the file

States == {"out", "trying", "in", "revoked"}

Init == st = [p \in Procs |-> "out"]

Move(p, from, to) ==
    /\ st[p] = from
    /\ st' = [st EXCEPT ![p] = to]

Try(p)     == Move(p, "out", "trying")
Deny(p)    == Move(p, "trying", "out")
Release(p) == Move(p, "in", "out")
Drop(p)    == Move(p, "revoked", "out")

Grant(p) ==
    /\ \A q \in Procs : st[q] # "in"
    /\ Move(p, "trying", "in")

Revoke(p) ==
    /\ \A q \in Procs : st[q] # "trying"
    /\ Move(p, "in", "revoked")

Lose ==
    /\ Vanishes
    /\ st' = [p \in Procs |-> IF st[p] \in {"trying", "in"} THEN "revoked" ELSE st[p]]

Next ==
    \/ Lose
    \/ \E p \in Procs :
          Try(p) \/ Grant(p) \/ Deny(p) \/ Release(p) \/ Revoke(p) \/ Drop(p)

SafeSpec == Init /\ [][Next]_st

Spec == SafeSpec /\ WF_st(\E p \in Procs : Grant(p))
=============================================================================
