------------------------------- MODULE Blkram -------------------------------
(***************************************************************************)
(* examples/blkram.c: a block device in RAM.  Init takes one resource      *)
(* after the other, a failure jumps into the list of releases, and exit    *)
(* goes through the same list.  What the list looks like depends on the    *)
(* version of Linux ("era"): since 5.15 the disk brings its queue with it, *)
(* since 5.16 add_disk can fail, and in 5.18 (by the header of the file)   *)
(* blk_cleanup_disk has gone, because put_disk does its work.  Before that *)
(* nothing else releases the queue of blk_mq_alloc_disk, and blkram.c does *)
(* not call it.  Requests are served by blkram_queue_rq, several at a      *)
(* time, while the disk is there.                                          *)
(*                                                                         *)
(* External: the file operations name their owner, so rmmod fails while    *)
(* the device is open; requests that were started before the last close    *)
(* may still be on their way.  blk_cleanup_queue (before 5.15) and         *)
(* del_gendisk (since) wait for them and let no new one in.                *)
(***************************************************************************)
EXTENDS Naturals, Sequences

CONSTANTS
    Eras,       \* of "5.10", "5.15", "5.16" and "5.18"
    Slots,      \* requests in flight (queue_depth)
    SIZE,       \* size of the disk, in sectors
    Segments    \* the lists of lengths of segments that requests have

VARIABLES
    era,        \* the version the behaviour is about (never changes)
    bstage,     \* out, init, undo, live or exit
    next,       \* in init: the resource to take next
    todo,       \* in undo and exit: the resources still to release
    owned,      \* the resources held
    opened,     \* /dev/blkram0 is open
    rq,         \* per slot: the request, see Requests
    touched,    \* history: the sectors accessed, and whether there was memory
    left        \* what was left behind: the queue of a disk that is gone

vars == <<era, bstage, next, todo, owned, opened, rq, touched, left>>

\* In the order in which blkram_init takes them; blk_mq_alloc_disk brings
\* the queue with it (see LeavesQueue).
Resources ==
    IF era = "5.10"
    THEN <<"major", "dev", "data", "tags", "queue", "disk", "added">>
    ELSE <<"major", "dev", "data", "tags", "disk", "added">>

NoRequest == [on |-> FALSE, offset |-> 0, rest |-> <<>>, status |-> "ok"]

Init ==
    /\ era \in Eras
    /\ bstage = "out" /\ next = 1 /\ todo = <<>> /\ owned = {} /\ opened = FALSE
    /\ rq = [s \in Slots |-> NoRequest]
    /\ touched = {} /\ left = {}

-----------------------------------------------------------------------------
(* blkram_init, blkram_exit                                                *)

Load ==
    /\ bstage = "out" /\ \A s \in Slots : ~rq[s].on
    /\ bstage' = "init" /\ next' = 1
    /\ UNCHANGED <<era, todo, owned, opened, rq, touched, left>>

Take ==
    /\ bstage = "init"
    /\ owned' = owned \union {Resources[next]}
    /\ IF next = Len(Resources)
       THEN bstage' = "live" /\ UNCHANGED next
       ELSE next' = next + 1 /\ UNCHANGED bstage
    /\ UNCHANGED <<era, todo, opened, rq, touched, left>>

\* The labels at the end of blkram_init; each falls through to the next.
ErrorPath ==
    CASE era = "5.10" -> <<"queue", "tags", "data", "dev", "major">>
      [] era = "5.15" -> <<"tags", "data", "dev", "major">>
      [] era \in {"5.16", "5.18"} -> <<"disk", "tags", "data", "dev", "major">>

\* Mutant of Label: without a disk, the queue is forgotten.
LabelTags(failed) ==
    CASE failed = "major" -> "return"   [] failed = "dev"   -> "major"
      [] failed = "data"  -> "dev"      [] failed = "tags"  -> "data"
      [] failed = "queue" -> "tags"     [] failed = "disk"  -> "tags"
      [] failed = "added" -> "disk"

\* The first release on the way out of a failure.
Label(failed) ==
    CASE failed = "major" -> "return"   [] failed = "dev"   -> "major"
      [] failed = "data"  -> "dev"      [] failed = "tags"  -> "data"
      [] failed = "queue" -> "tags"
      [] failed = "disk"  -> (IF era = "5.10" THEN "queue" ELSE "tags")
      [] failed = "added" -> "disk"

\* A step of init fails; add_disk returns nothing before 5.16.
TakeFails ==
    /\ bstage = "init"
    /\ Resources[next] = "added" => era \in {"5.16", "5.18"}
    /\ LET label == Label(Resources[next])
       IN  IF label = "return"
           THEN bstage' = "out" /\ UNCHANGED todo
           ELSE /\ \E n \in 1 .. Len(ErrorPath) :
                     /\ ErrorPath[n] = label
                     /\ todo' = SubSeq(ErrorPath, n, Len(ErrorPath))
                /\ bstage' = "undo"
    /\ UNCHANGED <<era, next, owned, opened, rq, touched, left>>

\* Mutant of Drains: nothing waits for the requests.
DrainsNever(resource) == FALSE

\* The release that waits for requests in flight.
Drains(resource) == resource = IF era = "5.10" THEN "queue" ELSE "added"

\* put_disk, when the queue of the disk needs a release of its own.
LeavesQueue(resource) == resource = "disk" /\ era \in {"5.15", "5.16"}

Release ==
    /\ bstage \in {"undo", "exit"}
    /\ Drains(Head(todo)) => \A s \in Slots : ~rq[s].on
    /\ owned' = owned \ {Head(todo)}
    /\ todo' = Tail(todo)
    /\ bstage' = IF todo' = <<>> THEN "out" ELSE bstage
    /\ left' = left \union (IF LeavesQueue(Head(todo)) THEN {"queue"} ELSE {})
    /\ UNCHANGED <<era, next, opened, rq, touched>>

\* blkram_exit
Rmmod ==
    /\ bstage = "live" /\ ~opened
    /\ bstage' = "exit"
    /\ todo' = IF era = "5.10"
               THEN <<"added", "disk", "queue", "tags", "data", "dev", "major">>
               ELSE <<"added", "disk", "tags", "data", "dev", "major">>
    /\ UNCHANGED <<era, next, owned, opened, rq, touched, left>>

-----------------------------------------------------------------------------
(* The users of the device, and blkram_queue_rq                            *)

Open ==
    /\ "added" \in owned /\ bstage # "exit" /\ ~opened
    /\ opened' = TRUE
    /\ UNCHANGED <<era, bstage, next, todo, owned, rq, touched, left>>

Close ==
    /\ opened
    /\ opened' = FALSE
    /\ UNCHANGED <<era, bstage, next, todo, owned, rq, touched, left>>

\* A request for sectors from "sector" on; a passthrough request is refused.
Submit(s, sector, segments, passthrough) ==
    /\ opened /\ ~rq[s].on
    /\ rq' = [rq EXCEPT ![s] =
                [on |-> TRUE, offset |-> sector,
                 rest |-> IF passthrough THEN <<>> ELSE segments,
                 status |-> IF passthrough THEN "ioerr" ELSE "ok"]]
    /\ UNCHANGED <<era, bstage, next, todo, owned, opened, touched, left>>

\* Mutant of Fits: the last segment may reach past the end.
StartsInside(s) == rq[s].offset < SIZE

Fits(s) == rq[s].offset + Head(rq[s].rest) <= SIZE

\* blkram_transfer: one segment, or the error that ends the request.
Transfer(s) ==
    /\ rq[s].on /\ rq[s].rest # <<>>
    /\ IF Fits(s)
       THEN LET len == Head(rq[s].rest)
            IN  /\ rq' = [rq EXCEPT ![s].offset = @ + len, ![s].rest = Tail(@)]
                /\ touched' = touched \union
                     {<<rq[s].offset + len - 1, "data" \in owned>>}
       ELSE /\ rq' = [rq EXCEPT ![s].rest = <<>>, ![s].status = "ioerr"]
            /\ UNCHANGED touched
    /\ UNCHANGED <<era, bstage, next, todo, owned, opened, left>>

\* blk_mq_end_request
EndRequest(s) ==
    /\ rq[s].on /\ rq[s].rest = <<>>
    /\ rq' = [rq EXCEPT ![s] = NoRequest]
    /\ UNCHANGED <<era, bstage, next, todo, owned, opened, touched, left>>

blkram_queue_rq(s) == Transfer(s) \/ EndRequest(s)

-----------------------------------------------------------------------------

Next ==
    \/ Load \/ Take \/ TakeFails \/ Release \/ Rmmod \/ Open \/ Close
    \/ \E s \in Slots :
         \/ blkram_queue_rq(s)
         \/ \E sector \in 0 .. SIZE, segments \in Segments, pass \in BOOLEAN :
              Submit(s, sector, segments, pass)

Spec == Init /\ [][Next]_vars

-----------------------------------------------------------------------------
(* Properties                                                              *)

TypeOK ==
    /\ bstage \in {"out", "init", "undo", "live", "exit"}
    /\ next \in 1 .. Len(Resources)
    /\ todo \in Seq({Resources[n] : n \in 1 .. Len(Resources)})
    /\ owned \subseteq {Resources[n] : n \in 1 .. Len(Resources)}
    /\ opened \in BOOLEAN /\ left \subseteq {"queue"}
    /\ \A s \in Slots : rq[s].offset \in 0 .. SIZE

\* Whatever requests come, and whenever the module goes: a sector that is
\* copied is on the disk, and the memory of the disk is there.
TransfersHaveMemory == \A t \in touched : t[1] < SIZE /\ t[2]

\* Every failure of init and exit give back what init has taken, each once
\* and nothing that others still stand on, whatever the version: what is left
\* to release is what is held, and of two resources the one that was taken
\* later goes first.  The one exception is the queue that came with the disk
\* before 5.18 (blkram.c:223-226, 244-248): it stays behind.
GivenBackInOrder ==
    /\ bstage \in {"undo", "exit"} =>
         /\ owned = {todo[n] : n \in 1 .. Len(todo)}
         /\ \A i, j \in 1 .. Len(todo) : i < j =>
              \E m, n \in 1 .. Len(Resources) :
                 todo[i] = Resources[m] /\ todo[j] = Resources[n] /\ n < m
    /\ bstage = "out" => owned = {}
    /\ era \in {"5.10", "5.18"} => left = {}
=============================================================================
