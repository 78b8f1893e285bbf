------------------------------ MODULE SeqFile ------------------------------
(***************************************************************************)
(* examples/procfs4.c: a file of /proc made with seq_file.  A pass over    *)
(* the file shows one line with a counter and ends; my_seq_next ends it by *)
(* moving the position, my_seq_start sees the position, ends the sequence  *)
(* and moves it back, so that the next read begins a new pass.             *)
(*                                                                         *)
(* External: seq_read first hands out what is left in its buffer.  When    *)
(* that has emptied it and the caller has room (since Linux 5.10 also when *)
(* the caller has none), the same read calls start, show, next and stop,   *)
(* and hands out the new line; it returns 0 only when start returned NULL  *)
(* and nothing was copied before.  Reads of one file do not overlap (the   *)
(* lock of the seq_file); the counter is shared by all files and has no    *)
(* lock.                                                                   *)
(***************************************************************************)
EXTENDS Naturals

CONSTANTS
    Files,      \* open files, each with its own seq_file
    LINE,       \* the length of the line
    Lens,       \* the lengths of reads
    MaxCounter  \* bound: passes

VARIABLES
    counter,    \* the static variable of my_seq_start
    loop,       \* per file: idle, show, load, store
    want,       \* per file: the length of the read in progress, else 0
    index,      \* per file: *pos
    unread,     \* per file: bytes in the buffer of the seq_file
    reg,        \* per file: *tmp_v as loaded by my_seq_next
    pass,       \* per file: bytes got in this pass, 0 after its end
    lines,      \* per file: lines since the last read that returned 0
    pieces,     \* the files with a read since then that was shorter than it
    line,       \* per file: the number shown last, and how many were before
    ended,      \* per file: the length of the pass that ended last
    mixed,      \* history: two reads were in progress at the same time
    nexts       \* history: how often my_seq_next has run

vars == <<counter, loop, want, index, unread, reg, pass, lines, pieces, line,
          ended, mixed, nexts>>

Init ==
    /\ counter = 0 /\ nexts = 0 /\ mixed = FALSE
    /\ loop = [f \in Files |-> "idle"]
    /\ index = [f \in Files |-> 0] /\ unread = [f \in Files |-> 0]
    /\ reg = [f \in Files |-> 0] /\ pass = [f \in Files |-> 0]
    /\ want = [f \in Files |-> 0] /\ lines = [f \in Files |-> 0]
    /\ pieces = {}
    /\ line = [f \in Files |-> <<0, 0>>] /\ ended = [f \in Files |-> LINE]

-----------------------------------------------------------------------------

\* A read of len bytes finds the buffer empty: my_seq_start at the beginning
\* of a pass.
Start(f, len) ==
    /\ loop[f] = "idle" /\ unread[f] = 0 /\ index[f] = 0
    /\ counter < MaxCounter
    /\ loop' = [loop EXCEPT ![f] = "show"]
    /\ want' = [want EXCEPT ![f] = len]
    /\ pieces' = IF len < LINE THEN pieces \cup {f} ELSE pieces
    /\ mixed' = (mixed \/ \E g \in Files : loop[g] # "idle")
    /\ UNCHANGED <<counter, index, unread, reg, pass, lines, line, ended, nexts>>

\* Mutant of StartedAt: the position is not moved back.
StartedAtEnd(f) == index[f]

\* The position after my_seq_start has returned NULL.
StartedAt(f) == 0

\* my_seq_start at the end of a pass, first thing in a read: it returns 0.
StartEnds(f) ==
    /\ loop[f] = "idle" /\ unread[f] = 0 /\ index[f] # 0
    /\ index' = [index EXCEPT ![f] = StartedAt(f)]
    /\ ended' = [ended EXCEPT ![f] = pass[f]]
    /\ pass' = [pass EXCEPT ![f] = 0]
    /\ lines' = [lines EXCEPT ![f] = 0]
    /\ pieces' = pieces \ {f}
    /\ UNCHANGED <<counter, loop, want, unread, reg, line, mixed, nexts>>

\* my_seq_show
Show(f) ==
    /\ loop[f] = "show"
    /\ line' = [line EXCEPT ![f] = <<counter, nexts>>]
    /\ loop' = [loop EXCEPT ![f] = "load"]
    /\ UNCHANGED <<counter, want, index, unread, reg, pass, lines, pieces, ended,
                   mixed, nexts>>

\* (*tmp_v)++ of my_seq_next: a load and a store.
NextLoad(f) ==
    /\ loop[f] = "load"
    /\ reg' = [reg EXCEPT ![f] = counter]
    /\ loop' = [loop EXCEPT ![f] = "store"]
    /\ UNCHANGED <<counter, want, index, unread, pass, lines, pieces, line, ended,
                   mixed, nexts>>

AtMost(m, n) == IF m < n THEN m ELSE n

\* (*pos)++, and NULL: stop, and the read gets as much of the line as it
\* wants.
NextStore(f) ==
    /\ loop[f] = "store"
    /\ counter' = reg[f] + 1
    /\ nexts' = nexts + 1
    /\ index' = [index EXCEPT ![f] = @ + 1]
    /\ pass' = [pass EXCEPT ![f] = AtMost(want[f], LINE)]
    /\ unread' = [unread EXCEPT ![f] = LINE - AtMost(want[f], LINE)]
    /\ lines' = [lines EXCEPT ![f] = @ + 1]
    /\ loop' = [loop EXCEPT ![f] = "idle"]
    /\ want' = [want EXCEPT ![f] = 0]
    /\ UNCHANGED <<reg, pieces, line, ended, mixed>>

\* A read of len bytes gets what is left of the line, and that is all.
ReadLeft(f, len) ==
    /\ loop[f] = "idle" /\ unread[f] > 0 /\ len <= unread[f]
    /\ unread' = [unread EXCEPT ![f] = @ - len]
    /\ pass' = [pass EXCEPT ![f] = @ + len]
    /\ UNCHANGED <<counter, loop, want, index, reg, lines, pieces, line, ended,
                   mixed, nexts>>

\* A read empties the buffer and goes on: my_seq_start at the end of the
\* pass, in a read that has got bytes.  It does not return 0, and the caller
\* never learns that the pass is over.
ReadLeftEnds(f, len) ==
    /\ loop[f] = "idle" /\ unread[f] > 0 /\ len >= unread[f]
    /\ unread' = [unread EXCEPT ![f] = 0]
    /\ index' = [index EXCEPT ![f] = StartedAt(f)]
    /\ ended' = [ended EXCEPT ![f] = pass[f] + unread[f]]
    /\ pass' = [pass EXCEPT ![f] = 0]
    /\ UNCHANGED <<counter, loop, want, reg, lines, pieces, line, mixed, nexts>>

\* seq_lseek to the start, or a new open.
Rewind(f) ==
    /\ loop[f] = "idle" /\ index[f] # 0
    /\ index' = [index EXCEPT ![f] = 0]
    /\ unread' = [unread EXCEPT ![f] = 0]
    /\ pass' = [pass EXCEPT ![f] = 0]
    /\ lines' = [lines EXCEPT ![f] = 0]
    /\ pieces' = pieces \ {f}
    /\ UNCHANGED <<counter, loop, want, reg, line, ended, mixed, nexts>>

-----------------------------------------------------------------------------

Next == \E f \in Files :
            \/ StartEnds(f) \/ Show(f) \/ NextLoad(f) \/ NextStore(f) \/ Rewind(f)
            \/ \E len \in Lens : Start(f, len) \/ ReadLeft(f, len) \/ ReadLeftEnds(f, len)

Spec == Init /\ [][Next]_vars

-----------------------------------------------------------------------------
(* Properties                                                              *)

TypeOK ==
    /\ counter \in Nat /\ nexts \in Nat /\ mixed \in BOOLEAN
    /\ loop \in [Files -> {"idle", "show", "load", "store"}]
    /\ index \in [Files -> 0 .. 1] /\ want \in [Files -> Nat]
    /\ lines \in [Files -> Nat] /\ pieces \subseteq Files
    /\ unread \in [Files -> 0 .. LINE] /\ reg \in [Files -> Nat]

\* However short the reads are, and whatever other files do, a pass over the
\* file is one line, whole.  A reader whose reads hold the line gets one
\* line and then a read that returns 0; one that reads in pieces may be given
\* the next line without an end between them (my_seq_start moves *pos back in
\* a read that has got bytes, procfs4.c:34).
LineThenEof ==
    \A f \in Files :
        /\ pass[f] <= LINE /\ ended[f] = LINE
        /\ f \notin pieces => lines[f] <= 1

\* Unless two reads overlap, the lines count the passes without a gap or
\* a repetition.
LinesCountPasses == ~mixed => \A f \in Files : line[f][1] = line[f][2]
=============================================================================
