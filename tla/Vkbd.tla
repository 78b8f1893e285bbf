-------------------------------- MODULE Vkbd --------------------------------
(***************************************************************************)
(* The data path of a virtual keyboard: vinput_read and vinput_write of    *)
(* examples/vinput.c, and the functions of examples/vkbd.c they call.  The *)
(* device is there all the time (module Vinput is about its life).         *)
(*                                                                         *)
(* An entry is a key code, negative for a release; its text has a sign,    *)
(* digits and a newline.  A byte of a read is known by the entry it is of; *)
(* the NUL and the bytes of buff that were never written are "other".      *)
(***************************************************************************)
EXTENDS Integers

CONSTANTS
    Typists,    \* the processes that write
    Readers,    \* the processes that read
    Keys,       \* the key codes that are written, positive or negative
    MAX_LEN,    \* VINPUT_MAX_LEN
    Counts,     \* the counts of read(2)
    MaxSends    \* bound: calls of write(2) that reach the keyboard

VARIABLES
    lastEntry,  \* vinput->last_entry
    reported,   \* the last event the input subsystem got, as an entry
    sends,      \* how many keys were sent
    crossed,    \* history: two sends were in progress at the same time
    typist,     \* per typist: the key, and where in vinput_vkbd_send it is
    eye         \* per reader: the position, and what it has got since open

vars == <<lastEntry, reported, sends, crossed, typist, eye>>

\* The length of "%+ld\n", for one digit and for two.
TextLen(entry) == IF entry \in -9 .. 9 THEN 3 ELSE 4

Waiting == [pc |-> "idle", key |-> 0]

\* ample: all counts were above VINPUT_MAX_LEN; plain: all bytes were of a
\* text; from: of which entries; got: how many bytes; eof: a read returned
\* 0; over: a byte was not in buff.
Opened == [pos |-> 0, ample |-> TRUE, plain |-> TRUE, from |-> {}, got |-> 0,
           eof |-> FALSE, over |-> FALSE]

Init ==
    /\ lastEntry = 0 /\ reported = 0 /\ sends = 0 /\ crossed = FALSE
    /\ typist = [t \in Typists |-> Waiting]
    /\ eye = [r \in Readers |-> Opened]

-----------------------------------------------------------------------------
(* vinput_write and vinput_vkbd_send                                       *)

\* What kstrtol leaves in key: 0 for a text that is no number.
Parsed(number, junk) == IF junk THEN 0 ELSE number

\* A text that is too long, or that cannot be copied, changes nothing.
Write(t, number, junk) ==
    /\ typist[t].pc = "idle" /\ sends < MaxSends
    /\ typist' = [typist EXCEPT ![t] = [pc |-> "parsed",
                                        key |-> Parsed(number, junk)]]
    /\ sends' = sends + 1
    /\ crossed' = (crossed \/ \E u \in Typists \ {t} : typist[u].pc # "idle")
    /\ UNCHANGED <<lastEntry, reported, eye>>

\* Under the lock; an error of kstrtol was logged and is stored as key 0.
StoreEntry(t) ==
    /\ typist[t].pc = "parsed"
    /\ lastEntry' = typist[t].key
    /\ typist' = [typist EXCEPT ![t].pc = "stored"]
    /\ UNCHANGED <<reported, sends, crossed, eye>>

\* Mutant of EventOf: a release is reported as a press.
PressOf(key) == IF key < 0 THEN -key ELSE key

\* type and key of the event; the model writes them as an entry again.
EventOf(key) ==
    LET type == IF key < 0 THEN "release" ELSE "press"
        code == IF key < 0 THEN -key ELSE key
    IN  IF type = "release" THEN -code ELSE code

\* input_report_key and input_sync, without the lock.
Report(t) ==
    /\ typist[t].pc = "stored"
    /\ reported' = EventOf(typist[t].key)
    /\ typist' = [typist EXCEPT ![t] = Waiting]
    /\ UNCHANGED <<lastEntry, sends, crossed, eye>>

-----------------------------------------------------------------------------
(* vinput_read and vinput_vkbd_read                                        *)

\* Mutant of Returned: counts from the start of the text.
ReturnedFromStart(pos, count, len) ==
    CASE pos > len -> 0
      [] pos <= len /\ count + pos > MAX_LEN -> len
      [] OTHER -> count

\* How many bytes the call copies, from where *offset is.
Returned(pos, count, len) ==
    CASE pos > len -> 0
      [] pos <= len /\ count + pos > MAX_LEN -> len - pos
      [] OTHER -> count

\* The number of those that are of the text: snprintf writes at most
\* count - 1 characters of it and a NUL.
OfText(pos, count, len, n) ==
    LET end == IF count = 0 THEN 0 ELSE IF len < count THEN len ELSE count - 1
        rest == IF pos < end THEN end - pos ELSE 0
    IN  IF n < rest THEN n ELSE rest

Read(r, count) ==
    LET pos == eye[r].pos
        len == TextLen(lastEntry)
        n   == Returned(pos, count, len)
    IN  /\ eye' = [eye EXCEPT ![r] =
                     [pos   |-> pos + n,
                      ample |-> @.ample /\ count > MAX_LEN,
                      plain |-> @.plain /\ OfText(pos, count, len, n) = n,
                      from  |-> @.from \union IF n = 0 THEN {} ELSE {lastEntry},
                      got   |-> @.got + n,
                      eof   |-> @.eof \/ (n = 0 /\ count > 0),
                      over  |-> @.over \/ pos + n > MAX_LEN + 1]]
        /\ UNCHANGED <<lastEntry, reported, sends, crossed, typist>>

\* close(2) and open(2)
Reopen(r) ==
    /\ eye[r].pos # 0
    /\ eye' = [eye EXCEPT ![r] = Opened]
    /\ UNCHANGED <<lastEntry, reported, sends, crossed, typist>>

-----------------------------------------------------------------------------

Next ==
    \/ \E t \in Typists : \/ StoreEntry(t) \/ Report(t)
                          \/ \E number \in Keys, junk \in BOOLEAN :
                               Write(t, number, junk)
    \/ \E r \in Readers : \/ Reopen(r)
                          \/ \E count \in Counts : Read(r, count)

Spec == Init /\ [][Next]_vars
-----------------------------------------------------------------------------
(* Properties                                                              *)

TypeOK ==
    /\ lastEntry \in Keys \union {0} /\ reported \in Int
    /\ sends \in 0 .. MaxSends /\ crossed \in BOOLEAN
    /\ typist \in [Typists -> [pc : {"idle", "parsed", "stored"},
                               key : Keys \union {0}]]
    /\ \A r \in Readers : eye[r].pos = eye[r].got

\* Unless two keys are sent at the same time, what a read shows is the last
\* event that was reported, presses and releases alike, and also after a
\* text that was no number.  (last_entry is stored under the lock, the
\* event is reported after it: two sends can do this in opposite orders.)
LastEntryIsReported ==
    (\A t \in Typists : typist[t].pc = "idle") /\ ~crossed
        => lastEntry = reported

\* Whatever the counts and positions, and whenever the entry changes: a
\* read copies no byte from outside buff.
CopiesStayInBuff == \A r \in Readers : ~eye[r].over

\* A reader that asks for more than VINPUT_MAX_LEN bytes each time gets the
\* text of an entry, all of it and nothing else, and then the end of the
\* file, unless the entry changes between its reads.
EntryThenEof ==
    \A r \in Readers :
        eye[r].ample => /\ eye[r].plain
                        /\ eye[r].eof => \A e \in eye[r].from :
                              eye[r].from = {e} => eye[r].got = TextLen(e)
=============================================================================
