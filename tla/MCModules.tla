----------------------------- MODULE MCModules -----------------------------
(***************************************************************************)
(* The virtual input devices and their keyboard, the files of /proc and    *)
(* debugfs, the block device, the network device, the platform drivers,    *)
(* the spy on a system call, and the scripts that prepare the test kernel  *)
(* and run the tests, for TLC.  They share no state, so a behaviour is     *)
(* about one of them: "subject" says which.  Vinput is the subject twice:  *)
(* with one administrator, two types and a user ("alone"), and with two    *)
(* administrators, fewer types and no user ("together").                   *)
(***************************************************************************)
EXTENDS Vinput, Sequences

CONSTANTS
    First,          \* the administrator that is there when one is alone
    FewTypes,       \* the types when there are two
    Callers, Variants, MAX_SIZE, TEXT_SIZE, Asked, MaxWrites,
    Typists, Readers, Keys, MAX_LEN, Counts, MaxSends,
    Files, LINE, Lens, MaxCounter,
    Eras, Slots, SIZE, Segments,
    Builds, Sizes, ETH_HLEN, MaxPackets,
    Boards, Pdevs,
    Hooks, Spies, Openers,
    MaxEdits,
    NumModules, Excluded, Hosts

ASSUME FirstAssumption == First \in Admins

\* The buffers of the files hold a byte and the NUL after it.
ASSUME ProcAssumption ==
    /\ Variants \subseteq {"procfs2", "procfs3", "debugfs"}
    /\ MAX_SIZE \in Nat /\ MAX_SIZE >= 2 /\ TEXT_SIZE \in Nat
    /\ Asked \subseteq Nat /\ MaxWrites \in Nat \ {0}

\* Keys of two digits at most, the longest texts that are modelled; the
\* buffer of vinput_read holds them.
ASSUME KeysAssumption ==
    /\ Keys \subseteq -99 .. 99
    /\ MAX_LEN \in Nat /\ MAX_LEN >= 4 /\ Counts \subseteq Nat /\ MaxSends \in Nat

ASSUME LinesAssumption == LINE \in Nat /\ Lens \subseteq Nat /\ MaxCounter \in Nat

\* A segment of a request has a sector at least.
ASSUME SegmentsAssumption ==
    /\ Eras \subseteq {"5.10", "5.15", "5.16", "5.18"} /\ SIZE \in Nat
    /\ Segments \subseteq Seq(Nat \ {0})

\* A packet has its Ethernet header.
ASSUME SizesAssumption ==
    /\ ETH_HLEN \in Nat /\ MaxPackets \in Nat
    /\ Sizes \subseteq Nat /\ \A len \in Sizes : len >= ETH_HLEN

ASSUME BoardsAssumption ==
    Boards \subseteq {"dma", "devicetree", "devicemodel"} /\ Pdevs # {}

\* A module is no place in the kernel or in a program.
ASSUME HooksAssumption == Hooks \subseteq {"table", "kprobe"}
ASSUME SpiesAssumption == Spies \intersect {"kernel", "user", "trap"} = {}

\* The bound on edits of setup.sh's inputs, and the number of modules that
\* test-modules.sh tests.
ASSUME MaxEditsAssumption == MaxEdits \in Nat
ASSUME NumModulesAssumption == NumModules \in Nat

VARIABLES subject,
          variant, buffer, bsize, mutex, writes, call, fpos, stored, wiped,
          overlap,
          lastEntry, reported, sends, crossed, typist, eye,
          counter, loop, want, index, unread, reg, pass, lines, pieces, line,
          ended, mixed, nexts,
          era, bstage, next, todo, owned, opened, rq, touched, left,
          build, net, stats, seq, xmit, backlog, reader, start, seen, shown, past,
          board, rung, listed, pdevs, visible, bind, step, managed, mapped,
          drvdata,
          hook, life, table, original, probes, at, frames, warned, together, late,
          sstep, kconfig, defaults, local, script, sourced, expected, iexpected,
          sfiles, tag, cut, astray, disk,
          host, qemu, guest, ko, half, result, log, died, garbled, verdict

\* Requests of one and of two segments, the larger one first.
MCSegments == {<<1>>, <<2, 1>>}

\* A key with a text of one digit, and the release of one with two.
MCKeys == {1, -30}

Proc == INSTANCE ProcFiles
Kbd == INSTANCE Vkbd
SeqF == INSTANCE SeqFile
Blk == INSTANCE Blkram
Net == INSTANCE Vnetloop
Platform == INSTANCE PlatformDriver
Spy == INSTANCE SyscallSteal WITH Calls <- Openers
Script == INSTANCE Setup WITH step <- sstep, todo <- sfiles
Test == INSTANCE GuestTest

procVars == <<variant, buffer, bsize, mutex, writes, call, fpos, stored, wiped,
              overlap>>
kbdVars == <<lastEntry, reported, sends, crossed, typist, eye>>
seqVars == <<counter, loop, want, index, unread, reg, pass, lines, pieces, line,
             ended, mixed, nexts>>
blkVars == <<era, bstage, next, todo, owned, opened, rq, touched, left>>
netVars == <<build, net, stats, seq, xmit, backlog, reader, start, seen, shown,
             past>>
platformVars == <<board, rung, listed, pdevs, visible, bind, step, managed,
                  mapped, drvdata>>
spyVars == <<hook, life, table, original, probes, at, frames, warned, together,
             late>>
scriptVars == <<sstep, kconfig, defaults, local, script, sourced, expected,
                iexpected, sfiles, tag, cut, astray, disk>>
testVars == <<host, qemu, guest, ko, half, result, log, died, garbled, verdict>>

MCInit ==
    /\ subject \in {"alone", "together", "proc", "kbd", "seq", "blk", "net",
                    "platform", "spy", "script", "test"}
    /\ Init /\ Proc!Init /\ Kbd!Init /\ SeqF!Init /\ Blk!Init /\ Net!Init
    /\ Platform!Init /\ Spy!Init /\ Script!Init /\ Test!Init
    /\ subject # "proc" => variant = CHOOSE v \in Variants : TRUE
    /\ subject # "blk" => era = CHOOSE e \in Eras : TRUE
    /\ subject # "net" => build = CHOOSE b \in Builds : TRUE
    /\ subject # "platform" => board = CHOOSE b \in Boards : TRUE
    /\ subject # "spy" => hook = CHOOSE h \in Hooks : TRUE
    /\ subject # "test" => host = CHOOSE h \in Hosts : TRUE

\* One administrator and the users.
Alone == Next /\ \A a \in Admins \ {First} : pc'[a] = "idle"

\* Several administrators; a behaviour ends where the code follows a
\* dangling pointer.
Together == Next /\ loaded' \subseteq FewTypes /\ fd' = fd

MCNext ==
    /\ \/ subject = "alone" /\ Alone
       \/ subject = "together" /\ Together
       \/ subject = "proc" /\ Proc!Next
       \/ subject = "kbd" /\ Kbd!Next
       \/ subject = "seq" /\ SeqF!Next
       \/ subject = "blk" /\ Blk!Next
       \/ subject = "net" /\ Net!Next
       \/ subject = "platform" /\ Platform!Next
       \/ subject = "spy" /\ Spy!Next
       \/ subject = "script" /\ Script!Next
       \/ subject = "test" /\ Test!Next
    /\ subject \notin {"alone", "together"} => UNCHANGED vars
    /\ subject # "proc" => UNCHANGED procVars
    /\ subject # "kbd" => UNCHANGED kbdVars
    /\ subject # "seq" => UNCHANGED seqVars
    /\ subject # "blk" => UNCHANGED blkVars
    /\ subject # "net" => UNCHANGED netVars
    /\ subject # "platform" => UNCHANGED platformVars
    /\ subject # "spy" => UNCHANGED spyVars
    /\ subject # "script" => UNCHANGED scriptVars
    /\ subject # "test" => UNCHANGED testVars
    /\ UNCHANGED subject

MCSpec ==
    /\ MCInit
    /\ [][MCNext]_<<subject, vars, procVars, kbdVars, seqVars, blkVars,
                    netVars, platformVars, spyVars, scriptVars, testVars>>

\* All of them stay within their types.
ModulesTypeOK ==
    /\ Proc!TypeOK /\ Kbd!TypeOK /\ SeqF!TypeOK /\ Blk!TypeOK /\ Net!TypeOK
    /\ Platform!TypeOK /\ Spy!TypeOK /\ Script!TypeOK /\ Test!TypeOK

\* One administrator at a time never follows a dangling pointer, destroys a
\* device twice or unregisters what is not registered, on any success or
\* failure path of export_store and unexport_store; and removing a type
\* takes all its devices with it.
SafeWhenAlone ==
    subject = "alone" => NoUndefinedBehaviour /\ DevicesHaveTheirType

\* Every copy from or to a buffer has the memory: the buffers of the /proc
\* and debugfs files (of procfs2.c if calls come one by one), the buffer of
\* vinput_read, the data of the RAM disk, whatever the lengths and
\* positions, and whenever the module goes.
CopiesHaveMemory ==
    /\ Proc!StaysInBuffer
    /\ Kbd!CopiesStayInBuff
    /\ Blk!TransfersHaveMemory

\* A reader gets the text there is, whole, once, and then the end of the
\* file: the entry of the keyboard; the line of procfs4.c, if the reads are
\* not shorter than the line (in pieces, every line is whole but the end may
\* be missing).  A call of the files in /proc and debugfs returns the number
\* of bytes it has copied.
TextThenEof ==
    /\ SeqF!LineThenEof /\ SeqF!LinesCountPasses
    /\ Kbd!EntryThenEof
    /\ Proc!CountsAreTrue

\* The message of hello-debugfs-file.c is what the last write has sent of
\* which anything arrived, never a mixture of two, but for the bytes that a
\* write failing at its first byte has zeroed; and unless keys were sent at
\* the same time, the last entry of the keyboard is the event reported.
MessagesAreWhole == Proc!MessagesAreWhole /\ Kbd!LastEntryIsReported

\* After every failure of an init or a probe, and after exit and unbind,
\* exactly what was taken has been given back, the last first; but for the
\* queue of the RAM disk in Linux 5.15 to 5.17, which nothing releases.
TakenIsGivenBack ==
    /\ Blk!GivenBackInOrder
    /\ Platform!ProbesCleanUp /\ Platform!NoDriverWhenOut

\* The statistics of vnetloop.c that a reader sees are of one moment, and a
\* later reader sees no lower ones.
StatsAreConsistent == Net!StatsAreConsistent

\* What the scripts promise, as far as they keep it: setup.sh skips phase 2
\* only with a kernel of the current kernel.config and config.defaults, and
\* phase 3 only with the current initramfs/init; and test-modules.sh succeeds
\* only if every module was tested.  Not promised: that after a release was
\* unpacked in part, or config.defaults was edited between its sourcing and
\* its hashing; nor that the output agrees with config.local, or the initramfs
\* with the version of busybox, which no stamp covers.
ScriptsKeepTheirWord == Script!SkippedOutputIsCurrent /\ Test!GreenMeansTested

\* The property of the instance, under a name a .cfg can use.
DanglingOnlyAfterWarning == Spy!DanglingOnlyAfterWarning
=============================================================================
