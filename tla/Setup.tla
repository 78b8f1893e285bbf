------------------------------- MODULE Setup -------------------------------
(***************************************************************************)
(* devtools/setup.sh: three phases that download and build a kernel and an *)
(* initramfs into .cache, each skipped when its output is already there.   *)
(* The script runs under "set -e" and may be run again after it failed or  *)
(* was interrupted at any point, so what matters is what a run leaves on   *)
(* the disk and what the next one makes of it.                             *)
(*                                                                         *)
(* A file or a directory that is downloaded or unpacked is "none", "part"  *)
(* or "full".  What is built is identified by the versions of its inputs:  *)
(* of kernel.config, read when the kernel is made; of config.defaults and  *)
(* config.local, sourced once, at the start, for the versions of the       *)
(* kernel and of busybox; of initramfs/init.  0 means there is no such     *)
(* file.  Versions only grow: a file that is changed back to what it was   *)
(* is not modelled.  Every edit of config.defaults or config.local gives   *)
(* other versions of the kernel and of busybox, and so other tarballs and  *)
(* directories; those of earlier settings are never looked at again.       *)
(*                                                                         *)
(* The stamps cover less than that.  The one of the kernel hashes          *)
(* kernel.config and config.defaults as they are at phase 2, not as they   *)
(* were sourced, and not config.local; the one of the initramfs hashes     *)
(* initramfs/init only, not the version of busybox that is packed with it. *)
(*                                                                         *)
(* External: curl leaves nothing or a part of a file when it fails; tar    *)
(* stops in the middle of an archive that is a part; make replaces its     *)
(* targets when it is done and fails when the source is a part; a release  *)
(* holds what pack-prebuilt.sh packs, in any order; the archive of a tag   *)
(* at GitHub unpacks to the same directory as the one of kernel.org.       *)
(***************************************************************************)
EXTENDS Naturals

CONSTANT MaxEdits   \* bound: edits of the inputs

VARIABLES
    step,       \* the next step of the script, "idle" when it does not run
    kconfig,    \* version of kernel.config
    defaults,   \* version of config.defaults
    local,      \* version of config.local, 0: there is none
    script,     \* version of initramfs/init
    sourced,    \* the settings the script, or the last run of it, sourced
    expected,   \* the stamp build_kernel computed
    iexpected,  \* the stamp build_initramfs computed
    todo,       \* the files of a release still to be unpacked
    tag,        \* the versions that release was made of
    cut,        \* history: an unpacking of a release was not finished
    astray,     \* history: the last edit of config.defaults came between
                \* its sourcing and its hashing
    disk        \* what is in .cache, see Disks

inputs == <<kconfig, defaults, local, script>>
locals == <<expected, iexpected, todo, tag>>
history == <<cut, astray>>
vars == <<step, inputs, sourced, locals, history, disk>>

Versions == 0 .. MaxEdits + 1
Copies == {"none", "part", "full"}

\* The settings that name tarballs and directories, and what is built.
Settings == [defaults : Versions, local : Versions]
Kernels == [kconfig : Versions, defaults : Versions, local : Versions]
Archives == [of : Versions, box : Settings, whole : BOOLEAN]
Stamps == Versions \X Versions
Tags == [kconfig : Versions, defaults : Versions, script : Versions]

NoSettings == [defaults |-> 0, local |-> 0]
NoKernel == [kconfig |-> 0, defaults |-> 0, local |-> 0]
NoCpio == [of |-> 0, box |-> NoSettings, whole |-> FALSE]
NoStamp == <<0, 0>>
NoTag == [kconfig |-> 0, defaults |-> 0, script |-> 0]

\* The files of a release that matter here, and the end of the longest one.
Packed == {"image", "symvers", "kstamp", "cpio", "cstamp"}
Parts == Packed \union {"cpio_rest"}

\* What is downloaded and unpacked has the settings in its name.
Downloads == {"xz", "gz", "src", "bbtar", "bbsrc"}

Disks ==
    [xz : Copies, gz : Copies,      \* cached tarballs of the kernel
     src : Copies,                  \* KERNEL_SRC
     image : Kernels,               \* bzImage
     symvers : Kernels,             \* Module.symvers and the host tools
     kstamp : Stamps,               \* .config-stamp
     bbtar : Copies,                \* cached tarball of busybox
     bbsrc : Copies,                \* BUSYBOX_SRC
     busybox : BOOLEAN,             \* the binary
     cpio : Archives,               \* INITRAMFS_CPIO
     cstamp : Versions]             \* .initramfs-stamp

Init ==
    /\ step = "idle" /\ kconfig = 1 /\ defaults = 1 /\ local = 0 /\ script = 1
    /\ sourced = NoSettings /\ expected = NoStamp /\ iexpected = 0
    /\ todo = {} /\ tag = NoTag /\ cut = FALSE /\ astray = FALSE
    /\ disk = [xz |-> "none", gz |-> "none", src |-> "none",
               image |-> NoKernel, symvers |-> NoKernel, kstamp |-> NoStamp,
               bbtar |-> "none", bbsrc |-> "none", busybox |-> FALSE,
               cpio |-> NoCpio, cstamp |-> 0]

\* A step that goes on at loc and leaves the variables of the script alone.
Goto(loc) == step' = loc /\ UNCHANGED <<inputs, sourced, locals, history>>

\* The script ends, and its variables with it.
Stop ==
    /\ step' = "idle"
    /\ expected' = NoStamp /\ iexpected' = 0 /\ todo' = {} /\ tag' = NoTag
    /\ UNCHANGED <<inputs, sourced, astray>>

\* A file or directory fills up, and then is full.
Fill(file) ==
    \/ disk[file] = "none" /\ disk' = [disk EXCEPT ![file] = "part"]
    \/ disk[file] = "part" /\ disk' = [disk EXCEPT ![file] = "full"]

-----------------------------------------------------------------------------
(* The user: edits, runs and interruptions at any time.                    *)

\* Three inputs start at version 1, config.local at 0.
Edits == kconfig + defaults + local + script - 3

\* The settings are sourced and config.defaults is not hashed yet.
Sourcing ==
    {"phase1", "curl_xz", "curl_gz", "untar_xz", "untar_gz", "phase2"}

EditKconfig ==
    /\ Edits < MaxEdits
    /\ kconfig' = kconfig + 1
    /\ UNCHANGED <<step, defaults, local, script, sourced, locals, history, disk>>

EditDefaults ==
    /\ Edits < MaxEdits
    /\ defaults' = defaults + 1
    /\ astray' = (step \in Sourcing)
    /\ UNCHANGED <<step, kconfig, local, script, sourced, locals, cut, disk>>

EditLocal ==
    /\ Edits < MaxEdits
    /\ local' = local + 1
    /\ UNCHANGED <<step, kconfig, defaults, script, sourced, locals, history, disk>>

EditScript ==
    /\ Edits < MaxEdits
    /\ script' = script + 1
    /\ UNCHANGED <<step, kconfig, defaults, local, sourced, locals, history, disk>>

\* The settings are sourced.  Under the names of new ones there is nothing.
Start ==
    /\ step = "idle"
    /\ step' = "phase1"
    /\ sourced' = [defaults |-> defaults, local |-> local]
    /\ disk' = IF sourced' = sourced THEN disk
               ELSE [f \in DOMAIN disk |-> CASE f \in Downloads -> "none"
                                              [] f = "busybox" -> FALSE
                                              [] OTHER -> disk[f]]
    /\ UNCHANGED <<inputs, locals, history>>

\* The script is killed, or a command of it fails.
Interrupt ==
    /\ step # "idle"
    /\ Stop
    /\ cut' = (cut \/ step = "unpack")
    /\ UNCHANGED disk

-----------------------------------------------------------------------------
(* Phase 1: download_kernel                                                *)

SourceStep ==
    /\ step = "phase1"
    /\ Goto(CASE disk.src # "none" -> "phase2"
              [] disk.src = "none" /\ disk.xz # "none" -> "untar_xz"
              [] disk.src = "none" /\ disk.xz = "none" /\ disk.gz # "none" -> "untar_gz"
              [] OTHER -> "curl_xz")
    /\ UNCHANGED disk

\* A download goes on, ends, or fails; the second one is tried after that.
CurlKernel ==
    \/ step = "curl_xz" /\ Fill("xz")
       /\ Goto(IF disk.xz = "part" THEN "untar_xz" ELSE step)
    \/ step = "curl_xz" /\ Goto("curl_gz") /\ UNCHANGED disk
    \/ step = "curl_gz" /\ Fill("gz")
       /\ Goto(IF disk.gz = "part" THEN "untar_gz" ELSE step)

UntarKernel ==
    /\ \/ step = "untar_xz" /\ disk.xz = "full"
       \/ step = "untar_gz" /\ disk.gz = "full"
       \/ step \in {"untar_xz", "untar_gz"} /\ disk.src = "none"
    /\ Fill("src")
    /\ Goto(IF disk.src = "part" THEN "phase2" ELSE step)

download_kernel == SourceStep \/ CurlKernel \/ UntarKernel

-----------------------------------------------------------------------------
(* Phase 2: build_kernel, try_prebuilt                                     *)

\* Mutant of KernelFresh: the image is enough.
ImageExists == disk.image # NoKernel

KernelFresh == disk.image # NoKernel /\ disk.kstamp = <<kconfig, defaults>>

SkipKernel ==
    /\ step = "phase2" /\ KernelFresh
    /\ Goto("phase3")
    /\ UNCHANGED disk

\* The two files are hashed as they are now.
PrepareKernel ==
    /\ step = "phase2" /\ ~KernelFresh
    /\ expected' = <<kconfig, defaults>>
    /\ step' \in {"prebuilt", "make"}
    /\ UNCHANGED <<inputs, sourced, iexpected, todo, tag, history, disk>>

\* try_prebuilt: there is a release for the version that was sourced and the
\* files as they are now, and it is downloaded.  A release is made of files
\* that agree, without a config.local.
Prebuilt ==
    /\ step = "prebuilt"
    /\ sourced = [defaults |-> defaults, local |-> 0]
    /\ step' = "unpack"
    /\ todo' = Packed
    /\ tag' = [kconfig |-> kconfig, defaults |-> defaults, script |-> script]
    /\ UNCHANGED <<inputs, sourced, expected, iexpected, history, disk>>

\* There is none, or its download fails.
NoPrebuilt == step = "prebuilt" /\ Goto("make") /\ UNCHANGED disk

\* tar replaces one file after the other.
Unpack(f) ==
    /\ step = "unpack" /\ f \in todo
    /\ disk' = CASE f \in {"image", "symvers"} ->
                      [disk EXCEPT ![f] = [kconfig |-> tag.kconfig,
                                           defaults |-> tag.defaults, local |-> 0]]
                 [] f = "kstamp" ->
                      [disk EXCEPT !.kstamp = <<tag.kconfig, tag.defaults>>]
                 [] f = "cstamp" -> [disk EXCEPT !.cstamp = tag.script]
                 [] OTHER ->
                      [disk EXCEPT !.cpio =
                         [of |-> tag.script,
                          box |-> [defaults |-> tag.defaults, local |-> 0],
                          whole |-> f # "cpio"]]
    /\ todo' = (todo \ {f}) \union IF f = "cpio" THEN {"cpio_rest"} ELSE {}
    /\ UNCHANGED <<step, inputs, sourced, expected, iexpected, tag, history>>

Unpacked ==
    /\ step = "unpack" /\ todo = {}
    /\ disk' = [disk EXCEPT !.kstamp = expected]
    /\ Goto("phase3")

\* The archive was damaged; what was unpacked of it stays.
UnpackFails ==
    /\ step = "unpack" /\ todo # {}
    /\ step' = "make"
    /\ cut' = TRUE
    /\ UNCHANGED <<inputs, sourced, locals, astray, disk>>

\* defconfig, merge_config.sh and make bzImage: kernel.config is read now,
\* the source is the one of the settings that were sourced.
MakeImage ==
    /\ step = "make" /\ disk.src = "full"
    /\ disk' = [disk EXCEPT !.image = [kconfig |-> kconfig,
                                       defaults |-> sourced.defaults,
                                       local |-> sourced.local]]
    /\ Goto("prepare")

\* make modules_prepare, and the copy of vmlinux.symvers.
MakePrepare ==
    /\ step = "prepare"
    /\ disk' = [disk EXCEPT !.symvers = disk.image]
    /\ Goto("kstamp")

StampKernel ==
    /\ step = "kstamp"
    /\ disk' = [disk EXCEPT !.kstamp = expected]
    /\ Goto("phase3")

build_kernel ==
    \/ SkipKernel \/ PrepareKernel \/ Prebuilt \/ NoPrebuilt
    \/ (\E f \in Parts : Unpack(f)) \/ Unpacked \/ UnpackFails
    \/ MakeImage \/ MakePrepare \/ StampKernel

-----------------------------------------------------------------------------
(* Phase 3: build_initramfs, build_busybox                                 *)

InitramfsFresh == disk.cpio # NoCpio /\ disk.cstamp = script

SkipInitramfs ==
    /\ step = "phase3" /\ InitramfsFresh
    /\ Stop
    /\ UNCHANGED <<cut, disk>>

\* build_busybox goes on where an earlier run stopped.
PrepareInitramfs ==
    /\ step = "phase3" /\ ~InitramfsFresh
    /\ iexpected' = script
    /\ step' = CASE disk.busybox -> "pack"
                 [] ~disk.busybox /\ disk.bbsrc # "none" -> "bbmake"
                 [] ~disk.busybox /\ disk.bbsrc = "none" /\ disk.bbtar # "none" ->
                      "bbuntar"
                 [] OTHER -> "bbcurl"
    /\ UNCHANGED <<inputs, sourced, expected, todo, tag, history, disk>>

\* Without -f, curl is content with whatever the server sends.
BusyboxCurl ==
    /\ step = "bbcurl"
    /\ Fill("bbtar")
    /\ \/ Goto("bbuntar")
       \/ disk.bbtar = "none" /\ Goto("bbcurl")

BusyboxUntar ==
    /\ step = "bbuntar"
    /\ disk.bbtar = "full" \/ disk.bbsrc = "none"
    /\ Fill("bbsrc")
    /\ Goto(IF disk.bbsrc = "part" THEN "bbmake" ELSE step)

BusyboxMake ==
    /\ step = "bbmake" /\ disk.bbsrc = "full"
    /\ disk' = [disk EXCEPT !.busybox = TRUE]
    /\ Goto("pack")

build_busybox == BusyboxCurl \/ BusyboxUntar \/ BusyboxMake

\* The init script is copied, and the shell truncates the archive.
Pack ==
    /\ step = "pack"
    /\ disk' = [disk EXCEPT !.cpio = [of |-> script, box |-> sourced, whole |-> FALSE]]
    /\ Goto("gzip")

Gzip ==
    /\ step = "gzip"
    /\ disk' = [disk EXCEPT !.cpio.whole = TRUE]
    /\ Goto("cstamp")

StampInitramfs ==
    /\ step = "cstamp"
    /\ disk' = [disk EXCEPT !.cstamp = iexpected]
    /\ Stop
    /\ UNCHANGED cut

build_initramfs ==
    \/ SkipInitramfs \/ PrepareInitramfs \/ build_busybox
    \/ Pack \/ Gzip \/ StampInitramfs

-----------------------------------------------------------------------------

Next ==
    \/ EditKconfig \/ EditDefaults \/ EditLocal \/ EditScript \/ Start \/ Interrupt
    \/ download_kernel \/ build_kernel \/ build_initramfs

Spec == Init /\ [][Next]_vars

-----------------------------------------------------------------------------
(* Properties                                                              *)

TypeOK ==
    /\ {kconfig, defaults, local, script, iexpected} \subseteq Versions
    /\ sourced \in Settings /\ expected \in Stamps
    /\ todo \subseteq Parts /\ tag \in Tags
    /\ cut \in BOOLEAN /\ astray \in BOOLEAN
    /\ disk \in Disks

\* However often the script was interrupted and its inputs were edited, also
\* while it ran: when it skips phase 2, image and symvers are there and built
\* with the current kernel.config and the current config.defaults; when it
\* skips phase 3, the archive is whole and holds the current initramfs/init.
\* The stamps are written last.  Three things the stamps do not give, so that
\* they are exceptions or not claimed: a release carries the stamps along with
\* what they vouch for, and its unpacking may be cut short; an edit of
\* config.defaults after it was sourced (setup.sh:17) and before it is hashed
\* (184) puts the stamp of the new file on a kernel of the old version; and no
\* stamp covers config.local (18), nor that of the initramfs (288) the version
\* of busybox.
SkippedOutputIsCurrent ==
    ~cut =>
        /\ step = "phase2" /\ KernelFresh =>
              \A kernel \in {disk.image, disk.symvers} :
                 /\ kernel.kconfig = kconfig
                 /\ ~astray => kernel.defaults = defaults
        /\ step = "phase3" /\ InitramfsFresh =>
              disk.cpio.of = script /\ disk.cpio.whole

\* "Each phase is idempotent: skipped when output exists AND config has not
\* changed" (devtools/setup.sh:5), of phase 1: the phases after it find the
\* whole source of the kernel.
SourceIsWhole == step = "phase2" => disk.src = "full"
=============================================================================
