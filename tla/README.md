# TLA+ models of the kernel module examples of LKMPG

The repository is a book on Linux kernel modules. Its program text is in
`examples/`: about fifty small modules, most of them independent of each other,
and the scripts that build and test them in `devtools/` and `.ci/`. What makes
the examples hard is not their size. Their functions are callbacks: they are
called by processes, interrupts, kernel threads, timers and by `insmod` and
`rmmod`, in any order and at the same time, and what they registered must be
taken back in the right order, when they succeed and when they fail half way.
That is what is modelled here.

## 1. Inventory

| Part | State | Operations | Actors, and what is hard |
|---|---|---|---|
| `sleep.c`: /proc file for one process at a time | `already_open`, `waitq`, `message`, `finished` | open (wait, signal, O_NONBLOCK), read, write, close, init, exit | Processes that wait for each other, signals, removal while they wait. One holder; nobody sleeps when the file is free; buffers |
| `chardev.c`, `static_key.c`: device for one process at a time | `already_open`, `counter` or the key, `msg` | open (-EBUSY), read, write, release, init, exit | Racing opens; a module that is removed under its users. Exclusion; one message per reader; end of file |
| `chardev2.c` and `other/userspace_ioctl.c` | `already_open`, `message` | three ioctls, read, write; the program | Byte loops over shared memory, several programs. What is got is what was set |
| `ioctl.c` | memory per open file, `ioctl_num` | four ioctls, read, open, close, init, exit | Threads sharing a file. Files keep apart; memory freed once, after the last call |
| `vinput.c`, `vinput.h`, `vkbd.c`: virtual input devices | list of types, list of devices, bitmap of ids, reference counts | export, unexport, register and unregister a type, open, release; read, write | Several administrators and users; locks dropped between lookup and use; failure paths. Unique ids; all-or-nothing export; no dangling pointer |
| `example_rcu.c` | published pointer, blocks, reader thread | update (publish, wait, free), read, init, exit | Reader against updater. No use after free, no leak |
| `completions.c` | two completions, two threads | wait, complete, init, exit | Order of threads, exit that must return |
| `intrpt.c`, `bottomhalf.c`, `bh_threaded.c`: LED and buttons | GPIO lines, interrupts, LED, work item | init with its labels, exit, handlers, bottom halves | Interrupts during init, failure and exit. Everything is released, nothing runs afterwards |
| `led.c`, `dht11.c`: GPIO character devices | five resources, the line, shared buffers, retry counters | init with its labels, exit, open with retries, read, write, release | Users before init is over; several users of one line. Labels match what is held; the line is left ready; open returns |
| `procfs2.c`, `procfs3.c`, `hello-debugfs-file.c` | a shared buffer and its size; `message_lock` | read, write | Concurrent calls on one buffer, lengths at its limit, faults. No byte outside the buffer; true counts; whole messages under the lock |
| `procfs4.c` | `counter`, the position of each file | `start`, `show`, `next`, `stop` | A pass ended by moving a position, short reads, several files. Whole lines; the end of file, for reads that hold the line |
| `blkram.c` | disk, queue, tags, data; requests in flight | init with its labels, exit, requests | Four kernel versions with different steps; requests beyond the end or during removal. Memory there for every transfer; what is given back, and what is not |
| `vnetloop.c` | four counters and their sequence count | open, stop, transmit, statistics | A reader beside the sender. Figures of one moment, none going back |
| `kbleds.c`, `sched.c`, `example_tasklet.c` | timer, work item, tasklet; state of the LEDs | init, handler, exit | A handler that arms itself against removal, and a console that is turned away meanwhile. Nothing runs afterwards; exit returns |
| `dma.c`, `devicetree.c`, `devicemodel.c`: platform drivers | devices, managed resources, mapping | init, exit, probe, remove | Probes that fail at any step, devices that come and go, removal during a probe. Everything given back |
| `syscall-steal.c` | the table entry, what each insertion kept; a kprobe | replace, restore, the replacement | Several insertions, removed in any order, with calls in their code. No call led into removed code without the warning |
| `devtools/setup.sh`, `pack-prebuilt.sh` | `.cache`: tarballs, trees, outputs, stamps | three phases, prebuilt release | Interruptions and edits at any point, runs afterwards. No stale or partial output taken for a finished one, as far as the stamps can tell |
| `devtools/test-modules.sh`, `boot.sh`, `guest-test.sh`, `initramfs/init` | the log, exit statuses | boot, test each module, judge | Hangs, crashes, time limit. Success means that all were tested |
| `hello-*.c`, `procfs1.c`, `hello-sysfs.c`, `kmem_cache.c`, locking examples, CI | none that two actors share | init, exit, one variable | nothing: straight-line code |

The components interact little. `vkbd.c` registers a type with `vinput.c`,
which calls it to read and send keys; `test-modules.sh` meets the guest on the
serial console;
`userspace_ioctl.c` calls `chardev2.c`; everything else meets in the kernel
(module references, wait queues, file release), which each module states under
"External" as the code in the repository relies on it. `PROJECT.json` lists the
hazards of the code line by line with the properties that watch them.

## 2. Modules

| Module | Models | State and actions |
|---|---|---|
| `ExclusiveOpen` | abstract: a file that one process at a time may hold | each process is out, trying, in, or revoked by removal; no grant while one is in; a free file does not stay free while somebody is trying; a file that may vanish (`Vanishes`: the devices, not `/proc/sleep`) is lost to all at once |
| `Sleep` | `sleep.c` | `already_open`, the wait queue and who sleeps, pending signals, `finished`, lengths of message and reply; one action per access to the flag or the queue in `module_open`, and one each for the other functions; `sleep_exit` as `remove_proc_entry` with its wait |
| `Chardev` | `chardev.c`, `static_key.c` | both drivers in one module, chosen by the variable `driver` in the initial state; the order init goes through, the device node, open in two steps (find the driver, call it), references to the module; reads from where the last one stopped and, with pread, from anywhere (`strayed`: who went behind the message) |
| `Chardev2` | `chardev2.c`, `userspace_ioctl.c` | the message as a function from indices to bytes; one action per byte moved, so that two loops can meet; reads and bytes asked for at any position; `party` chooses which processes run together |
| `IoctlData` | `ioctl.c` | blocks of memory, the block of each open file, the calls in progress |
| `Vinput` | `vinput.c`, the life cycle | types, devices as records (id, type, input device, registration), the bitmap, the administrators with their local pointers, the users with theirs; one action per critical section |
| `Rcu` | `example_rcu.c` | blocks numbered as allocated, the updater statement by statement, the reader, `grace` for `synchronize_rcu` |
| `Completions` | `completions.c` | counts of the completions, both threads, init and exit |
| `GpioIrq` | `intrpt.c`, `bottomhalf.c`, `bh_threaded.c`, both API variants | init, its labels and exit as three lists that generic actions walk; lines, interrupts, handlers, work item |
| `GpioDev` | `led.c` (before and since Linux 6.4), `dht11.c` | five resources in order, the direction and level of the line, whether the sensor was woken, shared buffers, per process the place in open or write |
| `Vkbd` | `vinput_read`, `vinput_write` and `vkbd.c` | `last_entry`, the event last reported, per reader the position and what it got; storing and reporting a key are two actions |
| `ProcFiles` | `procfs2.c`, `procfs3.c`, `hello-debugfs-file.c` | bytes of the buffer known by the write they came from; one action per access to the size and per byte; the lock; a fault of `copy_from_user`, which zeroes what it could not copy |
| `SeqFile` | `procfs4.c` | position and buffer per open file, the shared counter loaded and stored in two actions; a read that empties the buffer of the `seq_file` calls `start` again |
| `Blkram` | `blkram.c` before 5.15, in 5.15, in 5.16 and 5.17, and since 5.18 | the resources in the order of init, the labels as a list, requests with their remaining segments; `left`, what is never released |
| `Vnetloop` | `vnetloop.c` on 32 and on 64 bits | the four counters, the sequence count, the transmission and the reader field by field |
| `Deferred` | `kbleds.c`, `sched.c`, `example_tasklet.c` | what is armed, where the handler is, the LEDs of each console and which one is in the foreground |
| `PlatformDriver` | `dma.c`, `devicetree.c`, `devicemodel.c` | the probe as a list of steps, managed resources, mapping and driver data per device |
| `SyscallSteal` | `syscall-steal.c`, for the table and for kprobes | the table entry, what each insertion kept, where a call of openat is and which code it will return to |
| `Setup` | `setup.sh`, `config.defaults` | what is on the disk: none, part or full, or the versions of the inputs it was made of; the settings as they were sourced at the start; the four inputs, edited at any time; `Interrupt` at every step |
| `GuestTest` | `test-modules.sh`, `boot.sh`, `init`, `guest-test.sh` | QEMU, the guest, the module at hand, the lines of the log |
| `MCSleep`, `MCChardev2` | constants for TLC | values a `.cfg` cannot write, symmetry |
| `MCDevices` | `Chardev`, `Chardev2`, `IoctlData` side by side | see below |
| `MCKernel` | `Rcu`, `GpioIrq`, `Completions`, `GpioDev`, `Deferred` side by side | see below |
| `MCModules` | `Vinput` (twice) and the other modules side by side | see below |
| `SleepProofs`, `VinputProofs`, `RcuProofs`, `Chardev2Proofs`, `DevicesProofs`, `GpioProofs`, `KernelProofs`, `ModulesProofs` | theorems | section 5 |

The components of `MCDevices`, `MCKernel` and `MCModules` share no state. A behaviour of
such a module is about one of them, chosen in the initial state, while the others
do not move; the state space is the sum of theirs, not the product.

Definitions named "Mutant of X" are versions of X with a plausible mistake. No
specification uses them; each breaks a property: the one `PROJECT.json` names with
it or, where a property joins the promises of several components, the part that
is about its own component.

Data is abstracted to what the properties tell apart: messages are lengths
(`Sleep`, `GpioDev`), what they tell (`Chardev`), who wrote them (`ProcFiles`) or
short sequences over two characters (`Chardev2`); files of the build are the
version of what they were made of (`Setup`); names, logging and formatting are left out. Integers
keep their wrap-around where it can be met (`IntModulus`, `CharModulus`).

## 3. Runs

| Run | Module, bounds | Shows |
|---|---|---|
| `sleep_safety` | `MCSleep`; 3 processes, `MESSAGE_LENGTH` 80, writes of 5 and 200 bytes, reads into buffers of 0 and 200, 3 reads | One holder at a time; the flag is set iff there is a holder; nobody is asleep with the file free and no wake-up coming; no process in the code of a removed module; buffers; of two reads in a row one is an end of file |
| `sleep_live` | `MCSleep`; 3 processes, without the reads | `Sleep` implements `ExclusiveOpen`, liveness included; a fatal signal ends a waiting open; removal ends |
| `sleep_signal` | violation | A signal to the whole process that is not fatal does not end the wait |
| `vinput_idleak` | violation | A failing `input_allocate_device` loses the id |
| `devices` | `MCDevices`; 3 processes for `chardev.c` and `static_key.c`, 2 for `chardev2.c`, texts shorter than, as long as and longer than the buffer, 2 files and 2 threads | `chardev.c`, `static_key.c`: whole messages, the key as told, references, refinement of `ExclusiveOpen`. `chardev2.c`: loops that begin in the buffer stay there, ioctls alone return the last text set. `ioctl.c`: files keep apart. Readers reach the end and programs end |
| `chardev_unload` | violation | `chardev.c` is removed while its device is open |
| `chardev2_mixed` | violation | A write between the bytes of an ioctl mixes two messages |
| `kernel` | `MCKernel`; 5 blocks, 3 drivers in 2 variants, 2 users of the GPIO devices, 2 retries, 3 kinds of deferred work, 2 consoles | RCU: no use after free, no leak on exit, no reader left. Labels release no more than is held, those of `led.c` and `dht11.c` no less; interrupts find their lines (`HandlersHaveTheirLines`); lines are left in order; buttons drive the LED. Completions: order. What exits wait for has happened when a module is out (`AwaitedWhenOut`), and all calls return |
| `gpio_work` | violation | Work that an interrupt scheduled outlives `bottomhalf_exit` |
| `gpio_leak` | violation | A failing second `gpio_to_irq` leaves the first interrupt requested (older API) |
| `modules` | `MCModules`; vinput with 1 administrator, 2 types and a user, and with 2 administrators; 2 callers, readers, typists; buffers of 3 bytes and lengths 0, 1, 4; 2 requests; 2 packets; 2 devices; 3 insertions; 1 edit; 3 modules under test, 1 of them excluded | vinput: ids of listed devices differ, export is all or nothing, one administrator never follows a dangling pointer. Copies have the memory; a text comes once and then the end; messages are whole; what was taken is given back; no dangling system call without a warning; statistics of one moment; scripts keep their word. The comments of `TextThenEof`, `MessagesAreWhole`, `TakenIsGivenBack` and `ScriptsKeepTheirWord` name what the code does not keep of these (section 4) |
| `setup_interrupted` | violation | A part of the kernel source is taken for the whole |

### Bounds

* Three processes in `Sleep` are a holder, one that just woke and one that goes
  to sleep, which is what a lost wake-up or a double entry takes. The other
  models use two or three: every hazard found there is between a user and one other.
* `Chardev` has three processes (a holder and two that race), and preads at the
  positions 1, 9 and 41, which are inside and behind the messages.
* `VINPUT_MINORS` is 2, so that ids run out; `MaxAllocs` bounds the
  allocations of a behaviour, and lets ids and types be reused.
* `MaxBlocks` = 5 lets `example_rcu.c` be loaded, updated and removed, and
  loaded again after a failure.
* `BUF_LEN` = 2 in `Chardev2` with texts of lengths 1, 2 and 3: below, at and
  beyond the buffer. `IntModulus` = 2 makes the counter of `chardev.c` wrap.
  `CharModulus` = 4 with an argument of 5 truncates.
* `Retries` = 2 is a first and a last attempt; the code has 5, and the middle
  ones are like the first.
* With two administrators (`modules`) a behaviour of vinput ends where one of
  them uses a freed pointer ("oops"): nothing is said about what follows.
* `ProcFiles`: a buffer of 3 bytes with lengths 0, 1 and 4 is empty, inside and
  beyond; two writes of two callers are what a mixture takes.
* `Blkram`: a disk of 3 sectors, requests of 1 and of 2 + 1 sectors at every
  place, so that the second segment is the one that does not fit.
* `SyscallSteal`: three insertions can be removed in an order where the one that
  warned is not the one that is called; calls do not influence each other, so one
  is enough.
* `Setup`: one edit of one of the four inputs, at any time, makes an output stale;
  runs and interruptions are not bounded. (The proof is for any number of edits.)
* `Deferred`: two consoles, the one in the foreground and one that it was.
* `CHECK_DEADLOCK` is off for `modules`: its bounded users stop, a test ends, and
  vinput may stop at "oops".

### Fairness

A process inside the kernel goes on running, so the steps of `module_open`,
`device_open`, of an ioctl, of the updater and of threads are weakly fair. Users
are free not to close, read or call: no fairness is assumed of them, except where a
property says so in its hypothesis (`UsersRead` in the readers' part of `CallersFinish`, `UsersClose`
in `RemovalEnds`). With one exception all fairness is weak: no lock or queue is assumed to be fair,
so `ExclusiveOpen` promises that a free file is granted to one of those who try,
not to each of them. Interrupts need not come. The grace period of `synchronize_rcu` ends once the reader has left
its critical section, which it does, as it cannot sleep there. `StopDeferred` of `Deferred` is strongly fair: `timer_delete_sync`
tries again and again, and the timer waits for `BLINK_DELAY` between two calls
of its handler, so that it finds the handler idle. A measurement
of `dht11.c` ends because each of its waits counts down from 300.

## 4. What the code does differently from what it says

Seven disagreements have a run of their own (findings of `PROJECT.json`). The
following were met while modelling. They are in the models, no property
claims otherwise, and no run is dedicated to them.

* `sleep.c:44-53`: `finished` is static, so it survives closes; the first read of
  a new open may report end of file at once. `ReadersReachEof` says what
  remains true.
* `sleep.c:197-201` warns of processes that are inside `module_open` when the module
  is unloaded. In the model `remove_proc_entry` waits for them (the kernel's
  `proc_entry_rundown`), so the code stays until they leave. That is the kernel's
  doing and not the module's, so no property claims it; `RemovalEnds` is about the other
  side, that the wait ends when they do.
* `vinput.c:84`: an open file keeps a device that unexport frees. With two
  administrators `vinput_get_vdevice_by_id` (69) returns pointers that are
  freed before use.
* `intrpt.c:66-92`: the newer variant never makes the LED line an output, against
  `intrpt.c:8`; `bh_threaded.c:43-55`: the handlers never touch the LED, against
  `bh_threaded.c:8`. `ButtonsDriveTheLed` is about the variants that do.
* `vinput.c:69-85`: an open looks at the id and keeps the pointer after the unlock,
  when the device may be gone; a write or read follows it.
* `example_rcu.c:70-72`: when `kthread_run` fails the first block is leaked.
* `completions.c:33-35`: after `complete_all` exit may return while the thread
  still has to call `kthread_complete_and_exit`, which is in the module's code.
  `ThreadsCompletedWhenOut` claims no more than that a thread has got there.
* `chardev.c:2-3`: the number told counts opens, not reads.
* `chardev.c:129`, `static_key.c:132`, `chardev2.c:68`: `*offset` is used as it comes,
  and pread passes any; `chardev2.c:168` uses the argument of the ioctl as an index.
  From behind the message the caller gets what is there. `Pread` and `AskByte` are
  these calls; `ReadsAreWhole` and `LoopsStayInBuffer` say nothing of those that
  begin behind the message or the buffer.
* `static_key.c:66-70`: when `class_create` fails the device, already registered and
  perhaps open, goes with the module. The abstract file may vanish for that reason.
* `chardev2.c:143-147`: `IOCTL_SET_MSG` of an empty text leaves the old one;
  `chardev2.c:168`: a byte from 128 on, where `char` is signed, is returned as a
  negative number, which looks like a failure.
* `led.c:130-135`, `dht11.c:189-192`: the owner of the cdev is set before
  `cdev_init`, which clears it. Since Linux 6.4 `led.c` has no owner in
  its file operations either, so it can be removed while open and its line is then
  used after `gpio_free`, against the comment in `led.c:130`. It is the defect that
  `chardev_unload` shows for `chardev.c`; no property claims that the line is held.
* `led.c:153-164`, `dht11.c:210-220`: the node exists before the line is requested,
  and an open or a write may come between.
* `led.c:62`: `device_buffer_size` and `control_signal` are shared, so
  concurrent writers use and report each other's lengths and signals.
* `dht11.c:54-58`: an attempt leaves the line an input, and the next one sets the
  value of that input. It drives nothing, so the sensor is not woken and
  retries cannot succeed (unless another open drives the line). The loop
  ends and the line is restored (`CallsReturn`, `LinesLeftInOrder`).
* `ioctl.c:56`: what `IOCTL_VALGET` returns is what was set modulo 256.
* `procfs2.c:50-61`, `procfs3.c:29-52`: the size is shared without a lock, so
  overlapping calls return counts that are not theirs, and in `procfs2.c` the NUL
  can be stored beyond the buffer, between the assignment and the cut. A short
  read of `procfs3.c` cuts the message for everybody (34). `procfs2.c:35` copies
  its whole text however short the read is.
* `procfs4.c:34`: a read that takes the last bytes out of the buffer and has room left
  makes `seq_read` call `my_seq_start` again; that moves `*pos` back, and the read
  returns its bytes, not 0. The end of file is swallowed, and the next read begins
  another line. So `LineThenEof` promises the end only to reads that hold the line.
* `hello-debugfs-file.c:52`: when `simple_write_to_buffer` faults at its first byte the
  length stays and `copy_from_user` has zeroed what it was to replace:
  `MessagesAreWhole` excepts those bytes.
* `blkram.c:223-226,244-248`: in Linux 5.15 to 5.17 `blk_mq_alloc_disk` allocates a
  queue that only `blk_cleanup_disk` releases (the header, `blkram.c:12-14`, names it);
  the code calls `del_gendisk` and `put_disk`. The queue stays in `left`;
  `GivenBackInOrder` says that in the other versions nothing stays.
* `vinput.c:105`: a read with a count up to `VINPUT_MAX_LEN` returns that many
  bytes of the buffer, also those after the text that were never written.
  `TextThenEof` is about larger counts, `CopiesHaveMemory` about all.
* `vkbd.c:61-76`: the entry is stored under the lock and reported outside, so two
  writers can leave an entry that is not the last event. A text that is no number
  is logged and sent as key 0.
* `syscall-steal.c:293`: two seconds are taken to be enough for calls to leave the
  code; an openat that sleeps longer returns to freed memory where the compiler did
  not make the last call a jump. The history variable `late` marks this.
  Two insertions or removals at the same time are marked by `together`.
* `kbleds.c:37,83`: the handler and exit each take the console in the foreground, but
  `KDSETLED` is per console: one that was left while it was lit stays lit after exit.
  `NothingRunsWhenOut` excepts the consoles turned away from.
* `kbleds.c:37,64`: `port.tty` of the foreground console, and `devicemodel.c:16-20`:
  `platform_data`, are dereferenced without a test; the models take them as set.
* `setup.sh:17,184`: `config.defaults` is sourced once and hashed when phase 2 begins;
  edited in between, a kernel of the old version gets the stamp of the new file
  (the history variable `astray`). `config.local` (18) is in no stamp, and that of
  the initramfs (288) covers `initramfs/init` but not the version of busybox that
  is packed with it, against the claim of `setup.sh:5`. A release carries its stamps among the files it unpacks
  (`pack-prebuilt.sh:74,114`), so a stamp can arrive before what it vouches for,
  and an unpacking cut short leaves it there (the history variable `cut`).
* `boot.sh:9` ("run CMD in guest, exit with its status") and `test-modules.sh:5`:
  `initramfs/init:39` powers off, so QEMU ends with 0 whatever the status of
  the command was. `test-modules.sh` reads the log instead; it succeeds
  although modules were not tested if `guest-test.sh` is killed, and although one
  failed if the kernel wrote into its line. `GreenMeansTested` excludes the two.

## 5. Proofs

TLAPS proves every safety property that a passing run checks, for every value of
the constants that satisfies the named assumptions next to their declarations
(`TLC` evaluates those in the runs). Eight modules hold the proofs:

| Module | About | Extends |
|---|---|---|
| `SleepProofs` | `Sleep`, and its refinement of `ExclusiveOpen` | `Sleep` |
| `VinputProofs` | `Vinput` | `Vinput` |
| `RcuProofs` | `Rcu` | `Rcu` |
| `Chardev2Proofs` | `Chardev2` | `MCDevices` |
| `DevicesProofs` | `Chardev` and its refinement of `ExclusiveOpen`, `IoctlData`, and `MCDevices` as a whole | `Chardev2Proofs` |
| `GpioProofs` | `GpioIrq` | `MCKernel` |
| `KernelProofs` | `Completions`, `Deferred`, `GpioDev`, and `MCKernel` as a whole | `GpioProofs`, `RcuProofs` |
| `ModulesProofs` | `SyscallSteal`, `Vnetloop`, `Setup`, `GuestTest`, `SeqFile`, `Vkbd`, `ProcFiles`, `PlatformDriver`, `Blkram`, and `MCModules` as a whole | `MCModules`, `VinputProofs` |

All have the same form. A property is seldom inductive: each component has an
invariant that is (named `...Inv`), a lemma that the initial states satisfy it, a
lemma that every step keeps it, with one step per action, and one that it implies
the property. In the composed modules a step is one of a component or leaves it alone,
so the invariants of the components together are one of the composition
(`DevicesInv`, `KernelInv`, `ModulesInv`).

**`Sleep`**: for any set of processes and any lengths. `MutualExclusion`,
`FlagIffHeld` and `NoLostWakeup` follow from `ProtocolInv`.
That nobody sleeps unwoken needs the flag to tell whether there
is a holder, who will wake the others; that sleepers can be woken needs them
to be on the queue with no signal pending; that a new
insertion may reset the flag needs the wait of `remove_proc_entry` to have covered
every place in `module_open`.
`BuffersInBounds` and `ReadersReachEof` have small invariants of their own.
`ImplementsExclusiveOpenSafely` shows that initial states map to initial states of
`ExclusiveOpen` and steps to steps or stutters, from `ProtocolInv`.

**`Vinput`**: for any number of administrators, listed devices have different ids
(`IdInv`: an allocation picks an unmarked id, which is new only because listed ids
are marked; a destruction unmarks an id, which is safe only because no other
listed device has it), and a listed device that nobody works on is complete
(`WorkInv`: of the administrators that point to an incomplete device one is in the
code that made it so; that one of them merely points to it is not inductive, since
one that looked it up may go away). For one administrator, `AloneInv` says at each
place what it may rely on: its device is listed, all others are complete and have
their type, and the walk of `vinput_unregister` has left no device of its type
behind it. From that, no path follows a freed pointer or unregisters twice.

**`Rcu`**: `GraceInv` says what the reader may hold while the updater is at each
statement: the published block, or the old one until `synchronize_rcu` has seen
the reader outside. `Accounted` says that every block allocated is published, freed
or the updater's old one.

**`Chardev`**: `HolderInv` (one process between the compare-and-swap and the
release), `NobodyInside` (no process in a module that is out) and `ToldInv` (what
the holder was told is what is in the buffer, and is how the key is until it
writes), `FreshInv` (nothing is known of a file that is not open). Its refinement of
`ExclusiveOpen` is proved step by step, for both drivers and every failure of init;
where a module goes under those who have it open the abstract file vanishes (`Lose`).

**`Chardev2`**: `LoopsStayInBuffer` needs the NUL at the end of the buffer to
survive every loop; what begins behind the buffer only reads. For the ioctls, `IoctlInv` says that one process is inside
(`OneInside`), that the buffer holds the last message (`HoldsCurrent`) or, byte by
byte, the beginning of the one that is set (`HoldsBeginning`), and that what a
program has got is the beginning of the message (`GotBeginning`).

**`IoctlData`**: `FilesKeepApart` is inductive with the fact that files are open only while the
device is there.

**`GpioIrq`**: the lists of the code (init, its labels, exit, for each driver and
API) are first turned into three tables: at which step a resource is taken, at which label
and at which statement of exit it is released. `GpioInv` says by these tables what
is held; that only held interrupts have a running handler; that the LED stays off
from its statement of exit on, and shows the button handled last.

**`Completions`, `Deferred`, `GpioDev`**: `CompletionInv` says where both threads
are at each statement of init and exit, and that the flywheel is past its wait only
after the crank. `LaterInv` says that nothing is pending or running between the
stop and the end of exit, and that a console that is lit, or about to be, is in the
foreground or was turned away from (`LitConsoles`). `DeviceInv` says that what is held are the first
resources up to the place in init or exit, and that an owner keeps users out of exit.

**`SyscallSteal`**: `SpyInv`. Without a warning, without loads at the same time
and with calls that leave in time, the replacements are a stack: the table has
the topmost, each has kept the one below, which is there, and no two the same one. With
kprobes the table is never changed and a call is only in a registered probe.

**`Vnetloop`**: `NetInv`. The sequence count is even exactly between two
updates, when the counters are values they had together; and as long as
it is what the reader started with, what the reader has is what is there. That
figures do not go back is an action property, from the same invariant.

**`Setup`, `GuestTest`**: `ScriptInv` says for each step of the script that the stamp of
its phase is not the current one until the outputs are, also while a release is
unpacked file by file; that nothing on the disk, and nothing sourced, is newer than the
inputs; and that what was sourced is what is hashed unless `astray`.
`TestInv` relates what the guest has done to what is in the log and to QEMU's end.

**`SeqFile`, `Vkbd`, `ProcFiles`**: `SeqFileInv` (got and still to get are one line
after `my_seq_next`, and nothing before it; a file not read in pieces has nothing left
in its buffer), `KbdInv` (a reader with large counts is always
at the end of the entry it read; one typist's key is the entry from the store to
the report), and `ProcInv`, with one part per promise: under the lock, the buffer is of
one write but for what the next one has already copied; `procfs3.c` limits every size before it stores
it, so any interleaving stays in the buffer; one call at a time, the shared size is
what the call stored.

**`PlatformDriver`, `Blkram`**: `PlatformInv` says by the step of a probe what the
device holds; the mapping of `dma.c` exists only between two steps that cannot
fail, which is why no failing probe leaves it. `BlkInv`: what is held are the first
resources of init, and the list still to be released is these backwards (the queue of
5.15 to 5.17 joins `left` with the disk); a request
outlives the last close only until the release that waits for it, which comes before that of
the memory.

The assumptions on constants are what the code has: buffers of a byte at least
(`ProcFiles`: two, `Vkbd`: four, room for a key of two digits and its line), texts
that are not empty, a packet no shorter than its Ethernet header, segments of a
sector at least, one attempt at least to measure, and names that differ (a
module is no place of the kernel; a block is not "none"). Some are sets a `.cfg`
cannot write; they get their values from definitions of the MC modules
(`MCTexts`, `MCKeys`, `MCSegments`).

Only model-checked: liveness, which the prover cannot do. These are
`CallersFinish` (`devices`), `CallsReturn` (`kernel`), `FatalSignalEndsOpen` and
`RemovalEnds` (`sleep_live`), and the liveness half of `ImplementsExclusiveOpen`
in both refinements, whose other half is proved.

## 6. Not modelled, and the plan

Not modelled at all: the hello and locking examples, `kmem_cache.c`, `procfs1.c`,
`hello-sysfs.c` and `hello-debugfs.c` (init and exit are straight lines, and what
is left in between is one variable that the kernel reads and writes), and the
scripts that only call programs (`.ci/`, `build-modules.sh`, `check.sh`). Left out of modelled parts:
the life of a vinput device under an open file (`Vinput` and `Vkbd` are not
composed); insertion and removal of `chardev2.c` and of the files of /proc and
debugfs, which repeat `chardev.c` and `sleep.c`; the bits of a DHT11 answer,
which are one step that succeeds or fails; power management callbacks, which only
print; the write protection that `syscall-steal.c` switches off on its processor.

What remains: a proof about vinput says nothing yet about an open file that
outlives its device, since `Vinput` and `Vkbd` are not composed; the parts of
`NoUndefinedBehaviour` that hold for several administrators are not separated from those
that do not; and what the older button drivers leave after a failed init is
bounded by an invariant (`HeldByTable`) and stated as no property.
