# A TLA+ model of gcgos

gcgos is a small teaching kernel for 64-bit ARM (QEMU's Raspberry Pi machine) in
the manner of early xv6: processes with private page tables, a per-CPU
scheduler, `fork`, `exec`, `exit`, `wait`, `kill`, `pipe`, `open`, `read`,
`write`, `mknod`, a file system on an SD card and a console on a UART. This
directory models it in TLA+ from the scheduler down to the SD card, checks it
with TLC and proves the safety properties of every component with TLAPS.
`PROJECT.json` maps each definition to its source lines and lists the runs,
mutants, hazards, findings and theorems.

## The system

| part | state | operations | used by / uses |
|---|---|---|---|
| processes, scheduler (`proc.c`) | `proc[]` (state, pid, ppid, chan, ctx, lock), `cpus[]`, `nextpid` | scheduler, sched, sleep, wakeup, yield, fork, exit, wait, kill | everything sleeps through it |
| spin locks (`spinlock.c`) | one word each | acquire, release (which always enables interrupts) | scheduler, inodes, buffers, console |
| traps (`trap.c`, assembly) | trap frame, registers | system call, timer (yield), UART | calls the system calls and `wakeup` |
| pages (`kalloc.c`) | free list threaded through the pages | kalloc, kfree | page tables, images, pipes |
| page tables (`vm.c`) | tables in pages | walk, mappages | fork, exec |
| exec (`exec.c`) | - | kexec | namei, kalloc, mappages |
| descriptors (`fd.c`) | `fds[]` (type, ref, object), `p->fds` | open, close, read, write, fork's sharing, exit's closing | pipes, inodes |
| pipes (`pipe.c`) | a page with two open flags | pipe_alloc, pipe_close, read, write | kalloc, wakeup |
| file system (`fs.c`) | `inode[]`, `inode_table_lock`, inodes, bitmap, blocks and the directory on disk | iget, iput, ialloc, iupdate, balloc, bmap, readi, writei, namei, mknod | buffers; sleeps in iget |
| buffers (`bio.c`) | ten buffers, no cache | bread, bwrite, brelse | SD driver |
| SD driver (`sdhci.c`) | controller registers | commands with timeouts | - |
| console (`console.c`) | ring of 128 bytes, two indices | console_read (sleeps), consoleintr (wakes) | UART interrupt |
| mkfs | the disk image | - | the initial disk |
| drivers, boot, printf, user programs | registers | - | environment |

What is hard here: p->state is written without a lock by everybody while
several CPUs look at it; sleep and wakeup have no lock at all; the lock of a
process is taken on one stack and released after two context switches; the
kernel recycles slots, pages, descriptors and inodes while old pointers to them
survive; tables run full; the only sleep in the file system holds a spin lock;
the SD driver gives up on commands that the card goes on with, and nobody looks
at its results; characters arrive while the handler is at work.

What makes each part correct: *processes* - one CPU per process, no lost exit,
no return from exit, no starvation, unique pids, orphans collected; *pages* -
one owner per page; *descriptors* - an object lives as long as a descriptor
for it is open; *files* - one copy of an inode in memory, one owner per block,
data read is the data written; *buffers and driver* - a success that is reported
is true, no block lands on another one, every wait ends; *console* - input in
order, no reader asleep over a line.

## Modules

**Proc** models `proc.c`, `spinlock.c` and the process part of `syscall.c` and
`trap.c`. `pc[c]` says which code segment CPU `c` executes next; in the segments
of `scheduler()` it runs on its boot stack, in the others it runs process
`cpuproc[c]`. `ctx[p]` is the saved context: the call of `sched()` that the
process will return from. Nothing but `scheduler()` takes a lock of a process,
so an action is at most one look at one slot or one group of writes: the loops of
`wakeup()`, `proc_wait()`, `proc_kill()`, `proc_exit()` and `allocproc()` go slot
by slot (`lp`), and what such a loop finds (`Found`) and what it then writes are
two actions between which other CPUs may come: a RUNNABLE or an UNUSED may be
written long after the test that called for it. `wk[c]` is the call of
`wakeup()` in `proc_exit()` and `irq` the one in the UART's handler, which may
interrupt the first. Coarser than the machine are: memory is sequentially
consistent, the fields compared in one `if` are read together, and so are the
assignments written that stand next to each other (`chan` and `state` in
`sleep()`, the fields `copyproc()` fills). `allocpid()` reads `nextpid` in one
step and writes it in another, and the build may read it again for the increment
(`ForkAlloc`). `Orphaning` says whether a process may exit before
its children have been collected; `init` and `sh` wait after every fork, and
the properties about pids hold for such programs only. What a call does to
memory, descriptors and files is left to the other modules; what they may do to
the machine - a panic, a sleep in `iget()` for ever, a spin on the lock that
this sleeper holds - is a possible outcome here (`SysIget`, `SysSpin`, "panic").

**Mem** models `kalloc.c` and its clients. An image is the sequence of its
pages in the order in which `proc_pagetable()` and the loops of `copyproc()` and
`kexec()` take them. `kalloc()` does not clear pages, so `stale` and `dirty`
record which pages still hold a root table's entry or other old words. One CPU;
each call is one action. RAM is taken to be zero at boot, as in QEMU.

**Fd** models `fds[]`, the processes' tables, the two ends of each pipe and the
references open files hold on inodes. `proc_exit()`'s loop is one action per
round and starts at any index from 0 to `NOFILE`, since its variable has no
initial value (any larger start closes nothing, like `NOFILE`). A negative start
would take words of `struct proc` before `fds[]` for descriptors; that is left
out.

**Fs** models `fs.c` on a disk made by mkfs. A file is read and written a block
at a time and a block's contents are one value. `addrs` is the copy in memory
and `daddrs` the one on disk; `iupdate()` copies type and size only. `stuck` is
the inode that a process sleeps for in `iget()`, for ever, with
`inode_table_lock` held. `exec()` may be given any file whose first block is a
program, also one that was written. Calls may be made from the first state on,
though on the machine `forkret()` has executed `init` before any of them: that is
the case in which `SysExec` comes first. `opened`, `written` and `execd` record
history for the properties. Because the superblock tells every later call where
things are, the model ends when it has been overwritten. Left out are the
`panic` of `writei()` for a directory and descriptors for `.`.

**Console** models reception in `pl011_uart.c` and `console.c`: the UART's FIFO
and interrupt, the handler character by character, the ring with its two indices
and the copying loop. A character is its number of arrival, so that order and
loss show; `'\0'` is 0, like a byte never written. `console_read()` runs with
interrupts off (the exception masks them and nothing on its way releases a lock;
after a sleep it goes on under the `intr_off()` of `scheduler()`), so the handler
and the loop exclude each other, but the UART receives all the time. Its
interrupt is raised when the first character enters an empty FIFO, as in QEMU.

**Sdhci** models `sdhci.c` together with the controller and the card as the
driver takes them to be (external in the map). `pc` is the driver's place; an
action is one look of a polling loop (`Poll`) or the code from the end of a wait
to the next. `Over`, `Late` and the value of `cnt` reproduce the boundary of the
loops: -1 after a timeout, 0 after a success at the last look, which counts as a
timeout too. Controller and card answer a command, raise an error, make data
ready, finish, or do nothing, in any order with the driver, so that answers come
after the driver has given up. Block contents are values that move in one step.
Because `num` is 1 in every call of `bio.c` the branches for several blocks are
left out.

**Bio** extends Sdhci with `bio.c`: `flags` are the busy buffers, `held` those
the caller will release, `lost` those that `bmap()` has asked for and forgotten.
The caller is fs.c or exec.c reduced to what matters to buffers: it has up to
`HELD` of them at once (three in `kexec()`, fewer elsewhere) and may write the one
it has just released (`ialloc()` without a free inode). Where it writes is
computed again at the time of the write: `writei()` reads at one `bmap()`
(`fs.c:272`) and writes at a second (`fs.c:276`), which reads the indirect block
once more. The two agree when everything that the call has read was read; once a
read of the call has failed, which `bread()` does not tell (`doubt`), the write
may go to any block, also with a buffer that was read well. The superblock is
taken to be mkfs's. Contents are the number of the block they are a version of.

**Rounds** and **Files** are abstract specifications. Rounds says what
`scheduler()` promises on each CPU: all slots in turn, a ready process that runs
nowhere else gets the CPU, and nobody who is found ready is passed over. Which
processes are ready changes at any time and in any way: on several CPUs a late
UNUSED of `proc_wait()` may end a process that a late RUNNABLE of `wakeup()` had
made ready, so that a process stays ready until it is run is no part of Rounds but
the property `ReadyKept`, which holds on one CPU. Proc's instance `R` maps `seen`
to the loop variable and `running` to `cpus[c].proc`, each as it will be once a
test of the state has succeeded, and `ready` to the RUNNABLE slots. Files says what programs may
rely on: a descriptor is at a position of one file, a write changes that position
of that file only and for everybody, a read needs length, and only the last close
of a file that exec() does not keep may lose contents. Fs's instance `F` reads
contents and length through the inode in memory, or through the one on disk when
the file is not open; panics, hangs and the lost superblock are `down`.

**MCProc, MCFd, MCFs, MCConsole, MCSdhci, MCBio** give constants their values; Mem
is checked directly. **ProcProofs, MemProofs, FdProofs, FsProofs, FilesProofs,
ConsoleProofs, SdhciProofs** and **BioProofs** hold the theorems, each about the
module it is named after (FilesProofs: that Fs implements Files), and define the
inductive invariants these need. Definitions marked "Bug:" are mutated forms of the
one that follows; nothing uses them but the mutants of `PROJECT.json`.

Proc is about any set of CPUs. All others assume one CPU:
`boot.S` does not start the others yet, their tables have no lock at all
(`kmem`, `fds[]`) and a call is not preempted, since `kerneltrap()` never yields.

## Runs

| run | instance | shows |
|---|---|---|
| proc_mp | 2 CPUs, 2 slots, pids to 3 | `Exclusive`, `LockDiscipline` under all interleavings; Proc implements Rounds (`RoundRobin`) |
| proc_up | 1 CPU, 3 slots, pids to 4, fair | `PidsUnique`, `NoLostExit`, `ExitNeverReturns`, `ReadyKept`, `RunnableRuns`, `WaitReturns` |
| mem_pages | 3 slots, 30 pages, 2 pipes | `PagesDisjoint` until memory is gone |
| fd_pass | 2 processes, 2 entries each, a file and a pipe | `PipeAlive`, `InodeCounted` |
| fs_pass | 2 inode slots, 4 inodes, 4 blocks, 2 descriptors | `OneSlot`, `HandleKeepsInode`, `BlocksOwned`, `StuckByExec`; Fs implements Files (`FilesKept`) |
| console | ring of 3, FIFO of 2, 4 characters, 2 readers, fair | `InOrder`, `LineReturns`, `InputTaken` |
| sdhci | blocks 1 and 512 (a byte address of the one is a block address of the other), 1 buffer, 2 looks per wait, 2 tries of ACMD41, fair | `ReadTruth`, `WriteStored`, `InitAgrees`, `Returns` |
| bio | the same card, 2 buffers, nesting of 2 | `Uncrossed`, `SpinsByLeak` |
| mem_remap, fd_refs, fs_reopen, fs_super | as above | the code against what its comments, panics and test program say |

Each of the four last runs ends in a counterexample: a fork after a reap panics
on the old root table; the reference count of a descriptor does not keep it open;
a file that is reopened has lost its blocks; the first indirect block overwrites
the superblock.

The passing runs have from ninety thousand to 3.7 million states (fd_pass, proc_mp
and bio are the largest); the longest, proc_up, takes about two and a half minutes.

What the runs show of the hazards. `StuckByExec`: whoever sleeps for ever in
`iget()` sleeps for an inode that `exec()` has looked up and left locked, whatever
the other calls do with their own locking of inodes. Within the first 128 characters, none of
them `'\0'`, readers get the input in order; past them the indices part, which is
why `InOrder` says so. A line can wait in the FIFO only when its last character
came between the handler's last look and its acknowledgement (`raced`). However
late the card's answers come, a read that succeeds has read the block asked for
and a write that succeeds is on the card: the wait for DAT_INHIBIT before a
transfer and the clearing of INTERRUPT before a command are both needed (their
mutants fail). `sd_init()` may fail in many ways, but when it returns SD_OK both
ends agree. The one wait without end is the loop for the SCR. Above the driver the
results are ignored: `Uncrossed` has to except what a system call writes after
one of its own reads has failed; nothing else, no late answer and no reuse of a
buffer, puts a block over another one. `SpinsByLeak`: `getblk()` finds no buffer
only when `bmap()` has lost more of them than the callers can spare, so every other
buffer comes back (the mutant in which `brelse()` leaves B_BUSY set breaks it).

*Bounds.* Two CPUs are enough for a race on a slot, and two slots for a CPU to
be between them and for a late write to meet a parent that collects; two forks at
once for a third slot are left to the proofs. With three slots a parent, two children and a slot reused by a
second fork occur. `MAXPID` bounds the forks: three with three slots, so that
the last one reuses the slot of a collected child. 30 pages hold three images of eight pages with six to spare,
so that fork and exec also run out of memory part of the way. In Fd both tables
fill up, also with descriptors shared by fork, and `MAXREF` lets every entry be
shared. In Fs one file can be created beside the program of mkfs, the next
allocation finds no inode, the third directory entry is the last, an open file
and an executed program fill the inode table, and a file reaches its first
indirect block. Handles and values are symmetric. In Console four characters go
once round a ring of three, and a read may ask for more than is there. In Sdhci a
wait looks twice, so that success at the first look, success at the last one
(cnt = 0) and a timeout all occur, and two tries of ACMD41 have a last one; two
blocks are enough for one to be taken for another. In Bio the second buffer is
needed for nesting and for getblk() to have a choice; a leak and a nested read
exhaust both. Bio stops after the first write of a call one of whose reads has
failed, and
its run does not tell states apart that differ only in the history `acked` (a
VIEW), which no guard and no property of Bio reads. Deadlock is not checked: a
panic really stops the machine.

*Fairness.* A CPU executes its code: weak fairness of the UART's handler, and
strong fairness of scheduler and kernel code, which the handler interrupts again
and again but not for good, since a character takes far longer to arrive than an
instruction. Strong fairness of `Timer`: the tick is periodic, an interrupt that
arrives while it is masked stays pending, and it is taken on the return to user
space. A tick in the windows where the kernel runs with interrupts on is
acknowledged without a yield (`trap.c:75-86`); the assumption is that not all
ticks fall there. Programs need not make calls, and input need not arrive: no
fairness for these. In Console the CPU runs the handler and the copying loop
(weak), takes a pending interrupt (strong: it is masked while the kernel runs) and
resumes a woken reader (strong: that is Proc's `RunnableRuns`). In Sdhci only the
driver is fair: the card may stop answering for good. RunnableRuns and WaitReturns hold up to a stop of the
machine, which the model allows where the code panics or spins.

## Proofs

Every invariant and every action property that a passing run checks is also a
theorem, for all values of the constants, and so are the two refinements. None of
the properties is inductive as it stands; what had to be added says most about why
the code works. The invariants of Fs, Files, Console, Sdhci and Bio were checked
by TLC on the instances above before they were proved.

**ProcProofs**, any number of CPUs: `TypeCorrect`, `LocksDisciplined`,
`MutualExclusion` and `RoundRobinKept`. They hold at the grain of single looks and
writes, late ones included. Nothing in `Exclusive` prevents a second
dispatch of a running process, whose state may well be RUNNABLE. The strengthening
`IInv` adds which lock a CPU holds at each point (`LockDiscipline`), that a CPU has
a process exactly in process code, and that this is the process of the slot its
scheduler stopped at; two CPUs with the same process would then both hold its lock.
`ProcessStep` carries these facts over all steps of process code, none of which
touches locks or the scheduler's variables. `RoundRobinKept` shows that every step
of Proc is a step of Rounds or a stutter under the mapping of `R` (safety; Rounds
states no fairness).

One CPU, the hypothesis `OneCpu` (`CPU = {CPU0}`, what `boot.S` starts):
`ExitIsFinal` and `ReadyIsKept`, and for programs that collect their children
(`~Orphaning`, as `init` and `sh` do) `PidsAreUnique` and `NoExitLost`. `LifeInv`
says where a process is in its life (`StageInv`) and that what a loop has found in a
slot is still so when it writes there (`FoundInv`, and `FrameInv` for the two
calls of `wakeup()`, which look for different channels). `PidInv` says which pids
have been given out. `WaitInv` says how far a loop is: a zombie child is still ahead
of the scan of `proc_wait()`, and a parent that sleeps is still ahead of the exiting
child's loop or of the `wakeup()` it is in. Without the hypotheses these are
false: two CPUs may fork into the same slot, a late write may make an exited
process RUNNABLE, and the children of an orphaning process get pid 1. The hypotheses are conditions of the theorems and not
assumptions of the module, so that `proc_mp` still covers the other cases.

**MemProofs**: `MemTypeCorrect`, `PagesHaveOneUser`. Added: the length of an image
in each state of its life (`Shape`), because `exec` cuts a list at fixed places.
The lemmas about lists say that a part of a list without repetitions and the
concatenation of two disjoint ones have none.

**FdProofs**: `FdTypeCorrect`, `PipesAlive`, `InodesCounted`, from their conjunction and that an open file's object is an inode. Counting needs
the theorems on finite sets: closing an entry takes one from the set and one from
the count.

**FsProofs**: `FsTypeCorrect`, `InodesHaveOneSlot`, `DescriptorsKeepInodes`,
`BlocksHaveOneFile`, `OnlyExecHangs`. The heart is `RefInv`: a slot's count covers
the descriptors on it, with one to spare for each inode that exec() has looked up
and not given back. `OnlyExecHangs` rests on `BusyInv`: between two calls no inode in
use is locked but those that exec() has looked up. **FilesProofs**: `FilesImplemented`, the refinement. It needs
more (`FilesInv`): the size in memory is the one on disk, an inode on disk that is
free is empty, block numbers in memory extend those on disk, no block is in two
places of one file, and no indirect block number has reached the disk. Each call is
shown to be the step of Files that its mapping names; the delicate ones are the
last `close()`, which forgets the blocks that only memory knew, and `write()`,
which may allocate a block that a forgotten file had.

**ConsoleProofs**: `ConsoleTypeCorrect`, `InputInOrder`. As long as the premise of
`InOrder` holds the ring has not wrapped: it holds the characters 1 to w and then
zeroes, and the readers have had 1 to r (`RingInv`).

**SdhciProofs**: `SdTypeCorrect`, `CardAgrees`, `WritesAreStored`, `ReadsAreTrue`
(an action property), for every card and every timing. `SdInv` consists of
`CtlInv` (who has called `sd_cmd()` for what), `CmdInv` (CMD_DONE is about the
command the driver waits for, since INTERRUPT is cleared and CMD_INHIBIT waited for
before it is sent), `InitInv` (what the stages of `sd_init()` have established),
`XferInv` (a transfer to the card that is still going on, whether waited for or
given up, is to no block with an acknowledged write) and `CurInv` (while the driver
waits for its block and no error is reported, the controller's transfer is that
block's: DAT_INHIBIT was waited for, so no other one was under way). When
`sd_init()` has failed, whose result nobody looks at, the driver may take a high
capacity card for another one and address block 512 when asked for block 1:
`Addr` and `Card` tell apart what the two mean by a number, and `CurInv` says what
is read at the address, whichever block is there.

**BioProofs**: `BioTypeCorrect`, `BlocksUncrossed`, `OnlyLeaksSpin`. Every step is a
step of Sdhci (`BioIsSd`), so `SdInv` is inherited. `SectorInv` ties a call to the
block its buffer was asked for, `CopyInv` says of every copy of a block - on the
card, in a buffer, in a buffer being written, in the controller - that it is a
version of the block at the address it will be written to: a driver that is wrong
about the numbering is wrong in the same way when it writes back. `FillInv` is what makes a write of a
call without failed reads safe: every buffer the caller may write has been filled,
but for the one being read. `OnlyLeaksSpin` counts: the busy buffers are exactly those
held and those lost, and getblk() fails only when all are busy, since a set of numbers
that is not empty has a least one.

*Assumptions.* Those of the modules, which TLC evaluates on each instance: the
constants' types; `NULL` and the channels differ from the values they are used
beside; `Handle` and `Buf` are finite; block numbers are not 0 and below 2^23, so that a
byte address fits the 32 bits of the code (the image of mkfs has 2048
blocks); `Buf` are numbers (indices of the array).

*Only model-checked.* The liveness properties `RunnableRuns`, `WaitReturns`,
`LineReturns`, `InputTaken` and `Returns`: fairness is beyond the prover. The four
counterexamples need no proof.

## Plan

Done: all modules above with their proofs, and the abstract specifications Rounds
and Files. Left, in order of importance:

1. The layout arithmetic of mkfs and `fs.h` (inode blocks, bitmap and data do not
   overlap) as lemmas.
2. What the one-CPU properties of Proc need on several CPUs: which lock would have
   to be held where, as a variant whose theorems drop `OneCpu`.
3. Several CPUs for `kalloc`, `fds[]`, `balloc` and the SD driver, once `boot.S`
   starts them: today these parts have no lock at all and would simply fail.

## Not modelled

Register setup in boot, `gicv2.c` and `timer.c`, the vectors and the trampoline in
assembly, formatting, ELF fields, the user library: straight-line code without
state of its own. `mini_uart.c`, `bfree`, `ifree`, `ilock` and `iincref` have no
caller. Fetching of system-call arguments is data that no property needs. The
contents of pipes are not modelled: `pipe_write()` copies the bytes of its
parameter `addr` and not what it points to (`pipe.c:40`), the indices are neither
initialised nor bounded, and neither end waits, so there is no behaviour to
promise. Bytes within a block are not modelled: `readi()` advances its
destination twice per block (`fs.c:218-221`), which shows only in reads across a
block. Known behaviour of processes without a property: a `wait()` without
children never returns, since `havekids` is set by every slot (`proc.c:235`), and
the children of an exiting process get pid 1 and keep their parent's number
(`proc.c:268`); proc_mp covers both as behaviour, proc_up restricts itself to
programs that collect their children.
