-------------------------------- MODULE Proc --------------------------------
(***************************************************************************)
(* Processes and their scheduling: kernel/proc.c, kernel/spinlock.c, the   *)
(* process system calls of kernel/syscall.c and the timer path of          *)
(* kernel/trap.c.                                                          *)
(*                                                                         *)
(* Every CPU runs scheduler() on its boot stack.  It takes proc[i].lock,   *)
(* switches to process i with the lock HELD, and releases the lock only    *)
(* after the process has switched back; nothing else ever takes a p->lock. *)
(* pc[c] is what CPU c is executing (its registers), ctx[p] is the saved   *)
(* struct context of process p: which call of sched() it will return from. *)
(*                                                                         *)
(* No other access to the table has a lock.  An action is at most one look *)
(* at one slot or one group of writes: what a loop finds in a slot and     *)
(* what it then writes there are two actions, and another CPU may come in  *)
(* between.  Memory is sequentially consistent, and the fields that one if *)
(* compares (state and chan, state and ppid) are read together.  With one  *)
(* CPU kernel code is only ever interrupted by consoleintr(): kerneltrap() *)
(* never yields.                                                           *)
(*                                                                         *)
(* Left out: p->killed (written by proc_kill, read by nobody), the wfi of  *)
(* an idle scheduler (it ends at the next interrupt; the timer always      *)
(* comes), and memory, descriptors and files: modules Mem, Fd and Fs.      *)
(* From Fs comes one fact: exec() leaves the inode of a program locked, so *)
(* a later call may sleep in iget(), for ever and holding                  *)
(* inode_table_lock; who then needs that lock spins.  "panic" is a CPU     *)
(* that executes no further step, in panic() or in such a spin.            *)
(***************************************************************************)
EXTENDS Naturals

CONSTANTS CPU,       \* the CPUs that run scheduler()
          CPU0,      \* the CPU that GICD_ITARGETSR routes the UART interrupt to
          NPROC,     \* length of proc[]
          MAXPID,    \* bound: no fork() once nextpid has passed it
          Orphaning, \* may a process that has children call exit()?
          CONS,      \* the sleep channel &cons.r
          INODE,     \* the sleep channel of iget()
          NULL

ASSUME CpuAssumption   == CPU0 \in CPU /\ NULL \notin CPU
ASSUME NprocAssumption == NPROC \in Nat \ {0} /\ NULL \notin 0 .. NPROC
ASSUME PidAssumption   == MAXPID \in Nat \ {0} /\ Orphaning \in BOOLEAN
ASSUME ChanAssumption  == /\ CONS \notin 0 .. NPROC /\ CONS # NULL
                          /\ INODE \notin 0 .. NPROC \cup {CONS, NULL}

Slot == 0 .. NPROC - 1

\* A call of wakeup(ch) in progress: the slot i it is at, and whether it has
\* found somebody asleep on ch there, whom it will make RUNNABLE next.
Frames == [ch : Slot \cup {CONS}, i : Slot, hit : BOOLEAN]

ASSUME FrameAssumption == NULL \notin Frames

VARIABLES state, pid, ppid, chan, \* the fields of struct proc
          ctx,                    \* p->ctx: the sched() call it returns from
          lock,                   \* p->lock: the CPU that holds it
          nextpid,
          first,                  \* the static variable of forkret()
          cpuproc,                \* cpus[c].proc
          pc,                     \* the code segment CPU c executes next
          scan,                   \* scheduler()'s loop variable p
          lp,                     \* the local p of the loops of a system call,
                                  \* and of sys_fork() after allocproc()
          lpid,                   \* the local pid of allocpid() and proc_kill()
          wk,                     \* the call of wakeup() in proc_exit() on CPU c
          irq                     \* the call of wakeup() in consoleintr() on CPU0

procVars == <<state, pid, ppid, chan, ctx, nextpid>>
cpuVars  == <<lock, first, cpuproc, scan>>
loopVars == <<lp, lpid>>
wakeVars == <<wk, irq>>
vars     == <<procVars, cpuVars, loopVars, wakeVars, pc>>

\* enum of include/proc.h
States == {"UNUSED", "RUNNABLE", "SLEEPING", "ZOMBIE", "RUNNING"}

\* The callers of sched(), and forkret, where a new process starts.
Calls == {"yield", "exit", "wait", "read", "iget"}
Saved == Calls \cup {"forkret"}

\* Where a process goes on when swtch() restores its context.  proc_exit()
\* expects never to come back; its caller would return to user space.
Return(k) == CASE k = "forkret" -> "forkret"
               [] k = "wait"    -> "wait_woken"
               [] k = "read"    -> "read_woken"
               [] k = "iget"    -> "iget_woken"
               [] OTHER         -> "user"

\* Where consoleintr() can interrupt: in user space, between two locks in
\* scheduler(), and in proc_exit() after the release() in iput().
IrqPc == {"user", "top", "acquire", "exit_wake", "exit_kids", "exit_orphan", "exit"}

SchedulerPc == {"top", "acquire", "test", "run", "release"}
ForkPc      == {"fork_pid", "fork_alloc", "fork_copy", "fork_run"}
FoundPc     == ForkPc \cup {"wait_free", "exit_orphan", "kill_test", "kill_write"}
ProcessPc   == Calls \cup FoundPc \cup
                 {"forkret", "user", "panic", "fork_scan", "exit_wake", "exit_kids",
                  "wait_scan", "wait_sleep", "wait_woken", "kill_scan",
                  "read_scan", "read_sleep", "read_woken", "iget_woken"}

Goto(c, l) == pc' = [pc EXCEPT ![c] = l]

\* A loop over the table in a system call starts at slot 0 or has been left (p,
\* which nobody reads again, is then 0 too); goes on to the next slot; has
\* found the slot it looks for.
Loop(c, l)  == Goto(c, l) /\ lp' = [lp EXCEPT ![c] = 0]
NextSlot(c) == lp' = [lp EXCEPT ![c] = @ + 1] /\ UNCHANGED pc
Found(c, l) == Goto(c, l) /\ UNCHANGED lp

\* myproc()
Cur(c) == cpuproc[c]

\* CPU c executes the handler of the UART's interrupt and nothing else.
Interrupted(c) == c = CPU0 /\ irq # NULL

\* CPU c is neither there nor in a call of wakeup(), and executes l next.
At(c, l) == pc[c] = l /\ wk[c] = NULL /\ ~Interrupted(c)
-----------------------------------------------------------------------------
(* procinit(), then userinit() on CPU0, then scheduler() on every CPU.      *)
Init ==
  /\ state   = [p \in Slot |-> IF p = 0 THEN "RUNNABLE" ELSE "UNUSED"]
  /\ pid     = [p \in Slot |-> IF p = 0 THEN 1 ELSE 0]
  /\ ppid    = [p \in Slot |-> 0]
  /\ chan    = [p \in Slot |-> NULL]
  /\ ctx     = [p \in Slot |-> "forkret"]
  /\ lock    = [p \in Slot |-> NULL]
  /\ nextpid = 2
  /\ first   = TRUE
  /\ cpuproc = [c \in CPU |-> NULL]
  /\ pc      = [c \in CPU |-> "top"]
  /\ scan    = [c \in CPU |-> 0]
  /\ lp      = [c \in CPU |-> 0]
  /\ lpid    = [c \in CPU |-> 0]
  /\ wk      = [c \in CPU |-> NULL]
  /\ irq     = NULL
-----------------------------------------------------------------------------
(* scheduler()                                                              *)

\* Bug: the loop variable is not reset.
TopNoReset(c) ==
  /\ At(c, "top")
  /\ Goto(c, "acquire")
  /\ UNCHANGED <<procVars, cpuVars, loopVars, wakeVars>>

\* while (1) { intr_on(); intr_off(); for (p = proc; ...
Top(c) ==
  /\ At(c, "top")
  /\ scan' = [scan EXCEPT ![c] = 0]
  /\ Goto(c, "acquire")
  /\ UNCHANGED <<procVars, lock, first, cpuproc, loopVars, wakeVars>>

\* The end of the table: start over (after a wfi if nothing ran).
ScanEnd(c) ==
  /\ At(c, "acquire") /\ scan[c] = NPROC
  /\ Goto(c, "top")
  /\ UNCHANGED <<procVars, cpuVars, loopVars, wakeVars>>

\* Bug: acquire() does not look at the old value of the lock.
AcquireNoTest(c) ==
  /\ At(c, "acquire") /\ scan[c] < NPROC
  /\ lock' = [lock EXCEPT ![scan[c]] = c]
  /\ Goto(c, "test")
  /\ UNCHANGED <<procVars, first, cpuproc, scan, loopVars, wakeVars>>

\* acquire(&p->lock): the test-and-set that finds the lock free.
Acquire(c) ==
  /\ At(c, "acquire") /\ scan[c] < NPROC
  /\ lock[scan[c]] = NULL
  /\ lock' = [lock EXCEPT ![scan[c]] = c]
  /\ Goto(c, "test")
  /\ UNCHANGED <<procVars, first, cpuproc, scan, loopVars, wakeVars>>

\* if (p->state == RUNNABLE)
Test(c) ==
  /\ At(c, "test")
  /\ Goto(c, IF state[scan[c]] = "RUNNABLE" THEN "run" ELSE "release")
  /\ UNCHANGED <<procVars, cpuVars, loopVars, wakeVars>>

\* p->state = RUNNING; c->proc = p; swtch(&c->contex, &p->ctx);
Dispatch(c) ==
  /\ At(c, "run")
  /\ state' = [state EXCEPT ![scan[c]] = "RUNNING"]
  /\ cpuproc' = [cpuproc EXCEPT ![c] = scan[c]]
  /\ Goto(c, Return(ctx[scan[c]]))
  /\ UNCHANGED <<pid, ppid, chan, ctx, nextpid, lock, first, scan, loopVars, wakeVars>>

\* Bug: the lock is still held when the loop goes on to the next slot.
ReleaseNothing(c) ==
  /\ At(c, "release")
  /\ scan' = [scan EXCEPT ![c] = @ + 1]
  /\ Goto(c, "acquire")
  /\ UNCHANGED <<procVars, lock, first, cpuproc, loopVars, wakeVars>>

\* Bug: the loop over the table begins again after every process that has run.
ReleaseRestart(c) ==
  /\ At(c, "release")
  /\ lock' = [lock EXCEPT ![scan[c]] = NULL]
  /\ Goto(c, "top")
  /\ UNCHANGED <<procVars, first, cpuproc, scan, loopVars, wakeVars>>

\* release(&p->lock) and p++
Release(c) ==
  /\ At(c, "release")
  /\ lock' = [lock EXCEPT ![scan[c]] = NULL]
  /\ scan' = [scan EXCEPT ![c] = @ + 1]
  /\ Goto(c, "acquire")
  /\ UNCHANGED <<procVars, first, cpuproc, loopVars, wakeVars>>

\* sched(): swtch(&p->ctx, &mycpu()->contex), then c->proc = 0.
Sched(c) ==
  /\ \E l \in Calls : At(c, l)
  /\ ctx' = [ctx EXCEPT ![Cur(c)] = pc[c]]
  /\ cpuproc' = [cpuproc EXCEPT ![c] = NULL]
  /\ Goto(c, "release")
  /\ UNCHANGED <<state, pid, ppid, chan, nextpid, lock, first, scan, loopVars, wakeVars>>
-----------------------------------------------------------------------------
(* sleep() and wakeup()                                                     *)

\* p->chan = chan; p->state = SLEEPING; sched();
Sleep(c, ch, call) ==
  /\ chan'  = [chan EXCEPT ![Cur(c)] = ch]
  /\ state' = [state EXCEPT ![Cur(c)] = "SLEEPING"]
  /\ Goto(c, call)
  /\ UNCHANGED <<pid, ppid, ctx, nextpid, cpuVars, loopVars, wakeVars>>

\* The rest of sleep() once sched() has returned: p->chan = 0, and the caller's
\* loop starts over.
Woken(c, next) ==
  /\ chan' = [chan EXCEPT ![Cur(c)] = NULL]
  /\ Loop(c, next)
  /\ UNCHANGED <<state, pid, ppid, ctx, nextpid, cpuVars, lpid, wakeVars>>

\* wakeup(ch) is called.
Frame(ch) == [ch |-> ch, i |-> 0, hit |-> FALSE]

\* if (p->state == SLEEPING && p->chan == chan)
Finds(f) == ~f.hit /\ state[f.i] = "SLEEPING" /\ chan[f.i] = f.ch

\* The call after its next look or its next write; NULL when it is over.
After(f) == IF Finds(f) THEN [f EXCEPT !.hit = TRUE]
            ELSE IF f.i + 1 = NPROC THEN NULL
            ELSE [f EXCEPT !.i = @ + 1, !.hit = FALSE]

\* p->state = RUNNABLE, if the look before has found somebody.
Written(f) == IF f.hit THEN [state EXCEPT ![f.i] = "RUNNABLE"] ELSE state

\* A step of wakeup() in proc_exit(), and one of wakeup() in consoleintr().
Wakeup(c) ==
  /\ wk[c] # NULL /\ ~Interrupted(c)
  /\ wk' = [wk EXCEPT ![c] = After(wk[c])]
  /\ state' = Written(wk[c])
  /\ UNCHANGED <<pid, ppid, chan, ctx, nextpid, cpuVars, pc, loopVars, irq>>

Consoleintr ==
  /\ irq # NULL
  /\ irq' = After(irq)
  /\ state' = Written(irq)
  /\ UNCHANGED <<pid, ppid, chan, ctx, nextpid, cpuVars, pc, loopVars, wk>>
-----------------------------------------------------------------------------
(* Starting, running and preempting a process                               *)

\* forkret(); its first caller loads init, and kexec() sets p->state.
Forkret(c) ==
  /\ At(c, "forkret")
  /\ first' = FALSE
  /\ state' = IF first THEN [state EXCEPT ![Cur(c)] = "RUNNABLE"] ELSE state
  /\ Goto(c, "user")
  /\ UNCHANGED <<pid, ppid, chan, ctx, nextpid, lock, cpuproc, scan, loopVars, wakeVars>>

\* usertrap() on a timer interrupt: yield().
Timer(c) ==
  /\ At(c, "user")
  /\ state' = [state EXCEPT ![Cur(c)] = "RUNNABLE"]
  /\ Goto(c, "yield")
  /\ UNCHANGED <<pid, ppid, chan, ctx, nextpid, cpuVars, loopVars, wakeVars>>

\* inode_table_lock is held by a process that sleeps in iget().
TableStuck == \E p \in Slot : chan[p] = INODE

\* iget() of a locked inode, in open, exec or unlink.  Only kill() ends the
\* sleep, and then the loop finds the inode locked again.
SysIget(c) == At(c, "user") /\ ~TableStuck /\ Sleep(c, INODE, "iget")
IgetWoken(c) == At(c, "iget_woken") /\ Sleep(c, INODE, "iget")

\* acquire(&inode_table_lock) in open, exec, unlink, mknod or close.
SysSpin(c) ==
  /\ At(c, "user") /\ TableStuck
  /\ Goto(c, "panic")
  /\ UNCHANGED <<procVars, cpuVars, loopVars, wakeVars>>

\* sys_exec(): kexec() marks the running process RUNNABLE, or panics.
SysExec(c) ==
  /\ At(c, "user") /\ ~TableStuck
  /\ \/ /\ state' = [state EXCEPT ![Cur(c)] = "RUNNABLE"]
        /\ UNCHANGED pc
     \/ /\ Goto(c, "panic")
        /\ UNCHANGED state
  /\ UNCHANGED <<pid, ppid, chan, ctx, nextpid, cpuVars, loopVars, wakeVars>>
-----------------------------------------------------------------------------
(* sys_fork(): allocproc() leaves the new slot UNUSED until the last line.  *)

SysFork(c) ==
  /\ At(c, "user") /\ nextpid <= MAXPID
  /\ Loop(c, "fork_scan")
  /\ UNCHANGED <<procVars, cpuVars, lpid, wakeVars>>

\* allocproc(): if (p->state == UNUSED); with no slot copyproc() writes
\* through a null pointer.
ForkScan(c) ==
  /\ At(c, "fork_scan")
  /\ \/ lp[c] = NPROC /\ Loop(c, "panic")
     \/ lp[c] < NPROC /\ state[lp[c]] = "UNUSED" /\ Found(c, "fork_pid")
     \/ lp[c] < NPROC /\ state[lp[c]] # "UNUSED" /\ NextSlot(c)
  /\ UNCHANGED <<procVars, cpuVars, lpid, wakeVars>>

\* allocpid(): pid = nextpid;
ForkPid(c) ==
  /\ At(c, "fork_pid")
  /\ lpid' = [lpid EXCEPT ![c] = nextpid]
  /\ Goto(c, "fork_alloc")
  /\ UNCHANGED <<procVars, cpuVars, lp, wakeVars>>

\* Bug: nextpid is not incremented.
ForkAllocSamePid(c) ==
  /\ At(c, "fork_alloc")
  /\ pid'  = [pid EXCEPT ![lp[c]] = lpid[c]]
  /\ lpid' = [lpid EXCEPT ![c] = 0]
  /\ Goto(c, "fork_copy")
  /\ UNCHANGED <<state, ppid, chan, ctx, nextpid, cpuVars, lp, wakeVars>>

\* nextpid = nextpid + 1, where the build may read nextpid again or not, and
\* p->pid = allocpid().
ForkAlloc(c) ==
  /\ At(c, "fork_alloc")
  /\ nextpid' \in {nextpid + 1, lpid[c] + 1}
  /\ pid'  = [pid EXCEPT ![lp[c]] = lpid[c]]
  /\ lpid' = [lpid EXCEPT ![c] = 0]
  /\ Goto(c, "fork_copy")
  /\ UNCHANGED <<state, ppid, chan, ctx, cpuVars, lp, wakeVars>>

\* copyproc() fills the new process; without a page for it, or with a stale
\* page table (module Mem), the kernel panics instead.
ForkCopy(c) ==
  /\ At(c, "fork_copy")
  /\ \/ /\ ppid' = [ppid EXCEPT ![lp[c]] = pid[Cur(c)]]
        /\ ctx'  = [ctx EXCEPT ![lp[c]] = "forkret"]
        /\ Found(c, "fork_run")
     \/ Loop(c, "panic") /\ UNCHANGED <<ppid, ctx>>
  /\ UNCHANGED <<state, pid, chan, nextpid, cpuVars, lpid, wakeVars>>

\* np->state = RUNNABLE; return np->pid.
ForkRun(c) ==
  /\ At(c, "fork_run")
  /\ state' = [state EXCEPT ![lp[c]] = "RUNNABLE"]
  /\ Loop(c, "user")
  /\ UNCHANGED <<pid, ppid, chan, ctx, nextpid, cpuVars, lpid, wakeVars>>
-----------------------------------------------------------------------------
(* sys_exit(), sys_wait(), sys_kill()                                       *)

HasKids(p)    == \E q \in Slot : state[q] # "UNUSED" /\ ppid[q] = pid[p]
ZombieKids(p) == {q \in Slot : state[q] = "ZOMBIE" /\ ppid[q] = pid[p]}

\* proc_exit(): cp->state = ZOMBIE and the closing of its descriptors, where
\* iput() of an open file needs inode_table_lock.
SysExit(c) ==
  /\ At(c, "user")
  /\ Orphaning \/ ~HasKids(Cur(c))
  /\ state' = [state EXCEPT ![Cur(c)] = "ZOMBIE"]
  /\ \/ Loop(c, "exit_wake")
     \/ TableStuck /\ Loop(c, "panic")
  /\ UNCHANGED <<pid, ppid, chan, ctx, nextpid, cpuVars, lpid, wakeVars>>

\* Bug: the children are woken up in place of the parent.
ExitWakeKids(c) ==
  /\ At(c, "exit_wake")
  /\ \/ lp[c] = NPROC /\ Loop(c, "exit_kids") /\ UNCHANGED wk
     \/ /\ lp[c] < NPROC
        /\ wk' = [wk EXCEPT ![c] = IF ppid[lp[c]] = pid[Cur(c)] THEN Frame(lp[c]) ELSE NULL]
        /\ NextSlot(c)
  /\ UNCHANGED <<procVars, cpuVars, lpid, irq>>

\* if (p->pid == cp->ppid) wakeup(p);
ExitWake(c) ==
  /\ At(c, "exit_wake")
  /\ \/ lp[c] = NPROC /\ Loop(c, "exit_kids") /\ UNCHANGED wk
     \/ /\ lp[c] < NPROC
        /\ wk' = [wk EXCEPT ![c] = IF pid[lp[c]] = ppid[Cur(c)] THEN Frame(lp[c]) ELSE NULL]
        /\ NextSlot(c)
  /\ UNCHANGED <<procVars, cpuVars, lpid, irq>>

\* "abandon children": if (p->ppid == cp->pid) ...; then sched().
ExitKids(c) ==
  /\ At(c, "exit_kids")
  /\ \/ lp[c] = NPROC /\ Loop(c, "exit")
     \/ lp[c] < NPROC /\ ppid[lp[c]] = pid[Cur(c)] /\ Found(c, "exit_orphan")
     \/ lp[c] < NPROC /\ ppid[lp[c]] # pid[Cur(c)] /\ NextSlot(c)
  /\ UNCHANGED <<procVars, cpuVars, lpid, wakeVars>>

\* p->pid = 1;
ExitOrphan(c) ==
  /\ At(c, "exit_orphan")
  /\ pid' = [pid EXCEPT ![lp[c]] = 1]
  /\ lp'  = [lp EXCEPT ![c] = @ + 1]
  /\ Goto(c, "exit_kids")
  /\ UNCHANGED <<state, ppid, chan, ctx, nextpid, cpuVars, lpid, wakeVars>>

SysWait(c) ==
  /\ At(c, "user")
  /\ Loop(c, "wait_scan")
  /\ UNCHANGED <<procVars, cpuVars, lpid, wakeVars>>

\* Bug: a child is collected whatever its state.
WaitScanAny(c) ==
  /\ At(c, "wait_scan")
  /\ \/ lp[c] = NPROC /\ Loop(c, "wait_sleep")
     \/ lp[c] < NPROC /\ ppid[lp[c]] = pid[Cur(c)] /\ Found(c, "wait_free")
     \/ lp[c] < NPROC /\ ppid[lp[c]] # pid[Cur(c)] /\ NextSlot(c)
  /\ UNCHANGED <<procVars, cpuVars, lpid, wakeVars>>

\* if (p->state == ZOMBIE && p->ppid == cp->pid).  havekids is set by every
\* slot, so proc_wait() sleeps at the end of the table and never returns -1.
WaitScan(c) ==
  /\ At(c, "wait_scan")
  /\ \/ lp[c] = NPROC /\ Loop(c, "wait_sleep")
     \/ lp[c] < NPROC /\ lp[c] \in ZombieKids(Cur(c)) /\ Found(c, "wait_free")
     \/ lp[c] < NPROC /\ lp[c] \notin ZombieKids(Cur(c)) /\ NextSlot(c)
  /\ UNCHANGED <<procVars, cpuVars, lpid, wakeVars>>

\* kfree(p->tf); kfree(p->pagetable); p->state = UNUSED; return pid;
WaitFree(c) ==
  /\ At(c, "wait_free")
  /\ state' = [state EXCEPT ![lp[c]] = "UNUSED"]
  /\ Loop(c, "user")
  /\ UNCHANGED <<pid, ppid, chan, ctx, nextpid, cpuVars, lpid, wakeVars>>

\* Bug: proc_wait() sleeps on the pid, not on the struct proc.
WaitSleepPid(c) == At(c, "wait_sleep") /\ Sleep(c, pid[Cur(c)], "wait")

WaitSleep(c) == At(c, "wait_sleep") /\ Sleep(c, Cur(c), "wait")
WaitWoken(c) == At(c, "wait_woken") /\ Woken(c, "wait_scan")

\* proc_kill(k)
SysKill(c, k) ==
  /\ At(c, "user")
  /\ Loop(c, "kill_scan")
  /\ lpid' = [lpid EXCEPT ![c] = k]
  /\ UNCHANGED <<procVars, cpuVars, wakeVars>>

\* if (p->pid == pid && p->state != UNUSED)
KillScan(c) ==
  /\ At(c, "kill_scan")
  /\ LET hit == pid[lp[c]] = lpid[c] /\ state[lp[c]] # "UNUSED"
     IN  \/ lp[c] = NPROC /\ Loop(c, "user")  /\ lpid' = [lpid EXCEPT ![c] = 0]
         \/ lp[c] < NPROC /\ hit /\ Found(c, "kill_test") /\ lpid' = [lpid EXCEPT ![c] = 0]
         \/ lp[c] < NPROC /\ ~hit /\ NextSlot(c) /\ UNCHANGED lpid
  /\ UNCHANGED <<procVars, cpuVars, wakeVars>>

\* Bug: a process is made RUNNABLE whatever its state.
KillTestAny(c) ==
  /\ At(c, "kill_test")
  /\ Found(c, "kill_write")
  /\ UNCHANGED <<procVars, cpuVars, lpid, wakeVars>>

\* p->killed = 1; if (p->state == SLEEPING)
KillTest(c) ==
  /\ At(c, "kill_test")
  /\ IF state[lp[c]] = "SLEEPING" THEN Found(c, "kill_write") ELSE Loop(c, "user")
  /\ UNCHANGED <<procVars, cpuVars, lpid, wakeVars>>

\* p->state = RUNNABLE; return 0;
KillWrite(c) ==
  /\ At(c, "kill_write")
  /\ state' = [state EXCEPT ![lp[c]] = "RUNNABLE"]
  /\ Loop(c, "user")
  /\ UNCHANGED <<pid, ppid, chan, ctx, nextpid, cpuVars, lpid, wakeVars>>
-----------------------------------------------------------------------------
(* Console input: console_read() and the UART interrupt                     *)

SysRead(c) ==
  /\ At(c, "user")
  /\ Goto(c, "read_scan")
  /\ UNCHANGED <<procVars, cpuVars, loopVars, wakeVars>>

\* while (cons.r == cons.w) sleep(&cons.r); the two indices, which overrun
\* each other, are left out: either branch may be taken.
ReadScan(c) ==
  /\ At(c, "read_scan")
  /\ \/ Goto(c, "user")
     \/ Goto(c, "read_sleep")
  /\ UNCHANGED <<procVars, cpuVars, loopVars, wakeVars>>

ReadSleep(c) == At(c, "read_sleep") /\ Sleep(c, CONS, "read")
ReadWoken(c) == At(c, "read_woken") /\ Woken(c, "read_scan")

\* usertrap() or kerneltrap() on an interrupt of the UART: consoleintr() has
\* got the last character of a line and calls wakeup(&cons.r).
UartIntr ==
  /\ pc[CPU0] \in IrqPc /\ irq = NULL
  /\ irq' = Frame(CONS)
  /\ UNCHANGED <<procVars, cpuVars, pc, loopVars, wk>>
-----------------------------------------------------------------------------
Scheduler(c) == Top(c) \/ ScanEnd(c) \/ Acquire(c) \/ Test(c) \/ Dispatch(c)
                  \/ Release(c) \/ Sched(c)

\* Kernel code of a process: once entered it runs on by itself.
Kernel(c) == \/ Forkret(c)
             \/ ForkScan(c) \/ ForkPid(c) \/ ForkAlloc(c) \/ ForkCopy(c) \/ ForkRun(c)
             \/ ExitWake(c) \/ ExitKids(c) \/ ExitOrphan(c)
             \/ WaitScan(c) \/ WaitFree(c) \/ WaitSleep(c) \/ WaitWoken(c)
             \/ KillScan(c) \/ KillTest(c) \/ KillWrite(c)
             \/ ReadScan(c) \/ ReadSleep(c) \/ ReadWoken(c) \/ IgetWoken(c)

\* The system calls a user program may or may not make.
Syscall(c) == SysExec(c) \/ SysFork(c) \/ SysExit(c) \/ SysWait(c) \/ SysRead(c)
                \/ SysIget(c) \/ SysSpin(c)
                \/ \E k \in 1 .. MAXPID : SysKill(c, k)

\* What CPU c does by itself, without a decision of a user program.
Execute(c) == Wakeup(c) \/ Scheduler(c) \/ Kernel(c)

Next == UartIntr \/ Consoleintr \/ \E c \in CPU : Execute(c) \/ Timer(c) \/ Syscall(c)

Spec == Init /\ [][Next]_vars

\* A CPU executes its code, also when interrupted over and over: a character
\* takes far longer to arrive than an instruction.  A timer interrupt that
\* comes while a system call masks interrupts stays pending and is taken on
\* the return to EL0.
Fairness == /\ WF_vars(Consoleintr)
            /\ \A c \in CPU : SF_vars(Execute(c)) /\ SF_vars(Timer(c))

FairSpec == Spec /\ Fairness
-----------------------------------------------------------------------------
(* Properties                                                               *)

\* The values every variable may take; chan is NULL, a slot (proc_wait sleeps
\* on its own struct proc), the console's channel or an inode.
TypeOK ==
  /\ state \in [Slot -> States]
  /\ pid   \in [Slot -> Nat] /\ ppid \in [Slot -> Nat] /\ nextpid \in Nat
  /\ chan  \in [Slot -> Slot \cup {CONS, INODE, NULL}]
  /\ ctx   \in [Slot -> Saved]
  /\ lock  \in [Slot -> CPU \cup {NULL}]
  /\ first \in BOOLEAN
  /\ cpuproc \in [CPU -> Slot \cup {NULL}]
  /\ pc    \in [CPU -> SchedulerPc \cup ProcessPc]
  /\ scan  \in [CPU -> 0 .. NPROC]
  /\ lp    \in [CPU -> 0 .. NPROC] /\ lpid \in [CPU -> Nat]
  /\ wk    \in [CPU -> Frames \cup {NULL}] /\ irq \in Frames \cup {NULL}
  /\ irq # NULL => pc[CPU0] \in IrqPc
  /\ \A c \in CPU : /\ pc[c] \in FoundPc => lp[c] \in Slot
                    /\ wk[c] # NULL => pc[c] = "exit_wake"

\* A process never executes on two CPUs at once: one kernel stack, one trap
\* frame.  p->state does not ensure this - kexec() and yield() write RUNNABLE
\* into a process that is still running, and so does a wakeup() between
\* sleep()'s assignment and its swtch() - only the lock held across swtch().
Exclusive ==
  \A c, d \in CPU : c # d /\ Cur(c) # NULL => Cur(c) # Cur(d)

\* A CPU holds the lock of the slot its scheduler loop is at and no other;
\* while it spins in acquire() it holds none, so the schedulers of several
\* CPUs cannot wait for each other in a circle.
LockDiscipline ==
  \A p \in Slot, c \in CPU :
    lock[p] = c <=> scan[c] = p /\ pc[c] \notin {"top", "acquire"}

\* The promise of scheduler(), and how its variables show it: the slot at which
\* the loop is has been looked at, and the CPU been given to the process there,
\* once p->state has been tested.
R == INSTANCE Rounds WITH
       seen    <- [c \in CPU |-> IF pc[c] \in {"top", "acquire", "test"}
                                  THEN scan[c] ELSE scan[c] + 1],
       running <- [c \in CPU |-> IF pc[c] = "run" THEN scan[c] ELSE cpuproc[c]],
       ready   <- {p \in Slot : state[p] = "RUNNABLE"}

\* scheduler() on every CPU visits all slots in turn, passes over nobody it
\* finds RUNNABLE and never takes a process that another CPU has, although all
\* CPUs share the table and write its states without a lock, at any time.
RoundRobin == R!Spec

OnCpu(p) == \E c \in CPU : Cur(c) = p
Panicked == \E c \in CPU : pc[c] = "panic"

\* allocpid() gives every live process a pid of its own (one CPU, and no
\* process exits before it has collected its children).
PidsUnique ==
  \A p, q \in Slot :
    p # q /\ state[p] # "UNUSED" /\ state[q] # "UNUSED" => pid[p] # pid[q]

\* No exit is lost: when a child has left the CPU for good its parent is not
\* asleep in proc_wait(), though sleep() and wakeup() take no lock (one CPU).
NoLostExit ==
  \A p \in Slot : state[p] = "SLEEPING" /\ chan[p] = p
                    => \A q \in ZombieKids(p) : OnCpu(q)

\* proc_exit() never returns from sched(): nobody makes an exited process
\* RUNNABLE again, and a new process in its slot starts in forkret().
ExitNeverReturns ==
  \A p \in Slot : state[p] = "RUNNABLE" /\ ~OnCpu(p) => ctx[p] # "exit"

\* A process that could run stays so until the scheduler takes it: no parent
\* collects it, nobody puts it to sleep (one CPU; on several, the UNUSED that
\* proc_wait() writes may come after a late RUNNABLE of wakeup()).
ReadyKept ==
  [][\A p \in Slot : state[p] = "RUNNABLE" /\ ~OnCpu(p)
                        => state'[p] = "RUNNABLE" \/ OnCpu(p)']_vars

\* scheduler() starves nobody: a RUNNABLE process gets a CPU, or the machine
\* has stopped: in panic(), or spinning on inode_table_lock.
RunnableRuns == \A p \in Slot : state[p] = "RUNNABLE" ~> OnCpu(p) \/ Panicked

InWait(p) == \/ \E c \in CPU : /\ Cur(c) = p
                               /\ pc[c] \in {"wait_scan", "wait_free", "wait_sleep",
                                             "wait", "wait_woken"}
             \/ /\ ~OnCpu(p) /\ ctx[p] = "wait"
                /\ state[p] \in {"SLEEPING", "RUNNABLE"}

\* A parent in wait() that has a zombie child returns from wait().
WaitReturns ==
  \A p \in Slot : InWait(p) /\ ZombieKids(p) # {} ~> ~InWait(p) \/ Panicked
=============================================================================
