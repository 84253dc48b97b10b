----------------------------- MODULE ProcProofs -----------------------------
(***************************************************************************)
(* Proofs about Proc for every set of CPUs and every table size.           *)
(*                                                                         *)
(* Exclusive is not inductive: that no two CPUs dispatch the same slot     *)
(* rests on the lock of the slot, so LockInv states which CPU holds which  *)
(* lock at every point of scheduler() and of a running process.            *)
(***************************************************************************)
EXTENDS Proc, TLAPS

\* The two halves of TypeOK: what the table and the CPUs hold, and where the
\* CPUs, their loops and their calls of wakeup() are.
DataOK ==
  /\ state \in [Slot -> States]
  /\ pid   \in [Slot -> Nat] /\ ppid \in [Slot -> Nat] /\ nextpid \in Nat
  /\ chan  \in [Slot -> Slot \cup {CONS, INODE, NULL}]
  /\ ctx   \in [Slot -> Saved]
  /\ lock  \in [Slot -> CPU \cup {NULL}]
  /\ first \in BOOLEAN
  /\ cpuproc \in [CPU -> Slot \cup {NULL}]
  /\ scan  \in [CPU -> 0 .. NPROC]
  /\ lpid \in [CPU -> Nat]

PlaceOK ==
  /\ pc  \in [CPU -> SchedulerPc \cup ProcessPc]
  /\ lp  \in [CPU -> 0 .. NPROC]
  /\ wk  \in [CPU -> Frames \cup {NULL}] /\ irq \in Frames \cup {NULL}
  /\ irq # NULL => pc[CPU0] \in IrqPc
  /\ \A c \in CPU : /\ pc[c] \in FoundPc => lp[c] \in Slot
                    /\ wk[c] # NULL => pc[c] = "exit_wake"

\* Where CPU c is in scheduler()'s loop, which lock it holds there, and which
\* process it runs.
LockInv ==
  /\ LockDiscipline
  /\ \A c \in CPU :
       /\ pc[c] \notin {"top", "acquire"} => scan[c] \in Slot
       /\ pc[c] \in ProcessPc <=> Cur(c) # NULL
       /\ Cur(c) # NULL => Cur(c) = scan[c]
       /\ pc[c] = "top" => scan[c] \in {0, NPROC}

IInv == DataOK /\ PlaceOK /\ LockInv

USE CpuAssumption, NprocAssumption, PidAssumption, ChanAssumption

\* DataOK and PlaceOK make up the type invariant.
LEMMA TypeParts == TypeOK <=> DataOK /\ PlaceOK
BY Zenon DEF TypeOK, DataOK, PlaceOK

\* Slots are numbers and NULL is none of them.
LEMMA SlotFacts == /\ Slot \subseteq Nat /\ NULL \notin Slot /\ 0 \in Slot
                   /\ \A i \in 0 .. NPROC : i # NPROC => i \in Slot /\ i < NPROC
                   /\ \A i \in 0 .. NPROC : i < NPROC => i \in Slot
                   /\ \A i \in Slot : i \in 0 .. NPROC /\ i + 1 \in 0 .. NPROC
BY DEF Slot

\* A context restored by swtch() continues at one of five places.
LEMMA ReturnPlace ==
  \A k \in Saved : Return(k) \in {"forkret", "wait_woken", "read_woken", "iget_woken", "user"}
BY DEF Saved, Calls, Return

\* The code of a process and of the scheduler have no place in common, and a
\* process is not in the middle of a loop when swtch() resumes it.
LEMMA PcFacts ==
  /\ SchedulerPc \cap ProcessPc = {} /\ FoundPc \subseteq ProcessPc
  /\ Calls \subseteq ProcessPc /\ Calls \cap FoundPc = {} /\ "panic" \in ProcessPc
  /\ {"forkret", "wait_woken", "read_woken", "iget_woken", "user"} \subseteq ProcessPc \ FoundPc
BY DEF SchedulerPc, ProcessPc, FoundPc, ForkPc, Calls

\* A call of wakeup() stays one until it is over, and writes only states.
LEMMA FrameType ==
  ASSUME DataOK, NEW f \in Frames
  PROVE  After(f) \in Frames \cup {NULL} /\ Written(f) \in [Slot -> States]
BY SlotFacts DEF DataOK, Frames, After, Finds, Written, States

\* The state that kernel_main() leaves behind satisfies the invariant.
LEMMA InitInv == Init => IInv
<1> SUFFICES ASSUME Init PROVE IInv OBVIOUS
<1>1. DataOK
  BY SlotFacts DEF Init, DataOK, States, Saved, Calls
<1>2. PlaceOK
  BY SlotFacts DEF Init, PlaceOK, SchedulerPc, FoundPc, ForkPc, Frames
<1>3. LockInv
  BY SlotFacts DEF Init, LockInv, LockDiscipline, Cur, ProcessPc, FoundPc, ForkPc, Calls
<1> QED BY <1>1, <1>2, <1>3 DEF IInv

\* CPU c, which is free to execute, goes from one place to another, and its
\* loop from one slot to another.
LEMMA PlaceStep ==
  ASSUME PlaceOK, NEW c \in CPU, NEW l, At(c, l),
         NEW m \in SchedulerPc \cup ProcessPc, pc' = [pc EXCEPT ![c] = m],
         NEW n \in 0 .. NPROC, lp' = [lp EXCEPT ![c] = n], m \in FoundPc => n \in Slot,
         NEW w \in Frames \cup {NULL}, wk' = [wk EXCEPT ![c] = w],
         w # NULL => m = "exit_wake", irq' = irq
  PROVE  PlaceOK'
BY DEF PlaceOK, At, Interrupted

\* A step of process code: CPU c stays in process code and leaves the locks
\* and the scheduler's variables alone.
Moves(c) ==
  \E l, m \in ProcessPc, n \in 0 .. NPROC, w \in Frames \cup {NULL} :
    /\ At(c, l) /\ pc' = [pc EXCEPT ![c] = m]
    /\ lp' = [lp EXCEPT ![c] = n] /\ (m \in FoundPc => n \in Slot)
    /\ wk' = [wk EXCEPT ![c] = w] /\ (w # NULL => m = "exit_wake")
    /\ UNCHANGED <<lock, cpuproc, scan, irq>>

\* Such a step keeps PlaceOK and LockInv.
LEMMA MovesKeep ==
  ASSUME PlaceOK, LockInv, NEW c \in CPU, Moves(c)
  PROVE  PlaceOK' /\ LockInv'
<1> PICK l \in ProcessPc, m \in ProcessPc, n \in 0 .. NPROC, w \in Frames \cup {NULL} :
      /\ At(c, l) /\ pc' = [pc EXCEPT ![c] = m]
      /\ lp' = [lp EXCEPT ![c] = n] /\ (m \in FoundPc => n \in Slot)
      /\ wk' = [wk EXCEPT ![c] = w] /\ (w # NULL => m = "exit_wake")
      /\ UNCHANGED <<lock, cpuproc, scan, irq>>
  BY Zenon DEF Moves
<1>1. PlaceOK'
  BY PlaceStep
<1>2. {"top", "acquire"} \cap ProcessPc = {}
  BY PcFacts DEF SchedulerPc
<1>3. LockInv'
  BY <1>2 DEF LockInv, LockDiscipline, PlaceOK, Cur, At
<1> QED BY <1>1, <1>3

\* What makes a step a step of process code when it calls no wakeup().
LEMMA MovesBy ==
  ASSUME PlaceOK, NEW c \in CPU, NEW l \in ProcessPc, At(c, l),
         UNCHANGED <<lock, cpuproc, scan, wk, irq>>,
         \/ \E m \in ProcessPc \ FoundPc : Goto(c, m) /\ lp' = lp
         \/ \E m \in ProcessPc \ FoundPc : Loop(c, m)
         \/ lp[c] \in Slot /\ \E m \in ProcessPc : Found(c, m)
         \/ lp[c] \in Slot /\ l \notin FoundPc /\ NextSlot(c)
         \/ lp[c] \in Slot /\ lp' = [lp EXCEPT ![c] = @ + 1]
              /\ \E m \in ProcessPc \ FoundPc : Goto(c, m)
  PROVE  Moves(c)
<1> USE SlotFacts
<1>1. pc[c] = l /\ wk[c] = NULL
  BY DEF At
<1>2. wk' = [wk EXCEPT ![c] = NULL] /\ pc = [pc EXCEPT ![c] = l] /\ lp = [lp EXCEPT ![c] = lp[c]]
  BY <1>1 DEF PlaceOK
<1>3. lp[c] \in 0 .. NPROC
  BY DEF PlaceOK
<1>4. ASSUME NEW m \in ProcessPc \ FoundPc, Goto(c, m), lp' = lp PROVE Moves(c)
  BY <1>2, <1>3, <1>4 DEF Moves, Goto
<1>5. ASSUME NEW m \in ProcessPc \ FoundPc, Loop(c, m) PROVE Moves(c)
  <2>1. 0 \in 0 .. NPROC OBVIOUS
  <2> QED BY <1>2, <1>5, <2>1 DEF Moves, Loop, Goto
<1>6. ASSUME NEW m \in ProcessPc, lp[c] \in Slot, Found(c, m) PROVE Moves(c)
  BY <1>2, <1>3, <1>6 DEF Moves, Found, Goto
<1>7. ASSUME lp[c] \in Slot, l \notin FoundPc, NextSlot(c) PROVE Moves(c)
  BY <1>2, <1>7 DEF Moves, NextSlot
<1>8. ASSUME NEW m \in ProcessPc \ FoundPc, lp[c] \in Slot,
             lp' = [lp EXCEPT ![c] = @ + 1], Goto(c, m) PROVE Moves(c)
  <2>1. lp' = [lp EXCEPT ![c] = lp[c] + 1] /\ lp[c] + 1 \in 0 .. NPROC
    BY <1>8
  <2> QED BY <1>2, <1>8, <2>1 DEF Moves, Goto
<1> QED BY <1>4, <1>5, <1>6, <1>7, <1>8

\* CPU c, in scheduler(), goes on to another place.
LEMMA SchedulerPlace ==
  ASSUME PlaceOK, NEW c \in CPU, NEW l, At(c, l), NEW m \in SchedulerPc \cup ProcessPc,
         m \notin FoundPc, Goto(c, m), UNCHANGED <<loopVars, wakeVars>>
  PROVE  PlaceOK'
<1>1. lp' = [lp EXCEPT ![c] = lp[c]] /\ wk' = [wk EXCEPT ![c] = NULL] /\ irq' = irq
  BY DEF PlaceOK, At, loopVars, wakeVars
<1>2. lp[c] \in 0 .. NPROC
  BY DEF PlaceOK
<1> QED BY <1>1, <1>2, PlaceStep DEF Goto

\* Each step of scheduler() and of sched() keeps the invariant.
LEMMA SchedulerInv ==
  ASSUME IInv, NEW c \in CPU, Scheduler(c) PROVE IInv'
<1> USE SlotFacts DEF IInv
<1>0. {"top", "acquire", "test", "run", "release"} \cap FoundPc = {}
  BY DEF FoundPc, ForkPc
<1>1. CASE Top(c)
  <2>1. DataOK'
    BY <1>1 DEF Top, procVars, loopVars, DataOK
  <2>2. PlaceOK'
    BY <1>0, <1>1, SchedulerPlace DEF Top, SchedulerPc
  <2>3. LockInv'
    BY <1>1, PcFacts DEF Top, At, Goto, Cur, PlaceOK, DataOK, LockInv, LockDiscipline, SchedulerPc
  <2> QED BY <2>1, <2>2, <2>3
<1>2. CASE ScanEnd(c)
  <2>1. DataOK'
    BY <1>2 DEF ScanEnd, procVars, cpuVars, loopVars, DataOK
  <2>2. PlaceOK'
    BY <1>0, <1>2, SchedulerPlace DEF ScanEnd, SchedulerPc
  <2>3. LockInv'
    BY <1>2, PcFacts DEF ScanEnd, At, Goto, Cur, cpuVars, PlaceOK, DataOK, LockInv,
       LockDiscipline, SchedulerPc
  <2> QED BY <2>1, <2>2, <2>3
<1>3. CASE Acquire(c)
  <2>1. DataOK'
    BY <1>3 DEF Acquire, procVars, loopVars, DataOK
  <2>2. PlaceOK'
    BY <1>0, <1>3, SchedulerPlace DEF Acquire, SchedulerPc
  <2>3. LockInv'
    BY <1>3, PcFacts DEF Acquire, At, Goto, Cur, PlaceOK, DataOK, LockInv, LockDiscipline,
       SchedulerPc
  <2> QED BY <2>1, <2>2, <2>3
<1>4. CASE Test(c)
  <2>1. DataOK'
    BY <1>4 DEF Test, procVars, cpuVars, loopVars, DataOK
  <2>2. PICK m \in {"run", "release"} : Goto(c, m)
    BY <1>4 DEF Test
  <2>3. PlaceOK'
    BY <1>0, <1>4, <2>2, SchedulerPlace DEF Test, SchedulerPc
  <2>4. LockInv'
    BY <1>4, <2>2, PcFacts DEF Test, At, Goto, Cur, cpuVars, PlaceOK, DataOK, LockInv,
       LockDiscipline, SchedulerPc
  <2> QED BY <2>1, <2>3, <2>4
<1>5. CASE Dispatch(c)
  <2>1. pc[c] = "run" /\ scan[c] \in Slot
    BY <1>5 DEF Dispatch, At, LockInv
  <2>2. Return(ctx[scan[c]]) \in ProcessPc \ FoundPc
    BY <2>1, ReturnPlace, PcFacts DEF DataOK
  <2>3. DataOK'
    BY <1>5, <2>1 DEF Dispatch, loopVars, DataOK, States
  <2>4. PlaceOK'
    BY <1>5, <2>2, SchedulerPlace DEF Dispatch
  <2>5. LockInv'
    <3>1. Return(ctx[scan[c]]) \notin {"top", "acquire"}
      BY <2>2, PcFacts DEF SchedulerPc
    <3>2. /\ pc' = [pc EXCEPT ![c] = Return(ctx[scan[c]])] /\ UNCHANGED <<lock, scan>>
          /\ cpuproc' = [cpuproc EXCEPT ![c] = scan[c]]
      BY <1>5 DEF Dispatch, Goto
    <3>3. LockDiscipline'
      BY <2>1, <3>1, <3>2 DEF PlaceOK, LockInv, LockDiscipline
    <3> QED BY <2>1, <2>2, <3>1, <3>2, <3>3 DEF Cur, PlaceOK, DataOK, LockInv
  <2> QED BY <2>3, <2>4, <2>5
<1>6. CASE Release(c)
  <2>1. DataOK'
    BY <1>6 DEF Release, At, procVars, loopVars, DataOK, LockInv
  <2>2. PlaceOK'
    BY <1>0, <1>6, SchedulerPlace DEF Release, SchedulerPc
  <2>3. LockInv'
    BY <1>6, PcFacts DEF Release, At, Goto, Cur, PlaceOK, DataOK, LockInv, LockDiscipline,
       SchedulerPc
  <2> QED BY <2>1, <2>2, <2>3
<1>7. CASE Sched(c)
  <2>1. PICK l \in Calls : At(c, l)
    BY <1>7 DEF Sched
  <2>2. pc[c] = l /\ l \in ProcessPc /\ l \notin {"top", "acquire"}
    BY <2>1, PcFacts DEF At, SchedulerPc
  <2>3. DataOK'
    BY <1>7, <2>2 DEF Sched, Cur, loopVars, DataOK, LockInv, Saved
  <2>4. PlaceOK'
    BY <1>0, <1>7, <2>1, SchedulerPlace DEF Sched, SchedulerPc
  <2>5. LockInv'
    <3>1. "release" \notin ProcessPc
      BY PcFacts DEF SchedulerPc
    <3>2. /\ pc' = [pc EXCEPT ![c] = "release"] /\ UNCHANGED <<lock, scan>>
          /\ cpuproc' = [cpuproc EXCEPT ![c] = NULL]
      BY <1>7 DEF Sched, Goto
    <3>3. LockDiscipline'
      BY <2>2, <3>2 DEF PlaceOK, LockInv, LockDiscipline
    <3> QED BY <2>2, <3>1, <3>2, <3>3 DEF Cur, PlaceOK, DataOK, LockInv
  <2> QED BY <2>3, <2>4, <2>5
<1> QED BY <1>1, <1>2, <1>3, <1>4, <1>5, <1>6, <1>7 DEF Scheduler

\* Each step of a running process leaves the locks and the scheduler alone.
LEMMA ProcessMoves ==
  ASSUME IInv, NEW c \in CPU, Kernel(c) \/ Timer(c) \/ Syscall(c) PROVE Moves(c)
<1> USE SlotFacts DEF IInv, cpuVars, wakeVars, loopVars
<1>0. lp[c] \in 0 .. NPROC /\ (pc[c] \in FoundPc => lp[c] \in Slot)
  BY DEF PlaceOK
<1>1. CASE Forkret(c)
  BY <1>0, <1>1, MovesBy DEF Forkret, At, Found, NextSlot, ProcessPc, FoundPc, ForkPc, Calls
<1>2. CASE Timer(c)
  BY <1>0, <1>2, MovesBy DEF Timer, At, Found, NextSlot, ProcessPc, FoundPc, ForkPc, Calls
<1>3. CASE SysSpin(c)
  BY <1>0, <1>3, MovesBy DEF SysSpin, At, Found, NextSlot, ProcessPc, FoundPc, ForkPc, Calls
<1>4. CASE SysExec(c)
  <2>1. Goto(c, "user") \/ Goto(c, "panic")
    BY <1>4 DEF SysExec, At, Goto, PlaceOK
  <2>2. "user" \in ProcessPc \ FoundPc /\ "panic" \in ProcessPc \ FoundPc
    BY DEF ProcessPc, FoundPc, ForkPc, Calls
  <2> QED BY <1>4, <2>1, <2>2, MovesBy DEF SysExec
<1>5. CASE SysFork(c)
  BY <1>0, <1>5, MovesBy DEF SysFork, At, Found, NextSlot, ProcessPc, FoundPc, ForkPc, Calls
<1>6. CASE ForkScan(c)
  BY <1>0, <1>6, MovesBy DEF ForkScan, At, Found, NextSlot, ProcessPc, FoundPc, ForkPc, Calls
<1>7. CASE ForkPid(c)
  BY <1>0, <1>7, MovesBy DEF ForkPid, At, Found, NextSlot, ProcessPc, FoundPc, ForkPc, Calls
<1>8. CASE ForkAlloc(c)
  BY <1>0, <1>8, MovesBy DEF ForkAlloc, At, Found, NextSlot, ProcessPc, FoundPc, ForkPc, Calls
<1>9. CASE ForkCopy(c)
  BY <1>0, <1>9, MovesBy DEF ForkCopy, At, Found, NextSlot, ProcessPc, FoundPc, ForkPc, Calls
<1>10. CASE ForkRun(c)
  BY <1>0, <1>10, MovesBy DEF ForkRun, At, Found, NextSlot, ProcessPc, FoundPc, ForkPc, Calls
<1>11. CASE SysExit(c)
  BY <1>0, <1>11, MovesBy DEF SysExit, At, Found, NextSlot, ProcessPc, FoundPc, ForkPc, Calls
<1>12. CASE ExitKids(c)
  BY <1>0, <1>12, MovesBy DEF ExitKids, At, Found, NextSlot, ProcessPc, FoundPc, ForkPc, Calls
<1>13. CASE ExitOrphan(c)
  BY <1>0, <1>13, MovesBy DEF ExitOrphan, At, Found, NextSlot, ProcessPc, FoundPc, ForkPc, Calls
<1>14. CASE SysWait(c)
  BY <1>0, <1>14, MovesBy DEF SysWait, At, Found, NextSlot, ProcessPc, FoundPc, ForkPc, Calls
<1>15. CASE WaitScan(c)
  BY <1>0, <1>15, MovesBy DEF WaitScan, At, Found, NextSlot, ProcessPc, FoundPc, ForkPc, Calls
<1>16. CASE WaitFree(c)
  BY <1>0, <1>16, MovesBy DEF WaitFree, At, Found, NextSlot, ProcessPc, FoundPc, ForkPc, Calls
<1>17. CASE WaitSleep(c)
  BY <1>0, <1>17, MovesBy DEF WaitSleep, Sleep, At, Found, NextSlot, ProcessPc, FoundPc, ForkPc, Calls
<1>18. CASE WaitWoken(c)
  BY <1>0, <1>18, MovesBy DEF WaitWoken, Woken, At, Found, NextSlot, ProcessPc, FoundPc, ForkPc, Calls
<1>19. CASE \E k \in 1 .. MAXPID : SysKill(c, k)
  BY <1>0, <1>19, MovesBy DEF SysKill, At, Found, NextSlot, ProcessPc, FoundPc, ForkPc, Calls
<1>20. CASE KillScan(c)
  BY <1>0, <1>20, MovesBy DEF KillScan, At, Found, NextSlot, ProcessPc, FoundPc, ForkPc, Calls
<1>21. CASE KillTest(c)
  BY <1>0, <1>21, MovesBy DEF KillTest, At, Found, NextSlot, ProcessPc, FoundPc, ForkPc, Calls
<1>22. CASE KillWrite(c)
  BY <1>0, <1>22, MovesBy DEF KillWrite, At, Found, NextSlot, ProcessPc, FoundPc, ForkPc, Calls
<1>23. CASE SysRead(c)
  BY <1>0, <1>23, MovesBy DEF SysRead, At, Found, NextSlot, ProcessPc, FoundPc, ForkPc, Calls
<1>24. CASE ReadScan(c)
  BY <1>0, <1>24, MovesBy DEF ReadScan, At, Found, NextSlot, ProcessPc, FoundPc, ForkPc, Calls
<1>25. CASE ReadSleep(c)
  BY <1>0, <1>25, MovesBy DEF ReadSleep, Sleep, At, Found, NextSlot, ProcessPc, FoundPc, ForkPc, Calls
<1>26. CASE ReadWoken(c)
  BY <1>0, <1>26, MovesBy DEF ReadWoken, Woken, At, Found, NextSlot, ProcessPc, FoundPc, ForkPc, Calls
<1>27. CASE SysIget(c)
  BY <1>0, <1>27, MovesBy DEF SysIget, Sleep, At, Found, NextSlot, ProcessPc, FoundPc, ForkPc, Calls
<1>28. CASE IgetWoken(c)
  BY <1>0, <1>28, MovesBy DEF IgetWoken, Sleep, At, Found, NextSlot, ProcessPc, FoundPc, ForkPc, Calls
<1>29. CASE ExitWake(c)
  <2>1. At(c, "exit_wake") /\ pc[c] = "exit_wake" /\ wk[c] = NULL
    BY <1>29 DEF ExitWake, At
  <2>2. "exit_wake" \in ProcessPc \ FoundPc /\ "exit_kids" \in ProcessPc \ FoundPc
    BY DEF ProcessPc, FoundPc, ForkPc, Calls
  <2>3. CASE lp[c] = NPROC
    BY <1>29, <2>1, <2>2, <2>3, MovesBy DEF ExitWake
  <2>4. CASE lp[c] < NPROC
    <3>1. PICK w \in Frames \cup {NULL} : wk' = [wk EXCEPT ![c] = w]
      <4>1. Frame(lp[c]) \in Frames
        BY <1>0, <2>4 DEF Frame, Frames
      <4> QED BY <1>29, <2>4, <4>1 DEF ExitWake
    <3>2. /\ lp' = [lp EXCEPT ![c] = lp[c] + 1] /\ lp[c] + 1 \in 0 .. NPROC
          /\ pc' = [pc EXCEPT ![c] = "exit_wake"] /\ UNCHANGED <<lock, cpuproc, scan, irq>>
      BY <1>0, <1>29, <2>1, <2>4 DEF ExitWake, NextSlot, PlaceOK
    <3> QED BY <2>1, <2>2, <3>1, <3>2 DEF Moves
  <2> QED BY <1>0, <2>3, <2>4
<1> QED BY <1>1, <1>2, <1>3, <1>4, <1>5, <1>6, <1>7, <1>8, <1>9, <1>10, <1>11, <1>12, <1>13,
     <1>14, <1>15, <1>16, <1>17, <1>18, <1>19, <1>20, <1>21, <1>22, <1>23, <1>24, <1>25, <1>26,
     <1>27, <1>28, <1>29 DEF Kernel, Syscall

\* Each step of a running process keeps the invariant.
LEMMA ProcessInv ==
  ASSUME IInv, NEW c \in CPU, Kernel(c) \/ Timer(c) \/ Syscall(c) PROVE IInv'
<1> USE SlotFacts DEF IInv, DataOK, procVars, cpuVars
<1>0. Moves(c)
  BY ProcessMoves
<1>a. pc[c] \in ProcessPc /\ lp[c] \in 0 .. NPROC /\ (pc[c] \in FoundPc => lp[c] \in Slot)
  BY <1>0 DEF Moves, At, PlaceOK
<1>b. Cur(c) \in Slot /\ pid[Cur(c)] \in Nat
  BY <1>a DEF LockInv, Cur
<1>c. DataOK'
  <2>1. CASE Forkret(c)
    BY <1>a, <1>b, <2>1 DEF Forkret, loopVars, At, States, Saved, FoundPc, ForkPc
  <2>2. CASE Timer(c)
    BY <1>a, <1>b, <2>2 DEF Timer, loopVars, At, States, Saved, FoundPc, ForkPc
  <2>3. CASE SysSpin(c)
    BY <1>a, <1>b, <2>3 DEF SysSpin, loopVars, At, States, Saved, FoundPc, ForkPc
  <2>4. CASE SysExec(c)
    BY <1>a, <1>b, <2>4 DEF SysExec, loopVars, At, States, Saved, FoundPc, ForkPc
  <2>5. CASE SysFork(c)
    BY <1>a, <1>b, <2>5 DEF SysFork, loopVars, At, States, Saved, FoundPc, ForkPc
  <2>6. CASE ForkScan(c)
    BY <1>a, <1>b, <2>6 DEF ForkScan, loopVars, At, States, Saved, FoundPc, ForkPc
  <2>7. CASE ForkPid(c)
    BY <1>a, <1>b, <2>7 DEF ForkPid, loopVars, At, States, Saved, FoundPc, ForkPc
  <2>8. CASE ForkAlloc(c)
    BY <1>a, <1>b, <2>8 DEF ForkAlloc, loopVars, At, States, Saved, FoundPc, ForkPc
  <2>9. CASE ForkCopy(c)
    BY <1>a, <1>b, <2>9 DEF ForkCopy, loopVars, At, States, Saved, FoundPc, ForkPc
  <2>10. CASE ForkRun(c)
    BY <1>a, <1>b, <2>10 DEF ForkRun, loopVars, At, States, Saved, FoundPc, ForkPc
  <2>11. CASE SysExit(c)
    BY <1>a, <1>b, <2>11 DEF SysExit, loopVars, At, States, Saved, FoundPc, ForkPc
  <2>12. CASE ExitKids(c)
    BY <1>a, <1>b, <2>12 DEF ExitKids, loopVars, At, States, Saved, FoundPc, ForkPc
  <2>13. CASE ExitOrphan(c)
    BY <1>a, <1>b, <2>13 DEF ExitOrphan, loopVars, At, States, Saved, FoundPc, ForkPc
  <2>14. CASE SysWait(c)
    BY <1>a, <1>b, <2>14 DEF SysWait, loopVars, At, States, Saved, FoundPc, ForkPc
  <2>15. CASE WaitScan(c)
    BY <1>a, <1>b, <2>15 DEF WaitScan, loopVars, At, States, Saved, FoundPc, ForkPc
  <2>16. CASE WaitFree(c)
    BY <1>a, <1>b, <2>16 DEF WaitFree, loopVars, At, States, Saved, FoundPc, ForkPc
  <2>17. CASE WaitSleep(c)
    BY <1>a, <1>b, <2>17 DEF WaitSleep, Sleep, loopVars, At, States, Saved, FoundPc, ForkPc
  <2>18. CASE WaitWoken(c)
    BY <1>a, <1>b, <2>18 DEF WaitWoken, Woken, loopVars, At, States, Saved, FoundPc, ForkPc
  <2>19. CASE \E k \in 1 .. MAXPID : SysKill(c, k)
    BY <1>a, <1>b, <2>19 DEF SysKill, loopVars, At, States, Saved, FoundPc, ForkPc
  <2>20. CASE KillScan(c)
    BY <1>a, <1>b, <2>20 DEF KillScan, loopVars, At, States, Saved, FoundPc, ForkPc
  <2>21. CASE KillTest(c)
    BY <1>a, <1>b, <2>21 DEF KillTest, loopVars, At, States, Saved, FoundPc, ForkPc
  <2>22. CASE KillWrite(c)
    BY <1>a, <1>b, <2>22 DEF KillWrite, loopVars, At, States, Saved, FoundPc, ForkPc
  <2>23. CASE SysRead(c)
    BY <1>a, <1>b, <2>23 DEF SysRead, loopVars, At, States, Saved, FoundPc, ForkPc
  <2>24. CASE ReadScan(c)
    BY <1>a, <1>b, <2>24 DEF ReadScan, loopVars, At, States, Saved, FoundPc, ForkPc
  <2>25. CASE ReadSleep(c)
    BY <1>a, <1>b, <2>25 DEF ReadSleep, Sleep, loopVars, At, States, Saved, FoundPc, ForkPc
  <2>26. CASE ReadWoken(c)
    BY <1>a, <1>b, <2>26 DEF ReadWoken, Woken, loopVars, At, States, Saved, FoundPc, ForkPc
  <2>27. CASE SysIget(c)
    BY <1>a, <1>b, <2>27 DEF SysIget, Sleep, loopVars, At, States, Saved, FoundPc, ForkPc
  <2>28. CASE IgetWoken(c)
    BY <1>a, <1>b, <2>28 DEF IgetWoken, Sleep, loopVars, At, States, Saved, FoundPc, ForkPc
  <2>29. CASE ExitWake(c)
    BY <2>29 DEF ExitWake
  <2> QED BY <2>1, <2>2, <2>3, <2>4, <2>5, <2>6, <2>7, <2>8, <2>9, <2>10, <2>11, <2>12, <2>13,
       <2>14, <2>15, <2>16, <2>17, <2>18, <2>19, <2>20, <2>21, <2>22, <2>23, <2>24, <2>25,
       <2>26, <2>27, <2>28, <2>29 DEF Kernel, Syscall
<1> QED BY <1>0, <1>c, MovesKeep


\* A step of wakeup(), called by proc_exit() or by consoleintr(), and the
\* interrupt itself keep the invariant and what Rounds sees but the states.
LEMMA WakeupInv ==
  ASSUME IInv, UartIntr \/ Consoleintr \/ \E c \in CPU : Wakeup(c)
  PROVE  IInv' /\ UNCHANGED <<pc, scan, cpuproc>>
<1> USE DEF IInv
<1>1. UNCHANGED <<pc, scan, cpuproc, lock>>
  BY DEF UartIntr, Consoleintr, Wakeup, cpuVars
<1>2. LockInv'
  BY <1>1 DEF LockInv, LockDiscipline, Cur
<1>3. CASE UartIntr
  <2>1. DataOK'
    BY <1>3 DEF UartIntr, procVars, cpuVars, loopVars, DataOK
  <2>2. Frame(CONS) \in Frames
    BY SlotFacts DEF Frame, Frames
  <2>3. PlaceOK'
    BY <1>3, <2>2 DEF UartIntr, loopVars, PlaceOK
  <2> QED BY <1>1, <1>2, <2>1, <2>3
<1>4. CASE Consoleintr
  <2>1. irq \in Frames
    BY <1>4 DEF Consoleintr, PlaceOK
  <2>2. After(irq) \in Frames \cup {NULL} /\ Written(irq) \in [Slot -> States]
    BY <2>1, FrameType
  <2>3. DataOK'
    BY <1>4, <2>2 DEF Consoleintr, cpuVars, loopVars, DataOK
  <2>4. PlaceOK'
    BY <1>4, <2>2 DEF Consoleintr, loopVars, PlaceOK
  <2> QED BY <1>1, <1>2, <2>3, <2>4
<1>5. ASSUME NEW c \in CPU, Wakeup(c) PROVE IInv'
  <2>1. wk[c] \in Frames /\ wk[c] # NULL
    BY <1>5 DEF Wakeup, PlaceOK
  <2>2. After(wk[c]) \in Frames \cup {NULL} /\ Written(wk[c]) \in [Slot -> States]
    BY <2>1, FrameType
  <2>3. DataOK'
    BY <1>5, <2>2 DEF Wakeup, cpuVars, loopVars, DataOK
  <2>4. PlaceOK'
    BY <1>5, <2>1, <2>2 DEF Wakeup, loopVars, PlaceOK
  <2> QED BY <1>2, <2>3, <2>4
<1> QED BY <1>1, <1>3, <1>4, <1>5

\* IInv is inductive.
LEMMA NextInv == IInv /\ [Next]_vars => IInv'
<1> SUFFICES ASSUME IInv, [Next]_vars PROVE IInv' OBVIOUS
<1>1. CASE Next
  BY <1>1, SchedulerInv, ProcessInv, WakeupInv DEF Next, Execute
<1>2. CASE UNCHANGED vars
  BY <1>2 DEF vars, procVars, cpuVars, loopVars, wakeVars, IInv, DataOK, PlaceOK, LockInv,
     LockDiscipline, Cur
<1> QED BY <1>1, <1>2

\* The inductive invariant holds in every reachable state.
THEOREM SpecInv == Spec => []IInv
BY InitInv, NextInv, PTL DEF Spec

\* Every variable keeps its type, for any number of CPUs and slots.
THEOREM TypeCorrect == Spec => []TypeOK
<1>1. IInv => TypeOK BY TypeParts DEF IInv
<1> QED BY <1>1, SpecInv, PTL

\* The locks are held as scheduler() means them to be, for any number of CPUs.
THEOREM LocksDisciplined == Spec => []LockDiscipline
<1>1. IInv => LockDiscipline BY DEF IInv, LockInv
<1> QED BY <1>1, SpecInv, PTL

\* No process ever runs on two CPUs: p->lock, held across swtch(), ensures it
\* whatever the unlocked writers of p->state do.
THEOREM MutualExclusion == Spec => []Exclusive
<1>1. IInv => Exclusive
  <2> SUFFICES ASSUME IInv, NEW c \in CPU, NEW d \in CPU, c # d, Cur(c) # NULL,
                      Cur(c) = Cur(d)
               PROVE  FALSE
    BY DEF Exclusive
  <2>1. pc[c] \notin {"top", "acquire"} /\ pc[d] \notin {"top", "acquire"}
    BY PcFacts DEF IInv, LockInv, SchedulerPc
  <2> QED BY <2>1 DEF IInv, LockInv, LockDiscipline, DataOK, Cur
<1> QED BY <1>1, SpecInv, PTL
-----------------------------------------------------------------------------
(* Proc implements Rounds                                                   *)

\* A process that CPU c is about to look at runs nowhere, and no other CPU is
\* about to run it.
LEMMA NotRunning ==
  ASSUME IInv, NEW c \in CPU, pc[c] = "test"
  PROVE  /\ scan[c] \in Slot /\ cpuproc[c] = NULL
         /\ \A d \in CPU : cpuproc[d] # scan[c] /\ (pc[d] = "run" => scan[d] # scan[c])
<1>1. "test" \notin ProcessPc /\ {"top", "acquire"} \cap ProcessPc = {}
  BY PcFacts DEF SchedulerPc
<1>2. scan[c] \in Slot /\ cpuproc[c] = NULL /\ lock[scan[c]] = c
  BY <1>1 DEF IInv, LockInv, LockDiscipline, Cur
<1>3. ASSUME NEW d \in CPU, cpuproc[d] = scan[c] PROVE FALSE
  <2>1. pc[d] \in ProcessPc /\ scan[d] = scan[c]
    BY <1>2, <1>3, SlotFacts DEF IInv, LockInv, Cur
  <2>2. lock[scan[c]] = d
    BY <1>1, <1>2, <2>1 DEF IInv, LockInv, LockDiscipline
  <2> QED BY <1>1, <1>2, <2>1, <2>2
<1>4. ASSUME NEW d \in CPU, pc[d] = "run", scan[d] = scan[c] PROVE FALSE
  BY <1>2, <1>4 DEF IInv, LockInv, LockDiscipline
<1> QED BY <1>2, <1>3, <1>4

\* kernel_main() leaves behind what Rounds starts from.
LEMMA RoundsInit == Init => R!Init
BY SlotFacts DEF Init, R!Init

\* Every step is a step of Rounds or changes nothing that Rounds sees.
LEMMA RoundsNext == IInv /\ [Next]_vars => [R!Next]_(R!vars)
<1> SUFFICES ASSUME IInv, [Next]_vars PROVE [R!Next]_(R!vars) OBVIOUS
<1> USE SlotFacts DEF IInv
<1> \A c \in CPU : pc[c] \in {"top", "acquire", "test", "run", "release"}
                     => pc[c] \notin ProcessPc /\ cpuproc[c] = NULL
  BY PcFacts DEF LockInv, Cur, SchedulerPc
<1>1. ASSUME NEW c \in CPU, Scheduler(c) PROVE [R!Next]_(R!vars)
  <2>1. CASE Top(c)
    <3>1. CASE scan[c] = 0
      BY <2>1, <3>1 DEF Top, At, Goto, procVars, DataOK, PlaceOK, R!vars
    <3>2. CASE scan[c] = NPROC
      <4>1. R!NewRound(c)
        BY <2>1, <3>2 DEF Top, At, Goto, procVars, DataOK, PlaceOK, R!NewRound
      <4> QED BY <4>1 DEF R!Next
    <3> QED BY <2>1, <3>1, <3>2 DEF Top, At, LockInv
  <2>2. CASE ScanEnd(c)
    BY <2>2 DEF ScanEnd, At, Goto, procVars, cpuVars, DataOK, PlaceOK, R!vars
  <2>3. CASE Acquire(c)
    BY <2>3 DEF Acquire, At, Goto, procVars, DataOK, PlaceOK, R!vars
  <2>4. CASE Test(c)
    <3>1. /\ scan[c] \in Slot /\ cpuproc[c] = NULL
          /\ \A d \in CPU : cpuproc[d] # scan[c] /\ (pc[d] = "run" => scan[d] # scan[c])
      BY <2>4, NotRunning DEF Test, At
    <3> PICK p \in R!Slot : p = scan[c]
      BY <3>1 DEF R!Slot, Slot
    <3>2. CASE state[scan[c]] = "RUNNABLE"
      <4>1. R!Grant(c, p)
        BY <2>4, <3>1, <3>2 DEF Test, At, Goto, procVars, cpuVars, DataOK, PlaceOK, R!Grant,
           R!Look
      <4> QED BY <4>1 DEF R!Next
    <3>3. CASE state[scan[c]] # "RUNNABLE"
      <4>1. R!Pass(c, p)
        BY <2>4, <3>1, <3>3 DEF Test, At, Goto, procVars, cpuVars, DataOK, PlaceOK, R!Pass,
           R!Look
      <4> QED BY <4>1 DEF R!Next
    <3> QED BY <3>2, <3>3
  <2>5. CASE Dispatch(c)
    <3>1. pc[c] = "run" /\ scan[c] \in Slot
      BY <2>5 DEF Dispatch, At, LockInv
    <3>2. Return(ctx[scan[c]]) \in ProcessPc
      BY <3>1, ReturnPlace, PcFacts DEF DataOK
    <3>3. Return(ctx[scan[c]]) \notin {"top", "acquire", "test", "run"}
      BY <3>2, PcFacts DEF SchedulerPc
    <3>4. R!Change
      BY <2>5, <3>1, <3>3 DEF Dispatch, Goto, DataOK, PlaceOK, R!Change, R!Slot, Slot
    <3> QED BY <3>4 DEF R!Next
  <2>6. CASE Release(c)
    BY <2>6 DEF Release, At, Goto, procVars, DataOK, PlaceOK, R!vars
  <2>7. CASE Sched(c)
    <3>1. pc[c] \in ProcessPc /\ pc[c] \notin {"top", "acquire", "test", "run"}
      BY <2>7, PcFacts DEF Sched, At, SchedulerPc
    <3>2. R!GiveUp(c)
      BY <2>7, <3>1 DEF Sched, Goto, DataOK, PlaceOK, LockInv, Cur, R!GiveUp
    <3> QED BY <3>2 DEF R!Next
  <2> QED BY <1>1, <2>1, <2>2, <2>3, <2>4, <2>5, <2>6, <2>7 DEF Scheduler
<1>2. ASSUME NEW c \in CPU, Kernel(c) \/ Timer(c) \/ Syscall(c) PROVE [R!Next]_(R!vars)
  <2>1. UNCHANGED <<cpuproc, scan>> /\ \E l, m \in ProcessPc : pc[c] = l /\ pc' = [pc EXCEPT ![c] = m]
    BY <1>2, ProcessMoves DEF Moves, At
  <2>2. {"top", "acquire", "test", "run"} \cap ProcessPc = {}
    BY PcFacts DEF SchedulerPc
  <2>3. R!Change
    BY <2>1, <2>2 DEF PlaceOK, R!Change, R!Slot, Slot
  <2> QED BY <2>3 DEF R!Next
<1>3. CASE UartIntr \/ Consoleintr \/ \E c \in CPU : Wakeup(c)
  <2>1. UNCHANGED <<pc, scan, cpuproc>>
    BY <1>3, WakeupInv
  <2>2. R!Change
    BY <2>1 DEF R!Change, R!Slot, Slot
  <2> QED BY <2>2 DEF R!Next
<1>4. CASE UNCHANGED vars
  BY <1>4 DEF vars, procVars, cpuVars, R!vars
<1> QED BY <1>1, <1>2, <1>3, <1>4 DEF Next, Execute

\* scheduler() keeps its promise on any number of CPUs: each goes round all
\* slots, passes over nobody whom it finds RUNNABLE, and takes nobody whom
\* another has, whatever the others write into p->state at any time.
THEOREM RoundRobinKept == Spec => RoundRobin
BY RoundsInit, RoundsNext, SpecInv, PTL DEF Spec, RoundRobin, R!Spec
-----------------------------------------------------------------------------
(* One CPU, which is how boot.S starts the machine: what holds because only *)
(* consoleintr() ever interrupts kernel code, though p->state, pids,        *)
(* sleep() and wakeup() have no lock.                                       *)

OneCpu == CPU = {CPU0}

ExitPc == {"exit_wake", "exit_kids", "exit_orphan", "exit"}

\* Where a process is in its life: who runs is neither free nor, before it has
\* exited, a zombie, and who has left the CPU in proc_exit() is a zombie or
\* collected.
StageInv ==
  /\ \A c \in CPU :
       /\ Cur(c) # NULL => state[Cur(c)] # "UNUSED" /\ ctx[Cur(c)] # "exit"
       /\ pc[c] \in ExitPc => state[Cur(c)] = "ZOMBIE"
       /\ Cur(c) # NULL /\ pc[c] \notin ExitPc \cup {"panic"} => state[Cur(c)] # "ZOMBIE"
  /\ \A p \in Slot : ctx[p] = "exit" => state[p] \in {"ZOMBIE", "UNUSED"}

\* What a loop has found in a slot is still there when it writes: nobody comes
\* in between.  A slot stays free until sys_fork()'s last line.
FoundInv ==
  \A c \in CPU :
    /\ pc[c] = "run"        => state[scan[c]] = "RUNNABLE"
    /\ pc[c] \in ForkPc     => state[lp[c]] = "UNUSED"
    /\ pc[c] = "fork_run"   => ctx[lp[c]] = "forkret"
    /\ pc[c] = "wait_free"  => state[lp[c]] = "ZOMBIE"
    /\ pc[c] = "kill_write" => state[lp[c]] = "SLEEPING"

\* The same for the two calls of wakeup(), which may be in progress at once:
\* they look for different channels.
FrameInv ==
  /\ \A c \in CPU : wk[c] # NULL =>
       /\ wk[c].ch \in Slot
       /\ wk[c].hit => state[wk[c].i] = "SLEEPING" /\ chan[wk[c].i] = wk[c].ch
  /\ irq # NULL =>
       /\ irq.ch = CONS
       /\ irq.hit => state[irq.i] = "SLEEPING" /\ chan[irq.i] = CONS

LifeInv == StageInv /\ FoundInv /\ FrameInv

\* The pids that have been given out.
PidInv ==
  /\ \A p \in Slot : state[p] # "UNUSED" => pid[p] < nextpid
  /\ PidsUnique
  /\ \A c \in CPU :
       /\ pc[c] = "fork_alloc" => lpid[c] = nextpid
       /\ pc[c] \in {"fork_copy", "fork_run"} =>
            /\ pid[lp[c]] < nextpid
            /\ \A p \in Slot : state[p] # "UNUSED" => pid[p] # pid[lp[c]]
       /\ pc[c] \in ExitPc => ~HasKids(Cur(c))
       /\ pc[c] = "exit_orphan" => state[lp[c]] = "UNUSED"

\* p sleeps in proc_wait().
AsleepInWait(p) == state[p] = "SLEEPING" /\ chan[p] = p

\* Parents that sleep in proc_wait(), and children on their way out: a parent
\* still asleep has not been passed by the loop of proc_exit(), or not by the
\* wakeup() that this loop has called for it.
WaitInv ==
  /\ NoLostExit
  /\ \A c \in CPU :
       /\ pc[c] = "wait_scan"  => \A q \in ZombieKids(Cur(c)) : lp[c] <= q
       /\ pc[c] = "wait_sleep" => ZombieKids(Cur(c)) = {}
       /\ pc[c] = "exit_wake"  =>
            \A p \in Slot : AsleepInWait(p) /\ pid[p] = ppid[Cur(c)] =>
              \/ lp[c] <= p
              \/ wk[c] # NULL /\ wk[c].ch = p /\ wk[c].i <= p
       /\ pc[c] \in {"exit_kids", "exit_orphan", "exit"} =>
            \A p \in Slot : AsleepInWait(p) => pid[p] # ppid[Cur(c)]

\* Nobody's slot is the channel of the console or of an inode.
LEMMA ChanFacts == CONS \notin Slot /\ INODE \notin Slot
BY SlotFacts, ChanAssumption

\* Every step keeps StageInv.
LEMMA StageStep ==
  ASSUME OneCpu, IInv, LifeInv, Next PROVE StageInv'
<1> USE SlotFacts, ChanFacts, PcFacts DEF LifeInv, StageInv, FoundInv, FrameInv, ExitPc, IInv,
      DataOK, PlaceOK, LockInv, Cur, ProcessPc, FoundPc, ForkPc, Calls, At, Interrupted, Goto,
      Loop, NextSlot, Found, procVars, cpuVars, loopVars, wakeVars
<1>1. ASSUME NEW c \in CPU, Execute(c) \/ Timer(c) \/ Syscall(c) PROVE StageInv'
  <2> \A d \in CPU : d = c
    BY DEF OneCpu
  <2>0. /\ lp[c] \in 0 .. NPROC /\ scan[c] \in 0 .. NPROC
        /\ pc[c] \in ProcessPc => Cur(c) \in Slot
    BY DEF IInv, DataOK, PlaceOK, LockInv
  <2>1. CASE Top(c) \/ ScanEnd(c) \/ Acquire(c) \/ Release(c)
    BY <2>0, <2>1 DEF Top, ScanEnd, Acquire, Release
  <2>2. CASE Test(c)
    BY <2>0, <2>2 DEF Test
  <2>3. CASE Dispatch(c)
    <3>1. pc[c] = "run" /\ scan[c] \in Slot /\ ctx[scan[c]] \in Saved
      BY <2>3 DEF Dispatch, IInv, LockInv, DataOK
    <3>2. Return(ctx[scan[c]])
            \in {"forkret", "wait_woken", "read_woken", "iget_woken", "user"}
      BY <3>1, ReturnPlace
    <3> QED BY <2>3, <3>1, <3>2 DEF Dispatch
  <2>4. CASE Sched(c)
    BY <2>0, <2>4 DEF Sched
  <2>5. CASE Forkret(c) \/ Timer(c)
    BY <2>0, <2>5 DEF Forkret, Timer
  <2>6. CASE SysExec(c)
    BY <2>0, <2>6 DEF SysExec
  <2>7. CASE SysFork(c) \/ SysWait(c) \/ SysRead(c) \/ ReadScan(c) \/ SysSpin(c)
    BY <2>0, <2>7 DEF SysFork, SysWait, SysRead, ReadScan, SysSpin
  <2>8. CASE ForkScan(c)
    BY <2>0, <2>8 DEF ForkScan
  <2>9. CASE ForkPid(c) \/ ForkAlloc(c)
    BY <2>0, <2>9 DEF ForkPid, ForkAlloc
  <2>10. CASE ForkCopy(c)
    BY <2>0, <2>10 DEF ForkCopy
  <2>11. CASE ForkRun(c)
    BY <2>0, <2>11 DEF ForkRun
  <2>12. CASE SysExit(c)
    BY <2>0, <2>12 DEF SysExit
  <2>13. CASE ExitWake(c)
    BY <2>0, <2>13 DEF ExitWake, Frame
  <2>14. CASE ExitKids(c)
    BY <2>0, <2>14 DEF ExitKids
  <2>15. CASE ExitOrphan(c)
    BY <2>0, <2>15 DEF ExitOrphan
  <2>16. CASE WaitScan(c)
    BY <2>0, <2>16 DEF WaitScan
  <2>17. CASE WaitFree(c)
    BY <2>0, <2>17 DEF WaitFree
  <2>18. CASE WaitSleep(c)
    BY <2>0, <2>18 DEF WaitSleep, Sleep
  <2>19. CASE ReadSleep(c) \/ SysIget(c) \/ IgetWoken(c)
    BY <2>0, <2>19 DEF ReadSleep, SysIget, IgetWoken, Sleep
  <2>20. CASE WaitWoken(c) \/ ReadWoken(c)
    BY <2>0, <2>20 DEF WaitWoken, ReadWoken, Woken
  <2>21. CASE \E k \in 1 .. MAXPID : SysKill(c, k)
    BY <2>0, <2>21 DEF SysKill
  <2>22. CASE KillScan(c) \/ KillTest(c)
    BY <2>0, <2>22 DEF KillScan, KillTest
  <2>23. CASE KillWrite(c)
    BY <2>0, <2>23 DEF KillWrite
  <2>24. CASE Wakeup(c)
    <3>1. wk[c] \in Frames /\ wk[c] # NULL /\ pc[c] = "exit_wake" /\ Cur(c) \in Slot
      BY <2>0, <2>24 DEF Wakeup, IInv, PlaceOK, ProcessPc
    <3> QED BY <2>24, <3>1 DEF Wakeup, After, Finds, Written, Frames
  <2> QED BY <1>1, <2>1, <2>2, <2>3, <2>4, <2>5, <2>6, <2>7, <2>8, <2>9, <2>10, <2>11, <2>12,
       <2>13, <2>14, <2>15, <2>16, <2>17, <2>18, <2>19, <2>20, <2>21, <2>22, <2>23, <2>24 DEF Execute, Scheduler, Kernel, Syscall
<1>2. CASE UartIntr
  BY <1>2 DEF UartIntr, Frame
<1>3. CASE Consoleintr
  <2>1. irq \in Frames /\ irq # NULL /\ pc[CPU0] \in IrqPc /\ (\A c \in CPU : c = CPU0)
    BY <1>3 DEF Consoleintr, IInv, PlaceOK, OneCpu
  <2> QED BY <1>3, <2>1 DEF Consoleintr, After, Finds, Written, Frames, IrqPc
<1> QED BY <1>1, <1>2, <1>3 DEF Next

\* Every step keeps FoundInv.
LEMMA FoundStep ==
  ASSUME OneCpu, IInv, LifeInv, Next PROVE FoundInv'
<1> USE SlotFacts, ChanFacts, PcFacts DEF LifeInv, StageInv, FoundInv, FrameInv, ExitPc,
      ZombieKids, IInv, DataOK, PlaceOK, LockInv, Cur, ProcessPc, FoundPc, ForkPc, Calls, At,
      Interrupted, Goto, Loop, NextSlot, Found, procVars, cpuVars, loopVars, wakeVars
<1>1. ASSUME NEW c \in CPU, Execute(c) \/ Timer(c) \/ Syscall(c) PROVE FoundInv'
  <2> \A d \in CPU : d = c
    BY DEF OneCpu
  <2>0. /\ lp[c] \in 0 .. NPROC /\ scan[c] \in 0 .. NPROC
        /\ pc[c] \in ProcessPc => Cur(c) \in Slot
    BY DEF IInv, DataOK, PlaceOK, LockInv
  <2>1. CASE Top(c) \/ ScanEnd(c) \/ Acquire(c) \/ Release(c)
    BY <2>0, <2>1 DEF Top, ScanEnd, Acquire, Release
  <2>2. CASE Test(c)
    BY <2>0, <2>2 DEF Test
  <2>3. CASE Dispatch(c)
    <3>1. pc[c] = "run" /\ scan[c] \in Slot /\ ctx[scan[c]] \in Saved
      BY <2>3 DEF Dispatch, IInv, LockInv, DataOK
    <3>2. Return(ctx[scan[c]])
            \in {"forkret", "wait_woken", "read_woken", "iget_woken", "user"}
      BY <3>1, ReturnPlace
    <3> QED BY <2>3, <3>1, <3>2 DEF Dispatch
  <2>4. CASE Sched(c)
    BY <2>0, <2>4 DEF Sched
  <2>5. CASE Forkret(c) \/ Timer(c)
    BY <2>0, <2>5 DEF Forkret, Timer
  <2>6. CASE SysExec(c)
    BY <2>0, <2>6 DEF SysExec
  <2>7. CASE SysFork(c) \/ SysWait(c) \/ SysRead(c) \/ ReadScan(c) \/ SysSpin(c)
    BY <2>0, <2>7 DEF SysFork, SysWait, SysRead, ReadScan, SysSpin
  <2>8. CASE ForkScan(c)
    BY <2>0, <2>8 DEF ForkScan
  <2>9. CASE ForkPid(c) \/ ForkAlloc(c)
    BY <2>0, <2>9 DEF ForkPid, ForkAlloc
  <2>10. CASE ForkCopy(c)
    BY <2>0, <2>10 DEF ForkCopy
  <2>11. CASE ForkRun(c)
    BY <2>0, <2>11 DEF ForkRun
  <2>12. CASE SysExit(c)
    BY <2>0, <2>12 DEF SysExit
  <2>13. CASE ExitWake(c)
    BY <2>0, <2>13 DEF ExitWake, Frame
  <2>14. CASE ExitKids(c)
    BY <2>0, <2>14 DEF ExitKids
  <2>15. CASE ExitOrphan(c)
    BY <2>0, <2>15 DEF ExitOrphan
  <2>16. CASE WaitScan(c)
    BY <2>0, <2>16 DEF WaitScan
  <2>17. CASE WaitFree(c)
    BY <2>0, <2>17 DEF WaitFree
  <2>18. CASE WaitSleep(c)
    BY <2>0, <2>18 DEF WaitSleep, Sleep
  <2>19. CASE ReadSleep(c) \/ SysIget(c) \/ IgetWoken(c)
    BY <2>0, <2>19 DEF ReadSleep, SysIget, IgetWoken, Sleep
  <2>20. CASE WaitWoken(c) \/ ReadWoken(c)
    BY <2>0, <2>20 DEF WaitWoken, ReadWoken, Woken
  <2>21. CASE \E k \in 1 .. MAXPID : SysKill(c, k)
    BY <2>0, <2>21 DEF SysKill
  <2>22. CASE KillScan(c) \/ KillTest(c)
    BY <2>0, <2>22 DEF KillScan, KillTest
  <2>23. CASE KillWrite(c)
    BY <2>0, <2>23 DEF KillWrite
  <2>24. CASE Wakeup(c)
    <3>1. wk[c] \in Frames /\ wk[c] # NULL /\ pc[c] = "exit_wake" /\ Cur(c) \in Slot
      BY <2>0, <2>24 DEF Wakeup, IInv, PlaceOK, ProcessPc
    <3> QED BY <2>24, <3>1 DEF Wakeup, After, Finds, Written, Frames
  <2> QED BY <1>1, <2>1, <2>2, <2>3, <2>4, <2>5, <2>6, <2>7, <2>8, <2>9, <2>10, <2>11, <2>12,
       <2>13, <2>14, <2>15, <2>16, <2>17, <2>18, <2>19, <2>20, <2>21, <2>22, <2>23, <2>24 DEF Execute, Scheduler, Kernel, Syscall
<1>2. CASE UartIntr
  BY <1>2 DEF UartIntr, Frame
<1>3. CASE Consoleintr
  <2>1. irq \in Frames /\ irq # NULL /\ pc[CPU0] \in IrqPc /\ (\A c \in CPU : c = CPU0)
    BY <1>3 DEF Consoleintr, IInv, PlaceOK, OneCpu
  <2> QED BY <1>3, <2>1 DEF Consoleintr, After, Finds, Written, Frames, IrqPc
<1> QED BY <1>1, <1>2, <1>3 DEF Next

\* Every step keeps FrameInv.
LEMMA FrameStep ==
  ASSUME OneCpu, IInv, LifeInv, Next PROVE FrameInv'
<1> USE SlotFacts, ChanFacts, PcFacts DEF LifeInv, StageInv, FoundInv, FrameInv, ExitPc, IInv,
      DataOK, PlaceOK, LockInv, Cur, ProcessPc, FoundPc, ForkPc, Calls, At, Interrupted, Goto,
      Loop, NextSlot, Found, procVars, cpuVars, loopVars, wakeVars
<1>1. ASSUME NEW c \in CPU, Execute(c) \/ Timer(c) \/ Syscall(c) PROVE FrameInv'
  <2> \A d \in CPU : d = c
    BY DEF OneCpu
  <2>0. /\ lp[c] \in 0 .. NPROC /\ scan[c] \in 0 .. NPROC
        /\ pc[c] \in ProcessPc => Cur(c) \in Slot
    BY DEF IInv, DataOK, PlaceOK, LockInv
  <2>1. CASE Top(c) \/ ScanEnd(c) \/ Acquire(c) \/ Release(c)
    BY <2>0, <2>1 DEF Top, ScanEnd, Acquire, Release
  <2>2. CASE Test(c)
    BY <2>0, <2>2 DEF Test
  <2>3. CASE Dispatch(c)
    <3>1. pc[c] = "run" /\ scan[c] \in Slot /\ ctx[scan[c]] \in Saved
      BY <2>3 DEF Dispatch, IInv, LockInv, DataOK
    <3>2. Return(ctx[scan[c]])
            \in {"forkret", "wait_woken", "read_woken", "iget_woken", "user"}
      BY <3>1, ReturnPlace
    <3> QED BY <2>3, <3>1, <3>2 DEF Dispatch
  <2>4. CASE Sched(c)
    BY <2>0, <2>4 DEF Sched
  <2>5. CASE Forkret(c) \/ Timer(c)
    BY <2>0, <2>5 DEF Forkret, Timer
  <2>6. CASE SysExec(c)
    BY <2>0, <2>6 DEF SysExec
  <2>7. CASE SysFork(c) \/ SysWait(c) \/ SysRead(c) \/ ReadScan(c) \/ SysSpin(c)
    BY <2>0, <2>7 DEF SysFork, SysWait, SysRead, ReadScan, SysSpin
  <2>8. CASE ForkScan(c)
    BY <2>0, <2>8 DEF ForkScan
  <2>9. CASE ForkPid(c) \/ ForkAlloc(c)
    BY <2>0, <2>9 DEF ForkPid, ForkAlloc
  <2>10. CASE ForkCopy(c)
    BY <2>0, <2>10 DEF ForkCopy
  <2>11. CASE ForkRun(c)
    BY <2>0, <2>11 DEF ForkRun
  <2>12. CASE SysExit(c)
    BY <2>0, <2>12 DEF SysExit
  <2>13. CASE ExitWake(c)
    BY <2>0, <2>13 DEF ExitWake, Frame
  <2>14. CASE ExitKids(c)
    BY <2>0, <2>14 DEF ExitKids
  <2>15. CASE ExitOrphan(c)
    BY <2>0, <2>15 DEF ExitOrphan
  <2>16. CASE WaitScan(c)
    BY <2>0, <2>16 DEF WaitScan
  <2>17. CASE WaitFree(c)
    BY <2>0, <2>17 DEF WaitFree
  <2>18. CASE WaitSleep(c)
    BY <2>0, <2>18 DEF WaitSleep, Sleep
  <2>19. CASE ReadSleep(c) \/ SysIget(c) \/ IgetWoken(c)
    BY <2>0, <2>19 DEF ReadSleep, SysIget, IgetWoken, Sleep
  <2>20. CASE WaitWoken(c) \/ ReadWoken(c)
    BY <2>0, <2>20 DEF WaitWoken, ReadWoken, Woken
  <2>21. CASE \E k \in 1 .. MAXPID : SysKill(c, k)
    BY <2>0, <2>21 DEF SysKill
  <2>22. CASE KillScan(c) \/ KillTest(c)
    BY <2>0, <2>22 DEF KillScan, KillTest
  <2>23. CASE KillWrite(c)
    BY <2>0, <2>23 DEF KillWrite
  <2>24. CASE Wakeup(c)
    <3>1. wk[c] \in Frames /\ wk[c] # NULL /\ pc[c] = "exit_wake" /\ Cur(c) \in Slot
      BY <2>0, <2>24 DEF Wakeup, IInv, PlaceOK, ProcessPc
    <3> QED BY <2>24, <3>1 DEF Wakeup, After, Finds, Written, Frames
  <2> QED BY <1>1, <2>1, <2>2, <2>3, <2>4, <2>5, <2>6, <2>7, <2>8, <2>9, <2>10, <2>11, <2>12,
       <2>13, <2>14, <2>15, <2>16, <2>17, <2>18, <2>19, <2>20, <2>21, <2>22, <2>23, <2>24 DEF Execute, Scheduler, Kernel, Syscall
<1>2. CASE UartIntr
  BY <1>2 DEF UartIntr, Frame
<1>3. CASE Consoleintr
  <2>1. irq \in Frames /\ irq # NULL /\ pc[CPU0] \in IrqPc /\ (\A c \in CPU : c = CPU0)
    BY <1>3 DEF Consoleintr, IInv, PlaceOK, OneCpu
  <2> QED BY <1>3, <2>1 DEF Consoleintr, After, Finds, Written, Frames, IrqPc
<1> QED BY <1>1, <1>2, <1>3 DEF Next

\* Every step keeps PidInv, if nobody exits before its children are collected.
LEMMA PidStep ==
  ASSUME OneCpu, ~Orphaning, IInv, LifeInv, PidInv, Next PROVE PidInv'
<1> USE SlotFacts, ChanFacts, PcFacts DEF PidInv, PidsUnique, HasKids, LifeInv, StageInv,
      FoundInv, FrameInv, ExitPc, IInv, DataOK, PlaceOK, LockInv, Cur, ProcessPc, FoundPc,
      ForkPc, Calls, At, Interrupted, Goto, Loop, NextSlot, Found, procVars, cpuVars, loopVars,
      wakeVars
<1>1. ASSUME NEW c \in CPU, Execute(c) \/ Timer(c) \/ Syscall(c) PROVE PidInv'
  <2> \A d \in CPU : d = c
    BY DEF OneCpu
  <2>0. /\ lp[c] \in 0 .. NPROC /\ scan[c] \in 0 .. NPROC
        /\ pc[c] \in ProcessPc => Cur(c) \in Slot
    BY DEF IInv, DataOK, PlaceOK, LockInv
  <2>1. CASE Top(c) \/ ScanEnd(c) \/ Acquire(c) \/ Release(c)
    BY <2>0, <2>1 DEF Top, ScanEnd, Acquire, Release
  <2>2. CASE Test(c)
    BY <2>0, <2>2 DEF Test
  <2>3. CASE Dispatch(c)
    <3>1. pc[c] = "run" /\ scan[c] \in Slot /\ ctx[scan[c]] \in Saved
      BY <2>3 DEF Dispatch, IInv, LockInv, DataOK
    <3>2. Return(ctx[scan[c]])
            \in {"forkret", "wait_woken", "read_woken", "iget_woken", "user"}
      BY <3>1, ReturnPlace
    <3> QED BY <2>3, <3>1, <3>2 DEF Dispatch
  <2>4. CASE Sched(c)
    BY <2>0, <2>4 DEF Sched
  <2>5. CASE Forkret(c) \/ Timer(c)
    BY <2>0, <2>5 DEF Forkret, Timer
  <2>6. CASE SysExec(c)
    BY <2>0, <2>6 DEF SysExec
  <2>7. CASE SysFork(c) \/ SysWait(c) \/ SysRead(c) \/ ReadScan(c) \/ SysSpin(c)
    BY <2>0, <2>7 DEF SysFork, SysWait, SysRead, ReadScan, SysSpin
  <2>8. CASE ForkScan(c)
    BY <2>0, <2>8 DEF ForkScan
  <2>9. CASE ForkPid(c) \/ ForkAlloc(c)
    BY <2>0, <2>9 DEF ForkPid, ForkAlloc
  <2>10. CASE ForkCopy(c)
    BY <2>0, <2>10 DEF ForkCopy
  <2>11. CASE ForkRun(c)
    BY <2>0, <2>11 DEF ForkRun
  <2>12. CASE SysExit(c)
    BY <2>0, <2>12 DEF SysExit
  <2>13. CASE ExitWake(c)
    BY <2>0, <2>13 DEF ExitWake, Frame
  <2>14. CASE ExitKids(c)
    BY <2>0, <2>14 DEF ExitKids
  <2>15. CASE ExitOrphan(c)
    BY <2>0, <2>15 DEF ExitOrphan
  <2>16. CASE WaitScan(c)
    BY <2>0, <2>16 DEF WaitScan
  <2>17. CASE WaitFree(c)
    BY <2>0, <2>17 DEF WaitFree
  <2>18. CASE WaitSleep(c)
    BY <2>0, <2>18 DEF WaitSleep, Sleep
  <2>19. CASE ReadSleep(c) \/ SysIget(c) \/ IgetWoken(c)
    BY <2>0, <2>19 DEF ReadSleep, SysIget, IgetWoken, Sleep
  <2>20. CASE WaitWoken(c) \/ ReadWoken(c)
    BY <2>0, <2>20 DEF WaitWoken, ReadWoken, Woken
  <2>21. CASE \E k \in 1 .. MAXPID : SysKill(c, k)
    BY <2>0, <2>21 DEF SysKill
  <2>22. CASE KillScan(c) \/ KillTest(c)
    BY <2>0, <2>22 DEF KillScan, KillTest
  <2>23. CASE KillWrite(c)
    BY <2>0, <2>23 DEF KillWrite
  <2>24. CASE Wakeup(c)
    <3>1. wk[c] \in Frames /\ wk[c] # NULL /\ pc[c] = "exit_wake" /\ Cur(c) \in Slot
      BY <2>0, <2>24 DEF Wakeup, IInv, PlaceOK, ProcessPc
    <3> QED BY <2>24, <3>1 DEF Wakeup, After, Finds, Written, Frames
  <2> QED BY <1>1, <2>1, <2>2, <2>3, <2>4, <2>5, <2>6, <2>7, <2>8, <2>9, <2>10, <2>11, <2>12,
       <2>13, <2>14, <2>15, <2>16, <2>17, <2>18, <2>19, <2>20, <2>21, <2>22, <2>23, <2>24 DEF Execute, Scheduler, Kernel, Syscall
<1>2. CASE UartIntr
  BY <1>2 DEF UartIntr, Frame
<1>3. CASE Consoleintr
  <2>1. irq \in Frames /\ irq # NULL /\ pc[CPU0] \in IrqPc /\ (\A c \in CPU : c = CPU0)
    BY <1>3 DEF Consoleintr, IInv, PlaceOK, OneCpu
  <2> QED BY <1>3, <2>1 DEF Consoleintr, After, Finds, Written, Frames, IrqPc
<1> QED BY <1>1, <1>2, <1>3 DEF Next

\* proc_wait() goes on to the next slot, has found a child or none.
LEMMA WaitWaitScan ==
  ASSUME OneCpu, IInv, WaitInv, NEW c \in CPU, WaitScan(c) PROVE WaitInv'
<1> \A d \in CPU : d = c
  BY DEF OneCpu
<1>1. /\ pc[c] = "wait_scan" /\ UNCHANGED <<state, pid, ppid, chan, cpuproc>>
      /\ lp[c] \in 0 .. NPROC /\ lp \in [CPU -> 0 .. NPROC] /\ DOMAIN pc = CPU
  BY DEF WaitScan, At, procVars, cpuVars, IInv, PlaceOK
<1>2. NoLostExit' /\ ZombieKids(Cur(c))' = ZombieKids(Cur(c))
  BY <1>1 DEF WaitInv, NoLostExit, OnCpu, ZombieKids, Cur
<1>3. \A q \in ZombieKids(Cur(c)) : lp[c] <= q /\ q \in Slot
  BY <1>1 DEF WaitInv, ZombieKids
<1>4. CASE lp[c] = NPROC
  <2>1. ZombieKids(Cur(c)) = {}
    BY <1>3, <1>4 DEF Slot
  <2>2. pc'[c] = "wait_sleep"
    BY <1>1, <1>4 DEF WaitScan, Loop, Goto
  <2> QED BY <1>2, <2>1, <2>2 DEF WaitInv
<1>5. CASE lp[c] < NPROC /\ lp[c] \in ZombieKids(Cur(c))
  <2>1. pc'[c] = "wait_free"
    BY <1>1, <1>5 DEF WaitScan, Found, Goto
  <2> QED BY <1>2, <2>1 DEF WaitInv
<1>6. CASE lp[c] < NPROC /\ lp[c] \notin ZombieKids(Cur(c))
  <2>1. \A q \in ZombieKids(Cur(c)) : lp[c] + 1 <= q
    BY <1>1, <1>3, <1>6 DEF Slot
  <2>2. lp'[c] = lp[c] + 1 /\ pc'[c] = "wait_scan"
    BY <1>1, <1>6 DEF WaitScan, NextSlot
  <2> QED BY <1>2, <2>1, <2>2 DEF WaitInv
<1> QED BY <1>1, <1>4, <1>5, <1>6

\* proc_exit() calls wakeup() for its parent and goes on to the next slot.
LEMMA WaitExitWake ==
  ASSUME OneCpu, IInv, WaitInv, NEW c \in CPU, ExitWake(c) PROVE WaitInv'
<1> \A d \in CPU : d = c
  BY DEF OneCpu
<1>1. /\ pc[c] = "exit_wake" /\ wk[c] = NULL /\ UNCHANGED <<state, pid, ppid, chan, cpuproc>>
      /\ lp[c] \in 0 .. NPROC /\ lp \in [CPU -> 0 .. NPROC] /\ DOMAIN pc = CPU /\ DOMAIN wk = CPU
  BY DEF ExitWake, At, procVars, cpuVars, IInv, PlaceOK
<1>2. NoLostExit'
  BY <1>1 DEF WaitInv, NoLostExit, OnCpu, ZombieKids, Cur
<1>3. \A p \in Slot : AsleepInWait(p) /\ pid[p] = ppid[Cur(c)] => lp[c] <= p
  BY <1>1 DEF WaitInv
<1>4. CASE lp[c] = NPROC
  <2>1. \A p \in Slot : AsleepInWait(p) => pid[p] # ppid[Cur(c)]
    BY <1>3, <1>4 DEF Slot
  <2>2. pc'[c] = "exit_kids"
    BY <1>1, <1>4 DEF ExitWake, Loop, Goto
  <2> QED BY <1>1, <1>2, <2>1, <2>2 DEF WaitInv, AsleepInWait, Cur
<1>5. CASE lp[c] < NPROC
  <2>1. /\ wk'[c] = IF pid[lp[c]] = ppid[Cur(c)] THEN Frame(lp[c]) ELSE NULL
        /\ lp'[c] = lp[c] + 1 /\ pc'[c] = "exit_wake"
    BY <1>1, <1>5 DEF ExitWake, NextSlot
  <2>2. \A p \in Slot : Frame(p) # NULL /\ Frame(p).ch = p /\ Frame(p).i <= p
    <3> TAKE p \in Slot
    <3>1. Frame(p) \in Frames
      BY SlotFacts DEF Frame, Frames
    <3>2. Frame(p).ch = p /\ Frame(p).i = 0 /\ 0 <= p
      BY SlotFacts DEF Frame
    <3> QED BY <3>1, <3>2, FrameAssumption
  <2>3. \A p \in Slot : AsleepInWait(p) /\ pid[p] = ppid[Cur(c)] =>
          lp[c] + 1 <= p \/ wk'[c] = Frame(p)
    BY <1>1, <1>3, <2>1 DEF Slot
  <2>4. \A p \in Slot : AsleepInWait(p)' /\ pid'[p] = ppid'[Cur(c)'] =>
          \/ lp'[c] <= p
          \/ wk'[c] # NULL /\ wk'[c].ch = p /\ wk'[c].i <= p
    BY <1>1, <2>1, <2>2, <2>3 DEF AsleepInWait, Cur
  <2> QED BY <1>2, <2>1, <2>4 DEF WaitInv, Cur
<1> QED BY <1>1, <1>4, <1>5

\* wakeup() in proc_exit() does not pass a parent that is asleep.
LEMMA WaitWakeup ==
  ASSUME OneCpu, IInv, FrameInv, WaitInv, NEW c \in CPU, Wakeup(c) PROVE WaitInv'
<1> \A d \in CPU : d = c
  BY DEF OneCpu
<1>1. PICK f \in Frames : wk[c] = f /\ f # NULL
  BY DEF Wakeup, IInv, PlaceOK
<1>2. /\ f.ch \in Slot /\ f.i \in Slot /\ f.hit \in BOOLEAN
      /\ f.hit => state[f.i] = "SLEEPING" /\ chan[f.i] = f.ch
  BY <1>1 DEF Frames, FrameInv
<1>3. /\ pc[c] = "exit_wake" /\ state' = Written(f) /\ wk'[c] = After(f)
      /\ UNCHANGED <<pid, ppid, chan, cpuproc, pc, lp>>
  BY <1>1 DEF Wakeup, cpuVars, loopVars, IInv, PlaceOK
<1>4. \A p \in Slot : /\ AsleepInWait(p)' => AsleepInWait(p) /\ (f.hit => p # f.i)
                      /\ state'[p] = "ZOMBIE" => state[p] = "ZOMBIE"
                      /\ state'[p] = "SLEEPING" => state[p] = "SLEEPING"
  BY <1>2, <1>3 DEF Written, AsleepInWait, IInv, DataOK
<1>5. NoLostExit'
  BY <1>3, <1>4 DEF WaitInv, NoLostExit, OnCpu, ZombieKids, Cur
<1>6. ASSUME NEW p \in Slot, AsleepInWait(p)', pid'[p] = ppid'[Cur(c)']
      PROVE  lp'[c] <= p \/ (wk'[c] # NULL /\ wk'[c].ch = p /\ wk'[c].i <= p)
  <2>1. AsleepInWait(p) /\ (f.hit => p # f.i) /\ pid[p] = ppid[Cur(c)]
    BY <1>3, <1>4, <1>6 DEF Cur
  <2>2. lp[c] <= p \/ (f.ch = p /\ f.i <= p)
    BY <1>1, <1>3, <2>1 DEF WaitInv
  <2>3. CASE f.ch = p /\ f.i <= p
    <3>1. CASE Finds(f)
      <4>1. wk'[c] = [f EXCEPT !.hit = TRUE]
        BY <1>3, <3>1 DEF After
      <4>2. wk'[c] \in Frames /\ wk'[c].ch = f.ch /\ wk'[c].i = f.i
        BY <4>1 DEF Frames
      <4> QED BY <2>3, <4>2, FrameAssumption
    <3>2. CASE ~Finds(f)
      <4>1. f.i # p
        BY <2>1, <2>3, <3>2 DEF Finds, AsleepInWait
      <4>2. f.i + 1 <= p /\ f.i + 1 # NPROC /\ f.i + 1 \in Slot
        BY <1>2, <2>3, <4>1 DEF Slot
      <4>3. wk'[c] = [f EXCEPT !.i = @ + 1, !.hit = FALSE]
        BY <1>3, <3>2, <4>2 DEF After
      <4>4. wk'[c] \in Frames /\ wk'[c].ch = f.ch /\ wk'[c].i = f.i + 1
        BY <4>2, <4>3 DEF Frames
      <4> QED BY <2>3, <4>2, <4>4, FrameAssumption
    <3> QED BY <3>1, <3>2
  <2> QED BY <1>3, <2>2, <2>3
<1> QED BY <1>3, <1>5, <1>6 DEF WaitInv

\* An interrupt of the UART touches nothing that WaitInv speaks of.
LEMMA WaitUart == ASSUME WaitInv, UartIntr PROVE WaitInv'
BY DEF UartIntr, WaitInv, NoLostExit, OnCpu, ZombieKids, AsleepInWait, Cur, procVars, cpuVars,
   loopVars

\* Every step keeps WaitInv, if nobody exits before its children are collected.
LEMMA WaitStep ==
  ASSUME OneCpu, ~Orphaning, IInv, LifeInv, PidInv, WaitInv, Next PROVE WaitInv'
<1> USE SlotFacts, ChanFacts, PcFacts DEF WaitInv, NoLostExit, OnCpu, ZombieKids, AsleepInWait,
      PidInv, HasKids, LifeInv, StageInv, FoundInv, FrameInv, ExitPc, IInv, DataOK, PlaceOK,
      LockInv, Cur, ProcessPc, FoundPc, ForkPc, Calls, At, Interrupted, Goto, Loop, NextSlot,
      Found, procVars, cpuVars, loopVars, wakeVars
<1>1. ASSUME NEW c \in CPU, Execute(c) \/ Timer(c) \/ Syscall(c) PROVE WaitInv'
  <2> \A d \in CPU : d = c
    BY DEF OneCpu
  <2>0. /\ lp[c] \in 0 .. NPROC /\ scan[c] \in 0 .. NPROC
        /\ pc[c] \in ProcessPc => Cur(c) \in Slot
    BY DEF IInv, DataOK, PlaceOK, LockInv
  <2>1. CASE Top(c) \/ ScanEnd(c) \/ Acquire(c) \/ Release(c)
    BY <2>0, <2>1 DEF Top, ScanEnd, Acquire, Release
  <2>2. CASE Test(c)
    BY <2>0, <2>2 DEF Test
  <2>3. CASE Dispatch(c)
    <3>1. pc[c] = "run" /\ scan[c] \in Slot /\ ctx[scan[c]] \in Saved
      BY <2>3 DEF Dispatch, IInv, LockInv, DataOK
    <3>2. Return(ctx[scan[c]])
            \in {"forkret", "wait_woken", "read_woken", "iget_woken", "user"}
      BY <3>1, ReturnPlace
    <3> QED BY <2>3, <3>1, <3>2 DEF Dispatch
  <2>4. CASE Sched(c)
    BY <2>0, <2>4 DEF Sched
  <2>5. CASE Forkret(c) \/ Timer(c)
    BY <2>0, <2>5 DEF Forkret, Timer
  <2>6. CASE SysExec(c)
    BY <2>0, <2>6 DEF SysExec
  <2>7. CASE SysFork(c) \/ SysWait(c) \/ SysRead(c) \/ ReadScan(c) \/ SysSpin(c)
    BY <2>0, <2>7 DEF SysFork, SysWait, SysRead, ReadScan, SysSpin
  <2>8. CASE ForkScan(c)
    BY <2>0, <2>8 DEF ForkScan
  <2>9. CASE ForkPid(c) \/ ForkAlloc(c)
    BY <2>0, <2>9 DEF ForkPid, ForkAlloc
  <2>10. CASE ForkCopy(c)
    BY <2>0, <2>10 DEF ForkCopy
  <2>11. CASE ForkRun(c)
    BY <2>0, <2>11 DEF ForkRun
  <2>12. CASE SysExit(c)
    BY <2>0, <2>12 DEF SysExit
  <2>13. CASE ExitWake(c)
    BY <2>13, WaitExitWake
  <2>14. CASE ExitKids(c)
    BY <2>0, <2>14 DEF ExitKids
  <2>15. CASE ExitOrphan(c)
    BY <2>0, <2>15 DEF ExitOrphan
  <2>16. CASE WaitScan(c)
    BY <2>16, WaitWaitScan
  <2>17. CASE WaitFree(c)
    BY <2>0, <2>17 DEF WaitFree
  <2>18. CASE WaitSleep(c)
    BY <2>0, <2>18 DEF WaitSleep, Sleep
  <2>19. CASE ReadSleep(c) \/ SysIget(c) \/ IgetWoken(c)
    BY <2>0, <2>19 DEF ReadSleep, SysIget, IgetWoken, Sleep
  <2>20. CASE WaitWoken(c) \/ ReadWoken(c)
    BY <2>0, <2>20 DEF WaitWoken, ReadWoken, Woken
  <2>21. CASE \E k \in 1 .. MAXPID : SysKill(c, k)
    BY <2>0, <2>21 DEF SysKill
  <2>22. CASE KillScan(c) \/ KillTest(c)
    BY <2>0, <2>22 DEF KillScan, KillTest
  <2>23. CASE KillWrite(c)
    BY <2>0, <2>23 DEF KillWrite
  <2>24. CASE Wakeup(c)
    <3>1. wk[c] \in Frames /\ wk[c] # NULL /\ pc[c] = "exit_wake" /\ Cur(c) \in Slot
      BY <2>0, <2>24 DEF Wakeup, IInv, PlaceOK, ProcessPc
    <3> QED BY <2>24, WaitWakeup
  <2> QED BY <1>1, <2>1, <2>2, <2>3, <2>4, <2>5, <2>6, <2>7, <2>8, <2>9, <2>10, <2>11, <2>12,
       <2>13, <2>14, <2>15, <2>16, <2>17, <2>18, <2>19, <2>20, <2>21, <2>22, <2>23, <2>24 DEF Execute, Scheduler, Kernel, Syscall
<1>2. CASE UartIntr
  BY <1>2, WaitUart
<1>3. CASE Consoleintr
  <2>1. irq \in Frames /\ irq # NULL /\ pc[CPU0] \in IrqPc /\ (\A c \in CPU : c = CPU0)
    BY <1>3 DEF Consoleintr, IInv, PlaceOK, OneCpu
  <2> QED BY <1>3, <2>1 DEF Consoleintr, After, Finds, Written, Frames, IrqPc
<1> QED BY <1>1, <1>2, <1>3 DEF Next

\* The inductive invariants hold in every reachable state.
THEOREM SpecLifeInv == ASSUME OneCpu PROVE Spec => [](IInv /\ LifeInv)
<1>1. Init => LifeInv
  BY SlotFacts DEF Init, LifeInv, StageInv, FoundInv, FrameInv, Cur, ExitPc, ForkPc
<1>2. IInv /\ LifeInv /\ [Next]_vars => LifeInv'
  <2>1. ASSUME LifeInv, UNCHANGED vars PROVE LifeInv'
    BY <2>1 DEF vars, procVars, cpuVars, loopVars, wakeVars, LifeInv, StageInv, FoundInv,
       FrameInv, Cur
  <2>2. ASSUME IInv, LifeInv, Next PROVE LifeInv'
    BY <2>2, StageStep, FoundStep, FrameStep DEF LifeInv
  <2> QED BY <2>1, <2>2
<1> QED BY <1>1, <1>2, SpecInv, PTL DEF Spec

\* PidInv and WaitInv hold when nobody leaves children behind.
THEOREM SpecKinInv ==
  ASSUME OneCpu, ~Orphaning PROVE Spec => [](PidInv /\ WaitInv)
<1>1. Init => PidInv /\ WaitInv
  BY SlotFacts DEF Init, PidInv, PidsUnique, HasKids, WaitInv, NoLostExit, AsleepInWait, OnCpu,
     ZombieKids, Cur, ExitPc
<1>2. IInv /\ LifeInv /\ PidInv /\ WaitInv /\ [Next]_vars => PidInv' /\ WaitInv'
  <2>1. ASSUME PidInv, WaitInv, UNCHANGED vars PROVE PidInv' /\ WaitInv'
    BY <2>1 DEF vars, procVars, cpuVars, loopVars, wakeVars, PidInv, PidsUnique, HasKids,
       WaitInv, NoLostExit, AsleepInWait, OnCpu, ZombieKids, Cur
  <2> QED BY PidStep, WaitStep, <2>1
<1>3. Spec => [](IInv /\ LifeInv)
  BY SpecLifeInv
<1> QED BY <1>1, <1>2, <1>3, PTL DEF Spec

\* proc_exit() never comes back from sched() on one CPU, orphans or not: nobody
\* makes a zombie RUNNABLE, and sys_fork() resets the context before the state.
THEOREM ExitIsFinal == ASSUME OneCpu PROVE Spec => []ExitNeverReturns
<1>1. IInv /\ LifeInv => ExitNeverReturns
  BY DEF LifeInv, StageInv, ExitNeverReturns
<1> QED BY <1>1, SpecLifeInv, PTL

\* A process that could run stays so until the scheduler takes it (one CPU).
THEOREM ReadyIsKept == ASSUME OneCpu PROVE Spec => ReadyKept
<1> DEFINE Kept == \A p \in Slot : state[p] = "RUNNABLE" /\ ~OnCpu(p)
                                     => state'[p] = "RUNNABLE" \/ OnCpu(p)'
<1>1. IInv /\ LifeInv /\ [Next]_vars => [Kept]_vars
  <2> SUFFICES ASSUME IInv, LifeInv, Next PROVE Kept
    OBVIOUS
  <2> USE SlotFacts DEF DataOK, OnCpu, Cur
  <2>1. CASE UartIntr
    BY <2>1 DEF UartIntr, procVars
  <2>2. CASE Consoleintr
    BY <2>2 DEF Consoleintr, Written, IInv
  <2>3. ASSUME NEW c \in CPU, Execute(c) \/ Timer(c) \/ Syscall(c) PROVE Kept
    <3>1. CASE Wakeup(c)
      BY <3>1 DEF Wakeup, Written, IInv
    <3>2. CASE Scheduler(c)
      <4>1. CASE Dispatch(c)
        BY <4>1 DEF Dispatch, IInv
      <4>2. CASE ~Dispatch(c)
        BY <3>2, <4>2 DEF Scheduler, Top, ScanEnd, Acquire, Test, Release, Sched, procVars
      <4> QED BY <4>1, <4>2
    <3>3. CASE WaitFree(c)
      BY <3>3 DEF WaitFree, At, LifeInv, FoundInv, IInv
    <3>4. CASE Kernel(c) /\ ~WaitFree(c)
      BY <3>4 DEF Kernel, Forkret, ForkScan, ForkPid, ForkAlloc, ForkCopy, ForkRun, ExitWake,
         ExitKids, ExitOrphan, WaitScan, WaitSleep, WaitWoken, KillScan, KillTest, KillWrite,
         ReadScan, ReadSleep, ReadWoken, IgetWoken, Sleep, Woken, procVars, IInv
    <3>5. CASE Timer(c) \/ Syscall(c)
      BY <3>5 DEF Timer, Syscall, SysExec, SysFork, SysExit, SysWait, SysRead, SysIget, SysSpin,
         SysKill, Sleep, procVars, IInv
    <3> QED BY <2>3, <3>1, <3>2, <3>3, <3>4, <3>5 DEF Execute
  <2> QED BY <2>1, <2>2, <2>3 DEF Next
<1>2. ReadyKept <=> [][Kept]_vars
  BY DEF ReadyKept
<1> QED BY <1>1, <1>2, SpecLifeInv, PTL DEF Spec

\* allocpid() gives every live process a pid of its own: one CPU, and parents
\* that collect their children before they exit.
THEOREM PidsAreUnique == ASSUME OneCpu, ~Orphaning PROVE Spec => []PidsUnique
<1>1. PidInv /\ WaitInv => PidsUnique
  BY DEF PidInv
<1> QED BY <1>1, SpecKinInv, PTL

\* No exit is lost on a parent asleep in proc_wait(), without any lock.
THEOREM NoExitLost == ASSUME OneCpu, ~Orphaning PROVE Spec => []NoLostExit
<1>1. PidInv /\ WaitInv => NoLostExit
  BY DEF WaitInv
<1> QED BY <1>1, SpecKinInv, PTL
=============================================================================
