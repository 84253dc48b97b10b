---------------------------------- MODULE Fd ----------------------------------
(***************************************************************************)
(* File descriptors: the system-wide table of kernel/fd.c, the tables of   *)
(* the processes, the life of pipes (kernel/pipe.c) and the references     *)
(* that open files hold on inodes, under open, close, pipe, read, write,   *)
(* fork and exit.                                                          *)
(*                                                                         *)
(* One CPU; none of these calls is preempted.  The loop of proc_exit()     *)
(* that closes the descriptors is one action per round, and nothing else   *)
(* happens until it ends.  Entry 0 of a process's table is the null        *)
(* pointer; a kernel access through it panics.  What is in a file or a     *)
(* pipe, and `readable` (fd_read() then only returns -1), are left out.    *)
(***************************************************************************)
EXTENDS Integers, FiniteSets

CONSTANTS NPROC,     \* length of proc[]
          NFD,       \* length of fds[]
          NOFILE,    \* length of a process's table
          Inode,     \* the files
          Pipe,      \* the pages that kalloc() can still give to pipes
          MAXREF,    \* bound on a reference count: no fork() beyond it
          MAXCOUNT,  \* bound on an inode's count: no open() beyond it
          NULL

ASSUME FdAssumption ==
  /\ NPROC \in Nat \ {0} /\ NFD \in Nat \ {0} /\ NOFILE \in Nat \ {0}
  /\ MAXREF \in Nat /\ MAXCOUNT \in Nat
  /\ NULL \notin Inode \cup Pipe

Slot == 0 .. NPROC - 1
Fds  == 1 .. NFD
Ufd  == 0 .. NOFILE - 1
Ends == {"r", "w"} \* of a pipe

VARIABLES type, ref, obj, writeable, \* the fields of struct fd
          ofile,  \* p->fds: the struct fd of each descriptor, 0 for none
          live,   \* the slots that hold a process (not UNUSED, not ZOMBIE)
          popen,  \* the ends of a pipe that are open; {}: the page is free
          count,  \* ip->count
          exiting,\* the process in proc_exit(), NULL for none
          fd,     \* proc_exit()'s loop variable
          panic

fdVars == <<type, ref, obj, writeable>>
vars == <<fdVars, ofile, live, popen, count, exiting, fd, panic>>

Init ==
  /\ type = [f \in Fds |-> "CLOSE"] /\ ref = [f \in Fds |-> 0]
  /\ obj = [f \in Fds |-> NULL]
  /\ writeable = [f \in Fds |-> FALSE]
  /\ ofile = [p \in Slot |-> [k \in Ufd |-> 0]]
  /\ live = {0}
  /\ popen = [x \in Pipe |-> {}]
  /\ count = [i \in Inode |-> 0]
  /\ exiting = NULL /\ fd = 0 /\ panic = FALSE
-----------------------------------------------------------------------------
Runs(p) == ~panic /\ exiting = NULL /\ p \in live

Panic == /\ panic' = TRUE
         /\ UNCHANGED <<fdVars, ofile, live, popen, count, exiting, fd>>

\* fd_alloc() returns the first free entry of fds[].
IsFree(f)  == type[f] = "CLOSE"
IsFirst(f) == IsFree(f) /\ \A g \in Fds : g < f => ~IsFree(g)
IsNext(g, f) == g > f /\ IsFree(g) /\ \A h \in Fds : f < h /\ h < g => ~IsFree(h)

\* fd_ualloc(), then p->fds[n] = f.  With a full table n is -1 and the
\* reference is lost (the word before p->fds is the saved x30).
Install(table, f) ==
  [k \in Ufd |-> IF table[k] = 0 /\ \A i \in Ufd : i < k => table[i] # 0
                   THEN f ELSE table[k]]
-----------------------------------------------------------------------------
(* fd_close(), pipe_close(), file_close()                                   *)

\* pipe_close(): the page is freed when the second end closes.
PipeClose(x, end) == popen' = [popen EXCEPT ![x] = @ \ {end}]

\* Bug: the object is closed with the first reference, not with the last.
FdCloseFirst(f) ==
  /\ ref' = [ref EXCEPT ![f] = @ - 1]
  /\ IF type[f] = "PIPE"
       THEN PipeClose(obj[f], IF writeable[f] THEN "w" ELSE "r")
       ELSE UNCHANGED popen
  /\ IF type[f] = "FILE"
       THEN count' = [count EXCEPT ![obj[f]] = @ - 1]
       ELSE UNCHANGED count
  /\ type' = [type EXCEPT ![f] = IF ref[f] = 1 THEN "CLOSE" ELSE @]
  /\ UNCHANGED <<obj, writeable>>

\* The entry becomes free even when other references to it remain.
FdClose(f) ==
  /\ ref' = [ref EXCEPT ![f] = @ - 1]
  /\ IF ref[f] = 1 /\ type[f] = "PIPE"
       THEN PipeClose(obj[f], IF writeable[f] THEN "w" ELSE "r")
       ELSE UNCHANGED popen
  /\ IF ref[f] = 1 /\ type[f] = "FILE"
       THEN count' = [count EXCEPT ![obj[f]] = @ - 1]
       ELSE UNCHANGED count
  /\ type' = [type EXCEPT ![f] = "CLOSE"]
  /\ UNCHANGED <<obj, writeable>>

\* sys_close()
SysClose(p, k) ==
  /\ Runs(p)
  /\ \/ ofile[p][k] = 0 /\ Panic
     \/ /\ ofile[p][k] # 0
        /\ FdClose(ofile[p][k])
        /\ ofile' = [ofile EXCEPT ![p][k] = 0]
        /\ UNCHANGED <<live, exiting, fd, panic>>
-----------------------------------------------------------------------------
(* sys_open(), sys_pipe()                                                   *)

\* Bug: sys_open() puts the inode instead of unlocking it.
SysOpenPut(p, i, w) ==
  /\ Runs(p) /\ count[i] < MAXCOUNT
  /\ \E f \in Fds :
       /\ IsFirst(f)
       /\ type' = [type EXCEPT ![f] = "FILE"]
       /\ ref' = [ref EXCEPT ![f] = 1]
       /\ obj' = [obj EXCEPT ![f] = i]
       /\ writeable' = [writeable EXCEPT ![f] = w]
       /\ ofile' = [ofile EXCEPT ![p] = Install(@, f)]
  /\ UNCHANGED <<count, live, popen, exiting, fd, panic>>

\* sys_open() of an existing or a created file i; namei() or mknod() has
\* counted the reference.  fd_alloc() of a full table returns 0.
SysOpen(p, i, w) ==
  /\ Runs(p) /\ count[i] < MAXCOUNT
  /\ \/ (\A f \in Fds : ~IsFree(f)) /\ Panic
     \/ /\ \E f \in Fds :
             /\ IsFirst(f)
             /\ type' = [type EXCEPT ![f] = "FILE"]
             /\ ref' = [ref EXCEPT ![f] = 1]
             /\ obj' = [obj EXCEPT ![f] = i]
             /\ writeable' = [writeable EXCEPT ![f] = w]
             /\ count' = [count EXCEPT ![i] = @ + 1]
             /\ ofile' = [ofile EXCEPT ![p] = Install(@, f)]
        /\ UNCHANGED <<live, popen, exiting, fd, panic>>

\* sys_pipe() ignores what pipe_alloc() returns: with one free entry left it
\* installs that entry, FD_NONE, without a pipe; with none it does nothing.
SysPipe(p) ==
  /\ Runs(p)
  /\ \E f \in Fds :
       /\ IsFirst(f)
       /\ \/ /\ \A g \in Fds : ~IsNext(g, f)
             /\ type' = [type EXCEPT ![f] = "NONE"]
             /\ ref' = [ref EXCEPT ![f] = 1]
             /\ ofile' = [ofile EXCEPT ![p] = Install(@, f)]
             /\ UNCHANGED <<obj, writeable, live, popen, count,
                            exiting, fd, panic>>
          \/ (\E g \in Fds : IsNext(g, f)) /\ (\A x \in Pipe : popen[x] # {}) /\ Panic
          \/ \E g \in Fds, x \in Pipe :
               /\ IsNext(g, f) /\ popen[x] = {}
               /\ popen' = [popen EXCEPT ![x] = Ends]
               /\ type' = [type EXCEPT ![f] = "PIPE", ![g] = "PIPE"]
               /\ ref' = [ref EXCEPT ![f] = 1, ![g] = 1]
               /\ obj' = [obj EXCEPT ![f] = x, ![g] = x]
               /\ writeable' = [writeable EXCEPT ![f] = FALSE, ![g] = TRUE]
               /\ ofile' = [ofile EXCEPT ![p] = Install(Install(@, f), g)]
               /\ UNCHANGED <<live, count, exiting, fd, panic>>

\* sys_read() and sys_write() leave the tables alone, or panic: through a
\* null pointer, or in fd_write() of a descriptor that is not open.
SysRead(p, k)  == Runs(p) /\ ofile[p][k] = 0 /\ Panic
SysWrite(p, k) ==
  /\ Runs(p)
  /\ LET f == ofile[p][k]
     IN  f # 0 => writeable[f] /\ type[f] \notin {"PIPE", "FILE"}
  /\ Panic
-----------------------------------------------------------------------------
(* The descriptors in copyproc() and proc_exit()                            *)

Refs(p, f) == Cardinality({k \in Ufd : ofile[p][k] = f})

\* copyproc() shares every descriptor of p with the new process in slot q
\* (free, or freed since by proc_wait()).
SysFork(p, q) ==
  /\ Runs(p) /\ q \in Slot \ live
  /\ \A f \in Fds : ref[f] + Refs(p, f) <= MAXREF
  /\ live' = live \cup {q}
  /\ ofile' = [ofile EXCEPT ![q] = ofile[p]]
  /\ ref' = [f \in Fds |-> ref[f] + Refs(p, f)]
  /\ UNCHANGED <<type, obj, writeable, popen, count, exiting, fd, panic>>

\* The loop variable has no initial value.  From NOFILE on nothing is closed;
\* a negative start, which would take the words of struct proc before fds[]
\* for descriptors, is left out.
SysExit(p) ==
  /\ Runs(p)
  /\ exiting' = p
  /\ fd' \in 0 .. NOFILE
  /\ UNCHANGED <<fdVars, ofile, live, popen, count, panic>>

ExitClose ==
  /\ exiting # NULL /\ fd < NOFILE
  /\ fd' = fd + 1
  /\ LET f == ofile[exiting][fd]
     IN  \/ f = 0 /\ UNCHANGED <<fdVars, ofile, popen, count>>
         \/ f # 0 /\ FdClose(f) /\ ofile' = [ofile EXCEPT ![exiting][fd] = 0]
  /\ UNCHANGED <<live, exiting, panic>>

ExitDone ==
  /\ exiting # NULL /\ fd = NOFILE
  /\ live' = live \ {exiting}
  /\ exiting' = NULL /\ fd' = 0
  /\ UNCHANGED <<fdVars, ofile, popen, count, panic>>

Next ==
  \/ ExitClose \/ ExitDone
  \/ \E p \in Slot :
       \/ SysPipe(p) \/ SysExit(p)
       \/ \E q \in Slot : SysFork(p, q)
       \/ \E k \in Ufd : SysClose(p, k) \/ SysRead(p, k) \/ SysWrite(p, k)
       \/ \E i \in Inode, w \in BOOLEAN : SysOpen(p, i, w)

Spec == Init /\ [][Next]_vars
-----------------------------------------------------------------------------
(* Properties                                                               *)

\* Type invariant; file_close() never takes an inode's count below zero.
TypeOK ==
  /\ type \in [Fds -> {"CLOSE", "NONE", "PIPE", "FILE"}]
  /\ ref \in [Fds -> Int]
  /\ obj \in [Fds -> Inode \cup Pipe \cup {NULL}]
  /\ writeable \in [Fds -> BOOLEAN]
  /\ ofile \in [Slot -> [Ufd -> Fds \cup {0}]]
  /\ live \subseteq Slot
  /\ popen \in [Pipe -> SUBSET Ends]
  /\ count \in [Inode -> Nat]
  /\ exiting \in Slot \cup {NULL} /\ fd \in 0 .. NOFILE
  /\ panic \in BOOLEAN

End(f) == IF writeable[f] THEN "w" ELSE "r"

\* No use after free and no double free of a pipe: an open pipe descriptor
\* refers to a page that is still allocated, its end is open, and no other
\* descriptor will close the same end - although the reference counts are
\* wrong after fork() (see HandleOpen).
PipeAlive ==
  \A f \in Fds : type[f] = "PIPE" =>
    /\ obj[f] \in Pipe /\ End(f) \in popen[obj[f]]
    /\ \A g \in Fds \ {f} : type[g] = "PIPE" /\ obj[g] = obj[f] => End(g) # End(f)

\* An inode in use by an open file is never given up: its count is at least
\* the number of open entries of fds[] that refer to it.
InodeCounted ==
  \A i \in Inode :
    count[i] >= Cardinality({f \in Fds : type[f] = "FILE" /\ obj[f] = i})

\* fd.h: "reference count".  While a process refers to an entry of fds[] the
\* entry is not free: fd_alloc() cannot give it to somebody else.
HandleOpen ==
  \A p \in live, k \in Ufd : ofile[p][k] # 0 => type[ofile[p][k]] # "CLOSE"
=============================================================================
