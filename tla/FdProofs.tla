------------------------------ MODULE FdProofs ------------------------------
(***************************************************************************)
(* Proofs about Fd for tables of any length, any files and pipes.          *)
(***************************************************************************)
EXTENDS Fd, FiniteSetTheorems, TLAPS

\* The open entries of fds[] that refer to inode i.
OpenOn(i) == {f \in Fds : type[f] = "FILE" /\ obj[f] = i}

\* None of the properties is inductive alone: that a count stays positive
\* rests on the number of open entries, and these have to be of the right
\* kind.
FdInv ==
  /\ TypeOK
  /\ PipeAlive
  /\ \A f \in Fds : type[f] = "FILE" => obj[f] \in Inode
  /\ \A i \in Inode : count[i] >= Cardinality(OpenOn(i))

\* Entries are numbered from 1: 0 is none of them.
LEMMA FdsFacts == Fds \subseteq Nat /\ 0 \notin Fds /\ IsFiniteSet(Fds) /\ IsFiniteSet(Ufd)
<1>1. IsFiniteSet(1 .. NFD)
  BY FS_Interval, FdAssumption
<1>2. IsFiniteSet(0 .. NOFILE - 1)
  BY FS_Interval, FdAssumption
<1> QED BY <1>1, <1>2, FdAssumption DEF Fds, Ufd

\* The sets that are counted are finite.
LEMMA OpenOnFinite == \A i : IsFiniteSet(OpenOn(i)) /\ Cardinality(OpenOn(i)) \in Nat
<1> TAKE i
<1>1. OpenOn(i) \in SUBSET Fds BY DEF OpenOn
<1>2. IsFiniteSet(OpenOn(i)) BY <1>1, FdsFacts, FS_Subset
<1> QED BY <1>2, FS_CardinalityType

LEMMA RefsNat == \A p, f : Refs(p, f) \in Nat
<1> TAKE p, f
<1> DEFINE S == {k \in Ufd : ofile[p][k] = f}
<1>1. S \in SUBSET Ufd OBVIOUS
<1>2. IsFiniteSet(S) BY <1>1, FdsFacts, FS_Subset
<1> QED BY <1>2, FS_CardinalityType DEF Refs

\* fd_ualloc() and the assignment put an entry of fds[] into a process's table.
LEMMA InstallType ==
  ASSUME NEW table \in [Ufd -> Fds \cup {0}], NEW f \in Fds
  PROVE  Install(table, f) \in [Ufd -> Fds \cup {0}]
BY DEF Install

\* When entry f ceases to be an open file the number of entries for its inode
\* falls by one, and no other number changes.
LEMMA CountClosed ==
  ASSUME FdInv, NEW f \in Fds, type' = [type EXCEPT ![f] = "CLOSE"], UNCHANGED obj,
         NEW i
  PROVE  /\ IsFiniteSet(OpenOn(i)') /\ Cardinality(OpenOn(i)') \in Nat
         /\ Cardinality(OpenOn(i)') = IF f \in OpenOn(i) THEN Cardinality(OpenOn(i)) - 1
                                      ELSE Cardinality(OpenOn(i))
<1>1. OpenOn(i)' = OpenOn(i) \ {f}
  BY DEF OpenOn, FdInv, TypeOK
<1> QED BY <1>1, OpenOnFinite, FS_RemoveElement, FS_CardinalityType

\* fd_close() keeps the invariant, whatever the reference count says.
LEMMA FdCloseInv ==
  ASSUME FdInv, NEW f \in Fds, FdClose(f),
         ofile' \in [Slot -> [Ufd -> Fds \cup {0}]], live' \subseteq Slot,
         exiting' \in Slot \cup {NULL}, fd' \in 0 .. NOFILE, panic' \in BOOLEAN
  PROVE  FdInv'
<1> USE FdsFacts
<1>1. type' = [type EXCEPT ![f] = "CLOSE"] /\ UNCHANGED <<obj, writeable>>
  BY DEF FdClose
<1>2. \A i \in Inode : count'[i] \in Nat /\ count'[i] >= Cardinality(OpenOn(i)')
  <2> TAKE i \in Inode
  <2>1. /\ Cardinality(OpenOn(i)') \in Nat /\ Cardinality(OpenOn(i)) \in Nat
        /\ Cardinality(OpenOn(i)') = IF f \in OpenOn(i) THEN Cardinality(OpenOn(i)) - 1
                                     ELSE Cardinality(OpenOn(i))
    BY <1>1, CountClosed, OpenOnFinite
  <2>2. count[i] \in Nat /\ count[i] >= Cardinality(OpenOn(i))
    BY DEF FdInv, TypeOK
  <2>3. CASE ref[f] = 1 /\ type[f] = "FILE" /\ obj[f] = i
    <3>1. f \in OpenOn(i) /\ count'[i] = count[i] - 1
      BY <2>3 DEF FdClose, OpenOn, FdInv, TypeOK
    <3> QED BY <2>1, <2>2, <3>1
  <2>4. CASE ~(ref[f] = 1 /\ type[f] = "FILE" /\ obj[f] = i)
    <3>1. count'[i] = count[i]
      BY <2>4 DEF FdClose, FdInv, TypeOK
    <3> QED BY <2>1, <2>2, <3>1
  <2> QED BY <2>3, <2>4
<1>3. count' \in [Inode -> Nat]
  BY <1>2 DEF FdClose, FdInv, TypeOK
<1>4. popen' \in [Pipe -> SUBSET Ends]
  BY DEF FdClose, PipeClose, FdInv, TypeOK, PipeAlive
<1>5. TypeOK'
  BY <1>1, <1>3, <1>4 DEF FdClose, FdInv, TypeOK
<1>6. PipeAlive'
  BY <1>1 DEF FdClose, PipeClose, FdInv, TypeOK, PipeAlive, End
<1>8. \A g \in Fds : type'[g] = "FILE" => obj'[g] \in Inode
  BY <1>1 DEF FdInv, TypeOK
<1> QED BY <1>2, <1>5, <1>6, <1>8 DEF FdInv

\* The entries of fds[] that a step fills were free: no count falls behind.
LEMMA CountOpened ==
  ASSUME FdInv, NEW f \in Fds, IsFree(f), NEW i \in Inode, NEW j \in Inode,
         type' = [type EXCEPT ![f] = "FILE"], obj' = [obj EXCEPT ![f] = i]
  PROVE  /\ Cardinality(OpenOn(j)') \in Nat
         /\ Cardinality(OpenOn(j)') = IF j = i THEN Cardinality(OpenOn(j)) + 1
                                      ELSE Cardinality(OpenOn(j))
<1>1. f \notin OpenOn(j)
  BY DEF OpenOn, IsFree
<1>2. OpenOn(j)' = IF j = i THEN OpenOn(j) \cup {f} ELSE OpenOn(j)
  BY DEF OpenOn, FdInv, TypeOK, IsFree
<1> QED BY <1>1, <1>2, OpenOnFinite, FS_AddElement

\* A step that leaves the table fds[] and its objects alone.
LEMMA TableSame ==
  ASSUME FdInv, UNCHANGED <<fdVars, popen, count>>,
         ofile' \in [Slot -> [Ufd -> Fds \cup {0}]], live' \subseteq Slot,
         exiting' \in Slot \cup {NULL}, fd' \in 0 .. NOFILE, panic' \in BOOLEAN
  PROVE  FdInv'
BY DEF FdInv, TypeOK, PipeAlive, End, OpenOn, fdVars

LEMMA PanicInv == ASSUME FdInv, Panic PROVE FdInv'
BY TableSame DEF Panic, FdInv, TypeOK

\* sys_open() keeps the invariant.
LEMMA SysOpenInv ==
  ASSUME FdInv, NEW p \in Slot, NEW i \in Inode, NEW w \in BOOLEAN, SysOpen(p, i, w)
  PROVE  FdInv'
<1> USE FdsFacts
<1>1. CASE Panic BY <1>1, PanicInv
<1>2. CASE ~Panic
  <2> PICK f \in Fds :
        /\ IsFirst(f)
        /\ type' = [type EXCEPT ![f] = "FILE"] /\ ref' = [ref EXCEPT ![f] = 1]
        /\ obj' = [obj EXCEPT ![f] = i] /\ writeable' = [writeable EXCEPT ![f] = w]
        /\ count' = [count EXCEPT ![i] = @ + 1]
        /\ ofile' = [ofile EXCEPT ![p] = Install(@, f)]
        /\ UNCHANGED <<live, popen, exiting, fd, panic>>
    BY <1>2 DEF SysOpen
  <2>1. IsFree(f) BY DEF IsFirst
  <2>2. ofile' \in [Slot -> [Ufd -> Fds \cup {0}]]
    BY InstallType DEF FdInv, TypeOK
  <2>3. TypeOK'
    BY <2>2 DEF FdInv, TypeOK
  <2>4. PipeAlive'
    BY DEF FdInv, TypeOK, PipeAlive, End
  <2>5. \A g \in Fds : type'[g] = "FILE" => obj'[g] \in Inode
    BY DEF FdInv, TypeOK
  <2>6. ASSUME NEW j \in Inode PROVE count'[j] >= Cardinality(OpenOn(j)')
    <3>1. /\ Cardinality(OpenOn(j)') \in Nat
          /\ Cardinality(OpenOn(j)') = IF j = i THEN Cardinality(OpenOn(j)) + 1
                                       ELSE Cardinality(OpenOn(j))
      BY <2>1, CountOpened
    <3>2. count[j] \in Nat /\ count[j] >= Cardinality(OpenOn(j))
      BY DEF FdInv, TypeOK
    <3>3. count'[j] = IF j = i THEN count[j] + 1 ELSE count[j]
      BY DEF FdInv, TypeOK
    <3> QED BY <3>1, <3>2, <3>3, OpenOnFinite
  <2> QED BY <2>3, <2>4, <2>5, <2>6 DEF FdInv
<1> QED BY <1>1, <1>2

\* sys_pipe() keeps the invariant: a page that pipe_alloc() gets is referred to
\* by no open entry.
LEMMA SysPipeInv == ASSUME FdInv, NEW p \in Slot, SysPipe(p) PROVE FdInv'
<1> USE FdsFacts
<1>a. PICK f \in Fds : IsFirst(f) /\ SysPipe(p)!2!(f) BY DEF SysPipe
<1>0. IsFree(f) BY <1>a DEF IsFirst
<1>1. CASE Panic BY <1>1, PanicInv
<1>2. CASE \E g \in Fds, x \in Pipe :
             /\ IsNext(g, f) /\ popen[x] = {}
             /\ popen' = [popen EXCEPT ![x] = Ends]
             /\ type' = [type EXCEPT ![f] = "PIPE", ![g] = "PIPE"]
             /\ ref' = [ref EXCEPT ![f] = 1, ![g] = 1]
             /\ obj' = [obj EXCEPT ![f] = x, ![g] = x]
             /\ writeable' = [writeable EXCEPT ![f] = FALSE, ![g] = TRUE]
             /\ ofile' = [ofile EXCEPT ![p] = Install(Install(@, f), g)]
             /\ UNCHANGED <<live, count, exiting, fd, panic>>
  <2>0. PICK g \in Fds, x \in Pipe :
             /\ IsNext(g, f) /\ popen[x] = {}
             /\ popen' = [popen EXCEPT ![x] = Ends]
             /\ type' = [type EXCEPT ![f] = "PIPE", ![g] = "PIPE"]
             /\ ref' = [ref EXCEPT ![f] = 1, ![g] = 1]
             /\ obj' = [obj EXCEPT ![f] = x, ![g] = x]
             /\ writeable' = [writeable EXCEPT ![f] = FALSE, ![g] = TRUE]
             /\ ofile' = [ofile EXCEPT ![p] = Install(Install(@, f), g)]
             /\ UNCHANGED <<live, count, exiting, fd, panic>>
    BY <1>2
  <2>1. IsFree(g) /\ g # f BY <2>0 DEF IsNext
  <2>2. ofile' \in [Slot -> [Ufd -> Fds \cup {0}]]
    BY <2>0, InstallType DEF FdInv, TypeOK
  <2>3. /\ type' \in [Fds -> {"CLOSE", "NONE", "PIPE", "FILE"}] /\ ref' \in [Fds -> Int]
        /\ obj' \in [Fds -> Inode \cup Pipe \cup {NULL}] /\ writeable' \in [Fds -> BOOLEAN]
        /\ popen' \in [Pipe -> SUBSET Ends]
    <3>1. Ends \in SUBSET Ends OBVIOUS
    <3>2. type \in [Fds -> {"CLOSE", "NONE", "PIPE", "FILE"}]
      BY DEF FdInv, TypeOK
    <3>3. type' \in [Fds -> {"CLOSE", "NONE", "PIPE", "FILE"}]
      BY <2>0, <3>2
    <3>4. ref' \in [Fds -> Int]
      BY <2>0 DEF FdInv, TypeOK
    <3>7. writeable' \in [Fds -> BOOLEAN]
      <4>1. writeable \in [Fds -> BOOLEAN] BY DEF FdInv, TypeOK
      <4>2. [writeable EXCEPT ![f] = FALSE] \in [Fds -> BOOLEAN] BY <4>1
      <4> QED BY <2>0, <4>2
    <3>5. obj' \in [Fds -> Inode \cup Pipe \cup {NULL}]
      BY <2>0 DEF FdInv, TypeOK
    <3>6. popen' \in [Pipe -> SUBSET Ends]
      BY <2>0, <3>1 DEF FdInv, TypeOK
    <3> QED BY <3>3, <3>4, <3>5, <3>6, <3>7
  <2>4. TypeOK'
    BY <2>0, <2>2, <2>3 DEF FdInv, TypeOK
  <2>5. \A h \in Fds \ {f, g} :
          /\ type'[h] = type[h] /\ ref'[h] = ref[h] /\ obj'[h] = obj[h]
          /\ writeable'[h] = writeable[h]
    BY <2>0 DEF FdInv, TypeOK
  <2>6. /\ type'[f] = "PIPE" /\ ref'[f] = 1 /\ obj'[f] = x /\ writeable'[f] = FALSE
        /\ type'[g] = "PIPE" /\ ref'[g] = 1 /\ obj'[g] = x /\ writeable'[g] = TRUE
    BY <2>0, <2>1 DEF FdInv, TypeOK
  <2>8. PipeAlive'
    <3>1. \A h \in Fds : type[h] = "PIPE" => obj[h] # x
      BY <2>0 DEF FdInv, PipeAlive
    <3>2. popen'[x] = Ends /\ \A y \in Pipe \ {x} : popen'[y] = popen[y]
      BY <2>0 DEF FdInv, TypeOK
    <3>3. End(f)' = "r" /\ End(g)' = "w" /\ \A h \in Fds \ {f, g} : End(h)' = End(h)
      BY <2>5, <2>6 DEF End
    <3> QED BY <2>5, <2>6, <3>1, <3>2, <3>3 DEF FdInv, PipeAlive, Ends
  <2>9. \A h \in Fds : type'[h] = "FILE" => obj'[h] \in Inode
    BY <2>5, <2>6 DEF FdInv
  <2>7. ASSUME NEW j \in Inode PROVE OpenOn(j)' = OpenOn(j)
    BY <1>0, <2>1, <2>5, <2>6 DEF OpenOn, IsFree
  <2> QED BY <2>0, <2>4, <2>7, <2>8, <2>9 DEF FdInv
<1>3. CASE /\ type' = [type EXCEPT ![f] = "NONE"] /\ ref' = [ref EXCEPT ![f] = 1]
           /\ ofile' = [ofile EXCEPT ![p] = Install(@, f)]
           /\ UNCHANGED <<obj, writeable, live, popen, count, exiting, fd, panic>>
  <2>1. ofile' \in [Slot -> [Ufd -> Fds \cup {0}]]
    BY <1>3, InstallType DEF FdInv, TypeOK
  <2>2. TypeOK'
    BY <1>3, <2>1 DEF FdInv, TypeOK
  <2>3. PipeAlive'
    BY <1>3 DEF FdInv, TypeOK, PipeAlive, End
  <2>4. \A h \in Fds : type'[h] = "FILE" => obj'[h] \in Inode
    BY <1>3 DEF FdInv, TypeOK
  <2>5. ASSUME NEW j \in Inode PROVE OpenOn(j)' = OpenOn(j)
    BY <1>0, <1>3 DEF OpenOn, FdInv, TypeOK, IsFree
  <2> QED BY <1>3, <2>2, <2>3, <2>4, <2>5 DEF FdInv
<1> QED BY <1>a, <1>1, <1>2, <1>3

\* copyproc() only adds references.
LEMMA SysForkInv ==
  ASSUME FdInv, NEW p \in Slot, NEW q \in Slot, SysFork(p, q) PROVE FdInv'
<1>1. \A f \in Fds : ref'[f] \in Int /\ ref'[f] >= ref[f]
  BY RefsNat DEF SysFork, FdInv, TypeOK
<1>2. TypeOK'
  BY <1>1 DEF SysFork, FdInv, TypeOK
<1>3. PipeAlive'
  BY DEF SysFork, FdInv, PipeAlive, End
<1>5. \A i \in Inode : OpenOn(i)' = OpenOn(i)
  BY DEF SysFork, OpenOn
<1> QED BY <1>2, <1>3, <1>5 DEF FdInv, SysFork

\* Closing, by close() or by the loop of proc_exit().
LEMMA CloseInv ==
  ASSUME FdInv, ExitClose \/ \E p \in Slot, k \in Ufd : SysClose(p, k) PROVE FdInv'
<1>1. CASE ExitClose
  <2> DEFINE f == ofile[exiting][fd]
  <2>1. exiting \in Slot /\ fd \in Ufd /\ fd + 1 \in 0 .. NOFILE
    BY <1>1, FdAssumption DEF ExitClose, FdInv, TypeOK, Ufd
  <2>2. f \in Fds \cup {0}
    BY <2>1 DEF FdInv, TypeOK
  <2>3. CASE f = 0 /\ UNCHANGED <<fdVars, ofile, popen, count>>
    BY <1>1, <2>1, <2>3, TableSame DEF ExitClose, FdInv, TypeOK
  <2>4. CASE f # 0 /\ FdClose(f) /\ ofile' = [ofile EXCEPT ![exiting][fd] = 0]
    <3>1. ofile' \in [Slot -> [Ufd -> Fds \cup {0}]]
      BY <2>1, <2>4 DEF FdInv, TypeOK
    <3>2. /\ live' \subseteq Slot /\ exiting' \in Slot \cup {NULL}
          /\ fd' \in 0 .. NOFILE /\ panic' \in BOOLEAN
      BY <1>1, <2>1 DEF ExitClose, FdInv, TypeOK
    <3> PICK g \in Fds : g = f BY <2>2, <2>4
    <3> QED BY <2>4, <3>1, <3>2, FdCloseInv
  <2> QED BY <1>1, <2>3, <2>4 DEF ExitClose
<1>2. ASSUME NEW p \in Slot, NEW k \in Ufd, SysClose(p, k) PROVE FdInv'
  <2>1. CASE Panic BY <2>1, PanicInv
  <2>2. CASE ~Panic
    <3> PICK f \in Fds : f = ofile[p][k]
      BY <1>2, <2>2 DEF SysClose, FdInv, TypeOK
    <3>1. FdClose(f) /\ UNCHANGED <<live, exiting, fd, panic>>
      BY <1>2, <2>2 DEF SysClose
    <3>2. ofile' = [ofile EXCEPT ![p][k] = 0]
      BY <1>2, <2>2 DEF SysClose
    <3>3. ofile' \in [Slot -> [Ufd -> Fds \cup {0}]]
      BY <1>2, <3>2 DEF FdInv, TypeOK
    <3> QED BY <3>1, <3>3, FdCloseInv DEF FdInv, TypeOK
  <2> QED BY <2>1, <2>2
<1> QED BY <1>1, <1>2

LEMMA FdInitInv == Init => FdInv
<1> SUFFICES ASSUME Init PROVE FdInv OBVIOUS
<1>1. TypeOK
  <2>1. 0 \in Slot /\ 0 \in 0 .. NOFILE
    BY FdAssumption DEF Slot
  <2>2. ofile \in [Slot -> [Ufd -> Fds \cup {0}]]
    BY DEF Init
  <2>3. popen \in [Pipe -> SUBSET Ends] /\ live \subseteq Slot
    BY <2>1 DEF Init
  <2>4. writeable \in [Fds -> BOOLEAN] /\ panic \in BOOLEAN
    BY Zenon DEF Init
  <2>5. /\ type \in [Fds -> {"CLOSE", "NONE", "PIPE", "FILE"}] /\ ref \in [Fds -> Int]
        /\ obj \in [Fds -> Inode \cup Pipe \cup {NULL}] /\ count \in [Inode -> Nat]
        /\ exiting \in Slot \cup {NULL} /\ fd \in 0 .. NOFILE
    BY <2>1 DEF Init
  <2> QED BY <2>2, <2>3, <2>4, <2>5 DEF TypeOK
<1>2. \A i \in Inode : OpenOn(i) = {}
  BY DEF Init, OpenOn
<1>3. \A i \in Inode : count[i] >= Cardinality(OpenOn(i))
  <2>1. Cardinality({}) = 0 BY FS_EmptySet
  <2>2. \A i \in Inode : count[i] = 0 /\ Cardinality(OpenOn(i)) = 0
    BY <1>2, <2>1 DEF Init
  <2> QED BY <2>2
<1> QED BY <1>1, <1>3 DEF Init, FdInv, PipeAlive

\* FdInv is inductive.
LEMMA FdNextInv == FdInv /\ [Next]_vars => FdInv'
<1> SUFFICES ASSUME FdInv, [Next]_vars PROVE FdInv' OBVIOUS
<1>1. CASE ExitClose \/ \E p \in Slot, k \in Ufd : SysClose(p, k)
  BY <1>1, CloseInv
<1>2. CASE ExitDone
  BY <1>2, TableSame, FdAssumption DEF ExitDone, FdInv, TypeOK
<1>3. CASE \E p \in Slot : SysExit(p)
  BY <1>3, TableSame DEF SysExit, FdInv, TypeOK
<1>4. CASE \E p \in Slot, k \in Ufd : SysRead(p, k) \/ SysWrite(p, k)
  BY <1>4, PanicInv DEF SysRead, SysWrite
<1>5. CASE UNCHANGED vars
  BY <1>5, TableSame DEF vars, FdInv, TypeOK
<1> QED BY <1>1, <1>2, <1>3, <1>4, <1>5, SysPipeInv, SysForkInv, SysOpenInv DEF Next

\* The inductive invariant holds in every reachable state.
THEOREM FdSpecInv == Spec => []FdInv
BY FdInitInv, FdNextInv, PTL DEF Spec

\* The types of Fd, and with them that no count of an inode falls below zero.
THEOREM FdTypeCorrect == Spec => []TypeOK
<1>1. FdInv => TypeOK BY DEF FdInv
<1> QED BY <1>1, FdSpecInv, PTL

\* pipe_close() never frees a pipe that an open descriptor refers to, and no
\* end is closed twice, whatever fork() does to the reference counts.
THEOREM PipesAlive == Spec => []PipeAlive
<1>1. FdInv => PipeAlive BY DEF FdInv
<1> QED BY <1>1, FdSpecInv, PTL

\* An inode's count covers the open entries of fds[] that refer to it.
THEOREM InodesCounted == Spec => []InodeCounted
<1>1. FdInv => InodeCounted BY DEF FdInv, InodeCounted, OpenOn
<1> QED BY <1>1, FdSpecInv, PTL
=============================================================================
