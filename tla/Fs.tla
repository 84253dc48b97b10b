---------------------------------- MODULE Fs ----------------------------------
(***************************************************************************)
(* The file system: the inode table, the block bitmap, files and the root  *)
(* directory of kernel/fs.c, under open, mknod, read, write, close and the *)
(* lookups of exec and unlink, starting from a disk that mkfs/mkfs.c has   *)
(* made.                                                                   *)
(*                                                                         *)
(* One CPU.  A call sleeps in the file system only in iget(), and then it  *)
(* sleeps holding inode_table_lock: iput() and iunlock(), which could wake *)
(* it up, need that lock, so the table is `stuck` from then on.  All other *)
(* calls run to their end without being preempted: one action each.        *)
(*                                                                         *)
(* A file is written and read a block at a time; a block's contents are a  *)
(* value.  Every lookup also loads the root directory into a free slot and *)
(* gives it back; the fields of a slot whose count is 0 are never read, so *)
(* that is left out, but for the slot a created file cannot have.  Device  *)
(* numbers, nlink, buffers and the entries "." and ".." are left out.      *)
(***************************************************************************)
EXTENDS Naturals, Sequences, FiniteSets

CONSTANTS NINODE,   \* length of inode[]
          NINUM,    \* sb.ninodes
          NBLOCK,   \* data blocks of the disk
          NDIRECT,  \* direct blocks of an inode; addrs[NDIRECT] is indirect
          DIRCAP,   \* entries in the blocks of the root directory
          Name, Value, Handle,
          SH,       \* the name of the program that mkfs has put on the disk
          MAXCOUNT, \* bound on the references to an inode
          NULL

ASSUME FsAssumption ==
  /\ NINODE \in Nat \ {0} /\ NINUM \in Nat \ {0, 1, 2} /\ NBLOCK \in Nat \ {0}
  /\ NDIRECT \in Nat \ {0} /\ DIRCAP \in Nat \ {0}
  /\ SH \in Name /\ NULL \notin Value \cup Nat /\ MAXCOUNT \in Nat \ {0}
  /\ IsFiniteSet(Handle)

Slot  == 0 .. NINODE - 1
Inum  == 1 .. NINUM     \* ialloc() reaches ninodes itself: see IallocNum
Block == 1 .. NBLOCK
Lbn   == 0 .. NDIRECT   \* block numbers within a file

VARIABLES itype, inum, count, busy, size, addrs, \* struct inode
          dtype, dsize, daddrs,                  \* struct dinode
          used,   \* the bitmap
          data,   \* the contents of the data blocks
          dir,    \* the root directory: a sequence of <<name, inum>>
          super,  \* the superblock is intact
          ip, off,\* struct fd of the open files
          stuck,  \* the inode that a process holding inode_table_lock waits for
          panic,
          opened,  \* history: the file that a handle was opened on
          written, \* history: what was last written to each file
          execd    \* history: the files that exec() has looked up

slotVars == <<itype, inum, count, busy, size, addrs>>
diskVars == <<dtype, dsize, daddrs, used, data, dir, super>>
fileVars == <<ip, off, opened>>
vars == <<slotVars, diskVars, fileVars, stuck, panic, written, execd>>

NoBlocks == [l \in Lbn |-> 0]

\* mkfs: the root directory is inode 1 (its blocks are left out), the program
\* inode 2 with one block.
Init ==
  /\ itype = [s \in Slot |-> "free"] /\ inum = [s \in Slot |-> 1]
  /\ count = [s \in Slot |-> 0]      /\ busy = [s \in Slot |-> FALSE]
  /\ size = [s \in Slot |-> 0]       /\ addrs = [s \in Slot |-> NoBlocks]
  /\ dtype = [i \in Inum |-> CASE i = 1 -> "dir" [] i = 2 -> "file" [] OTHER -> "free"]
  /\ dsize = [i \in Inum |-> IF i = 2 THEN 1 ELSE 0]
  /\ daddrs = [i \in Inum |-> [l \in Lbn |-> IF i = 2 /\ l = 0 THEN 1 ELSE 0]]
  /\ used = {1}
  /\ data = [b \in Block |-> NULL]
  /\ dir = <<<<SH, 2>>>>
  /\ super = TRUE
  /\ ip = [h \in Handle |-> NULL] /\ off = [h \in Handle |-> 0]
  /\ stuck = NULL /\ panic = FALSE
  /\ opened = [h \in Handle |-> 0]
  /\ written = [i \in Inum |-> [l \in Lbn |-> NULL]]
  /\ execd = {}
-----------------------------------------------------------------------------
\* A call enters the kernel: the machine has not stopped, the lock can be had
\* and the superblock still says where things are.
Enter == ~panic /\ stuck = NULL /\ super

Panic == /\ panic' = TRUE
         /\ UNCHANGED <<slotVars, diskVars, fileVars, stuck, written, execd>>
Hang(i) == /\ stuck' = i
           /\ UNCHANGED <<slotVars, diskVars, fileVars, panic, written, execd>>

Active(i) == {s \in Slot : count[s] > 0 /\ inum[s] = i}
Free      == {s \in Slot : count[s] = 0}
IsFirst(s, S) == s \in S /\ \A t \in S : s <= t

\* Bug: iget() always takes a fresh slot.
IgetFresh(i, s, taken) == IsFirst(s, Free \ taken)

\* iget(i): the slot s that it returns when the slots in `taken` are in use.
Iget(i, s, taken) ==
  /\ IF Active(i) # {} THEN IsFirst(s, Active(i)) ELSE IsFirst(s, Free \ taken)
  /\ ~(s \in Active(i) /\ busy[s])
  /\ count[s] < MAXCOUNT
IgetHangs(i) == \E s \in Slot : IsFirst(s, Active(i)) /\ busy[s]
IgetFull(i, taken) == Active(i) = {} /\ Free \ taken = {}

\* Bug: the count of a slot in use is set to 1, not incremented.
LoadCountOne(s, i, stays) ==
  /\ inum'  = [inum EXCEPT ![s] = i]
  /\ count' = [count EXCEPT ![s] = 1]
  /\ busy'  = [busy EXCEPT ![s] = stays]
  /\ itype' = [itype EXCEPT ![s] = IF s \in Active(i) THEN @ ELSE dtype'[i]]
  /\ size'  = [size EXCEPT ![s] = IF s \in Active(i) THEN @ ELSE dsize'[i]]
  /\ addrs' = [addrs EXCEPT ![s] = IF s \in Active(i) THEN @ ELSE daddrs'[i]]

\* Bug: the inode is not unlocked.
LoadLocked(s, i, stays) ==
  /\ inum'  = [inum EXCEPT ![s] = i]
  /\ count' = [count EXCEPT ![s] = @ + 1]
  /\ busy'  = [busy EXCEPT ![s] = TRUE]
  /\ itype' = [itype EXCEPT ![s] = IF s \in Active(i) THEN @ ELSE dtype'[i]]
  /\ size'  = [size EXCEPT ![s] = IF s \in Active(i) THEN @ ELSE dsize'[i]]
  /\ addrs' = [addrs EXCEPT ![s] = IF s \in Active(i) THEN @ ELSE daddrs'[i]]

\* The fields of slot s after iget(i), and after iunlock() unless it stays busy.
Load(s, i, stays) ==
  /\ inum'  = [inum EXCEPT ![s] = i]
  /\ count' = [count EXCEPT ![s] = @ + 1]
  /\ busy'  = [busy EXCEPT ![s] = stays]
  /\ itype' = [itype EXCEPT ![s] = IF s \in Active(i) THEN @ ELSE dtype'[i]]
  /\ size'  = [size EXCEPT ![s] = IF s \in Active(i) THEN @ ELSE dsize'[i]]
  /\ addrs' = [addrs EXCEPT ![s] = IF s \in Active(i) THEN @ ELSE daddrs'[i]]

OpenOn(h, s, i) ==
  /\ ip' = [ip EXCEPT ![h] = s]
  /\ off' = [off EXCEPT ![h] = 0]
  /\ opened' = [opened EXCEPT ![h] = i]

\* namei(): the inode of the first entry with that name.
Lookup(n) == {dir[k][2] : k \in {j \in 1 .. Len(dir) :
               dir[j][1] = n /\ \A m \in 1 .. j - 1 : dir[m][1] # n}}

\* sys_open() of a name that exists.  The root directory needs a slot too.
SysOpen(h, n) ==
  /\ Enter /\ ip[h] = NULL
  /\ \E i \in Lookup(n) :
       \/ Free = {} /\ Panic
       \/ Free # {} /\ IgetHangs(i) /\ Hang(i)
       \/ \E s \in Slot :
            /\ Free # {} /\ Iget(i, s, {})
            /\ UNCHANGED diskVars
            /\ Load(s, i, FALSE)
            /\ OpenOn(h, s, i)
            /\ UNCHANGED <<stuck, panic, written, execd>>

\* ialloc(): the first free inode.  When there is none the loop ends at
\* ninodes: the type goes to the last inode it has looked at, and inode
\* ninodes, whose type stays 0, is returned.
IallocNum(i) == IsFirst(i, {j \in 1 .. NINUM : j = NINUM \/ dtype[j] = "free"})
IallocDisk(i, ty) ==
  [dtype EXCEPT ![IF i = NINUM THEN NINUM - 1 ELSE i] = ty]

\* mknod(): ialloc(), iupdate() and the directory entry.
Mknod(n, i, ty) ==
  /\ dtype' = IallocDisk(i, ty)
  /\ dsize' = [dsize EXCEPT ![i] = 0]
  /\ dir' = Append(dir, <<n, i>>)
  /\ UNCHANGED <<daddrs, used, data, super>>

\* The panics on the way: no slot for the directory or the new inode, or no
\* room in the directory.
MknodPanics(i) ==
  \/ Free = {}
  \/ \E r \in Slot : IsFirst(r, Free) /\ IgetFull(i, {r})
  \/ Len(dir) >= DIRCAP

\* sys_open(O_CREATE) of a name that does not exist.
SysCreate(h, n) ==
  /\ Enter /\ ip[h] = NULL /\ Lookup(n) = {}
  /\ \E i \in Inum :
       /\ IallocNum(i)
       /\ \/ MknodPanics(i) /\ Panic
          \/ \E s, r \in Slot :
               /\ ~MknodPanics(i)
               /\ IsFirst(r, Free) /\ Iget(i, s, {r})
               /\ Mknod(n, i, "file")
               /\ Load(s, i, FALSE)
               /\ OpenOn(h, s, i)
               /\ UNCHANGED <<stuck, panic, written, execd>>

\* sys_mknod(): it does not look whether the name exists; both inodes are put
\* again.
SysMknod(n) ==
  /\ Enter
  /\ \E i \in Inum :
       /\ IallocNum(i)
       /\ \/ MknodPanics(i) /\ Panic
          \/ /\ ~MknodPanics(i)
             /\ Mknod(n, i, "dev")
             /\ UNCHANGED <<slotVars, fileVars, stuck, panic, written, execd>>
-----------------------------------------------------------------------------
(* writei(), readi(), iput(), and namei() in kexec()                        *)

NextFree(b, S) == IsFirst(b, Block \ S)

\* iupdate() writes the type and the size of the inode to the disk, not addrs.
Iupdate(s) == /\ dtype' = [dtype EXCEPT ![inum[s]] = itype[s]]
              /\ dsize' = [dsize EXCEPT ![inum[s]] = size'[s]]

\* The end of writei(), and of fd_write().
Wrote(h, v) ==
  LET s == ip[h]
      l == off[h]
  IN  /\ size' = [size EXCEPT ![s] = IF @ > l THEN @ ELSE l + 1]
      /\ Iupdate(s)
      /\ off' = [off EXCEPT ![h] = l + 1]
      /\ written' = [written EXCEPT ![inum[s]][l] = v]
      /\ UNCHANGED <<itype, inum, count, busy, daddrs, dir, ip, opened, stuck,
                     panic, execd>>

\* Bug: balloc() does not mark the block.
WriteDirectUnmarked(h, v) ==
  LET s == ip[h]
      l == off[h]
  IN  \E b \in Block :
        /\ IF addrs[s][l] = 0 THEN NextFree(b, used) ELSE b = addrs[s][l]
        /\ addrs' = [addrs EXCEPT ![s][l] = b]
        /\ data' = [data EXCEPT ![b] = v]
        /\ UNCHANGED <<used, super>>
        /\ Wrote(h, v)

\* A direct block, allocated by balloc() if the inode has none there.
WriteDirect(h, v) ==
  LET s == ip[h]
      l == off[h]
  IN  \E b \in Block :
        /\ IF addrs[s][l] = 0 THEN NextFree(b, used) ELSE b = addrs[s][l]
        /\ addrs' = [addrs EXCEPT ![s][l] = b]
        /\ used' = used \cup {b}
        /\ data' = [data EXCEPT ![b] = v]
        /\ UNCHANGED super
        /\ Wrote(h, v)

\* The first indirect block: two blocks are allocated, then bmap() reads the
\* struct buf in place of its data and finds its flags, B_BUSY = 1: the data
\* goes to sector 1.
WriteIndirect(h, v) ==
  LET s == ip[h]
  IN  \E a, b \in Block :
        /\ NextFree(a, used) /\ NextFree(b, used \cup {a})
        /\ addrs' = [addrs EXCEPT ![s][NDIRECT] = a]
        /\ used' = used \cup {a, b}
        /\ super' = FALSE
        /\ UNCHANGED data
        /\ Wrote(h, v)

\* Blocks that a write at block l of slot s takes.
Needs(s, l) == IF l >= NDIRECT THEN 2 ELSE IF addrs[s][l] = 0 THEN 1 ELSE 0

\* sys_write() to a file; a device leaves the file system alone.
SysWrite(h, v) ==
  /\ Enter /\ ip[h] # NULL
  /\ LET s == ip[h]
         l == off[h]
     IN  \/ itype[s] = "free" /\ Panic
         \/ /\ itype[s] = "file" /\ Cardinality(Block \ used) < Needs(s, l)
            /\ Panic
         \/ itype[s] = "file" /\ l < NDIRECT /\ WriteDirect(h, v)
         \/ itype[s] = "file" /\ l = NDIRECT /\ WriteIndirect(h, v)

\* Bug: readi() does not look at the size.
SysReadPastEnd(h) ==
  /\ Enter /\ ip[h] # NULL
  /\ itype[ip[h]] # "dev"
  /\ off' = [off EXCEPT ![h] = @ + 1]
  /\ UNCHANGED <<slotVars, diskVars, ip, opened, stuck, panic, written, execd>>

\* sys_read() moves the offset up to the size.
SysRead(h) ==
  /\ Enter /\ ip[h] # NULL
  /\ itype[ip[h]] # "dev" /\ off[h] < size[ip[h]]
  /\ off' = [off EXCEPT ![h] = @ + 1]
  /\ UNCHANGED <<slotVars, diskVars, ip, opened, stuck, panic, written, execd>>

\* The last close of a file: iput().  The other fields of a slot and of a
\* struct fd that become free are never read again; they are reset here to
\* keep states that differ only in them together.
SysClose(h) ==
  /\ Enter /\ ip[h] # NULL
  /\ LET s == ip[h]
         Put(f, zero) == IF count[s] = 1 THEN [f EXCEPT ![s] = zero] ELSE f
     IN  /\ count' = [count EXCEPT ![s] = @ - 1]
         /\ busy' = [busy EXCEPT ![s] = FALSE]
         /\ itype' = Put(itype, "free") /\ inum' = Put(inum, 1)
         /\ size' = Put(size, 0) /\ addrs' = Put(addrs, NoBlocks)
  /\ ip' = [ip EXCEPT ![h] = NULL]
  /\ off' = [off EXCEPT ![h] = 0] /\ opened' = [opened EXCEPT ![h] = 0]
  /\ UNCHANGED <<diskVars, stuck, panic, written, execd>>

\* kexec(): namei(), and the check of the ELF header in block 0 of the file:
\* what mkfs put there (NULL) passes, what a process has written may pass or
\* not, and without a block there is none.  The inode is neither unlocked nor
\* put.
SysExec(n) ==
  /\ Enter
  /\ \/ Lookup(n) = {} /\ Panic
     \/ \E i \in Lookup(n) :
          \/ Free = {} /\ Panic
          \/ Free # {} /\ IgetHangs(i) /\ Hang(i)
          \/ \E s \in Slot :
               /\ Free # {} /\ Iget(i, s, {})
               /\ LET b == IF s \in Active(i) THEN addrs[s][0] ELSE daddrs[i][0]
                  IN  \/ (b # 0 => data[b] # NULL) /\ Panic
                      \/ /\ b # 0
                         /\ UNCHANGED diskVars
                         /\ Load(s, i, TRUE)
                         /\ execd' = execd \cup {i}
                         /\ UNCHANGED <<fileVars, stuck, panic, written>>

\* sys_unlink() is not implemented: it panics once namei() has returned.
SysUnlink(n) ==
  /\ Enter
  /\ \/ \E i \in Lookup(n) : Free # {} /\ IgetHangs(i) /\ Hang(i)
     \/ (Free = {} \/ \A i \in Lookup(n) : ~IgetHangs(i)) /\ Panic

Next ==
  \/ \E n \in Name : SysMknod(n) \/ SysExec(n) \/ SysUnlink(n)
  \/ \E h \in Handle : \/ SysRead(h) \/ SysClose(h)
                       \/ \E n \in Name : SysOpen(h, n) \/ SysCreate(h, n)
                       \/ \E v \in Value : SysWrite(h, v)

Spec == Init /\ [][Next]_vars
-----------------------------------------------------------------------------
(* Properties                                                               *)

Types == {"free", "dir", "file", "dev"}

\* Type invariant; in particular no read or write takes an offset past the
\* largest file there can be, and no close takes an inode's count below zero.
TypeOK ==
  /\ itype \in [Slot -> Types] /\ inum \in [Slot -> Inum]
  /\ count \in [Slot -> 0 .. MAXCOUNT] /\ busy \in [Slot -> BOOLEAN]
  /\ size \in [Slot -> 0 .. NDIRECT + 1]
  /\ addrs \in [Slot -> [Lbn -> Block \cup {0}]]
  /\ dtype \in [Inum -> Types] /\ dsize \in [Inum -> 0 .. NDIRECT + 1]
  /\ daddrs \in [Inum -> [Lbn -> Block \cup {0}]]
  /\ used \subseteq Block /\ data \in [Block -> Value \cup {NULL}]
  /\ \A k \in 1 .. Len(dir) : dir[k] \in Name \X Inum
  /\ ip \in [Handle -> Slot \cup {NULL}] /\ off \in [Handle -> 0 .. NDIRECT + 1]
  /\ super \in BOOLEAN /\ stuck \in Inum \cup {NULL} /\ panic \in BOOLEAN

\* A file has one copy in memory: two slots in use never hold the same inode.
OneSlot == \A s, t \in Slot :
  s # t /\ count[s] > 0 /\ count[t] > 0 => inum[s] # inum[t]

\* An open descriptor keeps its inode: the slot it points to is in use and
\* still holds the file it was opened on.
HandleKeepsInode ==
  \A h \in Handle : ip[h] # NULL => count[ip[h]] > 0 /\ inum[ip[h]] = opened[h]

\* The blocks of the files, in memory and on disk.
Owned(i) == ({daddrs[i][l] : l \in Lbn}
              \cup {addrs[s][l] : s \in Active(i), l \in Lbn}) \ {0}

\* Every block of a file is marked in the bitmap and belongs to no other file,
\* although the addresses of new blocks exist only in memory.
BlocksOwned ==
  \A i \in Inum : /\ Owned(i) \subseteq used
                  /\ \A j \in Inum \ {i} : Owned(i) \cap Owned(j) = {}

\* Where the data of block l of file i is read: through the inode in memory, or
\* the one that iget() would load.
Place(i, l) == IF Active(i) # {} THEN addrs[CHOOSE s \in Slot : IsFirst(s, Active(i))][l]
               ELSE daddrs[i][l]

\* The promise of the file system, and how its variables show it.
F == INSTANCE Files WITH
       File    <- Inum,
       Pos     <- 0 .. NDIRECT - 1,
       content <- [i \in Inum |-> [l \in 0 .. NDIRECT - 1 |->
                     IF Place(i, l) = 0 THEN NULL ELSE data[Place(i, l)]]],
       len     <- [i \in Inum |-> IF Active(i) # {}
                     THEN size[CHOOSE s \in Slot : IsFirst(s, Active(i))] ELSE dsize[i]],
       on      <- [h \in Handle |-> IF ip[h] = NULL THEN NULL ELSE inum[ip[h]]],
       pos     <- off,
       kept    <- execd,
       down    <- panic \/ stuck # NULL \/ ~super

\* A write changes the file and the position it is for and no other, for all
\* who have the file open, although slots of inode[] and blocks are shared out
\* anew all the time and a file's blocks are known in memory only; only the
\* last close may lose data, and only that file's.
FilesKept == F!Spec

\* A call that waits in iget(), with the table locked and so for ever, waits
\* for the inode of a program that exec() has left locked: open, create, mknod,
\* read, write and close leave every inode unlocked, so that no sequence of
\* them stops the file system over a file that was never executed.
StuckByExec ==
  stuck # NULL => stuck \in execd /\ \E s \in Active(stuck) : busy[s]

\* user1.c writes a new file, closes it, opens it again and reads it: what was
\* written to a file is what an open file reads.
Reopen ==
  \A s \in Slot, l \in Lbn :
    count[s] > 0 /\ l < NDIRECT /\ written[inum[s]][l] # NULL
      => addrs[s][l] # 0 /\ data[addrs[s][l]] = written[inum[s]][l]

\* fs.h: "sector 1 is superblock".  No write of a file goes there.
SuperIntact == super
=============================================================================
