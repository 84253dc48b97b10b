--------------------------------- MODULE Bio ---------------------------------
(***************************************************************************)
(* The buffers of kernel/bio.c on top of the SD card driver: getblk(),     *)
(* bread(), bwrite() and brelse() as fs.c and exec.c call them.            *)
(*                                                                         *)
(* One CPU, on which no call is preempted in the file system; while the    *)
(* driver works for bread() or bwrite() the caller waits.  There is no     *)
(* cache and bread() ignores what sd_readblock() returns: the caller goes  *)
(* on with what the buffer held before.  A buffer's contents say which     *)
(* block they are a version of: fs.c changes inodes, bits, entries and     *)
(* data in a buffer, never what block it is a copy of.                     *)
(*                                                                         *)
(* A caller writes a buffer to the number it computes then, not to the one *)
(* it was read from: writei() and mknod() call bmap() again, ialloc() uses *)
(* the last inode number.  Both are the same number if all it was computed *)
(* from has been read well (and the superblock is that of mkfs; Fs shows   *)
(* how it is lost), and any number after a read of this call has failed.   *)
(***************************************************************************)
EXTENDS Sdhci, FiniteSets

CONSTANTS HELD \* the most buffers that a caller has at once: 3, in kexec()

ASSUME BioAssumption == Buf \subseteq Nat /\ IsFiniteSet(Buf)
                        /\ HELD \in 1 .. Cardinality(Buf)

VARIABLES flags,  \* the buffers with B_BUSY
          sector, \* the block that a buffer was asked for
          held,   \* the buffers that the caller will release
          last,   \* the buffer it has released last, until it gets another one
          spins,  \* getblk() has found all buffers busy
          lost,   \* history: the buffers that bmap() has asked for
          doubt,  \* history: a read of the call in progress has failed
          soiled  \* history: such a call has written a block

bufVars == <<flags, sector, held, last, spins, lost, doubt, soiled>>

BioInit ==
  /\ Init
  /\ flags = {} /\ sector = [b \in Buf |-> NULL]
  /\ held = {} /\ last = NULL /\ spins = FALSE
  /\ lost = {} /\ doubt = FALSE /\ soiled = FALSE

\* The caller has a step to do.  What happens after a block may have been
\* overwritten with another one's contents is not followed.
Runs == pc = "idle" /\ ~spins /\ ~soiled

\* The caller may ask for one more buffer: kexec() has that of the ELF header,
\* of an indirect block and of data; writei() that of an indirect block and,
\* in balloc(), of the bitmap; all others one.
MayAsk == Cardinality(held) < HELD

\* Bug: B_BUSY is not looked at.
GetblkAny(b) == b \in Buf

\* Bug: the loop stops before the last buffer.
GetblkShort(b) == /\ b \in Buf \ flags /\ \A a \in Buf \ flags : b <= a
                  /\ \E a \in Buf : a > b

\* getblk(): the first buffer that is not busy.
Getblk(b) == b \in Buf \ flags /\ \A a \in Buf \ flags : b <= a

\* bread(): getblk() and sd_readblock().  bmap() forgets the buffer of an
\* indirect block as soon as it has looked into it.  `sector` is kept for the
\* buffers that may still be written.
Bread(l, b, forgets) ==
  /\ Runs /\ MayAsk
  /\ Getblk(b)
  /\ Request("READ_SINGLE", l, b)
  /\ flags' = flags \cup {b}
  /\ sector' = [a \in Buf |-> IF a = b /\ ~forgets THEN l
                             ELSE IF a \in held THEN sector[a] ELSE NULL]
  /\ held' = IF forgets THEN held ELSE held \cup {b}
  /\ lost' = IF forgets THEN lost \cup {b} ELSE lost
  /\ last' = NULL
  /\ UNCHANGED <<spins, doubt, soiled>>

\* A step of the driver or of the card; sd_readblock() may return without
\* having filled the buffer.
DriverStep ==
  /\ Driver \/ Host
  /\ doubt' = (doubt \/ (/\ req # NULL /\ req' = NULL
                         /\ req.op = "READ_SINGLE" /\ req.b \notin filled'))
  /\ UNCHANGED <<flags, sector, held, last, spins, lost, soiled>>

\* while (1) with buf_talbe_lock held and no free buffer.
GetblkSpins ==
  /\ Runs /\ MayAsk
  /\ \A b \in Buf : ~Getblk(b)
  /\ spins' = TRUE
  /\ UNCHANGED <<vars, flags, sector, held, last, lost, doubt, soiled>>

\* bwrite() to the block that was read or, after a failed read, to any block.
\* ialloc() that finds no free inode writes the buffer it has just released.
Bwrite(b, l) ==
  /\ Runs /\ b \in held \cup {last}
  /\ l = sector[b] \/ doubt
  /\ Request("WRITE_SINGLE", l, b)
  /\ soiled' = doubt
  /\ UNCHANGED <<flags, sector, held, last, spins, lost, doubt>>

\* Bug: buf->flags in place of b->flags.
BrelseFirst(b) ==
  /\ Runs /\ b \in held
  /\ flags' = {a \in flags : \E c \in Buf : c < a} /\ held' = held \ {b} /\ last' = b
  /\ UNCHANGED <<vars, sector, spins, lost, doubt, soiled>>

\* Bug: b->flags &= B_BUSY.
BrelseNothing(b) ==
  /\ Runs /\ b \in held
  /\ held' = held \ {b} /\ last' = b
  /\ UNCHANGED <<vars, flags, sector, spins, lost, doubt, soiled>>

\* brelse()
Brelse(b) ==
  /\ Runs /\ b \in held
  /\ flags' = flags \ {b} /\ held' = held \ {b} /\ last' = b
  /\ UNCHANGED <<vars, sector, spins, lost, doubt, soiled>>

\* The system call returns: what the next one writes it has read itself, or
\* has from an inode in memory, which does not change under it.
CallEnds ==
  /\ Runs /\ held = {}
  /\ last' = NULL /\ doubt' = FALSE
  /\ sector' = [b \in Buf |-> NULL]
  /\ UNCHANGED <<vars, flags, held, spins, lost, soiled>>

BioNext ==
  \/ DriverStep \/ GetblkSpins \/ CallEnds
  \/ \E b \in Buf : \/ Brelse(b)
                    \/ \E l \in Lba : Bwrite(b, l)
                    \/ \E l \in Lba, forgets \in BOOLEAN : Bread(l, b, forgets)

BioSpec == BioInit /\ [][BioNext]_<<vars, bufVars>>
-----------------------------------------------------------------------------
(* Properties                                                               *)

\* Type invariant; a caller's buffers are busy.
BioTypeOK ==
  /\ TypeOK
  /\ held \subseteq flags /\ flags \subseteq Buf
  /\ sector \in [Buf -> Lba \cup {NULL}] /\ last \in Buf \cup {NULL}
  /\ lost \subseteq Buf
  /\ spins \in BOOLEAN /\ doubt \in BOOLEAN /\ soiled \in BOOLEAN

\* No block is ever written over another one, whatever the card and the driver
\* fail at, unless a system call goes on after one of its reads has failed -
\* which bread() does not tell - and writes: late answers, retried commands and
\* shared buffers alone never put a block in the wrong place.
Uncrossed == ~soiled => \A l \in Lba : blocks[l] = Block0(l)

\* getblk() hangs only when bmap() has lost so many buffers that the callers
\* cannot have theirs at once: all others find their way back through brelse().
SpinsByLeak == spins => Cardinality(lost) > Cardinality(Buf) - HELD
=============================================================================
