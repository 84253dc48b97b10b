------------------------------- MODULE FsProofs -------------------------------
(***************************************************************************)
(* Proofs about Fs for any size of inode[], of the disk and of the         *)
(* directory, and any number of descriptors.                               *)
(***************************************************************************)
EXTENDS Fs, FiniteSetTheorems, TLAPS

\* The parts of TypeOK.
SlotOK ==
  /\ itype \in [Slot -> Types] /\ inum \in [Slot -> Inum]
  /\ count \in [Slot -> 0 .. MAXCOUNT] /\ busy \in [Slot -> BOOLEAN]
  /\ size \in [Slot -> 0 .. NDIRECT + 1]
  /\ addrs \in [Slot -> [Lbn -> Block \cup {0}]]

DiskOK ==
  /\ dtype \in [Inum -> Types] /\ dsize \in [Inum -> 0 .. NDIRECT + 1]
  /\ daddrs \in [Inum -> [Lbn -> Block \cup {0}]]
  /\ used \subseteq Block /\ data \in [Block -> Value \cup {NULL}]
  /\ dir \in Seq(Name \X Inum) /\ super \in BOOLEAN

HandleOK ==
  /\ ip \in [Handle -> Slot \cup {NULL}] /\ off \in [Handle -> 0 .. NDIRECT + 1]
  /\ opened \in [Handle -> Inum \cup {0}] /\ stuck \in Inum \cup {NULL}
  /\ panic \in BOOLEAN

On(s) == {h \in Handle : ip[h] = s}

\* References to a slot: its count covers the descriptors on it, and exec()
\* has taken one more for each file it has looked up.
RefInv ==
  /\ \A s \in Slot : count[s] >= Cardinality(On(s))
  /\ \A h \in Handle : ip[h] # NULL => inum[ip[h]] = opened[h]
  /\ execd \subseteq Inum
  /\ \A i \in execd : \E s \in Active(i) : count[s] > Cardinality(On(s))

\* The inodes that stay locked after a call are those of exec().
BusyInv ==
  /\ StuckByExec
  /\ \A s \in Slot : count[s] > 0 /\ busy[s] => inum[s] \in execd

FsInv == SlotOK /\ DiskOK /\ HandleOK /\ OneSlot /\ RefInv /\ BlocksOwned /\ BusyInv

USE FsAssumption
-----------------------------------------------------------------------------
LEMMA Facts ==
  /\ Slot \subseteq Nat /\ NULL \notin Slot /\ NULL \notin Inum
  /\ 0 \notin Block /\ Block \subseteq Nat /\ Inum \subseteq Nat /\ Lbn \subseteq Nat
  /\ 1 \in Inum /\ 2 \in Inum /\ NINUM \in Inum /\ NINUM - 1 \in Inum /\ NINUM # NINUM - 1
  /\ 0 \in Lbn /\ NDIRECT \in Lbn /\ \A l \in 0 .. NDIRECT - 1 : l \in Lbn /\ l # NDIRECT
BY DEF Slot, Inum, Block, Lbn

\* The descriptors on a slot can be counted.
LEMMA OnFacts ==
  ASSUME NEW s
  PROVE  IsFiniteSet(On(s)) /\ Cardinality(On(s)) \in Nat
BY FS_Subset, FS_CardinalityType DEF On

LEMMA OnNextFacts ==
  ASSUME NEW s
  PROVE  IsFiniteSet(On(s)') /\ Cardinality(On(s)') \in Nat
BY FS_Subset, FS_CardinalityType DEF On

\* A slot with a descriptor on it is in use.
LEMMA OnInUse ==
  ASSUME FsInv, NEW h \in Handle, ip[h] # NULL
  PROVE  /\ ip[h] \in Slot /\ count[ip[h]] > 0 /\ inum[ip[h]] \in Inum
         /\ inum[ip[h]] = opened[h]
<1>1. ip[h] \in Slot BY DEF FsInv, HandleOK
<1>2. h \in On(ip[h]) BY DEF On
<1>3. Cardinality(On(ip[h])) # 0
  BY <1>2, OnFacts, FS_EmptySet
<1>4. count[ip[h]] >= Cardinality(On(ip[h])) /\ count[ip[h]] \in Nat
  BY <1>1 DEF FsInv, RefInv, SlotOK
<1> QED BY <1>1, <1>3, <1>4, OnFacts DEF FsInv, RefInv, SlotOK

LEMMA FsInvImplies ==
  FsInv => TypeOK /\ OneSlot /\ HandleKeepsInode /\ BlocksOwned /\ StuckByExec
<1> SUFFICES ASSUME FsInv
             PROVE  TypeOK /\ OneSlot /\ HandleKeepsInode /\ BlocksOwned /\ StuckByExec
  OBVIOUS
<1>1. \A k \in 1 .. Len(dir) : dir[k] \in Name \X Inum
  BY DEF FsInv, DiskOK
<1>2. TypeOK
  BY <1>1 DEF FsInv, SlotOK, DiskOK, HandleOK, TypeOK
<1>3. HandleKeepsInode
  BY OnInUse DEF HandleKeepsInode
<1> QED BY <1>2, <1>3 DEF FsInv, BusyInv

LEMMA FsInitInv == Init => FsInv
<1> SUFFICES ASSUME Init PROVE FsInv OBVIOUS
<1> USE Facts
<1>1. NoBlocks \in [Lbn -> Block \cup {0}]
  BY DEF NoBlocks
<1>2. SlotOK
  BY <1>1 DEF Init, SlotOK, Types
<1>3. DiskOK
  <2>1. 1 \in Block BY DEF Block
  <2>2. dtype \in [Inum -> Types] BY DEF Init, Types
  <2>3. dsize \in [Inum -> 0 .. NDIRECT + 1] BY DEF Init
  <2>4. daddrs \in [Inum -> [Lbn -> Block \cup {0}]] BY <2>1 DEF Init
  <2>5. dir \in Seq(Name \X Inum) BY DEF Init
  <2>6. data \in [Block -> Value \cup {NULL}] BY DEF Init
  <2>7. used \subseteq Block /\ super \in BOOLEAN BY <2>1 DEF Init
  <2> QED BY <2>2, <2>3, <2>4, <2>5, <2>6, <2>7 DEF DiskOK
<1>4. HandleOK
  <2>1. ip \in [Handle -> Slot \cup {NULL}] BY DEF Init
  <2>2. off \in [Handle -> 0 .. NDIRECT + 1] BY DEF Init
  <2>3. opened \in [Handle -> Inum \cup {0}] BY DEF Init
  <2>4. stuck \in Inum \cup {NULL} /\ panic \in BOOLEAN BY DEF Init
  <2> QED BY <2>1, <2>2, <2>3, <2>4 DEF HandleOK
<1>5. OneSlot BY DEF Init, OneSlot
<1>6. RefInv
  <2>1. ASSUME NEW s \in Slot PROVE count[s] >= Cardinality(On(s))
    <3>1. On(s) = {} BY DEF Init, On
    <3> QED BY <3>1, FS_EmptySet DEF Init
  <2> QED BY <2>1 DEF Init, RefInv
<1>7. BlocksOwned
  <2>1. \A i \in Inum : Active(i) = {} BY DEF Init, Active
  <2>2. \A i \in Inum, l \in Lbn : daddrs[i][l] = IF i = 2 /\ l = 0 THEN 1 ELSE 0
    BY DEF Init
  <2>3. \A i \in Inum : Owned(i) = IF i = 2 THEN {1} ELSE {}
    BY <2>1, <2>2 DEF Owned
  <2> QED BY <2>3 DEF BlocksOwned, Init
<1>8. BusyInv BY DEF Init, BusyInv, StuckByExec
<1> QED BY <1>2, <1>3, <1>4, <1>5, <1>6, <1>7, <1>8 DEF FsInv
-----------------------------------------------------------------------------
(* Steps                                                                    *)

\* A call that panics or sleeps for ever changes nothing else.
LEMMA StopsInv ==
  ASSUME FsInv, UNCHANGED <<slotVars, diskVars, fileVars, written, execd>>,
         stuck' \in Inum \cup {NULL}, panic' \in BOOLEAN,
         stuck' # NULL => stuck' \in execd /\ \E s \in Active(stuck') : busy[s]
  PROVE  FsInv'
<1> USE DEF slotVars, diskVars, fileVars
<1>1. SlotOK' /\ DiskOK' /\ HandleOK'
  BY DEF FsInv, SlotOK, DiskOK, HandleOK
<1>2. OneSlot' BY DEF FsInv, OneSlot
<1>3. RefInv' BY DEF FsInv, RefInv, On, Active
<1>4. BlocksOwned' BY DEF FsInv, BlocksOwned, Owned, Active
<1>5. BusyInv' BY DEF FsInv, BusyInv, StuckByExec, Active
<1> QED BY <1>1, <1>2, <1>3, <1>4, <1>5 DEF FsInv

LEMMA PanicInv == ASSUME FsInv, Panic PROVE FsInv'
BY StopsInv DEF Panic, FsInv, HandleOK, BusyInv, StuckByExec

LEMMA HangInv == ASSUME FsInv, NEW i \in Inum, IgetHangs(i), Hang(i) PROVE FsInv'
<1>1. PICK s \in Active(i) : busy[s]
  BY DEF IgetHangs, IsFirst
<1>2. s \in Slot /\ count[s] > 0 /\ inum[s] = i
  BY DEF Active
<1>3. i \in execd
  BY <1>1, <1>2 DEF FsInv, BusyInv
<1> QED BY <1>1, <1>3, StopsInv DEF Hang, FsInv, HandleOK

\* What iget() leaves: the slot it returns held the inode before or was free,
\* and in the second case no other slot holds it.
LEMMA GetFacts ==
  ASSUME FsInv, NEW i \in Inum, NEW s \in Slot, NEW taken, NEW stays \in BOOLEAN,
         Iget(i, s, taken), Load(s, i, stays), DiskOK', UNCHANGED <<daddrs, used>>
  PROVE  /\ SlotOK'
         /\ inum'[s] = i /\ count'[s] = count[s] + 1 /\ busy'[s] = stays
         /\ \/ count[s] > 0 /\ inum[s] = i /\ addrs'[s] = addrs[s]
            \/ /\ count[s] = 0 /\ addrs'[s] = daddrs[i]
               /\ \A t \in Slot : count[t] > 0 => inum[t] # i
         /\ \A t \in Slot \ {s} : /\ inum'[t] = inum[t] /\ count'[t] = count[t]
                                  /\ busy'[t] = busy[t] /\ addrs'[t] = addrs[t]
<1>1. \A t \in Slot : count[t] \in Nat
  BY DEF FsInv, SlotOK
<1>2. \/ count[s] > 0 /\ inum[s] = i /\ s \in Active(i)
      \/ /\ count[s] = 0 /\ s \notin Active(i)
         /\ \A t \in Slot : count[t] > 0 => inum[t] # i
  BY <1>1 DEF Iget, IsFirst, Active, Free
<1>3. inum' \in [Slot -> Inum] /\ inum'[s] = i /\ \A t \in Slot \ {s} : inum'[t] = inum[t]
  BY DEF Load, FsInv, SlotOK
<1>4. /\ count' \in [Slot -> 0 .. MAXCOUNT] /\ count'[s] = count[s] + 1
      /\ \A t \in Slot \ {s} : count'[t] = count[t]
  BY DEF Load, Iget, FsInv, SlotOK
<1>5. /\ busy' \in [Slot -> BOOLEAN] /\ busy'[s] = stays
      /\ \A t \in Slot \ {s} : busy'[t] = busy[t]
  BY DEF Load, FsInv, SlotOK
<1>6. itype' \in [Slot -> Types]
  BY DEF Load, FsInv, SlotOK, DiskOK
<1>7. size' \in [Slot -> 0 .. NDIRECT + 1]
  BY DEF Load, FsInv, SlotOK, DiskOK
<1>8. /\ addrs' \in [Slot -> [Lbn -> Block \cup {0}]]
      /\ addrs'[s] = IF s \in Active(i) THEN addrs[s] ELSE daddrs[i]
      /\ \A t \in Slot \ {s} : addrs'[t] = addrs[t]
  BY DEF Load, FsInv, SlotOK, DiskOK
<1>9. SlotOK'
  BY <1>3, <1>4, <1>5, <1>6, <1>7, <1>8 DEF SlotOK
<1> QED BY <1>2, <1>3, <1>4, <1>5, <1>8, <1>9

\* iget() gives no inode a second slot and no block a second file.
LEMMA GetInv ==
  ASSUME FsInv, NEW i \in Inum, NEW s \in Slot, NEW taken, NEW stays \in BOOLEAN,
         Iget(i, s, taken), Load(s, i, stays), DiskOK', UNCHANGED <<daddrs, used>>
  PROVE  OneSlot' /\ BlocksOwned'
<1> USE GetFacts
<1>0. \A t \in Slot : count[t] \in Nat
  BY DEF FsInv, SlotOK
<1>1. OneSlot'
  BY <1>0 DEF OneSlot, FsInv
<1>2. ASSUME NEW j \in Inum PROVE Owned(j)' \subseteq Owned(j)
  <2> SUFFICES ASSUME NEW b \in Owned(j)' PROVE b \in Owned(j)
    OBVIOUS
  <2>1. b # 0 BY DEF Owned
  <2>2. CASE \E l \in Lbn : b = daddrs'[j][l]
    BY <2>1, <2>2 DEF Owned
  <2>3. ASSUME NEW t \in Slot, NEW l \in Lbn, count'[t] > 0, inum'[t] = j, b = addrs'[t][l]
        PROVE  b \in Owned(j)
    <3>1. CASE t # s
      <4>1. t \in Active(j) /\ b = addrs[t][l] BY <2>3, <3>1 DEF Active
      <4> QED BY <2>1, <4>1 DEF Owned
    <3>2. CASE t = s /\ count[s] > 0 /\ inum[s] = i /\ addrs'[s] = addrs[s]
      <4>1. t \in Active(j) /\ b = addrs[t][l] BY <2>3, <3>2 DEF Active
      <4> QED BY <2>1, <4>1 DEF Owned
    <3>3. CASE t = s /\ addrs'[s] = daddrs[i]
      <4>1. b = daddrs[j][l] BY <2>3, <3>3
      <4> QED BY <2>1, <4>1 DEF Owned
    <3> QED BY <3>1, <3>2, <3>3
  <2> QED BY <2>2, <2>3 DEF Owned, Active
<1>3. BlocksOwned'
  BY <1>2 DEF FsInv, BlocksOwned
<1> QED BY <1>1, <1>3

\* A new descriptor is one more reference to the slot.
LEMMA OpenedInv ==
  ASSUME FsInv, NEW i \in Inum, NEW s \in Slot, NEW taken, NEW h \in Handle, ip[h] = NULL,
         stuck = NULL, Iget(i, s, taken), Load(s, i, FALSE), OpenOn(h, s, i), DiskOK',
         UNCHANGED <<daddrs, used, stuck, panic, execd>>
  PROVE  FsInv'
<1> USE Facts
<1>1. /\ SlotOK'
      /\ inum'[s] = i /\ count'[s] = count[s] + 1 /\ busy'[s] = FALSE
      /\ \/ count[s] > 0 /\ inum[s] = i
         \/ count[s] = 0 /\ \A t \in Slot : count[t] > 0 => inum[t] # i
      /\ \A t \in Slot \ {s} : /\ inum'[t] = inum[t] /\ count'[t] = count[t]
                               /\ busy'[t] = busy[t]
  <2>1. PICK stays \in BOOLEAN : stays = FALSE OBVIOUS
  <2>2. Load(s, i, stays) BY <2>1
  <2> QED BY <2>1, <2>2, GetFacts
<1>2. /\ ip' \in [Handle -> Slot \cup {NULL}] /\ off' \in [Handle -> 0 .. NDIRECT + 1]
      /\ ip'[h] = s /\ \A g \in Handle \ {h} : ip'[g] = ip[g]
      /\ opened' \in [Handle -> Inum \cup {0}]
      /\ opened'[h] = i /\ \A g \in Handle \ {h} : opened'[g] = opened[g]
  BY DEF OpenOn, FsInv, HandleOK
<1>3. HandleOK'
  BY <1>2 DEF FsInv, HandleOK
<1>4. OneSlot' /\ BlocksOwned'
  <2>1. PICK stays \in BOOLEAN : stays = FALSE OBVIOUS
  <2>2. Load(s, i, stays) BY <2>1
  <2> QED BY <2>2, GetInv
<1>5. BusyInv'
  BY <1>1 DEF FsInv, BusyInv, StuckByExec
<1>6. Cardinality(On(s)') = Cardinality(On(s)) + 1 /\ Cardinality(On(s)) \in Nat
  <2>1. On(s)' = On(s) \cup {h} /\ h \notin On(s) BY <1>2 DEF On
  <2> QED BY <2>1, OnFacts, FS_AddElement
<1>7. \A t \in Slot \ {s} : On(t)' = On(t)
  BY <1>2 DEF On
<1>8. \A t \in Slot : count'[t] >= Cardinality(On(t)')
  <2> TAKE t \in Slot
  <2>1. count[t] >= Cardinality(On(t)) /\ count[t] \in Nat BY DEF FsInv, RefInv, SlotOK
  <2> QED BY <1>1, <1>6, <1>7, <2>1
<1>9. ASSUME NEW g \in Handle, ip'[g] # NULL PROVE inum'[ip'[g]] = opened'[g]
  <2>1. CASE g = h
    BY <1>1, <1>2, <2>1
  <2>2. CASE g # h
    <3>1. ip'[g] = ip[g] /\ opened'[g] = opened[g] BY <1>2, <2>2
    <3>2. ip[g] \in Slot /\ count[ip[g]] > 0 /\ inum[ip[g]] = opened[g] BY <1>9, <3>1, OnInUse
    <3> QED BY <1>1, <3>1, <3>2
  <2> QED BY <2>1, <2>2
<1>10. ASSUME NEW j \in execd PROVE \E t \in Active(j)' : count'[t] > Cardinality(On(t)')
  <2>1. PICK t \in Active(j) : count[t] > Cardinality(On(t))
    BY DEF FsInv, RefInv
  <2>2. t \in Slot /\ count[t] \in Nat /\ count[t] > 0 /\ inum[t] = j
    BY DEF Active, FsInv, SlotOK
  <2>3. t \in Active(j)' BY <1>1, <2>2 DEF Active
  <2>4. count'[t] > Cardinality(On(t)') BY <1>1, <1>6, <1>7, <2>1, <2>2
  <2> QED BY <2>3, <2>4
<1>11. RefInv'
  BY <1>8, <1>9, <1>10 DEF FsInv, RefInv
<1> QED BY <1>1, <1>3, <1>4, <1>5, <1>11 DEF FsInv

\* So is the inode that exec() keeps.
LEMMA ExecInv ==
  ASSUME FsInv, NEW i \in Inum, NEW s \in Slot, NEW taken,
         stuck = NULL, Iget(i, s, taken), Load(s, i, TRUE), execd' = execd \cup {i},
         UNCHANGED <<diskVars, fileVars, stuck, panic>>
  PROVE  FsInv'
<1> USE Facts
<1>0. DiskOK' /\ UNCHANGED <<daddrs, used, ip, opened>>
  BY DEF diskVars, fileVars, FsInv, DiskOK
<1>1. /\ SlotOK'
      /\ inum'[s] = i /\ count'[s] = count[s] + 1
      /\ \/ count[s] > 0 /\ inum[s] = i
         \/ count[s] = 0 /\ \A t \in Slot : count[t] > 0 => inum[t] # i
      /\ \A t \in Slot \ {s} : /\ inum'[t] = inum[t] /\ count'[t] = count[t]
                               /\ busy'[t] = busy[t]
      /\ OneSlot' /\ BlocksOwned'
  <2>1. PICK stays \in BOOLEAN : stays = TRUE OBVIOUS
  <2>2. Load(s, i, stays) BY <2>1
  <2> QED BY <1>0, <2>2, GetFacts, GetInv
<1>2. HandleOK'
  BY DEF fileVars, FsInv, HandleOK
<1>3. BusyInv'
  BY <1>1 DEF FsInv, BusyInv, StuckByExec
<1>4. \A t \in Slot : On(t)' = On(t)
  BY <1>0 DEF On
<1>5. ASSUME NEW t \in Slot
      PROVE  /\ count'[t] >= Cardinality(On(t)') /\ count[t] \in Nat
             /\ count[t] > Cardinality(On(t)) \/ t = s => count'[t] > Cardinality(On(t)')
  <2>1. count[t] >= Cardinality(On(t)) BY DEF FsInv, RefInv
  <2>2. count[t] \in Nat BY DEF FsInv, SlotOK
  <2> QED BY <1>1, <1>4, <2>1, <2>2, OnFacts
<1>6. ASSUME NEW g \in Handle, ip'[g] # NULL PROVE inum'[ip'[g]] = opened'[g]
  <2>1. ip[g] \in Slot /\ count[ip[g]] > 0 /\ inum[ip[g]] = opened[g] BY <1>0, <1>6, OnInUse
  <2>2. PICK t \in Slot : t = ip[g] BY <2>1
  <2>3. CASE t = s
    <3>1. count[s] # 0 /\ inum[s] = inum[t] BY <2>1, <2>2, <2>3
    <3>2. inum[s] = i /\ inum'[s] = i BY <1>1, <3>1
    <3> QED BY <1>0, <2>1, <2>2, <2>3, <3>1, <3>2
  <2>4. CASE t # s
    <3>1. inum'[t] = inum[t] BY <1>1, <2>4
    <3> QED BY <1>0, <2>1, <2>2, <3>1
  <2> QED BY <2>3, <2>4
<1>7. ASSUME NEW j \in execd' PROVE \E t \in Active(j)' : count'[t] > Cardinality(On(t)')
  <2>1. CASE j = i
    <3>1. s \in Active(i)' BY <1>1, <1>5 DEF Active
    <3> QED BY <1>5, <2>1, <3>1
  <2>2. CASE j \in execd
    <3>1. PICK t \in Active(j) : count[t] > Cardinality(On(t))
      BY <2>2 DEF FsInv, RefInv
    <3>2. t \in Slot /\ count[t] > 0 /\ inum[t] = j BY DEF Active
    <3>3. t \in Active(j)' BY <1>1, <1>5, <3>2 DEF Active
    <3> QED BY <1>5, <3>1, <3>2, <3>3
  <2> QED BY <2>1, <2>2
<1>8. RefInv'
  BY <1>5, <1>6, <1>7 DEF FsInv, RefInv
<1> QED BY <1>0, <1>1, <1>2, <1>3, <1>8 DEF FsInv

\* ialloc(), iupdate() and the directory entry.
LEMMA MknodDisk ==
  ASSUME FsInv, NEW n \in Name, NEW i \in Inum, NEW ty \in Types, Mknod(n, i, ty)
  PROVE  DiskOK' /\ UNCHANGED <<daddrs, used>>
<1> USE Facts
<1>1. dtype' \in [Inum -> Types]
  BY DEF Mknod, IallocDisk, FsInv, DiskOK
<1>2. dsize' \in [Inum -> 0 .. NDIRECT + 1]
  BY DEF Mknod, FsInv, DiskOK
<1>3. dir' \in Seq(Name \X Inum)
  <2>1. <<n, i>> \in Name \X Inum OBVIOUS
  <2> QED BY <2>1 DEF Mknod, FsInv, DiskOK
<1>4. UNCHANGED <<daddrs, used, data, super>>
  BY DEF Mknod
<1> QED BY <1>1, <1>2, <1>3, <1>4 DEF FsInv, DiskOK

\* A step that leaves the slots, the descriptors and the blocks alone.
LEMMA DiskStepInv ==
  ASSUME FsInv, DiskOK', UNCHANGED <<slotVars, fileVars, daddrs, used, stuck, panic, execd>>
  PROVE  FsInv'
<1> USE DEF slotVars, fileVars
<1>1. SlotOK' /\ HandleOK'
  BY DEF FsInv, SlotOK, HandleOK
<1>2. OneSlot' BY DEF FsInv, OneSlot
<1>3. RefInv' BY DEF FsInv, RefInv, On, Active
<1>4. BlocksOwned' BY DEF FsInv, BlocksOwned, Owned, Active
<1>5. BusyInv' BY DEF FsInv, BusyInv, StuckByExec, Active
<1> QED BY <1>1, <1>2, <1>3, <1>4, <1>5 DEF FsInv

\* writei() at block l of the file in slot s: the block it writes there, and a
\* second one under an indirect block, were marked or free.
LEMMA WriteInv ==
  ASSUME FsInv, NEW h \in Handle, NEW v \in Value, ip[h] # NULL, Wrote(h, v),
         NEW b \in Block, NEW l \in Lbn, l = off[h],
         addrs' = [addrs EXCEPT ![ip[h]][l] = b],
         b = addrs[ip[h]][l] \/ b \notin used, b \in used', used \subseteq used',
         used' \subseteq Block, data' \in [Block -> Value \cup {NULL}], super' \in BOOLEAN
  PROVE  FsInv'
<1> USE Facts
<1>0. PICK s \in Slot : s = ip[h] BY OnInUse
<1>1. /\ count[s] > 0 /\ inum[s] \in Inum /\ l + 1 \in 0 .. NDIRECT + 1
      /\ UNCHANGED <<itype, inum, count, busy, daddrs, dir, ip, opened, stuck, panic, execd>>
  BY <1>0, OnInUse DEF Wrote, Lbn
<1>2. /\ addrs' \in [Slot -> [Lbn -> Block \cup {0}]] /\ addrs'[s][l] = b
      /\ \A t \in Slot, m \in Lbn : t # s \/ m # l => addrs'[t][m] = addrs[t][m]
  BY <1>0 DEF FsInv, SlotOK
<1>3. size' \in [Slot -> 0 .. NDIRECT + 1]
  BY <1>0, <1>1 DEF Wrote, FsInv, SlotOK
<1>4. SlotOK'
  BY <1>1, <1>2, <1>3 DEF FsInv, SlotOK
<1>5. DiskOK'
  <2>1. dtype' \in [Inum -> Types]
    BY <1>0, <1>1 DEF Wrote, Iupdate, FsInv, DiskOK, SlotOK
  <2>2. dsize' \in [Inum -> 0 .. NDIRECT + 1]
    BY <1>0, <1>1, <1>3 DEF Wrote, Iupdate, FsInv, DiskOK
  <2> QED BY <1>1, <2>1, <2>2 DEF FsInv, DiskOK
<1>6. HandleOK'
  BY <1>1 DEF Wrote, FsInv, HandleOK
<1>7. OneSlot' BY <1>1 DEF FsInv, OneSlot
<1>8. RefInv' BY <1>1 DEF FsInv, RefInv, On, Active
<1>9. BusyInv' BY <1>1 DEF FsInv, BusyInv, StuckByExec, Active
<1>10. \A j : Active(j)' = Active(j) BY <1>1 DEF Active
<1>11. ASSUME NEW j \in Inum, NEW x \in Owned(j)'
       PROVE  x \in Owned(j) \/ (j = inum[s] /\ x = b)
  <2>1. x # 0 BY DEF Owned
  <2>2. CASE \E m \in Lbn : x = daddrs'[j][m]
    BY <1>1, <2>1, <2>2 DEF Owned
  <2>3. ASSUME NEW t \in Active(j), NEW m \in Lbn, x = addrs'[t][m]
        PROVE  x \in Owned(j) \/ (j = inum[s] /\ x = b)
    <3>0. t \in Slot /\ inum[t] = j BY DEF Active
    <3>1. CASE t = s /\ m = l BY <1>2, <2>3, <3>0, <3>1
    <3>2. CASE t # s \/ m # l
      <4>1. x = addrs[t][m] BY <1>2, <2>3, <3>0, <3>2
      <4> QED BY <2>1, <4>1 DEF Owned
    <3> QED BY <3>1, <3>2
  <2> QED BY <1>10, <2>2, <2>3 DEF Owned
<1>12. b \in Owned(inum[s]) \/ b \notin used
  <2>1. CASE b = addrs[s][l]
    <3>1. s \in Active(inum[s]) BY <1>1 DEF Active
    <3> QED BY <2>1, <3>1 DEF Owned
  <2> QED BY <1>0, <2>1
<1>13. BlocksOwned'
  <2>1. \A j \in Inum : Owned(j) \subseteq used /\ \A k \in Inum \ {j} : Owned(j) \cap Owned(k) = {}
    BY DEF FsInv, BlocksOwned
  <2>2. \A j \in Inum : Owned(j)' \subseteq used' BY <1>11, <2>1
  <2>3. ASSUME NEW j \in Inum, NEW k \in Inum \ {j}, NEW x \in Owned(j)', x \in Owned(k)'
        PROVE  FALSE
    <3>1. x \in Owned(j) \/ (j = inum[s] /\ x = b) BY <1>11
    <3>2. x \in Owned(k) \/ (k = inum[s] /\ x = b) BY <1>11, <2>3
    <3> QED BY <1>12, <2>1, <3>1, <3>2
  <2> QED BY <2>2, <2>3 DEF BlocksOwned
<1> QED BY <1>4, <1>5, <1>6, <1>7, <1>8, <1>9, <1>13 DEF FsInv

\* iput() gives up one reference; the slot is emptied with the last one.
LEMMA CloseInv ==
  ASSUME FsInv, NEW h \in Handle, SysClose(h) PROVE FsInv'
<1> USE Facts
<1>0. PICK s \in Slot : s = ip[h] BY OnInUse DEF SysClose
<1>1. /\ count[s] > 0 /\ count[s] \in Nat /\ UNCHANGED <<diskVars, stuck, panic, execd>>
  BY <1>0, OnInUse DEF SysClose, FsInv, SlotOK
<1>2. /\ count' \in [Slot -> 0 .. MAXCOUNT] /\ count'[s] = count[s] - 1
      /\ \A t \in Slot \ {s} : count'[t] = count[t]
  BY <1>0, <1>1 DEF SysClose, FsInv, SlotOK
<1>3. /\ busy' \in [Slot -> BOOLEAN] /\ busy'[s] = FALSE
      /\ \A t \in Slot \ {s} : busy'[t] = busy[t]
  BY <1>0 DEF SysClose, FsInv, SlotOK
<1>4. /\ inum' \in [Slot -> Inum] /\ (count[s] # 1 => inum'[s] = inum[s])
      /\ \A t \in Slot \ {s} : inum'[t] = inum[t]
  BY <1>0 DEF SysClose, FsInv, SlotOK
<1>5. /\ addrs' \in [Slot -> [Lbn -> Block \cup {0}]] /\ (count[s] # 1 => addrs'[s] = addrs[s])
      /\ \A t \in Slot \ {s} : addrs'[t] = addrs[t]
  <2>1. NoBlocks \in [Lbn -> Block \cup {0}] BY DEF NoBlocks
  <2> QED BY <1>0, <2>1 DEF SysClose, FsInv, SlotOK
<1>6. itype' \in [Slot -> Types] /\ size' \in [Slot -> 0 .. NDIRECT + 1]
  BY <1>0 DEF SysClose, FsInv, SlotOK, Types
<1>7. SlotOK'
  BY <1>2, <1>3, <1>4, <1>5, <1>6 DEF SlotOK
<1>8. /\ ip' \in [Handle -> Slot \cup {NULL}] /\ off' \in [Handle -> 0 .. NDIRECT + 1]
      /\ ip'[h] = NULL /\ \A g \in Handle \ {h} : ip'[g] = ip[g]
      /\ opened' \in [Handle -> Inum \cup {0}]
      /\ \A g \in Handle \ {h} : opened'[g] = opened[g]
  BY DEF SysClose, FsInv, HandleOK
<1>9. DiskOK' /\ HandleOK'
  BY <1>1, <1>8 DEF diskVars, FsInv, DiskOK, HandleOK
<1>10. ASSUME NEW t \in Slot, count'[t] > 0
       PROVE  count[t] > 0 /\ inum'[t] = inum[t] /\ addrs'[t] = addrs[t]
  BY <1>1, <1>2, <1>4, <1>5, <1>10
<1>11. OneSlot'
  BY <1>10 DEF FsInv, OneSlot
<1>12. BlocksOwned'
  <2>1. ASSUME NEW j \in Inum PROVE Owned(j)' \subseteq Owned(j)
    <3>1. Active(j)' \subseteq Active(j) /\ \A t \in Active(j)' : addrs'[t] = addrs[t]
      BY <1>10 DEF Active
    <3> QED BY <1>1, <3>1 DEF Owned, diskVars
  <2> QED BY <1>1, <2>1 DEF FsInv, BlocksOwned, diskVars
<1>13. BusyInv'
  <2>1. stuck = NULL BY DEF SysClose, Enter
  <2> QED BY <1>1, <1>3, <1>10, <2>1 DEF FsInv, BusyInv, StuckByExec
<1>14. Cardinality(On(s)') = Cardinality(On(s)) - 1 /\ Cardinality(On(s)) \in Nat
  <2>1. On(s)' = On(s) \ {h} /\ h \in On(s) BY <1>0, <1>8 DEF On
  <2> QED BY <2>1, OnFacts, FS_RemoveElement
<1>15. \A t \in Slot \ {s} : On(t)' = On(t)
  BY <1>0, <1>8 DEF On
<1>16. ASSUME NEW t \in Slot
       PROVE  /\ count'[t] >= Cardinality(On(t)')
              /\ count[t] > Cardinality(On(t)) => count'[t] > Cardinality(On(t)')
  <2>1. count[t] >= Cardinality(On(t)) /\ count[t] \in Nat BY DEF FsInv, RefInv, SlotOK
  <2> QED BY <1>2, <1>14, <1>15, <2>1, OnFacts
<1>17. ASSUME NEW g \in Handle, ip'[g] # NULL PROVE inum'[ip'[g]] = opened'[g]
  <2>1. g # h /\ ip'[g] = ip[g] /\ opened'[g] = opened[g] BY <1>8, <1>17
  <2>2. PICK t \in Slot : t = ip[g] BY <1>17, <2>1, OnInUse
  <2>3. inum[t] = opened[g] BY <1>17, <2>1, <2>2, OnInUse
  <2>4. Cardinality(On(t)') # 0
    <3>1. g \in On(t)' BY <2>1, <2>2 DEF On
    <3> QED BY <3>1, OnNextFacts, FS_EmptySet
  <2>5. count'[t] > 0 BY <1>2, <1>16, <2>4, OnNextFacts
  <2> QED BY <1>10, <2>1, <2>2, <2>3, <2>5
<1>18. ASSUME NEW j \in execd' PROVE \E t \in Active(j)' : count'[t] > Cardinality(On(t)')
  <2>1. PICK t \in Active(j) : count[t] > Cardinality(On(t))
    BY <1>1 DEF FsInv, RefInv
  <2>2. t \in Slot /\ inum[t] = j BY DEF Active
  <2>3. count'[t] > Cardinality(On(t)') BY <1>16, <2>1, <2>2
  <2>4. count'[t] > 0 BY <1>2, <2>2, <2>3, OnNextFacts
  <2>5. t \in Active(j)' BY <1>10, <2>2, <2>4 DEF Active
  <2> QED BY <2>3, <2>5
<1>19. RefInv'
  BY <1>1, <1>16, <1>17, <1>18 DEF FsInv, RefInv
<1> QED BY <1>7, <1>9, <1>11, <1>12, <1>13, <1>19 DEF FsInv

LEMMA ReadInv == ASSUME FsInv, NEW h \in Handle, SysRead(h) PROVE FsInv'
<1> USE DEF slotVars, diskVars
<1>1. off[h] + 1 \in 0 .. NDIRECT + 1
  <2>1. PICK s \in Slot : s = ip[h] BY OnInUse DEF SysRead
  <2>2. size[s] \in 0 .. NDIRECT + 1 /\ off[h] \in 0 .. NDIRECT + 1
    BY DEF FsInv, SlotOK, HandleOK
  <2>3. off[h] < size[s] BY <2>1 DEF SysRead
  <2> QED BY <2>2, <2>3
<1>2. off' \in [Handle -> 0 .. NDIRECT + 1]
  BY <1>1 DEF SysRead, FsInv, HandleOK
<1>3. UNCHANGED <<slotVars, diskVars, ip, opened, stuck, panic, execd>>
  BY DEF SysRead
<1>4. HandleOK' BY <1>2, <1>3 DEF FsInv, HandleOK
<1>5. SlotOK' /\ DiskOK' BY <1>3 DEF FsInv, SlotOK, DiskOK
<1>6. OneSlot' BY <1>3 DEF FsInv, OneSlot
<1>7. RefInv' BY <1>3 DEF FsInv, RefInv, On, Active
<1>8. BlocksOwned' BY <1>3 DEF FsInv, BlocksOwned, Owned, Active
<1>9. BusyInv' BY <1>3 DEF FsInv, BusyInv, StuckByExec, Active
<1> QED BY <1>4, <1>5, <1>6, <1>7, <1>8, <1>9 DEF FsInv
-----------------------------------------------------------------------------
(* The system calls                                                         *)

\* namei() finds inodes.
LEMMA LookupFacts == ASSUME FsInv, NEW n \in Name PROVE Lookup(n) \subseteq Inum
<1>1. \A k \in 1 .. Len(dir) : dir[k][2] \in Inum
  BY DEF FsInv, DiskOK
<1> QED BY <1>1 DEF Lookup

LEMMA SysOpenInv ==
  ASSUME FsInv, NEW h \in Handle, NEW n \in Name, SysOpen(h, n) PROVE FsInv'
<1>0. PICK i \in Lookup(n) :
       \/ Free = {} /\ Panic
       \/ Free # {} /\ IgetHangs(i) /\ Hang(i)
       \/ \E s \in Slot :
            /\ Free # {} /\ Iget(i, s, {})
            /\ UNCHANGED diskVars
            /\ Load(s, i, FALSE)
            /\ OpenOn(h, s, i)
            /\ UNCHANGED <<stuck, panic, written, execd>>
  BY DEF SysOpen
<1>1. i \in Inum BY LookupFacts
<1>2. CASE Panic BY <1>2, PanicInv
<1>3. CASE IgetHangs(i) /\ Hang(i) BY <1>1, <1>3, HangInv
<1>4. ASSUME NEW s \in Slot, Iget(i, s, {}), UNCHANGED diskVars, Load(s, i, FALSE),
             OpenOn(h, s, i), UNCHANGED <<stuck, panic, written, execd>>
      PROVE  FsInv'
  <2>1. DiskOK' /\ UNCHANGED <<daddrs, used>> BY <1>4 DEF diskVars, FsInv, DiskOK
  <2> QED BY <1>1, <1>4, <2>1, OpenedInv DEF SysOpen, Enter
<1> QED BY <1>0, <1>2, <1>3, <1>4

LEMMA SysCreateInv ==
  ASSUME FsInv, NEW h \in Handle, NEW n \in Name, SysCreate(h, n) PROVE FsInv'
<1>1. CASE Panic BY <1>1, PanicInv
<1>2. ASSUME NEW i \in Inum, NEW s \in Slot, NEW r \in Slot, Iget(i, s, {r}),
             Mknod(n, i, "file"), Load(s, i, FALSE), OpenOn(h, s, i),
             UNCHANGED <<stuck, panic, written, execd>>
      PROVE  FsInv'
  <2>1. DiskOK' /\ UNCHANGED <<daddrs, used>> BY <1>2, MknodDisk DEF Types
  <2> QED BY <1>2, <2>1, OpenedInv DEF SysCreate, Enter
<1> QED BY <1>1, <1>2 DEF SysCreate

LEMMA SysMknodInv == ASSUME FsInv, NEW n \in Name, SysMknod(n) PROVE FsInv'
<1>1. CASE Panic BY <1>1, PanicInv
<1>2. ASSUME NEW i \in Inum, Mknod(n, i, "dev"),
             UNCHANGED <<slotVars, fileVars, stuck, panic, written, execd>>
      PROVE  FsInv'
  <2>1. DiskOK' /\ UNCHANGED <<daddrs, used>> BY <1>2, MknodDisk DEF Types
  <2> QED BY <1>2, <2>1, DiskStepInv
<1> QED BY <1>1, <1>2 DEF SysMknod

LEMMA SysExecInv == ASSUME FsInv, NEW n \in Name, SysExec(n) PROVE FsInv'
<1>1. CASE Panic BY <1>1, PanicInv
<1>2. ASSUME NEW i \in Lookup(n), IgetHangs(i), Hang(i) PROVE FsInv'
  BY <1>2, LookupFacts, HangInv
<1>3. ASSUME NEW i \in Lookup(n), NEW s \in Slot, Iget(i, s, {}), UNCHANGED diskVars,
             Load(s, i, TRUE), execd' = execd \cup {i},
             UNCHANGED <<fileVars, stuck, panic, written>>
      PROVE  FsInv'
  BY <1>3, LookupFacts, ExecInv DEF SysExec, Enter
<1> QED BY <1>1, <1>2, <1>3 DEF SysExec

LEMMA SysUnlinkInv == ASSUME FsInv, NEW n \in Name, SysUnlink(n) PROVE FsInv'
<1>1. CASE Panic BY <1>1, PanicInv
<1>2. ASSUME NEW i \in Lookup(n), IgetHangs(i), Hang(i) PROVE FsInv'
  BY <1>2, LookupFacts, HangInv
<1> QED BY <1>1, <1>2 DEF SysUnlink

LEMMA SysWriteInv ==
  ASSUME FsInv, NEW h \in Handle, NEW v \in Value, SysWrite(h, v) PROVE FsInv'
<1> USE Facts
<1>0. PICK s \in Slot : s = ip[h] BY OnInUse DEF SysWrite
<1>1. CASE Panic BY <1>1, PanicInv
<1>2. CASE off[h] < NDIRECT /\ WriteDirect(h, v)
  <2>1. PICK l \in Lbn : l = off[h] BY <1>2 DEF Lbn, FsInv, HandleOK
  <2>2. PICK b \in Block :
          /\ IF addrs[s][l] = 0 THEN NextFree(b, used) ELSE b = addrs[s][l]
          /\ addrs' = [addrs EXCEPT ![s][l] = b]
          /\ used' = used \cup {b}
          /\ data' = [data EXCEPT ![b] = v]
          /\ UNCHANGED super
          /\ Wrote(h, v)
    BY <1>0, <1>2, <2>1 DEF WriteDirect
  <2>3. b = addrs[s][l] \/ b \notin used BY <2>2 DEF NextFree, IsFirst
  <2>4. /\ used' \subseteq Block /\ data' \in [Block -> Value \cup {NULL}]
        /\ super' \in BOOLEAN
    BY <2>2 DEF FsInv, DiskOK
  <2>5. b \in used' /\ used \subseteq used' /\ ip[h] # NULL BY <1>0, <2>2
  <2> QED BY <1>0, <2>1, <2>2, <2>3, <2>4, <2>5, WriteInv
<1>3. CASE off[h] = NDIRECT /\ WriteIndirect(h, v)
  <2>1. PICK l \in Lbn : l = NDIRECT OBVIOUS
  <2>2. PICK b \in Block, c \in Block :
          /\ NextFree(b, used) /\ NextFree(c, used \cup {b})
          /\ addrs' = [addrs EXCEPT ![s][l] = b]
          /\ used' = used \cup {b, c}
          /\ super' = FALSE
          /\ UNCHANGED data
          /\ Wrote(h, v)
    BY <1>0, <1>3, <2>1 DEF WriteIndirect
  <2>3. b \notin used BY <2>2 DEF NextFree, IsFirst
  <2>4. /\ used' \subseteq Block /\ data' \in [Block -> Value \cup {NULL}]
        /\ super' \in BOOLEAN
    BY <2>2 DEF FsInv, DiskOK
  <2>5. b \in used' /\ used \subseteq used' /\ ip[h] # NULL /\ l = off[h]
    BY <1>0, <1>3, <2>1, <2>2
  <2> QED BY <1>0, <2>2, <2>3, <2>4, <2>5, WriteInv
<1> QED BY <1>1, <1>2, <1>3 DEF SysWrite

LEMMA FsNextInv == FsInv /\ [Next]_vars => FsInv'
<1> SUFFICES ASSUME FsInv, [Next]_vars PROVE FsInv' OBVIOUS
<1>1. ASSUME NEW n \in Name, SysMknod(n) PROVE FsInv' BY <1>1, SysMknodInv
<1>2. ASSUME NEW n \in Name, SysExec(n) PROVE FsInv' BY <1>2, SysExecInv
<1>3. ASSUME NEW n \in Name, SysUnlink(n) PROVE FsInv' BY <1>3, SysUnlinkInv
<1>4. ASSUME NEW h \in Handle, SysRead(h) PROVE FsInv' BY <1>4, ReadInv
<1>5. ASSUME NEW h \in Handle, SysClose(h) PROVE FsInv' BY <1>5, CloseInv
<1>6. ASSUME NEW h \in Handle, NEW n \in Name, SysOpen(h, n) PROVE FsInv' BY <1>6, SysOpenInv
<1>7. ASSUME NEW h \in Handle, NEW n \in Name, SysCreate(h, n) PROVE FsInv'
  BY <1>7, SysCreateInv
<1>8. ASSUME NEW h \in Handle, NEW v \in Value, SysWrite(h, v) PROVE FsInv'
  BY <1>8, SysWriteInv
<1>9. CASE UNCHANGED vars
  <2>1. /\ UNCHANGED <<slotVars, diskVars, fileVars, written, execd>>
        /\ stuck' = stuck /\ panic' = panic
    BY <1>9 DEF vars
  <2>2. stuck' # NULL => stuck' \in execd /\ \E s \in Active(stuck') : busy[s]
    BY <2>1 DEF FsInv, BusyInv, StuckByExec
  <2> QED BY <2>1, <2>2, StopsInv DEF FsInv, HandleOK
<1> QED BY <1>1, <1>2, <1>3, <1>4, <1>5, <1>6, <1>7, <1>8, <1>9 DEF Next
-----------------------------------------------------------------------------
\* FsInv is inductive: no system call leads out of it.
THEOREM FsSpecInv == Spec => []FsInv
BY FsInitInv, FsNextInv, PTL DEF Spec

\* No offset passes the largest file there can be and no count goes below zero, for every
\* sequence of system calls on a disk and a table of any size.
THEOREM FsTypeCorrect == Spec => []TypeOK
BY FsSpecInv, FsInvImplies, PTL

\* iget() never gives an inode that is in use a second slot.
THEOREM InodesHaveOneSlot == Spec => []OneSlot
BY FsSpecInv, FsInvImplies, PTL

\* No slot is given to another inode while a descriptor points to it.
THEOREM DescriptorsKeepInodes == Spec => []HandleKeepsInode
BY FsSpecInv, FsInvImplies, PTL

\* bmap() and balloc() give no block to two files, and mark all they give.
THEOREM BlocksHaveOneFile == Spec => []BlocksOwned
BY FsSpecInv, FsInvImplies, PTL

\* A call that sleeps for ever in iget() sleeps on an inode that exec() has
\* left locked, whatever was opened, created, written and closed before.
THEOREM OnlyExecHangs == Spec => []StuckByExec
BY FsSpecInv, FsInvImplies, PTL
=============================================================================
