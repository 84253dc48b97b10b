----------------------------- MODULE FilesProofs -----------------------------
(***************************************************************************)
(* The proof that Fs implements Files.                                     *)
(***************************************************************************)
EXTENDS FsProofs

\* Inodes on the disk: the last one stays free however often ialloc() returns
\* it, a free one is empty, and a name leads to one that is not free.
DiskTypes ==
  /\ dtype[NINUM] = "free"
  /\ \A i \in Inum : dtype[i] = "free" => dsize[i] = 0
  /\ \A k \in 1 .. Len(dir) : dir[k][2] # NINUM => dtype[dir[k][2]] # "free"

\* Inodes in memory: the size is always the one on the disk.  The type need
\* not be, but it is free only in inode NINUM, which can therefore not be
\* written.
SlotTypes ==
  \A s \in Slot : count[s] > 0 =>
    /\ size[s] = dsize[inum[s]]
    /\ inum[s] = NINUM => itype[s] = "free"
    /\ inum[s] # NINUM => itype[s] # "free" /\ dtype[inum[s]] # "free"

\* The blocks in memory are those on the disk and new ones, and no block is in
\* two places of a file.  No indirect block has reached the disk.
PlacesInv ==
  /\ \A s \in Slot : count[s] > 0 =>
       \A l \in Lbn :
         /\ daddrs[inum[s]][l] # 0 => addrs[s][l] = daddrs[inum[s]][l]
         /\ \A m \in Lbn : l # m /\ addrs[s][l] # 0 => addrs[s][l] # addrs[s][m]
  /\ \A i \in Inum : daddrs[i][NDIRECT] = 0
  /\ \A i \in Inum, l \in Lbn, m \in Lbn : l # m /\ daddrs[i][l] # 0 => daddrs[i][l] # daddrs[i][m]

FilesInv == DiskTypes /\ SlotTypes /\ PlacesInv

USE FsAssumption
-----------------------------------------------------------------------------
(* The variables of Files                                                   *)

Positions == 0 .. NDIRECT - 1

Content == [i \in Inum |-> [l \in Positions |->
              IF Place(i, l) = 0 THEN NULL ELSE data[Place(i, l)]]]
Length  == [i \in Inum |-> IF Active(i) # {}
              THEN size[CHOOSE s \in Slot : IsFirst(s, Active(i))] ELSE dsize[i]]
File    == [h \in Handle |-> IF ip[h] = NULL THEN NULL ELSE inum[ip[h]]]
Down    == panic \/ stuck # NULL \/ ~super

\* The slot that holds inode i is the only one, so iget() finds it.
LEMMA TheSlot ==
  ASSUME FsInv, NEW s \in Slot, count[s] > 0
  PROVE  (CHOOSE t \in Slot : IsFirst(t, Active(inum[s]))) = s
<1>1. \A t \in Slot : t \in Active(inum[s]) <=> t = s
  BY DEF Active, FsInv, OneSlot
<1>2. IsFirst(s, Active(inum[s])) /\ \A t \in Slot : IsFirst(t, Active(inum[s])) => t = s
  BY <1>1, Facts DEF IsFirst, Active
<1> QED BY <1>2

LEMMA PlaceFacts ==
  FsInv => \A i \in Inum, l \in Lbn :
             /\ \A s \in Slot : count[s] > 0 /\ inum[s] = i => Place(i, l) = addrs[s][l]
             /\ (\A s \in Slot : count[s] > 0 => inum[s] # i) => Place(i, l) = daddrs[i][l]
<1> SUFFICES ASSUME FsInv, NEW i \in Inum, NEW l \in Lbn
             PROVE  /\ \A s \in Slot : count[s] > 0 /\ inum[s] = i => Place(i, l) = addrs[s][l]
                    /\ (\A s \in Slot : count[s] > 0 => inum[s] # i) => Place(i, l) = daddrs[i][l]
  OBVIOUS
<1>1. ASSUME NEW s \in Slot, count[s] > 0, inum[s] = i PROVE Place(i, l) = addrs[s][l]
  <2>1. Active(i) # {} BY <1>1 DEF Active
  <2> QED BY <1>1, <2>1, TheSlot DEF Place
<1>2. ASSUME \A s \in Slot : count[s] > 0 => inum[s] # i PROVE Place(i, l) = daddrs[i][l]
  <2>1. Active(i) = {} BY <1>2 DEF Active
  <2> QED BY <2>1 DEF Place
<1> QED BY <1>1, <1>2

LEMMA PlaceNext ==
  (FsInv => \A i \in Inum, l \in Lbn :
             /\ \A s \in Slot : count[s] > 0 /\ inum[s] = i => Place(i, l) = addrs[s][l]
             /\ (\A s \in Slot : count[s] > 0 => inum[s] # i) => Place(i, l) = daddrs[i][l])'
BY PlaceFacts, PTL

\* The length of a file is its size on the disk.
LEMMA LengthIsSize == FsInv /\ SlotTypes => Length = dsize
<1> SUFFICES ASSUME FsInv, SlotTypes PROVE Length = dsize OBVIOUS
<1>1. ASSUME NEW i \in Inum PROVE Length[i] = dsize[i]
  <2>1. CASE Active(i) = {} BY <2>1 DEF Length
  <2>2. CASE Active(i) # {}
    <3>1. PICK s \in Slot : count[s] > 0 /\ inum[s] = i BY <2>2 DEF Active
    <3>2. Length[i] = size[s] BY <2>2, <3>1, TheSlot DEF Length
    <3> QED BY <3>1, <3>2 DEF SlotTypes
  <2> QED BY <2>1, <2>2
<1>2. dsize = [i \in Inum |-> dsize[i]] BY DEF FsInv, DiskOK
<1>3. Length = [i \in Inum |-> Length[i]] BY DEF Length
<1> QED BY <1>1, <1>2, <1>3

LEMMA LengthNext == (FsInv /\ SlotTypes => Length = dsize)'
BY LengthIsSize, PTL

\* What a reader finds depends on the places and the data only.
LEMMA SameContent ==
  ASSUME \A i \in Inum, l \in Positions : Place(i, l)' = Place(i, l), UNCHANGED data
  PROVE  Content' = Content
BY DEF Content
-----------------------------------------------------------------------------
(* The invariant                                                            *)

LEMMA FilesInitInv == Init => FilesInv
<1> SUFFICES ASSUME Init PROVE FilesInv OBVIOUS
<1> USE Facts
<1>1. \A i \in Inum : dtype[i] = IF i = 1 THEN "dir" ELSE IF i = 2 THEN "file" ELSE "free"
  BY DEF Init
<1>2. DiskTypes
  <2>1. Len(dir) = 1 /\ dir[1][2] = 2 BY DEF Init
  <2>2. \A i \in Inum : dsize[i] = IF i = 2 THEN 1 ELSE 0 BY DEF Init
  <2> QED BY <1>1, <2>1, <2>2 DEF DiskTypes
<1>3. SlotTypes BY DEF Init, SlotTypes
<1>4. PlacesInv
  <2>1. \A i \in Inum, l \in Lbn : daddrs[i][l] = IF i = 2 /\ l = 0 THEN 1 ELSE 0
    BY DEF Init
  <2>2. \A s \in Slot : ~(count[s] > 0) BY DEF Init
  <2> QED BY <2>1, <2>2 DEF PlacesInv
<1> QED BY <1>2, <1>3, <1>4 DEF FilesInv

LEMMA SameFilesInv ==
  ASSUME FilesInv, UNCHANGED <<slotVars, diskVars>>
  PROVE  FilesInv'
BY DEF FilesInv, DiskTypes, SlotTypes, PlacesInv, slotVars, diskVars

\* iget() moves no data: where a file is in no slot it loads what is on the disk.
LEMMA GetPlaces ==
  ASSUME FsInv, FsInv', PlacesInv, NEW i \in Inum, NEW s \in Slot, NEW taken,
         NEW stays \in BOOLEAN, Iget(i, s, taken), Load(s, i, stays),
         UNCHANGED <<daddrs, used>>
  PROVE  PlacesInv' /\ \A j \in Inum, l \in Lbn : Place(j, l)' = Place(j, l)
<1>0. /\ inum'[s] = i /\ count'[s] = count[s] + 1 /\ \A t \in Slot : count[t] \in Nat
      /\ \/ count[s] > 0 /\ inum[s] = i /\ addrs'[s] = addrs[s]
         \/ /\ count[s] = 0 /\ addrs'[s] = daddrs[i]
            /\ \A t \in Slot : count[t] > 0 => inum[t] # i
      /\ \A t \in Slot \ {s} : /\ inum'[t] = inum[t] /\ count'[t] = count[t]
                               /\ addrs'[t] = addrs[t]
  <2>1. DiskOK' BY DEF FsInv
  <2>2. \A t \in Slot : count[t] \in Nat BY DEF FsInv, SlotOK
  <2> QED BY <2>1, <2>2, GetFacts
<1>1. PlacesInv'
  <2>1. ASSUME NEW t \in Slot, count'[t] > 0, NEW l \in Lbn
        PROVE  /\ daddrs'[inum'[t]][l] # 0 => addrs'[t][l] = daddrs'[inum'[t]][l]
               /\ \A m \in Lbn : l # m /\ addrs'[t][l] # 0 => addrs'[t][l] # addrs'[t][m]
    <3>1. CASE /\ count[t] > 0 /\ inum'[t] = inum[t] /\ addrs'[t] = addrs[t]
      BY <3>1 DEF PlacesInv
    <3>2. CASE t = s /\ addrs'[s] = daddrs[i]
      BY <1>0, <3>2 DEF PlacesInv
    <3> QED BY <1>0, <2>1, <3>1, <3>2
  <2> QED BY <2>1 DEF PlacesInv
<1>2. ASSUME NEW j \in Inum, NEW l \in Lbn PROVE Place(j, l)' = Place(j, l)
  <2>1. CASE \E t \in Slot : count[t] > 0 /\ inum[t] = j
    <3>1. PICK t \in Slot : count[t] > 0 /\ inum[t] = j BY <2>1
    <3>2. count'[t] > 0 /\ inum'[t] = j /\ addrs'[t] = addrs[t] BY <1>0, <3>1
    <3>3. Place(j, l) = addrs[t][l] BY <3>1, PlaceFacts
    <3>4. Place(j, l)' = addrs'[t][l] BY <3>2, PlaceNext
    <3> QED BY <3>2, <3>3, <3>4
  <2>2. CASE \A t \in Slot : count[t] > 0 => inum[t] # j
    <3>1. Place(j, l) = daddrs[j][l] BY <2>2, PlaceFacts
    <3>2. CASE j = i
      <4>1. count'[s] > 0 /\ addrs'[s] = daddrs[i] BY <1>0, <2>2, <3>2
      <4>2. Place(j, l)' = addrs'[s][l] BY <1>0, <3>2, <4>1, PlaceNext
      <4> QED BY <3>1, <3>2, <4>1, <4>2
    <3>3. CASE j # i
      <4>1. \A t \in Slot : count'[t] > 0 => inum'[t] # j BY <1>0, <2>2, <3>3
      <4>2. Place(j, l)' = daddrs'[j][l] BY <4>1, PlaceNext
      <4> QED BY <3>1, <4>2
    <3> QED BY <3>2, <3>3
  <2> QED BY <2>1, <2>2
<1> QED BY <1>1, <1>2

\* The type and the size that iget() loads.
LEMMA GetTypes ==
  ASSUME FsInv, DiskOK', SlotTypes, DiskTypes', NEW i \in Inum, NEW s \in Slot, NEW taken,
         NEW stays \in BOOLEAN, Iget(i, s, taken), Load(s, i, stays),
         UNCHANGED <<dsize, daddrs, used>>, i # NINUM => dtype'[i] # "free",
         \A j \in Inum : dtype[j] # "free" => dtype'[j] # "free"
  PROVE  SlotTypes'
<1>1. /\ inum'[s] = i /\ count'[s] = count[s] + 1 /\ \A t \in Slot : count[t] \in Nat
      /\ \/ count[s] > 0 /\ inum[s] = i
         \/ count[s] = 0 /\ \A t \in Slot : count[t] > 0 => inum[t] # i
      /\ \A t \in Slot \ {s} : inum'[t] = inum[t] /\ count'[t] = count[t]
  <2>1. \A t \in Slot : count[t] \in Nat BY DEF FsInv, SlotOK
  <2> QED BY <2>1, GetFacts
<1>2. /\ itype'[s] = IF s \in Active(i) THEN itype[s] ELSE dtype'[i]
      /\ size'[s] = IF s \in Active(i) THEN size[s] ELSE dsize'[i]
      /\ \A t \in Slot \ {s} : itype'[t] = itype[t] /\ size'[t] = size[t]
  BY DEF Load, FsInv, SlotOK
<1>3. s \in Active(i) <=> count[s] > 0 /\ inum[s] = i
  BY DEF Active
<1>4. ASSUME NEW t \in Slot, count'[t] > 0
      PROVE  /\ size'[t] = dsize'[inum'[t]]
             /\ inum'[t] = NINUM => itype'[t] = "free"
             /\ inum'[t] # NINUM => itype'[t] # "free" /\ dtype'[inum'[t]] # "free"
  <2>1. CASE /\ count[t] > 0 /\ inum'[t] = inum[t] /\ itype'[t] = itype[t]
             /\ size'[t] = size[t]
    <3>1. inum[t] \in Inum BY DEF FsInv, SlotOK
    <3> QED BY <2>1, <3>1 DEF SlotTypes
  <2>2. CASE t = s /\ s \notin Active(i)
    <3>1. itype'[s] = dtype'[i] /\ size'[s] = dsize'[i] BY <1>2, <2>2
    <3> QED BY <1>1, <2>2, <3>1 DEF DiskTypes
  <2> QED BY <1>1, <1>2, <1>3, <1>4, <2>1, <2>2
<1> QED BY <1>4 DEF SlotTypes

\* mknod() makes no inode free and empties none that is not.
LEMMA MknodTypes ==
  ASSUME FsInv, DiskTypes, NEW n \in Name, NEW i \in Inum, NEW ty \in Types \ {"free"},
         IallocNum(i), Mknod(n, i, ty)
  PROVE  /\ DiskTypes' /\ UNCHANGED dsize
         /\ i # NINUM => dtype'[i] # "free"
         /\ \A j \in Inum : dtype[j] # "free" => dtype'[j] # "free"
<1> USE Facts
<1>1. dtype[i] = "free"
  BY DEF IallocNum, IsFirst, DiskTypes
<1>2. dsize' = dsize
  <2>1. dsize[i] = 0 BY <1>1 DEF DiskTypes
  <2>2. \A j \in Inum : dsize'[j] = dsize[j] BY <2>1 DEF Mknod, FsInv, DiskOK
  <2>3. dsize = [j \in Inum |-> dsize[j]] BY DEF FsInv, DiskOK
  <2>4. dsize' = [j \in Inum |-> dsize'[j]] BY MknodDisk DEF DiskOK
  <2> QED BY <2>2, <2>3, <2>4
<1>3. /\ dtype'[NINUM] = "free"
      /\ \A j \in Inum : dtype'[j] = dtype[j] \/ dtype'[j] = ty
  BY DEF Mknod, IallocDisk, FsInv, DiskOK, DiskTypes
<1>4. i # NINUM => dtype'[i] = ty
  BY DEF Mknod, IallocDisk, FsInv, DiskOK, DiskTypes
<1>5. ASSUME NEW j \in Inum, dtype'[j] = "free" PROVE dsize'[j] = 0
  BY <1>2, <1>3, <1>5 DEF DiskTypes
<1>6. ASSUME NEW k \in 1 .. Len(dir'), dir'[k][2] # NINUM PROVE dtype'[dir'[k][2]] # "free"
  <2>0. dir \in Seq(Name \X Inum) /\ dir' = Append(dir, <<n, i>>)
    BY DEF Mknod, FsInv, DiskOK
  <2>1. CASE k = Len(dir) + 1
    <3>1. dir'[k] = <<n, i>> BY <2>0, <2>1
    <3> QED BY <1>4, <1>6, <3>1
  <2>2. CASE k \in 1 .. Len(dir)
    <3>1. dir'[k] = dir[k] /\ dir[k][2] \in Inum BY <2>0, <2>2
    <3> QED BY <1>3, <1>6, <2>2, <3>1 DEF DiskTypes
  <2> QED BY <2>0, <2>1, <2>2
<1> QED BY <1>2, <1>3, <1>4, <1>5, <1>6 DEF DiskTypes
-----------------------------------------------------------------------------
(* The steps of Files                                                       *)

\* The actions of Files on the variables above.
LEMMA FilesActions ==
  ASSUME NEW h, NEW i, NEW v
  PROVE  /\ F!vars = <<Content, Length, File, off, execd, Down>>
         /\ F!vars' = <<Content', Length', File', off', execd', Down'>>
         /\ File[h] = NULL /\ File' = [File EXCEPT ![h] = i] /\ off' = [off EXCEPT ![h] = 0]
            /\ UNCHANGED <<Content, Length, execd, Down>> => F!Open(h, i)
         /\ File[h] # NULL /\ off[h] < Length[File[h]] /\ off' = [off EXCEPT ![h] = @ + 1]
            /\ UNCHANGED <<Content, Length, File, execd, Down>> => F!Read(h)
         /\ execd' = execd \cup {i} /\ UNCHANGED <<Content, Length, File, off, Down>>
            => F!Exec(i)
         /\ Down' = TRUE /\ Length' \in [Inum -> Nat] /\ off' \in [Handle -> Nat]
            /\ UNCHANGED <<Content, File, execd>> => F!Fail
<1> USE DEF Content, Length, File, Down, Positions
<1>1. F!vars = <<Content, Length, File, off, execd, Down>>
  BY DEF F!vars
<1>2. F!vars' = <<Content', Length', File', off', execd', Down'>>
  BY DEF F!vars
<1>3. File[h] = NULL /\ File' = [File EXCEPT ![h] = i] /\ off' = [off EXCEPT ![h] = 0]
      /\ UNCHANGED <<Content, Length, execd, Down>> => F!Open(h, i)
  BY DEF F!Open
<1>4. File[h] # NULL /\ off[h] < Length[File[h]] /\ off' = [off EXCEPT ![h] = @ + 1]
      /\ UNCHANGED <<Content, Length, File, execd, Down>> => F!Read(h)
  BY DEF F!Read
<1>5. execd' = execd \cup {i} /\ UNCHANGED <<Content, Length, File, off, Down>> => F!Exec(i)
  BY DEF F!Exec
<1>6. Down' = TRUE /\ Length' \in [Inum -> Nat] /\ off' \in [Handle -> Nat]
      /\ UNCHANGED <<Content, File, execd>> => F!Fail
  BY DEF F!Fail
<1> QED BY <1>1, <1>2, <1>3, <1>4, <1>5, <1>6

LEMMA FilesWrite ==
  ASSUME NEW h, NEW v, File[h] # NULL, off[h] \in Positions,
         Content' = [Content EXCEPT ![File[h]][off[h]] = v],
         off' = [off EXCEPT ![h] = @ + 1],
         Length' = [Length EXCEPT ![File[h]] = IF @ > off[h] THEN @ ELSE off[h] + 1],
         UNCHANGED <<File, execd, Down>>
  PROVE  F!Write(h, v)
BY DEF Content, Length, File, Down, Positions, F!Write

LEMMA FilesClose ==
  ASSUME NEW h, File[h] # NULL, File' = [File EXCEPT ![h] = NULL],
         off' = [off EXCEPT ![h] = 0], UNCHANGED <<Length, execd, Down>>,
         \/ UNCHANGED Content
         \/ /\ {g \in Handle : File[g] = File[h]} = {h} /\ File[h] \notin execd
            /\ \E lost \in SUBSET Positions :
                 Content' = [Content EXCEPT ![File[h]] =
                               [l \in Positions |-> IF l \in lost THEN NULL ELSE @[l]]]
  PROVE  F!Close(h)
BY DEF Content, Length, File, Down, Positions, F!Close, F!Users

\* The types of the variables of Files.
LEMMA FilesTypes ==
  FsInv /\ SlotTypes => /\ Length \in [Inum -> Nat] /\ off \in [Handle -> Nat]
                        /\ File \in [Handle -> Inum \cup {NULL}]
<1> SUFFICES ASSUME FsInv, SlotTypes
             PROVE  /\ Length \in [Inum -> Nat] /\ off \in [Handle -> Nat]
                    /\ File \in [Handle -> Inum \cup {NULL}]
  OBVIOUS
<1>1. dsize \in [Inum -> Nat] BY DEF FsInv, DiskOK
<1>2. off \in [Handle -> Nat] BY DEF FsInv, HandleOK
<1>3. File \in [Handle -> Inum \cup {NULL}] BY OnInUse DEF File
<1> QED BY <1>1, <1>2, <1>3, LengthIsSize

\* A call that panics or sleeps for ever.
LEMMA StopsRefine ==
  ASSUME FsInv, FilesInv, UNCHANGED <<slotVars, diskVars, fileVars, execd>>,
         panic' = TRUE \/ stuck' # NULL
  PROVE  FilesInv' /\ F!Fail
<1>1. FilesInv' BY SameFilesInv
<1>2. UNCHANGED <<Content, Length, File, off, execd>>
  BY DEF Content, Length, File, Place, Active, slotVars, diskVars, fileVars
<1>3. Down' = TRUE BY DEF Down
<1>4. Length \in [Inum -> Nat] /\ off \in [Handle -> Nat] BY FilesTypes DEF FilesInv
<1> QED BY <1>1, <1>2, <1>3, <1>4, FilesActions

LEMMA PanicRefine == ASSUME FsInv, FilesInv, Panic PROVE FilesInv' /\ F!Fail
BY StopsRefine DEF Panic

LEMMA HangRefine ==
  ASSUME FsInv, FilesInv, NEW i \in Inum, Hang(i) PROVE FilesInv' /\ F!Fail
BY Facts, StopsRefine DEF Hang

\* A new descriptor sees what the others see.
LEMMA OpenedRefine ==
  ASSUME FsInv, FsInv', FilesInv, DiskTypes', NEW i \in Inum, NEW s \in Slot, NEW taken,
         NEW h \in Handle, ip[h] = NULL,
         Iget(i, s, taken), Load(s, i, FALSE), OpenOn(h, s, i),
         UNCHANGED <<daddrs, dsize, used, data, super, stuck, panic, execd>>,
         i # NINUM => dtype'[i] # "free",
         \A j \in Inum : dtype[j] # "free" => dtype'[j] # "free"
  PROVE  FilesInv' /\ F!Open(h, i)
<1> USE Facts
<1>0. PICK stays \in BOOLEAN : stays = FALSE /\ Load(s, i, stays) OBVIOUS
<1>1. PlacesInv' /\ \A j \in Inum, l \in Lbn : Place(j, l)' = Place(j, l)
  BY <1>0, GetPlaces DEF FilesInv
<1>2. SlotTypes'
  <2>1. DiskOK' BY DEF FsInv
  <2> QED BY <1>0, <2>1, GetTypes DEF FilesInv
<1>3. Content' = Content
  BY <1>1, SameContent DEF Positions
<1>4. Length' = Length
  BY <1>2, LengthIsSize, LengthNext DEF FilesInv
<1>5. Down' = Down BY DEF Down
<1>6. File[h] = NULL /\ File' = [File EXCEPT ![h] = i]
  <2>1. File[h] = NULL BY DEF File
  <2>2. File'[h] = i
    <3>1. ip'[h] = s /\ inum'[s] = i
      BY <1>0 DEF OpenOn, Load, FsInv, HandleOK, SlotOK
    <3> QED BY <3>1 DEF File
  <2>3. ASSUME NEW g \in Handle \ {h} PROVE File'[g] = File[g]
    <3>1. ip'[g] = ip[g] BY DEF OpenOn, FsInv, HandleOK
    <3>2. CASE ip[g] = NULL BY <3>1, <3>2 DEF File
    <3>3. CASE ip[g] # NULL
      <4>1. PICK t \in Slot : t = ip[g] /\ count[t] > 0 BY <3>3, OnInUse
      <4>2. inum'[t] = inum[t]
        <5>1. inum'[s] = i /\ (inum[s] = i \/ count[s] = 0)
          BY DEF Load, Iget, IsFirst, Active, Free, FsInv, SlotOK
        <5>2. t # s => inum'[t] = inum[t] BY DEF Load, FsInv, SlotOK
        <5> QED BY <4>1, <5>1, <5>2
      <4> QED BY <3>1, <3>3, <4>1, <4>2 DEF File
    <3> QED BY <3>2, <3>3
  <2>4. File' = [g \in Handle |-> File'[g]] /\ File = [g \in Handle |-> File[g]]
    BY DEF File
  <2> QED BY <2>1, <2>2, <2>3, <2>4
<1>7. off' = [off EXCEPT ![h] = 0] BY DEF OpenOn
<1>8. F!Open(h, i)
  BY <1>3, <1>4, <1>5, <1>6, <1>7, FilesActions
<1> QED BY <1>1, <1>2, <1>8 DEF FilesInv

LEMMA ExecRefine ==
  ASSUME FsInv, FsInv', FilesInv, NEW i \in Inum, NEW s \in Slot, NEW taken,
         Iget(i, s, taken), Load(s, i, TRUE), UNCHANGED <<diskVars, fileVars, stuck, panic>>,
         execd' = execd \cup {i}, i # NINUM => dtype[i] # "free"
  PROVE  FilesInv' /\ F!Exec(i)
<1> USE Facts
<1>0. PICK stays \in BOOLEAN : stays = TRUE /\ Load(s, i, stays) OBVIOUS
<1>1. /\ UNCHANGED <<dtype, dsize, daddrs, used, data, dir, super, ip, off>>
      /\ DiskOK' /\ DiskTypes'
  BY DEF diskVars, fileVars, FsInv, FilesInv, DiskTypes
<1>2. PlacesInv' /\ \A j \in Inum, l \in Lbn : Place(j, l)' = Place(j, l)
  BY <1>0, <1>1, GetPlaces DEF FilesInv
<1>3. SlotTypes'
  BY <1>0, <1>1, GetTypes DEF FilesInv
<1>4. Content' = Content
  BY <1>1, <1>2, SameContent DEF Positions
<1>5. Length' = Length
  BY <1>1, <1>3, LengthIsSize, LengthNext DEF FilesInv
<1>6. Down' = Down BY <1>1 DEF Down
<1>7. File' = File
  <2>1. ASSUME NEW g \in Handle, ip[g] # NULL PROVE inum'[ip[g]] = inum[ip[g]]
    <3>1. PICK t \in Slot : t = ip[g] /\ count[t] > 0 BY <2>1, OnInUse
    <3>2. inum'[s] = i /\ (inum[s] = i \/ count[s] = 0)
      BY DEF Load, Iget, IsFirst, Active, Free, FsInv, SlotOK
    <3>3. t # s => inum'[t] = inum[t] BY DEF Load, FsInv, SlotOK
    <3> QED BY <3>1, <3>2, <3>3
  <2> QED BY <1>1, <2>1 DEF File
<1>8. F!Exec(i)
  BY <1>1, <1>4, <1>5, <1>6, <1>7, FilesActions
<1> QED BY <1>1, <1>2, <1>3, <1>8 DEF FilesInv

\* mknod() touches no file that exists.
LEMMA MknodRefine ==
  ASSUME FsInv, FilesInv, NEW n \in Name, NEW i \in Inum, IallocNum(i), Mknod(n, i, "dev"),
         UNCHANGED <<slotVars, fileVars, stuck, panic, written, execd>>
  PROVE  FilesInv' /\ UNCHANGED F!vars
<1>1. PICK ty \in Types \ {"free"} : ty = "dev" BY DEF Types
<1>2. /\ DiskTypes' /\ UNCHANGED <<dsize, daddrs, data, super>>
      /\ \A j \in Inum : dtype[j] # "free" => dtype'[j] # "free"
  BY <1>1, MknodTypes DEF FilesInv, Mknod
<1>3. SlotTypes'
  BY <1>2 DEF FilesInv, SlotTypes, FsInv, SlotOK, slotVars
<1>4. PlacesInv'
  BY <1>2 DEF FilesInv, PlacesInv, slotVars
<1>5. UNCHANGED <<Content, Length, File, off, execd, Down>>
  BY <1>2 DEF Content, Length, File, Down, Place, Active, slotVars, fileVars
<1> QED BY <1>2, <1>3, <1>4, <1>5, FilesActions DEF FilesInv

\* A read moves the position within the file.
LEMMA ReadRefine ==
  ASSUME FsInv, FilesInv, NEW h \in Handle, SysRead(h)
  PROVE  FilesInv' /\ F!Read(h)
<1> USE Facts
<1>1. FilesInv' BY SameFilesInv DEF SysRead
<1>2. UNCHANGED <<Content, Length, File, execd, Down>>
  BY DEF SysRead, Content, Length, File, Down, Place, Active, slotVars, diskVars
<1>3. File[h] # NULL /\ off[h] < Length[File[h]]
  <2>1. PICK s \in Slot : s = ip[h] /\ count[s] > 0 /\ inum[s] \in Inum
    BY OnInUse DEF SysRead
  <2>2. File[h] = inum[s] BY <2>1 DEF File
  <2>3. Length[inum[s]] = size[s] BY <2>1, LengthIsSize DEF FilesInv, SlotTypes
  <2> QED BY <2>1, <2>2, <2>3 DEF SysRead
<1>4. off' = [off EXCEPT ![h] = @ + 1] BY DEF SysRead
<1> QED BY <1>1, <1>2, <1>3, <1>4, FilesActions

\* The block at a place of a file belongs to it.
LEMMA PlaceOwned ==
  ASSUME FsInv, NEW j \in Inum, NEW m \in Lbn, Place(j, m) # 0
  PROVE  Place(j, m) \in Owned(j) /\ Owned(j) \subseteq used
<1>1. CASE \E t \in Slot : count[t] > 0 /\ inum[t] = j
  <2>1. PICK t \in Slot : count[t] > 0 /\ inum[t] = j BY <1>1
  <2>2. Place(j, m) = addrs[t][m] /\ t \in Active(j) BY <2>1, PlaceFacts DEF Active
  <2> QED BY <2>2 DEF Owned, FsInv, BlocksOwned
<1>2. CASE \A t \in Slot : count[t] > 0 => inum[t] # j
  <2>1. Place(j, m) = daddrs[j][m] BY <1>2, PlaceFacts
  <2> QED BY <2>1 DEF Owned, FsInv, BlocksOwned
<1> QED BY <1>1, <1>2

LEMMA BlocksApart ==
  ASSUME PlacesInv, NEW s \in Slot, count[s] > 0, NEW l \in Lbn, NEW m \in Lbn, l # m,
         addrs[s][l] # 0
  PROVE  addrs[s][l] # addrs[s][m]
BY DEF PlacesInv

\* writei() changes one place of one file.
LEMMA WritePlaces ==
  ASSUME FsInv, FsInv', PlacesInv, NEW s \in Slot, count[s] > 0, NEW l \in Lbn, NEW b \in Block,
         addrs'[s][l] = b,
         \A t \in Slot, m \in Lbn : t # s \/ m # l => addrs'[t][m] = addrs[t][m],
         inum' = inum, count' = count, daddrs' = daddrs,
         b = addrs[s][l] \/ b \notin used, daddrs[inum[s]][l] # 0 => b = addrs[s][l]
  PROVE  /\ PlacesInv' /\ Place(inum[s], l)' = b
         /\ \A j \in Inum, m \in Lbn : j # inum[s] \/ m # l => Place(j, m)' = Place(j, m)
<1> USE Facts
<1>0. /\ addrs'[s][l] = b /\ inum[s] \in Inum
      /\ \A t \in Slot, m \in Lbn : t # s \/ m # l => addrs'[t][m] = addrs[t][m]
  BY DEF FsInv, SlotOK
<1>1. \A m \in Lbn : m # l /\ b = addrs[s][m] => FALSE
  <2> SUFFICES ASSUME NEW m \in Lbn, m # l, b = addrs[s][m] PROVE FALSE OBVIOUS
  <2>1. PICK j \in Inum : j = inum[s] BY <1>0
  <2>2. b \in used
    <3>1. Place(j, m) = b BY <2>1, PlaceFacts
    <3>2. b # 0 OBVIOUS
    <3>3. Place(j, m) \in Owned(j) /\ Owned(j) \subseteq used BY <3>1, <3>2, PlaceOwned
    <3> QED BY <3>1, <3>3
  <2>3. b = addrs[s][l] /\ b # 0 BY <2>2
  <2>4. addrs[s][m] # 0 => addrs[s][m] # addrs[s][l] BY DEF PlacesInv
  <2> QED BY <2>3, <2>4
<1>2. PlacesInv'
  <2>1. ASSUME NEW t \in Slot, count[t] > 0, NEW m \in Lbn
        PROVE  /\ daddrs[inum[t]][m] # 0 => addrs'[t][m] = daddrs[inum[t]][m]
               /\ \A k \in Lbn : m # k /\ addrs'[t][m] # 0 => addrs'[t][m] # addrs'[t][k]
    <3>1. CASE t # s BY <1>0, <2>1, <3>1 DEF PlacesInv
    <3>2. CASE t = s
      <4>1. daddrs[inum[t]][m] # 0 => addrs'[t][m] = daddrs[inum[t]][m]
        BY <1>0, <2>1, <3>2 DEF PlacesInv
      <4>2. ASSUME NEW k \in Lbn, m # k, addrs'[t][m] # 0, addrs'[t][m] = addrs'[t][k]
            PROVE  FALSE
        <5>1. CASE m = l BY <1>0, <1>1, <3>2, <4>2, <5>1
        <5>2. CASE k = l BY <1>0, <1>1, <3>2, <4>2, <5>2
        <5>3. CASE m # l /\ k # l BY <1>0, <2>1, <3>2, <4>2, <5>3 DEF PlacesInv
        <5> QED BY <5>1, <5>2, <5>3
      <4> QED BY <4>1, <4>2
    <3> QED BY <3>1, <3>2
  <2> QED BY <2>1 DEF PlacesInv
<1>3. ASSUME NEW j \in Inum, NEW m \in Lbn
      PROVE  /\ j = inum[s] /\ m = l => Place(j, m)' = b
             /\ j # inum[s] \/ m # l => Place(j, m)' = Place(j, m)
  <2>1. CASE \E t \in Slot : count[t] > 0 /\ inum[t] = j
    <3>1. PICK t \in Slot : count[t] > 0 /\ inum[t] = j BY <2>1
    <3>2. Place(j, m) = addrs[t][m] BY <3>1, PlaceFacts
    <3>3. Place(j, m)' = addrs'[t][m] BY <3>1, PlaceNext
    <3>4. j = inum[s] <=> t = s BY <3>1 DEF FsInv, OneSlot
    <3> QED BY <1>0, <3>2, <3>3, <3>4
  <2>2. CASE \A t \in Slot : count[t] > 0 => inum[t] # j
    <3>1. Place(j, m) = daddrs[j][m] BY <2>2, PlaceFacts
    <3>2. Place(j, m)' = daddrs'[j][m] BY <2>2, PlaceNext
    <3> QED BY <2>2, <3>1, <3>2
  <2> QED BY <2>1, <2>2
<1> QED BY <1>0, <1>2, <1>3

\* iupdate(): the size on the disk follows the one in memory.
LEMMA WriteTypes ==
  ASSUME FsInv, FilesInv, NEW h \in Handle, NEW v, NEW s \in Slot, s = ip[h], count[s] > 0,
         itype[s] = "file", Wrote(h, v)
  PROVE  /\ DiskTypes' /\ SlotTypes' /\ inum[s] # NINUM
         /\ dsize' = [dsize EXCEPT ![inum[s]] = IF @ > off[h] THEN @ ELSE off[h] + 1]
<1> USE Facts
<1>1. /\ inum[s] \in Inum /\ inum[s] # NINUM /\ size[s] = dsize[inum[s]]
      /\ UNCHANGED <<itype, inum, count, dir>>
  BY DEF FsInv, SlotOK, FilesInv, SlotTypes, Wrote
<1>2. size' = [size EXCEPT ![s] = IF @ > off[h] THEN @ ELSE off[h] + 1]
  BY DEF Wrote
<1>3. size'[s] = IF size[s] > off[h] THEN size[s] ELSE off[h] + 1
  BY <1>2 DEF FsInv, SlotOK
<1>4. \A t \in Slot \ {s} : size'[t] = size[t]
  BY <1>2 DEF FsInv, SlotOK
<1>5. dsize' = [dsize EXCEPT ![inum[s]] = size'[s]] /\ dtype' = [dtype EXCEPT ![inum[s]] = "file"]
  BY DEF Wrote, Iupdate
<1>6. /\ dsize'[inum[s]] = size'[s] /\ dtype'[inum[s]] = "file"
      /\ \A j \in Inum \ {inum[s]} : dsize'[j] = dsize[j] /\ dtype'[j] = dtype[j]
  BY <1>1, <1>5 DEF FsInv, DiskOK
<1>7. DiskTypes'
  <2>1. \A k \in 1 .. Len(dir) : dir[k][2] \in Inum BY DEF FsInv, DiskOK
  <2>2. dtype'[NINUM] = "free" BY <1>1, <1>6 DEF FilesInv, DiskTypes
  <2>3. ASSUME NEW j \in Inum, dtype'[j] = "free" PROVE dsize'[j] = 0
    <3>1. j # inum[s] BY <1>6, <2>3
    <3> QED BY <1>6, <2>3, <3>1 DEF FilesInv, DiskTypes
  <2>4. ASSUME NEW j \in Inum, dtype[j] # "free" PROVE dtype'[j] # "free"
    BY <1>6, <2>4
  <2>5. \A k \in 1 .. Len(dir) : dir[k][2] # NINUM => dtype'[dir[k][2]] # "free"
    BY <2>1, <2>4 DEF FilesInv, DiskTypes
  <2> QED BY <1>1, <2>2, <2>3, <2>5 DEF DiskTypes
<1>8. SlotTypes'
  <2>1. ASSUME NEW t \in Slot, count[t] > 0
        PROVE  /\ size'[t] = dsize'[inum[t]]
               /\ inum[t] = NINUM => itype[t] = "free"
               /\ inum[t] # NINUM => itype[t] # "free" /\ dtype'[inum[t]] # "free"
    <3>1. CASE t = s BY <1>1, <1>6, <3>1
    <3>2. CASE t # s
      <4>1. inum[t] \in Inum \ {inum[s]} BY <2>1, <3>2 DEF FsInv, OneSlot, SlotOK
      <4>2. /\ size'[t] = size[t] /\ dsize'[inum[t]] = dsize[inum[t]]
            /\ dtype'[inum[t]] = dtype[inum[t]]
        BY <1>4, <1>6, <3>2, <4>1
      <4> QED BY <2>1, <4>2 DEF FilesInv, SlotTypes
    <3> QED BY <3>1, <3>2
  <2> QED BY <1>1, <2>1 DEF SlotTypes
<1> QED BY <1>1, <1>3, <1>5, <1>7, <1>8

\* A write to a direct block: readers see it at its place, and nothing else.
LEMMA DirectRefine ==
  ASSUME FsInv, FsInv', FilesInv, NEW h \in Handle, NEW v \in Value, ip[h] # NULL,
         itype[ip[h]] = "file", off[h] < NDIRECT, WriteDirect(h, v)
  PROVE  FilesInv' /\ F!Write(h, v)
<1> USE Facts
<1>0. PICK s \in Slot : s = ip[h] /\ count[s] > 0 BY OnInUse
<1>1. PICK l \in Lbn : l = off[h] /\ l \in Positions
  BY DEF Lbn, FsInv, HandleOK, Positions
<1>2. PICK b \in Block :
        /\ IF addrs[s][l] = 0 THEN NextFree(b, used) ELSE b = addrs[s][l]
        /\ addrs' = [addrs EXCEPT ![s][l] = b]
        /\ data' = [data EXCEPT ![b] = v]
        /\ UNCHANGED super
        /\ Wrote(h, v)
  BY <1>0, <1>1 DEF WriteDirect
<1>3. PICK i \in Inum : i = inum[s] BY DEF FsInv, SlotOK
<1>4. UNCHANGED <<inum, count, daddrs, ip, execd, stuck, panic>> BY <1>2 DEF Wrote
<1>5. /\ PlacesInv'
      /\ Place(i, l)' = b
      /\ \A j \in Inum, m \in Lbn : j # i \/ m # l => Place(j, m)' = Place(j, m)
  <2>1. b = addrs[s][l] \/ b \notin used BY <1>2 DEF NextFree, IsFirst
  <2>2. daddrs[inum[s]][l] # 0 => b = addrs[s][l]
    BY <1>0, <1>2 DEF FilesInv, PlacesInv
  <2>3. PlacesInv BY DEF FilesInv
  <2>4. /\ addrs'[s][l] = b
        /\ \A t \in Slot, m \in Lbn : t # s \/ m # l => addrs'[t][m] = addrs[t][m]
    BY <1>2 DEF FsInv, SlotOK
  <2>5. /\ PlacesInv' /\ Place(inum[s], l)' = b
        /\ \A j \in Inum, m \in Lbn : j # inum[s] \/ m # l => Place(j, m)' = Place(j, m)
    <3>1. count[s] > 0 /\ inum' = inum /\ count' = count /\ daddrs' = daddrs BY <1>0, <1>4
    <3> QED BY <2>1, <2>2, <2>3, <2>4, <3>1, WritePlaces
  <2> QED BY <1>3, <1>4, <2>5
<1>6. /\ DiskTypes' /\ SlotTypes'
      /\ dsize' = [dsize EXCEPT ![i] = IF @ > off[h] THEN @ ELSE off[h] + 1]
  BY <1>0, <1>2, <1>3, WriteTypes
<1>7. Length' = [Length EXCEPT ![i] = IF @ > off[h] THEN @ ELSE off[h] + 1]
  BY <1>6, LengthIsSize, LengthNext DEF FilesInv
<1>8. File[h] = i /\ File' = File
  BY <1>0, <1>3, <1>4 DEF File
<1>9. Content' = [Content EXCEPT ![i][l] = v]
  <2>1. data'[b] = v /\ \A x \in Block \ {b} : data'[x] = data[x]
    BY <1>2 DEF FsInv, DiskOK
  <2>2. Content'[i][l] = v BY <1>1, <1>5, <2>1 DEF Content
  <2>3. ASSUME NEW j \in Inum, NEW m \in Positions, j # i \/ m # l
        PROVE  Content'[j][m] = Content[j][m]
    <3>0. m \in Lbn /\ Place(j, m)' = Place(j, m) BY <1>5, <2>3 DEF Positions
    <3>1. CASE Place(j, m) = 0 BY <3>0, <3>1 DEF Content
    <3>2. CASE Place(j, m) # 0
      <4>1. Place(j, m) \in Owned(j) /\ Owned(j) \subseteq used /\ used \subseteq Block
        BY <3>0, <3>2, PlaceOwned DEF FsInv, DiskOK
      <4>2. Place(j, m) # b
        <5> SUFFICES ASSUME Place(j, m) = b PROVE FALSE OBVIOUS
        <5>1. b = addrs[s][l] BY <1>2, <4>1 DEF NextFree, IsFirst
        <5>2. Place(i, l) = b BY <1>0, <1>3, <5>1, PlaceFacts
        <5>3. b \in Owned(i) BY <5>2, PlaceOwned
        <5>4. j = i BY <4>1, <5>3 DEF FsInv, BlocksOwned
        <5>5. m # l /\ addrs[s][m] = b BY <1>0, <1>3, <2>3, <3>0, <5>4, PlaceFacts
        <5>6. addrs[s][m] # 0 => addrs[s][m] # addrs[s][l]
          BY <1>0, <3>0, <5>5, BlocksApart DEF FilesInv
        <5> QED BY <5>1, <5>5, <5>6
      <4>3. data'[Place(j, m)] = data[Place(j, m)] BY <2>1, <4>1, <4>2
      <4> QED BY <3>0, <3>2, <4>3 DEF Content
    <3> QED BY <3>1, <3>2
  <2>4. /\ Content = [j \in Inum |-> Content[j]] /\ Content' = [j \in Inum |-> Content'[j]]
        /\ \A j \in Inum : /\ Content[j] = [m \in Positions |-> Content[j][m]]
                           /\ Content'[j] = [m \in Positions |-> Content'[j][m]]
    BY DEF Content
  <2>5. ASSUME NEW j \in Inum \ {i} PROVE Content'[j] = Content[j]
    BY <2>3, <2>4
  <2>6. Content'[i] = [Content[i] EXCEPT ![l] = v]
    BY <1>1, <2>2, <2>3, <2>4
  <2> QED BY <2>4, <2>5, <2>6
<1>10. off' = [off EXCEPT ![h] = @ + 1]
  BY <1>2 DEF Wrote
<1>11. UNCHANGED <<execd, Down>>
  BY <1>2, <1>4 DEF Down
<1>12. F!Write(h, v)
  BY <1>1, <1>7, <1>8, <1>9, <1>10, <1>11, FilesWrite
<1> QED BY <1>5, <1>6, <1>12 DEF FilesInv

\* The write that goes to sector 1: the files are as they were, but no call
\* can find them any more.
LEMMA IndirectRefine ==
  ASSUME FsInv, FsInv', FilesInv, NEW h \in Handle, NEW v \in Value, ip[h] # NULL,
         itype[ip[h]] = "file", off[h] = NDIRECT, WriteIndirect(h, v)
  PROVE  FilesInv' /\ F!Fail
<1> USE Facts
<1>0. PICK s \in Slot : s = ip[h] /\ count[s] > 0 BY OnInUse
<1>1. PICK l \in Lbn : l = NDIRECT OBVIOUS
<1>2. PICK b \in Block :
        /\ b \notin used /\ addrs' = [addrs EXCEPT ![s][l] = b]
        /\ super' = FALSE /\ UNCHANGED data /\ Wrote(h, v)
  BY <1>0, <1>1 DEF WriteIndirect, NextFree, IsFirst
<1>3. inum[s] \in Inum BY DEF FsInv, SlotOK
<1>4. UNCHANGED <<inum, count, daddrs, ip, execd>> BY <1>2 DEF Wrote
<1>5. /\ PlacesInv'
      /\ \A j \in Inum, m \in Lbn : j # inum[s] \/ m # l => Place(j, m)' = Place(j, m)
  <2>1. daddrs[inum[s]][l] # 0 => b = addrs[s][l]
    BY <1>1, <1>3 DEF FilesInv, PlacesInv
  <2>2. PlacesInv BY DEF FilesInv
  <2>3. /\ addrs'[s][l] = b /\ (b = addrs[s][l] \/ b \notin used)
        /\ \A t \in Slot, m \in Lbn : t # s \/ m # l => addrs'[t][m] = addrs[t][m]
    BY <1>2 DEF FsInv, SlotOK
  <2>4. count[s] > 0 /\ inum' = inum /\ count' = count /\ daddrs' = daddrs BY <1>0, <1>4
  <2> QED BY <2>1, <2>2, <2>3, <2>4, WritePlaces
<1>6. DiskTypes' /\ SlotTypes'
  BY <1>0, <1>2, WriteTypes
<1>7. Content' = Content
  BY <1>1, <1>2, <1>5, SameContent DEF Positions
<1>8. File' = File BY <1>4 DEF File
<1>9. Length' \in [Inum -> Nat] /\ off' \in [Handle -> Nat]
  <2>1. dsize' \in [Inum -> Nat] BY DEF FsInv, DiskOK
  <2>2. off' \in [Handle -> Nat] BY DEF FsInv, HandleOK
  <2> QED BY <1>6, <2>1, <2>2, LengthNext
<1>10. Down' = TRUE BY <1>2 DEF Down
<1> QED BY <1>4, <1>5, <1>6, <1>7, <1>8, <1>9, <1>10, FilesActions DEF FilesInv

\* iput(): when the slot is emptied, what iupdate() has not written is lost,
\* and nobody else has that file open.
LEMMA CloseRefine ==
  ASSUME FsInv, FsInv', FilesInv, NEW h \in Handle, SysClose(h)
  PROVE  FilesInv' /\ F!Close(h)
<1> USE Facts
<1>0. PICK s \in Slot : s = ip[h] /\ count[s] > 0 BY OnInUse DEF SysClose
<1>1. PICK i \in Inum : i = inum[s] BY DEF FsInv, SlotOK
<1>2. /\ UNCHANGED <<dtype, dsize, daddrs, data, dir, super, stuck, panic, execd>>
      /\ ip' = [ip EXCEPT ![h] = NULL] /\ off' = [off EXCEPT ![h] = 0]
  BY DEF SysClose, diskVars
<1>3. \A t \in Slot : count[t] \in Nat /\ count'[t] = IF t = s THEN count[t] - 1 ELSE count[t]
  BY <1>0 DEF SysClose, FsInv, SlotOK
<1>4. ASSUME NEW t \in Slot, t # s \/ count[s] # 1
      PROVE  /\ inum'[t] = inum[t] /\ itype'[t] = itype[t] /\ size'[t] = size[t]
             /\ addrs'[t] = addrs[t]
  BY <1>0, <1>4 DEF SysClose, FsInv, SlotOK
<1>5. ASSUME NEW t \in Slot, count'[t] > 0
      PROVE  /\ count[t] > 0 /\ inum'[t] = inum[t] /\ itype'[t] = itype[t]
             /\ size'[t] = size[t] /\ addrs'[t] = addrs[t]
  <2>1. count[t] > 0 /\ (t # s \/ count[s] # 1) BY <1>3, <1>5
  <2> QED BY <1>4, <2>1
<1>6. DiskTypes' /\ SlotTypes' /\ PlacesInv'
  <2>1. DiskTypes' BY <1>2 DEF FilesInv, DiskTypes
  <2>2. SlotTypes' BY <1>2, <1>5 DEF FilesInv, SlotTypes
  <2>3. PlacesInv'
    <3>1. PlacesInv BY DEF FilesInv
    <3>2. ASSUME NEW t \in Slot, count'[t] > 0, NEW l \in Lbn
          PROVE  /\ daddrs'[inum'[t]][l] # 0 => addrs'[t][l] = daddrs'[inum'[t]][l]
                 /\ \A m \in Lbn : l # m /\ addrs'[t][l] # 0 => addrs'[t][l] # addrs'[t][m]
      <4>1. count[t] > 0 /\ inum'[t] = inum[t] /\ addrs'[t] = addrs[t] BY <1>5, <3>2
      <4>2. daddrs[inum[t]][l] # 0 => addrs[t][l] = daddrs[inum[t]][l]
        BY <3>1, <4>1 DEF PlacesInv
      <4>3. \A m \in Lbn : l # m /\ addrs[t][l] # 0 => addrs[t][l] # addrs[t][m]
        BY <3>1, <4>1, BlocksApart
      <4> QED BY <1>2, <4>1, <4>2, <4>3
    <3>3. daddrs' = daddrs BY <1>2
    <3>4. \A j \in Inum : daddrs'[j][NDIRECT] = 0 BY <3>1, <3>3 DEF PlacesInv
    <3>5. \A j \in Inum, l \in Lbn, m \in Lbn :
            l # m /\ daddrs'[j][l] # 0 => daddrs'[j][l] # daddrs'[j][m]
      <4>1. \A j \in Inum, l \in Lbn, m \in Lbn :
              l # m /\ daddrs[j][l] # 0 => daddrs[j][l] # daddrs[j][m]
        BY <3>1, Zenon DEF PlacesInv
      <4> QED BY <3>3, <4>1, Zenon
    <3> QED BY <3>2, <3>4, <3>5 DEF PlacesInv
  <2> QED BY <2>1, <2>2, <2>3
<1>7. Length' = Length /\ Down' = Down
  BY <1>2, <1>6, LengthIsSize, LengthNext DEF FilesInv, Down
<1>8. \A g \in Handle : File[g] # NULL =>
        ip[g] \in Slot /\ count[ip[g]] > 0 /\ inum[ip[g]] = File[g]
  BY OnInUse DEF File
<1>9. File[h] = i /\ File' = [File EXCEPT ![h] = NULL]
  <2>1. File[h] = i BY <1>0, <1>1 DEF File
  <2>2. ip'[h] = NULL /\ \A g \in Handle \ {h} : ip'[g] = ip[g]
    BY <1>2 DEF FsInv, HandleOK
  <2>3. File'[h] = NULL BY <2>2 DEF File
  <2>4. ASSUME NEW g \in Handle \ {h} PROVE File'[g] = File[g]
    <3>1. CASE ip[g] = NULL BY <2>2, <3>1 DEF File
    <3>2. CASE ip[g] # NULL
      <4>1. PICK t \in Slot : t = ip[g] BY <3>2, OnInUse
      <4>2. inum[t] = opened[g] BY <3>2, <4>1, OnInUse
      <4>3. inum'[t] = opened'[g] BY <2>2, <3>2, <4>1 DEF FsInv, RefInv
      <4>4. opened'[g] = opened[g] BY DEF SysClose, FsInv, HandleOK
      <4> QED BY <2>2, <3>2, <4>1, <4>2, <4>3, <4>4 DEF File
    <3> QED BY <3>1, <3>2
  <2>5. File' = [g \in Handle |-> File'[g]] /\ File = [g \in Handle |-> File[g]]
    BY DEF File
  <2> QED BY <2>1, <2>3, <2>4, <2>5
<1>10. \A t \in Slot : count[t] > 0 /\ inum[t] = i => t = s
  BY <1>0, <1>1 DEF FsInv, OneSlot
<1>11. CASE count[s] # 1
  <2>1. ASSUME NEW j \in Inum, NEW l \in Lbn PROVE Place(j, l)' = Place(j, l)
    <3>1. CASE \E t \in Slot : count[t] > 0 /\ inum[t] = j
      <4>1. PICK t \in Slot : count[t] > 0 /\ inum[t] = j BY <3>1
      <4>2. count'[t] > 0 /\ inum'[t] = j /\ addrs'[t] = addrs[t]
        <5>1. count'[t] > 0 BY <1>3, <1>11, <4>1
        <5> QED BY <1>4, <1>11, <4>1, <5>1
      <4>3. Place(j, l) = addrs[t][l] BY <4>1, PlaceFacts
      <4>4. Place(j, l)' = addrs'[t][l] BY <4>2, PlaceNext
      <4> QED BY <4>2, <4>3, <4>4
    <3>2. CASE \A t \in Slot : count[t] > 0 => inum[t] # j
      <4>1. \A t \in Slot : count'[t] > 0 => inum'[t] # j BY <1>5, <3>2
      <4>2. Place(j, l) = daddrs[j][l] BY <3>2, PlaceFacts
      <4>3. Place(j, l)' = daddrs'[j][l] BY <4>1, PlaceNext
      <4> QED BY <1>2, <4>2, <4>3
    <3> QED BY <3>1, <3>2
  <2>2. Content' = Content BY <1>2, <2>1, SameContent DEF Positions
  <2>3. F!Close(h) BY <1>2, <1>7, <1>9, <2>2, FilesClose
  <2> QED BY <1>6, <2>3 DEF FilesInv
<1>12. CASE count[s] = 1
  <2>1. Cardinality(On(s)) = 1 /\ h \in On(s)
    <3>1. h \in On(s) BY <1>0 DEF On
    <3>2. Cardinality(On(s)) # 0 BY <3>1, OnFacts, FS_EmptySet
    <3>3. count[s] >= Cardinality(On(s)) BY DEF FsInv, RefInv
    <3> QED BY <1>12, <3>1, <3>2, <3>3, OnFacts
  <2>2. On(s) \ {h} = {}
    <3>1. IsFiniteSet(On(s) \ {h}) /\ Cardinality(On(s) \ {h}) = 0
      <4>1. PICK S : S = On(s) OBVIOUS
      <4>2. IsFiniteSet(S) /\ h \in S /\ Cardinality(S) = 1 BY <2>1, <4>1, OnFacts
      <4>3. IsFiniteSet(S \ {h}) /\ Cardinality(S \ {h}) = Cardinality(S) - 1
        BY <4>2, FS_RemoveElement
      <4> QED BY <4>1, <4>2, <4>3
    <3> QED BY <3>1, FS_EmptySet
  <2>3. {g \in Handle : File[g] = File[h]} = {h}
    <3>1. ASSUME NEW g \in Handle, File[g] = i PROVE g = h
      <4>1. ip[g] = s BY <1>8, <1>10, <3>1
      <4>2. g \in On(s) BY <4>1 DEF On
      <4> QED BY <2>2, <4>2
    <3> QED BY <1>9, <3>1
  <2>4. i \notin execd
    <3> SUFFICES ASSUME i \in execd PROVE FALSE OBVIOUS
    <3>1. PICK t \in Active(i) : count[t] > Cardinality(On(t)) BY DEF FsInv, RefInv
    <3>2. t = s BY <1>10 DEF Active
    <3> QED BY <1>12, <2>1, <3>1, <3>2
  <2>5. ASSUME NEW j \in Inum \ {i}, NEW l \in Lbn PROVE Place(j, l)' = Place(j, l)
    <3>1. CASE \E t \in Slot : count[t] > 0 /\ inum[t] = j
      <4>1. PICK t \in Slot : count[t] > 0 /\ inum[t] = j BY <3>1
      <4>2. t # s BY <1>1, <4>1
      <4>3. count'[t] > 0 /\ inum'[t] = j /\ addrs'[t] = addrs[t] BY <1>3, <1>4, <4>1, <4>2
      <4>4. Place(j, l) = addrs[t][l] BY <4>1, PlaceFacts
      <4>5. Place(j, l)' = addrs'[t][l] BY <4>3, PlaceNext
      <4> QED BY <4>3, <4>4, <4>5
    <3>2. CASE \A t \in Slot : count[t] > 0 => inum[t] # j
      <4>1. \A t \in Slot : count'[t] > 0 => inum'[t] # j BY <1>5, <3>2
      <4>2. Place(j, l) = daddrs[j][l] BY <3>2, PlaceFacts
      <4>3. Place(j, l)' = daddrs'[j][l] BY <4>1, PlaceNext
      <4> QED BY <1>2, <4>2, <4>3
    <3> QED BY <3>1, <3>2
  <2>6. ASSUME NEW l \in Lbn
        PROVE  /\ Place(i, l)' = daddrs[i][l]
               /\ daddrs[i][l] # 0 => Place(i, l) = daddrs[i][l]
    <3>1. \A t \in Slot : count'[t] > 0 => inum'[t] # i
      BY <1>3, <1>5, <1>10, <1>12
    <3>2. Place(i, l)' = daddrs'[i][l] BY <3>1, PlaceNext
    <3>3. Place(i, l) = addrs[s][l] BY <1>0, <1>1, PlaceFacts
    <3>4. daddrs[i][l] # 0 => addrs[s][l] = daddrs[i][l]
      <4>1. PlacesInv BY DEF FilesInv
      <4> QED BY <1>0, <1>1, <4>1 DEF PlacesInv
    <3> QED BY <1>2, <3>2, <3>3, <3>4
  <2> DEFINE lost == {l \in Positions : daddrs[i][l] = 0}
             left == [l \in Positions |-> IF l \in lost THEN NULL ELSE Content[i][l]]
  <2>7. \A l \in Positions : l \in Lbn BY DEF Positions
  <2>8. Content'[i] = left
    <3>1. ASSUME NEW l \in Positions PROVE Content'[i][l] = left[l]
      BY <1>2, <2>6, <2>7 DEF Content
    <3>2. Content'[i] = [l \in Positions |-> Content'[i][l]] BY DEF Content
    <3> QED BY <3>1, <3>2
  <2>9. \A j \in Inum \ {i} : Content'[j] = Content[j]
    BY <1>2, <2>5, <2>7 DEF Content
  <2>10. Content' = [Content EXCEPT ![i] = left]
    <3>1. Content' = [j \in Inum |-> Content'[j]] /\ Content = [j \in Inum |-> Content[j]]
      BY DEF Content
    <3> HIDE DEF left
    <3> QED BY <2>8, <2>9, <3>1
  <2>11. Content' = [Content EXCEPT ![File[h]] =
                       [l \in Positions |-> IF l \in lost THEN NULL ELSE @[l]]]
    <3>1. Content = [j \in Inum |-> Content[j]] BY DEF Content
    <3> HIDE DEF lost
    <3> QED BY <1>9, <2>10, <3>1
  <2>12. lost \in SUBSET Positions OBVIOUS
  <2> HIDE DEF lost, left
  <2>13. F!Close(h) BY <1>2, <1>7, <1>9, <2>3, <2>4, <2>11, <2>12, FilesClose
  <2> QED BY <1>6, <2>13 DEF FilesInv
<1> QED BY <1>11, <1>12
-----------------------------------------------------------------------------
(* Fs implements Files                                                      *)

LEMMA FilesInit == Init => F!Init
<1> SUFFICES ASSUME Init PROVE F!Init OBVIOUS
<1> USE Facts
<1>1. \A i \in Inum : Active(i) = {} BY DEF Init, Active
<1>2. ASSUME NEW i \in Inum, NEW l \in 0 .. NDIRECT - 1
      PROVE  Place(i, l) = 0 \/ (Place(i, l) \in Block /\ data[Place(i, l)] = NULL)
  <2>1. Place(i, l) = daddrs[i][l] BY <1>1 DEF Place
  <2>2. daddrs[i][l] = IF i = 2 /\ l = 0 THEN 1 ELSE 0 BY DEF Init
  <2>3. 1 \in Block /\ \A b \in Block : data[b] = NULL BY DEF Init, Block
  <2> QED BY <2>1, <2>2, <2>3
<1>3. Length \in [Inum -> Nat]
  BY FsInitInv, FilesInitInv, FilesTypes DEF FilesInv
<1>4. ip = [h \in Handle |-> NULL] /\ off = [h \in Handle |-> 0] /\ execd = {} /\ ~Down
  BY DEF Init, Down
<1> QED BY <1>2, <1>3, <1>4 DEF F!Init, Length, Down

\* An inode that a name leads to is the last one or not free.
LEMMA LookupTypes ==
  ASSUME FsInv, DiskTypes, NEW n \in Name, NEW i \in Lookup(n)
  PROVE  i \in Inum /\ (i # NINUM => dtype[i] # "free")
BY LookupFacts DEF Lookup, DiskTypes

\* A step of Files from its parts.
LEMMA FilesSteps ==
  ASSUME Enter,
         F!Fail \/ (\E i \in Inum : F!Exec(i))
           \/ \E h \in Handle : \/ F!Read(h) \/ F!Close(h)
                                \/ \E i \in Inum : F!Open(h, i)
                                \/ \E v \in Value : F!Write(h, v)
  PROVE  F!Next
BY DEF F!Next, Enter

LEMMA FilesNext == FsInv /\ FsInv' /\ FilesInv /\ [Next]_vars => FilesInv' /\ [F!Next]_(F!vars)
<1> SUFFICES ASSUME FsInv, FsInv', FilesInv, [Next]_vars
             PROVE  FilesInv' /\ [F!Next]_(F!vars)
  OBVIOUS
<1> USE Facts
<1>0. ASSUME Enter, Panic \/ (\E n \in Name : \E i \in Lookup(n) : Hang(i))
      PROVE  FilesInv' /\ F!Next
  BY <1>0, LookupFacts, PanicRefine, HangRefine, FilesSteps
<1>1. ASSUME NEW n \in Name, SysMknod(n) PROVE FilesInv' /\ [F!Next]_(F!vars)
  <2>1. Enter BY <1>1 DEF SysMknod
  <2>2. ASSUME NEW i \in Inum, IallocNum(i), Mknod(n, i, "dev"),
               UNCHANGED <<slotVars, fileVars, stuck, panic, written, execd>>
        PROVE  FilesInv' /\ UNCHANGED F!vars
    BY <2>2, MknodRefine
  <2> QED BY <1>0, <1>1, <2>1, <2>2 DEF SysMknod
<1>2. ASSUME NEW n \in Name, SysExec(n) PROVE FilesInv' /\ F!Next
  <2>1. Enter BY <1>2 DEF SysExec
  <2>2. ASSUME NEW i \in Lookup(n), NEW s \in Slot, Iget(i, s, {}), UNCHANGED diskVars,
               Load(s, i, TRUE), execd' = execd \cup {i},
               UNCHANGED <<fileVars, stuck, panic, written>>
        PROVE  FilesInv' /\ F!Next
    <3>1. i \in Inum /\ (i # NINUM => dtype[i] # "free") BY LookupTypes DEF FilesInv
    <3>2. FilesInv' /\ F!Exec(i) BY <2>2, <3>1, ExecRefine
    <3> QED BY <2>1, <3>1, <3>2, FilesSteps
  <2> QED BY <1>0, <1>2, <2>1, <2>2 DEF SysExec
<1>3. ASSUME NEW n \in Name, SysUnlink(n) PROVE FilesInv' /\ F!Next
  BY <1>0, <1>3 DEF SysUnlink
<1>4. ASSUME NEW h \in Handle, SysRead(h) PROVE FilesInv' /\ F!Next
  BY <1>4, ReadRefine, FilesSteps DEF SysRead
<1>5. ASSUME NEW h \in Handle, SysClose(h) PROVE FilesInv' /\ F!Next
  BY <1>5, CloseRefine, FilesSteps DEF SysClose
<1>6. ASSUME NEW h \in Handle, NEW n \in Name, SysOpen(h, n) PROVE FilesInv' /\ F!Next
  <2>1. Enter /\ ip[h] = NULL BY <1>6 DEF SysOpen
  <2>2. ASSUME NEW i \in Lookup(n), NEW s \in Slot, Iget(i, s, {}), UNCHANGED diskVars,
               Load(s, i, FALSE), OpenOn(h, s, i), UNCHANGED <<stuck, panic, written, execd>>
        PROVE  FilesInv' /\ F!Next
    <3>1. i \in Inum /\ (i # NINUM => dtype[i] # "free") BY LookupTypes DEF FilesInv
    <3>2. UNCHANGED <<dtype, dsize, daddrs, used, data, dir, super>> BY <2>2 DEF diskVars
    <3>3. DiskTypes' BY <3>2 DEF FilesInv, DiskTypes
    <3>4. FilesInv' /\ F!Open(h, i) BY <2>1, <2>2, <3>1, <3>2, <3>3, OpenedRefine
    <3> QED BY <2>1, <3>1, <3>4, FilesSteps
  <2> QED BY <1>0, <1>6, <2>1, <2>2 DEF SysOpen
<1>7. ASSUME NEW h \in Handle, NEW n \in Name, SysCreate(h, n) PROVE FilesInv' /\ F!Next
  <2>1. Enter /\ ip[h] = NULL BY <1>7 DEF SysCreate
  <2>2. ASSUME NEW i \in Inum, IallocNum(i), NEW s \in Slot, NEW r \in Slot, Iget(i, s, {r}),
               Mknod(n, i, "file"), Load(s, i, FALSE), OpenOn(h, s, i),
               UNCHANGED <<stuck, panic, written, execd>>
        PROVE  FilesInv' /\ F!Next
    <3>1. PICK ty \in Types \ {"free"} : ty = "file" BY DEF Types
    <3>2. /\ DiskTypes' /\ UNCHANGED dsize /\ (i # NINUM => dtype'[i] # "free")
          /\ \A j \in Inum : dtype[j] # "free" => dtype'[j] # "free"
      BY <2>2, <3>1, MknodTypes DEF FilesInv
    <3>3. UNCHANGED <<daddrs, used, data, super>> BY <2>2 DEF Mknod
    <3>4. FilesInv' /\ F!Open(h, i) BY <2>1, <2>2, <3>2, <3>3, OpenedRefine
    <3> QED BY <2>1, <3>4, FilesSteps
  <2> QED BY <1>0, <1>7, <2>1, <2>2 DEF SysCreate
<1>8. ASSUME NEW h \in Handle, NEW v \in Value, SysWrite(h, v) PROVE FilesInv' /\ F!Next
  <2>1. Enter /\ ip[h] # NULL BY <1>8 DEF SysWrite
  <2>2. CASE itype[ip[h]] = "file" /\ off[h] < NDIRECT /\ WriteDirect(h, v)
    BY <2>1, <2>2, DirectRefine, FilesSteps
  <2>3. CASE itype[ip[h]] = "file" /\ off[h] = NDIRECT /\ WriteIndirect(h, v)
    BY <2>1, <2>3, IndirectRefine, FilesSteps
  <2> QED BY <1>0, <1>8, <2>1, <2>2, <2>3 DEF SysWrite
<1>9. CASE UNCHANGED vars
  <2>1. UNCHANGED <<slotVars, diskVars, fileVars, stuck, panic, execd>> BY <1>9 DEF vars
  <2>2. FilesInv' BY <2>1, SameFilesInv
  <2>3. UNCHANGED <<Content, Length, File, off, execd, Down>>
    BY <2>1 DEF Content, Length, File, Down, Place, Active, slotVars, diskVars, fileVars
  <2> QED BY <2>2, <2>3, FilesActions
<1> QED BY <1>1, <1>2, <1>3, <1>4, <1>5, <1>6, <1>7, <1>8, <1>9 DEF Next

\* What the proof needs beyond FsInv: sizes on the disk, types and places.
THEOREM FilesSpecInv == Spec => []FilesInv
<1>1. FsInv /\ FsInv' /\ FilesInv /\ [Next]_vars => FilesInv' BY FilesNext
<1> QED BY <1>1, FilesInitInv, FsSpecInv, PTL DEF Spec

\* Whatever the sequence of calls, descriptors read what was last written to
\* their file until its last close: for any number of inodes, blocks, names
\* and descriptors the file system implements Files.
THEOREM FilesImplemented == Spec => FilesKept
BY FilesInit, FilesNext, FsSpecInv, FilesSpecInv, PTL DEF Spec, FilesKept, F!Spec
=============================================================================
