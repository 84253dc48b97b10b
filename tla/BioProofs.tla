------------------------------ MODULE BioProofs ------------------------------
(***************************************************************************)
(* Proofs about the buffers of kernel/bio.c over the SD card driver: no    *)
(* block is written over another one unless a call writes after one of its *)
(* reads has failed, and getblk() hangs only when bmap() has lost buffers. *)
(* The driver's invariant is that of SdhciProofs, because every step of    *)
(* this composition is a step of the driver's specification.               *)
(***************************************************************************)
EXTENDS Bio, SdhciProofs, FiniteSetTheorems, WellFoundedInduction

\* The buffers a caller may write.
Mine == (held \cup {last}) \ {NULL}

\* The busy buffers are those that a caller has and those that bmap() has lost.
BufInv ==
  /\ flags = held \cup lost /\ held \cap lost = {} /\ flags \subseteq Buf
  /\ sector \in [Buf -> Lba \cup {NULL}] /\ last \in Buf \cup {NULL}
  /\ spins \in BOOLEAN /\ doubt \in BOOLEAN /\ soiled \in BOOLEAN

Reading == Stage \in Blk /\ req.op = "READ_SINGLE"

\* A buffer knows the block it was asked for, and it is read from there.
SectorInv ==
  /\ \A b \in Mine : sector[b] \in Lba
  /\ Reading /\ req.b \in Mine => sector[req.b] = req.l
  /\ Stage \in Ini => filled = {}

\* As long as no read of the call has failed the caller's buffers are filled,
\* but for the one being read.
FillInv == ~doubt => \A b \in Mine : b \in filled \/ (Reading /\ req.b = b)

\* v is the block of the card at the address that the driver gives block l:
\* another one than l when sd_init() has failed to learn how blocks are numbered.
Copy(l, v) == \A m \in Lba : Card(m) = Addr(l) => v = Block0(m)

\* Every copy of a block is a version of that block: on the card, in a buffer
\* that a read has filled, in one that is being written, and on its way.
CopyInv ==
  ~soiled =>
    /\ \A l \in Lba : blocks[l] = Block0(l)
    /\ \A b \in Mine \cap filled : Copy(sector[b], mem[b])
    /\ Stage \in Blk /\ req.op = "WRITE_SINGLE" => Copy(req.l, mem[req.b])
    /\ dat.ph = "wbusy" => \A l \in Lba : Means(l) => fifo = Block0(l)

BioInv == SdInv /\ BufInv /\ SectorInv /\ FillInv /\ CopyInv /\ SpinsByLeak
-----------------------------------------------------------------------------
LEMMA NullIsNoBuffer == NULL \notin Buf /\ NULL \notin Lba
  BY SdhciAssumption

\* What a copy is depends only on how driver and card number the blocks.
LEMMA CopyKept == ASSUME UNCHANGED <<ccs, hc>>, NEW l, NEW v, Copy(l, v)
                  PROVE  Copy(l, v)'
  BY DEF Copy, Card, Addr

LEMMA BioInitInv == BioInit => BioInv
<1> SUFFICES ASSUME BioInit PROVE BioInv
  OBVIOUS
<1>1. Init /\ flags = {} /\ held = {} /\ last = NULL /\ sector = [b \in Buf |-> NULL]
      /\ spins = FALSE /\ lost = {} /\ doubt = FALSE /\ soiled = FALSE
  BY DEF BioInit
<1>2. SdInv
  BY <1>1, SdInitInv
<1>3. BufInv
  <2>1. spins \in BOOLEAN /\ doubt \in BOOLEAN /\ soiled \in BOOLEAN
    BY <1>1, Zenon
  <2> QED
    BY <1>1, <2>1 DEF BufInv
<1>4. Mine = {}
  BY <1>1 DEF Mine
<1>5. Stage = "reset" /\ filled = {} /\ dat.ph = "none"
  BY <1>1 DEF Init, Stage, InCmd, InClk, NoData
<1>6. SectorInv /\ FillInv
  BY <1>4, <1>5 DEF SectorInv, FillInv, Reading, Blk
<1>7. CopyInv
  BY <1>1, <1>4, <1>5 DEF CopyInv, Blk, Init
<1>8. SpinsByLeak
  BY <1>1 DEF SpinsByLeak
<1> QED
  BY <1>2, <1>3, <1>6, <1>7, <1>8 DEF BioInv

\* Every step of the composition is a step of the driver's specification.
LEMMA BioIsSd == ASSUME BioInv, [BioNext]_<<vars, bufVars>> PROVE [Next]_vars
<1>1. CASE Driver \/ Host
  BY <1>1 DEF Next
<1>2. CASE \E b \in Buf : \E l \in Lba, forgets \in BOOLEAN : Bread(l, b, forgets)
  BY <1>2 DEF Bread, Next
<1>3. ASSUME NEW b \in Buf, NEW l \in Lba, Bwrite(b, l) PROVE Next
  BY <1>3 DEF Bwrite, Next
<1>4. CASE UNCHANGED vars
  BY <1>4
<1>5. GetblkSpins => UNCHANGED vars
  BY DEF GetblkSpins
<1>6. \A b \in Buf : Brelse(b) => UNCHANGED vars
  BY DEF Brelse
<1>7. CallEnds => UNCHANGED vars
  BY DEF CallEnds
<1>8. UNCHANGED <<vars, bufVars>> => UNCHANGED vars
  OBVIOUS
<1> QED
  BY <1>1, <1>2, <1>3, <1>4, <1>5, <1>6, <1>7, <1>8 DEF BioNext, DriverStep

\* Outside the four calls the buffers' variables stay.
LEMMA BufKept ==
  ASSUME BioInv, doubt' \in BOOLEAN, UNCHANGED <<flags, sector, held, last, spins, lost, soiled>>
  PROVE  BufInv' /\ SpinsByLeak' /\ Mine' = Mine
BY DEF BioInv, BufInv, SpinsByLeak, Mine
-----------------------------------------------------------------------------
(* The steps of the driver and the card                                     *)

\* What a step of the driver or of the card does to blocks and buffers.
LEMMA DataFrame ==
  ASSUME SdInv, Driver \/ Host, ~BlkInt
  PROVE  /\ mem' = mem /\ filled' = filled /\ hc' = hc
         /\ dat'.ph = "wbusy" => dat' = dat /\ fifo' = fifo
         /\ blocks' = blocks \/ Store
<1>1. dat \in [ph : Phases, at : Nat \cup {NULL}]
  BY DEF SdInv, TypeHost
<1> USE DEF callVars, cardVars, hostVars, Fails, InitDone
<1>2. CASE Poll \/ CmdInt
  BY <1>2 DEF Poll, CmdInt
<1>3. CASE CmdStatus
  BY <1>1, <1>3 DEF CmdStatus, Issue
<1>4. CASE BlkStatus \/ BlkSent \/ BlkDone
  BY <1>4 DEF BlkStatus, BlkSent, BlkDone
<1>5. CASE Reset \/ ClkSet \/ ClkStable
  BY <1>5 DEF Reset, ClkSet, ClkStable
<1>6. CASE Clocked400k \/ Idled \/ IfConded \/ OpConded
  BY <1>6 DEF Clocked400k, Idled, IfConded, OpConded, After
<1>7. CASE Cided \/ Addressed \/ Clocked25M \/ CardSelected
  BY <1>7 DEF Cided, Addressed, Clocked25M, CardSelected
<1>8. CASE ScrStatus \/ ScrSent \/ ScrInt \/ WidthSet
  BY <1>8 DEF ScrStatus, ScrSent, ScrInt, WidthSet
<1>9. CASE ScrData
  BY <1>1, <1>9 DEF ScrData
<1>10. CASE Answer
  BY <1>1, <1>10 DEF Answer
<1>11. CASE DataReady
  BY <1>1, <1>11 DEF DataReady
<1>12. CASE DataDone
  BY <1>12 DEF DataDone, NoData
<1>13. ASSUME NEW e, CmdError(e) \/ DataError(e)
       PROVE  /\ mem' = mem /\ filled' = filled /\ hc' = hc
              /\ dat'.ph = "wbusy" => dat' = dat /\ fifo' = fifo
              /\ blocks' = blocks \/ Store
  BY <1>13 DEF CmdError, DataError, NoData
<1>14. CASE Settle
  BY <1>14 DEF Settle
<1> QED
  BY <1>2, <1>3, <1>4, <1>5, <1>6, <1>7, <1>8, <1>9, <1>10, <1>11, <1>12, <1>13, <1>14
  DEF Driver, Host

\* What it does to the call in progress.
LEMMA CallFrame ==
  ASSUME SdInv, Driver \/ Host
  PROVE  /\ Stage' \in Blk => Stage \in Blk /\ req' = req
         /\ Stage \in Blk => Stage' \in Blk \/ req' = NULL
         /\ Stage' \in Ini => Stage \in Ini
         /\ ccs' = ccs \/ Stage \in Ini
<1> DEFINE G == /\ Stage' \in Blk => Stage \in Blk /\ req' = req
                /\ Stage \in Blk => Stage' \in Blk \/ req' = NULL
                /\ Stage' \in Ini => Stage \in Ini
                /\ ccs' = ccs \/ Stage \in Ini
<1>1. CASE Return /\ (ccs' = ccs \/ Stage \in Ini)
  <2>1. Stage' = "idle" /\ req' = NULL
    BY <1>1, ReturnCtl DEF Return
  <2> QED
    BY <1>1, <2>1 DEF Blk, Ini, Fnd, Rca, Sel
<1>2. CASE Stage' = Stage /\ req' = req /\ ccs' = ccs
  BY <1>2
<1>3. CASE Stage \in Ini /\ Stage' \in Ini
  BY <1>3 DEF Blk, Ini, Fnd, Rca, Sel
<1>4. CASE Stage \in Blk /\ Stage' \in Blk /\ req' = req /\ ccs' = ccs
  BY <1>4 DEF Blk, Ini, Fnd, Rca, Sel
<1> HIDE DEF G
<1>5. Poll => G
  BY <1>2 DEF G, Poll, Stage, InCmd, InClk, initVars, callVars
<1>6. CmdStatus \/ CmdInt => G
  <2> SUFFICES ASSUME CmdStatus \/ CmdInt PROVE G
    OBVIOUS
  <2>1. InCmd /\ UNCHANGED <<req, ccs, ret>>
    BY DEF CmdStatus, CmdInt, Over, InCmd, initVars, callVars, CmdReturn
  <2>2. pc' \in {"cmd_status", "cmd_int", ret}
    BY DEF CmdStatus, CmdInt, CmdReturn, Goto, Stay
  <2>3. Stage' = Stage
    BY <2>1, <2>2, Callers DEF Stage, InCmd, InClk
  <2> QED
    BY <1>2, <2>1, <2>3 DEF G
<1>7. BlkStatus => G
  <2> SUFFICES ASSUME BlkStatus PROVE G
    OBVIOUS
  <2>1. CASE Fails
    BY <1>1, <2>1 DEF G, Fails
  <2>2. CASE Call(req.op, "blk_sent") /\ UNCHANGED <<initVars, callVars>>
    <3>1. Stage = "blk_status" /\ Stage' = "blk_sent"
      BY <2>2 DEF BlkStatus, Over, Call, Goto, Stage, InCmd, InClk
    <3> QED
      BY <1>4, <2>2, <3>1 DEF G, Blk, initVars, callVars
  <2> QED
    BY <2>1, <2>2 DEF BlkStatus
<1>8. BlkSent \/ BlkInt \/ BlkDone => G
  <2> SUFFICES ASSUME BlkSent \/ BlkInt \/ BlkDone PROVE G
    OBVIOUS
  <2>1. CASE Return /\ ccs' = ccs
    BY <1>1, <2>1 DEF G
  <2>2. CASE (Goto("blk_int") \/ Goto("blk_done")) /\ UNCHANGED <<initVars, callVars>>
    <3>1. Stage \in Blk /\ Stage' \in Blk
      BY <2>2 DEF BlkSent, BlkInt, BlkDone, Over, Goto, Stage, InCmd, InClk, Blk
    <3> QED
      BY <1>4, <2>2, <3>1 DEF G, initVars, callVars
  <2> QED
    BY <2>1, <2>2 DEF BlkSent, BlkInt, BlkDone, Fails
<1>9. Reset \/ ClkSet \/ ClkStable => G
  <2> SUFFICES ASSUME Reset \/ ClkSet \/ ClkStable PROVE G
    OBVIOUS
  <2>1. CASE Fails
    BY <1>1, <2>1 DEF G, Fails
  <2>2. CASE Reset /\ Clk("clocked400k")
    <3>1. Stage = "reset" /\ Stage' = "clocked400k"
      BY <2>2 DEF Reset, Over, Clk, Goto, Stage, InCmd, InClk
    <3> QED
      BY <1>3, <3>1 DEF G, Ini
  <2>3. CASE pc \in {"clk", "stable"} /\ ret' = ret /\ pc' \in {"stable", ret}
             /\ UNCHANGED <<initVars, callVars>>
    <3>1. Stage' = Stage
      BY <2>3 DEF Stage, InCmd, InClk, SdInv, CtlInv
    <3> QED
      BY <1>2, <2>3, <3>1 DEF G, initVars, callVars
  <2> QED
    BY <2>1, <2>2, <2>3 DEF Reset, ClkSet, ClkStable, Over, Goto, Stay
<1>10. \A c, l : Call(c, l) /\ l \in Ini /\ pc \in Ini => G
  <2> SUFFICES ASSUME NEW c, NEW l, Call(c, l), l \in Ini, pc \in Ini PROVE G
    OBVIOUS
  <2>1. Stage = pc
    BY DEF Stage, InCmd, InClk, Ini, Fnd, Rca, Sel
  <2>2. Stage' = l
    BY DEF Stage, InCmd, InClk, Call, Goto
  <2> QED
    BY <1>3, <2>1, <2>2 DEF G
<1>11. Clocked400k \/ Idled \/ IfConded \/ OpConded \/ Cided \/ Clocked25M \/ ScrStatus => G
  <2> SUFFICES ASSUME \/ Clocked400k \/ Idled \/ IfConded \/ OpConded \/ Cided \/ Clocked25M
                      \/ ScrStatus
               PROVE  G
    OBVIOUS
  <2>1. CASE Fails
    BY <1>1, <2>1 DEF G, Fails
  <2>2. CASE ~Fails
    <3>1. pc \in {"clocked400k", "idled", "if_conded", "op_conded", "cided", "clocked25M",
                  "scr_status"}
      BY DEF Clocked400k, Idled, IfConded, OpConded, Cided, Clocked25M, ScrStatus, After, Over
    <3>2. \E c, l : Call(c, l) /\ l \in {"idled", "if_conded", "op_conded", "cided", "addressed",
                                         "card_selected", "scr_sent"}
      BY <2>2 DEF Clocked400k, Idled, IfConded, OpConded, Cided, Clocked25M, ScrStatus, After
    <3> QED
      BY <1>10, <3>1, <3>2 DEF Ini, Fnd, Rca, Sel
  <2> QED
    BY <2>1, <2>2
<1>12. Addressed => G
  <2> SUFFICES ASSUME Addressed PROVE G
    OBVIOUS
  <2>1. CASE Return
    BY <1>1, <2>1 DEF G, Addressed
  <2>2. CASE Clk("clocked25M")
    <3>1. Stage = "addressed" /\ Stage' = "clocked25M"
      BY <2>2 DEF Addressed, Clk, Goto, Stage, InCmd, InClk
    <3> QED
      BY <1>3, <3>1 DEF G, Ini, Fnd, Rca
  <2> QED
    BY <2>1, <2>2 DEF Addressed
<1>13. CardSelected \/ ScrSent \/ ScrInt \/ ScrData \/ WidthSet => G
  <2> SUFFICES ASSUME CardSelected \/ ScrSent \/ ScrInt \/ ScrData \/ WidthSet PROVE G
    OBVIOUS
  <2>1. pc \in {"card_selected", "scr_sent", "scr_int", "scr_data", "width_set"}
    BY DEF CardSelected, ScrSent, ScrInt, ScrData, WidthSet, Over
  <2>2. pc \in Ini /\ Stage = pc
    BY <2>1 DEF Stage, InCmd, InClk, Ini, Fnd, Rca, Sel
  <2>3. CASE Return
    BY <1>1, <2>2, <2>3 DEF G
  <2>4. CASE pc' \in {"scr_status", "scr_int", "scr_data"}
    <3>1. Stage' \in Ini
      BY <2>4 DEF Stage, InCmd, InClk, Ini, Fnd, Rca, Sel
    <3> QED
      BY <1>3, <2>2, <3>1 DEF G
  <2>5. CASE Call("SET_BUS_WIDTH", "width_set")
    BY <1>10, <2>2, <2>5 DEF Ini, Fnd, Rca, Sel
  <2> QED
    BY <2>3, <2>4, <2>5 DEF CardSelected, ScrSent, ScrInt, ScrData, WidthSet, Fails, InitDone,
       Goto, Stay
<1>14. Host => G
  <2> SUFFICES ASSUME Host PROVE G
    OBVIOUS
  <2>1. UNCHANGED <<ctlVars, initVars, callVars>>
    BY DEF Host, Answer, DataReady, DataDone, Settle, CmdError, DataError
  <2> QED
    BY <1>2, <2>1 DEF G, ctlVars, initVars, callVars, Stage, InCmd, InClk
<1> QED
  BY <1>5, <1>6, <1>7, <1>8, <1>9, <1>11, <1>12, <1>13, <1>14 DEF Driver, G

\* A read that ends has filled its buffer, or is a reason for doubt.
LEMMA DriverFills ==
  ASSUME BioInv, DriverStep, Mine' = Mine, filled \subseteq filled' PROVE FillInv'
<1>1. /\ Stage' \in Blk => Stage \in Blk /\ req' = req
      /\ Stage \in Blk => Stage' \in Blk \/ req' = NULL
  BY CallFrame DEF DriverStep, BioInv
<1>2. Stage \in Blk => req \in Requests
  BY DEF BioInv, SdInv, CtlInv
<1>3. NULL \notin Requests
  BY SdhciAssumption DEF Requests
<1>4. ~doubt' => /\ ~doubt
                 /\ Reading => Reading' \/ req.b \in filled'
                 /\ Reading /\ Reading' => req' = req
  BY <1>1, <1>2, <1>3 DEF DriverStep, Reading
<1> QED
  BY <1>4 DEF BioInv, FillInv

LEMMA DriverKeeps == ASSUME BioInv, DriverStep, SdInv' PROVE BioInv'
<1> USE DEF BioInv
<1>0. /\ Driver \/ Host
      /\ UNCHANGED <<flags, sector, held, last, spins, lost, soiled>> /\ doubt' \in BOOLEAN
  BY DEF DriverStep, BufInv
<1>1. /\ BufInv' /\ SpinsByLeak' /\ Mine' = Mine
      /\ UNCHANGED <<sector, soiled>>
  BY <1>0, BufKept
<1>2. /\ Stage' \in Blk => Stage \in Blk /\ req' = req
      /\ Stage' \in Ini => Stage \in Ini
      /\ ccs' = ccs \/ Stage \in Ini
  BY <1>0, CallFrame
<1>3. CASE BlkInt
  <2>1. pc = "blk_int" /\ UNCHANGED <<blocks, hc>>
    BY <1>3 DEF BlkInt, Over, cardVars
  <2>2. Stage \in Blk /\ Stage \notin Ini /\ req \in Requests /\ req.b \in Buf /\ req.l \in Lba
    BY <2>1, BlkCtl DEF Blk, Ini, Fnd, Rca, Sel
  <2>3. CASE mem' = mem /\ filled' = filled /\ dat' = dat /\ fifo' = fifo
    <3>1. SectorInv'
      BY <1>1, <1>2, <2>3 DEF SectorInv, Reading
    <3>2. CopyInv'
      BY <1>1, <1>2, <2>1, <2>2, <2>3, CopyKept DEF CopyInv, Means
    <3>3. FillInv'
      BY <1>1, <2>3, DriverFills
    <3> QED
      BY <1>1, <3>1, <3>2, <3>3
  <2>4. CASE IntResult = "OK" /\ req.op = "READ_SINGLE"
    <3>1. /\ mem' = [mem EXCEPT ![req.b] = IF fifo = NULL THEN Junk ELSE fifo]
          /\ filled' = filled \cup {req.b} /\ Return /\ dat' = [dat EXCEPT !.ph = "drained"]
      BY <1>3, <2>4 DEF BlkInt
    <3>2. Stage' = "idle"
      BY <3>1, ReturnCtl
    <3>3. Stage' \notin Blk \cup Ini
      BY <3>2 DEF Blk, Ini, Fnd, Rca, Sel
    <3>4. SectorInv'
      BY <1>1, <3>3 DEF SectorInv, Reading
    <3>5. dat'.ph = "drained"
      BY <3>1 DEF SdInv, TypeHost
    <3>6. Seen(req.l, fifo) /\ fifo # NULL
      <4>1. NoErr /\ Rdy \in INTERRUPT
        BY <1>3, <2>4, IntGood DEF SdInv, BlkInt
      <4>2. Waiting
        BY <2>1, <2>2, <4>1 DEF Waiting
      <4> QED
        BY <2>2, <2>4, <4>1, <4>2 DEF SdInv, CurInv, XferInv, Rdy
    <3>7. mem = [b \in Buf |-> mem[b]] /\ Mine \subseteq Buf
      BY DEF SdInv, TypeCall, Mine, BufInv
    <3>8. \A b \in Buf : mem'[b] = IF b = req.b THEN (IF fifo = NULL THEN Junk ELSE fifo) ELSE mem[b]
      BY <2>2, <3>1, <3>7
    <3>9. ASSUME ~soiled, NEW b \in Mine \cap filled' PROVE Copy(sector[b], mem'[b])
      <4>1. CASE b = req.b
        <5>1. sector[b] = req.l
          BY <2>2, <2>4, <3>9, <4>1 DEF SectorInv, Reading
        <5>2. mem'[b] = fifo
          BY <3>6, <3>7, <3>8, <3>9, <4>1
        <5> QED
          BY <3>6, <3>9, <5>1, <5>2 DEF CopyInv, Copy, Seen
      <4>2. CASE b # req.b
        BY <3>1, <3>7, <3>8, <3>9, <4>2 DEF CopyInv
      <4> QED
        BY <4>1, <4>2
    <3>10. CopyInv'
      BY <1>1, <1>2, <2>1, <2>2, <3>3, <3>5, <3>9, CopyKept DEF CopyInv
    <3>11. FillInv'
      BY <1>1, <3>1, DriverFills
    <3> QED
      BY <1>1, <3>4, <3>10, <3>11
  <2>5. CASE IntResult = "OK" /\ req.op = "WRITE_SINGLE"
    <3>1. /\ fifo' = mem[req.b] /\ dat' = [dat EXCEPT !.ph = "wbusy"]
          /\ UNCHANGED <<mem, filled, acked, req, ccs>>
      BY <1>3, <2>5 DEF BlkInt, callVars, initVars
    <3>2. SectorInv'
      BY <1>1, <1>2, <3>1 DEF SectorInv, Reading
    <3>3. dat.at = Addr(req.l)
      <4>1. NoErr /\ Rdy \in INTERRUPT
        BY <1>3, <2>5, IntGood DEF SdInv, BlkInt
      <4> QED
        BY <2>1, <2>2, <4>1 DEF SdInv, CurInv, Waiting
    <3>4. dat'.at = dat.at
      BY <3>1 DEF SdInv, TypeHost
    <3>5. ASSUME ~soiled, NEW l \in Lba, Means(l)' PROVE fifo' = Block0(l)
      <4>1. Means(l)
        BY <2>1, <3>4, <3>5 DEF Means
      <4>2. PICK m \in Lba : m = req.l
        BY <2>2
      <4>3. Card(l) = Addr(m)
        BY <3>3, <4>1, <4>2 DEF Means, Card
      <4> QED
        BY <2>2, <2>5, <3>1, <3>5, <4>2, <4>3 DEF CopyInv, Copy
    <3>6. CopyInv'
      BY <1>1, <1>2, <2>1, <3>1, <3>5, CopyKept DEF CopyInv
    <3>7. FillInv'
      BY <1>1, <3>1, DriverFills
    <3> QED
      BY <1>1, <3>2, <3>6, <3>7
  <2> QED
    BY <1>3, <2>3, <2>4, <2>5 DEF BlkInt, Fails
<1>4. CASE ~BlkInt
  <2>1. /\ mem' = mem /\ filled' = filled /\ hc' = hc
        /\ dat'.ph = "wbusy" => dat' = dat /\ fifo' = fifo
        /\ blocks' = blocks \/ Store
    BY <1>0, <1>4, DataFrame
  <2>2. SectorInv' /\ FillInv'
    BY <1>1, <1>2, <2>1, DriverFills DEF SectorInv, Reading
  <2>3. ASSUME ~soiled, NEW l \in Lba PROVE blocks'[l] = Block0(l)
    BY <2>1, <2>3 DEF Store, CopyInv
  <2>4. \A l \in Lba : dat' = dat => Means(l)' = Means(l)
    BY <2>1 DEF Means
  <2>5. ccs' = ccs \/ filled = {}
    BY <1>2 DEF SectorInv
  <2>6. ASSUME ~soiled, NEW b \in Mine \cap filled PROVE Copy(sector[b], mem[b])'
    BY <1>1, <2>1, <2>5, <2>6, CopyKept DEF CopyInv
  <2>7. Stage \in Blk => ccs' = ccs
    BY <1>2 DEF Blk, Ini, Fnd, Rca, Sel
  <2>8. CopyInv'
    BY <1>1, <1>2, <2>1, <2>3, <2>4, <2>6, <2>7, CopyKept DEF CopyInv
  <2> QED
    BY <1>1, <2>2, <2>8
<1> QED
  BY <1>3, <1>4
-----------------------------------------------------------------------------
(* The calls                                                                *)

\* What the start of a transfer does to the driver's state.
LEMMA RequestFrame ==
  ASSUME NEW op, NEW l, NEW b, Request(op, l, b)
  PROVE  /\ Stage = "idle" /\ Stage' = "blk_status" /\ req' = [op |-> op, l |-> l, b |-> b]
         /\ Stage' \in Blk /\ Stage' \notin Ini
         /\ filled' = (IF op = "READ_SINGLE" THEN filled \ {b} ELSE filled)
         /\ UNCHANGED <<ccs, hc, mem, dat, fifo, blocks>>
<1>1. Stage = "idle" /\ Stage' = "blk_status"
  BY DEF Request, Goto, Stage, InCmd, InClk
<1>2. Stage' \in Blk /\ Stage' \notin Ini
  BY <1>1 DEF Blk, Ini, Fnd, Rca, Sel
<1> QED
  BY <1>1, <1>2 DEF Request, initVars, hostVars, cardVars

LEMMA BreadKeeps ==
  ASSUME BioInv, NEW l \in Lba, NEW b \in Buf, NEW forgets \in BOOLEAN, Bread(l, b, forgets), SdInv'
  PROVE  BioInv'
<1> USE DEF BioInv
<1>1. /\ b \notin flags /\ flags' = flags \cup {b} /\ last' = NULL
      /\ UNCHANGED <<spins, doubt, soiled>>
      /\ lost' = (IF forgets THEN lost \cup {b} ELSE lost)
      /\ held' = (IF forgets THEN held ELSE held \cup {b})
      /\ sector' = [a \in Buf |-> IF a = b /\ ~forgets THEN l
                                  ELSE IF a \in held THEN sector[a] ELSE NULL]
      /\ Request("READ_SINGLE", l, b) /\ ~spins /\ ~soiled
  BY DEF Bread, Getblk, Runs
<1>2. /\ Stage' \in Blk /\ Stage' \notin Ini /\ req'.b = b /\ req'.l = l
      /\ req'.op = "READ_SINGLE" /\ filled' = filled \ {b} /\ Stage = "idle"
      /\ UNCHANGED <<ccs, hc, mem, dat, fifo, blocks>>
  BY <1>1, RequestFrame
<1>3. held \subseteq Buf /\ held \subseteq flags /\ b \notin held /\ NULL \notin Buf
      /\ sector \in [Buf -> Lba \cup {NULL}]
  BY <1>1, NullIsNoBuffer DEF BufInv
<1>4. BufInv'
  <2>1. flags' = held' \cup lost' /\ held' \cap lost' = {} /\ flags' \subseteq Buf
    BY <1>1, <1>3 DEF BufInv
  <2>2. sector' \in [Buf -> Lba \cup {NULL}]
    BY <1>1, <1>3
  <2> QED
    BY <1>1, <2>1, <2>2 DEF BufInv
<1>5. Mine' = held' /\ held \subseteq Mine
  BY <1>1, <1>3 DEF Mine
<1>6. \A a \in held : sector'[a] = sector[a]
  BY <1>1, <1>3
<1>7. b \in held' => sector'[b] = l
  BY <1>1, <1>3
<1>8. SectorInv' /\ FillInv'
  <2>1. SectorInv'
    BY <1>1, <1>2, <1>5, <1>6, <1>7 DEF SectorInv, Reading
  <2>2. ~Reading /\ Reading'
    BY <1>2 DEF Reading, Blk
  <2> QED
    BY <1>1, <1>2, <1>5, <2>1, <2>2 DEF FillInv
<1>9. \A m \in Lba : Means(m)' = Means(m)
  BY <1>2 DEF Means
<1>10. CopyInv'
  BY <1>1, <1>2, <1>5, <1>6, <1>9, CopyKept DEF CopyInv
<1>11. SpinsByLeak'
  BY <1>1 DEF SpinsByLeak
<1> QED
  BY <1>4, <1>8, <1>10, <1>11

LEMMA BwriteKeeps ==
  ASSUME BioInv, NEW b \in Buf, NEW l \in Lba, Bwrite(b, l), SdInv' PROVE BioInv'
<1> USE DEF BioInv
<1>1. /\ Request("WRITE_SINGLE", l, b) /\ ~spins /\ ~soiled /\ soiled' = doubt
      /\ (doubt \/ l = sector[b])
      /\ UNCHANGED <<flags, sector, held, last, spins, lost, doubt>> /\ b \in Mine
  BY NullIsNoBuffer DEF Bwrite, Runs, Mine
<1>2. /\ Stage' \in Blk /\ Stage' \notin Ini /\ req'.b = b /\ req'.l = l
      /\ req'.op = "WRITE_SINGLE" /\ Stage = "idle"
      /\ filled' = filled /\ UNCHANGED <<ccs, hc, mem, dat, fifo, blocks>>
  BY <1>1, RequestFrame
<1>3. BufInv' /\ SpinsByLeak' /\ Mine' = Mine
  BY <1>1 DEF BufInv, SpinsByLeak, Mine
<1>4. ~Reading /\ ~Reading'
  BY <1>2 DEF Reading, Blk
<1>5. SectorInv' /\ FillInv'
  BY <1>1, <1>2, <1>3, <1>4 DEF SectorInv, FillInv
<1>6. ~soiled' => b \in filled /\ l = sector[b]
  BY <1>1, <1>4 DEF FillInv
<1>7. \A m \in Lba : Means(m)' = Means(m)
  BY <1>2 DEF Means
<1>8. CopyInv'
  BY <1>1, <1>2, <1>3, <1>6, <1>7, CopyKept DEF CopyInv
<1> QED
  BY <1>3, <1>5, <1>8

LEMMA BrelseKeeps == ASSUME BioInv, NEW b \in Buf, Brelse(b), SdInv' PROVE BioInv'
<1> USE DEF BioInv
<1>1. /\ b \in held /\ flags' = flags \ {b} /\ held' = held \ {b} /\ last' = b
      /\ UNCHANGED <<vars, sector, spins, lost, doubt, soiled>> /\ ~spins
  BY DEF Brelse, Runs
<1>2. UNCHANGED <<pc, ret, req, ccs, hc, mem, filled, dat, fifo, blocks>>
  BY <1>1 DEF vars, ctlVars, initVars, callVars, hostVars, cardVars
<1>3. BufInv'
  BY <1>1 DEF BufInv
<1>4. Mine' \subseteq Mine
  BY <1>1, NullIsNoBuffer DEF Mine
<1>5. Stage' = Stage
  BY <1>2 DEF Stage, InCmd, InClk
<1>6. SectorInv' /\ FillInv'
  BY <1>1, <1>2, <1>4, <1>5 DEF SectorInv, FillInv, Reading
<1>7. \A m \in Lba : Means(m)' = Means(m)
  BY <1>2 DEF Means
<1>8. CopyInv'
  BY <1>1, <1>2, <1>4, <1>5, <1>7, CopyKept DEF CopyInv
<1>9. SpinsByLeak'
  BY <1>1 DEF SpinsByLeak
<1> QED
  BY <1>3, <1>6, <1>8, <1>9

LEMMA CallEndsKeeps == ASSUME BioInv, CallEnds, SdInv' PROVE BioInv'
<1> USE DEF BioInv
<1>1. /\ held' = {} /\ last' = NULL /\ doubt' = FALSE /\ sector' = [b \in Buf |-> NULL]
      /\ UNCHANGED <<vars, flags, held, spins, lost, soiled>>
  BY DEF CallEnds
<1>2. UNCHANGED <<pc, ret, req, ccs, hc, mem, filled, dat, fifo, blocks>>
  BY <1>1 DEF vars, ctlVars, initVars, callVars, hostVars, cardVars
<1>3. BufInv' /\ SpinsByLeak'
  <2>1. doubt' \in BOOLEAN /\ sector' \in [Buf -> Lba \cup {NULL}]
    BY <1>1
  <2> QED
    BY <1>1, <2>1 DEF BufInv, SpinsByLeak
<1>4. Mine' = {} /\ Stage' = Stage
  BY <1>1, <1>2 DEF Mine, Stage, InCmd, InClk
<1>5. \A m \in Lba : Means(m)' = Means(m)
  BY <1>2 DEF Means
<1>6. SectorInv' /\ FillInv' /\ CopyInv'
  BY <1>1, <1>2, <1>4, <1>5, CopyKept DEF SectorInv, FillInv, CopyInv
<1> QED
  BY <1>3, <1>6

\* A set of numbers that is not empty has a least one: getblk() finds a buffer
\* when there is one.
LEMMA Least == ASSUME NEW S \in SUBSET Nat, S # {} PROVE \E x \in S : \A y \in S : x <= y
<1>1. PICK x \in S : \A y \in S : ~(<<y, x>> \in OpToRel(<, Nat))
  BY NatLessThanWellFounded, WFMin
<1>2. \A y \in S : ~(y < x)
  BY <1>1 DEF OpToRel
<1> QED
  BY <1>2

LEMMA GetblkSpinsKeeps == ASSUME BioInv, GetblkSpins, SdInv' PROVE BioInv'
<1> USE DEF BioInv
<1>1. /\ Cardinality(held) < HELD /\ \A b \in Buf : ~Getblk(b)
      /\ spins' = TRUE /\ UNCHANGED <<vars, flags, sector, held, last, lost, doubt, soiled>>
  BY DEF GetblkSpins, MayAsk
<1>2. UNCHANGED <<pc, ret, req, ccs, hc, mem, filled, dat, fifo, blocks>>
  BY <1>1 DEF vars, ctlVars, initVars, callVars, hostVars, cardVars
<1>3. BufInv'
  <2>1. spins' \in BOOLEAN
    BY <1>1
  <2> QED
    BY <1>1, <2>1 DEF BufInv
<1>4. Mine' = Mine /\ Stage' = Stage
  BY <1>1, <1>2 DEF Mine, Stage, InCmd, InClk
<1>5. \A m \in Lba : Means(m)' = Means(m)
  BY <1>2 DEF Means
<1>6. SectorInv' /\ FillInv' /\ CopyInv'
  BY <1>1, <1>2, <1>4, <1>5, CopyKept DEF SectorInv, FillInv, Reading, CopyInv
<1>7. flags = Buf
  <2>1. Buf \ flags \in SUBSET Nat
    BY BioAssumption
  <2>2. Buf \ flags = {}
    BY <1>1, <2>1, Least DEF Getblk
  <2> QED
    BY <2>2 DEF BufInv
<1>8. held \subseteq Buf /\ lost \subseteq Buf /\ Buf \ held \subseteq lost /\ held \cap Buf = held
  BY <1>7 DEF BufInv
<1>9. IsFiniteSet(Buf) /\ IsFiniteSet(held) /\ IsFiniteSet(lost)
  BY <1>8, BioAssumption, FS_Subset
<1>10. Cardinality(Buf \ held) = Cardinality(Buf) - Cardinality(held)
  BY <1>8, <1>9, FS_Difference
<1>11. Cardinality(Buf \ held) <= Cardinality(lost)
  BY <1>8, <1>9, FS_Subset
<1>12. /\ Cardinality(held) \in Nat /\ Cardinality(lost) \in Nat /\ Cardinality(Buf) \in Nat
       /\ HELD \in Nat
  BY <1>9, FS_CardinalityType, BioAssumption
<1>13. SpinsByLeak'
  BY <1>1, <1>10, <1>11, <1>12 DEF SpinsByLeak
<1> QED
  BY <1>3, <1>6, <1>13

LEMMA BioNextInv == BioInv /\ [BioNext]_<<vars, bufVars>> => BioInv'
<1> SUFFICES ASSUME BioInv, [BioNext]_<<vars, bufVars>> PROVE BioInv'
  OBVIOUS
<1>1. SdInv'
  BY BioIsSd, SdNextInv DEF BioInv
<1>2. CASE UNCHANGED <<vars, bufVars>>
  <2>1. UNCHANGED <<pc, ret, req, ccs, hc, mem, filled, dat, fifo, blocks>>
    BY <1>2 DEF vars, ctlVars, initVars, callVars, hostVars, cardVars
  <2>2. /\ BufInv' /\ SpinsByLeak' /\ Mine' = Mine
        /\ UNCHANGED <<sector, doubt, soiled>>
    BY <1>2, BufKept DEF bufVars, BioInv, BufInv
  <2>3. Stage' = Stage /\ \A m \in Lba : Means(m)' = Means(m)
    BY <2>1 DEF Stage, InCmd, InClk, Means
  <2>4. SectorInv' /\ FillInv' /\ CopyInv'
    BY <2>1, <2>2, <2>3, CopyKept DEF BioInv, SectorInv, FillInv, Reading, CopyInv
  <2> QED
    BY <1>1, <2>2, <2>4 DEF BioInv
<1>3. CASE DriverStep
  BY <1>1, <1>3, DriverKeeps
<1>4. CASE GetblkSpins \/ CallEnds
  BY <1>1, <1>4, GetblkSpinsKeeps, CallEndsKeeps
<1>5. ASSUME NEW b \in Buf, Brelse(b) \/ \E l \in Lba : Bwrite(b, l) PROVE BioInv'
  BY <1>1, <1>5, BwriteKeeps, BrelseKeeps
<1>6. ASSUME NEW b \in Buf, NEW l \in Lba, NEW forgets \in BOOLEAN, Bread(l, b, forgets)
      PROVE  BioInv'
  BY <1>1, <1>6, BreadKeeps
<1> QED
  BY <1>2, <1>3, <1>4, <1>5, <1>6 DEF BioNext
-----------------------------------------------------------------------------
\* The inductive invariant of the buffers over the driver.
THEOREM BioSpecInv == BioSpec => []BioInv
<1>1. BioInv /\ [BioNext]_<<vars, bufVars>> => BioInv'
  BY BioNextInv
<1> QED
  BY BioInitInv, <1>1, PTL DEF BioSpec

\* The type invariant: the buffers that bread() has given out are busy.
THEOREM BioTypeCorrect == BioSpec => []BioTypeOK
<1>1. BioInv => BioTypeOK
  BY SdTypes, Zenon DEF BioInv, BufInv, BioTypeOK
<1> QED
  BY <1>1, BioSpecInv, PTL

\* bwrite() puts no block over another one, for every number of buffers and
\* blocks and whatever fails in the driver, unless it is called after a read of
\* the same system call has failed.
THEOREM BlocksUncrossed == BioSpec => []Uncrossed
<1>1. BioInv => Uncrossed
  BY DEF BioInv, CopyInv, Uncrossed
<1> QED
  BY <1>1, BioSpecInv, PTL

\* getblk() never returns only when bmap() has lost more than NBUF - HELD
\* buffers: every other buffer that was asked for is released, so without that
\* leak getblk() returns.
THEOREM OnlyLeaksSpin == BioSpec => []SpinsByLeak
<1>1. BioInv => SpinsByLeak
  BY DEF BioInv
<1> QED
  BY <1>1, BioSpecInv, PTL
=============================================================================
