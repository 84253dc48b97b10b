----------------------------- MODULE SdhciProofs -----------------------------
(***************************************************************************)
(* Proofs about the SD card driver: what sd_init() leaves agrees with the  *)
(* card, a successful read has the block that was asked for, and a         *)
(* successful write is on the card, for every number of blocks, buffers    *)
(* and polls, whatever the card and the controller do and whenever.        *)
(***************************************************************************)
EXTENDS Sdhci, TLAPS

Requests == [op : {"READ_SINGLE", "WRITE_SINGLE"}, l : Lba, b : Buf]

\* The commands, each with the segment that goes on with its result.
Calls == {<<"GO_IDLE", "idled">>, <<"SEND_IF_COND", "if_conded">>,
          <<"SEND_OP_COND", "op_conded">>, <<"ALL_SEND_CID", "cided">>,
          <<"SEND_REL_ADDR", "addressed">>, <<"CARD_SELECT", "card_selected">>,
          <<"SEND_SCR", "scr_sent">>, <<"SET_BUS_WIDTH", "width_set">>,
          <<"READ_SINGLE", "blk_sent">>, <<"WRITE_SINGLE", "blk_sent">>}
Commands == {"GO_IDLE", "SEND_IF_COND", "SEND_OP_COND", "ALL_SEND_CID", "SEND_REL_ADDR",
             "CARD_SELECT", "SEND_SCR", "SET_BUS_WIDTH", "READ_SINGLE", "WRITE_SINGLE",
             "APP_CMD"}

\* The command that sd_cmd() is at, and the segment of its caller.
InCmd == pc \in {"cmd_status", "cmd_int"}
InClk == pc \in {"clk", "stable"}
Cmd   == IF inner THEN "APP_CMD" ELSE code
Stage == IF InCmd \/ InClk THEN ret ELSE pc

\* The stages of a block's transfer and of sd_init(): with the card selected,
\* with its address known, with its capacity known, and all of them.
Blk == {"blk_status", "blk_sent", "blk_int", "blk_done"}
Sel == {"scr_status", "scr_sent", "scr_int", "scr_data", "width_set"}
Rca == Sel \cup {"clocked25M", "card_selected"}
Fnd == Rca \cup {"cided", "addressed"}
Ini == Fnd \cup {"reset", "clocked400k", "idled", "if_conded", "op_conded"}

\* The types of the variables, by group.
TypeCtl ==
  /\ pc \in Segments /\ cnt \in -1 .. POLLS /\ ret \in Segments \cup {NULL}
  /\ sd_err \in {"OK", "TIMEOUT", "ERROR", "CARD"} /\ inner \in BOOLEAN
TypeInit ==
  /\ sd_rca \in BOOLEAN /\ ccs \in BOOLEAN /\ ready \in BOOLEAN /\ found \in BOOLEAN
  /\ hc \in BOOLEAN /\ tries \in 0 .. OPTRIES
TypeCall ==
  /\ filled \subseteq Buf
  /\ mem = [b \in Buf |-> mem[b]] /\ \A b \in Buf : mem[b] # NULL
  /\ acked = [l \in Lba |-> acked[l]]
TypeHost ==
  /\ INTERRUPT \subseteq Errors \cup {"CMD_DONE", "READ_RDY", "WRITE_RDY", "DATA_DONE"}
  /\ pend \in Commands \cup {NULL}
  /\ dat \in [ph : Phases, at : Nat \cup {NULL}]
  /\ \A l \in Lba : blocks[l] # NULL

\* The driver's control state: who has called sd_cmd() and sd_clk(), for what.
CtlInv ==
  /\ InCmd => <<code, ret>> \in Calls /\ (inner => code \in NeedApp)
  /\ InClk => ret \in {"clocked400k", "clocked25M"}
  /\ Stage \in Blk => req \in Requests
  /\ Stage \notin Blk => req = NULL
  /\ InCmd /\ ret = "blk_sent" => code = req.op
  /\ pc = "blk_done" => req.op = "WRITE_SINGLE"

\* What CMD_DONE says of the command that the driver waits for.
Answered ==
  /\ Cmd = "CARD_SELECT" => selected
  /\ Cmd = "SET_BUS_WIDTH" => wide = 4
  /\ Cmd = "SEND_REL_ADDR" => "RCA" \in RESP0
  /\ Cmd = "SEND_OP_COND" /\ "VOLTAGE" \in RESP0 => ("CCS" \in RESP0 <=> hc)

\* A command's result is the card's answer to that command.
CmdInv ==
  /\ pc = "cmd_int" => pend \in {Cmd, NULL}
  /\ pc = "cmd_int" /\ "CMD_DONE" \in INTERRUPT => pend = NULL /\ Answered
  /\ pc = "width_set" /\ sd_err = "OK" => wide = 4 /\ pend = NULL
  /\ pc = "op_conded" /\ "VOLTAGE" \in rsp => ("CCS" \in rsp <=> hc)
  /\ pc = "addressed" /\ sd_err = "OK" => "RCA" \in rsp
  /\ pc = "card_selected" /\ sd_err = "OK" => selected

\* How far sd_init() has come.
InitInv ==
  /\ ready => Stage \in Blk \cup {"idle"} /\ InitAgrees /\ pend # "SET_BUS_WIDTH"
  /\ Stage \in Fnd => found = hc
  /\ Stage \in Rca => sd_rca
  /\ Stage \in Sel => selected
  /\ Stage \in Ini => width = 1 /\ \A l \in Lba : acked[l] = NULL
  /\ Stage \in Ini /\ (Stage = "width_set" => pc = "cmd_status" \/ (pc = "cmd_int" /\ inner))
       => wide = 1 /\ pend # "SET_BUS_WIDTH"

\* A transfer to the card is going on or about to begin.
XWriting == \/ dat.ph \in {"write", "wready", "wbusy"}
            \/ dat.ph = "cmd" /\ pend = "WRITE_SINGLE"

\* The address of block l for the driver and for the card; v is what the card
\* reads where the driver takes block l to be.
Addr(l)    == IF ccs THEN l ELSE l * 512
Card(l)    == IF hc THEN l ELSE l * 512
Seen(l, v) == \A m \in Lba : Card(m) = Addr(l) => v = blocks[m]
NoErr      == INTERRUPT \cap Errors = {}

\* A transfer, whether the driver waits for it or not: it overwrites no block
\* that a write has been acknowledged for.
XferInv ==
  /\ dat.ph = "none" => dat = NoData
  /\ dat.ph = "cmd" => pend \in Data
  /\ dat.ph \in {"full", "wbusy"} => fifo # NULL
  /\ XWriting /\ ccs = hc => \A l \in Lba : Means(l) => acked[l] = NULL
  /\ Stage \in Ini => ~XWriting
  /\ Stage \in Blk /\ req.op = "WRITE_SINGLE" => acked[req.l] = NULL
  /\ ccs = hc => \A l \in Lba : acked[l] # NULL => blocks[l] = acked[l]

\* The driver waits for the transfer of its block, and no error is reported.
Waiting == /\ Stage \in Blk /\ NoErr
           /\ pc \in {"cmd_int", "blk_int"} \/ (pc = "blk_sent" /\ sd_err = "OK")

\* The controller's transfer is then that block's.
CurInv ==
  /\ pc = "cmd_status" /\ code \in {"READ_SINGLE", "WRITE_SINGLE"} => dat = NoData
  /\ Waiting => dat.at = Addr(req.l) /\ "DATA_DONE" \notin INTERRUPT
  /\ Waiting /\ req.op = "READ_SINGLE" =>
       /\ dat.ph \in {"cmd", "read", "full"}
       /\ dat.ph = "cmd" => pend = "READ_SINGLE"
       /\ "READ_RDY" \in INTERRUPT => dat.ph = "full"
       /\ dat.ph = "full" => Seen(req.l, fifo)
  /\ Waiting /\ req.op = "WRITE_SINGLE" =>
       /\ dat.ph \in {"cmd", "write", "wready"}
       /\ dat.ph = "cmd" => pend = "WRITE_SINGLE"
       /\ "WRITE_RDY" \in INTERRUPT => dat.ph = "wready"
  /\ pc = "blk_done" /\ NoErr =>
       \/ dat.ph = "wbusy" /\ dat.at = Addr(req.l) /\ fifo = mem[req.b]
            /\ "DATA_DONE" \notin INTERRUPT
       \/ dat.ph = "none" /\ (ccs = hc => blocks[req.l] = mem[req.b])

SdInv == /\ TypeCtl /\ TypeInit /\ TypeCall /\ TypeHost /\ CtlInv
         /\ CmdInv /\ InitInv /\ XferInv /\ CurInv
-----------------------------------------------------------------------------
LEMMA SdTypes == ASSUME SdInv PROVE TypeOK
<1>1. dat.ph \in Phases
  BY DEF SdInv, TypeHost
<1>2. pc \in Blk => req # NULL
  BY SdhciAssumption DEF SdInv, CtlInv, Stage, InCmd, InClk, Blk, Requests
<1>3. pc = "idle" => req = NULL
  BY DEF SdInv, CtlInv, Stage, InCmd, InClk, Blk
<1> QED
  BY <1>1, <1>2, <1>3, Zenon DEF SdInv, TypeOK, TypeCtl, TypeInit, TypeCall, TypeHost, Blk

LEMMA SdInitInv == Init => SdInv
<1> SUFFICES ASSUME Init PROVE SdInv
  OBVIOUS
<1> USE SdhciAssumption DEF Init, NoData
<1>1. TypeCtl
  <2>1. cnt \in -1 .. POLLS
    OBVIOUS
  <2> QED
    BY <2>1, Zenon DEF TypeCtl, Segments, Waits
<1>2. TypeInit
  <2>1. tries \in 0 .. OPTRIES
    OBVIOUS
  <2> QED
    BY <2>1, Zenon DEF TypeInit
<1>3. TypeCall /\ TypeHost
  BY DEF TypeCall, TypeHost, Phases
<1>4. CtlInv
  BY DEF CtlInv, InCmd, InClk, Stage, Blk
<1>5. CmdInv
  BY DEF CmdInv
<1>6. InitInv
  <2>1. Stage = "reset" /\ Stage \notin Fnd /\ ~ready
    BY DEF InCmd, InClk, Stage, Fnd, Rca, Sel
  <2>2. pend # "SET_BUS_WIDTH"
    OBVIOUS
  <2> QED
    BY <2>1, <2>2 DEF InitInv, Fnd, Rca
<1>7. XferInv
  BY DEF XferInv, XWriting, InCmd, InClk, Stage, Blk, Ini, Fnd, Rca, Sel, Phases, Means
<1>8. CurInv
  BY DEF CurInv, Waiting, InCmd, InClk, Stage, Blk
<1> QED
  BY <1>1, <1>2, <1>3, <1>4, <1>5, <1>6, <1>7, <1>8 DEF SdInv
-----------------------------------------------------------------------------
(* What the end of a wait says                                              *)

LEMMA StatusGood == ASSUME TypeCtl, ~StatusBad
                    PROVE  /\ Over("cmd_status") => pend = NULL
                           /\ Over("blk_status") => dat.ph = "none"
  BY DEF TypeCtl, StatusBad, Over, Until, StatusIs, STATUS, Late

LEMMA IntGood == ASSUME TypeCtl, IntResult = "OK"
                 PROVE  /\ NoErr
                        /\ Over("cmd_int") => "CMD_DONE" \in INTERRUPT
                        /\ Over("blk_int") => Rdy \in INTERRUPT
                        /\ Over("blk_done") => "DATA_DONE" \in INTERRUPT
<1>1. ~Late /\ INTERRUPT \cap Errors = {}
  BY DEF IntResult
<1> QED
  BY <1>1 DEF TypeCtl, NoErr, Over, Until, IntIs, Late
-----------------------------------------------------------------------------
(* The ways a call returns, and the steps of sd_init()                      *)

\* sd_init(), sd_readblock() or sd_writeblock() returns.
LEMMA ReturnCtl == ASSUME Return
                   PROVE  /\ TypeCtl' /\ CtlInv' /\ Stage' = "idle" /\ pc' = "idle"
                          /\ found' \in BOOLEAN /\ tries' \in 0 .. OPTRIES
<1> USE DEF Return, Stay
<1>1. cnt' \in -1 .. POLLS /\ tries' \in 0 .. OPTRIES
  BY SdhciAssumption
<1>2. inner' \in BOOLEAN /\ found' \in BOOLEAN
  BY Zenon
<1>3. TypeCtl'
  BY <1>1, <1>2, Zenon DEF TypeCtl, Segments
<1>4. CtlInv' /\ Stage' = "idle"
  BY DEF CtlInv, InCmd, InClk, Stage, Blk
<1> QED
  BY <1>1, <1>2, <1>3, <1>4

\* It returns an error.
LEMMA FailsInv == ASSUME SdInv, Fails, INTERRUPT' \subseteq INTERRUPT,
                         UNCHANGED <<width, pend, dat, fifo, cardVars>>
                  PROVE  SdInv'
<1> USE DEF SdInv
<1>1. Return /\ TypeCtl' /\ CtlInv' /\ Stage' = "idle" /\ pc' = "idle"
      /\ found' \in BOOLEAN /\ tries' \in 0 .. OPTRIES
  BY ReturnCtl DEF Fails
<1>2. TypeInit'
  BY <1>1, Zenon DEF TypeInit, Fails, cardVars
<1>3. TypeCall' /\ TypeHost'
  BY DEF TypeCall, TypeHost, Fails, cardVars
<1>4. CmdInv'
  BY <1>1 DEF CmdInv
<1>5. InitInv'
  BY <1>1 DEF InitInv, InitAgrees, Fails, cardVars, Blk, Ini, Fnd, Rca, Sel
<1>6. XferInv'
  BY <1>1 DEF XferInv, XWriting, Means, Fails, cardVars, Blk, Ini, Fnd, Rca, Sel
<1>7. CurInv'
  BY <1>1 DEF CurInv, Waiting, Blk
<1> QED
  BY <1>1, <1>2, <1>3, <1>4, <1>5, <1>6, <1>7

\* A call of sd_cmd().
LEMMA CallCtl == ASSUME NEW c, NEW l, <<c, l>> \in Calls, Call(c, l),
                        l # "blk_sent" => req' = NULL,
                        l = "blk_sent" => req' \in Requests /\ c = req'.op
                 PROVE  /\ TypeCtl' /\ CtlInv'
                        /\ Stage' = l /\ pc' = "cmd_status" /\ code' = c
<1> USE DEF Call, Goto
<1>1. cnt' \in -1 .. POLLS
  BY SdhciAssumption
<1>2. inner' \in BOOLEAN /\ (inner' => code' \in NeedApp)
  <2>1. inner' = (c \in NeedApp) /\ code' = c
    OBVIOUS
  <2>2. (c \in NeedApp) \in BOOLEAN
    OBVIOUS
  <2> QED
    BY <2>1, <2>2
<1>3. ret' \in Segments
  BY DEF Calls, Segments
<1>4. TypeCtl'
  BY <1>1, <1>2, <1>3, Zenon DEF TypeCtl, Segments, Waits
<1>5. Stage' = l /\ l \notin Blk \ {"blk_sent"} /\ (InCmd /\ ~InClk)'
  BY DEF InCmd, InClk, Stage, Calls, Blk
<1>6. CtlInv'
  BY <1>2, <1>5 DEF CtlInv, Blk
<1> QED
  BY <1>4, <1>5, <1>6

\* A call of sd_clk().
LEMMA ClkCtl == ASSUME NEW l \in {"clocked400k", "clocked25M"}, TypeCtl, Clk(l), req' = NULL
                PROVE  TypeCtl' /\ CtlInv' /\ Stage' = l /\ pc' = "clk"
<1> USE DEF Clk, Goto
<1>1. cnt' \in -1 .. POLLS
  BY SdhciAssumption
<1>2. TypeCtl'
  BY <1>1, Zenon DEF TypeCtl, Segments, Waits
<1>3. CtlInv' /\ Stage' = l
  BY DEF CtlInv, InCmd, InClk, Stage, Blk
<1> QED
  BY <1>2, <1>3

\* A step from one segment of sd_init() to the next.
LEMMA InitStep ==
  ASSUME SdInv, TypeCtl', TypeInit', TypeHost', CtlInv',
         Stage \in Ini, pc \notin {"cmd_status", "cmd_int", "width_set"},
         Stage' \in Ini, pc' \notin {"cmd_int", "width_set", "op_conded", "addressed",
                                     "card_selected"},
         Stage' = "width_set" => pc' = "cmd_status",
         Stage' \in Fnd => found' = hc, Stage' \in Rca => sd_rca',
         Stage' \in Sel => selected,
         UNCHANGED <<ready, mem, filled, acked, width, pend, cardVars>>,
         \/ dat' = dat /\ fifo' = fifo
         \/ dat'.ph = "drained"
  PROVE  SdInv'
<1> USE DEF SdInv
<1>1. TypeCall'
  BY DEF TypeCall
<1>2. CmdInv'
  BY DEF CmdInv
<1>3. ~ready /\ Stage # "width_set"
  BY DEF InitInv, CtlInv, Stage, InCmd, InClk, Ini, Fnd, Rca, Sel, Blk
<1>4. InitInv'
  BY <1>3 DEF InitInv, cardVars
<1>5. \A l \in Lba : acked'[l] = NULL
  BY DEF InitInv
<1>6. ~XWriting /\ ~XWriting'
  BY DEF XferInv, XWriting
<1>7. (dat.ph = "none" => dat = NoData)' /\ (dat.ph = "cmd" => pend \in Data)'
      /\ (dat.ph \in {"full", "wbusy"} => fifo # NULL)'
  BY DEF XferInv
<1>8. (Stage \notin Blk)'
  BY DEF Ini, Fnd, Rca, Sel, Blk
<1>9. XferInv'
  BY <1>5, <1>6, <1>7, <1>8 DEF XferInv
<1>10. (~(pc = "cmd_status" /\ code \in {"READ_SINGLE", "WRITE_SINGLE"}))'
  BY <1>8 DEF CtlInv, InCmd, InClk, Stage, Calls, Blk
<1>11. (pc # "blk_done")'
  BY <1>8 DEF InCmd, InClk, Stage, Blk
<1>12. CurInv'
  BY <1>8, <1>10, <1>11 DEF CurInv, Waiting
<1> QED
  BY <1>1, <1>2, <1>4, <1>9, <1>12

\* sd_init() goes on with a command.
LEMMA InitCall ==
  ASSUME SdInv, NEW c, NEW l, <<c, l>> \in Calls, l # "blk_sent", Call(c, l),
         pc \in Ini \ {"width_set"}, TypeHost',
         ccs' \in BOOLEAN, found' \in BOOLEAN, tries' \in 0 .. OPTRIES,
         l \in Fnd => found' = hc, l \in Rca => sd_rca, l \in Sel => selected,
         UNCHANGED <<sd_rca, ready, callVars, width, pend, cardVars>>,
         (dat' = dat /\ fifo' = fifo) \/ dat'.ph = "drained"
  PROVE  SdInv'
<1>1. ~InCmd /\ ~InClk /\ Stage = pc /\ pc \notin Blk
  BY DEF Stage, InCmd, InClk, Ini, Fnd, Rca, Sel, Blk
<1>2. req' = NULL
  BY <1>1 DEF SdInv, CtlInv, callVars
<1>3. TypeCtl' /\ CtlInv' /\ Stage' = l /\ pc' = "cmd_status" /\ code' = c
  BY <1>2, CallCtl
<1>4. TypeInit'
  BY Zenon DEF SdInv, TypeInit, cardVars
<1>5. l \in Ini
  BY DEF Calls, Ini, Fnd, Rca, Sel
<1>6. UNCHANGED <<mem, filled, acked>>
  BY DEF callVars
<1>7. pc \notin {"cmd_status", "cmd_int", "width_set"}
  BY <1>1 DEF InCmd
<1> QED
  BY <1>1, <1>3, <1>4, <1>5, <1>6, <1>7, InitStep

\* sd_init() goes on with something else.
LEMMA InitMove ==
  ASSUME SdInv, NEW l \in {"clk", "stable", "clocked400k", "clocked25M", "scr_status",
                           "scr_int", "scr_data"},
         pc' = l, cnt' \in {0, POLLS},
         ~InCmd, pc # "width_set", Stage \in Ini, Stage' \in Ini, TypeHost',
         sd_rca' \in BOOLEAN, l \in {"clk", "stable"} => ret' \in {"clocked400k", "clocked25M"},
         ret' \in Segments \cup {NULL},
         Stage' \in Fnd => found = hc, Stage' \in Rca => sd_rca', Stage' \in Sel => selected,
         UNCHANGED <<inner, sd_err, ccs, found, tries, ready, callVars, width, pend, dat,
                     fifo, cardVars>>
  PROVE  SdInv'
<1>1. TypeCtl'
  <2>1. cnt' \in -1 .. POLLS
    BY SdhciAssumption
  <2> QED
    BY <2>1, Zenon DEF SdInv, TypeCtl, Segments, Waits
<1>2. Stage \notin Blk /\ req = NULL
  BY DEF SdInv, CtlInv, Ini, Fnd, Rca, Sel, Blk
<1>3. (~InCmd /\ Stage \notin Blk /\ pc # "blk_done")'
  BY DEF InCmd, Ini, Fnd, Rca, Sel, Blk
<1>4. CtlInv'
  BY <1>2, <1>3 DEF CtlInv, InClk, callVars
<1>5. TypeInit'
  BY Zenon DEF SdInv, TypeInit, cardVars
<1>6. (Stage # "width_set")'
  BY DEF Stage, InCmd, InClk
<1>7. UNCHANGED <<mem, filled, acked>>
  BY DEF callVars
<1>8. pc \notin {"cmd_status", "cmd_int", "width_set"}
  BY DEF InCmd
<1>9. pc' \notin {"cmd_int", "width_set", "op_conded", "addressed", "card_selected"}
  OBVIOUS
<1>10. UNCHANGED <<found, ready, width, pend, dat, fifo, cardVars>>
  OBVIOUS
<1> QED
  BY <1>1, <1>4, <1>5, <1>6, <1>7, <1>8, <1>9, <1>10, InitStep

\* The end of sd_init().
LEMMA InitDoneInv ==
  ASSUME SdInv, InitDone, pc \in {"scr_data", "width_set"}, TypeHost', width' = wide,
         pc = "width_set" => pend = NULL,
         UNCHANGED <<INTERRUPT, pend, cardVars>>,
         (dat' = dat /\ fifo' = fifo) \/ dat'.ph = "drained"
  PROVE  SdInv'
<1> USE DEF SdInv
<1>1. Return /\ TypeCtl' /\ CtlInv' /\ Stage' = "idle" /\ pc' = "idle"
      /\ found' \in BOOLEAN /\ tries' \in 0 .. OPTRIES
  BY ReturnCtl DEF InitDone
<1>2. Stage = pc /\ Stage \in Sel
  BY DEF Stage, InCmd, InClk, Sel
<1>3. found = hc /\ sd_rca /\ selected /\ ~XWriting /\ \A l \in Lba : acked[l] = NULL
  BY <1>2 DEF InitInv, XferInv, Ini, Fnd, Rca
<1>4. ccs' = hc /\ ready' /\ UNCHANGED <<sd_rca, mem, filled, acked, hc, wide, selected>>
  BY <1>3 DEF InitDone, cardVars
<1>5. TypeInit'
  <2>1. ready' \in BOOLEAN
    BY Zenon DEF InitDone
  <2> QED
    BY <1>1, <1>4, <2>1, Zenon DEF TypeInit
<1>6. TypeCall'
  BY <1>4 DEF TypeCall
<1>7. CmdInv'
  BY <1>1 DEF CmdInv
<1>8. pend' # "SET_BUS_WIDTH"
  BY <1>2, SdhciAssumption DEF InitInv, Ini, Fnd, Rca, Sel
<1>9. InitInv'
  BY <1>1, <1>3, <1>4, <1>8 DEF InitInv, InitAgrees, Blk, Ini, Fnd, Rca, Sel
<1>10. ~XWriting'
  BY <1>3 DEF XWriting
<1>11. XferInv'
  BY <1>1, <1>3, <1>4, <1>10 DEF XferInv, Blk, Ini, Fnd, Rca, Sel
<1>12. CurInv'
  BY <1>1 DEF CurInv, Waiting, Blk
<1> QED
  BY <1>1, <1>5, <1>6, <1>7, <1>9, <1>11, <1>12

LEMMA HostKept == ASSUME SdInv, UNCHANGED <<pend, dat, blocks>>, INTERRUPT' \subseteq INTERRUPT
                  PROVE  TypeHost'
  BY DEF SdInv, TypeHost

\* The segments of sd_init() between the commands.
LEMMA ClockInv == ASSUME SdInv, Reset \/ ClkSet \/ ClkStable PROVE SdInv'
<1> USE DEF Over
<1>1. CASE Fails /\ UNCHANGED <<hostVars, cardVars>>
  BY <1>1, FailsInv DEF hostVars
<1>2. CASE Reset /\ ~Fails
  <2>1. Clk("clocked400k") /\ UNCHANGED <<initVars, callVars, hostVars, cardVars>> /\ pc = "reset"
    BY <1>2 DEF Reset
  <2>2. Stage' = "clocked400k" /\ Stage = "reset" /\ ~InCmd
    BY <2>1 DEF Clk, Goto, Stage, InCmd, InClk
  <2>3. Stage \in Ini /\ Stage' \in Ini /\ Stage' \notin Fnd
    BY <2>2 DEF Ini, Fnd, Rca, Sel
  <2>4. TypeHost' /\ sd_rca' \in BOOLEAN
    BY <2>1, HostKept DEF hostVars, cardVars, initVars, SdInv, TypeInit
  <2>5. pc' = "clk" /\ cnt' \in {0, POLLS} /\ ret' = "clocked400k" /\ ret' \in Segments
    BY <2>1 DEF Clk, Goto, Segments
  <2>6. UNCHANGED <<inner, sd_err, ccs, found, tries, ready, callVars, width, pend, dat,
                     fifo, cardVars>>
    BY <2>1 DEF Clk, initVars, hostVars
  <2> QED
    BY <2>1, <2>2, <2>3, <2>4, <2>5, <2>6, InitMove DEF Rca, Fnd
<1>3. CASE ClkSet /\ ~(Fails /\ UNCHANGED <<hostVars, cardVars>>)
  <2>1. /\ Goto("stable") /\ pc = "clk"
        /\ UNCHANGED <<ret, inner, sd_err, initVars, callVars, INTERRUPT, width, pend, dat,
                       fifo, cardVars>>
    BY <1>3 DEF ClkSet, hostVars
  <2>2. ret \in {"clocked400k", "clocked25M"} /\ ~InCmd /\ Stage = ret /\ Stage' = Stage
    BY <2>1 DEF Goto, Stage, InCmd, InClk, SdInv, CtlInv
  <2>3. Stage \in Ini /\ Stage \notin Sel
    BY <2>2 DEF Ini, Fnd, Rca, Sel
  <2>4. TypeHost' /\ sd_rca' \in BOOLEAN /\ (Stage \in Fnd => found = hc)
        /\ (Stage \in Rca => sd_rca')
    BY <2>1, HostKept DEF cardVars, initVars, SdInv, TypeInit, InitInv
  <2>5. pc' = "stable" /\ cnt' \in {0, POLLS} /\ ret' = ret /\ ret' \in Segments
    BY <2>1, <2>2 DEF Goto, Segments
  <2>6. UNCHANGED <<inner, sd_err, ccs, found, tries, ready, callVars, width, pend, dat,
                     fifo, cardVars>>
    BY <2>1 DEF initVars
  <2> QED
    BY <2>1, <2>2, <2>3, <2>4, <2>5, <2>6, InitMove
<1>4. CASE ClkStable /\ ~Fails
  <2>1. /\ Stay(ret) /\ pc = "stable"
        /\ UNCHANGED <<ret, inner, sd_err, initVars, callVars, hostVars, cardVars>>
    BY <1>4 DEF ClkStable
  <2>2. ret \in {"clocked400k", "clocked25M"} /\ ~InCmd /\ Stage = ret /\ Stage' = Stage
    BY <2>1 DEF Stay, Stage, InCmd, InClk, SdInv, CtlInv
  <2>3. Stage \in Ini /\ Stage \notin Sel
    BY <2>2 DEF Ini, Fnd, Rca, Sel
  <2>4. TypeHost' /\ sd_rca' \in BOOLEAN /\ (Stage \in Fnd => found = hc)
        /\ (Stage \in Rca => sd_rca')
    BY <2>1, HostKept DEF hostVars, cardVars, initVars, SdInv, TypeInit, InitInv
  <2>5. pc' = ret /\ cnt' \in {0, POLLS} /\ ret' = ret /\ ret' \in Segments
    BY <2>1, <2>2 DEF Stay, Segments
  <2>6. UNCHANGED <<inner, sd_err, ccs, found, tries, ready, callVars, width, pend, dat,
                     fifo, cardVars>>
    BY <2>1 DEF initVars, hostVars
  <2>7. PICK l : l = ret
    OBVIOUS
  <2> QED
    BY <2>1, <2>2, <2>3, <2>4, <2>5, <2>6, <2>7, InitMove
<1> QED
  BY <1>1, <1>2, <1>3, <1>4 DEF Reset, ClkStable

\* A segment of sd_init() that goes on with a command when the last one was good.
LEMMA InitQuiet ==
  ASSUME SdInv, NEW c, NEW l, <<c, l>> \in Calls, l # "blk_sent", Call(c, l),
         pc \in Ini \ {"width_set"}, found' \in BOOLEAN, tries' \in 0 .. OPTRIES,
         l \in Fnd => found' = hc, l \in Rca => sd_rca, l \in Sel => selected,
         UNCHANGED <<sd_rca, ccs, ready, callVars, hostVars, cardVars>>
  PROVE  SdInv'
<1>1. UNCHANGED <<INTERRUPT, pend, dat, fifo, width, blocks>>
  BY DEF hostVars, cardVars
<1>2. TypeHost'
  BY <1>1, HostKept
<1>3. ccs' \in BOOLEAN
  BY DEF SdInv, TypeInit
<1> QED
  BY <1>1, <1>2, <1>3, InitCall

LEMMA CommandsInv ==
  ASSUME SdInv, \/ Clocked400k \/ Idled \/ IfConded \/ OpConded \/ Cided \/ Clocked25M
                \/ ScrStatus
  PROVE  SdInv'
<1> USE DEF Ini, Fnd, Rca, Sel
<1>1. CASE Fails /\ UNCHANGED <<hostVars, cardVars>>
  BY <1>1, FailsInv DEF hostVars
<1> DEFINE Quiet == UNCHANGED <<sd_rca, ccs, ready, callVars, hostVars, cardVars>>
<1>2. found \in BOOLEAN /\ tries \in 0 .. OPTRIES
  BY DEF SdInv, TypeInit
<1>3. CASE ~(Fails /\ UNCHANGED <<hostVars, cardVars>>) /\ Clocked400k
  <2>1. pc = "clocked400k" /\ Call("GO_IDLE", "idled") /\ Quiet /\ UNCHANGED <<found, tries>>
    BY <1>3 DEF Clocked400k, After, initVars
  <2> QED
    BY <1>2, <2>1, InitQuiet DEF Calls
<1>4. CASE ~(Fails /\ UNCHANGED <<hostVars, cardVars>>) /\ Idled
  <2>1. pc = "idled" /\ Call("SEND_IF_COND", "if_conded") /\ Quiet /\ UNCHANGED <<found, tries>>
    BY <1>4 DEF Idled, After, initVars
  <2> QED
    BY <1>2, <2>1, InitQuiet DEF Calls
<1>5. CASE ~(Fails /\ UNCHANGED <<hostVars, cardVars>>) /\ IfConded
  <2>1. pc = "if_conded" /\ Call("SEND_OP_COND", "op_conded") /\ Quiet /\ found' = found
        /\ tries' = OPTRIES - 1
    BY <1>5 DEF IfConded
  <2>2. tries' \in 0 .. OPTRIES
    BY <2>1, SdhciAssumption
  <2> QED
    BY <1>2, <2>1, <2>2, InitQuiet DEF Calls
<1>6. CASE ~(Fails /\ UNCHANGED <<hostVars, cardVars>>) /\ OpConded
  <2>1. CASE /\ Call("SEND_OP_COND", "op_conded") /\ Quiet /\ found' = found
             /\ tries > 0 /\ tries' = tries - 1
    <3>1. tries' \in 0 .. OPTRIES /\ pc = "op_conded"
      BY <1>2, <1>6, <2>1, SdhciAssumption DEF OpConded
    <3> QED
      BY <1>2, <2>1, <3>1, InitQuiet DEF Calls
  <2>2. CASE /\ Call("ALL_SEND_CID", "cided") /\ Quiet /\ found' = ("CCS" \in rsp)
             /\ "VOLTAGE" \in rsp /\ tries' = tries
    <3>1. pc = "op_conded"
      BY <1>6 DEF OpConded
    <3>2. ("CCS" \in rsp) = hc
      <4>1. "CCS" \in rsp <=> hc
        BY <2>2, <3>1 DEF SdInv, CmdInv
      <4> QED
        BY <4>1, Zenon DEF SdInv, TypeInit
    <3>3. found' = hc /\ found' \in BOOLEAN
      BY <2>2, <3>2 DEF SdInv, TypeInit
    <3> QED
      BY <1>2, <2>2, <3>1, <3>3, InitQuiet DEF Calls
  <2> QED
    BY <1>6, <2>1, <2>2 DEF OpConded
<1>7. CASE Cided
  <2>1. pc = "cided" /\ Call("SEND_REL_ADDR", "addressed") /\ Quiet /\ UNCHANGED <<found, tries>>
    BY <1>7 DEF Cided, initVars
  <2>2. found' = hc
    BY <2>1 DEF SdInv, InitInv, Stage, InCmd, InClk
  <2> QED
    BY <1>2, <2>1, <2>2, InitQuiet DEF Calls
<1>8. CASE Clocked25M
  <2>1. pc = "clocked25M" /\ Call("CARD_SELECT", "card_selected") /\ Quiet
        /\ UNCHANGED <<found, tries>>
    BY <1>8 DEF Clocked25M, initVars
  <2>2. found' = hc /\ sd_rca
    BY <2>1 DEF SdInv, InitInv, Stage, InCmd, InClk
  <2> QED
    BY <1>2, <2>1, <2>2, InitQuiet DEF Calls
<1>9. CASE ~(Fails /\ UNCHANGED <<hostVars, cardVars>>) /\ ScrStatus
  <2>1. pc = "scr_status" /\ Call("SEND_SCR", "scr_sent") /\ Quiet /\ UNCHANGED <<found, tries>>
    BY <1>9 DEF ScrStatus, initVars, Over
  <2>2. found' = hc /\ sd_rca /\ selected
    BY <2>1 DEF SdInv, InitInv, Stage, InCmd, InClk
  <2> QED
    BY <1>2, <2>1, <2>2, InitQuiet DEF Calls
<1> QED
  BY <1>1, <1>3, <1>4, <1>5, <1>6, <1>7, <1>8, <1>9

LEMMA AddressedInv == ASSUME SdInv, Addressed PROVE SdInv'
<1>1. pc = "addressed" /\ sd_rca' = ("RCA" \in rsp) /\ UNCHANGED <<ccs, ready, hostVars, cardVars>>
  BY DEF Addressed
<1>2. sd_rca' \in BOOLEAN
  BY <1>1
<1>3. Stage = "addressed" /\ ~InCmd /\ Stage \in Fnd /\ Stage \in Ini /\ Stage \notin Blk
  BY <1>1 DEF Stage, InCmd, InClk, Fnd, Ini, Rca, Sel, Blk
<1>4. found = hc /\ ~ready /\ req = NULL
  BY <1>3 DEF SdInv, InitInv, CtlInv, Fnd, Rca, Sel
<1>5. UNCHANGED <<INTERRUPT, width, pend, dat, fifo, blocks, hc, wide, selected>>
  BY <1>1 DEF hostVars, cardVars
<1>6. TypeHost'
  BY <1>5, HostKept
<1>7. CASE sd_err # "OK"
  <2> USE DEF SdInv
  <2>1. Return /\ UNCHANGED <<mem, filled, acked>>
    BY <1>7 DEF Addressed
  <2>2. TypeCtl' /\ CtlInv' /\ Stage' = "idle" /\ pc' = "idle"
        /\ found' \in BOOLEAN /\ tries' \in 0 .. OPTRIES
    BY <2>1, ReturnCtl
  <2>3. TypeInit' /\ TypeCall'
    BY <1>1, <1>2, <1>5, <2>1, <2>2 DEF TypeInit, TypeCall
  <2>4. CmdInv'
    BY <2>2 DEF CmdInv
  <2>5. InitInv'
    BY <1>1, <1>4, <1>5, <2>2 DEF InitInv, Ini, Fnd, Rca, Sel
  <2>6. XferInv'
    BY <1>1, <1>5, <2>1, <2>2 DEF XferInv, XWriting, Means, Blk, Ini, Fnd, Rca, Sel
  <2>7. CurInv'
    BY <2>2 DEF CurInv, Waiting, Blk
  <2> QED
    BY <1>6, <2>2, <2>3, <2>4, <2>5, <2>6, <2>7
<1>8. CASE sd_err = "OK"
  <2>1. Clk("clocked25M") /\ UNCHANGED <<found, tries, callVars>>
    BY <1>8 DEF Addressed
  <2>2. pc' = "clk" /\ cnt' \in {0, POLLS} /\ ret' = "clocked25M" /\ ret' \in Segments
        /\ UNCHANGED <<inner, sd_err>>
    BY <2>1 DEF Clk, Goto, Segments
  <2>3. Stage' = "clocked25M" /\ Stage' \in Ini /\ Stage' \notin Sel
    BY <2>2 DEF Stage, InCmd, InClk, Ini, Fnd, Rca, Sel
  <2>4. sd_rca'
    BY <1>1, <1>8 DEF SdInv, CmdInv
  <2> QED
    BY <1>1, <1>2, <1>3, <1>4, <1>5, <1>6, <2>1, <2>2, <2>3, <2>4, InitMove
<1> QED
  BY <1>7, <1>8

LEMMA ScrInv ==
  ASSUME SdInv, CardSelected \/ ScrSent \/ ScrInt \/ ScrData \/ WidthSet
  PROVE  SdInv'
<1> USE DEF Ini, Fnd, Rca, Sel
<1>1. CASE Fails /\ INTERRUPT' \subseteq INTERRUPT
           /\ UNCHANGED <<width, pend, dat, fifo, cardVars>>
  BY <1>1, FailsInv
<1>2. CASE ~Fails /\ CardSelected
  <2>1. /\ pc = "card_selected" /\ sd_err = "OK" /\ Goto("scr_status")
        /\ UNCHANGED <<ret, inner, sd_err, initVars, callVars, hostVars, cardVars>>
    BY <1>2 DEF CardSelected
  <2>2. Stage = "card_selected" /\ ~InCmd /\ Stage' = "scr_status"
    BY <2>1 DEF Goto, Stage, InCmd, InClk
  <2>3. selected /\ found = hc /\ sd_rca'
    BY <2>1, <2>2 DEF SdInv, CmdInv, InitInv, initVars
  <2>4. TypeHost' /\ sd_rca' \in BOOLEAN /\ ret' \in Segments \cup {NULL}
    BY <2>1, HostKept DEF hostVars, cardVars, initVars, SdInv, TypeInit, TypeCtl
  <2>5. pc' = "scr_status" /\ cnt' \in {0, POLLS}
        /\ UNCHANGED <<inner, sd_err, ccs, found, tries, ready, callVars, width, pend, dat,
                       fifo, cardVars>>
    BY <2>1 DEF Goto, initVars, hostVars
  <2> QED
    BY <2>1, <2>2, <2>3, <2>4, <2>5, InitMove
<1>3. CASE ~Fails /\ ScrSent
  <2>1. /\ pc = "scr_sent" /\ Goto("scr_int")
        /\ UNCHANGED <<ret, inner, sd_err, initVars, callVars, hostVars, cardVars>>
    BY <1>3 DEF ScrSent
  <2>2. Stage = "scr_sent" /\ ~InCmd /\ Stage' = "scr_int"
    BY <2>1 DEF Goto, Stage, InCmd, InClk
  <2>3. selected /\ found = hc /\ sd_rca'
    BY <2>1, <2>2 DEF SdInv, InitInv, initVars
  <2>4. TypeHost' /\ sd_rca' \in BOOLEAN /\ ret' \in Segments \cup {NULL}
    BY <2>1, HostKept DEF hostVars, cardVars, initVars, SdInv, TypeInit, TypeCtl
  <2>5. pc' = "scr_int" /\ cnt' \in {0, POLLS}
        /\ UNCHANGED <<inner, sd_err, ccs, found, tries, ready, callVars, width, pend, dat,
                       fifo, cardVars>>
    BY <2>1 DEF Goto, initVars, hostVars
  <2> QED
    BY <2>1, <2>2, <2>3, <2>4, <2>5, InitMove
<1>4. CASE ~Fails /\ ScrInt
  <2>1. /\ pc = "scr_int" /\ Stay("scr_data") /\ IntClear("READ_RDY")
        /\ UNCHANGED <<ret, inner, sd_err, initVars, callVars, width, pend, dat, fifo, cardVars>>
    BY <1>4 DEF ScrInt, Over
  <2>2. Stage = "scr_int" /\ ~InCmd /\ Stage' = "scr_data"
    BY <2>1 DEF Stay, Stage, InCmd, InClk
  <2>3. selected /\ found = hc /\ sd_rca'
    BY <2>1, <2>2 DEF SdInv, InitInv, initVars
  <2>4. INTERRUPT' \subseteq INTERRUPT
    BY <2>1 DEF IntClear
  <2>5. TypeHost' /\ sd_rca' \in BOOLEAN /\ ret' \in Segments \cup {NULL}
    BY <2>1, <2>4, HostKept DEF cardVars, initVars, SdInv, TypeInit, TypeCtl
  <2>6. pc' = "scr_data" /\ cnt' \in {0, POLLS}
        /\ UNCHANGED <<inner, sd_err, ccs, found, tries, ready, callVars, width, pend, dat,
                       fifo, cardVars>>
    BY <2>1 DEF Stay, initVars
  <2> QED
    BY <2>1, <2>2, <2>3, <2>5, <2>6, InitMove
<1>5. CASE ScrData
  <2>1. pc = "scr_data" /\ dat' = [dat EXCEPT !.ph = "drained"]
        /\ UNCHANGED <<INTERRUPT, width, pend, cardVars>>
    BY <1>5 DEF ScrData
  <2>2. Stage = "scr_data"
    BY <2>1 DEF Stage, InCmd, InClk
  <2>3. selected /\ found = hc /\ sd_rca /\ width = wide
    BY <2>2 DEF SdInv, InitInv
  <2>4. dat'.ph = "drained" /\ TypeHost'
    BY <2>1 DEF SdInv, TypeHost, Phases, cardVars
  <2>5. CASE InitDone
    <3>1. width' = wide
      BY <2>1, <2>3
    <3>2. pc # "width_set"
      BY <2>1
    <3> QED
      BY <2>1, <2>4, <2>5, <3>1, <3>2, InitDoneInv
  <2>6. CASE Call("SET_BUS_WIDTH", "width_set") /\ ccs' \in BOOLEAN
             /\ UNCHANGED <<sd_rca, found, tries, ready, callVars>>
    <3>1. found' \in BOOLEAN /\ tries' \in 0 .. OPTRIES /\ found' = hc
      BY <2>3, <2>6 DEF SdInv, TypeInit
    <3> QED
      BY <2>1, <2>3, <2>4, <2>6, <3>1, InitCall DEF Calls
  <2> QED
    BY <1>5, <2>5, <2>6 DEF ScrData
<1>6. CASE WidthSet /\ sd_err = "OK"
  <2>1. pc = "width_set" /\ sd_err = "OK" /\ width' = 4 /\ InitDone
        /\ UNCHANGED <<INTERRUPT, pend, dat, fifo, cardVars>>
    BY <1>6 DEF WidthSet
  <2>2. wide = 4 /\ pend = NULL
    BY <2>1 DEF SdInv, CmdInv
  <2>3. TypeHost'
    BY <2>1, HostKept DEF cardVars
  <2> QED
    BY <2>1, <2>2, <2>3, InitDoneInv
<1>7. CASE WidthSet /\ sd_err # "OK"
  BY <1>1, <1>7 DEF WidthSet
<1>8. CASE Fails /\ (CardSelected \/ ScrSent \/ ScrInt)
  <2>1. INTERRUPT' \subseteq INTERRUPT /\ UNCHANGED <<width, pend, dat, fifo, cardVars>>
    BY <1>8 DEF CardSelected, ScrSent, ScrInt, IntClear, hostVars
  <2> QED
    BY <1>1, <1>8, <2>1
<1> QED
  BY <1>2, <1>3, <1>4, <1>5, <1>6, <1>7, <1>8
-----------------------------------------------------------------------------
(* sd_cmd() and the waits                                                   *)

LEMMA PollInv == ASSUME SdInv, Poll PROVE SdInv'
<1>1. /\ cnt >= 0 /\ cnt' = cnt - 1
      /\ UNCHANGED <<pc, ret, code, inner, rsp, sd_err, initVars, callVars, hostVars, cardVars>>
  BY DEF Poll
<1>2. TypeCtl'
  <2>1. cnt' \in -1 .. POLLS
    BY <1>1, SdhciAssumption DEF SdInv, TypeCtl
  <2> QED
    BY <1>1, <2>1, Zenon DEF SdInv, TypeCtl
<1>3. TypeInit' /\ TypeCall' /\ TypeHost'
  BY <1>1 DEF SdInv, TypeInit, TypeCall, TypeHost, initVars, callVars, hostVars, cardVars
<1>4. Stage' = Stage /\ InCmd' = InCmd /\ InClk' = InClk /\ NoErr' = NoErr /\ Cmd' = Cmd
  BY <1>1 DEF Stage, InCmd, InClk, NoErr, Cmd, hostVars
<1>5. CtlInv'
  BY <1>1, <1>4 DEF SdInv, CtlInv, callVars
<1>6. CmdInv'
  BY <1>1, <1>4 DEF SdInv, CmdInv, Answered, hostVars, cardVars
<1>7. InitInv'
  BY <1>1, <1>4 DEF SdInv, InitInv, InitAgrees, initVars, callVars, hostVars, cardVars
<1>8. XferInv'
  BY <1>1, <1>4 DEF SdInv, XferInv, XWriting, Means, initVars, callVars, hostVars, cardVars
<1>9. CurInv'
  BY <1>1, <1>4 DEF SdInv, CurInv, Waiting, Addr, Card, Seen, initVars, callVars, hostVars, cardVars
<1> QED
  BY <1>2, <1>3, <1>5, <1>6, <1>7, <1>8, <1>9 DEF SdInv

\* No two blocks have the same address.
LEMMA CardInjective == ASSUME SdInv, NEW l \in Lba, NEW m \in Lba, Card(l) = Card(m)
                       PROVE  l = m
<1>1. l \in Nat /\ m \in Nat
  BY SdhciAssumption
<1> QED
  BY <1>1 DEF Card

\* Driver and card mean the same block when they number blocks alike.
LEMMA AddrIsCard == ASSUME SdInv, NEW l \in Lba, ccs = hc PROVE Addr(l) = Card(l)
  BY DEF Addr, Card

\* What sd_cmd() returns to.
LEMMA Callers == ASSUME SdInv, InCmd
                 PROVE  /\ Stage = ret /\ ~InClk /\ ret \notin {"cmd_status", "cmd_int", "clk", "stable"}
                        /\ ret \in Segments /\ code \in Commands
                        /\ <<code, ret>> \in Calls /\ (inner => code \in NeedApp)
                        /\ ret \in Blk => ret = "blk_sent" /\ ~inner /\ code = req.op
                                          /\ req \in Requests /\ req.l \in Lba
                        /\ ret \notin Blk => ret \in Ini /\ code \notin {"READ_SINGLE", "WRITE_SINGLE"}
<1>1. <<code, ret>> \in Calls /\ (inner => code \in NeedApp) /\ Stage = ret /\ ~InClk
  BY DEF SdInv, CtlInv, Stage, InCmd, InClk
<1>2. /\ ret \notin {"cmd_status", "cmd_int", "clk", "stable"}
      /\ ret \in Segments /\ code \in Commands
  BY <1>1 DEF Calls, Segments, Waits, Commands
<1>3. ret \notin Blk => ret \in Ini /\ code \notin {"READ_SINGLE", "WRITE_SINGLE"}
  BY <1>1 DEF Calls, Blk, Ini, Fnd, Rca, Sel
<1>4. ret \in Blk => ret = "blk_sent" /\ ~inner
  BY <1>1 DEF Calls, Blk, NeedApp
<1>5. ret \in Blk => code = req.op /\ req \in Requests
  BY <1>1, <1>4 DEF SdInv, CtlInv
<1> QED
  BY <1>1, <1>2, <1>3, <1>4, <1>5 DEF Requests

LEMMA CmdReturnInv ==
  ASSUME SdInv, InCmd, NEW r, NEW e \in {"OK", "TIMEOUT", "ERROR", "CARD"}, CmdReturn(r, e),
         INTERRUPT' \subseteq INTERRUPT,
         UNCHANGED <<initVars, callVars, width, pend, dat, fifo, cardVars>>,
         ~inner /\ ret = "op_conded" /\ "VOLTAGE" \in r => ("CCS" \in r <=> hc),
         ~inner /\ e = "OK" /\ ret = "width_set" => wide = 4 /\ pend = NULL,
         ~inner /\ e = "OK" /\ ret = "addressed" => "RCA" \in r,
         ~inner /\ e = "OK" /\ ret = "card_selected" => selected,
         ~inner /\ e = "OK" /\ ret = "blk_sent" => Waiting
  PROVE  SdInv'
<1> USE DEF SdInv
<1>1. UNCHANGED <<sd_rca, ccs, found, tries, ready, req, mem, filled, acked, blocks, hc, wide,
                  selected>>
  BY DEF initVars, callVars, cardVars
<1>2. TypeInit' /\ TypeCall' /\ TypeHost'
  BY <1>1 DEF TypeInit, TypeCall, TypeHost
<1>3. cnt' \in -1 .. POLLS /\ inner' \in BOOLEAN /\ UNCHANGED <<ret, code>>
  <2>1. cnt' = 0 \/ cnt' = POLLS
    BY DEF CmdReturn, Goto, Stay
  <2>2. cnt' \in -1 .. POLLS
    BY <2>1, SdhciAssumption
  <2>3. inner' = inner \/ inner' = FALSE
    BY DEF CmdReturn
  <2>4. inner' \in BOOLEAN
    BY <2>3, Zenon DEF TypeCtl
  <2> QED
    BY <2>2, <2>4 DEF CmdReturn
<1>4. \/ pc' = ret /\ ~inner /\ sd_err' = e /\ rsp' = r
      \/ pc' = ret /\ inner /\ sd_err' = "ERROR" /\ rsp' = {}
      \/ pc' = "cmd_status" /\ inner /\ ~inner' /\ sd_err' = e
  <2>1. CASE ~inner /\ rsp' = r /\ sd_err' = e /\ Stay(ret)
    BY <2>1 DEF Stay
  <2>2. CASE inner /\ rsp' = {} /\ sd_err' = "ERROR" /\ Stay(ret)
    BY <2>2 DEF Stay
  <2>3. CASE inner /\ inner' = FALSE /\ sd_err' = e /\ Goto("cmd_status")
    BY <2>3, Zenon DEF Goto
  <2> QED
    BY <2>1, <2>2, <2>3 DEF CmdReturn
<1>5. TypeCtl'
  <2>1. pc' \in Segments /\ ret' \in Segments
    BY <1>3, <1>4, Callers DEF Segments, Waits
  <2> QED
    BY <1>3, <1>4, <2>1 DEF TypeCtl
<1>6. Stage' = Stage /\ Stage = ret
  BY <1>3, <1>4, Callers DEF Stage, InCmd, InClk
<1>7. ~InClk'
  BY <1>4, Callers DEF InClk
<1>8. pc' # "blk_done" /\ pc' # "cmd_int"
  BY <1>4, Callers DEF Blk
<1>9. CtlInv'
  <2>1. InCmd' => ~inner'
    BY <1>4, Callers DEF InCmd
  <2>2. (InCmd => <<code, ret>> \in Calls /\ (inner => code \in NeedApp))'
    BY <1>3, <2>1, Callers
  <2>3. (Stage \in Blk => req \in Requests)' /\ (Stage \notin Blk => req = NULL)'
    BY <1>1, <1>6 DEF CtlInv
  <2>4. (InCmd /\ ret = "blk_sent" => code = req.op)'
    BY <1>1, <1>3 DEF CtlInv
  <2> QED
    BY <1>7, <1>8, <2>2, <2>3, <2>4 DEF CtlInv
<1>10. CmdInv'
  BY <1>1, <1>4, <1>8 DEF CmdInv
<1>11. InitInv'
  <2>1. ret = "width_set" /\ pc' = "cmd_status" => pc = "cmd_status" \/ (pc = "cmd_int" /\ inner)
    BY <1>4 DEF InCmd
  <2>2. ret = "width_set" /\ pc' # "cmd_status" => pc' = "width_set"
    BY <1>4
  <2> QED
    BY <1>1, <1>6, <1>8, <2>1, <2>2 DEF InitInv, InitAgrees
<1>12. XferInv'
  BY <1>1, <1>6 DEF XferInv, XWriting, Means
<1>13. (~(pc = "cmd_status" /\ code \in {"READ_SINGLE", "WRITE_SINGLE"}))'
  BY <1>3, <1>4, Callers DEF NeedApp
<1>14. Waiting' => Waiting
  BY <1>4, <1>6, <1>8, Callers DEF Waiting, Blk
<1>15. CurInv'
  BY <1>1, <1>8, <1>13, <1>14 DEF CurInv, Addr, Card, Seen
<1> QED
  BY <1>2, <1>5, <1>9, <1>10, <1>11, <1>12, <1>15

\* A command is written to the controller.
LEMMA IssueInv ==
  ASSUME SdInv, pc = "cmd_status", pend = NULL, Issue(Cmd), Goto("cmd_int"),
         UNCHANGED <<ret, code, inner, rsp, sd_err, initVars, callVars, width, fifo, cardVars>>
  PROVE  SdInv'
<1> USE DEF SdInv
<1>1. UNCHANGED <<sd_rca, ccs, found, tries, ready, req, mem, filled, acked, blocks, hc, wide,
                  selected>>
  BY DEF initVars, callVars, cardVars
<1>2. pc' = "cmd_int" /\ INTERRUPT' = {} /\ pend' = Cmd /\ Cmd' = Cmd
      /\ cnt' = POLLS /\ InCmd /\ Stage' = Stage /\ InCmd' /\ ~InClk'
  BY DEF Goto, Issue, Cmd, InCmd, InClk, Stage
<1>3. TypeCtl'
  <2>1. cnt' \in -1 .. POLLS
    BY <1>2, SdhciAssumption
  <2> QED
    BY <1>2, <2>1 DEF TypeCtl, Segments, Waits
<1>4. TypeInit' /\ TypeCall'
  BY <1>1 DEF TypeInit, TypeCall
<1>5. CtlInv'
  BY <1>1, <1>2 DEF CtlInv
<1>6. Cmd \in Commands /\ (Cmd = code \/ Cmd = "APP_CMD")
  BY <1>2, Callers DEF Cmd, Commands
<1>7. dat.ph # "cmd"
  BY SdhciAssumption DEF XferInv, Data, Reads
<1>8. \/ dat' = dat
      \/ dat = NoData /\ Cmd \in Data /\ Cmd = code /\ dat' = [ph |-> "cmd", at |-> Target]
  BY <1>6 DEF Issue, Data, Reads
<1>9. Cmd \in {"READ_SINGLE", "WRITE_SINGLE"}
        => Stage \in Blk /\ Cmd = code /\ code = req.op /\ req.l \in Lba
  BY <1>2, <1>6, Callers
<1>10. Cmd \in {"READ_SINGLE", "WRITE_SINGLE"} /\ Cmd = code => Target = Addr(req.l)
  BY DEF Target, Addr
<1>11. Cmd \in Data /\ Cmd = code => Target \in Nat
  <2>1. CASE Cmd = "SEND_SCR"
    BY <2>1 DEF Target
  <2>2. CASE Cmd \in {"READ_SINGLE", "WRITE_SINGLE"}
    <3>1. PICK m \in Lba : m = req.l
      BY <1>9, <2>2
    <3>2. m \in Nat /\ m * 512 \in Nat
      BY SdhciAssumption
    <3> QED
      BY <1>9, <1>10, <2>2, <3>1, <3>2 DEF Addr
  <2> QED
    BY <2>1, <2>2 DEF Data, Reads
<1>12. TypeHost'
  <2>1. dat' \in [ph : Phases, at : Nat \cup {NULL}]
    BY <1>8, <1>11 DEF TypeHost, Phases
  <2> QED
    BY <1>1, <1>2, <1>6, <2>1 DEF TypeHost
<1>13. CmdInv'
  BY <1>2 DEF CmdInv
<1>14. InitInv'
  <2>1. Cmd = "SET_BUS_WIDTH" => Stage = "width_set" /\ ~inner
    BY <1>2, <1>6, Callers DEF Calls, Cmd, NeedApp
  <2>2. Cmd = "SET_BUS_WIDTH" => Stage \notin Blk \cup {"idle"}
    BY <2>1 DEF Blk
  <2> QED
    BY <1>1, <1>2, <2>1, <2>2 DEF InitInv, InitAgrees
<1>15. XferInv'
  <2>1. (dat.ph = "none" => dat = NoData)'
    BY <1>8 DEF XferInv, NoData
  <2>2. (dat.ph = "cmd" => pend \in Data)'
    BY <1>2, <1>7, <1>8
  <2>3. (dat.ph \in {"full", "wbusy"} => fifo # NULL)'
    BY <1>8 DEF XferInv
  <2>4. CASE dat' = dat
    <3>1. XWriting' => XWriting
      BY <1>7, <2>4 DEF XWriting
    <3> QED
      BY <1>1, <1>2, <2>1, <2>2, <2>3, <2>4, <3>1 DEF XferInv, Means
  <2>5. CASE dat' = [ph |-> "cmd", at |-> Target] /\ Cmd = code /\ Cmd \in Data
    <3>1. XWriting' => Cmd = "WRITE_SINGLE"
      BY <1>2, <2>5 DEF XWriting
    <3>2. ASSUME Cmd = "WRITE_SINGLE", ccs = hc, NEW l \in Lba, Means(l)'
          PROVE  acked'[l] = NULL
      <4>1. dat'.at = Addr(req.l) /\ req.l \in Lba /\ Stage \in Blk /\ req.op = "WRITE_SINGLE"
        BY <1>9, <1>10, <2>5, <3>2
      <4>3. l = req.l
        <5>1. PICK m \in Lba : m = req.l
          BY <4>1
        <5>2. Addr(m) = Card(m) /\ dat'.at = Card(l)
          BY <1>1, <3>2, AddrIsCard DEF Means, Card
        <5> QED
          BY <4>1, <5>1, <5>2, CardInjective
      <4> QED
        BY <1>1, <4>1, <4>3 DEF XferInv
    <3>3. Stage \in Ini => ~XWriting'
      BY <1>9, <3>1 DEF Ini, Fnd, Rca, Sel, Blk
    <3> QED
      BY <1>1, <1>2, <2>1, <2>2, <2>3, <3>1, <3>2, <3>3 DEF XferInv
  <2> QED
    BY <1>8, <2>4, <2>5
<1>16. CurInv'
  <2>1. ASSUME Stage \in Blk
        PROVE  code = req.op /\ Cmd = code /\ dat = NoData /\ req.op \in {"READ_SINGLE", "WRITE_SINGLE"}
    BY <1>2, <2>1, Callers DEF Cmd, Requests, CurInv
  <2>2. ASSUME Stage \in Blk
        PROVE  dat' = [ph |-> "cmd", at |-> Addr(req.l)]
    BY <1>10, <2>1, <2>2 DEF Issue, Data, Reads
  <2>3. Addr(req.l)' = Addr(req.l)
    BY <1>1 DEF Addr
  <2> QED
    BY <1>1, <1>2, <2>1, <2>2, <2>3 DEF CurInv, Waiting
<1> QED
  BY <1>3, <1>4, <1>5, <1>12, <1>13, <1>14, <1>15, <1>16

LEMMA CmdInvs == ASSUME SdInv, CmdStatus \/ CmdInt PROVE SdInv'
<1>1. CASE CmdStatus /\ StatusBad
  <2>1. pc = "cmd_status" /\ CmdReturn({}, "TIMEOUT") /\ InCmd
        /\ UNCHANGED <<INTERRUPT, pend, dat, initVars, callVars, width, fifo, cardVars>>
    BY <1>1 DEF CmdStatus, Over, InCmd
  <2> QED
    BY <2>1, CmdReturnInv
<1>2. CASE CmdStatus /\ ~StatusBad
  <2>1. /\ Over("cmd_status") /\ Issue(Cmd) /\ Goto("cmd_int")
        /\ UNCHANGED <<ret, code, inner, rsp, sd_err, initVars, callVars, width, fifo, cardVars>>
    BY <1>2 DEF CmdStatus, Cmd
  <2>2. pc = "cmd_status" /\ pend = NULL
    BY <1>2, <2>1, StatusGood DEF Over, SdInv
  <2> QED
    BY <2>1, <2>2, IssueInv
<1>3. CASE CmdInt
  <2>1. /\ pc = "cmd_int" /\ InCmd /\ Over("cmd_int")
        /\ UNCHANGED <<initVars, callVars, width, pend, dat, fifo, cardVars>>
        /\ INTERRUPT' \subseteq INTERRUPT
    BY <1>3 DEF CmdInt, Over, InCmd, IntClear
  <2>2. CASE IntResult # "OK"
    <3>1. PICK e \in {"TIMEOUT", "ERROR"} : e = IntResult
      BY <2>2 DEF IntResult
    <3>2. CmdReturn({}, e)
      BY <1>3, <2>2, <3>1 DEF CmdInt, CmdReturn
    <3> QED
      BY <2>1, <3>2, CmdReturnInv
  <2>3. CASE IntResult = "OK"
    <3>1. NoErr /\ "CMD_DONE" \in INTERRUPT
      BY <2>1, <2>3, IntGood DEF SdInv
    <3>2. pend = NULL /\ Answered
      BY <2>1, <3>1 DEF SdInv, CmdInv
    <3>3. PICK e \in {"OK", "TIMEOUT", "ERROR", "CARD"} : e = Errno
      BY DEF Errno, SdInv, TypeCtl
    <3>11. PICK r : r = Result
      OBVIOUS
    <3>4. CmdReturn(r, e)
      BY <1>3, <2>3, <3>3, <3>11 DEF CmdInt, CmdReturn
    <3>5. <<code, ret>> \in Calls
      BY <2>1, Callers
    <3>6. ~inner => Cmd = code
      BY DEF Cmd
    <3>7. ~inner /\ ret = "op_conded" /\ "VOLTAGE" \in r => ("CCS" \in r <=> hc)
      BY <3>2, <3>5, <3>6, <3>11 DEF Answered, Calls, Result
    <3>8. ~inner /\ ret = "addressed" => "RCA" \in r
      BY <3>2, <3>5, <3>6, <3>11 DEF Answered, Calls, Result
    <3>9. (~inner /\ ret = "width_set" => wide = 4) /\ (~inner /\ ret = "card_selected" => selected)
      BY <3>2, <3>5, <3>6 DEF Answered, Calls
    <3>10. ret = "blk_sent" => Waiting
      BY <2>1, <3>1, Callers DEF Waiting, Blk
    <3> QED
      BY <2>1, <3>2, <3>4, <3>7, <3>8, <3>9, <3>10, CmdReturnInv
  <2> QED
    BY <2>2, <2>3
<1> QED
  BY <1>1, <1>2, <1>3
-----------------------------------------------------------------------------
(* sd_readblock() and sd_writeblock()                                       *)

\* A read or a write returns a success.
LEMMA SuccessInv ==
  ASSUME SdInv, Return, TypeCall', TypeHost', INTERRUPT' \subseteq INTERRUPT,
         UNCHANGED <<sd_rca, ccs, ready, width, pend, cardVars>>,
         \A l \in Lba : acked'[l] = acked[l] \/ l = req.l,
         Stage \in Blk, dat.ph \in {"none", "full"},
         (dat' = dat /\ fifo' = fifo) \/ dat'.ph = "drained",
         acked' = acked \/ (ccs = hc => blocks[req.l] = acked'[req.l])
  PROVE  SdInv'
<1> USE DEF SdInv
<1>1. TypeCtl' /\ CtlInv' /\ Stage' = "idle" /\ pc' = "idle"
      /\ found' \in BOOLEAN /\ tries' \in 0 .. OPTRIES
  BY ReturnCtl
<1>2. Stage' \notin Ini \cup Blk
  BY <1>1 DEF Ini, Fnd, Rca, Sel, Blk
<1>3. UNCHANGED <<blocks, hc, wide, selected>>
  BY DEF cardVars
<1>4. TypeInit'
  BY <1>1, <1>3 DEF TypeInit
<1>5. CmdInv' /\ CurInv'
  BY <1>1, <1>2 DEF CmdInv, CurInv, Waiting
<1>6. InitInv'
  BY <1>1, <1>2, <1>3 DEF InitInv, InitAgrees, Ini, Fnd, Rca
<1>7. ~XWriting'
  BY DEF XWriting
<1>9. ccs = hc => \A l \in Lba : acked'[l] # NULL => blocks[l] = acked'[l]
  BY DEF XferInv
<1>10. XferInv'
  BY <1>2, <1>3, <1>7, <1>9 DEF XferInv
<1> QED
  BY <1>1, <1>4, <1>5, <1>6, <1>10

LEMMA BlkCtl == ASSUME SdInv, pc \in Blk
                PROVE  /\ Stage = pc /\ ~InCmd /\ ~InClk
                       /\ req \in Requests /\ req.l \in Lba /\ req.b \in Buf
                       /\ req.op \in {"READ_SINGLE", "WRITE_SINGLE"}
<1>1. Stage = pc /\ ~InCmd /\ ~InClk
  BY DEF Stage, InCmd, InClk, Blk
<1>2. req \in Requests
  BY <1>1 DEF SdInv, CtlInv
<1> QED
  BY <1>1, <1>2 DEF Requests

LEMMA BlkStatusInv == ASSUME SdInv, BlkStatus PROVE SdInv'
<1>1. pc = "blk_status" /\ UNCHANGED <<hostVars, cardVars>>
  BY DEF BlkStatus, Over
<1>2. CASE StatusBad
  BY <1>1, <1>2, FailsInv DEF BlkStatus, hostVars
<1>3. CASE ~StatusBad
  <2> USE DEF SdInv
  <2>1. Call(req.op, "blk_sent") /\ UNCHANGED <<initVars, callVars>> /\ dat.ph = "none"
    BY <1>3, StatusGood DEF BlkStatus
  <2>2. UNCHANGED <<sd_rca, ccs, found, tries, ready, req, mem, filled, acked, INTERRUPT, width,
                    pend, dat, fifo, blocks, hc, wide, selected>>
    BY <1>1, <2>1 DEF initVars, callVars, hostVars, cardVars
  <2>3. Stage = "blk_status" /\ req \in Requests /\ <<req.op, "blk_sent">> \in Calls
    BY <1>1, BlkCtl DEF Blk, Calls
  <2>4. PICK c : c = req.op
    OBVIOUS
  <2>5. Call(c, "blk_sent") /\ <<c, "blk_sent">> \in Calls /\ req' \in Requests /\ c = req'.op
    BY <2>1, <2>2, <2>3, <2>4
  <2>6. TypeCtl' /\ CtlInv' /\ Stage' = "blk_sent" /\ pc' = "cmd_status"
    BY <2>5, CallCtl
  <2>7. TypeInit' /\ TypeCall' /\ TypeHost'
    BY <2>2 DEF TypeInit, TypeCall, TypeHost
  <2>8. CmdInv'
    BY <2>6 DEF CmdInv
  <2>9. Stage \in Blk /\ Stage' \in Blk /\ Stage' \notin Ini
    BY <2>3, <2>6 DEF Blk, Ini, Fnd, Rca, Sel
  <2>10. InitInv'
    BY <2>2, <2>9 DEF InitInv, InitAgrees, Ini, Fnd, Rca
  <2>11. XferInv'
    BY <2>2, <2>9 DEF XferInv, XWriting, Means
  <2>12. CurInv'
    BY <2>1, <2>2, <2>6 DEF CurInv, Waiting, XferInv
  <2> QED
    BY <2>6, <2>7, <2>8, <2>10, <2>11, <2>12
<1> QED
  BY <1>2, <1>3

LEMMA BlkSentInv == ASSUME SdInv, BlkSent PROVE SdInv'
<1>1. pc = "blk_sent" /\ UNCHANGED <<hostVars, cardVars>>
  BY DEF BlkSent
<1>2. CASE Fails
  BY <1>1, <1>2, FailsInv DEF hostVars
<1>3. CASE ~Fails
  <2> USE DEF SdInv
  <2>1. Goto("blk_int") /\ sd_err = "OK"
        /\ UNCHANGED <<ret, code, inner, rsp, sd_err, initVars, callVars>>
    BY <1>3 DEF BlkSent
  <2>2. UNCHANGED <<sd_rca, ccs, found, tries, ready, req, mem, filled, acked, INTERRUPT, width,
                    pend, dat, fifo, blocks, hc, wide, selected>>
    BY <1>1, <2>1 DEF initVars, callVars, hostVars, cardVars
  <2>3. Stage = "blk_sent" /\ req \in Requests /\ pc' = "blk_int" /\ Stage' = "blk_int"
        /\ ~InCmd' /\ ~InClk'
    BY <1>1, <2>1, BlkCtl DEF Blk, Goto, Stage, InCmd, InClk
  <2>4. TypeCtl'
    <3>1. cnt' \in -1 .. POLLS
      BY <2>1, SdhciAssumption DEF Goto
    <3> QED
      BY <2>1, <2>3, <3>1 DEF TypeCtl, Segments, Waits
  <2>5. TypeInit' /\ TypeCall' /\ TypeHost'
    BY <2>2 DEF TypeInit, TypeCall, TypeHost
  <2>6. CtlInv' /\ CmdInv'
    BY <2>2, <2>3 DEF CtlInv, CmdInv, Blk
  <2>7. Stage \in Blk /\ Stage' \in Blk /\ Stage' \notin Ini
    BY <2>3 DEF Blk, Ini, Fnd, Rca, Sel
  <2>8. InitInv'
    BY <2>2, <2>7 DEF InitInv, InitAgrees, Ini, Fnd, Rca
  <2>9. XferInv'
    BY <2>2, <2>7 DEF XferInv, XWriting, Means
  <2>10. Waiting' => Waiting
    BY <1>1, <2>1, <2>2, <2>7 DEF Waiting, NoErr
  <2>11. CurInv'
    BY <2>2, <2>3, <2>10 DEF CurInv, Addr, Card, Seen
  <2> QED
    BY <2>4, <2>5, <2>6, <2>8, <2>9, <2>11
<1> QED
  BY <1>2, <1>3

LEMMA BlkIntInv == ASSUME SdInv, BlkInt PROVE SdInv'
<1>1. /\ pc = "blk_int" /\ Over("blk_int") /\ UNCHANGED <<width, pend, cardVars>>
      /\ INTERRUPT' \subseteq INTERRUPT
  BY DEF BlkInt, Over, IntClear
<1>2. CASE IntResult # "OK"
  BY <1>1, <1>2, FailsInv DEF BlkInt
<1>3. CASE IntResult = "OK"
  <2>1. NoErr /\ Rdy \in INTERRUPT
    BY <1>1, <1>3, IntGood DEF SdInv
  <2>2. Stage = "blk_int" /\ Stage \in Blk /\ req \in Requests /\ req.b \in Buf
    BY <1>1, BlkCtl DEF Blk
  <2>3. Waiting
    BY <1>1, <2>1, <2>2 DEF Waiting
  <2>4. UNCHANGED <<blocks, hc, wide, selected>>
    BY <1>1 DEF cardVars
  <2>5. CASE req.op = "READ_SINGLE"
    <3>1. /\ mem' = [mem EXCEPT ![req.b] = IF fifo = NULL THEN Junk ELSE fifo]
          /\ filled' = filled \cup {req.b} /\ dat' = [dat EXCEPT !.ph = "drained"]
          /\ Return /\ UNCHANGED <<sd_rca, ccs, ready, acked>>
      BY <1>3, <2>5 DEF BlkInt
    <3>2. dat.ph = "full"
      BY <2>1, <2>3, <2>5 DEF SdInv, CurInv, Rdy
    <3>3. TypeCall'
      <4>1. mem = [b \in Buf |-> mem[b]] /\ \A b \in Buf : mem[b] # NULL
        BY DEF SdInv, TypeCall
      <4>2. mem' = [b \in Buf |-> mem'[b]] /\ \A b \in Buf : mem'[b] # NULL
        BY <2>2, <3>1, <4>1, SdhciAssumption
      <4> QED
        BY <2>2, <3>1, <4>2 DEF SdInv, TypeCall
    <3>4. dat'.ph = "drained" /\ TypeHost'
      BY <1>1, <2>4, <3>1 DEF SdInv, TypeHost, Phases
    <3> QED
      BY <1>1, <2>2, <3>1, <3>2, <3>3, <3>4, SuccessInv
  <2>6. CASE req.op = "WRITE_SINGLE"
    <3> USE DEF SdInv
    <3>1. /\ fifo' = mem[req.b] /\ dat' = [dat EXCEPT !.ph = "wbusy"] /\ Goto("blk_done")
          /\ UNCHANGED <<ret, code, inner, rsp, sd_err, initVars, callVars>>
      BY <1>3, <2>6 DEF BlkInt
    <3>2. UNCHANGED <<sd_rca, ccs, found, tries, ready, req, mem, filled, acked>>
      BY <3>1 DEF initVars, callVars
    <3>3. dat.ph = "wready" /\ dat.at = Addr(req.l) /\ "DATA_DONE" \notin INTERRUPT
      BY <2>1, <2>3, <2>6 DEF CurInv, Rdy
    <3>4. dat' = [ph |-> "wbusy", at |-> dat.at] /\ TypeHost'
      BY <1>1, <2>4, <3>1 DEF TypeHost, Phases
    <3>5. pc' = "blk_done" /\ Stage' = "blk_done" /\ ~InCmd' /\ ~InClk' /\ cnt' = POLLS
      BY <3>1 DEF Goto, Stage, InCmd, InClk
    <3>6. TypeCtl'
      <4>1. cnt' \in -1 .. POLLS
        BY <3>5, SdhciAssumption
      <4> QED
        BY <3>1, <3>5, <4>1 DEF TypeCtl, Segments, Waits
    <3>7. TypeInit' /\ TypeCall'
      BY <2>4, <3>2 DEF TypeInit, TypeCall
    <3>8. CtlInv' /\ CmdInv'
      BY <2>2, <2>6, <3>2, <3>5 DEF CtlInv, CmdInv, Blk
    <3>9. Stage' \in Blk /\ Stage' \notin Ini
      BY <3>5 DEF Blk, Ini, Fnd, Rca, Sel
    <3>10. InitInv'
      BY <1>1, <2>2, <2>4, <3>2, <3>9 DEF InitInv, InitAgrees, Ini, Fnd, Rca
    <3>11. XWriting /\ fifo' # NULL
      BY <2>2, <3>1, <3>3 DEF XWriting, TypeCall
    <3>12. XferInv'
      BY <2>2, <2>4, <3>2, <3>4, <3>9, <3>11 DEF XferInv, Means
    <3>13. Addr(req.l)' = Addr(req.l)
      BY <3>2 DEF Addr
    <3>14. CurInv'
      BY <1>1, <3>1, <3>2, <3>3, <3>4, <3>5, <3>13 DEF CurInv, Waiting
    <3> QED
      BY <3>4, <3>6, <3>7, <3>8, <3>10, <3>12, <3>14
  <2> QED
    BY <2>2, <2>5, <2>6 DEF Requests
<1> QED
  BY <1>2, <1>3

LEMMA BlkDoneInv == ASSUME SdInv, BlkDone PROVE SdInv'
<1>1. /\ pc = "blk_done" /\ Over("blk_done") /\ UNCHANGED <<width, pend, dat, fifo, cardVars>>
      /\ INTERRUPT' \subseteq INTERRUPT
  BY DEF BlkDone, Over, IntClear
<1>2. CASE IntResult # "OK"
  BY <1>1, <1>2, FailsInv DEF BlkDone
<1>3. CASE IntResult = "OK"
  <2>1. NoErr /\ "DATA_DONE" \in INTERRUPT
    BY <1>1, <1>3, IntGood DEF SdInv
  <2>2. Stage = "blk_done" /\ Stage \in Blk /\ req.l \in Lba
    BY <1>1, BlkCtl DEF Blk
  <2>3. dat.ph = "none" /\ (ccs = hc => blocks[req.l] = mem[req.b])
    BY <1>1, <2>1 DEF SdInv, CurInv
  <2>4. /\ acked' = [acked EXCEPT ![req.l] = mem[req.b]]
        /\ Return /\ UNCHANGED <<sd_rca, ccs, ready, mem, filled>>
    BY <1>3 DEF BlkDone
  <2>5. acked = [l \in Lba |-> acked[l]]
    BY DEF SdInv, TypeCall
  <2>6. acked' = [l \in Lba |-> acked'[l]] /\ acked'[req.l] = mem[req.b]
        /\ \A l \in Lba : acked'[l] = acked[l] \/ l = req.l
    BY <2>2, <2>4, <2>5
  <2>7. TypeCall' /\ TypeHost'
    BY <1>1, <2>4, <2>6, HostKept DEF SdInv, TypeCall, cardVars
  <2> QED
    BY <1>1, <2>2, <2>3, <2>4, <2>6, <2>7, SuccessInv
<1> QED
  BY <1>2, <1>3

LEMMA RequestInv ==
  ASSUME SdInv, NEW op \in {"READ_SINGLE", "WRITE_SINGLE"}, NEW l \in Lba, NEW b \in Buf,
         Request(op, l, b)
  PROVE  SdInv'
<1> USE DEF SdInv
<1>1. /\ pc = "idle" /\ req' = [op |-> op, l |-> l, b |-> b] /\ Goto("blk_status")
      /\ UNCHANGED <<ret, code, inner, rsp, sd_err, sd_rca, ccs, found, tries, ready, mem,
                     INTERRUPT, width, pend, dat, fifo, blocks, hc, wide, selected>>
  BY DEF Request, initVars, hostVars, cardVars
<1>2. pc' = "blk_status" /\ Stage' = "blk_status" /\ ~InCmd' /\ ~InClk' /\ Stage = "idle"
  BY <1>1 DEF Goto, Stage, InCmd, InClk
<1>3. TypeCtl'
  <2>1. cnt' \in -1 .. POLLS
    BY <1>1, SdhciAssumption DEF Goto
  <2> QED
    BY <1>1, <1>2, <2>1 DEF TypeCtl, Segments, Waits
<1>4. /\ filled' \subseteq filled
      /\ acked' = [m \in Lba |-> acked'[m]] /\ (op = "WRITE_SINGLE" => acked'[l] = NULL)
      /\ \A m \in Lba : acked'[m] \in {acked[m], NULL}
  BY DEF Request, TypeCall
<1>5. TypeInit' /\ TypeCall' /\ TypeHost'
  BY <1>1, <1>4 DEF TypeInit, TypeCall, TypeHost
<1>6. req' \in Requests /\ req'.op = op /\ req'.l = l
  BY <1>1 DEF Requests
<1>7. CtlInv' /\ CmdInv'
  BY <1>2, <1>6 DEF CtlInv, CmdInv, Blk
<1>8. Stage' \in Blk /\ Stage' \notin Ini
  BY <1>2 DEF Blk, Ini, Fnd, Rca, Sel
<1>9. InitInv'
  BY <1>1, <1>8 DEF InitInv, InitAgrees, Ini, Fnd, Rca
<1>10. XWriting' = XWriting /\ \A m \in Lba : Means(m)' = Means(m)
  BY <1>1 DEF XWriting, Means
<1>11. XferInv'
  BY <1>1, <1>4, <1>6, <1>8, <1>10 DEF XferInv
<1>12. CurInv'
  BY <1>2 DEF CurInv, Waiting
<1> QED
  BY <1>3, <1>5, <1>7, <1>9, <1>11, <1>12
-----------------------------------------------------------------------------
(* The controller and the card                                              *)

\* A step that leaves the driver's variables alone.
LEMMA HostStep ==
  ASSUME SdInv, UNCHANGED <<ctlVars, initVars, callVars>>, hc' = hc
  PROVE  /\ TypeCtl' /\ TypeInit' /\ TypeCall' /\ CtlInv'
         /\ InCmd' = InCmd /\ InClk' = InClk /\ Stage' = Stage /\ Cmd' = Cmd
         /\ UNCHANGED <<pc, ret, code, inner, rsp, sd_err, sd_rca, ccs, found, ready, req, mem,
                        acked>>
<1>1. UNCHANGED <<pc, cnt, ret, code, inner, rsp, sd_err, sd_rca, ccs, found, tries, ready,
                  req, mem, filled, acked>>
  BY DEF ctlVars, initVars, callVars
<1>2. InCmd' = InCmd /\ InClk' = InClk /\ Stage' = Stage /\ Cmd' = Cmd
  BY <1>1 DEF InCmd, InClk, Stage, Cmd
<1>3. TypeCtl'
  BY <1>1, Zenon DEF SdInv, TypeCtl
<1>4. TypeInit' /\ TypeCall'
  BY <1>1 DEF SdInv, TypeInit, TypeCall
<1>5. CtlInv'
  BY <1>1, <1>2 DEF SdInv, CtlInv
<1> QED
  BY <1>1, <1>2, <1>3, <1>4, <1>5

LEMMA Answers == ASSUME NEW c, NEW r \in Responses(c)
                 PROVE  /\ c = "SEND_REL_ADDR" => "RCA" \in r
                        /\ c = "SEND_OP_COND" /\ "VOLTAGE" \in r => ("CCS" \in r <=> hc)
<1>1. CASE c = "SEND_REL_ADDR"
  <2>1. r \in {{"RCA"}, {"RCA", "ERR"}}
    BY <1>1, Zenon DEF Responses
  <2> QED
    BY <1>1, <2>1
<1>2. CASE c = "SEND_OP_COND"
  <2>1. r \in {{}, {"COMPLETE"},
               {"COMPLETE", "VOLTAGE"} \cup (IF hc THEN {"CCS"} ELSE {})}
    BY <1>2, Zenon DEF Responses
  <2> QED
    BY <1>2, <2>1
<1> QED
  BY <1>1, <1>2

LEMMA AnswerInv == ASSUME SdInv, Answer PROVE SdInv'
<1> USE DEF SdInv
<1>1. /\ pend # NULL /\ pend' = NULL /\ INTERRUPT' = INTERRUPT \cup {"CMD_DONE"}
      /\ wide' = (IF pend = "SET_BUS_WIDTH" THEN 4 ELSE wide)
      /\ UNCHANGED <<width, fifo, blocks, hc>> /\ RESP0' \in Responses(pend)
      /\ UNCHANGED <<ctlVars, initVars, callVars>>
  BY DEF Answer, Raise
<1>2. (selected => selected') /\ (pend = "CARD_SELECT" => selected')
  <2>1. selected' = (selected \/ pend = "CARD_SELECT")
    BY DEF Answer
  <2> QED
    BY <2>1
<1>3. \/ dat' = dat /\ dat.ph # "cmd"
      \/ dat.ph = "cmd" /\ pend = "WRITE_SINGLE" /\ dat' = [ph |-> "write", at |-> dat.at]
      \/ dat.ph = "cmd" /\ pend \in Reads /\ dat' = [ph |-> "read", at |-> dat.at]
  BY DEF Answer, XferInv, Data, TypeHost
<1>4. /\ TypeCtl' /\ TypeInit' /\ TypeCall' /\ CtlInv'
      /\ InCmd' = InCmd /\ InClk' = InClk /\ Stage' = Stage /\ Cmd' = Cmd
      /\ UNCHANGED <<pc, ret, code, inner, rsp, sd_err, sd_rca, ccs, found, ready, req, mem,
                     acked>>
  BY <1>1, HostStep
<1>5. TypeHost'
  <2>1. dat' \in [ph : Phases, at : Nat \cup {NULL}]
    BY <1>3 DEF TypeHost, Phases
  <2> QED
    BY <1>1, <2>1 DEF TypeHost
<1>6. CmdInv'
  <2>1. pc = "cmd_int" => pend = Cmd
    BY <1>1 DEF CmdInv
  <2>2. pc = "cmd_int" => Answered'
    BY <1>1, <1>2, <1>4, <2>1, Answers DEF Answered
  <2>3. pc = "width_set" => sd_err # "OK"
    BY <1>1 DEF CmdInv
  <2> QED
    BY <1>1, <1>2, <1>4, <2>2, <2>3 DEF CmdInv
<1>7. InitInv'
  BY <1>1, <1>2, <1>4, SdhciAssumption DEF InitInv, InitAgrees
<1>8. (XWriting' => XWriting) /\ \A l \in Lba : Means(l)' = Means(l)
  BY <1>1, <1>3, SdhciAssumption DEF XWriting, Means, Reads
<1>9. XferInv'
  BY <1>1, <1>3, <1>4, <1>8 DEF XferInv, NoData
<1>10. NoErr' = NoErr /\ Waiting' = Waiting
  BY <1>1, <1>4 DEF Waiting, NoErr, Errors, Timeouts
<1>12. Addr(req.l)' = Addr(req.l) /\ Seen(req.l, fifo)' = Seen(req.l, fifo')
  BY <1>1, <1>4 DEF Addr, Card, Seen
<1>13. CurInv'
  BY <1>1, <1>3, <1>4, <1>10, <1>12 DEF CurInv, NoData, Reads
<1> QED
  BY <1>4, <1>5, <1>6, <1>7, <1>9, <1>13

\* An error, of a command or of a transfer.
LEMMA ErrorInv ==
  ASSUME SdInv, NEW e \in Errors, INTERRUPT' = INTERRUPT \cup {e}, TypeHost',
         UNCHANGED <<ctlVars, initVars, callVars, RESP0, width, hc, wide, selected>>,
         pend' = pend \/ (pend # NULL /\ pend' = NULL),
         (dat' = dat /\ fifo' = fifo /\ (dat.ph = "cmd" => pend' = pend)) \/ dat' = NoData,
         \A l \in Lba : ccs = hc /\ acked[l] # NULL => blocks'[l] = blocks[l]
  PROVE  SdInv'
<1> USE DEF SdInv
<1>1. /\ TypeCtl' /\ TypeInit' /\ TypeCall' /\ CtlInv'
      /\ InCmd' = InCmd /\ InClk' = InClk /\ Stage' = Stage /\ Cmd' = Cmd
      /\ UNCHANGED <<pc, ret, code, inner, rsp, sd_err, sd_rca, ccs, found, ready, req, mem,
                     acked>>
  BY HostStep
<1>2. e # "CMD_DONE"
  BY DEF Errors, Timeouts
<1>3. CmdInv'
  <2>1. Answered' = Answered
    BY <1>1 DEF Answered
  <2> QED
    BY <1>1, <1>2, <2>1 DEF CmdInv
<1>4. InitInv'
  BY <1>1, SdhciAssumption DEF InitInv, InitAgrees
<1>5. (XWriting' => XWriting /\ dat' = dat) /\ (dat' = dat => \A l \in Lba : Means(l)' = Means(l))
  BY <1>1 DEF XWriting, Means, NoData
<1>6. XferInv'
  <2>1. (dat.ph = "none" => dat = NoData)'
    BY DEF XferInv
  <2>2. (dat.ph = "cmd" => pend \in Data)' /\ (dat.ph \in {"full", "wbusy"} => fifo # NULL)'
    BY DEF XferInv, NoData
  <2>3. (XWriting /\ ccs = hc => \A l \in Lba : Means(l) => acked[l] = NULL)'
        /\ (Stage \in Ini => ~XWriting)'
    BY <1>1, <1>5 DEF XferInv
  <2>4. (Stage \in Blk /\ req.op = "WRITE_SINGLE" => acked[req.l] = NULL)'
        /\ (ccs = hc => \A l \in Lba : acked[l] # NULL => blocks[l] = acked[l])'
    BY <1>1 DEF XferInv
  <2> QED
    BY <2>1, <2>2, <2>3, <2>4 DEF XferInv
<1>7. ~NoErr'
  BY DEF NoErr
<1>8. CurInv'
  BY <1>1, <1>7 DEF CurInv, Waiting
<1> QED
  BY <1>1, <1>3, <1>4, <1>6, <1>8

LEMMA StoreKeeps ==
  ASSUME SdInv, Store
  PROVE  \A l \in Lba : /\ blocks'[l] # NULL
                        /\ (ccs = hc /\ acked[l] # NULL => blocks'[l] = blocks[l])
                        /\ blocks'[l] = IF dat.ph = "wbusy" /\ Means(l) THEN fifo ELSE blocks[l]
<1> TAKE l \in Lba
<1>1. blocks'[l] = IF dat.ph = "wbusy" /\ Means(l) THEN fifo ELSE blocks[l]
  BY DEF Store
<1>2. dat.ph = "wbusy" => fifo # NULL /\ XWriting
  BY DEF SdInv, XferInv, XWriting
<1>3. dat.ph = "wbusy" /\ Means(l) /\ ccs = hc => acked[l] = NULL
  BY <1>2 DEF SdInv, XferInv
<1> QED
  BY <1>1, <1>2, <1>3 DEF SdInv, TypeHost

LEMMA ErrorsInv ==
  ASSUME SdInv, NEW e \in {"CMD_TIMEOUT", "DATA_TIMEOUT", "CRC"}, CmdError(e) \/ DataError(e)
  PROVE  SdInv'
<1>1. e \in Errors
  BY DEF Errors, Timeouts
<1>2. CASE CmdError(e)
  <2>1. /\ INTERRUPT' = INTERRUPT \cup {e} /\ pend # NULL /\ pend' = NULL
        /\ dat' = (IF dat.ph = "cmd" THEN NoData ELSE dat) /\ fifo' = fifo
        /\ UNCHANGED <<ctlVars, initVars, callVars, RESP0, width, blocks, hc, wide, selected>>
    BY <1>2 DEF CmdError, Raise, cardVars
  <2>2. TypeHost'
    BY <1>1, <2>1 DEF SdInv, TypeHost, NoData, Phases
  <2> QED
    BY <1>1, <2>1, <2>2, ErrorInv
<1>3. CASE DataError(e)
  <2>1. /\ INTERRUPT' = INTERRUPT \cup {e} /\ pend' = pend /\ dat' = NoData
        /\ UNCHANGED <<ctlVars, initVars, callVars, RESP0, width, hc, wide, selected>>
    BY <1>3 DEF DataError, Raise
  <2>2. \A l \in Lba : blocks'[l] # NULL /\ (ccs = hc /\ acked[l] # NULL => blocks'[l] = blocks[l])
    BY <1>3, StoreKeeps DEF DataError, SdInv, TypeHost
  <2>3. TypeHost'
    BY <1>1, <2>1, <2>2 DEF SdInv, TypeHost, NoData, Phases
  <2> QED
    BY <1>1, <2>1, <2>2, <2>3, ErrorInv
<1> QED
  BY <1>2, <1>3

LEMMA DataReadyInv == ASSUME SdInv, DataReady PROVE SdInv'
<1> USE DEF SdInv
<1>1. UNCHANGED <<ctlVars, initVars, callVars, RESP0, width, pend, blocks, hc, wide, selected>>
  BY DEF DataReady, cardVars
<1>2. /\ TypeCtl' /\ TypeInit' /\ TypeCall' /\ CtlInv'
      /\ InCmd' = InCmd /\ InClk' = InClk /\ Stage' = Stage /\ Cmd' = Cmd
      /\ UNCHANGED <<pc, ret, code, inner, rsp, sd_err, sd_rca, ccs, found, ready, req, mem,
                     acked>>
  BY <1>1, HostStep
<1>3. \/ /\ dat.ph = "read" /\ dat' = [ph |-> "full", at |-> dat.at]
         /\ INTERRUPT' = INTERRUPT \cup {"READ_RDY"}
      \/ /\ dat.ph = "write" /\ dat' = [ph |-> "wready", at |-> dat.at]
         /\ INTERRUPT' = INTERRUPT \cup {"WRITE_RDY"} /\ fifo' = fifo
  BY DEF DataReady, Raise, TypeHost
<1>4. dat.ph = "read" => \/ \E l \in Lba : Means(l) /\ fifo' = blocks[l]
                         \/ (\A l \in Lba : ~Means(l)) /\ fifo' = Junk
  BY DEF DataReady
<1>5. TypeHost'
  <2>1. dat' \in [ph : Phases, at : Nat \cup {NULL}]
    BY <1>3 DEF TypeHost, Phases
  <2> QED
    BY <1>1, <1>3, <2>1 DEF TypeHost
<1>6. CmdInv'
  <2>1. Answered' = Answered
    BY <1>1, <1>2 DEF Answered
  <2>2. "CMD_DONE" \in INTERRUPT' => "CMD_DONE" \in INTERRUPT
    BY <1>3
  <2> QED
    BY <1>1, <1>2, <2>1, <2>2 DEF CmdInv
<1>7. InitInv'
  BY <1>1, <1>2 DEF InitInv, InitAgrees
<1>8. XWriting' = XWriting /\ \A l \in Lba : Means(l)' = Means(l)
  BY <1>1, <1>3 DEF XWriting, Means
<1>9. XferInv'
  <2>1. (dat.ph \in {"full", "wbusy"} => fifo # NULL)'
    <3>1. Junk # NULL
      BY SdhciAssumption
    <3> QED
      BY <1>3, <1>4, <3>1 DEF TypeHost
  <2>2. (dat.ph = "none" => dat = NoData)' /\ (dat.ph = "cmd" => pend \in Data)'
    BY <1>3
  <2> QED
    BY <1>1, <1>2, <1>8, <2>1, <2>2 DEF XferInv
<1>10. NoErr' = NoErr /\ Waiting' = Waiting
  BY <1>2, <1>3 DEF Waiting, NoErr, Errors, Timeouts
<1>11. Addr(req.l)' = Addr(req.l) /\ Seen(req.l, fifo)' = Seen(req.l, fifo')
  BY <1>1, <1>2 DEF Addr, Card, Seen
<1>12. ASSUME Waiting, req.op = "READ_SINGLE" PROVE dat.ph = "read" /\ Seen(req.l, fifo')
  <2>1. dat.at = Addr(req.l) /\ dat.ph = "read" /\ Stage \in Blk
    BY <1>3, <1>12 DEF CurInv, Waiting
  <2>2. PICK m \in Lba : m = req.l
    BY <2>1 DEF CtlInv, Requests
  <2>3. \A l \in Lba : Means(l) <=> Card(l) = Addr(m)
    BY <2>1, <2>2 DEF Means, Card
  <2> QED
    BY <1>4, <2>1, <2>2, <2>3, CardInjective DEF Seen
<1>13. CurInv'
  <2>1. (pc = "cmd_status" /\ code \in {"READ_SINGLE", "WRITE_SINGLE"} => dat = NoData)'
    BY <1>2, <1>3 DEF CurInv, NoData
  <2>2. pc = "blk_done" => ~NoErr
    BY <1>3 DEF CurInv
  <2>3. Waiting => dat'.at = Addr(req.l) /\ "DATA_DONE" \notin INTERRUPT'
    BY <1>3 DEF CurInv
  <2>4. Waiting /\ req.op = "READ_SINGLE" => dat'.ph = "full" /\ Seen(req.l, fifo')
    BY <1>3, <1>12
  <2>5. Waiting /\ req.op = "WRITE_SINGLE" => dat'.ph = "wready"
    BY <1>3 DEF CurInv
  <2> QED
    BY <1>2, <1>10, <1>11, <2>1, <2>2, <2>3, <2>4, <2>5 DEF CurInv
<1> QED
  BY <1>2, <1>5, <1>6, <1>7, <1>9, <1>13

LEMMA DataDoneInv == ASSUME SdInv, DataDone PROVE SdInv'
<1> USE DEF SdInv
<1>1. /\ UNCHANGED <<ctlVars, initVars, callVars, RESP0, width, pend, hc, wide, selected>>
      /\ dat.ph \in {"drained", "wbusy"} /\ dat' = NoData
      /\ INTERRUPT' = INTERRUPT \cup {"DATA_DONE"} /\ Store
  BY DEF DataDone, Raise
<1>2. /\ TypeCtl' /\ TypeInit' /\ TypeCall' /\ CtlInv'
      /\ InCmd' = InCmd /\ InClk' = InClk /\ Stage' = Stage /\ Cmd' = Cmd
      /\ UNCHANGED <<pc, ret, code, inner, rsp, sd_err, sd_rca, ccs, found, ready, req, mem,
                     acked>>
  BY <1>1, HostStep
<1>3. \A l \in Lba : /\ blocks'[l] # NULL
                        /\ (ccs = hc /\ acked[l] # NULL => blocks'[l] = blocks[l])
                     /\ blocks'[l] = IF dat.ph = "wbusy" /\ Means(l) THEN fifo ELSE blocks[l]
  BY <1>1, StoreKeeps
<1>4. TypeHost'
  BY <1>1, <1>3 DEF TypeHost, NoData, Phases
<1>5. CmdInv'
  <2>1. Answered' = Answered
    BY <1>1, <1>2 DEF Answered
  <2>2. "CMD_DONE" \in INTERRUPT' => "CMD_DONE" \in INTERRUPT
    BY <1>1
  <2> QED
    BY <1>1, <1>2, <2>1, <2>2 DEF CmdInv
<1>6. InitInv'
  BY <1>1, <1>2 DEF InitInv, InitAgrees
<1>7. dat'.ph = "none" /\ ~XWriting'
  BY <1>1 DEF XWriting, NoData
<1>8. XferInv'
  BY <1>1, <1>2, <1>3, <1>7 DEF XferInv
<1>9. ~Waiting /\ NoErr' = NoErr
  <2>1. Waiting => req.op \in {"READ_SINGLE", "WRITE_SINGLE"}
    BY DEF Waiting, CtlInv, Requests
  <2> QED
    BY <1>1, <2>1 DEF CurInv, NoErr, Errors, Timeouts
<1>10. ~Waiting'
  BY <1>2, <1>9 DEF Waiting
<1>11. ASSUME pc = "blk_done", NoErr, ccs = hc PROVE blocks'[req.l] = mem[req.b]
  <2>1. dat.ph = "wbusy" /\ dat.at = Addr(req.l) /\ fifo = mem[req.b]
    BY <1>1, <1>11 DEF CurInv
  <2>2. PICK m \in Lba : m = req.l
    BY <1>11, BlkCtl DEF Blk
  <2>3. Means(m)
    BY <1>11, <2>1, <2>2, AddrIsCard DEF Means, Card
  <2> QED
    BY <1>3, <2>1, <2>2, <2>3
<1>12. CurInv'
  BY <1>1, <1>2, <1>7, <1>9, <1>10, <1>11 DEF CurInv
<1> QED
  BY <1>2, <1>4, <1>5, <1>6, <1>8, <1>12

LEMMA StutterInv ==
  ASSUME SdInv, UNCHANGED <<ctlVars, initVars, callVars, INTERRUPT, RESP0, width, pend, dat,
                            fifo, cardVars>>
  PROVE  SdInv'
<1> USE DEF SdInv
<1>1. UNCHANGED <<blocks, hc, wide, selected>>
  BY DEF cardVars
<1>2. /\ TypeCtl' /\ TypeInit' /\ TypeCall' /\ CtlInv'
      /\ InCmd' = InCmd /\ InClk' = InClk /\ Stage' = Stage /\ Cmd' = Cmd
      /\ UNCHANGED <<pc, ret, code, inner, rsp, sd_err, sd_rca, ccs, found, ready, req, mem,
                     acked>>
  BY <1>1, HostStep
<1>3. TypeHost'
  BY <1>1, HostKept
<1>4. CmdInv' /\ InitInv'
  BY <1>1, <1>2 DEF CmdInv, Answered, InitInv, InitAgrees
<1>5. XferInv'
  BY <1>1, <1>2 DEF XferInv, XWriting, Means
<1>6. CurInv'
  BY <1>1, <1>2 DEF CurInv, Waiting, NoErr, Addr, Card, Seen
<1> QED
  BY <1>2, <1>3, <1>4, <1>5, <1>6

LEMMA SdNextInv == SdInv /\ [Next]_vars => SdInv'
<1> SUFFICES ASSUME SdInv, [Next]_vars PROVE SdInv'
  OBVIOUS
<1>1. CASE Driver
  BY <1>1, PollInv, CmdInvs, BlkStatusInv, BlkSentInv, BlkIntInv, BlkDoneInv, ClockInv,
     CommandsInv, AddressedInv, ScrInv DEF Driver
<1>2. CASE Host
  <2>1. CASE Settle
    BY <2>1, StutterInv DEF Settle
  <2> QED
    BY <1>2, <2>1, AnswerInv, DataReadyInv, DataDoneInv, ErrorsInv DEF Host
<1>3. CASE \E op \in {"READ_SINGLE", "WRITE_SINGLE"}, l \in Lba, b \in Buf : Request(op, l, b)
  BY <1>3, RequestInv
<1>4. CASE UNCHANGED vars
  <2>1. UNCHANGED <<ctlVars, initVars, callVars, INTERRUPT, RESP0, width, pend, dat, fifo, cardVars>>
    BY <1>4 DEF vars, hostVars
  <2> QED
    BY <2>1, StutterInv
<1> QED
  BY <1>1, <1>2, <1>3, <1>4 DEF Next
-----------------------------------------------------------------------------
\* The inductive invariant of driver, controller and card: sd_cmd(), sd_clk(),
\* sd_init(), sd_readblock() and sd_writeblock() against every card.
THEOREM SdSpecInv == Spec => []SdInv
<1>1. SdInv /\ [Next]_vars => SdInv'
  BY SdNextInv
<1> QED
  BY SdInitInv, <1>1, PTL DEF Spec

\* The type invariant: one call at a time, and no wait counts below -1.
THEOREM SdTypeCorrect == Spec => []TypeOK
<1>1. SdInv => TypeOK
  BY SdTypes
<1> QED
  BY <1>1, SdSpecInv, PTL

\* sd_init() reports success only when driver and card agree on the address,
\* the width of the bus and the numbering of blocks, for every card, and no
\* later call changes that.
THEOREM CardAgrees == Spec => []InitAgrees
<1>1. SdInv => InitAgrees
  BY DEF SdInv, InitInv, InitAgrees
<1> QED
  BY <1>1, SdSpecInv, PTL

\* A write that sd_writeblock() has acknowledged stays on the card, whatever
\* later calls to other blocks fail at and whenever they fail.
THEOREM WritesAreStored == Spec => []WriteStored
<1>1. SdInv => WriteStored
  BY DEF SdInv, InitInv, InitAgrees, XferInv, WriteStored
<1> QED
  BY <1>1, SdSpecInv, PTL

\* Only the end of a successful read fills a buffer.
LEMMA FilledBy == ASSUME [Next]_vars, ~BlkInt PROVE filled' \subseteq filled
<1> USE DEF callVars, Fails, InitDone
<1>1. CASE Driver
  <2>1. CASE Poll \/ CmdStatus \/ CmdInt
    BY <2>1 DEF Poll, CmdStatus, CmdInt
  <2>2. CASE BlkStatus \/ BlkSent \/ BlkDone
    BY <2>2 DEF BlkStatus, BlkSent, BlkDone
  <2>3. CASE Reset \/ ClkSet \/ ClkStable
    BY <2>3 DEF Reset, ClkSet, ClkStable
  <2>4. CASE Clocked400k \/ Idled \/ IfConded \/ OpConded
    BY <2>4 DEF Clocked400k, Idled, IfConded, OpConded, After
  <2>5. CASE Cided \/ Addressed \/ Clocked25M \/ CardSelected
    BY <2>5 DEF Cided, Addressed, Clocked25M, CardSelected
  <2>6. CASE ScrStatus \/ ScrSent \/ ScrInt \/ ScrData \/ WidthSet
    BY <2>6 DEF ScrStatus, ScrSent, ScrInt, ScrData, WidthSet
  <2> QED
    BY <1>1, <2>1, <2>2, <2>3, <2>4, <2>5, <2>6 DEF Driver
<1>2. CASE Host
  BY <1>2 DEF Host, Answer, DataReady, DataDone, Settle, CmdError, DataError
<1>3. CASE \E op \in {"READ_SINGLE", "WRITE_SINGLE"}, l \in Lba, b \in Buf : Request(op, l, b)
  BY <1>3 DEF Request
<1>4. CASE UNCHANGED vars
  BY <1>4 DEF vars
<1> QED
  BY <1>1, <1>2, <1>3, <1>4 DEF Next

\* What a step that fills a buffer fills it with.
LEMMA ReadIsBlock == ASSUME SdInv, BlkInt, NEW b \in filled' \ filled, ready
                     PROVE  b \in Buf /\ req.l \in Lba /\ b = req.b /\ mem'[b] = blocks[req.l]
<1>1. pc = "blk_int" /\ Over("blk_int") /\ IntResult = "OK" /\ req.op = "READ_SINGLE"
      /\ mem' = [mem EXCEPT ![req.b] = IF fifo = NULL THEN Junk ELSE fifo]
      /\ filled' = filled \cup {req.b}
  BY DEF BlkInt, Over, Fails, callVars
<1>2. NoErr /\ Rdy \in INTERRUPT /\ Rdy = "READ_RDY"
  BY <1>1, IntGood DEF SdInv, Rdy
<1>3. Stage \in Blk /\ req.b \in Buf /\ req.l \in Lba
  BY <1>1, BlkCtl DEF Blk
<1>4. Waiting
  BY <1>1, <1>2, <1>3 DEF Waiting
<1>5. Seen(req.l, fifo) /\ fifo # NULL
  BY <1>1, <1>2, <1>4 DEF SdInv, CurInv, XferInv
<1>6. PICK l \in Lba : l = req.l
  BY <1>3
<1>8. Addr(l) = Card(l)
  BY AddrIsCard DEF SdInv, InitInv, InitAgrees
<1>7. mem'[req.b] = IF fifo = NULL THEN Junk ELSE fifo
  <2>1. mem = [a \in Buf |-> mem[a]]
    BY DEF SdInv, TypeCall
  <2> QED
    BY <1>1, <1>3, <2>1
<1> QED
  BY <1>1, <1>3, <1>5, <1>6, <1>7, <1>8 DEF Seen

\* sd_readblock() reports success only with the block that was asked for in the
\* buffer: no late answer to a call the driver has given up on is taken for it.
THEOREM ReadsAreTrue == Spec => ReadTruth
<1>1. SdInv /\ [Next]_vars
        => [ready => \A b \in filled' \ filled : mem'[b] = blocks[req.l]]_vars
  BY FilledBy, ReadIsBlock
<1> QED
  BY <1>1, SdSpecInv, PTL DEF Spec, ReadTruth
=============================================================================
