-------------------------------- MODULE Sdhci --------------------------------
(***************************************************************************)
(* The SD card driver, kernel/sdhci.c, and the host controller and card it *)
(* talks to through include/sdhci.h.                                       *)
(*                                                                         *)
(* Driver, controller and card run concurrently.  The driver polls: each   *)
(* of its waits is a loop that looks at a register and counts cnt down,    *)
(* and the answer may come in time, at the very last look, after the       *)
(* driver has given up, as an error, or never.  One action of the driver   *)
(* is one look (Poll) or the code from the end of one wait to the next.    *)
(*                                                                         *)
(* bio.c asks for one block at a time: the branches for num > 1 are left   *)
(* out, and so are the divisor that sd_clk() computes and all delays.  A   *)
(* block's contents are a value, transferred in one step.                  *)
(***************************************************************************)
EXTENDS Integers

CONSTANTS Lba,     \* block numbers in use
          Buf,     \* buffers that a block can be read into or written from
          Block0(_), \* the contents of a block when the machine starts
          Empty,   \* the contents of a buffer then
          Junk,    \* what other blocks of the card hold
          POLLS,   \* how often a wait looks again: 10000 to 1000000
          OPTRIES, \* tries of ACMD41: 6
          NULL

ASSUME SdhciAssumption ==
  /\ Lba \subseteq Nat \ {0} /\ POLLS \in Nat \ {0} /\ OPTRIES \in Nat \ {0}
  /\ NULL \notin Lba \cup Buf \cup {Empty, Junk} \cup {Block0(l) : l \in Lba}
  /\ NULL \notin {"READ_SINGLE", "WRITE_SINGLE", "SEND_SCR", "SET_BUS_WIDTH"}
  /\ NULL \notin [op : {"READ_SINGLE", "WRITE_SINGLE"}, l : Lba, b : Buf]

\* The address of a block in bytes is a 32 bit number.
ASSUME WidthAssumption == \A l \in Lba : l < 2^23

VARIABLES pc, cnt, ret,         \* the driver: next segment, the variable cnt
                                \* of a wait, where sd_cmd() or sd_clk() returns
          code, inner, rsp,     \* sd_cmd(): its argument, whether it is in the
                                \* recursive call for APP_CMD, its result
          sd_err, sd_rca, ccs,  \* ccs: sd_scr[0] & SCR_SUPP_CCS
          found, tries,         \* sd_init(): its variables ccs and cnt
          req,                  \* sd_readblock() or sd_writeblock() in progress
          ready,                \* history: sd_init() has returned SD_OK
          mem,                  \* the contents of the buffers
          filled,               \* history: the buffers whose last read was a
                                \* success
          acked,                \* history: what a successful write has left in
                                \* a block
          INTERRUPT, CONTROL1, RESP0, width, \* the controller
          pend, dat, fifo,      \* the command it waits for, its data transfer
          blocks, hc, wide, selected \* the card: contents, high capacity, bus
                                     \* width, selected by CMD_CARD_SELECT

ctlVars  == <<pc, cnt, ret, code, inner, rsp, sd_err>>
initVars == <<sd_rca, ccs, found, tries, ready>>
callVars == <<req, mem, filled, acked>>
hostVars == <<INTERRUPT, CONTROL1, RESP0, width, pend, dat, fifo>>
cardVars == <<blocks, hc, wide, selected>>
vars     == <<ctlVars, initVars, callVars, hostVars, cardVars>>

\* INT_ERROR_MASK; the two timeouts are told apart from the other errors.
Timeouts == {"CMD_TIMEOUT", "DATA_TIMEOUT"}
Errors   == Timeouts \cup {"CRC"}

\* CMD_NEED_APP, and the commands with a data transfer.
NeedApp == {"SEND_OP_COND", "SEND_SCR", "SET_BUS_WIDTH"}
Reads   == {"READ_SINGLE", "SEND_SCR"}
Data    == Reads \cup {"WRITE_SINGLE"}

\* The STATUS register.
STATUS == (IF pend # NULL THEN {"CMD_INHIBIT"} ELSE {})
            \cup (IF dat.ph # "none" THEN {"DAT_INHIBIT"} ELSE {})
            \cup (IF dat.ph = "wready" THEN {"WRITE_AVAILABLE"} ELSE {})

NoData == [ph |-> "none", at |-> NULL]

\* kernel_main() calls sd_init().
Init ==
  /\ pc = "reset" /\ cnt = POLLS /\ ret = NULL
  /\ code = NULL /\ inner = FALSE /\ rsp = {} /\ sd_err = "OK"
  /\ sd_rca = FALSE /\ ccs = FALSE /\ found = FALSE /\ tries = 0 /\ ready = FALSE
  /\ req = NULL /\ mem = [b \in Buf |-> Empty] /\ filled = {}
  /\ acked = [l \in Lba |-> NULL]
  /\ INTERRUPT = {} /\ CONTROL1 = {"SRST_HC"} /\ RESP0 = {} /\ width = 1
  /\ pend = NULL /\ dat = NoData /\ fifo = NULL
  /\ blocks = [l \in Lba |-> Block0(l)]
  /\ hc \in BOOLEAN /\ wide = 1 /\ selected = FALSE
-----------------------------------------------------------------------------
(* Waiting: sd_status(), sd_int() and the loops of sd_clk() and sd_init()   *)

\* What ends the loop of the wait the driver is in, before cnt runs out.
StatusIs(mask) == STATUS \cap mask = {} \/ INTERRUPT \cap Errors # {}
IntIs(bit)     == INTERRUPT \cap ({bit} \cup Errors) # {}

Rdy == IF req.op = "READ_SINGLE" THEN "READ_RDY" ELSE "WRITE_RDY"

Until ==
  \/ pc = "reset" /\ "SRST_HC" \notin CONTROL1
  \/ pc = "clk" /\ STATUS \cap {"CMD_INHIBIT", "DAT_INHIBIT"} = {}
  \/ pc = "stable" /\ "CLK_STABLE" \in CONTROL1
  \/ pc = "cmd_status" /\ StatusIs({"CMD_INHIBIT"})
  \/ pc = "scr_status" /\ StatusIs({"DAT_INHIBIT"})
  \/ pc = "blk_status" /\ StatusIs(IF req.op = "READ_SINGLE" THEN {"DAT_INHIBIT"}
                                   ELSE {"DAT_INHIBIT", "WRITE_AVAILABLE"})
  \/ pc = "cmd_int" /\ IntIs("CMD_DONE")
  \/ pc = "scr_int" /\ IntIs("READ_RDY")
  \/ pc = "blk_int" /\ IntIs(Rdy)
  \/ pc = "blk_done" /\ IntIs("DATA_DONE")

Waits == {"reset", "clk", "stable", "cmd_status", "cmd_int", "scr_status",
          "scr_int", "blk_status", "blk_int", "blk_done"}

\* Bug: cnt is not counted down.
PollForever ==
  /\ pc \in Waits /\ ~Until /\ cnt >= 0
  /\ UNCHANGED vars

\* Bug: the loop goes on when cnt has run out.
PollOn ==
  /\ pc \in Waits /\ ~Until
  /\ cnt' = cnt - 1
  /\ UNCHANGED <<pc, ret, code, inner, rsp, sd_err, initVars, callVars, hostVars,
                 cardVars>>

\* while (... && cnt--) wait_msec(1);
Poll ==
  /\ pc \in Waits /\ ~Until /\ cnt >= 0
  /\ cnt' = cnt - 1
  /\ UNCHANGED <<pc, ret, code, inner, rsp, sd_err, initVars, callVars, hostVars,
                 cardVars>>

\* The loop at l has ended.  cnt <= 0 counts as a timeout, although at cnt = 0
\* the last look was a success.
Over(l)  == pc = l /\ (Until \/ cnt = -1)
Late     == cnt <= 0
Goto(l)  == pc' = l /\ cnt' = POLLS
Stay(l)  == pc' = l /\ cnt' = 0

\* sd_status() returns SD_ERROR.
StatusBad == Late \/ INTERRUPT \cap Errors # {}

\* The result of sd_int(), which clears all it has seen, or only `bit`.
IntResult == IF Late \/ INTERRUPT \cap Timeouts # {} THEN "TIMEOUT"
             ELSE IF INTERRUPT \cap Errors # {} THEN "ERROR" ELSE "OK"
IntClear(bit) ==
  INTERRUPT' = IF IntResult = "OK" THEN INTERRUPT \ {bit} ELSE {}
-----------------------------------------------------------------------------
(* sd_cmd()                                                                 *)

\* The call sd_cmd(c), returning to l.
Call(c, l) ==
  /\ code' = c /\ inner' = (c \in NeedApp) /\ ret' = l /\ sd_err' = "OK"
  /\ rsp' = {}
  /\ Goto("cmd_status")

\* sd_cmd() returns r with sd_err = e.  From the recursive call it goes on with
\* the command itself unless the card has an address and did not accept APP_CMD.
CmdReturn(r, e) ==
  \/ /\ ~inner
     /\ rsp' = r /\ sd_err' = e
     /\ Stay(ret)
     /\ UNCHANGED <<ret, code, inner>>
  \/ /\ inner /\ sd_rca /\ "APP" \notin r
     /\ rsp' = {} /\ sd_err' = "ERROR"
     /\ Stay(ret)
     /\ UNCHANGED <<ret, code, inner>>
  \/ /\ inner /\ ~(sd_rca /\ "APP" \notin r)
     /\ inner' = FALSE /\ sd_err' = e
     /\ Goto("cmd_status")
     /\ UNCHANGED <<ret, code, rsp>>

\* ARG1 of a data command: a block number or, without CCS, a byte offset.
Target == IF code = "SEND_SCR" THEN 0 ELSE IF ccs THEN req.l ELSE req.l * 512

\* Bug: the interrupts of earlier commands are not cleared.
IssueKeep(c) ==
  /\ pend' = c
  /\ dat' = IF c \in Data /\ dat = NoData THEN [ph |-> "cmd", at |-> Target] ELSE dat
  /\ UNCHANGED INTERRUPT

\* sdchi->INTERRUPT = sdchi->INTERRUPT; ...; sdchi->CMDTM = code;  A controller
\* that has not finished a transfer does not begin another.
Issue(c) ==
  /\ INTERRUPT' = {}
  /\ pend' = c
  /\ dat' = IF c \in Data /\ dat = NoData THEN [ph |-> "cmd", at |-> Target] ELSE dat

CmdStatus ==
  /\ Over("cmd_status")
  /\ \/ /\ StatusBad
        /\ CmdReturn({}, "TIMEOUT")
        /\ UNCHANGED <<INTERRUPT, pend, dat>>
     \/ /\ ~StatusBad
        /\ Issue(IF inner THEN "APP_CMD" ELSE code)
        /\ Goto("cmd_int")
        /\ UNCHANGED <<ret, code, inner, rsp, sd_err>>
  /\ UNCHANGED <<initVars, callVars, CONTROL1, RESP0, width, fifo, cardVars>>

\* What sd_cmd() makes of RESP0.  CMD_SEND_OP_COND is compared after its flag
\* CMD_NEED_APP has been removed, so it takes the last return, whose mask
\* happens to keep the bits that sd_init() looks at.
Result == IF inner THEN (IF sd_rca THEN RESP0 \cap {"APP"} ELSE {})
          ELSE IF code \in {"GO_IDLE"} THEN {} ELSE RESP0
Errno  == IF ~inner /\ code = "SEND_REL_ADDR" /\ "ERR" \in RESP0
          THEN "CARD" ELSE sd_err

\* RESP0 is written anew before every CMD_DONE.
CmdInt ==
  /\ Over("cmd_int")
  /\ IF IntResult = "OK" THEN CmdReturn(Result, Errno)
                         ELSE CmdReturn({}, IntResult)
  /\ IntClear("CMD_DONE") /\ RESP0' = {}
  /\ UNCHANGED <<initVars, callVars, CONTROL1, width, pend, dat, fifo, cardVars>>
-----------------------------------------------------------------------------
(* sd_readblock() and sd_writeblock()                                       *)

\* The call in progress returns; kernel_main() and bio.c ignore its result.
\* sd_err and the local variables are set again before they are read again:
\* they are reset here to keep states that differ only in them together.
Return == /\ Stay("idle")
          /\ code' = NULL /\ inner' = FALSE /\ rsp' = {} /\ ret' = NULL
          /\ sd_err' = "OK" /\ found' = FALSE /\ tries' = 0
          /\ req' = NULL

\* The call returns an error.
Fails == Return /\ UNCHANGED <<sd_rca, ccs, ready, mem, filled, acked>>

\* sd_readblock(l, b, 1) or sd_writeblock(b, l, 1).
Request(op, l, b) ==
  /\ pc = "idle"
  /\ req' = [op |-> op, l |-> l, b |-> b]
  /\ filled' = IF op = "READ_SINGLE" THEN filled \ {b} ELSE filled
  /\ acked' = IF op = "READ_SINGLE" THEN acked ELSE [acked EXCEPT ![l] = NULL]
  /\ Goto("blk_status")
  /\ UNCHANGED <<ret, code, inner, rsp, sd_err, initVars, mem, hostVars, cardVars>>

\* Bug: a transfer that is still going on is not waited for.
BlkStatusNoWait ==
  /\ pc = "blk_status"
  /\ Call(req.op, "blk_sent")
  /\ UNCHANGED <<initVars, callVars, hostVars, cardVars>>

BlkStatus ==
  /\ Over("blk_status")
  /\ \/ StatusBad /\ Fails
     \/ /\ ~StatusBad
        /\ Call(req.op, "blk_sent")
        /\ UNCHANGED <<initVars, callVars>>
  /\ UNCHANGED <<hostVars, cardVars>>

BlkSent ==
  /\ pc = "blk_sent"
  /\ \/ sd_err # "OK" /\ Fails
     \/ /\ sd_err = "OK"
        /\ Goto("blk_int")
        /\ UNCHANGED <<ret, code, inner, rsp, sd_err, initVars, callVars>>
  /\ UNCHANGED <<hostVars, cardVars>>

\* READ_RDY: the words of the block are read from DATA, all 128 whether there
\* is data or not.  WRITE_RDY: they go to DATA, then comes another wait.
BlkInt ==
  /\ Over("blk_int")
  /\ IntClear(Rdy)
  /\ \/ IntResult # "OK" /\ Fails /\ UNCHANGED <<dat, fifo>>
     \/ /\ IntResult = "OK" /\ req.op = "READ_SINGLE"
        /\ mem' = [mem EXCEPT ![req.b] = IF fifo = NULL THEN Junk ELSE fifo]
        /\ filled' = filled \cup {req.b}
        /\ dat' = [dat EXCEPT !.ph = "drained"] /\ fifo' = NULL
        /\ Return /\ UNCHANGED <<sd_rca, ccs, ready, acked>>
     \/ /\ IntResult = "OK" /\ req.op = "WRITE_SINGLE"
        /\ fifo' = mem[req.b] /\ dat' = [dat EXCEPT !.ph = "wbusy"]
        /\ Goto("blk_done")
        /\ UNCHANGED <<ret, code, inner, rsp, sd_err, initVars, callVars>>
  /\ UNCHANGED <<CONTROL1, RESP0, width, pend, cardVars>>

\* DATA_DONE: sd_writeblock() returns 512.
BlkDone ==
  /\ Over("blk_done")
  /\ IntClear("DATA_DONE")
  /\ \/ IntResult # "OK" /\ Fails
     \/ /\ IntResult = "OK"
        /\ acked' = [acked EXCEPT ![req.l] = mem[req.b]]
        /\ Return /\ UNCHANGED <<sd_rca, ccs, ready, mem, filled>>
  /\ UNCHANGED <<CONTROL1, RESP0, width, pend, dat, fifo, cardVars>>
-----------------------------------------------------------------------------
(* sd_init() and sd_clk()                                                   *)

\* The end of sd_init(): the software flag SCR_SUPP_CCS.
InitDone == /\ Return /\ ccs' = found /\ ready' = TRUE
            /\ UNCHANGED <<sd_rca, mem, filled, acked>>

\* The call sd_clk(), returning to l.
Clk(l) == Goto("clk") /\ ret' = l /\ UNCHANGED <<code, inner, rsp, sd_err>>

\* The reset of the host controller.
Reset ==
  /\ Over("reset")
  /\ IF Late THEN Fails ELSE Clk("clocked400k") /\ UNCHANGED <<initVars, callVars>>
  /\ UNCHANGED <<hostVars, cardVars>>

\* sd_clk(): stop the clock, set the divisor, start it again.
ClkSet ==
  /\ Over("clk")
  /\ \/ Late /\ Fails /\ UNCHANGED CONTROL1
     \/ /\ ~Late
        /\ CONTROL1' = {}
        /\ Goto("stable")
        /\ UNCHANGED <<ret, code, inner, rsp, sd_err, initVars, callVars>>
  /\ UNCHANGED <<INTERRUPT, RESP0, width, pend, dat, fifo, cardVars>>

ClkStable ==
  /\ Over("stable")
  /\ IF Late THEN Fails
     ELSE /\ Stay(ret)
          /\ UNCHANGED <<ret, code, inner, rsp, sd_err, initVars, callVars>>
  /\ UNCHANGED <<hostVars, cardVars>>

\* if (sd_err) return sd_err; sd_cmd(c)
After(l, c, next) ==
  /\ pc = l
  /\ IF sd_err # "OK" THEN Fails ELSE Call(c, next) /\ UNCHANGED <<initVars, callVars>>
  /\ UNCHANGED <<hostVars, cardVars>>

Clocked400k == After("clocked400k", "GO_IDLE", "idled")
Idled       == After("idled", "SEND_IF_COND", "if_conded")

\* cnt = 6; while (!(r & ACMD41_CMD_COMPLETE) && cnt--) r = sd_cmd(...)
IfConded ==
  /\ pc = "if_conded"
  /\ IF sd_err # "OK" THEN Fails
     ELSE /\ tries' = OPTRIES - 1
          /\ Call("SEND_OP_COND", "op_conded")
          /\ UNCHANGED <<sd_rca, ccs, found, ready, callVars>>
  /\ UNCHANGED <<hostVars, cardVars>>

\* A timeout is no error here; an answer to the last try comes too late.
OpConded ==
  /\ pc = "op_conded"
  /\ LET done == "COMPLETE" \in rsp
     IN  \/ /\ sd_err \notin {"OK", "TIMEOUT"} \/ tries = 0
                 \/ (done /\ "VOLTAGE" \notin rsp)
            /\ Fails
         \/ /\ sd_err \in {"OK", "TIMEOUT"} /\ tries > 0 /\ ~done
            /\ tries' = tries - 1
            /\ Call("SEND_OP_COND", "op_conded")
            /\ UNCHANGED <<sd_rca, ccs, found, ready, callVars>>
         \/ /\ sd_err \in {"OK", "TIMEOUT"} /\ tries > 0 /\ done /\ "VOLTAGE" \in rsp
            /\ found' = ("CCS" \in rsp)
            /\ Call("ALL_SEND_CID", "cided")
            /\ UNCHANGED <<sd_rca, ccs, tries, ready, callVars>>
  /\ UNCHANGED <<hostVars, cardVars>>

\* The result of ALL_SEND_CID is not looked at.
Cided ==
  /\ pc = "cided"
  /\ Call("SEND_REL_ADDR", "addressed")
  /\ UNCHANGED <<initVars, callVars, hostVars, cardVars>>

Addressed ==
  /\ pc = "addressed"
  /\ sd_rca' = ("RCA" \in rsp)
  /\ IF sd_err # "OK" THEN Return /\ UNCHANGED <<mem, filled, acked>>
     ELSE Clk("clocked25M") /\ UNCHANGED <<found, tries, callVars>>
  /\ UNCHANGED <<ccs, ready, hostVars, cardVars>>

Clocked25M ==
  /\ pc = "clocked25M"
  /\ Call("CARD_SELECT", "card_selected")
  /\ UNCHANGED <<initVars, callVars, hostVars, cardVars>>

CardSelected ==
  /\ pc = "card_selected"
  /\ IF sd_err # "OK" THEN Fails
     ELSE /\ Goto("scr_status")
          /\ UNCHANGED <<ret, code, inner, rsp, sd_err, initVars, callVars>>
  /\ UNCHANGED <<hostVars, cardVars>>

ScrStatus ==
  /\ Over("scr_status")
  /\ IF StatusBad THEN Fails
     ELSE Call("SEND_SCR", "scr_sent") /\ UNCHANGED <<initVars, callVars>>
  /\ UNCHANGED <<hostVars, cardVars>>

ScrSent ==
  /\ pc = "scr_sent"
  /\ IF sd_err # "OK" THEN Fails
     ELSE /\ Goto("scr_int")
          /\ UNCHANGED <<ret, code, inner, rsp, sd_err, initVars, callVars>>
  /\ UNCHANGED <<hostVars, cardVars>>

ScrInt ==
  /\ Over("scr_int")
  /\ IntClear("READ_RDY")
  /\ IF IntResult # "OK" THEN Fails
     ELSE /\ Stay("scr_data")
          /\ UNCHANGED <<ret, code, inner, rsp, sd_err, initVars, callVars>>
  /\ UNCHANGED <<CONTROL1, RESP0, width, pend, dat, fifo, cardVars>>

\* while (r < 2 && cnt): without data the loop goes round for ever.  Until the
\* end of sd_init() the flag CCS is whatever bit 0 of the register is.
ScrData ==
  /\ pc = "scr_data" /\ fifo # NULL
  /\ fifo' = NULL /\ dat' = [dat EXCEPT !.ph = "drained"]
  /\ \/ InitDone
     \/ /\ Call("SET_BUS_WIDTH", "width_set")
        /\ ccs' \in BOOLEAN
        /\ UNCHANGED <<sd_rca, found, tries, ready, callVars>>
  /\ UNCHANGED <<INTERRUPT, CONTROL1, RESP0, width, pend, cardVars>>

\* Bug: the controller is switched whether the card has been or not.
WidthSetAnyway ==
  /\ pc = "width_set"
  /\ width' = 4 /\ InitDone
  /\ UNCHANGED <<INTERRUPT, CONTROL1, RESP0, pend, dat, fifo, cardVars>>

\* if (sd_err) return sd_err; sdchi->CONTROL0 |= C0_HCTL_DWITDH;
WidthSet ==
  /\ pc = "width_set"
  /\ IF sd_err # "OK" THEN Fails /\ UNCHANGED width ELSE width' = 4 /\ InitDone
  /\ UNCHANGED <<INTERRUPT, CONTROL1, RESP0, pend, dat, fifo, cardVars>>
-----------------------------------------------------------------------------
(* The host controller and the card, as the driver takes them to be         *)

\* RESP0 after a command: a card may need several OP_CONDs.
Responses(c) ==
  CASE c = "SEND_OP_COND"  -> {{}, {"COMPLETE"},
                               {"COMPLETE", "VOLTAGE"} \cup (IF hc THEN {"CCS"} ELSE {})}
    [] c = "SEND_REL_ADDR" -> {{"RCA"}, {"RCA", "ERR"}}
    [] c = "APP_CMD"       -> {{"APP"}, {}}
    [] OTHER               -> {{}}

\* The card only talks once it has been selected by its address.
Accepts(c) == /\ c = "CARD_SELECT" => sd_rca
              /\ c \in Data \cup {"SET_BUS_WIDTH"} => selected

Raise(bit) == INTERRUPT' = INTERRUPT \cup {bit}

Answer ==
  /\ pend # NULL /\ Accepts(pend)
  /\ RESP0' \in Responses(pend)
  /\ Raise("CMD_DONE")
  /\ pend' = NULL
  /\ dat' = IF pend \in Data /\ dat.ph = "cmd"
              THEN [dat EXCEPT !.ph = IF pend \in Reads THEN "read" ELSE "write"] ELSE dat
  /\ wide' = IF pend = "SET_BUS_WIDTH" THEN 4 ELSE wide
  /\ selected' = (selected \/ pend = "CARD_SELECT")
  /\ UNCHANGED <<ctlVars, initVars, callVars, CONTROL1, width, fifo, blocks, hc>>

CmdError(e) ==
  /\ pend # NULL
  /\ Raise(e)
  /\ pend' = NULL
  /\ dat' = IF dat.ph = "cmd" THEN NoData ELSE dat
  /\ UNCHANGED <<ctlVars, initVars, callVars, CONTROL1, RESP0, width, fifo, cardVars>>

\* The block of the card that the address of a transfer means.
Means(l) == dat.at = (IF hc THEN l ELSE l * 512)

\* Data passes only between ends that agree on the width of the bus.
DataReady ==
  /\ width = wide
  /\ \/ /\ dat.ph = "read" /\ Raise("READ_RDY")
        /\ dat' = [dat EXCEPT !.ph = "full"]
        /\ \/ \E l \in Lba : Means(l) /\ fifo' = blocks[l]
           \/ (\A l \in Lba : ~Means(l)) /\ fifo' = Junk
     \/ /\ dat.ph = "write" /\ Raise("WRITE_RDY")
        /\ dat' = [dat EXCEPT !.ph = "wready"]
        /\ UNCHANGED fifo
  /\ UNCHANGED <<ctlVars, initVars, callVars, CONTROL1, RESP0, width, pend, cardVars>>

Store == blocks' = [l \in Lba |-> IF dat.ph = "wbusy" /\ Means(l) THEN fifo ELSE blocks[l]]

DataDone ==
  /\ dat.ph \in {"drained", "wbusy"}
  /\ Raise("DATA_DONE")
  /\ Store
  /\ dat' = NoData /\ fifo' = NULL
  /\ UNCHANGED <<ctlVars, initVars, callVars, CONTROL1, RESP0, width, pend, hc, wide,
                 selected>>

\* A transfer fails; a block that was being written is the old or the new one.
DataError(e) ==
  /\ dat.ph \in {"read", "full", "write", "wready", "wbusy"}
  /\ Raise(e)
  /\ Store \/ UNCHANGED blocks
  /\ dat' = NoData /\ fifo' = NULL
  /\ UNCHANGED <<ctlVars, initVars, callVars, CONTROL1, RESP0, width, pend, hc, wide,
                 selected>>

\* The controller leaves its reset, or the clock is stable.
Settle ==
  /\ CONTROL1' = IF "SRST_HC" \in CONTROL1 THEN {} ELSE {"CLK_STABLE"}
  /\ UNCHANGED <<ctlVars, initVars, callVars, INTERRUPT, RESP0, width, pend, dat, fifo,
                 cardVars>>
-----------------------------------------------------------------------------
Driver == \/ Poll \/ CmdStatus \/ CmdInt \/ BlkStatus \/ BlkSent \/ BlkInt \/ BlkDone
          \/ Reset \/ ClkSet \/ ClkStable \/ Clocked400k \/ Idled \/ IfConded \/ OpConded
          \/ Cided \/ Addressed \/ Clocked25M \/ CardSelected \/ ScrStatus \/ ScrSent
          \/ ScrInt \/ ScrData \/ WidthSet

Host == \/ Answer \/ DataReady \/ DataDone \/ Settle
        \/ \E e \in {"CMD_TIMEOUT", "CRC"} : CmdError(e)
        \/ \E e \in {"DATA_TIMEOUT", "CRC"} : DataError(e)

Next == \/ Driver \/ Host
        \/ \E op \in {"READ_SINGLE", "WRITE_SINGLE"}, l \in Lba, b \in Buf : Request(op, l, b)

\* Only the CPU is sure to go on: the card may stop answering at any time.
Fairness == WF_vars(Driver)

Spec == Init /\ [][Next]_vars /\ Fairness
-----------------------------------------------------------------------------
(* Properties                                                               *)

Segments == Waits \cup {"idle", "clocked400k", "idled", "if_conded", "op_conded", "cided",
                        "addressed", "clocked25M", "card_selected", "scr_sent", "scr_data",
                        "width_set", "blk_sent"}
Phases   == {"none", "cmd", "read", "full", "drained", "write", "wready", "wbusy"}

\* Type invariant; in particular the driver has at most one call in progress
\* and cnt is below -1 nowhere.
TypeOK ==
  /\ pc \in Segments /\ cnt \in -1 .. POLLS /\ ret \in Segments \cup {NULL}
  /\ sd_err \in {"OK", "TIMEOUT", "ERROR", "CARD"}
  /\ inner \in BOOLEAN /\ sd_rca \in BOOLEAN /\ ccs \in BOOLEAN /\ ready \in BOOLEAN
  /\ tries \in 0 .. OPTRIES
  /\ (pc \in {"blk_status", "blk_sent", "blk_int", "blk_done"} => req # NULL)
  /\ (pc = "idle" => req = NULL)
  /\ filled \subseteq Buf
  /\ dat.ph \in Phases /\ INTERRUPT \subseteq Errors \cup {"CMD_DONE", "READ_RDY",
                                                       "WRITE_RDY", "DATA_DONE"}

\* sd_readblock() reports success only when the buffer holds the block asked
\* for: the answer to an earlier call that the driver has given up on is never
\* taken for the answer to this one.
ReadTruth ==
  [][ready => \A b \in filled' \ filled : mem'[b] = blocks[req.l]]_vars

\* sd_writeblock() reports success only when the card has stored the block,
\* and no later failure of another call takes that back.
WriteStored == ready => \A l \in Lba : acked[l] # NULL => blocks[l] = acked[l]

\* When sd_init() returns SD_OK driver and card agree: on the address, on the
\* width of the bus and on how blocks are numbered.
InitAgrees == ready => sd_rca /\ selected /\ width = wide /\ ccs = hc

\* Every call returns, whatever the card does: all waits are bounded - but the
\* one for the two words of the SCR, when an error takes them away.
Returns == pc # "idle" ~> pc = "idle" \/ (pc = "scr_data" /\ fifo = NULL)
=============================================================================
