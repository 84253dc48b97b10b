------------------------------- MODULE Console -------------------------------
(***************************************************************************)
(* Console input: the ring of kernel/console.c between the interrupt       *)
(* handler of kernel/pl011_uart.c and the processes in console_read(),     *)
(* with sleep() and wakeup() on &cons.r.                                   *)
(*                                                                         *)
(* One CPU.  console_read() runs with interrupts off, so the handler       *)
(* starts only while no process is in it; the UART itself goes on          *)
(* receiving all the time.  The handler drains the receive FIFO, one       *)
(* character per action, and acknowledges the interrupt afterwards.        *)
(*                                                                         *)
(* A character in the ring is its number in the order of arrival: 0 is the *)
(* byte '\0', whether never written or typed.  Echo and output only touch  *)
(* the UART's data register and are left out.                              *)
(***************************************************************************)
EXTENDS Naturals, Sequences

CONSTANTS Reader,         \* processes that read the console
          INPUT_BUF_SIZE,
          FIFO,           \* depth of the UART's receive FIFO
          MAXREAD,        \* bound: the largest n of a read
          MAXTYPED        \* bound: characters that arrive

ASSUME ConsoleAssumption ==
  /\ INPUT_BUF_SIZE \in Nat \ {0} /\ FIFO \in Nat \ {0} /\ MAXTYPED \in Nat
  /\ "none" \notin Reader
  /\ MAXREAD \in 1 .. INPUT_BUF_SIZE \* beyond it cons.buf[i] leaves the ring

Raw   == {"x", "NL", "CR", "NUL"}
Index == 0 .. INPUT_BUF_SIZE - 1

VARIABLES buf, r, w,    \* struct cons
          fifo, rxint,  \* the UART: received characters, interrupt pending
          isr,          \* where the interrupt handler is
          st,           \* "user", "asleep" on &cons.r or "woken"
          want,         \* the argument n of the read a process is in
          cur, i,       \* the process in the copying loop, its variable i
          due, inorder, \* history: number of the next character a reader
                        \* must get, and whether each has been that one
          past,         \* history: a read has gone beyond the input
          nul,          \* history: a '\0' has been typed
          raced         \* history: a character has come between the handler's
                        \* last look at the FIFO and its acknowledgement

ring == <<buf, r, w>>
uart == <<fifo, rxint>>
hist == <<due, inorder, past, nul, raced>>
vars == <<ring, uart, isr, st, want, cur, i, hist>>

NoOne == "none"

Init ==
  /\ buf = [k \in Index |-> 0] /\ r = 0 /\ w = 0
  /\ fifo = <<>> /\ rxint = FALSE /\ isr = "off"
  /\ st = [p \in Reader |-> "user"] /\ want = [p \in Reader |-> 0]
  /\ cur = NoOne /\ i = 0
  /\ due = 1 /\ inorder = TRUE /\ past = FALSE /\ nul = FALSE /\ raced = FALSE
-----------------------------------------------------------------------------
(* The UART                                                                 *)

\* A character arrives; the interrupt is raised when the FIFO was empty.
Receive(c) ==
  /\ Len(fifo) < FIFO /\ w + Len(fifo) < MAXTYPED
  /\ fifo' = Append(fifo, c)
  /\ rxint' = (rxint \/ fifo = <<>>)
  /\ raced' = (raced \/ isr = "ack")
  /\ UNCHANGED <<ring, isr, st, want, cur, i, due, inorder, past, nul>>

\* pl011_uart_get_char() reads DR; an empty FIFO withdraws the interrupt.
GetChar ==
  /\ fifo # <<>>
  /\ fifo' = Tail(fifo)
  /\ rxint' = (rxint /\ Len(fifo) > 1)

\* return r == '\r' ? '\n' : r;
Converted(c) == IF c = "CR" THEN "NL" ELSE c
-----------------------------------------------------------------------------
(* pl011_uart_intr() and consoleintr()                                      *)

Irq ==
  /\ rxint /\ isr = "off" /\ cur = NoOne
  /\ isr' = "drain"
  /\ UNCHANGED <<ring, uart, st, want, cur, i, hist>>

\* wakeup(&cons.r)
Wakeup == [p \in Reader |-> IF st[p] = "asleep" THEN "woken" ELSE st[p]]

\* Bug: '\n' is forgotten, though get_char() has turned every '\r' into it.
LineEndCr(c) == c = "CR"

\* c == '\n' || c == '\r'
LineEnd(c) == c \in {"NL", "CR"}

\* cons.buf[cons.w++ % INPUT_BUF_SIZE] = c, and wakeup() at the end of a line.
Consoleintr ==
  /\ isr = "drain" /\ GetChar
  /\ LET c == Converted(Head(fifo))
     IN  /\ buf' = [buf EXCEPT ![w % INPUT_BUF_SIZE] = IF c = "NUL" THEN 0 ELSE w + 1]
         /\ w' = w + 1
         /\ nul' = (nul \/ c = "NUL")
         /\ st' = IF LineEnd(c) THEN Wakeup ELSE st
  /\ UNCHANGED <<r, isr, want, cur, i, due, inorder, past, raced>>

\* Bug: one character per interrupt, no loop.
DrainedOne ==
  /\ isr = "drain"
  /\ isr' = "ack"
  /\ UNCHANGED <<ring, uart, st, want, cur, i, hist>>

\* get_char() returns -1: the loop ends.
Drained ==
  /\ isr = "drain" /\ fifo = <<>>
  /\ isr' = "ack"
  /\ UNCHANGED <<ring, uart, st, want, cur, i, hist>>

\* ICR |= 1 << 4: a character that has come since is no longer announced.
Ack ==
  /\ isr = "ack"
  /\ isr' = "off" /\ rxint' = FALSE
  /\ UNCHANGED <<ring, fifo, st, want, cur, i, hist>>
-----------------------------------------------------------------------------
(* console_read()                                                           *)

\* while (cons.r == cons.w) sleep(&cons.r);
Test(p) ==
  \/ /\ r = w
     /\ st' = [st EXCEPT ![p] = "asleep"]
     /\ UNCHANGED <<cur, i>>
  \/ /\ r # w
     /\ cur' = p /\ i' = 0
     /\ UNCHANGED st

KernelFree == cur = NoOne /\ isr = "off"

ConsoleRead(p, n) ==
  /\ KernelFree /\ st[p] = "user"
  /\ want' = [want EXCEPT ![p] = n]
  /\ Test(p)
  /\ UNCHANGED <<ring, uart, isr, hist>>

\* sleep() returns.
Resume(p) ==
  /\ KernelFree /\ st[p] = "woken"
  /\ Test(p)
  /\ UNCHANGED <<ring, uart, isr, want, hist>>

\* proc_kill() ends any sleep.
Kill(p) ==
  /\ KernelFree /\ st[p] = "asleep"
  /\ st' = [st EXCEPT ![p] = "woken"]
  /\ UNCHANGED <<ring, uart, isr, want, cur, i, hist>>

\* i < n && cons.buf[i] != '\0'
CopyMore == i < want[cur] /\ buf[i] # 0

\* Bug: the index is reset one character early.
NextREarly == IF r + 1 >= INPUT_BUF_SIZE THEN 0 ELSE r + 1

\* Bug: the index is not reset.
NextRNever == r + 1

\* cons.r++, and if (cons.r > INPUT_BUF_SIZE) cons.r = 0;
NextR == IF r + 1 > INPUT_BUF_SIZE THEN 0 ELSE r + 1

\* *dst = cons.buf[cons.r++ % INPUT_BUF_SIZE]; dst++;
CopyChar ==
  /\ cur # NoOne /\ CopyMore
  /\ LET c == buf[r % INPUT_BUF_SIZE]
     IN  IF c = due THEN due' = due + 1 /\ UNCHANGED inorder
                    ELSE inorder' = FALSE /\ UNCHANGED due
  /\ r' = NextR
  /\ i' = i + 1
  /\ past' = (past \/ r = w)
  /\ UNCHANGED <<buf, w, uart, isr, st, want, cur, nul, raced>>

\* return n, whatever has been copied.
CopyEnd ==
  /\ cur # NoOne /\ ~CopyMore
  /\ st' = [st EXCEPT ![cur] = "user"]
  /\ want' = [want EXCEPT ![cur] = 0]
  /\ cur' = NoOne /\ i' = 0
  /\ UNCHANGED <<ring, uart, isr, hist>>
-----------------------------------------------------------------------------
Handler == Irq \/ Consoleintr \/ Drained \/ Ack
Copy    == CopyChar \/ CopyEnd

Next ==
  \/ Handler \/ Copy
  \/ \E c \in Raw : Receive(c)
  \/ \E p \in Reader : \/ Resume(p) \/ Kill(p)
                       \/ \E n \in 1 .. MAXREAD : ConsoleRead(p, n)

\* The CPU executes its code, takes a pending interrupt on the way back to
\* user space, and scheduler() runs who is RUNNABLE (Proc's RunnableRuns).
Fairness == /\ SF_vars(Irq) /\ WF_vars(Handler \/ Copy)
            /\ \A p \in Reader : SF_vars(Resume(p))

Spec == Init /\ [][Next]_vars /\ Fairness
-----------------------------------------------------------------------------
(* Properties                                                               *)

\* Type invariant.  cons.r stays below the size but for its very end; cons.w
\* is never reset.
TypeOK ==
  /\ buf \in [Index -> 0 .. MAXTYPED]
  /\ r \in 0 .. INPUT_BUF_SIZE /\ w \in 0 .. MAXTYPED
  /\ fifo \in Seq(Raw) /\ Len(fifo) <= FIFO /\ rxint \in BOOLEAN
  /\ isr \in {"off", "drain", "ack"} /\ (isr # "off" => cur = NoOne)
  /\ st \in [Reader -> {"user", "asleep", "woken"}]
  /\ want \in [Reader -> 0 .. MAXREAD]
  /\ cur \in Reader \cup {NoOne} /\ i \in 0 .. MAXREAD
  /\ due \in 1 .. MAXTYPED + 1

\* console_read() hands out the characters in the order in which they were
\* typed, none twice and none left out, whoever reads - as long as no more
\* than INPUT_BUF_SIZE have been typed since boot, none of them '\0', and no
\* read asked for more than was there: the loop does not look at cons.w.
InOrder == w <= INPUT_BUF_SIZE /\ ~nul /\ ~past => inorder

\* A reader is not left asleep over a complete line, although sleep() and
\* wakeup() take no lock and other characters wake nobody: when the end of a
\* line reaches the UART while all readers wait, one of them returns.
LineReturns ==
  (\A p \in Reader : st[p] = "asleep") /\ (\E k \in DOMAIN fifo : fifo[k] \in {"NL", "CR"})
    ~> (\E p \in Reader : st[p] = "user") \/ raced

\* pl011_uart_intr() leaves nothing in the FIFO, unless a character comes
\* between its last look and the acknowledgement.
InputTaken == fifo # <<>> ~> fifo = <<>> \/ raced
=============================================================================
