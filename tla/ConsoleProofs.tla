---------------------------- MODULE ConsoleProofs ----------------------------
(***************************************************************************)
(* Proofs about Console for any size of the ring and of the FIFO and any   *)
(* number of readers and of characters.                                    *)
(***************************************************************************)
EXTENDS Console, TLAPS

\* As long as the premise of InOrder holds the ring has not wrapped: it holds
\* the characters 1 to w and then nothing, and the readers have had 1 to r.
Straight == w <= INPUT_BUF_SIZE /\ ~nul /\ ~past
RingInv ==
  /\ \A k \in Index : buf[k] = IF k < w THEN k + 1 ELSE 0
  /\ r <= w /\ due = r + 1 /\ inorder = TRUE

ConsoleInv ==
  /\ TypeOK
  /\ w + Len(fifo) <= MAXTYPED
  /\ Straight => RingInv

\* The parts of TypeOK.
RingOK == buf \in [Index -> 0 .. MAXTYPED] /\ r \in 0 .. INPUT_BUF_SIZE /\ w \in 0 .. MAXTYPED
          /\ due \in 1 .. MAXTYPED + 1
UartOK == fifo \in Seq(Raw) /\ Len(fifo) <= FIFO /\ rxint \in BOOLEAN
ReadOK ==
  /\ isr \in {"off", "drain", "ack"} /\ (isr # "off" => cur = NoOne)
  /\ st \in [Reader -> {"user", "asleep", "woken"}] /\ want \in [Reader -> 0 .. MAXREAD]
  /\ cur \in Reader \cup {NoOne} /\ i \in 0 .. MAXREAD

LEMMA TypeParts == TypeOK <=> RingOK /\ UartOK /\ ReadOK
BY DEF TypeOK, RingOK, UartOK, ReadOK

LEMMA TypePartsNext == TypeOK' <=> RingOK' /\ UartOK' /\ ReadOK'
BY DEF TypeOK, RingOK, UartOK, ReadOK

USE ConsoleAssumption

\* Indices that the modulo leaves alone, and all it can give.
LEMMA Modulo ==
  /\ \A k \in Nat : k % INPUT_BUF_SIZE \in Index
  /\ \A k \in Index : k % INPUT_BUF_SIZE = k
BY DEF Index

LEMMA ConsoleInitInv == Init => ConsoleInv
<1> SUFFICES ASSUME Init PROVE ConsoleInv OBVIOUS
<1>1. TypeOK
  <2>1. RingOK BY DEF Init, RingOK, Index
  <2>2. UartOK
    <3>1. fifo \in Seq(Raw) /\ Len(fifo) = 0 BY DEF Init
    <3>2. rxint \in BOOLEAN BY DEF Init
    <3> QED BY <3>1, <3>2 DEF UartOK
  <2>3. ReadOK BY DEF Init, ReadOK, NoOne
  <2> QED BY <2>1, <2>2, <2>3, TypeParts
<1>2. RingInv
  BY DEF Init, RingInv, Index
<1>3. w + Len(fifo) <= MAXTYPED BY DEF Init
<1> QED BY <1>1, <1>2, <1>3 DEF ConsoleInv

\* The UART and the readers leave the ring alone.
LEMMA ReceiveInv == ASSUME ConsoleInv, NEW c \in Raw, Receive(c) PROVE ConsoleInv'
<1>0. RingOK /\ UartOK /\ ReadOK BY TypeParts DEF ConsoleInv
<1>1. fifo' \in Seq(Raw) /\ Len(fifo') = Len(fifo) + 1
  BY <1>0 DEF Receive, UartOK
<1>2. rxint' \in BOOLEAN BY DEF Receive
<1>3. UartOK' BY <1>0, <1>1, <1>2 DEF Receive, UartOK
<1>4. RingOK' /\ ReadOK' BY <1>0 DEF Receive, RingOK, ReadOK, ring
<1>5. w' + Len(fifo') <= MAXTYPED
  BY <1>0, <1>1 DEF Receive, RingOK, UartOK, ring
<1>6. Straight' => RingInv'
  BY DEF Receive, ConsoleInv, Straight, RingInv, ring
<1> QED BY <1>3, <1>4, <1>5, <1>6, TypePartsNext DEF ConsoleInv

\* The handler puts a character into the ring.
LEMMA ConsoleintrInv == ASSUME ConsoleInv, Consoleintr PROVE ConsoleInv'
<1> DEFINE c == Converted(Head(fifo))
<1>0. RingOK /\ UartOK /\ ReadOK BY TypeParts DEF ConsoleInv
<1>1. /\ Len(fifo) \in Nat /\ Len(fifo) >= 1 /\ fifo' \in Seq(Raw)
      /\ Len(fifo') = Len(fifo) - 1
  BY <1>0 DEF Consoleintr, GetChar, UartOK
<1>2. w + 1 <= MAXTYPED /\ w' = w + 1 /\ w \in Nat
  BY <1>0, <1>1 DEF Consoleintr, ConsoleInv, RingOK
<1>3. RingOK'
  <2>1. PICK x \in 0 .. MAXTYPED : buf' = [buf EXCEPT ![w % INPUT_BUF_SIZE] = x]
    <3>1. buf' = [buf EXCEPT ![w % INPUT_BUF_SIZE] = IF c = "NUL" THEN 0 ELSE w + 1]
      BY DEF Consoleintr
    <3>2. (IF c = "NUL" THEN 0 ELSE w + 1) \in 0 .. MAXTYPED
      <4> HIDE DEF c
      <4> QED BY <1>2
    <3> HIDE DEF c
    <3> QED BY <3>1, <3>2
  <2>2. buf' \in [Index -> 0 .. MAXTYPED] BY <1>0, <2>1 DEF RingOK
  <2> QED BY <1>0, <1>2, <2>2 DEF Consoleintr, RingOK
<1>4. UartOK'
  <2>1. rxint' \in BOOLEAN BY DEF Consoleintr, GetChar
  <2> QED BY <1>0, <1>1, <2>1 DEF UartOK
<1>5. ReadOK'
  <2>1. st' \in [Reader -> {"user", "asleep", "woken"}]
    BY <1>0 DEF Consoleintr, Wakeup, ReadOK
  <2> QED BY <1>0, <2>1 DEF Consoleintr, ReadOK
<1>6. w' + Len(fifo') <= MAXTYPED
  BY <1>1, <1>2 DEF ConsoleInv
<1>7. ASSUME Straight' PROVE RingInv'
  <2>1. w \in Index BY <1>2, <1>7 DEF Straight, Index
  <2>2. c # "NUL" /\ ~nul /\ ~past BY <1>7 DEF Consoleintr, Straight
  <2>3. Straight BY <1>2, <1>7, <2>2 DEF Straight
  <2>4. buf' = [buf EXCEPT ![w] = w + 1] BY <2>1, <2>2, Modulo DEF Consoleintr
  <2>5. UNCHANGED <<r, due, inorder>> BY DEF Consoleintr
  <2>6. \A k \in Index : buf'[k] = IF k < w + 1 THEN k + 1 ELSE 0
    BY <1>0, <1>2, <2>3, <2>4 DEF ConsoleInv, RingInv, RingOK, Index
  <2> QED BY <1>0, <1>2, <2>3, <2>5, <2>6 DEF ConsoleInv, RingInv, RingOK
<1> QED BY <1>3, <1>4, <1>5, <1>6, <1>7, TypePartsNext DEF ConsoleInv

\* A reader takes a character out of it.
LEMMA CopyCharInv == ASSUME ConsoleInv, CopyChar PROVE ConsoleInv'
<1>0. RingOK /\ UartOK /\ ReadOK BY TypeParts DEF ConsoleInv
<1>1. UNCHANGED <<buf, w, fifo, rxint, isr, st, want, cur, nul>>
  BY DEF CopyChar, uart
<1>2. /\ r' = IF r + 1 > INPUT_BUF_SIZE THEN 0 ELSE r + 1
      /\ r' \in 0 .. INPUT_BUF_SIZE
  BY <1>0 DEF CopyChar, NextR, RingOK
<1>3. buf[r % INPUT_BUF_SIZE] \in 0 .. MAXTYPED
  <2>0. r \in Nat BY <1>0 DEF RingOK
  <2>1. r % INPUT_BUF_SIZE \in Index BY <2>0, Modulo
  <2> QED BY <1>0, <2>1 DEF RingOK
<1>4. due' \in 1 .. MAXTYPED + 1
  BY <1>0, <1>3 DEF CopyChar, RingOK
<1>5. RingOK' /\ UartOK' BY <1>0, <1>1, <1>2, <1>4 DEF RingOK, UartOK
<1>6. i' \in 0 .. MAXREAD
  <2>1. cur \in Reader BY <1>0 DEF CopyChar, ReadOK
  <2> QED BY <1>0, <2>1 DEF CopyChar, CopyMore, ReadOK
<1>7. ReadOK' BY <1>0, <1>1, <1>6 DEF ReadOK
<1>8. w' + Len(fifo') <= MAXTYPED BY <1>1 DEF ConsoleInv
<1>9. ASSUME Straight' PROVE RingInv'
  <2>0. ~past' /\ past' = (past \/ r = w) BY <1>9 DEF CopyChar, Straight
  <2>1. Straight /\ r # w BY <1>1, <1>9, <2>0, Zenon DEF Straight
  <2>2. RingInv BY <2>1 DEF ConsoleInv
  <2>3. r < w /\ w <= INPUT_BUF_SIZE BY <1>0, <2>1, <2>2 DEF RingInv, RingOK, Straight
  <2>4. r \in Index BY <1>0, <2>3 DEF RingOK, Index
  <2>5. buf[r % INPUT_BUF_SIZE] = due
    BY <1>0, <2>2, <2>3, <2>4, Modulo DEF RingInv, RingOK
  <2>6. due' = due + 1 /\ UNCHANGED inorder BY <2>5 DEF CopyChar
  <2>7. r' = r + 1 BY <1>0, <1>2, <2>3 DEF RingOK
  <2> QED BY <1>0, <1>1, <2>2, <2>3, <2>6, <2>7 DEF RingInv, RingOK
<1> QED BY <1>5, <1>7, <1>8, <1>9, TypePartsNext DEF ConsoleInv

\* The other steps change neither the ring nor the FIFO.
LEMMA OtherInv ==
  ASSUME ConsoleInv, UNCHANGED <<buf, r, w, fifo, due, inorder, past, nul>>,
         rxint' \in BOOLEAN, ReadOK'
  PROVE  ConsoleInv'
<1>0. RingOK /\ UartOK /\ ReadOK BY TypeParts DEF ConsoleInv
<1>1. RingOK' /\ UartOK' BY <1>0 DEF RingOK, UartOK
<1>2. Straight' => RingInv' BY DEF ConsoleInv, Straight, RingInv
<1> QED BY <1>1, <1>2, TypePartsNext DEF ConsoleInv

LEMMA TestType ==
  ASSUME ReadOK, NEW p \in Reader, KernelFree, Test(p), want' \in [Reader -> 0 .. MAXREAD],
         UNCHANGED isr
  PROVE  ReadOK'
BY DEF ReadOK, KernelFree, Test

LEMMA ConsoleNextInv == ConsoleInv /\ [Next]_vars => ConsoleInv'
<1> SUFFICES ASSUME ConsoleInv, [Next]_vars PROVE ConsoleInv' OBVIOUS
<1> USE DEF ring, uart, hist
<1>0. ReadOK /\ rxint \in BOOLEAN BY TypeParts DEF ConsoleInv, UartOK
<1>1. CASE Irq
  <2>1. ReadOK' BY <1>0, <1>1 DEF Irq, ReadOK
  <2> QED BY <1>0, <1>1, <2>1, OtherInv DEF Irq
<1>2. CASE Drained
  <2>1. ReadOK' BY <1>0, <1>2 DEF Drained, ReadOK
  <2> QED BY <1>0, <1>2, <2>1, OtherInv DEF Drained
<1>3. CASE Ack
  <2>1. ReadOK' BY <1>0, <1>3 DEF Ack, ReadOK
  <2>2. rxint' \in BOOLEAN BY <1>3 DEF Ack
  <2> QED BY <1>3, <2>1, <2>2, OtherInv DEF Ack
<1>4. ASSUME NEW p \in Reader, NEW n \in 1 .. MAXREAD, ConsoleRead(p, n) PROVE ConsoleInv'
  <2>1. want' \in [Reader -> 0 .. MAXREAD] BY <1>0, <1>4 DEF ConsoleRead, ReadOK
  <2>2. ReadOK' BY <1>0, <1>4, <2>1, TestType DEF ConsoleRead
  <2> QED BY <1>0, <1>4, <2>2, OtherInv DEF ConsoleRead
<1>5. ASSUME NEW p \in Reader, Resume(p) PROVE ConsoleInv'
  <2>1. want' \in [Reader -> 0 .. MAXREAD] BY <1>0, <1>5 DEF Resume, ReadOK
  <2>2. ReadOK' BY <1>0, <1>5, <2>1, TestType DEF Resume
  <2> QED BY <1>0, <1>5, <2>2, OtherInv DEF Resume
<1>6. ASSUME NEW p \in Reader, Kill(p) PROVE ConsoleInv'
  <2>1. ReadOK' BY <1>0, <1>6 DEF Kill, ReadOK
  <2> QED BY <1>0, <1>6, <2>1, OtherInv DEF Kill
<1>7. CASE CopyEnd
  <2>1. ReadOK' BY <1>0, <1>7 DEF CopyEnd, ReadOK
  <2> QED BY <1>0, <1>7, <2>1, OtherInv DEF CopyEnd
<1>8. CASE UNCHANGED vars
  <2>1. ReadOK' BY <1>0, <1>8 DEF vars, ReadOK
  <2> QED BY <1>0, <1>8, <2>1, OtherInv DEF vars
<1> QED BY <1>1, <1>2, <1>3, <1>4, <1>5, <1>6, <1>7, <1>8, ReceiveInv, ConsoleintrInv,
           CopyCharInv DEF Next, Handler, Copy
-----------------------------------------------------------------------------
\* ConsoleInv is inductive.
THEOREM ConsoleSpecInv == Spec => []ConsoleInv
BY ConsoleInitInv, ConsoleNextInv, PTL DEF Spec

\* The indices of the ring and the interrupt handler's state stay in range.
THEOREM ConsoleTypeCorrect == Spec => []TypeOK
<1>1. ConsoleInv => TypeOK BY DEF ConsoleInv
<1> QED BY <1>1, ConsoleSpecInv, PTL

\* Whatever the readers and the interrupts do, console_read() hands out the
\* first INPUT_BUF_SIZE characters in the order in which they were typed.
THEOREM InputInOrder == Spec => []InOrder
<1>1. ConsoleInv => InOrder
  BY DEF ConsoleInv, InOrder, Straight, RingInv
<1> QED BY <1>1, ConsoleSpecInv, PTL
=============================================================================
