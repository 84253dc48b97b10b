-------------------------------- MODULE Files --------------------------------
(***************************************************************************)
(* What the file system promises to programs, with no slots, blocks or     *)
(* bitmap in sight: a descriptor is at a position of one file; a write     *)
(* changes that file at that position and nothing else, for everybody who  *)
(* has the file open.  What was written to a file may be lost when nobody  *)
(* has it open any more, but other files keep theirs.  Module Fs is shown  *)
(* to implement this.                                                      *)
(***************************************************************************)
EXTENDS Naturals

CONSTANTS Handle, File, Pos, Value, NULL

VARIABLES content, \* what a reader of the file finds at each position
          len,     \* the length of the file
          on, pos, \* the file of each open descriptor, and its position
          kept,    \* the files that the kernel itself has open, for exec()
          down     \* no call returns any more

vars == <<content, len, on, pos, kept, down>>

Init ==
  /\ content = [i \in File |-> [l \in Pos |-> NULL]]
  /\ len \in [File -> Nat]
  /\ on = [h \in Handle |-> NULL] /\ pos = [h \in Handle |-> 0]
  /\ kept = {} /\ down = FALSE

Users(i) == {h \in Handle : on[h] = i}

Open(h, i) ==
  /\ on[h] = NULL
  /\ on' = [on EXCEPT ![h] = i]
  /\ pos' = [pos EXCEPT ![h] = 0]
  /\ UNCHANGED <<content, len, kept, down>>

Write(h, v) ==
  /\ on[h] # NULL /\ pos[h] \in Pos
  /\ content' = [content EXCEPT ![on[h]][pos[h]] = v]
  /\ pos' = [pos EXCEPT ![h] = @ + 1]
  /\ len' = [len EXCEPT ![on[h]] = IF @ > pos[h] THEN @ ELSE pos[h] + 1]
  /\ UNCHANGED <<on, kept, down>>

Read(h) ==
  /\ on[h] # NULL /\ pos[h] < len[on[h]]
  /\ pos' = [pos EXCEPT ![h] = @ + 1]
  /\ UNCHANGED <<content, len, on, kept, down>>

\* The last close: some of what was written may be lost.
Close(h) ==
  /\ on[h] # NULL
  /\ on' = [on EXCEPT ![h] = NULL]
  /\ pos' = [pos EXCEPT ![h] = 0]
  /\ \/ UNCHANGED content
     \/ /\ Users(on[h]) = {h} /\ on[h] \notin kept
        /\ \E lost \in SUBSET Pos :
             content' = [content EXCEPT ![on[h]] =
                           [l \in Pos |-> IF l \in lost THEN NULL ELSE @[l]]]
  /\ UNCHANGED <<len, kept, down>>

Exec(i) == kept' = kept \cup {i} /\ UNCHANGED <<content, len, on, pos, down>>

\* A call ends in panic(), in a sleep for ever or in the loss of the disk; it
\* may have got as far as the length and the position.
Fail ==
  /\ down' = TRUE
  /\ len' \in [File -> Nat] /\ pos' \in [Handle -> Nat]
  /\ UNCHANGED <<content, on, kept>>

Next ==
  /\ ~down
  /\ \/ Fail \/ \E i \in File : Exec(i)
     \/ \E h \in Handle : \/ Read(h) \/ Close(h)
                          \/ \E i \in File : Open(h, i)
                          \/ \E v \in Value : Write(h, v)

Spec == Init /\ [][Next]_vars
=============================================================================
