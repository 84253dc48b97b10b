------------------------------- MODULE Rounds -------------------------------
(***************************************************************************)
(* What scheduler() promises, with no locks, contexts or code in sight:    *)
(* every CPU goes round the process table for itself, looks at each slot   *)
(* once in a round and in their order, gives itself to the process there   *)
(* if that one is ready and runs on no other CPU, and goes on only when it *)
(* has it back.  Module Proc is shown to implement this.                   *)
(***************************************************************************)
EXTENDS Naturals

CONSTANTS CPU, NPROC, NULL

Slot == 0 .. NPROC - 1

VARIABLES seen,    \* how many slots CPU c has looked at in this round
          running, \* the process that CPU c has given itself to
          ready    \* the processes that may be given a CPU

vars == <<seen, running, ready>>

Init ==
  /\ seen = [c \in CPU |-> 0]
  /\ running = [c \in CPU |-> NULL]
  /\ ready = {0}

Look(c) == seen' = [seen EXCEPT ![c] = @ + 1]

Grant(c, p) ==
  /\ running[c] = NULL /\ seen[c] = p
  /\ p \in ready /\ \A d \in CPU : running[d] # p
  /\ Look(c)
  /\ running' = [running EXCEPT ![c] = p]
  /\ UNCHANGED ready

\* A slot is passed over only when nobody could run there.
Pass(c, p) ==
  /\ running[c] = NULL /\ seen[c] = p
  /\ p \notin ready /\ \A d \in CPU : running[d] # p
  /\ Look(c)
  /\ UNCHANGED <<running, ready>>

GiveUp(c) ==
  /\ running[c] # NULL
  /\ running' = [running EXCEPT ![c] = NULL]
  /\ UNCHANGED <<seen, ready>>

NewRound(c) ==
  /\ running[c] = NULL /\ seen[c] = NPROC
  /\ seen' = [seen EXCEPT ![c] = 0]
  /\ UNCHANGED <<running, ready>>

\* Processes become ready or cease to be at any time: the scheduler has no
\* say in what others write into p->state.
Change ==
  /\ ready' \in SUBSET Slot
  /\ UNCHANGED <<seen, running>>

Next == \/ Change
        \/ \E c \in CPU : \/ GiveUp(c) \/ NewRound(c)
                          \/ \E p \in Slot : Grant(c, p) \/ Pass(c, p)

Spec == Init /\ [][Next]_vars
=============================================================================
