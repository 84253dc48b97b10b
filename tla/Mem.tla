--------------------------------- MODULE Mem ---------------------------------
(***************************************************************************)
(* Physical pages: the free list of kernel/kalloc.c, and its clients: the  *)
(* page tables of kernel/vm.c, the process images built by allocproc(),    *)
(* copyproc() (fork) and kexec(), and collected by proc_wait(), and the    *)
(* pages of pipes.                                                         *)
(*                                                                         *)
(* One CPU; a system call runs without being preempted, so each action is  *)
(* a whole call.  kalloc() does not clear a page and kfree() writes only   *)
(* its first word, so what a recycled page still holds matters: `stale`    *)
(* are the pages with a valid entry 255 (they have been a root table),     *)
(* `dirty` the pages with other old words (trap frames and pipes).  RAM is *)
(* zero at boot.                                                           *)
(*                                                                         *)
(* The order in which an image takes its pages is the same in fork and in  *)
(* exec: 1 root, 2 and 3 the tables of TRAMPOLINE and TRAPFRAME, 4 the     *)
(* trap frame, 5 the first user page, 6 and 7 its tables, 8.. the others.  *)
(***************************************************************************)
EXTENDS Naturals, Sequences, FiniteSets, Functions

CONSTANTS NPROC,    \* length of proc[]
          NPAGES,   \* pages between end and PHYSTOP
          NUSER,    \* user pages of a program: its segments and its stack
          MAXARGS,  \* bound on the arguments of exec()
          MAXPIPES  \* bound on the pipes open at once

ASSUME MemAssumption ==
  /\ NPROC \in Nat \ {0} /\ NUSER \in Nat \ {0, 1} /\ MAXARGS \in Nat /\ MAXPIPES \in Nat
  /\ NPAGES \in Nat /\ NPAGES >= 4

Slot == 0 .. NPROC - 1
Page == 1 .. NPAGES

\* Pages of an image that user space can run in.
ImageSize == NUSER + 6

VARIABLES freelist, \* kmem.freelist, first page first
          mem,      \* the pages of a process in the order given above
          life,     \* "unused", "live" or "zombie"
          parent,   \* the slot of the parent
          pipes,    \* pages that hold a struct pipe
          stale, dirty,
          panic     \* "none", or the reason for which the kernel stopped

vars == <<freelist, mem, life, parent, pipes, stale, dirty, panic>>

Root(m)  == m[1]
Frame(m) == m[4]
Table(m) == m[7] \* the last-level table of the user pages

\* The n pages that n calls of kalloc() return, and the list they leave.
Taken(skip, n) == SubSeq(freelist, skip + 1, skip + n)
Left(n)        == SubSeq(freelist, n + 1, Len(freelist))

\* kfree(): push on the front.
kfree(list, page) == <<page>> \o list

\* userinit(): allocproc() for slot 0 has taken the first four pages.
Init ==
  /\ freelist = [i \in 1 .. NPAGES - 4 |-> i + 4]
  /\ mem    = [p \in Slot |-> IF p = 0 THEN <<1, 2, 3, 4>> ELSE <<>>]
  /\ life   = [p \in Slot |-> IF p = 0 THEN "live" ELSE "unused"]
  /\ parent = [p \in Slot |-> 0]
  /\ pipes  = {} /\ stale = {1} /\ dirty = {4}
  /\ panic  = "none"
-----------------------------------------------------------------------------
Stop(reason) ==
  /\ panic' = reason
  /\ UNCHANGED <<freelist, mem, life, parent, pipes, stale, dirty>>

\* Building an image after `skip` other pages have been taken.  With the list
\* exhausted kalloc() returns 0 and the kernel writes through it.  A stale
\* root already leads to a mapped TRAMPOLINE, and a dirty table may hold any
\* valid-looking word: mappages() panics.
Short(skip)   == Len(freelist) < skip + ImageSize
OldRoot(skip) == Len(freelist) > skip /\ freelist[skip + 1] \in stale

BuildStops(skip) ==
  \/ Short(skip) /\ ~OldRoot(skip) /\ Stop("out of memory")
  \/ OldRoot(skip) /\ Stop("remap")
  \/ ~Short(skip) /\ Table(Taken(skip, ImageSize)) \in dirty /\ Stop("remap")

\* proc_pagetable(), then kalloc() and mappages() for every user page.
Build(p, skip) ==
  LET img == Taken(skip, ImageSize)
  IN  /\ ~Short(skip) /\ ~OldRoot(skip)
      /\ mem' = [mem EXCEPT ![p] = img]
      /\ freelist' = Left(skip + ImageSize)
      /\ stale' = stale \cup {Root(img)}
      /\ dirty' = dirty \cup {Frame(img)}
      /\ UNCHANGED <<pipes, panic>>

Runs(p) == panic = "none" /\ life[p] = "live"
Ready(p) == Runs(p) /\ Len(mem[p]) = ImageSize

\* sys_fork(): allocproc() takes the first unused slot; without one it
\* returns 0, through which copyproc() writes.
SysFork(p) ==
  /\ Ready(p)
  /\ \/ /\ \A q \in Slot : life[q] # "unused"
        /\ Stop("no slot")
     \/ \E q \in Slot :
          /\ life[q] = "unused" /\ \A r \in Slot : r < q => life[r] # "unused"
          /\ \/ BuildStops(0)
             \/ /\ Build(q, 0)
                /\ life' = [life EXCEPT ![q] = "live"]
                /\ parent' = [parent EXCEPT ![q] = p]

\* forkret()'s exec of init (no argument page), and sys_exec(), which gives
\* each argument a page that nobody frees.  The old image is dropped.
SysExec(p, nargs) ==
  /\ Runs(p)
  /\ nargs > 0 => Ready(p)
  /\ \/ BuildStops(nargs)
     \/ Build(p, nargs) /\ UNCHANGED <<life, parent>>

\* sys_exit(), by a process that has collected its children.
SysExit(p) ==
  /\ Ready(p)
  /\ \A q \in Slot : life[q] # "unused" => parent[q] # p \/ q = 0
  /\ life' = [life EXCEPT ![p] = "zombie"]
  /\ UNCHANGED <<freelist, mem, parent, pipes, stale, dirty, panic>>

\* Bug: the slot of the collected child is not marked UNUSED.
SysWaitStaysZombie(p, q) ==
  /\ Ready(p)
  /\ life[q] = "zombie" /\ parent[q] = p
  /\ freelist' = kfree(kfree(freelist, Frame(mem[q])), Root(mem[q]))
  /\ mem' = [mem EXCEPT ![q] = <<>>]
  /\ UNCHANGED <<life, parent, pipes, stale, dirty, panic>>

\* Bug: the trap frame is freed in place of the page table as well.
SysWaitFrameTwice(p, q) ==
  /\ Ready(p)
  /\ life[q] = "zombie" /\ parent[q] = p
  /\ freelist' = kfree(kfree(freelist, Frame(mem[q])), Frame(mem[q]))
  /\ life' = [life EXCEPT ![q] = "unused"]
  /\ mem' = [mem EXCEPT ![q] = <<>>]
  /\ UNCHANGED <<parent, pipes, stale, dirty, panic>>

\* proc_wait() finds the zombie q: kfree(p->tf); kfree(p->pagetable).
SysWait(p, q) ==
  /\ Ready(p)
  /\ life[q] = "zombie" /\ parent[q] = p
  /\ \A r \in Slot : r < q => ~(life[r] = "zombie" /\ parent[r] = p)
  /\ freelist' = kfree(kfree(freelist, Frame(mem[q])), Root(mem[q]))
  /\ life' = [life EXCEPT ![q] = "unused"]
  /\ mem' = [mem EXCEPT ![q] = <<>>]
  /\ UNCHANGED <<parent, pipes, stale, dirty, panic>>

\* pipe_alloc() and the second close of pipe_close().
PipeAlloc(p) ==
  /\ Ready(p) /\ Cardinality(pipes) < MAXPIPES
  /\ \/ /\ freelist = <<>> /\ Stop("out of memory")
     \/ /\ freelist # <<>>
        /\ pipes' = pipes \cup {Head(freelist)}
        /\ dirty' = dirty \cup {Head(freelist)}
        /\ freelist' = Tail(freelist)
        /\ UNCHANGED <<mem, life, parent, stale, panic>>

PipeFree(p, page) ==
  /\ Ready(p)
  /\ page \in pipes
  /\ pipes' = pipes \ {page}
  /\ freelist' = kfree(freelist, page)
  /\ UNCHANGED <<mem, life, parent, stale, dirty, panic>>

Next ==
  \E p \in Slot :
    \/ SysFork(p) \/ SysExit(p) \/ PipeAlloc(p)
    \/ \E n \in 0 .. MAXARGS : SysExec(p, n)
    \/ \E q \in Slot : SysWait(p, q)
    \/ \E page \in pipes : PipeFree(p, page)

Spec == Init /\ [][Next]_vars
-----------------------------------------------------------------------------
(* Properties                                                               *)

\* Type invariant; a slot has pages exactly as long as it is in use.
TypeOK ==
  /\ \A i \in 1 .. Len(freelist) : freelist[i] \in Page
  /\ \A p \in Slot : \A i \in 1 .. Len(mem[p]) : mem[p][i] \in Page
  /\ life \in [Slot -> {"unused", "live", "zombie"}]
  /\ parent \in [Slot -> Slot]
  /\ pipes \subseteq Page /\ stale \subseteq Page /\ dirty \subseteq Page
  /\ panic \in {"none", "remap", "out of memory", "no slot"}
  /\ \A p \in Slot : life[p] = "unused" <=> mem[p] = <<>>

Pages(seq) == {seq[i] : i \in 1 .. Len(seq)}

\* A page has one user: the free list holds no page twice and no page of a
\* process or pipe, and no two of these share one, though fork and exec drop
\* most pages of an image and the free list is threaded through the pages.
PagesDisjoint ==
  /\ IsInjective(freelist) /\ \A p \in Slot : IsInjective(mem[p])
  /\ pipes \cap Pages(freelist) = {}
  /\ \A p \in Slot : /\ Pages(mem[p]) \cap Pages(freelist) = {}
                     /\ Pages(mem[p]) \cap pipes = {}
                     /\ \A q \in Slot \ {p} : Pages(mem[p]) \cap Pages(mem[q]) = {}

\* mappages() panics with "remap" when an entry it is about to write is valid:
\* its callers only map addresses of a page table they have just created.
NoRemap == panic # "remap"
=============================================================================
