------------------------------ MODULE MemProofs ------------------------------
(***************************************************************************)
(* Proofs about Mem for any number of processes, pages and arguments.      *)
(***************************************************************************)
EXTENDS Mem, SequenceTheorems, TLAPS

\* The shape of an image: proc_wait() finds the pages it frees because a
\* process cannot exit before its image is complete.
Shape ==
  /\ freelist \in Seq(Page) /\ mem \in [Slot -> Seq(Page)]
  /\ \A p \in Slot : /\ life[p] = "live"   => Len(mem[p]) \in {4, ImageSize}
                     /\ life[p] = "zombie" => Len(mem[p]) = ImageSize

MemInv == TypeOK /\ PagesDisjoint /\ Shape

USE MemAssumption
-----------------------------------------------------------------------------
(* Lists of pages                                                           *)

LEMMA ImageSizeFacts == ImageSize \in Nat /\ ImageSize >= 8
BY DEF ImageSize

\* A part of a list without repetitions is one.
LEMMA PartOfList ==
  ASSUME NEW s \in Seq(Page), IsInjective(s), NEW m \in Nat, NEW n \in Nat,
         1 <= m, m <= n + 1, n <= Len(s)
  PROVE  /\ SubSeq(s, m, n) \in Seq(Page) /\ Len(SubSeq(s, m, n)) = n - m + 1
         /\ IsInjective(SubSeq(s, m, n))
         /\ \A x : x \in Pages(SubSeq(s, m, n)) <=> \E i \in m .. n : x = s[i]
<1> DEFINE t == SubSeq(s, m, n)
<1>1. \A i \in m .. n : s[i] \in Page
  BY ElementOfSeq
<1>2. /\ t \in Seq(Page) /\ Len(t) = IF m <= n THEN n - m + 1 ELSE 0
      /\ \A i \in 1 .. n - m + 1 : t[i] = s[m + i - 1]
  BY <1>1, SubSeqProperties
<1>3. Len(t) = n - m + 1 BY <1>2
<1>4. DOMAIN t = 1 .. n - m + 1 /\ DOMAIN s = 1 .. Len(s)
  BY <1>2, <1>3, LenProperties
<1>5. IsInjective(t)
  <2> SUFFICES ASSUME NEW a \in 1 .. n - m + 1, NEW b \in 1 .. n - m + 1, t[a] = t[b]
               PROVE  a = b
    BY <1>4 DEF IsInjective
  <2>1. s[m + a - 1] = s[m + b - 1] BY <1>2
  <2>2. m + a - 1 \in DOMAIN s /\ m + b - 1 \in DOMAIN s BY <1>4
  <2>3. m + a - 1 = m + b - 1 BY <2>1, <2>2 DEF IsInjective
  <2> QED BY <2>3
<1>6. ASSUME NEW x PROVE x \in Pages(t) <=> \E i \in m .. n : x = s[i]
  <2>1. ASSUME x \in Pages(t) PROVE \E i \in m .. n : x = s[i]
    <3> PICK i \in 1 .. n - m + 1 : x = t[i] BY <1>3, <2>1 DEF Pages
    <3> QED BY <1>2
  <2>2. ASSUME NEW i \in m .. n, x = s[i] PROVE x \in Pages(t)
    <3>1. i - m + 1 \in 1 .. n - m + 1 /\ m + (i - m + 1) - 1 = i OBVIOUS
    <3>2. t[i - m + 1] = x BY <1>2, <2>2, <3>1
    <3> QED BY <1>3, <3>1, <3>2 DEF Pages
  <2> QED BY <2>1, <2>2
<1> QED BY <1>2, <1>3, <1>5, <1>6

\* kfree() of a page that is not on the list.
LEMMA PushOnList ==
  ASSUME NEW s \in Seq(Page), IsInjective(s), NEW x \in Page, x \notin Pages(s)
  PROVE  /\ kfree(s, x) \in Seq(Page) /\ IsInjective(kfree(s, x))
         /\ Pages(kfree(s, x)) = Pages(s) \cup {x}
<1> DEFINE t == <<x>> \o s
<1>1. <<x>> \in Seq(Page) /\ Len(<<x>>) = 1 /\ <<x>>[1] = x
  OBVIOUS
<1>2. /\ t \in Seq(Page) /\ Len(t) = Len(s) + 1
      /\ \A i \in 1 .. Len(s) + 1 : t[i] = IF i <= 1 THEN <<x>>[i] ELSE s[i - 1]
  BY <1>1, ConcatProperties
<1>3. Len(s) \in Nat /\ DOMAIN s = 1 .. Len(s) /\ DOMAIN t = 1 .. Len(s) + 1
  BY <1>2, LenProperties
<1>4. t[1] = x /\ \A i \in 2 .. Len(s) + 1 : t[i] = s[i - 1] /\ i - 1 \in 1 .. Len(s)
  BY <1>1, <1>2, <1>3
<1>5. IsInjective(t)
  <2> SUFFICES ASSUME NEW a \in 1 .. Len(s) + 1, NEW b \in 1 .. Len(s) + 1, t[a] = t[b]
               PROVE  a = b
    BY <1>3 DEF IsInjective
  <2>1. CASE a = 1 \/ b = 1
    BY <1>3, <1>4, <2>1 DEF Pages
  <2>2. CASE a # 1 /\ b # 1
    <3>1. s[a - 1] = s[b - 1] /\ a - 1 \in DOMAIN s /\ b - 1 \in DOMAIN s
      BY <1>3, <1>4, <2>2
    <3>2. a - 1 = b - 1 BY <3>1 DEF IsInjective
    <3> QED BY <1>3, <3>2
  <2> QED BY <2>1, <2>2
<1>6. Pages(t) = Pages(s) \cup {x}
  <2>1. ASSUME NEW y \in Pages(t) PROVE y \in Pages(s) \cup {x}
    BY <1>2, <1>3, <1>4, <2>1 DEF Pages
  <2>2. ASSUME NEW y \in Pages(s) PROVE y \in Pages(t)
    <3> PICK i \in 1 .. Len(s) : y = s[i] BY <2>2 DEF Pages
    <3>1. i + 1 \in 2 .. Len(s) + 1 /\ i + 1 - 1 = i BY <1>3
    <3>2. t[i + 1] = y BY <1>4, <3>1
    <3> QED BY <1>2, <1>3, <3>1, <3>2 DEF Pages
  <2>3. x \in Pages(t)
    BY <1>2, <1>3, <1>4 DEF Pages
  <2> QED BY <2>1, <2>2, <2>3
<1> QED BY <1>2, <1>5, <1>6 DEF kfree
-----------------------------------------------------------------------------
(* The actions                                                              *)

\* The pages of a process.
LEMMA PagesOfList ==
  ASSUME NEW s \in Seq(Page)
  PROVE  /\ Len(s) \in Nat /\ Pages(s) \subseteq Page
         /\ \A i \in 1 .. Len(s) : s[i] \in Page /\ s[i] \in Pages(s)
BY LenProperties, ElementOfSeq DEF Pages

\* What a step has to show of the lists, the rest of TypeOK being simple.
LEMMA ListsInv ==
  ASSUME freelist' \in Seq(Page), mem' \in [Slot -> Seq(Page)],
         life' \in [Slot -> {"unused", "live", "zombie"}], parent' \in [Slot -> Slot],
         pipes' \subseteq Page, stale' \subseteq Page, dirty' \subseteq Page,
         panic' \in {"none", "remap", "out of memory", "no slot"},
         \A p \in Slot : life'[p] = "unused" <=> mem'[p] = <<>>
  PROVE  TypeOK'
BY PagesOfList DEF TypeOK

\* Building an image takes its pages from the free list and from nobody else.
LEMMA BuildInv ==
  ASSUME MemInv, NEW p \in Slot, NEW skip \in Nat, Build(p, skip),
         life' \in [Slot -> {"unused", "live", "zombie"}], life'[p] = "live",
         \A q \in Slot \ {p} : life'[q] = life[q], parent' \in [Slot -> Slot]
  PROVE  MemInv'
<1> USE ImageSizeFacts
<1> DEFINE top == skip + ImageSize
           img == SubSeq(freelist, skip + 1, top)
<1>1. /\ freelist \in Seq(Page) /\ IsInjective(freelist) /\ Len(freelist) \in Nat
      /\ top \in Nat /\ top <= Len(freelist)
  BY PagesOfList DEF MemInv, Shape, PagesDisjoint, Build, Short
<1>2. /\ img \in Seq(Page) /\ Len(img) = ImageSize /\ IsInjective(img)
      /\ \A x : x \in Pages(img) <=> \E i \in skip + 1 .. top : x = freelist[i]
  <2>1. skip + 1 \in Nat /\ 1 <= skip + 1 /\ skip + 1 <= top + 1 BY <1>1
  <2>2. /\ img \in Seq(Page) /\ Len(img) = top - (skip + 1) + 1 /\ IsInjective(img)
        /\ \A x : x \in Pages(img) <=> \E i \in skip + 1 .. top : x = freelist[i]
    BY <1>1, <2>1, PartOfList
  <2> QED BY <2>2
<1>3. /\ freelist' \in Seq(Page) /\ IsInjective(freelist')
      /\ \A x : x \in Pages(freelist') <=> \E i \in top + 1 .. Len(freelist) : x = freelist[i]
  <2>1. freelist' = SubSeq(freelist, top + 1, Len(freelist))
    BY DEF Build, Left
  <2>2. top + 1 \in Nat /\ 1 <= top + 1 /\ top + 1 <= Len(freelist) + 1 BY <1>1
  <2> QED BY <1>1, <2>1, <2>2, PartOfList
<1>4. Pages(img) \subseteq Pages(freelist) /\ Pages(freelist') \subseteq Pages(freelist)
  <2>1. \A i \in 1 .. Len(freelist) : freelist[i] \in Pages(freelist) BY <1>1, PagesOfList
  <2>2. \A i \in skip + 1 .. top : i \in 1 .. Len(freelist) BY <1>1
  <2>3. \A i \in top + 1 .. Len(freelist) : i \in 1 .. Len(freelist) BY <1>1
  <2>4. ASSUME NEW x \in Pages(img) PROVE x \in Pages(freelist) BY <1>2, <2>1, <2>2
  <2>5. ASSUME NEW x \in Pages(freelist') PROVE x \in Pages(freelist) BY <1>3, <2>1, <2>3
  <2> QED BY <2>4, <2>5
<1>5. Pages(img) \cap Pages(freelist') = {}
  <2>1. DOMAIN freelist = 1 .. Len(freelist) BY <1>1, LenProperties
  <2>2. ASSUME NEW i \in skip + 1 .. top, NEW j \in top + 1 .. Len(freelist)
        PROVE  freelist[i] # freelist[j]
    <3>1. i \in DOMAIN freelist /\ j \in DOMAIN freelist /\ i # j BY <1>1, <2>1
    <3> QED BY <1>1, <3>1 DEF IsInjective
  <2> QED BY <1>2, <1>3, <2>2
<1>6. mem' = [mem EXCEPT ![p] = img] /\ UNCHANGED <<pipes, panic>>
  BY DEF Build, Taken
<1>7. /\ mem' \in [Slot -> Seq(Page)] /\ mem'[p] = img
      /\ \A q \in Slot \ {p} : mem'[q] = mem[q]
  BY <1>2, <1>6 DEF MemInv, Shape
<1>8. img # <<>>
  <2>1. Len(<<>>) = 0 OBVIOUS
  <2> HIDE DEF img
  <2> QED BY <1>2, <2>1
<1>9. stale' \subseteq Page /\ dirty' \subseteq Page
  <2>1. img[1] \in Page /\ img[4] \in Page
    <3>1. 1 \in 1 .. Len(img) /\ 4 \in 1 .. Len(img) BY <1>2
    <3> HIDE DEF img
    <3> QED BY <1>2, <3>1, PagesOfList
  <2> QED BY <2>1 DEF Build, Taken, Root, Frame, MemInv, TypeOK
<1>10. TypeOK'
  <2>1. \A q \in Slot : life'[q] = "unused" <=> mem'[q] = <<>>
    BY <1>7, <1>8 DEF MemInv, TypeOK
  <2>2. pipes' \subseteq Page /\ panic' \in {"none", "remap", "out of memory", "no slot"}
    BY <1>6 DEF MemInv, TypeOK
  <2> QED BY <1>3, <1>7, <1>9, <2>1, <2>2, ListsInv
<1>11. Shape'
  BY <1>2, <1>3, <1>7 DEF MemInv, Shape
<1>12. PagesDisjoint'
  BY <1>2, <1>3, <1>4, <1>5, <1>6, <1>7 DEF MemInv, PagesDisjoint
<1> QED BY <1>10, <1>11, <1>12 DEF MemInv

\* The kernel stops: nothing changes but `panic`.
LEMMA StopInv ==
  ASSUME MemInv, NEW reason \in {"none", "remap", "out of memory", "no slot"}, Stop(reason)
  PROVE  MemInv'
BY DEF Stop, MemInv, TypeOK, PagesDisjoint, Shape

LEMMA BuildStopsInv == ASSUME MemInv, NEW skip \in Nat, BuildStops(skip) PROVE MemInv'
BY StopInv DEF BuildStops

\* proc_wait() gives back two pages of the zombie, which nobody else has.
LEMMA SysWaitInv ==
  ASSUME MemInv, NEW p \in Slot, NEW q \in Slot, SysWait(p, q) PROVE MemInv'
<1> USE ImageSizeFacts
<1> DEFINE m == mem[q]
           one == kfree(freelist, m[4])
<1>1. /\ m \in Seq(Page) /\ Len(m) = ImageSize /\ IsInjective(m)
      /\ freelist \in Seq(Page) /\ IsInjective(freelist)
      /\ Pages(m) \cap Pages(freelist) = {}
  BY DEF SysWait, MemInv, Shape, PagesDisjoint
<1>2. m[1] \in Page /\ m[4] \in Page /\ m[1] \in Pages(m) /\ m[4] \in Pages(m)
  BY <1>1, PagesOfList
<1>3. m[1] # m[4]
  <2>1. 1 \in DOMAIN m /\ 4 \in DOMAIN m BY <1>1, LenProperties
  <2> QED BY <1>1, <2>1 DEF IsInjective
<1>4. /\ one \in Seq(Page) /\ IsInjective(one) /\ Pages(one) = Pages(freelist) \cup {m[4]}
  BY <1>1, <1>2, PushOnList
<1>5. /\ freelist' \in Seq(Page) /\ IsInjective(freelist')
      /\ Pages(freelist') = Pages(one) \cup {m[1]}
  <2>1. freelist' = kfree(one, m[1]) BY DEF SysWait, Frame, Root
  <2>2. m[1] \notin Pages(one) BY <1>1, <1>2, <1>3, <1>4
  <2> QED BY <1>2, <1>4, <2>1, <2>2, PushOnList
<1>6. /\ mem' \in [Slot -> Seq(Page)] /\ mem'[q] = <<>>
      /\ \A r \in Slot \ {q} : mem'[r] = mem[r]
  BY EmptySeq DEF SysWait, MemInv, Shape
<1>7. /\ life' \in [Slot -> {"unused", "live", "zombie"}] /\ life'[q] = "unused"
      /\ \A r \in Slot \ {q} : life'[r] = life[r]
  BY DEF SysWait, MemInv, TypeOK
<1>8. UNCHANGED <<parent, pipes, stale, dirty, panic>>
  BY DEF SysWait
<1>9. TypeOK'
  <2>1. \A r \in Slot : life'[r] = "unused" <=> mem'[r] = <<>>
    BY <1>6, <1>7 DEF MemInv, TypeOK
  <2> QED BY <1>5, <1>6, <1>7, <1>8, <2>1, ListsInv DEF MemInv, TypeOK
<1>10. Shape'
  BY <1>5, <1>6, <1>7 DEF MemInv, Shape
<1>11. PagesDisjoint'
  <2>1. Len(<<>>) = 0 /\ DOMAIN <<>> = {} OBVIOUS
  <2>2. Pages(<<>>) = {} /\ IsInjective(<<>>) BY <2>1 DEF Pages, IsInjective
  <2> HIDE DEF one
  <2>3. Pages(freelist') = Pages(freelist) \cup {m[4], m[1]} BY <1>4, <1>5
  <2>4. \A r \in Slot : mem'[r] = <<>> \/ (r # q /\ mem'[r] = mem[r]) BY <1>6
  <2>5. \A r \in Slot : IsInjective(mem'[r]) BY <2>2, <2>4 DEF MemInv, PagesDisjoint
  <2>6. pipes' \cap Pages(freelist') = {} BY <1>2, <1>8, <2>3 DEF MemInv, PagesDisjoint
  <2>7. ASSUME NEW r \in Slot
        PROVE  /\ Pages(mem'[r]) \cap Pages(freelist') = {}
               /\ Pages(mem'[r]) \cap pipes' = {}
               /\ \A a \in Slot \ {r} : Pages(mem'[r]) \cap Pages(mem'[a]) = {}
    <3>1. CASE mem'[r] = <<>> BY <2>2, <3>1
    <3>2. CASE r # q /\ mem'[r] = mem[r]
      <4>1. Pages(mem[r]) \cap Pages(m) = {} /\ Pages(mem[r]) \cap Pages(freelist) = {}
        BY <3>2 DEF MemInv, PagesDisjoint
      <4>2. Pages(mem'[r]) \cap Pages(freelist') = {} BY <1>2, <2>3, <3>2, <4>1
      <4>3. Pages(mem'[r]) \cap pipes' = {} BY <1>8, <3>2 DEF MemInv, PagesDisjoint
      <4>4. \A a \in Slot \ {r} : Pages(mem'[r]) \cap Pages(mem'[a]) = {}
        BY <2>2, <2>4, <3>2 DEF MemInv, PagesDisjoint
      <4> QED BY <4>2, <4>3, <4>4
    <3> QED BY <2>4, <3>1, <3>2
  <2> QED BY <1>5, <2>5, <2>6, <2>7 DEF PagesDisjoint
<1> QED BY <1>9, <1>10, <1>11 DEF MemInv

\* pipe_alloc() takes the first page of the list.
LEMMA PipeAllocInv == ASSUME MemInv, NEW p \in Slot, PipeAlloc(p) PROVE MemInv'
<1>1. CASE freelist = <<>> /\ Stop("out of memory")
  BY <1>1, StopInv
<1>2. CASE /\ freelist # <<>>
           /\ pipes' = pipes \cup {Head(freelist)} /\ dirty' = dirty \cup {Head(freelist)}
           /\ freelist' = Tail(freelist)
           /\ UNCHANGED <<mem, life, parent, stale, panic>>
  <2>1. /\ freelist \in Seq(Page) /\ IsInjective(freelist) /\ Len(freelist) \in Nat
        /\ Len(freelist) >= 1
    BY <1>2, EmptySeq DEF MemInv, Shape, PagesDisjoint
  <2>2. Head(freelist) = freelist[1] /\ Tail(freelist) = SubSeq(freelist, 2, Len(freelist))
    BY <1>2, <2>1, TailIsSubSeq
  <2>3. /\ freelist' \in Seq(Page) /\ IsInjective(freelist')
        /\ \A x : x \in Pages(freelist') <=> \E i \in 2 .. Len(freelist) : x = freelist[i]
    <3>1. 2 \in Nat /\ 1 <= 2 /\ 2 <= Len(freelist) + 1 /\ Len(freelist) <= Len(freelist)
      BY <2>1
    <3>2. freelist' = SubSeq(freelist, 2, Len(freelist)) BY <1>2, <2>2
    <3> QED BY <2>1, <3>1, <3>2, PartOfList
  <2>4. /\ Head(freelist) \in Page /\ Head(freelist) \in Pages(freelist)
        /\ Pages(freelist') \subseteq Pages(freelist)
    <3>1. \A i \in 1 .. Len(freelist) : freelist[i] \in Page /\ freelist[i] \in Pages(freelist)
      BY <2>1, PagesOfList
    <3>2. 1 \in 1 .. Len(freelist) /\ \A i \in 2 .. Len(freelist) : i \in 1 .. Len(freelist)
      BY <2>1
    <3>3. ASSUME NEW x \in Pages(freelist') PROVE x \in Pages(freelist) BY <2>3, <3>1, <3>2
    <3> QED BY <2>2, <3>1, <3>2, <3>3
  <2>5. Head(freelist) \notin Pages(freelist')
    <3>1. DOMAIN freelist = 1 .. Len(freelist) BY <2>1, LenProperties
    <3>2. \A i \in 2 .. Len(freelist) : freelist[i] # freelist[1]
      BY <2>1, <3>1 DEF IsInjective
    <3> QED BY <2>2, <2>3, <3>2
  <2>6. TypeOK'
    BY <1>2, <2>3, <2>4, ListsInv DEF MemInv, TypeOK, Shape
  <2>7. Shape'
    BY <1>2, <2>3 DEF MemInv, Shape
  <2>8. PagesDisjoint'
    <3>1. pipes' \cap Pages(freelist') = {} BY <1>2, <2>4, <2>5 DEF MemInv, PagesDisjoint
    <3>2. ASSUME NEW r \in Slot
          PROVE  Pages(mem[r]) \cap Pages(freelist') = {} /\ Pages(mem[r]) \cap pipes' = {}
      <4>1. Pages(mem[r]) \cap Pages(freelist) = {} /\ Pages(mem[r]) \cap pipes = {}
        BY DEF MemInv, PagesDisjoint
      <4> QED BY <1>2, <2>4, <4>1
    <3> QED BY <1>2, <2>3, <3>1, <3>2 DEF MemInv, PagesDisjoint
  <2> QED BY <2>6, <2>7, <2>8 DEF MemInv
<1> QED BY <1>1, <1>2 DEF PipeAlloc

\* The second close of a pipe gives its page back.
LEMMA PipeFreeInv ==
  ASSUME MemInv, NEW p \in Slot, NEW page \in pipes, PipeFree(p, page) PROVE MemInv'
<1>1. page \in Page /\ page \notin Pages(freelist)
  BY DEF MemInv, TypeOK, PagesDisjoint
<1>2. /\ freelist' \in Seq(Page) /\ IsInjective(freelist')
      /\ Pages(freelist') = Pages(freelist) \cup {page}
  BY <1>1, PushOnList DEF PipeFree, MemInv, Shape, PagesDisjoint
<1>3. pipes' = pipes \ {page} /\ UNCHANGED <<mem, life, parent, stale, dirty, panic>>
  BY DEF PipeFree
<1>4. TypeOK'
  BY <1>2, <1>3, ListsInv DEF MemInv, TypeOK, Shape
<1>5. Shape'
  BY <1>2, <1>3 DEF MemInv, Shape
<1>6. PagesDisjoint'
  BY <1>1, <1>2, <1>3 DEF MemInv, PagesDisjoint
<1> QED BY <1>4, <1>5, <1>6 DEF MemInv

LEMMA SysForkInv == ASSUME MemInv, NEW p \in Slot, SysFork(p) PROVE MemInv'
<1>1. CASE Stop("no slot") BY <1>1, StopInv
<1>2. CASE BuildStops(0) BY <1>2, BuildStopsInv
<1>3. ASSUME NEW q \in Slot, Build(q, 0), life' = [life EXCEPT ![q] = "live"],
             parent' = [parent EXCEPT ![q] = p]
      PROVE  MemInv'
  BY <1>3, BuildInv DEF MemInv, TypeOK
<1> QED BY <1>1, <1>2, <1>3 DEF SysFork

LEMMA SysExecInv ==
  ASSUME MemInv, NEW p \in Slot, NEW n \in Nat, SysExec(p, n) PROVE MemInv'
<1>1. CASE BuildStops(n) BY <1>1, BuildStopsInv
<1>2. CASE Build(p, n) /\ UNCHANGED <<life, parent>>
  BY <1>2, BuildInv DEF SysExec, Runs, MemInv, TypeOK
<1> QED BY <1>1, <1>2 DEF SysExec

LEMMA SysExitInv == ASSUME MemInv, NEW p \in Slot, SysExit(p) PROVE MemInv'
<1>1. TypeOK'
  BY DEF SysExit, Ready, Runs, MemInv, TypeOK
<1>2. Shape'
  BY DEF SysExit, Ready, MemInv, TypeOK, Shape
<1>3. PagesDisjoint'
  BY DEF SysExit, MemInv, PagesDisjoint
<1> QED BY <1>1, <1>2, <1>3 DEF MemInv
-----------------------------------------------------------------------------
\* userinit() has taken the first four pages.
LEMMA MemInitInv == Init => MemInv
<1> SUFFICES ASSUME Init PROVE MemInv OBVIOUS
<1>1. /\ freelist \in Seq(Page) /\ Len(freelist) = NPAGES - 4
  <2>1. freelist \in [1 .. NPAGES - 4 -> Page] BY DEF Init, Page
  <2>2. freelist \in Seq(Page) BY <2>1, SeqDef
  <2>3. Len(freelist) \in Nat /\ DOMAIN freelist = 1 .. Len(freelist) BY <2>2, LenProperties
  <2>4. DOMAIN freelist = 1 .. NPAGES - 4 BY DEF Init
  <2> QED BY <2>2, <2>3, <2>4
<1>2. /\ 0 \in Slot /\ <<1, 2, 3, 4>> \in Seq(Page) /\ Len(<<1, 2, 3, 4>>) = 4
      /\ <<>> \in Seq(Page)
  BY DEF Slot, Page
<1>3. mem \in [Slot -> Seq(Page)] BY <1>2 DEF Init
<1>4. /\ mem[0] = <<1, 2, 3, 4>> /\ life[0] = "live"
      /\ \A p \in Slot \ {0} : mem[p] = <<>> /\ life[p] = "unused"
  BY <1>2 DEF Init
<1>5. <<1, 2, 3, 4>> # <<>> BY <1>2
<1>6. TypeOK
  <2>1. \A p \in Slot : life[p] = "unused" <=> mem[p] = <<>> BY <1>2, <1>4, <1>5
  <2>2. /\ \A i \in 1 .. Len(freelist) : freelist[i] \in Page
        /\ \A p \in Slot : \A i \in 1 .. Len(mem[p]) : mem[p][i] \in Page
    BY <1>1, <1>3, PagesOfList
  <2>3. /\ life \in [Slot -> {"unused", "live", "zombie"}] /\ parent \in [Slot -> Slot]
        /\ pipes \subseteq Page /\ stale \subseteq Page /\ dirty \subseteq Page
        /\ panic = "none"
    BY <1>2 DEF Init, Page
  <2> QED BY <2>1, <2>2, <2>3 DEF TypeOK
<1>7. Shape
  BY <1>1, <1>2, <1>3, <1>4 DEF Shape
<1>8. PagesDisjoint
  <2>1. IsInjective(freelist) BY DEF Init, IsInjective
  <2>2. Pages(freelist) \cap {1, 2, 3, 4} = {}
    BY <1>1 DEF Init, Pages
  <2>3. Pages(<<1, 2, 3, 4>>) = {1, 2, 3, 4} /\ IsInjective(<<1, 2, 3, 4>>)
    BY <1>2 DEF Pages, IsInjective
  <2>4. Pages(<<>>) = {} /\ IsInjective(<<>>)
    <3>1. Len(<<>>) = 0 /\ DOMAIN <<>> = {} OBVIOUS
    <3> QED BY <3>1 DEF Pages, IsInjective
  <2>5. pipes = {} BY DEF Init
  <2>6. \A p \in Slot : p # 0 => Pages(mem[p]) = {} BY <1>4, <2>4
  <2>7. Pages(mem[0]) = {1, 2, 3, 4} BY <1>4, <2>3
  <2>8. \A p \in Slot : IsInjective(mem[p]) BY <1>4, <2>3, <2>4
  <2> QED BY <2>1, <2>2, <2>5, <2>6, <2>7, <2>8 DEF PagesDisjoint
<1> QED BY <1>6, <1>7, <1>8 DEF MemInv

\* MemInv is inductive.
LEMMA MemNextInv == MemInv /\ [Next]_vars => MemInv'
<1> SUFFICES ASSUME MemInv, [Next]_vars PROVE MemInv' OBVIOUS
<1>1. CASE UNCHANGED vars
  BY <1>1 DEF vars, MemInv, TypeOK, PagesDisjoint, Shape
<1>2. ASSUME NEW p \in Slot, NEW n \in 0 .. MAXARGS, SysExec(p, n) PROVE MemInv'
  BY <1>2, SysExecInv
<1> QED BY <1>1, <1>2, SysForkInv, SysExitInv, PipeAllocInv, SysWaitInv, PipeFreeInv DEF Next

\* The inductive invariant holds in every reachable state.
THEOREM MemSpecInv == Spec => []MemInv
BY MemInitInv, MemNextInv, PTL DEF Spec

\* The types of Mem; a slot has pages exactly as long as it is in use.
THEOREM MemTypeCorrect == Spec => []TypeOK
<1>1. MemInv => TypeOK BY DEF MemInv
<1> QED BY <1>1, MemSpecInv, PTL

\* No page ever has two users, for any number of processes and pages: kalloc()
\* never hands out a page in use, and kfree() is never called twice for one.
THEOREM PagesHaveOneUser == Spec => []PagesDisjoint
<1>1. MemInv => PagesDisjoint BY DEF MemInv
<1> QED BY <1>1, MemSpecInv, PTL
=============================================================================
