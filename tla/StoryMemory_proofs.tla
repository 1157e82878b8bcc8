------------------------- MODULE StoryMemory_proofs -------------------------
(***************************************************************************)
(* Proofs about StoryMemory, for all values of its constants.              *)
(*                                                                         *)
(* MInv is the inductive invariant, one half per table.  MemoryInv: a      *)
(* compaction writes its merged row at a time no other row has, so the     *)
(* row is never the one it deletes, and rows become visible further the    *)
(* later they are written, unless they are merged rows themselves.  The    *)
(* merged row's time is older than the read, so what a compaction leaves   *)
(* is compared with what it read, and not with its time.                   *)
(* FactsInv holds one update after the other because each is refused once  *)
(* a row is invalid: Resolved is defined by recursion over the pairs, and  *)
(* UpdatesRun shows by induction on its length that every intermediate     *)
(* list of rows is Sound.                                                  *)
(***************************************************************************)
EXTENDS StoryMemory, FiniteSetTheorems, WellFoundedInduction, TLAPS

-----------------------------------------------------------------------------
(* Numbers and finite sets.                                                *)

\* A set of natural numbers has a least element.
LEMMA LeastNumber ==
    ASSUME NEW T \in SUBSET Nat, T # {}
    PROVE  \E m \in T : \A n \in T : m <= n
<1>. DEFINE Below == {1 .. n : n \in T}
<1>1. Below \subseteq FiniteSubsetsOf(Nat) /\ Below # {}
  <2>1. \A n \in Nat : 1 .. n \in SUBSET Nat /\ IsFiniteSet(1 .. n)
    BY FS_Interval
  <2>2. \A n \in Nat : 1 .. n \in FiniteSubsetsOf(Nat)
    BY <2>1 DEF FiniteSubsetsOf
  <2>. QED
    BY <2>2
<1>2. PICK B \in Below :
        \A D \in Below : ~(<<D, B>> \in StrictSubsetOrdering(Nat))
  <2>. HIDE DEF Below
  <2>. QED
    BY <1>1, FS_StrictSubsetOrderingWellFounded, WFMin
<1>3. PICK m \in T : B = 1 .. m
  BY <1>2
<1>4. \A n \in T : ~(1 .. n \subseteq 1 .. m /\ 1 .. n # 1 .. m)
  <2>1. TAKE n \in T
  <2>2. 1 .. n \in SUBSET Nat /\ 1 .. m \in SUBSET Nat
    OBVIOUS
  <2>3. <<1 .. n, 1 .. m>> \notin StrictSubsetOrdering(Nat)
    BY <1>2, <1>3
  <2>. QED
    BY <2>2, <2>3 DEF StrictSubsetOrdering
<1>5. \A n \in T : m <= n
  <2>1. TAKE n \in T
  <2>2. CASE n < m
    <3>1. m \in 1 .. m /\ m \notin 1 .. n
      BY <2>2
    <3>2. 1 .. n \subseteq 1 .. m
      BY <2>2
    <3>. QED
      BY <1>4, <3>1, <3>2
  <2>. QED
    BY <2>2
<1>. QED
  BY <1>5

\* A non-empty finite set with a key has an element of the greatest key.
LEMMA Greatest ==
    ASSUME NEW S, IsFiniteSet(S), S # {}, NEW key,
           \A x \in S : key[x] \in Nat
    PROVE  \E x \in S : \A y \in S : key[y] <= key[x]
<1>. DEFINE Above(x) == {y \in S : key[x] < key[y]}
            All == {Above(x) : x \in S}
<1>1. All \subseteq FiniteSubsetsOf(S) /\ All # {}
  <2>1. \A x \in S : Above(x) \in SUBSET S /\ IsFiniteSet(Above(x))
    BY FS_Subset
  <2>. QED
    BY <2>1 DEF FiniteSubsetsOf
<1>2. PICK B \in All : \A D \in All : ~(<<D, B>> \in StrictSubsetOrdering(S))
  <2>. HIDE DEF All
  <2>. QED
    BY <1>1, FS_StrictSubsetOrderingWellFounded, WFMin
<1>3. PICK x \in S : B = Above(x)
  BY <1>2
<1>4. ASSUME NEW y \in S, ~(key[y] <= key[x])
      PROVE  FALSE
  <2>1. y \in Above(x) /\ y \notin Above(y)
    BY <1>4
  <2>2. Above(y) \subseteq Above(x)
    BY <1>4
  <2>3. Above(y) \in SUBSET S /\ Above(x) \in SUBSET S
    OBVIOUS
  <2>4. <<Above(y), Above(x)>> \in StrictSubsetOrdering(S)
    BY <2>1, <2>2, <2>3 DEF StrictSubsetOrdering
  <2>. QED
    BY <1>2, <1>3, <2>4
<1>. QED
  BY <1>4

\* With a key that tells the elements apart, InOrder has every place filled.
LEMMA OrderIsIn ==
    ASSUME NEW S, IsFiniteSet(S), NEW key,
           \A x \in S : key[x] \in Nat,
           \A x, y \in S : key[x] = key[y] => x = y
    PROVE  /\ Cardinality(S) \in Nat
           /\ InOrder(S, key) \in Seq(S)
           /\ Len(InOrder(S, key)) = Cardinality(S)
<1>. DEFINE Below(x) == {y \in S : key[y] < key[x]}
            UpTo(x) == {y \in S : key[y] <= key[x]}
<1>1. Cardinality(S) \in Nat
  BY FS_CardinalityType
<1>2. ASSUME NEW x \in S
      PROVE  /\ Cardinality(Below(x)) \in Nat /\ Cardinality(UpTo(x)) \in Nat
             /\ Cardinality(UpTo(x)) = Cardinality(Below(x)) + 1
  <2>1. IsFiniteSet(Below(x)) /\ IsFiniteSet(UpTo(x))
    BY FS_Subset
  <2>2. UpTo(x) = Below(x) \cup {x} /\ x \notin Below(x)
    OBVIOUS
  <2>. QED
    BY <2>1, <2>2, FS_AddElement, FS_CardinalityType
<1>3. ASSUME NEW n \in 1 .. Cardinality(S)
      PROVE  \E x \in S : Cardinality(Below(x)) = n - 1
  <2>. DEFINE T == {v \in Nat : \E x \in S : /\ key[x] = v
                                             /\ Cardinality(UpTo(x)) >= n}
  <2>1. T # {}
    <3>1. S # {}
      BY <1>1, FS_EmptySet
    <3>2. PICK x \in S : \A y \in S : key[y] <= key[x]
      BY <3>1, Greatest
    <3>3. UpTo(x) = S
      BY <3>2
    <3>4. Cardinality(UpTo(x)) >= n /\ key[x] \in Nat
      BY <1>1, <3>3
    <3>. QED
      BY <3>4
  <2>2. PICK m \in T : \A v \in T : m <= v
    BY <2>1, LeastNumber
  <2>3. PICK x \in S : key[x] = m /\ Cardinality(UpTo(x)) >= n
    BY <2>2
  <2>4. Cardinality(Below(x)) <= n - 1
    <3>1. CASE Below(x) = {}
      BY <3>1, FS_EmptySet
    <3>2. CASE Below(x) # {}
      <4>1. IsFiniteSet(Below(x)) /\ \A y \in Below(x) : key[y] \in Nat
        BY FS_Subset
      <4>2. PICK z \in Below(x) : \A y \in Below(x) : key[y] <= key[z]
        <5>. HIDE DEF Below
        <5>. QED
          BY <3>2, <4>1, Greatest
      <4>3. UpTo(z) = Below(x) /\ z \in S /\ key[z] < m /\ key[z] \in Nat
        BY <2>3, <4>2
      <4>4. ~(Cardinality(UpTo(z)) >= n)
        <5>1. T \subseteq Nat
          OBVIOUS
        <5>2. key[z] \notin T
          <6>. HIDE DEF T
          <6>. QED
            BY <2>2, <4>3, <5>1
        <5>. QED
          BY <4>3, <5>2
      <4>5. ~(Cardinality(Below(x)) >= n) /\ Cardinality(Below(x)) \in Nat
        BY <1>2, <4>3, <4>4
      <4>. HIDE DEF Below
      <4>. QED
        BY <1>1, <4>5
    <3>. QED
      BY <3>1, <3>2
  <2>. QED
    BY <1>2, <2>3, <2>4
<1>4. \A n \in 1 .. Cardinality(S) : InOrder(S, key)[n] \in S
  BY <1>3 DEF InOrder
<1>5. InOrder(S, key) = [n \in 1 .. Cardinality(S) |-> InOrder(S, key)[n]]
  <2>. DEFINE At(n) == CHOOSE x \in S : Cardinality(Below(x)) = n - 1
  <2>1. InOrder(S, key) = [n \in 1 .. Cardinality(S) |-> At(n)]
    BY DEF InOrder
  <2>. HIDE DEF At
  <2>. QED
    BY <2>1
<1>. QED
  BY <1>1, <1>4, <1>5

-----------------------------------------------------------------------------
(* The memories: the invariant.                                            *)

MemoryTypes ==
    /\ memories \in SUBSET Row /\ IsFiniteSet(memories)
    /\ \A r, o \in memories : r.at = o.at => r = o
    /\ told \in 0 .. MaxEntries /\ clock \in Nat
    /\ job \in [Compactions -> [pc : {"new", "begun", "write", "done"}, at : Nat,
                                overflow : SUBSET Row]]

\* A row holds memories that were told, and is visible through one of them.
Bounded(r) ==
    r.holds # {} /\ r.holds \subseteq 1 .. told /\ r.through <= told

\* An older row is not visible further than a newer one that is no merged row.
InStep(r, h) == ~h.compacted /\ r.at < h.at => r.through <= h.through

RowsInv ==
    /\ \A r \in memories : Bounded(r) /\ r.at < clock
    /\ \A r, h \in memories : InStep(r, h)

Writes(k) == job[k].pc = "write"

Running(k) == job[k].pc \in {"begun", "write"}

\* A running compaction has a time of its own.
TimeInv(k) ==
    /\ job[k].at < clock
    /\ \A h \in memories : h.at # job[k].at
    /\ \A l \in Compactions : Running(l) /\ job[l].at = job[k].at => l = k

\* A compaction that has read: what it left, and what was remembered since, is
\* visible further unless it is merged.
JobInv(k) ==
    /\ job[k].overflow # {}
    /\ \A r \in job[k].overflow : Bounded(r) /\ r.at < clock /\ r.at # job[k].at
    /\ \A r, h \in job[k].overflow : InStep(r, h) /\ (r.at = h.at => r = h)
    /\ \A h \in memories : ~h.compacted /\ h \notin job[k].overflow =>
         \A r \in job[k].overflow : r.through <= h.through

MemoryInv ==
    /\ MemoryTypes /\ RowsInv /\ NothingForgotten
    /\ \A k \in Compactions : Running(k) => TimeInv(k)
    /\ \A k \in Compactions : Writes(k) => JobInv(k)

-----------------------------------------------------------------------------
(* The memories: steps.                                                    *)

\* The newest of the rows that a compaction read.
LEMMA NewestIs ==
    ASSUME NEW rows \in SUBSET Row, rows # {}, NEW c \in Nat,
           \A r \in rows : r.at < c
    PROVE  /\ Newest(rows) \in rows
           /\ \A o \in rows : o.at <= Newest(rows).at
<1>. DEFINE T == {v \in Nat : \E r \in rows : v = c - r.at}
<1>1. \A r \in rows : r.at \in Nat /\ c - r.at \in T
  BY DEF Row
<1>2. T # {}
  BY <1>1
<1>3. PICK m \in T : \A v \in T : m <= v
  BY <1>2, LeastNumber
<1>4. PICK r \in rows : m = c - r.at
  BY <1>3
<1>5. \A o \in rows : o.at <= r.at
  <2>1. TAKE o \in rows
  <2>2. c - o.at \in T /\ o.at \in Nat /\ r.at \in Nat
    BY <1>1
  <2>. HIDE DEF T
  <2>3. m <= c - o.at
    BY <1>3, <2>2
  <2>. QED
    BY <1>4, <2>2, <2>3
<1>. QED
  BY <1>5 DEF Newest

\* The merged row of a compaction.
LEMMA MergedIs ==
    ASSUME MemoryInv, NEW k \in Compactions, Writes(k)
    PROVE  /\ Merged(k) \in Row /\ Bounded(Merged(k))
           /\ Merged(k).at = job[k].at /\ Merged(k).compacted
           /\ Merged(k) \notin job[k].overflow
           /\ Merged(k).holds = UNION {r.holds : r \in job[k].overflow}
           /\ Newest(job[k].overflow) \in job[k].overflow
           /\ \A o \in job[k].overflow :
                o.at <= Newest(job[k].overflow).at
           /\ Merged(k).through = Newest(job[k].overflow).through
<1>1. /\ job[k].overflow \in SUBSET Row /\ job[k].at \in Nat
      /\ JobInv(k) /\ told \in Nat /\ clock \in Nat
  BY DEF MemoryInv, MemoryTypes
<1>2. PICK rows \in SUBSET Row, at \in Nat :
        rows = job[k].overflow /\ at = job[k].at
  BY <1>1
<1>3. /\ rows # {}
      /\ \A r \in rows : Bounded(r) /\ r.at < clock /\ r.at # at
  BY <1>1, <1>2 DEF JobInv
<1>4. Newest(rows) \in rows /\ \A o \in rows : o.at <= Newest(rows).at
  BY <1>1, <1>3, NewestIs
<1>5. PICK n \in rows : n = Newest(rows)
  BY <1>4
<1>6. PICK h : h = UNION {r.holds : r \in rows}
  OBVIOUS
<1>7. Merged(k) = [at |-> at, through |-> n.through, compacted |-> TRUE,
                   holds |-> h]
  BY <1>2, <1>5, <1>6 DEF Merged, Through
<1>8. h \subseteq 1 .. told /\ h \in SUBSET Entries
  BY <1>3, <1>6 DEF Bounded, Row
<1>9. h # {}
  BY <1>3, <1>6 DEF Bounded
<1>10. n \in Row /\ n.through <= told /\ n.through \in Entries
  BY <1>3 DEF Bounded, Row
<1>11. Merged(k) \in Row /\ Bounded(Merged(k))
  BY <1>7, <1>8, <1>9, <1>10 DEF Row, Bounded
<1>12. Merged(k).at = at /\ Merged(k) \notin rows
  BY <1>3, <1>7
<1>. QED
  BY <1>2, <1>4, <1>5, <1>6, <1>7, <1>11, <1>12

\* Nothing is remembered, read or merged at the start.
LEMMA InitMemoryInv == Init => MemoryInv
<1>. SUFFICES ASSUME Init PROVE MemoryInv
  OBVIOUS
<1>1. MemoryTypes
  BY MemoryConstantsOK, FS_EmptySet DEF Init, MemoryTypes, IdleJob
<1>2. RowsInv /\ NothingForgotten
  BY DEF Init, RowsInv, NothingForgotten
<1>3. \A k \in Compactions : ~Writes(k) /\ ~Running(k)
  BY DEF Init, Writes, Running, IdleJob
<1>. QED
  BY <1>1, <1>2, <1>3 DEF MemoryInv

\* A new memory is the newest row and visible further than all others.
LEMMA RememberStep ==
    ASSUME MemoryInv, Remember
    PROVE  MemoryInv'
<1>. PICK new : new = [at |-> clock, holds |-> {told + 1},
                       through |-> told + 1, compacted |-> FALSE]
  OBVIOUS
<1>1. /\ told \in Nat /\ told + 1 \in Entries /\ clock \in Nat
      /\ told' = told + 1 /\ clock' = clock + 1 /\ job' = job
      /\ memories' = memories \cup {new}
      /\ memories \in SUBSET Row
  BY MemoryConstantsOK DEF Remember, MemoryInv, MemoryTypes, Entries
<1>2. /\ new \in Row /\ new.at = clock /\ new.through = told + 1
      /\ new.holds = {told + 1} /\ ~new.compacted
  BY <1>1 DEF Row
<1>3. 1 .. told \subseteq 1 .. told' /\ told + 1 \in 1 .. told'
  BY <1>1
<1>4. \A r \in memories : Bounded(r) => Bounded(r)'
  <2>1. \A r \in memories : r.through <= told => r.through <= told'
    BY <1>1 DEF Row, Entries
  <2>. QED
    BY <1>3, <2>1 DEF Bounded
<1>5. Bounded(new)'
  BY <1>3, <1>1, <1>2 DEF Bounded
<1>6. \A r \in memories : /\ Bounded(r) /\ r.at < clock
                          /\ r.at \in Nat /\ r.through \in Nat
  BY <1>1 DEF MemoryInv, RowsInv, Row, Entries
<1>7. MemoryTypes'
  <2>1. \A r \in memories : r.at # new.at
    BY <1>1, <1>2, <1>6
  <2>2. \A r, o \in memories' : r.at = o.at => r = o
    BY <1>1, <2>1 DEF MemoryInv, MemoryTypes
  <2>3. IsFiniteSet(memories')
    BY <1>1, FS_AddElement DEF MemoryInv, MemoryTypes
  <2>. QED
    BY <1>1, <1>2, <2>2, <2>3 DEF MemoryInv, MemoryTypes, Entries
<1>8. RowsInv'
  <2>1. \A r \in memories' : Bounded(r)' /\ r.at < clock'
    <3>1. \A r \in memories : Bounded(r)' /\ r.at < clock'
      BY <1>1, <1>4, <1>6
    <3>2. Bounded(new)' /\ new.at < clock'
      BY <1>1, <1>2, <1>5
    <3>. QED
      BY <1>1, <3>1, <3>2
  <2>2. \A r \in memories : r.through <= new.through /\ r.at < new.at
    BY <1>1, <1>2, <1>6 DEF Bounded
  <2>3. \A r, h \in memories' : InStep(r, h)
    BY <1>1, <1>2, <1>6, <2>2 DEF MemoryInv, RowsInv, InStep
  <2>. QED
    BY <2>1, <2>3 DEF RowsInv, InStep
<1>9. NothingForgotten'
  BY <1>1, <1>2 DEF MemoryInv, NothingForgotten
<1>10. ASSUME NEW k \in Compactions, Writes(k)'
      PROVE  JobInv(k)'
  <2>1. Writes(k) /\ JobInv(k)
    BY <1>1, <1>10 DEF Writes, MemoryInv
  <2>2. job[k].overflow \in SUBSET Row
    BY DEF MemoryInv, MemoryTypes
  <2>3. \A r \in job[k].overflow : /\ r.through <= told /\ r.through \in Nat
                                   /\ r.at \in Nat /\ r.at < clock
    BY <2>1, <2>2 DEF JobInv, Bounded, Row, Entries
  <2>4. \A h \in memories' : ~h.compacted /\ h \notin job[k].overflow =>
          \A r \in job[k].overflow : r.through <= h.through
    BY <1>1, <1>2, <2>1, <2>3 DEF JobInv
  <2>5. \A r \in job[k].overflow :
          Bounded(r)' /\ r.at < clock' /\ r.at # job[k].at
    BY <1>3, <1>1, <2>1, <2>3 DEF JobInv, Bounded
  <2>. QED
    BY <1>1, <2>1, <2>4, <2>5 DEF JobInv, InStep
<1>11. ASSUME NEW k \in Compactions, Running(k)'
       PROVE  TimeInv(k)'
  <2>1. Running(k) /\ TimeInv(k) /\ job[k].at \in Nat
    BY <1>1, <1>11 DEF Running, MemoryInv, MemoryTypes
  <2>. QED
    BY <1>1, <1>2, <2>1 DEF TimeInv, Running
<1>. QED
  BY <1>7, <1>8, <1>9, <1>10, <1>11 DEF MemoryInv

\* A compaction begins at a time that no row and no other compaction has.
LEMMA BeginCompactionStep ==
    ASSUME MemoryInv, NEW k \in Compactions, BeginCompaction(k)
    PROVE  MemoryInv'
<1>1. /\ told \in Nat /\ clock \in Nat /\ memories \in SUBSET Row
      /\ clock' = clock + 1 /\ UNCHANGED <<memories, told>>
  BY DEF BeginCompaction, MemoryInv, MemoryTypes
<1>. DEFINE State == [pc : {"new", "begun", "write", "done"}, at : Nat,
                      overflow : SUBSET Row]
<1>2. PICK new \in State :
        /\ job' = [job EXCEPT ![k] = new] /\ new.pc = "begun" /\ new.at = clock
  <2>1. IdleJob \in State
    BY DEF IdleJob
  <2>2. PICK new : new = [IdleJob EXCEPT !.pc = "begun", !.at = clock]
    OBVIOUS
  <2>3. new \in State /\ new.pc = "begun" /\ new.at = clock
    BY <1>1, <2>1, <2>2
  <2>. QED
    BY <2>2, <2>3 DEF BeginCompaction
<1>3. /\ job'[k] = new /\ \A l \in Compactions \ {k} : job'[l] = job[l]
      /\ MemoryTypes'
  <2>1. job \in [Compactions -> State]
    BY DEF MemoryInv, MemoryTypes
  <2>. HIDE DEF State
  <2>2. /\ job' \in [Compactions -> State] /\ job'[k] = new
        /\ \A l \in Compactions \ {k} : job'[l] = job[l]
    BY <1>2, <2>1
  <2>. QED
    BY <1>1, <2>2 DEF MemoryInv, MemoryTypes, State
<1>4. RowsInv' /\ NothingForgotten'
  BY <1>1 DEF MemoryInv, RowsInv, NothingForgotten, Bounded, InStep, Row
<1>5. ASSUME NEW l \in Compactions, Running(l)'
      PROVE  TimeInv(l)'
  <2>1. \A o \in Compactions \ {k} : Running(o)' => /\ Running(o) /\ job[o].at < clock
                                                    /\ job[o].at \in Nat
    BY <1>3 DEF Running, MemoryInv, MemoryTypes, TimeInv
  <2>2. \A h \in memories : h.at < clock /\ h.at \in Nat
    BY <1>1 DEF MemoryInv, RowsInv, Row
  <2>3. CASE l = k
    <3>1. job'[l].at = clock
      BY <1>2, <1>3, <2>3
    <3>. QED
      BY <1>1, <1>3, <2>1, <2>2, <2>3, <3>1 DEF TimeInv
  <2>4. CASE l # k
    <3>1. TimeInv(l) /\ job'[l] = job[l] /\ job[l].at < clock /\ job[l].at \in Nat
      BY <1>3, <1>5, <2>1, <2>4 DEF MemoryInv
    <3>2. job'[k].at = clock
      BY <1>2, <1>3
    <3>3. \A o \in Compactions : Running(o)' /\ job'[o].at = job[l].at => o = l
      BY <1>1, <1>3, <2>1, <3>1, <3>2 DEF TimeInv
    <3>. QED
      BY <1>1, <3>1, <3>3 DEF TimeInv
  <2>. QED
    BY <2>3, <2>4
<1>6. ASSUME NEW l \in Compactions, Writes(l)'
      PROVE  JobInv(l)'
  <2>1. Writes(l) /\ JobInv(l) /\ job'[l] = job[l]
    BY <1>2, <1>3, <1>6 DEF Writes, MemoryInv
  <2>2. job[l].overflow \in SUBSET Row
    BY DEF MemoryInv, MemoryTypes
  <2>3. \A r \in job[l].overflow : r.at < clock'
    BY <1>1, <2>1, <2>2 DEF JobInv, Row
  <2>. QED
    BY <1>1, <2>1, <2>3 DEF JobInv, Bounded, InStep
<1>. QED
  BY <1>3, <1>4, <1>5, <1>6 DEF MemoryInv

\* What a compaction leaves is newer than what it reads.
LEMMA LeftIsNewer ==
    ASSUME MemoryInv, NEW h \in memories \ Overflow, NEW r \in Overflow
    PROVE  r.at < h.at
<1>1. /\ IsFiniteSet(memories) /\ r \in memories /\ h \in memories /\ r # h
      /\ r.at \in Nat /\ h.at \in Nat
      /\ r.at = h.at => r = h
  BY DEF MemoryInv, MemoryTypes, Overflow, Row
<1>2. CASE h.at < r.at
  <2>1. Newer(r) \subseteq Newer(h) /\ Newer(h) \subseteq memories
    <3>1. \A o \in memories : o.at \in Nat
      BY DEF MemoryInv, MemoryTypes, Row
    <3>. QED
      BY <1>1, <1>2, <3>1 DEF Newer
  <2>2. IsFiniteSet(Newer(h))
    BY <1>1, <2>1, FS_Subset
  <2>3. /\ Cardinality(Newer(r)) <= Cardinality(Newer(h))
        /\ Cardinality(Newer(r)) \in Nat /\ Cardinality(Newer(h)) \in Nat
    BY <2>1, <2>2, FS_Subset, FS_CardinalityType
  <2>4. Cardinality(Newer(r)) >= KeepRecent /\ ~(Cardinality(Newer(h)) >= KeepRecent)
    BY <1>1 DEF Overflow
  <2>. QED
    BY <2>3, <2>4, MemoryConstantsOK
<1>. QED
  BY <1>1, <1>2

\* A compaction reads the oldest rows.
LEMMA ReadOverflowStep ==
    ASSUME MemoryInv, NEW k \in Compactions, ReadOverflow(k)
    PROVE  MemoryInv'
<1>1. PICK rows : rows = Overflow
  OBVIOUS
<1>2. rows \subseteq memories
  BY <1>1 DEF Overflow
<1>. DEFINE State == [pc : {"new", "begun", "write", "done"}, at : Nat,
                      overflow : SUBSET Row]
<1>3. /\ told \in Nat /\ clock \in Nat /\ memories \in SUBSET Row
      /\ UNCHANGED <<memories, told, clock>>
      /\ job[k] \in State /\ job[k].pc = "begun" /\ job \in [Compactions -> State]
  BY DEF ReadOverflow, MemoryInv, MemoryTypes
<1>4. PICK new \in State :
        /\ job' = [job EXCEPT ![k] = new]
        /\ \/ new.pc = "done"
           \/ /\ rows # {} /\ new.pc = "write" /\ new.at = job[k].at
              /\ new.overflow = rows
  <2>1. [IdleJob EXCEPT !.pc = "done"] = [pc |-> "done", at |-> 0, overflow |-> {}]
    BY DEF IdleJob
  <2>2. PICK read : read = [job[k] EXCEPT !.pc = "write", !.overflow = rows]
    OBVIOUS
  <2>3. /\ read \in State /\ read.pc = "write" /\ read.at = job[k].at
        /\ read.overflow = rows
    BY <1>2, <1>3, <2>2
  <2>4. job' = [job EXCEPT ![k] = IF rows = {} THEN [IdleJob EXCEPT !.pc = "done"]
                                  ELSE read]
    BY <1>1, <1>3, <2>2 DEF ReadOverflow
  <2>. QED
    BY <2>1, <2>3, <2>4
<1>5. /\ job'[k] = new /\ \A l \in Compactions \ {k} : job'[l] = job[l]
      /\ MemoryTypes'
  <2>. HIDE DEF State
  <2>1. /\ job' \in [Compactions -> State] /\ job'[k] = new
        /\ \A l \in Compactions \ {k} : job'[l] = job[l]
    BY <1>3, <1>4
  <2>. QED
    BY <1>3, <2>1 DEF MemoryInv, MemoryTypes, State
<1>6. RowsInv' /\ NothingForgotten'
  BY <1>3 DEF MemoryInv, RowsInv, NothingForgotten, Bounded, InStep
<1>7. \A l \in Compactions : Running(l)' => Running(l) /\ job'[l].at = job[l].at
  BY <1>3, <1>4, <1>5 DEF Running
<1>8. ASSUME NEW l \in Compactions, Running(l)'
      PROVE  TimeInv(l)'
  BY <1>3, <1>7, <1>8 DEF TimeInv, MemoryInv
<1>9. ASSUME Writes(k)'
      PROVE  JobInv(k)'
  <2>1. rows # {} /\ new.overflow = rows /\ new.at = job[k].at
    BY <1>4, <1>5, <1>9 DEF Writes
  <2>2. \A r, h \in rows : InStep(r, h) /\ (r.at = h.at => r = h)
    BY <1>2 DEF MemoryInv, RowsInv, MemoryTypes
  <2>3. TimeInv(k)
    BY <1>3 DEF MemoryInv, Running
  <2>4. \A r \in rows : Bounded(r)' /\ r.at < clock /\ r.at # job[k].at
    BY <1>2, <1>3, <2>3 DEF MemoryInv, RowsInv, Bounded, TimeInv
  <2>5. \A h \in memories : ~h.compacted /\ h \notin rows =>
          \A r \in rows : r.through <= h.through
    BY <1>1, <1>2, LeftIsNewer DEF MemoryInv, RowsInv, InStep
  <2>. QED
    BY <1>3, <1>5, <2>1, <2>2, <2>4, <2>5 DEF JobInv, InStep
<1>10. ASSUME NEW l \in Compactions \ {k}, Writes(l)'
       PROVE  JobInv(l)'
  <2>1. Writes(l) /\ JobInv(l) /\ job'[l] = job[l]
    BY <1>5, <1>10 DEF Writes, MemoryInv
  <2>. QED
    BY <1>3, <2>1 DEF JobInv, Bounded, InStep
<1>11. \A l \in Compactions : Writes(l)' => JobInv(l)'
  BY <1>9, <1>10
<1>. QED
  BY <1>5, <1>6, <1>8, <1>11 DEF MemoryInv

\* A job that ends leaves the others their say.
LEMMA JobEnds ==
    ASSUME MemoryInv, NEW k \in Compactions,
           job' = [job EXCEPT ![k] = [IdleJob EXCEPT !.pc = "done"]]
    PROVE  /\ job' \in [Compactions -> [pc : {"new", "begun", "write", "done"}, at : Nat,
                                        overflow : SUBSET Row]]
           /\ ~Writes(k)'
           /\ \A l \in Compactions \ {k} : job'[l] = job[l]
           /\ \A l \in Compactions : Writes(l)' => l # k /\ Writes(l)
           /\ \A l \in Compactions : Running(l)' => l # k /\ Running(l)
  BY DEF IdleJob, MemoryInv, MemoryTypes, Writes, Running

\* The merged row takes the place of what the job read.
LEMMA WriteMergedStep ==
    ASSUME MemoryInv, NEW k \in Compactions, WriteMerged(k)
    PROVE  MemoryInv'
<1>1. Writes(k) /\ JobInv(k) /\ Running(k) /\ TimeInv(k)
  BY DEF WriteMerged, Writes, Running, MemoryInv
<1>2. PICK m \in Row : m = Merged(k)
  BY <1>1, MergedIs
<1>3. PICK rows \in SUBSET Row, at \in Nat :
        rows = job[k].overflow /\ at = job[k].at
  BY DEF MemoryInv, MemoryTypes
<1>4. /\ Bounded(m) /\ m.at = at /\ m.compacted /\ m \notin rows
      /\ m.holds = UNION {r.holds : r \in rows}
      /\ \E n \in rows : m.through = n.through
  BY <1>1, <1>2, <1>3, MergedIs
<1>5. /\ memories' = (memories \cup {m}) \ rows
      /\ job' = [job EXCEPT ![k] = [IdleJob EXCEPT !.pc = "done"]]
      /\ UNCHANGED <<told, clock>>
  BY <1>2, <1>3 DEF WriteMerged, Deleted
<1>6. /\ at < clock
      /\ \A h \in memories :
           h.at # at /\ (~h.compacted /\ h \notin rows =>
                           \A r \in rows : r.through <= h.through)
      /\ \A l \in Compactions : Running(l) /\ job[l].at = at => l = k
  BY <1>1, <1>3 DEF JobInv, TimeInv
<1>7. /\ job' \in [Compactions -> [pc : {"new", "begun", "write", "done"}, at : Nat,
                                   overflow : SUBSET Row]]
      /\ \A l \in Compactions \ {k} : job'[l] = job[l]
      /\ \A l \in Compactions : Writes(l)' => l # k /\ Writes(l)
      /\ \A l \in Compactions : Running(l)' => l # k /\ Running(l)
  BY <1>5, JobEnds
<1>8. MemoryTypes'
  <2>1. \A r, o \in memories' : r.at = o.at => r = o
    BY <1>4, <1>5, <1>6 DEF MemoryInv, MemoryTypes
  <2>2. IsFiniteSet(memories')
    <3>1. IsFiniteSet(memories \cup {m}) /\ memories' \subseteq memories \cup {m}
      BY <1>5, FS_AddElement DEF MemoryInv, MemoryTypes
    <3>. QED
      BY <3>1, FS_Subset
  <2>. QED
    BY <1>5, <1>7, <2>1, <2>2 DEF MemoryInv, MemoryTypes
<1>9. RowsInv'
  <2>1. \A r \in memories' : Bounded(r)' /\ r.at < clock'
    BY <1>4, <1>5, <1>6 DEF MemoryInv, RowsInv, Bounded
  <2>2. ASSUME NEW r \in memories', NEW h \in memories'
        PROVE  InStep(r, h)
    <3>1. CASE h = m
      BY <1>4, <3>1 DEF InStep
    <3>2. CASE h # m /\ r = m
      <4>1. h \in memories /\ h \notin rows
        BY <1>5, <3>2
      <4>. QED
        BY <1>4, <1>6, <3>2, <4>1 DEF InStep
    <3>3. CASE h # m /\ r # m
      BY <1>5, <3>3 DEF MemoryInv, RowsInv
    <3>. QED
      BY <3>1, <3>2, <3>3
  <2>. QED
    BY <2>1, <2>2 DEF RowsInv, InStep
<1>10. NothingForgotten'
  <2>1. ASSUME NEW e \in 1 .. told
        PROVE  \E r \in memories' : e \in r.holds
    <3>1. PICK r \in memories : e \in r.holds
      BY DEF MemoryInv, NothingForgotten
    <3>2. m \in memories'
      BY <1>4, <1>5
    <3>3. CASE r \in rows
      BY <1>4, <3>1, <3>2, <3>3
    <3>4. CASE r \notin rows
      BY <1>5, <3>1, <3>4
    <3>. QED
      BY <3>3, <3>4
  <2>. QED
    BY <1>5, <2>1 DEF NothingForgotten
<1>11. ASSUME NEW l \in Compactions, Writes(l)'
       PROVE  JobInv(l)'
  <2>1. l # k /\ Writes(l) /\ JobInv(l) /\ job'[l] = job[l]
    BY <1>7, <1>11 DEF MemoryInv
  <2>2. \A h \in memories' : ~h.compacted /\ h \notin job[l].overflow =>
          \A r \in job[l].overflow : r.through <= h.through
    BY <1>4, <1>5, <2>1 DEF JobInv
  <2>. QED
    BY <1>5, <2>1, <2>2 DEF JobInv, Bounded, InStep
<1>12. ASSUME NEW l \in Compactions, Running(l)'
       PROVE  TimeInv(l)'
  <2>1. l # k /\ Running(l) /\ TimeInv(l) /\ job'[l] = job[l]
    BY <1>7, <1>12 DEF MemoryInv
  <2>2. m.at # job[l].at
    BY <1>4, <1>6, <2>1
  <2>3. \A o \in Compactions : Running(o)' /\ job'[o].at = job[l].at => o = l
    BY <1>7, <2>1 DEF TimeInv
  <2>. QED
    BY <1>5, <2>1, <2>2, <2>3 DEF TimeInv
<1>. QED
  BY <1>8, <1>9, <1>10, <1>11, <1>12 DEF MemoryInv

\* A compaction that fails has changed nothing.
LEMMA CompactionFails ==
    ASSUME MemoryInv, NEW k \in Compactions,
           job' = [job EXCEPT ![k] = [IdleJob EXCEPT !.pc = "done"]],
           UNCHANGED <<memories, told, clock>>
    PROVE  MemoryInv'
<1>1. /\ job' \in [Compactions -> [pc : {"new", "begun", "write", "done"}, at : Nat,
                                   overflow : SUBSET Row]]
      /\ \A l \in Compactions \ {k} : job'[l] = job[l]
      /\ \A l \in Compactions : Writes(l)' => l # k /\ Writes(l)
      /\ \A l \in Compactions : Running(l)' => l # k /\ Running(l)
  BY JobEnds
<1>2. MemoryTypes' /\ RowsInv' /\ NothingForgotten'
  BY <1>1 DEF MemoryInv, MemoryTypes, RowsInv, NothingForgotten, Bounded,
     InStep
<1>3. ASSUME NEW l \in Compactions, Writes(l)'
      PROVE  JobInv(l)'
  <2>1. Writes(l) /\ JobInv(l) /\ job'[l] = job[l]
    BY <1>1, <1>3 DEF MemoryInv
  <2>. QED
    BY <2>1 DEF JobInv, Bounded, InStep
<1>4. ASSUME NEW l \in Compactions, Running(l)'
      PROVE  TimeInv(l)'
  <2>1. Running(l) /\ TimeInv(l) /\ job'[l] = job[l]
    BY <1>1, <1>4 DEF MemoryInv
  <2>2. \A o \in Compactions : Running(o)' /\ job'[o].at = job[l].at => o = l
    BY <1>1, <2>1 DEF TimeInv
  <2>. QED
    BY <2>1, <2>2 DEF TimeInv
<1>. QED
  BY <1>2, <1>3, <1>4 DEF MemoryInv

\* Every step keeps MemoryInv.
LEMMA MemoryStep ==
    ASSUME MemoryInv, [Next]_vars
    PROVE  MemoryInv'
<1>1. ASSUME UNCHANGED memoryVars
      PROVE  MemoryInv'
  BY <1>1 DEF memoryVars, MemoryInv, MemoryTypes, RowsInv, NothingForgotten,
     JobInv, TimeInv, Bounded, InStep, Writes, Running
<1>2. ASSUME NEW i \in Indexings,
             ReadPassage(i) \/ InsertFacts(i) \/ ResolveConflicts(i)
      PROVE  MemoryInv'
  BY <1>1, <1>2 DEF ReadPassage, InsertFacts, ResolveConflicts
<1>3. CASE JobFails
  BY <1>1, <1>3, CompactionFails DEF JobFails
<1>4. CASE UNCHANGED vars
  BY <1>1, <1>4 DEF vars
<1>. QED
  BY <1>2, <1>3, <1>4, RememberStep, BeginCompactionStep, ReadOverflowStep,
     WriteMergedStep DEF Next

LEMMA MemoryAlways == Spec => []MemoryInv
  BY InitMemoryInv, MemoryStep, PTL DEF Spec

\* Every memory stays in some row.
THEOREM MemoriesStay == Spec => []NothingForgotten
<1>1. MemoryInv => NothingForgotten
  BY DEF MemoryInv
<1>. QED
  BY <1>1, MemoryAlways, PTL

-----------------------------------------------------------------------------
(* Visibility.                                                             *)

\* How far entry e is visible.
LEMMA VisibleIs ==
    ASSUME NEW rows \in SUBSET Row, NEW e
    PROVE  /\ VisibleThrough(rows, e) \in Nat
           /\ \A r \in rows : e \in r.holds =>
                r.through <= VisibleThrough(rows, e)
           /\ \/ VisibleThrough(rows, e) = 0
              \/ \E r \in rows : e \in r.holds /\ r.through = VisibleThrough(rows, e)
<1>. DEFINE V == {0} \cup {r.through : r \in {o \in rows : e \in o.holds}}
            T == {v \in Nat : \E x \in V : v = MaxEntries - x}
<1>1. \A x \in V : x \in Nat /\ x <= MaxEntries
  BY MemoryConstantsOK DEF Row, Entries
<1>2. \A x \in V : MaxEntries - x \in T
  BY <1>1, MemoryConstantsOK
<1>3. T # {}
  BY <1>2
<1>4. PICK m \in T : \A v \in T : m <= v
  BY <1>3, LeastNumber
<1>5. PICK x \in V : m = MaxEntries - x
  BY <1>4
<1>6. \A y \in V : x >= y
  <2>1. TAKE y \in V
  <2>2. m <= MaxEntries - y
    BY <1>2, <1>4
  <2>. QED
    BY <1>1, <1>5, <2>2, MemoryConstantsOK
<1>7. Max(V) \in V /\ \A y \in V : Max(V) >= y
  <2>. HIDE DEF V
  <2>. QED
    BY <1>6 DEF Max
<1>8. VisibleThrough(rows, e) = Max(V)
  BY DEF VisibleThrough
<1>9. PICK n : n = Max(V)
  OBVIOUS
<1>10. n \in Nat /\ n \in V /\ \A y \in V : y <= n
  BY <1>1, <1>7, <1>9
<1>11. \A r \in rows : e \in r.holds => r.through \in V
  OBVIOUS
<1>12. n = 0 \/ \E r \in rows : e \in r.holds /\ r.through = n
  BY <1>10
<1>. HIDE DEF V
<1>. QED
  BY <1>8, <1>9, <1>10, <1>11, <1>12

\* More rows show no less.
LEMMA MoreVisible ==
    ASSUME NEW rows \in SUBSET Row, NEW more \in SUBSET Row, NEW e,
           \A r \in rows : e \in r.holds =>
               \E o \in more : e \in o.holds /\ r.through <= o.through
    PROVE  VisibleThrough(more, e) >= VisibleThrough(rows, e)
<1>1. PICK m \in Nat : /\ m = VisibleThrough(more, e)
                       /\ \A o \in more : e \in o.holds => o.through <= m
  BY VisibleIs
<1>2. PICK n \in Nat : /\ n = VisibleThrough(rows, e)
                       /\ \/ n = 0
                          \/ \E r \in rows : e \in r.holds /\ r.through = n
  BY VisibleIs
<1>3. CASE n = 0
  BY <1>1, <1>2, <1>3
<1>4. CASE n # 0
  <2>1. PICK r \in rows : e \in r.holds /\ r.through = n
    BY <1>2, <1>4
  <2>2. PICK o \in more : e \in o.holds /\ r.through <= o.through
    BY <2>1
  <2>3. o.through <= m /\ o.through \in Nat
    BY <1>1, <2>2 DEF Row, Entries
  <2>. QED
    BY <1>1, <1>2, <2>1, <2>2, <2>3
<1>. QED
  BY <1>3, <1>4

\* The merged row is visible as far as any row it replaces, if the newest of
\* them is no merged row.
LEMMA MergedShows ==
    ASSUME MemoryInv, NEW k \in Compactions, WriteMerged(k),
           ~Newest(job[k].overflow).compacted, NEW e
    PROVE  VisibleThrough(memories', e) >= VisibleThrough(memories, e)
<1>1. Writes(k) /\ JobInv(k)
  BY DEF WriteMerged, Writes, MemoryInv
<1>2. PICK rows \in SUBSET Row, at \in Nat :
        rows = job[k].overflow /\ at = job[k].at
  BY DEF MemoryInv, MemoryTypes
<1>3. PICK m \in Row : m = Merged(k)
  BY <1>1, MergedIs
<1>4. PICK n \in rows : n = Newest(rows) /\ \A o \in rows : o.at <= n.at
  BY <1>1, <1>2, MergedIs
<1>5. /\ m \notin rows /\ m.through = n.through
      /\ m.holds = UNION {r.holds : r \in rows}
  BY <1>1, <1>2, <1>3, <1>4, MergedIs
<1>6. memories' = (memories \cup {m}) \ rows /\ memories \in SUBSET Row
  BY <1>2, <1>3 DEF WriteMerged, Deleted, MemoryInv, MemoryTypes
<1>7. \A r \in rows : r.through <= n.through
  <2>1. TAKE r \in rows
  <2>2. InStep(r, n) /\ (r.at = n.at => r = n) /\ ~n.compacted
    BY <1>1, <1>2, <1>4 DEF JobInv
  <2>3. r.at \in Nat /\ n.at \in Nat /\ r.at <= n.at /\ n.through \in Nat
    BY <1>4 DEF Row, Entries
  <2>. QED
    BY <2>2, <2>3 DEF InStep
<1>8. m \in memories' /\ memories' \in SUBSET Row
  BY <1>5, <1>6
<1>9. ASSUME NEW r \in memories, e \in r.holds
      PROVE  \E o \in memories' : e \in o.holds /\ r.through <= o.through
  <2>1. CASE r \in rows
    BY <1>5, <1>7, <1>8, <1>9, <2>1
  <2>2. CASE r \notin rows
    <3>1. r \in memories' /\ r.through \in Nat
      BY <1>6, <2>2 DEF Row, Entries
    <3>2. r.through <= r.through
      BY <3>1
    <3>. QED
      BY <1>9, <3>1, <3>2
  <2>. QED
    BY <2>1, <2>2
<1>. QED
  BY <1>6, <1>8, <1>9, MoreVisible

\* What a reader may see of a memory shrinks only by a compaction whose newest
\* row was itself a merged one.
THEOREM VisibilityStays == Spec => VisibilityKept
<1>. DEFINE Kept == \A e \in 1 .. told :
              \/ VisibleThrough(memories', e) >= VisibleThrough(memories, e)
              \/ \E k \in Compactions :
                   /\ job[k].pc = "write" /\ job'[k].pc = "done"
                   /\ Newest(job[k].overflow).compacted
<1>1. ASSUME MemoryInv, MemoryInv', Next
      PROVE  Kept
  <2>1. memories \in SUBSET Row /\ memories' \in SUBSET Row
    BY <1>1 DEF MemoryInv, MemoryTypes
  <2>2. CASE memories \subseteq memories'
    <3>1. \A r \in memories : r \in memories' /\ r.through <= r.through
      BY <2>1, <2>2 DEF Row, Entries
    <3>2. \A e : VisibleThrough(memories', e) >= VisibleThrough(memories, e)
      BY <2>1, <3>1, MoreVisible
    <3>. QED
      BY <3>2
  <2>3. ASSUME NEW k \in Compactions, WriteMerged(k)
        PROVE  Kept
    <3>1. job[k].pc = "write" /\ job'[k].pc = "done"
      BY <1>1, <2>3 DEF WriteMerged, IdleJob, MemoryInv, MemoryTypes
    <3>2. CASE Newest(job[k].overflow).compacted
      BY <3>1, <3>2
    <3>3. CASE ~Newest(job[k].overflow).compacted
      BY <1>1, <2>3, <3>3, MergedShows
    <3>. QED
      BY <3>2, <3>3
  <2>4. \/ memories \subseteq memories'
        \/ \E k \in Compactions : WriteMerged(k)
    BY <1>1 DEF Next, Remember, BeginCompaction, ReadOverflow, ReadPassage, InsertFacts,
       ResolveConflicts, JobFails, memoryVars
  <2>. QED
    BY <2>2, <2>3, <2>4
<1>2. MemoryInv /\ MemoryInv' /\ [Next]_vars => [Kept]_vars
  BY <1>1
<1>. HIDE DEF Kept
<1>3. Spec => [][Kept]_vars
  BY <1>2, MemoryAlways, PTL DEF Spec
<1>. QED
  BY <1>3 DEF VisibilityKept, Kept

-----------------------------------------------------------------------------
(* The facts: one update after the other.                                  *)

\* The rows of a run that has begun with the rows old: the facts are the same,
\* none loses its successor, and a successor says something else.
Sound(rows, old) ==
    /\ rows \in Seq(Fact) /\ DOMAIN rows = DOMAIN old
    /\ \A f \in DOMAIN old :
         /\ rows[f].triple = old[f].triple
         /\ rows[f].status = "SUPERSEDED" => rows[f].by # 0
         /\ old[f].by # 0 => rows[f].by # 0
         /\ rows[f].by # 0 => /\ rows[f].by \in DOMAIN old
                              /\ old[rows[f].by].triple # old[f].triple

\* Flagging two facts, or superseding one by another, keeps the rows sound.
LEMMA ChangeIsSound ==
    ASSUME NEW old, NEW rows, Sound(rows, old),
           NEW a \in DOMAIN old, NEW b \in DOMAIN old,
           old[a].triple # old[b].triple
    PROVE  Sound(Flag(rows, a, b), old) /\ Sound(Supersede(rows, a, b), old)
<1>1. /\ rows \in Seq(Fact) /\ a \in DOMAIN rows /\ b \in DOMAIN rows /\ a # b
      /\ DOMAIN rows = DOMAIN old
  BY DEF Sound
<1>2. /\ rows[a] \in Fact /\ rows[b] \in Fact
      /\ b \in Nat /\ b # 0
  BY <1>1
<1>3. Sound(Flag(rows, a, b), old)
  <2>. DEFINE x == [rows[a] EXCEPT !.status = "CONTESTED"]
              y == [rows[b] EXCEPT !.status = "CONTESTED"]
  <2>1. /\ x \in Fact /\ x.triple = rows[a].triple /\ x.by = rows[a].by
        /\ x.status = "CONTESTED"
        /\ y \in Fact /\ y.triple = rows[b].triple /\ y.by = rows[b].by
        /\ y.status = "CONTESTED"
    BY <1>2 DEF Fact, Status
  <2>2. Flag(rows, a, b) = [rows EXCEPT ![a] = x, ![b] = y]
    BY <1>1 DEF Flag
  <2>. HIDE DEF x, y
  <2>3. PICK new : new = [rows EXCEPT ![a] = x, ![b] = y]
    OBVIOUS
  <2>4. /\ new \in Seq(Fact) /\ DOMAIN new = DOMAIN old
        /\ new[a] = x /\ new[b] = y
        /\ \A f \in DOMAIN old \ {a, b} : new[f] = rows[f]
    BY <1>1, <2>1, <2>3
  <2>5. Sound(new, old)
    BY <2>1, <2>4 DEF Sound
  <2>. QED
    BY <2>2, <2>3, <2>5
<1>4. Sound(Supersede(rows, a, b), old)
  <2>. DEFINE x == [rows[a] EXCEPT !.status = "SUPERSEDED", !.by = b]
  <2>1. /\ x \in Fact /\ x.triple = rows[a].triple /\ x.by = b
        /\ x.status = "SUPERSEDED"
    BY <1>2 DEF Fact, Status
  <2>2. Supersede(rows, a, b) = [rows EXCEPT ![a] = x]
    BY <1>1 DEF Supersede
  <2>. HIDE DEF x
  <2>3. PICK new : new = [rows EXCEPT ![a] = x]
    OBVIOUS
  <2>4. /\ new \in Seq(Fact) /\ DOMAIN new = DOMAIN old /\ new[a] = x
        /\ \A f \in DOMAIN old \ {a} : new[f] = rows[f]
    BY <1>1, <2>1, <2>3
  <2>5. Sound(new, old)
    BY <1>2, <2>1, <2>4 DEF Sound
  <2>. QED
    BY <2>2, <2>3, <2>5
<1>. QED
  BY <1>3, <1>4

\* The updates of a run, one after the other: the sequence of rows exists.
LEMMA UpdatesRun ==
    ASSUME NEW rows, NEW all, NEW found, NEW order, NEW N \in Nat
    PROVE  \E g : g = [n \in 0 .. N |->
                         IF n = 0 THEN rows
                         ELSE Update(g[n - 1], all, found, order[n])]
<1>. DEFINE Run(g, m) == g = [n \in 0 .. m |->
                                IF n = 0 THEN rows
                                ELSE Update(g[n - 1], all, found, order[n])]
            T == {m \in Nat : ~ \E g : Run(g, m)}
<1>1. SUFFICES ASSUME T # {} PROVE FALSE
  OBVIOUS
<1>2. PICK m \in T : \A n \in T : m <= n
  BY <1>1, LeastNumber
<1>3. CASE m = 0
  <2>. DEFINE g == [n \in 0 .. 0 |-> rows]
  <2>1. Run(g, 0)
    OBVIOUS
  <2>. QED
    BY <1>2, <1>3, <2>1
<1>4. CASE m # 0
  <2>1. m - 1 \in Nat /\ m - 1 \notin T
    BY <1>2, <1>4
  <2>2. PICK g : Run(g, m - 1)
    BY <2>1
  <2>3. PICK new : new = Update(g[m - 1], all, found, order[m])
    OBVIOUS
  <2>. DEFINE h == [n \in 0 .. m |-> IF n = m THEN new ELSE g[n]]
  <2>4. \A n \in 0 .. m - 1 : h[n] = g[n]
    BY <2>1
  <2>5. h = [n \in 0 .. m |-> IF n = 0 THEN rows
                              ELSE Update(h[n - 1], all, found, order[n])]
    <3>1. ASSUME NEW n \in 0 .. m
          PROVE  h[n] = IF n = 0 THEN rows
                        ELSE Update(h[n - 1], all, found, order[n])
      <4>1. CASE n = m
        <5>1. h[n] = new /\ m - 1 \in 0 .. m - 1
          BY <2>1, <4>1
        <5>2. h[m - 1] = g[m - 1]
          BY <2>4, <5>1
        <5>. HIDE DEF h
        <5>. QED
          BY <1>4, <2>3, <4>1, <5>1, <5>2
      <4>2. CASE n # m
        <5>1. n \in 0 .. m - 1 /\ (n # 0 => n - 1 \in 0 .. m - 1)
          BY <2>1, <4>2
        <5>2. h[n] = g[n] /\ (n # 0 => h[n - 1] = g[n - 1])
          BY <2>4, <5>1
        <5>3. g[n] = IF n = 0 THEN rows
                     ELSE Update(g[n - 1], all, found, order[n])
          BY <2>2, <5>1
        <5>. HIDE DEF h
        <5>. QED
          BY <5>2, <5>3
      <4>. QED
        BY <4>1, <4>2
    <3>2. h = [n \in 0 .. m |-> h[n]]
      OBVIOUS
    <3>. HIDE DEF h
    <3>. QED
      BY <3>1, <3>2
  <2>6. Run(h, m)
    <3>. HIDE DEF h
    <3>. QED
      BY <2>5
  <2>. QED
    BY <1>2, <2>6
<1>. QED
  BY <1>3, <1>4

\* If the run begins with sound rows and every pair in it names two facts that
\* say different things, it ends with sound rows.
LEMMA ResolvedIsSound ==
    ASSUME NEW old, Sound(old, old), NEW all, NEW found,
           NEW L \in Nat, L = Len(all), IsFiniteSet(DOMAIN found),
           \A p \in DOMAIN found :
             /\ p \in (1 .. L) \X (1 .. L)
             /\ all[p[1]] \in DOMAIN old /\ all[p[2]] \in DOMAIN old
             /\ old[all[p[1]]].triple # old[all[p[2]]].triple
    PROVE  Sound(Resolved(old, all, found), old)
<1>1. PICK key : key = [p \in DOMAIN found |-> p[1] * L + p[2]]
  OBVIOUS
<1>2. \A p \in DOMAIN found : key[p] \in Nat
  <2>1. TAKE p \in DOMAIN found
  <2>2. p[1] \in Nat /\ p[2] \in Nat
    OBVIOUS
  <2>3. p[1] * L \in Nat
    BY <2>2
  <2>. QED
    BY <1>1, <2>2, <2>3
<1>3. ASSUME NEW p \in DOMAIN found, NEW q \in DOMAIN found, key[p] = key[q]
      PROVE  p = q
  <2>1. /\ p = <<p[1], p[2]>> /\ q = <<q[1], q[2]>>
        /\ p[1] \in 1 .. L /\ p[2] \in 1 .. L
        /\ q[1] \in 1 .. L /\ q[2] \in 1 .. L
    OBVIOUS
  <2>2. PICK a \in 1 .. L, b \in 1 .. L, c \in 1 .. L, d \in 1 .. L :
          a = p[1] /\ b = p[2] /\ c = q[1] /\ d = q[2]
    BY <2>1
  <2>3. a * L + b = c * L + d
    BY <1>1, <1>3, <2>2
  <2>4. ASSUME NEW x \in 1 .. L, NEW y \in 1 .. L, x < y
        PROVE  x * L + L <= y * L
    <3>1. PICK e \in Nat : y = x + 1 + e
      <4>1. y - x - 1 \in Nat /\ y = x + 1 + (y - x - 1)
        BY <2>4
      <4>. QED
        BY <4>1
    <3>2. (x + 1 + e) * L = x * L + L + e * L
      BY <3>1
    <3>3. e * L \in Nat /\ x * L \in Nat
      BY <3>1
    <3>. QED
      BY <3>1, <3>2, <3>3
  <2>5. a * L \in Nat /\ c * L \in Nat
    OBVIOUS
  <2>6. ~(a < c) /\ ~(c < a)
    BY <2>3, <2>4, <2>5
  <2>7. a = c
    BY <2>6
  <2>8. b = d
    BY <2>3, <2>5, <2>7
  <2>. QED
    BY <2>1, <2>2, <2>7, <2>8
<1>4. PICK order : order = InOrder(DOMAIN found, key)
  OBVIOUS
<1>5. order \in Seq(DOMAIN found) /\ Len(order) \in Nat
  BY <1>2, <1>3, <1>4, OrderIsIn
<1>6. PICK N \in Nat : N = Len(order)
  BY <1>5
<1>. DEFINE After == CHOOSE g :
                g = [n \in 0 .. N |->
                       IF n = 0 THEN old
                       ELSE Update(g[n - 1], all, found, order[n])]
<1>7. Resolved(old, all, found) = After[N]
  BY <1>1, <1>4, <1>6 DEF Resolved
<1>8. After = [n \in 0 .. N |->
                 IF n = 0 THEN old
                 ELSE Update(After[n - 1], all, found, order[n])]
  BY UpdatesRun
<1>. HIDE DEF After
<1>9. PICK g : g = After
  OBVIOUS
<1>10. /\ g[0] = old
       /\ \A n \in 1 .. N : g[n] = Update(g[n - 1], all, found, order[n])
  BY <1>8, <1>9
<1>11. \A n \in 1 .. N : order[n] \in DOMAIN found
  BY <1>5, <1>6
<1>12. \A n \in 0 .. N : Sound(g[n], old)
  <2>. DEFINE T == {n \in Nat : n \in 0 .. N /\ ~Sound(g[n], old)}
  <2>1. SUFFICES ASSUME T # {} PROVE FALSE
    OBVIOUS
  <2>2. PICK m \in T : \A n \in T : m <= n
    BY <2>1, LeastNumber
  <2>3. m # 0
    BY <1>10, <2>2
  <2>4. m \in 1 .. N /\ m - 1 \in 0 .. N /\ m - 1 \notin T
    BY <2>2, <2>3
  <2>5. Sound(g[m - 1], old)
    BY <2>4
  <2>6. PICK p \in DOMAIN found : p = order[m]
    BY <1>11, <2>4
  <2>7. g[m] = Update(g[m - 1], all, found, p)
    BY <1>10, <2>4, <2>6
  <2>8. g[m] \in {g[m - 1], Flag(g[m - 1], all[p[1]], all[p[2]]),
                  Supersede(g[m - 1], all[p[1]], all[p[2]])}
    BY <2>7 DEF Update
  <2>9. Sound(g[m], old)
    BY <2>5, <2>6, <2>8, ChangeIsSound
  <2>. QED
    BY <2>2, <2>9
<1>. QED
  BY <1>6, <1>7, <1>9, <1>12

-----------------------------------------------------------------------------
(* The facts: the invariant and its steps.                                 *)

IndexState == [pc : {"new", "read", "loaded", "done"},
               passage : SUBSET Entries, stated : Seq(Triples),
               existing : SUBSET DOMAIN facts]

\* The fact rows are well formed, and a superseded one names a later word.
FactsInv ==
    /\ facts \in Seq(Fact)
    /\ \A f \in DOMAIN facts :
         /\ facts[f].by \in 0 .. Len(facts)
         /\ facts[f].status = "SUPERSEDED" <=> facts[f].by # 0
         /\ facts[f].by # 0 => facts[facts[f].by].triple # facts[f].triple

IndexInv == index \in [Indexings -> IndexState]

\* What the model may extract is a sequence of facts that the passage states.
LEMMA ExtractedIs ==
    ASSUME NEW passage \in SUBSET Entries, NEW stated \in Extracted(passage)
    PROVE  stated \in Seq(Triples)
<1>1. PICK n \in 0 .. MaxTriples : stated \in [1 .. n -> {TripleOf[e] : e \in passage}]
  BY DEF Extracted, SeqOf
<1>2. {TripleOf[e] : e \in passage} \subseteq Triples
  BY DEF Triples
<1>3. n \in Nat /\ stated \in [1 .. n -> Triples]
  BY <1>1, <1>2, MemoryConstantsOK
<1>. QED
  BY <1>3

\* The rows of a run: the facts, followed by its own.
LEMMA WithOwnIs ==
    ASSUME FactsInv, IndexInv, NEW i \in Indexings
    PROVE  \E n, m \in Nat :
             /\ n = Len(facts) /\ m = Len(index[i].stated)
             /\ DOMAIN facts = 1 .. n
             /\ WithOwn(i) \in Seq(Fact) /\ DOMAIN WithOwn(i) = 1 .. n + m
             /\ \A f \in 1 .. n : WithOwn(i)[f] = facts[f]
             /\ \A f \in n + 1 .. n + m :
                  /\ WithOwn(i)[f].status = "ACTIVE" /\ WithOwn(i)[f].by = 0
                  /\ WithOwn(i)[f].triple \in Triples
             /\ Inserted(i) \in Seq(n + 1 .. n + m)
<1>1. index[i].stated \in Seq(Triples) /\ facts \in Seq(Fact)
  BY DEF IndexInv, IndexState, FactsInv
<1>2. PICK n, m \in Nat, stated \in Seq(Triples) :
        /\ stated = index[i].stated /\ n = Len(facts) /\ m = Len(stated)
        /\ DOMAIN facts = 1 .. n /\ DOMAIN stated = 1 .. m
  BY <1>1
<1>. DEFINE own == [k \in 1 .. m |->
                      [triple |-> stated[k], status |-> "ACTIVE", by |-> 0]]
<1>3. \A k \in 1 .. m : /\ own[k] \in Fact /\ own[k].status = "ACTIVE"
                        /\ own[k].by = 0 /\ own[k].triple \in Triples
  BY <1>2 DEF Fact, Status
<1>4. own \in Seq(Fact) /\ Len(own) = m
  <2>1. own \in [1 .. m -> Fact]
    BY <1>3
  <2>. QED
    BY <2>1
<1>5. WithOwn(i) = facts \o own
  BY <1>2 DEF WithOwn
<1>. HIDE DEF own
<1>6. /\ facts \o own \in Seq(Fact) /\ Len(facts \o own) = n + m
      /\ \A f \in 1 .. n : (facts \o own)[f] = facts[f]
      /\ \A f \in n + 1 .. n + m : (facts \o own)[f] = own[f - n]
  BY <1>1, <1>2, <1>4
<1>7. \A f \in n + 1 .. n + m : f - n \in 1 .. m
  OBVIOUS
<1>8. Inserted(i) \in Seq(n + 1 .. n + m)
  <2>1. Inserted(i) = [k \in 1 .. m |-> n + k]
    BY <1>2 DEF Inserted
  <2>2. [k \in 1 .. m |-> n + k] \in [1 .. m -> n + 1 .. n + m]
    OBVIOUS
  <2>. QED
    BY <2>1, <2>2
<1>9. DOMAIN (facts \o own) = 1 .. n + m
  BY <1>6
<1>10. \A f \in n + 1 .. n + m :
         /\ WithOwn(i)[f].status = "ACTIVE" /\ WithOwn(i)[f].by = 0
         /\ WithOwn(i)[f].triple \in Triples
  BY <1>3, <1>5, <1>6, <1>7
<1>11. /\ WithOwn(i) \in Seq(Fact) /\ DOMAIN WithOwn(i) = 1 .. n + m
       /\ \A f \in 1 .. n : WithOwn(i)[f] = facts[f]
  BY <1>5, <1>6, <1>9
<1>. QED
  BY <1>2, <1>8, <1>10, <1>11

\* The list that a run compares: ids of the rows it has.
LEMMA AllActiveIs ==
    ASSUME FactsInv, IndexInv, NEW i \in Indexings, NEW all \in AllActive(i)
    PROVE  all \in Seq(DOMAIN WithOwn(i))
<1>1. PICK n, m \in Nat :
        /\ DOMAIN facts = 1 .. n /\ DOMAIN WithOwn(i) = 1 .. n + m
        /\ Inserted(i) \in Seq(n + 1 .. n + m)
  BY WithOwnIs
<1>2. PICK own \in Seq(1 .. n + m) : own = Inserted(i)
  <2>1. n + 1 .. n + m \subseteq 1 .. n + m
    OBVIOUS
  <2>. QED
    BY <1>1, <2>1
<1>3. PICK loaded \in SUBSET (1 .. n + m) :
        loaded = index[i].existing \cup ToSet(own)
  <2>1. index[i].existing \subseteq 1 .. n
    BY <1>1 DEF IndexInv, IndexState
  <2>2. ToSet(own) \subseteq 1 .. n + m
    BY DEF ToSet
  <2>3. index[i].existing \cup ToSet(own) \subseteq 1 .. n + m
    BY <2>1, <2>2
  <2>. QED
    BY <2>3
<1>4. PICK key : key = [f \in loaded |-> f]
  OBVIOUS
<1>5. PICK oldest : oldest = InOrder(loaded, key)
  OBVIOUS
<1>6. oldest \in Seq(loaded)
  <2>1. 1 \in Int /\ n + m \in Int
    OBVIOUS
  <2>2. IsFiniteSet(loaded)
    BY <2>1, FS_Interval, FS_Subset
  <2>3. \A f \in loaded : key[f] = f /\ f \in Nat
    BY <1>4
  <2>. QED
    BY <1>5, <2>2, <2>3, OrderIsIn
<1>7. oldest \in Seq(1 .. n + m)
  BY <1>3, <1>6
<1>8. Reverse(oldest) \in Seq(1 .. n + m)
  <2>1. PICK k \in Nat : /\ k = Len(oldest)
                         /\ \A j \in 1 .. k : oldest[j] \in 1 .. n + m
    BY <1>7
  <2>2. Reverse(oldest) = [j \in 1 .. k |-> oldest[k - j + 1]]
    BY <2>1 DEF Reverse
  <2>3. \A j \in 1 .. k : k - j + 1 \in 1 .. k
    OBVIOUS
  <2>4. [j \in 1 .. k |-> oldest[k - j + 1]] \in [1 .. k -> 1 .. n + m]
    BY <2>1, <2>3
  <2>. QED
    BY <2>2, <2>4
<1>9. all \in {oldest \o own, Reverse(oldest) \o own}
  BY <1>2, <1>3, <1>4, <1>5 DEF AllActive
<1>10. oldest \o own \in Seq(1 .. n + m) /\ Reverse(oldest) \o own \in Seq(1 .. n + m)
  BY <1>2, <1>7, <1>8
<1>. QED
  BY <1>1, <1>9, <1>10

\* The pairs that a run found in conflict.
LEMMA ConflictsAre ==
    ASSUME NEW rows, NEW ids, NEW all \in Seq(ids), NEW L \in Nat,
           L = Len(all), NEW found \in Conflicts(CandidatePairs(all, rows))
    PROVE  /\ IsFiniteSet(DOMAIN found)
           /\ \A p \in DOMAIN found :
                /\ p \in (1 .. L) \X (1 .. L)
                /\ all[p[1]] \in ids /\ all[p[2]] \in ids
                /\ rows[all[p[1]]].triple # rows[all[p[2]]].triple
<1>1. DOMAIN all = 1 .. L
  OBVIOUS
<1>2. PICK pairs : pairs = CandidatePairs(all, rows)
  OBVIOUS
<1>3. DOMAIN found \subseteq pairs
  BY <1>2 DEF Conflicts, kSubset
<1>4. \A p \in pairs :
        /\ p \in (1 .. L) \X (1 .. L)
        /\ rows[all[p[1]]].triple # rows[all[p[2]]].triple
  BY <1>1, <1>2 DEF CandidatePairs
<1>5. IsFiniteSet((1 .. L) \X (1 .. L))
  <2>1. 1 \in Int /\ L \in Int
    OBVIOUS
  <2>2. IsFiniteSet(1 .. L)
    BY <2>1, FS_Interval
  <2>. QED
    BY <2>2, FS_Product
<1>6. IsFiniteSet(DOMAIN found)
  BY <1>3, <1>4, <1>5, FS_Subset
<1>7. \A p \in pairs : all[p[1]] \in ids /\ all[p[2]] \in ids
  BY <1>1, <1>4
<1>. QED
  BY <1>3, <1>4, <1>6, <1>7

\* What a run commits: sound rows that satisfy the table's CHECK.
LEMMA CommitIs ==
    ASSUME FactsInv, IndexInv, NEW i \in Indexings, ResolveConflicts(i)
    PROVE  /\ FactsInv' /\ DOMAIN facts \subseteq DOMAIN facts'
           /\ \A f \in DOMAIN facts : facts[f].status = "SUPERSEDED" =>
                facts'[f].status = "SUPERSEDED"
<1>1. PICK old : old = WithOwn(i)
  OBVIOUS
<1>2. PICK n, m \in Nat :
        /\ n = Len(facts) /\ DOMAIN facts = 1 .. n
        /\ old \in Seq(Fact) /\ DOMAIN old = 1 .. n + m
        /\ \A f \in 1 .. n : old[f] = facts[f]
        /\ \A f \in n + 1 .. n + m : /\ old[f].status = "ACTIVE"
                                     /\ old[f].by = 0
  BY <1>1, WithOwnIs
<1>3. PICK all \in AllActive(i) :
        \E found \in Conflicts(CandidatePairs(all, old)) :
            facts' = IF RowsValid(Resolved(old, all, found))
                     THEN Resolved(old, all, found) ELSE facts
  BY <1>1 DEF ResolveConflicts
<1>4. PICK found \in Conflicts(CandidatePairs(all, old)) :
        facts' = IF RowsValid(Resolved(old, all, found))
                 THEN Resolved(old, all, found) ELSE facts
  BY <1>3
<1>5. all \in Seq(DOMAIN old)
  BY <1>1, AllActiveIs
<1>6. PICK L \in Nat : L = Len(all)
  BY <1>5
<1>7. /\ IsFiniteSet(DOMAIN found)
      /\ \A p \in DOMAIN found :
           /\ p \in (1 .. L) \X (1 .. L)
           /\ all[p[1]] \in DOMAIN old /\ all[p[2]] \in DOMAIN old
           /\ old[all[p[1]]].triple # old[all[p[2]]].triple
  BY <1>5, <1>6, ConflictsAre
<1>8. Sound(old, old)
  <2>1. ASSUME NEW f \in 1 .. n
        PROVE  /\ old[f].status = "SUPERSEDED" => old[f].by # 0
               /\ old[f].by # 0 =>
                    /\ old[f].by \in 1 .. n
                    /\ old[old[f].by].triple # old[f].triple
    <3>1. /\ facts[f].by \in 0 .. n
          /\ facts[f].status = "SUPERSEDED" <=> facts[f].by # 0
          /\ facts[f].by # 0 => facts[facts[f].by].triple # facts[f].triple
      BY <1>2 DEF FactsInv
    <3>2. facts[f].by # 0 => facts[f].by \in 1 .. n
      BY <3>1
    <3>. QED
      BY <1>2, <3>1, <3>2
  <2>2. \A f \in 1 .. n + m : f \in 1 .. n \/ f \in n + 1 .. n + m
    OBVIOUS
  <2>3. 1 .. n \subseteq 1 .. n + m
    OBVIOUS
  <2>4. \A f \in 1 .. n + m :
          /\ old[f].status = "SUPERSEDED" => old[f].by # 0
          /\ old[f].by # 0 => /\ old[f].by \in 1 .. n + m
                              /\ old[old[f].by].triple # old[f].triple
    BY <1>2, <2>1, <2>2, <2>3
  <2>. QED
    BY <1>2, <2>4 DEF Sound
<1>9. Sound(Resolved(old, all, found), old)
  BY <1>6, <1>7, <1>8, ResolvedIsSound
<1>10. PICK rows : rows = Resolved(old, all, found)
  OBVIOUS
<1>11. CASE RowsValid(rows)
  <2>1. /\ facts' = rows /\ rows \in Seq(Fact) /\ DOMAIN rows = 1 .. n + m
        /\ Len(rows) = n + m
    BY <1>2, <1>4, <1>9, <1>10, <1>11 DEF Sound
  <2>2. \A f \in 1 .. n + m :
          /\ rows[f].triple = old[f].triple
          /\ rows[f].status = "SUPERSEDED" <=> rows[f].by # 0
          /\ old[f].by # 0 => rows[f].by # 0
          /\ rows[f].by # 0 => /\ rows[f].by \in 1 .. n + m
                               /\ old[rows[f].by].triple # old[f].triple
    BY <1>2, <1>9, <1>10, <1>11, <2>1 DEF Sound, RowsValid
  <2>3. \A f \in 1 .. n + m : rows[f].by \in 0 .. n + m
    BY <2>2
  <2>4. FactsInv'
    BY <2>1, <2>2, <2>3 DEF FactsInv
  <2>5. DOMAIN facts \subseteq DOMAIN facts'
    BY <1>2, <2>1
  <2>6. \A f \in 1 .. n : facts[f].status = "SUPERSEDED" => rows[f].by # 0
    BY <1>2, <2>2 DEF FactsInv
  <2>7. \A f \in 1 .. n : f \in 1 .. n + m
    OBVIOUS
  <2>. QED
    BY <1>2, <2>1, <2>2, <2>4, <2>5, <2>6, <2>7
<1>12. CASE ~RowsValid(rows)
  <2>1. facts' = facts
    BY <1>4, <1>10, <1>12
  <2>. QED
    BY <2>1 DEF FactsInv
<1>. QED
  BY <1>11, <1>12

\* No fact is superseded at the start.
LEMMA InitFactsInv == Init => FactsInv /\ IndexInv
<1>. SUFFICES ASSUME Init PROVE FactsInv /\ IndexInv
  OBVIOUS
<1>1. PICK n \in Nat : n = Len(Earlier) /\ DOMAIN Earlier = 1 .. n
  BY MemoryConstantsOK
<1>2. facts = [f \in 1 .. n |->
                 [triple |-> Earlier[f], status |-> "ACTIVE", by |-> 0]]
  BY <1>1 DEF Init
<1>3. \A f \in 1 .. n : /\ facts[f] \in Fact /\ facts[f].status = "ACTIVE"
                        /\ facts[f].by = 0
  BY <1>1, <1>2, MemoryConstantsOK DEF Fact, Status
<1>4. facts \in [1 .. n -> Fact]
  BY <1>2, <1>3
<1>5. facts \in Seq(Fact) /\ DOMAIN facts = 1 .. n /\ Len(facts) \in Nat
  BY <1>4
<1>6. FactsInv
  BY <1>3, <1>5 DEF FactsInv
<1>7. IdleIndex \in IndexState
  BY DEF IdleIndex, IndexState
<1>8. IndexInv
  BY <1>7 DEF Init, IndexInv
<1>. QED
  BY <1>6, <1>8

\* An indexing whose state changes while no fact goes.
LEMMA IndexStep ==
    ASSUME IndexInv, NEW i \in Indexings, DOMAIN facts \subseteq DOMAIN facts',
           NEW new, index' = [index EXCEPT ![i] = new], new \in IndexState'
    PROVE  IndexInv'
<1>1. IndexState \subseteq IndexState'
  BY DEF IndexState
<1>2. index \in [Indexings -> IndexState']
  BY <1>1 DEF IndexInv
<1>3. PICK S : S = IndexState'
  OBVIOUS
<1>4. index' \in [Indexings -> S]
  BY <1>2, <1>3
<1>. QED
  BY <1>3, <1>4 DEF IndexInv

LEMMA IdleIndexIs ==
    /\ [IdleIndex EXCEPT !.pc = "done"] \in IndexState
    /\ [IdleIndex EXCEPT !.pc = "done"] \in IndexState'
<1>1. [IdleIndex EXCEPT !.pc = "done"] =
        [pc |-> "done", passage |-> {}, stated |-> <<>>, existing |-> {}]
  <2>1. \A a, b, c :
          [[pc |-> "new", passage |-> a, stated |-> b, existing |-> c]
              EXCEPT !.pc = "done"] =
            [pc |-> "done", passage |-> a, stated |-> b, existing |-> c]
    OBVIOUS
  <2>. QED
    BY <2>1, Zenon DEF IdleIndex
<1>2. <<>> \in Seq(Triples) /\ {} \in SUBSET Entries
  OBVIOUS
<1>3. /\ {} \in SUBSET DOMAIN facts /\ {} \in SUBSET DOMAIN facts'
      /\ "done" \in {"new", "read", "loaded", "done"}
  OBVIOUS
<1>4. [IdleIndex EXCEPT !.pc = "done"] \in IndexState
  BY <1>1, <1>2, <1>3 DEF IndexState
<1>5. [IdleIndex EXCEPT !.pc = "done"] \in IndexState'
  BY <1>1, <1>2, <1>3 DEF IndexState
<1>. QED
  BY <1>4, <1>5

\* Every step keeps FactsInv and IndexInv; no fact goes, and no superseded
\* fact comes back.
LEMMA FactsStep ==
    ASSUME MemoryInv, FactsInv, IndexInv, [Next]_vars
    PROVE  /\ FactsInv' /\ IndexInv' /\ DOMAIN facts \subseteq DOMAIN facts'
           /\ \A f \in DOMAIN facts : facts[f].status = "SUPERSEDED" =>
                facts'[f].status = "SUPERSEDED"
<1>. DEFINE Goal == /\ FactsInv' /\ IndexInv'
                    /\ DOMAIN facts \subseteq DOMAIN facts'
                    /\ \A f \in DOMAIN facts : facts[f].status = "SUPERSEDED" =>
                         facts'[f].status = "SUPERSEDED"
<1>1. ASSUME facts' = facts, IndexInv'
      PROVE  Goal
  BY <1>1 DEF FactsInv
<1>2. ASSUME UNCHANGED factVars
      PROVE  Goal
  <2>1. facts' = facts /\ IndexInv'
    BY <1>2 DEF factVars, IndexInv, IndexState
  <2>. QED
    BY <1>1, <2>1
<1>3. ASSUME NEW i \in Indexings, ReadPassage(i)
      PROVE  Goal
  <2>1. facts' = facts /\ index[i] \in IndexState
    BY <1>3 DEF ReadPassage, IndexInv
  <2>2. PICK passage \in SUBSET Entries :
          passage = UNION {r.holds : r \in RecentRows}
    <3>1. \A r \in RecentRows : r \in Row
      BY DEF RecentRows, MemoryInv, MemoryTypes
    <3>2. \A r \in RecentRows : r.holds \subseteq Entries
      BY <3>1 DEF Row
    <3>3. UNION {r.holds : r \in RecentRows} \subseteq Entries
      BY <3>2
    <3>. QED
      BY <3>3
  <2>3. PICK new : /\ index' = [index EXCEPT ![i] = new]
                   /\ new \in {[index[i] EXCEPT !.pc = "done"],
                               [index[i] EXCEPT !.pc = "read",
                                                !.passage = passage]}
    BY <1>3, <2>2 DEF ReadPassage
  <2>4. new \in IndexState
    BY <2>1, <2>3 DEF IndexState
  <2>5. new \in IndexState'
    BY <2>1, <2>4 DEF IndexState
  <2>6. IndexInv'
    BY <2>1, <2>3, <2>5, IndexStep
  <2>. QED
    BY <1>1, <2>1, <2>6
<1>4. ASSUME NEW i \in Indexings, InsertFacts(i)
      PROVE  Goal
  <2>1. facts' = facts /\ index[i] \in IndexState
    BY <1>4 DEF InsertFacts, IndexInv
  <2>2. PICK stated \in Extracted(index[i].passage) :
          index' = [index EXCEPT ![i] =
              IF stated = <<>> THEN [IdleIndex EXCEPT !.pc = "done"]
              ELSE [pc |-> "loaded", passage |-> {}, stated |-> stated,
                    existing |-> Active]]
    BY <1>4 DEF InsertFacts
  <2>3. stated \in Seq(Triples)
    BY <2>1, <2>2, ExtractedIs DEF IndexState
  <2>4. PICK active \in SUBSET DOMAIN facts : active = Active
    BY DEF Active
  <2>5. [pc |-> "loaded", passage |-> {}, stated |-> stated,
         existing |-> active] \in IndexState
    BY <2>3 DEF IndexState
  <2>6. PICK new \in IndexState : index' = [index EXCEPT ![i] = new]
    BY <2>2, <2>4, <2>5, IdleIndexIs
  <2>7. new \in IndexState'
    BY <2>1 DEF IndexState
  <2>8. IndexInv'
    BY <2>1, <2>6, <2>7, IndexStep
  <2>. QED
    BY <1>1, <2>1, <2>8
<1>5. ASSUME NEW i \in Indexings, ResolveConflicts(i)
      PROVE  Goal
  <2>1. /\ FactsInv' /\ DOMAIN facts \subseteq DOMAIN facts'
        /\ \A f \in DOMAIN facts : facts[f].status = "SUPERSEDED" =>
             facts'[f].status = "SUPERSEDED"
    BY <1>5, CommitIs
  <2>2. index' = [index EXCEPT ![i] = [IdleIndex EXCEPT !.pc = "done"]]
    BY <1>5 DEF ResolveConflicts
  <2>3. IndexInv'
    BY <2>1, <2>2, IndexStep, IdleIndexIs
  <2>. QED
    BY <2>1, <2>3
<1>6. ASSUME NEW i \in Indexings, facts' = facts,
             index' = [index EXCEPT ![i] = [IdleIndex EXCEPT !.pc = "done"]]
      PROVE  Goal
  <2>1. IndexInv'
    BY <1>6, IndexStep, IdleIndexIs
  <2>. QED
    BY <1>1, <1>6, <2>1
<1>. HIDE DEF Goal
<1>7. ASSUME JobFails
      PROVE  Goal
  <2>1. ASSUME NEW k \in Compactions, UNCHANGED factVars
        PROVE  Goal
    BY <1>2, <2>1
  <2>2. ASSUME NEW i \in Indexings, UNCHANGED <<memoryVars, facts>>,
               index' = [index EXCEPT ![i] = [IdleIndex EXCEPT !.pc = "done"]]
        PROVE  Goal
    <3>1. facts' = facts
      BY <2>2
    <3>. QED
      BY <1>6, <2>2, <3>1
  <2>. QED
    BY <1>7, <2>1, <2>2 DEF JobFails
<1>8. ASSUME \/ Remember \/ UNCHANGED vars
             \/ \E k \in Compactions :
                  BeginCompaction(k) \/ ReadOverflow(k) \/ WriteMerged(k)
      PROVE  Goal
  BY <1>2, <1>8 DEF Remember, BeginCompaction, ReadOverflow, WriteMerged, vars
<1>9. Goal
  BY <1>3, <1>4, <1>5, <1>7, <1>8 DEF Next
<1>. QED
  BY <1>9 DEF Goal

-----------------------------------------------------------------------------
(* The theorems about both.                                                *)

MInv == MemoryInv /\ FactsInv /\ IndexInv

LEMMA Always == Spec => []MInv
<1>1. Init => MInv
  BY InitMemoryInv, InitFactsInv DEF MInv
<1>2. MInv /\ [Next]_vars => MInv'
  BY MemoryStep, FactsStep DEF MInv
<1>. QED
  BY <1>1, <1>2, PTL DEF Spec

\* The tables stay well formed: rows and facts have their types, no two rows
\* the same creation time, and a fact row satisfies the table's CHECK, which
\* is read here in both directions: superseded means superseded by a row.
THEOREM MemoryAndFactTypes == Spec => []TypeOK
<1>1. ASSUME MInv PROVE TypeOK
  <2>1. MemoryTypes /\ RowsInv
    BY <1>1 DEF MInv, MemoryInv
  <2>2. \A r, o \in memories : r.holds # {} /\ (r.at = o.at => r = o)
    BY <2>1 DEF MemoryTypes, RowsInv, Bounded
  <2>3. \A k \in Compactions : job[k].pc = "write" => job[k].overflow # {}
    BY <1>1 DEF MInv, MemoryInv, Writes, JobInv
  <2>. QED
    BY <1>1, <2>1, <2>2, <2>3
       DEF TypeOK, MInv, MemoryTypes, FactsInv, IndexInv, IndexState
<1>. QED
  BY <1>1, Always, PTL

\* A superseded fact stays superseded, by a fact that says something else,
\* whatever runs that loaded it before decide afterwards.
THEOREM SupersededStays == Spec => SupersededIsFinal
<1>. DEFINE Final == \A f \in DOMAIN facts' :
              /\ f \in DOMAIN facts /\ facts[f].status = "SUPERSEDED"
                   => facts'[f].status = "SUPERSEDED"
              /\ facts'[f].by # 0 =>
                   facts'[facts'[f].by].triple # facts'[f].triple
<1>1. MInv /\ [Next]_vars => Final
  BY FactsStep DEF MInv, FactsInv
<1>2. MInv /\ [Next]_vars => [Final]_vars
  BY <1>1
<1>. HIDE DEF Final
<1>3. Spec => [][Final]_vars
  BY <1>2, Always, PTL DEF Spec
<1>. QED
  BY <1>3 DEF SupersededIsFinal, Final
=============================================================================
