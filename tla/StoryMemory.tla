------------------------------ MODULE StoryMemory ------------------------------
(***************************************************************************)
(* The memory of one character on one branch:                              *)
(*                                                                         *)
(*   workers/memory_compaction.py      old EPISODIC rows become one row    *)
(*   workers/memory_graph_index.py     facts drawn from the recent rows    *)
(*   memory_graph/conflict.py, relation_extract.py                         *)
(*   migrations/0023_memory_graph.sql  what a fact row may hold            *)
(*                                                                         *)
(* Both jobs run beside each other and beside themselves, each in one      *)
(* transaction at READ COMMITTED.  A run covers every character; another   *)
(* character's failure rolls this one's work back too (JobFails).  Nothing *)
(* under src/ inserts an EPISODIC row: the writer is external.             *)
(***************************************************************************)
EXTENDS Naturals, Sequences, FiniteSets, FiniteSetsExt, SequencesExt

CONSTANTS
    Compactions,   \* runs of the compaction job
    Indexings,     \* runs of the indexing job
    MaxEntries,    \* bound: memories the character gets, one per chapter
    KeepRecent,    \* DEFAULT_KEEP_RECENT
    PassageLimit,  \* DEFAULT_PASSAGE_ENTRY_LIMIT
    TripleOf,      \* the fact a memory states
    Related,       \* pairs of triples with a common head or tail
    Earlier,       \* the facts that earlier runs left
    MaxTriples,    \* bound: triples a run extracts
    MaxConflicts   \* bound: pairs of a run that the model finds in conflict

Entries == 1 .. MaxEntries
Triples == {TripleOf[e] : e \in Entries}

ASSUME MemoryConstantsOK ==
    /\ MaxEntries \in Nat /\ DOMAIN TripleOf = Entries
    /\ KeepRecent \in Nat \ {0} /\ PassageLimit \in Nat \ {0}
    /\ Related \subseteq Triples \X Triples
    /\ \A p \in Related : <<p[2], p[1]>> \in Related
    /\ Earlier \in Seq(Triples)
    /\ MaxTriples \in Nat /\ MaxConflicts \in Nat

VARIABLES
    memories,  \* character_memories: the committed EPISODIC rows
    told,      \* memories so far
    clock,     \* transactions begun: now() is the start of the transaction
    job,       \* a compaction: when it began, and what it read
    facts,     \* fact_nodes: the committed rows, in the order of their ids
    index      \* an indexing: its passage, then its facts and the ACTIVE ones

memoryVars == <<memories, told, clock, job>>
factVars   == <<facts, index>>
vars == <<memoryVars, factVars>>

\* created_at, the memories in content, visible_through_chapter_id.
Row == [at : Nat, holds : SUBSET Entries, through : Entries, compacted : BOOLEAN]

Status == {"ACTIVE", "SUPERSEDED", "CONTESTED"}

\* A fact row; by is superseded_by, or 0.
Fact == [triple : Triples, status : Status, by : Nat]

IdleJob   == [pc |-> "new", at |-> 0, overflow |-> {}]
IdleIndex == [pc |-> "new", passage |-> {}, stated |-> <<>>, existing |-> {}]

TypeOK ==
    /\ memories \in SUBSET Row
    /\ \A r, o \in memories : r.holds # {} /\ (r.at = o.at => r = o)
    /\ told \in 0 .. MaxEntries /\ clock \in Nat
    /\ job \in [Compactions -> [pc : {"new", "begun", "write", "done"}, at : Nat,
                                overflow : SUBSET Row]]
    /\ \A k \in Compactions : job[k].pc = "write" => job[k].overflow # {}
    /\ facts \in Seq(Fact)
    /\ \A f \in DOMAIN facts :
         /\ facts[f].by \in 0 .. Len(facts)
         /\ facts[f].status = "SUPERSEDED" <=> facts[f].by # 0
    /\ index \in [Indexings -> [pc : {"new", "read", "loaded", "done"},
                                passage : SUBSET Entries, stated : Seq(Triples),
                                existing : SUBSET DOMAIN facts]]

Init ==
    /\ memories = {} /\ told = 0 /\ clock = 0
    /\ job = [k \in Compactions |-> IdleJob]
    /\ facts = [f \in DOMAIN Earlier |-> [triple |-> Earlier[f], status |-> "ACTIVE", by |-> 0]]
    /\ index = [i \in Indexings |-> IdleIndex]

-----------------------------------------------------------------------------
(* character_memories.                                                     *)

\* The writer of EPISODIC rows: one per chapter, visible through it.
Remember ==
    /\ told < MaxEntries
    /\ told' = told + 1 /\ clock' = clock + 1
    /\ memories' = memories \cup
           {[at |-> clock, holds |-> {told + 1}, through |-> told + 1, compacted |-> FALSE]}
    /\ UNCHANGED <<job, factVars>>

Newer(r) == {o \in memories : o.at > r.at}

\* rows[keep_recent:], newest first.
Overflow == {r \in memories : Cardinality(Newer(r)) >= KeepRecent}

\* The branch, the tenant and the characters are read first.
BeginCompaction(k) ==
    /\ job[k].pc = "new"
    /\ job' = [job EXCEPT ![k] = [IdleJob EXCEPT !.pc = "begun", !.at = clock]]
    /\ clock' = clock + 1
    /\ UNCHANGED <<memories, told, factVars>>

ReadOverflow(k) ==
    /\ job[k].pc = "begun"
    /\ job' = [job EXCEPT ![k] = IF Overflow = {} THEN [IdleJob EXCEPT !.pc = "done"]
                                 ELSE [@ EXCEPT !.pc = "write", !.overflow = Overflow]]
    /\ UNCHANGED <<memories, told, clock, factVars>>

\* Mutant: the cutoff of the oldest row.
ThroughOfOldest(overflow) ==
    (CHOOSE r \in overflow : \A o \in overflow : o.at >= r.at).through

\* overflow[0].
Newest(overflow) == CHOOSE r \in overflow : \A o \in overflow : o.at <= r.at

Through(overflow) == Newest(overflow).through

Merged(k) ==
    [at |-> job[k].at, through |-> Through(job[k].overflow), compacted |-> TRUE,
     holds |-> UNION {r.holds : r \in job[k].overflow}]

\* Mutant: whatever is over the threshold by then is deleted.
DeletedByAge(k) == Overflow

\* The rows that were read, if another compaction has not deleted them.
Deleted(k) == job[k].overflow

WriteMerged(k) ==
    /\ job[k].pc = "write"
    /\ memories' = (memories \cup {Merged(k)}) \ Deleted(k)
    /\ job' = [job EXCEPT ![k] = [IdleJob EXCEPT !.pc = "done"]]
    /\ UNCHANGED <<told, clock, factVars>>

-----------------------------------------------------------------------------
(* fact_nodes.                                                             *)

RecentRows == {r \in memories : Cardinality(Newer(r)) < PassageLimit}

\* A character without EPISODIC rows is not visited.
ReadPassage(i) ==
    /\ index[i].pc = "new"
    /\ index' = [index EXCEPT ![i] =
           IF memories = {} THEN [@ EXCEPT !.pc = "done"]
           ELSE [@ EXCEPT !.pc = "read",
                          !.passage = UNION {r.holds : r \in RecentRows}]]
    /\ UNCHANGED <<memoryVars, facts>>

\* The triples in the model's answer, which may repeat one; a malformed one is
\* skipped.
Extracted(passage) == SeqOf({TripleOf[e] : e \in passage}, MaxTriples)

Active == {f \in DOMAIN facts : facts[f].status = "ACTIVE"}

\* The new facts are inserted, and then the ACTIVE ones are loaded.
InsertFacts(i) ==
    /\ index[i].pc = "read"
    /\ \E stated \in Extracted(index[i].passage) :
         index' = [index EXCEPT ![i] =
             IF stated = <<>> THEN [IdleIndex EXCEPT !.pc = "done"]
             ELSE [pc |-> "loaded", passage |-> {}, stated |-> stated,
                   existing |-> Active]]
    /\ UNCHANGED <<memoryVars, facts>>

\* The facts with this run's own; their ids are known at the commit.
WithOwn(i) ==
    facts \o [n \in DOMAIN index[i].stated |->
                 [triple |-> index[i].stated[n], status |-> "ACTIVE", by |-> 0]]

Inserted(i) == [n \in DOMAIN index[i].stated |-> Len(facts) + n]

\* The elements of S, by ascending key.
InOrder(S, key) ==
    [n \in 1 .. Cardinality(S) |->
        CHOOSE x \in S : Cardinality({y \in S : key[y] < key[x]}) = n - 1]

\* The loaded facts include the inserted ones, which follow once more.  The
\* query names no order: oldest first and newest first stand for all of them.
AllActive(i) ==
    LET loaded == index[i].existing \cup ToSet(Inserted(i))
        oldest == InOrder(loaded, [f \in loaded |-> f])
    IN  {oldest \o Inserted(i), Reverse(oldest) \o Inserted(i)}

\* find_candidate_pairs: positions in the list.
CandidatePairs(all, rows) ==
    {p \in (DOMAIN all) \X (DOMAIN all) :
        /\ p[1] < p[2]
        /\ rows[all[p[1]]].triple # rows[all[p[2]]].triple
        /\ <<rows[all[p[1]]].triple, rows[all[p[2]]].triple>> \in Related}

\* detect_conflicts: the pairs for which the answer asks for a change.
Conflicts(pairs) ==
    UNION {[found -> {"SUPERSEDE_EARLIER", "FLAG_FOR_REVIEW"}] :
              found \in UNION {kSubset(n, pairs) : n \in 0 .. MaxConflicts}}

\* Mutant: any status goes with superseded_by.
AnyStatus(rows) == TRUE

\* CHECK (superseded_by IS NULL OR status = 'SUPERSEDED').
RowsValid(rows) == \A f \in DOMAIN rows : rows[f].by # 0 => rows[f].status = "SUPERSEDED"

\* Mutant: the id of the later fact is not written.
SupersedeUnlinked(rows, earlier, later) == [rows EXCEPT ![earlier].status = "SUPERSEDED"]

Supersede(rows, earlier, later) ==
    [rows EXCEPT ![earlier].status = "SUPERSEDED", ![earlier].by = later]

Flag(rows, a, b) == [rows EXCEPT ![a].status = "CONTESTED", ![b].status = "CONTESTED"]

Update(rows, all, found, p) ==
    IF ~RowsValid(rows) THEN rows
    ELSE IF found[p] = "FLAG_FOR_REVIEW" THEN Flag(rows, all[p[1]], all[p[2]])
    ELSE Supersede(rows, all[p[1]], all[p[2]])

\* One update after the other, until one of them is refused.
Resolved(rows, all, found) ==
    LET order == InOrder(DOMAIN found,
                         [p \in DOMAIN found |-> p[1] * Len(all) + p[2]])
        after[n \in 0 .. Len(order)] ==
            IF n = 0 THEN rows ELSE Update(after[n - 1], all, found, order[n])
    IN  after[Len(order)]

\* The classification calls, then the updates and the commit.  A refused
\* update raises, and the run's facts go with it.
ResolveConflicts(i) ==
    /\ index[i].pc = "loaded"
    /\ \E all \in AllActive(i) : \E found \in Conflicts(CandidatePairs(all, WithOwn(i))) :
         LET rows == Resolved(WithOwn(i), all, found)
         IN  facts' = IF RowsValid(rows) THEN rows ELSE facts
    /\ index' = [index EXCEPT ![i] = [IdleIndex EXCEPT !.pc = "done"]]
    /\ UNCHANGED memoryVars

-----------------------------------------------------------------------------

\* A model call failed, an answer was malformed, two runs waited for each
\* other's rows, or the process died.
JobFails ==
    \/ \E k \in Compactions :
         /\ job[k].pc \in {"begun", "write"}
         /\ job' = [job EXCEPT ![k] = [IdleJob EXCEPT !.pc = "done"]]
         /\ UNCHANGED <<memories, told, clock, factVars>>
    \/ \E i \in Indexings :
         /\ index[i].pc \in {"read", "loaded"}
         /\ index' = [index EXCEPT ![i] = [IdleIndex EXCEPT !.pc = "done"]]
         /\ UNCHANGED <<memoryVars, facts>>

Next ==
    \/ Remember
    \/ \E k \in Compactions : BeginCompaction(k) \/ ReadOverflow(k) \/ WriteMerged(k)
    \/ \E i \in Indexings : ReadPassage(i) \/ InsertFacts(i) \/ ResolveConflicts(i)
    \/ JobFails

Spec == Init /\ [][Next]_vars

-----------------------------------------------------------------------------

\* Every memory is held by some row: a compaction deletes nothing that its
\* merged row does not carry, whatever was written or compacted meanwhile.
NothingForgotten == 1 .. told \subseteq UNION {r.holds : r \in memories}

VisibleThrough(rows, e) == Max({0} \cup {r.through : r \in {o \in rows : e \in o.holds}})

\* memory_compaction.py, "visible_through_chapter_id must never regress": so it
\* is for every memory unless the newest row a compaction merges is itself a
\* merged one, which counts as recent though what it holds is old.
VisibilityKept ==
    [][\A e \in 1 .. told :
          \/ VisibleThrough(memories', e) >= VisibleThrough(memories, e)
          \/ \E k \in Compactions : /\ job[k].pc = "write" /\ job'[k].pc = "done"
                                    /\ Newest(job[k].overflow).compacted
      ]_vars

\* A superseded fact stays superseded, by a fact that says something else, even
\* when a run that loaded it as ACTIVE later flags it for review.
SupersededIsFinal ==
    [][\A f \in DOMAIN facts' :
          /\ f \in DOMAIN facts /\ facts[f].status = "SUPERSEDED"
               => facts'[f].status = "SUPERSEDED"
          /\ facts'[f].by # 0 => facts'[facts'[f].by].triple # facts'[f].triple
      ]_vars
=============================================================================
