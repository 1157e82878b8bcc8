------------------------------- MODULE Authoring -------------------------------
(***************************************************************************)
(* What happens to one story beside the generation of its chapters:        *)
(*                                                                         *)
(*   api/routes/stories.py, cast.py   the story, its characters, its cast  *)
(*   api/routes/endings.py            the ending of a branch               *)
(*   api/routes/preferences.py        consent and its snapshots            *)
(*   api/routes/progression.py        the child branch of a rewind or edit *)
(*   api/routes/world.py, revisions.py, services/canon_events.py,          *)
(*   services/revisions.py            requests that change what is written *)
(*   workers/report_job.py            the business report of a chapter      *)
(*   migrations/0003, 0009, 0012, 0014   the indexes they rely on          *)
(*                                                                         *)
(* A call is one transaction at READ COMMITTED, and its statements are the *)
(* steps: another call may commit between a read and the write it leads    *)
(* to.  The evaluator and world_commit_canon_event are called by nothing   *)
(* under src/: they are external.                                          *)
(***************************************************************************)
EXTENDS Naturals, FiniteSets, FiniteSetsExt

CONSTANTS
    Calls,     \* handlers that run, each for one call, and report jobs
    Names,     \* names a character may have
    Founders,  \* the characters the story is created with
    Options,   \* the branch's ending options
    Keys,      \* idempotency keys the author's client sends
    Chapters,  \* published chapters: to rewind to, and to report on
    Parents,   \* branches of the story: to rewind, or to edit traits on
    None

ASSUME AuthoringConstantsOK ==
    /\ Founders \subseteq Names /\ Founders # {}
    /\ None \notin Calls \cup Names \cup Options \cup Keys \cup Chapters

VARIABLES
    locked,     \* cast_locked_at is set
    entities,   \* the story's characters
    cast,       \* cast_members
    selected,   \* ending_options with selected = true
    consented,  \* the author has a preference that is not revoked
    snapshots,  \* personalization_snapshots: version and what it froze
    branches,   \* child branches: parent, the chapter they fork from, letter
    asks,       \* canon_event_requests and chapter_revisions
    events,     \* canon_events: the request that each one commits
    reports,    \* business_reports: the chapter whose candidate each is about
    call

castVars == <<locked, entities, cast>>
rowVars  == <<selected, consented, snapshots, branches>>
askVars  == <<asks, events, reports>>
vars == <<castVars, rowVars, askVars, call>>

Tables   == {"canon_event_requests", "chapter_revisions"}
Progress == {"DRAFT", "EVALUATING", "APPROVED", "ADJUSTED", "REJECTED", "FAILED"}
TraitEdit == 0
IdleCall == [pc |-> "new", arg |-> None, read |-> {}]

\* create_story inserts the story, its branch and its characters, and nobody
\* into the cast.
Init ==
    /\ locked = FALSE /\ entities = Founders /\ cast = {}
    /\ selected \in {{}} \cup {{o} : o \in Options}
    /\ consented \in BOOLEAN /\ snapshots = {} /\ branches = {}
    /\ asks = {} /\ events = {} /\ reports = {}
    /\ call = [r \in Calls |-> IdleCall]

Goes(r, pc, arg, read) == call' = [call EXCEPT ![r] = [pc |-> pc, arg |-> arg, read |-> read]]
Done(r) == call' = [call EXCEPT ![r] = [IdleCall EXCEPT !.pc = "done"]]

-----------------------------------------------------------------------------
(* cast.py.  A list of an unlocked story's members locks it first.         *)

ReadLock(r) ==
    /\ call[r].pc = "new" /\ ~locked
    /\ Goes(r, "lock", None, {})
    /\ UNCHANGED <<castVars, rowVars, askVars>>

LockCast(r) ==
    /\ call[r].pc = "lock"
    /\ cast' = cast \cup entities /\ locked' = TRUE
    /\ Done(r)
    /\ UNCHANGED <<entities, rowVars, askVars>>

\* A name that the story has is refused, in the cast or removed from it.
AddCastMember(r) ==
    /\ call[r].pc = "new"
    /\ \E name \in Names \ entities :
         entities' = entities \cup {name} /\ cast' = cast \cup {name}
    /\ Done(r)
    /\ UNCHANGED <<locked, rowVars, askVars>>

\* Mutant: one member is enough to remove one.
MayRemoveLast == Cardinality(cast) >= 1

MayRemove == Cardinality(cast) > 1

CountMembers(r) ==
    /\ call[r].pc = "new" /\ MayRemove
    /\ \E name \in cast : Goes(r, "delete", name, cast)
    /\ UNCHANGED <<castVars, rowVars, askVars>>

RemoveCastMember(r) ==
    /\ call[r].pc = "delete"
    /\ cast' = cast \ {call[r].arg}
    /\ Done(r)
    /\ UNCHANGED <<locked, entities, rowVars, askVars>>

-----------------------------------------------------------------------------
(* endings.py.  An updated row stays locked until its call ends.           *)

Held(r) == IF call[r].pc = "select" THEN call[r].read ELSE {}
LockedByOthers(r) == UNION {Held(o) : o \in Calls \ {r}}

\* The UPDATE sees the rows selected when it starts; None is an option that
\* the branch does not have.
SelectEnding(r) ==
    /\ call[r].pc = "new"
    /\ \E o \in Options \cup {None} : Goes(r, "deselect", o, selected \ {o})
    /\ UNCHANGED <<castVars, rowVars, askVars>>

\* It waits for their locks, and leaves those that are deselected by then.
DeselectOthers(r) ==
    /\ call[r].pc = "deselect"
    /\ call[r].read \cap LockedByOthers(r) = {}
    /\ Goes(r, "select", call[r].arg, call[r].read \cap selected)
    /\ UNCHANGED <<castVars, rowVars, askVars>>

\* Mutant: the deselection is kept though there is nothing to select.
OutcomeKept(r) == IF call[r].arg = None THEN selected \ call[r].read
                  ELSE (selected \ call[r].read) \cup {call[r].arg}

\* ending_options_one_selected_idx refuses a second one; both that and an
\* unknown option roll the call back.
Outcome(r) ==
    LET after == (selected \ call[r].read) \cup {call[r].arg}
    IN  IF call[r].arg # None /\ Cardinality(after) <= 1 THEN after ELSE selected

SelectOption(r) ==
    /\ call[r].pc = "select"
    /\ call[r].arg \notin LockedByOthers(r)
    /\ selected' = Outcome(r)
    /\ Done(r)
    /\ UNCHANGED <<castVars, consented, snapshots, branches, askVars>>

-----------------------------------------------------------------------------
(* preferences.py, and the child branches of progression.py: a number is   *)
(* counted and then inserted.                                              *)

\* upsert_preference clears revoked_at; delete_preference sets it.
ChangePreference(r) ==
    /\ call[r].pc = "new"
    /\ consented' = ~consented
    /\ Done(r)
    /\ UNCHANGED <<castVars, selected, snapshots, branches, askVars>>

ReadPreferences(r) ==
    /\ call[r].pc = "new"
    /\ Goes(r, "version", None, consented)
    /\ UNCHANGED <<castVars, rowVars, askVars>>

NextVersion == Max({0} \cup {s.version : s \in snapshots}) + 1

ReadVersion(r) ==
    /\ call[r].pc = "version"
    /\ Goes(r, "snapshot", NextVersion, call[r].read)
    /\ UNCHANGED <<castVars, rowVars, askVars>>

\* UNIQUE (user_id, snapshot_version).
InsertSnapshot(r) ==
    /\ call[r].pc = "snapshot"
    /\ snapshots' = IF \E s \in snapshots : s.version = call[r].arg THEN snapshots
                    ELSE snapshots \cup {[version |-> call[r].arg, holds |-> call[r].read, by |-> r]}
    /\ Done(r)
    /\ UNCHANGED <<castVars, selected, consented, branches, askVars>>

\* "Branch B" is 1; a trait edit has no chapter and no letter.  The forks of
\* every parent count.
NextLetter(chapter) ==
    IF chapter = None THEN TraitEdit
    ELSE 1 + Cardinality({b \in branches : b.from = chapter})

CountSiblings(r) ==
    /\ call[r].pc = "new"
    /\ \E parent \in Parents, chapter \in Chapters \cup {None} :
         Goes(r, "fork", [parent |-> parent, from |-> chapter], NextLetter(chapter))
    /\ UNCHANGED <<castVars, rowVars, askVars>>

\* Mutant: the table admits a name twice.
NameFreeAlways(fork) == TRUE

SameName(b, o) == b.parent = o.parent /\ b.from = o.from /\ b.letter = o.letter

\* UNIQUE (story_id, name): a name is the parent's, the chapter and the letter.
NameFree(fork) == ~ \E b \in branches : SameName(b, fork)

\* The job that the branch is made for may be refused: then it goes as well.
InsertBranch(r) ==
    LET fork == [parent |-> call[r].arg.parent, from |-> call[r].arg.from,
                 letter |-> call[r].read, by |-> r]
    IN  /\ call[r].pc = "fork"
        /\ branches' \in {branches} \cup (IF NameFree(fork) THEN {branches \cup {fork}} ELSE {})
        /\ Done(r)
        /\ UNCHANGED <<castVars, selected, consented, snapshots, askVars>>

-----------------------------------------------------------------------------
(* world.py, revisions.py.                                                 *)

Keyed(table, key) == {q \in asks : q.table = table /\ q.key = key}

\* A call that does not match If-Match gets 412, also one that repeats an
\* accepted call; then a row that has the key answers it.
Ask(r) ==
    /\ call[r].pc = "new"
    /\ \E table \in Tables, key \in Keys \cup {None} :
         /\ key = None \/ Keyed(table, key) = {}
         /\ Goes(r, "ask", table, key)
    /\ UNCHANGED <<castVars, rowVars, askVars>>

\* Mutant: only the lookup keeps a key from being used twice.
KeyUnusedAtLookup(table, key) == TRUE

\* The partial unique index on the user and the key.
KeyUnused(table, key) == key = None \/ Keyed(table, key) = {}

InsertAsk(r) ==
    LET table == call[r].arg
        key   == call[r].read
    IN  /\ call[r].pc = "ask"
        /\ asks' = IF ~KeyUnused(table, key) THEN asks
                   ELSE asks \cup {[id |-> r, table |-> table, key |-> key, status |-> "DRAFT"]}
        /\ Done(r)
        /\ UNCHANGED <<castVars, rowVars, events, reports>>

SetStatus(q, status) == asks' = (asks \ {q}) \cup {[q EXCEPT !.status = status]}

\* _ALLOWED_TRANSITIONS without the approval.
Transitions ==
    [DRAFT |-> {"EVALUATING"}, EVALUATING |-> {"ADJUSTED", "REJECTED", "FAILED"},
     APPROVED |-> {}, ADJUSTED |-> {}, REJECTED |-> {"DRAFT"}, FAILED |-> {"DRAFT"}]

EvaluatorMoves ==
    /\ \E q \in asks : /\ q.table = "canon_event_requests"
                       /\ \E status \in Transitions[q.status] : SetStatus(q, status)
    /\ UNCHANGED <<castVars, rowVars, events, reports, call>>

\* world_commit_canon_event reads the status without a lock on the row.
ReadEvaluating(r) ==
    /\ call[r].pc = "new"
    /\ \E q \in asks : /\ q.table = "canon_event_requests" /\ q.status = "EVALUATING"
                       /\ Goes(r, "commit", q.id, {})
    /\ UNCHANGED <<castVars, rowVars, askVars>>

CommitCanonEvent(r) ==
    /\ call[r].pc = "commit"
    /\ events' = events \cup {[of |-> call[r].arg, by |-> r]}
    /\ \E q \in asks : q.id = call[r].arg /\ SetStatus(q, "APPROVED")
    /\ Done(r)
    /\ UNCHANGED <<castVars, rowVars, reports>>

-----------------------------------------------------------------------------
(* report_job.py.  A chapter that has its report is left alone.            *)

FindsNoReport(r) ==
    /\ call[r].pc = "new"
    /\ \E chapter \in Chapters :
         /\ \A p \in reports : p.chapter # chapter
         /\ Goes(r, "report", chapter, {})
    /\ UNCHANGED <<castVars, rowVars, askVars>>

\* Another run may have written the report by now: ON CONFLICT DO NOTHING.  A
\* model call that fails leaves no row, and the chapter as it is.
InsertReport(r) ==
    /\ call[r].pc = "report"
    /\ \/ /\ \A p \in reports : p.chapter # call[r].arg
          /\ reports' = reports \cup {[chapter |-> call[r].arg, by |-> r]}
       \/ UNCHANGED reports
    /\ Done(r)
    /\ UNCHANGED <<castVars, rowVars, asks, events>>

-----------------------------------------------------------------------------

Next ==
    \/ \E r \in Calls :
         \/ ReadLock(r) \/ LockCast(r) \/ AddCastMember(r)
         \/ CountMembers(r) \/ RemoveCastMember(r)
         \/ SelectEnding(r) \/ DeselectOthers(r) \/ SelectOption(r)
         \/ ChangePreference(r) \/ ReadPreferences(r) \/ ReadVersion(r) \/ InsertSnapshot(r)
         \/ CountSiblings(r) \/ InsertBranch(r)
         \/ Ask(r) \/ InsertAsk(r) \/ ReadEvaluating(r) \/ CommitCanonEvent(r)
         \/ FindsNoReport(r) \/ InsertReport(r)
    \/ EvaluatorMoves

Spec == Init /\ [][Next]_vars

-----------------------------------------------------------------------------

\* "The one thing still blocked is emptying the cast entirely": only a removal
\* that counted the members before another one left empties it, whatever locks
\* and additions run beside them.
CastKept ==
    [][cast # {} /\ cast' = {} =>
          \E r \in Calls : call[r].pc = "delete" /\ call'[r].pc = "done" /\ call[r].read # cast
      ]_vars

\* A branch whose ending was chosen has exactly one chosen ending from then on,
\* through selections that race, fail or name an option that is not there.
EndingKept ==
    [][Cardinality(selected') <= 1 /\ (selected # {} => selected' # {})]_vars

\* A key is used by one row of a table, however the calls that send it overlap,
\* an event is committed for an approved request alone, and a chapter has at
\* most one report.
KeyedOnce ==
    /\ \A q, p \in asks : q.table = p.table /\ q.key = p.key /\ q.key # None => q = p
    /\ \A e \in events : \E q \in asks : q.id = e.of /\ q.status = "APPROVED"
    /\ \A p, o \in reports : p.chapter = o.chapter => p = o

\* Calls that count the rows there are and then insert one never repeat a
\* number nor leave a gap: the snapshots are versions 1 .. n, and the branches
\* that rewind one parent to a chapter have letters from B on.  With several
\* parents, which share the count, a parent's letters are different ones and
\* none is beyond the count; and a parent has one trait edit.
NumberedApart ==
    /\ {s.version : s \in snapshots} = 1 .. Cardinality(snapshots)
    /\ \A chapter \in Chapters :
         LET forks == {b \in branches : b.from = chapter}
             n     == Cardinality(forks)
         IN  /\ \A b \in forks : b.letter \in 1 .. n
             /\ \A b, o \in forks : b.parent = o.parent /\ b # o => b.letter # o.letter
             /\ (\A b, o \in forks : b.parent = o.parent) => {b.letter : b \in forks} = 1 .. n
    /\ \A b, o \in branches :
         b.from = None /\ o.from = None /\ b.parent = o.parent => b = o
=============================================================================
