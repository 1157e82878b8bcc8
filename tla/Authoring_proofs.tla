---------------------------- MODULE Authoring_proofs ----------------------------
(***************************************************************************)
(* Proofs of Authoring's safety properties, for every set of calls, names, *)
(* options, keys, chapters and parents.  Each property has an invariant of *)
(* its own: what a call has read, and what the rows are that it read.      *)
(***************************************************************************)
EXTENDS Authoring, FiniteSetTheorems, TLAPS

\* A call's record is replaced as a whole, by one of its own steps.
Moves(r, to) == call' = [call EXCEPT ![r] = to]

CallsKept == call = [c \in Calls |-> call[c]]

\* The statements of cast.py, endings.py, preferences.py and the fork of
\* progression.py, of world.py, revisions.py and report_job.py.
CastStep(r) ==
    ReadLock(r) \/ LockCast(r) \/ AddCastMember(r) \/ CountMembers(r) \/ RemoveCastMember(r)
EndingStep(r)   == SelectEnding(r) \/ DeselectOthers(r) \/ SelectOption(r)
SnapshotStep(r) == ChangePreference(r) \/ ReadPreferences(r) \/ ReadVersion(r) \/ InsertSnapshot(r)
BranchStep(r)   == CountSiblings(r) \/ InsertBranch(r)
AskStep(r)      == Ask(r) \/ InsertAsk(r) \/ ReadEvaluating(r) \/ CommitCanonEvent(r)
ReportStep(r)   == FindsNoReport(r) \/ InsertReport(r)

LEMMA StepKinds ==
    ASSUME Next
    PROVE  \/ \E r \in Calls :
                \/ CastStep(r) \/ EndingStep(r) \/ SnapshotStep(r)
                \/ BranchStep(r) \/ AskStep(r) \/ ReportStep(r)
           \/ EvaluatorMoves
BY DEF Next, CastStep, EndingStep, SnapshotStep, BranchStep, AskStep, ReportStep

LEMMA CallsKeptStep ==
    ASSUME CallsKept, [Next]_vars
    PROVE  CallsKept'
<1>1. CASE UNCHANGED vars
      BY <1>1 DEF CallsKept, vars
<1>2. CASE EvaluatorMoves
      BY <1>2 DEF CallsKept, EvaluatorMoves
<1>3. ASSUME NEW r \in Calls, NEW to, Moves(r, to)
      PROVE  CallsKept'
      BY <1>3 DEF CallsKept, Moves
<1>4. ASSUME NEW r \in Calls, CastStep(r) \/ EndingStep(r) \/ SnapshotStep(r)
                               \/ BranchStep(r) \/ AskStep(r) \/ ReportStep(r)
      PROVE  \E to : Moves(r, to)
      BY <1>4 DEF Moves, Goes, Done, CastStep, EndingStep, SnapshotStep, BranchStep, AskStep,
                  ReportStep, ReadLock, LockCast, AddCastMember, CountMembers,
                  RemoveCastMember, SelectEnding, DeselectOthers, SelectOption,
                  ChangePreference, ReadPreferences, ReadVersion, InsertSnapshot,
                  CountSiblings, InsertBranch, Ask, InsertAsk, ReadEvaluating,
                  CommitCanonEvent, FindsNoReport, InsertReport
<1> QED BY <1>1, <1>2, <1>3, <1>4, StepKinds

-----------------------------------------------------------------------------
(* The ending.                                                             *)

LEMMA EndingStepKeeps ==
    ASSUME Cardinality(selected) <= 1, [Next]_vars
    PROVE  Cardinality(selected') <= 1 /\ (selected # {} => selected' # {})
<1>1. ASSUME NEW r \in Calls, SelectOption(r)
      PROVE  Cardinality(selected') <= 1 /\ (selected # {} => selected' # {})
      BY <1>1 DEF SelectOption, Outcome
<1>2. CASE UNCHANGED selected
      BY <1>2
<1>3. ASSUME NEW r \in Calls, CastStep(r) \/ SelectEnding(r) \/ DeselectOthers(r)
                               \/ SnapshotStep(r) \/ BranchStep(r) \/ AskStep(r) \/ ReportStep(r)
      PROVE  UNCHANGED selected
      BY <1>3 DEF CastStep, SnapshotStep, BranchStep, AskStep, ReportStep, rowVars,
                  ReadLock, LockCast, AddCastMember, CountMembers,
                  RemoveCastMember, SelectEnding, DeselectOthers,
                  ChangePreference, ReadPreferences, ReadVersion, InsertSnapshot,
                  CountSiblings, InsertBranch, Ask, InsertAsk, ReadEvaluating,
                  CommitCanonEvent, FindsNoReport, InsertReport
<1>4. CASE EvaluatorMoves \/ UNCHANGED vars
      BY <1>2, <1>4 DEF EvaluatorMoves, vars, rowVars
<1> QED BY <1>1, <1>2, <1>3, <1>4, StepKinds DEF EndingStep

\* A chosen ending stays chosen, and is the only one, whatever selections race.
THEOREM EndingStays == Spec => EndingKept
<1>1. Init => Cardinality(selected) <= 1
      BY FS_EmptySet, FS_Singleton DEF Init
<1>2. Cardinality(selected) <= 1 /\ [Next]_vars => (Cardinality(selected) <= 1)'
      BY EndingStepKeeps
<1>3. Cardinality(selected) <= 1 /\ [Next]_vars =>
          [Cardinality(selected') <= 1 /\ (selected # {} => selected' # {})]_vars
      BY EndingStepKeeps
<1> QED BY <1>1, <1>2, <1>3, PTL DEF Spec, EndingKept

-----------------------------------------------------------------------------
(* The cast.                                                               *)

\* A call that is about to delete has counted more than one member.
CastInv ==
    /\ CallsKept
    /\ \A r \in Calls : call[r].pc = "delete" => Cardinality(call[r].read) > 1

LEMMA CastInvStep ==
    ASSUME CastInv, [Next]_vars
    PROVE  CastInv'
<1>1. CallsKept'
      BY CallsKeptStep DEF CastInv
<1>2. \A r \in Calls : call'[r].pc = "delete" => Cardinality(call'[r].read) > 1
  <2>1. ASSUME NEW r \in Calls, CountMembers(r)
        PROVE  \A c \in Calls : call'[c].pc = "delete" => Cardinality(call'[c].read) > 1
        BY <2>1 DEF CountMembers, MayRemove, Goes, CastInv, CallsKept
  <2>2. ASSUME NEW r \in Calls,
               \/ ReadLock(r) \/ LockCast(r) \/ AddCastMember(r) \/ RemoveCastMember(r)
               \/ EndingStep(r) \/ SnapshotStep(r) \/ BranchStep(r) \/ AskStep(r) \/ ReportStep(r)
        PROVE  \E to : Moves(r, to) /\ to.pc # "delete"
        BY <2>2 DEF Moves, Goes, Done, IdleCall, EndingStep, SnapshotStep, BranchStep, AskStep,
                    ReportStep, ReadLock, LockCast, AddCastMember,
                    RemoveCastMember, SelectEnding, DeselectOthers, SelectOption,
                    ChangePreference, ReadPreferences, ReadVersion, InsertSnapshot,
                    CountSiblings, InsertBranch, Ask, InsertAsk, ReadEvaluating,
                    CommitCanonEvent, FindsNoReport, InsertReport
  <2>3. ASSUME NEW r \in Calls, NEW to, Moves(r, to), to.pc # "delete"
        PROVE  \A c \in Calls : call'[c].pc = "delete" => Cardinality(call'[c].read) > 1
        BY <2>3 DEF Moves, CastInv, CallsKept
  <2>4. CASE EvaluatorMoves \/ UNCHANGED vars
        BY <2>4 DEF EvaluatorMoves, vars, CastInv
  <2> QED BY <2>1, <2>2, <2>3, <2>4, StepKinds DEF CastStep
<1> QED BY <1>1, <1>2 DEF CastInv

LEMMA CastStepKeeps ==
    ASSUME CastInv, [Next]_vars, cast # {}, cast' = {}
    PROVE  \E r \in Calls : call[r].pc = "delete" /\ call'[r].pc = "done" /\ call[r].read # cast
<1>1. PICK r \in Calls : RemoveCastMember(r)
  <2>1. ASSUME NEW r \in Calls, ReadLock(r) \/ LockCast(r) \/ AddCastMember(r) \/ CountMembers(r)
                                 \/ EndingStep(r) \/ SnapshotStep(r) \/ BranchStep(r)
                                 \/ AskStep(r) \/ ReportStep(r)
        PROVE  FALSE
        BY <2>1 DEF EndingStep, SnapshotStep, BranchStep, AskStep, ReportStep, castVars,
                    ReadLock, LockCast, AddCastMember, CountMembers,
                    SelectEnding, DeselectOthers, SelectOption,
                    ChangePreference, ReadPreferences, ReadVersion, InsertSnapshot,
                    CountSiblings, InsertBranch, Ask, InsertAsk, ReadEvaluating,
                    CommitCanonEvent, FindsNoReport, InsertReport
  <2>2. CASE EvaluatorMoves \/ UNCHANGED vars
        BY <2>2 DEF EvaluatorMoves, vars, castVars
  <2> QED BY <2>1, <2>2, StepKinds DEF CastStep
<1>2. call[r].pc = "delete" /\ call'[r].pc = "done"
      BY <1>1 DEF RemoveCastMember, Done, IdleCall, CastInv, CallsKept
<1>3. cast = {call[r].arg}
      BY <1>1 DEF RemoveCastMember
<1>4. Cardinality(cast) = 1
      BY <1>3, FS_Singleton
<1>5. Cardinality(call[r].read) > 1
      BY <1>2 DEF CastInv
<1> QED BY <1>2, <1>4, <1>5

\* The cast is emptied only by a removal whose count is out of date.
THEOREM CastStays == Spec => CastKept
<1>1. Init => CastInv
      BY DEF Init, CastInv, CallsKept, IdleCall
<1>2. CastInv /\ [Next]_vars => CastInv'
      BY CastInvStep
<1>3. CastInv /\ [Next]_vars =>
          [cast # {} /\ cast' = {} =>
              \E r \in Calls : call[r].pc = "delete" /\ call'[r].pc = "done"
                                /\ call[r].read # cast]_vars
      BY CastStepKeeps
<1> QED BY <1>1, <1>2, <1>3, PTL DEF Spec, CastKept

-----------------------------------------------------------------------------
(* Requests, events and reports.                                           *)

Asks == [id : Calls, table : Tables, key : Keys \cup {None}, status : Progress]

\* A request is named by the call that made it, which is over.
AskInv ==
    /\ CallsKept
    /\ asks \subseteq Asks
    /\ \A q \in asks : call[q.id].pc = "done"
    /\ \A q, p \in asks : q.id = p.id => q = p
    /\ \A r \in Calls : call[r].pc = "ask" => call[r].arg \in Tables /\ call[r].read \in Keys \cup {None}
    /\ KeyedOnce

\* A new status changes nothing else, and an approved request has no other.
LEMMA SetStatusKeeps ==
    ASSUME AskInv, NEW q \in asks, NEW status \in Progress, SetStatus(q, status)
    PROVE  /\ asks' \subseteq Asks
           /\ \A p \in asks' : \E o \in asks : p.id = o.id /\ p.table = o.table /\ p.key = o.key
           /\ \A p, o \in asks' : p.id = o.id => p = o
           /\ \A p \in asks : \E o \in asks' :
                 o.id = p.id /\ (o.status = IF p = q THEN status ELSE p.status)
<1> DEFINE new == [q EXCEPT !.status = status]
<1>1. new \in Asks /\ new.id = q.id /\ new.table = q.table /\ new.key = q.key /\ new.status = status
      BY DEF AskInv, Asks
<1>2. asks' = (asks \ {q}) \cup {new}
      BY DEF SetStatus
<1> HIDE DEF new
<1>3. asks' \subseteq Asks
      BY <1>1, <1>2 DEF AskInv
<1>4. \A p \in asks' : \E o \in asks : p.id = o.id /\ p.table = o.table /\ p.key = o.key
      BY <1>1, <1>2
<1>5. \A p, o \in asks' : p.id = o.id => p = o
      BY <1>1, <1>2 DEF AskInv
<1>6. \A p \in asks : \E o \in asks' :
          o.id = p.id /\ (o.status = IF p = q THEN status ELSE p.status)
  <2>1. ASSUME NEW p \in asks
        PROVE  \E o \in asks' : o.id = p.id /\ (o.status = IF p = q THEN status ELSE p.status)
    <3>1. CASE p = q
          BY <3>1, <1>1, <1>2
    <3>2. CASE p # q
          BY <3>2, <1>2
    <3> QED BY <3>1, <3>2
  <2> QED BY <2>1
<1> QED BY <1>3, <1>4, <1>5, <1>6

LEMMA AskInvStep ==
    ASSUME AskInv, [Next]_vars
    PROVE  AskInv'
<1>1. CallsKept'
      BY CallsKeptStep DEF AskInv
<1>2. ASSUME NEW r \in Calls, call[r].pc # "done",
             \E to : Moves(r, to) /\ (to.pc = "ask" => to.arg \in Tables /\ to.read \in Keys \cup {None}),
             UNCHANGED <<asks, events>>,
             \A p, o \in reports' : p.chapter = o.chapter => p = o
      PROVE  AskInv'
  <2>1. \A q \in asks : call'[q.id].pc = "done"
        BY <1>2 DEF AskInv, Asks, Moves, CallsKept
  <2>2. \A c \in Calls : call'[c].pc = "ask" => call'[c].arg \in Tables /\ call'[c].read \in Keys \cup {None}
        BY <1>2 DEF AskInv, Moves, CallsKept
  <2> QED BY <1>1, <1>2, <2>1, <2>2 DEF AskInv, KeyedOnce
<1>3. ASSUME NEW r \in Calls, CastStep(r) \/ EndingStep(r)
      PROVE  AskInv'
  <2>1. /\ call[r].pc # "done"
        /\ \E to : Moves(r, to) /\ to.pc # "ask"
        BY <1>3 DEF Moves, Goes, Done, IdleCall, CastStep, EndingStep,
                    ReadLock, LockCast, AddCastMember, CountMembers, RemoveCastMember,
                    SelectEnding, DeselectOthers, SelectOption
  <2>2. UNCHANGED askVars
        BY <1>3 DEF CastStep, EndingStep,
                    ReadLock, LockCast, AddCastMember, CountMembers, RemoveCastMember,
                    SelectEnding, DeselectOthers, SelectOption
  <2> QED BY <1>2, <2>1, <2>2 DEF askVars, AskInv, KeyedOnce
<1>4. ASSUME NEW r \in Calls, SnapshotStep(r) \/ BranchStep(r)
      PROVE  AskInv'
  <2>1. /\ call[r].pc # "done"
        /\ \E to : Moves(r, to) /\ to.pc # "ask"
        BY <1>4 DEF Moves, Goes, Done, IdleCall, SnapshotStep, BranchStep,
                    ChangePreference, ReadPreferences, ReadVersion, InsertSnapshot,
                    CountSiblings, InsertBranch
  <2>2. UNCHANGED askVars
        BY <1>4 DEF SnapshotStep, BranchStep,
                    ChangePreference, ReadPreferences, ReadVersion, InsertSnapshot,
                    CountSiblings, InsertBranch
  <2> QED BY <1>2, <2>1, <2>2 DEF askVars, AskInv, KeyedOnce
<1>5. ASSUME NEW r \in Calls, ReportStep(r)
      PROVE  AskInv'
  <2>1. /\ call[r].pc # "done"
        /\ \E to : Moves(r, to) /\ to.pc # "ask"
        /\ UNCHANGED <<asks, events>>
        BY <1>5 DEF Moves, Goes, Done, IdleCall, ReportStep, FindsNoReport, InsertReport, askVars
  <2>2. \A p, o \in reports' : p.chapter = o.chapter => p = o
        BY <1>5 DEF ReportStep, FindsNoReport, InsertReport, askVars, AskInv, KeyedOnce
  <2> QED BY <1>2, <2>1, <2>2
<1>6. ASSUME NEW r \in Calls, Ask(r) \/ ReadEvaluating(r)
      PROVE  AskInv'
  <2>1. /\ call[r].pc # "done"
        /\ \E to : Moves(r, to) /\ (to.pc = "ask" => to.arg \in Tables /\ to.read \in Keys \cup {None})
        BY <1>6 DEF Moves, Goes, Ask, ReadEvaluating
  <2>2. UNCHANGED askVars
        BY <1>6 DEF Ask, ReadEvaluating
  <2> QED BY <1>2, <2>1, <2>2 DEF askVars, AskInv, KeyedOnce
<1>7. ASSUME NEW r \in Calls, InsertAsk(r)
      PROVE  AskInv'
  <2> DEFINE new == [id |-> r, table |-> call[r].arg, key |-> call[r].read, status |-> "DRAFT"]
  <2>1. /\ call[r].pc = "ask" /\ Moves(r, [IdleCall EXCEPT !.pc = "done"])
        /\ UNCHANGED <<events, reports>>
        /\ \/ UNCHANGED asks
           \/ /\ asks' = asks \cup {new}
              /\ new.key # None => \A q \in asks : q.table = new.table => q.key # new.key
        BY <1>7 DEF InsertAsk, KeyUnused, Keyed, Done, Moves
  <2>2. new \in Asks
        BY <2>1 DEF AskInv, Asks, Progress
  <2>3. \A q \in asks : q.id # r
        BY <2>1 DEF AskInv
  <2>4. /\ call'[r].pc = "done"
        /\ \A c \in Calls \ {r} : call'[c] = call[c]
        BY <2>1 DEF Moves, IdleCall, AskInv, CallsKept
  <2>5. /\ asks' \subseteq Asks
        /\ \A q \in asks' : call'[q.id].pc = "done"
        /\ \A q, p \in asks' : q.id = p.id => q = p
        BY <2>1, <2>2, <2>3, <2>4 DEF AskInv, Asks
  <2>6. \A c \in Calls : call'[c].pc = "ask" => call'[c].arg \in Tables /\ call'[c].read \in Keys \cup {None}
        BY <2>4 DEF AskInv
  <2>7. KeyedOnce'
        BY <2>1 DEF AskInv, KeyedOnce
  <2> QED BY <1>1, <2>5, <2>6, <2>7 DEF AskInv
<1>8. ASSUME NEW r \in Calls, CommitCanonEvent(r)
      PROVE  AskInv'
  <2>1. PICK q \in asks : q.id = call[r].arg /\ SetStatus(q, "APPROVED")
        BY <1>8 DEF CommitCanonEvent
  <2>2. /\ events' = events \cup {[of |-> q.id, by |-> r]} /\ UNCHANGED reports
        /\ Moves(r, [IdleCall EXCEPT !.pc = "done"])
        BY <1>8, <2>1 DEF CommitCanonEvent, Done, Moves
  <2>3. /\ call'[r].pc = "done"
        /\ \A c \in Calls \ {r} : call'[c] = call[c]
        BY <2>2 DEF Moves, IdleCall, AskInv, CallsKept
  <2>4. "APPROVED" \in Progress
        BY DEF Progress
  <2>5. /\ asks' \subseteq Asks
        /\ \A p, o \in asks' : p.id = o.id => p = o
        /\ \A p \in asks' : call'[p.id].pc = "done"
        BY <2>1, <2>3, <2>4, SetStatusKeeps DEF AskInv, Asks
  <2>6. \A c \in Calls : call'[c].pc = "ask" => call'[c].arg \in Tables /\ call'[c].read \in Keys \cup {None}
        BY <2>3 DEF AskInv
  <2>7. \A p, o \in asks' : p.table = o.table /\ p.key = o.key /\ p.key # None => p = o
        BY <2>1, <2>4, SetStatusKeeps DEF AskInv, KeyedOnce
  <2>8. \A e \in events' : \E p \in asks' : p.id = e.of /\ p.status = "APPROVED"
        BY <2>1, <2>2, <2>4, SetStatusKeeps DEF AskInv, KeyedOnce
  <2>9. KeyedOnce'
        BY <2>2, <2>7, <2>8 DEF AskInv, KeyedOnce
  <2> QED BY <1>1, <2>5, <2>6, <2>9 DEF AskInv
<1>9. CASE EvaluatorMoves
  <2>0. PICK q \in asks : \E status \in Transitions[q.status] : SetStatus(q, status)
        BY <1>9 DEF EvaluatorMoves
  <2>1. PICK status \in Transitions[q.status] : SetStatus(q, status)
        BY <2>0
  <2>2. status \in Progress /\ q.status # "APPROVED"
    <3>1. q.status \in Progress
          BY DEF AskInv, Asks
    <3> QED BY <2>1, <3>1 DEF Progress, Transitions
  <2>3. UNCHANGED <<events, reports, call>>
        BY <1>9 DEF EvaluatorMoves
  <2>4. /\ asks' \subseteq Asks
        /\ \A p, o \in asks' : p.id = o.id => p = o
        /\ \A p \in asks' : call'[p.id].pc = "done"
        BY <2>1, <2>2, <2>3, SetStatusKeeps DEF AskInv, Asks
  <2>5. \A p, o \in asks' : p.table = o.table /\ p.key = o.key /\ p.key # None => p = o
        BY <2>1, <2>2, SetStatusKeeps DEF AskInv, KeyedOnce
  <2>6. \A e \in events' : \E p \in asks' : p.id = e.of /\ p.status = "APPROVED"
        BY <2>1, <2>2, <2>3, SetStatusKeeps DEF AskInv, KeyedOnce
  <2> QED BY <1>1, <2>3, <2>4, <2>5, <2>6 DEF AskInv, KeyedOnce
<1>10. CASE UNCHANGED vars
       BY <1>1, <1>10 DEF vars, askVars, AskInv, KeyedOnce
<1> QED BY <1>3, <1>4, <1>5, <1>6, <1>7, <1>8, <1>9, <1>10, StepKinds DEF AskStep

\* A key names one row, an event an approved request, a report its chapter.
THEOREM KeysAreUsedOnce == Spec => []KeyedOnce
<1>1. Init => AskInv
      BY DEF Init, AskInv, KeyedOnce, CallsKept, IdleCall
<1>2. AskInv /\ [Next]_vars => AskInv'
      BY AskInvStep
<1>3. AskInv => KeyedOnce
      BY DEF AskInv
<1> QED BY <1>1, <1>2, <1>3, PTL DEF Spec

-----------------------------------------------------------------------------
(* Versions and branch names.                                              *)

\* Rows are numbered 1 .. n, and the number a call has counted is at most n + 1:
\* rows are only added, so it can be too small, never too large.
VersionInv ==
    /\ CallsKept
    /\ IsFiniteSet(snapshots)
    /\ {s.version : s \in snapshots} = 1 .. Cardinality(snapshots)
    /\ \A r \in Calls : call[r].pc = "snapshot" => call[r].arg \in 1 .. Cardinality(snapshots) + 1

LEMMA MaxOfNumbers ==
    ASSUME NEW n \in Nat
    PROVE  Max({0} \cup 1 .. n) = n
<1>1. n \in {0} \cup 1 .. n /\ \A y \in {0} \cup 1 .. n : n >= y
      OBVIOUS
<1>2. \A x \in {0} \cup 1 .. n : (\A y \in {0} \cup 1 .. n : x >= y) => x = n
      BY <1>1
<1> QED BY <1>1, <1>2 DEF Max

LEMMA VersionInvStep ==
    ASSUME VersionInv, [Next]_vars
    PROVE  VersionInv'
<1>1. CallsKept' /\ Cardinality(snapshots) \in Nat
      BY CallsKeptStep, FS_CardinalityType DEF VersionInv
<1>2. ASSUME NEW r \in Calls, UNCHANGED snapshots,
             \E to : Moves(r, to) /\ (to.pc = "snapshot" => to.arg \in 1 .. Cardinality(snapshots) + 1)
      PROVE  VersionInv'
      BY <1>1, <1>2 DEF VersionInv, Moves, CallsKept
<1>3. ASSUME NEW r \in Calls, ReadVersion(r)
      PROVE  VersionInv'
  <2>1. NextVersion = Cardinality(snapshots) + 1
        BY <1>1, MaxOfNumbers DEF NextVersion, VersionInv
  <2>2. /\ UNCHANGED snapshots
        /\ Moves(r, [pc |-> "snapshot", arg |-> NextVersion, read |-> call[r].read])
        BY <1>3 DEF ReadVersion, Goes, Moves, rowVars
  <2> QED BY <1>1, <1>2, <2>1, <2>2
<1>4. ASSUME NEW r \in Calls, InsertSnapshot(r)
      PROVE  VersionInv'
  <2> DEFINE n   == Cardinality(snapshots)
             new == [version |-> call[r].arg, holds |-> call[r].read, by |-> r]
  <2>1. /\ call[r].pc = "snapshot" /\ Moves(r, [IdleCall EXCEPT !.pc = "done"])
        /\ snapshots' = IF \E s \in snapshots : s.version = call[r].arg THEN snapshots
                        ELSE snapshots \cup {new}
        BY <1>4 DEF InsertSnapshot, Done, Moves
  <2>2. /\ call'[r].pc = "done"
        /\ \A c \in Calls \ {r} : call'[c] = call[c]
        BY <2>1 DEF Moves, IdleCall, VersionInv, CallsKept
  <2>3. CASE \E s \in snapshots : s.version = call[r].arg
        BY <2>3, <2>1, <2>2, <1>1 DEF VersionInv
  <2>4. CASE ~ \E s \in snapshots : s.version = call[r].arg
    <3>1. call[r].arg = n + 1
      <4>1. call[r].arg \notin 1 .. n
            BY <2>4 DEF VersionInv
      <4> QED BY <1>1, <2>1, <4>1 DEF VersionInv
    <3>2. snapshots' = snapshots \cup {new} /\ new \notin snapshots
          BY <2>1, <2>4
    <3>3. IsFiniteSet(snapshots') /\ Cardinality(snapshots') = n + 1
          BY <3>2, FS_AddElement DEF VersionInv
    <3>4. {s.version : s \in snapshots'} = {s.version : s \in snapshots} \cup {n + 1}
          BY <3>1, <3>2
    <3>5. {s.version : s \in snapshots'} = 1 .. n + 1
          BY <1>1, <3>4 DEF VersionInv
    <3>6. \A c \in Calls : call'[c].pc = "snapshot" => call'[c].arg \in 1 .. (n + 1) + 1
          BY <1>1, <2>2 DEF VersionInv
    <3> QED BY <1>1, <3>3, <3>5, <3>6 DEF VersionInv
  <2> QED BY <2>3, <2>4
<1>5. ASSUME NEW r \in Calls, \/ CastStep(r) \/ EndingStep(r)
                               \/ ChangePreference(r) \/ ReadPreferences(r)
                               \/ BranchStep(r) \/ AskStep(r) \/ ReportStep(r)
      PROVE  VersionInv'
  <2>1. UNCHANGED snapshots
        BY <1>5 DEF CastStep, EndingStep, BranchStep, AskStep, ReportStep, rowVars,
                    ReadLock, LockCast, AddCastMember, CountMembers,
                    RemoveCastMember, SelectEnding, DeselectOthers, SelectOption,
                    ChangePreference, ReadPreferences,
                    CountSiblings, InsertBranch, Ask, InsertAsk, ReadEvaluating,
                    CommitCanonEvent, FindsNoReport, InsertReport
  <2>2. \E to : Moves(r, to) /\ to.pc # "snapshot"
        BY <1>5 DEF Moves, Goes, Done, IdleCall, CastStep, EndingStep, BranchStep, AskStep,
                    ReportStep, ReadLock, LockCast, AddCastMember, CountMembers,
                    RemoveCastMember, SelectEnding, DeselectOthers, SelectOption,
                    ChangePreference, ReadPreferences,
                    CountSiblings, InsertBranch, Ask, InsertAsk, ReadEvaluating,
                    CommitCanonEvent, FindsNoReport, InsertReport
  <2> QED BY <1>2, <2>1, <2>2
<1>6. CASE EvaluatorMoves \/ UNCHANGED vars
      BY <1>1, <1>6 DEF EvaluatorMoves, vars, rowVars, VersionInv
<1> QED BY <1>3, <1>4, <1>5, <1>6, StepKinds DEF SnapshotStep

Forks(from) == {b \in branches : b.from = from}

LettersOf(S) == {b.letter : b \in S}

\* The letters of a chapter's forks: none beyond their number, and with one
\* parent all of them.
Lettered(S) ==
    /\ \A b \in S : b.letter \in 1 .. Cardinality(S)
    /\ (\A b, o \in S : b.parent = o.parent) => LettersOf(S) = 1 .. Cardinality(S)

\* A call that has counted the children among rows has a letter, at most the
\* next.
Counted(rows, arg, read) ==
    \/ arg.from = None /\ read = TraitEdit
    \/ /\ arg.from \in Chapters
       /\ read \in 1 .. Cardinality({b \in rows : b.from = arg.from}) + 1

BranchInv ==
    /\ CallsKept
    /\ IsFiniteSet(branches)
    /\ \A b, o \in branches : SameName(b, o) => b = o
    /\ \A b \in Forks(None) : b.letter = TraitEdit
    /\ \A chapter \in Chapters : Lettered(Forks(chapter))
    /\ \A r \in Calls : call[r].pc = "fork" => Counted(branches, call[r].arg, call[r].read)

LEMMA ForksFinite ==
    ASSUME BranchInv, NEW from
    PROVE  IsFiniteSet(Forks(from)) /\ Cardinality(Forks(from)) \in Nat
<1>1. Forks(from) \in SUBSET branches
      BY DEF Forks
<1> QED BY <1>1, FS_Subset, FS_CardinalityType DEF BranchInv

\* A fork whose letter its parent has not used, and not beyond the next.
LEMMA OneMoreLetter ==
    ASSUME NEW S, IsFiniteSet(S), Lettered(S), NEW e,
           e.letter \in 1 .. Cardinality(S) + 1,
           \A b \in S : b.parent = e.parent => b.letter # e.letter
    PROVE  Lettered(S \cup {e}) /\ Cardinality(S \cup {e}) = Cardinality(S) + 1
<1>1. PICK n \in Nat : n = Cardinality(S)
      BY FS_CardinalityType
<1>2. Cardinality(S \cup {e}) = n + 1
  <2>1. e \notin S
        OBVIOUS
  <2> QED BY <1>1, <2>1, FS_AddElement
<1>3. \A b \in S \cup {e} : b.letter \in 1 .. n + 1
  <2>1. \A b \in S : b.letter \in 1 .. n
        BY <1>1 DEF Lettered
  <2> QED BY <1>1, <2>1
<1>4. ASSUME \A b, o \in S \cup {e} : b.parent = o.parent
      PROVE  LettersOf(S \cup {e}) = 1 .. n + 1
  <2>1. LettersOf(S) = 1 .. n
        BY <1>1, <1>4 DEF Lettered
  <2>2. \A b \in S : b.letter # e.letter
        BY <1>4
  <2>3. e.letter \notin 1 .. n
        BY <2>1, <2>2 DEF LettersOf
  <2>4. e.letter = n + 1
        BY <1>1, <2>3
  <2>5. LettersOf(S \cup {e}) = LettersOf(S) \cup {e.letter}
        BY DEF LettersOf
  <2>6. (1 .. n) \cup {n + 1} = 1 .. n + 1
        BY <1>1
  <2> QED BY <2>1, <2>4, <2>5, <2>6
<1> QED BY <1>1, <1>2, <1>3, <1>4 DEF Lettered

LEMMA BranchInvStep ==
    ASSUME BranchInv, [Next]_vars
    PROVE  BranchInv'
<1>1. CallsKept'
      BY CallsKeptStep DEF BranchInv
<1>2. ASSUME NEW r \in Calls, UNCHANGED branches,
             \E to : Moves(r, to) /\ (to.pc = "fork" => Counted(branches, to.arg, to.read))
      PROVE  BranchInv'
  <2>1. \A from : Forks(from)' = Forks(from)
        BY <1>2 DEF Forks
  <2>2. \A c \in Calls : call'[c].pc = "fork" => Counted(branches, call'[c].arg, call'[c].read)
        BY <1>2 DEF BranchInv, Moves, CallsKept
  <2>3. \A arg, read : Counted(branches, arg, read) => Counted(branches', arg, read)
        BY <2>1 DEF Counted, Forks
  <2> QED BY <1>1, <1>2, <2>1, <2>2, <2>3 DEF BranchInv, Forks
<1>3. ASSUME NEW r \in Calls, CountSiblings(r)
      PROVE  BranchInv'
  <2>1. PICK parent \in Parents, from \in Chapters \cup {None} :
            Moves(r, [pc |-> "fork", arg |-> [parent |-> parent, from |-> from],
                      read |-> NextLetter(from)])
        BY <1>3 DEF CountSiblings, Goes, Moves
  <2>2. \/ from = None /\ NextLetter(from) = TraitEdit
        \/ from \in Chapters /\ NextLetter(from) = 1 + Cardinality(Forks(from))
        BY AuthoringConstantsOK DEF NextLetter, Forks
  <2>3. Counted(branches, [parent |-> parent, from |-> from], NextLetter(from))
    <3>1. IsFiniteSet(Forks(from)) /\ Cardinality(Forks(from)) \in Nat
          BY ForksFinite
    <3>2. CASE from = None /\ NextLetter(from) = TraitEdit
          BY <3>2 DEF Counted
    <3>3. CASE from \in Chapters /\ NextLetter(from) = 1 + Cardinality(Forks(from))
      <4>1. NextLetter(from) \in 1 .. Cardinality(Forks(from)) + 1
            BY <3>1, <3>3
      <4> QED BY <3>3, <4>1 DEF Counted, Forks
    <3> QED BY <2>2, <3>2, <3>3
  <2>4. UNCHANGED branches
        BY <1>3 DEF CountSiblings, rowVars
  <2> QED BY <1>2, <2>1, <2>3, <2>4
<1>4. ASSUME NEW r \in Calls, InsertBranch(r)
      PROVE  BranchInv'
  <2>0. PICK parent, from, letter, fork :
            /\ parent = call[r].arg.parent /\ from = call[r].arg.from
            /\ letter = call[r].read
            /\ fork = [parent |-> parent, from |-> from, letter |-> letter, by |-> r]
        OBVIOUS
  <2>1. /\ call[r].pc = "fork" /\ Moves(r, [IdleCall EXCEPT !.pc = "done"])
        /\ UNCHANGED branches \/ (NameFree(fork) /\ branches' = branches \cup {fork})
        BY <1>4, <2>0 DEF InsertBranch, Done, Moves
  <2>2. CASE UNCHANGED branches
        BY <1>2, <2>1, <2>2 DEF IdleCall
  <2>3. CASE NameFree(fork) /\ branches' = branches \cup {fork}
    <3>0. fork.parent = parent /\ fork.from = from /\ fork.letter = letter
          BY <2>0
    <3>1. \A b \in branches : ~SameName(b, fork) /\ ~SameName(fork, b)
          BY <2>3 DEF NameFree, SameName
    <3>2. /\ Forks(from)' = Forks(from) \cup {fork}
          /\ \A x : x # from => Forks(x)' = Forks(x)
          BY <2>3, <3>0 DEF Forks
    <3>3. IsFiniteSet(branches')
          BY <2>3, FS_AddElement DEF BranchInv
    <3>4. \A c \in Calls : call'[c].pc = "fork" => call'[c] = call[c]
          BY <2>1 DEF Moves, IdleCall, BranchInv, CallsKept
    <3>5. IsFiniteSet(Forks(from)) /\ Cardinality(Forks(from)) \in Nat
          BY ForksFinite
    <3>6. \A b, o \in branches' : SameName(b, o) => b = o
          BY <2>3, <3>1 DEF BranchInv
    <3>7. Counted(branches, call[r].arg, letter)
          BY <2>0, <2>1 DEF BranchInv
    <3>8. CASE from = None
      <4>1. letter = TraitEdit
            BY <2>0, <3>7, <3>8, AuthoringConstantsOK DEF Counted, Forks
      <4>2. \A b \in Forks(None)' : b.letter = TraitEdit
            BY <3>0, <3>2, <3>8, <4>1 DEF BranchInv
      <4>3. \A x \in Chapters : Forks(x)' = Forks(x)
            BY <3>2, <3>8, AuthoringConstantsOK
      <4>4. \A x \in Chapters : Lettered(Forks(x)')
            BY <4>3 DEF BranchInv
      <4>5. \A arg, read : Counted(branches, arg, read) => Counted(branches', arg, read)
            BY <4>3 DEF Counted, Forks
      <4>6. \A c \in Calls : call'[c].pc = "fork" =>
                Counted(branches', call'[c].arg, call'[c].read)
            BY <3>4, <4>5 DEF BranchInv
      <4> QED BY <1>1, <3>3, <3>6, <4>2, <4>4, <4>6 DEF BranchInv, Lettered, SameName, TraitEdit
    <3>9. CASE from \in Chapters
      <4>1. Lettered(Forks(from)) /\ letter \in 1 .. Cardinality(Forks(from)) + 1
            BY <2>0, <3>7, <3>9, AuthoringConstantsOK DEF BranchInv, Counted, Forks
      <4>2. \A b \in Forks(from) : b.parent = fork.parent => b.letter # fork.letter
            BY <3>0, <3>1 DEF SameName, Forks
      <4>3. /\ Lettered(Forks(from) \cup {fork})
            /\ Cardinality(Forks(from) \cup {fork}) = Cardinality(Forks(from)) + 1
            BY <3>0, <3>5, <4>1, <4>2, OneMoreLetter
      <4>4. \A x \in Chapters : Lettered(Forks(x)')
        <5>1. ASSUME NEW x \in Chapters
              PROVE  Lettered(Forks(x)')
          <6>1. CASE x = from
                BY <6>1, <3>2, <4>3
          <6>2. CASE x # from
                BY <6>2, <3>2 DEF BranchInv
          <6> QED BY <6>1, <6>2
        <5> QED BY <5>1
      <4>5. Forks(None)' = Forks(None)
            BY <3>2, <3>9, AuthoringConstantsOK
      <4>6. ASSUME NEW arg, NEW read, Counted(branches, arg, read)
            PROVE  Counted(branches', arg, read)
        <5>1. CASE arg.from = from
          <6>1. PICK n \in Nat : /\ n = Cardinality(Forks(from))
                                 /\ Cardinality(Forks(from)') = n + 1
                BY <3>2, <3>5, <4>3
          <6>2. read \in 1 .. n + 1
                BY <3>9, <4>6, <5>1, <6>1, AuthoringConstantsOK DEF Counted, Forks
          <6>3. read \in 1 .. (n + 1) + 1
                BY <6>1, <6>2
          <6>4. read \in 1 .. Cardinality(Forks(arg.from)') + 1
                BY <5>1, <6>1, <6>3
          <6> QED BY <3>9, <5>1, <6>4 DEF Counted, Forks
        <5>2. CASE arg.from # from
              BY <3>2, <4>6, <5>2 DEF Counted, Forks
        <5> QED BY <5>1, <5>2
      <4>7. \A c \in Calls : call'[c].pc = "fork" =>
                Counted(branches', call'[c].arg, call'[c].read)
            BY <3>4, <4>6 DEF BranchInv
      <4>8. \A b \in Forks(None)' : b.letter = TraitEdit
            BY <4>5 DEF BranchInv
      <4> QED BY <1>1, <3>3, <3>6, <4>4, <4>7, <4>8 DEF BranchInv, Lettered, SameName, TraitEdit
    <3> QED BY <2>0, <3>7, <3>8, <3>9 DEF Counted, Forks
  <2> QED BY <2>1, <2>2, <2>3
<1>5. ASSUME NEW r \in Calls, \/ CastStep(r) \/ EndingStep(r) \/ SnapshotStep(r)
                               \/ AskStep(r) \/ ReportStep(r)
      PROVE  BranchInv'
  <2>1. UNCHANGED branches
        BY <1>5 DEF CastStep, EndingStep, SnapshotStep, AskStep, ReportStep, rowVars,
                    ReadLock, LockCast, AddCastMember, CountMembers,
                    RemoveCastMember, SelectEnding, DeselectOthers, SelectOption,
                    ChangePreference, ReadPreferences, ReadVersion, InsertSnapshot,
                    Ask, InsertAsk, ReadEvaluating,
                    CommitCanonEvent, FindsNoReport, InsertReport
  <2>2. \E to : Moves(r, to) /\ to.pc # "fork"
        BY <1>5 DEF Moves, Goes, Done, IdleCall, CastStep, EndingStep, SnapshotStep, AskStep,
                    ReportStep, ReadLock, LockCast, AddCastMember, CountMembers,
                    RemoveCastMember, SelectEnding, DeselectOthers, SelectOption,
                    ChangePreference, ReadPreferences, ReadVersion, InsertSnapshot,
                    Ask, InsertAsk, ReadEvaluating,
                    CommitCanonEvent, FindsNoReport, InsertReport
  <2> QED BY <1>2, <2>1, <2>2
<1>6. CASE EvaluatorMoves \/ UNCHANGED vars
  <2>1. UNCHANGED <<branches, call>>
        BY <1>6 DEF EvaluatorMoves, vars, rowVars
  <2> QED BY <1>1, <2>1 DEF BranchInv, Forks, Lettered, LettersOf, SameName, Counted
<1> QED BY <1>3, <1>4, <1>5, <1>6, StepKinds DEF BranchStep

\* Versions and letters are given once each and without a gap, though they are
\* counted before the rows they number are inserted.
THEOREM NumbersStayApart == Spec => []NumberedApart
<1>1. Init => VersionInv /\ BranchInv
  <2>1. \A from : Init => Forks(from) = {}
        BY DEF Init, Forks
  <2>2. Init => \A r \in Calls : call[r].pc = "new"
        BY DEF Init, IdleCall
  <2>3. Init => CallsKept /\ snapshots = {} /\ branches = {}
        BY DEF Init, CallsKept
  <2>4. Init => VersionInv
    <3>1. IsFiniteSet({}) /\ Cardinality({}) = 0
          BY FS_EmptySet
    <3>2. ASSUME Init
          PROVE  /\ {s.version : s \in snapshots} = 1 .. Cardinality(snapshots)
                 /\ IsFiniteSet(snapshots)
          BY <2>3, <3>1, <3>2
    <3> QED BY <2>2, <2>3, <3>2 DEF VersionInv
  <2>5. Init => BranchInv
    <3>1. IsFiniteSet({}) /\ Cardinality({}) = 0
          BY FS_EmptySet
    <3>2. ASSUME Init, NEW from
          PROVE  Lettered(Forks(from)) /\ \A b \in Forks(from) : b.letter = TraitEdit
      <4>1. LettersOf({}) = {} /\ 1 .. 0 = {}
            BY DEF LettersOf
      <4> QED BY <2>1, <3>1, <3>2, <4>1 DEF Lettered
    <3> QED BY <2>2, <2>3, <3>1, <3>2 DEF BranchInv
  <2> QED BY <2>4, <2>5
<1>2. VersionInv /\ BranchInv /\ [Next]_vars => VersionInv' /\ BranchInv'
      BY VersionInvStep, BranchInvStep
<1>3. ASSUME VersionInv, BranchInv
      PROVE  NumberedApart
  <2>1. \A b, o \in branches :
            b.from = None /\ o.from = None /\ b.parent = o.parent => b = o
        BY <1>3 DEF BranchInv, Forks, SameName
  <2>2. ASSUME NEW chapter \in Chapters
        PROVE  \A b, o \in Forks(chapter) : b.parent = o.parent /\ b # o => b.letter # o.letter
        BY <1>3 DEF BranchInv, Forks, SameName
  <2>3. \A chapter \in Chapters : Lettered(Forks(chapter))
        BY <1>3 DEF BranchInv
  <2> QED BY <1>3, <2>1, <2>2, <2>3 DEF VersionInv, Forks, Lettered, LettersOf, NumberedApart
<1> QED BY <1>1, <1>2, <1>3, PTL DEF Spec
=============================================================================
