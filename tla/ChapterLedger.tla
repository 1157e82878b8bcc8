---------------------------- MODULE ChapterLedger ----------------------------
(***************************************************************************)
(* What chapter generation promises, with nothing said of queues, workers  *)
(* or failures: the author's requests are accepted one by one, and each    *)
(* accepted request adds at most one chapter, after it was accepted, at    *)
(* the end of one branch.  Chapters are never changed or taken back.       *)
(* GenerationJobs implements this specification.                           *)
(***************************************************************************)
EXTENDS Naturals

CONSTANTS Jobs,      \* generation requests that may be accepted
          Branches   \* timelines of the author's stories

VARIABLES accepted,  \* the requests accepted so far
          ledger     \* published chapters: [branch, index, job]

vars == <<accepted, ledger>>

TypeOK ==
    /\ accepted \subseteq Jobs
    /\ ledger \subseteq [branch : Branches, index : Nat \ {0}, job : Jobs]

IndicesOf(b) == {e.index : e \in {f \in ledger : f.branch = b}}

Init == accepted = {} /\ ledger = {}

Accept(j) ==
    /\ j \notin accepted
    /\ accepted' = accepted \cup {j}
    /\ UNCHANGED ledger

\* The new chapter takes the number after the branch's last one.
Publish(j) ==
    /\ j \in accepted
    /\ \A e \in ledger : e.job # j
    /\ \E e \in ledger' :
         /\ e.job = j
         /\ ledger' = ledger \cup {e}
         /\ IndicesOf(e.branch) = 1 .. e.index - 1
    /\ UNCHANGED accepted

Next == \E j \in Jobs : Accept(j) \/ Publish(j)

Spec == Init /\ [][Next]_vars
=============================================================================
