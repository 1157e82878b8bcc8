------------------------------ MODULE EventLog ------------------------------
(***************************************************************************)
(* The activity log of generation jobs as its readers may see it: events   *)
(* are numbered 1, 2, ... without a gap, each is committed before the next *)
(* and before the job reports its end.  GenerationJobs implements this     *)
(* specification; EventStream reads a log that obeys it.                   *)
(***************************************************************************)
EXTENDS Naturals, FiniteSets

CONSTANT Jobs

VARIABLES log,    \* the numbers of the events committed for each job
          state   \* "open", "final", or "abandoned": the job reports its end
                  \* (an operator released it) while its worker still writes

logVars == <<log, state>>

LogTypeOK ==
    /\ log \in [Jobs -> SUBSET Nat]
    /\ state \in [Jobs -> {"open", "abandoned", "final"}]

LogInit ==
    /\ log = [j \in Jobs |-> {}]
    /\ state = [j \in Jobs |-> "open"]

WriteNext(j) ==
    LET n == Cardinality(log[j])
    IN  /\ state[j] # "final"
        /\ log[j] = 1 .. n
        /\ log' = [log EXCEPT ![j] = 1 .. n + 1]
        /\ UNCHANGED state

\* The job reports its end; an abandoned job's worker stops writing later.
Finish(j) ==
    /\ state[j] # "final"
    /\ \E s \in {"abandoned", "final"} \ {state[j]} :
         state' = [state EXCEPT ![j] = s]
    /\ UNCHANGED log

LogNext == \E j \in Jobs : WriteNext(j) \/ Finish(j)

LogSpec == LogInit /\ [][LogNext]_logVars
=============================================================================
