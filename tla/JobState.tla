------------------------------- MODULE JobState -------------------------------
(***************************************************************************)
(* The job-state vocabulary of api/v1/run_types.go: the states a           *)
(* Kubernetes job is given by the run controller, the category and the     *)
(* rank of each, the function that computes a job's state from the job and *)
(* one of its pods, and the function that combines the states of the jobs  *)
(* of a run into the state of the run.                                     *)
(***************************************************************************)
EXTENDS Naturals

\* StateOrder: the rank that decides which job state a run shows.
StateOrder ==
  [ failed |-> 8, running |-> 7, initializing |-> 6, waiting |-> 5,
    completed |-> 4, deleting |-> 3, stopping |-> 2, deleted |-> 1,
    unknown |-> 0 ]

JobStateUnknown == "unknown"

NamedState == DOMAIN StateOrder

\* A job whose status annotation was never written reads as the empty string.
NoState == ""

JobStates == NamedState \cup {NoState}

JobCategoryMap ==
  [ initializing |-> "preRun", waiting |-> "preRun", stopping |-> "preRun",
    running |-> "run", deleting |-> "run",
    completed |-> "postRun", failed |-> "postRun", deleted |-> "postRun" ]

\* Reading a Go map at a missing key gives the zero value.
Rank(s) == IF s \in DOMAIN StateOrder THEN StateOrder[s] ELSE 0

CategorizeJobState(s) ==
  IF s \in DOMAIN JobCategoryMap THEN JobCategoryMap[s] ELSE ""

\* The states updateRunStatus counts as finished.
FinishedState == {"completed", "deleted", "failed"}

(***************************************************************************)
(* DetermineJobStateFrom: k is the job (its suspend field, its trigger     *)
(* annotation, its status and whether it is being deleted), phase the      *)
(* phase of the pod that was looked up, "" when none was found.  The Go    *)
(* switch does not fall through to the later cases: an active job whose    *)
(* pod is neither pending nor running leaves the switch and is "deleted".  *)
(***************************************************************************)
PodPhase == {"Pending", "Running", "Succeeded", "Failed"}
NoPod == ""

\* Variant: a pod that has succeeded completes the job.
DetermineJobStateFromPod(k, phase) ==
  IF k.suspend \/ k.trigger THEN "waiting"
  ELSE IF phase = "Succeeded" THEN "completed"
  ELSE IF k.active THEN IF phase = "Pending" THEN "initializing" ELSE "running"
  ELSE IF k.failed THEN "failed" ELSE "initializing"

DetermineJobStateFrom(k, phase) ==
  IF k.suspend \/ k.trigger THEN "waiting"
  ELSE IF k.active THEN IF phase = "Pending" THEN "initializing"
                        ELSE IF phase = "Running" THEN "running" ELSE "deleted"
  ELSE IF k.succeeded THEN "completed"
  ELSE IF k.failed THEN "failed"
  ELSE IF k.deleting THEN IF k.active THEN "stopping" ELSE "deleting"
  ELSE "initializing"

\* Variant: the comparison the wrong way round.
LowestOfOrder(prevState, nextState) ==
  IF Rank(prevState) < Rank(nextState) THEN prevState ELSE nextState

\* DetermineJobStateFromOrder: the later argument wins a tie.
DetermineJobStateFromOrder(prevState, nextState) ==
  IF Rank(prevState) > Rank(nextState) THEN prevState ELSE nextState

\* What folding DetermineJobStateFromOrder over a list of states returns when
\* the ranks of the listed states differ: a state of highest rank.
HighestState(S) ==
  IF S = {} THEN JobStateUnknown
  ELSE CHOOSE s \in S : \A t \in S : Rank(t) <= Rank(s)
===============================================================================
