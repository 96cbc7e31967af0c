------------------------------- MODULE RunClaims -------------------------------
(***************************************************************************)
(* What the repository's comments, log lines and README say of runs and    *)
(* that the run controller does not do.  Each formula is the claim.        *)
(***************************************************************************)
EXTENDS RunController

\* "runBefore sequential process" (README.md:41): a job only starts when all the
\* jobs in its RunBefore have succeeded.
StartsAfterRunBefore ==
  \A j \in started : \A i \in DOMAIN RunBefore[j] : kjob[RunBefore[j][i]].succeeded
================================================================================
