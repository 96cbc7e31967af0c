---------------------------- MODULE ScheduleClaims ----------------------------
(***************************************************************************)
(* What the repository's comments and log lines say of schedules and that  *)
(* the pipeline controller does not do.  Each formula is the claim.        *)
(***************************************************************************)
EXTENDS PipelineSchedule

\* Repeat says whether a schedule is executed once or repeatedly
\* (pipeline_types.go:187): without it there is one run for a schedule that is not
\* edited.
OnceExecutesOnce ==
  edits = 0 /\ spec # NoSchedule /\ ~spec.repeat => Len(log) <= 1
================================================================================
