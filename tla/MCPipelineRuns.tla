---------------------------- MODULE MCPipelineRuns ----------------------------
(* Small instances of PipelineRuns.                                       *)
EXTENDS PipelineRuns

MCSpecs == {"plain", "edited", "scheduled"}
MCScheduled == {"scheduled"}
MCAddresses == {1}
================================================================================
