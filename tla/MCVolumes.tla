------------------------------ MODULE MCVolumes ------------------------------
(* A small instance of Volumes: two runs of one pipeline whose volumes change *)
(* from one edit to the next, in a cluster with a default storage class.      *)
EXTENDS Volumes, TLC

Asks(name, size, class, lifecycle) ==
  [ name |-> name, size |-> size, class |-> class, lifecycle |-> lifecycle,
    modes |-> "ReadWriteMany" ]

MCPipelineOf == "first" :> "p" @@ "second" :> "p"

MCVolumeLists ==
  { << Asks("data", 1, "", "run"), Asks("kept", 1, "fast", "persistent") >>,
    << Asks("data", 1, "", "pipeline"), Asks("kept", BadSize, "", "persistent") >> }
================================================================================
