------------------------------ MODULE RunFunctions ------------------------------
(***************************************************************************)
(* Functions of the operator that compute a value from data, against what  *)
(* they are to return.  A state holds the data: the list of job states of  *)
(* which updateRunStatus computes the state of a run, or the io specs of a *)
(* run and of a job, from which the job's pod is made.                     *)
(***************************************************************************)
EXTENDS JobState, JobMounts

CONSTANTS
  MaxJobs,       \* bound on the number of listed jobs
  MaxIO,         \* bound on the number of io specs of a pod
  Runs,          \* the names of runs
  Names,         \* the names of io specs, as users write them
  PathOverrides, \* their mount paths
  MountPrefixes  \* their mount prefixes

\* A run's name is the name of a Kubernetes object.
ASSUME RunsAssumption == "" \notin Runs

\* A text that is split at its slashes has at least one part.
ASSUME NamesAssumption == Names \subseteq Seq(STRING) /\ <<>> \notin Names

VARIABLES
  listed, \* the states of the listed jobs
  pod     \* the io specs of the pod

IOVolumeSpecs ==
  [ name : Names, mountPathOverride : PathOverrides, mountPrefix : MountPrefixes,
    useIntermediateDirectory : BOOLEAN ]

NoIO == [runInputs |-> <<>>, runOutputs |-> <<>>, jobInputs |-> <<>>, jobOutputs |-> <<>>]

Init == listed = <<>> /\ pod = NoIO

\* DetermineJobStateFrom never returns "unknown"; a new job has no state.
ListJob ==
  /\ pod = NoIO /\ Len(listed) < MaxJobs
  /\ \E s \in JobStates \ {JobStateUnknown} : listed' = Append(listed, s)
  /\ UNCHANGED pod

AddIO ==
  /\ listed = <<>> /\ Len(AllIO(pod)) < MaxIO
  /\ \E f \in DOMAIN pod, e \in IOVolumeSpecs : pod' = [pod EXCEPT ![f] = Append(@, e)]
  /\ UNCHANGED listed

Next == ListJob \/ AddIO

Spec == Init /\ [][Next]_<<listed, pod>>

--------------------------------------------------------------------------------
\* The loop over jobList.Items, from the state of lowest rank.
FoldedState == FoldLeft(DetermineJobStateFromOrder, JobStateUnknown, listed)

\* The run shows the state of highest rank among its jobs, whatever the order in
\* which the informer lists them.
FoldIsHighest == FoldedState = HighestState(ToSet(listed))

\* What a path names, without the slashes that do not matter.
Clean(s) ==
  FoldLeft(LAMBDA kept, part : IF part = "" THEN kept ELSE Append(kept, part), <<>>, s)

\* The directory of a volume that a mount shows.
Directory(m) == <<m.name>> \o Clean(m.subPath)

MountOf(run, e) == Mount(run, e, TRUE)

\* Intermediate directories isolate the runs of a pipeline: no directory of one is
\* the same as or lies within one of another.  Within a run they are shared: the
\* output of one job is the input of another exactly when both name the same path
\* (the comment on the volumes of a PipelineSpec).
RunsAreIsolated ==
  Parses(pod) =>
    \A d, e \in ToSet(AllIO(pod)) :
      d.useIntermediateDirectory /\ e.useIntermediateDirectory =>
        \A r, q \in Runs :
          LET a == Directory(MountOf(r, d)) b == Directory(MountOf(q, e))
          IN  IF r = q THEN a = b <=> Clean(d.name) = Clean(e.name)
              ELSE ~IsPrefix(a, b) /\ ~IsPrefix(b, a)

\* The two functions that read a job's io specs agree: the container mounts every
\* volume of the pod and no other, and the pod names each volume once, without which
\* Kubernetes refuses the job on every pass.
MountsMatchVolumes ==
  Parses(pod) =>
    \A r \in Runs :
      /\ {m.name : m \in ToSet(VolumeMountList(r, pod))} = ToSet(VolumeList(pod))
      /\ IsInjective(VolumeList(pod))
================================================================================
