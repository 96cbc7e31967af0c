------------------------------- MODULE JobMounts -------------------------------
(***************************************************************************)
(* The volumes of a job's pod and where its container mounts them          *)
(* (parseVolumeWithPVCFromJob and parseVolumeMountList of                  *)
(* api/v1/run_types.go), as operators.                                     *)
(*                                                                         *)
(* A text with slashes is the sequence of what the slashes separate: "" is *)
(* <<"">>, "a/b/" is <<"a", "b", "">>, and joining two texts with a slash  *)
(* is appending the sequences.                                             *)
(***************************************************************************)
EXTENDS Sequences, SequencesExt

Blank == <<"">>

HasSlashPrefix(s) == Len(s) > 1 /\ s[1] = ""
HasSlashSuffix(s) == Len(s) > 1 /\ Last(s) = ""

\* TrimPrefix and TrimSuffix take one slash away.
TrimSlashes(s) ==
  LET t == IF HasSlashPrefix(s) THEN Tail(s) ELSE s
  IN  IF HasSlashSuffix(t) THEN Front(t) ELSE t

SplitVolumeCorpus(name) == TrimSlashes(name)
VolumeName(e) == SplitVolumeCorpus(e.name)[1]

SubPath(e) ==
  LET c == SplitVolumeCorpus(e.name)
  IN  TrimSlashes(IF Len(c) > 1 THEN Tail(c) ELSE Blank)

MountPathDefaultPrefix == <<"", "data", "pipeline">>

MountPathPrefix(e) ==
  LET p == IF e.mountPrefix # Blank THEN e.mountPrefix ELSE MountPathDefaultPrefix
  IN  IF HasSlashPrefix(p) THEN p ELSE Blank \o p

MountPath(e) ==
  MountPathPrefix(e) \o TrimSlashes(IF e.mountPathOverride # Blank THEN e.mountPathOverride
                                    ELSE <<VolumeName(e)>> \o SubPath(e))

\* Variant: runs share their directories.
SharedSubPath(run, e) == SubPath(e)

SubPathWithIntermediateDirectory(run, e) ==
  TrimSlashes(IF e.useIntermediateDirectory THEN <<run>> \o SubPath(e) ELSE SubPath(e))

Mount(run, e, readOnly) ==
  [ name |-> VolumeName(e), mountPath |-> MountPath(e),
    subPath |-> SubPathWithIntermediateDirectory(run, e), readOnly |-> readOnly ]

\* The io specs of a pod: of its run and of its job, inputs and outputs.
AllIO(pod) == pod.runInputs \o pod.runOutputs \o pod.jobInputs \o pod.jobOutputs

\* A name without a volume is an error, and no job is made.
Parses(pod) == \A e \in ToSet(AllIO(pod)) : VolumeName(e) # ""

VolumeMountList(run, pod) ==
  LET mounts(es, readOnly) == [i \in DOMAIN es |-> Mount(run, es[i], readOnly)]
  IN  mounts(pod.runInputs, TRUE) \o mounts(pod.runOutputs, FALSE)
        \o mounts(pod.jobInputs, TRUE) \o mounts(pod.jobOutputs, FALSE)

\* Variant: the outputs of the job are forgotten.
VolumesWithoutOutputs(pod) ==
  FoldLeft(LAMBDA vs, e : IF Contains(vs, VolumeName(e)) THEN vs ELSE Append(vs, VolumeName(e)),
           <<>>, pod.runInputs \o pod.runOutputs \o pod.jobInputs)

\* The claims that the pod uses, each once.
VolumeList(pod) ==
  FoldLeft(LAMBDA vs, e : IF Contains(vs, VolumeName(e)) THEN vs ELSE Append(vs, VolumeName(e)),
           <<>>, AllIO(pod))
================================================================================
