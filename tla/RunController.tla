----------------------------- MODULE RunController -----------------------------
(***************************************************************************)
(* The run controller (internal/controller/run_controller.go) for one Run, *)
(* with the parts of Kubernetes it works through:                          *)
(*                                                                         *)
(*   - the API server holds the run's jobs (kjob) and the trigger of each  *)
(*     job in the run's spec (trigger);                                    *)
(*   - the reconciler reads jobs and pods from informer caches that lag    *)
(*     behind the API server, writes to the API server with optimistic     *)
(*     concurrency, and is interrupted between any two API calls: a pass   *)
(*     over the jobs is one step per job (pc);                             *)
(*   - the Kubernetes job controller and the kubelet start, run, stop and  *)
(*     finish the pods of jobs that are not suspended;                     *)
(*   - a user edits triggers, deletes jobs and deletes the pipeline, API   *)
(*     calls fail, pods fail and the operator restarts, within the bounds  *)
(*     MaxEdits, MayDelete and MaxFailures.                                *)
(*                                                                         *)
(* A write to the API server makes a job dirty until the informer delivers *)
(* it (cache is the copy it delivered); an update of a dirty job fails,    *)
(* which is what comparing resource versions decides.  The pod informer is *)
(* independent of the job informer and only read: it may show any phase    *)
(* that a pod of the job has had since the operator started (podPast), or  *)
(* no pod.                                                                 *)
(***************************************************************************)
EXTENDS JobState, Sequences, FiniteSets

CONSTANTS
  JobNames,       \* the names a run can give its jobs
  JobSeq,         \* run.Spec.Jobs: the names, in the order of the spec
  RunBefore,      \* the RunBefore list of a job: it may name a job that is not there
  InitTriggers,   \* the triggers the run's spec can have when the run is created
  MaxFailures,    \* bound on failed API calls, failed pods and restarts
  MaxEdits,       \* bound on edits and deletions of jobs by the user
  MayDelete       \* whether the user may delete the pipeline

Jobs == {JobSeq[i] : i \in DOMAIN JobSeq}

ASSUME RunAssumption ==
  /\ JobSeq \in Seq(JobNames)
  /\ RunBefore \in [JobNames -> Seq(JobNames)]
  /\ InitTriggers \subseteq [JobNames -> BOOLEAN]
  /\ MaxFailures \in Nat /\ MaxEdits \in Nat /\ MayDelete \in BOOLEAN

VARIABLES
  kjob,           \* the jobs in the API server
  pods,           \* the phases of each job's pods
  cache,          \* the reconciler's informer copy of kjob
  podPast,        \* the phases of each job's pods since the operator started
  dirty,          \* the jobs written since the informer last delivered them
  trigger,        \* the triggers in the run's spec
  desired,        \* the triggers in the copy of the run that the pass works on
  pc,             \* 0: idle; i: at the i-th job; Len(JobSeq) + 1: at the run's status
  queued,         \* the run is in the work queue
  runState,       \* run.Status.RunState
  ended,          \* this run has written the pipeline's ScheduleLastExecutionEndDate
  started,        \* ghost: the jobs that ever had a pod
  pipelineExists, \* the pipeline of the run's label exists
  failures,       \* failed API calls, failed pods and restarts so far
  edits           \* edits and deletions of jobs by the user so far

apiVars == <<kjob, pods, podPast, trigger, runState, ended, pipelineExists>>
cacheVars == <<cache, dirty>>
workerVars == <<desired, pc, queued>>
ghostVars == <<started, failures, edits>>
vars == <<apiVars, cacheVars, workerVars, ghostVars>>

KjobType ==
  [ exists : BOOLEAN, deleting : BOOLEAN, suspend : BOOLEAN, trigger : BOOLEAN,
    active : BOOLEAN, succeeded : BOOLEAN, failed : BOOLEAN, state : JobStates ]

NoKjob ==
  [ exists |-> FALSE, deleting |-> FALSE, suspend |-> FALSE, trigger |-> FALSE,
    active |-> FALSE, succeeded |-> FALSE, failed |-> FALSE, state |-> NoState ]

LivePhase == {"Pending", "Running"}

AtStatus == Len(JobSeq) + 1

Init ==
  /\ kjob = [j \in Jobs |-> NoKjob]
  /\ pods = [j \in Jobs |-> {}]
  /\ cache = kjob
  /\ podPast = pods
  /\ dirty = {}
  /\ \E t \in InitTriggers : trigger = [j \in Jobs |-> t[j]]
  /\ desired = trigger
  /\ pc = 0
  /\ queued = TRUE
  /\ runState = NoState
  /\ ended = FALSE
  /\ started = {}
  /\ pipelineExists = TRUE
  /\ failures = 0 /\ edits = 0

--------------------------------------------------------------------------------
(* Reconcile: fetching the run and its pipeline. *)

\* A work item is taken; the pass works on this copy of the run's spec.
ReconcileStart ==
  /\ pc = 0 /\ queued /\ pipelineExists
  /\ queued' = FALSE
  /\ pc' = 1
  /\ desired' = trigger
  /\ UNCHANGED <<apiVars, cacheVars, ghostVars>>

\* Without its pipeline the run is dropped: no error, so no retry.
DropReconcile ==
  /\ pc = 0 /\ queued /\ ~pipelineExists
  /\ queued' = FALSE
  /\ UNCHANGED <<apiVars, cacheVars, desired, pc, ghostVars>>

\* An error ends the pass and puts the run back into the queue.
FailPass ==
  /\ pc' = 0
  /\ queued' = TRUE
  /\ UNCHANGED desired

--------------------------------------------------------------------------------
(* ensureKJobList: one step per job of the spec. *)

Working(j) == pc \in DOMAIN JobSeq /\ JobSeq[pc] = j

Known(j) == j \in Jobs /\ cache[j].exists

\* Variant: a job is created with a state of its own.
NewKjobWithState(j) ==
  [NoKjob EXCEPT !.exists = TRUE, !.suspend = desired[j], !.trigger = desired[j],
                 !.state = "created"]

\* constructKjobFromRunJob: a job is created suspended iff it is triggered.
NewKjob(j) == [NoKjob EXCEPT !.exists = TRUE, !.suspend = desired[j], !.trigger = desired[j]]

CreateKjob(j) ==
  /\ Working(j)
  /\ ~cache[j].exists /\ ~kjob[j].exists
  /\ kjob' = [kjob EXCEPT ![j] = NewKjob(j)]
  /\ dirty' = dirty \cup {j}
  /\ pc' = pc + 1
  /\ UNCHANGED <<pods, podPast, trigger, runState, ended, pipelineExists, cache,
                 desired, queued, ghostVars>>

\* The informer has not delivered the job yet: the create says AlreadyExists.
CreateConflict(j) ==
  /\ Working(j)
  /\ ~cache[j].exists /\ kjob[j].exists
  /\ FailPass
  /\ UNCHANGED <<apiVars, cacheVars, ghostVars>>

\* Variants: the job's own trigger is forgotten; a failed job does not block.
BlocksWithoutTrigger(j, b) ==
  \/ cache[b].state = "failed"
  \/ CategorizeJobState(cache[b].state) # "postRun"

BlocksWithoutFailed(j, b) ==
  cache[j].trigger \/ CategorizeJobState(cache[b].state) # "postRun"

\* Whether the state of job b, listed in RunBefore of j, keeps j suspended.
Blocks(j, b) ==
  \/ cache[j].trigger
  \/ cache[b].state = "failed"
  \/ CategorizeJobState(cache[b].state) # "postRun"

\* The loop over RunBefore fails at a job that has no kjob, unless a job before it
\* in the list blocks.  When it does not fail, job j is suspended unless the whole
\* list is there and none of it blocks.
BeforeMissing(j) ==
  \E i \in DOMAIN RunBefore[j] :
    /\ ~Known(RunBefore[j][i])
    /\ \A h \in 1..(i-1) : Known(RunBefore[j][h]) /\ ~Blocks(j, RunBefore[j][h])

Suspending(j) ==
  \E i \in DOMAIN RunBefore[j] : ~Known(RunBefore[j][i]) \/ Blocks(j, RunBefore[j][i])

\* The pod list has no order and only its first item is looked at.
SeenPhases(j) == {NoPod} \cup podPast[j]

\* Variants: the trigger follows the spec both ways; the trigger is never released.
UpdatedToSpec(j, phase) ==
  [kjob[j] EXCEPT !.state = DetermineJobStateFrom(cache[j], phase),
                  !.trigger = desired[j],
                  !.suspend = Suspending(j)]

UpdatedWithoutRelease(j, phase) ==
  [kjob[j] EXCEPT !.state = DetermineJobStateFrom(cache[j], phase),
                  !.trigger = cache[j].trigger,
                  !.suspend = Suspending(j)]

\* A triggered job is released when the run's spec no longer triggers it.  The
\* suspend flag and the state come from the job as it was read; the update does
\* not reach the status subresource.
Updated(j, phase) ==
  [kjob[j] EXCEPT !.state = DetermineJobStateFrom(cache[j], phase),
                  !.trigger = cache[j].trigger /\ desired[j],
                  !.suspend = Suspending(j)]

\* The update carries the resource version that was read.
Fresh(j) == j \notin dirty

\* An update that changes nothing leaves the resource version alone.
UpdateKjob(j) ==
  /\ Working(j)
  /\ cache[j].exists /\ ~BeforeMissing(j) /\ Fresh(j)
  /\ \E phase \in SeenPhases(j) :
       /\ kjob' = [kjob EXCEPT ![j] = Updated(j, phase)]
       /\ dirty' = IF Updated(j, phase) = kjob[j] THEN dirty ELSE dirty \cup {j}
  /\ pc' = pc + 1
  /\ UNCHANGED <<pods, podPast, trigger, runState, ended, pipelineExists, cache,
                 desired, queued, ghostVars>>

\* The API server rejects the update of a job that has changed since it was read.
UpdateRejected(j) ==
  /\ Working(j)
  /\ cache[j].exists /\ ~BeforeMissing(j) /\ ~Fresh(j)
  /\ FailPass
  /\ UNCHANGED <<apiVars, cacheVars, ghostVars>>

BeforeNotFound(j) ==
  /\ Working(j)
  /\ cache[j].exists /\ BeforeMissing(j)
  /\ FailPass
  /\ UNCHANGED <<apiVars, cacheVars, ghostVars>>

--------------------------------------------------------------------------------
(* updateRunStatus. *)

ListedStates == {cache[j].state : j \in {k \in Jobs : cache[k].exists}}

\* Variant: the finished jobs are counted against the jobs that were listed.
ListedFinished ==
  \A j \in Jobs : cache[j].exists => cache[j].state \in FinishedState

\* Complete + Deleted + Failed == len(run.Spec.Jobs)
RunFinished ==
  Cardinality({j \in Jobs : cache[j].exists /\ cache[j].state \in FinishedState})
    = Len(JobSeq)

\* LastUpdatedDate has a resolution of a second: a write that changes nothing
\* else may or may not produce another event for the run.
RecordStatus ==
  /\ pc = AtStatus
  /\ RunFinished => pipelineExists
  /\ runState' = HighestState(ListedStates)
  /\ ended' = (ended \/ RunFinished)
  /\ pc' = 0
  /\ \E again \in BOOLEAN :
       /\ runState' # runState => again
       /\ queued' = (queued \/ again)
  /\ UNCHANGED <<kjob, pods, podPast, trigger, pipelineExists, cacheVars, desired, ghostVars>>

\* The status of a pipeline that is gone cannot be updated.
StatusFails ==
  /\ pc = AtStatus
  /\ RunFinished /\ ~pipelineExists
  /\ FailPass
  /\ UNCHANGED <<apiVars, cacheVars, ghostVars>>

--------------------------------------------------------------------------------
(* Failures of the reconciler. *)

Failure ==
  /\ failures < MaxFailures
  /\ failures' = failures + 1
  /\ UNCHANGED <<started, edits>>

\* Any API call of a pass may fail.
ApiError ==
  /\ pc # 0
  /\ Failure
  /\ FailPass
  /\ UNCHANGED <<apiVars, cacheVars>>

\* The pipeline's end date is written and then the update of the run's status
\* fails: the retry looks the run up under the pipeline's name and gives up.
EndDateOnly ==
  /\ pc = AtStatus
  /\ RunFinished /\ pipelineExists
  /\ Failure
  /\ ended' = TRUE
  /\ FailPass
  /\ UNCHANGED <<kjob, pods, podPast, trigger, runState, pipelineExists, cacheVars>>

\* A restarted operator fills its caches and queues every run.
Restart ==
  /\ Failure
  /\ cache' = kjob /\ podPast' = pods /\ dirty' = {}
  /\ FailPass
  /\ UNCHANGED <<kjob, pods, trigger, runState, ended, pipelineExists>>

--------------------------------------------------------------------------------
(* The job informer: a job's event queues its run.  Nothing watches pods. *)

\* Variant: the controller does not watch the jobs it owns.
SyncKjobUnwatched(j) ==
  /\ j \in dirty
  /\ cache' = [cache EXCEPT ![j] = kjob[j]]
  /\ dirty' = dirty \ {j}
  /\ UNCHANGED <<apiVars, workerVars, ghostVars>>

SyncKjob(j) ==
  /\ j \in dirty
  /\ cache' = [cache EXCEPT ![j] = kjob[j]]
  /\ dirty' = dirty \ {j}
  /\ queued' = TRUE
  /\ UNCHANGED <<apiVars, desired, pc, ghostVars>>

--------------------------------------------------------------------------------
(* The Kubernetes job controller and the kubelet. *)

SetPods(j, p) ==
  /\ pods' = [pods EXCEPT ![j] = p]
  /\ podPast' = [podPast EXCEPT ![j] = @ \cup p]

\* A step of the cluster that leaves job j as new, with pods p.
ClusterStep(j, new, p) ==
  /\ kjob' = [kjob EXCEPT ![j] = new]
  /\ SetPods(j, p)
  /\ dirty' = dirty \cup {j}
  /\ UNCHANGED <<trigger, runState, ended, pipelineExists, cache, workerVars>>

MayStart(j) ==
  LET k == kjob[j]
  IN  k.exists /\ ~k.suspend /\ ~k.deleting /\ ~k.active /\ ~k.succeeded

StartPod(j) ==
  /\ MayStart(j)
  /\ ClusterStep(j, [kjob[j] EXCEPT !.active = TRUE], pods[j] \cup {"Pending"})
  /\ started' = started \cup {j}
  /\ UNCHANGED <<failures, edits>>

FirstPod(j) == ~kjob[j].failed /\ StartPod(j)

\* The job has failed pods and its back-off limit is not reached.
RetryPod(j) == kjob[j].failed /\ StartPod(j)

\* The pod's readiness is part of the job's status.
PodRuns(j) ==
  /\ "Pending" \in pods[j]
  /\ ClusterStep(j, kjob[j], (pods[j] \ {"Pending"}) \cup {"Running"})
  /\ UNCHANGED ghostVars

PodSucceeds(j) ==
  /\ "Running" \in pods[j]
  /\ SetPods(j, (pods[j] \ {"Running"}) \cup {"Succeeded"})
  /\ UNCHANGED <<kjob, trigger, runState, ended, pipelineExists, cacheVars,
                 workerVars, ghostVars>>

PodFails(j) ==
  /\ pods[j] \cap LivePhase # {}
  /\ Failure
  /\ SetPods(j, (pods[j] \ LivePhase) \cup {"Failed"})
  /\ UNCHANGED <<kjob, trigger, runState, ended, pipelineExists, cacheVars,
                 workerVars>>

ObserveSuccess(j) ==
  /\ kjob[j].active /\ "Succeeded" \in pods[j]
  /\ ClusterStep(j, [kjob[j] EXCEPT !.active = FALSE, !.succeeded = TRUE], pods[j])
  /\ UNCHANGED ghostVars

ObserveFailure(j) ==
  /\ kjob[j].active /\ pods[j] = {"Failed"}
  /\ ClusterStep(j, [kjob[j] EXCEPT !.active = FALSE, !.failed = TRUE], pods[j])
  /\ UNCHANGED ghostVars

\* Suspending a job deletes the pods it has running.
StopPods(j) ==
  /\ kjob[j].suspend /\ kjob[j].active /\ pods[j] \cap LivePhase # {}
  /\ ClusterStep(j, [kjob[j] EXCEPT !.active = FALSE], pods[j] \ LivePhase)
  /\ UNCHANGED ghostVars

--------------------------------------------------------------------------------
(* The user. *)

Edit ==
  /\ edits < MaxEdits
  /\ edits' = edits + 1
  /\ UNCHANGED <<started, failures>>

FlipTrigger(j) ==
  /\ Edit
  /\ trigger' = [trigger EXCEPT ![j] = ~@]
  /\ queued' = TRUE
  /\ UNCHANGED <<kjob, pods, podPast, runState, ended, pipelineExists, cacheVars, desired, pc>>

\* Deletion in the foreground: the job stays until its pods are gone.
MarkDeleting(j) ==
  /\ kjob[j].exists /\ ~kjob[j].deleting
  /\ Edit
  /\ ClusterStep(j, [kjob[j] EXCEPT !.deleting = TRUE], pods[j])

RemoveKjob(j) ==
  /\ kjob[j].deleting
  /\ ClusterStep(j, NoKjob, {})
  /\ UNCHANGED ghostVars

\* Deletion in the background: the job goes first, its pods with it.
DeleteKjob(j) ==
  /\ kjob[j].exists
  /\ Edit
  /\ ClusterStep(j, NoKjob, {})

DeletePipeline ==
  /\ MayDelete /\ pipelineExists
  /\ pipelineExists' = FALSE
  /\ UNCHANGED <<kjob, pods, podPast, trigger, runState, ended, cacheVars, workerVars, ghostVars>>

--------------------------------------------------------------------------------
EnsureKjob(j) ==
  \/ CreateKjob(j) \/ CreateConflict(j)
  \/ UpdateKjob(j) \/ UpdateRejected(j) \/ BeforeNotFound(j)

Worker ==
  \/ ReconcileStart \/ DropReconcile
  \/ \E j \in Jobs : EnsureKjob(j)
  \/ RecordStatus \/ StatusFails

\* The cluster's progress with pods that do not fail.
Progress(j) ==
  \/ FirstPod(j) \/ PodRuns(j) \/ PodSucceeds(j)
  \/ ObserveSuccess(j) \/ ObserveFailure(j) \/ StopPods(j) \/ RemoveKjob(j)

User(j) == FlipTrigger(j) \/ MarkDeleting(j) \/ DeleteKjob(j)

Next ==
  \/ Worker
  \/ ApiError \/ EndDateOnly \/ Restart \/ DeletePipeline
  \/ \E j \in Jobs : SyncKjob(j) \/ Progress(j) \/ RetryPod(j) \/ PodFails(j) \/ User(j)

Spec == Init /\ [][Next]_vars

(***************************************************************************)
(* Fairness: the single worker of the controller runs while it has work,   *)
(* the watch on jobs delivers, and the cluster makes progress with every   *)
(* job whose pods do not fail.  Nothing says that a failed pod is retried, *)
(* nor that the pod informer ever catches up.                              *)
(***************************************************************************)
Fairness ==
  /\ WF_vars(Worker)
  /\ \A j \in Jobs : WF_vars(SyncKjob(j)) /\ WF_vars(Progress(j))

FairSpec == Spec /\ Fairness

--------------------------------------------------------------------------------
(* Properties *)

\* Every variable has its type.
TypeOK ==
  /\ kjob \in [Jobs -> KjobType] /\ cache \in [Jobs -> KjobType]
  /\ pods \in [Jobs -> SUBSET PodPhase] /\ podPast \in [Jobs -> SUBSET PodPhase]
  /\ dirty \subseteq Jobs /\ started \subseteq Jobs
  /\ trigger \in [Jobs -> BOOLEAN] /\ desired \in [Jobs -> BOOLEAN]
  /\ pc \in 0..AtStatus
  /\ queued \in BOOLEAN /\ ended \in BOOLEAN /\ pipelineExists \in BOOLEAN
  /\ runState \in JobStates
  /\ failures \in 0..MaxFailures /\ edits \in 0..MaxEdits

\* What the last pass decided about job j still stands: the flags in the API
\* server are those that another pass would write.
Settled(j) ==
  /\ cache[j].exists
  /\ cache[j].suspend = Suspending(j)
  /\ cache[j].trigger => trigger[j]
  /\ ~cache[j].active => cache[j].state = DetermineJobStateFrom(cache[j], NoPod)

Quiet == pc = 0 /\ ~queued /\ dirty = {} /\ pipelineExists

\* No lost wake-up: when the run is not in the work queue, no pass is under way
\* and no event is on its way, every job is there with the suspend flag, trigger
\* and state that the current triggers and predecessors call for, and the run
\* shows the highest of these states.
QuietMeansSettled ==
  Quiet => /\ \A j \in Jobs : kjob[j] = cache[j] /\ Settled(j)
           /\ runState = HighestState({kjob[j].state : j \in Jobs})

\* A job that has predecessors stays suspended as long as its own annotation
\* says that it is triggered (run_controller.go:337-338).
TriggerHolds ==
  \A j \in Jobs :
    kjob[j].exists /\ kjob[j].trigger /\ RunBefore[j] # <<>> => kjob[j].suspend

\* An annotation never claims an outcome that the job does not have: it is told by
\* the job's own status, whichever of its pods the pod informer shows, and no pass
\* writes the outcome of a job that was deleted to the job created in its place.
AnnotationIsTrue ==
  \A j \in Jobs :
    /\ kjob[j].state = "completed" => kjob[j].succeeded
    /\ kjob[j].state = "failed" => kjob[j].failed

\* The pipeline's end date is only written by a run all of whose jobs have
\* started.
EndAfterAllStarted == ended => started = Jobs

\* A suspended job is only released when every job in its RunBefore has been
\* started, and none of them is known to have failed.
ReleaseAfterStart ==
  [][\A j \in Jobs :
       kjob[j].exists /\ kjob[j].suspend /\ kjob'[j].exists /\ ~kjob'[j].suspend
         => \A i \in DOMAIN RunBefore[j] :
              /\ RunBefore[j][i] \in started
              /\ cache[RunBefore[j][i]].state \notin {"failed", NoState}]_vars

\* The operator releases a trigger and never sets one: only a new kjob is triggered.
TriggerOneWay ==
  [][\A j \in Jobs :
       kjob[j].exists /\ ~kjob[j].trigger => ~kjob'[j].trigger]_vars

\* If from some point on the pipeline stays, no job is triggered and no job has
\* failed for good, the run completes: it shows "completed" and the pipeline has
\* its end date.
RunCompletes ==
  <>[](/\ pipelineExists
       /\ \A j \in Jobs : ~trigger[j] /\ (kjob[j].failed => kjob[j].succeeded))
    => <>[](runState = "completed" /\ ended)
================================================================================
