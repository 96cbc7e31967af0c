-------------------------- MODULE RunControllerProofs --------------------------
(***************************************************************************)
(* Safety of the run controller, for every list of jobs, every RunBefore   *)
(* relation (cycles and missing names included) and any number of failures *)
(* and edits.                                                              *)
(***************************************************************************)
EXTENDS RunController, FiniteSetTheorems, TLAPS

--------------------------------------------------------------------------------
(* Job states. *)

\* The states and their ranks, spelled out.
LEMMA StateNames ==
  /\ NamedState = {"failed", "running", "initializing", "waiting", "completed",
                   "deleting", "stopping", "deleted", "unknown"}
  /\ JobStates = NamedState \cup {""}
BY DEF JobStates, NamedState, NoState, StateOrder

\* A job is given a state of the vocabulary.
LEMMA DeterminedIsState ==
  ASSUME NEW k \in KjobType, NEW phase
  PROVE  DetermineJobStateFrom(k, phase) \in JobStates
BY StateNames DEF DetermineJobStateFrom

\* A rank is one of nine numbers.
LEMMA RankRange == \A t \in JobStates : Rank(t) \in 0..8
<1>1. \A t \in DOMAIN StateOrder : StateOrder[t] \in 0..8
  BY DEF StateOrder
<1>2. SUFFICES ASSUME NEW t \in JobStates PROVE Rank(t) \in 0..8
  OBVIOUS
<1>3. CASE t \in DOMAIN StateOrder
  BY <1>1, <1>3 DEF Rank
<1>4. CASE t \notin DOMAIN StateOrder
  <2>1. Rank(t) = 0
    BY <1>4, Zenon DEF Rank
  <2> QED BY <2>1
<1> QED BY <1>3, <1>4

\* Among some ranks there is a highest one.
LEMMA HighestRank ==
  ASSUME NEW R \in SUBSET (0..8), R # {}
  PROVE  \E m \in R : \A n \in R : n <= m
<1>1. PICK n \in R : n \in 0..8
  OBVIOUS
<1>2. CASE 8 \in R BY <1>2
<1>3. CASE 8 \notin R /\ 7 \in R BY <1>3
<1>4. CASE 8 \notin R /\ 7 \notin R /\ 6 \in R BY <1>4
<1>5. CASE R \subseteq 0..5 /\ 5 \in R BY <1>5
<1>6. CASE R \subseteq 0..4 /\ 4 \in R BY <1>6
<1>7. CASE R \subseteq 0..3 /\ 3 \in R BY <1>7
<1>8. CASE R \subseteq 0..2 /\ 2 \in R BY <1>8
<1>9. CASE R \subseteq 0..1 /\ 1 \in R BY <1>9
<1>10. CASE R \subseteq 0..0 BY <1>10, <1>1
<1>11. CASE R \subseteq 0..2
  BY <1>11, <1>8, <1>9, <1>10
<1>12. CASE R \subseteq 0..5
  BY <1>12, <1>5, <1>6, <1>7, <1>11
<1> QED BY <1>2, <1>3, <1>4, <1>12

\* Among some states there is one of highest rank, so HighestState is one of them.
LEMMA HighestIsThere ==
  ASSUME NEW S \in SUBSET JobStates, S # {}
  PROVE  HighestState(S) \in S
<1> DEFINE R == {Rank(t) : t \in S}
<1>1. R \in SUBSET (0..8) /\ R # {}
  BY RankRange
<1> HIDE DEF R
<1>2. PICK m \in R : \A n \in R : n <= m
  BY <1>1, HighestRank
<1>3. \E s \in S : \A t \in S : Rank(t) <= Rank(s)
  BY <1>2 DEF R
<1> QED BY <1>3 DEF HighestState

\* The state of a run is a state of the vocabulary.
LEMMA HighestIsState ==
  ASSUME NEW S \in SUBSET JobStates
  PROVE  HighestState(S) \in JobStates
BY HighestIsThere, StateNames DEF HighestState, JobStateUnknown

--------------------------------------------------------------------------------
(* Types. *)

\* The positions of a pass: the jobs of the spec and then the run's status.
LEMMA Positions ==
  /\ AtStatus \in Nat /\ AtStatus > 0
  /\ DOMAIN JobSeq = 1..(AtStatus - 1)
  /\ \A i \in DOMAIN JobSeq : JobSeq[i] \in Jobs
  /\ Jobs \subseteq JobNames
BY RunAssumption DEF RunAssumption, AtStatus, Jobs

\* No job, a job changed by the cluster, a new job and an updated job are jobs.
LEMMA NoKjobType == NoKjob \in KjobType
<1>1. NoState \in JobStates
  BY DEF JobStates
<1> QED BY <1>1 DEF NoKjob, KjobType

\* A job whose outcome or deletion mark is written is a job.
LEMMA ChangedType ==
  ASSUME NEW k \in KjobType
  PROVE  /\ [k EXCEPT !.active = TRUE] \in KjobType
         /\ [k EXCEPT !.active = FALSE] \in KjobType
         /\ [k EXCEPT !.active = FALSE, !.succeeded = TRUE] \in KjobType
         /\ [k EXCEPT !.active = FALSE, !.failed = TRUE] \in KjobType
         /\ [k EXCEPT !.deleting = TRUE] \in KjobType
BY DEF KjobType

\* The job that a pass creates is a job.
LEMMA NewKjobType ==
  ASSUME TypeOK, NEW j \in Jobs
  PROVE  NewKjob(j) \in KjobType
BY StateNames DEF TypeOK, NewKjob, NoKjob, NoState, KjobType

\* The job that a pass updates is a job.
LEMMA UpdatedType ==
  ASSUME TypeOK, NEW j \in Jobs, NEW phase
  PROVE  Updated(j, phase) \in KjobType
<1>1. /\ DetermineJobStateFrom(cache[j], phase) \in JobStates
      /\ Suspending(j) \in BOOLEAN
      /\ (cache[j].trigger /\ desired[j]) \in BOOLEAN
  BY DeterminedIsState DEF TypeOK, Suspending
<1>2. kjob[j] \in KjobType
  BY DEF TypeOK
<1> QED BY <1>1, <1>2 DEF Updated, KjobType

\* A step of the cluster keeps the types when what it writes is a job.
LEMMA ClusterStepType ==
  ASSUME TypeOK, NEW j \in Jobs, NEW new \in KjobType, NEW p \in SUBSET PodPhase,
         ClusterStep(j, new, p),
         started' \subseteq Jobs, failures' \in 0..MaxFailures, edits' \in 0..MaxEdits
  PROVE  TypeOK'
BY DEF TypeOK, ClusterStep, SetPods, workerVars

\* Failures keep within their bound.
LEMMA FailureType ==
  ASSUME TypeOK, Failure
  PROVE  started' \subseteq Jobs /\ failures' \in 0..MaxFailures /\ edits' \in 0..MaxEdits
BY RunAssumption DEF RunAssumption, TypeOK, Failure

\* Edits keep within their bound.
LEMMA EditType ==
  ASSUME TypeOK, Edit
  PROVE  started' \subseteq Jobs /\ failures' \in 0..MaxFailures /\ edits' \in 0..MaxEdits
BY RunAssumption DEF RunAssumption, TypeOK, Edit

\* The type invariant holds at the start.
LEMMA TypeInit == Init => TypeOK
<1> SUFFICES ASSUME Init PROVE TypeOK
  OBVIOUS
<1>1. kjob \in [Jobs -> KjobType] /\ cache \in [Jobs -> KjobType]
  BY NoKjobType DEF Init
<1>2. trigger \in [Jobs -> BOOLEAN] /\ desired \in [Jobs -> BOOLEAN]
  <2>1. PICK t \in InitTriggers : trigger = [j \in Jobs |-> t[j]]
    BY DEF Init
  <2>2. t \in [JobNames -> BOOLEAN]
    BY RunAssumption DEF RunAssumption
  <2> QED BY <2>1, <2>2, Positions DEF Init
<1>3. runState \in JobStates /\ pc \in 0..AtStatus
  <2>1. NoState \in JobStates
    BY DEF JobStates
  <2> QED BY <2>1, Positions DEF Init
<1>4. failures \in 0..MaxFailures /\ edits \in 0..MaxEdits
  BY RunAssumption DEF RunAssumption, Init
<1> QED BY <1>1, <1>2, <1>3, <1>4 DEF Init, TypeOK

\* The steps of the pass keep the types.
LEMMA TypeWorker ==
  ASSUME TypeOK, Worker
  PROVE  TypeOK'
<1> USE DEF apiVars, cacheVars, ghostVars
<1>1. CASE ReconcileStart
  <2>1. pc' \in 0..AtStatus
    BY <1>1, Positions DEF ReconcileStart
  <2> QED BY <1>1, <2>1 DEF TypeOK, ReconcileStart
<1>2. CASE DropReconcile
  BY <1>2 DEF TypeOK, DropReconcile
<1>3. ASSUME NEW j \in Jobs, CreateKjob(j) PROVE TypeOK'
  <2>1. pc' \in 0..AtStatus
    BY <1>3, Positions DEF CreateKjob, Working
  <2>2. kjob' \in [Jobs -> KjobType]
    BY <1>3, NewKjobType DEF TypeOK, CreateKjob
  <2> QED BY <1>3, <2>1, <2>2 DEF TypeOK, CreateKjob
<1>4. ASSUME NEW j \in Jobs, UpdateKjob(j) PROVE TypeOK'
  <2>1. pc' \in 0..AtStatus
    BY <1>4, Positions DEF UpdateKjob, Working
  <2>2. kjob' \in [Jobs -> KjobType]
    BY <1>4, UpdatedType DEF TypeOK, UpdateKjob
  <2>3. dirty' \subseteq Jobs
    BY <1>4 DEF TypeOK, UpdateKjob
  <2> QED BY <1>4, <2>1, <2>2, <2>3 DEF TypeOK, UpdateKjob
<1>5. ASSUME NEW j \in Jobs, CreateConflict(j) \/ UpdateRejected(j) \/ BeforeNotFound(j)
      PROVE  TypeOK'
  <2>1. FailPass /\ UNCHANGED <<apiVars, cacheVars, ghostVars>>
    BY <1>5 DEF CreateConflict, UpdateRejected, BeforeNotFound
  <2> QED BY <2>1, Positions DEF TypeOK, FailPass
<1>6. CASE RecordStatus
  <2>1. ListedStates \in SUBSET JobStates
    BY DEF TypeOK, ListedStates, KjobType
  <2>2. runState' \in JobStates
    BY <1>6, <2>1, HighestIsState DEF RecordStatus
  <2>3. queued' \in BOOLEAN /\ ended' \in BOOLEAN /\ pc' \in 0..AtStatus
    BY <1>6, Positions DEF TypeOK, RecordStatus, RunFinished
  <2> QED BY <1>6, <2>2, <2>3 DEF TypeOK, RecordStatus
<1>7. CASE StatusFails
  BY <1>7, Positions DEF TypeOK, StatusFails, FailPass
<1> QED BY <1>1, <1>2, <1>3, <1>4, <1>5, <1>6, <1>7 DEF Worker, EnsureKjob

\* Failed calls and restarts keep the types.
LEMMA TypeFailures ==
  ASSUME TypeOK, ApiError \/ EndDateOnly \/ Restart
  PROVE  TypeOK'
<1> USE FailureType, Positions DEF TypeOK, FailPass
<1>1. CASE ApiError
  BY <1>1 DEF ApiError, apiVars, cacheVars
<1>2. CASE EndDateOnly
  BY <1>2 DEF EndDateOnly, cacheVars
<1>3. CASE Restart
  BY <1>3 DEF Restart
<1> QED BY <1>1, <1>2, <1>3

\* The steps of Kubernetes keep the types.
LEMMA TypeCluster ==
  ASSUME TypeOK, NEW j \in Jobs, Progress(j) \/ RetryPod(j) \/ PodFails(j)
  PROVE  TypeOK'
<1>1. /\ kjob[j] \in KjobType /\ pods[j] \in SUBSET PodPhase
      /\ {"Pending", "Running", "Succeeded", "Failed"} = PodPhase
  BY DEF TypeOK, PodPhase
<1>2. ghostVars' = ghostVars =>
        started' \subseteq Jobs /\ failures' \in 0..MaxFailures /\ edits' \in 0..MaxEdits
  BY DEF TypeOK, ghostVars
<1>3. CASE StartPod(j)
  <2>1. started' \subseteq Jobs /\ failures' \in 0..MaxFailures /\ edits' \in 0..MaxEdits
    BY <1>3 DEF TypeOK, StartPod
  <2>2. pods[j] \cup {"Pending"} \in SUBSET PodPhase
    BY <1>1
  <2> QED BY <1>1, <1>3, <2>1, <2>2, ChangedType, ClusterStepType DEF StartPod
<1>4. CASE PodRuns(j)
  <2>1. (pods[j] \ {"Pending"}) \cup {"Running"} \in SUBSET PodPhase
    BY <1>1
  <2> QED BY <1>1, <1>2, <1>4, <2>1, ClusterStepType DEF PodRuns
<1>5. CASE PodSucceeds(j)
  <2>1. (pods[j] \ {"Running"}) \cup {"Succeeded"} \in SUBSET PodPhase
    BY <1>1
  <2> QED BY <1>2, <1>5, <2>1 DEF TypeOK, PodSucceeds, SetPods, cacheVars, workerVars
<1>6. CASE PodFails(j)
  <2>1. (pods[j] \ LivePhase) \cup {"Failed"} \in SUBSET PodPhase
    BY <1>1
  <2> QED BY <1>6, <2>1, FailureType DEF TypeOK, PodFails, SetPods, cacheVars, workerVars
<1>7. CASE ObserveSuccess(j)
  BY <1>1, <1>2, <1>7, ChangedType, ClusterStepType DEF ObserveSuccess
<1>8. CASE ObserveFailure(j)
  BY <1>1, <1>2, <1>8, ChangedType, ClusterStepType DEF ObserveFailure
<1>9. CASE StopPods(j)
  <2>1. pods[j] \ LivePhase \in SUBSET PodPhase
    BY <1>1
  <2> QED BY <1>1, <1>2, <1>9, <2>1, ChangedType, ClusterStepType DEF StopPods
<1>10. CASE RemoveKjob(j)
  BY <1>1, <1>2, <1>10, NoKjobType, ClusterStepType DEF RemoveKjob
<1> QED BY <1>3, <1>4, <1>5, <1>6, <1>7, <1>8, <1>9, <1>10 DEF Progress, FirstPod, RetryPod

\* Events and edits keep the types.
LEMMA TypeUser ==
  ASSUME TypeOK, DeletePipeline \/ \E j \in Jobs : SyncKjob(j) \/ User(j)
  PROVE  TypeOK'
<1>1. CASE DeletePipeline
  BY <1>1 DEF TypeOK, DeletePipeline, cacheVars, workerVars, ghostVars
<1>2. ASSUME NEW j \in Jobs, SyncKjob(j) PROVE TypeOK'
  BY <1>2 DEF TypeOK, SyncKjob, apiVars, ghostVars
<1>3. ASSUME NEW j \in Jobs, FlipTrigger(j) PROVE TypeOK'
  BY <1>3, EditType DEF TypeOK, FlipTrigger, cacheVars
<1>4. ASSUME NEW j \in Jobs, MarkDeleting(j) PROVE TypeOK'
  <2>1. [kjob[j] EXCEPT !.deleting = TRUE] \in KjobType /\ pods[j] \in SUBSET PodPhase
    BY ChangedType DEF TypeOK
  <2> QED BY <1>4, <2>1, EditType, ClusterStepType DEF MarkDeleting
<1>5. ASSUME NEW j \in Jobs, DeleteKjob(j) PROVE TypeOK'
  <2>1. NoKjob \in KjobType /\ {} \in SUBSET PodPhase
    BY NoKjobType
  <2> QED BY <1>5, <2>1, EditType, ClusterStepType DEF DeleteKjob
<1> QED BY <1>1, <1>2, <1>3, <1>4, <1>5 DEF User

\* Every step keeps the types.
LEMMA TypeStep ==
  ASSUME TypeOK, [Next]_vars
  PROVE  TypeOK'
<1>1. CASE Next
  BY <1>1, TypeWorker, TypeFailures, TypeCluster, TypeUser DEF Next
<1>2. CASE UNCHANGED vars
  BY <1>2 DEF TypeOK, vars, apiVars, cacheVars, workerVars, ghostVars
<1> QED BY <1>1, <1>2

\* Every variable keeps its type.
THEOREM TypeCorrect == Spec => []TypeOK
<1>1. TypeOK /\ [Next]_vars => TypeOK'
  BY TypeStep
<1> QED BY <1>1, TypeInit, PTL DEF Spec

--------------------------------------------------------------------------------
(* How a job can change in one step.  The invariants below follow from these *)
(* two lemmas without looking at the actions again.                           *)

\* Every write to job j, by whom it may be.
KjobChange(j) ==
  \/ kjob'[j] = kjob[j]
  \/ CreateKjob(j) /\ kjob'[j] = NewKjob(j)
  \/ UpdateKjob(j) /\ \E phase \in SeenPhases(j) : kjob'[j] = Updated(j, phase)
  \/ kjob'[j] = [kjob[j] EXCEPT !.active = TRUE] /\ j \in started'
  \/ kjob[j].active /\ kjob'[j] = [kjob[j] EXCEPT !.active = FALSE, !.succeeded = TRUE]
  \/ kjob[j].active /\ kjob'[j] = [kjob[j] EXCEPT !.active = FALSE, !.failed = TRUE]
  \/ kjob'[j] = [kjob[j] EXCEPT !.active = FALSE]
  \/ kjob'[j] = [kjob[j] EXCEPT !.deleting = TRUE]
  \/ kjob'[j] = NoKjob

\* The cached copy of job j stays, and then a write makes it dirty, or it is
\* delivered.
CacheChange(j) ==
  \/ /\ cache'[j] = cache[j]
     /\ j \in dirty => j \in dirty'
     /\ kjob'[j] # kjob[j] => j \in dirty'
  \/ cache'[j] = kjob[j] /\ kjob'[j] = kjob[j]

\* The steps of Kubernetes and of the user change a job in no other way.
LEMMA ClusterChanges ==
  ASSUME TypeOK, NEW i \in Jobs, NEW j \in Jobs, Progress(i) \/ RetryPod(i) \/ PodFails(i) \/ User(i)
  PROVE  KjobChange(j) /\ CacheChange(j) /\ started \subseteq started'
<1>1. ASSUME NEW new, NEW p, ClusterStep(i, new, p)
      PROVE  CacheChange(j) /\ kjob'[j] = IF i = j THEN new ELSE kjob[j]
  BY <1>1 DEF TypeOK, ClusterStep, CacheChange
<1>2. CASE StartPod(i)
  BY <1>1, <1>2 DEF TypeOK, StartPod, KjobChange
<1>3. CASE PodRuns(i)
  BY <1>1, <1>3 DEF PodRuns, KjobChange, ghostVars
<1>4. CASE PodSucceeds(i) \/ PodFails(i)
  BY <1>4 DEF PodSucceeds, PodFails, Failure, KjobChange, CacheChange, ghostVars, cacheVars
<1>5. CASE ObserveSuccess(i)
  BY <1>1, <1>5 DEF ObserveSuccess, KjobChange, ghostVars
<1>6. CASE ObserveFailure(i)
  BY <1>1, <1>6 DEF ObserveFailure, KjobChange, ghostVars
<1>7. CASE StopPods(i)
  BY <1>1, <1>7 DEF StopPods, KjobChange, ghostVars
<1>8. CASE RemoveKjob(i)
  BY <1>1, <1>8 DEF RemoveKjob, KjobChange, ghostVars
<1>9. CASE FlipTrigger(i)
  BY <1>9 DEF FlipTrigger, Edit, KjobChange, CacheChange, cacheVars
<1>10. CASE MarkDeleting(i)
  BY <1>1, <1>10 DEF MarkDeleting, Edit, KjobChange
<1>11. CASE DeleteKjob(i)
  BY <1>1, <1>11 DEF DeleteKjob, Edit, KjobChange
<1> QED
  BY <1>2, <1>3, <1>4, <1>5, <1>6, <1>7, <1>8, <1>9, <1>10, <1>11
  DEF Progress, FirstPod, RetryPod, User

\* No step changes a job or its copy in any other way, and starts are remembered.
LEMMA Changes ==
  ASSUME TypeOK, [Next]_vars, NEW j \in Jobs
  PROVE  KjobChange(j) /\ CacheChange(j) /\ started \subseteq started'
<1>1. ASSUME UNCHANGED <<kjob, cacheVars, started>>
      PROVE  KjobChange(j) /\ CacheChange(j) /\ started \subseteq started'
  BY <1>1 DEF KjobChange, CacheChange, cacheVars
<1>2. ASSUME NEW i \in Jobs, CreateKjob(i)
      PROVE  KjobChange(j) /\ CacheChange(j) /\ started \subseteq started'
  BY <1>2 DEF TypeOK, CreateKjob, KjobChange, CacheChange, ghostVars
<1>3. ASSUME NEW i \in Jobs, UpdateKjob(i)
      PROVE  KjobChange(j) /\ CacheChange(j) /\ started \subseteq started'
  <2>1. PICK phase \in SeenPhases(i) :
          /\ kjob' = [kjob EXCEPT ![i] = Updated(i, phase)]
          /\ dirty' = IF Updated(i, phase) = kjob[i] THEN dirty ELSE dirty \cup {i}
    BY <1>3 DEF UpdateKjob
  <2>2. cache' = cache /\ started' = started
    BY <1>3 DEF UpdateKjob, ghostVars
  <2>3. CASE i = j
    <3>1. kjob'[j] = Updated(j, phase)
      BY <2>1, <2>3 DEF TypeOK
    <3> QED BY <1>3, <2>1, <2>2, <2>3, <3>1 DEF KjobChange, CacheChange
  <2>4. CASE i # j
    <3>1. kjob'[j] = kjob[j]
      BY <2>1, <2>4 DEF TypeOK
    <3> QED BY <2>1, <2>2, <3>1 DEF KjobChange, CacheChange
  <2> QED BY <2>3, <2>4
<1>4. CASE Worker
  <2>1. \/ UNCHANGED <<kjob, cacheVars, started>>
        \/ \E i \in Jobs : CreateKjob(i) \/ UpdateKjob(i)
    BY <1>4 DEF Worker, EnsureKjob, ReconcileStart, DropReconcile, CreateConflict,
                UpdateRejected, BeforeNotFound, RecordStatus, StatusFails,
                apiVars, cacheVars, ghostVars
  <2> QED BY <1>1, <1>2, <1>3, <2>1
<1>5. CASE Restart
  BY <1>5 DEF TypeOK, Restart, Failure, KjobChange, CacheChange
<1>6. CASE ApiError \/ EndDateOnly \/ DeletePipeline \/ UNCHANGED vars
  BY <1>1, <1>6
  DEF ApiError, EndDateOnly, DeletePipeline, Failure, Edit, vars, apiVars, cacheVars, ghostVars
<1>7. ASSUME NEW i \in Jobs, SyncKjob(i)
      PROVE  KjobChange(j) /\ CacheChange(j) /\ started \subseteq started'
  BY <1>7 DEF TypeOK, SyncKjob, KjobChange, CacheChange, apiVars, ghostVars
<1> QED
  BY <1>4, <1>5, <1>6, <1>7, ClusterChanges DEF Next

\* A job that is not dirty has been delivered as it is.
Coherent == \A j \in Jobs : j \notin dirty => cache[j] = kjob[j]

\* A cached job that is not marked stale is the one in the API server: an update
\* that the server accepts was computed from the present job.
THEOREM CacheIsCoherent == Spec => []Coherent
<1>1. Init => Coherent
  BY DEF Init, Coherent
<1>2. TypeOK /\ Coherent /\ [Next]_vars => Coherent'
  BY Changes DEF Coherent, CacheChange
<1> QED BY <1>1, <1>2, TypeCorrect, PTL DEF Spec

--------------------------------------------------------------------------------
(* Safety. *)

\* The flags and the state that an update writes.
LEMMA UpdateWrites ==
  ASSUME TypeOK, Coherent, NEW j \in Jobs, UpdateKjob(j), NEW phase, kjob'[j] = Updated(j, phase)
  PROVE  /\ cache[j] = kjob[j] /\ cache[j].exists
         /\ kjob'[j] = [kjob[j] EXCEPT !.state = DetermineJobStateFrom(cache[j], phase),
                                       !.trigger = cache[j].trigger /\ desired[j],
                                       !.suspend = Suspending(j)]
         /\ kjob'[j].state = DetermineJobStateFrom(kjob[j], phase)
         /\ kjob'[j].trigger = (kjob[j].trigger /\ desired[j])
         /\ kjob'[j].suspend = Suspending(j)
         /\ kjob'[j].active = kjob[j].active
         /\ kjob'[j].succeeded = kjob[j].succeeded
         /\ kjob'[j].failed = kjob[j].failed
         /\ kjob'[j].exists
<1>1. cache[j] = kjob[j] /\ cache[j].exists
  BY DEF UpdateKjob, Fresh, Coherent
<1>2. kjob[j] \in KjobType
  BY DEF TypeOK
<1> QED BY <1>1, <1>2 DEF Updated, KjobType

\* A finished state is the state of a job that had a pod.
LEMMA FinishedHadPod ==
  ASSUME NEW k \in KjobType, NEW phase, DetermineJobStateFrom(k, phase) \in FinishedState
  PROVE  k.active \/ k.succeeded \/ k.failed
BY DEF DetermineJobStateFrom, FinishedState

\* A job is called completed or failed by its own outcome.
LEMMA StateOfOutcome ==
  ASSUME NEW k \in KjobType, NEW phase
  PROVE  /\ DetermineJobStateFrom(k, phase) = "completed" => k.succeeded
         /\ DetermineJobStateFrom(k, phase) = "failed" => k.failed
BY DEF DetermineJobStateFrom

\* A job that is not there and a new one have no outcome.
LEMMA NoOutcome ==
  ASSUME NEW j
  PROVE  /\ ~NoKjob.active /\ ~NoKjob.succeeded /\ ~NoKjob.failed /\ ~NoKjob.exists
         /\ NoKjob.state \notin FinishedState
         /\ ~NewKjob(j).active /\ ~NewKjob(j).succeeded /\ ~NewKjob(j).failed
         /\ NewKjob(j).state \notin FinishedState
BY DEF NewKjob, NoKjob, NoState, FinishedState

\* There are no jobs at the start.
LEMMA InitKjobs ==
  ASSUME Init, NEW j \in Jobs
  PROVE  kjob[j] = NoKjob /\ cache[j] = NoKjob
BY DEF Init

\* A triggered job that has predecessors is suspended.
THEOREM TriggerHoldsAlways == Spec => []TriggerHolds
<1>1. Init => TriggerHolds
  BY DEF Init, TriggerHolds, NoKjob
<1>2. TypeOK /\ Coherent /\ TriggerHolds /\ [Next]_vars => TriggerHolds'
  <2> SUFFICES ASSUME TypeOK, Coherent, TriggerHolds, [Next]_vars, NEW j \in Jobs,
                      RunBefore[j] # <<>>, kjob'[j].exists, kjob'[j].trigger
               PROVE  kjob'[j].suspend
    BY DEF TriggerHolds
  <2>1. KjobChange(j) /\ kjob[j] \in KjobType
    BY Changes DEF TypeOK
  <2>2. CASE CreateKjob(j) /\ kjob'[j] = NewKjob(j)
    BY <2>2 DEF NewKjob, NoKjob
  <2>3. ASSUME UpdateKjob(j), NEW phase \in SeenPhases(j), kjob'[j] = Updated(j, phase)
        PROVE  kjob'[j].suspend
    <3>1. cache[j].trigger
      BY <2>3, UpdateWrites
    <3>2. 1 \in DOMAIN RunBefore[j]
      BY RunAssumption, Positions DEF RunAssumption
    <3>3. Suspending(j)
      BY <3>1, <3>2 DEF Suspending, Blocks
    <3> QED BY <2>3, <3>3, UpdateWrites
  <2>4. CASE kjob'[j] = NoKjob
    BY <2>4 DEF NoKjob
  <2>5. CASE kjob'[j].exists = kjob[j].exists /\ kjob'[j].trigger = kjob[j].trigger
             /\ kjob'[j].suspend = kjob[j].suspend
    BY <2>5 DEF TriggerHolds
  <2> QED BY <2>1, <2>2, <2>3, <2>4, <2>5 DEF KjobChange, KjobType
<1> QED BY <1>1, <1>2, TypeCorrect, CacheIsCoherent, PTL DEF Spec

\* An annotation that claims success or failure is true.
THEOREM AnnotationIsTrueAlways == Spec => []AnnotationIsTrue
<1>1. Init => AnnotationIsTrue
  BY InitKjobs, NoOutcome DEF AnnotationIsTrue, FinishedState
<1>2. TypeOK /\ Coherent /\ AnnotationIsTrue /\ [Next]_vars => AnnotationIsTrue'
  <2> SUFFICES ASSUME TypeOK, Coherent, AnnotationIsTrue, [Next]_vars, NEW j \in Jobs
               PROVE  /\ kjob'[j].state = "completed" => kjob'[j].succeeded
                      /\ kjob'[j].state = "failed" => kjob'[j].failed
    BY DEF AnnotationIsTrue
  <2>1. KjobChange(j) /\ kjob[j] \in KjobType
    BY Changes DEF TypeOK
  <2>2. CASE kjob'[j] = NewKjob(j) \/ kjob'[j] = NoKjob
    BY <2>2, NoOutcome DEF FinishedState
  <2>3. ASSUME UpdateKjob(j), NEW phase \in SeenPhases(j), kjob'[j] = Updated(j, phase)
        PROVE  /\ kjob'[j].state = "completed" => kjob'[j].succeeded
               /\ kjob'[j].state = "failed" => kjob'[j].failed
    <3>1. /\ kjob'[j].state = DetermineJobStateFrom(kjob[j], phase)
          /\ kjob'[j].succeeded = kjob[j].succeeded
          /\ kjob'[j].failed = kjob[j].failed
      BY <2>3, UpdateWrites
    <3> QED BY <2>1, <3>1, StateOfOutcome
  <2>4. CASE /\ kjob'[j].state = kjob[j].state
             /\ kjob[j].succeeded => kjob'[j].succeeded
             /\ kjob[j].failed => kjob'[j].failed
    BY <2>4 DEF AnnotationIsTrue
  <2> QED BY <2>1, <2>2, <2>3, <2>4 DEF KjobChange, KjobType
<1> QED BY <1>1, <1>2, TypeCorrect, CacheIsCoherent, PTL DEF Spec

\* A job that shows that it had a pod has started.
ShowsStart(k) == k.active \/ k.succeeded \/ k.failed \/ k.state \in FinishedState

StartedInv ==
  \A j \in Jobs : ShowsStart(kjob[j]) \/ ShowsStart(cache[j]) => j \in started

\* A job that is active, has an outcome or is annotated as finished was started:
\* what a pass reads of a job never runs ahead of what happened to it.
THEOREM StartedIsShown == Spec => []StartedInv
<1>1. Init => StartedInv
  BY InitKjobs, NoOutcome DEF StartedInv, ShowsStart
<1>2. TypeOK /\ Coherent /\ StartedInv /\ [Next]_vars => StartedInv'
  <2> SUFFICES ASSUME TypeOK, Coherent, StartedInv, [Next]_vars, NEW j \in Jobs,
                      ShowsStart(kjob'[j]) \/ ShowsStart(cache'[j])
               PROVE  j \in started'
    BY DEF StartedInv
  <2>1. KjobChange(j) /\ CacheChange(j) /\ started \subseteq started' /\ kjob[j] \in KjobType
    BY Changes DEF TypeOK
  <2>2. CASE ShowsStart(cache'[j])
    BY <2>1, <2>2 DEF StartedInv, CacheChange
  <2>3. CASE ShowsStart(kjob'[j])
    <3>1. CASE kjob'[j] = NewKjob(j) \/ kjob'[j] = NoKjob
      BY <2>3, <3>1, NoOutcome DEF ShowsStart
    <3>2. ASSUME UpdateKjob(j), NEW phase \in SeenPhases(j), kjob'[j] = Updated(j, phase)
          PROVE  ShowsStart(kjob[j])
      <4>1. /\ kjob'[j].state = DetermineJobStateFrom(kjob[j], phase)
            /\ kjob'[j].active = kjob[j].active
            /\ kjob'[j].succeeded = kjob[j].succeeded
            /\ kjob'[j].failed = kjob[j].failed
        BY <3>2, UpdateWrites
      <4> QED BY <2>1, <2>3, <4>1, FinishedHadPod DEF ShowsStart
    <3>3. CASE kjob'[j] = [kjob[j] EXCEPT !.active = TRUE] /\ j \in started'
      BY <3>3
    <3>4. CASE /\ kjob'[j].state = kjob[j].state
               /\ kjob'[j].active => kjob[j].active
               /\ kjob'[j].succeeded => kjob[j].succeeded \/ kjob[j].active
               /\ kjob'[j].failed => kjob[j].failed \/ kjob[j].active
      BY <2>1, <2>3, <3>4 DEF StartedInv, ShowsStart
    <3> QED BY <2>1, <3>1, <3>2, <3>3, <3>4 DEF StartedInv, KjobChange, KjobType
  <2> QED BY <2>2, <2>3
<1> QED BY <1>1, <1>2, TypeCorrect, CacheIsCoherent, PTL DEF Spec

\* Counting as many finished jobs as the spec lists finds them all, although the
\* spec may list a name twice.
LEMMA FinishedAreAll ==
  ASSUME RunFinished
  PROVE  \A j \in Jobs : cache[j].exists /\ cache[j].state \in FinishedState
<1> DEFINE F == {j \in Jobs : cache[j].exists /\ cache[j].state \in FinishedState}
<1>1. Len(JobSeq) \in Nat /\ JobSeq \in [1..Len(JobSeq) -> Jobs]
  BY RunAssumption DEF RunAssumption, Jobs
<1>2. IsFiniteSet(1..Len(JobSeq)) /\ Cardinality(1..Len(JobSeq)) = Len(JobSeq)
  BY <1>1, FS_Interval
<1>3. IsFiniteSet(Jobs) /\ Cardinality(Jobs) <= Len(JobSeq)
  <2>1. JobSeq \in Surjection(1..Len(JobSeq), Jobs)
    BY <1>1 DEF Surjection, Jobs
  <2> QED BY <1>2, <2>1, FS_Surjection
<1>4. F \subseteq Jobs
  OBVIOUS
<1>5. IsFiniteSet(F) /\ Cardinality(F) <= Cardinality(Jobs) /\ (Cardinality(F) = Cardinality(Jobs) => F = Jobs)
  BY <1>3, <1>4, FS_Subset
<1>6. Cardinality(F) = Len(JobSeq)
  BY DEF RunFinished
<1>7. Cardinality(F) = Cardinality(Jobs)
  BY <1>1, <1>3, <1>5, <1>6, FS_CardinalityType
<1> QED BY <1>5, <1>7

\* The end date of a run is written by a pass that lists as many finished jobs as
\* the spec has, and by no other step.
LEMMA EndsWhenFinished ==
  ASSUME TypeOK, [Next]_vars, ended' # ended
  PROVE  RunFinished /\ ended' = TRUE
<1>1. CASE Worker
  <2>1. CASE RecordStatus
    <3>1. ended' = (ended \/ RunFinished) /\ ended \in BOOLEAN /\ RunFinished \in BOOLEAN
      BY <2>1 DEF RecordStatus, TypeOK, RunFinished
    <3> QED BY <3>1, Zenon
  <2>2. CASE ReconcileStart \/ DropReconcile \/ StatusFails
    BY <2>2 DEF ReconcileStart, DropReconcile, StatusFails, apiVars
  <2>3. ASSUME NEW j \in Jobs, EnsureKjob(j) PROVE ended' = ended
    BY <2>3 DEF EnsureKjob, CreateKjob, CreateConflict, UpdateKjob, UpdateRejected,
                BeforeNotFound, apiVars
  <2> QED BY <1>1, <2>1, <2>2, <2>3 DEF Worker
<1>2. CASE ApiError \/ EndDateOnly \/ Restart \/ DeletePipeline \/ UNCHANGED vars
  BY <1>2 DEF ApiError, EndDateOnly, Restart, DeletePipeline, vars, apiVars
<1>3. ASSUME NEW j \in Jobs, SyncKjob(j) \/ Progress(j) \/ RetryPod(j) \/ PodFails(j) \/ User(j)
      PROVE  ended' = ended
  BY <1>3
  DEF SyncKjob, Progress, FirstPod, RetryPod, StartPod, PodRuns, PodSucceeds, PodFails,
      ObserveSuccess, ObserveFailure, StopPods, RemoveKjob, User, FlipTrigger,
      MarkDeleting, DeleteKjob, ClusterStep, apiVars
<1> QED BY <1>1, <1>2, <1>3 DEF Next

\* The end date is only written when every job has started.
THEOREM EndAfterAllStartedAlways == Spec => []EndAfterAllStarted
<1>1. Init => EndAfterAllStarted
  BY DEF Init, EndAfterAllStarted
<1>2. TypeOK /\ StartedInv /\ EndAfterAllStarted /\ [Next]_vars => EndAfterAllStarted'
  <2> SUFFICES ASSUME TypeOK, StartedInv, EndAfterAllStarted, [Next]_vars, ended'
               PROVE  started' = Jobs
    BY DEF EndAfterAllStarted
  <2>1. started = Jobs
    <3>1. CASE ended = ended'
      BY <3>1 DEF EndAfterAllStarted
    <3>2. CASE ended # ended'
      <4>1. \A j \in Jobs : cache[j].state \in FinishedState
        BY <3>2, EndsWhenFinished, FinishedAreAll
      <4> QED BY <4>1 DEF StartedInv, ShowsStart, TypeOK
    <3> QED BY <3>1, <3>2
  <2>2. started' \subseteq Jobs
    BY TypeStep DEF TypeOK
  <2>3. \A j \in Jobs : started \subseteq started'
    BY Changes
  <2> QED BY <2>1, <2>2, <2>3
<1> QED BY <1>1, <1>2, TypeCorrect, StartedIsShown, PTL DEF Spec

\* What is released follows jobs that have started and not failed.
THEOREM ReleaseAfterStartAlways == Spec => ReleaseAfterStart
<1> DEFINE Released(j) ==
      kjob[j].exists /\ kjob[j].suspend /\ kjob'[j].exists /\ ~kjob'[j].suspend
<1>1. ASSUME TypeOK, Coherent, StartedInv, [Next]_vars
      PROVE  [\A j \in Jobs : Released(j) =>
                \A i \in DOMAIN RunBefore[j] :
                  /\ RunBefore[j][i] \in started
                  /\ cache[RunBefore[j][i]].state \notin {"failed", NoState}]_vars
  <2> SUFFICES ASSUME NEW j \in Jobs, Released(j), NEW i \in DOMAIN RunBefore[j]
               PROVE  /\ RunBefore[j][i] \in started
                      /\ cache[RunBefore[j][i]].state \notin {"failed", NoState}
    BY <1>1
  <2>1. KjobChange(j) /\ kjob[j] \in KjobType
    BY <1>1, Changes DEF TypeOK
  <2>2. PICK phase \in SeenPhases(j) : UpdateKjob(j) /\ kjob'[j] = Updated(j, phase)
    BY <2>1, NoOutcome DEF KjobChange, KjobType, CreateKjob
  <2>3. ~Suspending(j)
    BY <1>1, <2>2, UpdateWrites
  <2>4. RunBefore[j][i] \in Jobs /\ ~Blocks(j, RunBefore[j][i])
    BY <2>3 DEF Suspending, Known
  <2>5. cache[RunBefore[j][i]].state \in FinishedState \ {"failed"}
    BY <2>4 DEF Blocks, CategorizeJobState, JobCategoryMap, FinishedState
  <2> QED BY <1>1, <2>4, <2>5 DEF StartedInv, ShowsStart, FinishedState, NoState
<1> QED BY <1>1, TypeCorrect, CacheIsCoherent, StartedIsShown, PTL DEF Spec, ReleaseAfterStart

\* The operator does not set triggers.
THEOREM TriggerOneWayAlways == Spec => TriggerOneWay
<1>1. ASSUME TypeOK, Coherent, [Next]_vars
      PROVE  [\A j \in Jobs : kjob[j].exists /\ ~kjob[j].trigger => ~kjob'[j].trigger]_vars
  <2> SUFFICES ASSUME NEW j \in Jobs, kjob[j].exists, ~kjob[j].trigger
               PROVE  ~kjob'[j].trigger
    OBVIOUS
  <2>1. KjobChange(j) /\ kjob[j] \in KjobType
    BY <1>1, Changes DEF TypeOK
  <2>2. ASSUME UpdateKjob(j), NEW phase \in SeenPhases(j), kjob'[j] = Updated(j, phase)
        PROVE  ~kjob'[j].trigger
    BY <1>1, <2>2, UpdateWrites
  <2>3. ~NoKjob.trigger
    BY DEF NoKjob
  <2> QED BY <2>1, <2>2, <2>3 DEF KjobChange, KjobType, CreateKjob
<1> QED BY <1>1, TypeCorrect, CacheIsCoherent, PTL DEF Spec, TriggerOneWay

--------------------------------------------------------------------------------
(* No lost wake-up. *)

\* What the pass under way, or the last one, has done is either still right or an
\* event is on its way that will queue the run.
Done(j) == j \in dirty \/ Settled(j)

PassInv ==
  /\ pc # 0 /\ ~queued
       => desired = trigger /\ \A i \in DOMAIN JobSeq : i < pc => Done(JobSeq[i])
  /\ pc = 0 /\ ~queued /\ pipelineExists
       => runState = HighestState(ListedStates) /\ \A j \in Jobs : Done(j)

\* As long as the run is not queued, nothing that a decision was based on changes.
LEMMA DoneStays ==
  ASSUME UNCHANGED <<cache, trigger>>, dirty \subseteq dirty', NEW j, Done(j)
  PROVE  Done(j)'
BY DEF Done, Settled, Suspending, Known, Blocks

\* The job that a pass has worked on is done.
LEMMA UpdateIsDone ==
  ASSUME TypeOK, Coherent, desired = trigger, NEW j \in Jobs, UpdateKjob(j)
  PROVE  Done(j)'
<1>1. PICK phase \in SeenPhases(j) :
        /\ kjob' = [kjob EXCEPT ![j] = Updated(j, phase)]
        /\ dirty' = IF Updated(j, phase) = kjob[j] THEN dirty ELSE dirty \cup {j}
  BY DEF UpdateKjob
<1>2. UNCHANGED <<cache, trigger>>
  BY DEF UpdateKjob
<1>3. CASE Updated(j, phase) # kjob[j]
  BY <1>1, <1>3 DEF Done
<1>4. CASE Updated(j, phase) = kjob[j]
  <2>1. kjob'[j] = Updated(j, phase) /\ kjob[j] \in KjobType
    BY <1>1 DEF TypeOK
  <2>2. /\ cache[j] = kjob[j] /\ cache[j].exists
        /\ cache[j].state = DetermineJobStateFrom(cache[j], phase)
        /\ cache[j].trigger = (cache[j].trigger /\ desired[j])
        /\ cache[j].suspend = Suspending(j)
    <3>1. kjob'[j] = kjob[j]
      BY <1>4, <2>1
    <3>2. /\ cache[j] = kjob[j] /\ cache[j].exists
          /\ kjob'[j].state = DetermineJobStateFrom(kjob[j], phase)
          /\ kjob'[j].trigger = (kjob[j].trigger /\ desired[j])
          /\ kjob'[j].suspend = Suspending(j)
      BY <2>1, UpdateWrites
    <3> QED BY <3>1, <3>2
  <2>3. ~cache[j].active => DetermineJobStateFrom(cache[j], phase) = DetermineJobStateFrom(cache[j], NoPod)
    BY DEF DetermineJobStateFrom
  <2>4. Settled(j)
    BY <2>2, <2>3 DEF Settled
  <2> QED BY <1>2, <2>4 DEF Done, Settled, Suspending, Known, Blocks
<1> QED BY <1>3, <1>4

\* Steps that leave the run unqueued: the pass itself, or a write by someone else.
LEMMA UnqueuedSteps ==
  ASSUME TypeOK, [Next]_vars, ~queued'
  PROVE  \/ ReconcileStart \/ RecordStatus
         \/ DropReconcile
         \/ \E j \in Jobs : CreateKjob(j) \/ UpdateKjob(j)
         \/ /\ UNCHANGED <<cache, trigger, desired, pc, queued, runState>>
            /\ dirty \subseteq dirty'
            /\ pipelineExists' => pipelineExists
<1>1. CASE Worker
  BY <1>1 DEF Worker, EnsureKjob, CreateConflict, UpdateRejected, BeforeNotFound, StatusFails,
              FailPass
<1>2. CASE ApiError \/ EndDateOnly \/ Restart
  BY <1>2 DEF ApiError, EndDateOnly, Restart, FailPass
<1>3. CASE DeletePipeline \/ UNCHANGED vars
  BY <1>3 DEF DeletePipeline, vars, apiVars, cacheVars, workerVars
<1>4. ASSUME NEW j \in Jobs, SyncKjob(j) \/ FlipTrigger(j)
      PROVE  FALSE
  BY <1>4 DEF SyncKjob, FlipTrigger
<1>5. ASSUME NEW j \in Jobs, Progress(j) \/ RetryPod(j) \/ PodFails(j) \/ MarkDeleting(j) \/ DeleteKjob(j)
      PROVE  /\ UNCHANGED <<cache, trigger, desired, pc, queued, runState>>
             /\ dirty \subseteq dirty'
             /\ pipelineExists' => pipelineExists
  BY <1>5
  DEF Progress, FirstPod, RetryPod, StartPod, PodRuns, PodSucceeds, PodFails,
      ObserveSuccess, ObserveFailure, StopPods, RemoveKjob, MarkDeleting, DeleteKjob,
      ClusterStep, workerVars, cacheVars
<1> QED BY <1>1, <1>2, <1>3, <1>4, <1>5 DEF Next, User

\* A step keeps what a pass has done with the jobs before its position.
LEMMA PassStep ==
  ASSUME TypeOK, Coherent, PassInv, [Next]_vars
  PROVE  PassInv'
<1> SUFFICES ASSUME ~queued'
             PROVE  PassInv'
  BY DEF PassInv
<1>1. CASE ReconcileStart
  <2>1. pc' = 1 /\ desired' = trigger /\ trigger' = trigger
    BY <1>1 DEF ReconcileStart, apiVars
  <2>2. \A i \in DOMAIN JobSeq : ~(i < 1)
    BY Positions
  <2> QED BY <2>1, <2>2 DEF PassInv
<1>2. CASE DropReconcile
  BY <1>2 DEF DropReconcile, PassInv, apiVars
<1>3. CASE RecordStatus
  <2>1. ~queued /\ pc = AtStatus /\ UNCHANGED <<cache, trigger, dirty>> /\ pc' = 0
    BY <1>3 DEF RecordStatus, cacheVars
  <2>2. runState' = HighestState(ListedStates)'
    BY <1>3 DEF RecordStatus, ListedStates, cacheVars
  <2>3. \A i \in DOMAIN JobSeq : Done(JobSeq[i])
    BY <2>1, Positions DEF PassInv
  <2>4. \A j \in Jobs : Done(j)
    BY <2>3 DEF Jobs
  <2>5. \A j \in Jobs : Done(j)'
    BY <2>1, <2>4, DoneStays
  <2> QED BY <2>1, <2>2, <2>5 DEF PassInv
<1>4. ASSUME NEW j \in Jobs, CreateKjob(j) \/ UpdateKjob(j)
      PROVE  PassInv'
  <2>1. /\ pc \in DOMAIN JobSeq /\ JobSeq[pc] = j /\ pc' = pc + 1 /\ pc' # 0 /\ ~queued
        /\ UNCHANGED <<cache, trigger, desired>>
    BY <1>4, Positions DEF CreateKjob, UpdateKjob, Working
  <2>2. dirty \subseteq dirty'
    BY <1>4 DEF CreateKjob, UpdateKjob
  <2>3. desired = trigger /\ \A i \in DOMAIN JobSeq : i < pc => Done(JobSeq[i])
    BY <2>1, Positions DEF PassInv
  <2>4. Done(j)'
    <3>1. CASE CreateKjob(j)
      BY <3>1 DEF CreateKjob, Done
    <3>2. CASE UpdateKjob(j)
      BY <2>3, <3>2, UpdateIsDone
    <3> QED BY <1>4, <3>1, <3>2
  <2>5. \A i \in DOMAIN JobSeq : i < pc => Done(JobSeq[i])'
    BY <2>1, <2>2, <2>3, DoneStays
  <2>6. \A i \in DOMAIN JobSeq : i < pc' => Done(JobSeq[i])'
    BY <2>1, <2>4, <2>5, Positions
  <2> QED BY <2>1, <2>3, <2>6 DEF PassInv
<1>5. CASE /\ UNCHANGED <<cache, trigger, desired, pc, queued, runState>>
           /\ dirty \subseteq dirty'
           /\ pipelineExists' => pipelineExists
  <2>1. \A j : Done(j) => Done(j)'
    BY <1>5, DoneStays
  <2>2. ListedStates' = ListedStates
    BY <1>5 DEF ListedStates
  <2> QED BY <1>5, <2>1, <2>2 DEF PassInv
<1> QED BY <1>1, <1>2, <1>3, <1>4, <1>5, UnqueuedSteps

\* When nothing is under way, every job and the run's state are as they should be.
THEOREM QuietMeansSettledAlways == Spec => []QuietMeansSettled
<1>1. Init => PassInv
  BY DEF Init, PassInv
<1>2. TypeOK /\ Coherent /\ PassInv /\ [Next]_vars => PassInv'
  BY PassStep
<1>3. TypeOK /\ Coherent /\ PassInv => QuietMeansSettled
  <2> SUFFICES ASSUME TypeOK, Coherent, PassInv, Quiet
               PROVE  /\ \A j \in Jobs : kjob[j] = cache[j] /\ Settled(j)
                      /\ runState = HighestState({kjob[j].state : j \in Jobs})
    BY DEF QuietMeansSettled
  <2>1. \A j \in Jobs : kjob[j] = cache[j] /\ Settled(j)
    BY DEF Quiet, PassInv, Coherent, Done
  <2>2. ListedStates = {kjob[j].state : j \in Jobs}
    BY <2>1 DEF ListedStates, Settled
  <2> QED BY <2>1, <2>2 DEF Quiet, PassInv
<1> QED BY <1>1, <1>2, <1>3, TypeCorrect, CacheIsCoherent, PTL DEF Spec
================================================================================
