-------------------------- MODULE PipelineRunsProofs --------------------------
(***************************************************************************)
(* Safety of a pipeline's runs, for every set of specs and addresses and   *)
(* any number of pipelines, failures and edits.                            *)
(***************************************************************************)
EXTENDS PipelineRuns, FiniteSetTheorems, TLAPS

\* The names: finitely many, and those of different specs are different.
LEMMA Names ==
  /\ IsFiniteSet(RunNames)
  /\ \A s \in Specs : NamesOf(s) \subseteq RunNames
  /\ \A s, t \in Specs : \A n \in NamesOf(s) : n \in NamesOf(t) => s = t
<1>1. RunNames \subseteq Specs \X (Addresses \cup {NoAddress})
  BY DEF RunNames, NamesOf
<1>2. IsFiniteSet(Addresses \cup {NoAddress}) /\ IsFiniteSet(Specs)
  BY RunsAssumption, FS_AddElement DEF RunsAssumption
<1>3. IsFiniteSet(Specs \X (Addresses \cup {NoAddress}))
  BY <1>2, FS_Product
<1>4. IsFiniteSet(RunNames)
  BY <1>1, <1>3, FS_Subset
<1>5. \A s, t \in Specs : \A n \in NamesOf(s) : n \in NamesOf(t) => s = t
  BY DEF NamesOf
<1> QED BY <1>4, <1>5 DEF RunNames

\* There is a spec, so there is a name.
LEMMA SomeName == \E n : n \in RunNames
<1>1. InitSpec \in Specs /\ NamesOf(InitSpec) # {}
  BY RunsAssumption DEF RunsAssumption, NamesOf
<1> QED BY <1>1, Names

\* The runs that the pass lists are finitely many.
LEMMA CountedType == Counted \in Nat
<1>1. {n \in RunNames : runCache[n].exists} \subseteq RunNames
  OBVIOUS
<1>2. IsFiniteSet({n \in RunNames : runCache[n].exists})
  BY <1>1, Names, FS_Subset
<1> QED BY <1>2, FS_CardinalityType DEF Counted

--------------------------------------------------------------------------------
(* Types. *)

\* What the reconciler and the user write are pipelines and runs.
LEMMA PipelineTypes ==
  /\ NoPipeline \in PipelineType /\ NoRun \in RunType
  /\ \A uid \in 0..MaxUid : RunOf(uid) \in RunType
  /\ \A uid \in 0..MaxUid, s \in Specs : NewPipeline(uid, s) \in PipelineType
  /\ \A p \in PipelineType : [p EXCEPT !.described = p.spec] \in PipelineType
  /\ \A p \in PipelineType, n \in Nat : [p EXCEPT !.runs = n] \in PipelineType
  /\ \A p \in PipelineType, s \in Specs : [p EXCEPT !.spec = s] \in PipelineType
<1>1. 0 \in 0..MaxUid
  BY RunsAssumption DEF RunsAssumption
<1>2. \A uid \in 0..MaxUid, s \in Specs : NewPipeline(uid, s) \in PipelineType
  BY DEF NewPipeline, PipelineType
<1>3. NoPipeline \in PipelineType
  BY <1>1, <1>2, RunsAssumption DEF RunsAssumption, NoPipeline, NoUid
<1>4. NoRun \in RunType /\ \A uid \in 0..MaxUid : RunOf(uid) \in RunType
  BY <1>1 DEF NoRun, RunOf, RunType, NoUid
<1>5. /\ \A p \in PipelineType : [p EXCEPT !.described = p.spec] \in PipelineType
      /\ \A p \in PipelineType, n \in Nat : [p EXCEPT !.runs = n] \in PipelineType
      /\ \A p \in PipelineType, s \in Specs : [p EXCEPT !.spec = s] \in PipelineType
  BY DEF PipelineType
<1> QED BY <1>2, <1>3, <1>4, <1>5

\* The type invariant holds at the start.
LEMMA TypeInit == Init => TypeOK
<1> SUFFICES ASSUME Init PROVE TypeOK
  OBVIOUS
<1>1. 1 \in 0..MaxUid /\ 1 \in 1..MaxUid /\ 0 \in 0..MaxFailures /\ 0 \in 0..MaxEdits
  BY RunsAssumption DEF RunsAssumption
<1>2. pipe \in PipelineType
  BY <1>1, PipelineTypes, RunsAssumption DEF RunsAssumption, Init
<1> QED BY <1>1, <1>2, PipelineTypes DEF Init, TypeOK

\* Failures and edits stay within their bounds.
LEMMA BoundsType ==
  ASSUME TypeOK
  PROVE  /\ Failure => failures' \in 0..MaxFailures /\ UNCHANGED <<orphaned, edits>>
         /\ Edit => edits' \in 0..MaxEdits /\ UNCHANGED <<orphaned, failures>>
BY RunsAssumption DEF RunsAssumption, TypeOK, Failure, Edit

\* A write to one run keeps the types of the runs.
LEMMA PutRunType ==
  ASSUME TypeOK, NEW n \in RunNames, NEW r \in RunType, PutRun(n, r)
  PROVE  runs' \in [RunNames -> RunType] /\ dirty' \subseteq RunNames
BY DEF TypeOK, PutRun

\* The steps of the pass keep the types.
LEMMA TypeWorker ==
  ASSUME TypeOK, Worker
  PROVE  TypeOK'
<1> USE DEF apiVars, informers, ghosts, Goto, FailPass, Passing
<1>1. CASE DropReconcile
  BY <1>1 DEF TypeOK, DropReconcile
<1>2. CASE ListRuns
  BY <1>2, CountedType DEF TypeOK, ListRuns
<1>3. CASE UpdatePipelineStatus
  <2>1. pipe' \in PipelineType
    BY <1>3, PipelineTypes DEF TypeOK, UpdatePipelineStatus
  <2>2. pipeFresh' \in BOOLEAN
    BY <1>3 DEF UpdatePipelineStatus
  <2> QED BY <1>3, <2>1, <2>2 DEF TypeOK, UpdatePipelineStatus
<1>4. CASE EnsurePipelineMetadata
  <2>1. pipe' \in PipelineType
    <3>1. pipe.spec \in Specs
      BY DEF TypeOK, PipelineType
    <3> QED BY <1>4, <3>1, PipelineTypes DEF TypeOK, EnsurePipelineMetadata
  <2>2. pipeFresh' \in BOOLEAN
    BY <1>4 DEF EnsurePipelineMetadata
  <2> QED BY <1>4, <2>1, <2>2 DEF TypeOK, EnsurePipelineMetadata
<1>5. CASE PipelineGone
  BY <1>5 DEF TypeOK, PipelineGone
<1>6. CASE ReadPipeline
  BY <1>6 DEF TypeOK, ReadPipeline
<1>7. CASE LeftToSchedule \/ EndPass
  BY <1>7 DEF TypeOK, LeftToSchedule, EndPass
<1>8. ASSUME NEW n \in RunNames, RunExists(n) \/ CreateRejected(n) PROVE TypeOK'
  BY <1>8 DEF TypeOK, RunExists, CreateRejected
<1>9. ASSUME NEW n \in RunNames, CreateRun(n) PROVE TypeOK'
  <2>1. RunOf(copy.uid) \in RunType
    BY PipelineTypes DEF TypeOK, PipelineType
  <2> QED BY <1>9, <2>1, PutRunType DEF TypeOK, CreateRun
<1> QED
  BY <1>1, <1>2, <1>3, <1>4, <1>5, <1>6, <1>7, <1>8, <1>9 DEF Worker, EnsureRun

\* The steps of everyone else keep the types.
LEMMA TypeOthers ==
  ASSUME TypeOK,
         \/ SyncPipeline \/ ApiError \/ ConflictsExhausted \/ Restart \/ DeletePipeline
         \/ \E n \in RunNames : SyncRun(n) \/ CollectRun(n) \/ ScheduleExecution(n) \/ DeleteRun(n)
         \/ \E s \in Specs : EditSpec(s) \/ RecreatePipeline(s)
  PROVE  TypeOK'
<1> USE BoundsType DEF apiVars, informers, worker, ghosts, FailPass
<1>1. CASE SyncPipeline
  BY <1>1 DEF TypeOK, SyncPipeline
<1>2. CASE ApiError \/ ConflictsExhausted
  BY <1>2 DEF TypeOK, ApiError, ConflictsExhausted
<1>3. CASE Restart
  BY <1>3 DEF TypeOK, Restart
<1>4. CASE DeletePipeline
  BY <1>4, PipelineTypes DEF TypeOK, DeletePipeline, PutPipeline
<1>5. ASSUME NEW n \in RunNames, SyncRun(n) PROVE TypeOK'
  BY <1>5 DEF TypeOK, SyncRun, HasOwner
<1>6. ASSUME NEW n \in RunNames, CollectRun(n) \/ DeleteRun(n) PROVE TypeOK'
  BY <1>6, PutRunType, PipelineTypes DEF TypeOK, CollectRun, DeleteRun
<1>7. ASSUME NEW n \in RunNames, ScheduleExecution(n) PROVE TypeOK'
  <2>1. RunOf(NoUid) \in RunType
    BY PipelineTypes, RunsAssumption DEF RunsAssumption, NoUid
  <2>2. runs' \in [RunNames -> RunType] /\ dirty' \subseteq RunNames
    BY <1>7, <2>1, PutRunType DEF ScheduleExecution
  <2>3. pipeFresh' \in BOOLEAN
    BY <1>7 DEF ScheduleExecution
  <2> QED BY <1>7, <2>2, <2>3 DEF TypeOK, ScheduleExecution
<1>8. ASSUME NEW s \in Specs, EditSpec(s) PROVE TypeOK'
  BY <1>8, PipelineTypes DEF TypeOK, EditSpec, PutPipeline
<1>9. ASSUME NEW s \in Specs, RecreatePipeline(s) PROVE TypeOK'
  <2>1. lastUid' \in 1..MaxUid /\ lastUid' \in 0..MaxUid
    BY <1>9, RunsAssumption DEF RunsAssumption, TypeOK, RecreatePipeline
  <2> QED BY <1>9, <2>1, PipelineTypes DEF TypeOK, RecreatePipeline, PutPipeline
<1> QED BY <1>1, <1>2, <1>3, <1>4, <1>5, <1>6, <1>7, <1>8, <1>9

\* Every step keeps the types.
LEMMA TypeStep ==
  ASSUME TypeOK, [Next]_vars
  PROVE  TypeOK'
<1>1. CASE UNCHANGED vars
  BY <1>1 DEF TypeOK, vars, apiVars, informers, worker, ghosts
<1> QED BY <1>1, TypeWorker, TypeOthers DEF Next

\* Every variable keeps its type.
THEOREM TypeCorrect == Spec => []TypeOK
<1>1. TypeOK /\ [Next]_vars => TypeOK'
  BY TypeStep
<1> QED BY <1>1, TypeInit, PTL DEF Spec

--------------------------------------------------------------------------------
(* The informers. *)

Coherent ==
  /\ pipeFresh => pipeCache = pipe
  /\ \A n \in RunNames : n \notin dirty => runCache[n] = runs[n]

\* What a step does to the run of one name.
RunChange(n) ==
  \/ UNCHANGED <<runs[n], runCache[n]>> /\ (n \in dirty <=> n \in dirty')
  \/ n \in dirty' /\ UNCHANGED runCache[n]
  \/ UNCHANGED runs[n] /\ runCache'[n] = runs[n] /\ n \notin dirty'

\* A write makes the cached copy of that run stale and no other.
LEMMA PutRunChanges ==
  ASSUME TypeOK, NEW m \in RunNames, NEW r, PutRun(m, r), UNCHANGED runCache, NEW n \in RunNames
  PROVE  RunChange(n)
BY DEF TypeOK, PutRun, RunChange

\* No step changes a run, its copy or its mark in any other way.
LEMMA RunChanges ==
  ASSUME TypeOK, [Next]_vars, NEW n \in RunNames
  PROVE  RunChange(n)
<1>1. CASE UNCHANGED <<runs, runCache, dirty>>
  BY <1>1 DEF RunChange
<1>2. ASSUME NEW m \in RunNames,
             CreateRun(m) \/ CollectRun(m) \/ ScheduleExecution(m) \/ DeleteRun(m)
      PROVE  RunChange(n)
  BY <1>2, PutRunChanges DEF CreateRun, CollectRun, ScheduleExecution, DeleteRun
<1>3. ASSUME NEW m \in RunNames, SyncRun(m)
      PROVE  RunChange(n)
  BY <1>3 DEF TypeOK, SyncRun, RunChange, apiVars
<1>4. CASE Restart
  BY <1>4 DEF Restart, RunChange, apiVars
<1>5. CASE Worker
  <2>1. UNCHANGED <<runs, runCache, dirty>> \/ \E m \in RunNames : CreateRun(m)
    BY <1>5
    DEF Worker, EnsureRun, DropReconcile, ListRuns, UpdatePipelineStatus,
        EnsurePipelineMetadata, PipelineGone, ReadPipeline, LeftToSchedule, RunExists,
        CreateRejected, EndPass, apiVars, informers
  <2> QED BY <1>1, <1>2, <2>1
<1>6. CASE SyncPipeline \/ ApiError \/ ConflictsExhausted \/ DeletePipeline
  BY <1>1, <1>6
  DEF SyncPipeline, ApiError, ConflictsExhausted, DeletePipeline, PutPipeline, apiVars, informers
<1>7. ASSUME NEW s \in Specs, EditSpec(s) \/ RecreatePipeline(s)
      PROVE  RunChange(n)
  BY <1>1, <1>7 DEF EditSpec, RecreatePipeline, PutPipeline
<1>8. CASE UNCHANGED vars
  BY <1>1, <1>8 DEF vars, apiVars, informers
<1> QED BY <1>2, <1>3, <1>4, <1>5, <1>6, <1>7, <1>8 DEF Next

\* What a step does to the pipeline and its copy: the copy changes with an event
\* that queues the pipeline, and the pipeline with a write that makes it stale.
LEMMA PipelineChanges ==
  ASSUME TypeOK, [Next]_vars
  PROVE  /\ \/ UNCHANGED <<pipe, pipeCache>> /\ (pipeFresh' => pipeFresh)
            \/ UNCHANGED pipe /\ pipeCache' = pipe /\ pipeFresh' /\ queued'
            \/ ~pipeFresh' /\ UNCHANGED pipeCache
<1>1. CASE UpdatePipelineStatus \/ EnsurePipelineMetadata
  BY <1>1 DEF TypeOK, UpdatePipelineStatus, EnsurePipelineMetadata
<1>2. CASE Worker
  <2>1. ASSUME NEW n \in RunNames, EnsureRun(n) PROVE UNCHANGED <<pipe, pipeCache, pipeFresh>>
    BY <2>1 DEF EnsureRun, RunExists, CreateRun, CreateRejected, apiVars, informers
  <2>2. \/ UpdatePipelineStatus \/ EnsurePipelineMetadata
        \/ UNCHANGED <<pipe, pipeCache, pipeFresh>>
    BY <1>2, <2>1
    DEF Worker, DropReconcile, ListRuns, PipelineGone, ReadPipeline, LeftToSchedule,
        EndPass, apiVars, informers
  <2> QED BY <1>1, <2>2
<1>3. CASE SyncPipeline \/ Restart
  BY <1>3 DEF SyncPipeline, Restart, FailPass, apiVars
<1>4. CASE ApiError \/ ConflictsExhausted \/ UNCHANGED vars
  BY <1>4 DEF ApiError, ConflictsExhausted, vars, apiVars, informers
<1>5. CASE DeletePipeline \/ \E s \in Specs : EditSpec(s) \/ RecreatePipeline(s)
  BY <1>5 DEF DeletePipeline, EditSpec, RecreatePipeline, PutPipeline
<1>6. ASSUME NEW n \in RunNames, SyncRun(n) \/ CollectRun(n) \/ DeleteRun(n)
      PROVE  UNCHANGED <<pipe, pipeCache, pipeFresh>>
  BY <1>6 DEF SyncRun, CollectRun, DeleteRun, apiVars
<1>7. ASSUME NEW n \in RunNames, ScheduleExecution(n)
      PROVE  UNCHANGED <<pipe, pipeCache>> /\ (pipeFresh' => pipeFresh)
  <2>1. PICK recorded \in BOOLEAN : pipeFresh' = (pipeFresh /\ ~recorded)
    BY <1>7 DEF ScheduleExecution
  <2> QED BY <1>7, <2>1 DEF ScheduleExecution
<1> QED BY <1>2, <1>3, <1>4, <1>5, <1>6, <1>7 DEF Next

\* A cached pipeline or run that is not marked stale is the one in the API server:
\* when all events have been delivered the reconciler sees what is there.
THEOREM CacheIsCoherent == Spec => []Coherent
<1>1. Init => Coherent
  BY DEF Init, Coherent
<1>2. TypeOK /\ Coherent /\ [Next]_vars => Coherent'
  <2> SUFFICES ASSUME TypeOK, Coherent, [Next]_vars PROVE Coherent'
    OBVIOUS
  <2>1. pipeFresh' => pipeCache' = pipe'
    BY PipelineChanges DEF Coherent
  <2>2. \A n \in RunNames : n \notin dirty' => runCache'[n] = runs'[n]
    BY RunChanges DEF Coherent, RunChange
  <2> QED BY <2>1, <2>2 DEF Coherent
<1> QED BY <1>1, <1>2, TypeCorrect, PTL DEF Spec

--------------------------------------------------------------------------------
(* No lost wake-up. *)

\* A run that a spec without a schedule has named has an owner, and until a
\* schedule has created a run there are no others.
OwnerInv ==
  /\ pc = "run" => copy.uid # NoUid
  /\ \A n \in RunNames :
       /\ runs[n].exists /\ HasOwner(n) => runs[n].owner # NoUid
       /\ ~orphaned /\ (n \in dirty \/ runs[n].exists \/ runCache[n].exists) => HasOwner(n)

\* While the name is not queued, the pass makes a run for the pipeline in the
\* cache, and what it leaves has a run or a run's event on its way.
CopyInv == ~queued /\ pc = "run" => copy = pipeCache

\* s is the present spec, and a pass has finished with it.
PassedFor(s) ==
  /\ ~queued /\ pc \in {"idle", "schedule"}
  /\ pipeFresh /\ pipe.uid # NoUid /\ pipe.spec = s

RunFor(s) == \E n \in NamesOf(s) : n \in dirty \/ runs[n].exists

PassInv == CopyInv /\ \A s \in Specs \ Scheduled : PassedFor(s) => RunFor(s)

\* While the name is not queued, the number listed is that of the runs in the cache.
CountInv ==
  ~queued /\ ~orphaned =>
    /\ pc = "status" => listed = Counted
    /\ pc # "status" /\ pipeFresh /\ pipe.uid # NoUid => pipe.runs = Counted

\* A name tells whether its run is made without a schedule, with an owner.
LEMMA OwnedNames ==
  /\ \A s \in Specs \ Scheduled : \A n \in NamesOf(s) : n \in RunNames /\ HasOwner(n)
  /\ \A s \in Scheduled : \A n \in NamesOf(s) : ~HasOwner(n)
BY Names, RunsAssumption DEF RunsAssumption, HasOwner

\* Steps that leave the name unqueued: the pass itself, or a write by someone else.
Unseen ==
  /\ UNCHANGED <<pipeCache, pc, listed, copy, queued>>
  /\ \/ ~pipeFresh' /\ UNCHANGED <<runs, runCache, dirty, orphaned>>
     \/ /\ UNCHANGED <<pipe, runCache>> /\ (pipeFresh' => pipeFresh) /\ dirty \subseteq dirty'
        /\ \A n \in RunNames : UNCHANGED runs[n] \/ n \in dirty'
        /\ orphaned => orphaned'

\* A step that leaves the name unqueued is one of the pass, an unseen write, or
\* the delivery of an event of a run without owner.
LEMMA UnqueuedSteps ==
  ASSUME TypeOK, [Next]_vars, ~queued'
  PROVE  \/ Worker
         \/ Unseen
         \/ \E n \in RunNames : SyncRun(n)
<1>1. CASE UNCHANGED vars
  BY <1>1 DEF Unseen, vars, apiVars, informers, worker, ghosts
<1>2. CASE SyncPipeline \/ ApiError \/ ConflictsExhausted \/ Restart
  BY <1>2 DEF SyncPipeline, ApiError, ConflictsExhausted, Restart, FailPass
<1>3. CASE DeletePipeline \/ \E s \in Specs : EditSpec(s) \/ RecreatePipeline(s)
  BY <1>3 DEF DeletePipeline, EditSpec, RecreatePipeline, PutPipeline, Edit, Unseen, worker, ghosts
<1>4. ASSUME NEW n \in RunNames, CollectRun(n) \/ DeleteRun(n)
      PROVE  Unseen
  <2>1. UNCHANGED <<pipe, pipeCache, pipeFresh, runCache, worker, orphaned>>
    BY <1>4 DEF CollectRun, DeleteRun, Edit, ghosts
  <2>2. dirty \subseteq dirty' /\ \A m \in RunNames : UNCHANGED runs[m] \/ m \in dirty'
    BY <1>4 DEF TypeOK, CollectRun, DeleteRun, PutRun
  <2> QED BY <2>1, <2>2 DEF Unseen, worker
<1>5. ASSUME NEW n \in RunNames, ScheduleExecution(n)
      PROVE  Unseen
  <2>1. UNCHANGED <<pipe, pipeCache, runCache, worker>> /\ orphaned'
    BY <1>5 DEF ScheduleExecution
  <2>2. dirty \subseteq dirty' /\ \A m \in RunNames : UNCHANGED runs[m] \/ m \in dirty'
    BY <1>5 DEF TypeOK, ScheduleExecution, PutRun
  <2>3. PICK recorded \in BOOLEAN : pipeFresh' = (pipeFresh /\ ~recorded)
    BY <1>5 DEF ScheduleExecution
  <2> QED BY <2>1, <2>2, <2>3 DEF Unseen, worker
<1> QED BY <1>1, <1>2, <1>3, <1>4, <1>5 DEF Next

RunWrite(n) ==
  /\ \/ UNCHANGED runs[n] /\ (n \in dirty' => n \in dirty)
     \/ runs'[n] = NoRun /\ runs[n].exists
     \/ HasOwner(n) /\ runs'[n].owner # NoUid
     \/ orphaned' /\ ~HasOwner(n)
  /\ orphaned => orphaned'
  /\ pc' = "run" => copy'.uid # NoUid

\* No step writes a run in any other way.
LEMMA RunWrites ==
  ASSUME TypeOK, OwnerInv, [Next]_vars, NEW n \in RunNames
  PROVE  RunWrite(n)
<1> USE DEF RunWrite
<1>1. CASE UNCHANGED <<runs, orphaned>> /\ dirty' \subseteq dirty /\ (pc' = "run" => pc = "run" /\ UNCHANGED copy)
  BY <1>1 DEF OwnerInv
<1>2. ASSUME NEW m \in RunNames, CreateRun(m)
      PROVE  /\ \/ UNCHANGED runs[n] /\ (n \in dirty' => n \in dirty)
                \/ (HasOwner(n) /\ runs'[n].owner # NoUid)
             /\ UNCHANGED orphaned /\ pc' # "run"
  <2>1. HasOwner(m)
    <3>1. copy.spec \in Specs \ Scheduled /\ m \in NamesOf(copy.spec)
      BY <1>2 DEF TypeOK, PipelineType, CreateRun, Making
    <3> QED BY <3>1, OwnedNames
  <2>2. RunOf(copy.uid).owner # NoUid
    BY <1>2 DEF CreateRun, Making, OwnerInv, RunOf
  <2> QED BY <1>2, <2>1, <2>2 DEF TypeOK, CreateRun, PutRun, Goto, ghosts
<1>3. ASSUME NEW m \in RunNames, CollectRun(m) \/ DeleteRun(m)
      PROVE  /\ \/ UNCHANGED runs[n] /\ (n \in dirty' => n \in dirty)
                \/ (runs'[n] = NoRun /\ runs[n].exists)
             /\ UNCHANGED <<orphaned, pc, copy>>
  BY <1>3 DEF TypeOK, CollectRun, DeleteRun, IsOrphan, PutRun, Edit, worker, ghosts
<1>4. ASSUME NEW m \in RunNames, ScheduleExecution(m)
      PROVE  /\ \/ UNCHANGED runs[n] /\ (n \in dirty' => n \in dirty)
                \/ ~HasOwner(n)
             /\ orphaned' /\ UNCHANGED <<pc, copy>>
  <2>1. ~HasOwner(m)
    BY <1>4, OwnedNames DEF ScheduleExecution
  <2> QED BY <1>4, <2>1 DEF TypeOK, ScheduleExecution, PutRun, worker
<1>5. CASE Worker
  <2>1. CASE ReadPipeline
    BY <2>1 DEF ReadPipeline, Goto, apiVars, informers, ghosts
  <2>2. ASSUME NEW m \in RunNames, RunExists(m) \/ CreateRejected(m)
        PROVE  UNCHANGED <<runs, dirty, orphaned>> /\ pc' # "run"
    BY <2>2 DEF RunExists, CreateRejected, FailPass, Goto, apiVars, informers, ghosts
  <2>3. CASE \/ DropReconcile \/ ListRuns \/ UpdatePipelineStatus \/ EnsurePipelineMetadata
             \/ PipelineGone \/ LeftToSchedule \/ EndPass
    BY <1>1, <2>3
    DEF DropReconcile, ListRuns, UpdatePipelineStatus, EnsurePipelineMetadata, PipelineGone,
        LeftToSchedule, EndPass, FailPass, Goto, apiVars, informers, ghosts
  <2>4. ASSUME NEW m \in RunNames, EnsureRun(m) PROVE RunWrite(n)
    BY <1>2, <2>2, <2>4 DEF EnsureRun
  <2> HIDE DEF RunWrite
  <2> QED BY <1>5, <2>1, <2>3, <2>4 DEF Worker
<1>6. CASE SyncPipeline \/ ApiError \/ ConflictsExhausted \/ Restart \/ DeletePipeline
  <2>1. UNCHANGED <<runs, orphaned>> /\ dirty' \subseteq dirty
    BY <1>6
    DEF SyncPipeline, ApiError, ConflictsExhausted, Restart, DeletePipeline, PutPipeline,
        Edit, Failure, apiVars, informers, ghosts
  <2>2. pc' = "run" => pc = "run" /\ UNCHANGED copy
    BY <1>6
    DEF SyncPipeline, ApiError, ConflictsExhausted, Restart, DeletePipeline, PutPipeline,
        FailPass, worker
  <2> QED BY <1>1, <2>1, <2>2
<1>7. ASSUME NEW m \in RunNames, SyncRun(m)
      PROVE  UNCHANGED <<runs, orphaned, pc, copy>> /\ dirty' \subseteq dirty
  BY <1>7 DEF SyncRun, apiVars, ghosts
<1>8. ASSUME NEW s \in Specs, EditSpec(s) \/ RecreatePipeline(s)
      PROVE  UNCHANGED <<runs, orphaned, pc, copy, dirty>>
  BY <1>8 DEF EditSpec, RecreatePipeline, PutPipeline, Edit, worker, ghosts
<1>9. CASE UNCHANGED vars
  BY <1>1, <1>9 DEF vars, apiVars, informers, worker, ghosts
<1>10. ASSUME NEW m \in RunNames, CollectRun(m) \/ DeleteRun(m) \/ ScheduleExecution(m)
       PROVE  RunWrite(n)
  BY <1>3, <1>4, <1>10 DEF OwnerInv
<1>11. ASSUME NEW m \in RunNames, SyncRun(m)
       PROVE  RunWrite(n)
  BY <1>1, <1>7, <1>11
<1>12. ASSUME NEW s \in Specs, EditSpec(s) \/ RecreatePipeline(s)
       PROVE  RunWrite(n)
  BY <1>1, <1>8, <1>12
<1> HIDE DEF RunWrite
<1> QED BY <1>5, <1>6, <1>9, <1>10, <1>11, <1>12 DEF Next

\* Runs made without a schedule have an owner.
THEOREM RunsHaveOwners == Spec => []OwnerInv
<1>1. Init => OwnerInv
  BY DEF Init, OwnerInv, NoRun
<1>2. TypeOK /\ OwnerInv /\ [Next]_vars => OwnerInv'
  <2> SUFFICES ASSUME TypeOK, OwnerInv, [Next]_vars PROVE OwnerInv'
    OBVIOUS
  <2>1. \A n \in RunNames : runs'[n].exists /\ HasOwner(n) => runs'[n].owner # NoUid
    BY RunWrites DEF OwnerInv, NoRun, RunWrite
  <2>2. ASSUME NEW n \in RunNames, ~orphaned',
               n \in dirty' \/ runs'[n].exists \/ runCache'[n].exists
        PROVE  HasOwner(n)
    <3>1. ~orphaned
      BY <2>2, RunWrites DEF RunWrite
    <3>2. CASE n \in dirty \/ runs[n].exists \/ runCache[n].exists
      BY <3>1, <3>2 DEF OwnerInv
    <3>3. CASE n \notin dirty /\ ~runs[n].exists /\ ~runCache[n].exists
      <4>1. \/ UNCHANGED runs[n] /\ (n \in dirty' => n \in dirty)
            \/ HasOwner(n)
        BY <2>2, <3>3, RunWrites DEF RunWrite
      <4>2. CASE UNCHANGED runs[n] /\ (n \in dirty' => n \in dirty)
        BY <2>2, <3>3, <4>2, RunChanges DEF RunChange
      <4> QED BY <4>1, <4>2
    <3> QED BY <3>2, <3>3
  <2>3. pc' = "run" => copy'.uid # NoUid
    BY RunWrites, SomeName DEF RunWrite
  <2> QED BY <2>1, <2>2, <2>3 DEF OwnerInv, HasOwner
<1> QED BY <1>1, <1>2, TypeCorrect, PTL DEF Spec

\* A pass that nothing has disturbed makes a run for the pipeline in the cache.
LEMMA CopyStep ==
  ASSUME TypeOK, CopyInv, [Next]_vars
  PROVE  CopyInv'
<1> SUFFICES ASSUME ~queued', pc' = "run"
             PROVE  copy' = pipeCache'
  BY DEF CopyInv
<1>1. CASE Worker
  <2>1. ReadPipeline
    BY <1>1
    DEF Worker, DropReconcile, ListRuns, UpdatePipelineStatus, EnsurePipelineMetadata, PipelineGone,
        FailPass, LeftToSchedule, EnsureRun, RunExists, CreateRun, CreateRejected, EndPass, Goto
  <2> QED BY <2>1 DEF ReadPipeline, informers
<1>2. CASE Unseen
  BY <1>2 DEF Unseen, CopyInv
<1>3. ASSUME NEW m \in RunNames, SyncRun(m)
      PROVE  copy' = pipeCache'
  <2>1. ~queued /\ UNCHANGED <<pc, copy, pipeCache>>
    BY <1>3 DEF TypeOK, SyncRun, HasOwner
  <2> QED BY <2>1 DEF CopyInv
<1> QED BY <1>1, <1>2, <1>3, UnqueuedSteps

\* Once a pass has finished with the present spec there is a run, or a run's event
\* on its way: no step takes both away without queueing the pipeline's name.
LEMMA PassStep ==
  ASSUME TypeOK, Coherent, PassInv, [Next]_vars,
         NEW s \in Specs \ Scheduled, PassedFor(s)'
  PROVE  RunFor(s)'
<1>1. /\ ~queued' /\ pc' \in {"idle", "schedule"}
      /\ pipeFresh' /\ pipe'.uid # NoUid /\ pipe'.spec = s
  BY DEF PassedFor
<1>2. SUFFICES \E n \in NamesOf(s) : n \in dirty' \/ runs'[n].exists
  BY DEF RunFor
<1>3. CASE DropReconcile \/ ReadPipeline
  <2>1. pipeCache.uid = NoUid /\ UNCHANGED <<pipe, pipeFresh>>
    BY <1>1, <1>3 DEF DropReconcile, ReadPipeline, Goto, apiVars, informers
  <2> QED BY <1>1, <2>1 DEF Coherent
<1>4. CASE LeftToSchedule
  <2>1. copy.spec \in Scheduled /\ copy = pipeCache /\ UNCHANGED <<pipe, pipeFresh>>
    BY <1>1, <1>4 DEF LeftToSchedule, Goto, PassInv, CopyInv, apiVars, informers
  <2> QED BY <1>1, <2>1 DEF Coherent
<1>5. ASSUME NEW n \in RunNames, RunExists(n) \/ CreateRun(n)
      PROVE  n \in NamesOf(s) /\ (n \in dirty' \/ runs'[n].exists)
  <2>1. copy = pipeCache /\ n \in NamesOf(copy.spec) /\ UNCHANGED <<pipe, pipeFresh>>
    BY <1>1, <1>5
    DEF RunExists, CreateRun, Making, Goto, PassInv, CopyInv, apiVars, informers
  <2>2. n \in dirty' \/ runs'[n].exists
    BY <1>5 DEF TypeOK, RunExists, CreateRun, PutRun, Coherent, apiVars, informers
  <2> QED BY <1>1, <2>1, <2>2 DEF Coherent
<1>6. CASE EndPass
  <2>1. PassedFor(s) /\ UNCHANGED <<dirty, runs>>
    BY <1>1, <1>6 DEF EndPass, Goto, PassedFor, apiVars, informers
  <2> QED BY <2>1 DEF PassInv, RunFor
<1>7. CASE Unseen
  <2>1. PassedFor(s)
    BY <1>1, <1>7 DEF Unseen, PassedFor
  <2>2. PICK n \in NamesOf(s) : n \in dirty \/ runs[n].exists
    BY <2>1 DEF PassInv, RunFor
  <2>3. n \in RunNames
    BY <2>2, Names
  <2> QED BY <1>1, <1>7, <2>2, <2>3 DEF Unseen
<1>8. ASSUME NEW m \in RunNames, SyncRun(m)
      PROVE  \E n \in NamesOf(s) : n \in dirty' \/ runs'[n].exists
  <2>1. /\ ~queued /\ ~HasOwner(m) /\ UNCHANGED <<pc, pipe, runs>> /\ pipeFresh
        /\ dirty' = dirty \ {m}
    BY <1>1, <1>8 DEF TypeOK, SyncRun, apiVars
  <2>2. PassedFor(s)
    BY <1>1, <2>1 DEF PassedFor
  <2>3. PICK n \in NamesOf(s) : n \in dirty \/ runs[n].exists
    BY <2>2 DEF PassInv, RunFor
  <2>4. HasOwner(n)
    BY <2>3, OwnedNames
  <2> QED BY <2>1, <2>3, <2>4
<1>9. CASE Worker
  <2>1. ~(ListRuns \/ UpdatePipelineStatus \/ EnsurePipelineMetadata)
    BY <1>1 DEF ListRuns, UpdatePipelineStatus, EnsurePipelineMetadata, Goto
  <2>2. ~PipelineGone /\ \A n \in RunNames : ~CreateRejected(n)
    BY <1>1 DEF PipelineGone, CreateRejected, FailPass
  <2> QED BY <1>3, <1>4, <1>5, <1>6, <1>9, <2>1, <2>2 DEF Worker, EnsureRun
<1> QED BY <1>1, <1>7, <1>8, <1>9, UnqueuedSteps

\* When nothing is under way, a pipeline without a schedule has its run.
THEOREM QuietMeansRunAlways == Spec => []QuietMeansRun
<1>1. Init => PassInv
  BY DEF Init, PassInv, CopyInv, PassedFor
<1>2. TypeOK /\ Coherent /\ PassInv /\ [Next]_vars => PassInv'
  <2> SUFFICES ASSUME TypeOK, Coherent, PassInv, [Next]_vars PROVE PassInv'
    OBVIOUS
  <2>1. CopyInv'
    BY CopyStep DEF PassInv
  <2>2. \A s \in Specs \ Scheduled : PassedFor(s)' => RunFor(s)'
    BY PassStep
  <2> QED BY <2>1, <2>2 DEF PassInv
<1>3. TypeOK /\ OwnerInv /\ PassInv => QuietMeansRun
  <2> SUFFICES ASSUME TypeOK, OwnerInv, PassInv, Quiet, pipe.uid # NoUid, pipe.spec \notin Scheduled
               PROVE  \E n \in NamesOf(pipe.spec) : runs[n] = RunOf(pipe.uid)
    BY DEF QuietMeansRun
  <2>1. PICK n \in NamesOf(pipe.spec) : runs[n].exists
    BY DEF PassInv, PassedFor, RunFor, Quiet, TypeOK, PipelineType
  <2>2. n \in RunNames /\ HasOwner(n)
    BY <2>1, OwnedNames DEF TypeOK, PipelineType
  <2>3. runs[n].owner = pipe.uid
    BY <2>1, <2>2 DEF Quiet, IsOrphan, OwnerInv
  <2> QED BY <2>1, <2>2, <2>3 DEF TypeOK, RunType, RunOf
<1> QED BY <1>1, <1>2, <1>3, TypeCorrect, CacheIsCoherent, RunsHaveOwners, PTL DEF Spec

--------------------------------------------------------------------------------
(* The count. *)

\* Once the runs are listed, whatever changes their number queues the name.
LEMMA CountStep ==
  ASSUME TypeOK, Coherent, OwnerInv, CountInv, [Next]_vars
  PROVE  CountInv'
<1> SUFFICES ASSUME ~queued', ~orphaned'
             PROVE  CountInv'
  BY DEF CountInv
<1>1. ~orphaned
  BY SomeName, RunWrites DEF RunWrite
<1>2. ASSUME UNCHANGED runCache
      PROVE  Counted' = Counted
  BY <1>2 DEF Counted
<1>3. CASE ListRuns
  BY <1>2, <1>3 DEF ListRuns, CountInv, informers
<1>4. CASE UpdatePipelineStatus
  <2>1. ~queued /\ listed = Counted /\ UNCHANGED runCache
    BY <1>1, <1>4 DEF UpdatePipelineStatus, Goto, CountInv
  <2>2. pipe'.runs = listed /\ pc' = "metadata"
    BY <1>4 DEF UpdatePipelineStatus, Goto, TypeOK, PipelineType
  <2> QED BY <1>2, <2>1, <2>2 DEF CountInv
<1>5. CASE EnsurePipelineMetadata
  <2>1. /\ ~queued /\ pipeFresh /\ pipe.uid # NoUid /\ pc = "metadata" /\ pc' = "get" /\ UNCHANGED runCache
    BY <1>5 DEF EnsurePipelineMetadata, Goto
  <2>2. pipe'.runs = pipe.runs
    BY <1>5 DEF EnsurePipelineMetadata, TypeOK, PipelineType
  <2> QED BY <1>1, <1>2, <2>1, <2>2 DEF CountInv
<1>6. ASSUME \/ DropReconcile \/ ReadPipeline \/ LeftToSchedule \/ EndPass
             \/ \E n \in RunNames : RunExists(n) \/ CreateRun(n)
      PROVE  CountInv'
  <2>1. UNCHANGED <<pipe, pipeFresh, runCache>> /\ pc # "status" /\ pc' # "status"
    BY <1>6
    DEF DropReconcile, ReadPipeline, LeftToSchedule, EndPass, RunExists, CreateRun, Making,
        Goto, apiVars, informers
  <2>2. queued = queued' \/ DropReconcile
    BY <1>6 DEF ReadPipeline, LeftToSchedule, EndPass, RunExists, CreateRun, Goto
  <2>3. CASE ~queued
    BY <1>1, <1>2, <2>1, <2>3 DEF CountInv
  <2>4. CASE DropReconcile
    BY <2>1, <2>4 DEF DropReconcile, CountInv, Coherent
  <2> QED BY <2>2, <2>3, <2>4
<1>7. CASE Unseen
  <2>1. ~queued /\ UNCHANGED <<pc, listed, runCache>>
    BY <1>7 DEF Unseen
  <2>2. pipeFresh' => pipeFresh /\ UNCHANGED pipe
    BY <1>7 DEF Unseen
  <2> QED BY <1>1, <1>2, <2>1, <2>2 DEF CountInv
<1>8. ASSUME NEW m \in RunNames, SyncRun(m)
      PROVE  FALSE
  <2>1. HasOwner(m)
    BY <1>1, <1>8 DEF SyncRun, OwnerInv
  <2> QED BY <1>8, <2>1 DEF SyncRun
<1>9. CASE Worker
  <2>1. ASSUME PipelineGone \/ \E n \in RunNames : CreateRejected(n)
        PROVE  FALSE
    BY <2>1 DEF PipelineGone, CreateRejected, FailPass
  <2> QED BY <1>3, <1>4, <1>5, <1>6, <1>9, <2>1 DEF Worker, EnsureRun
<1> QED BY <1>7, <1>8, <1>9, UnqueuedSteps

\* When nothing is under way, the status counts the runs.
THEOREM QuietMeansCountedAlways == Spec => []QuietMeansCounted
<1>1. Init => CountInv
  BY DEF Init, CountInv
<1>2. TypeOK /\ Coherent /\ OwnerInv /\ CountInv /\ [Next]_vars => CountInv'
  BY CountStep
<1>3. Coherent /\ CountInv => QuietMeansCounted
  <2> SUFFICES ASSUME Coherent, CountInv, Quiet, pipe.uid # NoUid, ~orphaned
               PROVE  pipe.runs = Cardinality({n \in RunNames : runs[n].exists})
    BY DEF QuietMeansCounted
  <2>1. {n \in RunNames : runCache[n].exists} = {n \in RunNames : runs[n].exists}
    BY DEF Quiet, Coherent
  <2> QED BY <2>1 DEF Quiet, CountInv, Counted
<1> QED BY <1>1, <1>2, <1>3, TypeCorrect, CacheIsCoherent, RunsHaveOwners, PTL DEF Spec
================================================================================
