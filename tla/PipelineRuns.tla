----------------------------- MODULE PipelineRuns -----------------------------
(***************************************************************************)
(* The runs of one pipeline name (internal/controller/                     *)
(* pipeline_controller.go): how the reconciler makes a run for the spec of *)
(* a pipeline without a schedule, counts the pipeline's runs in its status *)
(* and follows edits of the spec, deletions of runs, and the deletion and  *)
(* re-creation of the pipeline while Kubernetes collects the runs of its   *)
(* predecessor.                                                            *)
(*                                                                         *)
(* A run is named after a hash of the pipeline's name and of its printed   *)
(* spec.  Printing shows the address of a part that the spec holds by a    *)
(* pointer (its schedule, additionalContainerSpecs, additionalPodSpecs),   *)
(* and every read makes new parts: such a spec has a name for each address *)
(* they happen to have.  Hashes are taken to be free of collisions.        *)
(*                                                                         *)
(* The schedule part of a pass is the module PipelineSchedule; here it can *)
(* end a pass with an error, and create runs at any time.                  *)
(***************************************************************************)
EXTENDS Integers, FiniteSets

CONSTANTS
  Specs,       \* the specs that the user gives the pipeline
  Scheduled,   \* those with a schedule date
  Pointers,    \* those that hold a part by a pointer
  Addresses,   \* the addresses that such a part can have
  InitSpec,    \* the spec the pipeline is created with
  MaxUid,      \* bound on the pipelines created under the name
  MaxFailures, \* bound on failed calls, exhausted retries and restarts
  MaxEdits     \* bound on edits and deletions by the user

NoAddress == 0

ASSUME RunsAssumption ==
  /\ Scheduled \subseteq Pointers /\ Pointers \subseteq Specs /\ InitSpec \in Specs
  /\ Addresses \subseteq Nat \ {NoAddress} /\ Addresses # {}
  /\ IsFiniteSet(Addresses) /\ IsFiniteSet(Specs)
  /\ MaxUid \in Nat \ {0} /\ MaxFailures \in Nat /\ MaxEdits \in Nat

VARIABLES
  pipe,      \* the pipeline in the API server
  runs,      \* the runs in the API server that carry the pipeline's label
  lastUid,   \* the number of pipelines created so far
  pipeCache, \* the informer's copy of the pipeline
  pipeFresh, \* the pipeline was not written since that copy was delivered
  runCache,  \* the informer's copy of the runs
  dirty,     \* the runs written since the informer last delivered them
  pc,        \* where the pass is
  queued,    \* the pipeline's name is in the work queue
  listed,    \* the number of runs that the pass has listed
  copy,      \* the pipeline that the pass makes a run for
  orphaned,  \* ghost: a schedule has created a run
  failures, edits

apiVars == <<pipe, runs, lastUid>>
informers == <<pipeCache, pipeFresh, runCache, dirty>>
worker == <<pc, queued, listed, copy>>
ghosts == <<orphaned, failures, edits>>
vars == <<apiVars, informers, worker, ghosts>>

\* newRunMetaFromPipeline: the names a run of spec s can get.
NamesOf(s) ==
  IF s \in Pointers THEN {<<s, a>> : a \in Addresses} ELSE {<<s, NoAddress>>}

RunNames == UNION {NamesOf(s) : s \in Specs}

\* uid 0: there is no pipeline; described: the spec that its annotations and
\* labels were last written for.
NoUid == 0
NotDescribed == "not described"

PipelineType ==
  [ uid : 0..MaxUid, spec : Specs, described : Specs \cup {NotDescribed}, runs : Nat ]

NewPipeline(uid, s) == [uid |-> uid, spec |-> s, described |-> NotDescribed, runs |-> 0]
NoPipeline == NewPipeline(NoUid, InitSpec)

\* Owner NoUid: the run has no owner reference. RunOf is what
\* ConstructRunFromPipeline makes, as far as its name and its owner go.
RunType == [exists : BOOLEAN, owner : 0..MaxUid]
NoRun == [exists |-> FALSE, owner |-> NoUid]
RunOf(uid) == [exists |-> TRUE, owner |-> uid]

Passing == {"status", "metadata", "get", "run", "schedule"}

Init ==
  /\ pipe = NewPipeline(1, InitSpec) /\ lastUid = 1
  /\ runs = [n \in RunNames |-> NoRun]
  /\ pipeCache = pipe /\ pipeFresh = TRUE
  /\ runCache = runs /\ dirty = {}
  /\ pc = "idle" /\ queued = TRUE /\ listed = 0 /\ copy = NoPipeline
  /\ orphaned = FALSE /\ failures = 0 /\ edits = 0

--------------------------------------------------------------------------------
(* Reconcile. *)

Goto(l) == pc' = l /\ UNCHANGED queued

\* Variant: the error of a pass is logged and swallowed.
FailPassSilently == pc' = "idle" /\ UNCHANGED <<queued, listed, copy>>

FailPass == pc' = "idle" /\ queued' = TRUE /\ UNCHANGED <<listed, copy>>

DropReconcile ==
  /\ pc = "idle" /\ queued /\ pipeCache.uid = NoUid
  /\ queued' = FALSE
  /\ UNCHANGED <<apiVars, informers, pc, listed, copy, ghosts>>

\* Variant: the count is one short.
CountedShort == Cardinality({n \in RunNames : runCache[n].exists}) - 1

\* The list selects by the pipeline's label, whoever owns the run.
Counted == Cardinality({n \in RunNames : runCache[n].exists})

\* The runs are listed before the attempts to write their number start.
ListRuns ==
  /\ pc = "idle" /\ queued /\ pipeCache.uid # NoUid
  /\ queued' = FALSE /\ pc' = "status"
  /\ listed' = Counted
  /\ UNCHANGED <<apiVars, informers, copy, ghosts>>

\* LastUpdatedDate counts seconds: a write that changes nothing else may or may
\* not be a write.
UpdatePipelineStatus ==
  /\ pc = "status" /\ pipeFresh /\ pipe.uid # NoUid
  /\ pipe' = [pipe EXCEPT !.runs = listed]
  /\ \E again \in BOOLEAN :
       /\ pipe' # pipe => again
       /\ pipeFresh' = ~again
  /\ Goto("metadata")
  /\ UNCHANGED <<runs, lastUid, pipeCache, runCache, dirty, listed, copy, ghosts>>

EnsurePipelineMetadata ==
  /\ pc = "metadata" /\ pipeFresh /\ pipe.uid # NoUid
  /\ pipe' = [pipe EXCEPT !.described = pipe.spec]
  /\ pipeFresh' = (pipe' = pipe)
  /\ Goto("get")
  /\ UNCHANGED <<runs, lastUid, pipeCache, runCache, dirty, listed, copy, ghosts>>

\* Not found ends the attempts; a conflict is tried again with the next copy.
PipelineGone ==
  /\ pc \in {"status", "metadata"}
  /\ pipe.uid = NoUid \/ pipeCache.uid = NoUid
  /\ FailPass
  /\ UNCHANGED <<apiVars, informers, ghosts>>

ReadPipeline ==
  /\ pc = "get"
  /\ copy' = pipeCache
  /\ Goto(IF pipeCache.uid = NoUid THEN "idle" ELSE "run")
  /\ UNCHANGED <<apiVars, informers, listed, ghosts>>

\* ensureRunExists.
LeftToSchedule ==
  /\ pc = "run" /\ copy.spec \in Scheduled
  /\ Goto("schedule")
  /\ UNCHANGED <<apiVars, informers, listed, copy, ghosts>>

Making(n) == pc = "run" /\ copy.spec \notin Scheduled /\ n \in NamesOf(copy.spec)

RunExists(n) ==
  /\ Making(n) /\ runCache[n].exists
  /\ Goto("schedule")
  /\ UNCHANGED <<apiVars, informers, listed, copy, ghosts>>

PutRun(n, r) ==
  /\ runs' = [runs EXCEPT ![n] = r]
  /\ dirty' = dirty \cup {n}

\* The owner is the pipeline that was read, which may be gone by now.
CreateRun(n) ==
  /\ Making(n) /\ ~runCache[n].exists /\ ~runs[n].exists
  /\ PutRun(n, RunOf(copy.uid))
  /\ Goto("schedule")
  /\ UNCHANGED <<pipe, lastUid, pipeCache, pipeFresh, runCache, listed, copy, ghosts>>

CreateRejected(n) ==
  /\ Making(n) /\ ~runCache[n].exists /\ runs[n].exists
  /\ FailPass
  /\ UNCHANGED <<apiVars, informers, ghosts>>

EndPass ==
  /\ pc = "schedule"
  /\ Goto("idle")
  /\ UNCHANGED <<apiVars, informers, listed, copy, ghosts>>

\* A schedule handler creates a run without an owner and writes the pipeline's
\* status, which may be rejected.
ScheduleExecution(n) ==
  /\ pipeCache.uid # NoUid /\ pipeCache.spec \in Scheduled
  /\ n \in NamesOf(pipeCache.spec) /\ ~runs[n].exists
  /\ PutRun(n, RunOf(NoUid))
  /\ orphaned' = TRUE
  /\ \E recorded \in BOOLEAN : pipeFresh' = (pipeFresh /\ ~recorded)
  /\ UNCHANGED <<pipe, lastUid, pipeCache, runCache, worker, failures, edits>>

--------------------------------------------------------------------------------
(* The informers: a pipeline's event queues the pipeline, a run's event its  *)
(* owner, by name, if it has one.                                            *)

SyncPipeline ==
  /\ ~pipeFresh
  /\ pipeCache' = pipe /\ pipeFresh' = TRUE /\ queued' = TRUE
  /\ UNCHANGED <<apiVars, runCache, dirty, pc, listed, copy, ghosts>>

\* Variant: the controller does not watch the runs it owns.
SyncRunUnwatched(n) ==
  /\ n \in dirty
  /\ runCache' = [runCache EXCEPT ![n] = runs[n]]
  /\ dirty' = dirty \ {n}
  /\ UNCHANGED <<apiVars, pipeCache, pipeFresh, worker, ghosts>>

\* Whether a run of that name has an owner: only schedule handlers make others.
HasOwner(n) == \E s \in Specs \ Scheduled : n \in NamesOf(s)

SyncRun(n) ==
  /\ n \in dirty
  /\ runCache' = [runCache EXCEPT ![n] = runs[n]]
  /\ dirty' = dirty \ {n}
  /\ queued' = (queued \/ HasOwner(n))
  /\ UNCHANGED <<apiVars, pipeCache, pipeFresh, pc, listed, copy, ghosts>>

--------------------------------------------------------------------------------
(* Failures, the garbage collector and the user. *)

Failure ==
  /\ failures < MaxFailures
  /\ failures' = failures + 1
  /\ UNCHANGED <<orphaned, edits>>

ApiError ==
  /\ pc \in Passing
  /\ Failure /\ FailPass
  /\ UNCHANGED <<apiVars, informers>>

\* Five attempts have read the same stale copy.
ConflictsExhausted ==
  /\ pc \in {"status", "metadata"} /\ ~pipeFresh
  /\ Failure /\ FailPass
  /\ UNCHANGED <<apiVars, informers>>

Restart ==
  /\ Failure /\ FailPass
  /\ pipeCache' = pipe /\ pipeFresh' = TRUE
  /\ runCache' = runs /\ dirty' = {}
  /\ UNCHANGED apiVars

IsOrphan(n) == runs[n].exists /\ runs[n].owner \notin {NoUid, pipe.uid}

CollectRun(n) ==
  /\ IsOrphan(n)
  /\ PutRun(n, NoRun)
  /\ UNCHANGED <<pipe, lastUid, pipeCache, pipeFresh, runCache, worker, ghosts>>

Edit ==
  /\ edits < MaxEdits
  /\ edits' = edits + 1
  /\ UNCHANGED <<orphaned, failures>>

DeleteRun(n) ==
  /\ runs[n].exists
  /\ Edit
  /\ PutRun(n, NoRun)
  /\ UNCHANGED <<pipe, lastUid, pipeCache, pipeFresh, runCache, worker>>

PutPipeline(p) ==
  /\ pipe' = p
  /\ pipeFresh' = FALSE
  /\ UNCHANGED <<runs, pipeCache, runCache, dirty, worker>>

EditSpec(s) ==
  /\ pipe.uid # NoUid /\ pipe.spec # s
  /\ Edit
  /\ PutPipeline([pipe EXCEPT !.spec = s])
  /\ UNCHANGED lastUid

DeletePipeline ==
  /\ pipe.uid # NoUid
  /\ Edit
  /\ PutPipeline(NoPipeline)
  /\ UNCHANGED lastUid

RecreatePipeline(s) ==
  /\ pipe.uid = NoUid /\ lastUid < MaxUid
  /\ lastUid' = lastUid + 1
  /\ PutPipeline(NewPipeline(lastUid', s))
  /\ UNCHANGED ghosts

--------------------------------------------------------------------------------
EnsureRun(n) == RunExists(n) \/ CreateRun(n) \/ CreateRejected(n)

Worker ==
  \/ DropReconcile \/ ListRuns
  \/ UpdatePipelineStatus \/ EnsurePipelineMetadata \/ PipelineGone
  \/ ReadPipeline \/ LeftToSchedule \/ (\E n \in RunNames : EnsureRun(n)) \/ EndPass

Next ==
  \/ Worker \/ SyncPipeline
  \/ ApiError \/ ConflictsExhausted \/ Restart \/ DeletePipeline
  \/ \E n \in RunNames : SyncRun(n) \/ CollectRun(n) \/ ScheduleExecution(n) \/ DeleteRun(n)
  \/ \E s \in Specs : EditSpec(s) \/ RecreatePipeline(s)

Spec == Init /\ [][Next]_vars

\* The worker runs while it has work, the watches deliver, and the garbage
\* collector collects.
Fairness ==
  /\ WF_vars(Worker) /\ WF_vars(SyncPipeline)
  /\ \A n \in RunNames : WF_vars(SyncRun(n)) /\ WF_vars(CollectRun(n))

FairSpec == Spec /\ Fairness

--------------------------------------------------------------------------------
(* Properties *)

\* Every variable has its type.
TypeOK ==
  /\ pipe \in PipelineType /\ pipeCache \in PipelineType /\ copy \in PipelineType
  /\ runs \in [RunNames -> RunType] /\ runCache \in [RunNames -> RunType]
  /\ dirty \subseteq RunNames
  /\ lastUid \in 1..MaxUid
  /\ pc \in Passing \cup {"idle"}
  /\ pipeFresh \in BOOLEAN /\ queued \in BOOLEAN /\ orphaned \in BOOLEAN
  /\ listed \in Nat
  /\ failures \in 0..MaxFailures /\ edits \in 0..MaxEdits

Quiet ==
  /\ pc = "idle" /\ ~queued /\ pipeFresh /\ dirty = {}
  /\ \A n \in RunNames : ~IsOrphan(n)

\* No lost wake-up: when nothing is under way, a pipeline without a schedule has
\* a run for its present spec, owned by it and not by a deleted pipeline of the
\* same name, whose run has the same name.
QuietMeansRun ==
  Quiet /\ pipe.uid # NoUid /\ pipe.spec \notin Scheduled =>
    \E n \in NamesOf(pipe.spec) : runs[n] = RunOf(pipe.uid)

\* When nothing is under way, the status counts the pipeline's runs, unless its
\* schedule has created some: these have no owner, so nobody is told.
QuietMeansCounted ==
  Quiet /\ pipe.uid # NoUid /\ ~orphaned =>
    pipe.runs = Cardinality({n \in RunNames : runs[n].exists})

\* If a pipeline and its spec stay, its run is there and stays in the end: after a
\* deletion of the run, and after the collection of the run of a deleted pipeline.
RunComesBack ==
  \A s \in Specs \ Pointers :
    <>[](pipe.uid # NoUid /\ pipe.spec = s)
      => <>[](\E n \in NamesOf(s) : runs[n] = RunOf(pipe.uid))
================================================================================
