------------------------------- MODULE Volumes -------------------------------
(***************************************************************************)
(* The claims of the volumes of runs (internal/controller/                 *)
(* run_controller.go, ensureVolumeList): the run controller creates the    *)
(* claim of every volume of a run, or adopts the claim that has the        *)
(* volume's name: it describes the claim in the run and makes it depend on *)
(* the pipeline, on the run or on nothing, as the volume's lifecycle says. *)
(*                                                                         *)
(* Runs of one pipeline, or of several, share a claim by its name.  Claims *)
(* are not watched: a claim that goes away is made again by the next pass  *)
(* of a run that uses it.  A pass reads the API server directly: what a    *)
(* late cache adds is a write that is rejected, an ApiError here.          *)
(***************************************************************************)
EXTENDS Integers, Sequences, FiniteSets

CONSTANTS
  Pipelines, Runs,
  PipelineOf,    \* the pipeline that a run's label names
  VolumeLists,   \* the volumes that a user can give a pipeline
  DefaultClass,  \* the storage class the cluster fills in, NoClass for none
  MaxUid,        \* bound on the objects created under one name
  MaxSize,       \* bound on the size of a claim
  MaxFailures,   \* bound on failed calls and restarts
  MaxEdits       \* bound on what users do

Lifecycles == {"", "persistent", "pipeline", "run"}
Modes == {"ReadWriteOnce", "ReadWriteMany"}
NoClass == ""
Classes == {NoClass, "fast"}
BadSize == 0   \* a capacity that is not a quantity

\* VolumeResource.  The schema of a run fills in the access modes left out.
DefaultModes == "ReadWriteOnce"
Names == UNION {{list[i].name : i \in DOMAIN list} : list \in VolumeLists}
Volume ==
  [ name : Names, size : BadSize..MaxSize, class : Classes, lifecycle : Lifecycles,
    modes : Modes ]

Objects == Pipelines \cup Runs
NoRun == "no run"

ASSUME VolumesAssumption ==
  /\ Pipelines \cap Runs = {} /\ NoRun \notin Runs
  /\ PipelineOf \in [Runs -> Pipelines]
  /\ VolumeLists \subseteq Seq(Volume) /\ VolumeLists # {}
  /\ DefaultClass \in Classes
  /\ MaxUid \in Nat \ {0} /\ MaxSize \in Nat \ {BadSize}
  /\ MaxFailures \in Nat /\ MaxEdits \in Nat

VARIABLES
  alive,    \* the pipelines and runs in the API server
  uid,      \* the uid of the last object created under a name
  spec,     \* the volumes of a pipeline
  volumes,  \* the volumes of a run
  claims,   \* the claims in the API server
  queue,    \* the runs in the work queue
  pc,       \* where the pass is
  cur,      \* the run of the pass,
  curUid,   \* its uid,
  owner,    \* the uid of its pipeline
  list,     \* and the volumes it had when the pass began
  idx,      \* the volume that the pass is at
  seen,     \* the claim it has found,
  fresh,    \* which was not written since
  removed,  \* ghost: the claims removed since the pass began
  failures, edits

objects == <<alive, uid, spec>>
worker == <<pc, cur, curUid, owner, list, idx, seen, fresh>>
bounds == <<failures, edits>>
vars == <<objects, volumes, claims, queue, worker, removed, bounds>>

\* owners: pairs of an object's name and uid.
References == Objects \X (0..MaxUid)
NoClaim == [exists |-> FALSE]
Claim ==
  [ exists : {TRUE}, size : 1..MaxSize, class : Classes, modes : Modes,
    owners : SUBSET References ]

Stages == {"lookup", "create", "adopt", "own"}

Init ==
  /\ alive = [o \in Objects |-> o \in Pipelines]
  /\ uid = [o \in Objects |-> IF o \in Pipelines THEN 1 ELSE 0]
  /\ spec \in [Pipelines -> VolumeLists]
  /\ volumes = [r \in Runs |-> <<>>]
  /\ claims = [n \in Names |-> NoClaim]
  /\ queue = {}
  /\ pc = "idle" /\ cur = NoRun /\ curUid = 0 /\ owner = 0
  /\ list = <<>> /\ idx = 1 /\ seen = NoClaim /\ fresh = FALSE
  /\ removed = {} /\ failures = 0 /\ edits = 0

--------------------------------------------------------------------------------
(* A volume and its claim. *)

\* The references that a volume asks its claim to have.
OwnersFor(v) ==
  CASE v.lifecycle = "persistent" -> {}
    [] v.lifecycle = "run" -> {<<cur, curUid>>}
    [] OTHER -> {<<PipelineOf[cur], owner>>}

\* ParsePvcFromVolumeResourceWithMeta, with what the API server fills in.
ClaimOf(v) ==
  [ exists |-> TRUE, size |-> v.size, modes |-> v.modes,
    class |-> IF v.class # NoClass THEN v.class ELSE DefaultClass,
    owners |-> OwnersFor(v) ]

\* Variant: the lifecycle is left out, as the access modes are.
AdoptedWhole(v, claim) ==
  [ name |-> v.name, size |-> claim.size, class |-> claim.class,
    lifecycle |-> "", modes |-> DefaultModes ]

\* Variant: the claim is adopted without its description.
AdoptedAsAsked(v, claim) == [v EXCEPT !.modes = DefaultModes]

\* What adoption makes of the volume in the run.
Adopted(v, claim) ==
  [ name |-> v.name, size |-> claim.size, class |-> claim.class,
    lifecycle |-> v.lifecycle, modes |-> DefaultModes ]

\* Variant: the references of a claim are kept.
KeptOwnersAll(claim) == claim.owners

\* Adoption empties the references before SetControllerReference, which refuses
\* a claim that another object controls.
KeptOwners(claim) == {}

--------------------------------------------------------------------------------
(* Reconcile: each call to the API server is a step. *)

Here == list[idx]
AtVolume(stage) == pc = stage /\ idx \in DOMAIN list

\* The pass ends and forgets what it knew.
Leave ==
  /\ pc' = "idle" /\ cur' = NoRun /\ curUid' = 0 /\ owner' = 0
  /\ list' = <<>> /\ idx' = 1 /\ seen' = NoClaim /\ fresh' = FALSE
  /\ removed' = {}

FailPass == Leave /\ queue' = queue \cup {cur}

StopProcess == Leave /\ queue' = {r \in Runs : alive[r]}

NextVolume ==
  /\ pc' = "lookup" /\ idx' = idx + 1 /\ seen' = NoClaim /\ fresh' = FALSE
  /\ UNCHANGED <<cur, curUid, owner, list, removed>>

\* The run, or the pipeline its label names, is not there: no error.
DropReconcile(r) ==
  /\ pc = "idle" /\ r \in queue /\ ~(alive[r] /\ alive[PipelineOf[r]])
  /\ queue' = queue \ {r}
  /\ UNCHANGED <<objects, volumes, claims, worker, removed, bounds>>

StartPass(r) ==
  /\ pc = "idle" /\ r \in queue /\ alive[r] /\ alive[PipelineOf[r]]
  /\ queue' = queue \ {r}
  /\ pc' = "lookup" /\ cur' = r /\ curUid' = uid[r] /\ owner' = uid[PipelineOf[r]]
  /\ list' = volumes[r] /\ idx' = 1
  /\ UNCHANGED <<objects, volumes, claims, seen, fresh, removed, bounds>>

\* Variant: a volume whose claim cannot be made is skipped.
CreateFailedSkips ==
  /\ AtVolume("create")
  /\ Here.size = BadSize \/ claims[Here.name] # NoClaim
  /\ NextVolume
  /\ UNCHANGED <<objects, volumes, claims, queue, bounds>>

LookUpClaim ==
  /\ AtVolume("lookup")
  /\ seen' = claims[Here.name] /\ fresh' = TRUE
  /\ pc' = IF claims[Here.name] = NoClaim THEN "create" ELSE "adopt"
  /\ UNCHANGED <<objects, volumes, claims, queue, cur, curUid, owner, list,
                 idx, removed, bounds>>

\* Variant: the capacity is not parsed.
CreateUnparsed ==
  /\ AtVolume("create") /\ claims[Here.name] = NoClaim
  /\ claims' = [claims EXCEPT ![Here.name] = ClaimOf(Here)]
  /\ NextVolume
  /\ UNCHANGED <<objects, volumes, queue, bounds>>

CreateClaim ==
  /\ AtVolume("create") /\ Here.size # BadSize /\ claims[Here.name] = NoClaim
  /\ claims' = [claims EXCEPT ![Here.name] = ClaimOf(Here)]
  /\ NextVolume
  /\ UNCHANGED <<objects, volumes, queue, bounds>>

\* The capacity cannot be parsed, or somebody else has made the claim.
CreateFailed ==
  /\ AtVolume("create")
  /\ Here.size = BadSize \/ claims[Here.name] # NoClaim
  /\ FailPass
  /\ UNCHANGED <<objects, volumes, claims, bounds>>

\* The claim has no storage class: a nil pointer ends the process, whose next
\* start queues every run.
Panic ==
  /\ AtVolume("adopt") /\ seen.class = NoClass
  /\ StopProcess
  /\ UNCHANGED <<objects, volumes, claims, bounds>>

\* r.Update(run), which is an event of the run when it changes it.
DescribeClaim ==
  /\ AtVolume("adopt") /\ seen.class # NoClass
  /\ alive[cur] /\ uid[cur] = curUid
  /\ list' = [list EXCEPT ![idx] = Adopted(Here, seen)]
  /\ volumes' = [volumes EXCEPT ![cur] = list']
  /\ queue' = IF volumes' = volumes THEN queue ELSE queue \cup {cur}
  /\ pc' = "own"
  /\ UNCHANGED <<objects, claims, cur, curUid, owner, idx, seen, fresh,
                 removed, bounds>>

RunGone ==
  /\ AtVolume("adopt") /\ seen.class # NoClass
  /\ ~(alive[cur] /\ uid[cur] = curUid)
  /\ FailPass
  /\ UNCHANGED <<objects, volumes, claims, bounds>>

Controllable == Cardinality(KeptOwners(seen) \cup OwnersFor(Here)) <= 1

\* Variant: the claim is written whatever happened to it since it was read.
OwnClaimBlindly ==
  /\ AtVolume("own") /\ Controllable /\ claims[Here.name] # NoClaim
  /\ claims' = [claims EXCEPT ![Here.name] =
                  [seen EXCEPT !.owners = KeptOwners(seen) \cup OwnersFor(Here)]]
  /\ NextVolume
  /\ UNCHANGED <<objects, volumes, queue, bounds>>

\* r.Update(pvcQuery), rejected when the claim was written since it was read.
OwnClaim ==
  /\ AtVolume("own") /\ Controllable /\ fresh
  /\ claims' = [claims EXCEPT ![Here.name] =
                  [seen EXCEPT !.owners = KeptOwners(seen) \cup OwnersFor(Here)]]
  /\ NextVolume
  /\ UNCHANGED <<objects, volumes, queue, bounds>>

OwnRejected ==
  /\ AtVolume("own") /\ ~(Controllable /\ fresh)
  /\ FailPass
  /\ UNCHANGED <<objects, volumes, claims, bounds>>

\* ensureKJobList and updateRunStatus follow, in the module RunController.
GoToJobs ==
  /\ pc = "lookup" /\ idx \notin DOMAIN list
  /\ Leave
  /\ UNCHANGED <<objects, volumes, claims, queue, bounds>>

--------------------------------------------------------------------------------
(* Failures. *)

Failure ==
  /\ failures < MaxFailures
  /\ failures' = failures + 1
  /\ UNCHANGED edits

ApiError ==
  /\ pc \in Stages
  /\ Failure /\ FailPass
  /\ UNCHANGED <<objects, volumes, claims>>

Restart ==
  /\ pc \in Stages
  /\ Failure /\ StopProcess
  /\ UNCHANGED <<objects, volumes, claims>>

--------------------------------------------------------------------------------
(* The pipeline controller, the informers, the garbage collector and users. *)

Create(o) ==
  /\ ~alive[o] /\ uid[o] < MaxUid
  /\ alive' = [alive EXCEPT ![o] = TRUE]
  /\ uid' = [uid EXCEPT ![o] = @ + 1]

\* newRunVolumes: a run has the volumes that its pipeline has at that time.
CreateRun(r) ==
  /\ alive[PipelineOf[r]] /\ Create(r)
  /\ volumes' = [volumes EXCEPT ![r] = spec[PipelineOf[r]]]
  /\ queue' = queue \cup {r}
  /\ UNCHANGED <<spec, claims, worker, removed, bounds>>

\* The informers bring every run again at their resync period.
Resync(r) ==
  /\ alive[r] /\ r \notin queue
  /\ queue' = queue \cup {r}
  /\ UNCHANGED <<objects, volumes, claims, worker, removed, bounds>>

Dead(ref) == ~(alive[ref[1]] /\ uid[ref[1]] = ref[2])

PutClaim(n, claim) ==
  /\ claims' = [claims EXCEPT ![n] = claim]
  /\ fresh' = (fresh /\ ~(idx \in DOMAIN list /\ Here.name = n))
  /\ removed' = IF claim = NoClaim /\ pc # "idle" THEN removed \cup {n} ELSE removed
  /\ UNCHANGED <<objects, volumes, queue, pc, cur, curUid, owner, list, idx,
                 seen>>

CollectClaim(n) ==
  /\ claims[n] # NoClaim /\ claims[n].owners # {}
  /\ \A ref \in claims[n].owners : Dead(ref)
  /\ PutClaim(n, NoClaim)
  /\ UNCHANGED bounds

Edit ==
  /\ edits < MaxEdits
  /\ edits' = edits + 1
  /\ UNCHANGED failures

EditPipeline(p, new) ==
  /\ alive[p] /\ spec[p] # new
  /\ Edit
  /\ spec' = [spec EXCEPT ![p] = new]
  /\ UNCHANGED <<alive, uid, volumes, claims, queue, worker, removed>>

RecreatePipeline(p) ==
  /\ Create(p)
  /\ UNCHANGED <<spec, volumes, claims, queue, worker, removed, bounds>>

Delete(o) ==
  /\ alive[o]
  /\ Edit
  /\ alive' = [alive EXCEPT ![o] = FALSE]
  /\ UNCHANGED <<uid, spec, volumes, claims, queue, worker, removed>>

\* A claim that a user makes, for runs to find.
ProvideClaim(n, class) ==
  /\ claims[n] = NoClaim
  /\ Edit
  /\ PutClaim(n, [ exists |-> TRUE, size |-> 1, class |-> class,
                   modes |-> DefaultModes, owners |-> {} ])

ResizeClaim(n) ==
  /\ claims[n] # NoClaim /\ claims[n].size < MaxSize
  /\ Edit
  /\ PutClaim(n, [claims[n] EXCEPT !.size = @ + 1])

DeleteClaim(n) ==
  /\ claims[n] # NoClaim
  /\ Edit
  /\ PutClaim(n, NoClaim)

--------------------------------------------------------------------------------
Step ==
  \/ LookUpClaim \/ CreateClaim \/ CreateFailed
  \/ Panic \/ DescribeClaim \/ RunGone \/ OwnClaim \/ OwnRejected
  \/ GoToJobs

Take(r) == DropReconcile(r) \/ StartPass(r)

Next ==
  \/ Step \/ ApiError \/ Restart
  \/ \E r \in Runs : Take(r) \/ CreateRun(r) \/ Resync(r)
  \/ \E n \in Names :
       \/ CollectClaim(n) \/ ResizeClaim(n) \/ DeleteClaim(n)
       \/ \E class \in Classes : ProvideClaim(n, class)
  \/ \E p \in Pipelines :
       \/ RecreatePipeline(p)
       \/ \E new \in VolumeLists : EditPipeline(p, new)
  \/ \E o \in Objects : Delete(o)

Spec == Init /\ [][Next]_vars

\* A pass goes on, the work queue is first in first out, the informers resync and
\* the garbage collector collects.
Fairness ==
  /\ WF_vars(Step)
  /\ \A r \in Runs : SF_vars(Take(r)) /\ WF_vars(Resync(r))
  /\ \A n \in Names : WF_vars(CollectClaim(n))

FairSpec == Spec /\ Fairness

--------------------------------------------------------------------------------
(* Properties *)

\* Every variable has its type.
TypeOK ==
  /\ alive \in [Objects -> BOOLEAN] /\ uid \in [Objects -> 0..MaxUid]
  /\ spec \in [Pipelines -> VolumeLists]
  /\ volumes \in [Runs -> Seq(Volume)] /\ list \in Seq(Volume)
  /\ claims \in [Names -> Claim \cup {NoClaim}] /\ seen \in Claim \cup {NoClaim}
  /\ queue \subseteq Runs
  /\ pc \in Stages \cup {"idle"} /\ cur \in Runs \cup {NoRun}
  /\ curUid \in 0..MaxUid /\ owner \in 0..MaxUid /\ idx \in Nat \ {0}
  /\ fresh \in BOOLEAN /\ removed \subseteq Names
  /\ failures \in 0..MaxFailures /\ edits \in 0..MaxEdits

\* The lifecycles that users give the volumes of a name.
Asked(n) ==
  UNION {{l[i].lifecycle : i \in {j \in DOMAIN l : l[j].name = n}} : l \in VolumeLists}

\* Whatever the order in which runs create, adopt and share a claim, it depends
\* on nothing but what a volume of its name asks for: a claim that is persistent
\* everywhere never gets an owner to be collected with.
DependsAsAsked ==
  \A n \in Names : claims[n] # NoClaim =>
    \A ref \in claims[n].owners :
      IF ref[1] \in Runs THEN "run" \in Asked(n) ELSE Asked(n) \cap {"", "pipeline"} # {}

\* A pass comes to its jobs only with a claim for every volume, except for one
\* that was removed behind its back: one failed volume keeps the run from all
\* its jobs.
NoJobsWithoutClaims ==
  pc # "idle" => \A i \in DOMAIN list : i < idx =>
    claims[list[i].name] # NoClaim \/ list[i].name \in removed

\* Adoption gives a claim another owner and nothing else: it never takes back
\* what a user wrote to the claim since the pass has read it.
ResizeKept ==
  [][\A n \in Names :
       claims[n] # NoClaim /\ claims'[n] # NoClaim =>
         claims'[n].size >= claims[n].size]_vars

Usable(r) ==
  /\ alive[r] /\ alive[PipelineOf[r]]
  /\ \A i \in DOMAIN volumes[r] : volumes[r][i].size # BadSize
  /\ \A n \in Names : claims[n] # NoClaim => claims[n].class # NoClass

\* As long as a run and its pipeline stay, the claims of its volumes come back:
\* after they are deleted, or collected with another run that owned them last.
ClaimComesBack ==
  \A r \in Runs : <>[]Usable(r) =>
    <>[](\A i \in DOMAIN volumes[r] : claims[volumes[r][i].name] # NoClaim)

\* In the end the run describes the claims it has and not those it asked for,
\* also when the claim is resized or replaced by another.
DescribesItsClaims ==
  \A r \in Runs : <>[]Usable(r) =>
    <>[](\A i \in DOMAIN volumes[r] :
           LET claim == claims[volumes[r][i].name]
           IN  /\ claim # NoClaim
               /\ volumes[r][i].size = claim.size /\ volumes[r][i].class = claim.class)
================================================================================
