---------------------------- MODULE VolumesProofs ----------------------------
(***************************************************************************)
(* Safety of the claims of runs, for any number of pipelines and runs, for *)
(* every list of volumes and any number of failures and edits.             *)
(***************************************************************************)
EXTENDS Volumes, TLAPS

\* What the pass knows of its run, of the volume it is at and of the claim it has
\* found: `seen` is the claim until somebody else writes that claim.
PassKnows ==
  /\ pc # "idle" => cur \in Runs
  /\ pc \in {"create", "adopt", "own"} => idx \in DOMAIN list
  /\ pc \in {"adopt", "own"} => seen \in Claim
  /\ pc \in {"adopt", "own"} /\ fresh => claims[Here.name] = seen

\* The controller rewrites the volumes of runs, but neither the name nor the
\* lifecycle of a volume.
LifecycleKept(l) == \A i \in DOMAIN l : l[i].lifecycle \in Asked(l[i].name)
LifecyclesKept == LifecycleKept(list) /\ \A r \in Runs : LifecycleKept(volumes[r])

IInv == TypeOK /\ PassKnows /\ LifecyclesKept /\ DependsAsAsked /\ NoJobsWithoutClaims

--------------------------------------------------------------------------------
(* Lemmas about volumes and claims. *)

\* Every volume that a user writes has a name of Names and a lifecycle that its
\* name is asked for with.
LEMMA Written ==
  \A l \in VolumeLists : l \in Seq(Volume) /\ LifecycleKept(l)
BY VolumesAssumption DEF VolumesAssumption, LifecycleKept, Asked

\* A volume of a list.
LEMMA VolumeAt ==
  ASSUME NEW l \in Seq(Volume), NEW i \in DOMAIN l
  PROVE  l[i] \in Volume /\ l[i].name \in Names /\ i \in Nat \ {0}
<1>1. l[i] \in Volume /\ i \in Nat \ {0}
  OBVIOUS
<1>2. \A v \in Volume : v.name \in Names
  BY DEF Volume
<1> QED BY <1>1, <1>2

\* A claim is not the absence of one.
LEMMA ClaimExists == \A c \in Claim : c # NoClaim
BY DEF Claim, NoClaim

\* The references that the pass writes are of its run and of its pipeline.
LEMMA OwnersType ==
  ASSUME NEW v \in Volume, cur \in Runs, curUid \in 0..MaxUid, owner \in 0..MaxUid
  PROVE  /\ OwnersFor(v) \subseteq References
         /\ \A ref \in OwnersFor(v) :
              IF ref[1] \in Runs THEN v.lifecycle = "run" ELSE v.lifecycle \in {"", "pipeline"}
<1>1. /\ PipelineOf[cur] \in Pipelines /\ PipelineOf[cur] \notin Runs
      /\ v.lifecycle \in {"", "persistent", "pipeline", "run"}
  BY VolumesAssumption DEF VolumesAssumption, Volume, Lifecycles
<1>2. \/ v.lifecycle = "persistent" /\ OwnersFor(v) = {}
      \/ v.lifecycle = "run" /\ OwnersFor(v) = {<<cur, curUid>>}
      \/ v.lifecycle \in {"", "pipeline"} /\ OwnersFor(v) = {<<PipelineOf[cur], owner>>}
  BY <1>1 DEF OwnersFor
<1>3. <<cur, curUid>> \in References /\ <<PipelineOf[cur], owner>> \in References
  BY <1>1 DEF References, Objects
<1>4. CASE v.lifecycle = "persistent"
  BY <1>2, <1>4
<1>5. CASE v.lifecycle = "run"
  <2>1. OwnersFor(v) = {<<cur, curUid>>}
    BY <1>2, <1>5
  <2> QED BY <1>3, <1>5, <2>1
<1>6. CASE v.lifecycle \in {"", "pipeline"}
  <2>1. OwnersFor(v) = {<<PipelineOf[cur], owner>>}
    BY <1>2, <1>6
  <2>2. \A ref \in OwnersFor(v) : ref[1] \notin Runs
    <3>1. SUFFICES ASSUME NEW ref \in OwnersFor(v) PROVE ref[1] \notin Runs
      OBVIOUS
    <3>2. ref = <<PipelineOf[cur], owner>>
      BY <2>1, <3>1
    <3>3. ref[1] = PipelineOf[cur]
      BY <3>2
    <3> QED BY <1>1, <3>3
  <2>3. OwnersFor(v) \subseteq References
    BY <1>3, <2>1
  <2> QED BY <1>6, <2>2, <2>3, Zenon
<1> QED BY <1>1, <1>4, <1>5, <1>6

\* A claim made for a volume with a capacity, and one given other owners.
LEMMA ClaimType ==
  ASSUME NEW v \in Volume, cur \in Runs, curUid \in 0..MaxUid, owner \in 0..MaxUid
  PROVE  /\ v.size # BadSize => ClaimOf(v) \in Claim
         /\ \A c \in Claim : [c EXCEPT !.owners = KeptOwners(c) \cup OwnersFor(v)] \in Claim
<1>1. OwnersFor(v) \in SUBSET References
  BY OwnersType
<1>2. DefaultClass \in Classes
  BY VolumesAssumption DEF VolumesAssumption
<1>3. v.size # BadSize => v.size \in 1..MaxSize
  BY VolumesAssumption DEF VolumesAssumption, Volume, BadSize
<1>4. v.size # BadSize => ClaimOf(v) \in Claim
  BY <1>1, <1>2, <1>3 DEF ClaimOf, Claim, Volume
<1>5. \A c \in Claim : [c EXCEPT !.owners = KeptOwners(c) \cup OwnersFor(v)] \in Claim
  BY <1>1 DEF KeptOwners, Claim
<1> QED BY <1>4, <1>5

\* An adopted volume.
LEMMA AdoptedType ==
  ASSUME NEW v \in Volume, NEW c \in Claim
  PROVE  /\ Adopted(v, c) \in Volume
         /\ Adopted(v, c).name = v.name /\ Adopted(v, c).lifecycle = v.lifecycle
<1>1. c.size \in BadSize..MaxSize /\ c.class \in Classes /\ DefaultModes \in Modes
  BY VolumesAssumption DEF VolumesAssumption, Claim, BadSize, DefaultModes, Modes
<1> QED BY <1>1 DEF Adopted, Volume

--------------------------------------------------------------------------------
(* The start. *)

\* The invariant holds before anything runs.
LEMMA InitHolds == Init => IInv
<1> SUFFICES ASSUME Init PROVE IInv
  OBVIOUS
<1>1. /\ 0 \in 0..MaxUid /\ 1 \in 0..MaxUid
      /\ 0 \in 0..MaxFailures /\ 0 \in 0..MaxEdits /\ <<>> \in Seq(Volume)
  BY VolumesAssumption DEF VolumesAssumption
<1>2. volumes \in [Runs -> Seq(Volume)] /\ list \in Seq(Volume)
  BY <1>1 DEF Init
<1>3. /\ alive \in [Objects -> BOOLEAN] /\ uid \in [Objects -> 0..MaxUid]
      /\ claims \in [Names -> Claim \cup {NoClaim}]
  BY <1>1 DEF Init
<1>6. TypeOK
  <2>1. fresh \in BOOLEAN
    BY DEF Init
  <2> QED BY <1>1, <1>2, <1>3, <2>1 DEF Init, TypeOK
<1>4. PassKnows /\ DependsAsAsked /\ NoJobsWithoutClaims
  BY DEF Init, PassKnows, DependsAsAsked, NoJobsWithoutClaims
<1>5. LifecyclesKept
  BY DEF Init, LifecyclesKept, LifecycleKept
<1> QED BY <1>4, <1>5, <1>6 DEF IInv

--------------------------------------------------------------------------------
(* Steps.  Most leave the claims alone, or the pass. *)

\* Failures and edits stay within their bounds.
LEMMA BoundsType ==
  ASSUME TypeOK
  PROVE  /\ Failure => failures' \in 0..MaxFailures /\ UNCHANGED edits
         /\ Edit => edits' \in 0..MaxEdits /\ UNCHANGED failures
BY VolumesAssumption DEF VolumesAssumption, TypeOK, Failure, Edit

\* The end of a pass, whatever ends it.
LEMMA LeaveHolds ==
  ASSUME IInv, Leave, UNCHANGED <<objects, volumes, claims>>,
         queue' \subseteq Runs, failures' \in 0..MaxFailures, edits' \in 0..MaxEdits
  PROVE  IInv'
<1> USE DEF IInv, Leave
<1>1. 0 \in 0..MaxUid /\ <<>> \in Seq(Volume)
  BY VolumesAssumption DEF VolumesAssumption
<1>2. TypeOK'
  <2>1. /\ alive' \in [Objects -> BOOLEAN] /\ uid' \in [Objects -> 0..MaxUid]
        /\ spec' \in [Pipelines -> VolumeLists] /\ volumes' \in [Runs -> Seq(Volume)]
        /\ claims' \in [Names -> Claim \cup {NoClaim}]
    BY DEF TypeOK, objects
  <2>2. fresh' \in BOOLEAN
    OBVIOUS
  <2> QED BY <1>1, <2>1, <2>2 DEF TypeOK
<1>3. PassKnows' /\ NoJobsWithoutClaims'
  BY DEF PassKnows, NoJobsWithoutClaims
<1>4. LifecyclesKept'
  BY DEF LifecyclesKept, LifecycleKept
<1>5. DependsAsAsked'
  BY DEF DependsAsAsked
<1> QED BY <1>2, <1>3, <1>4, <1>5

\* The objects and the queue change; the volumes of a run may be those of its
\* pipeline.
LEMMA ObjectsHold ==
  ASSUME IInv, UNCHANGED <<claims, worker, removed>>,
         alive' \in [Objects -> BOOLEAN], uid' \in [Objects -> 0..MaxUid],
         spec' \in [Pipelines -> VolumeLists],
         volumes' \in [Runs -> Seq(Volume)],
         \A r \in Runs : volumes'[r] = volumes[r] \/ volumes'[r] \in VolumeLists,
         queue' \subseteq Runs, failures' \in 0..MaxFailures, edits' \in 0..MaxEdits
  PROVE  IInv'
<1> USE DEF IInv
<1>1. TypeOK'
  BY DEF TypeOK, worker
<1>2. PassKnows' /\ NoJobsWithoutClaims' /\ DependsAsAsked'
  BY DEF PassKnows, NoJobsWithoutClaims, DependsAsAsked, worker, Here
<1>3. LifecycleKept(list)' /\ \A r \in Runs : LifecycleKept(volumes'[r])
  BY Written DEF LifecyclesKept, worker, LifecycleKept
<1>4. LifecyclesKept'
  BY <1>3 DEF LifecyclesKept, LifecycleKept
<1> QED BY <1>1, <1>2, <1>4

\* The claim of the volume that the pass is at is written, and the pass goes on
\* to the next volume.
LEMMA NextVolumeHolds ==
  ASSUME IInv, NextVolume, pc \in {"create", "own"}, NEW c \in Claim,
         claims' = [claims EXCEPT ![Here.name] = c],
         c.owners \subseteq OwnersFor(Here),
         UNCHANGED <<objects, volumes, queue, bounds>>
  PROVE  IInv'
<1> USE DEF IInv, NextVolume
<1>1. /\ cur \in Runs /\ idx \in DOMAIN list /\ list \in Seq(Volume)
      /\ curUid \in 0..MaxUid /\ owner \in 0..MaxUid
      /\ claims \in [Names -> Claim \cup {NoClaim}]
  BY DEF PassKnows, TypeOK
<1>2. Here \in Volume /\ Here.name \in Names /\ idx \in Nat \ {0}
  BY <1>1, VolumeAt DEF Here
<1>3. TypeOK'
  <2>1. claims' \in [Names -> Claim \cup {NoClaim}]
    BY <1>1, <1>2
  <2>2. idx' \in Nat \ {0}
    BY <1>2
  <2>3. /\ alive' \in [Objects -> BOOLEAN] /\ uid' \in [Objects -> 0..MaxUid]
        /\ spec' \in [Pipelines -> VolumeLists] /\ volumes' \in [Runs -> Seq(Volume)]
        /\ failures' \in 0..MaxFailures /\ edits' \in 0..MaxEdits /\ queue' \subseteq Runs
    BY DEF TypeOK, objects, bounds
  <2> QED BY <2>1, <2>2, <2>3 DEF TypeOK, Stages
<1>4. PassKnows'
  BY <1>1 DEF PassKnows
<1>5. LifecyclesKept'
  BY DEF LifecyclesKept, LifecycleKept
<1>6. DependsAsAsked'
  <2>1. Here.lifecycle \in Asked(Here.name)
    BY <1>1 DEF LifecyclesKept, LifecycleKept, Here
  <2>2. \A ref \in c.owners :
          IF ref[1] \in Runs THEN Here.lifecycle = "run"
                             ELSE Here.lifecycle \in {"", "pipeline"}
    BY <1>1, <1>2, OwnersType
  <2>3. \A ref \in c.owners :
          IF ref[1] \in Runs THEN "run" \in Asked(Here.name)
                             ELSE Asked(Here.name) \cap {"", "pipeline"} # {}
    BY <2>1, <2>2
  <2>4. \A n \in Names : claims'[n] = IF n = Here.name THEN c ELSE claims[n]
    BY <1>1, <1>2
  <2> QED BY <2>3, <2>4 DEF DependsAsAsked
<1>7. NoJobsWithoutClaims'
  <2>1. \A n \in Names : claims'[n] = IF n = Here.name THEN c ELSE claims[n]
    BY <1>1, <1>2
  <2>2. \A i \in DOMAIN list : list[i].name \in Names /\ i \in Nat
    BY <1>1, VolumeAt
  <2>3. SUFFICES ASSUME NEW i \in DOMAIN list, i < idx + 1
                 PROVE  claims'[list[i].name] # NoClaim \/ list[i].name \in removed
    BY DEF NoJobsWithoutClaims
  <2>4. CASE i = idx
    BY <2>1, <2>2, <2>4, ClaimExists DEF Here
  <2>5. CASE i < idx
    <3>1. pc # "idle"
      OBVIOUS
    <3>2. claims[list[i].name] # NoClaim \/ list[i].name \in removed
      BY <2>5, <3>1 DEF NoJobsWithoutClaims
    <3> QED BY <2>1, <2>2, <3>2, ClaimExists
  <2> QED BY <1>2, <2>2, <2>3, <2>4, <2>5
<1> QED BY <1>3, <1>4, <1>5, <1>6, <1>7

\* A claim is written or removed by another: the pass no longer has it as it is.
LEMMA PutClaimHolds ==
  ASSUME IInv, NEW n \in Names, NEW c \in Claim \cup {NoClaim}, PutClaim(n, c),
         c # NoClaim => \/ c.owners = {}
                        \/ claims[n] # NoClaim /\ c.owners = claims[n].owners,
         failures' \in 0..MaxFailures, edits' \in 0..MaxEdits
  PROVE  IInv'
<1> USE DEF IInv, PutClaim
<1>1. \A m \in Names : claims'[m] = IF m = n THEN c ELSE claims[m]
  BY DEF TypeOK
<1>2. TypeOK'
  BY DEF TypeOK, objects
<1>3. PassKnows'
  <2>1. \A i \in DOMAIN list : list[i].name \in Names
    BY VolumeAt DEF TypeOK
  <2>2. pc \in {"adopt", "own"} /\ fresh' => fresh /\ Here.name # n /\ Here.name \in Names
    BY <2>1 DEF PassKnows, Here
  <2>3. pc \in {"adopt", "own"} /\ fresh' => claims'[Here.name] = seen
    BY <1>1, <2>2 DEF PassKnows
  <2> QED BY <2>3 DEF PassKnows, Here
<1>4. LifecyclesKept'
  BY DEF LifecyclesKept, LifecycleKept
<1>5. DependsAsAsked'
  BY <1>1 DEF DependsAsAsked
<1>6. NoJobsWithoutClaims'
  <2>1. \A i \in DOMAIN list : list[i].name \in Names
    BY VolumeAt DEF TypeOK
  <2> QED BY <1>1, <2>1 DEF NoJobsWithoutClaims
<1> QED BY <1>2, <1>3, <1>4, <1>5, <1>6

--------------------------------------------------------------------------------
(* Every step of the system. *)

\* The steps of the pass.
LEMMA StepHolds == IInv /\ Step => IInv'
<1> SUFFICES ASSUME IInv, Step PROVE IInv'
  OBVIOUS
<1> USE DEF IInv
<1>1. /\ TypeOK /\ failures \in 0..MaxFailures /\ edits \in 0..MaxEdits
      /\ {r \in Runs : alive[r]} \subseteq Runs
      /\ pc # "idle" => queue \cup {cur} \subseteq Runs
  BY DEF TypeOK, PassKnows
<1>2. ASSUME pc \in {"create", "own"} \cup {"adopt", "lookup"}, idx \in DOMAIN list
      PROVE  /\ cur \in Runs /\ Here \in Volume /\ Here.name \in Names
             /\ curUid \in 0..MaxUid /\ owner \in 0..MaxUid
  BY <1>2, VolumeAt DEF PassKnows, TypeOK, Here
<1>3. CASE LookUpClaim
  <2>1. /\ cur \in Runs /\ Here.name \in Names /\ idx \in DOMAIN list
        /\ claims[Here.name] \in Claim \cup {NoClaim}
    BY <1>2, <1>3 DEF LookUpClaim, AtVolume, TypeOK
  <2>2. TypeOK'
    <3>1. pc' \in Stages /\ fresh' \in BOOLEAN /\ seen' \in Claim \cup {NoClaim}
      BY <1>3, <2>1 DEF LookUpClaim, Stages
    <3> QED BY <1>3, <3>1 DEF LookUpClaim, TypeOK, objects, bounds
  <2>3. PassKnows'
    BY <1>3, <2>1 DEF LookUpClaim, PassKnows, Here
  <2>4. LifecyclesKept' /\ DependsAsAsked'
    BY <1>3 DEF LookUpClaim, LifecyclesKept, LifecycleKept, DependsAsAsked
  <2>5. NoJobsWithoutClaims'
    BY <1>3 DEF LookUpClaim, AtVolume, NoJobsWithoutClaims
  <2> QED BY <2>2, <2>3, <2>4, <2>5
<1>4. CASE CreateClaim
  <2>1. ClaimOf(Here) \in Claim /\ ClaimOf(Here).owners = OwnersFor(Here)
    <3>1. ClaimOf(Here) \in Claim
      BY <1>2, <1>4, ClaimType DEF CreateClaim, AtVolume
    <3> QED BY <3>1 DEF ClaimOf
  <2> QED BY <1>4, <2>1, NextVolumeHolds DEF CreateClaim, AtVolume
<1>5. CASE OwnClaim
  <2> DEFINE c == [seen EXCEPT !.owners = KeptOwners(seen) \cup OwnersFor(Here)]
  <2>1. seen \in Claim
    BY <1>5 DEF OwnClaim, AtVolume, PassKnows
  <2>2. c \in Claim
    BY <1>2, <1>5, <2>1, ClaimType DEF OwnClaim, AtVolume
  <2>3. c.owners = OwnersFor(Here)
    BY <2>1 DEF KeptOwners, Claim
  <2>4. claims' = [claims EXCEPT ![Here.name] = c]
    BY <1>5 DEF OwnClaim
  <2> HIDE DEF c
  <2> QED BY <1>5, <2>2, <2>3, <2>4, NextVolumeHolds DEF OwnClaim, AtVolume
<1>6. CASE DescribeClaim
  <2> DEFINE v == Adopted(Here, seen)
  <2>1. cur \in Runs /\ Here \in Volume /\ seen \in Claim /\ idx \in DOMAIN list
    BY <1>2, <1>6 DEF DescribeClaim, AtVolume, PassKnows
  <2>2. v \in Volume /\ v.name = Here.name /\ v.lifecycle = Here.lifecycle
    BY <2>1, AdoptedType
  <2>3. list' = [list EXCEPT ![idx] = v] /\ volumes' = [volumes EXCEPT ![cur] = list']
    BY <1>6 DEF DescribeClaim
  <2> HIDE DEF v
  <2>4. /\ list' \in Seq(Volume) /\ DOMAIN list' = DOMAIN list
        /\ \A i \in DOMAIN list : list'[i] = IF i = idx THEN v ELSE list[i]
    BY <2>1, <2>2, <2>3 DEF TypeOK
  <2>5. volumes' \in [Runs -> Seq(Volume)]
    BY <2>3, <2>4 DEF TypeOK
  <2>6. \A i \in DOMAIN list : /\ list'[i].name = list[i].name
                               /\ list'[i].lifecycle = list[i].lifecycle
    BY <2>2, <2>4 DEF Here
  <2>7. TypeOK'
    BY <1>1, <1>6, <2>4, <2>5 DEF DescribeClaim, AtVolume, TypeOK, Stages, objects, bounds
  <2>8. PassKnows'
    BY <1>6, <2>1, <2>4, <2>6 DEF DescribeClaim, AtVolume, PassKnows, Here
  <2>9. LifecyclesKept'
    <3>1. LifecycleKept(list')
      BY <2>4, <2>6 DEF LifecyclesKept, LifecycleKept
    <3>2. \A r \in Runs : volumes'[r] = IF r = cur THEN list' ELSE volumes[r]
      BY <2>3 DEF TypeOK
    <3> QED BY <3>1, <3>2 DEF LifecyclesKept, LifecycleKept
  <2>10. DependsAsAsked'
    BY <1>6 DEF DescribeClaim, DependsAsAsked
  <2>11. NoJobsWithoutClaims'
    BY <1>6, <2>4, <2>6 DEF DescribeClaim, AtVolume, NoJobsWithoutClaims
  <2> QED BY <2>7, <2>8, <2>9, <2>10, <2>11
<1>7. CASE CreateFailed \/ RunGone \/ OwnRejected
  BY <1>1, <1>7, LeaveHolds
  DEF CreateFailed, RunGone, OwnRejected, FailPass, AtVolume, bounds
<1>8. CASE Panic
  BY <1>1, <1>8, LeaveHolds DEF Panic, StopProcess, bounds
<1>9. CASE GoToJobs
  BY <1>1, <1>9, LeaveHolds DEF GoToJobs, bounds, TypeOK
<1> QED BY <1>3, <1>4, <1>5, <1>6, <1>7, <1>8, <1>9 DEF Step

\* The start of a pass.
LEMMA TakeHolds == \A r \in Runs : IInv /\ Take(r) => IInv'
<1> SUFFICES ASSUME NEW r \in Runs, IInv, Take(r) PROVE IInv'
  OBVIOUS
<1> USE DEF IInv
<1>1. CASE DropReconcile(r)
  BY <1>1, ObjectsHold DEF DropReconcile, objects, bounds, TypeOK
<1>2. CASE StartPass(r)
  <2>1. /\ r \in Objects /\ PipelineOf[r] \in Objects /\ volumes[r] \in Seq(Volume)
        /\ uid[r] \in 0..MaxUid /\ uid[PipelineOf[r]] \in 0..MaxUid
    BY VolumesAssumption DEF VolumesAssumption, Objects, TypeOK
  <2>2. TypeOK'
    <3>1. pc' \in Stages /\ cur' \in Runs /\ idx' \in Nat \ {0} /\ queue' \subseteq Runs
      BY <1>2 DEF StartPass, Stages, TypeOK
    <3>2. curUid' \in 0..MaxUid /\ owner' \in 0..MaxUid /\ list' \in Seq(Volume)
      BY <1>2, <2>1 DEF StartPass
    <3> QED BY <1>2, <3>1, <3>2 DEF StartPass, TypeOK, objects, bounds
  <2>3. PassKnows' /\ DependsAsAsked'
    BY <1>2 DEF StartPass, PassKnows, DependsAsAsked
  <2>4. LifecyclesKept'
    BY <1>2 DEF StartPass, LifecyclesKept, LifecycleKept
  <2>5. NoJobsWithoutClaims'
    <3>1. \A i \in DOMAIN volumes[r] : ~(i < 1)
      BY <2>1
    <3> QED BY <1>2, <3>1 DEF StartPass, NoJobsWithoutClaims
  <2> QED BY <2>2, <2>3, <2>4, <2>5
<1> QED BY <1>1, <1>2 DEF Take

\* What the others do to the objects.
LEMMA OthersHold ==
  ASSUME IInv
  PROVE  /\ \A r \in Runs : CreateRun(r) \/ Resync(r) => IInv'
         /\ \A p \in Pipelines : RecreatePipeline(p) => IInv'
         /\ \A p \in Pipelines, new \in VolumeLists : EditPipeline(p, new) => IInv'
         /\ \A o \in Objects : Delete(o) => IInv'
<1> USE DEF IInv
<1>1. /\ TypeOK /\ VolumeLists \subseteq Seq(Volume)
      /\ failures \in 0..MaxFailures /\ edits \in 0..MaxEdits
      /\ MaxUid \in Nat /\ Runs \subseteq Objects /\ Pipelines \subseteq Objects
      /\ \A r \in Runs : PipelineOf[r] \in Pipelines
  BY VolumesAssumption DEF VolumesAssumption, TypeOK, Objects
<1>2. ASSUME NEW o \in Objects, Create(o)
      PROVE  alive' \in [Objects -> BOOLEAN] /\ uid' \in [Objects -> 0..MaxUid]
  BY <1>1, <1>2 DEF Create, TypeOK
<1>3. ASSUME NEW r \in Runs, CreateRun(r) PROVE IInv'
  <2>1. /\ volumes' \in [Runs -> Seq(Volume)]
        /\ \A q \in Runs : volumes'[q] = volumes[q] \/ volumes'[q] \in VolumeLists
    BY <1>1, <1>3 DEF CreateRun, TypeOK
  <2>2. queue' \subseteq Runs /\ spec' \in [Pipelines -> VolumeLists]
    BY <1>3 DEF CreateRun, TypeOK
  <2>3. alive' \in [Objects -> BOOLEAN] /\ uid' \in [Objects -> 0..MaxUid]
    BY <1>1, <1>2, <1>3 DEF CreateRun
  <2> QED BY <1>1, <1>3, <2>1, <2>2, <2>3, ObjectsHold DEF CreateRun, bounds
<1>4. ASSUME NEW r \in Runs, Resync(r) PROVE IInv'
  BY <1>4, ObjectsHold DEF Resync, objects, bounds, TypeOK
<1>5. ASSUME NEW p \in Pipelines, RecreatePipeline(p) PROVE IInv'
  <2>1. alive' \in [Objects -> BOOLEAN] /\ uid' \in [Objects -> 0..MaxUid]
    BY <1>1, <1>2, <1>5 DEF RecreatePipeline
  <2> QED BY <1>5, <2>1, ObjectsHold DEF RecreatePipeline, bounds, TypeOK
<1>6. ASSUME NEW p \in Pipelines, NEW new \in VolumeLists, EditPipeline(p, new)
      PROVE  IInv'
  BY <1>6, BoundsType, ObjectsHold DEF EditPipeline, TypeOK
<1>7. ASSUME NEW o \in Objects, Delete(o) PROVE IInv'
  BY <1>7, BoundsType, ObjectsHold DEF Delete, TypeOK
<1> QED BY <1>3, <1>4, <1>5, <1>6, <1>7

\* What the others do to the claims.
LEMMA ClaimsHold ==
  ASSUME IInv, NEW n \in Names
  PROVE  /\ CollectClaim(n) \/ ResizeClaim(n) \/ DeleteClaim(n) => IInv'
         /\ \A class \in Classes : ProvideClaim(n, class) => IInv'
<1> USE DEF IInv
<1>1. claims[n] \in Claim \cup {NoClaim} /\ 1 \in 1..MaxSize
  BY VolumesAssumption DEF VolumesAssumption, TypeOK, BadSize
<1>2. ASSUME CollectClaim(n) \/ DeleteClaim(n) PROVE IInv'
  BY <1>2, BoundsType, PutClaimHolds DEF CollectClaim, DeleteClaim, bounds, TypeOK
<1>3. ASSUME ResizeClaim(n) PROVE IInv'
  <2> DEFINE c == [claims[n] EXCEPT !.size = @ + 1]
  <2>1. c \in Claim /\ c.owners = claims[n].owners
    <3>1. claims[n] \in Claim /\ claims[n].size < MaxSize
      BY <1>1, <1>3 DEF ResizeClaim
    <3>2. MaxSize \in Nat /\ claims[n].size \in 1..MaxSize
      BY <3>1, VolumesAssumption DEF VolumesAssumption, Claim
    <3>3. claims[n].size + 1 \in 1..MaxSize
      BY <3>1, <3>2
    <3> QED BY <3>1, <3>3 DEF Claim
  <2>2. PutClaim(n, c) /\ claims[n] # NoClaim /\ Edit
    BY <1>3 DEF ResizeClaim
  <2> HIDE DEF c
  <2> QED BY <2>1, <2>2, BoundsType, PutClaimHolds DEF TypeOK
<1>4. ASSUME NEW class \in Classes, ProvideClaim(n, class) PROVE IInv'
  <2> DEFINE c == [ exists |-> TRUE, size |-> 1, class |-> class,
                    modes |-> DefaultModes, owners |-> {} ]
  <2>1. c \in Claim /\ c.owners = {}
    BY <1>1 DEF Claim, DefaultModes, Modes
  <2>2. PutClaim(n, c) /\ Edit
    BY <1>4 DEF ProvideClaim
  <2> HIDE DEF c
  <2> QED BY <2>1, <2>2, BoundsType, PutClaimHolds DEF TypeOK
<1> QED BY <1>2, <1>3, <1>4

\* Every step keeps the invariant.
LEMMA NextHolds == IInv /\ [Next]_vars => IInv'
<1> SUFFICES ASSUME IInv, [Next]_vars PROVE IInv'
  OBVIOUS
<1>1. TypeOK /\ {r \in Runs : alive[r]} \subseteq Runs
  BY DEF IInv
<1>2. CASE Step
  BY <1>2, StepHolds
<1>3. CASE ApiError
  <2>1. queue \cup {cur} \subseteq Runs
    BY <1>3 DEF ApiError, IInv, PassKnows, TypeOK, Stages
  <2> QED BY <1>1, <1>3, <2>1, BoundsType, LeaveHolds DEF ApiError, FailPass, TypeOK
<1>4. CASE Restart
  BY <1>1, <1>4, BoundsType, LeaveHolds DEF Restart, StopProcess, TypeOK
<1>5. CASE \E r \in Runs : Take(r) \/ CreateRun(r) \/ Resync(r)
  BY <1>5, TakeHolds, OthersHold
<1>6. CASE \E n \in Names :
             \/ CollectClaim(n) \/ ResizeClaim(n) \/ DeleteClaim(n)
             \/ \E class \in Classes : ProvideClaim(n, class)
  BY <1>6, ClaimsHold
<1>7. CASE \/ \E p \in Pipelines :
                \/ RecreatePipeline(p)
                \/ \E new \in VolumeLists : EditPipeline(p, new)
           \/ \E o \in Objects : Delete(o)
  BY <1>7, OthersHold
<1>8. CASE UNCHANGED vars
  BY <1>1, <1>8, ObjectsHold DEF vars, objects, bounds, TypeOK
<1> QED BY <1>2, <1>3, <1>4, <1>5, <1>6, <1>7, <1>8 DEF Next

--------------------------------------------------------------------------------
(* Theorems *)

\* The invariant, from which the others follow.
THEOREM Invariant == Spec => []IInv
BY InitHolds, NextHolds, PTL DEF Spec

\* Every variable has its type.
THEOREM TypeCorrect == Spec => []TypeOK
<1>1. IInv => TypeOK
  BY DEF IInv
<1> QED BY <1>1, Invariant, PTL

\* A claim depends on what a volume of its name asks for and on nothing else,
\* whichever runs share it: lifecycles are kept through every adoption.
THEOREM ClaimsDependAsAsked == Spec => []DependsAsAsked
<1>1. IInv => DependsAsAsked
  BY DEF IInv
<1> QED BY <1>1, Invariant, PTL

\* No pass comes to its jobs past a volume without a claim.
THEOREM ClaimsBeforeJobs == Spec => []NoJobsWithoutClaims
<1>1. IInv => NoJobsWithoutClaims
  BY DEF IInv
<1> QED BY <1>1, Invariant, PTL

\* A step that writes a claim which stays keeps its size: the pass writes the
\* claim that it has read and nobody has written since, a user makes it larger.
LEMMA SizeStep ==
  ASSUME IInv, [Next]_vars, NEW n \in Names, claims[n] # NoClaim, claims'[n] # NoClaim
  PROVE  claims'[n].size >= claims[n].size
<1> USE DEF IInv
<1>1. claims \in [Names -> Claim \cup {NoClaim}] /\ claims[n].size \in Int
  <2>1. claims[n] \in Claim
    BY DEF TypeOK
  <2>2. \A c \in Claim : c.size \in Int
    BY DEF Claim
  <2> QED BY <2>1, <2>2 DEF TypeOK
<1>2. CASE claims' = claims
  BY <1>1, <1>2
<1>3. CASE CreateClaim
  <2>1. claims[Here.name] = NoClaim /\ claims' = [claims EXCEPT ![Here.name] = ClaimOf(Here)]
    BY <1>3 DEF CreateClaim
  <2>2. claims'[n] = claims[n]
    BY <1>1, <2>1
  <2> QED BY <1>1, <2>2
<1>4. CASE OwnClaim
  <2>1. /\ claims[Here.name] = seen /\ seen \in Claim
        /\ claims' = [claims EXCEPT ![Here.name] =
                        [seen EXCEPT !.owners = KeptOwners(seen) \cup OwnersFor(Here)]]
    BY <1>4 DEF OwnClaim, AtVolume, PassKnows
  <2>2. claims'[n].size = claims[n].size
    BY <1>1, <2>1 DEF Claim
  <2> QED BY <1>1, <2>2
<1>5. ASSUME NEW m \in Names,
             \/ CollectClaim(m) \/ ResizeClaim(m) \/ DeleteClaim(m)
             \/ \E class \in Classes : ProvideClaim(m, class)
      PROVE  claims'[n].size >= claims[n].size
  <2>1. CASE ResizeClaim(m)
    <3>1. claims' = [claims EXCEPT ![m] = [claims[m] EXCEPT !.size = @ + 1]]
      BY <2>1 DEF ResizeClaim, PutClaim
    <3>2. claims[m] \in Claim
      BY <1>1, <2>1 DEF ResizeClaim
    <3>3. claims'[n] = IF n = m THEN [claims[m] EXCEPT !.size = @ + 1] ELSE claims[n]
      BY <1>1, <3>1
    <3>4. [claims[m] EXCEPT !.size = @ + 1].size = claims[m].size + 1
      BY <3>2 DEF Claim
    <3> QED BY <1>1, <3>3, <3>4
  <2>2. CASE CollectClaim(m) \/ DeleteClaim(m)
    <3>1. claims' = [claims EXCEPT ![m] = NoClaim]
      BY <2>2 DEF CollectClaim, DeleteClaim, PutClaim
    <3>2. claims'[n] = claims[n]
      BY <1>1, <3>1
    <3> QED BY <1>1, <3>2
  <2>3. CASE \E class \in Classes : ProvideClaim(m, class)
    <3>1. PICK c : claims' = [claims EXCEPT ![m] = c] /\ claims[m] = NoClaim
      BY <2>3 DEF ProvideClaim, PutClaim
    <3>2. claims'[n] = claims[n]
      BY <1>1, <3>1
    <3> QED BY <1>1, <3>2
  <2> QED BY <1>5, <2>1, <2>2, <2>3
<1>6. CASE UNCHANGED vars
  BY <1>2, <1>6 DEF vars
<1>7. CASE Step
  <2>1. CreateClaim \/ OwnClaim \/ claims' = claims
    BY <1>7 DEF Step, LookUpClaim, CreateFailed, Panic, DescribeClaim, RunGone, OwnRejected,
                GoToJobs
  <2> QED BY <1>2, <1>3, <1>4, <2>1
<1>8. CASE ApiError \/ Restart
  BY <1>2, <1>8 DEF ApiError, Restart
<1>9. CASE \E r \in Runs : Take(r) \/ CreateRun(r) \/ Resync(r)
  BY <1>2, <1>9 DEF Take, DropReconcile, StartPass, CreateRun, Resync
<1>10. CASE \/ \E p \in Pipelines :
                \/ RecreatePipeline(p)
                \/ \E new \in VolumeLists : EditPipeline(p, new)
            \/ \E o \in Objects : Delete(o)
  BY <1>2, <1>10 DEF RecreatePipeline, EditPipeline, Delete
<1> QED BY <1>5, <1>6, <1>7, <1>8, <1>9, <1>10 DEF Next

\* The controller never takes back the size that a user gave a claim while the
\* controller was at it.
THEOREM ResizesStay == Spec => ResizeKept
<1>1. IInv /\ [Next]_vars =>
        [\A n \in Names : claims[n] # NoClaim /\ claims'[n] # NoClaim =>
           claims'[n].size >= claims[n].size]_vars
  BY SizeStep
<1> QED BY <1>1, Invariant, PTL DEF Spec, ResizeKept
================================================================================
