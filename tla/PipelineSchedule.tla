--------------------------- MODULE PipelineSchedule ---------------------------
(***************************************************************************)
(* The schedule of one Pipeline (internal/controller/pipeline_controller.go*)
(* and the Duration function of api/v1/pipeline_types.go).                 *)
(*                                                                         *)
(* The reconciler and the schedule handlers, one goroutine for each        *)
(* execution it has planned, share nothing but the pipeline's status in    *)
(* the API server.  All of them, and the run controller that reports the   *)
(* end of an execution, read the informer's copy of the pipeline and write *)
(* with the resource version of that copy: a write fails when the API      *)
(* server has moved on.                                                    *)
(*                                                                         *)
(* Times are counted in seconds, the resolution a time has in the API      *)
(* server; 0 is a time that is not set, and Go's zero time.                *)
(***************************************************************************)
EXTENDS Integers, Sequences

CONSTANTS
  Dates,         \* the schedule dates, other than the empty one
  Delay,         \* how far ahead of the start a date's next execution is
  NoSchedule,    \* a nil *Schedule
  Schedules,     \* the schedules the spec can have, NoSchedule among them or not
  InitSchedule,  \* the schedule the pipeline is created with
  Handlers,      \* bound on the handlers at one time: 1..n
  MaxTime,       \* bound on the clock
  MaxRuns,       \* bound on the runs created
  MaxFailures,   \* bound on failed calls, restarts and repeated end reports
  MaxIgnored,    \* bound on failed calls whose error is ignored
  MaxEdits       \* bound on the changes of the spec's schedule

Nil == 0
NoDate == ""

ScheduleType ==
  [ date : Dates \cup {NoDate}, startDate : Nat, endDate : Nat, repeat : BOOLEAN ]

ASSUME ScheduleAssumption ==
  /\ NoDate \notin Dates
  /\ Delay \in [Dates -> Nat]
  /\ NoSchedule \notin ScheduleType
  /\ Schedules \subseteq ScheduleType \cup {NoSchedule}
  /\ InitSchedule \in Schedules
  /\ Handlers \subseteq Nat
  /\ MaxTime \in Nat \ {0} /\ MaxRuns \in Nat
  /\ MaxFailures \in Nat /\ MaxIgnored \in Nat /\ MaxEdits \in Nat

VARIABLES
  spec,        \* pipeline.Spec.Schedule
  st,          \* the schedule fields of pipeline.Status
  lastUpdated, \* pipeline.Status.LastUpdatedDate
  annotation,  \* the schedule date in the pipeline's annotations
  cache,       \* the informer's copy: the fields above
  fresh,       \* nothing was written since the informer delivered the copy
  pc,          \* the reconciler: idle, or at one of three calls
  queued,      \* the pipeline is in the work queue
  timer,       \* the pipeline will be queued later (RequeueAfter)
  handlers,    \* the schedule handlers
  clock,
  open,        \* scheduled runs that have not ended
  done,        \* scheduled runs that have ended
  log,         \* ghost: the runs created, each with the plan it was created for
  failures, ignored, edits

pipeline == <<spec, st, lastUpdated, annotation>>
informer == <<cache, fresh>>
worker == <<pc, queued, timer>>
runs == <<open, done, log>>
bounds == <<failures, ignored, edits>>
vars == <<pipeline, informer, worker, handlers, clock, runs, bounds>>

NoStatus ==
  [ schedule |-> NoSchedule, start |-> Nil, pending |-> Nil,
    lastStart |-> Nil, lastEnd |-> Nil, repeated |-> 0 ]

Copy(sp, s, lu, a) == [spec |-> sp, st |-> s, lastUpdated |-> lu, annotation |-> a]

\* A handler sleeps until the pending date of the status it was started with;
\* once it has created its run, at a time, it has the status to write, which works
\* while the copy of the pipeline that it read is fresh.
Handler(phase, s, at, isFresh) == [phase |-> phase, st |-> s, at |-> at, fresh |-> isFresh]
NoHandler == Handler("none", NoStatus, Nil, FALSE)
Sleeper(s) == Handler("sleep", s, Nil, FALSE)

Init ==
  /\ spec = InitSchedule
  /\ st = NoStatus
  /\ lastUpdated = Nil
  /\ annotation = NoDate
  /\ cache = Copy(spec, st, lastUpdated, annotation)
  /\ fresh = TRUE
  /\ pc = "idle" /\ queued = TRUE /\ timer = FALSE
  /\ handlers = [h \in Handlers |-> NoHandler]
  /\ clock = 1
  /\ open = 0 /\ done = 0 /\ log = <<>>
  /\ failures = 0 /\ ignored = 0 /\ edits = 0

--------------------------------------------------------------------------------
(* The API server and the informer. *)

\* After a write no copy that was read before is good for another write.
Outdate ==
  /\ fresh' = FALSE
  /\ UNCHANGED cache

OutdatedHandlers == [h \in Handlers |-> [handlers[h] EXCEPT !.fresh = FALSE]]

\* The pipeline's status becomes s; a write that changes nothing is not a write.
PutStatus(s) ==
  /\ st' = s
  /\ IF s = st THEN UNCHANGED informer ELSE Outdate
  /\ UNCHANGED <<spec, lastUpdated, annotation>>

Sync ==
  /\ ~fresh
  /\ cache' = Copy(spec, st, lastUpdated, annotation)
  /\ fresh' = TRUE
  /\ queued' = TRUE
  /\ UNCHANGED <<pipeline, pc, timer, handlers, clock, runs, bounds>>

--------------------------------------------------------------------------------
(* Reconcile: updatePipelineStatus and ensurePipelineMetadata. *)

Goto(l) == pc' = l /\ UNCHANGED <<queued, timer>>
Finish == Goto("idle")
Retry == pc' = "idle" /\ queued' = TRUE /\ UNCHANGED timer

\* Variant: the pass ends without asking to be called again.
RequeueNever == pc' = "idle" /\ UNCHANGED <<timer, queued>>

Requeue == pc' = "idle" /\ timer' = TRUE /\ UNCHANGED queued

Start ==
  /\ pc = "idle" /\ queued
  /\ pc' = "status" /\ queued' = FALSE /\ UNCHANGED timer
  /\ UNCHANGED <<pipeline, informer, handlers, clock, runs, bounds>>

RefreshStatus ==
  /\ pc = "status" /\ fresh
  /\ lastUpdated' = clock
  /\ IF lastUpdated = clock
       THEN UNCHANGED <<informer, handlers>>
       ELSE Outdate /\ handlers' = OutdatedHandlers
  /\ Goto("metadata")
  /\ UNCHANGED <<spec, st, annotation, clock, runs, bounds>>

UpdateMetadata ==
  /\ pc = "metadata" /\ fresh
  /\ annotation' = IF spec # NoSchedule /\ spec.date # NoDate THEN spec.date ELSE annotation
  /\ IF annotation' = annotation
       THEN UNCHANGED <<informer, handlers>>
       ELSE Outdate /\ handlers' = OutdatedHandlers
  /\ Goto("schedule")
  /\ UNCHANGED <<spec, st, lastUpdated, clock, runs, bounds>>

\* The five attempts of RetryOnConflict are over before the informer delivers.
ConflictsExhausted ==
  /\ pc \in {"status", "metadata"} /\ ~fresh
  /\ Retry
  /\ UNCHANGED <<pipeline, informer, handlers, clock, runs, bounds>>

--------------------------------------------------------------------------------
(* ensureScheduleExecution, on the informer's copy. *)

\* Duration compares the zero value of its own variable with now, not the start
\* date it was given.
StartOf(s) == IF s.startDate = Nil \/ Nil < clock THEN clock ELSE s.startDate

\* The date plus what is left until the start, from now.
NextPending(s) == clock + (StartOf(s) - clock) + Delay[s.date]

\* The pending date is kept while it lies ahead; once it has passed and nothing
\* was ever executed it is forgotten.
KeepsPending(c) ==
  /\ c.st.pending # Nil /\ c.spec.date = c.st.schedule.date
  /\ c.st.pending > clock

Reviewed(c) ==
  IF /\ c.st.pending # Nil /\ c.spec.date = c.st.schedule.date
     /\ c.st.lastStart = Nil
  THEN [c.st EXCEPT !.pending = Nil] ELSE c.st

PreviousRunning(s) == s.lastStart # Nil /\ s.lastEnd = Nil

\* An update whose error is ignored.
TryStatus(s) ==
  IF fresh THEN PutStatus(s) /\ handlers' = IF s = st THEN handlers ELSE OutdatedHandlers
           ELSE UNCHANGED <<pipeline, informer, handlers>>

\* Variant: the pending date is left behind.
RemoveScheduleButPending ==
  /\ cache.spec = NoSchedule
  /\ TryStatus(IF cache.st.schedule = NoSchedule THEN cache.st
               ELSE [NoStatus EXCEPT !.pending = cache.st.pending])
  /\ Finish

RemoveSchedule ==
  /\ cache.spec = NoSchedule
  /\ TryStatus(IF cache.st.schedule = NoSchedule THEN cache.st ELSE NoStatus)
  /\ Finish

AwaitPending ==
  /\ cache.spec # NoSchedule /\ KeepsPending(cache)
  /\ Requeue
  /\ UNCHANGED <<pipeline, informer, handlers>>

AwaitPrevious ==
  /\ cache.spec # NoSchedule /\ ~KeepsPending(cache)
  /\ PreviousRunning(Reviewed(cache))
  /\ Finish
  /\ UNCHANGED <<pipeline, informer, handlers>>

\* The conditions under which the function comes to the date of the schedule.
AtDate ==
  /\ cache.spec # NoSchedule /\ ~KeepsPending(cache)
  /\ ~PreviousRunning(Reviewed(cache))

EmptyDate ==
  /\ AtDate /\ cache.spec.date = NoDate
  /\ TryStatus([Reviewed(cache) EXCEPT !.start = Nil])
  /\ Finish

PendingBeforeEnd ==
  LET s == Reviewed(cache)
  IN  cache.spec.endDate # Nil /\ s.pending # Nil /\ s.pending < cache.spec.endDate

DropPending ==
  /\ AtDate /\ cache.spec.date # NoDate /\ PendingBeforeEnd
  /\ TryStatus([Reviewed(cache) EXCEPT !.pending = Nil])
  /\ Finish

OnceDone == ~cache.spec.repeat /\ cache.st.repeated > 0

AlreadyExecuted ==
  /\ AtDate /\ cache.spec.date # NoDate /\ ~PendingBeforeEnd
  /\ OnceDone
  /\ Requeue
  /\ UNCHANGED <<pipeline, informer, handlers>>

AtPlan == AtDate /\ cache.spec.date # NoDate /\ ~PendingBeforeEnd /\ ~OnceDone

PastEnd(s) == s.endDate # Nil /\ NextPending(s) > s.endDate

NothingBeforeEnd ==
  /\ AtPlan /\ PastEnd(cache.spec)
  /\ Finish
  /\ UNCHANGED <<pipeline, informer, handlers>>

\* What is known of earlier executions is forgotten when the date is another one.
Planned ==
  LET s == Reviewed(cache)
      same == s.schedule # NoSchedule /\ s.schedule.date = cache.spec.date
      kept == IF same THEN s
              ELSE [s EXCEPT !.lastStart = Nil, !.lastEnd = Nil, !.repeated = 0]
  IN  [kept EXCEPT !.schedule = cache.spec, !.start = clock,
                   !.pending = NextPending(cache.spec)]

IsFree(h) == handlers[h].phase = "none"

\* The plan is written and a handler is started with it.
PlanExecution ==
  /\ AtPlan /\ ~PastEnd(cache.spec)
  /\ fresh
  /\ \E h \in Handlers :
       /\ IsFree(h) /\ \A g \in Handlers : g < h => ~IsFree(g)
       /\ PutStatus(Planned)
       /\ handlers' = [OutdatedHandlers EXCEPT ![h] = Sleeper(Planned)]
  /\ Requeue

PlanRejected ==
  /\ AtPlan /\ ~PastEnd(cache.spec)
  /\ ~fresh
  /\ Retry
  /\ UNCHANGED <<pipeline, informer, handlers>>

EnsureScheduleExecution ==
  /\ pc = "schedule"
  /\ \/ RemoveSchedule \/ AwaitPending \/ AwaitPrevious \/ EmptyDate \/ DropPending
     \/ AlreadyExecuted \/ NothingBeforeEnd \/ PlanExecution \/ PlanRejected
  /\ UNCHANGED <<clock, runs, bounds>>

TimerFires ==
  /\ timer /\ timer' = FALSE
  /\ queued' = TRUE
  /\ UNCHANGED <<pipeline, informer, pc, handlers, clock, runs, bounds>>

--------------------------------------------------------------------------------
(* scheduleExecution, in a goroutine of its own. *)

Awake(h) == handlers[h].phase = "sleep" /\ clock >= handlers[h].st.pending

\* Variant: the dates are not compared.
SamePlanUndated(s, current) ==
  /\ current.schedule # NoSchedule
  /\ s.schedule.endDate = current.schedule.endDate
  /\ s.schedule.repeat = current.schedule.repeat
  /\ s.repeated = current.repeated

\* What the handler compares between the status it was started with and the
\* status it reads when it wakes.
SamePlan(s, current) ==
  /\ s.start = current.start
  /\ s.pending = current.pending
  /\ s.schedule.endDate = current.schedule.endDate
  /\ s.schedule.repeat = current.schedule.repeat
  /\ s.repeated = current.repeated

AfterEnd(s) == s.schedule.endDate # Nil /\ clock > s.schedule.endDate

MayExecute(h) == SamePlan(handlers[h].st, cache.st) /\ ~AfterEnd(handlers[h].st)

Abort(h) ==
  /\ Awake(h) /\ ~MayExecute(h)
  /\ handlers' = [handlers EXCEPT ![h] = NoHandler]
  /\ UNCHANGED <<pipeline, informer, worker, clock, runs, bounds>>

\* Variant: a run that could not be created is taken for one that was.
ExecuteRegardless(h) ==
  /\ Awake(h) /\ MayExecute(h)
  /\ handlers' = [handlers EXCEPT ![h] = Handler("record", @.st, clock, fresh)]
  /\ UNCHANGED <<pipeline, informer, worker, clock, runs, bounds>>

\* The run is created from the informer's copy of the pipeline.
Execute(h) ==
  /\ Awake(h) /\ MayExecute(h)
  /\ Len(log) < MaxRuns
  /\ open' = open + 1
  /\ log' = Append(log, [start |-> handlers[h].st.start, pending |-> handlers[h].st.pending])
  /\ handlers' = [handlers EXCEPT ![h] = Handler("record", @.st, clock, fresh)]
  /\ UNCHANGED <<pipeline, informer, worker, clock, done, bounds>>

\* Variant: the executions are counted down.
ExecutedDown(s, at) ==
  [s EXCEPT !.repeated = @ - 1, !.lastStart = at, !.lastEnd = Nil, !.pending = Nil]

Executed(s, at) ==
  [s EXCEPT !.repeated = @ + 1, !.lastStart = at, !.lastEnd = Nil, !.pending = Nil]

RecordExecution(h) ==
  /\ handlers[h].phase = "record" /\ handlers[h].fresh
  /\ PutStatus(Executed(st, handlers[h].at))
  /\ handlers' = [OutdatedHandlers EXCEPT ![h] = NoHandler]
  /\ UNCHANGED <<worker, clock, runs, bounds>>

\* Variant: a handler whose record is rejected goes back to its plan.
RecordRejectedRetry(h) ==
  /\ handlers[h].phase = "record" /\ ~handlers[h].fresh
  /\ handlers' = [handlers EXCEPT ![h] = Sleeper(@.st)]
  /\ UNCHANGED <<pipeline, informer, worker, clock, runs, bounds>>

\* The handler's errors are dropped: nobody reads what a goroutine returns.
RecordRejected(h) ==
  /\ handlers[h].phase = "record" /\ ~handlers[h].fresh
  /\ handlers' = [handlers EXCEPT ![h] = NoHandler]
  /\ UNCHANGED <<pipeline, informer, worker, clock, runs, bounds>>

--------------------------------------------------------------------------------
(* The run controller's part: the end of an execution (updateRunStatus). *)

ReportEnd ==
  /\ fresh
  /\ PutStatus([st EXCEPT !.lastEnd = clock])
  /\ handlers' = IF st.lastEnd = clock THEN handlers ELSE OutdatedHandlers
  /\ UNCHANGED <<worker, clock, log>>

RunEnds ==
  /\ open > 0
  /\ ReportEnd
  /\ open' = open - 1 /\ done' = done + 1
  /\ UNCHANGED bounds

--------------------------------------------------------------------------------
(* Failures, time and the user. *)

Failure ==
  /\ failures < MaxFailures /\ failures' = failures + 1
  /\ UNCHANGED <<ignored, edits>>

\* A run that has ended is reconciled again and reports its end again.
OldRunReports ==
  /\ done > 0
  /\ Failure
  /\ ReportEnd
  /\ UNCHANGED <<open, done>>

ApiError ==
  /\ pc # "idle"
  /\ Failure
  /\ Retry
  /\ UNCHANGED <<pipeline, informer, handlers, clock, runs>>

\* One of the status updates whose error is not looked at.
IgnoredError ==
  /\ pc = "schedule"
  /\ \/ cache.spec = NoSchedule
     \/ AtDate /\ (cache.spec.date = NoDate \/ PendingBeforeEnd)
  /\ ignored < MaxIgnored /\ ignored' = ignored + 1
  /\ Finish
  /\ UNCHANGED <<pipeline, informer, handlers, clock, runs, failures, edits>>

\* The pipeline cannot be read, the run cannot be created or its name is taken,
\* or the status cannot be written.
HandlerFails(h) ==
  /\ Awake(h) \/ handlers[h].phase = "record"
  /\ Failure
  /\ handlers' = [handlers EXCEPT ![h] = NoHandler]
  /\ UNCHANGED <<pipeline, informer, worker, clock, runs>>

\* The handlers, the timer and the work queue are lost.
Restart ==
  /\ Failure
  /\ handlers' = [h \in Handlers |-> NoHandler]
  /\ cache' = Copy(spec, st, lastUpdated, annotation) /\ fresh' = TRUE
  /\ pc' = "idle" /\ queued' = TRUE /\ timer' = FALSE
  /\ UNCHANGED <<pipeline, clock, runs>>

Tick ==
  /\ clock < MaxTime
  /\ clock' = clock + 1
  /\ UNCHANGED <<pipeline, informer, worker, handlers, runs, bounds>>

EditSchedule(s) ==
  /\ edits < MaxEdits /\ edits' = edits + 1
  /\ s # spec
  /\ spec' = s
  /\ Outdate
  /\ handlers' = OutdatedHandlers
  /\ UNCHANGED <<st, lastUpdated, annotation, worker, clock, runs, failures, ignored>>

--------------------------------------------------------------------------------
Reconcile == Start \/ RefreshStatus \/ UpdateMetadata \/ ConflictsExhausted
             \/ EnsureScheduleExecution

HandlerStep(h) == Abort(h) \/ Execute(h) \/ RecordExecution(h) \/ RecordRejected(h)

Next ==
  \/ Reconcile \/ TimerFires \/ Sync \/ Tick
  \/ \E h \in Handlers : HandlerStep(h) \/ HandlerFails(h)
  \/ RunEnds \/ OldRunReports
  \/ ApiError \/ IgnoredError \/ Restart
  \/ \E s \in Schedules : EditSchedule(s)

Spec == Init /\ [][Next]_vars

--------------------------------------------------------------------------------
(* Properties *)

StatusType ==
  [ schedule : ScheduleType \cup {NoSchedule}, start : Nat, pending : Nat,
    lastStart : Nat, lastEnd : Nat, repeated : Nat ]

\* Every variable has its type.
TypeOK ==
  /\ spec \in Schedules /\ st \in StatusType
  /\ lastUpdated \in Nat /\ annotation \in Dates \cup {NoDate}
  /\ cache.spec \in Schedules /\ cache.st \in StatusType
  /\ fresh \in BOOLEAN /\ queued \in BOOLEAN /\ timer \in BOOLEAN
  /\ pc \in {"idle", "status", "metadata", "schedule"}
  /\ \A h \in Handlers : /\ handlers[h].phase \in {"none", "sleep", "record"}
                         /\ handlers[h].st \in StatusType
  /\ clock \in 1..MaxTime /\ open \in Nat /\ done \in Nat
  /\ failures \in 0..MaxFailures /\ ignored \in 0..MaxIgnored /\ edits \in 0..MaxEdits

\* A pending date always comes with the schedule it was planned for, in the API
\* server, in every copy and in every handler: the dereferences of
\* Status.Schedule at pipeline_controller.go:253 and :361 do not crash.
PendingHasSchedule ==
  /\ st.pending # Nil => st.schedule # NoSchedule
  /\ cache.st.pending # Nil => cache.st.schedule # NoSchedule
  /\ \A h \in Handlers :
       handlers[h].phase = "sleep" => handlers[h].st.schedule # NoSchedule

\* The status never counts an execution that created no run.
CountsOnlyRuns == st.repeated <= Len(log)

DatesApart == \A d, e \in Dates : Delay[d] > 0 /\ (d # e => Delay[d] # Delay[e])

\* No plan is executed twice: two handlers never create a run for the same start
\* and pending date.  What tells two plans apart is their second, so this needs
\* dates that lie ahead of their start and do not fall on one second, and no
\* schedule that is changed there and back within a second.
OneRunPerPlan ==
  DatesApart /\ edits < 2 => \A i, j \in DOMAIN log : i # j => log[i] # log[j]

\* A schedule that still has something to execute: the previous execution is over
\* and the next one would not be after the end date.
Waiting ==
  /\ spec # NoSchedule /\ spec.date # NoDate
  /\ ~PreviousRunning(st)
  /\ ~PastEnd(spec)

\* No lost wake-up: when nothing is queued and the informer is up to date, a
\* waiting schedule has a timer that queues it again.  A failed update whose error
\* is ignored can lose the wake-up.
NoLostSchedule ==
  pc = "idle" /\ ~queued /\ fresh /\ ignored = 0 /\ Waiting => timer

\* A handler only creates a run when the status it was planned with still stands,
\* up to what the informer has not delivered: after a removal or a new plan that
\* the informer has delivered, the handlers of the old plan do nothing.
OldPlansDie ==
  [][Len(log') > Len(log) /\ fresh
       => LET e == log'[Len(log')] IN e.start = st.start /\ e.pending = st.pending]_vars
================================================================================
