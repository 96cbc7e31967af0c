------------------------ MODULE PipelineScheduleProofs ------------------------
(***************************************************************************)
(* Safety of the schedule of a pipeline, for all schedules and dates, any  *)
(* number of handlers and any bounds.                                      *)
(***************************************************************************)
EXTENDS PipelineSchedule, TLAPS

HandlerType ==
  [ phase : {"none", "sleep", "record"}, st : StatusType, at : Nat, fresh : BOOLEAN ]
CopyType ==
  [ spec : Schedules, st : StatusType, lastUpdated : Nat, annotation : Dates \cup {NoDate} ]
PlanType == [ start : Nat, pending : Nat ]

Scalars ==
  /\ spec \in Schedules /\ st \in StatusType
  /\ lastUpdated \in Nat /\ annotation \in Dates \cup {NoDate}
  /\ fresh \in BOOLEAN /\ queued \in BOOLEAN /\ timer \in BOOLEAN
  /\ pc \in {"idle", "status", "metadata", "schedule"}
  /\ clock \in 1..MaxTime /\ open \in Nat /\ done \in Nat
  /\ failures \in 0..MaxFailures /\ ignored \in 0..MaxIgnored /\ edits \in 0..MaxEdits

\* TypeOK, with the domains of the copy, the handlers and the log.
Typed ==
  /\ Scalars
  /\ cache \in CopyType
  /\ handlers \in [Handlers -> HandlerType]
  /\ log \in Seq(PlanType)

--------------------------------------------------------------------------------
(* Lemmas about schedules and statuses. *)

LEMMA ScheduleInType == \A s \in Schedules : s # NoSchedule => s \in ScheduleType
BY ScheduleAssumption DEF ScheduleAssumption

\* Nobody looks at the start date: an execution is planned from now.
LEMMA NextPendingIs ==
  ASSUME NEW s \in Schedules, s # NoSchedule, s.date # NoDate, clock \in Nat \ {0}
  PROVE  NextPending(s) = clock + Delay[s.date] /\ NextPending(s) \in Nat /\ Delay[s.date] \in Nat
<1>1. s \in ScheduleType
  BY ScheduleInType
<1>2. Delay[s.date] \in Nat
  BY <1>1, ScheduleAssumption DEF ScheduleAssumption, ScheduleType
<1>3. StartOf(s) = clock
  BY DEF StartOf, Nil
<1> QED
  BY <1>2, <1>3 DEF NextPending

LEMMA TypedIsTypeOK == Typed => TypeOK
<1> SUFFICES ASSUME Typed PROVE TypeOK
  OBVIOUS
<1>1. \A h \in Handlers : /\ handlers[h].phase \in {"none", "sleep", "record"}
                         /\ handlers[h].st \in StatusType
  BY DEF Typed, HandlerType
<1>2. cache.spec \in Schedules /\ cache.st \in StatusType
  BY DEF Typed, CopyType
<1> QED
  BY <1>1, <1>2 DEF Typed, Scalars, TypeOK

LEMMA NoStatusType == NoStatus \in StatusType
BY DEF NoStatus, StatusType, Nil

LEMMA NoHandlerType == NoHandler \in HandlerType
BY NoStatusType DEF NoHandler, Handler, HandlerType, Nil

LEMMA ReviewedType ==
  ASSUME NEW c \in CopyType
  PROVE  /\ Reviewed(c) \in StatusType
         /\ Reviewed(c).schedule = c.st.schedule
         /\ Reviewed(c).lastStart = c.st.lastStart
         /\ Reviewed(c).lastEnd = c.st.lastEnd
         /\ Reviewed(c).repeated = c.st.repeated
         /\ Reviewed(c).pending \in {Nil, c.st.pending}
BY DEF Reviewed, CopyType, StatusType, Nil

LEMMA PlannedType ==
  ASSUME Typed, cache.spec # NoSchedule, cache.spec.date # NoDate
  PROVE  /\ Planned \in StatusType
         /\ Planned.schedule = cache.spec
         /\ Planned.start = clock
         /\ Planned.pending = clock + Delay[cache.spec.date]
         /\ Planned.repeated \in {0, cache.st.repeated}
<1> DEFINE s == Reviewed(cache)
           kept == IF s.schedule # NoSchedule /\ s.schedule.date = cache.spec.date THEN s
                   ELSE [s EXCEPT !.lastStart = Nil, !.lastEnd = Nil, !.repeated = 0]
<1>1. cache \in CopyType /\ cache.spec \in Schedules /\ clock \in Nat \ {0}
  BY DEF Typed, Scalars, CopyType
<1>2. s \in StatusType /\ s.repeated = cache.st.repeated
  BY <1>1, ReviewedType
<1>3. kept \in StatusType /\ kept.repeated \in {0, cache.st.repeated}
  BY <1>2 DEF StatusType, Nil
<1>4. NextPending(cache.spec) = clock + Delay[cache.spec.date] /\ NextPending(cache.spec) \in Nat
  BY <1>1, NextPendingIs
<1>5. cache.spec \in ScheduleType \cup {NoSchedule}
  BY <1>1, ScheduleInType
<1>6. Planned = [kept EXCEPT !.schedule = cache.spec, !.start = clock,
                             !.pending = NextPending(cache.spec)]
  BY DEF Planned
<1> HIDE DEF kept, s
<1> QED
  BY <1>1, <1>3, <1>4, <1>5, <1>6 DEF StatusType

--------------------------------------------------------------------------------
(* Types. *)

LEMMA InitTyped == Init => Typed
<1> SUFFICES ASSUME Init PROVE Typed
  OBVIOUS
<1>1. InitSchedule \in Schedules /\ MaxTime \in Nat \ {0}
      /\ MaxFailures \in Nat /\ MaxIgnored \in Nat /\ MaxEdits \in Nat
  BY ScheduleAssumption DEF ScheduleAssumption
<1>2. cache \in CopyType
  BY <1>1, NoStatusType DEF Init, Copy, CopyType, Nil
<1>3. handlers \in [Handlers -> HandlerType]
  BY NoHandlerType DEF Init
<1>4. log \in Seq(PlanType)
  BY DEF Init
<1>5. Scalars
  <2>1. st \in StatusType /\ spec \in Schedules
    BY <1>1, NoStatusType DEF Init
  <2>2. failures \in 0..MaxFailures /\ ignored \in 0..MaxIgnored /\ edits \in 0..MaxEdits
        /\ clock \in 1..MaxTime
    BY <1>1 DEF Init
  <2> QED
    BY <2>1, <2>2 DEF Init, Scalars, Nil
<1> QED
  BY <1>2, <1>3, <1>4, <1>5 DEF Typed

\* What a write of a status leaves behind.
LEMMA OutdatedType ==
  ASSUME Typed
  PROVE  OutdatedHandlers \in [Handlers -> HandlerType]
BY DEF Typed, OutdatedHandlers, HandlerType

LEMMA PutStatusType ==
  ASSUME Typed, NEW s \in StatusType, PutStatus(s)
  PROVE  /\ st' \in StatusType /\ st' = s
         /\ fresh' \in BOOLEAN
         /\ UNCHANGED <<spec, lastUpdated, annotation, cache>>
<1>1. st' = s /\ UNCHANGED <<spec, lastUpdated, annotation, cache>>
  BY DEF PutStatus, informer, Outdate
<1>2. fresh' = fresh \/ fresh' = FALSE
  BY DEF PutStatus, informer, Outdate
<1>3. fresh \in BOOLEAN
  BY DEF Typed, Scalars
<1> QED
  BY <1>1, <1>2, <1>3

LEMMA TryStatusType ==
  ASSUME Typed, NEW s \in StatusType, TryStatus(s)
  PROVE  /\ st' \in StatusType
         /\ fresh' \in BOOLEAN
         /\ UNCHANGED <<spec, lastUpdated, annotation, cache>>
         /\ handlers' \in [Handlers -> HandlerType]
<1>1. CASE fresh
  BY <1>1, PutStatusType, OutdatedType DEF TryStatus, Typed
<1>2. CASE ~fresh
  BY <1>2 DEF TryStatus, Typed, Scalars, pipeline, informer
<1> QED
  BY <1>1, <1>2

\* The part of a step that EnsureScheduleExecution makes.
LEMMA EnsureTyped ==
  ASSUME Typed, EnsureScheduleExecution
  PROVE  Typed'
<1>1. cache \in CopyType /\ cache.st \in StatusType /\ cache.spec \in Schedules
      /\ handlers \in [Handlers -> HandlerType] /\ st \in StatusType
  BY DEF Typed, Scalars, CopyType
<1>2. Reviewed(cache) \in StatusType
  BY <1>1, ReviewedType
<1>3. pc' = "idle" /\ UNCHANGED <<clock, open, done, log, failures, ignored, edits>>
  BY DEF EnsureScheduleExecution, RemoveSchedule, AwaitPending, AwaitPrevious, EmptyDate,
         DropPending, AlreadyExecuted, NothingBeforeEnd, PlanExecution, PlanRejected,
         Finish, Goto, Requeue, Retry, runs, bounds
<1>4. queued' \in BOOLEAN /\ timer' \in BOOLEAN
  <2>1. queued \in BOOLEAN /\ timer \in BOOLEAN
    BY DEF Typed, Scalars
  <2>2. (queued' = queued \/ queued' = TRUE) /\ (timer' = timer \/ timer' = TRUE)
    BY DEF EnsureScheduleExecution, RemoveSchedule, AwaitPending, AwaitPrevious, EmptyDate,
           DropPending, AlreadyExecuted, NothingBeforeEnd, PlanExecution, PlanRejected,
           Finish, Goto, Requeue, Retry
  <2> QED
    BY <2>1, <2>2
<1>5. /\ st' \in StatusType /\ fresh' \in BOOLEAN
      /\ UNCHANGED <<spec, lastUpdated, annotation, cache>>
      /\ handlers' \in [Handlers -> HandlerType]
  <2>1. CASE UNCHANGED <<pipeline, informer, handlers>>
    BY <1>1, <2>1 DEF pipeline, informer, Typed, Scalars
  <2>2. CASE RemoveSchedule
    <3>1. (IF cache.st.schedule = NoSchedule THEN cache.st ELSE NoStatus) \in StatusType
      BY <1>1, NoStatusType
    <3> QED
      BY <2>2, <3>1, TryStatusType DEF RemoveSchedule
  <2>3. CASE EmptyDate
    <3>1. [Reviewed(cache) EXCEPT !.start = Nil] \in StatusType
      BY <1>2 DEF StatusType, Nil
    <3> QED
      BY <2>3, <3>1, TryStatusType DEF EmptyDate
  <2>4. CASE DropPending
    <3>1. [Reviewed(cache) EXCEPT !.pending = Nil] \in StatusType
      BY <1>2 DEF StatusType, Nil
    <3> QED
      BY <2>4, <3>1, TryStatusType DEF DropPending
  <2>5. CASE PlanExecution
    <3>1. Planned \in StatusType
      BY <2>5, PlannedType DEF PlanExecution, AtPlan, AtDate
    <3>2. /\ st' \in StatusType /\ fresh' \in BOOLEAN
          /\ UNCHANGED <<spec, lastUpdated, annotation, cache>>
      BY <2>5, <3>1, PutStatusType DEF PlanExecution
    <3>3. Sleeper(Planned) \in HandlerType
      BY <3>1 DEF Sleeper, Handler, HandlerType, Nil
    <3>4. PICK h \in Handlers : handlers' = [OutdatedHandlers EXCEPT ![h] = Sleeper(Planned)]
      BY <2>5 DEF PlanExecution
    <3>5. handlers' \in [Handlers -> HandlerType]
      BY <3>3, <3>4, OutdatedType
    <3> QED
      BY <3>2, <3>5
  <2> QED
    BY <2>1, <2>2, <2>3, <2>4, <2>5
    DEF EnsureScheduleExecution, AwaitPending, AwaitPrevious, AlreadyExecuted,
        NothingBeforeEnd, PlanRejected
<1> QED
  BY <1>1, <1>3, <1>4, <1>5 DEF Typed, Scalars, CopyType, HandlerType

LEMMA NextTyped == Typed /\ [Next]_vars => Typed'
<1> SUFFICES ASSUME Typed, [Next]_vars PROVE Typed'
  OBVIOUS
<1>t. /\ Scalars /\ cache \in CopyType /\ handlers \in [Handlers -> HandlerType]
      /\ log \in Seq(PlanType) /\ st \in StatusType
  BY DEF Typed, Scalars
<1>0. CASE UNCHANGED vars
  BY <1>0, <1>t DEF Typed, Scalars, vars, pipeline, informer, worker, runs, bounds
<1>1. CASE Start
  BY <1>1, <1>t DEF Start, Typed, Scalars, pipeline, informer, runs, bounds
<1>2. CASE RefreshStatus
  <2>1. handlers' \in [Handlers -> HandlerType]
    BY <1>2, <1>t, OutdatedType DEF RefreshStatus
  <2>2. cache' \in CopyType /\ fresh' \in BOOLEAN
    BY <1>2, <1>t DEF RefreshStatus, Outdate, informer, Scalars
  <2> QED
    BY <1>2, <1>t, <2>1, <2>2 DEF RefreshStatus, Goto, Typed, Scalars, runs, bounds, CopyType, HandlerType
<1>3. CASE UpdateMetadata
  <2>1. handlers' \in [Handlers -> HandlerType]
    BY <1>3, <1>t, OutdatedType DEF UpdateMetadata
  <2>2. cache' \in CopyType /\ fresh' \in BOOLEAN
    BY <1>3, <1>t DEF UpdateMetadata, Outdate, informer, Scalars
  <2>3. annotation' \in Dates \cup {NoDate}
    <3>1. spec \in ScheduleType \cup {NoSchedule}
      BY <1>t, ScheduleInType DEF Scalars
    <3> QED
      BY <1>3, <1>t, <3>1 DEF UpdateMetadata, Scalars, ScheduleType
  <2> QED
    BY <1>3, <1>t, <2>1, <2>2, <2>3
    DEF UpdateMetadata, Goto, Typed, Scalars, runs, bounds, CopyType, HandlerType
<1>4. CASE ConflictsExhausted
  BY <1>4, <1>t DEF ConflictsExhausted, Retry, Typed, Scalars, pipeline, informer, runs, bounds
<1>5. CASE EnsureScheduleExecution
  BY <1>5, EnsureTyped
<1>6. CASE TimerFires
  BY <1>6, <1>t DEF TimerFires, Typed, Scalars, pipeline, informer, runs, bounds
<1>7. CASE Sync
  <2>1. cache' \in CopyType
    BY <1>7, <1>t DEF Sync, Copy, CopyType, Scalars
  <2> QED
    BY <1>7, <1>t, <2>1 DEF Sync, Typed, Scalars, pipeline, runs, bounds, CopyType
<1>8. CASE Tick
  BY <1>8, <1>t, ScheduleAssumption
  DEF Tick, Typed, Scalars, pipeline, informer, worker, runs, bounds, ScheduleAssumption
<1>9. ASSUME NEW h \in Handlers, Abort(h) \/ RecordRejected(h) PROVE Typed'
  <2>1. handlers' \in [Handlers -> HandlerType]
    BY <1>9, <1>t, NoHandlerType DEF Abort, RecordRejected
  <2> QED
    BY <1>9, <1>t, <2>1
    DEF Abort, RecordRejected, Typed, Scalars, pipeline, informer, worker, runs, bounds, HandlerType
<1>10. ASSUME NEW h \in Handlers, Execute(h) PROVE Typed'
  <2>1. handlers[h] \in HandlerType /\ clock \in Nat /\ fresh \in BOOLEAN
    BY <1>t DEF Scalars
  <2>2. Handler("record", handlers[h].st, clock, fresh) \in HandlerType
    BY <2>1 DEF Handler, HandlerType
  <2>3. handlers' = [handlers EXCEPT ![h] = Handler("record", handlers[h].st, clock, fresh)]
    BY <1>10 DEF Execute
  <2>4. handlers' \in [Handlers -> HandlerType]
    BY <1>t, <2>2, <2>3
  <2>5. [start |-> handlers[h].st.start, pending |-> handlers[h].st.pending] \in PlanType
    BY <2>1 DEF HandlerType, StatusType, PlanType
  <2>6. log' \in Seq(PlanType)
    BY <1>10, <1>t, <2>5 DEF Execute
  <2> QED
    BY <1>10, <1>t, <2>4, <2>6
    DEF Execute, Typed, Scalars, pipeline, informer, worker, bounds, HandlerType
<1>11. ASSUME NEW h \in Handlers, RecordExecution(h) PROVE Typed'
  <2>1. handlers[h] \in HandlerType
    BY <1>t
  <2>2. Executed(st, handlers[h].at) \in StatusType
    <3>1. handlers[h].at \in Nat /\ st.repeated + 1 \in Nat /\ Nil \in Nat
      BY <2>1, <1>t DEF StatusType, HandlerType, Nil
    <3>2. Executed(st, handlers[h].at) =
            [st EXCEPT !.repeated = st.repeated + 1, !.lastStart = handlers[h].at,
                       !.lastEnd = Nil, !.pending = Nil]
      BY DEF Executed
    <3> QED
      BY <3>1, <3>2, <1>t DEF StatusType
  <2>3. /\ st' \in StatusType /\ fresh' \in BOOLEAN
        /\ UNCHANGED <<spec, lastUpdated, annotation, cache>>
    BY <1>11, <2>2, PutStatusType DEF RecordExecution
  <2>4. handlers' \in [Handlers -> HandlerType]
    BY <1>11, OutdatedType, NoHandlerType DEF RecordExecution
  <2> QED
    BY <1>11, <1>t, <2>3, <2>4 DEF RecordExecution, Typed, Scalars, worker, runs, bounds, HandlerType
<1>12. ASSUME ReportEnd PROVE
         /\ st' \in StatusType /\ fresh' \in BOOLEAN
         /\ UNCHANGED <<spec, lastUpdated, annotation, cache>>
         /\ handlers' \in [Handlers -> HandlerType]
  <2>1. [st EXCEPT !.lastEnd = clock] \in StatusType
    <3>1. st \in StatusType /\ clock \in Nat
      BY <1>t DEF Scalars
    <3> QED BY <3>1 DEF StatusType
  <2>2. handlers' \in [Handlers -> HandlerType]
    BY <1>12, <1>t, OutdatedType DEF ReportEnd
  <2> DEFINE s == [st EXCEPT !.lastEnd = clock]
  <2>3. PutStatus(s)
    BY <1>12 DEF ReportEnd
  <2>4. s \in StatusType
    BY <2>1
  <2> HIDE DEF s
  <2>5. /\ st' \in StatusType /\ fresh' \in BOOLEAN
        /\ UNCHANGED <<spec, lastUpdated, annotation, cache>>
    BY <2>3, <2>4, PutStatusType
  <2> QED BY <2>2, <2>5
<1>13. CASE RunEnds
  BY <1>12, <1>13, <1>t DEF RunEnds, ReportEnd, Typed, Scalars, worker, bounds, HandlerType
<1>14. CASE OldRunReports
  BY <1>12, <1>14, <1>t, ScheduleAssumption
  DEF OldRunReports, ReportEnd, Failure, Typed, Scalars, worker, HandlerType, ScheduleAssumption
<1>15. CASE ApiError
  BY <1>15, <1>t, ScheduleAssumption
  DEF ApiError, Failure, Retry, Typed, Scalars, pipeline, informer, runs, ScheduleAssumption
<1>16. CASE IgnoredError
  BY <1>16, <1>t, ScheduleAssumption
  DEF IgnoredError, Finish, Goto, Typed, Scalars, pipeline, informer, runs, ScheduleAssumption
<1>17. ASSUME NEW h \in Handlers, HandlerFails(h) PROVE Typed'
  <2>1. handlers' \in [Handlers -> HandlerType]
    BY <1>17, <1>t, NoHandlerType DEF HandlerFails
  <2> QED
    BY <1>17, <1>t, <2>1, ScheduleAssumption
    DEF HandlerFails, Failure, Typed, Scalars, pipeline, informer, worker, runs, HandlerType,
        ScheduleAssumption
<1>18. CASE Restart
  <2>1. cache' \in CopyType
    BY <1>18, <1>t DEF Restart, Copy, CopyType, Scalars
  <2>2. handlers' \in [Handlers -> HandlerType]
    BY <1>18, NoHandlerType DEF Restart
  <2> QED
    <3>1. fresh' \in BOOLEAN /\ queued' \in BOOLEAN /\ timer' \in BOOLEAN
      BY <1>18 DEF Restart
    <3>2. failures' \in 0..MaxFailures /\ UNCHANGED <<ignored, edits>>
      BY <1>18, <1>t, ScheduleAssumption DEF Restart, Failure, Scalars, ScheduleAssumption
    <3>3. pc' = "idle" /\ UNCHANGED <<pipeline, clock, runs>>
      BY <1>18 DEF Restart
    <3> QED
      BY <1>t, <2>1, <2>2, <3>1, <3>2, <3>3 DEF Typed, Scalars, pipeline, runs
<1>19. ASSUME NEW s \in Schedules, EditSchedule(s) PROVE Typed'
  <2>1. cache' \in CopyType /\ handlers' \in [Handlers -> HandlerType] /\ log' \in Seq(PlanType)
    BY <1>19, <1>t, OutdatedType DEF EditSchedule, Outdate, runs
  <2>f. fresh' \in BOOLEAN
    BY <1>19 DEF EditSchedule, Outdate
  <2>g. edits' \in 0..MaxEdits
    BY <1>19, <1>t, ScheduleAssumption DEF EditSchedule, Scalars, ScheduleAssumption
  <2>e. spec' = s
        /\ UNCHANGED <<st, lastUpdated, annotation, worker, clock, runs, failures, ignored>>
    BY <1>19 DEF EditSchedule
  <2>2. Scalars'
    BY <1>t, <2>e, <2>f, <2>g DEF Typed, Scalars, worker, runs
  <2> QED
    BY <2>1, <2>2 DEF Typed
<1> QED
  BY <1>0, <1>1, <1>2, <1>3, <1>4, <1>5, <1>6, <1>7, <1>8, <1>9, <1>10, <1>11, <1>13, <1>14,
     <1>15, <1>16, <1>17, <1>18, <1>19
  DEF Next, Reconcile, HandlerStep

--------------------------------------------------------------------------------
(***************************************************************************)
(* What a step can do to the informer's copy, to a handler, to the status  *)
(* and to the log.                                                         *)
(***************************************************************************)

\* The copy stays and every write outdates it, or it is delivered anew.
LEMMA CacheSteps ==
  ASSUME Typed, Next
  PROVE  \/ /\ cache' = cache
            /\ fresh' => fresh /\ UNCHANGED <<spec, st, lastUpdated, annotation>>
         \/ /\ cache' = Copy(spec, st, lastUpdated, annotation) /\ fresh'
            /\ UNCHANGED <<spec, st, lastUpdated, annotation>>
<1>1. ASSUME NEW s, PutStatus(s) PROVE
        cache' = cache /\ (fresh' => fresh /\ UNCHANGED <<spec, st, lastUpdated, annotation>>)
  BY <1>1 DEF PutStatus, Outdate, informer
<1>2. ASSUME NEW s, TryStatus(s) PROVE
        cache' = cache /\ (fresh' => fresh /\ UNCHANGED <<spec, st, lastUpdated, annotation>>)
  BY <1>1, <1>2 DEF TryStatus, informer, pipeline
<1>3. CASE Reconcile
  <2>1. CASE Start \/ ConflictsExhausted
    BY <2>1 DEF Start, ConflictsExhausted, pipeline, informer
  <2>2. CASE RefreshStatus
    BY <2>2 DEF RefreshStatus, Outdate, informer
  <2>3. CASE UpdateMetadata
    BY <2>3 DEF UpdateMetadata, Outdate, informer
  <2>4. CASE EnsureScheduleExecution
    <3>1. CASE UNCHANGED <<pipeline, informer, handlers>>
      BY <3>1 DEF pipeline, informer
    <3>2. CASE RemoveSchedule \/ EmptyDate \/ DropPending
      BY <3>2, <1>2 DEF RemoveSchedule, EmptyDate, DropPending
    <3>3. CASE PlanExecution
      BY <3>3, <1>1 DEF PlanExecution
    <3> QED
      BY <2>4, <3>1, <3>2, <3>3
      DEF EnsureScheduleExecution, AwaitPending, AwaitPrevious, AlreadyExecuted,
          NothingBeforeEnd, PlanRejected
  <2> QED
    BY <1>3, <2>1, <2>2, <2>3, <2>4 DEF Reconcile
<1>4. CASE TimerFires \/ Tick \/ ApiError \/ IgnoredError
  BY <1>4 DEF TimerFires, Tick, ApiError, IgnoredError, pipeline, informer
<1>5. CASE Sync \/ Restart
  BY <1>5 DEF Sync, Restart, pipeline
<1>6. ASSUME NEW h \in Handlers, HandlerStep(h) \/ HandlerFails(h)
      PROVE  cache' = cache /\ (fresh' => fresh /\ UNCHANGED <<spec, st, lastUpdated, annotation>>)
  <2>1. CASE Abort(h) \/ Execute(h) \/ RecordRejected(h) \/ HandlerFails(h)
    BY <2>1 DEF Abort, Execute, RecordRejected, HandlerFails, pipeline, informer
  <2>2. CASE RecordExecution(h)
    BY <2>2, <1>1 DEF RecordExecution
  <2> QED
    BY <1>6, <2>1, <2>2 DEF HandlerStep
<1>7. CASE RunEnds \/ OldRunReports
  BY <1>7, <1>1 DEF RunEnds, OldRunReports, ReportEnd
<1>8. ASSUME NEW s \in Schedules, EditSchedule(s)
      PROVE  cache' = cache /\ ~fresh'
  BY <1>8 DEF EditSchedule, Outdate
<1> QED
  BY <1>3, <1>4, <1>5, <1>6, <1>7, <1>8 DEF Next

\* A handler keeps what it knows, learns that its copy is out of date, ends, is
\* started with a plan or has created its run.
LEMMA HandlerSteps ==
  ASSUME Typed, Next, NEW h \in Handlers
  PROVE  \/ handlers'[h] \in {handlers[h], [handlers[h] EXCEPT !.fresh = FALSE], NoHandler}
         \/ PlanExecution /\ pc = "schedule" /\ handlers'[h] = Sleeper(Planned)
         \/ Execute(h) /\ handlers'[h] = Handler("record", handlers[h].st, clock, fresh)
<1> DEFINE Kept == handlers'[h] \in {handlers[h], [handlers[h] EXCEPT !.fresh = FALSE], NoHandler}
<1>h. handlers \in [Handlers -> HandlerType]
  BY DEF Typed
<1>o. OutdatedHandlers[h] = [handlers[h] EXCEPT !.fresh = FALSE]
  BY DEF OutdatedHandlers
<1>1. ASSUME NEW s, TryStatus(s) PROVE Kept
  BY <1>1, <1>o DEF TryStatus
<1>2. CASE UNCHANGED handlers
  BY <1>2
<1>3. CASE Reconcile
  <2>1. CASE Start \/ ConflictsExhausted
    BY <2>1 DEF Start, ConflictsExhausted
  <2>2. CASE RefreshStatus \/ UpdateMetadata
    BY <2>2, <1>o DEF RefreshStatus, UpdateMetadata
  <2>3. CASE EnsureScheduleExecution
    <3>1. CASE RemoveSchedule \/ EmptyDate \/ DropPending
      BY <3>1, <1>1 DEF RemoveSchedule, EmptyDate, DropPending
    <3>2. CASE PlanExecution
      <4>1. PICK g \in Handlers : handlers' = [OutdatedHandlers EXCEPT ![g] = Sleeper(Planned)]
        BY <3>2 DEF PlanExecution
      <4>2. OutdatedHandlers \in [Handlers -> HandlerType]
        BY OutdatedType
      <4>3. CASE g = h
        BY <4>1, <4>2, <4>3, <3>2, <2>3 DEF EnsureScheduleExecution
      <4>4. CASE g # h
        BY <4>1, <4>2, <4>4, <1>o
      <4> QED
        BY <4>3, <4>4
    <3> QED
      BY <1>2, <2>3, <3>1, <3>2
      DEF EnsureScheduleExecution, AwaitPending, AwaitPrevious, AlreadyExecuted,
          NothingBeforeEnd, PlanRejected
  <2> QED
    BY <1>3, <2>1, <2>2, <2>3 DEF Reconcile
<1>4. CASE TimerFires \/ Sync \/ Tick \/ ApiError \/ IgnoredError
  BY <1>4 DEF TimerFires, Sync, Tick, ApiError, IgnoredError
<1>5. CASE Restart
  BY <1>5 DEF Restart
<1>6. ASSUME NEW g \in Handlers, Abort(g) \/ RecordRejected(g) \/ HandlerFails(g) PROVE Kept
  <2>1. handlers' = [handlers EXCEPT ![g] = NoHandler]
    BY <1>6 DEF Abort, RecordRejected, HandlerFails
  <2> QED
    BY <2>1, <1>h
<1>7. ASSUME NEW g \in Handlers, RecordExecution(g) PROVE Kept
  <2>1. handlers' = [OutdatedHandlers EXCEPT ![g] = NoHandler]
    BY <1>7 DEF RecordExecution
  <2> QED
    BY <2>1, <1>o, OutdatedType
<1>8. ASSUME NEW g \in Handlers, Execute(g)
      PROVE  \/ Kept
             \/ Execute(h) /\ handlers'[h] = Handler("record", handlers[h].st, clock, fresh)
  <2>1. handlers' = [handlers EXCEPT ![g] = Handler("record", handlers[g].st, clock, fresh)]
    BY <1>8 DEF Execute
  <2>2. CASE g = h
    <3>1. handlers'[h] = Handler("record", handlers[h].st, clock, fresh)
      BY <2>1, <2>2, <1>h
    <3> QED
      BY <3>1, <2>2, <1>8
  <2>3. CASE g # h
    <3>1. handlers'[h] = handlers[h]
      BY <2>1, <2>3, <1>h
    <3> QED
      BY <3>1
  <2> QED
    BY <2>2, <2>3
<1>9. CASE RunEnds \/ OldRunReports
  BY <1>9, <1>o DEF RunEnds, OldRunReports, ReportEnd
<1>10. ASSUME NEW s \in Schedules, EditSchedule(s) PROVE Kept
  BY <1>10, <1>o DEF EditSchedule
<1> QED
  BY <1>3, <1>4, <1>5, <1>6, <1>7, <1>8, <1>9, <1>10 DEF Next, HandlerStep

\* The log grows by the plan of a handler that executes it.
LEMMA LogSteps ==
  ASSUME Typed, Next
  PROVE  \/ log' = log
         \/ \E h \in Handlers :
              /\ Execute(h)
              /\ log' = Append(log, [ start |-> handlers[h].st.start,
                                     pending |-> handlers[h].st.pending ])
<1>1. CASE Reconcile
  BY <1>1 DEF Reconcile, Start, ConflictsExhausted, RefreshStatus, UpdateMetadata,
              EnsureScheduleExecution, runs
<1>2. CASE TimerFires \/ Sync \/ Tick \/ ApiError \/ IgnoredError \/ Restart
  BY <1>2 DEF TimerFires, Sync, Tick, ApiError, IgnoredError, Restart, runs
<1>3. ASSUME NEW h \in Handlers, HandlerStep(h) \/ HandlerFails(h)
      PROVE  log' = log \/ (/\ Execute(h)
                           /\ log' = Append(log, [ start |-> handlers[h].st.start,
                                                  pending |-> handlers[h].st.pending ]))
  BY <1>3 DEF HandlerStep, HandlerFails, Abort, Execute, RecordExecution, RecordRejected, runs
<1>4. CASE RunEnds \/ OldRunReports
  BY <1>4 DEF RunEnds, OldRunReports, ReportEnd
<1>5. ASSUME NEW s \in Schedules, EditSchedule(s) PROVE log' = log
  BY <1>5 DEF EditSchedule, runs
<1> QED
  BY <1>1, <1>2, <1>3, <1>4, <1>5 DEF Next

LEMMA ExecuteLog ==
  ASSUME Typed, NEW h \in Handlers, Execute(h)
  PROVE  /\ Len(log) \in Nat /\ Len(log') = Len(log) + 1
         /\ log'[Len(log')] = [ start |-> handlers[h].st.start,
                                pending |-> handlers[h].st.pending ]
<1> DEFINE e == [start |-> handlers[h].st.start, pending |-> handlers[h].st.pending]
<1>1. log \in Seq(PlanType) /\ handlers[h] \in HandlerType
  BY DEF Typed
<1>2. e \in PlanType
  BY <1>1 DEF HandlerType, StatusType, PlanType
<1>3. log' = Append(log, e)
  BY DEF Execute
<1> HIDE DEF e
<1>4. Len(log) \in Nat /\ Len(log') = Len(log) + 1 /\ log'[Len(log')] = e
  BY <1>1, <1>2, <1>3
<1> QED
  BY <1>4 DEF e

\* Who writes the status, and what: a change of the status is one of these, and it
\* outdates what every handler has read.
Outdated == \A h \in Handlers : handlers'[h].fresh = FALSE

CacheWriter ==
  \/ RemoveSchedule /\ st' \in {cache.st, NoStatus}
  \/ EmptyDate /\ st' = [Reviewed(cache) EXCEPT !.start = Nil]
  \/ DropPending /\ st' = [Reviewed(cache) EXCEPT !.pending = Nil]
  \/ PlanExecution /\ st' = Planned

LEMMA OutdatedAll == Typed /\ handlers' = OutdatedHandlers => Outdated
BY DEF Typed, OutdatedHandlers, HandlerType, Outdated

LEMMA OutdatedBut ==
  ASSUME Typed, NEW h \in Handlers, NEW new, new.fresh = FALSE,
         handlers' = [OutdatedHandlers EXCEPT ![h] = new]
  PROVE  Outdated
<1>1. OutdatedHandlers \in [Handlers -> HandlerType]
  BY OutdatedType
<1>2. \A g \in Handlers : OutdatedHandlers[g].fresh = FALSE
  BY DEF OutdatedHandlers, Typed, HandlerType
<1>3. ASSUME NEW g \in Handlers PROVE handlers'[g].fresh = FALSE
  BY <1>1, <1>2
<1> QED
  BY <1>3 DEF Outdated

LEMMA TryStatusSteps ==
  ASSUME Typed, NEW s, TryStatus(s)
  PROVE  st' = st \/ (fresh /\ st' = s /\ Outdated)
BY OutdatedAll DEF TryStatus, PutStatus, pipeline

LEMMA StatusSteps ==
  ASSUME Typed, Next
  PROVE  \/ st' = st
         \/ /\ Outdated
            /\ \/ fresh /\ CacheWriter
               \/ \E h \in Handlers : /\ handlers[h].phase = "record" /\ handlers[h].fresh
                                      /\ st' = Executed(st, handlers[h].at)
                                      /\ log' = log
               \/ st' = [st EXCEPT !.lastEnd = clock]
<1>1. CASE Reconcile
  <2>1. CASE Start \/ ConflictsExhausted \/ RefreshStatus \/ UpdateMetadata
    BY <2>1 DEF Start, ConflictsExhausted, RefreshStatus, UpdateMetadata, pipeline
  <2>2. CASE UNCHANGED <<pipeline, informer, handlers>>
    BY <2>2 DEF pipeline
  <2>3. CASE RemoveSchedule
    <3>1. TryStatus(IF cache.st.schedule = NoSchedule THEN cache.st ELSE NoStatus)
      BY <2>3 DEF RemoveSchedule
    <3> QED
      BY <2>3, <3>1, TryStatusSteps DEF CacheWriter
  <2>4. CASE EmptyDate
    <3>1. TryStatus([Reviewed(cache) EXCEPT !.start = Nil])
      BY <2>4 DEF EmptyDate
    <3> QED
      BY <2>4, <3>1, TryStatusSteps DEF CacheWriter
  <2>5. CASE DropPending
    <3>1. TryStatus([Reviewed(cache) EXCEPT !.pending = Nil])
      BY <2>5 DEF DropPending
    <3> QED
      BY <2>5, <3>1, TryStatusSteps DEF CacheWriter
  <2>6. CASE PlanExecution
    <3>1. PICK h \in Handlers : handlers' = [OutdatedHandlers EXCEPT ![h] = Sleeper(Planned)]
      BY <2>6 DEF PlanExecution
    <3>2. Sleeper(Planned).fresh = FALSE
      BY DEF Sleeper, Handler
    <3>3. Outdated
      BY <3>1, <3>2, OutdatedBut
    <3>4. fresh /\ st' = Planned
      BY <2>6 DEF PlanExecution, PutStatus
    <3> QED
      BY <2>6, <3>3, <3>4 DEF CacheWriter
  <2> QED
    BY <1>1, <2>1, <2>2, <2>3, <2>4, <2>5, <2>6
    DEF Reconcile, EnsureScheduleExecution, AwaitPending, AwaitPrevious, AlreadyExecuted,
        NothingBeforeEnd, PlanRejected
<1>2. CASE TimerFires \/ Sync \/ Tick \/ ApiError \/ IgnoredError \/ Restart
  BY <1>2 DEF TimerFires, Sync, Tick, ApiError, IgnoredError, Restart, pipeline
<1>3. ASSUME NEW h \in Handlers, Abort(h) \/ Execute(h) \/ RecordRejected(h) \/ HandlerFails(h)
      PROVE  st' = st
  BY <1>3 DEF Abort, Execute, RecordRejected, HandlerFails, pipeline
<1>4. ASSUME NEW h \in Handlers, RecordExecution(h)
      PROVE  /\ Outdated /\ handlers[h].phase = "record" /\ handlers[h].fresh
             /\ st' = Executed(st, handlers[h].at) /\ log' = log
  <2>1. handlers' = [OutdatedHandlers EXCEPT ![h] = NoHandler]
    BY <1>4 DEF RecordExecution
  <2>2. NoHandler.fresh = FALSE
    BY DEF NoHandler, Handler
  <2> QED
    BY <1>4, <2>1, <2>2, OutdatedBut DEF RecordExecution, PutStatus, runs
<1>5. CASE RunEnds \/ OldRunReports
  <2>1. ReportEnd
    BY <1>5 DEF RunEnds, OldRunReports
  <2>2. st' = [st EXCEPT !.lastEnd = clock]
    BY <2>1 DEF ReportEnd, PutStatus
  <2>3. CASE st.lastEnd = clock
    <3>1. st \in StatusType
      BY DEF Typed, Scalars
    <3>2. st' = st
      BY <2>2, <2>3, <3>1 DEF StatusType
    <3> QED
      BY <3>2
  <2>4. CASE st.lastEnd # clock
    BY <2>1, <2>2, <2>4, OutdatedAll DEF ReportEnd
  <2> QED
    BY <2>3, <2>4
<1>6. ASSUME NEW s \in Schedules, EditSchedule(s) PROVE st' = st
  BY <1>6 DEF EditSchedule
<1> QED
  BY <1>1, <1>2, <1>3, <1>4, <1>5, <1>6 DEF Next, HandlerStep

--------------------------------------------------------------------------------
(* A pending date has a schedule. *)

LEMMA InitPending == Init => PendingHasSchedule
<1> SUFFICES ASSUME Init PROVE PendingHasSchedule
  OBVIOUS
<1>1. st.pending = Nil /\ cache.st.pending = Nil
  BY DEF Init, NoStatus, Copy
<1>2. \A h \in Handlers : handlers[h].phase = "none"
  BY DEF Init, NoHandler, Handler
<1> QED
  BY <1>1, <1>2 DEF PendingHasSchedule

LEMMA NextPendingHasSchedule ==
  Typed /\ PendingHasSchedule /\ [Next]_vars => PendingHasSchedule'
<1> SUFFICES ASSUME Typed, PendingHasSchedule, [Next]_vars PROVE PendingHasSchedule'
  OBVIOUS
<1>0. CASE UNCHANGED vars
  BY <1>0 DEF PendingHasSchedule, vars, pipeline, informer
<1>1. CASE Next
  <2>t. st \in StatusType /\ cache \in CopyType /\ cache.st \in StatusType
        /\ handlers \in [Handlers -> HandlerType]
    BY DEF Typed, Scalars, CopyType
  <2>r. /\ Reviewed(cache) \in StatusType
        /\ Reviewed(cache).schedule = cache.st.schedule
        /\ Reviewed(cache).pending \in {Nil, cache.st.pending}
    BY <2>t, ReviewedType
  <2>1. st'.pending # Nil => st'.schedule # NoSchedule
    <3>1. CASE st' = st
      BY <3>1 DEF PendingHasSchedule
    <3>2. CASE CacheWriter
      <4>1. CASE st' \in {cache.st, NoStatus}
        BY <4>1 DEF PendingHasSchedule, NoStatus
      <4>2. CASE st' = [Reviewed(cache) EXCEPT !.start = Nil]
        <5>1. st'.pending = Reviewed(cache).pending /\ st'.schedule = Reviewed(cache).schedule
          BY <4>2, <2>r DEF StatusType
        <5> QED
          BY <5>1, <2>r DEF PendingHasSchedule
      <4>3. CASE st' = [Reviewed(cache) EXCEPT !.pending = Nil]
        BY <4>3, <2>r DEF StatusType
      <4>4. CASE PlanExecution /\ st' = Planned
        <5>1. cache.spec # NoSchedule /\ cache.spec.date # NoDate
          BY <4>4 DEF PlanExecution, AtPlan, AtDate
        <5> QED
          BY <5>1, <4>4, PlannedType
      <4> QED
        BY <3>2, <4>1, <4>2, <4>3, <4>4 DEF CacheWriter
    <3>3. ASSUME NEW h \in Handlers, st' = Executed(st, handlers[h].at)
          PROVE  st'.pending = Nil
      BY <3>3, <2>t DEF Executed, StatusType
    <3>4. CASE st' = [st EXCEPT !.lastEnd = clock]
      <4>1. st'.pending = st.pending /\ st'.schedule = st.schedule
        BY <3>4, <2>t DEF StatusType
      <4> QED
        BY <4>1 DEF PendingHasSchedule
    <3> QED
      BY <1>1, <3>1, <3>2, <3>3, <3>4, StatusSteps
  <2>2. cache'.st.pending # Nil => cache'.st.schedule # NoSchedule
    <3>1. cache'.st = cache.st \/ cache'.st = st
      BY <1>1, CacheSteps DEF Copy
    <3> QED
      BY <3>1 DEF PendingHasSchedule
  <2>3. ASSUME NEW h \in Handlers, handlers'[h].phase = "sleep"
        PROVE  handlers'[h].st.schedule # NoSchedule
    <3>t. handlers[h] \in HandlerType
      BY <2>t
    <3>1. CASE handlers'[h] \in {handlers[h], [handlers[h] EXCEPT !.fresh = FALSE]}
      <4>1. handlers'[h].phase = handlers[h].phase /\ handlers'[h].st = handlers[h].st
        BY <3>1, <3>t DEF HandlerType
      <4> QED
        BY <4>1, <2>3 DEF PendingHasSchedule
    <3>2. handlers'[h] # NoHandler
      BY <2>3 DEF NoHandler, Handler
    <3>3. CASE PlanExecution /\ handlers'[h] = Sleeper(Planned)
      <4>1. cache.spec # NoSchedule /\ cache.spec.date # NoDate
        BY <3>3 DEF PlanExecution, AtPlan, AtDate
      <4>2. handlers'[h].st = Planned
        BY <3>3 DEF Sleeper, Handler
      <4> QED
        BY <4>1, <4>2, PlannedType
    <3>4. handlers'[h] # Handler("record", handlers[h].st, clock, fresh)
      BY <2>3 DEF Handler
    <3> QED
      BY <1>1, <3>1, <3>2, <3>3, <3>4, HandlerSteps
  <2> QED
    BY <2>1, <2>2, <2>3 DEF PendingHasSchedule
<1> QED
  BY <1>0, <1>1

--------------------------------------------------------------------------------
(***************************************************************************)
(* What the informer has delivered is what the API server holds, and a     *)
(* handler whose copy is still good has created a run that the status does *)
(* not count yet.                                                          *)
(***************************************************************************)

Coherent == fresh => cache = Copy(spec, st, lastUpdated, annotation)

Uncounted ==
  \A h \in Handlers :
    handlers[h].phase = "record" /\ handlers[h].fresh => st.repeated < Len(log)

LEMMA InitCoherent == Init => Coherent
BY DEF Init, Coherent

LEMMA NextCoherent == Typed /\ Coherent /\ [Next]_vars => Coherent'
<1> SUFFICES ASSUME Typed, Coherent, [Next]_vars PROVE Coherent'
  OBVIOUS
<1>0. CASE UNCHANGED vars
  BY <1>0 DEF Coherent, vars, pipeline, informer, Copy
<1>1. CASE Next
  BY <1>1, CacheSteps DEF Coherent, Copy
<1> QED
  BY <1>0, <1>1

LEMMA InitCounts == Init => CountsOnlyRuns /\ Uncounted
<1> SUFFICES ASSUME Init PROVE CountsOnlyRuns /\ Uncounted
  OBVIOUS
<1>1. st.repeated = 0 /\ log = <<>>
  BY DEF Init, NoStatus
<1>2. \A h \in Handlers : handlers[h].phase = "none"
  BY DEF Init, NoHandler, Handler
<1> QED
  BY <1>1, <1>2 DEF CountsOnlyRuns, Uncounted

LEMMA LogGrows ==
  ASSUME Typed, Next
  PROVE  Len(log) \in Nat /\ Len(log') \in Nat /\ Len(log) <= Len(log')
<1>1. log \in Seq(PlanType) /\ Len(log) \in Nat
  BY DEF Typed
<1>2. CASE log' = log
  BY <1>1, <1>2
<1>3. ASSUME NEW h \in Handlers, Execute(h)
      PROVE  Len(log) \in Nat /\ Len(log') \in Nat /\ Len(log) <= Len(log')
  <2>1. Len(log) \in Nat /\ Len(log') = Len(log) + 1
    BY <1>3, ExecuteLog
  <2> QED
    BY <2>1
<1>4. log' = log \/ (\E h \in Handlers : Execute(h))
  BY LogSteps
<1> QED
  BY <1>2, <1>3, <1>4

LEMMA NextCounts ==
  Typed /\ Coherent /\ CountsOnlyRuns /\ Uncounted /\ [Next]_vars => CountsOnlyRuns' /\ Uncounted'
<1> SUFFICES ASSUME Typed, Coherent, CountsOnlyRuns, Uncounted, [Next]_vars
             PROVE  CountsOnlyRuns' /\ Uncounted'
  OBVIOUS
<1>0. CASE UNCHANGED vars
  BY <1>0 DEF CountsOnlyRuns, Uncounted, vars, pipeline, runs
<1>1. CASE Next
  <2>t. st \in StatusType /\ st.repeated \in Nat /\ handlers \in [Handlers -> HandlerType]
        /\ cache \in CopyType
    BY DEF Typed, Scalars, StatusType
  <2>l. Len(log) \in Nat /\ Len(log') \in Nat /\ Len(log) <= Len(log')
    BY <1>1, LogGrows
  <2>1. CASE st' = st
    <3>1. CountsOnlyRuns'
      BY <2>1, <2>t, <2>l DEF CountsOnlyRuns
    <3>2. ASSUME NEW h \in Handlers, handlers'[h].phase = "record", handlers'[h].fresh
          PROVE  st'.repeated < Len(log')
      <4>t. handlers[h] \in HandlerType
        BY <2>t
      <4>1. CASE handlers'[h] = handlers[h]
        <5>1. st.repeated < Len(log)
          BY <4>1, <3>2 DEF Uncounted
        <5> QED
          BY <5>1, <2>1, <2>t, <2>l
      <4>2. handlers'[h] # [handlers[h] EXCEPT !.fresh = FALSE]
        BY <3>2, <4>t DEF HandlerType
      <4>3. handlers'[h] # NoHandler /\ handlers'[h] # Sleeper(Planned)
        BY <3>2 DEF NoHandler, Sleeper, Handler
      <4>4. CASE Execute(h)
        <5>1. Len(log') = Len(log) + 1
          BY <4>4, ExecuteLog
        <5> QED
          BY <5>1, <2>1, <2>t, <2>l DEF CountsOnlyRuns
      <4> QED
        BY <1>1, <4>1, <4>2, <4>3, <4>4, HandlerSteps
    <3> QED
      BY <3>1, <3>2 DEF Uncounted
  <2>2. CASE Outdated
    <3>1. Uncounted'
      BY <2>2 DEF Outdated, Uncounted
    <3>2. ASSUME fresh, CacheWriter PROVE CountsOnlyRuns'
      <4>1. cache.st = st
        BY <3>2 DEF Coherent, Copy
      <4>2. Reviewed(cache) \in StatusType /\ Reviewed(cache).repeated = st.repeated
        BY <2>t, <4>1, ReviewedType
      <4>3. st'.repeated \in {0, st.repeated}
        <5>1. CASE st' \in {cache.st, NoStatus}
          BY <4>1, <5>1 DEF NoStatus
        <5>2. CASE st' = [Reviewed(cache) EXCEPT !.start = Nil]
          BY <4>2, <5>2 DEF StatusType
        <5>3. CASE st' = [Reviewed(cache) EXCEPT !.pending = Nil]
          BY <4>2, <5>3 DEF StatusType
        <5>4. CASE PlanExecution /\ st' = Planned
          <6>1. cache.spec # NoSchedule /\ cache.spec.date # NoDate
            BY <5>4 DEF PlanExecution, AtPlan, AtDate
          <6> QED
            BY <6>1, <5>4, <4>1, PlannedType
        <5> QED
          BY <3>2, <5>1, <5>2, <5>3, <5>4 DEF CacheWriter
      <4> QED
        BY <4>3, <2>t, <2>l DEF CountsOnlyRuns
    <3>3. ASSUME NEW h \in Handlers, handlers[h].phase = "record", handlers[h].fresh,
                 st' = Executed(st, handlers[h].at), log' = log
          PROVE  CountsOnlyRuns'
      <4>1. st'.repeated = st.repeated + 1
        BY <3>3, <2>t DEF Executed, StatusType
      <4>2. st.repeated < Len(log)
        BY <3>3 DEF Uncounted
      <4> QED
        BY <3>3, <4>1, <4>2, <2>t, <2>l DEF CountsOnlyRuns
    <3>4. ASSUME st' = [st EXCEPT !.lastEnd = clock] PROVE CountsOnlyRuns'
      <4>1. st'.repeated = st.repeated
        BY <3>4, <2>t DEF StatusType
      <4> QED
        BY <4>1, <2>t, <2>l DEF CountsOnlyRuns
    <3> QED
      BY <1>1, <2>1, <3>1, <3>2, <3>3, <3>4, StatusSteps
  <2> QED
    BY <1>1, <2>1, <2>2, StatusSteps
<1> QED
  BY <1>0, <1>1

--------------------------------------------------------------------------------
(***************************************************************************)
(* No lost wake-up.  A pass of the reconciler ends in the timer, in the    *)
(* queue, with a copy that is out of date (its delivery queues the         *)
(* pipeline) or with a schedule that has nothing to wait for.              *)
(***************************************************************************)

Quiet == pc = "idle" /\ ~queued /\ fresh /\ ignored = 0

\* A write after which the copy is fresh wrote what was there.
LEMMA FreshWrite ==
  ASSUME NEW s, PutStatus(s) \/ TryStatus(s), fresh'
  PROVE  fresh /\ s = st /\ st' = st /\ spec' = spec
BY DEF PutStatus, TryStatus, Outdate, informer, pipeline

\* The part of a step that EnsureScheduleExecution makes.
LEMMA EnsureQuiet ==
  ASSUME Typed, Coherent, EnsureScheduleExecution, Quiet'
  PROVE  timer' \/ ~Waiting'
<1>1. clock' = clock /\ ignored' = ignored
  BY DEF EnsureScheduleExecution, bounds
<1>2. cache \in CopyType /\ spec \in Schedules /\ st \in StatusType
  BY DEF Typed, Scalars
<1>3. fresh' /\ ~queued'
  BY DEF Quiet
<1>4. fresh => cache.spec = spec /\ cache.st = st
  BY DEF Coherent, Copy
<1>5. ASSUME fresh, st' = st, spec' = spec, ~Waiting PROVE ~Waiting'
  BY <1>1, <1>5 DEF Waiting, PreviousRunning, PastEnd, NextPending, StartOf
<1>6. CASE RemoveSchedule
  <2>1. fresh /\ st' = st /\ spec' = spec
    BY <1>3, <1>6, FreshWrite DEF RemoveSchedule
  <2>2. ~Waiting
    BY <1>4, <1>6, <2>1 DEF RemoveSchedule, Waiting
  <2> QED
    BY <1>5, <2>1, <2>2
<1>7. CASE AwaitPending \/ AlreadyExecuted \/ PlanExecution
  BY <1>7 DEF AwaitPending, AlreadyExecuted, PlanExecution, Requeue
<1>8. CASE AwaitPrevious
  <2>1. fresh /\ st' = st /\ spec' = spec
    BY <1>3, <1>8 DEF AwaitPrevious, pipeline, informer
  <2>2. ~Waiting
    BY <1>2, <1>4, <1>8, <2>1, ReviewedType DEF AwaitPrevious, PreviousRunning, Waiting
  <2> QED
    BY <1>5, <2>1, <2>2
<1>9. CASE EmptyDate
  <2>1. fresh /\ st' = st /\ spec' = spec
    BY <1>3, <1>9, FreshWrite DEF EmptyDate
  <2>2. ~Waiting
    BY <1>4, <1>9, <2>1 DEF EmptyDate, Waiting
  <2> QED
    BY <1>5, <2>1, <2>2
<1>10. CASE DropPending
  <2>1. fresh /\ [Reviewed(cache) EXCEPT !.pending = Nil] = st
    BY <1>3, <1>10, FreshWrite DEF DropPending
  <2>2. Reviewed(cache) \in StatusType /\ Reviewed(cache).pending \in {Nil, cache.st.pending}
    BY <1>2, ReviewedType
  <2>3. st.pending = Nil
    BY <2>1, <2>2 DEF StatusType
  <2>4. Reviewed(cache).pending # Nil
    BY <1>10 DEF DropPending, PendingBeforeEnd
  <2> QED
    BY <1>4, <2>1, <2>2, <2>3, <2>4
<1>11. CASE NothingBeforeEnd
  <2>1. fresh /\ st' = st /\ spec' = spec
    BY <1>3, <1>11 DEF NothingBeforeEnd, pipeline, informer
  <2>2. ~Waiting
    BY <1>4, <1>11, <2>1 DEF NothingBeforeEnd, Waiting
  <2> QED
    BY <1>5, <2>1, <2>2
<1>12. CASE PlanRejected
  BY <1>3, <1>12 DEF PlanRejected, Retry
<1> QED
  BY <1>6, <1>7, <1>8, <1>9, <1>10, <1>11, <1>12 DEF EnsureScheduleExecution

\* Every other step that ends without work left was preceded by such a state.
LEMMA QuietSteps ==
  ASSUME Typed, Next, Quiet', ~EnsureScheduleExecution
  PROVE  /\ Quiet /\ timer' = timer /\ st' = st /\ spec' = spec
         /\ clock' \in {clock, clock + 1}
<1>1. pc' = "idle" /\ ~queued' /\ fresh' /\ ignored' = 0
  BY DEF Quiet
<1>2. ~Start /\ ~RefreshStatus /\ ~UpdateMetadata
  BY <1>1 DEF Start, RefreshStatus, UpdateMetadata, Goto
<1>3. ~ConflictsExhausted /\ ~TimerFires /\ ~Sync /\ ~ApiError /\ ~Restart
  BY <1>1 DEF ConflictsExhausted, TimerFires, Sync, ApiError, Restart, Retry
<1>4. ~IgnoredError
  <2>1. ignored \in Nat
    BY ScheduleAssumption DEF Typed, Scalars, ScheduleAssumption
  <2> QED
    BY <1>1, <2>1 DEF IgnoredError
<1>5. CASE Tick
  BY <1>1, <1>5 DEF Tick, Quiet, worker, informer, pipeline, bounds
<1>6. ASSUME NEW h \in Handlers, Abort(h) \/ Execute(h) \/ RecordRejected(h)
      PROVE  Quiet /\ timer' = timer /\ st' = st /\ spec' = spec /\ clock' = clock
  <2>1. UNCHANGED <<pipeline, informer, worker, clock, bounds>>
    BY <1>6 DEF Abort, Execute, RecordRejected
  <2> QED
    BY <1>1, <2>1 DEF Quiet, worker, informer, pipeline, bounds
<1>7. ASSUME NEW h \in Handlers, HandlerFails(h)
      PROVE  Quiet /\ timer' = timer /\ st' = st /\ spec' = spec /\ clock' = clock
  BY <1>1, <1>7 DEF HandlerFails, Failure, Quiet, worker, informer, pipeline
<1>8. ASSUME NEW h \in Handlers, RecordExecution(h)
      PROVE  Quiet /\ timer' = timer /\ st' = st /\ spec' = spec /\ clock' = clock
  <2>1. fresh /\ st' = st /\ spec' = spec
    BY <1>1, <1>8, FreshWrite DEF RecordExecution
  <2> QED
    BY <1>1, <1>8, <2>1 DEF RecordExecution, Quiet, worker, bounds
<1>9. CASE RunEnds \/ OldRunReports
  <2>1. ReportEnd /\ ignored' = ignored
    BY <1>9 DEF RunEnds, OldRunReports, Failure, bounds
  <2>2. fresh /\ st' = st /\ spec' = spec
    BY <1>1, <2>1, FreshWrite DEF ReportEnd
  <2> QED
    BY <1>1, <2>1, <2>2 DEF ReportEnd, Quiet, worker
<1>10. ASSUME NEW s \in Schedules PROVE ~EditSchedule(s)
  BY <1>1 DEF EditSchedule, Outdate
<1> QED
  BY <1>2, <1>3, <1>4, <1>5, <1>6, <1>7, <1>8, <1>9, <1>10 DEF Next, Reconcile, HandlerStep

\* A schedule that is over does not start to wait because time passes.
LEMMA WaitingLasts ==
  ASSUME Typed, Typed', Waiting', st' = st, spec' = spec, clock' \in {clock, clock + 1}
  PROVE  Waiting
<1>1. spec \in Schedules /\ clock \in Nat \ {0} /\ clock' \in Nat \ {0}
      /\ spec # NoSchedule /\ spec.date # NoDate
  <2>1. spec \in Schedules /\ clock \in Nat \ {0}
    BY DEF Typed, Scalars
  <2>2. clock' \in Nat \ {0}
    BY <2>1
  <2>3. spec # NoSchedule /\ spec.date # NoDate
    BY DEF Waiting
  <2> QED BY <2>1, <2>2, <2>3
<1>2. NextPending(spec) = clock + Delay[spec.date] /\ Delay[spec.date] \in Nat
  BY <1>1, NextPendingIs
<1>3. NextPending(spec)' = clock' + Delay[spec.date]
  <2>1. StartOf(spec)' = clock'
    BY <1>1 DEF StartOf, Nil
  <2> QED
    BY <1>1, <1>2, <2>1 DEF NextPending
<1>4. ~(spec.endDate # Nil /\ clock' + Delay[spec.date] > spec.endDate)
  BY <1>3 DEF Waiting, PastEnd
<1>5. spec \in ScheduleType
  BY <1>1, ScheduleInType
<1>6. ~PastEnd(spec)
  BY <1>1, <1>2, <1>4, <1>5 DEF PastEnd, ScheduleType
<1> QED
  BY <1>1, <1>6 DEF Waiting, PreviousRunning

LEMMA InitNoLost == Init => NoLostSchedule
BY DEF Init, NoLostSchedule

LEMMA NextNoLost ==
  Typed /\ Coherent /\ NoLostSchedule /\ [Next]_vars => NoLostSchedule'
<1> SUFFICES ASSUME Typed, Coherent, NoLostSchedule, [Next]_vars,
                    Quiet', Waiting'
             PROVE  timer'
  BY DEF NoLostSchedule, Quiet
<1>0. CASE UNCHANGED vars
  <2>1. Quiet /\ timer' = timer /\ st' = st /\ spec' = spec /\ clock' = clock
    BY <1>0 DEF Quiet, vars, pipeline, worker, informer, bounds
  <2>2. Waiting
    BY <2>1, NextTyped, WaitingLasts
  <2> QED
    BY <2>1, <2>2 DEF NoLostSchedule, Quiet
<1>1. CASE EnsureScheduleExecution
  BY <1>1, EnsureQuiet
<1>2. CASE Next /\ ~EnsureScheduleExecution
  <2>1. /\ Quiet /\ timer' = timer /\ st' = st /\ spec' = spec
        /\ clock' \in {clock, clock + 1}
    BY <1>2, QuietSteps
  <2>2. Waiting
    BY <2>1, NextTyped, WaitingLasts
  <2> QED
    BY <2>1, <2>2 DEF NoLostSchedule, Quiet
<1> QED
  BY <1>0, <1>1, <1>2

--------------------------------------------------------------------------------
(***************************************************************************)
(* The theorems.                                                           *)
(***************************************************************************)

\* Every variable has its type: no schedule, edit, failure or restart brings the
\* status, a copy or a handler out of its type.
THEOREM TypeCorrect == Spec => []TypeOK
<1>1. Init => Typed
  BY InitTyped
<1>2. Typed /\ [Next]_vars => Typed'
  BY NextTyped
<1>3. Typed => TypeOK
  BY TypedIsTypeOK
<1> QED
  BY <1>1, <1>2, <1>3, PTL DEF Spec

\* A pending date always comes with the schedule it was planned for, in the API
\* server, in every copy and in every handler: the controller never dereferences a
\* nil Status.Schedule.
THEOREM PendingHasScheduleAlways == Spec => []PendingHasSchedule
<1>1. Init => Typed /\ PendingHasSchedule
  BY InitTyped, InitPending
<1>2. Typed /\ PendingHasSchedule /\ [Next]_vars => Typed' /\ PendingHasSchedule'
  BY NextTyped, NextPendingHasSchedule
<1> QED
  BY <1>1, <1>2, PTL DEF Spec

\* The status never counts an execution that created no run, however many handlers
\* execute, fail or are outrun, because a handler's record outdates all others.
THEOREM CountsOnlyRunsAlways == Spec => []CountsOnlyRuns
<1>1. Init => Typed /\ Coherent /\ CountsOnlyRuns /\ Uncounted
  BY InitTyped, InitCoherent, InitCounts
<1>2. Typed /\ Coherent /\ CountsOnlyRuns /\ Uncounted /\ [Next]_vars
        => Typed' /\ Coherent' /\ CountsOnlyRuns' /\ Uncounted'
  BY NextTyped, NextCoherent, NextCounts
<1> QED
  BY <1>1, <1>2, PTL DEF Spec

\* No lost wake-up: when nothing is queued and the informer is up to date, a schedule
\* that still has something to execute has a timer, as long as no error of an
\* update was ignored.
THEOREM NoLostScheduleAlways == Spec => []NoLostSchedule
<1>1. Init => Typed /\ Coherent /\ NoLostSchedule
  BY InitTyped, InitCoherent, InitNoLost
<1>2. Typed /\ Coherent /\ NoLostSchedule /\ [Next]_vars
        => Typed' /\ Coherent' /\ NoLostSchedule'
  BY NextTyped, NextCoherent, NextNoLost
<1> QED
  BY <1>1, <1>2, PTL DEF Spec

\* After a removal or a new plan that the informer has delivered, the handlers of the
\* old plan create no run: a run is created for the plan in the status.
THEOREM OldPlansDieAlways == Spec => OldPlansDie
<1> DEFINE Dies == Len(log') > Len(log) /\ fresh
             => LET e == log'[Len(log')] IN e.start = st.start /\ e.pending = st.pending
<1>1. Init => Typed /\ Coherent
  BY InitTyped, InitCoherent
<1>2. Typed /\ Coherent /\ [Next]_vars => Typed' /\ Coherent'
  BY NextTyped, NextCoherent
<1>3. Typed /\ Coherent /\ [Next]_vars => [Dies]_vars
  <2> SUFFICES ASSUME Typed, Coherent, Next, Len(log') > Len(log), fresh
               PROVE  LET e == log'[Len(log')] IN e.start = st.start /\ e.pending = st.pending
    OBVIOUS
  <2>1. Len(log) \in Nat
    BY DEF Typed
  <2>2. log' # log
    BY <2>1
  <2>3. PICK h \in Handlers : Execute(h)
    BY <2>2, LogSteps
  <2>4. cache.st = st
    BY DEF Coherent, Copy
  <2>5. handlers[h].st.start = st.start /\ handlers[h].st.pending = st.pending
    BY <2>3, <2>4 DEF Execute, MayExecute, SamePlan
  <2>6. log'[Len(log')] = [ start |-> handlers[h].st.start, pending |-> handlers[h].st.pending ]
    BY <2>3, ExecuteLog
  <2> QED
    BY <2>5, <2>6
<1> QED
  BY <1>1, <1>2, <1>3, PTL DEF Spec, OldPlansDie
================================================================================
