-------------------------- MODULE PipelinePlanProofs --------------------------
(***************************************************************************)
(* No plan of a pipeline's schedule is executed twice, for all schedules,  *)
(* any number of handlers and any bounds.                                  *)
(***************************************************************************)
EXTENDS PipelineScheduleProofs

PlanOf(s) == [start |-> s.start, pending |-> s.pending]
Sleeping(h) == handlers[h].phase = "sleep"

\* A plan that a handler waits for, or that was executed.
InPlay(p) ==
  \/ \E h \in Handlers : Sleeping(h) /\ p = PlanOf(handlers[h].st)
  \/ \E i \in DOMAIN log : p = log[i]

HasDate(s) == s # NoSchedule /\ s.date # NoDate

\* The plan that is made now for the schedule s.
Present(s) == [start |-> clock, pending |-> clock + Delay[s.date]]

\* No plan starts in the future.
Begun == \A p \in PlanType : InPlay(p) => p.start <= clock

\* A handler that has executed the plan in the status leaves a date that has passed.
Passed ==
  \A h \in Handlers :
    handlers[h].phase = "record" /\ handlers[h].fresh => st.pending <= clock

\* Until the schedule is changed all plans are made for the first schedule.
FirstSchedule ==
  edits = 0 => /\ spec = InitSchedule
               /\ \A p \in PlanType : InPlay(p) =>
                    HasDate(spec) /\ p.pending = p.start + Delay[spec.date]

\* A plan made this second for the present schedule is still in the status.
Held ==
  HasDate(spec) /\ InPlay(Present(spec)) =>
    /\ st.pending = clock + Delay[spec.date]
    /\ st.schedule # NoSchedule /\ st.schedule.date = spec.date

Distinct ==
  /\ \A g, h \in Handlers : g # h /\ Sleeping(g) /\ Sleeping(h) =>
       PlanOf(handlers[g].st) # PlanOf(handlers[h].st)
  /\ \A h \in Handlers, i \in DOMAIN log : Sleeping(h) => log[i] # PlanOf(handlers[h].st)
  /\ \A i, j \in DOMAIN log : i # j => log[i] # log[j]

PlanInv ==
  /\ Begun /\ Passed
  /\ DatesApart /\ edits < 2 => FirstSchedule /\ Held /\ Distinct

--------------------------------------------------------------------------------
(* Plans come into play when the reconciler makes them. *)

LEMMA SleeperPlan ==
  ASSUME Typed, NEW h \in Handlers
  PROVE  PlanOf(handlers[h].st) \in PlanType
<1>1. handlers[h] \in HandlerType
  BY DEF Typed
<1> QED
  BY <1>1 DEF HandlerType, StatusType, PlanOf, PlanType

\* A sleeping handler was sleeping with the same plan, or is given the one made now.
LEMMA SleepSteps ==
  ASSUME Typed, Next, NEW h \in Handlers, Sleeping(h)'
  PROVE  \/ Sleeping(h) /\ handlers'[h].st = handlers[h].st
         \/ PlanExecution /\ pc = "schedule" /\ handlers'[h] = Sleeper(Planned)
<1>1. handlers[h] \in HandlerType
  BY DEF Typed
<1>2. handlers'[h].phase = "sleep"
  BY DEF Sleeping
<1>3. CASE handlers'[h] \in {handlers[h], [handlers[h] EXCEPT !.fresh = FALSE]}
  <2>1. handlers'[h].phase = handlers[h].phase /\ handlers'[h].st = handlers[h].st
    BY <1>1, <1>3 DEF HandlerType
  <2> QED
    BY <1>2, <2>1 DEF Sleeping
<1>4. handlers'[h] # NoHandler
  BY <1>2 DEF NoHandler, Handler
<1>5. handlers'[h] # Handler("record", handlers[h].st, clock, fresh)
  BY <1>2 DEF Handler
<1> QED
  BY <1>3, <1>4, <1>5, HandlerSteps

\* What PlanExecution plans, and for which handler.
LEMMA PlanExecutionIs ==
  ASSUME Typed, Coherent, PlanExecution
  PROVE  /\ fresh /\ cache.spec = spec /\ cache.st = st /\ HasDate(spec)
         /\ ~KeepsPending(cache)
         /\ PlanOf(Planned) = Present(spec)
         /\ st' = Planned /\ spec' = spec /\ Planned.schedule = spec
<1>1. /\ fresh /\ cache.spec = spec /\ cache.st = st /\ HasDate(spec) /\ ~KeepsPending(cache)
  BY DEF PlanExecution, AtPlan, AtDate, Coherent, Copy, HasDate
<1>2. st' = Planned /\ spec' = spec
  BY DEF PlanExecution, PutStatus
<1> QED
  BY <1>1, <1>2, PlannedType DEF HasDate, PlanOf, Present

LEMMA OneSleeper ==
  ASSUME Typed, PlanExecution
  PROVE  \E h \in Handlers :
           /\ ~Sleeping(h)
           /\ \A g \in Handlers \ {h} : handlers'[g].phase = handlers[g].phase
                                       /\ handlers'[g].st = handlers[g].st
<1>1. PICK h \in Handlers :
        /\ IsFree(h)
        /\ handlers' = [OutdatedHandlers EXCEPT ![h] = Sleeper(Planned)]
  BY DEF PlanExecution
<1>2. OutdatedHandlers \in [Handlers -> HandlerType] /\ handlers \in [Handlers -> HandlerType]
  BY OutdatedType DEF Typed
<1>3. ASSUME NEW g \in Handlers \ {h}
      PROVE  handlers'[g].phase = handlers[g].phase /\ handlers'[g].st = handlers[g].st
  <2>1. handlers'[g] = OutdatedHandlers[g]
    BY <1>1, <1>2
  <2>2. OutdatedHandlers[g] = [handlers[g] EXCEPT !.fresh = FALSE]
    BY DEF OutdatedHandlers
  <2>3. handlers[g] \in HandlerType
    BY <1>2
  <2> QED
    BY <2>1, <2>2, <2>3 DEF HandlerType
<1> QED
  BY <1>1, <1>3 DEF IsFree, Sleeping

\* The log after a step.
LEMMA LogEntries ==
  ASSUME Typed, Next
  PROVE  \/ log' = log
         \/ \E h \in Handlers :
              /\ Execute(h) /\ Sleeping(h) /\ ~Sleeping(h)'
              /\ DOMAIN log' = 1..(Len(log) + 1) /\ DOMAIN log = 1..Len(log)
              /\ \A i \in DOMAIN log : log'[i] = log[i]
              /\ log'[Len(log) + 1] = PlanOf(handlers[h].st)
<1>1. log \in Seq(PlanType) /\ Len(log) \in Nat
  BY DEF Typed
<1>2. ASSUME NEW h \in Handlers, Execute(h)
      PROVE  /\ Sleeping(h) /\ ~Sleeping(h)'
             /\ DOMAIN log' = 1..(Len(log) + 1) /\ DOMAIN log = 1..Len(log)
             /\ \A i \in DOMAIN log : log'[i] = log[i]
             /\ log'[Len(log) + 1] = PlanOf(handlers[h].st)
  <2>1. Sleeping(h)
    BY <1>2 DEF Execute, Awake, Sleeping
  <2>2. handlers'[h] = Handler("record", handlers[h].st, clock, fresh)
    BY <1>2 DEF Execute, Typed
  <2>3. ~Sleeping(h)'
    BY <2>2 DEF Sleeping, Handler
  <2>4. log' = Append(log, PlanOf(handlers[h].st))
    BY <1>2 DEF Execute, PlanOf
  <2>5. PlanOf(handlers[h].st) \in PlanType
    BY SleeperPlan
  <2> HIDE DEF PlanOf
  <2>6. /\ DOMAIN log' = 1..(Len(log) + 1) /\ DOMAIN log = 1..Len(log)
        /\ \A i \in DOMAIN log : log'[i] = log[i]
        /\ log'[Len(log) + 1] = PlanOf(handlers[h].st)
    BY <1>1, <2>4, <2>5
  <2> QED
    BY <2>1, <2>3, <2>6
<1> QED
  BY <1>2, LogSteps

LEMMA InPlaySteps ==
  ASSUME Typed, Coherent, Next, NEW p, InPlay(p)'
  PROVE  InPlay(p) \/ (PlanExecution /\ p = Present(spec))
<1>1. ASSUME NEW h \in Handlers, Sleeping(h)', p = PlanOf(handlers'[h].st)
      PROVE  InPlay(p) \/ (PlanExecution /\ p = Present(spec))
  <2>1. CASE Sleeping(h) /\ handlers'[h].st = handlers[h].st
    BY <1>1, <2>1 DEF InPlay
  <2>2. CASE PlanExecution /\ handlers'[h] = Sleeper(Planned)
    <3>1. handlers'[h].st = Planned
      BY <2>2 DEF Sleeper, Handler
    <3> QED
      BY <1>1, <2>2, <3>1, PlanExecutionIs
  <2> QED
    BY <1>1, <2>1, <2>2, SleepSteps
<1>2. ASSUME NEW i \in DOMAIN log', p = log'[i]
      PROVE  InPlay(p)
  <2>1. CASE log' = log
    BY <1>2, <2>1 DEF InPlay
  <2>2. ASSUME NEW h \in Handlers, Sleeping(h),
               DOMAIN log' = 1..(Len(log) + 1), DOMAIN log = 1..Len(log),
               \A k \in DOMAIN log : log'[k] = log[k],
               log'[Len(log) + 1] = PlanOf(handlers[h].st)
        PROVE  InPlay(p)
    <3>1. Len(log) \in Nat
      BY DEF Typed
    <3>2. CASE i = Len(log) + 1
      BY <1>2, <2>2, <3>2 DEF InPlay
    <3>3. CASE i # Len(log) + 1
      <4>1. i \in DOMAIN log
        BY <1>2, <2>2, <3>1, <3>3
      <4> QED
        BY <1>2, <2>2, <4>1 DEF InPlay
    <3> QED
      BY <3>2, <3>3
  <2> QED
    BY <2>1, <2>2, LogEntries
<1> QED
  BY <1>1, <1>2 DEF InPlay

LEMMA ClockSteps ==
  ASSUME Typed, Next
  PROVE  \/ Tick
         \/ clock' = clock /\ spec' = spec /\ edits' = edits
         \/ clock' = clock /\ \E s \in Schedules : EditSchedule(s)
<1>1. ASSUME NEW s, PutStatus(s) \/ TryStatus(s) PROVE spec' = spec
  BY <1>1 DEF PutStatus, TryStatus, pipeline
<1>2. CASE EnsureScheduleExecution
  <2>1. clock' = clock /\ edits' = edits
    BY <1>2 DEF EnsureScheduleExecution, bounds
  <2>2. spec' = spec
    BY <1>1, <1>2
    DEF EnsureScheduleExecution, RemoveSchedule, AwaitPending, AwaitPrevious, EmptyDate,
        DropPending, AlreadyExecuted, NothingBeforeEnd, PlanExecution, PlanRejected, pipeline
  <2> QED
    BY <2>1, <2>2
<1>3. CASE Start \/ RefreshStatus \/ UpdateMetadata \/ ConflictsExhausted
  BY <1>3 DEF Start, RefreshStatus, UpdateMetadata, ConflictsExhausted, pipeline, bounds
<1>4. CASE TimerFires \/ Sync \/ ApiError \/ IgnoredError \/ Restart
  BY <1>4 DEF TimerFires, Sync, ApiError, IgnoredError, Restart, Failure, pipeline, bounds
<1>5. ASSUME NEW h \in Handlers, HandlerStep(h) \/ HandlerFails(h)
      PROVE  clock' = clock /\ spec' = spec /\ edits' = edits
  <2>1. CASE RecordExecution(h)
    BY <1>1, <2>1 DEF RecordExecution, bounds
  <2> QED
    BY <1>5, <2>1 DEF HandlerStep, HandlerFails, Abort, Execute, RecordRejected, Failure,
                      pipeline, bounds
<1>6. CASE RunEnds \/ OldRunReports
  BY <1>1, <1>6 DEF RunEnds, OldRunReports, ReportEnd, Failure, bounds
<1>7. ASSUME NEW s \in Schedules, EditSchedule(s) PROVE clock' = clock
  BY <1>7 DEF EditSchedule
<1> QED
  BY <1>2, <1>3, <1>4, <1>5, <1>6, <1>7 DEF Next, Reconcile

LEMMA ClockGrows ==
  ASSUME Typed, Next
  PROVE  clock \in Nat /\ clock' \in Nat /\ clock <= clock'
<1>1. clock \in Nat
  BY DEF Typed, Scalars
<1>2. clock' \in {clock, clock + 1}
  BY ClockSteps DEF Tick
<1> QED
  BY <1>1, <1>2

--------------------------------------------------------------------------------
(* The parts of the invariant. *)

LEMMA NextBegun == Typed /\ Coherent /\ Begun /\ Next => Begun'
<1> SUFFICES ASSUME Typed, Coherent, Begun, Next, NEW p \in PlanType, InPlay(p)'
             PROVE  p.start <= clock'
  BY DEF Begun
<1>1. clock \in Nat /\ clock' \in Nat /\ clock <= clock' /\ p.start \in Nat
  BY ClockGrows DEF PlanType
<1>2. CASE InPlay(p)
  BY <1>1, <1>2 DEF Begun
<1>3. CASE p = Present(spec)
  BY <1>1, <1>3 DEF Present
<1> QED
  BY <1>2, <1>3, InPlaySteps

LEMMA NextPassed == Typed /\ Coherent /\ Passed /\ Next => Passed'
<1> SUFFICES ASSUME Typed, Coherent, Passed, Next, NEW h \in Handlers,
                    handlers'[h].phase = "record", handlers'[h].fresh
             PROVE  st'.pending <= clock'
  BY DEF Passed
<1>1. clock \in Nat /\ clock' \in Nat /\ clock <= clock'
  BY ClockGrows
<1>2. st' = st /\ st.pending \in Nat
  BY StatusSteps DEF Outdated, Typed, Scalars, StatusType
<1>3. handlers[h] \in HandlerType
  BY DEF Typed
<1>4. CASE handlers'[h] = handlers[h]
  <2>1. st.pending <= clock
    BY <1>4 DEF Passed
  <2> QED
    BY <1>1, <1>2, <2>1
<1>5. CASE Execute(h) /\ handlers'[h] = Handler("record", handlers[h].st, clock, fresh)
  <2>1. fresh
    BY <1>5 DEF Handler
  <2>2. st.pending = handlers[h].st.pending
    BY <1>5, <2>1 DEF Execute, MayExecute, SamePlan, Coherent, Copy
  <2>3. clock >= handlers[h].st.pending
    BY <1>5 DEF Execute, Awake
  <2> QED
    BY <1>1, <1>2, <2>2, <2>3
<1>6. handlers'[h] # [handlers[h] EXCEPT !.fresh = FALSE]
  BY <1>3 DEF HandlerType
<1>7. handlers'[h] # NoHandler /\ handlers'[h] # Sleeper(Planned)
  BY DEF NoHandler, Sleeper, Handler
<1> QED
  BY <1>4, <1>5, <1>6, <1>7, HandlerSteps

LEMMA NextFirstSchedule ==
  Typed /\ Coherent /\ FirstSchedule /\ Next => FirstSchedule'
<1> SUFFICES ASSUME Typed, Coherent, FirstSchedule, Next, edits' = 0
             PROVE  /\ spec' = InitSchedule
                    /\ \A p \in PlanType : InPlay(p)' =>
                         HasDate(spec') /\ p.pending = p.start + Delay[spec'.date]
  BY DEF FirstSchedule, HasDate
<1>1. edits \in Nat
  BY ScheduleAssumption DEF Typed, Scalars, ScheduleAssumption
<1>2. spec' = spec /\ edits = 0
  <2>1. ASSUME NEW s \in Schedules PROVE ~EditSchedule(s)
    BY <1>1 DEF EditSchedule
  <2>2. CASE Tick
    BY <2>2 DEF Tick, pipeline, bounds
  <2> QED
    BY <2>1, <2>2, ClockSteps
<1>3. ASSUME NEW p \in PlanType, InPlay(p)'
      PROVE  HasDate(spec) /\ p.pending = p.start + Delay[spec.date]
  <2>1. CASE InPlay(p)
    BY <1>2, <2>1 DEF FirstSchedule
  <2>2. CASE PlanExecution /\ p = Present(spec)
    BY <2>2, PlanExecutionIs DEF Present
  <2> QED
    BY <1>3, <2>1, <2>2, InPlaySteps
<1> QED
  BY <1>2, <1>3 DEF FirstSchedule

LEMMA PresentType ==
  ASSUME Typed, HasDate(spec)
  PROVE  /\ Present(spec) \in PlanType /\ spec.date \in Dates /\ Delay[spec.date] \in Nat
         /\ Present(spec).start = clock /\ Present(spec).pending = clock + Delay[spec.date]
<1>1. spec \in ScheduleType
  BY ScheduleInType DEF Typed, Scalars, HasDate
<1>2. spec.date \in Dates /\ Delay[spec.date] \in Nat
  BY <1>1, ScheduleAssumption DEF ScheduleAssumption, ScheduleType, HasDate
<1>3. clock \in Nat
  BY DEF Typed, Scalars
<1> QED
  BY <1>2, <1>3 DEF Present, PlanType

\* While the present plan stands nothing is planned anew.
LEMMA HeldKeeps ==
  ASSUME Typed, Coherent, Held, DatesApart, HasDate(spec), InPlay(Present(spec)), fresh
  PROVE  KeepsPending(cache) /\ st.pending > clock
<1>1. Delay[spec.date] \in Nat /\ Delay[spec.date] > 0 /\ clock \in Nat \ {0}
  BY PresentType DEF DatesApart, Typed, Scalars
<1>2. cache.spec = spec /\ cache.st = st
  BY DEF Coherent, Copy
<1>3. st.pending = clock + Delay[spec.date] /\ st.schedule.date = spec.date
  BY DEF Held
<1> QED
  BY <1>1, <1>2, <1>3 DEF KeepsPending, Nil

LEMMA HeldAhead ==
  ASSUME Typed, Held, DatesApart, HasDate(spec), InPlay(Present(spec))
  PROVE  ~(st.pending <= clock)
<1>1. Delay[spec.date] \in Nat /\ Delay[spec.date] > 0 /\ clock \in Nat \ {0}
  BY PresentType DEF DatesApart, Typed, Scalars
<1>2. st.pending = clock + Delay[spec.date]
  BY DEF Held
<1> QED
  BY <1>1, <1>2

LEMMA NewPlan ==
  ASSUME Typed, Coherent, Held, DatesApart, PlanExecution
  PROVE  ~InPlay(Present(spec))
BY PlanExecutionIs, HeldKeeps

LEMMA NextHeld ==
  ASSUME Typed, Typed', Coherent, Begun, Passed, FirstSchedule, Held, DatesApart,
         Next, edits' < 2
  PROVE  Held'
<1> SUFFICES ASSUME HasDate(spec)', InPlay(Present(spec))'
             PROVE  /\ st'.pending = clock' + Delay[spec'.date]
                    /\ st'.schedule # NoSchedule /\ st'.schedule.date = spec'.date
  BY DEF Held
<1>1. clock \in Nat \ {0} /\ edits \in Nat /\ st \in StatusType
  BY ScheduleAssumption DEF Typed, Scalars, ScheduleAssumption
<1>2. ~Tick
  <2> SUFFICES ASSUME Tick PROVE FALSE
    OBVIOUS
  <2>1. UNCHANGED <<spec, handlers, log>> /\ clock' = clock + 1
    BY DEF Tick, pipeline, runs
  <2>2. HasDate(spec)
    BY <2>1 DEF HasDate
  <2> DEFINE p == [start |-> clock + 1, pending |-> clock + 1 + Delay[spec.date]]
  <2>3. InPlay(p)
    BY <2>1 DEF InPlay, Present, Sleeping
  <2>4. p \in PlanType
    BY <1>1, <2>2, PresentType DEF PlanType
  <2> QED
    BY <1>1, <2>3, <2>4 DEF Begun
<1>3. ASSUME NEW s \in Schedules, EditSchedule(s)
      PROVE  /\ st'.pending = clock' + Delay[spec'.date]
             /\ st'.schedule # NoSchedule /\ st'.schedule.date = spec'.date
  <2>1. spec' = s /\ st' = st /\ clock' = clock /\ edits' = edits + 1
        /\ handlers' = OutdatedHandlers /\ log' = log
    BY <1>3 DEF EditSchedule, runs
  <2>2. edits = 0
    BY <1>1, <2>1
  <2>3. Present(spec)' = Present(s) /\ Present(s) \in PlanType /\ s.date \in Dates
        /\ Present(s).start = clock /\ Present(s).pending = clock + Delay[s.date]
        /\ Delay[s.date] \in Nat
    <3>1. s \in ScheduleType /\ s.date # NoDate
      BY <2>1, ScheduleInType DEF HasDate
    <3>2. s.date \in Dates /\ Delay[s.date] \in Nat
      BY <3>1, ScheduleAssumption DEF ScheduleAssumption, ScheduleType
    <3> QED
      BY <1>1, <2>1, <3>2 DEF Present, PlanType
  <2>4. InPlay(Present(s))
    <3>1. \A h \in Handlers : handlers'[h].phase = handlers[h].phase
                             /\ handlers'[h].st = handlers[h].st
      BY <2>1 DEF OutdatedHandlers, Typed, HandlerType
    <3> QED
      BY <2>1, <2>3, <3>1 DEF InPlay, Sleeping
  <2>5. HasDate(spec) /\ clock + Delay[s.date] = clock + Delay[spec.date]
    BY <2>2, <2>3, <2>4 DEF FirstSchedule
  <2>6. spec.date \in Dates /\ Delay[spec.date] \in Nat
    BY <2>5, PresentType
  <2>7. Delay[s.date] = Delay[spec.date]
    BY <1>1, <2>3, <2>5, <2>6
  <2>8. s.date = spec.date
    BY <2>3, <2>6, <2>7 DEF DatesApart
  <2>9. Present(s) = Present(spec)
    BY <2>8 DEF Present
  <2> QED
    BY <2>1, <2>4, <2>5, <2>8, <2>9 DEF Held
<1>4. ASSUME clock' = clock, spec' = spec
      PROVE  /\ st'.pending = clock' + Delay[spec'.date]
             /\ st'.schedule # NoSchedule /\ st'.schedule.date = spec'.date
  <2>1. HasDate(spec) /\ Present(spec)' = Present(spec)
    BY <1>4 DEF HasDate, Present
  <2>2. CASE PlanExecution
    BY <1>4, <2>1, <2>2, PlanExecutionIs, PlannedType DEF HasDate
  <2>3. CASE ~PlanExecution
    <3>1. InPlay(Present(spec))
      BY <2>1, <2>3, InPlaySteps
    <3>2. /\ st.pending = clock + Delay[spec.date]
          /\ st.schedule # NoSchedule /\ st.schedule.date = spec.date
      BY <2>1, <3>1 DEF Held
    <3>3. ~(fresh /\ CacheWriter)
      <4> SUFFICES ASSUME fresh, CacheWriter PROVE FALSE
        OBVIOUS
      <4>1. KeepsPending(cache)
        BY <2>1, <3>1, HeldKeeps
      <4>2. HasDate(cache.spec)
        BY <2>1 DEF Coherent, Copy, HasDate
      <4> QED
        BY <2>3, <4>1, <4>2 DEF CacheWriter, RemoveSchedule, EmptyDate, DropPending, AtDate, HasDate
    <3>4. ASSUME NEW h \in Handlers PROVE ~(handlers[h].phase = "record" /\ handlers[h].fresh)
      BY <2>1, <3>1, HeldAhead DEF Passed
    <3>5. st' = st \/ st' = [st EXCEPT !.lastEnd = clock]
      BY <3>3, <3>4, StatusSteps
    <3>6. st'.pending = st.pending /\ st'.schedule = st.schedule
      BY <1>1, <3>5 DEF StatusType
    <3> QED
      BY <1>4, <3>2, <3>6
  <2> QED
    BY <2>2, <2>3
<1> QED
  BY <1>2, <1>3, <1>4, ClockSteps

LEMMA NextDistinct ==
  ASSUME Typed, Coherent, Held, Distinct, DatesApart, Next
  PROVE  Distinct'
<1>n. PlanExecution => ~InPlay(Present(spec)) /\ PlanOf(Planned) = Present(spec)
  BY NewPlan, PlanExecutionIs
<1>s. ASSUME NEW h \in Handlers, Sleeping(h)', ~PlanExecution
      PROVE  Sleeping(h) /\ PlanOf(handlers'[h].st) = PlanOf(handlers[h].st)
  BY <1>s, SleepSteps
<1>1. ASSUME NEW g \in Handlers, NEW h \in Handlers, g # h, Sleeping(g)', Sleeping(h)'
      PROVE  PlanOf(handlers'[g].st) # PlanOf(handlers'[h].st)
  <2>1. CASE ~PlanExecution
    BY <1>1, <1>s, <2>1 DEF Distinct
  <2>2. CASE PlanExecution
    <3>1. PICK k \in Handlers :
            /\ ~Sleeping(k)
            /\ \A i \in Handlers \ {k} : handlers'[i].phase = handlers[i].phase
                                        /\ handlers'[i].st = handlers[i].st
      BY <2>2, OneSleeper
    <3>2. ASSUME NEW i \in Handlers, i # k, Sleeping(i)'
          PROVE  Sleeping(i) /\ handlers'[i].st = handlers[i].st /\ InPlay(PlanOf(handlers'[i].st))
      BY <3>1, <3>2 DEF Sleeping, InPlay
    <3>3. ASSUME Sleeping(k)' PROVE PlanOf(handlers'[k].st) = Present(spec)
      <4>1. handlers'[k].st = Planned
        BY <3>1, <3>3, SleepSteps DEF Sleeper, Handler
      <4> QED
        BY <2>2, <1>n, <4>1
    <3>4. CASE g # k /\ h # k
      BY <1>1, <3>2, <3>4 DEF Distinct
    <3>5. CASE g = k
      BY <1>1, <1>n, <2>2, <3>2, <3>3, <3>5
    <3>6. CASE h = k
      BY <1>1, <1>n, <2>2, <3>2, <3>3, <3>6
    <3> QED
      BY <3>4, <3>5, <3>6
  <2> QED
    BY <2>1, <2>2
<1>2. ASSUME NEW h \in Handlers, NEW i \in DOMAIN log', Sleeping(h)'
      PROVE  log'[i] # PlanOf(handlers'[h].st)
  <2>1. CASE log' = log
    <3>1. CASE Sleeping(h) /\ handlers'[h].st = handlers[h].st
      BY <1>2, <2>1, <3>1 DEF Distinct
    <3>2. CASE PlanExecution /\ handlers'[h] = Sleeper(Planned)
      <4>1. PlanOf(handlers'[h].st) = Present(spec)
        BY <1>n, <3>2 DEF Sleeper, Handler
      <4> QED
        BY <1>2, <1>n, <2>1, <3>2, <4>1 DEF InPlay
    <3> QED
      BY <1>2, <3>1, <3>2, SleepSteps
  <2>2. ASSUME NEW k \in Handlers, Execute(k), Sleeping(k), ~Sleeping(k)',
               DOMAIN log' = 1..(Len(log) + 1), DOMAIN log = 1..Len(log),
               \A j \in DOMAIN log : log'[j] = log[j],
               log'[Len(log) + 1] = PlanOf(handlers[k].st)
        PROVE  log'[i] # PlanOf(handlers'[h].st)
    <3>1. ~(PlanExecution /\ pc = "schedule")
      BY <2>2 DEF PlanExecution, Requeue, Execute, worker
    <3>2. Sleeping(h) /\ handlers'[h].st = handlers[h].st /\ h # k
      BY <1>2, <2>2, <3>1, SleepSteps
    <3>3. CASE i \in DOMAIN log
      BY <2>2, <3>2, <3>3 DEF Distinct
    <3>4. CASE i \notin DOMAIN log
      <4>1. Len(log) \in Nat
        BY DEF Typed
      <4>2. i = Len(log) + 1
        BY <1>2, <2>2, <3>4, <4>1
      <4> QED
        BY <2>2, <3>2, <4>2 DEF Distinct
    <3> QED
      BY <3>3, <3>4
  <2> QED
    BY <2>1, <2>2, LogEntries
<1>3. ASSUME NEW i \in DOMAIN log', NEW j \in DOMAIN log', i # j
      PROVE  log'[i] # log'[j]
  <2>1. CASE log' = log
    BY <1>3, <2>1 DEF Distinct
  <2>2. ASSUME NEW k \in Handlers, Sleeping(k),
               DOMAIN log' = 1..(Len(log) + 1), DOMAIN log = 1..Len(log),
               \A l \in DOMAIN log : log'[l] = log[l],
               log'[Len(log) + 1] = PlanOf(handlers[k].st)
        PROVE  log'[i] # log'[j]
    <3>1. Len(log) \in Nat
      BY DEF Typed
    <3>2. i \in DOMAIN log \/ i = Len(log) + 1
      BY <1>3, <2>2, <3>1
    <3>3. j \in DOMAIN log \/ j = Len(log) + 1
      BY <1>3, <2>2, <3>1
    <3> QED
      BY <1>3, <2>2, <3>2, <3>3 DEF Distinct
  <2> QED
    BY <2>1, <2>2, LogEntries
<1> QED
  BY <1>1, <1>2, <1>3 DEF Distinct

--------------------------------------------------------------------------------
LEMMA InitPlans == Init => PlanInv
<1> SUFFICES ASSUME Init PROVE PlanInv
  OBVIOUS
<1>1. \A h \in Handlers : handlers[h].phase = "none"
  BY DEF Init, NoHandler, Handler
<1>2. log = <<>> /\ DOMAIN log = {}
  BY DEF Init
<1>3. ASSUME NEW p PROVE ~InPlay(p)
  BY <1>1, <1>2 DEF InPlay, Sleeping
<1>4. spec = InitSchedule
  BY DEF Init
<1>5. Begun /\ Passed
  BY <1>1, <1>3 DEF Begun, Passed
<1>6. FirstSchedule /\ Held
  BY <1>3, <1>4 DEF FirstSchedule, Held
<1>7. Distinct
  BY <1>1, <1>2 DEF Distinct, Sleeping
<1> QED
  BY <1>5, <1>6, <1>7 DEF PlanInv

LEMMA SamePlans == UNCHANGED vars /\ PlanInv => PlanInv'
BY DEF vars, pipeline, informer, runs, bounds, PlanInv, Begun, Passed, FirstSchedule, Held,
       Distinct, InPlay, Sleeping, Present, HasDate, DatesApart

LEMMA NextPlans == Typed /\ Coherent /\ PlanInv /\ [Next]_vars => PlanInv'
<1>1. CASE UNCHANGED vars
  BY <1>1, SamePlans
<1>2. ASSUME Typed, Coherent, PlanInv, Next PROVE PlanInv'
  <2>1. Begun' /\ Passed'
    BY <1>2, NextBegun, NextPassed DEF PlanInv
  <2>2. ASSUME DatesApart, edits' < 2 PROVE FirstSchedule' /\ Held' /\ Distinct'
    <3>1. edits \in Nat
      BY <1>2, ScheduleAssumption DEF Typed, Scalars, ScheduleAssumption
    <3>2. edits' \in {edits, edits + 1}
      <4>1. Tick => edits' = edits
        BY DEF Tick, bounds
      <4>2. \A s \in Schedules : EditSchedule(s) => edits' = edits + 1
        BY DEF EditSchedule
      <4> QED
        BY <1>2, <4>1, <4>2, ClockSteps
    <3>3. edits < 2
      BY <2>2, <3>1, <3>2
    <3>4. FirstSchedule /\ Held /\ Distinct /\ Begun /\ Passed
      BY <1>2, <2>2, <3>3 DEF PlanInv
    <3>5. Typed'
      BY <1>2, NextTyped
    <3>6. FirstSchedule'
      BY <1>2, <3>4, NextFirstSchedule
    <3>7. Held'
      BY <1>2, <2>2, <3>4, <3>5, NextHeld
    <3>8. Distinct'
      BY <1>2, <2>2, <3>4, NextDistinct
    <3> QED
      BY <3>6, <3>7, <3>8
  <2> QED
    BY <2>1, <2>2 DEF PlanInv, DatesApart
<1> QED
  BY <1>1, <1>2

\* No plan is executed twice, by any number of handlers, with any failures and
\* restarts: a plan made this second for the present schedule is still in the
\* status, where it keeps the reconciler from planning it again.
THEOREM OneRunPerPlanAlways == Spec => []OneRunPerPlan
<1>1. Init => Typed /\ Coherent /\ PlanInv
  BY InitTyped, InitCoherent, InitPlans
<1>2. Typed /\ Coherent /\ PlanInv /\ [Next]_vars => Typed' /\ Coherent' /\ PlanInv'
  BY NextTyped, NextCoherent, NextPlans
<1>3. PlanInv => OneRunPerPlan
  BY DEF PlanInv, Distinct, OneRunPerPlan
<1> QED
  BY <1>1, <1>2, <1>3, PTL DEF Spec
================================================================================
