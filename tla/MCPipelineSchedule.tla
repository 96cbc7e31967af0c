-------------------------- MODULE MCPipelineSchedule --------------------------
(* Small schedules for TLC.                                                 *)
EXTENDS ScheduleClaims

MCDates == {"short", "long"}
MCDelay == [short |-> 1, long |-> 2]

Sched(date, end, repeat) == [date |-> date, startDate |-> Nil, endDate |-> end, repeat |-> repeat]

Once == Sched("short", Nil, FALSE)
Often == Sched("short", Nil, TRUE)
OftenUntil == Sched("short", 4, TRUE)
Longer == [Sched("long", Nil, TRUE) EXCEPT !.startDate = 4]
Undated == Sched(NoDate, Nil, FALSE)

AllSchedules == {NoSchedule, Once, Often, OftenUntil, Longer, Undated}
OnceOnly == {Once}
================================================================================
