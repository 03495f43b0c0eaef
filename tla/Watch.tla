-------------------------------- MODULE Watch --------------------------------
(***************************************************************************)
(* The background worker `okf-ingest watch` (okf_mcp.ingest.scheduler:     *)
(* run_watch, run_tick, due_specs and the state file), one process of it   *)
(* that a service manager starts again whenever it ended.  Beside it other *)
(* processes take the sync lock: manual syncs, and `watch --once` of a     *)
(* timer, which has the state file in memory as well.  Signals ask the     *)
(* worker to stop, kills and exceptions end it.                            *)
(*                                                                         *)
(* Time is kept as ages: how long ago a source was last synced, up to a    *)
(* horizon.  A source that was never synced, or whose stamp is lost, is as *)
(* old as the horizon: it is due either way.  What a sync does is the      *)
(* subject of Sync; here it returns, or raises.                            *)
(***************************************************************************)
EXTENDS Naturals, FiniteSets

CONSTANTS
  Sources,      \* configured sources
  Schedule,     \* a source's own `schedule:`, or Unset
  Global,       \* the global `schedule:`, or Unset
  Unset,        \* "no schedule" in a configuration
  Interval,     \* --interval
  Horizon,      \* ages are counted up to here
  MaxLosses,    \* bound: kills, and exceptions the loop does not catch
  MaxOthers     \* bound: other processes

ASSUME IntervalAssumption == Interval \in Nat
ASSUME HorizonAssumption == Horizon \in Nat /\ Interval <= Horizon
ASSUME ScheduleAssumption ==
  /\ Unset \notin 0..Horizon
  /\ Schedule \in [Sources -> 0..Horizon \cup {Unset}]
  /\ Global \in 0..Horizon \cup {Unset}
ASSUME BoundsAssumption == MaxLosses \in Nat /\ MaxOthers \in Nat

Ages == 0..Horizon

VARIABLES
  pc,           \* where the worker is
  once,         \* --once
  memory,       \* last_synced, as ages
  file,         \* schedule_state.json, as ages
  due,          \* the sources of this tick
  nowAge,       \* how long ago the tick read the clock
  slept,        \* how long it has slept, up to the interval
  requested,    \* ShutdownRequested.requested
  other,        \* where the other process is
  theirs,       \* the last_synced of a timer's process, as ages
  truth,        \* history: how long ago each source's last sync began
  lost,         \* history: sources whose last sync is not in the state file
  clash,        \* history: two watchers have run at the same time
  losses,       \* kills and exceptions so far
  others        \* other processes so far

worker == <<once, memory, due, nowAge, slept, requested>>
otherVars == <<other, theirs, others>>
history == <<truth, lost, clash, losses>>
vars == <<pc, worker, file, otherVars, history>>

-----------------------------------------------------------------------------
\* `a or b or c` in Python: a schedule of zero counts as none.
Set(v) == v # Unset /\ v # 0

EffectiveInterval(s) ==
  IF Set(Schedule[s]) THEN Schedule[s]
  ELSE IF Set(Global) THEN Global ELSE Interval

DueBy(ages) == {s \in Sources : ages[s] >= EffectiveInterval(s)}
AllDue == DueBy(memory)

\* Mutation of DueSpecs: one source a tick.
DueOne == IF AllDue = {} THEN {} ELSE {CHOOSE s \in AllDue : TRUE}

DueSpecs == AllDue

Oldest == [s \in Sources |-> Horizon]
Stamp(ages, some, age) ==
  [s \in Sources |-> IF s \in some THEN age ELSE ages[s]]

\* Another process holds the sync lock; it is a watcher.
Busy == other \in {"manual", "sync"}
Timer == other \in {"ready", "sync", "save", "write"}

Init ==
  /\ pc = "off"
  /\ once = FALSE
  /\ memory = Oldest
  /\ file = Oldest
  /\ due = {}
  /\ nowAge = 0
  /\ slept = 0
  /\ requested = FALSE
  /\ other = "none"
  /\ theirs = Oldest
  /\ truth = Oldest
  /\ lost = {}
  /\ clash = FALSE
  /\ losses = 0
  /\ others = 0

-----------------------------------------------------------------------------
\* The process starts and loads the state file; a file that is missing or
\* half written means that every source looks never synced.  It runs one tick
\* (--once, from a timer) or loops.
Launch ==
  /\ pc = "off"
  /\ once' \in BOOLEAN
  /\ memory' = file
  /\ due' = {} /\ nowAge' = 0 /\ slept' = 0 /\ requested' = FALSE
  /\ pc' = "tick"
  /\ clash' = (clash \/ Timer)
  /\ UNCHANGED <<file, otherVars, truth, lost, losses>>

\* Mutation of Tick: no early return.
TickAlways ==
  /\ pc = "tick"
  /\ nowAge' = 0
  /\ due' = DueSpecs
  /\ pc' = "lock"
  /\ UNCHANGED <<once, memory, slept, requested, file, otherVars, history>>

\* Mutation of Tick: every tick has a ShutdownRequested of its own.
TickForgetsRequest ==
  /\ pc = "tick"
  /\ nowAge' = 0
  /\ due' = DueSpecs
  /\ requested' = FALSE
  /\ pc' = IF DueSpecs = {} THEN "ticked" ELSE "lock"
  /\ UNCHANGED <<once, memory, slept, file, otherVars, history>>

\* run_tick reads the clock and finds the due sources.
Tick ==
  /\ pc = "tick"
  /\ nowAge' = 0
  /\ due' = DueSpecs
  /\ pc' = IF DueSpecs = {} THEN "ticked" ELSE "lock"
  /\ UNCHANGED <<once, memory, slept, requested, file, otherVars, history>>

\* lock.held(): the sync begins.
Lock ==
  /\ pc = "lock"
  /\ ~Busy
  /\ truth' = Stamp(truth, {s \in due : nowAge < truth[s]}, nowAge)
  /\ lost' = lost \ due
  /\ pc' = "sync"
  /\ UNCHANGED <<worker, file, otherVars, clash, losses>>

\* Mutation of LockHeld: the sources are rescheduled all the same.
LockHeldReschedules ==
  /\ pc = "lock"
  /\ Busy
  /\ memory' = Stamp(memory, due, nowAge)
  /\ pc' = "ticked"
  /\ UNCHANGED <<once, due, nowAge, slept, requested, file, otherVars,
                 history>>

\* LockHeld: the tick is skipped, and nothing is rescheduled.
LockHeld ==
  /\ pc = "lock"
  /\ Busy
  /\ pc' = "ticked"
  /\ UNCHANGED <<worker, file, otherVars, history>>

\* Mutation of SyncReturns: only a source that is OK is rescheduled.
ReschedulesOk ==
  /\ pc = "sync"
  /\ \E failed \in SUBSET due :
       memory' = Stamp(memory, due \ failed, nowAge)
  /\ pc' = "save"
  /\ UNCHANGED <<once, due, nowAge, slept, requested, file, otherVars,
                 history>>

\* The sync returns: every source it tried is stamped with the tick's clock,
\* whether it was OK or FAILED.
SyncReturns ==
  /\ pc = "sync"
  /\ memory' = Stamp(memory, due, nowAge)
  /\ pc' = "save"
  /\ UNCHANGED <<once, due, nowAge, slept, requested, file, otherVars,
                 history>>

\* save_state truncates the state file ...
SaveOpens ==
  /\ pc = "save"
  /\ file' = Oldest
  /\ pc' = "write"
  /\ UNCHANGED <<worker, otherVars, history>>

\* ... and writes it.
SaveWrites ==
  /\ pc = "write"
  /\ file' = memory
  /\ pc' = "ticked"
  /\ UNCHANGED <<worker, otherVars, history>>

\* The loop ends (exit 0), or goes to sleep.
AfterTick ==
  /\ pc = "ticked"
  /\ due' = {} /\ nowAge' = 0
  /\ pc' = IF once \/ requested THEN "off" ELSE "sleep"
  /\ UNCHANGED <<once, memory, slept, requested, file, otherVars, history>>

\* time.sleep resumes after a signal: the whole interval passes in any case.
WakeUp ==
  /\ pc = "sleep"
  /\ slept >= Interval
  /\ slept' = 0
  /\ pc' = IF requested THEN "off" ELSE "tick"
  /\ UNCHANGED <<once, memory, due, nowAge, requested, file, otherVars,
                 history>>

\* The process ends with the last syncs of some sources not on file.
Lose ==
  /\ pc' = "off"
  /\ lost' = {s \in Sources : file[s] # truth[s]}
  /\ UNCHANGED <<worker, file, otherVars, truth, clash>>

\* The sync raises what neither _sync nor the loop catches, before or after
\* it has changed anything.
SyncRaises ==
  /\ pc = "sync"
  /\ losses < MaxLosses
  /\ losses' = losses + 1
  /\ Lose

Kill ==
  /\ pc # "off"
  /\ losses < MaxLosses
  /\ losses' = losses + 1
  /\ Lose

\* SIGINT or SIGTERM.
Signal ==
  /\ pc # "off"
  /\ requested' = TRUE
  /\ UNCHANGED <<pc, once, memory, due, nowAge, slept, file, otherVars,
                 history>>

\* A manual sync takes the lock ...
OtherTakes ==
  /\ pc # "sync"
  /\ other = "none"
  /\ others < MaxOthers
  /\ others' = others + 1
  /\ other' = "manual"
  /\ UNCHANGED <<pc, worker, file, theirs, history>>

\* ... and releases it.
OtherReleases ==
  /\ other = "manual"
  /\ other' = "none"
  /\ UNCHANGED <<pc, worker, file, theirs, others, history>>

\* A timer runs `watch --once`, which loads the state file ...
TimerLaunches ==
  /\ other = "none"
  /\ others < MaxOthers
  /\ others' = others + 1
  /\ other' = "ready"
  /\ theirs' = file
  /\ clash' = (clash \/ pc # "off")
  /\ UNCHANGED <<pc, worker, file, truth, lost, losses>>

\* ... and has nothing to do, or cannot get the lock ...
TimerSkips ==
  /\ other = "ready"
  /\ DueBy(theirs) = {} \/ pc = "sync"
  /\ other' = "none"
  /\ theirs' = Oldest
  /\ UNCHANGED <<pc, worker, file, others, history>>

\* ... or syncs what is due ...
TimerSyncs ==
  /\ other = "ready"
  /\ DueBy(theirs) # {} /\ pc # "sync"
  /\ other' = "sync"
  /\ theirs' = Stamp(theirs, DueBy(theirs), 0)
  /\ truth' = Stamp(truth, DueBy(theirs), 0)
  /\ lost' = lost \ DueBy(theirs)
  /\ UNCHANGED <<pc, worker, file, others, clash, losses>>

\* ... releases the lock ...
TimerReturns ==
  /\ other = "sync"
  /\ other' = "save"
  /\ UNCHANGED <<pc, worker, file, theirs, others, history>>

\* ... and saves all that it has in memory, in two steps as well.
TimerOpens ==
  /\ other = "save"
  /\ other' = "write"
  /\ file' = Oldest
  /\ UNCHANGED <<pc, worker, theirs, others, history>>

TimerWrites ==
  /\ other = "write"
  /\ other' = "none"
  /\ file' = theirs
  /\ theirs' = Oldest
  /\ UNCHANGED <<pc, worker, others, history>>

\* It is killed, or its sync raises.
TimerDies ==
  /\ Timer
  /\ losses < MaxLosses
  /\ losses' = losses + 1
  /\ other' = "none"
  /\ theirs' = Oldest
  /\ lost' = {s \in Sources : file[s] # truth[s]}
  /\ UNCHANGED <<pc, worker, file, others, truth, clash>>

Older(a) == IF a < Horizon THEN a + 1 ELSE Horizon

\* Time passes.
Pass ==
  /\ memory' = [s \in Sources |-> Older(memory[s])]
  /\ file' = [s \in Sources |-> Older(file[s])]
  /\ truth' = [s \in Sources |-> Older(truth[s])]
  /\ theirs' = [s \in Sources |-> Older(theirs[s])]
  /\ nowAge' = IF pc \in {"lock", "sync"} THEN Older(nowAge) ELSE nowAge
  /\ slept' = IF pc = "sleep" /\ slept < Interval THEN slept + 1 ELSE slept
  /\ UNCHANGED <<pc, once, due, requested, other, others, lost, clash, losses>>

Step ==
  \/ Tick \/ Lock \/ LockHeld \/ SyncReturns \/ SyncRaises
  \/ SaveOpens \/ SaveWrites \/ AfterTick \/ WakeUp

OtherStep ==
  \/ OtherReleases
  \/ TimerSkips \/ TimerSyncs \/ TimerReturns \/ TimerOpens \/ TimerWrites

Next ==
  \/ Launch \/ Step \/ Kill \/ Signal \/ Pass
  \/ OtherTakes \/ TimerLaunches \/ OtherStep \/ TimerDies

Spec == Init /\ [][Next]_vars

-----------------------------------------------------------------------------
\* Every variable has its type, and run_tick goes to the lock only when a
\* source is due.
TypeOK ==
  /\ pc \in {"off", "tick", "lock", "sync", "save", "write", "ticked", "sleep"}
  /\ memory \in [Sources -> Ages] /\ file \in [Sources -> Ages]
  /\ truth \in [Sources -> Ages]
  /\ due \subseteq Sources
  /\ pc \in {"lock", "sync", "save", "write"} => due # {}
  /\ nowAge \in Ages /\ slept \in Ages
  /\ once \in BOOLEAN /\ requested \in BOOLEAN /\ clash \in BOOLEAN
  /\ other \in {"none", "manual", "ready", "sync", "save", "write"}
  /\ pc = "sync" => ~Busy
  /\ theirs \in [Sources -> Ages]
  /\ lost \subseteq Sources
  /\ losses \in 0..MaxLosses /\ others \in 0..MaxOthers

\* A FAILED source is "simply retried on its own next cadence": no source is
\* synced before its interval has passed since its last attempt, over clean
\* stops, restarts, skipped ticks and ticks of a timer in between, unless a
\* process ended before the attempt was on file, or two watchers ran at the
\* same time: each then saves what it has in memory over the other's stamps.
NeverEarly ==
  pc = "lock" /\ ~clash =>
    \A s \in due \ lost : truth[s] >= EffectiveInterval(s)

\* The state file never claims a sync that did not happen: no stamp, in memory
\* or on file, is younger than the last attempt (a source would be skipped),
\* whatever two watchers do to each other's file.
NeverYounger ==
  \A s \in Sources :
    memory[s] >= truth[s] /\ file[s] >= truth[s]

-----------------------------------------------------------------------------
\* The service manager starts the worker again, time passes, the worker's
\* process runs, and other processes come to an end.
Fairness ==
  /\ WF_vars(Launch) /\ WF_vars(Step) /\ WF_vars(Pass)
  /\ WF_vars(OtherStep)

FairSpec == Spec /\ Fairness

\* A request to stop is answered: the process ends.
RequestStops == requested ~> pc = "off"

\* "One source's failure never stalls the schedule": every source is synced
\* again and again, as long as exceptions that no handler catches come to an
\* end.
EverySourceSynced ==
  \A s \in Sources : []<>(pc = "save" /\ s \in due)
=============================================================================
