----------------------------- MODULE WatchProofs -----------------------------
(***************************************************************************)
(* What the watch loop's schedule guarantees for every set of sources,     *)
(* every configuration and any number of kills and other processes,        *)
(* checked by TLAPS.                                                       *)
(***************************************************************************)
EXTENDS Watch, TLAPS

\* A clock that a sync has been measured by is not younger than it: the tick's
\* clock once the lock is held, and a timer's stamps.
ClocksNotYounger ==
  /\ \A s \in Sources : theirs[s] >= truth[s]
  /\ pc = "sync" => \A s \in due : nowAge >= truth[s]

\* As long as two watchers have not met: a timer's tick runs while the worker
\* is off.
OneWatcher == Timer => pc = "off"

\* What is in memory is what is true, except for the losses ...
MemoryHolds ==
  /\ pc \in {"tick", "lock", "save", "write", "ticked", "sleep"} =>
       \A s \in Sources \ lost : memory[s] = truth[s]
  /\ pc = "sync" => \A s \in Sources \ (lost \cup due) : memory[s] = truth[s]
  /\ Timer => \A s \in Sources \ lost : theirs[s] = truth[s]

\* ... and so is the state file, except while a sync is not saved yet.
FileHolds ==
  pc \in {"off", "tick", "lock", "ticked", "sleep"}
  /\ other \in {"none", "manual", "ready"} =>
    \A s \in Sources \ lost : file[s] = truth[s]

\* The tick's clock is younger than every earlier sync, and it is the age of
\* the sync that it starts.
TickIsLatest ==
  /\ pc = "lock" => \A s \in Sources : nowAge <= truth[s]
  /\ pc = "sync" => \A s \in due : s \notin lost /\ truth[s] = nowAge

Accord == ~clash => OneWatcher /\ MemoryHolds /\ FileHolds /\ TickIsLatest

IInv ==
  /\ TypeOK
  /\ NeverYounger
  /\ ClocksNotYounger
  /\ Accord
  /\ NeverEarly
-----------------------------------------------------------------------------
(* Every step keeps the type of every variable. *)
LEMMA TypeStep == TypeOK /\ [Next]_vars => TypeOK'
<1> USE IntervalAssumption, HorizonAssumption, ScheduleAssumption,
        BoundsAssumption
    DEF TypeOK, Ages, Busy, Timer, vars, worker, otherVars, history
<1> SUFFICES ASSUME TypeOK, [Next]_vars
             PROVE  TypeOK'
  OBVIOUS
<1>1. CASE Launch
  <2>1. once' \in BOOLEAN /\ requested' \in BOOLEAN /\ clash' \in BOOLEAN
    BY <1>1, Zenon DEF Launch
  <2>2. /\ pc' = "tick" /\ memory' = file /\ due' = {}
        /\ nowAge' = 0 /\ slept' = 0
        /\ UNCHANGED <<file, other, theirs, others, truth, lost, losses>>
    BY <1>1 DEF Launch
  <2>3. QED
    BY <2>1, <2>2
<1>2. CASE Tick
  BY <1>2 DEF Tick, DueSpecs, AllDue, DueBy
<1>3. CASE Lock
  BY <1>3 DEF Lock, Busy, Stamp
<1>4. CASE LockHeld
  BY <1>4 DEF LockHeld
<1>5. CASE SyncReturns
  BY <1>5 DEF SyncReturns, Stamp
<1>6. CASE SyncRaises
  BY <1>6 DEF SyncRaises, Lose
<1>7. CASE SaveOpens
  BY <1>7 DEF SaveOpens, Oldest
<1>8. CASE SaveWrites
  BY <1>8 DEF SaveWrites
<1>9. CASE AfterTick
  BY <1>9 DEF AfterTick
<1>10. CASE WakeUp
  BY <1>10 DEF WakeUp
<1>11. CASE Kill
  BY <1>11 DEF Kill, Lose
<1>12. CASE Signal
  BY <1>12 DEF Signal
<1>13. CASE Pass
  BY <1>13 DEF Pass, Older
<1>14. CASE OtherTakes
  BY <1>14 DEF OtherTakes
<1>15. CASE TimerLaunches
  BY <1>15 DEF TimerLaunches
<1>16. CASE OtherReleases
  BY <1>16 DEF OtherReleases
<1>17. CASE TimerSkips
  BY <1>17 DEF TimerSkips, Oldest
<1>18. CASE TimerSyncs
  BY <1>18 DEF TimerSyncs, Stamp, DueBy
<1>19. CASE TimerReturns
  BY <1>19 DEF TimerReturns
<1>20. CASE TimerOpens
  BY <1>20 DEF TimerOpens, Oldest
<1>21. CASE TimerWrites
  BY <1>21 DEF TimerWrites, Oldest
<1>22. CASE TimerDies
  BY <1>22 DEF TimerDies, Oldest
<1>23. CASE UNCHANGED vars
  BY <1>23
<1>24. QED
  BY <1>1, <1>2, <1>3, <1>4, <1>5, <1>6, <1>7, <1>8, <1>9, <1>10, <1>11, <1>12,
     <1>13, <1>14, <1>15, <1>16, <1>17, <1>18, <1>19, <1>20, <1>21, <1>22,
     <1>23
     DEF Next, Step, OtherStep

(* No step makes a stamp younger than the sync it stands for. *)
LEMMA YoungerStep ==
  TypeOK /\ NeverYounger /\ ClocksNotYounger /\ [Next]_vars
    => NeverYounger' /\ ClocksNotYounger'
<1> USE IntervalAssumption, HorizonAssumption
    DEF NeverYounger, ClocksNotYounger, TypeOK, Ages, vars, worker, otherVars,
        history
<1> SUFFICES ASSUME TypeOK, NeverYounger, ClocksNotYounger, [Next]_vars
             PROVE  NeverYounger' /\ ClocksNotYounger'
  OBVIOUS
<1>1. CASE Launch
  BY <1>1 DEF Launch
<1>2. CASE Tick
  BY <1>2 DEF Tick
<1>3. CASE Lock
  BY <1>3 DEF Lock, Busy, Stamp
<1>4. CASE LockHeld
  BY <1>4 DEF LockHeld
<1>5. CASE SyncReturns
  BY <1>5 DEF SyncReturns, Stamp
<1>6. CASE SyncRaises
  BY <1>6 DEF SyncRaises, Lose
<1>7. CASE SaveOpens
  BY <1>7 DEF SaveOpens, Oldest
<1>8. CASE SaveWrites
  BY <1>8 DEF SaveWrites
<1>9. CASE AfterTick
  BY <1>9 DEF AfterTick
<1>10. CASE WakeUp
  BY <1>10 DEF WakeUp
<1>11. CASE Kill
  BY <1>11 DEF Kill, Lose
<1>12. CASE Signal
  BY <1>12 DEF Signal
<1>13. CASE Pass
  BY <1>13 DEF Pass, Older
<1>14. CASE OtherTakes
  BY <1>14 DEF OtherTakes
<1>15. CASE TimerLaunches
  BY <1>15 DEF TimerLaunches
<1>16. CASE OtherReleases
  BY <1>16 DEF OtherReleases
<1>17. CASE TimerSkips
  BY <1>17 DEF TimerSkips, Oldest
<1>18. CASE TimerSyncs
  BY <1>18 DEF TimerSyncs, Stamp, DueBy
<1>19. CASE TimerReturns
  BY <1>19 DEF TimerReturns
<1>20. CASE TimerOpens
  BY <1>20 DEF TimerOpens, Oldest
<1>21. CASE TimerWrites
  BY <1>21 DEF TimerWrites, Oldest
<1>22. CASE TimerDies
  BY <1>22 DEF TimerDies, Oldest
<1>23. CASE UNCHANGED vars
  BY <1>23
<1>24. QED
  BY <1>1, <1>2, <1>3, <1>4, <1>5, <1>6, <1>7, <1>8, <1>9, <1>10, <1>11, <1>12,
     <1>13, <1>14, <1>15, <1>16, <1>17, <1>18, <1>19, <1>20, <1>21, <1>22,
     <1>23
     DEF Next, Step, OtherStep

(* While no two watchers have met, every step keeps what the worker        *)
(* remembers and the file in accord with the syncs there were.             *)
LEMMA AccordStep ==
  TypeOK /\ Accord /\ [Next]_vars => Accord'
<1> USE IntervalAssumption, HorizonAssumption
    DEF Accord, OneWatcher, MemoryHolds, FileHolds, TickIsLatest, Timer,
        TypeOK, Ages, vars, worker, otherVars, history
<1> SUFFICES ASSUME TypeOK, Accord, [Next]_vars
             PROVE  Accord'
  OBVIOUS
<1>1. CASE Launch
  BY <1>1 DEF Launch
<1>2. CASE Tick
  BY <1>2 DEF Tick
<1>3. CASE Lock
  BY <1>3 DEF Lock, Busy, Stamp
<1>4. CASE LockHeld
  BY <1>4 DEF LockHeld
<1>5. CASE SyncReturns
  BY <1>5 DEF SyncReturns, Stamp
<1>6. CASE SyncRaises
  BY <1>6 DEF SyncRaises, Lose
<1>7. CASE SaveOpens
  BY <1>7 DEF SaveOpens, Oldest
<1>8. CASE SaveWrites
  BY <1>8 DEF SaveWrites
<1>9. CASE AfterTick
  BY <1>9 DEF AfterTick
<1>10. CASE WakeUp
  BY <1>10 DEF WakeUp
<1>11. CASE Kill
  BY <1>11 DEF Kill, Lose
<1>12. CASE Signal
  BY <1>12 DEF Signal
<1>13. CASE Pass
  BY <1>13 DEF Pass, Older
<1>14. CASE OtherTakes
  BY <1>14 DEF OtherTakes
<1>15. CASE TimerLaunches
  BY <1>15 DEF TimerLaunches
<1>16. CASE OtherReleases
  BY <1>16 DEF OtherReleases
<1>17. CASE TimerSkips
  BY <1>17 DEF TimerSkips, Oldest
<1>18. CASE TimerSyncs
  BY <1>18 DEF TimerSyncs, Stamp, DueBy
<1>19. CASE TimerReturns
  BY <1>19 DEF TimerReturns
<1>20. CASE TimerOpens
  BY <1>20 DEF TimerOpens, Oldest
<1>21. CASE TimerWrites
  BY <1>21 DEF TimerWrites, Oldest
<1>22. CASE TimerDies
  BY <1>22 DEF TimerDies, Oldest
<1>23. CASE UNCHANGED vars
  BY <1>23
<1>24. QED
  BY <1>1, <1>2, <1>3, <1>4, <1>5, <1>6, <1>7, <1>8, <1>9, <1>10, <1>11, <1>12,
     <1>13, <1>14, <1>15, <1>16, <1>17, <1>18, <1>19, <1>20, <1>21, <1>22,
     <1>23
     DEF Next, Step, OtherStep

-----------------------------------------------------------------------------
(* A source is at the lock because its stamp in memory was old enough, and *)
(* nothing has synced it since.                                            *)
LEMMA EarlyStep == TypeOK /\ Accord /\ NeverEarly /\ [Next]_vars => NeverEarly'
<1> USE IntervalAssumption, HorizonAssumption, ScheduleAssumption
    DEF NeverEarly, TypeOK, Ages, vars, worker, otherVars, history
<1> SUFFICES ASSUME TypeOK, Accord, NeverEarly, [Next]_vars
             PROVE  NeverEarly'
  OBVIOUS
<1>0. \A s \in Sources : EffectiveInterval(s) \in Ages
  BY DEF EffectiveInterval, Set
<1>1. CASE Launch
  BY <1>1 DEF Launch, Accord, OneWatcher, Timer
<1>2. CASE Tick
  BY <1>2 DEF Tick, DueSpecs, AllDue, DueBy, Accord, MemoryHolds
<1>3. CASE Lock
  BY <1>3 DEF Lock, Busy, Stamp
<1>4. CASE LockHeld
  BY <1>4 DEF LockHeld
<1>5. CASE SyncReturns
  BY <1>5 DEF SyncReturns, Stamp
<1>6. CASE SyncRaises
  BY <1>6 DEF SyncRaises, Lose, Accord, OneWatcher, Timer
<1>7. CASE SaveOpens
  BY <1>7 DEF SaveOpens, Oldest
<1>8. CASE SaveWrites
  BY <1>8 DEF SaveWrites
<1>9. CASE AfterTick
  BY <1>9 DEF AfterTick
<1>10. CASE WakeUp
  BY <1>10 DEF WakeUp
<1>11. CASE Kill
  BY <1>11 DEF Kill, Lose, Accord, OneWatcher, Timer
<1>12. CASE Signal
  BY <1>12 DEF Signal
<1>13. CASE Pass
  BY <1>0, <1>13 DEF Pass, Older
<1>14. CASE OtherTakes
  BY <1>14 DEF OtherTakes
<1>15. CASE TimerLaunches
  BY <1>15 DEF TimerLaunches, Accord, OneWatcher, Timer
<1>16. CASE OtherReleases
  BY <1>16 DEF OtherReleases
<1>17. CASE TimerSkips
  BY <1>17 DEF TimerSkips, Oldest
<1>18. CASE TimerSyncs
  BY <1>18 DEF TimerSyncs, Stamp, DueBy, Accord, OneWatcher, Timer
<1>19. CASE TimerReturns
  BY <1>19 DEF TimerReturns
<1>20. CASE TimerOpens
  BY <1>20 DEF TimerOpens, Oldest
<1>21. CASE TimerWrites
  BY <1>21 DEF TimerWrites, Oldest
<1>22. CASE TimerDies
  BY <1>22 DEF TimerDies, Oldest, Accord, OneWatcher, Timer
<1>23. CASE UNCHANGED vars
  BY <1>23
<1>24. QED
  BY <1>1, <1>2, <1>3, <1>4, <1>5, <1>6, <1>7, <1>8, <1>9, <1>10, <1>11, <1>12,
     <1>13, <1>14, <1>15, <1>16, <1>17, <1>18, <1>19, <1>20, <1>21, <1>22,
     <1>23
     DEF Next, Step, OtherStep

(* The invariant holds when the service manager first starts the worker. *)
LEMMA InitHolds == Init => IInv
<1> SUFFICES ASSUME Init
             PROVE  IInv
  OBVIOUS
<1> USE IntervalAssumption, HorizonAssumption, BoundsAssumption
    DEF Init, Oldest, Ages
<1>1. TypeOK
  <2>1. once \in BOOLEAN /\ requested \in BOOLEAN /\ clash \in BOOLEAN
    BY Zenon
  <2>2. QED
    BY <2>1 DEF TypeOK, Busy
<1>2. NeverYounger /\ ClocksNotYounger
  BY DEF NeverYounger, ClocksNotYounger
<1>3. OneWatcher /\ MemoryHolds /\ FileHolds /\ TickIsLatest /\ NeverEarly
  BY DEF OneWatcher, MemoryHolds, FileHolds, TickIsLatest, Timer, NeverEarly
<1>4. QED
  BY <1>1, <1>2, <1>3 DEF IInv, Accord

(* The invariant holds in every state of every behaviour. *)
LEMMA Inductive == Spec => []IInv
<1>1. IInv /\ [Next]_vars => IInv'
  BY TypeStep, YoungerStep, AccordStep, EarlyStep DEF IInv
<1>2. QED
  BY InitHolds, <1>1, PTL DEF Spec

-----------------------------------------------------------------------------
(* The worker's variables always have their types, and it goes to the lock *)
(* only with a source that is due (run_tick).                              *)
THEOREM TypeCorrect == Spec => []TypeOK
BY Inductive, PTL DEF IInv

(* The state file and what a watcher has in memory never claim a sync that *)
(* did not happen (save_state, load_state), whatever watchers, timers and  *)
(* kills there are.                                                        *)
THEOREM NeverYoungerHolds == Spec => []NeverYounger
BY Inductive, PTL DEF IInv

(* No source is synced before its interval has passed since its last       *)
(* attempt (due_specs, run_tick), over stops, restarts, skipped ticks,     *)
(* other processes and timers, except after a loss or a meeting of two     *)
(* watchers.                                                               *)
THEOREM NeverEarlyHolds == Spec => []NeverEarly
BY Inductive, PTL DEF IInv
=============================================================================
