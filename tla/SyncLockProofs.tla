--------------------------- MODULE SyncLockProofs ---------------------------
(***************************************************************************)
(* What the lock file guarantees for every set of processes and any number *)
(* of kills, checked by TLAPS.                                             *)
(***************************************************************************)
EXTENDS SyncLock, TLAPS

\* At most one process's file is at the path, and it is there in the state
\* its creator has brought it to.
LinkedFile ==
  /\ \A p, q \in Procs : linked[p] /\ linked[q] => p = q
  /\ \A p \in Procs : linked[p] =>
       \/ pc[p] = "stamp" /\ file.state = "empty"
       \/ pc[p] = "critical" /\ file.state = "stamped" /\ file.pid = p

\* While nobody has lost a lock, every process that passed os.open still has
\* its file at the path.
NoLapse ==
  lapses = {} => \A p \in Procs : pc[p] \in {"stamp", "critical"} => linked[p]

\* acquire's local state at each of its steps.
Locals ==
  \A p \in Procs :
    /\ pc[p] \in {"read", "probe", "reclaim"} => ~reclaimed[p]
    /\ verdict[p] # "none" => reclaimed[p] \/ pc[p] = "reclaim"
    /\ pc[p] = "reclaim" => verdict[p] # "none"
    /\ pc[p] = "probe" => seen[p] \in Procs

\* What a process read from the file that is still at the path is still true
\* of it, and a file judged by its dead pid is nobody's.
ReadStillHolds ==
  \A p \in Procs : same[p] =>
    /\ file.state # "absent"
    /\ pc[p] = "probe" => file.state = "stamped" /\ file.pid = seen[p]
    /\ verdict[p] = "dead" => \A q \in Procs : ~linked[q]

Lapses == ProbeNeverSteals /\ ReleaseNeverFirst /\ "none" \notin lapses

IInv ==
  /\ TypeOK
  /\ LinkedFile
  /\ NoLapse
  /\ Locals
  /\ ReadStillHolds
  /\ Lapses

-----------------------------------------------------------------------------
(* Every step keeps the type of every variable. *)
LEMMA TypeStep == TypeOK /\ [Next]_vars => TypeOK'
<1> USE ProcsAssumption, CrashesAssumption
    DEF TypeOK, Steps, Verdicts, Causes, FileStates, Absent, Empty
<1> SUFFICES ASSUME TypeOK, [Next]_vars
             PROVE  TypeOK'
  OBVIOUS
<1>1. ASSUME NEW p \in Procs, Start(p)
      PROVE  TypeOK'
  BY <1>1 DEF Start
<1>2. ASSUME NEW p \in Procs, Create(p)
      PROVE  TypeOK'
  BY <1>2 DEF Create, Empty
<1>3. ASSUME NEW p \in Procs, CreateExists(p)
      PROVE  TypeOK'
  BY <1>3 DEF CreateExists, Forget
<1>4. ASSUME NEW p \in Procs, Stamp(p)
      PROVE  TypeOK'
  BY <1>4 DEF Stamp, Stamped, Forget
<1>5. ASSUME NEW p \in Procs, Read(p)
      PROVE  TypeOK'
  BY <1>5 DEF Read
<1>6. ASSUME NEW p \in Procs, Probe(p)
      PROVE  TypeOK'
  BY <1>6 DEF Probe, Forget
<1>7. ASSUME NEW p \in Procs, Reclaim(p)
      PROVE  TypeOK'
  BY <1>7 DEF Reclaim, UnlinkPath, Absent
<1>8. ASSUME NEW p \in Procs, Release(p)
      PROVE  TypeOK'
  BY <1>8 DEF Release, UnlinkPath, Absent
<1>9. ASSUME NEW p \in Procs, Crash(p)
      PROVE  TypeOK'
  BY <1>9 DEF Crash, Forget
<1>10. ASSUME NEW p \in Procs, Reuse(p)
       PROVE  TypeOK'
  BY <1>10 DEF Reuse
<1>11. CASE Age
  <2>1. file \in [state : {"stamped"}, pid : Procs, old : BOOLEAN]
    BY <1>11 DEF Age
  <2>2. file' \in [state : {"stamped"}, pid : Procs, old : BOOLEAN]
    BY <2>1, <1>11 DEF Age
  <2> QED
    BY <2>2, <1>11 DEF Age
<1>12. CASE UNCHANGED vars
  BY <1>12 DEF vars
<1> QED
  BY <1>1, <1>2, <1>3, <1>4, <1>5, <1>6, <1>7, <1>8, <1>9, <1>10, <1>11,
     <1>12 DEF Next, Step

(* The invariant holds at the start and every step keeps it.               *)
LEMMA Initially == Init => IInv
BY ProcsAssumption, CrashesAssumption
   DEF Init, IInv, TypeOK, Steps, Verdicts, Causes, FileStates, Absent,
       Empty, LinkedFile, NoLapse, Locals, ReadStillHolds,
       Lapses, ProbeNeverSteals, ReleaseNeverFirst

(* Every step keeps the invariant, action by action and part by part. *)
LEMMA InductiveStep == IInv /\ [Next]_vars => IInv'
<1> SUFFICES ASSUME IInv, [Next]_vars
             PROVE  IInv'
  OBVIOUS
<1>0. TypeOK'
  BY TypeStep DEF IInv
<1> USE ProcsAssumption, <1>0
    DEF IInv, TypeOK, Steps, FileStates, Verdicts, Absent, Empty
<1>1. ASSUME NEW p \in Procs, Start(p)
     PROVE  IInv'
  <2>1. LinkedFile'
    BY <1>1 DEF LinkedFile, Start
  <2>2. NoLapse'
    BY <1>1 DEF NoLapse, Start
  <2>3. Locals'
    BY <1>1 DEF Locals, Start
  <2>4. ReadStillHolds'
    BY <1>1 DEF ReadStillHolds, Start
  <2>5. Lapses'
    BY <1>1 DEF Lapses, ProbeNeverSteals, ReleaseNeverFirst, Start
  <2> QED
    BY <2>1, <2>2, <2>3, <2>4, <2>5
<1>2. ASSUME NEW p \in Procs, Create(p)
     PROVE  IInv'
  <2>1. LinkedFile'
    BY <1>2 DEF LinkedFile, Create, Empty
  <2>2. NoLapse'
    BY <1>2 DEF NoLapse, Create, Empty
  <2>3. Locals'
    BY <1>2 DEF Locals, Create, Empty
  <2>4. ReadStillHolds'
    BY <1>2 DEF ReadStillHolds, LinkedFile, Locals, Create, Empty
  <2>5. Lapses'
    BY <1>2
    DEF Lapses, ProbeNeverSteals, ReleaseNeverFirst, Create, Empty
  <2> QED
    BY <2>1, <2>2, <2>3, <2>4, <2>5
<1>3. ASSUME NEW p \in Procs, CreateExists(p)
     PROVE  IInv'
  <2>1. LinkedFile'
    BY <1>3 DEF LinkedFile, CreateExists, Forget
  <2>2. NoLapse'
    BY <1>3 DEF NoLapse, CreateExists, Forget
  <2>3. Locals'
    BY <1>3 DEF Locals, CreateExists, Forget
  <2>4. ReadStillHolds'
    BY <1>3
    DEF ReadStillHolds, LinkedFile, Locals, CreateExists, Forget
  <2>5. Lapses'
    BY <1>3
    DEF Lapses, ProbeNeverSteals, ReleaseNeverFirst, CreateExists, Forget
  <2> QED
    BY <2>1, <2>2, <2>3, <2>4, <2>5
<1>4. ASSUME NEW p \in Procs, Stamp(p)
     PROVE  IInv'
  <2>1. LinkedFile'
    BY <1>4 DEF LinkedFile, Stamp, Stamped, Forget
  <2>2. NoLapse'
    BY <1>4 DEF NoLapse, LinkedFile, Stamp, Stamped, Forget
  <2>3. Locals'
    BY <1>4 DEF Locals, Stamp, Stamped, Forget
  <2>4. ReadStillHolds'
    BY <1>4
    DEF ReadStillHolds, LinkedFile, Locals, Stamp, Stamped, Forget
  <2>5. Lapses'
    BY <1>4
    DEF Lapses, ProbeNeverSteals, ReleaseNeverFirst, Stamp, Stamped, Forget
  <2> QED
    BY <2>1, <2>2, <2>3, <2>4, <2>5
<1>5. ASSUME NEW p \in Procs, Read(p)
     PROVE  IInv'
  <2>1. LinkedFile'
    BY <1>5 DEF LinkedFile, Read
  <2>2. NoLapse'
    BY <1>5 DEF NoLapse, Read
  <2>3. Locals'
    BY <1>5 DEF Locals, Read
  <2>4. ReadStillHolds'
    BY <1>5 DEF ReadStillHolds, LinkedFile, Locals, Read
  <2>5. Lapses'
    BY <1>5 DEF Lapses, ProbeNeverSteals, ReleaseNeverFirst, Read
  <2> QED
    BY <2>1, <2>2, <2>3, <2>4, <2>5
<1>6. ASSUME NEW p \in Procs, Probe(p)
     PROVE  IInv'
  <2>1. LinkedFile'
    BY <1>6 DEF LinkedFile, Probe, Forget, Alive
  <2>2. NoLapse'
    BY <1>6 DEF NoLapse, Probe, Forget, Alive
  <2>3. Locals'
    BY <1>6 DEF Locals, Probe, Forget, Alive
  <2>4. ReadStillHolds'
    BY <1>6
    DEF ReadStillHolds, LinkedFile, Locals, Probe, Forget, Alive
  <2>5. Lapses'
    BY <1>6
    DEF Lapses, ProbeNeverSteals, ReleaseNeverFirst, Probe, Forget, Alive
  <2> QED
    BY <2>1, <2>2, <2>3, <2>4, <2>5
<1>7. ASSUME NEW p \in Procs, Reclaim(p)
     PROVE  IInv'
  <2>1. LinkedFile'
    BY <1>7 DEF LinkedFile, Reclaim, UnlinkPath, Absent
  <2>2. NoLapse'
    BY <1>7 DEF NoLapse, LinkedFile, Reclaim, UnlinkPath, Absent
  <2>3. Locals'
    BY <1>7 DEF Locals, Reclaim, UnlinkPath, Absent
  <2>4. ReadStillHolds'
    BY <1>7 DEF ReadStillHolds, Reclaim, UnlinkPath, Absent
  <2>5. Lapses'
    BY <1>7
    DEF Lapses, ProbeNeverSteals, ReleaseNeverFirst, LinkedFile, NoLapse,
        Locals, ReadStillHolds, Causes, Reclaim, UnlinkPath, Absent
  <2> QED
    BY <2>1, <2>2, <2>3, <2>4, <2>5
<1>8. ASSUME NEW p \in Procs, Release(p)
     PROVE  IInv'
  <2>1. LinkedFile'
    BY <1>8 DEF LinkedFile, Release, UnlinkPath, Absent
  <2>2. NoLapse'
    BY <1>8 DEF NoLapse, LinkedFile, Release, UnlinkPath, Absent
  <2>3. Locals'
    BY <1>8 DEF Locals, Release, UnlinkPath, Absent
  <2>4. ReadStillHolds'
    BY <1>8 DEF ReadStillHolds, Release, UnlinkPath, Absent
  <2>5. Lapses'
    BY <1>8
    DEF Lapses, ProbeNeverSteals, ReleaseNeverFirst, LinkedFile, NoLapse,
        Locals, ReadStillHolds, Causes, Release, UnlinkPath, Absent
  <2> QED
    BY <2>1, <2>2, <2>3, <2>4, <2>5
<1>9. ASSUME NEW p \in Procs, Crash(p)
     PROVE  IInv'
  <2>1. LinkedFile'
    BY <1>9 DEF LinkedFile, Crash, Forget
  <2>2. NoLapse'
    BY <1>9 DEF NoLapse, Crash, Forget
  <2>3. Locals'
    BY <1>9 DEF Locals, Crash, Forget
  <2>4. ReadStillHolds'
    BY <1>9 DEF ReadStillHolds, LinkedFile, Locals, Crash, Forget
  <2>5. Lapses'
    BY <1>9
    DEF Lapses, ProbeNeverSteals, ReleaseNeverFirst, Crash, Forget
  <2> QED
    BY <2>1, <2>2, <2>3, <2>4, <2>5
<1>10. ASSUME NEW p \in Procs, Reuse(p)
     PROVE  IInv'
  <2>1. LinkedFile'
    BY <1>10 DEF LinkedFile, Reuse
  <2>2. NoLapse'
    BY <1>10 DEF NoLapse, Reuse
  <2>3. Locals'
    BY <1>10 DEF Locals, Reuse
  <2>4. ReadStillHolds'
    BY <1>10 DEF ReadStillHolds, Reuse
  <2>5. Lapses'
    BY <1>10 DEF Lapses, ProbeNeverSteals, ReleaseNeverFirst, Reuse
  <2> QED
    BY <2>1, <2>2, <2>3, <2>4, <2>5
<1>11. CASE Age
  <2>1. LinkedFile'
    BY <1>11 DEF LinkedFile, Age
  <2>2. NoLapse'
    BY <1>11 DEF NoLapse, Age
  <2>3. Locals'
    BY <1>11 DEF Locals, Age
  <2>4. ReadStillHolds'
    BY <1>11 DEF ReadStillHolds, Age
  <2>5. Lapses'
    BY <1>11 DEF Lapses, ProbeNeverSteals, ReleaseNeverFirst, Age
  <2> QED
    BY <2>1, <2>2, <2>3, <2>4, <2>5
<1>12. CASE UNCHANGED vars
  <2>1. LinkedFile'
    BY <1>12 DEF LinkedFile, vars
  <2>2. NoLapse'
    BY <1>12 DEF NoLapse, vars
  <2>3. Locals'
    BY <1>12 DEF Locals, vars
  <2>4. ReadStillHolds'
    BY <1>12 DEF ReadStillHolds, vars
  <2>5. Lapses'
    BY <1>12 DEF Lapses, ProbeNeverSteals, ReleaseNeverFirst, vars
  <2> QED
    BY <2>1, <2>2, <2>3, <2>4, <2>5
<1> QED
  BY <1>1, <1>2, <1>3, <1>4, <1>5, <1>6, <1>7, <1>8, <1>9, <1>10, <1>11,
     <1>12 DEF Next, Step

(* SyncLock's variables keep their types, whatever the processes do. *)
THEOREM TypeCorrect == Spec => []TypeOK
<1>1. Init => TypeOK
  BY Initially DEF IInv
<1> QED
  BY <1>1, TypeStep, PTL DEF Spec

(* IInv holds of every reachable state. *)
LEMMA Invariance == Spec => []IInv
BY Initially, InductiveStep, PTL DEF Spec

(* While no live acquirer has lost its lock file, at most one process is in
   a sync, and the file at the path is its own. *)
THEOREM GuardedExclusionHolds == Spec => []GuardedExclusion
<1>1. IInv => GuardedExclusion
  BY DEF IInv, LinkedFile, NoLapse, GuardedExclusion, MutualExclusion,
         InCritical
<1> QED
  BY <1>1, Invariance, PTL

(* The pid probe of _is_stale never takes the lock from a live process (the
   operating system gives a pid to one process at a time), and the
   unconditional unlink of release is never the first thing to go wrong. *)
THEOREM LossesAreLapsesHolds == Spec => []LossesAreLapses
<1>1. IInv => LossesAreLapses
  BY DEF IInv, Lapses, LossesAreLapses
<1> QED
  BY <1>1, Invariance, PTL

=============================================================================
