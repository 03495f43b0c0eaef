------------------------------ MODULE SyncLock ------------------------------
(***************************************************************************)
(* The overlap guard of okf-ingest: the lock file <root>/ingest/sync.lock  *)
(* that `okf-ingest sync` and every `watch` tick take around a sync        *)
(* (okf_mcp.ingest.scheduler.SyncLock).  One process is one pid.  Every    *)
(* system call on the lock file is one step, because any number of         *)
(* processes may run between two of them.                                  *)
(*                                                                         *)
(* The clock is abstracted to one bit of the file: whether its stamp is    *)
(* older than stale_after.  Reading the stamp and comparing its age is one *)
(* step (only the passage of time could come between the two); probing the *)
(* holder's pid is another, for the holder may move in between.            *)
(***************************************************************************)
EXTENDS Naturals, FiniteSets

CONSTANTS
  Procs,        \* the pids of the processes that run `sync` or `watch`
  NoPid,        \* "no pid was read"
  MaxCrashes    \* bound: how many times a process is killed

ASSUME ProcsAssumption == NoPid \notin Procs
ASSUME CrashesAssumption == MaxCrashes \in Nat

VARIABLES
  pc,           \* where each process is in acquire / the sync / release
  file,         \* the lock file at the path
  reclaimed,    \* acquire's local `reclaimed`
  seen,         \* the pid a process read from the lock file
  verdict,      \* why a process holds the lock file for stale
  crashes,      \* how many times a process was killed
  linked,       \* linked[p]: the path still names the file p created
  same,         \* same[p]: the path still names the file p read
  lapses        \* history: how a live acquirer lost its lock file

vars == <<pc, file, reclaimed, seen, verdict, crashes, linked, same, lapses>>

-----------------------------------------------------------------------------
\* "empty" is the file between os.open and the write of the stamp.
Absent == [state |-> "absent", pid |-> NoPid, old |-> FALSE]
Empty == [state |-> "empty", pid |-> NoPid, old |-> FALSE]
Stamped(p) == [state |-> "stamped", pid |-> p, old |-> FALSE]

FileStates == {Absent, Empty} \cup
              [state : {"stamped"}, pid : Procs, old : BOOLEAN]

Steps == {"idle", "create", "stamp", "read", "probe", "reclaim",
          "critical", "dead"}
Verdicts == {"none", "unreadable", "old", "dead"}
Causes == Verdicts \cup {"replaced", "released"}

Alive(p) == pc[p] # "dead"

\* What a process forgets when its acquire ends.
Forget(p) ==
  /\ reclaimed' = [reclaimed EXCEPT ![p] = FALSE]
  /\ seen' = [seen EXCEPT ![p] = NoPid]
  /\ verdict' = [verdict EXCEPT ![p] = "none"]

\* The path is unlinked (missing_ok=True): no process's file is at the path
\* any more.  If it was the file of another live process, that process has
\* lost its lock without knowing, and `cause` is remembered.
UnlinkPath(p, cause) ==
  /\ file' = Absent
  /\ linked' = [q \in Procs |-> FALSE]
  /\ same' = [q \in Procs |-> FALSE]
  /\ lapses' = IF \E q \in Procs \ {p} : linked[q]
               THEN lapses \cup {cause} ELSE lapses

-----------------------------------------------------------------------------
Init ==
  /\ pc = [p \in Procs |-> "idle"]
  /\ file = Absent
  /\ reclaimed = [p \in Procs |-> FALSE]
  /\ seen = [p \in Procs |-> NoPid]
  /\ verdict = [p \in Procs |-> "none"]
  /\ crashes = 0
  /\ linked = [p \in Procs |-> FALSE]
  /\ same = [p \in Procs |-> FALSE]
  /\ lapses = {}

\* A sync or a tick with a due source enters lock.held().
Start(p) ==
  /\ pc[p] = "idle"
  /\ pc' = [pc EXCEPT ![p] = "create"]
  /\ UNCHANGED <<file, reclaimed, seen, verdict, crashes, linked, same, lapses>>

\* Mutation of Create: os.open without O_EXCL opens the file that is there.
CreateWithoutExcl(p) ==
  /\ pc[p] = "create"
  /\ file' = Empty
  /\ linked' = [linked EXCEPT ![p] = TRUE]
  /\ pc' = [pc EXCEPT ![p] = "stamp"]
  /\ UNCHANGED <<reclaimed, seen, verdict, crashes, same, lapses>>

\* os.open(O_CREAT | O_EXCL) finds no file and makes an empty one.
Create(p) ==
  /\ pc[p] = "create"
  /\ file.state = "absent"
  /\ file' = Empty
  /\ linked' = [linked EXCEPT ![p] = TRUE]
  /\ pc' = [pc EXCEPT ![p] = "stamp"]
  /\ UNCHANGED <<reclaimed, seen, verdict, crashes, same, lapses>>

\* Mutation of CreateExists: acquire moved inside the try of held(), so that
\* giving up runs the finally and unlinks the holder's file.
GiveUpReleases(p) ==
  /\ pc[p] = "create"
  /\ file.state # "absent"
  /\ \/ /\ ~reclaimed[p]
        /\ pc' = [pc EXCEPT ![p] = "read"]
        /\ UNCHANGED <<file, reclaimed, seen, verdict, linked, same, lapses>>
     \/ /\ reclaimed[p]
        /\ pc' = [pc EXCEPT ![p] = "idle"]
        /\ Forget(p)
        /\ UnlinkPath(p, "released")
  /\ UNCHANGED crashes

\* os.open raises FileExistsError: look whether the lock is stale, the first
\* time; the second time give up (LockHeld).
CreateExists(p) ==
  /\ pc[p] = "create"
  /\ file.state # "absent"
  /\ \/ /\ ~reclaimed[p]
        /\ pc' = [pc EXCEPT ![p] = "read"]
        /\ UNCHANGED <<reclaimed, seen, verdict>>
     \/ /\ reclaimed[p]
        /\ pc' = [pc EXCEPT ![p] = "idle"]
        /\ Forget(p)
  /\ UNCHANGED <<file, crashes, linked, same, lapses>>

\* Mutation of Stamp: the pid is left out of the stamp.
StampWithoutPid(p) ==
  /\ pc[p] = "stamp"
  /\ file' = IF linked[p] THEN Stamped(NoPid) ELSE file
  /\ pc' = [pc EXCEPT ![p] = "critical"]
  /\ Forget(p)
  /\ UNCHANGED <<crashes, linked, same, lapses>>

\* The stamp goes to the file p created, wherever it is: when another process
\* unlinked it, the bytes go to a file no path names.
Stamp(p) ==
  /\ pc[p] = "stamp"
  /\ file' = IF linked[p] THEN Stamped(p) ELSE file
  /\ pc' = [pc EXCEPT ![p] = "critical"]
  /\ Forget(p)
  /\ UNCHANGED <<crashes, linked, same, lapses>>

\* Mutation of Read: the age test of _is_stale is dropped.
ReadIgnoringAge(p) ==
  /\ pc[p] = "read"
  /\ same' = [same EXCEPT ![p] = file.state # "absent"]
  /\ \/ /\ file.state # "stamped"
        /\ verdict' = [verdict EXCEPT ![p] = "unreadable"]
        /\ pc' = [pc EXCEPT ![p] = "reclaim"]
        /\ UNCHANGED seen
     \/ /\ file.state = "stamped"
        /\ seen' = [seen EXCEPT ![p] = file.pid]
        /\ pc' = [pc EXCEPT ![p] = "probe"]
        /\ UNCHANGED verdict
  /\ UNCHANGED <<file, reclaimed, crashes, linked, lapses>>

\* _read and the age test of _is_stale.  A file that is gone, or has no stamp
\* yet, reads as None, and None counts as stale.
Read(p) ==
  /\ pc[p] = "read"
  /\ same' = [same EXCEPT ![p] = file.state # "absent"]
  /\ \/ /\ file.state # "stamped"
        /\ verdict' = [verdict EXCEPT ![p] = "unreadable"]
        /\ pc' = [pc EXCEPT ![p] = "reclaim"]
        /\ UNCHANGED seen
     \/ /\ file.state = "stamped"
        /\ file.old
        /\ verdict' = [verdict EXCEPT ![p] = "old"]
        /\ pc' = [pc EXCEPT ![p] = "reclaim"]
        /\ UNCHANGED seen
     \/ /\ file.state = "stamped"
        /\ ~file.old
        /\ seen' = [seen EXCEPT ![p] = file.pid]
        /\ pc' = [pc EXCEPT ![p] = "probe"]
        /\ UNCHANGED verdict
  /\ UNCHANGED <<file, reclaimed, crashes, linked, lapses>>

\* os.kill(pid, 0): a dead pid makes the lock stale, a live one LockHeld.
Probe(p) ==
  /\ pc[p] = "probe"
  /\ \/ /\ ~Alive(seen[p])
        /\ verdict' = [verdict EXCEPT ![p] = "dead"]
        /\ pc' = [pc EXCEPT ![p] = "reclaim"]
        /\ UNCHANGED <<reclaimed, seen>>
     \/ /\ Alive(seen[p])
        /\ pc' = [pc EXCEPT ![p] = "idle"]
        /\ Forget(p)
  /\ UNCHANGED <<file, crashes, linked, same, lapses>>

\* unlink(missing_ok=True), whatever is at the path by now; then try again.
Reclaim(p) ==
  /\ pc[p] = "reclaim"
  /\ UnlinkPath(p, IF same[p] THEN verdict[p] ELSE "replaced")
  /\ reclaimed' = [reclaimed EXCEPT ![p] = TRUE]
  /\ pc' = [pc EXCEPT ![p] = "create"]
  /\ UNCHANGED <<seen, verdict, crashes>>

\* The sync is over (or raised): the finally of held() unlinks the path.
Release(p) ==
  /\ pc[p] = "critical"
  /\ UnlinkPath(p, "released")
  /\ pc' = [pc EXCEPT ![p] = "idle"]
  /\ UNCHANGED <<reclaimed, seen, verdict, crashes>>

\* Kill -9, OOM, power: no finally runs and the file stays at the path.
Crash(p) ==
  /\ crashes < MaxCrashes
  /\ pc[p] \notin {"idle", "dead"}
  /\ crashes' = crashes + 1
  /\ pc' = [pc EXCEPT ![p] = "dead"]
  /\ linked' = [linked EXCEPT ![p] = FALSE]
  /\ same' = [same EXCEPT ![p] = FALSE]
  /\ Forget(p)
  /\ UNCHANGED <<file, lapses>>

\* A new process gets the pid of a dead one.
Reuse(p) ==
  /\ pc[p] = "dead"
  /\ pc' = [pc EXCEPT ![p] = "idle"]
  /\ UNCHANGED <<file, reclaimed, seen, verdict, crashes, linked, same, lapses>>

\* The stamp at the path becomes older than stale_after.
Age ==
  /\ file.state = "stamped"
  /\ ~file.old
  /\ file' = [file EXCEPT !.old = TRUE]
  /\ UNCHANGED <<pc, reclaimed, seen, verdict, crashes, linked, same, lapses>>

\* A step of the code, as opposed to a kill, a reused pid or the clock.
Step(p) ==
  \/ Create(p) \/ CreateExists(p) \/ Stamp(p)
  \/ Read(p) \/ Probe(p) \/ Reclaim(p) \/ Release(p)

Next ==
  \/ \E p \in Procs : Start(p) \/ Step(p) \/ Crash(p) \/ Reuse(p)
  \/ Age

Spec == Init /\ [][Next]_vars

-----------------------------------------------------------------------------
\* Every variable has its type: the steps of acquire and release, the file at
\* the path, and what each process remembers of it.
TypeOK ==
  /\ pc \in [Procs -> Steps]
  /\ file \in FileStates
  /\ reclaimed \in [Procs -> BOOLEAN]
  /\ seen \in [Procs -> Procs \cup {NoPid}]
  /\ verdict \in [Procs -> Verdicts]
  /\ crashes \in 0..MaxCrashes
  /\ linked \in [Procs -> BOOLEAN]
  /\ same \in [Procs -> BOOLEAN]
  /\ lapses \subseteq Causes

InCritical(p) == pc[p] = "critical"

\* What the guard is for: at most one process syncs a knowledge root at a time
\* (the usage guide's "two syncs never race the same knowledge root").
MutualExclusion ==
  \A p, q \in Procs : InCritical(p) /\ InCritical(q) => p = q

\* What the guard does promise: as long as no live acquirer has lost its file,
\* at most one process is in the sync, and that process's file is the one at
\* the path.
GuardedExclusion ==
  lapses = {} =>
    /\ MutualExclusion
    /\ \A p \in Procs : InCritical(p) =>
         /\ file.state = "stamped"
         /\ file.pid = p

\* The pid probe never takes the file from a live acquirer: a process judged
\* dead is dead, and the file judged with it is not a live process's.
ProbeNeverSteals == "dead" \notin lapses

\* release() unlinks the path without looking whose file is there, and that
\* alone never harms anyone: a release removes another process's file only
\* after a lapse of acquire has let two processes in.
ReleaseNeverFirst ==
  "released" \in lapses => lapses \cap {"unreadable", "old", "replaced"} # {}

\* The three lapses of acquire are the only ways a live acquirer comes to lose
\* its file: it was read before it was stamped, its stamp was older than
\* stale_after, or it replaced the file that was judged stale.
LossesAreLapses == ProbeNeverSteals /\ ReleaseNeverFirst

-----------------------------------------------------------------------------
\* The scheduler of the operating system lets every live process run, the
\* watch loop of a live process comes round to its next tick, and time passes.
\* No process is obliged to crash or to come back.
Fairness ==
  /\ \A p \in Procs : WF_vars(Step(p)) /\ WF_vars(Start(p))
  /\ WF_vars(Age)

FairSpec == Spec /\ Fairness

Acquiring(p) == pc[p] \in {"create", "stamp", "read", "probe", "reclaim"}

\* acquire() never blocks: it returns or raises LockHeld, whatever the other
\* processes do to the file meanwhile (`reclaimed` allows one retry only).
AcquireReturns == \A p \in Procs : Acquiring(p) ~> ~Acquiring(p)

\* A lock file nobody alive has created (its holder was killed).
Abandoned == file.state # "absent" /\ \A p \in Procs : ~linked[p]

\* An abandoned lock file does not stay for ever: as long as some watcher is
\* alive a later tick removes it, even when the pid in it has been given to a
\* new process.
AbandonedIsReclaimed ==
  Abandoned ~> ~Abandoned \/ \A p \in Procs : pc[p] = "dead"

\* Whatever was left behind and whoever is in the way, the lock stops nobody
\* for ever.
LockProgress == AcquireReturns /\ AbandonedIsReclaimed
=============================================================================
