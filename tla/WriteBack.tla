----------------------------- MODULE WriteBack -----------------------------
(***************************************************************************)
(* Proposals and audit: what the tools propose_upstream and                *)
(* resolve_resource of the server do (okf_mcp.server, writeback, authz).   *)
(*                                                                         *)
(* A session is a server process; it answers one call at a time, and       *)
(* sessions share the sectors' repositories, the knowledge root and the    *)
(* audit log.  A call is named by its number.  A git upstream is a local   *)
(* clone, used in place, or a URL, cloned into a temporary directory for   *)
(* the call.  A branch is named for its call (the name ends in a random    *)
(* suffix) and holds the proposal once it is committed.  A suggestion file *)
(* is named by the second and by the document's URI, in which each run of  *)
(* other characters becomes one "_": documents can share a name.           *)
(*                                                                         *)
(* Any git command may fail (ProposalError), and any step may raise        *)
(* something else or be cut short by a kill.                               *)
(***************************************************************************)
EXTENDS Naturals, FiniteSets, Sequences

CONSTANTS
  Sessions,
  Locals,       \* upstreams that are a local clone
  Origins,      \* those among them that have a remote named origin
  Urls,         \* upstreams that are cloned for a call
  Drives,       \* upstreams without branches (gdrive, s3), one document each
  FileName,     \* the name of a document in the names of suggestion files
  Nobody,       \* no upstream: the call is refused
  MaxCalls,     \* bound: calls
  MaxFaults,    \* bound: unexpected exceptions
  MaxKills,     \* bound: sessions killed
  MaxStuck      \* bound: worktrees that git fails to remove, or fails to make
                \* but registers

Calls == 1..MaxCalls
Gits == Locals \cup Urls
Upstreams == Gits \cup Drives \cup {Nobody}

ASSUME OriginsAssumption == Origins \subseteq Locals
ASSUME UpstreamsAssumption ==
  /\ Locals \cap Urls = {} /\ Gits \cap Drives = {}
  /\ Nobody \notin Gits \cup Drives
ASSUME FileNameAssumption == DOMAIN FileName = Drives
ASSUME BoundsAssumption ==
  MaxCalls \in Nat /\ MaxFaults \in Nat
    /\ MaxKills \in Nat /\ MaxStuck \in Nat

VARIABLES
  pc,           \* the step each session is at
  call,         \* its call, 0 when it has none
  raised,       \* what the call raised so far: nothing, error or fault
  target,       \* the upstream of each call
  calls,        \* calls made
  answer,       \* what each call answered
  branch,       \* the call's branch in the repository it works in
  origin,       \* calls whose branch was pushed
  lost,         \* calls whose temporary clone is gone
  worktrees,    \* calls with a worktree registered in a local clone
  path,         \* the suggestion file of each call, 0 when it opened none:
                \* the file is named by the call that made it
  file,         \* what each such file holds: the suggestion of the call that
                \* wrote last, or 0 when it is empty
  audit,        \* the audit log
  faults, kills, stuck    \* counters of the bounds

sessionVars == <<pc, call, raised>>
callVars == <<target, calls, answer>>
gitVars == <<branch, origin, lost, worktrees>>
fileVars == <<path, file>>
logVars == <<fileVars, audit>>
boundVars == <<faults, kills, stuck>>
vars == <<sessionVars, callVars, gitVars, logVars, boundVars>>

-----------------------------------------------------------------------------
Answers == {"none", "pushed", "branch", "suggestion", "resource", "error",
            "fault"}
Steps == {"idle", "check", "clone", "add", "commit", "remove", "push",
          "clean", "write", "allow"}
Entry == [call : Calls, decision : {"allow", "deny"}]

InUrl(s) == target[call[s]] \in Urls
EntriesOf(n) == {i \in 1..Len(audit) : audit[i].call = n}
Goto(s, step) == pc' = [pc EXCEPT ![s] = step]

Init ==
  /\ pc = [s \in Sessions |-> "idle"]
  /\ call = [s \in Sessions |-> 0]
  /\ raised = [s \in Sessions |-> "nothing"]
  /\ target = [n \in Calls |-> Nobody]
  /\ calls = 0
  /\ answer = [n \in Calls |-> "none"]
  /\ branch = [n \in Calls |-> "none"]
  /\ origin = {}
  /\ lost = {}
  /\ worktrees = {}
  /\ path = [n \in Calls |-> 0]
  /\ file = [n \in Calls |-> 0]
  /\ audit = <<>>
  /\ faults = 0
  /\ kills = 0
  /\ stuck = 0

-----------------------------------------------------------------------------
\* The call ends: its entry in the audit log, if any, then its answer.
Return(s, result) ==
  /\ Goto(s, "idle")
  /\ call' = [call EXCEPT ![s] = 0]
  /\ raised' = [raised EXCEPT ![s] = "nothing"]
  /\ answer' = [answer EXCEPT ![call[s]] = result]
  /\ UNCHANGED <<target, calls>>

Log(s, decision) ==
  audit' = Append(audit, [call |-> call[s], decision |-> decision])

\* A ProposalError, or an unknown concept, is audited; any other exception
\* leaves the tool as it is.
Fail(s) ==
  \/ raised[s] # "fault" /\ Log(s, "deny") /\ Return(s, "error")
  \/ raised[s] = "fault" /\ Return(s, "fault") /\ UNCHANGED audit

\* Mutation of Propose: branches are named by subject and day alone.
ProposeUnderOneName(s, up) ==
  /\ pc[s] = "idle"
  /\ calls < MaxCalls
  /\ call' = [call EXCEPT ![s] = calls + 1]
  /\ target' = [target EXCEPT ![calls + 1] = up]
  /\ Goto(s, "check")
  /\ UNCHANGED <<raised, calls, answer, gitVars, logVars, boundVars>>

\* A session is asked to propose a change to a concept of some upstream.
Propose(s, up) ==
  /\ pc[s] = "idle"
  /\ calls < MaxCalls
  /\ calls' = calls + 1
  /\ call' = [call EXCEPT ![s] = calls + 1]
  /\ target' = [target EXCEPT ![calls + 1] = up]
  /\ Goto(s, "check")
  /\ UNCHANGED <<raised, answer, gitVars, logVars, boundVars>>

\* resolve_resource: unknown, without a resource, denied or allowed.
Resolve(s, decision) ==
  /\ pc[s] = "idle"
  /\ calls < MaxCalls
  /\ calls' = calls + 1
  /\ audit' = Append(audit, [call |-> calls + 1, decision |-> decision])
  /\ answer' = [answer EXCEPT ![calls + 1] = IF decision = "deny" THEN "error"
                                             ELSE "resource"]
  /\ UNCHANGED <<sessionVars, target, gitVars, fileVars, boundVars>>

\* Mutation of Refuse: a refusal is not audited.
RefuseSilently(s) ==
  /\ pc[s] = "check"
  /\ Return(s, "error")
  /\ UNCHANGED <<gitVars, logVars, boundVars>>

\* The concept is unknown, or the proposal breaks a rule or has nowhere to
\* go: no provenance, no rationale, scope fields, no type, a new resource.
Refuse(s) ==
  /\ pc[s] = "check"
  /\ Fail(s)
  /\ UNCHANGED <<gitVars, fileVars, boundVars>>

\* The file of an earlier call of the same second and name is opened again,
\* and is empty from here to the write.
OpenSuggestion(s) ==
  LET c == call[s] IN
  /\ pc[s] = "check"
  /\ target[c] \in Drives
  /\ \E p \in Calls :
       /\ \/ p = c
          \/ path[p] = p /\ FileName[target[p]] = FileName[target[c]]
       /\ path' = [path EXCEPT ![c] = p]
       /\ file' = [file EXCEPT ![p] = 0]
  /\ Goto(s, "write")
  /\ UNCHANGED <<call, raised, callVars, gitVars, audit, boundVars>>

Suggest(s) ==
  /\ pc[s] = "write"
  /\ file' = [file EXCEPT ![path[call[s]]] = call[s]]
  /\ Goto(s, "allow")
  /\ UNCHANGED <<call, raised, callVars, gitVars, path, audit, boundVars>>

-----------------------------------------------------------------------------
\* _propose_git.
Git(s) == UNCHANGED <<call, callVars, logVars>>

Locate(s) ==
  /\ pc[s] = "check"
  /\ target[call[s]] \in Gits
  /\ Goto(s, IF InUrl(s) THEN "clone" ELSE "add")
  /\ Git(s)
  /\ UNCHANGED <<raised, gitVars, boundVars>>

Clone(s) ==
  /\ pc[s] = "clone"
  /\ \/ Goto(s, "add") /\ UNCHANGED <<raised, lost>>
     \/ /\ Goto(s, "clean")
        /\ raised' = [raised EXCEPT ![s] = "error"]
        /\ UNCHANGED lost
  /\ Git(s)
  /\ UNCHANGED <<branch, origin, worktrees, boundVars>>

\* git worktree add -b makes the branch and registers the worktree.  One that
\* fails after that, in a post-checkout hook, leaves both.
AddWorktree(s) ==
  /\ pc[s] = "add"
  /\ \/ /\ branch' = [branch EXCEPT ![call[s]] = "made"]
        /\ worktrees' = IF InUrl(s) THEN worktrees
                        ELSE worktrees \cup {call[s]}
        /\ \/ Goto(s, "commit") /\ UNCHANGED <<raised, stuck>>
           \/ /\ stuck < MaxStuck
              /\ stuck' = stuck + 1
              /\ Goto(s, "clean")
              /\ raised' = [raised EXCEPT ![s] = "error"]
     \/ /\ Goto(s, "clean")
        /\ raised' = [raised EXCEPT ![s] = "error"]
        /\ UNCHANGED <<branch, worktrees, stuck>>
  /\ Git(s)
  /\ UNCHANGED <<origin, lost, faults, kills>>

\* Mutation of Commit: a commit that fails goes unnoticed.
CommitUnchecked(s) ==
  /\ pc[s] = "commit"
  /\ Goto(s, "remove")
  /\ \/ branch' = [branch EXCEPT ![call[s]] = "committed"]
     \/ UNCHANGED branch
  /\ Git(s)
  /\ UNCHANGED <<raised, origin, lost, worktrees, boundVars>>

\* Mutation of Commit: the worktree is removed only after a commit.
CommitThenRemove(s) ==
  /\ pc[s] = "commit"
  /\ \/ /\ branch' = [branch EXCEPT ![call[s]] = "committed"]
        /\ Goto(s, "remove")
        /\ UNCHANGED raised
     \/ /\ raised' = [raised EXCEPT ![s] = "error"]
        /\ Goto(s, "clean")
        /\ UNCHANGED branch
  /\ Git(s)
  /\ UNCHANGED <<origin, lost, worktrees, boundVars>>

\* The file is written, added and committed; an unchanged one cannot be.
Commit(s) ==
  /\ pc[s] = "commit"
  /\ Goto(s, "remove")
  /\ \/ /\ branch' = [branch EXCEPT ![call[s]] = "committed"]
        /\ UNCHANGED raised
     \/ /\ raised' = [raised EXCEPT ![s] = "error"]
        /\ UNCHANGED branch
  /\ Git(s)
  /\ UNCHANGED <<origin, lost, worktrees, boundVars>>

\* In a finally: its own failure takes the place of what was raised.
RemoveWorktree(s) ==
  /\ pc[s] = "remove"
  /\ \/ /\ worktrees' = worktrees \ {call[s]}
        /\ Goto(s, IF raised[s] = "nothing" THEN "push" ELSE "clean")
        /\ UNCHANGED <<raised, stuck>>
     \/ /\ stuck < MaxStuck
        /\ stuck' = stuck + 1
        /\ \E what \in {"error", "fault"} :
             raised' = [raised EXCEPT ![s] = what]
        /\ Goto(s, "clean")
        /\ UNCHANGED worktrees
  /\ Git(s)
  /\ UNCHANGED <<branch, origin, lost, faults, kills>>

\* Mutation of Push: a push that fails is an error.
PushOrFail(s) ==
  /\ pc[s] = "push"
  /\ Goto(s, "clean")
  /\ \/ /\ InUrl(s) \/ target[call[s]] \in Origins
        /\ origin' = origin \cup {call[s]}
        /\ UNCHANGED raised
     \/ /\ raised' = [raised EXCEPT ![s] = "error"]
        /\ UNCHANGED origin
  /\ Git(s)
  /\ UNCHANGED <<branch, lost, worktrees, boundVars>>

\* A push that fails is no error.
Push(s) ==
  /\ pc[s] = "push"
  /\ Goto(s, "clean")
  /\ \/ /\ InUrl(s) \/ target[call[s]] \in Origins
        /\ origin' = origin \cup {call[s]}
     \/ UNCHANGED origin
  /\ Git(s)
  /\ UNCHANGED <<raised, branch, lost, worktrees, boundVars>>

\* The temporary clone goes, and all that was not pushed with it.
CleanUp(s) ==
  /\ pc[s] = "clean"
  /\ lost' = IF InUrl(s) THEN lost \cup {call[s]} ELSE lost
  /\ \/ /\ raised[s] = "nothing"
        /\ Goto(s, "allow")
        /\ UNCHANGED <<call, raised, callVars, audit>>
     \/ /\ raised[s] # "nothing"
        /\ Fail(s)
  /\ UNCHANGED <<branch, origin, worktrees, fileVars, boundVars>>

\* The result is audited with its branch or file, then answered.
Allow(s) ==
  /\ pc[s] = "allow"
  /\ Log(s, "allow")
  /\ Return(s, IF target[call[s]] \in Drives THEN "suggestion"
               ELSE IF call[s] \in origin THEN "pushed" ELSE "branch")
  /\ UNCHANGED <<gitVars, fileVars, boundVars>>

-----------------------------------------------------------------------------
\* A full disk, no git program, an audit log that cannot be written ...
Fault(s) ==
  /\ pc[s] # "idle"
  /\ raised[s] = "nothing"
  /\ faults < MaxFaults
  /\ faults' = faults + 1
  /\ \/ /\ pc[s] \in {"check", "clone", "write", "allow"}
        /\ Return(s, "fault")
        /\ UNCHANGED audit
     \/ /\ pc[s] \in {"add", "push", "clean"}
        /\ raised' = [raised EXCEPT ![s] = "fault"]
        /\ Goto(s, "clean")
        /\ UNCHANGED <<call, callVars, audit>>
     \/ /\ pc[s] = "commit"
        /\ raised' = [raised EXCEPT ![s] = "fault"]
        /\ Goto(s, "remove")
        /\ UNCHANGED <<call, callVars, audit>>
  /\ UNCHANGED <<gitVars, fileVars, kills, stuck>>

\* The session is killed in the middle of a call, and started again.
Kill(s) ==
  /\ pc[s] # "idle"
  /\ kills < MaxKills
  /\ kills' = kills + 1
  /\ Return(s, "fault")
  /\ UNCHANGED <<gitVars, logVars, faults, stuck>>

Progress(s) ==
  \/ Refuse(s) \/ OpenSuggestion(s) \/ Suggest(s) \/ Locate(s) \/ Clone(s)
  \/ AddWorktree(s) \/ Commit(s) \/ RemoveWorktree(s) \/ Push(s)
  \/ CleanUp(s) \/ Allow(s)

Next ==
  \E s \in Sessions :
    \/ \E up \in Upstreams : Propose(s, up)
    \/ \E decision \in {"allow", "deny"} : Resolve(s, decision)
    \/ Progress(s) \/ Fault(s) \/ Kill(s)

Spec == Init /\ [][Next]_vars

-----------------------------------------------------------------------------
InSector(n) ==
  /\ branch[n] = "committed"
  /\ n \in origin \/ (target[n] \in Locals)

Decided(n, decision) == \E i \in EntriesOf(n) : audit[i].decision = decision
Busy(n) == \E s \in Sessions : call[s] = n

\* Every variable has its type, and no two sessions work on one call.
TypeOK ==
  /\ pc \in [Sessions -> Steps]
  /\ call \in [Sessions -> 0..MaxCalls]
  /\ raised \in [Sessions -> {"nothing", "error", "fault"}]
  /\ target \in [Calls -> Upstreams]
  /\ calls \in 0..MaxCalls
  /\ answer \in [Calls -> Answers]
  /\ branch \in [Calls -> {"none", "made", "committed"}]
  /\ origin \in SUBSET Calls
  /\ lost \in SUBSET Calls
  /\ worktrees \in SUBSET Calls
  /\ path \in [Calls -> 0..MaxCalls]
  /\ file \in [Calls -> 0..MaxCalls]
  /\ audit \in Seq(Entry)
  /\ faults \in 0..MaxFaults /\ kills \in 0..MaxKills /\ stuck \in 0..MaxStuck
  /\ \A s, t \in Sessions : s # t /\ call[s] # 0 => call[s] # call[t]

\* A call that got an answer or a refusal, and did not end in an unexpected
\* exception, has exactly one entry in the audit log, and the entry says
\* which of the two it was.
AnsweredIsAudited ==
  \A n \in Calls : answer[n] \notin {"none", "fault"} =>
    /\ Cardinality(EntriesOf(n)) = 1
    /\ Decided(n, "deny") <=> answer[n] = "error"

\* The suggestion file of a call holds a suggestion for a document of its name:
\* for the call's own document, unless documents share the name.
OnFile(n) ==
  file[path[n]] # 0 /\ FileName[target[file[path[n]]]] = FileName[target[n]]

\* A call of the same second and name opened the file again, and has not
\* written it yet or was cut short.
Reopened(n) ==
  \E m \in Calls \ {n} : path[m] = path[n] /\ answer[m] \in {"none", "fault"}

\* What an answer names is there: a branch that was answered as pushed, or made
\* in a local clone, is in the sector's repository with the proposal
\* committed, and the suggestion file that was answered holds a suggestion,
\* unless another call that opened the file again was cut short.  The file may
\* by then be a later call's, and for another document when documents share a
\* name.  A branch of a temporary clone that could not be pushed is answered
\* too, and is nowhere.
AnswersAreKept ==
  \A n \in Calls :
    /\ answer[n] = "pushed" \/ (answer[n] = "branch" /\ target[n] \in Locals)
         => InSector(n)
    /\ answer[n] = "suggestion"
         => OnFile(n) \/ (file[path[n]] = 0 /\ Reopened(n))

\* A proposal whose refusal was audited did not leave a commit behind, as long
\* as worktrees can be removed.
DeniedLeavesNoCommit ==
  stuck = 0 => \A n \in Calls : Decided(n, "deny") => ~InSector(n)

\* A worktree stays registered in a sector's clone only while its call runs,
\* or when its removal failed or the session was killed: an exception in the
\* middle of the work still removes it.
WorktreesAreTemporary ==
  Cardinality({n \in worktrees : ~Busy(n)}) <= kills + stuck

\* Neither a denied call nor one that ended leaves its work in the sector.
NothingLeftBehind == DeniedLeavesNoCommit /\ WorktreesAreTemporary
=============================================================================
