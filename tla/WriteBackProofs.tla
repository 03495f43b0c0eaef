-------------------------- MODULE WriteBackProofs --------------------------
(***************************************************************************)
(* What proposals leave in the sectors and in the audit log, for all       *)
(* numbers of sessions, upstreams and calls, checked by TLAPS.             *)
(***************************************************************************)
EXTENDS WriteBack, FiniteSetTheorems, TLAPS

USE OriginsAssumption, UpstreamsAssumption, BoundsAssumption

-----------------------------------------------------------------------------
(* The inductive invariant, in named parts.  A session works on a call that
   has no answer yet, nothing is audited before it is answered, and nothing
   is known of calls to come.                                              *)
CallsInv ==
  /\ \A s \in Sessions :
       /\ call[s] = 0 <=> pc[s] = "idle"
       /\ call[s] <= calls
       /\ call[s] # 0 => answer[call[s]] = "none"
  /\ \A n \in Calls : answer[n] = "none" => EntriesOf(n) = {}
  /\ \A n \in Calls : n > calls =>
       answer[n] = "none" /\ branch[n] = "none" /\ path[n] = 0

(* What a step of a proposal finds. *)
Untouched(s) == pc[s] \in {"check", "clone", "add"} => branch[call[s]] = "none"
Uncommitted(s) ==
  /\ pc[s] = "commit" => branch[call[s]] # "committed"
  /\ pc[s] \in {"remove", "clean"} /\ raised[s] = "error" /\ stuck = 0
       => branch[call[s]] # "committed"
Committed(s) ==
  pc[s] \in {"remove", "push", "clean"} /\ raised[s] = "nothing"
    => branch[call[s]] = "committed"
ToGit(s) ==
  pc[s] \in {"clone", "add", "commit", "remove", "push", "clean"}
    => target[call[s]] \in Gits
ToDrive(s) ==
  /\ pc[s] = "check" => path[call[s]] = 0
  /\ pc[s] = "write" => path[call[s]] # 0 /\ target[call[s]] \in Drives
NotRaised(s) ==
  pc[s] \in {"idle", "check", "clone", "add", "commit", "push", "write",
            "allow"}
    => raised[s] = "nothing"
Kept(s) ==
  pc[s] = "allow" => IF target[call[s]] \in Drives THEN path[call[s]] # 0
                     ELSE branch[call[s]] = "committed"

WorkInv ==
  /\ \A s \in Sessions :
       /\ Untouched(s) /\ Uncommitted(s) /\ Committed(s)
       /\ ToGit(s) /\ ToDrive(s) /\ NotRaised(s) /\ Kept(s)
  /\ \A n \in origin : branch[n] = "committed"

(* A suggestion file was made under its name, a suggestion in it was written
   by a call of that name, and one that is empty was opened by a call that
   is about to write it or was cut short.                                  *)
Pending(n) ==
  \/ answer[n] = "fault"
  \/ \E s \in Sessions : call[s] = n /\ pc[s] = "write"
Named ==
  \A n \in Calls : path[n] # 0 =>
    /\ path[path[n]] = path[n]
    /\ FileName[target[path[n]]] = FileName[target[n]]
Written == \A p \in Calls : file[p] # 0 => path[file[p]] = p
Empty ==
  \A p \in Calls : path[p] = p /\ file[p] = 0
    => \E m \in Calls : path[m] = p /\ Pending(m)
FilesInv ==
  /\ Named /\ Written /\ Empty
  /\ \A n \in Calls : answer[n] = "suggestion" => path[n] # 0

(* The branches of AnswersAreKept. *)
BranchesKept ==
  \A n \in Calls :
    answer[n] = "pushed" \/ (answer[n] = "branch" /\ target[n] \in Locals)
      => InSector(n)

(* Worktrees that no call is about to remove any more. *)
Left ==
  {n \in worktrees : ~\E s \in Sessions :
                        call[s] = n /\ pc[s] \in {"commit", "remove"}}
LeftInv == Cardinality(Left) <= kills + stuck

IInv ==
  /\ TypeOK /\ CallsInv /\ WorkInv /\ LeftInv /\ FilesInv
  /\ AnsweredIsAudited /\ BranchesKept /\ DeniedLeavesNoCommit

-----------------------------------------------------------------------------
(* An entry in the audit log is one more, and of one call. *)
LEMMA Appended ==
  ASSUME audit \in Seq(Entry), NEW e \in Entry, audit' = Append(audit, e)
  PROVE  /\ audit' \in Seq(Entry)
         /\ \A n \in Calls : EntriesOf(n)' =
              EntriesOf(n) \cup (IF e.call = n THEN {Len(audit) + 1} ELSE {})
         /\ \A i \in 1..Len(audit) : audit'[i] = audit[i]
         /\ audit'[Len(audit) + 1] = e
<1>1. /\ audit' \in Seq(Entry) /\ Len(audit') = Len(audit) + 1
      /\ Len(audit) \in Nat
      /\ \A i \in 1..Len(audit) : audit'[i] = audit[i]
      /\ audit'[Len(audit) + 1] = e
  OBVIOUS
<1>2. 1..Len(audit') = (1..Len(audit)) \cup {Len(audit) + 1}
  BY <1>1
<1>3. ASSUME NEW n \in Calls
      PROVE  EntriesOf(n)' =
               EntriesOf(n) \cup (IF e.call = n THEN {Len(audit) + 1} ELSE {})
  BY <1>1, <1>2 DEF EntriesOf
<1> QED
  BY <1>1, <1>3

(* A call ends: denied, answered, or by an exception that is not audited. *)
Ends(s) ==
  \/ Log(s, "deny") /\ Return(s, "error")
  \/ /\ Log(s, "allow")
     /\ \E r \in {"pushed", "branch", "suggestion"} : Return(s, r)
  \/ Return(s, "fault") /\ UNCHANGED audit

LEMMA FailEnds == ASSUME NEW s, Fail(s) PROVE Ends(s)
BY DEF Fail, Ends

LEMMA AllowEnds == ASSUME NEW s, Allow(s) PROVE Ends(s)
<1>1. /\ Log(s, "allow")
      /\ Return(s, IF target[call[s]] \in Drives THEN "suggestion"
                   ELSE IF call[s] \in origin THEN "pushed" ELSE "branch")
  BY DEF Allow
<1> QED
  BY <1>1 DEF Ends

LEMMA Steppings ==
  ASSUME NEW s \in Sessions, Progress(s) \/ Fault(s) \/ Kill(s)
  PROVE  /\ pc[s] # "idle"
         /\ UNCHANGED calls
         /\ \/ /\ UNCHANGED <<call, callVars, audit>>
               /\ \E step \in Steps \ {"idle"} : Goto(s, step)
            \/ Ends(s)
<1>1. CASE Refuse(s)
  BY <1>1, FailEnds DEF Refuse, Ends, Return
<1>2. CASE OpenSuggestion(s) \/ Suggest(s)
  BY <1>2 DEF OpenSuggestion, Suggest, callVars, Steps
<1>3. CASE Locate(s) \/ Clone(s) \/ AddWorktree(s) \/ Commit(s)
  BY <1>3
  DEF Locate, Clone, AddWorktree, Commit, Git, callVars, logVars, Steps
<1>4. CASE RemoveWorktree(s) \/ Push(s)
  BY <1>4 DEF RemoveWorktree, Push, Git, callVars, logVars, Steps
<1>5. CASE CleanUp(s)
  BY <1>5, FailEnds DEF CleanUp, Ends, Return, callVars, Steps
<1>6. CASE Allow(s)
  BY <1>6, AllowEnds DEF Allow, Return
<1>7. CASE Fault(s)
  BY <1>7 DEF Fault, Ends, Return, callVars, Steps
<1>8. CASE Kill(s)
  BY <1>8 DEF Kill, Ends, Return, callVars, logVars
<1> QED
  BY <1>1, <1>2, <1>3, <1>4, <1>5, <1>6, <1>7, <1>8 DEF Progress

-----------------------------------------------------------------------------
(* Every step keeps the types, and calls apart. *)
LEMMA ReturnType ==
  ASSUME TypeOK, NEW s \in Sessions, call[s] # 0,
         NEW result \in Answers, Return(s, result)
  PROVE  /\ pc' \in [Sessions -> Steps]
         /\ call' \in [Sessions -> 0..MaxCalls]
         /\ raised' \in [Sessions -> {"nothing", "error", "fault"}]
         /\ answer' \in [Calls -> Answers]
         /\ target' = target /\ calls' = calls
         /\ \A t, u \in Sessions : t # u /\ call'[t] # 0 => call'[t] # call'[u]
BY DEF TypeOK, Return, Goto, Steps, Calls

LEMMA EndsType ==
  ASSUME TypeOK, NEW s \in Sessions, call[s] # 0, Ends(s)
  PROVE  /\ pc' \in [Sessions -> Steps]
         /\ call' \in [Sessions -> 0..MaxCalls]
         /\ raised' \in [Sessions -> {"nothing", "error", "fault"}]
         /\ answer' \in [Calls -> Answers]
         /\ target' = target /\ calls' = calls
         /\ \A t, u \in Sessions : t # u /\ call'[t] # 0 => call'[t] # call'[u]
         /\ audit' \in Seq(Entry)
<1>1. PICK result \in Answers : Return(s, result)
  BY DEF Ends, Answers
<1>2. audit' \in Seq(Entry)
  <2>1. call[s] \in Calls
    BY DEF TypeOK, Calls
  <2>2. \A d \in {"allow", "deny"} :
          [call |-> call[s], decision |-> d] \in Entry
    BY <2>1 DEF Entry
  <2>3. audit \in Seq(Entry)
    BY DEF TypeOK
  <2> QED
    BY <2>2, <2>3, Appended DEF Ends, Log
<1> QED
  BY <1>1, <1>2, ReturnType

LEMMA TypeStep == TypeOK /\ CallsInv /\ Next => TypeOK'
<1> SUFFICES ASSUME TypeOK, CallsInv, NEW s \in Sessions,
                    \/ \E up \in Upstreams : Propose(s, up)
                    \/ \E decision \in {"allow", "deny"} : Resolve(s, decision)
                    \/ Progress(s) \/ Fault(s) \/ Kill(s)
             PROVE  TypeOK'
  BY DEF Next
<1>1. ASSUME NEW up \in Upstreams, Propose(s, up)
      PROVE  TypeOK'
  <2>1. calls + 1 \in Calls /\ \A t \in Sessions : call[t] < calls + 1
    BY <1>1 DEF TypeOK, CallsInv, Propose, Calls
  <2>2. /\ call' \in [Sessions -> 0..MaxCalls]
        /\ \A t, u \in Sessions : t # u /\ call'[t] # 0 => call'[t] # call'[u]
    BY <1>1, <2>1 DEF TypeOK, Propose, Calls
  <2>3. target' \in [Calls -> Upstreams] /\ calls' \in 0..MaxCalls
        /\ pc' \in [Sessions -> Steps]
    BY <1>1, <2>1 DEF TypeOK, Propose, Goto, Calls, Steps
  <2> QED
    BY <1>1, <2>2, <2>3
    DEF TypeOK, Propose, gitVars, fileVars, logVars, boundVars
<1>2. ASSUME NEW decision \in {"allow", "deny"}, Resolve(s, decision)
      PROVE  TypeOK'
  <2>1. calls + 1 \in Calls /\ calls' \in 0..MaxCalls
    BY <1>2 DEF TypeOK, Resolve, Calls
  <2>2. audit' \in Seq(Entry)
    <3>1. [call |-> calls + 1, decision |-> decision] \in Entry
      BY <2>1 DEF Entry
    <3> QED
      BY <1>2, <3>1, Appended DEF TypeOK, Resolve
  <2>3. answer' \in [Calls -> Answers]
    BY <1>2, <2>1 DEF TypeOK, Resolve, Answers
  <2> QED
    BY <1>2, <2>1, <2>2, <2>3
    DEF TypeOK, Resolve, sessionVars, gitVars, fileVars, boundVars
<1>3. ASSUME Progress(s) \/ Fault(s) \/ Kill(s)
      PROVE  TypeOK'
  <2>1. /\ pc[s] # "idle" /\ calls' = calls
        /\ call[s] # 0 /\ call[s] \in Calls
    BY <1>3, Steppings DEF TypeOK, CallsInv, Calls
  <2>2. ASSUME raised' \in [Sessions -> {"nothing", "error", "fault"}],
               branch' \in [Calls -> {"none", "made", "committed"}],
               origin' \in SUBSET Calls, lost' \in SUBSET Calls,
               worktrees' \in SUBSET Calls,
               path' \in [Calls -> 0..MaxCalls],
               file' \in [Calls -> 0..MaxCalls],
               faults' \in 0..MaxFaults, kills' \in 0..MaxKills,
               stuck' \in 0..MaxStuck
        PROVE  TypeOK'
    <3>1. CASE Ends(s)
      BY <2>1, <2>2, <3>1, EndsType DEF TypeOK
    <3>2. ASSUME UNCHANGED <<call, callVars, audit>>,
                 NEW step \in Steps, Goto(s, step)
          PROVE  TypeOK'
      BY <2>2, <3>2 DEF TypeOK, callVars, Goto
    <3> QED
      BY <1>3, <3>1, <3>2, Steppings
  <2>3. Ends(s) => raised' \in [Sessions -> {"nothing", "error", "fault"}]
    BY <2>1, EndsType
  <2> USE DEF gitVars, fileVars, logVars, boundVars, Git
  <2>4. CASE Refuse(s)
    BY <2>2, <2>3, <2>4, FailEnds DEF Refuse, TypeOK
  <2>5. CASE OpenSuggestion(s) \/ Suggest(s)
    <3>1. path' \in [Calls -> 0..MaxCalls]
      BY <2>1, <2>5 DEF OpenSuggestion, Suggest, TypeOK, Calls
    <3>2. ASSUME OpenSuggestion(s)
          PROVE  file' \in [Calls -> 0..MaxCalls]
      BY <3>2 DEF OpenSuggestion, TypeOK
    <3>3. ASSUME Suggest(s)
          PROVE  file' \in [Calls -> 0..MaxCalls]
      BY <2>1, <3>3 DEF Suggest, TypeOK, Calls
    <3>4. file' \in [Calls -> 0..MaxCalls]
      BY <2>5, <3>2, <3>3
    <3> QED
      BY <2>2, <2>5, <3>1, <3>4 DEF OpenSuggestion, Suggest, TypeOK
  <2>6. CASE Locate(s) \/ Clone(s)
    BY <2>2, <2>6 DEF Locate, Clone, TypeOK
  <2>7. CASE AddWorktree(s)
    <3>1. /\ branch' \in [Calls -> {"none", "made", "committed"}]
          /\ raised' \in [Sessions -> {"nothing", "error", "fault"}]
      BY <2>1, <2>7 DEF AddWorktree, TypeOK
    <3>2. worktrees' \in SUBSET Calls /\ stuck' \in 0..MaxStuck
      BY <2>1, <2>7 DEF AddWorktree, TypeOK
    <3> QED
      BY <2>2, <2>7, <3>1, <3>2 DEF AddWorktree, TypeOK
  <2>8. CASE Commit(s)
    BY <2>1, <2>2, <2>8 DEF Commit, TypeOK
  <2>9. CASE RemoveWorktree(s)
    <3>1. /\ raised' \in [Sessions -> {"nothing", "error", "fault"}]
          /\ worktrees' \in SUBSET Calls
      BY <2>9 DEF RemoveWorktree, TypeOK
    <3>2. stuck' \in 0..MaxStuck
      BY <2>9 DEF RemoveWorktree, TypeOK
    <3> QED
      BY <2>2, <2>9, <3>1, <3>2 DEF RemoveWorktree, TypeOK
  <2>10. CASE Push(s)
    BY <2>1, <2>2, <2>10 DEF Push, TypeOK
  <2>11. CASE CleanUp(s)
    BY <2>1, <2>2, <2>3, <2>11, FailEnds DEF CleanUp, TypeOK
  <2>12. CASE Allow(s)
    BY <2>2, <2>3, <2>12, AllowEnds DEF Allow, TypeOK
  <2>13. CASE Fault(s)
    <3>1. Return(s, "fault") /\ UNCHANGED audit => Ends(s)
      BY DEF Ends
    <3>2. raised' \in [Sessions -> {"nothing", "error", "fault"}]
      <4>1. CASE Ends(s)
        BY <2>3, <4>1
      <4>2. CASE raised' = [raised EXCEPT ![s] = "fault"]
        BY <4>2 DEF TypeOK
      <4> QED
        BY <2>13, <3>1, <4>1, <4>2 DEF Fault
    <3>3. /\ UNCHANGED <<branch, origin, lost, worktrees, path, file>>
          /\ faults' \in 0..MaxFaults
          /\ kills' \in 0..MaxKills /\ stuck' \in 0..MaxStuck
          /\ branch \in [Calls -> {"none", "made", "committed"}]
          /\ origin \in SUBSET Calls /\ lost \in SUBSET Calls
          /\ worktrees \in SUBSET Calls
          /\ path \in [Calls -> 0..MaxCalls]
          /\ file \in [Calls -> 0..MaxCalls]
      BY <2>13 DEF Fault, TypeOK
    <3> QED
      BY <2>2, <2>3, <2>13, <3>1, <3>2, <3>3 DEF Fault
  <2>14. CASE Kill(s)
    <3>1. Ends(s)
      BY <2>14 DEF Kill, Ends
    <3> QED
      BY <2>2, <2>3, <2>14, <3>1 DEF Kill, TypeOK
  <2> QED
    BY <1>3, <2>4, <2>5, <2>6, <2>7, <2>8, <2>9, <2>10, <2>11, <2>12, <2>13,
       <2>14 DEF Progress
<1> QED
  BY <1>1, <1>2, <1>3

-----------------------------------------------------------------------------
(* A session that works on a call moves what is its own, and its call's. *)
LEMMA OnlyOwn ==
  ASSUME TypeOK, CallsInv, NEW s \in Sessions,
         Progress(s) \/ Fault(s) \/ Kill(s)
  PROVE  /\ call[s] # 0 /\ call[s] \in Calls /\ UNCHANGED <<target, calls>>
         /\ \A n \in Calls \ {call[s]} :
              /\ branch'[n] = branch[n] /\ answer'[n] = answer[n]
              /\ n \in origin' => n \in origin
              /\ path'[n] = path[n]
         /\ \A t \in Sessions \ {s} :
              pc'[t] = pc[t] /\ call'[t] = call[t] /\ raised'[t] = raised[t]
         /\ stuck' = 0 => stuck = 0
         /\ origin \subseteq origin'
<1>1. call[s] # 0 /\ call[s] \in Calls
  BY Steppings DEF TypeOK, CallsInv, Calls
<1>2. UNCHANGED <<target, calls>>
  BY Steppings DEF Ends, Return, callVars
<1>3. ASSUME NEW n \in Calls \ {call[s]}
      PROVE  answer'[n] = answer[n]
  BY <1>3, Steppings DEF Ends, Return, callVars, TypeOK
<1>4. ASSUME NEW t \in Sessions \ {s}
      PROVE  pc'[t] = pc[t] /\ call'[t] = call[t]
  BY <1>4, Steppings DEF Ends, Return, Goto, TypeOK
<1> USE DEF Progress, Git, gitVars, fileVars, logVars, boundVars
<1>5. ASSUME NEW t \in Sessions \ {s}
      PROVE  raised'[t] = raised[t]
  BY <1>5 DEF Refuse, OpenSuggestion, Suggest, Locate, Clone, AddWorktree,
     Commit, RemoveWorktree, Push, CleanUp, Allow, Fault, Kill, Fail, Return,
     TypeOK
<1>6. ASSUME NEW n \in Calls \ {call[s]}
      PROVE  branch'[n] = branch[n] /\ (n \in origin' => n \in origin)
  BY <1>6 DEF Refuse, OpenSuggestion, Suggest, Locate, Clone, AddWorktree,
     Commit, RemoveWorktree, Push, CleanUp, Allow, Fault, Kill, TypeOK
<1>7. origin \subseteq origin'
  BY DEF Refuse, OpenSuggestion, Suggest, Locate, Clone, AddWorktree, Commit,
     RemoveWorktree, Push, CleanUp, Allow, Fault, Kill
<1>8. stuck' = 0 => stuck = 0
  BY DEF Refuse, OpenSuggestion, Suggest, Locate, Clone, AddWorktree, Commit,
     RemoveWorktree, Push, CleanUp, Allow, Fault, Kill, TypeOK
<1>9. ASSUME NEW n \in Calls \ {call[s]}
      PROVE  path'[n] = path[n]
  BY <1>9 DEF Refuse, OpenSuggestion, Suggest, Locate, Clone, AddWorktree,
     Commit, RemoveWorktree, Push, CleanUp, Allow, Fault, Kill, TypeOK
<1> QED
  BY <1>1, <1>2, <1>3, <1>4, <1>5, <1>6, <1>7, <1>8, <1>9

(* A call that ends has its one entry, of the decision that it answers. *)
LEMMA OneEntry ==
  ASSUME audit \in Seq(Entry), NEW e \in Entry, audit' = Append(audit, e),
         EntriesOf(e.call) = {}
  PROVE  /\ Cardinality(EntriesOf(e.call)') = 1
         /\ \A d : Decided(e.call, d)' <=> d = e.decision
<1>1. e.call \in Calls
  BY DEF Entry
<1>2. EntriesOf(e.call)' = {Len(audit) + 1} /\ audit'[Len(audit) + 1] = e
  BY <1>1, Appended
<1>3. Cardinality(EntriesOf(e.call)') = 1
  BY <1>2, FS_Singleton
<1>4. \A d : Decided(e.call, d)' <=> d = e.decision
  BY <1>2 DEF Decided
<1> QED
  BY <1>3, <1>4

LEMMA OthersEntries ==
  ASSUME audit \in Seq(Entry), NEW e \in Entry, audit' = Append(audit, e),
         NEW n \in Calls, n # e.call
  PROVE  /\ EntriesOf(n)' = EntriesOf(n)
         /\ \A d : Decided(n, d)' <=> Decided(n, d)
<1>1. EntriesOf(n)' = EntriesOf(n)
  BY Appended
<1>2. \A i \in EntriesOf(n) : audit'[i] = audit[i]
  BY Appended DEF EntriesOf
<1> QED
  BY <1>1, <1>2 DEF Decided

(* One call is answered; nothing else is said of any. *)
LEMMA AnswerStep ==
  ASSUME TypeOK, CallsInv, AnsweredIsAudited,
         NEW n \in Calls, NEW result \in Answers \ {"none"},
         answer[n] = "none", answer' = [answer EXCEPT ![n] = result],
         \/ result = "fault" /\ UNCHANGED audit
         \/ \E d \in {"allow", "deny"} :
              /\ audit' = Append(audit, [call |-> n, decision |-> d])
              /\ d = "deny" <=> result = "error"
              /\ result # "fault"
  PROVE  /\ \A m \in Calls : answer'[m] = "none" => EntriesOf(m)' = {}
         /\ AnsweredIsAudited'
<1> USE DEF TypeOK
<1>1. \A m \in Calls : answer'[m] = IF m = n THEN result ELSE answer[m]
  OBVIOUS
<1>2. CASE result = "fault" /\ UNCHANGED audit
  <2>1. \A m \in Calls : EntriesOf(m)' = EntriesOf(m)
                         /\ \A d : Decided(m, d)' <=> Decided(m, d)
    BY <1>2 DEF EntriesOf, Decided
  <2> QED
    BY <1>1, <1>2, <2>1 DEF CallsInv, AnsweredIsAudited
<1>3. ASSUME NEW d \in {"allow", "deny"},
             audit' = Append(audit, [call |-> n, decision |-> d]),
             d = "deny" <=> result = "error", result # "fault"
      PROVE  /\ \A m \in Calls : answer'[m] = "none" => EntriesOf(m)' = {}
             /\ AnsweredIsAudited'
  <2> DEFINE e == [call |-> n, decision |-> d]
  <2>1. e \in Entry /\ e.call = n /\ e.decision = d
    BY DEF Entry
  <2>2. EntriesOf(n) = {}
    BY DEF CallsInv
  <2>3. /\ Cardinality(EntriesOf(n)') = 1
        /\ Decided(n, "deny")' <=> result = "error"
    BY <1>3, <2>1, <2>2, OneEntry
  <2>4. ASSUME NEW m \in Calls \ {n}
        PROVE  /\ EntriesOf(m)' = EntriesOf(m)
               /\ Decided(m, "deny")' <=> Decided(m, "deny")
    BY <1>3, <2>1, OthersEntries
  <2>5. AnsweredIsAudited'
    <3> SUFFICES ASSUME NEW m \in Calls, answer'[m] \notin {"none", "fault"}
                 PROVE  /\ Cardinality(EntriesOf(m)') = 1
                        /\ Decided(m, "deny")' <=> answer'[m] = "error"
      BY DEF AnsweredIsAudited
    <3>1. CASE m = n
      BY <1>1, <2>3, <3>1
    <3>2. CASE m # n
      BY <1>1, <2>4, <3>2 DEF AnsweredIsAudited
    <3> QED
      BY <3>1, <3>2
  <2> QED
    BY <1>1, <2>4, <2>5 DEF CallsInv
<1> QED
  BY <1>2, <1>3

(* A step that answers no call and audits nothing says nothing new. *)
LEMMA NothingSaid ==
  ASSUME CallsInv, AnsweredIsAudited, answer' = answer, audit' = audit
  PROVE  /\ AnsweredIsAudited'
         /\ \A n \in Calls : answer'[n] = "none" => EntriesOf(n)' = {}
<1>1. \A n : EntriesOf(n)' = EntriesOf(n)
  BY DEF EntriesOf
<1>2. \A n : Decided(n, "deny")' <=> Decided(n, "deny")
  BY <1>1 DEF Decided
<1> QED
  BY <1>1, <1>2 DEF CallsInv, AnsweredIsAudited

(* What ends a call is an answer with its entry, or an exception. *)
LEMMA EndsAnswers ==
  ASSUME TypeOK, CallsInv, AnsweredIsAudited, NEW s \in Sessions,
         call[s] \in Calls, call[s] # 0, Ends(s)
  PROVE  /\ \A m \in Calls : answer'[m] = "none" => EntriesOf(m)' = {}
         /\ AnsweredIsAudited'
         /\ pc'[s] = "idle" /\ call'[s] = 0 /\ raised'[s] = "nothing"
<1>1. answer[call[s]] = "none"
  BY DEF CallsInv
<1>2. pc'[s] = "idle" /\ call'[s] = 0 /\ raised'[s] = "nothing"
  BY DEF Ends, Return, Goto, TypeOK
<1>3. CASE Log(s, "deny") /\ Return(s, "error")
  <2>1. "error" \in Answers \ {"none"}
    BY DEF Answers
  <2> QED
    BY <1>1, <1>2, <1>3, <2>1, AnswerStep DEF Log, Return
<1>4. ASSUME Log(s, "allow"), NEW r \in {"pushed", "branch", "suggestion"},
             Return(s, r)
      PROVE  /\ \A m \in Calls : answer'[m] = "none" => EntriesOf(m)' = {}
             /\ AnsweredIsAudited'
  <2>1. r \in Answers \ {"none"} /\ r # "error" /\ r # "fault"
    BY DEF Answers
  <2> QED
    BY <1>1, <1>4, <2>1, AnswerStep DEF Log, Return
<1>5. CASE Return(s, "fault") /\ UNCHANGED audit
  <2>1. "fault" \in Answers \ {"none"}
    BY DEF Answers
  <2> QED
    BY <1>1, <1>2, <1>5, <2>1, AnswerStep DEF Return
<1> QED
  BY <1>2, <1>3, <1>4, <1>5 DEF Ends

(* Every step keeps calls, answers and entries in step. *)
LEMMA CallsStep ==
  TypeOK /\ CallsInv /\ AnsweredIsAudited /\ Next
    => CallsInv' /\ AnsweredIsAudited'
<1> SUFFICES ASSUME TypeOK, CallsInv, AnsweredIsAudited, NEW s \in Sessions,
                    \/ \E up \in Upstreams : Propose(s, up)
                    \/ \E decision \in {"allow", "deny"} : Resolve(s, decision)
                    \/ Progress(s) \/ Fault(s) \/ Kill(s)
             PROVE  CallsInv' /\ AnsweredIsAudited'
  BY DEF Next
<1>1. ASSUME NEW up \in Upstreams, Propose(s, up)
      PROVE  CallsInv' /\ AnsweredIsAudited'
  <2>1. /\ UNCHANGED <<answer, audit, branch, path>>
        /\ calls' = calls + 1 /\ calls + 1 \in Calls /\ calls \in Nat
    BY <1>1 DEF Propose, gitVars, fileVars, logVars, TypeOK, Calls
  <2>2. \A t \in Sessions :
          /\ pc'[t] = IF t = s THEN "check" ELSE pc[t]
          /\ call'[t] = IF t = s THEN calls + 1 ELSE call[t]
    BY <1>1 DEF Propose, Goto, TypeOK
  <2>3. AnsweredIsAudited'
        /\ \A n \in Calls : answer'[n] = "none" => EntriesOf(n)' = {}
    BY <2>1, NothingSaid
  <2>4. answer[calls + 1] = "none"
    BY <2>1 DEF CallsInv
  <2>5. \A t \in Sessions : call[t] \in 0..MaxCalls
    BY DEF TypeOK
  <2> QED
    BY <2>1, <2>2, <2>3, <2>4, <2>5 DEF CallsInv, Calls
<1>2. ASSUME NEW decision \in {"allow", "deny"}, Resolve(s, decision)
      PROVE  CallsInv' /\ AnsweredIsAudited'
  <2>1. /\ UNCHANGED <<pc, call, branch, path>>
        /\ calls' = calls + 1 /\ calls + 1 \in Calls /\ calls \in Nat
    BY <1>2 DEF Resolve, sessionVars, gitVars, fileVars, TypeOK, Calls
  <2> DEFINE result == IF decision = "deny" THEN "error" ELSE "resource"
  <2>2. /\ answer[calls + 1] = "none"
        /\ answer' = [answer EXCEPT ![calls + 1] = result]
        /\ audit' = Append(audit, [call |-> calls + 1, decision |-> decision])
    BY <1>2, <2>1 DEF Resolve, CallsInv
  <2>3. /\ result \in Answers \ {"none"} /\ result # "fault"
        /\ decision = "deny" <=> result = "error"
    BY DEF Answers
  <2>4. /\ \A m \in Calls : answer'[m] = "none" => EntriesOf(m)' = {}
        /\ AnsweredIsAudited'
    <3> HIDE DEF result
    <3> QED
      BY <2>1, <2>2, <2>3, AnswerStep
  <2>5. \A t \in Sessions : call[t] \in 0..MaxCalls /\ call[t] # calls + 1
    BY <2>1 DEF TypeOK, CallsInv
  <2>6. \A n \in Calls : n # calls + 1 => answer'[n] = answer[n]
    BY <2>2 DEF TypeOK
  <2>7. /\ \A t \in Sessions :
             /\ call'[t] = 0 <=> pc'[t] = "idle"
             /\ call'[t] <= calls'
             /\ call'[t] # 0 => answer'[call'[t]] = "none"
        /\ \A n \in Calls : n > calls' =>
             /\ answer'[n] = "none" /\ branch'[n] = "none"
             /\ path'[n] = 0
    BY <2>1, <2>5, <2>6 DEF CallsInv, Calls
  <2> QED
    BY <2>4, <2>7 DEF CallsInv
<1>3. ASSUME Progress(s) \/ Fault(s) \/ Kill(s)
      PROVE  CallsInv' /\ AnsweredIsAudited'
  <2>1. /\ call[s] # 0 /\ call[s] \in Calls /\ calls' = calls
        /\ call[s] <= calls
    BY <1>3, OnlyOwn DEF CallsInv
  <2>2. \A n \in Calls : n > calls' =>
          answer'[n] = "none" /\ branch'[n] = "none" /\ path'[n] = 0
    <3>1. \A n \in Calls : n > calls => n # call[s]
      BY <2>1 DEF TypeOK, Calls
    <3> QED
      BY <1>3, <2>1, <3>1, OnlyOwn DEF CallsInv
  <2>3. CASE Ends(s)
    <3>1. \A t \in Sessions \ {s} : call[t] # 0 =>
            call[t] \in Calls \ {call[s]}
      BY <2>1 DEF TypeOK, Calls
    <3>2. \A t \in Sessions : /\ call'[t] = 0 <=> pc'[t] = "idle"
                              /\ call'[t] <= calls'
                              /\ call'[t] # 0 => answer'[call'[t]] = "none"
      <4>1. \A t \in Sessions \ {s} :
              /\ call'[t] = 0 <=> pc'[t] = "idle"
              /\ call'[t] <= calls'
              /\ call'[t] # 0 => answer'[call'[t]] = "none"
        BY <1>3, <2>1, <3>1, OnlyOwn DEF CallsInv
      <4>2. /\ call'[s] = 0 <=> pc'[s] = "idle"
            /\ call'[s] <= calls'
            /\ call'[s] # 0 => answer'[call'[s]] = "none"
        BY <2>1, <2>3, EndsAnswers DEF TypeOK
      <4> QED
        BY <4>1, <4>2
    <3> QED
      BY <2>1, <2>2, <2>3, <3>2, EndsAnswers DEF CallsInv
  <2>4. ASSUME UNCHANGED <<call, callVars, audit>>,
               NEW step \in Steps \ {"idle"}, Goto(s, step)
        PROVE  CallsInv' /\ AnsweredIsAudited'
    <3>1. UNCHANGED <<call, calls, answer, audit>>
      BY <2>4 DEF callVars
    <3>2. \A t \in Sessions : pc'[t] = IF t = s THEN step ELSE pc[t]
      BY <2>4 DEF Goto, TypeOK
    <3>3. AnsweredIsAudited'
          /\ \A n \in Calls : answer'[n] = "none" => EntriesOf(n)' = {}
      BY <3>1, NothingSaid
    <3> QED
      BY <2>1, <2>2, <3>1, <3>2, <3>3 DEF CallsInv
  <2> QED
    BY <1>3, <2>3, <2>4, Steppings
<1> QED
  BY <1>1, <1>2, <1>3

-----------------------------------------------------------------------------
(* What a step of a proposal finds depends on its session and its call. *)
Finds(s) ==
  Untouched(s) /\ Uncommitted(s) /\ Committed(s) /\ ToGit(s) /\ ToDrive(s)
    /\ NotRaised(s) /\ Kept(s)

LEMMA OthersFind ==
  ASSUME TypeOK, CallsInv, WorkInv, NEW s \in Sessions,
         Progress(s) \/ Fault(s) \/ Kill(s), NEW t \in Sessions \ {s}
  PROVE  Finds(t)'
<1>1. Finds(t)
  BY DEF WorkInv, Finds
<1>2. /\ pc'[t] = pc[t] /\ call'[t] = call[t] /\ raised'[t] = raised[t]
      /\ target' = target /\ (stuck' = 0 => stuck = 0)
  BY OnlyOwn
<1>3. CASE call[t] = 0
  <2>1. pc[t] = "idle"
    BY <1>3 DEF CallsInv
  <2> QED
    BY <1>1, <1>2, <2>1
    DEF Finds, Untouched, Uncommitted, Committed, ToGit, ToDrive, NotRaised,
        Kept
<1>4. CASE call[t] # 0
  <2>1. call[t] \in Calls \ {call[s]}
    BY <1>4 DEF TypeOK, Calls
  <2>2. branch'[call[t]] = branch[call[t]] /\ path'[call[t]] = path[call[t]]
    BY <2>1, OnlyOwn
  <2> QED
    BY <1>1, <1>2, <2>2
    DEF Finds, Untouched, Uncommitted, Committed, ToGit, ToDrive, NotRaised,
        Kept
<1> QED
  BY <1>3, <1>4

(* What a session finds next after a step of its own. *)
LEMMA OwnFinds ==
  ASSUME TypeOK, CallsInv, WorkInv, NEW s \in Sessions,
         Progress(s) \/ Fault(s) \/ Kill(s)
  PROVE  Finds(s)'
<1> USE DEF Untouched, Uncommitted, Committed, ToGit, ToDrive, NotRaised
<1>1. call[s] # 0 /\ call[s] \in Calls /\ target' = target
  BY OnlyOwn
<1>2. Finds(s)
  BY DEF WorkInv, Finds
<1>3. CASE Ends(s)
  <2>1. pc'[s] = "idle" /\ raised'[s] = "nothing"
    BY <1>1, <1>3 DEF Ends, Return, Goto, TypeOK
  <2> QED
    BY <2>1 DEF Finds, Kept
<1>4. CASE OpenSuggestion(s) \/ Suggest(s)
  <2>1. CASE OpenSuggestion(s)
    <3>1. /\ pc'[s] = "write" /\ raised'[s] = "nothing" /\ call'[s] = call[s]
          /\ target[call[s]] \in Drives /\ path'[call[s]] # 0
      BY <1>1, <1>2, <2>1 DEF OpenSuggestion, Goto, Finds, TypeOK, Calls
    <3> QED
      BY <1>1, <3>1 DEF Finds, Kept
  <2>2. CASE Suggest(s)
    <3>1. /\ pc'[s] = "allow" /\ raised'[s] = "nothing" /\ call'[s] = call[s]
          /\ target[call[s]] \in Drives /\ path'[call[s]] # 0
      BY <1>2, <2>2 DEF Suggest, Goto, Finds, TypeOK
    <3> QED
      BY <1>1, <3>1 DEF Finds, Kept
  <2> QED
    BY <1>4, <2>1, <2>2
<1> USE DEF Goto, Git, TypeOK
<1>5. CASE Locate(s) \/ Clone(s)
  <2>1. UNCHANGED <<call, branch, path>>
    BY <1>5 DEF Locate, Clone, gitVars, fileVars, logVars
  <2> QED
    BY <1>1, <1>2, <1>5, <2>1 DEF Locate, Clone, Finds, Kept
<1>6. CASE AddWorktree(s)
  <2>1. /\ call'[s] = call[s] /\ target[call[s]] \in Gits
        /\ \/ /\ branch'[call[s]] = "made" /\ pc'[s] = "commit"
              /\ raised'[s] = "nothing"
           \/ /\ branch'[call[s]] # "committed" /\ pc'[s] = "clean"
              /\ raised'[s] = "error"
    BY <1>1, <1>2, <1>6 DEF AddWorktree, Finds
  <2> QED
    BY <1>1, <2>1 DEF Finds, Kept
<1>7. CASE Commit(s)
  <2>1. /\ call'[s] = call[s] /\ target[call[s]] \in Gits /\ pc'[s] = "remove"
        /\ \/ branch'[call[s]] = "committed" /\ raised'[s] = "nothing"
           \/ branch'[call[s]] # "committed" /\ raised'[s] = "error"
    BY <1>1, <1>2, <1>7 DEF Commit, Finds
  <2> QED
    BY <1>1, <2>1 DEF Finds, Kept
<1>8. CASE RemoveWorktree(s)
  <2>1. /\ call'[s] = call[s] /\ target[call[s]] \in Gits
        /\ branch' = branch /\ pc[s] = "remove"
        /\ \/ /\ pc'[s] = "push"
              /\ raised'[s] = "nothing" /\ raised[s] = "nothing"
           \/ /\ pc'[s] = "clean" /\ raised'[s] = raised[s]
              /\ raised[s] # "nothing" /\ stuck' = stuck
           \/ pc'[s] = "clean" /\ raised'[s] # "nothing" /\ stuck' # 0
    BY <1>1, <1>2, <1>8 DEF RemoveWorktree, Finds
  <2> QED
    BY <1>1, <1>2, <2>1 DEF Finds, Kept
<1>9. CASE Push(s)
  <2>1. /\ call'[s] = call[s] /\ target[call[s]] \in Gits
        /\ branch' = branch /\ pc[s] = "push"
        /\ pc'[s] = "clean" /\ raised'[s] = "nothing" /\ raised[s] = "nothing"
    BY <1>1, <1>2, <1>9 DEF Push, Finds
  <2> QED
    BY <1>1, <1>2, <2>1 DEF Finds, Kept
<1>10. ASSUME CleanUp(s), ~Ends(s)
       PROVE  Finds(s)'
  <2>1. /\ call'[s] = call[s] /\ target[call[s]] \in Gits
        /\ branch' = branch /\ pc[s] = "clean"
        /\ pc'[s] = "allow" /\ raised'[s] = "nothing" /\ raised[s] = "nothing"
    BY <1>1, <1>2, <1>10, FailEnds DEF CleanUp, Finds
  <2> QED
    BY <1>1, <1>2, <2>1 DEF Finds, Kept
<1>11. ASSUME Fault(s), ~Ends(s)
       PROVE  Finds(s)'
  <2>1. /\ call'[s] = call[s] /\ branch' = branch
        /\ raised'[s] = "fault" /\ pc'[s] \in {"remove", "clean"}
        /\ pc[s] \in {"add", "push", "clean", "commit"}
    BY <1>1, <1>11 DEF Fault, gitVars, Ends
  <2> QED
    BY <1>1, <1>2, <2>1 DEF Finds, Kept
<1>12. CASE Refuse(s) \/ Allow(s) \/ Kill(s)
  <2>1. CASE Refuse(s) \/ Allow(s)
    <3>1. Ends(s)
      BY <2>1, FailEnds, AllowEnds DEF Refuse
    <3> QED
      BY <1>3, <3>1
  <2>2. CASE Kill(s)
    BY <1>3, <2>2 DEF Kill, Ends, logVars
  <2> QED
    BY <1>12, <2>1, <2>2
<1> QED
  BY <1>3, <1>4, <1>5, <1>6, <1>7, <1>8, <1>9, <1>10, <1>11, <1>12 DEF Progress

(* Every step keeps what the next one finds. *)
LEMMA WorkStep == TypeOK /\ CallsInv /\ WorkInv /\ Next => WorkInv'
<1> SUFFICES ASSUME TypeOK, CallsInv, WorkInv, NEW s \in Sessions,
                    \/ \E up \in Upstreams : Propose(s, up)
                    \/ \E decision \in {"allow", "deny"} : Resolve(s, decision)
                    \/ Progress(s) \/ Fault(s) \/ Kill(s)
             PROVE  WorkInv'
  BY DEF Next
<1> USE DEF Finds, Untouched, Uncommitted, Committed, ToGit, ToDrive,
        NotRaised, Kept
<1>1. ASSUME NEW up \in Upstreams, Propose(s, up)
      PROVE  WorkInv'
  <2>1. /\ UNCHANGED <<branch, origin, raised, stuck, path>>
        /\ calls + 1 \in Calls /\ calls \in Nat
    BY <1>1
    DEF Propose, gitVars, fileVars, logVars, boundVars, TypeOK, Calls
  <2>2. \A t \in Sessions :
          /\ pc'[t] = IF t = s THEN "check" ELSE pc[t]
          /\ call'[t] = IF t = s THEN calls + 1 ELSE call[t]
    BY <1>1 DEF Propose, Goto, TypeOK
  <2>3. pc[s] = "idle" /\ branch[calls + 1] = "none" /\ path[calls + 1] = 0
    BY <1>1, <2>1 DEF Propose, CallsInv
  <2>4. \A n \in Calls : n <= calls => target'[n] = target[n]
    BY <1>1, <2>1 DEF Propose, TypeOK
  <2>5. ASSUME NEW t \in Sessions \ {s}
        PROVE  Finds(t)'
    <3>1. CASE call[t] = 0
      BY <2>1, <2>2, <2>5, <3>1 DEF WorkInv, CallsInv
    <3>2. CASE call[t] # 0
      <4>1. call[t] \in Calls /\ call[t] <= calls
        BY <2>1, <3>2 DEF TypeOK, CallsInv, Calls
      <4>2. target'[call[t]] = target[call[t]]
        BY <2>4, <4>1
      <4> QED
        BY <2>1, <2>2, <2>5, <4>2 DEF WorkInv
    <3> QED
      BY <3>1, <3>2
  <2>6. Finds(s)'
    BY <2>1, <2>2, <2>3 DEF WorkInv
  <2> QED
    BY <2>1, <2>5, <2>6 DEF WorkInv
<1>2. ASSUME NEW decision \in {"allow", "deny"}, Resolve(s, decision)
      PROVE  WorkInv'
  BY <1>2
  DEF Resolve, sessionVars, gitVars, fileVars, boundVars, WorkInv
<1>3. ASSUME Progress(s) \/ Fault(s) \/ Kill(s)
      PROVE  WorkInv'
  <2>1. \A t \in Sessions : Finds(t)'
    BY <1>3, OthersFind, OwnFinds
  <2>2. ASSUME NEW n \in origin'
        PROVE  branch'[n] = "committed"
    <3>1. n \in Calls
      BY <1>3, TypeStep DEF TypeOK, Next
    <3>2. CASE n # call[s]
      BY <1>3, <2>2, <3>1, <3>2, OnlyOwn DEF WorkInv
    <3>3. CASE n = call[s]
      BY <1>3, <2>2, <3>3
      DEF Progress, Refuse, OpenSuggestion, Suggest, Locate, Clone,
          AddWorktree, Commit, RemoveWorktree, Push, CleanUp, Allow, Fault,
          Kill, gitVars, WorkInv, TypeOK
    <3> QED
      BY <3>2, <3>3
  <2> QED
    BY <2>1, <2>2 DEF WorkInv
<1> QED
  BY <1>1, <1>2, <1>3

-----------------------------------------------------------------------------
(* A session that works on a call says nothing new of the others. *)
LEMMA OthersSame ==
  ASSUME TypeOK, CallsInv, NEW s \in Sessions,
         Progress(s) \/ Fault(s) \/ Kill(s), NEW n \in Calls \ {call[s]}
  PROVE  /\ answer'[n] = answer[n]
         /\ InSector(n)' <=> InSector(n)
         /\ \A d : Decided(n, d)' <=> Decided(n, d)
<1>1. /\ answer'[n] = answer[n] /\ branch'[n] = branch[n]
      /\ (n \in origin' <=> n \in origin) /\ target' = target
      /\ call[s] \in Calls
  BY OnlyOwn
<1>2. InSector(n)' <=> InSector(n)
  BY <1>1 DEF InSector
<1>3. CASE UNCHANGED audit
  BY <1>1, <1>2, <1>3 DEF Decided, EntriesOf
<1>4. ASSUME NEW d \in {"allow", "deny"},
             audit' = Append(audit, [call |-> call[s], decision |-> d])
      PROVE  \A dd : Decided(n, dd)' <=> Decided(n, dd)
  <2>1. [call |-> call[s], decision |-> d] \in Entry
    BY <1>1 DEF Entry
  <2>2. audit \in Seq(Entry)
    BY DEF TypeOK
  <2> QED
    BY <1>4, <2>1, <2>2, OthersEntries
<1>5. \/ UNCHANGED audit
      \/ \E d \in {"allow", "deny"} :
           audit' = Append(audit, [call |-> call[s], decision |-> d])
  BY Steppings DEF Ends, Log
<1> QED
  BY <1>1, <1>2, <1>3, <1>4, <1>5

(* A call is refused without a commit, as long as worktrees can be removed. *)
LEMMA RefusedUncommitted ==
  ASSUME TypeOK, WorkInv, NEW s \in Sessions, call[s] \in Calls, stuck = 0,
         Refuse(s) \/ CleanUp(s), Log(s, "deny"), Return(s, "error")
  PROVE  branch'[call[s]] # "committed"
<1>1. Untouched(s) /\ Uncommitted(s)
  BY DEF WorkInv
<1>2. branch' = branch
  BY DEF Refuse, CleanUp, gitVars
<1>3. CASE Refuse(s)
  BY <1>1, <1>2, <1>3 DEF Refuse, Untouched
<1>4. CASE CleanUp(s)
  <2>1. raised[s] # "fault" \/ answer'[call[s]] = "fault" \/ pc'[s] = "allow"
    BY <1>4 DEF CleanUp, Fail, Return, Goto, TypeOK
  <2>2. answer'[call[s]] = "error" /\ pc'[s] = "idle"
    BY DEF Return, Goto, TypeOK
  <2>3. pc[s] = "clean" /\ raised[s] = "error"
    BY <1>4, <2>1, <2>2 DEF CleanUp, Goto, TypeOK
  <2> QED
    BY <1>1, <1>2, <2>3 DEF Uncommitted
<1> QED
  BY <1>3, <1>4

(* No step makes a commit of a call that was refused. *)
LEMMA DeniedStep ==
  TypeOK /\ CallsInv /\ WorkInv /\ DeniedLeavesNoCommit /\ Next
    => DeniedLeavesNoCommit'
<1> SUFFICES ASSUME TypeOK, CallsInv, WorkInv, DeniedLeavesNoCommit,
                    NEW s \in Sessions,
                    \/ \E up \in Upstreams : Propose(s, up)
                    \/ \E decision \in {"allow", "deny"} : Resolve(s, decision)
                    \/ Progress(s) \/ Fault(s) \/ Kill(s)
             PROVE  DeniedLeavesNoCommit'
  BY DEF Next
<1>1. ASSUME NEW up \in Upstreams, Propose(s, up)
      PROVE  DeniedLeavesNoCommit'
  <2>1. /\ UNCHANGED <<branch, origin, stuck, audit>>
        /\ calls + 1 \in Calls /\ calls \in Nat
    BY <1>1 DEF Propose, gitVars, logVars, boundVars, TypeOK, Calls
  <2>2. branch[calls + 1] = "none"
    BY <2>1 DEF CallsInv
  <2>3. \A n \in Calls : n # calls + 1 => target'[n] = target[n]
    BY <1>1 DEF Propose, TypeOK
  <2>4. \A n \in Calls : Decided(n, "deny")' <=> Decided(n, "deny")
    BY <2>1 DEF Decided, EntriesOf
  <2> QED
    BY <2>1, <2>2, <2>3, <2>4 DEF DeniedLeavesNoCommit, InSector
<1>2. ASSUME NEW decision \in {"allow", "deny"}, Resolve(s, decision)
      PROVE  DeniedLeavesNoCommit'
  <2>1. /\ UNCHANGED <<branch, origin, stuck, target>>
        /\ calls + 1 \in Calls /\ calls \in Nat
        /\ audit' = Append(audit, [call |-> calls + 1, decision |-> decision])
    BY <1>2 DEF Resolve, gitVars, boundVars, TypeOK, Calls
  <2>2. branch[calls + 1] = "none"
    BY <2>1 DEF CallsInv
  <2>3. /\ [call |-> calls + 1, decision |-> decision] \in Entry
        /\ audit \in Seq(Entry)
    BY <2>1 DEF Entry, TypeOK
  <2>4. \A n \in Calls \ {calls + 1} :
          Decided(n, "deny")' <=> Decided(n, "deny")
    BY <2>1, <2>3, OthersEntries
  <2> QED
    BY <2>1, <2>2, <2>4 DEF DeniedLeavesNoCommit, InSector
<1>3. ASSUME Progress(s) \/ Fault(s) \/ Kill(s)
      PROVE  DeniedLeavesNoCommit'
  <2>1. call[s] \in Calls /\ call[s] # 0 /\ (stuck' = 0 => stuck = 0)
    BY <1>3, OnlyOwn
  <2>2. ASSUME stuck = 0, NEW n \in Calls \ {call[s]}, Decided(n, "deny")'
        PROVE  ~InSector(n)'
    BY <1>3, <2>2, OthersSame DEF DeniedLeavesNoCommit
  <2>3. ASSUME stuck = 0, NEW n \in Calls, n = call[s], Decided(n, "deny")'
        PROVE  ~InSector(n)'
    <3>1. EntriesOf(n) = {} /\ audit \in Seq(Entry)
      BY <2>1, <2>3 DEF CallsInv, TypeOK
    <3>2. audit' # audit
      BY <2>3, <3>1 DEF Decided, EntriesOf
    <3>3. ~Log(s, "allow")
      <4> SUFFICES ASSUME Log(s, "allow")
                   PROVE  FALSE
        OBVIOUS
      <4> DEFINE e == [call |-> n, decision |-> "allow"]
      <4>1. e \in Entry /\ e.call = n /\ e.decision = "allow"
            /\ audit' = Append(audit, e)
        BY <2>3 DEF Log, Entry
      <4> HIDE DEF e
      <4>2. Decided(e.call, "deny")' <=> "deny" = e.decision
        BY <3>1, <4>1, OneEntry
      <4> QED
        BY <2>3, <4>1, <4>2
    <3>4. (Refuse(s) \/ CleanUp(s)) /\ Log(s, "deny") /\ Return(s, "error")
      BY <1>3, <3>2, <3>3
      DEF Progress, Refuse, OpenSuggestion, Suggest, Locate, Clone,
          AddWorktree, Commit, Git, RemoveWorktree, Push, CleanUp, Allow,
          Fault, Kill, Fail, logVars
    <3>5. branch'[n] # "committed"
      BY <2>1, <2>3, <3>4, RefusedUncommitted
    <3> QED
      BY <3>5 DEF InSector
  <2> QED
    BY <2>1, <2>2, <2>3 DEF DeniedLeavesNoCommit
<1> QED
  BY <1>1, <1>2, <1>3

(* A branch that is answered is there, and stays. *)
LEMMA KeptStep ==
  TypeOK /\ CallsInv /\ WorkInv /\ BranchesKept /\ Next => BranchesKept'
<1> SUFFICES ASSUME TypeOK, CallsInv, WorkInv, BranchesKept,
                    NEW s \in Sessions,
                    \/ \E up \in Upstreams : Propose(s, up)
                    \/ \E decision \in {"allow", "deny"} : Resolve(s, decision)
                    \/ Progress(s) \/ Fault(s) \/ Kill(s)
             PROVE  BranchesKept'
  BY DEF Next
<1>1. ASSUME NEW up \in Upstreams, Propose(s, up)
      PROVE  BranchesKept'
  <2>1. /\ UNCHANGED <<branch, origin, answer>>
        /\ calls + 1 \in Calls /\ calls \in Nat
    BY <1>1 DEF Propose, gitVars, fileVars, logVars, TypeOK, Calls
  <2>2. answer[calls + 1] = "none"
    BY <2>1 DEF CallsInv, TypeOK
  <2>3. \A n \in Calls : n # calls + 1 => target'[n] = target[n]
    BY <1>1 DEF Propose, TypeOK
  <2> QED
    BY <2>1, <2>2, <2>3 DEF BranchesKept, InSector
<1>2. ASSUME NEW decision \in {"allow", "deny"}, Resolve(s, decision)
      PROVE  BranchesKept'
  BY <1>2 DEF Resolve, gitVars, TypeOK, BranchesKept, InSector
<1>3. ASSUME Progress(s) \/ Fault(s) \/ Kill(s), NEW n \in Calls
      PROVE  answer'[n] = "pushed"
                 \/ (answer'[n] = "branch" /\ target'[n] \in Locals)
               => InSector(n)'
  <2>1. call[s] \in Calls /\ target' = target
    BY <1>3, OnlyOwn
  <2>2. CASE n # call[s]
    <3>1. answer'[n] = answer[n] /\ (InSector(n)' <=> InSector(n))
      BY <1>3, <2>2, OthersSame
    <3> QED
      BY <2>1, <3>1 DEF BranchesKept
  <2>3. CASE n = call[s] /\ Allow(s)
    <3>1. /\ answer'[n] = IF target[n] \in Drives THEN "suggestion"
                          ELSE IF n \in origin THEN "pushed" ELSE "branch"
          /\ UNCHANGED <<branch, origin>> /\ pc[s] = "allow"
      BY <2>3 DEF Allow, Return, gitVars, TypeOK
    <3>2. /\ target[n] \in Drives \/ branch[n] = "committed"
          /\ n \in origin => branch[n] = "committed"
      BY <2>3, <3>1 DEF WorkInv, Kept
    <3>3. target[n] \in Locals => target[n] \notin Drives
      BY DEF Gits
    <3> QED
      BY <2>1, <3>1, <3>2, <3>3 DEF InSector
  <2>4. CASE n = call[s] /\ ~Allow(s)
    <3>1. answer[n] = "none"
      BY <2>1, <2>4, OnlyOwn, <1>3 DEF CallsInv
    <3>2. answer'[n] \in {"none", "error", "fault"}
      BY <1>3, <2>1, <2>4, <3>1
      DEF Progress, Refuse, OpenSuggestion, Suggest, Locate, Clone,
          AddWorktree, Commit, Git, RemoveWorktree, Push, CleanUp, Fault,
          Kill, Fail, Return, callVars, TypeOK
    <3> QED
      BY <3>2
  <2> QED
    BY <2>2, <2>3, <2>4
<1> QED
  BY <1>1, <1>2, <1>3 DEF BranchesKept

(* A step that touches no file and answers no suggestion. *)
LEMMA FilesSame ==
  ASSUME TypeOK, CallsInv, FilesInv, UNCHANGED <<path, file>>,
         \A n \in Calls : path[n] # 0 => target'[n] = target[n],
         \A n \in Calls : Pending(n) => Pending(n)',
         \A n \in Calls : answer'[n] = "suggestion" => path[n] # 0
  PROVE  FilesInv'
<1>1. path \in [Calls -> 0..MaxCalls] /\ file \in [Calls -> 0..MaxCalls]
  BY DEF TypeOK
<1>2. Named' /\ Written'
  BY <1>1 DEF FilesInv, Named, Written, Calls
<1>3. Empty'
  BY <1>1 DEF FilesInv, Empty
<1> QED
  BY <1>2, <1>3 DEF FilesInv

(* Every step keeps what is known of the suggestion files. *)
LEMMA FilesStep ==
  TypeOK /\ CallsInv /\ WorkInv /\ FilesInv /\ Next => FilesInv'
<1> SUFFICES ASSUME TypeOK, CallsInv, WorkInv, FilesInv, NEW s \in Sessions,
                    \/ \E up \in Upstreams : Propose(s, up)
                    \/ \E decision \in {"allow", "deny"} : Resolve(s, decision)
                    \/ Progress(s) \/ Fault(s) \/ Kill(s)
             PROVE  FilesInv'
  BY DEF Next
<1>0. path \in [Calls -> 0..MaxCalls] /\ file \in [Calls -> 0..MaxCalls]
  BY DEF TypeOK
<1>1. ASSUME NEW up \in Upstreams, Propose(s, up)
      PROVE  FilesInv'
  <2>1. /\ UNCHANGED <<path, file, answer>> /\ pc[s] = "idle"
        /\ calls + 1 \in Calls /\ calls \in Nat
    BY <1>1 DEF Propose, fileVars, logVars, TypeOK, Calls
  <2>2. /\ path[calls + 1] = 0
        /\ \A n \in Calls : n # calls + 1 => target'[n] = target[n]
        /\ \A t \in Sessions \ {s} : pc'[t] = pc[t] /\ call'[t] = call[t]
    BY <1>1, <2>1 DEF Propose, CallsInv, Goto, TypeOK
  <2>3. \A n \in Calls : Pending(n) => Pending(n)'
    BY <2>1, <2>2 DEF Pending
  <2> QED
    BY <2>1, <2>2, <2>3, FilesSame DEF FilesInv
<1>2. ASSUME NEW decision \in {"allow", "deny"}, Resolve(s, decision)
      PROVE  FilesInv'
  <2>1. /\ UNCHANGED <<path, file, target, pc, call>>
        /\ calls + 1 \in Calls /\ answer[calls + 1] = "none"
    BY <1>2 DEF Resolve, sessionVars, fileVars, CallsInv, TypeOK, Calls
  <2>2. \A n \in Calls :
          /\ n # calls + 1 => answer'[n] = answer[n]
          /\ n = calls + 1 => answer'[n] # "suggestion"
    BY <1>2, <2>1 DEF Resolve, TypeOK
  <2>3. \A n \in Calls : Pending(n) => Pending(n)'
    BY <2>1, <2>2 DEF Pending
  <2> QED
    BY <2>1, <2>2, <2>3, FilesSame DEF FilesInv
<1>3. ASSUME OpenSuggestion(s)
      PROVE  FilesInv'
  <2>1. call[s] \in Calls /\ call[s] # 0 /\ UNCHANGED <<target, call, answer>>
    BY <1>3, OnlyOwn DEF Progress, OpenSuggestion, callVars
  <2>2. path[call[s]] = 0 /\ pc'[s] = "write"
        /\ \A t \in Sessions \ {s} : pc'[t] = pc[t]
    BY <1>3 DEF OpenSuggestion, WorkInv, ToDrive, Goto, TypeOK
  <2>3. PICK p \in Calls :
          /\ \/ p = call[s]
             \/ path[p] = p
                /\ FileName[target[p]] = FileName[target[call[s]]]
          /\ path' = [path EXCEPT ![call[s]] = p]
          /\ file' = [file EXCEPT ![p] = 0]
    BY <1>3 DEF OpenSuggestion
  <2>4. p # 0 /\ \A n \in Calls : path[n] # call[s]
    BY <2>1, <2>2 DEF FilesInv, Named, Calls
  <2>5. /\ path'[call[s]] = p
        /\ \A n \in Calls \ {call[s]} : path'[n] = path[n]
        /\ file'[p] = 0 /\ \A q \in Calls \ {p} : file'[q] = file[q]
    BY <1>0, <2>1, <2>3
  <2>6. Named'
    <3> SUFFICES ASSUME NEW n \in Calls, path'[n] # 0
                 PROVE  /\ path'[path'[n]] = path'[n]
                        /\ FileName[target[path'[n]]] = FileName[target[n]]
      BY <2>1 DEF Named
    <3>1. CASE n = call[s]
      BY <2>3, <2>5, <3>1
    <3>2. CASE n # call[s]
      <4>1. path'[n] = path[n] /\ path[n] \in Calls
        BY <1>0, <2>5, <3>2 DEF Calls
      <4> QED
        BY <2>4, <2>5, <4>1 DEF FilesInv, Named
    <3> QED
      BY <3>1, <3>2
  <2>7. Written'
    <3> SUFFICES ASSUME NEW q \in Calls, file'[q] # 0
                 PROVE  path'[file'[q]] = q
      BY DEF Written
    <3>1. q # p /\ file'[q] = file[q] /\ file[q] \in Calls
      BY <1>0, <2>5 DEF Calls
    <3>2. path[file[q]] = q /\ q # 0
      BY <3>1 DEF FilesInv, Written, Calls
    <3> QED
      BY <2>2, <2>5, <3>1, <3>2
  <2>8. Empty'
    <3> SUFFICES ASSUME NEW q \in Calls, path'[q] = q, file'[q] = 0
                 PROVE  \E m \in Calls : path'[m] = q /\ Pending(m)'
      BY DEF Empty
    <3>1. CASE q = p
      <4>1. Pending(call[s])'
        BY <2>1, <2>2 DEF Pending
      <4> QED
        BY <2>1, <2>5, <3>1, <4>1
    <3>2. CASE q # p
      <4>1. q # call[s]
        BY <2>5, <3>2
      <4>2. PICK m \in Calls : path[m] = q /\ Pending(m)
        BY <2>5, <3>2, <4>1 DEF FilesInv, Empty
      <4>3. m # call[s] /\ path'[m] = q
        BY <2>2, <2>5, <4>2 DEF Calls
      <4>4. Pending(m)'
        BY <1>3, <2>1, <2>2, <4>2, <4>3 DEF Pending
      <4> QED
        BY <4>3, <4>4
    <3> QED
      BY <3>1, <3>2
  <2>9. \A n \in Calls : answer'[n] = "suggestion" => path'[n] # 0
    BY <2>1, <2>4, <2>5 DEF FilesInv
  <2> QED
    BY <2>6, <2>7, <2>8, <2>9 DEF FilesInv
<1>4. ASSUME Suggest(s)
      PROVE  FilesInv'
  <2>1. /\ call[s] \in Calls /\ call[s] # 0
        /\ UNCHANGED <<target, call, answer, path>>
    BY <1>4, OnlyOwn DEF Progress, Suggest, callVars
  <2>2. path[call[s]] \in Calls
    BY <1>0, <1>4, <2>1 DEF Suggest, WorkInv, ToDrive, Calls
  <2>3. /\ file'[path[call[s]]] = call[s]
        /\ \A q \in Calls \ {path[call[s]]} : file'[q] = file[q]
        /\ \A t \in Sessions \ {s} : pc'[t] = pc[t]
    BY <1>0, <1>4, <2>2 DEF Suggest, Goto, TypeOK
  <2>4. Named'
    BY <2>1 DEF FilesInv, Named
  <2>5. Written'
    BY <2>1, <2>3 DEF FilesInv, Written
  <2>6. Empty'
    <3> SUFFICES ASSUME NEW q \in Calls, path[q] = q, file'[q] = 0
                 PROVE  \E m \in Calls : path[m] = q /\ Pending(m)'
      BY <2>1 DEF Empty
    <3>1. q # path[call[s]] /\ file[q] = 0
      BY <2>1, <2>3
    <3>2. PICK m \in Calls : path[m] = q /\ Pending(m)
      BY <3>1 DEF FilesInv, Empty
    <3>3. Pending(m)'
      BY <2>1, <2>3, <3>1, <3>2 DEF Pending
    <3> QED
      BY <3>2, <3>3
  <2>7. \A n \in Calls : answer'[n] = "suggestion" => path'[n] # 0
    BY <2>1 DEF FilesInv
  <2> QED
    BY <2>4, <2>5, <2>6, <2>7 DEF FilesInv
<1>5. ASSUME Progress(s) \/ Fault(s) \/ Kill(s),
             ~OpenSuggestion(s), ~Suggest(s)
      PROVE  FilesInv'
  <2>1. /\ call[s] \in Calls /\ call[s] # 0 /\ target' = target
        /\ \A n \in Calls \ {call[s]} : answer'[n] = answer[n]
        /\ \A t \in Sessions \ {s} : pc'[t] = pc[t] /\ call'[t] = call[t]
        /\ answer[call[s]] = "none"
    BY <1>5, OnlyOwn DEF CallsInv
  <2>2. UNCHANGED <<path, file>>
    BY <1>5
    DEF Progress, Refuse, Locate, Clone, AddWorktree, Commit, Git,
        RemoveWorktree, Push, CleanUp, Allow, Fault, Kill, fileVars, logVars
  <2>3. CASE Allow(s)
    <3>1. /\ pc[s] = "allow"
          /\ answer'[call[s]] = "suggestion" => target[call[s]] \in Drives
      BY <2>1, <2>3 DEF Allow, Return, TypeOK
    <3>2. answer'[call[s]] = "suggestion" => path[call[s]] # 0
      BY <3>1 DEF WorkInv, Kept
    <3>3. \A n \in Calls : Pending(n) => Pending(n)'
      BY <2>1, <3>1 DEF Pending
    <3> QED
      BY <2>1, <2>2, <3>2, <3>3, FilesSame DEF FilesInv
  <2>4. CASE ~Allow(s)
    <3>1. /\ answer'[call[s]] # "suggestion"
          /\ pc[s] = "write" => answer'[call[s]] = "fault"
      BY <1>5, <2>1, <2>4
      DEF Progress, Refuse, Locate, Clone, AddWorktree, Commit, Git,
          RemoveWorktree, Push, CleanUp, Fault, Kill, Fail, Return, callVars,
          TypeOK
    <3>2. \A n \in Calls : Pending(n) => Pending(n)'
      BY <2>1, <3>1 DEF Pending
    <3> QED
      BY <2>1, <2>2, <3>1, <3>2, FilesSame DEF FilesInv
  <2> QED
    BY <2>3, <2>4
<1> QED
  BY <1>1, <1>2, <1>3, <1>4, <1>5

(* What holds of the files and branches is what the answers promise. *)
LEMMA AllKept ==
  TypeOK /\ CallsInv /\ FilesInv /\ BranchesKept => AnswersAreKept
<1> SUFFICES ASSUME TypeOK, CallsInv, FilesInv,
                    NEW n \in Calls, answer[n] = "suggestion"
             PROVE  OnFile(n) \/ (file[path[n]] = 0 /\ Reopened(n))
  BY DEF AnswersAreKept, BranchesKept
<1>1. path[n] \in Calls /\ file[path[n]] \in 0..MaxCalls
  BY DEF TypeOK, FilesInv, Calls
<1>2. /\ path[path[n]] = path[n]
      /\ FileName[target[path[n]]] = FileName[target[n]]
  BY <1>1 DEF FilesInv, Named, Calls
<1>3. CASE file[path[n]] = 0
  <2>1. PICK m \in Calls : path[m] = path[n] /\ Pending(m)
    BY <1>1, <1>2, <1>3 DEF FilesInv, Empty
  <2>2. answer[m] \in {"none", "fault"}
    BY <2>1 DEF Pending, CallsInv, Calls
  <2> QED
    BY <1>3, <2>1, <2>2 DEF Reopened
<1>4. CASE file[path[n]] # 0
  <2> DEFINE m == file[path[n]]
  <2>1. m \in Calls /\ path[m] = path[n] /\ path[m] # 0
    BY <1>1, <1>4 DEF FilesInv, Written, Calls
  <2>2. FileName[target[path[m]]] = FileName[target[m]]
    BY <2>1 DEF FilesInv, Named
  <2> QED
    BY <1>2, <1>4, <2>1, <2>2 DEF OnFile
<1> QED
  BY <1>3, <1>4

-----------------------------------------------------------------------------
(* A set that loses some or gains at most one member grows by at most one. *)
LEMMA OneMore ==
  ASSUME NEW S, IsFiniteSet(S), NEW x, NEW T, T \subseteq S \cup {x}
  PROVE  /\ IsFiniteSet(T) /\ Cardinality(T) \in Nat /\ Cardinality(S) \in Nat
         /\ Cardinality(T) <= Cardinality(S) + 1
         /\ T \subseteq S => Cardinality(T) <= Cardinality(S)
<1>0. /\ IsFiniteSet(S \cup {x})
      /\ \/ Cardinality(S \cup {x}) = Cardinality(S)
         \/ Cardinality(S \cup {x}) = Cardinality(S) + 1
  BY FS_AddElement, Zenon
<1>1. /\ IsFiniteSet(S \cup {x}) /\ Cardinality(S) \in Nat
      /\ Cardinality(S \cup {x}) \in Nat
      /\ Cardinality(S \cup {x}) <= Cardinality(S) + 1
  BY <1>0, FS_CardinalityType
<1>2. /\ IsFiniteSet(T) /\ Cardinality(T) \in Nat
      /\ Cardinality(T) <= Cardinality(S \cup {x})
  BY <1>1, FS_Subset, FS_CardinalityType
<1>3. T \subseteq S => Cardinality(T) <= Cardinality(S)
  BY FS_Subset
<1> QED
  BY <1>1, <1>2, <1>3

LEMMA LeftFinite == TypeOK => IsFiniteSet(Left)
<1>1. IsFiniteSet(Calls)
  BY FS_Interval DEF Calls
<1> QED
  BY <1>1, FS_Subset DEF TypeOK, Left

(* A worktree is left behind by a removal that fails or a kill, no more. *)
LEMMA LeftStep == TypeOK /\ CallsInv /\ LeftInv /\ Next => LeftInv'
<1> SUFFICES ASSUME TypeOK, CallsInv, LeftInv, NEW s \in Sessions,
                    \/ \E up \in Upstreams : Propose(s, up)
                    \/ \E decision \in {"allow", "deny"} : Resolve(s, decision)
                    \/ Progress(s) \/ Fault(s) \/ Kill(s)
             PROVE  LeftInv'
  BY DEF Next
<1>1. /\ kills \in Nat /\ stuck \in Nat
      /\ IsFiniteSet(Left) /\ Cardinality(Left) \in Nat
  BY LeftFinite, FS_CardinalityType DEF TypeOK
<1>2. ASSUME Left' \subseteq Left, kills' = kills, stuck' = stuck
      PROVE  LeftInv'
  <2>1. Cardinality(Left') <= Cardinality(Left) /\ Cardinality(Left') \in Nat
    BY <1>1, <1>2, OneMore
  <2> QED
    BY <1>1, <1>2, <2>1 DEF LeftInv
<1>3. ASSUME Left' \subseteq Left \cup {call[s]},
             \/ kills' = kills + 1 /\ stuck' = stuck
             \/ kills' = kills /\ stuck' = stuck + 1
      PROVE  LeftInv'
  <2>1. Cardinality(Left') <= Cardinality(Left) + 1
        /\ Cardinality(Left') \in Nat
    BY <1>1, <1>3, OneMore
  <2> QED
    BY <1>1, <1>3, <2>1 DEF LeftInv
<1>4. ASSUME NEW up \in Upstreams, Propose(s, up)
      PROVE  LeftInv'
  <2>1. pc[s] = "idle" /\ UNCHANGED <<worktrees, kills, stuck>>
    BY <1>4 DEF Propose, gitVars, boundVars
  <2>2. \A t \in Sessions \ {s} : pc'[t] = pc[t] /\ call'[t] = call[t]
    BY <1>4 DEF Propose, Goto, TypeOK
  <2>3. Left' \subseteq Left
    BY <2>1, <2>2 DEF Left
  <2> QED
    BY <1>2, <2>1, <2>3
<1>5. ASSUME NEW decision \in {"allow", "deny"}, Resolve(s, decision)
      PROVE  LeftInv'
  <2>1. UNCHANGED <<pc, call, worktrees, kills, stuck>>
    BY <1>5 DEF Resolve, sessionVars, gitVars, boundVars
  <2>2. Left' \subseteq Left
    BY <2>1 DEF Left
  <2> QED
    BY <1>2, <2>1, <2>2
<1>6. ASSUME Progress(s) \/ Fault(s) \/ Kill(s)
      PROVE  LeftInv'
  <2>1. /\ call[s] # 0 /\ call[s] \in Calls
        /\ \A t \in Sessions \ {s} : pc'[t] = pc[t] /\ call'[t] = call[t]
    BY <1>6, OnlyOwn
  <2> DEFINE Held(t, n) == call[t] = n /\ pc[t] \in {"commit", "remove"}
  <2>2. \A n : \A t \in Sessions \ {s} :
          Held(t, n) => call'[t] = n /\ pc'[t] \in {"commit", "remove"}
    BY <2>1
  <2>3. ASSUME worktrees' \subseteq worktrees \cup {call[s]}
        PROVE  Left' \subseteq Left \cup {call[s]}
    <3> SUFFICES ASSUME NEW n \in Left', n # call[s]
                 PROVE  n \in Left
      OBVIOUS
    <3>1. n \in worktrees
          /\ ~\E t \in Sessions :
                call'[t] = n /\ pc'[t] \in {"commit", "remove"}
      BY <2>3 DEF Left
    <3> QED
      BY <2>2, <3>1 DEF Left
  <2>4. ASSUME worktrees' \subseteq worktrees,
               pc[s] \notin {"commit", "remove"}
                 \/ call[s] \notin worktrees'
                 \/ (call'[s] = call[s] /\ pc'[s] \in {"commit", "remove"})
        PROVE  Left' \subseteq Left
    <3> SUFFICES ASSUME NEW n \in Left'
                 PROVE  n \in Left
      OBVIOUS
    <3>1. n \in worktrees /\ n \in worktrees'
          /\ ~\E t \in Sessions :
                call'[t] = n /\ pc'[t] \in {"commit", "remove"}
      BY <2>4 DEF Left
    <3>2. ~Held(s, n)
      BY <2>4, <3>1
    <3> QED
      BY <2>2, <3>1, <3>2 DEF Left
  <2> USE DEF Git, gitVars, boundVars
  <2>5. CASE AddWorktree(s)
    <3>1. worktrees' \subseteq worktrees \cup {call[s]} /\ kills' = kills
      BY <2>5 DEF AddWorktree
    <3>2. CASE stuck' = stuck + 1
      <4>1. Left' \subseteq Left \cup {call[s]}
        BY <2>3, <3>1
      <4> QED
        BY <1>3, <3>1, <3>2, <4>1
    <3>3. CASE stuck' = stuck /\ pc'[s] = "commit"
      <4>1. call'[s] = call[s]
        BY <2>5 DEF AddWorktree
      <4>2. Left' \subseteq Left
        BY <2>1, <2>3, <3>1, <3>3, <4>1 DEF Left
      <4> QED
        BY <1>2, <3>1, <3>3, <4>2
    <3>4. CASE stuck' = stuck /\ worktrees' = worktrees
      <4>1. pc[s] = "add"
        BY <2>5 DEF AddWorktree
      <4>2. Left' \subseteq Left
        BY <2>4, <3>4, <4>1
      <4> QED
        BY <1>2, <3>1, <3>4, <4>2
    <3> QED
      BY <2>5, <3>2, <3>3, <3>4 DEF AddWorktree, Goto, TypeOK
  <2>6. CASE RemoveWorktree(s)
    <3>1. \/ /\ worktrees' = worktrees \ {call[s]}
             /\ kills' = kills /\ stuck' = stuck
          \/ /\ worktrees' = worktrees
             /\ kills' = kills /\ stuck' = stuck + 1
      BY <2>6 DEF RemoveWorktree
    <3>2. CASE worktrees' = worktrees \ {call[s]}
               /\ kills' = kills /\ stuck' = stuck
      <4>1. Left' \subseteq Left
        BY <2>4, <3>2
      <4> QED
        BY <1>2, <3>2, <4>1
    <3>3. CASE worktrees' = worktrees /\ kills' = kills /\ stuck' = stuck + 1
      <4>1. Left' \subseteq Left \cup {call[s]}
        BY <2>3, <3>3
      <4> QED
        BY <1>3, <3>3, <4>1
    <3> QED
      BY <3>1, <3>2, <3>3
  <2>7. CASE Kill(s)
    <3>1. worktrees' = worktrees /\ kills' = kills + 1 /\ stuck' = stuck
      BY <2>7 DEF Kill
    <3>2. Left' \subseteq Left \cup {call[s]}
      BY <2>3, <3>1
    <3> QED
      BY <1>3, <3>1, <3>2
  <2>8. CASE \/ Refuse(s) \/ OpenSuggestion(s) \/ Suggest(s) \/ Locate(s)
             \/ Clone(s) \/ Commit(s)
             \/ Push(s) \/ CleanUp(s) \/ Allow(s) \/ Fault(s)
    <3>1. worktrees' = worktrees /\ kills' = kills /\ stuck' = stuck
      BY <2>8 DEF Refuse, OpenSuggestion, Suggest, Locate, Clone, Commit,
         Push, CleanUp, Allow, Fault
    <3>2. \/ pc[s] \notin {"commit", "remove"}
          \/ call'[s] = call[s] /\ pc'[s] \in {"commit", "remove"}
      BY <2>8 DEF Refuse, OpenSuggestion, Suggest, Locate, Clone, Commit,
         Push, CleanUp, Allow, Fault, Goto, TypeOK
    <3>3. Left' \subseteq Left
      BY <2>4, <3>1, <3>2
    <3> QED
      BY <1>2, <3>1, <3>3
  <2> QED
    BY <1>6, <2>5, <2>6, <2>7, <2>8 DEF Progress
<1> QED
  BY <1>4, <1>5, <1>6

LEMMA LeftBehind == TypeOK /\ LeftInv => WorktreesAreTemporary
<1> SUFFICES ASSUME TypeOK, LeftInv
             PROVE  WorktreesAreTemporary
  OBVIOUS
<1> DEFINE ended == {n \in worktrees : ~Busy(n)}
<1>1. ended \subseteq Left
  BY DEF Busy, Left
<1>2. /\ IsFiniteSet(Left) /\ Cardinality(Left) \in Nat
      /\ Cardinality(ended) \in Nat /\ Cardinality(ended) <= Cardinality(Left)
  BY <1>1, LeftFinite, FS_Subset, FS_CardinalityType
<1>3. kills \in Nat /\ stuck \in Nat
  BY DEF TypeOK
<1> HIDE DEF ended
<1>4. Cardinality(ended) <= kills + stuck
  BY <1>2, <1>3 DEF LeftInv
<1> QED
  BY <1>4 DEF WorktreesAreTemporary, ended

-----------------------------------------------------------------------------
LEMMA Initially == Init => IInv
<1> SUFFICES ASSUME Init
             PROVE  IInv
  OBVIOUS
<1> USE DEF Init
<1>1. TypeOK
  <2>1. audit \in Seq(Entry)
    OBVIOUS
  <2> QED
    BY <2>1 DEF TypeOK, Steps, Upstreams, Answers, Calls
<1>2. \A n : EntriesOf(n) = {}
  BY DEF EntriesOf
<1>3. CallsInv /\ WorkInv
  BY <1>2 DEF CallsInv, WorkInv, Untouched, Uncommitted, Committed, ToGit,
     ToDrive, NotRaised, Kept
<1>4. LeftInv
  <2>1. Left = {}
    BY DEF Left
  <2> QED
    BY <2>1, FS_EmptySet DEF LeftInv
<1>5. AnsweredIsAudited /\ BranchesKept /\ DeniedLeavesNoCommit
  BY <1>2
  DEF AnsweredIsAudited, BranchesKept, DeniedLeavesNoCommit, InSector,
      Decided
<1>6. FilesInv
  <2>1. \A n \in Calls : n # 0
    BY DEF Calls
  <2> QED
    BY <2>1 DEF FilesInv, Named, Written, Empty
<1> QED
  BY <1>1, <1>3, <1>4, <1>5, <1>6 DEF IInv

LEMMA Unchanged == IInv /\ UNCHANGED vars => IInv'
<1> SUFFICES ASSUME IInv, UNCHANGED vars
             PROVE  IInv'
  OBVIOUS
<1>1. UNCHANGED <<pc, call, raised, target, calls, answer, branch, origin,
                  lost, worktrees, path, file, audit, faults, kills, stuck>>
  BY DEF vars, sessionVars, callVars, gitVars, fileVars, logVars, boundVars
<1>2. TypeOK' /\ CallsInv'
  BY <1>1 DEF IInv, TypeOK, CallsInv, EntriesOf
<1>3. WorkInv'
  BY <1>1 DEF IInv, WorkInv, Untouched, Uncommitted, Committed, ToGit,
     ToDrive, NotRaised, Kept
<1>4. LeftInv'
  BY <1>1 DEF IInv, LeftInv, Left
<1>5. AnsweredIsAudited' /\ BranchesKept' /\ DeniedLeavesNoCommit'
  BY <1>1 DEF IInv, AnsweredIsAudited, BranchesKept, DeniedLeavesNoCommit,
     InSector, Decided, EntriesOf
<1>6. FilesInv'
  BY <1>1 DEF IInv, FilesInv, Named, Written, Empty, Pending
<1> QED
  BY <1>2, <1>3, <1>4, <1>5, <1>6 DEF IInv

LEMMA Inductive == Spec => []IInv
<1>1. IInv /\ [Next]_vars => IInv'
  <2>1. IInv /\ Next => IInv'
    BY TypeStep, CallsStep, WorkStep, LeftStep, FilesStep, KeptStep,
       DeniedStep DEF IInv
  <2> QED
    BY <2>1, Unchanged
<1> QED
  BY <1>1, Initially, PTL DEF Spec

(* Every variable has its type, and two sessions of the server never work on
   one call: propose_upstream makes the names that it uses for each call.   *)
THEOREM TypeCorrect == Spec => []TypeOK
<1>1. IInv => TypeOK
  BY DEF IInv
<1> QED
  BY <1>1, Inductive, PTL

(* A call of propose_upstream or resolve_resource that is answered or refused
   has exactly one entry in the audit log, and the entry's decision is the
   answer's, however the calls of the sessions interleave.                  *)
THEOREM AnswersAreAudited == Spec => []AnsweredIsAudited
<1>1. IInv => AnsweredIsAudited
  BY DEF IInv
<1> QED
  BY <1>1, Inductive, PTL

(* What propose_upstream answers is there: a branch answered as pushed, or made
   in a local clone, holds the committed proposal, and the suggestion file
   that was answered holds a suggestion for a document of the same file name,
   unless a call that opened it again was cut short, whatever documents share
   a name and however the calls of the sessions interleave.                 *)
THEOREM AnswersHold == Spec => []AnswersAreKept
<1>1. IInv => AnswersAreKept
  BY AllKept DEF IInv
<1> QED
  BY <1>1, Inductive, PTL

(* A refused proposal has no commit in its sector as long as git worktree
   remove works, and there are no more worktrees of ended calls than removals
   that failed and sessions that were killed.                               *)
THEOREM LeavesNothingBehind == Spec => []NothingLeftBehind
<1>1. IInv => NothingLeftBehind
  BY LeftBehind DEF IInv, NothingLeftBehind
<1> QED
  BY <1>1, Inductive, PTL
=============================================================================
