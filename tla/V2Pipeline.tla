------------------------------ MODULE V2Pipeline ------------------------------
(*****************************************************************************)
(* run_pipeline for one task of the V2 factory: one writable owner, then one *)
(* blind adversary (normalize_claude_led_nodes), then the release gates.     *)
(* The checkpoint survives the process; the worktree of the stage that was   *)
(* active does too.  A candidate is told apart from main only by whether it  *)
(* holds work; who has judged exactly this candidate is recorded beside it.  *)
(* sync_github pushes nothing and every summary says merged = False, so no   *)
(* action here moves main.                                                   *)
(*****************************************************************************)
EXTENDS Naturals

CONSTANTS MaxCycles,        \* repair.max_cycles
          Models,           \* models an owner is retried with
          MaxTurnRaises,    \* doublings of a reviewer's turns (4 times: 2)
          MaxReportRetries, \* MAX_REVIEW_INFRA_RETRIES
          MaxInterruptions  \* quota pauses, deaths and failed plans considered

ASSUME PipelineAssumption ==
    /\ MaxCycles \in Nat /\ Models \in Nat \ {0} /\ MaxTurnRaises \in Nat
    /\ MaxReportRetries \in Nat /\ MaxInterruptions \in Nat

VARIABLES
    pc,      \* where the process stands; "down" when there is none
    q,       \* the queue directory that holds the task's packet
    err,     \* what its .error.txt says
    ck,      \* the durable checkpoint
    wt,      \* what the active stage's worktree holds
    raises,  \* turn raises of this process (the packet in memory)
    dirty,   \* main's worktree has uncommitted changes
    budget   \* interruptions left

pipeVars == <<pc, q, err, ck, wt, raises, dirty, budget>>

QueueStates == {"absent", "pending", "running", "paused", "blocked", "failed", "done"}
Errors == {"none", "product", "infrastructure", "factory", "external", "value"}
Owner == 1
Adversary == 2
Release == 3
Worktrees == {"none", "clean", "work", "outside"}

\* state "none": no checkpoint file.  onMain: starting_sha is still main.
\* gated, reviewed: the work of this candidate passed the owner's gates, the adversary.
NewCheckpoint(s) ==
    [state |-> s, onMain |-> TRUE, work |-> FALSE, gated |-> FALSE, reviewed |-> FALSE,
     stage |-> Owner, active |-> 0, results |-> FALSE, ownerFailures |-> 0,
     reviewFailures |-> 0, cycles |-> 0, repeats |-> 0, err |-> "none"]
NoCheckpoint == NewCheckpoint("none")

\* Counters are kept up to the limit they are compared with.
Count(n, limit) == IF n < limit THEN n + 1 ELSE limit

\* validate_changed_paths: only permitted paths were changed.
InPolicy == wt # "outside"

Interrupt == budget > 0 /\ budget' = budget - 1

-----------------------------------------------------------------------------
(* How run_pipeline ends: the checkpoint is saved, then process_one moves    *)
(* the packet.  The process may die between the two.                         *)

Settle(c, target, e) ==
    /\ ck' = c /\ wt' = IF c.active = 0 THEN "none" ELSE wt
    /\ \/ q' = target /\ err' = e /\ pc' = "sync" /\ UNCHANGED budget
       \/ q' = q /\ err' = err /\ pc' = "down" /\ Interrupt
    /\ UNCHANGED <<raises, dirty>>

\* PipelineBlocked, another exception, and QuotaLimitPause.
Blocks(c, e) == Settle([c EXCEPT !.state = "BLOCKED", !.err = e], "blocked", e)
Fails(c, e) == Settle([c EXCEPT !.state = "FAILED", !.err = e], "failed", e)
Pauses(c) == Settle([c EXCEPT !.state = "PAUSED"], "paused", "none")

\* The candidate after a session that committed what the worktree holds.
Committed(c) ==
    IF wt = "work" THEN [c EXCEPT !.work = TRUE, !.gated = FALSE, !.reviewed = FALSE, !.repeats = 0] ELSE c
\* The stage's worktree is removed and the active fields are cleared.
Cleared(c) == [c EXCEPT !.active = 0]

-----------------------------------------------------------------------------
(* _load_checkpoint and the recovery of an interrupted stage.                *)

\* An interrupted or paused checkpoint with nothing to preserve starts over on the new main.
CanRebase(c) == c.state \in {"PAUSED", "RUNNING"} /\ ~c.work /\ ~c.results /\ c.active = 0
Resumable(c) == c.state \in {"RUNNING", "PAUSED", "BLOCKED"}
MainMoved(c) == Resumable(c) /\ ~c.onMain /\ ~CanRebase(c)

\* require_clean_main: refused before the checkpoint is read.
RefuseDirtyMain ==
    /\ pc = "load" /\ dirty
    /\ Settle(ck, "failed", "product")

\* "Cannot resume: main moved": the checkpoint stays as it is.
RefuseMovedMain ==
    /\ pc = "load" /\ ~dirty /\ MainMoved(ck)
    /\ Settle(ck, "blocked", "infrastructure")

\* A new checkpoint: there is none, it ended, or it is empty and main moved.
StartRun ==
    /\ pc = "load" /\ ~dirty /\ ~MainMoved(ck)
    /\ ~Resumable(ck) \/ ~ck.onMain
    /\ ck' = NewCheckpoint("NEW") /\ wt' = "none" /\ raises' = 0 /\ pc' = "stage"
    /\ UNCHANGED <<q, err, dirty, budget>>

StillBlocked ==
    /\ pc = "load" /\ ~dirty /\ ck.onMain /\ ck.state = "BLOCKED"
    /\ Settle(ck, "blocked", ck.err)

\* The packet was promoted before the pause of the checkpoint is over.
StillPaused ==
    /\ pc = "load" /\ ~dirty /\ ck.onMain /\ ck.state = "PAUSED" /\ Interrupt
    /\ q' = "paused" /\ pc' = "sync" /\ UNCHANGED <<err, ck, wt, raises, dirty>>

\* The worktree left by a dead process is committed into the candidate, whatever its
\* stage would have judged of it, and the stage of the checkpoint runs again.
ResumeRun ==
    /\ pc = "load" /\ ~dirty /\ ck.onMain /\ ck.state \in {"PAUSED", "RUNNING"}
    /\ ck.active # 0 => InPolicy
    /\ ck' = [Cleared(IF ck.active = Owner THEN Committed(ck) ELSE ck) EXCEPT !.state = "RUNNING"]
    /\ wt' = "none" /\ raises' = 0
    /\ pc' = IF ck.stage = Release THEN "release" ELSE "stage"
    /\ UNCHANGED <<q, err, dirty, budget>>

RecoverOutside ==
    /\ pc = "load" /\ ~dirty /\ ck.onMain /\ ck.state \in {"PAUSED", "RUNNING"}
    /\ ck.active # 0 /\ wt = "outside"
    /\ Settle([ck EXCEPT !.state = "BLOCKED", !.err = "product"], "blocked", "product")

-----------------------------------------------------------------------------
(* _execute_stage: the worktree is created and recorded, the agent works,    *)
(* what it left is validated and committed, and the record is cleared.       *)

Session(c, role) == [c EXCEPT !.state = "RUNNING", !.active = role]

BeginStage ==
    /\ pc = "stage"
    /\ ck' = Session(ck, ck.stage) /\ wt' = "clean" /\ pc' = "session"
    /\ UNCHANGED <<q, err, raises, dirty, budget>>

\* The task or the month has no budget left for the session.
RefuseBudget ==
    /\ pc = "stage"
    /\ Fails(ck, "product")

AgentEdits ==
    /\ pc = "session" /\ wt = "clean"
    /\ wt' \in IF ck.active = Owner THEN {"work", "outside"} ELSE {"outside"}
    /\ UNCHANGED <<pc, q, err, ck, raises, dirty, budget>>

\* A limit the provider reports; paid overage is refused like a lost login.
PauseKinds == {"plan_limit", "model_limit", "transient", "authentication"}
Disposition(overage, rejected, kind) ==
    CASE overage -> "authentication" [] ~overage /\ rejected -> kind [] OTHER -> "none"
\* Only a limit of this model goes on with the next model of the chain.
MayDowngrade(kind, more) == kind = "model_limit" /\ more
LimitReached ==
    \E overage, rejected, more \in BOOLEAN, kind \in PauseKinds :
        LET d == Disposition(overage, rejected, kind) IN d # "none" /\ ~MayDowngrade(d, more)

\* Quota or authentication: partial work is committed and the run pauses.
SessionPauses ==
    /\ pc = "session" /\ LimitReached /\ Interrupt
    /\ InPolicy
    /\ ck' = [Cleared(IF ck.active = Owner THEN Committed(ck) ELSE ck) EXCEPT !.state = "PAUSED"]
    /\ wt' = "none" /\ q' = "paused" /\ err' = "none" /\ pc' = "sync"
    /\ UNCHANGED <<raises, dirty>>

\* Any other exception, a pause over a worktree out of policy included, fails the run.
SessionRaises ==
    /\ pc = "session"
    /\ \E e \in {"product", "infrastructure"} : Fails(ck, e)

\* The checkpoint after a session that returned: the commit is on a branch, and the
\* candidate follows it only when the caller saves.
Returned(c) == [Cleared(IF c.active = Owner THEN Committed(c) ELSE c) EXCEPT !.results = TRUE]
Repairing == ck.active = Owner /\ ck.stage = Adversary
Advance(c, next) == ck' = c /\ wt' = "none" /\ pc' = next /\ UNCHANGED <<q, err, dirty, budget>>

\* The process dies after _execute_stage saved and before its caller did: the commit is not found again.
DiesBeforeCaller ==
    /\ pc = "session" /\ Interrupt
    /\ ck' = Cleared(ck) /\ wt' = "none" /\ pc' = "down"
    /\ UNCHANGED <<q, err, raises, dirty>>

\* PASS: in policy, the whole delta validated, and every required gate passed.
OwnerPasses ==
    /\ pc = "session" /\ ck.active = Owner /\ ck.stage = Owner /\ InPolicy
    /\ Advance([Returned(ck) EXCEPT !.gated = TRUE, !.stage = Adversary], "stage")
    /\ UNCHANGED raises

\* retry_stage_update: the next model, from the candidate that keeps the partial work.
RetryOwner(c) == c.ownerFailures < Models /\ Advance(c, "stage") /\ UNCHANGED raises

OwnerFails ==
    /\ pc = "session" /\ ck.active = Owner /\ ck.stage = Owner
    /\ LET c == [Returned(ck) EXCEPT !.ownerFailures = @ + 1] IN
       \/ RetryOwner(c)
       \/ c.ownerFailures >= Models /\ \E e \in {"product", "infrastructure"} : Fails(c, e)

StageBlocked ==
    /\ pc = "session" /\ InPolicy
    /\ \E e \in {"product", "infrastructure"} : Blocks(Returned(ck), e)

AdversaryPasses ==
    /\ pc = "session" /\ ck.active = Adversary /\ InPolicy
    /\ Advance([Returned(ck) EXCEPT !.reviewed = TRUE, !.stage = Release], "release")
    /\ UNCHANGED raises

\* A truncated review is repeated with more turns, a lost report as it was.
RaiseTurns(c) == raises < MaxTurnRaises /\ raises' = raises + 1 /\ Advance(c, "stage")
RepeatReport(c) == c.reviewFailures <= MaxReportRetries /\ Advance(c, "stage") /\ UNCHANGED raises

ReviewAgain ==
    /\ pc = "session" /\ ck.active = Adversary
    /\ LET c == [Returned(ck) EXCEPT !.reviewFailures = Count(@, MaxReportRetries + 1)] IN
       RaiseTurns(c) \/ RepeatReport(c)

\* The same finding three times against the same candidate.
Stalls(c) == c.repeats >= 3 /\ Fails(c, "factory")

\* The reviewer gave the defect to the factory, or asks for truth only the outside has.
OwnerDeclared(c) == c.repeats < 3 /\ c.cycles < MaxCycles /\ (Fails(c, "factory") \/ Blocks(c, "external"))

\* Protected paths, or paths no stage may write.
ScopeGap(c) == c.repeats < 3 /\ c.cycles < MaxCycles /\ (Fails(c, "factory") \/ Fails(c, "product"))

StartRepair(c) ==
    /\ c.repeats < 3 /\ c.cycles < MaxCycles
    /\ ck' = [Session(c, Owner) EXCEPT !.cycles = @ + 1] /\ wt' = "clean"
    /\ UNCHANGED <<pc, q, err, raises, dirty, budget>>

NoRepairLeft(c) ==
    c.repeats < 3 /\ c.cycles = MaxCycles /\ \E e \in {"product", "infrastructure"} : Fails(c, e)

ReviewRejects ==
    /\ pc = "session" /\ ck.active = Adversary
    /\ \E again \in BOOLEAN :
         LET c == [Returned(ck) EXCEPT !.reviewFailures = Count(@, MaxReportRetries + 1),
                                       !.repeats = IF again THEN @ + 1 ELSE @] IN
         Stalls(c) \/ OwnerDeclared(c) \/ ScopeGap(c) \/ StartRepair(c) \/ NoRepairLeft(c)

RepairPassesUnreviewed ==
    /\ pc = "session" /\ Repairing /\ InPolicy
    /\ Advance([Returned(ck) EXCEPT !.gated = TRUE, !.stage = Release], "release")
    /\ UNCHANGED raises

\* A repair that passes its gates goes back to restart_review_from.
RepairPasses ==
    /\ pc = "session" /\ Repairing /\ InPolicy
    /\ Advance([Returned(ck) EXCEPT !.gated = TRUE, !.stage = Adversary], "stage")
    /\ UNCHANGED raises

RepairFails ==
    /\ pc = "session" /\ Repairing
    /\ LET c == Returned(ck) IN
       IF c.cycles < MaxCycles
       THEN /\ ck' = [Session(c, Owner) EXCEPT !.cycles = @ + 1] /\ wt' = "clean"
            /\ UNCHANGED <<pc, q, err, raises, dirty, budget>>
       ELSE \E e \in {"product", "infrastructure"} : Fails(c, e)

-----------------------------------------------------------------------------
(* The release: the cumulative delta, the value contract, the private gate,  *)
(* and one squashed commit.                                                  *)

ValueModes == {"not_required", "foundational", "measured", "external"}
\* chain: the contract names its whole chain of user value.  bound: the file is there, of
\* this task and of this candidate's clean tree, with its artifacts, runs and
\* falsifications (for an external contract: signed, in the protected root).  met: the
\* conditions, the threshold, or a verified class of external behaviour.
Evidence == [chain : BOOLEAN, bound : BOOLEAN, met : BOOLEAN]
\* An external contract whose evidence does not hold waits; the other modes raise.
EvidenceRaises(mode, ev) ==
    ~ev.bound /\ (mode = "measured" \/ (mode = "foundational" /\ ev.chain))
MeasuredStatus(ev) == IF ev.met THEN "PASS" ELSE "REDESIGN"
ExternalStatus(ev) == IF ev.bound /\ ev.met THEN "PASS" ELSE "EXTERNAL_EVIDENCE_REQUIRED"
ValueStatus(mode, ev) ==
    CASE mode = "not_required" -> "PASS"
      [] mode = "foundational" -> IF ev.chain THEN MeasuredStatus(ev) ELSE "FAIL"
      [] mode = "measured" -> MeasuredStatus(ev)
      [] mode = "external" -> ExternalStatus(ev)

\* validate_release_candidate, and a private gate that fails, moves or edits the candidate or is edited.
DeltaRefused == Fails(ck, "product")
PrivateGateRefused == Fails(ck, "product")

ValueRefused(mode, ev) ==
    \/ /\ EvidenceRaises(mode, ev) \/ ValueStatus(mode, ev) \in {"FAIL", "REDESIGN"}
       /\ Fails(ck, "value")
    \/ ValueStatus(mode, ev) = "EXTERNAL_EVIDENCE_REQUIRED" /\ Blocks(ck, "external")

ReleaseRefused ==
    /\ pc = "release"
    /\ \/ DeltaRefused \/ PrivateGateRefused
       \/ \E mode \in ValueModes, ev \in Evidence : ValueRefused(mode, ev)

\* One squashed commit; nothing is merged.
ReleasePasses ==
    /\ pc = "release"
    /\ \E mode \in ValueModes, ev \in Evidence :
         ~EvidenceRaises(mode, ev) /\ ValueStatus(mode, ev) = "PASS"
    /\ Settle([ck EXCEPT !.state = "PASSED", !.err = "none"], "done", "none")

\* The process is killed.
Dies ==
    /\ pc # "down" /\ Interrupt
    /\ pc' = "down"
    /\ UNCHANGED <<q, err, ck, wt, raises, dirty>>

Load == \/ RefuseDirtyMain \/ RefuseMovedMain \/ StartRun \/ StillBlocked \/ StillPaused
        \/ ResumeRun \/ RecoverOutside
OwnerEnds == OwnerPasses \/ OwnerFails \/ RepairPasses \/ RepairFails
AdversaryEnds == AdversaryPasses \/ ReviewAgain \/ ReviewRejects
SessionStops == \/ SessionPauses \/ SessionRaises \/ StageBlocked
                \/ DiesBeforeCaller
PipelineNext == \/ Load \/ BeginStage \/ RefuseBudget \/ AgentEdits \/ SessionStops
                \/ OwnerEnds \/ AdversaryEnds \/ ReleaseRefused \/ ReleasePasses

PipelineTypeOK ==
    /\ pc \in {"down", "sync", "decide", "load", "stage", "session", "release", "complete"}
    /\ q \in QueueStates /\ err \in Errors /\ wt \in Worktrees
    /\ raises \in 0..MaxTurnRaises /\ dirty \in BOOLEAN /\ budget \in 0..MaxInterruptions
    /\ ck.state \in {"none", "NEW", "RUNNING", "PAUSED", "BLOCKED", "FAILED", "PASSED"}
    /\ ck.stage \in {Owner, Adversary, Release} /\ ck.active \in {0, Owner, Adversary}
    /\ ck.cycles \in 0..MaxCycles /\ ck.ownerFailures \in 0..Models

=============================================================================
