------------------------------ MODULE V2Autopilot ------------------------------
(*****************************************************************************)
(* The V2 autopilot around one task: the loop of _run_autopilot_inner keeps  *)
(* the committed feature ledger in step with the queue directories, plans,   *)
(* enqueues, runs and re-specifies the task, and stops at a hard stuck       *)
(* record.  Every commit of the ledger moves main.  The process may die      *)
(* between any two of its writes; the scheduled task starts it again.        *)
(*                                                                           *)
(* The self-repair pipeline reports merged = False like every other, so no   *)
(* repair is ever applied: _repair_or_hard_stuck ends in a pause or a hard   *)
(* stuck record.  A VERIFIED_REPAIR_RETRY marker can only be one an earlier  *)
(* release left, which is an initial state here.                             *)
(*****************************************************************************)
EXTENDS V2Pipeline

CONSTANTS MaxRespecs,       \* max_respecifications_per_task
          MaxRedesigns,     \* value_redesign_limit
          MaxRecoveries     \* max_consecutive_infrastructure_recoveries

ASSUME AutopilotAssumption ==
    MaxRespecs \in Nat \ {0} /\ MaxRedesigns \in Nat \ {0} /\ MaxRecoveries \in Nat

VARIABLES
    item,    \* the task's entry of the feature ledger on disk
    retry,   \* VERIFIED_REPAIR_RETRY.json
    stuck    \* HARD_STUCK.json

vars == <<pipeVars, item, retry, stuck>>

Statuses == {"ready", "packet_approved", "queued", "running", "paused", "respec_required",
             "external_wait", "blocked", "passed"}

FreshItem == [status |-> "ready", packet |-> FALSE, terminal |-> FALSE, revisions |-> 0,
              redesigns |-> 0, recoveries |-> 0]
\* What an exhausted task and its failed run left behind.
TerminalItem == [FreshItem EXCEPT !.status = "blocked", !.packet = TRUE, !.terminal = TRUE]
FailedRuns == {[NewCheckpoint("FAILED") EXCEPT !.onMain = FALSE, !.work = TRUE, !.gated = (s # Owner),
                                              !.reviewed = (s = Release), !.stage = s, !.results = TRUE] :
                s \in {Owner, Adversary, Release}}

AutopilotInit ==
    /\ pc = "down" /\ wt = "none" /\ raises = 0 /\ dirty = FALSE /\ budget = MaxInterruptions
    /\ stuck = FALSE
    /\ \/ q = "absent" /\ err = "none" /\ ck = NoCheckpoint /\ item = FreshItem /\ retry = FALSE
       \/ /\ q = "failed" /\ ck \in FailedRuns /\ err = IF ck.stage = Release THEN "value" ELSE "factory"
          /\ item = TerminalItem /\ retry = TRUE

\* commit_all after save_feature_ledger: main moves, and its worktree is clean.
OffMain(c) == [c EXCEPT !.onMain = FALSE]
CommitLedger(i, c, next) ==
    /\ item' = i /\ ck' = OffMain(c) /\ dirty' = FALSE /\ pc' = next
\* The process dies between the two.
SaveLedgerOnly(i, c) ==
    /\ Interrupt /\ item' = i /\ ck' = c /\ dirty' = TRUE /\ pc' = "down"

-----------------------------------------------------------------------------
(* The start of the process and the head of the loop.                        *)

\* reconcile_running: a packet left running follows its checkpoint; a hard stuck record
\* is waited out and cleared.
Reconciled == IF q # "running" THEN q ELSE IF ck.state = "BLOCKED" THEN "blocked" ELSE "paused"

Start ==
    /\ pc = "down"
    /\ q' = Reconciled /\ err' = IF q = "running" /\ ck.state = "BLOCKED" THEN ck.err ELSE err
    /\ stuck' = FALSE /\ pc' = "sync"
    /\ UNCHANGED <<ck, wt, raises, dirty, budget, item, retry>>

\* sync_ledger_from_queue, then refresh_readiness (the task's dependencies have passed).
SyncStatus(i, queue, e) ==
    IF i.terminal THEN i.status ELSE
    CASE queue = "done"      -> "passed"
      [] queue = "running"   -> "running"
      [] queue = "paused"    -> "paused"
      [] queue = "failed"    -> "respec_required"
      [] queue = "blocked"   -> IF e = "external" THEN "external_wait" ELSE "respec_required"
      [] queue = "pending"   -> "queued"
      [] queue = "absent"    -> IF i.packet /\ i.status \notin {"passed", "external_wait"}
                                THEN "packet_approved"
                                ELSE IF i.status = "blocked" THEN "ready" ELSE i.status

\* promote_due_paused comes first; the ledger is committed only when it changed.
Sync ==
    /\ pc = "sync"
    /\ \E due \in BOOLEAN :
         LET now == IF due /\ q = "paused" THEN "pending" ELSE q
             new == [item EXCEPT !.status = SyncStatus(item, now, err)] IN
         /\ due => q = "paused"
         /\ q' = now
         /\ \/ new = item /\ pc' = "decide" /\ UNCHANGED <<item, ck, dirty, budget>>
            \/ new # item /\ CommitLedger(new, ck, "decide") /\ UNCHANGED budget
            \/ new # item /\ SaveLedgerOnly(new, ck)
    /\ UNCHANGED <<err, wt, raises, retry, stuck>>

\* _repair_or_hard_stuck: the attempts are used up or wait for an allowance; either way the process returns.
RepairOrHardStuck ==
    /\ pc' = "down"
    /\ \/ stuck' = TRUE /\ UNCHANGED budget
       \/ stuck' = stuck /\ Interrupt

-----------------------------------------------------------------------------
(* The branches of the loop, in their order.                                 *)

\* The old candidate is replayed onto the repaired main and the task queued again.
\* stop says after which write the process dies (5: it does not).
Transplanted == [NewCheckpoint("RUNNING") EXCEPT !.work = ck.work, !.gated = ck.gated,
                                                !.reviewed = ck.reviewed, !.stage = ck.stage]
Recover ==
    /\ pc = "decide" /\ retry /\ item.status # "passed"
    /\ \E stop \in 1..5 :
         /\ stop < 5 => Interrupt
         /\ stop = 5 => UNCHANGED budget
         /\ item' = [item EXCEPT !.terminal = FALSE, !.recoveries = 0,
                                 !.status = IF item.packet THEN "queued" ELSE "ready"]
         /\ dirty' = (stop = 1)
         /\ ck' = CASE stop = 1 -> ck [] stop = 2 -> OffMain(ck) [] stop = 3 -> NoCheckpoint
                    [] stop >= 4 -> IF ck.state = "none" THEN NewCheckpoint("RUNNING") ELSE Transplanted
         /\ q' = IF stop < 4 THEN q ELSE IF item.packet /\ stop = 5 THEN "pending" ELSE "absent"
         /\ retry' = (stop < 5)
         /\ pc' = IF stop = 5 THEN "sync" ELSE "down"
    /\ err' = IF retry' THEN err ELSE "none"
    /\ wt' = IF ck'.active = 0 THEN "none" ELSE wt
    /\ UNCHANGED <<raises, stuck>>

\* The replay conflicts: the marker stays for the next start.
RecoverConflicts ==
    /\ pc = "decide" /\ retry /\ item.status # "passed" /\ ck.work
    /\ item' = [item EXCEPT !.terminal = FALSE, !.recoveries = 0, !.status = "queued"]
    /\ ck' = OffMain(ck) /\ dirty' = FALSE
    /\ Interrupt /\ pc' = "down" /\ stuck' = TRUE
    /\ UNCHANGED <<q, err, wt, raises, retry>>

\* No recovery is due.
Deciding == pc = "decide" /\ ~(retry /\ item.status # "passed")

\* Two blind reports; they disagree, or agree on INCOMPLETE with different items: an
\* adjudicator's verdict decides.  checks: no deterministic failure, the private suite included.
Verdicts == {"COMPLETE", "INCOMPLETE", "BLOCKED"}
NeedsAdjudicator(reports) == reports[1] # reports[2]
Decision(reports, last) == IF NeedsAdjudicator(reports) THEN last ELSE reports[2]
AgreeComplete(reports) == reports[1] = "COMPLETE" /\ reports[2] = "COMPLETE"
\* Missing work (generated from the failures when the verdict is COMPLETE) is proposed, never added.
AuditOutcome(reports, last, checks, missing) ==
    CASE AgreeComplete(reports) /\ checks -> "complete"
      [] Decision(reports, last) = "BLOCKED" -> "blocked"
      [] Decision(reports, last) = "COMPLETE" /\ ~checks -> "proposed"
      [] OTHER -> IF missing THEN "proposed" ELSE "blocked"

\* _write_completion: main and what GitHub was last seen to hold are the audited commit, or it raises.
WriteAuditedMain == pc' \in {"complete", "down"}

\* The audit pauses for an allowance, is refused, proposes work, or completes exactly this main.
Complete ==
    /\ Deciding /\ item.status = "passed"
    /\ \/ pc' = "sync" /\ Interrupt
       \/ /\ \E reports \in Verdicts \X Verdicts, last \in Verdicts, checks, missing \in BOOLEAN :
               \/ AuditOutcome(reports, last, checks, missing) = "complete" /\ WriteAuditedMain
               \/ AuditOutcome(reports, last, checks, missing) # "complete" /\ pc' = "down"
          /\ UNCHANGED budget
    /\ UNCHANGED <<q, err, ck, wt, raises, dirty, item, retry, stuck>>

ValueFailure == err = "value"
Ceiling == IF ValueFailure THEN item.redesigns >= MaxRedesigns ELSE item.revisions >= MaxRespecs
Recoverable == err = "infrastructure" /\ item.packet /\ item.recoveries < MaxRecoveries

RecoveredForFree == [item EXCEPT !.status = "queued"]

Recovered == [item EXCEPT !.status = "queued", !.recoveries = @ + 1]

\* An infrastructure failure under its budget: the run is archived, the packet queued again.
RespecRecovers ==
    /\ Deciding /\ item.status = "respec_required" /\ Recoverable
    /\ \/ CommitLedger(Recovered, NoCheckpoint, "sync") /\ q' = "pending" /\ UNCHANGED budget
       \/ SaveLedgerOnly(Recovered, NoCheckpoint) /\ q' = "pending"
       \/ /\ Interrupt /\ q' \in {q, "absent", "pending"} /\ ck' = NoCheckpoint /\ pc' = "down"
          /\ UNCHANGED <<item, dirty>>
    /\ err' = IF q' = q THEN err ELSE "none"
    /\ wt' = "none" /\ UNCHANGED <<raises, retry, stuck>>

\* A protected finding, or a ceiling: terminal, and the process returns from the repair.
RespecEnds ==
    /\ Deciding /\ item.status = "respec_required"
    /\ err = "factory" \/ (~Recoverable /\ Ceiling)
    /\ LET i == [item EXCEPT !.status = "blocked", !.terminal = TRUE,
                             !.recoveries = IF err = "factory" THEN 0 ELSE @] IN
       item' = i /\ ck' = OffMain(ck) /\ dirty' = FALSE /\ RepairOrHardStuck
    /\ UNCHANGED <<q, err, wt, raises, retry>>

\* Another revision: the packet is given up and planned again.
Respecify ==
    /\ Deciding /\ item.status = "respec_required"
    /\ err # "factory" /\ ~Recoverable /\ ~Ceiling
    /\ LET i == [item EXCEPT !.status = "ready", !.packet = FALSE, !.recoveries = 0,
                             !.revisions = @ + 1, !.redesigns = IF ValueFailure THEN @ + 1 ELSE @] IN
       \/ CommitLedger(i, ck, "decide") /\ UNCHANGED budget
       \/ SaveLedgerOnly(i, ck)
    /\ q' = "absent" /\ err' = "none"
    /\ UNCHANGED <<wt, raises, retry, stuck>>

\* process_one claims the packet and enters run_pipeline.
Claim ==
    /\ Deciding /\ item.status # "respec_required" /\ item.status # "passed"
    /\ q = "pending"
    /\ q' = "running" /\ pc' = "load"
    /\ UNCHANGED <<err, ck, wt, raises, dirty, budget, item, retry, stuck>>

Idle == Deciding /\ item.status \notin {"respec_required", "passed"} /\ q \notin {"pending", "running"}

\* What Claude proposed, with the controller's minimums, contracts and protected paths put
\* back (minimums), against the policy of packets; owned: identity, risk and dependencies are
\* the ledger's; bounded: sizes, one owner, writable outputs, one side; gated: distinct safe gates.
Proposals == [owned : BOOLEAN, minimums : BOOLEAN, bounded : BOOLEAN, gated : BOOLEAN]
CatalogMinimums(p) == [p EXCEPT !.minimums = TRUE]
PacketErrors(p) == {f \in DOMAIN p : ~p[f]}
PacketApproved(p) == PacketErrors(CatalogMinimums(p)) = {}

\* create_and_promote_task_packet needs a clean main and runs its own pipeline.  The
\* proposal is read from main, where no pipeline merges one any more: the task is one
\* whose proposal is there.
Plan ==
    /\ Idle /\ item.status \in {"ready", "packet_approved"} /\ ~item.packet /\ ~dirty
    /\ \E p \in Proposals : PacketApproved(p)
    /\ CommitLedger([item EXCEPT !.packet = TRUE, !.status = "packet_approved"], ck, "decide")
    /\ UNCHANGED <<q, err, wt, raises, budget, retry, stuck>>

PlanFails ==
    /\ Idle /\ item.status \in {"ready", "packet_approved"} /\ ~item.packet /\ Interrupt
    /\ \/ pc' = "sync" /\ UNCHANGED stuck
       \/ pc' = "down" /\ stuck' = TRUE
    /\ UNCHANGED <<q, err, ck, wt, raises, dirty, item, retry>>

\* A dirty main is refused until some commit includes what was left.
PlanRefused ==
    /\ Idle /\ item.status \in {"ready", "packet_approved"} /\ ~item.packet /\ dirty
    /\ pc' = "sync" /\ UNCHANGED <<q, err, ck, wt, raises, dirty, budget, item, retry, stuck>>

\* enqueue_task, then the ledger.
Enqueue ==
    /\ Idle /\ item.status \in {"ready", "packet_approved"} /\ item.packet /\ q = "absent"
    /\ q' = "pending"
    /\ LET i == [item EXCEPT !.status = "queued"] IN
       \/ CommitLedger(i, ck, "sync") /\ UNCHANGED budget
       \/ SaveLedgerOnly(i, ck)
       \/ Interrupt /\ pc' = "down" /\ UNCHANGED <<item, ck, dirty>>
    /\ UNCHANGED <<err, wt, raises, retry, stuck>>

\* Nothing to do before the pause is over or the evidence arrives.
Wait ==
    /\ Idle /\ (q = "paused" \/ item.status = "external_wait")
    /\ pc' = "sync"
    /\ UNCHANGED <<q, err, ck, wt, raises, dirty, budget, item, retry, stuck>>

\* terminal_root_blocker: nothing else is left, so the repair is tried again.
TerminalBlocker ==
    /\ Idle /\ item.terminal /\ q # "paused"
    /\ RepairOrHardStuck
    /\ UNCHANGED <<q, err, ck, wt, raises, dirty, item, retry>>

Branch == \/ Recover \/ RecoverConflicts \/ Complete \/ RespecRecovers \/ RespecEnds \/ Respecify
          \/ Claim \/ Plan \/ PlanRefused \/ Enqueue \/ Wait \/ TerminalBlocker
AutopilotNext ==
    \/ Start \/ Sync \/ Branch \/ PlanFails
    \/ (PipelineNext \/ Dies) /\ UNCHANGED <<item, retry, stuck>>

\* The process is restarted and goes on; sessions end; a pause ends.
Fairness ==
    /\ WF_vars(Start) /\ WF_vars(Branch) /\ WF_vars(Sync)
    /\ SF_vars(Sync /\ q = "paused" /\ q' = "pending")
    /\ WF_vars(PipelineNext /\ UNCHANGED <<item, retry, stuck>>)

AutopilotSpec == AutopilotInit /\ [][AutopilotNext]_vars /\ Fairness

-----------------------------------------------------------------------------
TypeOK ==
    /\ PipelineTypeOK /\ retry \in BOOLEAN /\ stuck \in BOOLEAN
    /\ item.status \in Statuses
    /\ item.revisions \in 0..(MaxRespecs + MaxRedesigns) /\ item.redesigns \in 0..MaxRedesigns
    /\ item.recoveries \in 0..MaxRecoveries

\* run_pipeline passes only a candidate that the adversary passed as it is: nothing that a
\* repair, an interrupted repair or a recovery added after the review is released.  Its
\* machine gates have run on it too, unless a pause fell into a repair: the partial work
\* then enters the candidate, and the run resumes at the adversary, whose stage selects no
\* gate of the owner.
ReviewedIsReleased ==
    /\ TypeOK
    /\ ck.state = "PASSED" => ck.reviewed /\ (ck.gated \/ budget < MaxInterruptions)

\* Every task passes, ends terminal or waits for external evidence, and stays so: the
\* budgets of retries, cycles, recoveries and revisions are spent and never refilled.
\* The one exception is a task to be planned over a ledger that a dead process saved and
\* did not commit: planning refuses it, and _begin_ready_task resets the count of
\* failures that would have stopped the retries.
Settled == item.status \in {"passed", "external_wait"} \/ item.terminal
RefusedForever == dirty /\ item.status = "ready" /\ ~item.packet
Settles == <>[](Settled \/ RefusedForever)
=============================================================================
