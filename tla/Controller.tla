----------------------------- MODULE Controller -----------------------------
(***************************************************************************)
(* V3Controller (tcfactory/v3/controller.py): the passage of one work item *)
(* through the cycles of the controller, from its promotion out of the     *)
(* roadmap to its publication.  The queue's files and locks are the        *)
(* subject of V3Queue and the publisher's of Publication; here the queue   *)
(* is the item's status, a publication transaction is its phase, and the   *)
(* subject is the durable checkpoint: what is saved before which status    *)
(* change, and what the next process makes of it.                          *)
(*                                                                         *)
(* Every checkpoint save and every status change is a step of its own; the *)
(* process may fail between any two.                                       *)
(***************************************************************************)
EXTENDS Integers, Sequences, WorkItems

CONSTANTS
  Kinds,         \* the kinds of work item considered, of AllKinds
  Roles,         \* the number of roles the item's risk tier asks for
  MaxPlan,       \* retry_policy.max_plan_attempts
  MaxRepair,     \* retry_policy.max_candidate_repair_cycles
  MaxSame,       \* retry_policy.max_same_finding_repeats
  MaxRestarts,   \* retry_policy.max_candidate_restarts
  MaxRechecks,   \* the backend rechecks of a new checkpoint
  MaxRedesigns,  \* autonomy.value.max_value_redesigns
  MaxCrashes,    \* bound: failures of the process considered
  MaxLeaseLosses, \* bound: losses of the lease considered
  MaxMoves,      \* bound: changes of main by others considered
  MaxSnapshots   \* bound: installed snapshots of the repository considered

(* Kinds of work, as far as the controller treats them differently:        *)
(* mutating work of an ordinary lane, read-only work, a controlled         *)
(* experiment, market research, a machine-policy review, work that only an *)
(* external receipt completes, and work that is not automatable.           *)
AllKinds == {"code", "readonly", "experiment", "market", "policy",
             "external", "manual"}

ASSUME KindsAssumption == Kinds \subseteq AllKinds

ASSUME BudgetAssumption ==
  /\ {Roles, MaxSnapshots} \subseteq Nat \ {0}
  /\ MaxSame \in Nat \ {0}
  /\ MaxRedesigns \in Nat \ {0}
  /\ {MaxPlan, MaxRepair, MaxRestarts, MaxRechecks} \subseteq Nat
  /\ {MaxCrashes, MaxLeaseLosses, MaxMoves} \subseteq Nat

VARIABLES
  kind,      \* the item's kind
  status,    \* its status in the queue
  ck,        \* its durable checkpoint
  evidence,  \* its completion evidence: 0, or 1 + the candidate recorded
  tx,        \* the publication transactions of its candidates, by phase
  fresh,     \* is main an ancestor of the last candidate (or equal to it)?
  landed,    \* history: the candidates that were pushed to main
  objected,  \* history: the last candidate was refused for its value
  pc,        \* the controller's next step
  goal,      \* the pending status change and the step that follows it
  resumed,   \* is this publication one resumed from a checkpoint?
  prepared,  \* has this execution prepared the candidate (publisher._prepared)?
  named,     \* is the worktree's branch one that git can resolve?
  crashes,   \* failures so far
  losses,    \* leases lost so far
  moves,     \* changes of main so far
  journal,   \* how far the recovery of the installed snapshot has come
  snapshots, \* snapshots installed so far
  refills    \* history: checkpoints that a recovery removed

item    == <<kind, status, evidence>>
remote  == <<tx, fresh, landed, moves>>
process == <<goal, resumed, prepared, named, crashes, losses>>
recovery == <<journal, snapshots, refills>>
vars    == <<item, ck, remote, objected, pc, process, recovery>>

-----------------------------------------------------------------------------
(* V3Checkpoint, as far as control depends on it.  "pub" is the candidate  *)
(* whose publication is prepared (0: none); "ready" stands for the         *)
(* approval state BACKEND_RECHECK_READY.  A checkpoint that is "tripped" is  *)
(* inactive, and what closed it last is a repeated finding.                *)
Checkpoint ==
  [state    : {"none", "active", "inactive", "tripped"},
   plan     : 0..MaxPlan,
   repair   : 0..MaxRepair,
   restarts : 0..MaxRestarts,
   rechecks : 0..MaxRechecks,
   failures : Nat,
   roles    : 0..Roles,
   wait     : {"none", "backend", "publication"},
   ready    : BOOLEAN,
   pub      : Nat]

NoCheckpoint ==
  [state |-> "none", plan |-> MaxPlan, repair |-> MaxRepair,
   restarts |-> MaxRestarts, rechecks |-> MaxRechecks, failures |-> 0,
   roles |-> 0, wait |-> "none", ready |-> FALSE, pub |-> 0]

(* A checkpoint that is closed: recovery does not resume it. *)
Closed(c) == [c EXCEPT !.state = IF @ = "none" THEN "none" ELSE "inactive"]

(* The phases of a publication transaction, see Publication. *)
TxPhases == {"none", "prepared", "merged", "anchored", "verified",
             "rejected", "reverted", "stuck"}

Pending == {"prepared", "merged", "anchored"}

(* What one step of the publisher makes of a transaction, by whether main  *)
(* still is what it expects.                                               *)
Reconciled(p, expected) ==
  {q \in TxPhases :
     \/ p = "prepared" /\ q = "rejected"
     \/ p = "prepared" /\ expected /\ q \in {"merged", "stuck"}
     \/ p = "merged" /\ q = IF expected THEN "anchored" ELSE "stuck"
     \/ p = "anchored" /\ q = "verified"
     \/ p = "anchored" /\ expected /\ q = "reverted"}

(* The last candidate; the earlier ones are no longer on the tip of main. *)
Candidate == Len(tx)

PublisherStep(i, p) ==
  /\ p \in Reconciled(tx[i], fresh /\ i = Candidate)
  /\ tx' = [tx EXCEPT ![i] = p]
  /\ landed' = IF p = "merged" THEN landed \cup {i} ELSE landed
  /\ \/ p = "reverted" /\ moves < MaxMoves /\ fresh' = FALSE /\ moves' = moves + 1
     \/ p # "reverted" /\ UNCHANGED <<fresh, moves>>

-----------------------------------------------------------------------------
(* Control. *)
Steps ==
  {"down", "recover", "rebind", "repair", "archive", "reopen", "repaired", "pauses", "promote", "schedule", "claim",
   "enter", "load", "renewed", "republish", "plan", "salvaged", "context",
   "stage", "trip", "value", "freeze", "gates", "manifest", "release",
   "publish", "move", "record", "quarantine"}

Goto(step) == pc' = step /\ UNCHANGED process

NoGoal == [to |-> "PROPOSED", then |-> "down"]

(* The next step changes the status to s, then control goes to step.  In   *)
(* _execute this ends the execution and what it knew of its candidate.     *)
MoveTo(s, step) ==
  /\ pc' = "move"
  /\ goal' = [to |-> s, then |-> step]
  /\ resumed' = FALSE /\ prepared' = FALSE /\ named' = FALSE
  /\ UNCHANGED <<crashes, losses>>

(* What the process had in memory is gone. *)
Lost == /\ pc' = "down" /\ goal' = NoGoal
        /\ prepared' = FALSE /\ resumed' = FALSE /\ named' = FALSE

(* A failure, as far as they are counted. *)
Fails == /\ crashes < MaxCrashes /\ crashes' = crashes + 1
         /\ Lost /\ UNCHANGED losses

(* An exception leaves run_cycle, and with it the process. *)
Raise == Lost /\ UNCHANGED <<crashes, losses>>

Save(c) == ck' = c

(* Close the checkpoint, then block the item.  The cycle ends there. *)
CloseAnd(s) == Save(Closed(ck)) /\ MoveTo(s, "recover")

Same == UNCHANGED <<item, remote, objected>>

Init ==
  /\ kind \in Kinds
  /\ status \in {"PROPOSED"} \cup (IF kind = "external" THEN {"WAITING_EXTERNAL"} ELSE {})
  /\ ck = NoCheckpoint
  /\ evidence = 0
  /\ tx = <<>> /\ fresh = TRUE /\ landed = {} /\ moves = 0
  /\ objected = FALSE
  /\ pc = "down"
  /\ goal = NoGoal
  /\ resumed = FALSE /\ prepared = FALSE /\ named = FALSE
  /\ crashes = 0 /\ losses = 0
  /\ journal = "none" /\ snapshots = 1 /\ refills = 0

-----------------------------------------------------------------------------
(* The environment. *)

(* The process fails, or an exception ends it, at any step: a report that  *)
(* is not valid, a candidate that changed, a service that does not answer. *)
Crash ==
  /\ pc # "down"
  /\ Fails
  /\ UNCHANGED <<item, ck, remote, objected>>

(* Another item's publication becomes the tip of main. *)
MainMoves ==
  /\ moves < MaxMoves /\ fresh /\ Candidate > 0
  /\ moves' = moves + 1
  /\ fresh' = FALSE
  /\ UNCHANGED <<item, ck, tx, landed, objected, pc, process>>

(* run_startup_preflight reconciles the pending transactions. *)
Preflight ==
  /\ pc = "down"
  /\ \E i \in DOMAIN tx, p \in TxPhases : PublisherStep(i, p)
  /\ UNCHANGED <<item, ck, objected, pc, process>>

Restart ==
  /\ pc = "down"
  /\ Goto("recover")
  /\ UNCHANGED ck /\ Same

-----------------------------------------------------------------------------
(* initialize. *)

(* queue.recover_interrupted. *)
RecoverInterrupted ==
  /\ pc = "recover"
  /\ \/ status = "RUNNING" /\ status' = "BLOCKED_TECHNICAL" /\ Goto("rebind")
     \/ status # "RUNNING" /\ Goto("repair") /\ UNCHANGED status
  /\ UNCHANGED <<kind, evidence, ck, remote, objected>>

(* Fault variant of Rebind: nothing is requeued. *)
RebindForgets ==
  /\ pc = "rebind"
  /\ Goto("repair")
  /\ Save(IF ck.state # "active" THEN ck
          ELSE IF ck.restarts = 0 THEN Closed(ck)
          ELSE [ck EXCEPT !.restarts = @ - 1])
  /\ Same

(* An interrupted item is requeued if it has an active checkpoint with a   *)
(* restart left; otherwise it stays blocked.                               *)
Rebind ==
  /\ pc = "rebind"
  /\ \/ /\ ck.state # "active"
        /\ Goto("repair") /\ UNCHANGED ck
     \/ /\ ck.state = "active" /\ ck.restarts = 0
        /\ Save(Closed(ck)) /\ Goto("repair")
     \/ /\ ck.state = "active" /\ ck.restarts > 0
        /\ Save([ck EXCEPT !.restarts = @ - 1])
        /\ MoveTo("READY", "repair")
  /\ Same

-----------------------------------------------------------------------------
(* recover_repaired_claude_sandbox_blocks, at the start of every cycle.    *)
(* The files it archives and removes are the subject of BackendRecovery;   *)
(* here they are the item's checkpoint.  The journal is that of the        *)
(* installed snapshot: "prepared" until every archive is written, then     *)
(* "archived", and "touched" from the moment the item's record is no       *)
(* longer the one it binds, until it is committed.                         *)
Recovering(step) == pc = step /\ Same /\ UNCHANGED snapshots

(* The item is blocked by a failure that may be one the installed snapshot *)
(* has repaired: _eligible and _bound_backend_result read the checkpoint's *)
(* session and the session's files.                                        *)
Repairable == status = "BLOCKED_TECHNICAL" /\ ck.state = "tripped"

NothingToRepair ==
  /\ Recovering("repair") /\ journal \in {"none", "committed"}
  /\ Goto("pauses")
  /\ UNCHANGED <<ck, journal, refills>>

PrepareRepair ==
  /\ Recovering("repair") /\ journal = "none" /\ Repairable
  /\ journal' = "prepared" /\ Goto("archive")
  /\ UNCHANGED <<ck, refills>>

ArchiveCheckpoint ==
  /\ Recovering("archive")
  /\ journal' = "archived" /\ Goto("repair")
  /\ UNCHANGED <<ck, refills>>

(* _finish_recovery, of this cycle or of one that was interrupted.  The    *)
(* budgets go with the checkpoint.                                         *)
RemoveCheckpoint ==
  /\ Recovering("repair") /\ journal = "archived"
  /\ \/ ck.state = "tripped" /\ Save(NoCheckpoint) /\ refills' = refills + 1
     \/ ck.state = "none" /\ UNCHANGED <<ck, refills>>
  /\ Goto("reopen")
  /\ UNCHANGED journal

(* refresh_blocked_from_authority rewrites the record; then the item moves. *)
Reopen ==
  /\ Recovering("reopen") /\ status = "BLOCKED_TECHNICAL"
  /\ journal' = "touched" /\ MoveTo("READY", "repaired")
  /\ UNCHANGED <<ck, refills>>

(* Fault variant of CommitRepair: the finished journal is removed. *)
CommitRepairForgets ==
  /\ Recovering("repaired")
  /\ journal' = "none" /\ Goto("pauses")
  /\ UNCHANGED <<ck, refills>>

(* The committed journal stays: nothing else is recovered under it. *)
CommitRepair ==
  /\ Recovering("repaired")
  /\ journal' = "committed" /\ Goto("pauses")
  /\ UNCHANGED <<ck, refills>>

(* An archive is missing, or the record is not the one the journal binds:  *)
(* every cycle under this snapshot ends here.  If only the previous        *)
(* generation is not archived, the checkpoint itself is removed first.     *)
RepairRaises ==
  /\ Recovering("repair") /\ journal \in {"prepared", "touched"}
  /\ \/ UNCHANGED <<ck, refills>>
     \/ /\ journal = "prepared" /\ ck.state = "tripped"
        /\ Save(NoCheckpoint) /\ refills' = refills + 1
  /\ Raise
  /\ UNCHANGED journal

(* A new snapshot is installed between two processes; its recovery has no  *)
(* journal yet.                                                            *)
InstallSnapshot ==
  /\ pc = "down" /\ snapshots < MaxSnapshots
  /\ snapshots' = snapshots + 1
  /\ journal' = "none"
  /\ UNCHANGED <<item, ck, remote, objected, pc, process, refills>>

-----------------------------------------------------------------------------
(* _promote_backend_pauses: a pause that cannot be resumed is blocked. *)
ResumeContract == ck.state = "active" /\ ck.wait # "none"

PromotePauses ==
  /\ pc = "pauses"
  /\ \/ /\ status # "PAUSED_BACKEND"
        /\ Goto("promote") /\ UNCHANGED ck
     \/ /\ status = "PAUSED_BACKEND" /\ ~ResumeContract
        /\ Save(Closed(ck))
        /\ MoveTo("BLOCKED_TECHNICAL", "promote")
     \/ /\ status = "PAUSED_BACKEND" /\ ResumeContract
        /\ Goto("promote") /\ UNCHANGED ck      \* not due yet
  /\ Same

(* _promote_backend_pauses: the time to resume has come. *)
ResumePause ==
  /\ pc = "pauses"
  /\ status = "PAUSED_BACKEND" /\ ResumeContract
  /\ Save([ck EXCEPT !.wait = "none", !.ready = TRUE])
  /\ MoveTo("READY", "promote")
  /\ Same

(* _promote_ready: machine-policy reviews and what the signed decision     *)
(* makes of them; a review that is not available is blocked.               *)
PromoteReview ==
  /\ kind = "policy"
  /\ \/ MoveTo("BLOCKED_POLICY", "schedule")
     \/ \E s \in {"PASSED_ENGINEERING", "NATIVE_SUFFICIENT", "REJECTED_VALUE"} :
          MoveTo(s, "record")
     \/ MoveTo("WAITING_EXTERNAL", "schedule")

(* _promote_ready: work completed by an external receipt only. *)
PromoteExternal ==
  /\ kind = "external"
  /\ \/ status = "PROPOSED" /\ MoveTo("WAITING_EXTERNAL", "promote")
     \/ status = "WAITING_EXTERNAL" /\ Goto("schedule")
     \/ status = "WAITING_EXTERNAL" /\ MoveTo("PASSED_ENGINEERING", "record")

(* _promote_ready: the rest.  Market research that waits stays waiting. *)
PromoteWork ==
  /\ kind \notin {"policy", "external"}
  /\ \/ kind = "market" /\ status = "WAITING_EXTERNAL" /\ Goto("schedule")
     \/ /\ kind # "manual" /\ ~(kind = "market" /\ status = "WAITING_EXTERNAL")
        /\ MoveTo("READY", "schedule")
     \/ kind = "manual" /\ MoveTo("BLOCKED_POLICY", "schedule")

(* Unsatisfied dependencies leave the item where it is. *)
Promote ==
  /\ pc = "promote"
  /\ \/ Goto("schedule")
     \/ /\ status \in {"PROPOSED", "WAITING_EXTERNAL"}
        /\ PromoteReview \/ PromoteExternal \/ PromoteWork
  /\ UNCHANGED ck /\ Same

(* schedule_cycle and execute_selected: READY work only; receipts and      *)
(* reviews are never selected.  A cycle that selects nothing is over.      *)
Select ==
  /\ pc = "schedule"
  /\ status = "READY" /\ kind \notin {"policy", "external"}
  /\ MoveTo("QUEUED", "claim")
  /\ UNCHANGED ck /\ Same

Idle ==
  /\ pc = "schedule"
  /\ Goto("recover")
  /\ UNCHANGED ck /\ Same

(* queue.claim. *)
Claim ==
  /\ pc = "claim"
  /\ status' = "RUNNING"
  /\ Goto("enter")
  /\ UNCHANGED <<kind, evidence, ck, remote, objected>>

(* Every status change goes through the queue, which rejects the ones the  *)
(* lifecycle does not list.                                                *)
Transition ==
  /\ pc = "move"
  /\ \/ /\ LegalTransition(status, goal.to)
        /\ status' = goal.to /\ pc' = goal.then /\ goal' = NoGoal
        /\ UNCHANGED <<resumed, prepared, named, crashes, losses>>
     \/ /\ ~LegalTransition(status, goal.to)
        /\ Raise /\ UNCHANGED status
  /\ UNCHANGED <<kind, evidence, ck, remote, objected>>

-----------------------------------------------------------------------------
(* _execute, in its order. *)

(* _freshness_receipts: what the lanes MARKET and COMPETITOR rest on. *)
NeedsFacts == kind = "market"

(* Market work needs signed freshness receipts and an acquired advisory.   *)
Enter ==
  /\ pc = "enter"
  /\ \/ Goto("load")
     \/ NeedsFacts /\ MoveTo("WAITING_EXTERNAL", "recover")
  /\ UNCHANGED ck /\ Same

(* The recovered checkpoint: one whose candidate main has left behind is   *)
(* closed and dropped, with its budgets; a prepared publication is resumed *)
(* before anything else.                                                   *)
Load ==
  /\ pc = "load"
  /\ \/ /\ ck.state = "active" /\ ~fresh
        /\ Save([Closed(ck) EXCEPT !.roles = 0, !.ready = FALSE])
        /\ Goto("renewed")
     \/ /\ ~(ck.state = "active" /\ ~fresh) /\ ck.pub # 0
        /\ IF ck.state = "active" THEN Goto("republish") ELSE Raise
        /\ UNCHANGED ck
     \/ /\ ~(ck.state = "active" /\ ~fresh) /\ ck.pub = 0
        /\ Goto("plan") /\ UNCHANGED ck
  /\ Same

(* What the frozen candidate's manifest binds (TrainCheck bytes, release   *)
(* evidence) is opened and compared again: bytes that somebody changed are *)
(* a failure.                                                              *)
Tainted == Fails /\ UNCHANGED ck

(* A resumed publication verifies its candidate, then its authority. *)
Republish ==
  /\ pc = "republish"
  /\ \/ CloseAnd("BLOCKED_POLICY") \/ Tainted
     \/ pc' = "publish" /\ resumed' = TRUE /\ UNCHANGED <<goal, prepared, named, crashes, losses, ck>>
  /\ Same

(* The budget of planning attempts.  A recheck of the backend does not     *)
(* count as an attempt.                                                    *)
Planned(c) == [c EXCEPT !.plan = IF c.ready THEN @ ELSE @ - 1]

PlanExhausted ==
  /\ pc = "plan" /\ ck.plan = 0 /\ ~ck.ready
  /\ CloseAnd("BLOCKED_TECHNICAL")
  /\ Same

(* The candidate's worktree is gone: its commit is carried over and every  *)
(* stage is to be repeated.                                                *)
Salvage ==
  /\ pc = "plan" /\ (ck.plan > 0 \/ ck.ready)
  /\ ck.state = "active"
  /\ Save([Closed(Planned(ck)) EXCEPT !.roles = 0, !.ready = FALSE])
  /\ Goto("salvaged")
  /\ Same

(* The new generation of the checkpoint: from the recovered one, or from   *)
(* full budgets if there is none or it was dropped.                        *)
Opened ==
  LET from == IF pc = "salvaged" THEN ck
              ELSE Planned(IF pc = "renewed" THEN NoCheckpoint ELSE ck)
  IN  [from EXCEPT !.state = "active", !.wait = "none", !.ready = FALSE,
                   !.roles = IF ck.state = "active" THEN @ ELSE 0]

(* An active checkpoint's worktree is used in place, under a branch name   *)
(* ("recovered-bound-candidate") that no ref has; any other is created     *)
(* with its branch.  Without an active or a salvaged checkpoint it starts  *)
(* from main: a new candidate.                                             *)
InPlace == pc = "plan" /\ ck.state = "active"

KeepsCandidate == pc = "salvaged" \/ InPlace

OpenGeneration ==
  /\ \/ pc = "plan" /\ (ck.plan > 0 \/ ck.ready)
     \/ pc \in {"renewed", "salvaged"}
  /\ Save(Opened)
  /\ IF KeepsCandidate
       THEN UNCHANGED <<tx, fresh>> /\ objected' = (objected /\ InPlace)
       ELSE tx' = Append(tx, "none") /\ fresh' = TRUE /\ objected' = FALSE
  /\ named' = ~InPlace
  /\ pc' = "context"
  /\ UNCHANGED <<item, landed, moves, goal, resumed, prepared, crashes, losses>>

(* build_v3_context_manifest refuses stale market facts. *)
BuildContext ==
  /\ pc = "context"
  /\ \/ NeedsFacts /\ CloseAnd("WAITING_EXTERNAL")
     \/ Goto("stage") /\ UNCHANGED ck
  /\ Same

-----------------------------------------------------------------------------
(* The roles' sessions, one after the other. *)

StagesDone ==
  /\ pc = "stage" /\ ck.roles = Roles
  /\ Goto("freeze")
  /\ UNCHANGED ck /\ Same

(* The session of the next role, with the context of that role and, after  *)
(* an interruption, the handoff that is bound to it.                       *)
InSession == pc = "stage" /\ ck.roles < Roles

(* _value_failure_reasons: only the reports of reviewing roles have them.  *)
(* Those of an experiment are left to the native/value authority.          *)
MayObject == ck.roles > 0 /\ kind # "experiment"

(* A session passed and its report is valid: the role is recorded.  The    *)
(* report of a reviewing role is then searched for value objections.       *)
StagePassed ==
  /\ InSession
  /\ Save([ck EXCEPT !.roles = @ + 1])
  /\ \/ Goto("stage") /\ UNCHANGED objected
     \/ /\ MayObject
        /\ Goto("value") /\ objected' = TRUE
  /\ UNCHANGED <<item, remote>>

(* value_redesign_failure: a bounded number of redesigns, with no stage    *)
(* carried over, then the item is blocked.                                 *)
ValueFailure ==
  /\ pc = "value"
  /\ LET counted == [ck EXCEPT !.failures = @ + 1]
     IN  \/ /\ ck.failures < MaxRedesigns
            /\ Save([counted EXCEPT !.roles = 0])
            /\ MoveTo("READY", "recover")
         \/ /\ ck.failures >= MaxRedesigns
            /\ Save(Closed(counted))
            /\ MoveTo("BLOCKED_POLICY", "recover")
  /\ objected' = FALSE
  /\ UNCHANGED <<item, remote>>

(* A validated report that is not a PASS. *)
StageRefused ==
  /\ InSession
  /\ \E s \in {"BLOCKED_POLICY", "BLOCKED_TECHNICAL"} : CloseAnd(s)
  /\ Same

(* Fault variant of StageBackendWait: rechecks are not counted. *)
StageBackendWaitFree ==
  /\ InSession
  /\ Save([ck EXCEPT !.wait = "backend"])
  /\ MoveTo("PAUSED_BACKEND", "recover")
  /\ Same

(* The backend is out of quota, credentials, time or order. *)
StageBackendWait ==
  /\ InSession
  /\ \/ /\ ck.rechecks = 0
        /\ Save([Closed(ck) EXCEPT !.wait = "backend"])
        /\ MoveTo("BLOCKED_TECHNICAL", "recover")
     \/ /\ ck.rechecks > 0
        /\ Save([ck EXCEPT !.rechecks = @ - 1, !.wait = "backend"])
        /\ MoveTo("PAUSED_BACKEND", "recover")
  /\ Same

(* A finding costs a repair cycle.  It can be the same finding for the     *)
(* MaxSame-th time once there were MaxSame - 1 others.                     *)
StageFinding ==
  /\ InSession
  /\ LET left == IF ck.repair = 0 THEN 0 ELSE ck.repair - 1
     IN  /\ Save([ck EXCEPT !.repair = left])
         /\ \/ left > 0 /\ MaxSame > 1 /\ Goto("stage")
            \/ /\ left = 0 \/ MaxRepair - ck.repair + 1 >= MaxSame
               /\ Goto("trip")
  /\ Same

(* The circuit breaker. *)
StageTripped ==
  /\ pc = "trip"
  /\ Save([ck EXCEPT !.state = "tripped"])
  /\ MoveTo("BLOCKED_TECHNICAL", "recover")
  /\ Same

-----------------------------------------------------------------------------
(* Gates, manifest and publication. *)

(* Read-only work ends here; a candidate must be frozen and a descendant   *)
(* of its base.                                                            *)
Freeze ==
  /\ pc = "freeze"
  /\ \/ Raise /\ UNCHANGED ck
     \/ /\ kind = "readonly"
        /\ Save(Closed(ck))
        /\ MoveTo("PASSED_ENGINEERING", "record")
     \/ kind # "readonly" /\ Goto("gates") /\ UNCHANGED ck
  /\ Same

(* publisher.prepare_candidate, between two renewals of the lease.  A      *)
(* failed gate, or one that changed the candidate, raises.                 *)
Gates ==
  /\ pc = "gates"
  /\ \/ Raise
     \/ pc' = "manifest" /\ prepared' = TRUE /\ UNCHANGED <<goal, resumed, named, crashes, losses>>
  /\ UNCHANGED ck /\ Same

(* A report's reference to an external receipt that does not verify. *)
EvidenceRefused == CloseAnd("BLOCKED_POLICY")

(* The independent native/value authority over a controlled experiment: it *)
(* is missing, it ends the item with its own verdict, or it agrees.        *)
ValueRefused == kind = "experiment" /\ CloseAnd("BLOCKED_POLICY")

ValueDecided ==
  /\ kind = "experiment"
  /\ Save(Closed(ck))
  /\ \E s \in {"NATIVE_SUFFICIENT", "REJECTED_VALUE", "WAITING_EXTERNAL"} :
       MoveTo(s, "record")

PublicationPrepared == Save([ck EXCEPT !.pub = Candidate]) /\ Goto("release")

(* The candidate manifest and the independent authorities over it; then    *)
(* the prepared publication is saved.                                      *)
Manifest ==
  /\ pc = "manifest"
  /\ EvidenceRefused \/ ValueRefused \/ ValueDecided \/ PublicationPrepared
  /\ Same

(* The last verification before the publisher acts. *)
Release ==
  /\ pc = "release"
  /\ \/ CloseAnd("BLOCKED_POLICY") \/ Tainted
     \/ pc' = "publish" /\ resumed' = FALSE /\ UNCHANGED <<goal, prepared, named, crashes, losses, ck>>
  /\ Same

(* Fault variant of PublishNew: the candidate's ref is not looked up. *)
PublishNewUnnamed ==
  /\ pc = "publish" /\ tx[ck.pub] = "none"
  /\ tx' = [tx EXCEPT ![ck.pub] = "prepared"] /\ Goto("publish")
  /\ UNCHANGED <<item, ck, fresh, landed, moves, objected>>

(* publisher.publish: a transaction is created only for a candidate whose  *)
(* ref resolves to it (the ref of a resumed publication does not) and that *)
(* this process has prepared.                                              *)
Publishable == ~resumed /\ named /\ prepared

PublishNew ==
  /\ pc = "publish" /\ tx[ck.pub] = "none"
  /\ \/ Publishable /\ tx' = [tx EXCEPT ![ck.pub] = "prepared"] /\ Goto("publish")
     \/ ~Publishable /\ Raise /\ UNCHANGED tx
  /\ UNCHANGED <<item, ck, fresh, landed, moves, objected>>

PublishStep ==
  /\ pc = "publish"
  /\ \E p \in TxPhases : PublisherStep(ck.pub, p)
  /\ Goto("publish")
  /\ UNCHANGED <<item, ck, objected>>

PublishStuck ==
  /\ pc = "publish" /\ tx[ck.pub] = "stuck"
  /\ Raise
  /\ UNCHANGED ck /\ Same

(* _pause_publication. *)
PublishPending ==
  /\ pc = "publish" /\ tx[ck.pub] \in Pending
  /\ Save([ck EXCEPT !.wait = "publication", !.ready = FALSE])
  /\ MoveTo("PAUSED_BACKEND", "recover")
  /\ Same

PublishFailed ==
  /\ pc = "publish" /\ tx[ck.pub] \in {"rejected", "reverted"}
  /\ CloseAnd("BLOCKED_TECHNICAL")
  /\ Same

(* Fault variant of PublishVerified: pending checks are taken for success. *)
PublishVerifiedEarly ==
  /\ pc = "publish" /\ tx[ck.pub] \in {"anchored", "verified"}
  /\ Save([Closed(ck) EXCEPT !.wait = "none", !.ready = FALSE])
  /\ MoveTo("PASSED_ENGINEERING", "record")
  /\ Same

(* A publication of this execution must also be the anchor's main. *)
PublishVerified ==
  /\ pc = "publish" /\ tx[ck.pub] = "verified"
  /\ \/ /\ resumed \/ fresh
        /\ Save([Closed(ck) EXCEPT !.wait = "none", !.ready = FALSE])
        /\ MoveTo("PASSED_ENGINEERING", "record")
     \/ ~resumed /\ ~fresh /\ Raise /\ UNCHANGED ck
  /\ Same

(* _record_completion_evidence.  The record is immutable. *)
RecordEvidence ==
  /\ pc = "record"
  /\ \/ evidence = 0 /\ evidence' = 1 + Candidate /\ Goto("recover")
     \/ evidence # 0 /\ Raise /\ UNCHANGED evidence
  /\ UNCHANGED <<kind, status, ck, remote, objected>>

-----------------------------------------------------------------------------
(* Where a lost lease is noticed: by the heartbeat, which runs while a     *)
(* session is awaited, and at the guards around gates and publication.     *)
LeasedSteps == {"stage", "gates", "publish"}

(* _quarantine_lease_loss: the item is blocked first, then its checkpoint  *)
(* closed, then the exception leaves the cycle.                            *)
LoseLease ==
  /\ pc \in LeasedSteps /\ losses < MaxLeaseLosses
  /\ status' = "BLOCKED_TECHNICAL"
  /\ pc' = "quarantine" /\ losses' = losses + 1
  /\ UNCHANGED <<kind, evidence, ck, remote, objected, goal, resumed, prepared, named, crashes>>

QuarantineCheckpoint ==
  /\ pc = "quarantine"
  /\ Save([Closed(ck) EXCEPT !.ready = FALSE])
  /\ Raise
  /\ Same

-----------------------------------------------------------------------------
Initialize == RecoverInterrupted \/ Rebind
Cycle == PromotePauses \/ ResumePause \/ Promote \/ Select \/ Idle \/ Claim
Resume == Enter \/ Load \/ Republish
Budget == PlanExhausted \/ Salvage \/ OpenGeneration \/ BuildContext
Session == StagesDone \/ StagePassed \/ ValueFailure \/ StageRefused
             \/ StageBackendWait \/ StageFinding \/ StageTripped
Prepare == Freeze \/ Gates \/ Manifest \/ Release
Publish == PublishNew \/ PublishStep \/ PublishStuck \/ PublishPending
             \/ PublishFailed \/ PublishVerified

Repair == NothingToRepair \/ PrepareRepair \/ ArchiveCheckpoint \/ RemoveCheckpoint
            \/ Reopen \/ CommitRepair \/ RepairRaises

Work == Restart \/ Initialize \/ Cycle \/ Transition \/ Resume \/ Budget
          \/ Session \/ Prepare \/ Publish \/ RecordEvidence
          \/ QuarantineCheckpoint

Step == Repair \/ (Work /\ UNCHANGED recovery)

Next == \/ Step \/ InstallSnapshot
        \/ (Crash \/ LoseLease \/ MainMoves \/ Preflight) /\ UNCHANGED recovery

Spec == Init /\ [][Next]_vars

(* The process is restarted and keeps running; a pause comes due; a READY  *)
(* item is eventually selected; a publication moves on (the publisher      *)
(* settles every transaction, see Publication).                            *)
FairSpec == /\ Spec /\ WF_vars(Step)
            /\ SF_vars((ResumePause \/ Select) /\ UNCHANGED recovery)
            /\ SF_vars(PublishStep /\ UNCHANGED recovery)

-----------------------------------------------------------------------------
(* Properties. *)

(* Types, and the shape of the checkpoint: its budgets never leave their   *)
(* range and it never names a candidate that does not exist.               *)
TypeOK ==
  /\ kind \in Kinds /\ status \in WorkStatus
  /\ ck \in Checkpoint /\ ck.pub <= Candidate
  /\ ck.failures <= MaxRedesigns + 1
  /\ evidence \in 0..(Candidate + 1)
  /\ tx \in Seq(TxPhases) /\ landed \subseteq DOMAIN tx
  /\ {fresh, objected, resumed, prepared, named} \subseteq BOOLEAN
  /\ pc \in Steps /\ goal \in [to : WorkStatus, then : Steps]
  /\ crashes \in 0..MaxCrashes /\ losses \in 0..MaxLeaseLosses
  /\ moves \in 0..MaxMoves
  /\ journal \in {"none", "prepared", "archived", "touched", "committed"}
  /\ snapshots \in 1..MaxSnapshots /\ refills \in 0..MaxSnapshots

Mutating == {"code", "experiment", "market"}

(* Work that changes the repository is PASSED_ENGINEERING only when the    *)
(* publication of its last candidate was verified on main, whatever        *)
(* failed, was resumed or was started over on the way.                     *)
PassedWasVerified ==
  status = "PASSED_ENGINEERING" /\ kind \in Mutating
    => Candidate > 0 /\ tx[Candidate] = "verified"

(* Work that can be scheduled never carries a prepared publication in a    *)
(* closed checkpoint: _execute would raise at every attempt.               *)
PublicationResumable ==
  status \in {"READY", "QUEUED"} /\ ck.pub # 0 => ck.state = "active"

(* A candidate a reviewer refused for its value does not reach main, even  *)
(* if the process fails between recording the review and acting on it.     *)
ObjectionIsHeeded == objected => Candidate \notin landed

(* What the controller keeps is well-formed, a prepared publication stays  *)
(* resumable and a candidate somebody objected to does not land (_execute, *)
(* _publish_candidate).                                                    *)
RecordIsSound == TypeOK /\ PublicationResumable /\ ObjectionIsHeeded

(* The budgets of plans, repairs, restarts and rechecks are only spent.    *)
(* They are full again when main left the candidate behind, and when the   *)
(* recovery of a repaired backend failure removes the checkpoint of the    *)
(* blocked item (_finish_recovery), which happens at most once for every   *)
(* snapshot installed, whatever fails in the middle of a recovery.         *)
BudgetsShrink ==
  [][ \/ pc = "renewed"
      \/ refills' = refills + 1 /\ refills' <= snapshots
      \/ /\ ck'.plan <= ck.plan /\ ck'.repair <= ck.repair
         /\ ck'.restarts <= ck.restarts /\ ck'.rechecks <= ck.rechecks
         /\ ck'.failures >= ck.failures ]_vars

Settled == {"WAITING_EXTERNAL", "BLOCKED_TECHNICAL", "BLOCKED_POLICY",
            "PASSED_ENGINEERING", "NATIVE_SUFFICIENT", "REJECTED_VALUE"}

(* A process failed before it claimed the item; nobody ever claims it. *)
Orphaned == status = "QUEUED" /\ pc # "claim"

(* A process failed after it reopened the item and before it committed the *)
(* recovery: every later cycle of the installed snapshot raises.           *)
Wedged == journal = "touched" /\ pc = "down"

(* Work that is ready, running or paused is not worked on for ever: under  *)
(* finitely many failures and snapshots its budgets bring it to a          *)
(* decision, unless a failure leaves it QUEUED for good (QueuedIsClaimed), *)
(* or leaves a recovery that raises in every cycle.                        *)
Resolves ==
  status \in {"READY", "QUEUED", "RUNNING", "PAUSED_BACKEND"}
    ~> (status \in Settled \/ Orphaned \/ Wedged)

(* What a failure can break, and only a failure: the five conditions below *)
(* hold of every item as long as no process fails, no lease is lost and    *)
(* main does not move.  Each is lost when a process fails between the two   *)
(* writes named in its comment.                                            *)

(* A paused item has what is needed to resume it when the next cycle looks *)
(* at it (_promote_backend_pauses: wait cleared, status READY).            *)
PauseIsResumed ==
  status = "PAUSED_BACKEND" /\ pc = "pauses" => ResumeContract

(* An interrupted item whose checkpoint is still open is not left blocked  *)
(* (initialize: item blocked by recover_interrupted, item requeued).       *)
InterruptedIsResumed ==
  status = "BLOCKED_TECHNICAL" /\ pc = "schedule" => ck.state # "active"

(* An item whose publication is verified is not left blocked (_execute:    *)
(* checkpoint closed, status PASSED_ENGINEERING).                          *)
VerifiedIsPassed ==
  status = "BLOCKED_TECHNICAL" /\ pc = "schedule" /\ Candidate > 0
    => tx[Candidate] # "verified"

(* A QUEUED item is claimed (execute_selected: status QUEUED, claim). *)
QueuedIsClaimed == pc = "schedule" => status # "QUEUED"

(* A completed item has the evidence of its last candidate (_execute:      *)
(* status PASSED_ENGINEERING, evidence recorded).  An experiment that      *)
(* waited for external evidence keeps the record of that decision instead. *)
PassedHasEvidence ==
  status = "PASSED_ENGINEERING" /\ pc = "schedule" /\ kind # "experiment"
    => evidence = 1 + Candidate

NeverRepublished == \A i, j \in landed : i = j

OnlyFailuresLoseWork ==
  crashes = 0 /\ losses = 0 /\ moves = 0 =>
    /\ PauseIsResumed /\ InterruptedIsResumed /\ VerifiedIsPassed
    /\ QueuedIsClaimed /\ PassedHasEvidence /\ NeverRepublished

=============================================================================
