-------------------------- MODULE ControllerProofs --------------------------
(***************************************************************************)
(* Machine-checked proofs about Controller, for every kind of work, every  *)
(* budget, every number of roles, and any number of failures.              *)
(***************************************************************************)
EXTENDS Controller, TLAPS

(* The checkpoint, without the bounds on its budgets. *)
Shape ==
  [state    : {"none", "active", "inactive", "tripped"},
   plan     : Int, repair : Nat, restarts : Int, rechecks : Int,
   failures : Int, roles : Int,
   wait     : {"none", "backend", "publication"},
   ready    : BOOLEAN,
   pub      : Nat]

(* The steps of _execute from the opening of a generation to the prepared  *)
(* publication.                                                            *)
Working == {"context", "stage", "trip", "value", "freeze", "gates", "manifest"}

(* All the steps of _execute. *)
Executing == Working \cup {"enter", "load", "renewed", "republish", "plan",
                           "salvaged", "release", "publish"}

(* Where control goes after a status change. *)
After == {"down", "recover", "repair", "repaired", "pauses", "promote", "schedule", "claim", "record"}

Verified == Candidate > 0 /\ tx[Candidate] = "verified"

Shaped == ck \in Shape /\ tx \in Seq(TxPhases) /\ goal.then \in After

(* An item is executed while it is RUNNING, and handled by recovery while  *)
(* it is blocked.                                                          *)
Located ==
  /\ pc \in Executing => status = "RUNNING"
  /\ pc \in {"rebind", "quarantine"} => status = "BLOCKED_TECHNICAL"

(* The checkpoint's publication is that of the last candidate, or none. *)
Bound ==
  /\ ck.pub \in {0, Candidate}
  /\ pc \in Working \cup {"plan", "salvaged", "reopen"} => ck.pub = 0
  /\ ck.state = "active" \/ pc \in Working \cup {"salvaged"} => Candidate > 0
  /\ pc \in {"republish", "release", "publish"} => ck.pub # 0

(* A checkpoint is open while its candidate is worked on and published. *)
Opening ==
  pc \in Working \cup {"republish", "release", "publish"} => ck.state = "active"

(* A checkpoint that does not exist, or that a repeated finding closed,    *)
(* has no publication.                                                     *)
Bare == ck.state \in {"none", "tripped"} => ck.pub = 0

(* What holds of the status, and of the status that is about to be set. *)
Fits(s) ==
  /\ s = "PASSED_ENGINEERING" /\ kind \in Mutating => Verified
  /\ s \in {"READY", "QUEUED"} /\ ck.pub # 0 => ck.state = "active"
  /\ s = "PROPOSED" => ck.pub = 0
  /\ s = "WAITING_EXTERNAL" /\ kind # "market" => ck.pub = 0

(* The inductive invariant. *)
Inv ==
  /\ Shaped
  /\ Located
  /\ Bound
  /\ Opening
  /\ Bare
  /\ Fits(status)
  /\ pc = "move" => Fits(goal.to)

(* d spends no less of every budget than c. *)
Spends(c, d) ==
  /\ d.plan <= c.plan /\ d.repair <= c.repair /\ d.restarts <= c.restarts
  /\ d.rechecks <= c.rechecks /\ d.failures >= c.failures

-----------------------------------------------------------------------------
(* What the controller's updates make of a checkpoint. *)

(* Closing a checkpoint changes its state only. *)
LEMMA ClosedShape ==
  ASSUME NEW c \in Shape
  PROVE  /\ Closed(c) \in Shape /\ Closed(c).state \notin {"active", "tripped"}
         /\ Closed(c).state = "none" => c.state = "none"
         /\ Closed(c).pub = c.pub /\ Spends(c, Closed(c))
  BY DEF Closed, Shape, Spends

(* A new checkpoint is well-formed and has no publication                  *)
(* (CheckpointBudget).                                                     *)
LEMMA NoCheckpointShape ==
  NoCheckpoint \in Shape /\ NoCheckpoint.pub = 0
  BY BudgetAssumption DEF NoCheckpoint, Shape

(* A planning attempt is counted at most once. *)
LEMMA PlannedShape ==
  ASSUME NEW c \in Shape
  PROVE  /\ Planned(c) \in Shape /\ Planned(c).state = c.state
         /\ Planned(c).pub = c.pub /\ Spends(c, Planned(c))
  BY DEF Planned, Shape, Spends

(* What is spent in two updates is spent.                                  *)
LEMMA SpendsTransitive ==
  ASSUME NEW c \in Shape, NEW d \in Shape, NEW e \in Shape,
         Spends(c, d), Spends(d, e)
  PROVE  Spends(c, e)
  BY DEF Shape, Spends

(* Stages, waits, approvals and the state are no budgets. *)
Kept(c, d) == d \in Shape /\ d.state = c.state /\ d.pub = c.pub /\ Spends(c, d)

(* completed_roles is no budget.                                           *)
LEMMA RolesShape ==
  ASSUME NEW c \in Shape, NEW n \in Int
  PROVE  Kept(c, [c EXCEPT !.roles = n])
  BY DEF Shape, Spends, Kept

(* The approval state is no budget.                                        *)
LEMMA ReadyShape ==
  ASSUME NEW c \in Shape, NEW b \in BOOLEAN
  PROVE  Kept(c, [c EXCEPT !.ready = b])
  BY DEF Shape, Spends, Kept

(* backend_wait_state is no budget.                                        *)
LEMMA WaitShape ==
  ASSUME NEW c \in Shape, NEW w \in {"none", "backend", "publication"}
  PROVE  Kept(c, [c EXCEPT !.wait = w])
  BY DEF Shape, Spends, Kept

(* Dropping the stages of a stale or salvaged checkpoint spends nothing.   *)
LEMMA ResetShape ==
  ASSUME NEW c \in Shape
  PROVE  Kept(c, [c EXCEPT !.roles = 0, !.ready = FALSE])
<1> DEFINE d == [c EXCEPT !.roles = 0]
<1>1. Kept(c, d)
  BY RolesShape
<1>2. [c EXCEPT !.roles = 0, !.ready = FALSE] = [d EXCEPT !.ready = FALSE]
  BY DEF Shape
<1> HIDE DEF d
<1>3. Kept(d, [d EXCEPT !.ready = FALSE])
  BY <1>1, ReadyShape DEF Kept
<1> QED
  BY <1>1, <1>2, <1>3, SpendsTransitive DEF Kept

(* Pausing and resuming set the wait and the approval only.                *)
LEMMA PauseShape ==
  ASSUME NEW c \in Shape, NEW w \in {"none", "backend", "publication"}, NEW b \in BOOLEAN
  PROVE  Kept(c, [c EXCEPT !.wait = w, !.ready = b])
<1> DEFINE d == [c EXCEPT !.wait = w]
<1>1. Kept(c, d)
  BY WaitShape
<1>2. [c EXCEPT !.wait = w, !.ready = b] = [d EXCEPT !.ready = b]
  BY DEF Shape
<1> HIDE DEF d
<1>3. Kept(d, [d EXCEPT !.ready = b])
  BY <1>1, ReadyShape DEF Kept
<1> QED
  BY <1>1, <1>2, <1>3, SpendsTransitive DEF Kept

(* A new generation keeps the budgets it is opened from. *)
LEMMA OpenShape ==
  ASSUME NEW c \in Shape, NEW n \in Int
  PROVE  LET d == [c EXCEPT !.state = "active", !.wait = "none", !.ready = FALSE,
                            !.roles = n]
         IN  d \in Shape /\ d.state = "active" /\ d.pub = c.pub /\ Spends(c, d)
<1> DEFINE d == [c EXCEPT !.state = "active", !.wait = "none", !.ready = FALSE,
                          !.roles = n]
           d1 == [c EXCEPT !.state = "active"]
           d2 == [d1 EXCEPT !.wait = "none", !.ready = FALSE]
<1>1. d1 \in Shape /\ d1.state = "active" /\ d1.pub = c.pub /\ Spends(c, d1)
  BY DEF Shape, Spends
<1>2. d = [d2 EXCEPT !.roles = n]
  BY DEF Shape
<1> HIDE DEF d1
<1>3. Kept(d1, d2)
  BY <1>1, PauseShape
<1> HIDE DEF d2
<1>4. Kept(d2, [d2 EXCEPT !.roles = n])
  BY <1>3, RolesShape DEF Kept
<1> HIDE DEF d
<1>5. d \in Shape /\ d.state = "active" /\ d.pub = c.pub /\ Spends(c, d)
  BY <1>1, <1>2, <1>3, <1>4, SpendsTransitive DEF Kept
<1> QED
  BY <1>5 DEF d

(* A new generation keeps what is left of the budgets, unless the          *)
(* checkpoint was dropped as stale (_execute, line 2624).                  *)
LEMMA OpenedShape ==
  ASSUME ck \in Shape
  PROVE  /\ Opened \in Shape /\ Opened.state = "active"
         /\ Opened.pub = IF pc = "renewed" THEN 0 ELSE ck.pub
         /\ pc # "renewed" => Spends(ck, Opened)
<1> DEFINE from == IF pc = "salvaged" THEN ck
                   ELSE Planned(IF pc = "renewed" THEN NoCheckpoint ELSE ck)
           n == IF ck.state = "active" THEN from.roles ELSE 0
<1>1. /\ from \in Shape
      /\ from.pub = IF pc = "renewed" THEN 0 ELSE ck.pub
      /\ pc # "renewed" => Spends(ck, from)
  <2>1. Spends(ck, ck)
    BY DEF Shape, Spends
  <2> QED
    BY <2>1, PlannedShape, NoCheckpointShape
<1>2. n \in Int
  BY <1>1 DEF Shape
<1>3. Opened = [from EXCEPT !.state = "active", !.wait = "none", !.ready = FALSE,
                            !.roles = n]
  <2> HIDE DEF from
  <2>1. Opened = [from EXCEPT !.state = "active", !.wait = "none", !.ready = FALSE,
                     !.roles = IF ck.state = "active" THEN @ ELSE 0]
    BY DEF Opened, from
  <2> QED
    BY <1>1, <2>1 DEF Shape
<1> HIDE DEF from, n
<1>4. /\ Opened \in Shape /\ Opened.state = "active"
      /\ Opened.pub = from.pub /\ Spends(from, Opened)
  BY <1>1, <1>2, <1>3, OpenShape
<1> QED
  BY <1>1, <1>4, SpendsTransitive

-----------------------------------------------------------------------------
(* What a step does to the checkpoint, whichever it is.  Only the opening  *)
(* of a generation makes it active, only the manifest gives it a           *)
(* publication, and only the generation after a stale one refills it, or   *)
(* the recovery that removes it.                                           *)
Refill ==
  /\ pc = "repair" /\ pc' \in {"reopen", "down"}
  /\ journal \in {"prepared", "archived"} /\ ck.state = "tripped"
  /\ ck' = NoCheckpoint /\ refills' = refills + 1 /\ UNCHANGED snapshots

Updates ==
  /\ ck' \in Shape
  /\ pc # "renewed" => Spends(ck, ck') \/ Refill
  /\ \/ ck'.pub = ck.pub
     \/ pc = "renewed" /\ ck'.pub = 0
     \/ pc = "manifest" /\ pc' = "release" /\ ck'.pub = Candidate
  /\ ck'.state = "active" => ck.state = "active" \/ pc' = "context"
  /\ ck'.state = "tripped" => ck.state = "tripped" \/ pc = "trip"
  /\ ck'.state = "none" => ck.state = "none" \/ Refill

(* A recovery that refills nothing keeps the checkpoint. *)
LEMMA RepairKeeps ==
  ASSUME Repair \/ InstallSnapshot, ~Refill
  PROVE  ck' = ck
<1>1. CASE RemoveCheckpoint
  BY <1>1 DEF RemoveCheckpoint, Recovering, Goto, Save, Refill
<1>2. CASE RepairRaises
  BY <1>2 DEF RepairRaises, Recovering, Raise, Lost, Save, Refill
<1> QED
  BY <1>1, <1>2 DEF Repair, NothingToRepair, PrepareRepair, ArchiveCheckpoint, Reopen, CommitRepair,
     InstallSnapshot

(* A recovery refills the budgets or keeps the checkpoint. *)
LEMMA RepairUpdates ==
  ASSUME Shaped, Bare, Repair \/ InstallSnapshot
  PROVE  Updates
<1> ck \in Shape
  BY DEF Shaped
<1>1. CASE ck' = ck
  BY <1>1 DEF Updates, Spends, Shape
<1>2. CASE Refill
  <2>1. ck'.pub = ck.pub /\ ck' \in Shape /\ ck'.state = "none"
    BY <1>2, NoCheckpointShape DEF Refill, Bare, NoCheckpoint
  <2> QED
    BY <1>2, <2>1 DEF Updates
<1> QED
  BY <1>1, <1>2, RepairKeeps

(* Every step is one of these updates.                                     *)
LEMMA StepUpdates ==
  ASSUME Shaped, Bare, Next
  PROVE  Updates
<1> ck \in Shape
  BY DEF Shaped
<1>1. CASE UNCHANGED ck
  BY <1>1 DEF Updates, Spends, Shape
<1>2. CASE ck' = Closed(ck)
  BY <1>2, ClosedShape DEF Updates
<1>3. ASSUME NEW c, Kept(ck, c) \/ Kept(Closed(ck), c), ck' = c
      PROVE  Updates
  BY <1>3, ClosedShape, SpendsTransitive DEF Updates, Kept
<1>4. CASE Rebind
  <2> DEFINE d == [ck EXCEPT !.restarts = @ - 1]
  <2>1. Kept(ck, d)
    BY DEF Kept, Shape, Spends
  <2> QED
    BY <1>1, <1>2, <1>3, <1>4, <2>1 DEF Rebind, Save
<1>5. CASE ResumePause
  BY <1>3, <1>5, PauseShape DEF ResumePause, Save
<1>6. CASE Load
  BY <1>1, <1>3, <1>6, ClosedShape, ResetShape DEF Load, Save
<1>7. CASE Salvage
  <2> DEFINE c == Closed(Planned(ck))
  <2>1. /\ c \in Shape /\ c.state \notin {"active", "tripped"} /\ c.pub = ck.pub
        /\ c.state = "none" => ck.state = "none"
        /\ Spends(ck, c)
    BY PlannedShape, ClosedShape, SpendsTransitive
  <2> HIDE DEF c
  <2>2. Kept(c, [c EXCEPT !.roles = 0, !.ready = FALSE])
    BY <2>1, ResetShape
  <2>3. ck' = [c EXCEPT !.roles = 0, !.ready = FALSE]
    BY <1>7 DEF Salvage, Save, c
  <2> QED
    BY <2>1, <2>2, <2>3, SpendsTransitive DEF Kept, Updates
<1>8. CASE OpenGeneration
  BY <1>8, OpenedShape DEF OpenGeneration, Save, Updates
<1>9. CASE StagePassed
  <2>1. ck.roles + 1 \in Int
    BY DEF Shape
  <2> QED
    BY <1>3, <1>9, <2>1, RolesShape DEF StagePassed, InSession, Save
<1>10. CASE ValueFailure
  <2> DEFINE c == [ck EXCEPT !.failures = @ + 1]
  <2>1. Kept(ck, c)
    BY DEF Kept, Shape, Spends
  <2> HIDE DEF c
  <2>2. ck' = [c EXCEPT !.roles = 0] \/ ck' = Closed(c)
    BY <1>10 DEF ValueFailure, Save, c
  <2>3. Kept(c, [c EXCEPT !.roles = 0])
    BY <2>1, RolesShape DEF Kept
  <2> QED
    BY <2>1, <2>2, <2>3, ClosedShape, SpendsTransitive DEF Kept, Updates
<1>11. CASE StageBackendWait
  <2> DEFINE c == [ck EXCEPT !.rechecks = @ - 1]
  <2>1. Kept(ck, c)
    BY DEF Kept, Shape, Spends
  <2>2. [ck EXCEPT !.rechecks = @ - 1, !.wait = "backend"] = [c EXCEPT !.wait = "backend"]
    BY DEF Shape
  <2> HIDE DEF c
  <2>3. Kept(c, [c EXCEPT !.wait = "backend"])
    BY <2>1, WaitShape DEF Kept
  <2>4. Kept(ck, [c EXCEPT !.wait = "backend"])
    BY <2>1, <2>3, SpendsTransitive DEF Kept
  <2>5. Kept(Closed(ck), [Closed(ck) EXCEPT !.wait = "backend"])
    BY ClosedShape, WaitShape
  <2> QED
    BY <1>3, <1>11, <2>2, <2>4, <2>5 DEF StageBackendWait, InSession, Save
<1>12. CASE StageFinding
  <2> DEFINE left == IF ck.repair = 0 THEN 0 ELSE ck.repair - 1
  <2>1. Kept(ck, [ck EXCEPT !.repair = left])
    BY DEF Kept, Shape, Spends
  <2> QED
    BY <1>3, <1>12, <2>1 DEF StageFinding, InSession, Save
<1>13. CASE Manifest
  <2>1. CASE PublicationPrepared
    <3>1. Candidate \in Nat
      BY DEF Shaped, Candidate
    <3> QED
      BY <1>13, <2>1, <3>1 DEF Manifest, PublicationPrepared, Save, Goto, Updates, Shape, Spends
  <2> QED
    BY <1>2, <1>13, <2>1
       DEF Manifest, EvidenceRefused, ValueRefused, ValueDecided, CloseAnd, Save
<1>14. CASE PublishPending
  BY <1>3, <1>14, PauseShape DEF PublishPending, Save
<1>15. CASE PublishVerified
  BY <1>1, <1>3, <1>15, ClosedShape, PauseShape DEF PublishVerified, Save
<1>16. CASE QuarantineCheckpoint
  BY <1>3, <1>16, ClosedShape, ReadyShape DEF QuarantineCheckpoint, Save
<1>20. CASE StageTripped
  <2>1. ck' = [ck EXCEPT !.state = "tripped"] /\ pc = "trip"
    BY <1>20 DEF StageTripped, Save
  <2>2. ck' \in Shape /\ ck'.state = "tripped" /\ ck'.pub = ck.pub /\ Spends(ck, ck')
    BY <2>1 DEF Shape, Spends
  <2> QED
    BY <2>1, <2>2 DEF Updates
<1>17. ASSUME Initialize \/ Cycle \/ Resume PROVE Updates
  BY <1>1, <1>2, <1>4, <1>5, <1>6, <1>17
     DEF Initialize, RecoverInterrupted, Cycle, PromotePauses, Promote, Select, Idle,
         Claim, Resume, Enter, Republish, Tainted, Fails, CloseAnd, Save
<1>18. ASSUME Budget \/ Session PROVE Updates
  BY <1>1, <1>2, <1>7, <1>8, <1>9, <1>10, <1>11, <1>12, <1>18, <1>20
     DEF Budget, PlanExhausted, BuildContext, Session, StagesDone, StageRefused,
         CloseAnd, Save
<1>19. ASSUME Prepare \/ Publish PROVE Updates
  BY <1>1, <1>2, <1>13, <1>14, <1>15, <1>19
     DEF Prepare, Freeze, Gates, Release, Tainted, Fails, Publish, PublishNew, PublishStep,
         PublishStuck, PublishFailed, CloseAnd, Save
<1> QED
  BY <1>1, <1>16, <1>17, <1>18, <1>19, RepairUpdates
     DEF Next, Step, Work, Restart, Transition, RecordEvidence, Crash, Fails, LoseLease,
         MainMoves, Preflight

(* A change of phase keeps the number of transactions. *)
LEMMA PhaseChange ==
  ASSUME tx \in Seq(TxPhases), NEW i \in DOMAIN tx, NEW p \in TxPhases,
         tx' = [tx EXCEPT ![i] = p]
  PROVE  tx' \in Seq(TxPhases) /\ Len(tx') = Len(tx)
  OBVIOUS

(* A transaction that is verified stays verified. *)
LEMMA VerifiedStays ==
  ASSUME tx \in Seq(TxPhases), NEW i \in DOMAIN tx, NEW p \in TxPhases,
         PublisherStep(i, p)
  PROVE  /\ tx' \in Seq(TxPhases) /\ Len(tx') = Len(tx)
         /\ Verified => Verified'
  BY DEF PublisherStep, Reconciled, Verified, Candidate

(* A new generation either keeps the candidate or appends one. *)
LEMMA Generation ==
  ASSUME Inv, OpenGeneration
  PROVE  /\ tx' \in Seq(TxPhases) /\ Candidate' \in Nat \ {0}
         /\ ck' \in Shape /\ ck'.pub = 0
<1>1. ck' \in Shape /\ ck'.pub = 0
  BY OpenedShape DEF OpenGeneration, Save, Inv, Shaped, Bound
<1>2. CASE KeepsCandidate
  BY <1>1, <1>2 DEF OpenGeneration, KeepsCandidate, InPlace, Inv, Shaped, Bound, Candidate
<1>3. CASE ~KeepsCandidate
  <2>1. tx' = Append(tx, "none")
    BY <1>3 DEF OpenGeneration
  <2> QED
    BY <1>1, <2>1 DEF Inv, Shaped, Candidate, TxPhases
<1> QED
  BY <1>1, <1>2, <1>3

(* A checkpoint is opened before it is worked with, and closed after.      *)
LEMMA OpeningNext ==
  ASSUME Shaped, Next, Opening
  PROVE  Opening'
<1> ck \in Shape
  BY DEF Shaped
<1> goal.then \in After
  BY DEF Shaped
<1> USE DEF Opening, Working, Goto, MoveTo, Lost, Raise, Fails, CloseAnd, Tainted, Save, Same, process
<1>1. ASSUME Initialize \/ Cycle PROVE Opening'
  BY <1>1 DEF Initialize, RecoverInterrupted, Rebind, Cycle, PromotePauses, ResumePause, Promote,
     PromoteReview, PromoteExternal, PromoteWork, Select, Idle, Claim
<1>2. CASE Transition
  BY <1>2 DEF Transition, After
<1>3. ASSUME Resume PROVE Opening'
  BY <1>3 DEF Resume, Enter, Load, Republish
<1>4. CASE OpenGeneration
  BY <1>4, OpenedShape DEF OpenGeneration
<1>5. ASSUME Budget, ~OpenGeneration PROVE Opening'
  BY <1>5 DEF Budget, PlanExhausted, Salvage, BuildContext
<1>6. CASE StagePassed \/ StageFinding
  BY <1>6 DEF StagePassed, StageFinding, InSession, Shape
<1>7. ASSUME Session, ~StagePassed, ~StageFinding PROVE Opening'
  BY <1>7 DEF Session, StagesDone, ValueFailure, StageRefused, StageBackendWait, StageTripped
<1>8. ASSUME Prepare PROVE Opening'
  BY <1>8 DEF Prepare, Freeze, Gates, Manifest, EvidenceRefused, ValueRefused,
     ValueDecided, PublicationPrepared, Release, Shape
<1>9. ASSUME Publish PROVE Opening'
  BY <1>9 DEF Publish, PublishNew, PublishStep, PublishStuck, PublishPending, PublishFailed,
     PublishVerified
<1>10. ASSUME \/ Restart \/ RecordEvidence \/ QuarantineCheckpoint \/ Crash \/ LoseLease
              \/ MainMoves \/ Preflight
       PROVE  Opening'
  BY <1>10 DEF Restart, RecordEvidence, QuarantineCheckpoint, Crash, LoseLease, MainMoves, Preflight
<1>11. ASSUME Repair \/ InstallSnapshot PROVE Opening'
  BY <1>11 DEF Repair, NothingToRepair, PrepareRepair, ArchiveCheckpoint, RemoveCheckpoint,
     Reopen, CommitRepair, RepairRaises, InstallSnapshot, Recovering
<1> QED
  BY <1>1, <1>2, <1>3, <1>4, <1>5, <1>6, <1>7, <1>8, <1>9, <1>10, <1>11 DEF Next, Step, Work

(* What has no publication gets none but by the manifest. *)
LEMMA BareNext ==
  ASSUME Shaped, Bound, Opening, Bare, Next
  PROVE  Bare'
<1>1. Updates
  BY StepUpdates
<1>2. Refill => ck'.pub = 0
  BY NoCheckpointShape DEF Refill
<1> QED
  BY <1>1, <1>2 DEF Updates, Bound, Opening, Bare, Working

-----------------------------------------------------------------------------
(* The invariant holds of an item that was never executed. *)
LEMMA InvInit == Init => Inv
  BY NoCheckpointShape, BudgetAssumption
     DEF Init, NoCheckpoint, NoGoal, Inv, Shaped, Located, Bound, Opening, Bare, Fits, Verified, Candidate, Executing, Working, After

(* Every step preserves the invariant: one case per action. *)
LEMMA InvNext ==
  ASSUME Inv, [Next]_vars
  PROVE  Inv'
<1> USE DEF Inv, Shaped, Located, Bound, Fits, Verified, Candidate, Executing, Working, After
<1> USE DEF Goto, MoveTo, NoGoal, Lost, Raise, CloseAnd, Same, item, remote, process
<1>1. CASE UNCHANGED vars
  BY <1>1 DEF vars, Opening, Bare
<1>2. SUFFICES ASSUME Next PROVE Inv'
  BY <1>1
<1>3. Updates
  BY <1>2, StepUpdates
<1> Opening' /\ Bare'
  BY <1>2, OpeningNext, BareNext
<1>4. CASE Restart
  BY <1>4 DEF Restart
<1>5. CASE RecoverInterrupted
  BY <1>5 DEF RecoverInterrupted
<1>6. CASE Rebind
  <2>1. /\ ck'.pub = ck.pub /\ status = "BLOCKED_TECHNICAL"
        /\ UNCHANGED <<status, kind, tx>>
    BY <1>6, <1>3 DEF Rebind, Updates
  <2>2. CASE pc' = "move"
    <3>1. /\ goal' = [to |-> "READY", then |-> "repair"]
          /\ ck.state = "active" /\ ck' = [ck EXCEPT !.restarts = @ - 1]
      BY <1>6, <2>2 DEF Rebind, Save
    <3>2. ck'.state = "active"
      BY <3>1 DEF Shape
    <3> QED
      BY <1>3, <2>1, <2>2, <3>1, <3>2 DEF Updates
  <2>3. CASE pc' # "move"
    <3>1. pc' = "repair" /\ goal' = goal
      BY <1>6, <2>3 DEF Rebind
    <3> QED
      BY <1>3, <2>1, <3>1 DEF Updates
  <2> QED
    BY <2>2, <2>3
<1>7. CASE PromotePauses
  BY <1>7, <1>3 DEF PromotePauses, ResumeContract, Updates
<1>8. CASE ResumePause
  BY <1>8, <1>3 DEF ResumePause, ResumeContract, Save, Updates
<1>9. CASE Promote
  BY <1>9 DEF Promote, PromoteReview, PromoteExternal, PromoteWork, Mutating
<1>10. CASE Select
  BY <1>10 DEF Select
<1>11. CASE Idle
  BY <1>11 DEF Idle
<1>12. CASE Claim
  BY <1>12 DEF Claim
<1>13. CASE Transition
  BY <1>13 DEF Transition
<1>14. CASE Enter
  BY <1>14 DEF Enter, NeedsFacts
<1>15. CASE Load
  BY <1>15, <1>3 DEF Load, Updates
<1>16. CASE Republish
  BY <1>16, <1>3 DEF Republish, Tainted, Fails, Updates
<1>17. CASE PlanExhausted
  BY <1>17, <1>3 DEF PlanExhausted, Updates
<1>18. CASE Salvage
  BY <1>18, <1>3 DEF Salvage, Updates
<1>19. CASE OpenGeneration
  <2>1. /\ tx' \in Seq(TxPhases) /\ Candidate' \in Nat \ {0}
        /\ ck' \in Shape /\ ck'.pub = 0
    BY <1>19, Generation
  <2>2. /\ pc \in {"plan", "renewed", "salvaged"} /\ pc' = "context"
        /\ UNCHANGED <<status, kind, goal>>
    BY <1>19 DEF OpenGeneration
  <2> QED
    BY <2>1, <2>2
<1>20. CASE BuildContext
  BY <1>20, <1>3 DEF BuildContext, Updates
<1>21. CASE StagesDone
  BY <1>21 DEF StagesDone
<1>22. CASE StagePassed
  BY <1>22, <1>3 DEF StagePassed, InSession, Updates
<1>23. CASE ValueFailure
  BY <1>23, <1>3 DEF ValueFailure, Updates
<1>24. CASE StageRefused
  BY <1>24, <1>3 DEF StageRefused, InSession, Updates
<1>25. CASE StageBackendWait
  BY <1>25, <1>3 DEF StageBackendWait, InSession, Updates
<1>26. CASE StageFinding
  BY <1>26, <1>3 DEF StageFinding, InSession, Updates
<1>27. CASE StageTripped
  BY <1>27, <1>3 DEF StageTripped, Updates
<1>28. CASE Freeze
  BY <1>28, <1>3 DEF Freeze, Mutating, Updates
<1>29. CASE Gates
  BY <1>29 DEF Gates
<1>30. CASE Manifest
  <2>2. CASE PublicationPrepared
    <3>1. ck'.pub = Candidate /\ ck'.state = ck.state
      BY <2>2 DEF PublicationPrepared, Save, Shape
    <3> QED
      BY <1>30, <1>3, <2>2, <3>1 DEF Manifest, PublicationPrepared, Updates
  <2> QED
    BY <1>30, <1>3, <2>2 DEF Manifest, EvidenceRefused, ValueRefused, ValueDecided, Updates, Mutating
<1>31. CASE Release
  BY <1>31, <1>3 DEF Release, Tainted, Fails, Updates
<1>32. CASE PublishNew
  <2>1. CASE UNCHANGED tx
    BY <1>32, <2>1 DEF PublishNew
  <2>2. CASE tx' = [tx EXCEPT ![ck.pub] = "prepared"]
    <3>1. tx' \in Seq(TxPhases) /\ Len(tx') = Len(tx)
      <4>1. ck.pub \in DOMAIN tx /\ "prepared" \in TxPhases
        BY <1>32 DEF PublishNew, TxPhases
      <4> QED
        BY <2>2, <4>1, PhaseChange
    <3> QED
      BY <1>32, <2>2, <3>1 DEF PublishNew
  <2> QED
    BY <1>32, <2>1, <2>2 DEF PublishNew
<1>33. CASE PublishStep
  <2>1. ck.pub \in DOMAIN tx
    BY <1>33 DEF PublishStep
  <2>2. tx' \in Seq(TxPhases) /\ Len(tx') = Len(tx) /\ (Verified => Verified')
    BY <1>33, <2>1, VerifiedStays DEF PublishStep
  <2> QED
    BY <1>33, <2>2 DEF PublishStep
<1>34. CASE PublishStuck
  BY <1>34 DEF PublishStuck
<1>35. CASE PublishPending
  BY <1>35, <1>3 DEF PublishPending, Pending, Updates
<1>36. CASE PublishFailed
  BY <1>36, <1>3 DEF PublishFailed, Updates
<1>37. CASE PublishVerified
  BY <1>37, <1>3 DEF PublishVerified, Updates
<1>38. CASE RecordEvidence
  BY <1>38 DEF RecordEvidence
<1>39. CASE QuarantineCheckpoint
  BY <1>39, <1>3 DEF QuarantineCheckpoint, Updates
<1>40. CASE Crash
  BY <1>40 DEF Crash, Fails
<1>41. CASE LoseLease
  BY <1>41 DEF LoseLease, LeasedSteps
<1>42. CASE MainMoves
  BY <1>42 DEF MainMoves
<1>43. CASE Preflight
  <2>1. tx' \in Seq(TxPhases) /\ Len(tx') = Len(tx) /\ (Verified => Verified')
    BY <1>43, VerifiedStays DEF Preflight
  <2> QED
    BY <1>43, <2>1 DEF Preflight
<1>44. CASE RemoveCheckpoint
  <2>1. ck'.pub = 0 /\ ck'.state = "none" /\ pc' = "reopen" /\ UNCHANGED <<status, kind, goal, tx>>
    BY <1>44, <1>3, NoCheckpointShape DEF RemoveCheckpoint, Recovering, Save, Updates, Bare, NoCheckpoint
  <2> QED
    BY <1>3, <2>1 DEF Updates
<1>47. CASE RepairRaises
  <2>1. ck'.pub = ck.pub /\ pc' = "down" /\ goal' = NoGoal /\ UNCHANGED <<status, kind, tx>>
    BY <1>47, NoCheckpointShape DEF RepairRaises, Recovering, Save, Bare, NoCheckpoint
  <2>2. ck'.state # ck.state => ck'.pub = 0
    BY <1>47, <2>1 DEF RepairRaises, Bare, Save
  <2> QED
    BY <1>3, <2>1, <2>2 DEF Updates
<1>45. ASSUME Repair, ~RemoveCheckpoint, ~RepairRaises PROVE Inv'
  BY <1>45 DEF Repair, NothingToRepair, PrepareRepair, ArchiveCheckpoint, Reopen, CommitRepair,
     Recovering, Repairable
<1>46. CASE InstallSnapshot
  BY <1>46 DEF InstallSnapshot
<1> QED
  BY <1>2, <1>44, <1>45, <1>46, <1>47, <1>4, <1>5, <1>6, <1>7, <1>8, <1>9, <1>10, <1>11, <1>12, <1>13, <1>14, <1>15, <1>16, <1>17, <1>18, <1>19, <1>20, <1>21, <1>22, <1>23, <1>24, <1>25, <1>26, <1>27, <1>28, <1>29, <1>30, <1>31, <1>32, <1>33, <1>34, <1>35, <1>36, <1>37, <1>38, <1>39, <1>40, <1>41, <1>42, <1>43
     DEF Next, Step, Work, Initialize, Cycle, Resume, Budget, Session, Prepare, Publish

-----------------------------------------------------------------------------
(* The invariant holds in every behaviour. *)
LEMMA InvAlways == Spec => []Inv
  BY InvInit, InvNext, PTL DEF Spec

(* Work that changes the repository passes only if the publication of its  *)
(* last candidate was verified on main (_execute, lines 2742 and 4542).    *)
THEOREM PassedSafe == Spec => []PassedWasVerified
<1>1. Inv => PassedWasVerified
  BY DEF Inv, Fits, Verified, PassedWasVerified
<1> QED
  BY <1>1, InvAlways, PTL

(* Work that can be scheduled never carries a prepared publication in a    *)
(* closed checkpoint, on which _execute (line 2634) would raise.           *)
THEOREM ResumableSafe == Spec => []PublicationResumable
<1>1. Inv => PublicationResumable
  BY DEF Inv, Fits, PublicationResumable
<1> QED
  BY <1>1, InvAlways, PTL

(* What a recovery has refilled, and what it may still refill: a snapshot  *)
(* whose recovery has not removed a checkpoint has one to remove, and no   *)
(* other one is closed before it is through (_finish_recovery).            *)
Refilled ==
  /\ journal \in {"none", "prepared", "archived", "touched", "committed"}
  /\ snapshots \in 1..MaxSnapshots /\ refills \in 0..snapshots
  /\ journal = "none" => refills < snapshots
  /\ journal \in {"prepared", "archived"} /\ ck.state = "tripped" => refills < snapshots
  /\ journal \in {"prepared", "archived"} =>
       /\ status = "BLOCKED_TECHNICAL"
       /\ pc \in {"down", "recover", "repair", "archive", "reopen"}
  /\ pc = "archive" => journal = "prepared"
  /\ pc = "reopen" => journal = "archived"

(* Nothing else happens to an item in the middle of its recovery. *)
LEMMA InterruptedRecovery ==
  ASSUME Work \/ Crash \/ LoseLease \/ MainMoves \/ Preflight,
         status = "BLOCKED_TECHNICAL", pc \in {"down", "recover", "repair", "archive", "reopen"}
  PROVE  status' = "BLOCKED_TECHNICAL" /\ UNCHANGED ck
         /\ pc' \in {"down", "recover", "repair", pc}
<1> USE DEF Goto, Same, item, process
<1>1. ASSUME Initialize \/ Cycle \/ Transition
      PROVE  status' = "BLOCKED_TECHNICAL" /\ UNCHANGED ck /\ pc' = "repair"
  BY <1>1 DEF Initialize, RecoverInterrupted, Rebind, Cycle, PromotePauses, ResumePause, Promote,
     Select, Idle, Claim, Transition
<1>2. ASSUME Resume \/ Budget \/ Session PROVE FALSE
  BY <1>2 DEF Resume, Enter, Load, Republish, Budget, PlanExhausted, Salvage,
     OpenGeneration, BuildContext, Session, StagesDone, StagePassed, ValueFailure, InSession,
     StageRefused, StageBackendWait, StageFinding, StageTripped
<1>3. ASSUME Prepare \/ Publish \/ RecordEvidence \/ QuarantineCheckpoint \/ LoseLease PROVE FALSE
  BY <1>3 DEF Prepare, Freeze, Gates, Manifest, Release, Publish, PublishNew, PublishStep,
     PublishStuck, PublishPending, PublishFailed, PublishVerified, RecordEvidence,
     QuarantineCheckpoint, LoseLease, LeasedSteps
<1>4. ASSUME Restart \/ Crash \/ MainMoves \/ Preflight
      PROVE  /\ status' = "BLOCKED_TECHNICAL" /\ UNCHANGED ck
             /\ pc' \in {"down", "recover", pc}
  BY <1>4 DEF Restart, Crash, Fails, Lost, MainMoves, Preflight
<1> QED
  BY <1>1, <1>2, <1>3, <1>4 DEF Work

(* The steps that lead into a recovery are those of the recovery. *)
LEMMA OutsideRecovery ==
  ASSUME Shaped, Work \/ Crash \/ LoseLease \/ MainMoves \/ Preflight,
         pc \notin {"archive", "reopen"}
  PROVE  pc' \notin {"archive", "reopen"}
<1> goal.then \notin {"archive", "reopen"}
  BY DEF Shaped, After
<1> USE DEF Goto, MoveTo, Lost, Raise, Fails, CloseAnd, Tainted, process
<1>1. ASSUME Initialize \/ Cycle \/ Transition PROVE pc' \notin {"archive", "reopen"}
  BY <1>1 DEF Initialize, RecoverInterrupted, Rebind, Cycle, PromotePauses, ResumePause, Promote,
     PromoteReview, PromoteExternal, PromoteWork, Select, Idle, Claim, Transition
<1>2. ASSUME Resume \/ Budget PROVE pc' \notin {"archive", "reopen"}
  BY <1>2 DEF Resume, Enter, Load, Republish, Budget, PlanExhausted, Salvage,
     OpenGeneration, BuildContext
<1>3. ASSUME Session PROVE pc' \notin {"archive", "reopen"}
  BY <1>3 DEF Session, StagesDone, StagePassed, ValueFailure,
     StageRefused, StageBackendWait, StageFinding, StageTripped
<1>4. ASSUME Prepare \/ Publish PROVE pc' \notin {"archive", "reopen"}
  BY <1>4 DEF Prepare, Freeze, Gates, Manifest, EvidenceRefused, ValueRefused, ValueDecided,
     PublicationPrepared, Release, Publish, PublishNew, PublishStep,
     PublishStuck, PublishPending, PublishFailed, PublishVerified
<1>5. ASSUME \/ Restart \/ RecordEvidence \/ QuarantineCheckpoint \/ LoseLease \/ Crash
             \/ MainMoves \/ Preflight
      PROVE  pc' \notin {"archive", "reopen"}
  BY <1>5 DEF Restart, RecordEvidence, QuarantineCheckpoint, LoseLease, Crash, MainMoves, Preflight
<1> QED
  BY <1>1, <1>2, <1>3, <1>4, <1>5 DEF Work

(* No step gives a snapshot a second checkpoint to remove. *)
LEMMA RefilledNext ==
  ASSUME Inv, Refilled, [Next]_vars
  PROVE  Refilled'
<1> /\ MaxSnapshots \in Nat \ {0} /\ snapshots \in Nat /\ refills \in Nat
    /\ snapshots <= MaxSnapshots /\ refills <= snapshots
  BY BudgetAssumption DEF Refilled
<1>1. CASE UNCHANGED vars
  BY <1>1 DEF vars, item, recovery, Refilled
<1>2. ASSUME Work \/ Crash \/ LoseLease \/ MainMoves \/ Preflight, Next, UNCHANGED recovery
      PROVE  Refilled'
  <2>1. Updates
    BY <1>2, StepUpdates DEF Inv
  <2>2. UNCHANGED <<journal, snapshots, refills>>
    BY <1>2 DEF recovery
  <2>3. CASE journal \in {"prepared", "archived"}
    <3>1. status' = "BLOCKED_TECHNICAL" /\ ck' = ck /\ pc' \in {"down", "recover", "repair", pc}
      BY <1>2, <2>3, InterruptedRecovery DEF Refilled
    <3> QED
      BY <2>2, <3>1 DEF Refilled
  <2>4. CASE journal \notin {"prepared", "archived"}
    <3>1. pc' \notin {"archive", "reopen"}
      BY <1>2, <2>4, OutsideRecovery DEF Refilled, Inv
    <3> QED
      BY <2>2, <2>4, <3>1 DEF Refilled
  <2> QED
    BY <2>3, <2>4
<1>3. CASE RemoveCheckpoint
  <2>1. /\ pc' = "reopen" /\ journal = "archived"
        /\ UNCHANGED <<status, journal, snapshots>> /\ ck'.state = "none"
        /\ \/ ck.state = "tripped" /\ refills' = refills + 1
           \/ refills' = refills
    BY <1>3 DEF RemoveCheckpoint, Recovering, Save, Same, item, Goto, NoCheckpoint
  <2> QED
    BY <2>1 DEF Refilled
<1>6. CASE RepairRaises
  <2>1. /\ pc' = "down" /\ UNCHANGED <<status, journal, snapshots>>
        /\ \/ ck' = ck /\ refills' = refills
           \/ /\ journal = "prepared" /\ ck.state = "tripped" /\ ck'.state = "none"
              /\ refills' = refills + 1
    BY <1>6 DEF RepairRaises, Recovering, Save, Same, item, Raise, Lost, NoCheckpoint
  <2> QED
    BY <2>1 DEF Refilled
<1>4. ASSUME Repair, ~RemoveCheckpoint, ~RepairRaises PROVE Refilled'
  BY <1>4 DEF Repair, NothingToRepair, PrepareRepair, ArchiveCheckpoint, Reopen, CommitRepair,
     Recovering, Repairable, Same, item, Goto, MoveTo, Raise, Lost, Refilled
<1>5. CASE InstallSnapshot
  BY <1>5 DEF InstallSnapshot, item, Refilled
<1> QED
  BY <1>1, <1>2, <1>3, <1>4, <1>5, <1>6 DEF Next, Step

(* A recovery has refilled no more budgets than snapshots were installed.  *)
LEMMA RefilledAlways == Spec => []Refilled
<1>1. Init => Refilled
  BY BudgetAssumption DEF Init, Refilled
<1> QED
  BY <1>1, RefilledNext, InvAlways, PTL DEF Spec

(* No step refills a budget, except the opening of the generation that     *)
(* replaces a checkpoint main has left behind (line 2619), and the         *)
(* recovery of a repaired backend failure, once for every snapshot that    *)
(* was installed (_finish_recovery).                                       *)
THEOREM BudgetsSpent == Spec => BudgetsShrink
<1>1. ASSUME Inv, Refilled, [Next]_vars
      PROVE  [\/ pc = "renewed"
              \/ refills' = refills + 1 /\ refills' <= snapshots
              \/ /\ ck'.plan <= ck.plan /\ ck'.repair <= ck.repair
                 /\ ck'.restarts <= ck.restarts /\ ck'.rechecks <= ck.rechecks
                 /\ ck'.failures >= ck.failures]_vars
  <2>1. CASE Next
    <3>1. Updates
      BY <1>1, <2>1, StepUpdates DEF Inv
    <3>2. Refill => refills' = refills + 1 /\ refills' <= snapshots
      BY <1>1 DEF Refill, Refilled
    <3> QED
      BY <3>1, <3>2 DEF Updates, Spends
  <2> QED
    BY <1>1, <2>1
<1> QED
  BY <1>1, InvAlways, RefilledAlways, PTL DEF Spec, BudgetsShrink

-----------------------------------------------------------------------------
(* The record of an item: types, budgets within their range, and who       *)
(* objected to what.                                                       *)

(* What the process knows, and what is on record of the item. *)
ProcessTyped ==
  /\ pc \in Steps /\ goal \in [to : WorkStatus, then : Steps]
  /\ resumed \in BOOLEAN /\ prepared \in BOOLEAN /\ named \in BOOLEAN
  /\ crashes \in 0..MaxCrashes /\ losses \in 0..MaxLeaseLosses

ItemTyped ==
  /\ kind \in Kinds /\ status \in WorkStatus /\ evidence \in 0..(Candidate + 1)
  /\ fresh \in BOOLEAN /\ moves \in 0..MaxMoves /\ objected \in BOOLEAN

(* No budget of c is overdrawn or above what a new checkpoint has. *)
Within(c) ==
  /\ c.plan \in 0..MaxPlan /\ c.repair \in 0..MaxRepair
  /\ c.restarts \in 0..MaxRestarts /\ c.rechecks \in 0..MaxRechecks
  /\ c.failures \in 0..(MaxRedesigns + 1) /\ c.roles \in 0..Roles

(* A checkpoint exists only for work that may be planned: the generation   *)
(* after a stale one starts from full budgets without asking again.        *)
Budgeted ==
  /\ Within(ck)
  /\ ck.state # "none" => MaxPlan > 0
  /\ ck.ready \/ pc \in {"renewed", "salvaged"} => ck.state # "none"

(* After the last redesign the item is blocked, or its process died before *)
(* it was and recovery blocks it; nothing executes it again.               *)
GivenUp ==
  /\ ck.state = "inactive"
  /\ \/ /\ status \in {"BLOCKED_TECHNICAL", "BLOCKED_POLICY"}
        /\ pc \in {"down", "recover", "rebind", "repair", "pauses", "promote", "schedule"}
     \/ status = "RUNNING" /\ pc \in {"down", "recover"}
     \/ /\ status = "RUNNING" /\ pc = "move"
        /\ goal = [to |-> "BLOCKED_POLICY", then |-> "recover"]

Redesigns ==
  /\ ck.failures > MaxRedesigns => GivenUp
  /\ pc = "claim" => status = "QUEUED"
  /\ pc = "move" /\ goal.then = "claim" => goal.to = "QUEUED"

(* A transaction belongs to a candidate that a checkpoint prepared for     *)
(* publication, and only what has one lands.                               *)
Prepared ==
  /\ Candidate > 0 /\ tx[Candidate] # "none" => ck.pub = Candidate
  /\ \A i \in landed : i \in DOMAIN tx /\ tx[i] # "none"

(* A candidate somebody objected to has no transaction, and once the       *)
(* objection is not being acted on it has no branch to get one with: it    *)
(* was resumed in place.                                                   *)
Heeded ==
  objected => /\ Candidate > 0 /\ tx[Candidate] = "none"
              /\ pc # "value" => ~named

RecordInv ==
  ProcessTyped /\ ItemTyped /\ Budgeted /\ Redesigns /\ Prepared /\ Heeded

(* What a step does to the transactions: nothing, a new candidate, a new   *)
(* transaction of the checkpoint's candidate, or one step of the publisher *)
(* (reconcile_transaction), after which the candidate may have landed.     *)
NewCandidate == /\ pc \in {"plan", "renewed"} /\ ~KeepsCandidate /\ pc' = "context"
                /\ tx' = Append(tx, "none") /\ landed' = landed /\ ~objected'

NewTransaction == /\ pc = "publish" /\ Publishable /\ ck.pub \in DOMAIN tx
                  /\ tx' = [tx EXCEPT ![ck.pub] = "prepared"]
                  /\ UNCHANGED <<landed, ck, objected, named>>

Reconciles(i, p) == /\ tx[i] # "none" /\ p # "none"
                    /\ tx' = [tx EXCEPT ![i] = p]
                    /\ landed' \in {landed, landed \cup {i}}
                    /\ UNCHANGED <<ck, objected, named>>
                    /\ pc' = pc

(* A step of the publisher, seen from the transaction.                     *)
LEMMA ReconcilesStep ==
  ASSUME NEW i \in DOMAIN tx, NEW p \in TxPhases, PublisherStep(i, p),
         UNCHANGED <<ck, objected, named, pc>>
  PROVE  Reconciles(i, p)
  BY DEF PublisherStep, Reconciled, Reconciles

(* Every step is one of these, or leaves the transactions alone.           *)
LEMMA StepTransactions ==
  ASSUME Inv, Next
  PROVE  \/ UNCHANGED <<tx, landed>>
         \/ NewCandidate \/ NewTransaction
         \/ \E i \in DOMAIN tx, p \in TxPhases : Reconciles(i, p)
<1> USE DEF Goto, Same, remote, process
<1>1. CASE OpenGeneration
  BY <1>1 DEF OpenGeneration, KeepsCandidate, NewCandidate
<1>2. CASE PublishNew
  <2>1. ck.pub \in DOMAIN tx
    BY <1>2 DEF PublishNew, Inv, Bound, Shaped, Candidate
  <2> QED
    BY <1>2, <2>1 DEF PublishNew, NewTransaction
<1>3. CASE PublishStep
  <2>1. ck.pub \in DOMAIN tx
    BY <1>3 DEF PublishStep, Inv, Bound, Shaped, Candidate
  <2> QED
    BY <1>3, <2>1, ReconcilesStep DEF PublishStep
<1>4. CASE Preflight
  BY <1>4, ReconcilesStep DEF Preflight
<1>5. ASSUME Initialize \/ Cycle \/ Transition \/ Resume PROVE UNCHANGED <<tx, landed>>
  BY <1>5 DEF Initialize, RecoverInterrupted, Rebind, Cycle, PromotePauses, ResumePause, Promote,
              Select, Idle, Claim, Transition, Resume, Enter, Load, Republish
<1>6. ASSUME Budget \/ Session, ~OpenGeneration PROVE UNCHANGED <<tx, landed>>
  BY <1>6 DEF Budget, PlanExhausted, Salvage, BuildContext, Session, StagesDone, StagePassed,
              ValueFailure, StageRefused, StageBackendWait, StageFinding, StageTripped
<1>7. ASSUME Prepare \/ Publish, ~PublishNew, ~PublishStep PROVE UNCHANGED <<tx, landed>>
  BY <1>7 DEF Prepare, Freeze, Gates, Manifest, Release, Publish, PublishStuck, PublishPending,
              PublishFailed, PublishVerified
<1>8. ASSUME Repair \/ InstallSnapshot PROVE UNCHANGED <<tx, landed>>
  BY <1>8 DEF Repair, NothingToRepair, PrepareRepair, ArchiveCheckpoint, RemoveCheckpoint,
     Reopen, CommitRepair, RepairRaises,
     InstallSnapshot, Recovering
<1> QED
  BY <1>1, <1>2, <1>3, <1>4, <1>5, <1>6, <1>7, <1>8
     DEF Next, Step, Work, Restart, RecordEvidence, QuarantineCheckpoint, Crash, LoseLease, MainMoves

(* Candidates are never forgotten. *)
LEMMA CandidatesGrow ==
  ASSUME Inv, Next
  PROVE  /\ Candidate \in Nat /\ Candidate' \in Nat /\ Candidate' >= Candidate
         /\ DOMAIN tx = 1 .. Candidate /\ DOMAIN tx' = 1 .. Candidate'
<1> USE DEF Inv, Shaped, Candidate
<1>1. CASE UNCHANGED <<tx, landed>>
  BY <1>1
<1>2. CASE NewCandidate
  BY <1>2 DEF NewCandidate, TxPhases
<1>3. CASE NewTransaction
  <2>1. "prepared" \in TxPhases
    BY DEF TxPhases
  <2> QED
    BY <1>3, <2>1, PhaseChange DEF NewTransaction
<1>4. ASSUME NEW i \in DOMAIN tx, NEW p \in TxPhases, Reconciles(i, p)
      PROVE  tx' \in Seq(TxPhases) /\ Len(tx') = Len(tx)
  BY <1>4, PhaseChange DEF Reconciles
<1> QED
  BY <1>1, <1>2, <1>3, <1>4, StepTransactions

(* The generation after a stale checkpoint is opened, or nothing is saved. *)
LEMMA RenewedStep ==
  ASSUME Next, pc = "renewed"
  PROVE  OpenGeneration \/ UNCHANGED ck
  BY DEF Next, Step, Work, Repair, NothingToRepair, PrepareRepair, ArchiveCheckpoint,
           RemoveCheckpoint, Reopen, CommitRepair, RepairRaises, Recovering, InstallSnapshot,
           Restart, Initialize, RecoverInterrupted, Rebind, Cycle, PromotePauses, ResumePause, Promote, Select, Idle, Claim, Transition, Resume, Enter,
           Load, Republish, Budget, PlanExhausted, Salvage, BuildContext, Session, StagesDone,
           StagePassed, InSession, ValueFailure, StageRefused, StageBackendWait, StageFinding,
           StageTripped, Prepare, Freeze, Gates, Manifest, Release, Publish, PublishNew,
           PublishStep, PublishStuck, PublishPending, PublishFailed, PublishVerified,
           RecordEvidence, QuarantineCheckpoint, Crash, LoseLease, LeasedSteps, MainMoves, Preflight

(* Transactions stay with the candidate the checkpoint names: a new one    *)
(* has none yet.                                                           *)
LEMMA PreparedNext ==
  ASSUME Inv, Prepared, Next
  PROVE  Prepared'
<1>1. Updates
  BY StepUpdates DEF Inv
<1>2. /\ Candidate \in Nat /\ Candidate' \in Nat /\ Candidate' >= Candidate
      /\ DOMAIN tx = 1 .. Candidate /\ DOMAIN tx' = 1 .. Candidate'
  BY CandidatesGrow
<1>3. CASE UNCHANGED <<tx, landed>>
  <2>1. Candidate' = Candidate
    BY <1>3 DEF Candidate
  <2>2. ck'.pub = ck.pub \/ ck'.pub = Candidate \/ pc = "renewed"
    BY <1>1 DEF Updates
  <2>3. CASE pc = "renewed"
    <3>1. OpenGeneration \/ UNCHANGED ck
      BY <2>3, RenewedStep
    <3>2. ~OpenGeneration
      <4>1. Len(Append(tx, "none")) = Len(tx) + 1 /\ Len(tx) \in Nat
        BY DEF Inv, Shaped, TxPhases
      <4>2. tx # Append(tx, "none")
        BY <4>1
      <4>3. OpenGeneration => tx' = Append(tx, "none")
        BY <2>3 DEF OpenGeneration, KeepsCandidate, InPlace
      <4> QED
        BY <1>3, <4>2, <4>3
    <3> QED
      BY <1>3, <2>1, <3>1, <3>2 DEF Prepared
  <2> QED
    BY <1>3, <2>1, <2>2, <2>3 DEF Prepared
<1>4. CASE NewCandidate
  BY <1>2, <1>4 DEF NewCandidate, Prepared, Candidate, Inv, Shaped, TxPhases
<1>5. CASE NewTransaction
  BY <1>2, <1>5 DEF NewTransaction, Prepared, Inv, Bound, Candidate
<1>6. ASSUME NEW i \in DOMAIN tx, NEW p \in TxPhases, Reconciles(i, p)
      PROVE  Prepared'
  BY <1>2, <1>6 DEF Reconciles, Prepared, Candidate
<1> QED
  BY <1>3, <1>4, <1>5, <1>6, StepTransactions

(* What a step does to an objection: only the report of a reviewing role   *)
(* raises one, and the branch name is given to new candidates and to       *)
(* salvaged ones, which nobody has objected to.                            *)
LEMMA StepObjections ==
  ASSUME Next
  PROVE  \/ ~objected'
         \/ pc = "stage" /\ pc' = "value" /\ UNCHANGED tx
         \/ /\ UNCHANGED objected /\ (named' => named)
            /\ pc = "value" => pc' = "value" \/ ~named'
<1> USE DEF Goto, MoveTo, Lost, Raise, Fails, CloseAnd, Tainted, Same, process, remote
<1>1. CASE OpenGeneration
  BY <1>1 DEF OpenGeneration, KeepsCandidate, InPlace
<1>2. ASSUME Initialize \/ Cycle \/ Transition PROVE UNCHANGED objected /\ (named' => named) /\ pc # "value"
  BY <1>2 DEF Initialize, RecoverInterrupted, Rebind, Cycle, PromotePauses, ResumePause, Promote,
              PromoteReview, PromoteExternal, PromoteWork, Select, Idle, Claim, Transition
<1>3. ASSUME Resume PROVE UNCHANGED objected /\ (named' => named) /\ pc # "value"
  BY <1>3 DEF Resume, Enter, Load, Republish
<1>4. ASSUME Budget \/ Session, ~OpenGeneration, ~StagePassed, ~ValueFailure
      PROVE UNCHANGED objected /\ (named' => named) /\ pc # "value"
  BY <1>4 DEF Budget, PlanExhausted, Salvage, BuildContext, Session, StagesDone, InSession,
              StageRefused, StageBackendWait, StageFinding, StageTripped
<1>5. CASE StagePassed
  BY <1>5 DEF StagePassed, InSession
<1>6. CASE ValueFailure
  BY <1>6 DEF ValueFailure
<1>7. ASSUME Prepare \/ Publish PROVE UNCHANGED objected /\ (named' => named) /\ pc # "value"
  BY <1>7 DEF Prepare, Freeze, Gates, Manifest, EvidenceRefused, ValueRefused, ValueDecided,
              PublicationPrepared, Release, Publish, PublishNew, PublishStep, PublishStuck,
              PublishPending, PublishFailed, PublishVerified
<1>8. ASSUME Restart \/ RecordEvidence \/ QuarantineCheckpoint \/ LoseLease \/ Preflight
      PROVE UNCHANGED objected /\ (named' => named) /\ pc # "value"
  BY <1>8 DEF Restart, RecordEvidence, QuarantineCheckpoint, LoseLease, LeasedSteps, Preflight
<1>9. CASE Crash \/ MainMoves
  BY <1>9 DEF Crash, MainMoves
<1>10. ASSUME Repair \/ InstallSnapshot PROVE UNCHANGED objected /\ (named' => named) /\ pc # "value"
  BY <1>10 DEF Repair, NothingToRepair, PrepareRepair, ArchiveCheckpoint, RemoveCheckpoint,
     Reopen, CommitRepair, RepairRaises,
     InstallSnapshot, Recovering
<1> QED
  BY <1>1, <1>2, <1>3, <1>4, <1>5, <1>6, <1>7, <1>8, <1>9, <1>10 DEF Next, Step, Work

(* An objection stays without a transaction, whichever step follows a      *)
(* death between the review's record and value_redesign_failure.           *)
LEMMA HeededNext ==
  ASSUME Inv, Prepared, Heeded, Next
  PROVE  Heeded'
<1>1. /\ Candidate \in Nat /\ Candidate' \in Nat
      /\ DOMAIN tx = 1 .. Candidate /\ DOMAIN tx' = 1 .. Candidate'
  BY CandidatesGrow
<1>2. SUFFICES ASSUME objected' PROVE Heeded'
  BY DEF Heeded
<1>3. CASE pc = "stage" /\ pc' = "value" /\ UNCHANGED tx
  <2>1. ck.pub = 0 /\ Candidate > 0 /\ Candidate' = Candidate
    BY <1>3 DEF Inv, Bound, Working, Candidate
  <2> QED
    BY <1>3, <2>1 DEF Prepared, Heeded
<1>4. CASE /\ UNCHANGED objected /\ (named' => named)
           /\ pc = "value" => pc' = "value" \/ ~named'
  <2>1. /\ Candidate > 0 /\ tx[Candidate] = "none"
        /\ pc' # "value" => ~named'
    BY <1>2, <1>4 DEF Heeded
  <2>2. ~NewCandidate /\ ~NewTransaction
    BY <1>2, <1>4 DEF Heeded, NewCandidate, NewTransaction, Publishable
  <2>3. CASE UNCHANGED <<tx, landed>>
    BY <2>1, <2>3 DEF Heeded, Candidate
  <2>4. ASSUME NEW i \in DOMAIN tx, NEW p \in TxPhases, Reconciles(i, p)
        PROVE  Heeded'
    <3>1. i # Candidate
      BY <2>1, <2>4 DEF Reconciles
    <3>2. Candidate' = Candidate /\ tx'[Candidate] = tx[Candidate]
      BY <1>1, <2>4, <3>1, PhaseChange DEF Reconciles, Candidate, Inv, Shaped
    <3> QED
      BY <2>1, <3>2 DEF Heeded
  <2> QED
    BY <2>2, <2>3, <2>4, StepTransactions
<1> QED
  BY <1>2, <1>3, <1>4, StepObjections

(* The budgets and bounds, one by one.                                     *)
LEMMA BoundsAreNat ==
  /\ MaxCrashes \in Nat /\ MaxLeaseLosses \in Nat /\ MaxMoves \in Nat
  /\ MaxPlan \in Nat /\ MaxRepair \in Nat /\ MaxRestarts \in Nat /\ MaxRechecks \in Nat
  /\ MaxRedesigns \in Nat \ {0} /\ Roles \in Nat \ {0}
  BY BudgetAssumption

(* Going on to the next step.                                              *)
LEMMA GotoTyped ==
  ASSUME ProcessTyped, NEW t \in Steps, Goto(t)
  PROVE  ProcessTyped'
  BY DEF ProcessTyped, Goto, process

(* Asking for a status change.                                             *)
LEMMA MoveToTyped ==
  ASSUME ProcessTyped, NEW s \in WorkStatus, NEW t \in Steps, MoveTo(s, t)
  PROVE  ProcessTyped'
<1>1. "move" \in Steps
  BY DEF Steps
<1> QED
  BY <1>1 DEF ProcessTyped, MoveTo

(* An exception or a failure.                                              *)
LEMMA LostTyped ==
  ASSUME ProcessTyped
  PROVE  /\ Raise => ProcessTyped'
         /\ Fails => ProcessTyped'
<1>1. "down" \in Steps /\ NoGoal \in [to : WorkStatus, then : Steps]
  BY DEF Steps, WorkStatus, NoGoal
<1>2. Raise => ProcessTyped'
  BY <1>1 DEF ProcessTyped, Raise, Lost
<1>3. ASSUME Fails PROVE ProcessTyped'
  <2>1. crashes' \in 0..MaxCrashes
    BY <1>3, BoundsAreNat DEF ProcessTyped, Fails
  <2> QED
    BY <1>1, <1>3, <2>1 DEF ProcessTyped, Fails, Lost
<1> QED
  BY <1>2, <1>3

(* The statuses and steps control goes to. *)
LEMMA StepNames ==
  /\ {"down", "recover", "rebind", "repair", "archive", "reopen", "repaired", "pauses", "promote", "schedule", "claim", "enter", "load",
      "renewed", "republish", "plan", "salvaged", "context", "stage", "trip", "value", "freeze",
      "gates", "manifest", "release", "publish", "move", "record", "quarantine"} \subseteq Steps
  /\ {"READY", "QUEUED", "RUNNING", "PAUSED_BACKEND", "WAITING_EXTERNAL", "BLOCKED_TECHNICAL",
      "BLOCKED_POLICY", "PASSED_ENGINEERING", "NATIVE_SUFFICIENT", "REJECTED_VALUE"}
       \subseteq WorkStatus
  BY DEF Steps, WorkStatus

(* Every step leaves the process's memory well-formed.                     *)
LEMMA ProcessTypedNext ==
  ASSUME ProcessTyped, Next
  PROVE  ProcessTyped'
<1> USE GotoTyped, MoveToTyped, LostTyped, StepNames DEF CloseAnd, Tainted
<1>1. ASSUME Initialize \/ Cycle PROVE ProcessTyped'
  BY <1>1 DEF Initialize, RecoverInterrupted, Rebind, Cycle, PromotePauses, ResumePause,
     Promote, PromoteReview, PromoteExternal, PromoteWork, Select, Idle, Claim
<1>2. CASE Transition
  <2>1. goal.then \in Steps /\ NoGoal \in [to : WorkStatus, then : Steps]
    BY DEF ProcessTyped, NoGoal, Steps, WorkStatus
  <2>2. CASE LegalTransition(status, goal.to)
    BY <1>2, <2>1, <2>2 DEF Transition, ProcessTyped
  <2> QED
    BY <1>2, <2>2 DEF Transition
<1>3. ASSUME Resume PROVE ProcessTyped'
  BY <1>3 DEF Resume, Enter, Load, Republish, ProcessTyped
<1>4. ASSUME Budget PROVE ProcessTyped'
  BY <1>4 DEF Budget, PlanExhausted, Salvage, OpenGeneration, BuildContext, ProcessTyped
<1>5. ASSUME Session PROVE ProcessTyped'
  BY <1>5 DEF Session, StagesDone, StagePassed, ValueFailure, InSession,
              StageRefused, StageBackendWait, StageFinding, StageTripped
<1>6. ASSUME Prepare PROVE ProcessTyped'
  BY <1>6 DEF Prepare, Freeze, Gates, Manifest, EvidenceRefused, ValueRefused, ValueDecided,
              PublicationPrepared, Release, ProcessTyped
<1>7. ASSUME Publish PROVE ProcessTyped'
  BY <1>7 DEF Publish, PublishNew, PublishStep, PublishStuck,
              PublishPending, PublishFailed, PublishVerified
<1>8. ASSUME Restart \/ RecordEvidence \/ QuarantineCheckpoint \/ Crash
      PROVE  ProcessTyped'
  BY <1>8 DEF Restart, RecordEvidence, QuarantineCheckpoint, Crash
<1>9. CASE LoseLease
  BY <1>9, BoundsAreNat DEF LoseLease, ProcessTyped
<1>10. CASE MainMoves \/ Preflight
  BY <1>10 DEF MainMoves, Preflight, ProcessTyped, process
<1>11. ASSUME Repair \/ InstallSnapshot PROVE ProcessTyped'
  BY <1>11 DEF Repair, NothingToRepair, PrepareRepair, ArchiveCheckpoint, RemoveCheckpoint,
     Reopen, CommitRepair, RepairRaises,
     InstallSnapshot, Recovering, ProcessTyped, process
<1> QED
  BY <1>1, <1>2, <1>3, <1>4, <1>5, <1>6, <1>7, <1>8, <1>9, <1>10, <1>11 DEF Next, Step, Work

(* What is on record changes where the item moves, in the publisher and    *)
(* where a generation or a review begins.                                  *)
LEMMA ItemTypedNext ==
  ASSUME Inv, ProcessTyped, ItemTyped, Next
  PROVE  ItemTyped'
<1>1. Candidate \in Nat /\ Candidate' \in Nat /\ Candidate' >= Candidate
  BY CandidatesGrow
<1>2. Same => ItemTyped'
  BY DEF Same, ItemTyped, item, remote, Candidate
<1>3. evidence' = evidence => evidence' \in 0..(Candidate' + 1)
  <2>1. evidence \in 0..(Candidate + 1)
    BY DEF ItemTyped
  <2>2. \A m, n \in Nat : n >= m => \A e \in 0..(m + 1) : e \in 0..(n + 1)
    OBVIOUS
  <2> QED
    BY <1>1, <2>1, <2>2
<1>4. moves < MaxMoves /\ moves' = moves + 1 => moves' \in 0..MaxMoves
  BY BoundsAreNat DEF ItemTyped
<1>5. ASSUME UNCHANGED <<evidence, kind, fresh, moves, objected>>, status' \in WorkStatus
      PROVE  ItemTyped'
  BY <1>5, <1>3 DEF ItemTyped
<1>6. ASSUME UNCHANGED item, fresh' \in BOOLEAN, moves' \in 0..MaxMoves, objected' \in BOOLEAN
      PROVE  ItemTyped'
  BY <1>6, <1>3 DEF ItemTyped, item
<1>7. fresh \in BOOLEAN /\ moves \in 0..MaxMoves /\ objected \in BOOLEAN
  BY DEF ItemTyped
<1>8. ASSUME NEW i, NEW p, PublisherStep(i, p)
      PROVE  fresh' \in BOOLEAN /\ moves' \in 0..MaxMoves
  BY <1>8, <1>7, <1>4 DEF PublisherStep
<1>9. ASSUME Initialize \/ Cycle PROVE ItemTyped'
  BY <1>2, <1>5, <1>9, StepNames DEF Initialize, RecoverInterrupted, Rebind, Cycle, PromotePauses,
     ResumePause, Promote, Select, Idle, Claim, remote, ItemTyped
<1>10. CASE Transition
  <2>1. goal.to \in WorkStatus /\ status \in WorkStatus
    BY DEF ProcessTyped, ItemTyped
  <2> QED
    BY <1>5, <1>10, <2>1 DEF Transition, remote
<1>11. ASSUME Resume PROVE ItemTyped'
  BY <1>2, <1>11 DEF Resume, Enter, Load, Republish
<1>12. CASE OpenGeneration
  BY <1>6, <1>7, <1>12 DEF OpenGeneration
<1>13. CASE Budget /\ ~OpenGeneration
  BY <1>2, <1>13 DEF Budget, PlanExhausted, Salvage, BuildContext
<1>14. ASSUME Session PROVE ItemTyped'
  BY <1>2, <1>6, <1>7, <1>14 DEF Session, StagesDone, StagePassed, ValueFailure,
              StageRefused, StageBackendWait, StageFinding, StageTripped, remote
<1>15. ASSUME Prepare PROVE ItemTyped'
  BY <1>2, <1>15 DEF Prepare, Freeze, Gates, Manifest, Release
<1>16. ASSUME Publish PROVE ItemTyped'
  BY <1>2, <1>6, <1>8, <1>7, <1>16 DEF Publish, PublishNew, PublishStep, PublishStuck,
              PublishPending, PublishFailed, PublishVerified
<1>17. CASE RecordEvidence
  BY <1>1, <1>17 DEF RecordEvidence, ItemTyped, remote
<1>18. CASE LoseLease
  BY <1>5, <1>18, StepNames DEF LoseLease, remote
<1>19. CASE MainMoves
  BY <1>6, <1>7, <1>19, <1>4 DEF MainMoves
<1>20. CASE Preflight
  BY <1>6, <1>8, <1>7, <1>20 DEF Preflight
<1>21. ASSUME Restart \/ QuarantineCheckpoint \/ Crash PROVE ItemTyped'
  BY <1>2, <1>21 DEF Restart, QuarantineCheckpoint, Crash, Same
<1>22. ASSUME Repair \/ InstallSnapshot PROVE ItemTyped'
  BY <1>2, <1>22 DEF Repair, NothingToRepair, PrepareRepair, ArchiveCheckpoint, RemoveCheckpoint,
     Reopen, CommitRepair, RepairRaises,
     InstallSnapshot, Recovering, Same
<1> QED
  BY <1>9, <1>10, <1>11, <1>12, <1>13, <1>14, <1>15, <1>16, <1>17, <1>18, <1>19, <1>20, <1>21, <1>22
     DEF Next, Step, Work

(* Only a value failure counts, and the generation after a stale           *)
(* checkpoint forgets.                                                     *)
LEMMA FailuresKept ==
  ASSUME Inv, Next, pc # "renewed", ~ValueFailure, ~Refill
  PROVE  ck'.failures = ck.failures
<1> ck \in Shape
  BY DEF Inv, Shaped
<1> USE DEF Shape, Save, CloseAnd, Closed, Tainted
<1>1. ASSUME Initialize \/ Cycle \/ Resume PROVE ck'.failures = ck.failures
  BY <1>1 DEF Initialize, RecoverInterrupted, Rebind, Cycle, PromotePauses, ResumePause, Promote,
              Select, Idle, Claim, Resume, Enter, Load, Republish
<1>2. CASE OpenGeneration
  BY <1>2 DEF OpenGeneration, Opened, Planned
<1>3. ASSUME Budget, ~OpenGeneration PROVE ck'.failures = ck.failures
  BY <1>3 DEF Budget, PlanExhausted, Salvage, Planned, BuildContext
<1>4. ASSUME Session PROVE ck'.failures = ck.failures
  BY <1>4 DEF Session, StagesDone, StagePassed, StageRefused, StageBackendWait, StageFinding,
              StageTripped
<1>5. ASSUME Prepare PROVE ck'.failures = ck.failures
  BY <1>5 DEF Prepare, Freeze, Gates, Manifest, EvidenceRefused, ValueRefused, ValueDecided,
              PublicationPrepared, Release
<1>6. ASSUME Publish PROVE ck'.failures = ck.failures
  BY <1>6 DEF Publish, PublishNew, PublishStep, PublishStuck, PublishPending, PublishFailed,
              PublishVerified
<1>7. ASSUME Repair \/ InstallSnapshot PROVE ck' = ck
  BY <1>7, RepairKeeps
<1> QED
  BY <1>1, <1>2, <1>3, <1>4, <1>5, <1>6, <1>7
     DEF Next, Step, Work, Restart, Transition, RecordEvidence, QuarantineCheckpoint, Crash, LoseLease,
         MainMoves, Preflight

(* The parts of a budget that a step may lower, and the roles.             *)
Floor(c) == c.plan >= 0 /\ c.restarts >= 0 /\ c.rechecks >= 0 /\ c.roles \in 0..Roles

(* No step overdraws a budget: each is looked at before it is spent.       *)
LEMMA FloorNext ==
  ASSUME Inv, Budgeted, Next
  PROVE  Floor(ck')
<1> ck \in Shape /\ Floor(ck)
  BY DEF Inv, Shaped, Budgeted, Within, Floor
<1> Roles \in Nat \ {0} /\ MaxPlan \in Nat /\ MaxRestarts \in Nat /\ MaxRechecks \in Nat
  BY BoundsAreNat
<1> USE DEF Shape, Save, CloseAnd, Closed, Tainted, Floor
<1>7. Floor(Closed(ck))
  OBVIOUS
<1>8. CASE Rebind
  BY <1>8 DEF Rebind
<1>9. CASE ResumePause
  BY <1>9 DEF ResumePause
<1>10. CASE Load
  <2> DEFINE d == [Closed(ck) EXCEPT !.roles = 0, !.ready = FALSE]
  <2>1. Floor(d)
    OBVIOUS
  <2> QED
    BY <1>10, <2>1 DEF Load
<1>1. ASSUME Initialize \/ Cycle \/ Resume, ~Rebind, ~ResumePause, ~Load PROVE Floor(ck')
  BY <1>1, <1>7 DEF Initialize, RecoverInterrupted, Cycle, PromotePauses, Promote,
              Select, Idle, Claim, Resume, Enter, Republish
<1>2. CASE OpenGeneration
  BY <1>2 DEF OpenGeneration, Opened, Planned, NoCheckpoint, Budgeted
<1>11. CASE Salvage
  BY <1>11 DEF Salvage, Planned
<1>3. ASSUME Budget, ~OpenGeneration, ~Salvage PROVE Floor(ck')
  BY <1>3, <1>7 DEF Budget, PlanExhausted, BuildContext
<1>12. CASE StageBackendWait
  <2>1. Floor([Closed(ck) EXCEPT !.wait = "backend"])
    OBVIOUS
  <2>2. ck.rechecks > 0 => Floor([ck EXCEPT !.rechecks = @ - 1, !.wait = "backend"])
    OBVIOUS
  <2> QED
    BY <1>12, <2>1, <2>2 DEF StageBackendWait
<1>13. CASE StageFinding
  BY <1>13 DEF StageFinding
<1>14. CASE ValueFailure
  <2> DEFINE c == [ck EXCEPT !.failures = @ + 1]
  <2>1. Floor([c EXCEPT !.roles = 0])
    OBVIOUS
  <2>2. Floor(Closed(c))
    OBVIOUS
  <2> QED
    BY <1>14, <2>1, <2>2 DEF ValueFailure
<1>15. CASE StagePassed
  BY <1>15 DEF StagePassed, InSession
<1>4. ASSUME Session, ~StageBackendWait, ~StageFinding, ~ValueFailure, ~StagePassed
      PROVE  Floor(ck')
  BY <1>4, <1>7 DEF Session, StagesDone, StageRefused, StageTripped
<1>5. ASSUME Prepare PROVE Floor(ck')
  BY <1>5 DEF Prepare, Freeze, Gates, Manifest, EvidenceRefused, ValueRefused, ValueDecided,
              PublicationPrepared, Release
<1>6. ASSUME Publish PROVE Floor(ck')
  BY <1>6 DEF Publish, PublishNew, PublishStep, PublishStuck, PublishPending, PublishFailed,
              PublishVerified
<1>16. ASSUME Repair \/ InstallSnapshot PROVE Floor(ck')
  <2>1. Floor(NoCheckpoint)
    BY DEF NoCheckpoint
  <2> QED
    BY <1>16, <2>1 DEF Repair, NothingToRepair, PrepareRepair, ArchiveCheckpoint, RemoveCheckpoint,
       Reopen, CommitRepair, RepairRaises, InstallSnapshot
<1> QED
  BY <1>1, <1>2, <1>3, <1>4, <1>5, <1>6, <1>8, <1>9, <1>10, <1>11, <1>12, <1>13, <1>14, <1>15, <1>16
     DEF Next, Step, Work, Restart, Transition, RecordEvidence, QuarantineCheckpoint, Crash, LoseLease,
         MainMoves, Preflight

(* A checkpoint comes into being only where a generation is opened.        *)
LEMMA CheckpointOpened ==
  ASSUME Inv, Next, ~Refill
  PROVE  /\ ck'.state = "none" => ck.state = "none"
         /\ ck'.state # "none" => ck.state # "none" \/ OpenGeneration
         /\ ck'.ready => ck.ready \/ ck'.state # "none"
<1> ck \in Shape
  BY DEF Inv, Shaped
<1> DEFINE Goal == /\ ck'.state = "none" => ck.state = "none"
                   /\ ck'.state # "none" => ck.state # "none" \/ OpenGeneration
                   /\ ck'.ready => ck.ready \/ ck'.state # "none"
<1> USE DEF Shape, Save, CloseAnd, Closed, Tainted
<1>1. UNCHANGED ck \/ ck' = Closed(ck) => Goal
  OBVIOUS
<1>2. CASE Rebind
  BY <1>1, <1>2 DEF Rebind
<1>3. CASE ResumePause
  BY <1>3 DEF ResumePause, ResumeContract
<1>4. CASE Load
  BY <1>1, <1>4 DEF Load
<1>5. ASSUME Initialize \/ Cycle \/ Resume, ~Rebind, ~ResumePause, ~Load PROVE Goal
  BY <1>1, <1>5 DEF Initialize, RecoverInterrupted, Cycle, PromotePauses, Promote,
              Select, Idle, Claim, Resume, Enter, Republish
<1>6. CASE OpenGeneration
  BY <1>6 DEF OpenGeneration, Opened, Planned, NoCheckpoint
<1>7. CASE Salvage
  BY <1>7 DEF Salvage, Planned
<1>8. ASSUME Budget, ~OpenGeneration, ~Salvage PROVE Goal
  BY <1>1, <1>8 DEF Budget, PlanExhausted, BuildContext
<1>9. CASE StageBackendWait
  BY <1>9 DEF StageBackendWait
<1>10. CASE StageFinding
  BY <1>10 DEF StageFinding
<1>11. CASE ValueFailure
  BY <1>11 DEF ValueFailure
<1>12. CASE StagePassed
  BY <1>12 DEF StagePassed
<1>13. ASSUME Session, ~StageBackendWait, ~StageFinding, ~ValueFailure, ~StagePassed
       PROVE  Goal
  <2>1. CASE StageTripped
    BY <2>1 DEF StageTripped, Inv, Opening, Working
  <2> QED
    BY <1>1, <1>13, <2>1 DEF Session, StagesDone, StageRefused
<1>14. CASE Manifest
  BY <1>1, <1>14 DEF Manifest, EvidenceRefused, ValueRefused, ValueDecided, PublicationPrepared
<1>15. ASSUME Prepare, ~Manifest PROVE Goal
  BY <1>1, <1>15 DEF Prepare, Freeze, Gates, Release
<1>16. CASE PublishPending \/ PublishVerified
  BY <1>1, <1>16 DEF PublishPending, PublishVerified
<1>17. ASSUME Publish, ~PublishPending, ~PublishVerified PROVE Goal
  BY <1>1, <1>17 DEF Publish, PublishNew, PublishStep, PublishStuck, PublishFailed
<1>18. CASE QuarantineCheckpoint
  BY <1>18 DEF QuarantineCheckpoint
<1>19. ASSUME Repair \/ InstallSnapshot PROVE Goal
  BY <1>1, <1>19, RepairKeeps
<1> QED
  BY <1>1, <1>2, <1>3, <1>4, <1>5, <1>6, <1>7, <1>8, <1>9, <1>10, <1>11, <1>12, <1>13, <1>14,
     <1>15, <1>16, <1>17, <1>18, <1>19
     DEF Next, Step, Work, Restart, Transition, RecordEvidence, Crash, LoseLease, MainMoves, Preflight

(* Only Load leads to the generation after a stale checkpoint, and only    *)
(* Salvage to the one after a lost worktree.                               *)
LEMMA SuccessorHasCheckpoint ==
  ASSUME Inv, Next, pc' \in {"renewed", "salvaged"}, pc \notin {"renewed", "salvaged"}
  PROVE  ck.state # "none"
<1> goal.then \notin {"renewed", "salvaged"}
  BY DEF Inv, Shaped, After
<1> USE DEF Goto, MoveTo, Lost, Raise, Fails, CloseAnd, Tainted
<1>1. ASSUME Initialize \/ Cycle \/ Transition \/ Budget PROVE ck.state # "none"
  BY <1>1 DEF Initialize, RecoverInterrupted, Rebind, Cycle, PromotePauses, ResumePause, Promote,
     PromoteReview, PromoteExternal, PromoteWork, Select, Idle, Claim, Transition, Budget,
     PlanExhausted, Salvage, OpenGeneration, BuildContext
<1>2. ASSUME Resume PROVE ck.state # "none"
  BY <1>2 DEF Resume, Enter, Load, Republish
<1>3. ASSUME Session \/ Prepare PROVE FALSE
  BY <1>3 DEF Session, StagesDone, StagePassed, ValueFailure, InSession, StageRefused,
     StageBackendWait, StageFinding, StageTripped, Prepare, Freeze, Gates, Manifest,
     EvidenceRefused, ValueRefused, ValueDecided, PublicationPrepared, Release
<1>4. ASSUME Publish PROVE FALSE
  BY <1>4 DEF Publish, PublishNew, PublishStep, PublishStuck, PublishPending, PublishFailed,
     PublishVerified
<1>5. ASSUME Repair \/ InstallSnapshot PROVE FALSE
  BY <1>5 DEF Repair, NothingToRepair, PrepareRepair, ArchiveCheckpoint, RemoveCheckpoint,
     Reopen, CommitRepair, RepairRaises,
     InstallSnapshot, Recovering
<1> QED
  BY <1>1, <1>2, <1>3, <1>4, <1>5
     DEF Next, Step, Work, Restart, RecordEvidence, QuarantineCheckpoint, Crash, LoseLease, MainMoves,
         Preflight

(* Every step keeps the budgets in range (_execute, line 2788;             *)
(* initialize).                                                            *)
LEMMA BudgetedNext ==
  ASSUME Inv, Budgeted, Redesigns, Next
  PROVE  Budgeted'
<1>1. Updates /\ Floor(ck')
  BY StepUpdates, FloorNext DEF Inv
<1>2. ck \in Shape /\ ck' \in Shape /\ Within(ck)
  BY <1>1 DEF Inv, Shaped, Updates, Budgeted
<1>3. /\ MaxPlan \in Nat /\ MaxRepair \in Nat /\ MaxRestarts \in Nat /\ MaxRechecks \in Nat
      /\ MaxRedesigns \in Nat \ {0} /\ Roles \in Nat \ {0}
  BY BoundsAreNat
<1>8. SUFFICES ASSUME ~Refill PROVE Budgeted'
  <2>1. ASSUME Refill PROVE Budgeted'
    BY <1>3, <2>1 DEF Refill, NoCheckpoint, Budgeted, Within
  <2> QED
    BY <2>1
<1>4. Within(ck')
  <2>1. CASE UNCHANGED ck
    BY <1>2, <2>1
  <2>2. CASE pc = "renewed" /\ OpenGeneration
    <3>1. /\ ck'.plan <= MaxPlan /\ ck'.repair = MaxRepair /\ ck'.restarts = MaxRestarts
          /\ ck'.rechecks = MaxRechecks /\ ck'.failures = 0
      BY <1>3, <2>2 DEF OpenGeneration, Save, Opened, Planned, NoCheckpoint
    <3> QED
      BY <1>1, <1>2, <1>3, <3>1 DEF Within, Floor, Shape
  <2>3. CASE pc # "renewed"
    <3>1. Spends(ck, ck')
      BY <1>1, <1>8, <2>3 DEF Updates
    <3>2. ck'.failures <= MaxRedesigns + 1
      <4>1. CASE ValueFailure
        <5>1. ck.failures <= MaxRedesigns
          BY <1>2, <1>3, <4>1 DEF ValueFailure, Redesigns, GivenUp, Within
        <5>2. ck'.failures = ck.failures + 1
          BY <1>2, <4>1 DEF ValueFailure, Save, Closed, Shape
        <5> QED
          BY <1>2, <1>3, <5>1, <5>2 DEF Within
      <4> QED
        BY <1>2, <1>3, <1>8, <2>3, <4>1, FailuresKept DEF Within
    <3> QED
      BY <1>1, <1>2, <1>3, <3>1, <3>2 DEF Within, Floor, Shape, Spends
  <2> QED
    BY <2>1, <2>2, <2>3, RenewedStep
<1>5. OpenGeneration => MaxPlan > 0
  BY <1>2, <1>3 DEF OpenGeneration, Budgeted, Within, Inv, Bound
<1>6. ck'.state # "none" => MaxPlan > 0
  BY <1>5, <1>8, CheckpointOpened DEF Budgeted
<1>7. ck'.ready \/ pc' \in {"renewed", "salvaged"} => ck'.state # "none"
  BY <1>8, CheckpointOpened, SuccessorHasCheckpoint DEF Budgeted
<1> QED
  BY <1>4, <1>6, <1>7 DEF Budgeted

(* What a step makes of an item that is not given up: its failures exceed  *)
(* the redesigns only where it is about to be blocked.                     *)
LEMMA FailuresCounted ==
  ASSUME Inv, Budgeted, Next, ck.failures <= MaxRedesigns, ck'.failures > MaxRedesigns
  PROVE  GivenUp'
<1>1. ck \in Shape /\ MaxRedesigns \in Nat /\ ck.failures \in Int
  BY BoundsAreNat DEF Inv, Shaped, Shape
<1>2. pc # "renewed"
  <2>1. OpenGeneration /\ pc = "renewed" => ck'.failures = 0
    BY DEF OpenGeneration, Save, Opened, Planned, NoCheckpoint
  <2>2. UNCHANGED ck => ck'.failures = ck.failures
    OBVIOUS
  <2> QED
    BY <1>1, <2>1, <2>2, RenewedStep
<1>3. ValueFailure
  <2>1. Refill => ck'.failures = 0
    BY DEF Refill, NoCheckpoint
  <2> QED
    BY <1>1, <1>2, <2>1, FailuresKept
<1>4. ck.failures >= MaxRedesigns /\ ck' = Closed([ck EXCEPT !.failures = @ + 1])
      /\ MoveTo("BLOCKED_POLICY", "recover")
  <2> DEFINE c == [ck EXCEPT !.failures = @ + 1]
  <2>1. [c EXCEPT !.roles = 0].failures = ck.failures + 1
    BY <1>1 DEF Shape
  <2> HIDE DEF c
  <2>2. ck.failures < MaxRedesigns => ck' # [c EXCEPT !.roles = 0]
    <3>1. ck' = [c EXCEPT !.roles = 0] => ck'.failures = ck.failures + 1
      BY <2>1
    <3> QED
      BY <1>1, <3>1
  <2>3. \/ ck.failures < MaxRedesigns /\ ck' = [c EXCEPT !.roles = 0]
        \/ ck.failures >= MaxRedesigns /\ ck' = Closed(c) /\ MoveTo("BLOCKED_POLICY", "recover")
    BY <1>3 DEF ValueFailure, Save, c
  <2> QED
    BY <2>2, <2>3 DEF c
<1>5. ck'.state = "inactive"
  BY <1>1, <1>3, <1>4 DEF Closed, Shape, ValueFailure, Inv, Opening, Working
<1>6. status' = "RUNNING"
  BY <1>3 DEF ValueFailure, item, Inv, Located, Executing, Working
<1> QED
  BY <1>4, <1>5, <1>6 DEF GivenUp, MoveTo

(* Nothing takes up an item that is given up. *)
LEMMA GivenUpNext ==
  ASSUME Inv, GivenUp, Redesigns, Next
  PROVE  GivenUp'
<1> USE DEF Goto, MoveTo, Lost, Raise, Fails, CloseAnd, Tainted, Same, item
<1>1. CASE Initialize
  BY <1>1 DEF Initialize, RecoverInterrupted, Rebind, GivenUp
<1>2. CASE Cycle
  BY <1>2 DEF Cycle, PromotePauses, ResumePause, Promote, Select, Idle, Claim, GivenUp
<1>3. CASE Transition
  BY <1>3 DEF Transition, GivenUp
<1>4. ASSUME Resume \/ Budget \/ Session PROVE FALSE
  BY <1>4 DEF GivenUp, Resume, Enter, Load, Republish, Budget, PlanExhausted, Salvage,
     OpenGeneration, BuildContext, Session, StagesDone, StagePassed, ValueFailure, InSession,
     StageRefused, StageBackendWait, StageFinding, StageTripped
<1>5. ASSUME Prepare \/ Publish \/ RecordEvidence \/ QuarantineCheckpoint \/ LoseLease PROVE FALSE
  BY <1>5 DEF GivenUp, Prepare, Freeze, Gates, Manifest, Release, Publish, PublishNew, PublishStep,
     PublishStuck, PublishPending, PublishFailed, PublishVerified, RecordEvidence,
     QuarantineCheckpoint, LoseLease, LeasedSteps
<1>6. ASSUME Restart \/ Crash \/ MainMoves \/ Preflight PROVE GivenUp'
  BY <1>6 DEF GivenUp, Restart, Crash, MainMoves, Preflight, process
<1>7. ASSUME Repair \/ InstallSnapshot PROVE GivenUp'
  BY <1>7 DEF GivenUp, Repair, NothingToRepair, PrepareRepair, ArchiveCheckpoint, RemoveCheckpoint,
     Reopen, CommitRepair, RepairRaises,
     InstallSnapshot, Recovering, Repairable, process
<1> QED
  BY <1>1, <1>2, <1>3, <1>4, <1>5, <1>6, <1>7 DEF Next, Step, Work

(* An item is claimed right after it was queued. *)
LEMMA ClaimedNext ==
  ASSUME Inv, Redesigns, Next
  PROVE  /\ pc' = "claim" => status' = "QUEUED"
         /\ pc' = "move" /\ goal'.then = "claim" => goal'.to = "QUEUED"
<1> USE DEF Goto, MoveTo, NoGoal, Lost, Raise, Fails, CloseAnd, Tainted, Same, item, process, Redesigns
<1>1. CASE Initialize
  BY <1>1 DEF Initialize, RecoverInterrupted, Rebind
<1>2. CASE Cycle
  BY <1>2 DEF Cycle, PromotePauses, ResumePause, Promote, PromoteReview, PromoteExternal,
              PromoteWork, Select, Idle, Claim
<1>3. CASE Transition
  BY <1>3 DEF Transition
<1>4. ASSUME Resume \/ Budget PROVE pc' # "claim" /\ (pc' = "move" => goal'.then # "claim")
  BY <1>4 DEF Resume, Enter, Load, Republish, Budget, PlanExhausted, Salvage,
     OpenGeneration, BuildContext
<1>5. ASSUME Session PROVE pc' # "claim" /\ (pc' = "move" => goal'.then # "claim")
  BY <1>5 DEF Session, StagesDone, StagePassed, ValueFailure, InSession,
     StageRefused, StageBackendWait, StageFinding, StageTripped
<1>6. ASSUME Prepare PROVE pc' # "claim" /\ (pc' = "move" => goal'.then # "claim")
  BY <1>6 DEF Prepare, Freeze, Gates, Manifest, EvidenceRefused, ValueRefused, ValueDecided,
     PublicationPrepared, Release
<1>7. ASSUME Publish PROVE pc' # "claim" /\ (pc' = "move" => goal'.then # "claim")
  BY <1>7 DEF Publish, PublishNew, PublishStep,
     PublishStuck, PublishPending, PublishFailed, PublishVerified
<1>8. ASSUME \/ Restart \/ RecordEvidence \/ QuarantineCheckpoint \/ LoseLease \/ Crash
             \/ MainMoves \/ Preflight
      PROVE  /\ pc' = "claim" => status' = "QUEUED"
             /\ pc' = "move" /\ goal'.then = "claim" => goal'.to = "QUEUED"
  BY <1>8 DEF Restart, RecordEvidence, QuarantineCheckpoint, LoseLease, Crash, MainMoves, Preflight
<1>9. ASSUME Repair \/ InstallSnapshot
      PROVE  /\ pc' = "claim" => status' = "QUEUED"
             /\ pc' = "move" /\ goal'.then = "claim" => goal'.to = "QUEUED"
  BY <1>9 DEF Repair, NothingToRepair, PrepareRepair, ArchiveCheckpoint, RemoveCheckpoint,
     Reopen, CommitRepair, RepairRaises,
     InstallSnapshot, Recovering
<1> QED
  BY <1>1, <1>2, <1>3, <1>4, <1>5, <1>6, <1>7, <1>8, <1>9 DEF Next, Step, Work

(* Every step keeps to the bound on redesigns.                             *)
LEMMA RedesignsNext ==
  ASSUME Inv, Budgeted, Redesigns, Next
  PROVE  Redesigns'
<1>1. ck.failures \in Int /\ ck'.failures \in Int /\ MaxRedesigns \in Nat
  BY StepUpdates, BoundsAreNat DEF Inv, Shaped, Updates, Shape
<1>2. ck'.failures > MaxRedesigns => GivenUp'
  BY <1>1, FailuresCounted, GivenUpNext DEF Redesigns
<1> QED
  BY <1>2, ClaimedNext DEF Redesigns

(* The record of an item that was never executed.                          *)
LEMMA RecordInit == Init => RecordInv
<1>1. \A s \in {"PROPOSED", "WAITING_EXTERNAL"} : s \in WorkStatus
  BY DEF WorkStatus
<1>2. ASSUME Init PROVE ProcessTyped /\ ItemTyped
  <2>1. /\ NoGoal \in [to : WorkStatus, then : Steps] /\ "down" \in Steps
        /\ 0 \in 0..MaxCrashes /\ 0 \in 0..MaxLeaseLosses /\ 0 \in 0..MaxMoves
    BY BoundsAreNat DEF NoGoal, WorkStatus, Steps
  <2>2. status \in WorkStatus /\ kind \in Kinds
    BY <1>1, <1>2 DEF Init
  <2>3. evidence \in 0..(Candidate + 1)
    BY <1>2 DEF Init, Candidate
  <2> QED
    BY <1>2, <2>1, <2>2, <2>3 DEF Init, ProcessTyped, ItemTyped
<1>3. Init => Budgeted /\ Redesigns /\ Prepared /\ Heeded
  BY BoundsAreNat DEF Init, NoCheckpoint, Budgeted, Within, Redesigns, Prepared, Heeded, Candidate
<1> QED
  BY <1>2, <1>3 DEF RecordInv

(* Every step preserves the invariant of the record.                       *)
LEMMA RecordNext ==
  ASSUME Inv, RecordInv, [Next]_vars
  PROVE  RecordInv'
<1>1. CASE Next
  BY <1>1, ProcessTypedNext, ItemTypedNext, BudgetedNext, RedesignsNext, PreparedNext, HeededNext
     DEF RecordInv
<1>2. CASE UNCHANGED vars
  BY <1>2 DEF vars, item, remote, process, RecordInv, ProcessTyped, ItemTyped, Budgeted, Within,
     Redesigns, GivenUp, Prepared, Heeded, Candidate
<1> QED
  BY <1>1, <1>2

(* The types of TypeOK hold, with the bounds of every budget. *)
LEMMA RecordTypes ==
  ASSUME Inv, RecordInv, Refilled
  PROVE  TypeOK
<1>1. ck \in Checkpoint
  <2>1. ck \in Shape /\ Within(ck)
    BY DEF Inv, Shaped, RecordInv, Budgeted
  <2>2. ck.failures \in Nat
    BY <2>1, BoundsAreNat DEF Within
  <2> QED
    BY <2>1, <2>2 DEF Shape, Checkpoint, Within
<1>2. /\ ck.pub <= Candidate /\ ck.failures <= MaxRedesigns + 1
      /\ tx \in Seq(TxPhases) /\ landed \subseteq DOMAIN tx
  <2>1. Candidate \in Nat /\ ck.pub \in {0, Candidate} /\ tx \in Seq(TxPhases)
    BY DEF Inv, Bound, Shaped, Candidate
  <2>2. ck.failures \in 0..(MaxRedesigns + 1) /\ landed \subseteq DOMAIN tx
    BY DEF RecordInv, Budgeted, Within, Prepared
  <2> QED
    BY <2>1, <2>2, BoundsAreNat
<1>3. snapshots \in 1..MaxSnapshots /\ refills \in 0..MaxSnapshots
  BY BudgetAssumption DEF Refilled
<1> QED
  BY <1>1, <1>2, <1>3 DEF RecordInv, ProcessTyped, ItemTyped, Refilled, TypeOK

(* What the controller keeps of an item is sound, wherever a process dies: *)
(* every budget and every name in its checkpoint is in range, a prepared   *)
(* publication can be resumed, and a candidate that a reviewer refused for *)
(* its value does not land (_execute, value_redesign_failure).             *)
THEOREM RecordSound == Spec => []RecordIsSound
<1>1. Inv /\ RecordInv /\ Refilled => RecordIsSound
  <2>1. Inv => PublicationResumable
    BY DEF Inv, Fits, PublicationResumable
  <2>2. RecordInv => ObjectionIsHeeded
    BY DEF RecordInv, Prepared, Heeded, ObjectionIsHeeded
  <2> QED
    BY <2>1, <2>2, RecordTypes DEF RecordIsSound
<1>2. Inv /\ RecordInv /\ [Next]_vars => RecordInv'
  BY RecordNext
<1> QED
  BY <1>1, <1>2, RecordInit, InvAlways, RefilledAlways, PTL DEF Spec

-----------------------------------------------------------------------------
(* Nothing is lost as long as no process fails, no lease is lost and main  *)
(* does not move.                                                          *)
Quiet == crashes = 0 /\ losses = 0 /\ moves = 0

(* The last candidate is in a phase that nothing leads out of without a    *)
(* new publication.                                                        *)
Dead == Candidate > 0 => tx[Candidate] \in {"none", "rejected", "reverted", "stuck"}

Verdicts == {"PASSED_ENGINEERING", "NATIVE_SUFFICIENT", "REJECTED_VALUE"}

(* The statuses an execution ends in. *)
AfterExecution == {"READY", "PAUSED_BACKEND", "WAITING_EXTERNAL", "BLOCKED_TECHNICAL",
                   "BLOCKED_POLICY"} \cup Verdicts

(* Who asks for a change from status s to status d: _execute, recovery and *)
(* a due pause, the scheduler, promotion.                                  *)
Asked(s, d) ==
  \/ s = "RUNNING" /\ d \in AfterExecution
  \/ s \in {"BLOCKED_TECHNICAL", "PAUSED_BACKEND"} /\ d = "READY"
  \/ s = "READY" /\ d = "QUEUED"
  \/ /\ s \in {"PROPOSED", "WAITING_EXTERNAL"}
     /\ d \notin {"QUEUED", "RUNNING", "PAUSED_BACKEND", "BLOCKED_TECHNICAL"}

(* Where each status change comes from, and where control is meanwhile. *)
Moving ==
  /\ pc = "move" => Asked(status, goal.to)
  /\ pc = "move" /\ goal.to = "QUEUED" => goal.then = "claim"
  /\ status = "RUNNING" => pc \in Executing \cup {"move", "down", "recover"}
  /\ status = "QUEUED" => pc = "claim"

(* A pause can be resumed: wait and item change in two steps, of which the *)
(* second always follows.                                                  *)
Paused ==
  /\ status = "PAUSED_BACKEND" => ck.state = "active" /\ (ck.wait # "none" \/ pc = "move")
  /\ pc = "move" /\ goal.to = "PAUSED_BACKEND" => ck.state = "active" /\ ck.wait # "none"

(* A blocked item's checkpoint is closed, or the item is being requeued. *)
Stopped ==
  /\ status = "BLOCKED_TECHNICAL" => ck.state # "active" \/ pc \in {"rebind", "move"}
  /\ pc = "move" /\ goal.to = "BLOCKED_TECHNICAL" => ck.state # "active"
  /\ pc \in {"enter", "load"} /\ ck.pub # 0 => ck.state = "active"

(* The item is blocked, is about to be, or will be by recovery.            *)
Abandoned ==
  \/ status = "BLOCKED_TECHNICAL"
  \/ status = "RUNNING" /\ pc \in {"down", "recover"}
  \/ pc = "move" /\ goal.to = "BLOCKED_TECHNICAL"

(* A verdict is recorded with its candidate right after the item moved.    *)
(* Only an experiment that waits for evidence records that, too.           *)
Recording ==
  /\ pc = "move" /\ goal.to = "PASSED_ENGINEERING" => goal.then = "record"
  /\ kind # "experiment" =>
       /\ evidence # 0 => evidence = 1 + Candidate /\ status \in Verdicts
       /\ status = "PASSED_ENGINEERING" => evidence # 0 \/ pc = "record"
       /\ pc = "record" => evidence = 0 /\ status \in Verdicts
       /\ pc = "move" /\ goal.then = "record" => goal.to \in Verdicts

QuietInv ==
  /\ fresh /\ pc \notin {"renewed", "quarantine"}
  /\ landed \subseteq {Candidate}
  /\ Moving /\ Paused /\ Stopped /\ Recording
  /\ Abandoned => Dead

Lossless == Quiet => QuietInv

(* The lifecycle lists the changes that _execute, initialize and           *)
(* _promote_backend_pauses ask for.                                        *)
LEMMA MovesAreLegal ==
  /\ \A s \in AfterExecution : LegalTransition("RUNNING", s)
  /\ LegalTransition("BLOCKED_TECHNICAL", "READY")
  /\ LegalTransition("PAUSED_BACKEND", "READY")
<1>1. /\ "RUNNING" \in WorkStatus /\ "BLOCKED_TECHNICAL" \in WorkStatus
      /\ "PAUSED_BACKEND" \in WorkStatus
  BY DEF WorkStatus
<1>2. ALLOWED_TRANSITIONS["RUNNING"] =
        {"PAUSED_QUOTA", "PAUSED_BACKEND", "WAITING_EXTERNAL", "BLOCKED_TECHNICAL",
         "BLOCKED_POLICY", "PASSED_ENGINEERING", "READY", "REJECTED_VALUE",
         "NATIVE_SUFFICIENT", "DEFERRED", "CANCELLED"}
  BY <1>1, Zenon DEF ALLOWED_TRANSITIONS
<1>3. ALLOWED_TRANSITIONS["BLOCKED_TECHNICAL"] = {"READY", "DEFERRED", "CANCELLED"}
  BY <1>1, Zenon DEF ALLOWED_TRANSITIONS
<1>4. ALLOWED_TRANSITIONS["PAUSED_BACKEND"] = {"READY", "BLOCKED_TECHNICAL", "CANCELLED"}
  BY <1>1, Zenon DEF ALLOWED_TRANSITIONS
<1> QED
  BY <1>2, <1>3, <1>4 DEF LegalTransition, AfterExecution, Verdicts

(* Failures, lost leases and moves of main are counted, and nothing else   *)
(* fails.                                                                  *)
LEMMA CountersGrow ==
  ASSUME Next
  PROVE  /\ \/ UNCHANGED <<crashes, losses>> \/ Fails \/ LoseLease
         /\ UNCHANGED moves \/ moves' = moves + 1
<1> DEFINE Counted == UNCHANGED <<crashes, losses>> \/ Fails \/ LoseLease
           Moved == UNCHANGED moves \/ moves' = moves + 1
<1>1. /\ \A t : Goto(t) => Counted
      /\ \A s, t : MoveTo(s, t) => Counted
      /\ Raise => Counted
      /\ Tainted => Counted
      /\ \A s : CloseAnd(s) => Counted
      /\ Same => Moved
      /\ \A i, p : PublisherStep(i, p) => Moved
  BY DEF Goto, MoveTo, Raise, Tainted, CloseAnd, Same, PublisherStep, process, remote
<1> HIDE DEF Counted, Moved
<1>2. ASSUME UNCHANGED <<crashes, losses>> PROVE Counted
  BY <1>2 DEF Counted
<1>3. ASSUME UNCHANGED moves PROVE Moved
  BY <1>3 DEF Moved
<1>4. Fails \/ LoseLease => Counted
  BY DEF Counted
<1>5. ASSUME Initialize \/ Cycle \/ Transition PROVE Counted /\ Moved
  BY <1>1, <1>2, <1>3, <1>5 DEF Initialize, RecoverInterrupted, Rebind, Cycle, PromotePauses,
     ResumePause, Promote, PromoteReview, PromoteExternal, PromoteWork, Select, Idle, Claim,
     Transition, remote
<1>6. ASSUME Resume \/ Budget PROVE Counted /\ Moved
  BY <1>1, <1>2, <1>3, <1>6 DEF Resume, Enter, Load, Republish, Budget, PlanExhausted, Salvage,
     OpenGeneration, BuildContext
<1>7. ASSUME Session \/ Prepare PROVE Counted /\ Moved
  BY <1>1, <1>2, <1>3, <1>7 DEF Session, StagesDone, StagePassed, ValueFailure, StageRefused,
     StageBackendWait, StageFinding, StageTripped, Prepare, Freeze, Gates, Manifest,
     EvidenceRefused, ValueRefused, ValueDecided, PublicationPrepared, Release, remote
<1>8. ASSUME Publish PROVE Counted /\ Moved
  BY <1>1, <1>3, <1>8 DEF Publish, PublishNew, PublishStep, PublishStuck, PublishPending,
     PublishFailed, PublishVerified
<1>9. ASSUME Restart \/ RecordEvidence \/ QuarantineCheckpoint \/ MainMoves \/ Preflight
      PROVE  Counted /\ Moved
  BY <1>1, <1>2, <1>3, <1>9 DEF Restart, RecordEvidence, QuarantineCheckpoint, MainMoves,
     Preflight, process, remote, Moved
<1>10. ASSUME Crash \/ LoseLease PROVE Counted /\ Moved
  BY <1>3, <1>4, <1>10 DEF Crash, LoseLease, remote
<1>11. ASSUME Repair \/ InstallSnapshot PROVE Counted /\ Moved
  BY <1>1, <1>2, <1>3, <1>11 DEF Repair, NothingToRepair, PrepareRepair, ArchiveCheckpoint, RemoveCheckpoint,
     Reopen, CommitRepair, RepairRaises,
     InstallSnapshot, Recovering, process, remote
<1> QED
  BY <1>5, <1>6, <1>7, <1>8, <1>9, <1>10, <1>11 DEF Next, Step, Work, Counted, Moved

(* Up to a quiet state every step was quiet. *)
LEMMA QuietStep ==
  ASSUME ProcessTyped, ItemTyped, Next, Quiet'
  PROVE  Quiet /\ ~Fails /\ ~LoseLease /\ ~MainMoves
<1>1. crashes \in Nat /\ losses \in Nat /\ moves \in Nat
  <2>1. crashes \in 0..MaxCrashes /\ losses \in 0..MaxLeaseLosses /\ moves \in 0..MaxMoves
    BY DEF ProcessTyped, ItemTyped
  <2> QED
    BY <2>1
<1>2. crashes' = 0 /\ losses' = 0 /\ moves' = 0
  BY DEF Quiet
<1>3. (Fails => crashes' = crashes + 1) /\ (LoseLease => losses' = losses + 1)
      /\ (MainMoves => moves' = moves + 1)
  BY DEF Fails, LoseLease, MainMoves
<1> QED
  BY <1>1, <1>2, <1>3, CountersGrow DEF Quiet

(* Every step without a failure keeps main where it is, so that no         *)
(* checkpoint is dropped and no lease is quarantined.                      *)
LEMMA QuietFresh ==
  ASSUME Inv, Next, Quiet, Quiet', ~Fails, ~LoseLease, ~MainMoves, QuietInv
  PROVE  fresh' /\ pc' \notin {"renewed", "quarantine"}
<1> DEFINE Aim == fresh' /\ pc' \notin {"renewed", "quarantine"}
<1>1. moves' # moves + 1
  BY DEF Quiet
<1>2. fresh /\ pc \notin {"renewed", "quarantine"} /\ goal.then \notin {"renewed", "quarantine"}
  BY DEF QuietInv, Inv, Shaped, After
<1> USE DEF Goto, MoveTo, Lost, Raise, CloseAnd, Same, remote, process
<1>3. ASSUME Initialize \/ Cycle \/ Transition \/ Resume PROVE Aim
  BY <1>2, <1>3 DEF Initialize, RecoverInterrupted, Rebind, Cycle, PromotePauses, ResumePause,
     Promote, PromoteReview, PromoteExternal, PromoteWork, Select, Idle, Claim, Transition, Resume,
     Enter, Load, Republish, Tainted
<1>4. ASSUME Budget \/ Session PROVE Aim
  BY <1>2, <1>4 DEF Budget, PlanExhausted, Salvage, OpenGeneration, BuildContext, Session, StagesDone,
     StagePassed, ValueFailure, InSession, StageRefused, StageBackendWait, StageFinding, StageTripped
<1>5. ASSUME Prepare \/ Publish PROVE Aim
  BY <1>1, <1>2, <1>5 DEF Prepare, Freeze, Gates, Manifest, EvidenceRefused, ValueRefused,
     ValueDecided, PublicationPrepared, Release, Tainted, Publish, PublishNew, PublishStep,
     PublisherStep, PublishStuck, PublishPending, PublishFailed, PublishVerified
<1>6. ASSUME Restart \/ RecordEvidence \/ QuarantineCheckpoint \/ Crash \/ Preflight PROVE Aim
  BY <1>1, <1>2, <1>6 DEF Restart, RecordEvidence, QuarantineCheckpoint, Crash, Preflight,
     PublisherStep
<1>7. ASSUME Repair \/ InstallSnapshot PROVE Aim
  BY <1>2, <1>7 DEF Repair, NothingToRepair, PrepareRepair, ArchiveCheckpoint, RemoveCheckpoint,
     Reopen, CommitRepair, RepairRaises,
     InstallSnapshot, Recovering
<1> QED
  BY <1>3, <1>4, <1>5, <1>6, <1>7 DEF Next, Step, Work

(* Only the last candidate is pushed (publisher.publish,                   *)
(* run_startup_preflight).                                                 *)
LEMMA LandedStep ==
  ASSUME Inv, Next
  PROVE  landed' \subseteq landed \cup {Candidate}
<1> USE DEF Goto, Same, remote, process
<1>1. ASSUME NEW i, NEW p, PublisherStep(i, p) PROVE landed' \subseteq landed \cup {Candidate}
  BY <1>1 DEF PublisherStep, Reconciled
<1>2. ASSUME Initialize \/ Cycle \/ Transition \/ Resume PROVE landed' = landed
  BY <1>2 DEF Initialize, RecoverInterrupted, Rebind, Cycle, PromotePauses, ResumePause, Promote,
              Select, Idle, Claim, Transition, Resume, Enter, Load, Republish
<1>3. ASSUME Budget \/ Session PROVE landed' = landed
  BY <1>3 DEF Budget, PlanExhausted, Salvage, OpenGeneration, BuildContext, Session, StagesDone,
              StagePassed, ValueFailure, StageRefused, StageBackendWait, StageFinding, StageTripped
<1>4. ASSUME Prepare \/ Publish, ~PublishStep PROVE landed' = landed
  BY <1>4 DEF Prepare, Freeze, Gates, Manifest, Release, Publish, PublishNew, PublishStuck,
              PublishPending, PublishFailed, PublishVerified
<1>5. CASE PublishStep \/ Preflight
  BY <1>1, <1>5 DEF PublishStep, Preflight
<1>6. ASSUME Repair \/ InstallSnapshot PROVE landed' = landed
  BY <1>6 DEF Repair, NothingToRepair, PrepareRepair, ArchiveCheckpoint, RemoveCheckpoint,
     Reopen, CommitRepair, RepairRaises,
     InstallSnapshot, Recovering
<1> QED
  BY <1>2, <1>3, <1>4, <1>5, <1>6
     DEF Next, Step, Work, Restart, RecordEvidence, QuarantineCheckpoint, Crash, LoseLease, MainMoves

(* A new candidate starts only when the one before did not land.           *)
LEMMA QuietLanded ==
  ASSUME Inv, RecordInv, Next, QuietInv
  PROVE  landed' \subseteq {Candidate'}
<1>1. Candidate' = Candidate => landed' \subseteq {Candidate'}
  BY LandedStep DEF QuietInv
<1>2. CASE NewCandidate
  <2>1. ck.pub = 0
    BY <1>2 DEF NewCandidate, QuietInv, Inv, Bound
  <2>2. Candidate \notin landed
    <3>1. SUFFICES ASSUME Candidate \in landed PROVE FALSE
      OBVIOUS
    <3>2. Candidate \in DOMAIN tx /\ tx[Candidate] # "none"
      BY <3>1 DEF RecordInv, Prepared
    <3>3. Candidate > 0
      BY <3>2 DEF Inv, Shaped, Candidate
    <3> QED
      BY <2>1, <3>2, <3>3 DEF RecordInv, Prepared
  <2> QED
    BY <1>2, <2>2 DEF NewCandidate, QuietInv
<1>3. CASE UNCHANGED <<tx, landed>>
  BY <1>1, <1>3 DEF Candidate
<1>4. CASE NewTransaction
  <2>1. "prepared" \in TxPhases
    BY DEF TxPhases
  <2> QED
    BY <1>1, <1>4, <2>1, PhaseChange DEF NewTransaction, Candidate, Inv, Shaped
<1>5. ASSUME NEW i \in DOMAIN tx, NEW p \in TxPhases, Reconciles(i, p)
      PROVE  landed' \subseteq {Candidate'}
  BY <1>1, <1>5, PhaseChange DEF Reconciles, Candidate, Inv, Shaped
<1> QED
  BY <1>2, <1>3, <1>4, <1>5, StepTransactions

(* What a step of _execute may ask for: status s, and then control at t.   *)
Asks(s, t) ==
  /\ s \in AfterExecution
  /\ s = "PAUSED_BACKEND" => ck'.state = "active" /\ ck'.wait # "none"
  /\ s = "BLOCKED_TECHNICAL" => ck'.state # "active" /\ Dead /\ UNCHANGED tx
  /\ s = "PASSED_ENGINEERING" => t = "record"
  /\ t = "record" /\ kind # "experiment" => s \in Verdicts

(* A step of an execution: it goes on, an exception ends it while nothing  *)
(* of it is in publication, or it asks for a status.                       *)
Execution ==
  /\ UNCHANGED item
  /\ \/ pc' \in Executing \ {"enter", "load"}
     \/ pc = "enter" /\ pc' = "load" /\ UNCHANGED ck
     \/ pc' = "down" /\ Dead /\ UNCHANGED tx
     \/ pc' = "move" /\ Asks(goal'.to, goal'.then)

(* Going on is such a step, and so is asking.                              *)
LEMMA ExecutionSteps ==
  ASSUME UNCHANGED item
  PROVE  /\ \A t \in Executing \ {"enter", "load"} : Goto(t) => Execution
         /\ \A s, t : MoveTo(s, t) /\ Asks(s, t) => Execution
         /\ Raise /\ Dead /\ UNCHANGED tx => Execution
<1>1. ASSUME NEW s, NEW t, MoveTo(s, t), Asks(s, t) PROVE Execution
  <2>1. pc' = "move" /\ goal'.to = s /\ goal'.then = t
    BY <1>1 DEF MoveTo
  <2> QED
    BY <1>1, <2>1 DEF Execution
<1> QED
  BY <1>1 DEF Execution, Goto, Raise, Lost

(* A candidate whose publication is not prepared has none. *)
LEMMA WorkingIsDead ==
  ASSUME Inv, RecordInv, pc \in Working \cup {"plan", "salvaged"}
  PROVE  Dead
  BY DEF Inv, Bound, RecordInv, Prepared, Dead

(* The steps of _execute up to the manifest. *)
LEMMA WorkingExecution ==
  ASSUME Inv, RecordInv, Resume \/ Budget \/ Session \/ Prepare, ~Fails, QuietInv
  PROVE  Execution
<1> fresh /\ ck \in Shape /\ Stopped
  BY DEF QuietInv, Inv, Shaped
<1> /\ Executing \ {"enter", "load"} = Working \cup {"renewed", "republish", "plan", "salvaged",
                                                      "release", "publish"}
    /\ Working = {"context", "stage", "trip", "value", "freeze", "gates", "manifest"}
  BY DEF Executing, Working
<1>1. ASSUME NEW t \in Executing \ {"enter", "load"}, Goto(t), UNCHANGED item PROVE Execution
  BY <1>1, ExecutionSteps
<1>2. ASSUME NEW s \in AfterExecution \ {"PAUSED_BACKEND", "BLOCKED_TECHNICAL", "PASSED_ENGINEERING"},
             NEW t \in After \ {"record"}, MoveTo(s, t), UNCHANGED item
      PROVE  Execution
  BY <1>2, ExecutionSteps DEF Asks
<1>3. ASSUME NEW s \in AfterExecution, MoveTo(s, "record"), UNCHANGED item,
             s \in Verdicts \/ kind = "experiment", s # "PAUSED_BACKEND", s # "BLOCKED_TECHNICAL"
      PROVE  Execution
  BY <1>3, ExecutionSteps DEF Asks
<1>4. ASSUME MoveTo("BLOCKED_TECHNICAL", "recover"), Same, ck'.state # "active",
             pc \in Working \cup {"plan"}
      PROVE  Execution
  BY <1>4, ExecutionSteps, WorkingIsDead DEF Asks, AfterExecution, Same, remote
<1>5. ASSUME Raise, Same, pc \in Working PROVE Execution
  BY <1>5, ExecutionSteps, WorkingIsDead DEF Same, remote
<1>6. /\ {"READY", "WAITING_EXTERNAL", "BLOCKED_POLICY", "NATIVE_SUFFICIENT", "REJECTED_VALUE"}
           \subseteq AfterExecution \ {"PAUSED_BACKEND", "BLOCKED_TECHNICAL", "PASSED_ENGINEERING"}
      /\ "recover" \in After \ {"record"} /\ "PASSED_ENGINEERING" \in Verdicts
  BY DEF AfterExecution, After, Verdicts
<1>7. Same => UNCHANGED item
  BY DEF Same
<1> HIDE DEF Goto, MoveTo, Raise, Same
<1>8. Closed(ck).state # "active"
  BY ClosedShape
<1>9. CASE Resume
  <2>1. CASE Enter
    <3>1. Goto("load") /\ UNCHANGED ck /\ Same => Execution
      BY <1>7, <2>1 DEF Enter, Execution, Goto
    <3> QED
      BY <1>2, <1>6, <1>7, <2>1, <3>1 DEF Enter
  <2>2. CASE Load
    <3>1. ~(ck.pub # 0 /\ ck.state # "active")
      BY <2>2 DEF Load, Stopped
    <3> QED
      BY <1>1, <1>7, <2>2, <3>1 DEF Load
  <2>3. CASE Republish
    <3>1. pc' = "publish" /\ UNCHANGED item => Execution
      BY DEF Execution
    <3> QED
      BY <1>2, <1>6, <1>7, <2>3, <3>1 DEF Republish, CloseAnd, Tainted
  <2> QED
    BY <1>9, <2>1, <2>2, <2>3 DEF Resume
<1>10. CASE Budget
  <2>1. CASE PlanExhausted
    BY <1>4, <1>8, <2>1 DEF PlanExhausted, CloseAnd, Save
  <2>2. CASE Salvage
    BY <1>1, <1>7, <2>2 DEF Salvage
  <2>3. CASE OpenGeneration
    BY <2>3 DEF OpenGeneration, Execution
  <2>4. CASE BuildContext
    BY <1>1, <1>2, <1>6, <1>7, <2>4 DEF BuildContext, CloseAnd
  <2> QED
    BY <1>10, <2>1, <2>2, <2>3, <2>4 DEF Budget
<1>11. CASE Session
  <2>1. CASE StagesDone
    BY <1>1, <1>7, <2>1 DEF StagesDone
  <2>2. CASE StagePassed
    BY <1>1, <2>2 DEF StagePassed
  <2>3. CASE ValueFailure
    BY <1>2, <1>6, <2>3 DEF ValueFailure
  <2>4. CASE StageRefused
    BY <1>2, <1>4, <1>6, <1>7, <1>8, <2>4 DEF StageRefused, InSession, CloseAnd, Save
  <2>5. CASE StageBackendWait
    <3>1. CASE ck.rechecks = 0
      <4>1. ck'.state # "active"
        BY <1>8, <2>5, <3>1, ClosedShape DEF StageBackendWait, Save, Shape
      <4> QED
        BY <1>4, <2>5, <3>1, <4>1 DEF StageBackendWait, InSession
    <3>2. CASE ck.rechecks # 0
      <4>1. ck.state = "active"
        BY <2>5 DEF StageBackendWait, InSession, Inv, Opening, Working
      <4>2. ck'.state = "active" /\ ck'.wait = "backend"
        BY <2>5, <3>2, <4>1 DEF StageBackendWait, Save, Shape
      <4> QED
        BY <2>5, <3>2, <4>2, <1>7, ExecutionSteps DEF StageBackendWait, Asks, AfterExecution
    <3> QED
      BY <3>1, <3>2
  <2>6. CASE StageFinding
    BY <1>1, <1>7, <2>6 DEF StageFinding
  <2>7. CASE StageTripped
    BY <1>4, <1>8, <2>7 DEF StageTripped, CloseAnd, Save
  <2> QED
    BY <1>11, <2>1, <2>2, <2>3, <2>4, <2>5, <2>6, <2>7 DEF Session
<1>12. CASE Prepare
  <2>1. CASE Freeze
    BY <1>1, <1>3, <1>5, <1>6, <1>7, <2>1 DEF Freeze, AfterExecution, Verdicts
  <2>2. CASE Gates
    <3>1. pc' = "manifest" /\ UNCHANGED item => Execution
      BY DEF Execution
    <3> QED
      BY <1>5, <1>7, <2>2, <3>1 DEF Gates
  <2>3. CASE Manifest
    BY <1>1, <1>2, <1>3, <1>6, <1>7, <2>3 DEF Manifest, EvidenceRefused, ValueRefused, ValueDecided,
       PublicationPrepared, CloseAnd
  <2>4. CASE Release
    <3>1. pc' = "publish" /\ UNCHANGED item => Execution
      BY DEF Execution
    <3> QED
      BY <1>2, <1>6, <1>7, <2>4, <3>1 DEF Release, CloseAnd, Tainted
  <2> QED
    BY <1>12, <2>1, <2>2, <2>3, <2>4 DEF Prepare
<1> QED
  BY <1>9, <1>10, <1>11, <1>12

(* The steps of a publication: nothing of it is lost without a failure,    *)
(* and a verified one is not refused while main stays (publish,            *)
(* _pause_publication).                                                    *)
LEMMA PublishExecution ==
  ASSUME Inv, RecordInv, Publish, QuietInv
  PROVE  Execution
<1> fresh /\ ck \in Shape /\ pc = "publish" /\ ck.pub = Candidate /\ Candidate > 0
    /\ ck.state = "active"
  BY DEF QuietInv, Inv, Shaped, Bound, Candidate, Opening, Publish, PublishNew, PublishStep,
     PublishStuck, PublishPending, PublishFailed, PublishVerified
<1> "publish" \in Executing \ {"enter", "load"}
  BY DEF Executing, Working
<1>1. ASSUME Goto("publish"), UNCHANGED item PROVE Execution
  BY <1>1, ExecutionSteps
<1>2. CASE PublishNew
  <2>1. ASSUME Raise, UNCHANGED <<tx, item>>, tx[Candidate] = "none" PROVE Execution
    BY <2>1, ExecutionSteps DEF Dead
  <2> QED
    BY <1>1, <1>2, <2>1 DEF PublishNew
<1>3. CASE PublishStep
  BY <1>1, <1>3 DEF PublishStep
<1>4. CASE PublishStuck
  BY <1>4, ExecutionSteps DEF PublishStuck, Dead, Same, remote
<1>5. CASE PublishPending
  <2>1. ck'.state = "active" /\ ck'.wait = "publication"
    BY <1>5 DEF PublishPending, Save, Shape
  <2> QED
    BY <1>5, <2>1, ExecutionSteps DEF PublishPending, Asks, AfterExecution, Same
<1>6. CASE PublishFailed
  <2>1. ck'.state # "active" /\ MoveTo("BLOCKED_TECHNICAL", "recover") /\ Same /\ Dead
    BY <1>6, ClosedShape DEF PublishFailed, CloseAnd, Save, Dead
  <2> QED
    BY <2>1, ExecutionSteps DEF Asks, AfterExecution, Same, remote
<1>7. CASE PublishVerified
  BY <1>7, ExecutionSteps DEF PublishVerified, Asks, AfterExecution, Verdicts, Same
<1> QED
  BY <1>2, <1>3, <1>4, <1>5, <1>6, <1>7 DEF Publish

(* A status change that is asked for is legal, except perhaps one that     *)
(* leaves a new or waiting item as it is.                                  *)
LEMMA AskedIsLegal ==
  ASSUME NEW s, NEW d, Asked(s, d), s \notin {"READY", "PROPOSED", "WAITING_EXTERNAL"}
  PROVE  LegalTransition(s, d)
  BY MovesAreLegal DEF Asked, AfterExecution

(* A step of an execution keeps what a quiet run keeps. *)
LEMMA ExecutionQuiet ==
  ASSUME Inv, RecordInv, Next, QuietInv, Execution, pc \in Executing
  PROVE  Moving' /\ Paused' /\ Stopped' /\ Recording' /\ (Abandoned => Dead)'
<1> /\ status = "RUNNING" /\ status' = "RUNNING" /\ kind' = kind /\ evidence' = evidence
  BY DEF Execution, Inv, Located, item
<1>1. Moving'
  BY DEF Execution, Asks, Moving, Asked, AfterExecution, Verdicts, Executing, Working
<1>2. Paused'
  BY DEF Execution, Asks, Paused, Executing, Working
<1>3. Stopped'
  BY DEF Execution, Asks, Stopped, Executing, Working, QuietInv
<1>4. Recording'
  BY DEF Execution, Asks, Recording, Executing, Working, QuietInv, Verdicts
<1>5. (Abandoned => Dead)'
  BY DEF Execution, Asks, Abandoned, Dead, Candidate, Executing, Working
<1> QED
  BY <1>1, <1>2, <1>3, <1>4, <1>5

(* The steps outside an execution. *)
LEMMA CycleQuiet ==
  ASSUME Inv, RecordInv, QuietInv, Restart \/ Initialize \/ Cycle
  PROVE  Moving' /\ Paused' /\ Stopped' /\ Recording' /\ (Abandoned => Dead)'
<1> ck \in Shape /\ Moving /\ Paused /\ Stopped /\ Recording /\ (Abandoned => Dead)
  BY DEF QuietInv, Inv, Shaped
<1> UNCHANGED <<tx, kind, evidence>>
  BY DEF Restart, Initialize, RecoverInterrupted, Rebind, Cycle, PromotePauses, ResumePause, Promote,
     Select, Idle, Claim, Same, item, remote
<1>1. CASE Restart
  BY <1>1 DEF Restart, Goto, Same, item, process, Moving, Paused, Stopped, Recording, Abandoned, Dead,
     Candidate, Executing, Working
<1>2. CASE RecoverInterrupted
  BY <1>2 DEF RecoverInterrupted, Goto, process, Moving, Paused, Stopped, Recording, Abandoned, Dead,
     Candidate, Executing, Working, Verdicts
<1>3. CASE Rebind
  <2>1. status = "BLOCKED_TECHNICAL" /\ status' = status
    BY <1>3 DEF Rebind, Same, item, Inv, Located
  <2>2. ck'.state # "active" \/ MoveTo("READY", "repair")
    BY <1>3, ClosedShape DEF Rebind, Save
  <2>3. pc' = "repair" \/ MoveTo("READY", "repair")
    BY <1>3 DEF Rebind, Goto
  <2> QED
    BY <2>1, <2>2, <2>3 DEF MoveTo, Moving, Asked, Paused, Stopped, Recording, Abandoned, Dead,
       Candidate, Executing, Working, Verdicts
<1>4. CASE PromotePauses
  <2>1. UNCHANGED ck /\ Goto("promote") /\ pc = "pauses"
    BY <1>4 DEF PromotePauses, ResumeContract, Paused
  <2> QED
    BY <1>4, <2>1 DEF PromotePauses, Goto, process, Same, item, Moving, Paused, Stopped, Recording,
       Abandoned, Dead, Candidate, Executing, Working
<1>5. CASE ResumePause
  <2>1. /\ status = "PAUSED_BACKEND" /\ status' = status /\ MoveTo("READY", "promote")
    BY <1>5 DEF ResumePause, Same, item
  <2>2. ck'.state = "active"
    BY <1>5 DEF ResumePause, ResumeContract, Save, Shape
  <2> QED
    BY <2>1, <2>2 DEF MoveTo, Moving, Asked, Paused, Stopped, Recording, Abandoned, Executing, Working,
       Verdicts
<1>6. CASE Promote
  <2>1. UNCHANGED <<ck, status>> /\ pc = "promote"
    BY <1>6 DEF Promote, Same, item
  <2>2. CASE Goto("schedule")
    BY <2>1, <2>2 DEF Goto, process, Moving, Paused, Stopped, Recording, Abandoned, Dead, Candidate,
       Executing, Working
  <2>3. CASE /\ status \in {"PROPOSED", "WAITING_EXTERNAL"}
             /\ \E s \in {"READY", "BLOCKED_POLICY", "WAITING_EXTERNAL"} \cup Verdicts,
                  t \in {"schedule", "promote", "record"} :
                  /\ MoveTo(s, t)
                  /\ s = "PASSED_ENGINEERING" => t = "record"
                  /\ t = "record" => s \in Verdicts
    BY <2>1, <2>3 DEF MoveTo, Moving, Asked, Paused, Stopped, Recording, Abandoned, Executing, Working,
       Verdicts
  <2> QED
    BY <1>6, <2>2, <2>3 DEF Promote, PromoteReview, PromoteExternal, PromoteWork, Verdicts
<1>7. CASE Select
  BY <1>7 DEF Select, MoveTo, Same, item, Moving, Asked, Paused, Stopped, Recording, Abandoned,
     Executing, Working, Verdicts
<1>8. CASE Idle
  BY <1>8 DEF Idle, Goto, process, Same, item, Moving, Paused, Stopped, Recording, Abandoned, Dead,
     Candidate, Executing, Working
<1>9. CASE Claim
  <2>1. pc = "claim" /\ status = "QUEUED" /\ status' = "RUNNING" /\ pc' = "enter" /\ UNCHANGED ck
    BY <1>9 DEF Claim, Goto, RecordInv, Redesigns
  <2>2. ck.pub # 0 => ck.state = "active"
    BY <2>1 DEF Inv, Fits
  <2> QED
    BY <2>1, <2>2 DEF Moving, Paused, Stopped, Recording, Abandoned, Executing, Working, Verdicts
<1> QED
  BY <1>1, <1>2, <1>3, <1>4, <1>5, <1>6, <1>7, <1>8, <1>9 DEF Initialize, Cycle

(* A recovery moves a blocked item only. *)
LEMMA RepairQuiet ==
  ASSUME Inv, QuietInv, Repair \/ InstallSnapshot
  PROVE  Moving' /\ Paused' /\ Stopped' /\ Recording' /\ (Abandoned => Dead)'
<1> ck \in Shape /\ Moving /\ Paused /\ Stopped /\ Recording /\ (Abandoned => Dead)
  BY DEF QuietInv, Inv, Shaped
<1> UNCHANGED <<tx, kind, evidence, status>>
  BY DEF Repair, NothingToRepair, PrepareRepair, ArchiveCheckpoint, RemoveCheckpoint,
     Reopen, CommitRepair, RepairRaises, InstallSnapshot, Recovering, Same, item, remote
<1>1. CASE Reopen
  BY <1>1 DEF Reopen, Recovering, MoveTo, Moving, Asked, Paused, Stopped, Recording, Abandoned, Dead,
     Candidate, Executing, Working, Verdicts
<1>2. CASE RemoveCheckpoint
  <2>1. /\ pc = "repair" /\ pc' = "reopen" /\ UNCHANGED goal
        /\ ck' = ck \/ (ck.state = "tripped" /\ ck'.state = "none")
    BY <1>2 DEF RemoveCheckpoint, Recovering, Goto, process, Save, NoCheckpoint
  <2> QED
    BY <2>1 DEF Moving, Paused, Stopped, Recording, Abandoned, Dead, Candidate, Executing, Working
<1>6. CASE RepairRaises
  <2>1. /\ pc = "repair" /\ pc' = "down" /\ goal' = NoGoal
        /\ ck' = ck \/ (ck.state = "tripped" /\ ck'.state = "none")
    BY <1>6 DEF RepairRaises, Recovering, Raise, Lost, Save, NoCheckpoint
  <2>2. Moving' /\ Paused' /\ Stopped'
    BY <2>1 DEF Moving, Paused, Stopped, Executing, Working
  <2>3. Recording' /\ (Abandoned => Dead)'
    BY <2>1 DEF Moving, Recording, Abandoned, Dead, Candidate, Executing, Working
  <2> QED
    BY <2>2, <2>3
<1>3. ASSUME Repair \/ InstallSnapshot, ~Reopen, ~RemoveCheckpoint, ~RepairRaises
      PROVE  /\ ck' = ck /\ pc \notin {"move", "record", "claim", "enter", "load"}
             /\ pc \notin Executing \cup {"recover", "rebind"}
             /\ status = "RUNNING" => pc = "down" /\ pc' = "down"
             /\ pc' \in {"down", "repair", "archive", "pauses"}
  BY <1>3 DEF Repair, NothingToRepair, PrepareRepair, ArchiveCheckpoint, CommitRepair,
     InstallSnapshot, Recovering, Goto, Raise, Lost, Moving, Executing, Working
<1>4. ASSUME Repair \/ InstallSnapshot, ~Reopen, ~RemoveCheckpoint, ~RepairRaises
      PROVE  Moving' /\ Paused' /\ Stopped'
  BY <1>3, <1>4 DEF Moving, Paused, Stopped, Executing, Working
<1>5. ASSUME Repair \/ InstallSnapshot, ~Reopen, ~RemoveCheckpoint, ~RepairRaises
      PROVE  Recording' /\ (Abandoned => Dead)'
  BY <1>3, <1>5 DEF Recording, Abandoned, Dead, Candidate, Executing, Working
<1> QED
  BY <1>1, <1>2, <1>4, <1>5, <1>6

(* Each status change reaches the queue as it was asked for.               *)
LEMMA TransitionQuiet ==
  ASSUME Inv, RecordInv, QuietInv, Transition
  PROVE  Moving' /\ Paused' /\ Stopped' /\ Recording' /\ (Abandoned => Dead)'
<1> ck \in Shape /\ Moving /\ Paused /\ Stopped /\ Recording /\ (Abandoned => Dead)
    /\ goal.then \in After /\ pc = "move" /\ Asked(status, goal.to)
  BY DEF QuietInv, Inv, Shaped, Transition, Moving
<1> UNCHANGED <<tx, kind, evidence, ck>>
  BY DEF Transition, remote
<1>1. CASE status' = goal.to /\ pc' = goal.then
  <2>1. Moving' /\ Paused' /\ Stopped'
    BY <1>1 DEF Moving, Asked, Paused, Stopped, After, Executing, Working, AfterExecution, Verdicts
  <2>2. Recording'
    BY <1>1 DEF Recording, Asked, After, Candidate, Verdicts
  <2>3. (Abandoned => Dead)'
    BY <1>1 DEF Asked, Abandoned, Dead, Candidate, After, AfterExecution, Verdicts
  <2> QED
    BY <2>1, <2>2, <2>3
<1>2. CASE Raise /\ UNCHANGED status /\ ~LegalTransition(status, goal.to)
  <2>1. status \in {"READY", "PROPOSED", "WAITING_EXTERNAL"} /\ pc' = "down" /\ status' = status
    BY <1>2, AskedIsLegal DEF Raise, Lost
  <2> QED
    BY <2>1 DEF Moving, Paused, Stopped, Recording, Abandoned, Executing, Working, Verdicts
<1> QED
  BY <1>1, <1>2 DEF Transition

(* What is left: the record of a verdict, and the publisher's own steps.   *)
LEMMA RestQuiet ==
  ASSUME Inv, RecordInv, QuietInv, RecordEvidence \/ Preflight
  PROVE  Moving' /\ Paused' /\ Stopped' /\ Recording' /\ (Abandoned => Dead)'
<1> ck \in Shape /\ Moving /\ Paused /\ Stopped /\ Recording /\ (Abandoned => Dead)
  BY DEF QuietInv, Inv, Shaped
<1>1. CASE RecordEvidence
  <2>1. /\ pc = "record" /\ UNCHANGED <<status, kind, ck, tx>>
        /\ \/ evidence = 0 /\ evidence' = 1 + Candidate /\ pc' = "recover"
           \/ evidence # 0 /\ pc' = "down" /\ UNCHANGED evidence
    BY <1>1 DEF RecordEvidence, Goto, Raise, Lost, remote
  <2>2. status # "RUNNING"
    BY <2>1 DEF Moving, Executing, Working
  <2>3. Recording'
    BY <2>1 DEF Recording, Candidate, Verdicts
  <2> QED
    BY <2>1, <2>2, <2>3 DEF Moving, Paused, Stopped, Abandoned, Dead, Candidate, Executing, Working
<1>2. CASE Preflight
  <2>1. UNCHANGED <<item, ck, pc, goal>>
    BY <1>2 DEF Preflight, process
  <2>2. Candidate' = Candidate /\ (Dead => Dead')
    <3>1. PICK i \in DOMAIN tx, p \in TxPhases : PublisherStep(i, p)
      BY <1>2 DEF Preflight
    <3>2. tx \in Seq(TxPhases) /\ tx' = [tx EXCEPT ![i] = p] /\ Len(tx') = Len(tx)
      BY <3>1, PhaseChange DEF PublisherStep, Inv, Shaped
    <3>3. tx[i] \notin {"none", "rejected", "reverted", "stuck"}
      BY <3>1 DEF PublisherStep, Reconciled
    <3> QED
      BY <3>2, <3>3 DEF Candidate, Dead
  <2> QED
    BY <2>1, <2>2 DEF item, Moving, Paused, Stopped, Recording, Abandoned
<1> QED
  BY <1>1, <1>2

(* Every step of a quiet run keeps what none of it may lose.               *)
LEMMA QuietNext ==
  ASSUME Inv, RecordInv, Lossless, Next
  PROVE  Lossless'
<1>1. SUFFICES ASSUME Quiet' PROVE QuietInv'
  BY DEF Lossless
<1>2. Quiet /\ ~Fails /\ ~LoseLease /\ ~MainMoves /\ QuietInv
  BY <1>1, QuietStep DEF RecordInv, Lossless
<1>3. fresh' /\ pc' \notin {"renewed", "quarantine"}
  BY <1>1, <1>2, QuietFresh
<1>4. landed' \subseteq {Candidate'}
  BY <1>2, QuietLanded DEF QuietInv
<1>5. Moving' /\ Paused' /\ Stopped' /\ Recording' /\ (Abandoned => Dead)'
  <2>1. CASE Resume \/ Budget \/ Session \/ Prepare \/ Publish
    <3>1. Execution
      BY <1>2, <2>1, WorkingExecution, PublishExecution
    <3>2. pc \in Executing
      BY <2>1 DEF Resume, Enter, Load, Republish, Budget, PlanExhausted, Salvage, OpenGeneration,
         BuildContext, Session, StagesDone, StagePassed, ValueFailure, InSession, StageRefused,
         StageBackendWait, StageFinding, StageTripped, Prepare, Freeze, Gates, Manifest, Release,
         Publish, PublishNew, PublishStep, PublishStuck, PublishPending, PublishFailed,
         PublishVerified, Executing, Working
    <3> QED
      BY <1>2, <3>1, <3>2, ExecutionQuiet
  <2>2. ~Crash /\ ~QuarantineCheckpoint
    BY <1>2 DEF Crash, QuarantineCheckpoint, QuietInv
  <2> QED
    BY <1>2, <2>1, <2>2, CycleQuiet, RepairQuiet, TransitionQuiet, RestQuiet DEF Next, Step, Work
<1> QED
  BY <1>3, <1>4, <1>5 DEF QuietInv

(* An item that was never executed has lost nothing.                       *)
LEMMA QuietInit == Init => Lossless
  BY DEF Init, NoCheckpoint, Lossless, QuietInv, Moving, Paused, Stopped, Recording,
     Abandoned, Executing, Working

(* Only failures lose work: as long as no process fails, no lease is lost  *)
(* and main does not move, every pause is resumed, every interrupted item  *)
(* requeued, every queued one claimed, every verified publication passed,  *)
(* every verdict recorded, and one candidate lands (initialize,            *)
(* _promote_backend_pauses, execute_selected, _execute).                   *)
THEOREM OnlyFailuresLose == Spec => []OnlyFailuresLoseWork
<1>1. ASSUME Inv, Lossless PROVE OnlyFailuresLoseWork
  <2>1. SUFFICES ASSUME QuietInv
                 PROVE  /\ PauseIsResumed /\ InterruptedIsResumed /\ VerifiedIsPassed
                        /\ QueuedIsClaimed /\ PassedHasEvidence /\ NeverRepublished
    BY <1>1 DEF OnlyFailuresLoseWork, Lossless, Quiet
  <2>2. PauseIsResumed /\ InterruptedIsResumed /\ QueuedIsClaimed
    BY <2>1 DEF QuietInv, Paused, Stopped, Moving, PauseIsResumed, InterruptedIsResumed,
       QueuedIsClaimed, ResumeContract
  <2>3. VerifiedIsPassed
    BY <2>1 DEF QuietInv, Abandoned, Dead, VerifiedIsPassed
  <2>4. PassedHasEvidence
    BY <2>1 DEF QuietInv, Recording, PassedHasEvidence
  <2>5. NeverRepublished
    BY <2>1 DEF QuietInv, NeverRepublished
  <2> QED
    BY <2>2, <2>3, <2>4, <2>5
<1>2. Inv /\ RecordInv /\ Lossless /\ [Next]_vars => Lossless'
  <2>1. ASSUME UNCHANGED vars, Lossless PROVE Lossless'
    BY <2>1 DEF vars, item, remote, process, Lossless, Quiet, QuietInv, Moving, Asked, Paused, Stopped,
       Recording, Abandoned, Dead, Candidate
  <2> QED
    BY <2>1, QuietNext
<1>3. Spec => []RecordInv
  BY RecordInit, RecordNext, InvAlways, PTL DEF Spec
<1> QED
  BY <1>1, <1>2, <1>3, QuietInit, InvAlways, PTL DEF Spec

=============================================================================
