------------------------------ MODULE Roadmap ------------------------------
(***************************************************************************)
(* The roadmap as the controller drives it: the promotion of proposed      *)
(* work, the lane-aware choice of what runs next (schedule_cycle), and the *)
(* journalled advance from one milestone to the next.                      *)
(* Source: tcfactory/v3/scheduler.py, tcfactory/v3/milestone_runtime.py    *)
(* and the cycle in tcfactory/v3/controller.py.                            *)
(*                                                                         *)
(* One controller process at a time, as controller_process_lock ensures.   *)
(* The queue's files are the subject of V3Queue and what happens between   *)
(* the claim of an item and its result the subject of Controller: here an  *)
(* execution has one of its results.  Every durable write that another     *)
(* process could miss is a step of its own.                                *)
(***************************************************************************)
EXTENDS Integers, Sequences, FiniteSets, WorkItems

CONSTANTS
  Collection,    \* the roadmap's work items, a sequence in id order
  Last,          \* the last milestone; they are numbered from 0
  Criteria,      \* per milestone: further items its exit criteria name
  AllowFuture,   \* per milestone: lanes open while it waits for others
  Wip,           \* per lane: how many mutating and read-only sessions
  MaxReturns,    \* bound: returns of an item to the queue considered
  MaxCrashes     \* bound: failures of the process considered

(* CORE_SCHEDULING_LANES, in the order of the rotation. *)
CoreLanes == <<"PRODUCT", "MARKET", "COMPETITOR", "TRUST">>

Lanes == {CoreLanes[k] : k \in 1..4} \cup {"FACTORY"}

MUTATING_KINDS == {"CODE", "SPECIFICATION", "RESEARCH",
                   "CONTROLLED_EXPERIMENT", "MAINTENANCE", "MIGRATION"}

WorkKind == MUTATING_KINDS \cup
  {"EXTERNAL_EVIDENCE", "MACHINE_POLICY_REVIEW", "COMMERCIAL_EXPERIMENT"}

Work == Collection

Items == DOMAIN Work

Milestones == 0..Last

(* What the cycle reads of a work item.  "receipt" and "review" stand for  *)
(* external_receipt_required and machine_policy_receipt_required, "risky"  *)
(* for the risk tiers INTEGRATION and TRUST_CORE.                          *)
WorkItem ==
  [lane : Lanes, kind : WorkKind, milestone : Milestones,
   deps : SUBSET Items, receipt : BOOLEAN, review : BOOLEAN,
   automatable : BOOLEAN, blocks : BOOLEAN, risky : BOOLEAN]

ASSUME RoadmapAssumption ==
  /\ Last \in Nat
  /\ Work \in Seq(WorkItem)
  /\ Criteria \in [Milestones -> SUBSET Items]
  /\ AllowFuture \in [Milestones -> SUBSET Lanes]
  /\ Wip \in [Lanes -> [mutating : Nat, readOnly : Nat]]
  /\ {MaxReturns, MaxCrashes} \subseteq Nat

VARIABLES
  status,     \* of every item, in the queue
  returns,    \* returns of items to the queue so far, which their budgets bound
  evidence,   \* its completion evidence: "none", "weak" or "sound"
  milestone,  \* MilestoneRuntimeState.statuses
  active,     \* MilestoneRuntimeState.active_milestone
  txn,        \* the milestone of the pending advance transaction, or NoTxn
  receipts,   \* the milestones with a completion receipt
  marker,     \* does the migration-complete marker exist?
  cursor,     \* ControllerState.lane_cursor on disk, an index of CoreLanes
  behind,     \* does the installed snapshot trail main?
  withheld,   \* the reviews whose signed receipt for the present main asks
              \* for external evidence
  pc,         \* the controller's next step
  stage,      \* how far the cycle is: see Stages
  lane,       \* the cursor in memory
  future,     \* the lanes in which the next milestone is open
  satisfied,  \* the items _promote_ready took as satisfied
  next,       \* the item _promote_ready looks at
  picked,     \* the items selected whose execution has not ended
  unrecorded, \* items that passed, their evidence still to be written
  raised,     \* an execution ended with an exception
  crashes,    \* failures so far
  waited,     \* history: per core lane, the decisions in a row that passed
              \* over its mutating work, of those whose rotation was saved
  tally       \* history: the same with the decision in memory

queue   == <<status, returns, evidence>>
mainline == <<behind, withheld>>
journal == <<milestone, active, txn, receipts, marker>>
memory  == <<stage, lane, future, satisfied, next, picked, unrecorded, raised>>
history == <<waited, tally>>
vars    == <<queue, journal, cursor, mainline, pc, memory, crashes, history>>

NoTxn == -1

(* Bound: how far the history variables count. *)
Tallied == 4

SATISFIED == {"PASSED_ENGINEERING", "COMPLETED"}

Satisfied == {i \in Items : status[i] \in SATISFIED}

ItemsOf == [m \in Milestones |-> {i \in Items : Work[i].milestone = m}]

-----------------------------------------------------------------------------
(* The scheduler. *)

Mutating(i) == Work[i].kind \in MUTATING_KINDS

(* default_scheduling_facts and _score with the weights of                 *)
(* config/scheduler.yaml.                                                  *)
Points(condition, weight) == IF condition THEN weight ELSE 0

Score(i) ==
  Points(Work[i].milestone = active, 100)
    + Points(Work[i].kind = "EXTERNAL_EVIDENCE", 50)
    + Points(Work[i].lane = "COMPETITOR", 40)
    + Points(Work[i].lane = "TRUST" /\ Work[i].blocks, 30)
    + Points(Work[i].kind \in {"RESEARCH", "SPECIFICATION"}, 10)
    + Points(Work[i].risky, -25)

(* _tie_key: the parts that the default facts tell apart. *)
RankKey(i) ==
  <<-Score(i),
    Points(Work[i].kind \notin {"RESEARCH", "EXTERNAL_EVIDENCE",
                                "CONTROLLED_EXPERIMENT"}, 1),
    Points(Work[i].lane # "COMPETITOR", 1),
    Points(Work[i].lane # "TRUST", 1),
    i>>

Before(i, j) ==
  \E k \in 1..5 : /\ RankKey(i)[k] < RankKey(j)[k]
                  /\ \A l \in 1..(k - 1) : RankKey(i)[l] = RankKey(j)[l]

Best(S) == CHOOSE i \in S : \A j \in S \ {i} : Before(i, j)

(* The FACTORY lane mutates only to bootstrap the migration. *)
Bootstrap(i) ==
  active = 0 /\ Work[i].milestone = 0 /\ Work[i].kind = "MIGRATION"

Limit(i) ==
  CASE ~Mutating(i) -> Wip[Work[i].lane].readOnly
    [] Mutating(i) /\ Work[i].lane = "FACTORY" /\ Bootstrap(i)
         /\ Wip["FACTORY"].mutating = 0 -> 1
    [] OTHER -> Wip[Work[i].lane].mutating

Busy(i) ==
  Cardinality({j \in Items : /\ status[j] = "RUNNING"
                             /\ Work[j].lane = Work[i].lane
                             /\ Mutating(j) = Mutating(i)})

(* The item's lane is not closed to it by the configuration. *)
Open(i) ==
  /\ Limit(i) > 0
  /\ Mutating(i) /\ Work[i].lane = "FACTORY" => Bootstrap(i)

(* Fault variant of InScope: the next milestone is open in every lane. *)
InScopeAnyLane(i, lanes) == Work[i].milestone \in {active, active + 1}

InScope(i, lanes) ==
  \/ Work[i].milestone = active
  \/ Work[i].milestone = active + 1 /\ Work[i].lane \in lanes

(* Fault variant of Eligible: the item counts itself as a session. *)
EligibleIfSpare(i) ==
  /\ InScope(i, future)
  /\ status[i] = "READY"
  /\ ~Work[i].receipt /\ ~Work[i].review
  /\ Work[i].deps \subseteq Satisfied
  /\ Busy(i) + 1 < Limit(i)
  /\ Open(i)

Eligible(i) ==
  /\ InScope(i, future)
  /\ status[i] = "READY"
  /\ ~Work[i].receipt /\ ~Work[i].review
  /\ Work[i].deps \subseteq Satisfied
  /\ Busy(i) < Limit(i)
  /\ Open(i)

(* The lanes in the order of this cycle: from the cursor on, FACTORY last. *)
FairLanes(c) == [k \in 1..5 |-> IF k = 5 THEN "FACTORY"
                                ELSE CoreLanes[((c + k - 2) % 4) + 1]]

EligibleIn(l, mutating) ==
  {i \in Items : Eligible(i) /\ Work[i].lane = l /\ Mutating(i) = mutating}

(* One session of each mode: the best item of the first lane that has one, *)
(* unless a session of that mode is running.                               *)
Pick(mutating) ==
  LET open == {k \in 1..5 : EligibleIn(FairLanes(lane)[k], mutating) # {}}
      first == CHOOSE k \in open : \A j \in open : k <= j
      idle == \A i \in Items : status[i] = "RUNNING" => Mutating(i) # mutating
  IN  IF open = {} \/ ~idle THEN {}
      ELSE {Best(EligibleIn(FairLanes(lane)[first], mutating))}

Rotated(c) == (c % 4) + 1

-----------------------------------------------------------------------------
(* Control. *)
Steps == {"down", "recover", "align", "pauses", "promote", "advance",
          "receipt", "state", "unlink", "marker", "schedule", "run", "save"}

(* initialize; up to the first look at the milestone; after an advance;    *)
(* after the execution of this cycle's work.                               *)
Stages == {"init", "first", "advanced", "executed"}

(* What the process had in memory is gone. *)
Forget(c) ==
  /\ pc' = "down"
  /\ stage' = "init" /\ lane' = c /\ future' = {} /\ satisfied' = {}
  /\ next' = 1 /\ picked' = {} /\ unrecorded' = {} /\ raised' = FALSE

(* ControllerState is written, with the rotation of the lanes. *)
Saved(c, t) == cursor' = c /\ waited' = t /\ tally' = t

Unsaved == UNCHANGED <<cursor, waited>> /\ tally' = waited

(* An exception leaves run_cycle and ends the process. *)
Raise == Forget(cursor) /\ Unsaved /\ UNCHANGED crashes

Same == UNCHANGED <<cursor, crashes, history>>

Goto(step) == pc' = step /\ Same

(* The collection is loaded and _promote_ready starts a pass over it. *)
StartPromotion(st, lanes) ==
  /\ Goto("promote")
  /\ future' = lanes /\ next' = 1
  /\ satisfied' = {i \in Items : st[i] \in SATISFIED}
  /\ UNCHANGED <<lane, picked, unrecorded, raised>>

Init ==
  /\ status = [i \in Items |-> IF Work[i].receipt THEN "WAITING_EXTERNAL"
                               ELSE "PROPOSED"]
  /\ returns = 0
  /\ evidence = [i \in Items |-> "none"]
  /\ milestone = [m \in Milestones |-> IF m = 0 THEN "ACTIVE" ELSE "PROPOSED"]
  /\ active = 0 /\ txn = NoTxn /\ receipts = {} /\ marker = FALSE
  /\ cursor = 1 /\ behind = FALSE /\ withheld = {}
  /\ pc = "down"
  /\ stage = "init" /\ lane = 1 /\ future = {} /\ satisfied = {} /\ next = 1
  /\ picked = {} /\ unrecorded = {} /\ raised = FALSE
  /\ crashes = 0
  /\ waited = [k \in 1..4 |-> 0] /\ tally = waited

-----------------------------------------------------------------------------
(* The environment: the process fails between two steps; the signed        *)
(* runtime is installed at the new main.                                   *)
Crash ==
  /\ pc # "down" /\ crashes < MaxCrashes
  /\ crashes' = crashes + 1
  /\ Forget(cursor) /\ Unsaved
  /\ UNCHANGED <<queue, journal, mainline>>

Install ==
  /\ pc = "down" /\ behind
  /\ behind' = FALSE
  /\ UNCHANGED <<queue, journal, withheld, pc, memory>> /\ Same

(* Fault variant of Preflight: a receipt of M0 is taken for its completion. *)
PreflightByReceipt ==
  /\ pc = "down"
  /\ marker' = (marker \/ 0 \in receipts)
  /\ Goto("recover")
  /\ UNCHANGED <<queue, milestone, active, txn, receipts, mainline, memory>>

(* run_startup_preflight: the marker is repaired once M0 is complete. *)
Preflight ==
  /\ pc = "down"
  /\ marker' = (marker \/ milestone[0] = "COMPLETED")
  /\ Goto("recover")
  /\ UNCHANGED <<queue, milestone, active, txn, receipts, mainline, memory>>

-----------------------------------------------------------------------------
(* initialize. *)

(* Interrupted items return to the queue as long as their budgets allow,   *)
(* or stay blocked; a pending advance is then replayed by _roadmap.        *)
Recover ==
  /\ pc = "recover"
  /\ \E kept \in SUBSET {i \in Items : status[i] = "RUNNING"} :
       /\ status' = [i \in Items |->
                       IF status[i] # "RUNNING" THEN status[i]
                       ELSE IF i \in kept THEN "READY" ELSE "BLOCKED_TECHNICAL"]
       /\ returns' = returns + Cardinality(kept) /\ returns' <= MaxReturns
  /\ Goto(IF txn = NoTxn THEN "align" ELSE "receipt")
  /\ UNCHANGED <<evidence, journal, mainline, memory>>

(* _require_installed_snapshot_alignment: a snapshot that trails main ends *)
(* the process, after the state was saved.                                 *)
Align ==
  /\ pc = "align"
  /\ \/ /\ behind
        /\ Saved(lane, tally) /\ Forget(lane)
        /\ UNCHANGED crashes
     \/ /\ ~behind /\ stage = "init"
        /\ Goto("pauses") /\ stage' = "first"
        /\ UNCHANGED <<lane, future, satisfied, next, picked, unrecorded, raised>>
     \/ /\ ~behind /\ stage = "executed"
        /\ Goto("advance") /\ UNCHANGED memory
  /\ UNCHANGED <<queue, journal, mainline>>

-----------------------------------------------------------------------------
(* Promotion. *)

(* _future_lane_milestones: the next milestone is open in some lanes while *)
(* everything left of the active one waits for others.                     *)
WaitsForOthers(st) ==
  /\ \E i \in ItemsOf[active] : st[i] = "WAITING_EXTERNAL"
  /\ \A i \in ItemsOf[active] :
       st[i] \in {"WAITING_EXTERNAL", "PASSED_ENGINEERING", "COMPLETED",
                  "NATIVE_SUFFICIENT", "REJECTED_VALUE"}

FutureLanes(st) ==
  IF WaitsForOthers(st) /\ active < Last THEN AllowFuture[active] ELSE {}

(* _promote_backend_pauses: some pauses are due, some cannot be resumed. *)
PromotePauses ==
  /\ pc = "pauses"
  /\ \E due \in SUBSET {i \in Items : status[i] = "PAUSED_BACKEND"} :
     \E bad \in SUBSET due :
       status' = [i \in Items |-> IF i \in bad THEN "BLOCKED_TECHNICAL"
                                  ELSE IF i \in due THEN "READY" ELSE status[i]]
  /\ StartPromotion(status', FutureLanes(status'))
  /\ UNCHANGED <<returns, evidence, journal, mainline, stage>>

(* The items _promote_ready has yet to look at. *)
Promotable ==
  {i \in Items : /\ i >= next /\ InScope(i, future)
                 /\ status[i] \in {"PROPOSED", "WAITING_EXTERNAL"}
                 /\ Work[i].deps \subseteq satisfied}

IsNext(i) ==
  /\ pc = "promote" /\ unrecorded = {}
  /\ i \in Promotable /\ \A j \in Promotable : i <= j

(* Item i moves to status s; the queue rejects what the lifecycle does not *)
(* list.  Control goes to item n, with or without evidence to write.       *)
Promoted(i, s, n, recorded) ==
  /\ \/ /\ LegalTransition(status[i], s)
        /\ status' = [status EXCEPT ![i] = s]
        /\ next' = n /\ unrecorded' = recorded
        /\ Goto("promote")
        /\ UNCHANGED <<stage, lane, future, satisfied, picked, raised>>
     \/ /\ ~LegalTransition(status[i], s)
        /\ Raise /\ UNCHANGED status
  /\ UNCHANGED <<returns, evidence, journal, behind>>

(* It stays as it is. *)
LeftAlone(i) ==
  /\ next' = i + 1
  /\ Goto("promote")
  /\ UNCHANGED <<queue, journal, behind, stage, lane, future, satisfied,
                 picked, unrecorded, raised>>

IsReview(i) == IsNext(i) /\ Work[i].kind = "MACHINE_POLICY_REVIEW"

(* A machine-policy review without an authorization, for instance because  *)
(* a dependency has no evidence.                                           *)
ReviewUnavailable(i) ==
  /\ IsReview(i) /\ Promoted(i, "BLOCKED_POLICY", i + 1, {})
  /\ UNCHANGED withheld

(* _authorize_machine_policy_review: a review is assembled from the        *)
(* completion evidence of what the item depends on; main, the request to   *)
(* the verifier and its receipt may fail it too.  The receipt is filed     *)
(* under main, and as long as it is there no other is asked for: what it   *)
(* says is what every later cycle reads until main moves.                  *)
Assembled(i) == \A j \in Work[i].deps : evidence[j] # "none"

(* An item that waits already makes an illegal transition, which raises.   *)
ReviewWaits(i) ==
  /\ IsReview(i) /\ Assembled(i)
  /\ Promoted(i, "WAITING_EXTERNAL", i + 1, {})
  /\ withheld' = withheld \cup {i}

ReviewDecided(i) ==
  /\ IsReview(i) /\ Assembled(i) /\ i \notin withheld
  /\ \E s \in {"PASSED_ENGINEERING", "REJECTED_VALUE"} : Promoted(i, s, i + 1, {i})
  /\ UNCHANGED withheld

(* Work that only an external receipt completes. *)
PromoteReceipt(i) ==
  /\ IsNext(i) /\ ~IsReview(i) /\ Work[i].receipt
  /\ \/ status[i] = "PROPOSED" /\ Promoted(i, "WAITING_EXTERNAL", i, {})
     \/ status[i] = "WAITING_EXTERNAL" /\ LeftAlone(i)
     \/ status[i] = "WAITING_EXTERNAL" /\ Promoted(i, "PASSED_ENGINEERING", i + 1, {i})
  /\ UNCHANGED withheld

(* The rest; research on markets and competitors that waits stays waiting. *)
KeepsWaiting(i) ==
  /\ Work[i].kind = "RESEARCH" /\ Work[i].lane \in {"MARKET", "COMPETITOR"}
  /\ status[i] = "WAITING_EXTERNAL"

PromoteWork(i) ==
  /\ IsNext(i) /\ ~IsReview(i) /\ ~Work[i].receipt
  /\ \/ KeepsWaiting(i) /\ LeftAlone(i)
     \/ /\ ~KeepsWaiting(i)
        /\ Promoted(i, IF Work[i].automatable THEN "READY" ELSE "BLOCKED_POLICY",
                    i + 1, {})
  /\ UNCHANGED withheld

(* _controller_semantic_evidence: what the checkpoint, the manifest and    *)
(* the receipts of the item amount to.  It is weak when the completion     *)
(* policy will refuse it.                                                  *)
SemanticEvidence == {"weak", "sound"}

(* _record_completion_evidence, for what a promotion or an execution       *)
(* passed.                                                                 *)
RecordEvidence(i) ==
  /\ pc \in {"promote", "run"} /\ i \in unrecorded
  /\ \E grade \in SemanticEvidence : evidence' = [evidence EXCEPT ![i] = grade]
  /\ unrecorded' = unrecorded \ {i}
  /\ Goto(pc)
  /\ UNCHANGED <<status, returns, journal, mainline, stage, lane, future, satisfied,
                 next, picked, raised>>

EndPromotion ==
  /\ pc = "promote" /\ unrecorded = {} /\ Promotable = {}
  /\ Goto(CASE stage = "first" -> "advance"
             [] stage = "advanced" -> "schedule"
             [] OTHER -> "save")
  /\ satisfied' = {} /\ next' = 1
  /\ UNCHANGED <<queue, journal, mainline, stage, lane, future, picked, unrecorded, raised>>

-----------------------------------------------------------------------------
(* _advance_completed_milestone and advance_milestone_state. *)

AllPassed == ItemsOf[active] # {} /\ ItemsOf[active] \subseteq Satisfied

(* The items whose evidence the milestone's completion contract asks for. *)
Required == ItemsOf[active] \cup Criteria[active]

(* The evidence is of the grade, the authorities and the correlated        *)
(* receipts that the item's own contract asks for.                         *)
Accepted(i) == evidence[i] = "sound"

(* Fault variant of Proven: any evidence of the milestone's own items. *)
ProvenAlone == \A i \in ItemsOf[active] : evidence[i] # "none"

(* The contract of the milestone finds no gap. *)
Proven == \A i \in Required : Accepted(i)

(* Nothing to advance, or gaps: a proposal is filed and the cycle goes on. *)
NoAdvance ==
  /\ pc = "advance"
  /\ ~AllPassed \/ ~Proven
  /\ Goto(IF stage = "first" THEN "schedule" ELSE "save")
  /\ UNCHANGED <<queue, journal, mainline, memory>>

(* Evidence that is refused outright, a receipt that exists already, and a *)
(* milestone without a successor are errors.                               *)
AdvanceRefused ==
  /\ pc = "advance" /\ AllPassed
  /\ ~Proven \/ active \in receipts \/ active = Last
  /\ Raise
  /\ UNCHANGED <<queue, journal, mainline>>

(* The four writes of an advance, in their order. *)
BeginAdvance ==
  /\ pc = "advance" /\ AllPassed /\ Proven
  /\ active \notin receipts /\ active < Last
  /\ txn' = active
  /\ Goto("receipt")
  /\ UNCHANGED <<queue, milestone, active, receipts, marker, mainline, memory>>

WriteReceipt ==
  /\ pc = "receipt"
  /\ receipts' = receipts \cup {txn}
  /\ Goto("state")
  /\ UNCHANGED <<queue, milestone, active, txn, marker, mainline, memory>>

WriteState ==
  /\ pc = "state"
  /\ milestone' = [milestone EXCEPT ![txn] = "COMPLETED", ![txn + 1] = "ACTIVE"]
  /\ active' = txn + 1
  /\ Goto("unlink")
  /\ UNCHANGED <<queue, txn, receipts, marker, mainline, memory>>

(* A replay continues with the cycle, an advance with the marker of M0 or  *)
(* with the promotion of the new milestone's work.                         *)
DropTransaction ==
  /\ pc = "unlink"
  /\ txn' = NoTxn
  /\ \/ /\ stage = "init"
        /\ Goto("align") /\ UNCHANGED memory
     \/ /\ stage # "init" /\ txn = 0
        /\ Goto("marker") /\ UNCHANGED memory
     \/ /\ stage # "init" /\ txn # 0
        /\ StartPromotion(status, {})
        /\ stage' = IF stage = "first" THEN "advanced" ELSE stage
  /\ UNCHANGED <<queue, milestone, active, receipts, marker, mainline>>

CreateMarker ==
  /\ pc = "marker"
  /\ marker' = TRUE
  /\ StartPromotion(status, {})
  /\ stage' = IF stage = "first" THEN "advanced" ELSE stage
  /\ UNCHANGED <<queue, milestone, active, txn, receipts, mainline>>

-----------------------------------------------------------------------------
(* The decision and its execution. *)

(* The rotation of the lanes is saved at once only if nothing is selected. *)
Schedule ==
  /\ pc = "schedule"
  /\ LET chosen == Pick(FALSE) \cup Pick(TRUE)
         hungry == {k \in 1..4 : EligibleIn(CoreLanes[k], TRUE) # {}}
         served == {k \in 1..4 : \E i \in Pick(TRUE) : Work[i].lane = CoreLanes[k]}
         counted == [k \in 1..4 |-> IF k \notin hungry \ served THEN 0
                                  ELSE IF tally[k] < Tallied THEN tally[k] + 1 ELSE tally[k]]
     IN  /\ picked' = chosen
         /\ lane' = Rotated(lane) /\ future' = {}
         /\ \/ /\ chosen = {}
               /\ Saved(Rotated(lane), counted)
               /\ pc' = "recover" /\ stage' = "init"
            \/ /\ chosen # {}
               /\ tally' = counted /\ pc' = "run"
               /\ UNCHANGED <<cursor, waited, stage>>
  /\ UNCHANGED <<queue, journal, mainline, satisfied, next, unrecorded, raised, crashes>>

Enqueue(i) ==
  /\ pc = "run" /\ i \in picked /\ status[i] = "READY"
  /\ status' = [status EXCEPT ![i] = "QUEUED"]
  /\ Goto("run")
  /\ UNCHANGED <<returns, evidence, journal, mainline, memory>>

Claim(i) ==
  /\ pc = "run" /\ i \in picked /\ status[i] = "QUEUED"
  /\ status' = [status EXCEPT ![i] = "RUNNING"]
  /\ Goto("run")
  /\ UNCHANGED <<returns, evidence, journal, mainline, memory>>

(* The results of an execution: it passes (mutating work is then on main), *)
(* is decided against, blocked, sent back within its budgets, or raises.   *)
(* Nothing here tells NATIVE_SUFFICIENT from REJECTED_VALUE, nor one kind  *)
(* of blocked work from another: one of each stands for both.              *)
Ended(i) ==
  /\ pc = "run" /\ i \in picked /\ status[i] = "RUNNING"
  /\ picked' = picked \ {i}
  /\ Goto("run")
  /\ UNCHANGED <<evidence, journal, stage, lane, future, satisfied, next>>

Passes(i) ==
  /\ Ended(i)
  /\ status' = [status EXCEPT ![i] = "PASSED_ENGINEERING"]
  /\ unrecorded' = unrecorded \cup {i}
  /\ behind' = (behind \/ Mutating(i))
  /\ withheld' = IF Mutating(i) THEN {} ELSE withheld
  /\ UNCHANGED <<returns, raised>>

Refused(i) ==
  /\ Ended(i)
  /\ \E s \in {"REJECTED_VALUE", "BLOCKED_TECHNICAL"} :
       status' = [status EXCEPT ![i] = s]
  /\ UNCHANGED <<returns, unrecorded, mainline, raised>>

SentBack(i) ==
  /\ Ended(i) /\ returns < MaxReturns
  /\ \/ status' = [status EXCEPT ![i] = "PAUSED_BACKEND"]
     \/ /\ Work[i].kind \in {"RESEARCH", "CONTROLLED_EXPERIMENT"}
        /\ status' = [status EXCEPT ![i] = "WAITING_EXTERNAL"]
  /\ returns' = returns + 1
  /\ UNCHANGED <<unrecorded, mainline, raised>>

Raises(i) ==
  /\ Ended(i)
  /\ raised' = TRUE
  /\ UNCHANGED <<status, returns, unrecorded, mainline>>

(* gather has returned. *)
Gathered ==
  /\ pc = "run" /\ picked = {} /\ unrecorded = {}
  /\ \/ raised /\ Raise
     \/ /\ ~raised /\ Goto("align") /\ stage' = "executed"
        /\ UNCHANGED <<lane, future, satisfied, next, picked, unrecorded, raised>>
  /\ UNCHANGED <<queue, journal, mainline>>

SaveState ==
  /\ pc = "save"
  /\ Saved(lane, tally)
  /\ pc' = "recover" /\ stage' = "init"
  /\ UNCHANGED <<queue, journal, mainline, lane, future, satisfied, next, picked,
                 unrecorded, raised, crashes>>

-----------------------------------------------------------------------------
Promotion ==
  \/ PromotePauses \/ EndPromotion
  \/ \E i \in Items : \/ ReviewUnavailable(i) \/ ReviewWaits(i) \/ ReviewDecided(i)
                      \/ PromoteReceipt(i) \/ PromoteWork(i) \/ RecordEvidence(i)

Advance ==
  NoAdvance \/ AdvanceRefused \/ BeginAdvance \/ WriteReceipt \/ WriteState
    \/ DropTransaction \/ CreateMarker

Execution ==
  \/ Schedule \/ Gathered \/ SaveState
  \/ \E i \in Items : \/ Enqueue(i) \/ Claim(i) \/ Passes(i) \/ Refused(i)
                      \/ SentBack(i) \/ Raises(i)

Process == Preflight \/ Recover \/ Align \/ Promotion \/ Advance \/ Execution

Next == Process \/ Crash \/ Install

Spec == Init /\ [][Next]_vars

(* The supervisor restarts the process, sessions end by their time limits, *)
(* and the runtime refresh installs what the handoff asks for.             *)
FairSpec == Spec /\ WF_vars(Process) /\ SF_vars(Install)

-----------------------------------------------------------------------------
(* The type of every variable. *)
TypeOK ==
  /\ status \in [Items -> WorkStatus]
  /\ returns \in 0..MaxReturns
  /\ evidence \in [Items -> {"none", "weak", "sound"}]
  /\ milestone \in [Milestones -> {"PROPOSED", "ACTIVE", "COMPLETED"}]
  /\ active \in Milestones
  /\ txn \in Milestones \cup {NoTxn}
  /\ receipts \subseteq Milestones
  /\ marker \in BOOLEAN /\ behind \in BOOLEAN /\ raised \in BOOLEAN
  /\ withheld \subseteq Items
  /\ cursor \in 1..4 /\ lane \in 1..4
  /\ pc \in Steps /\ stage \in Stages
  /\ future \subseteq Lanes
  /\ satisfied \subseteq Items /\ picked \subseteq Items /\ unrecorded \subseteq Items
  /\ next \in Nat /\ crashes \in 0..MaxCrashes
  /\ waited \in [1..4 -> 0..Tallied] /\ tally \in [1..4 -> 0..Tallied]

(* A milestone is completed by proof: when it has a receipt or is recorded *)
(* as COMPLETED, all its items have passed and every item its contract     *)
(* names has evidence the policy accepts, and that stays so                *)
(* (_advance_completed_milestone, advance_milestone_state).                *)
CompletedIsProven ==
  \A m \in Milestones :
    m \in receipts \/ milestone[m] = "COMPLETED" =>
      /\ ItemsOf[m] \subseteq Satisfied
      /\ \A i \in ItemsOf[m] \cup Criteria[m] : evidence[i] = "sound"

(* Whatever step the process fails at, the receipt, the runtime state, the *)
(* transaction and the migration marker agree: exactly one milestone is    *)
(* active, the ones before it are completed and have receipts, a receipt   *)
(* of the active one has its transaction pending (or "receipt is           *)
(* immutable" would stop every later advance), and the marker exists only  *)
(* when M0 is complete (advance_milestone_state,                           *)
(* reconcile_milestone_advance, run_startup_preflight).                    *)
AdvanceIsAtomic ==
  /\ \A m \in Milestones :
       milestone[m] = IF m < active THEN "COMPLETED"
                      ELSE IF m = active THEN "ACTIVE" ELSE "PROPOSED"
  /\ \A m \in Milestones : m < active => m \in receipts
  /\ \A m \in receipts : m < active \/ m = txn
  /\ marker => active > 0

(* Work is executed only in the scope of the active milestone, or in the   *)
(* next one where its policy opens the lane, and after everything it       *)
(* depends on has passed, also when the scope was computed earlier in the  *)
(* cycle or in a cycle that failed (schedule_cycle, _promote_ready).       *)
ScopeIsRespected ==
  \A i \in Items : status[i] \in {"QUEUED", "RUNNING"} =>
    /\ Work[i].deps \subseteq Satisfied
    /\ \/ Work[i].milestone = active
       \/ Work[i].milestone = active + 1 /\ Work[i].lane \in AllowFuture[active]

(* No lane starves: a core lane with eligible mutating work is passed over *)
(* by three decisions in a row at most, not counting those whose rotation  *)
(* a failed cycle did not save (lane_cursor in run_cycle).                 *)
LaneIsServed == \A k \in 1..4 : tally[k] <= 3

(* The scheduler keeps to its scope and starves no lane (schedule_cycle).  *)
ScheduleIsSound == TypeOK /\ ScopeIsRespected /\ LaneIsServed

(* A review the controller looks at in every cycle, and raises on.         *)
ReviewHeld ==
  \E r \in Items : /\ Work[r].kind = "MACHINE_POLICY_REVIEW"
                    /\ status[r] = "WAITING_EXTERNAL"

(* Work of the active milestone that is ready and whose lane is not closed *)
(* by the configuration is taken up, unless a review waits for external    *)
(* evidence; other than automatable work is never ready (schedule_cycle).  *)
ReadyIsServed ==
  \A i \in {j \in Items : Work[j].automatable} :
    (status[i] = "READY" /\ Work[i].milestone = active /\ Open(i))
      ~> (status[i] # "READY" \/ ReviewHeld)

(* README.md: missing external facts block only what depends on them, and  *)
(* do not stop unrelated lanes (waitingStatesDoNotBlockOtherLanes).  False *)
(* of the code: see ReviewWaits.                                           *)
WaitingStopsNoLane ==
  \A w, i \in Items :
    /\ Work[i].automatable /\ Work[i].lane # Work[w].lane /\ w \notin Work[i].deps
    => (/\ status[w] = "WAITING_EXTERNAL"
        /\ status[i] = "READY" /\ Work[i].milestone = active /\ Open(i))
       ~> (status[i] # "READY" \/ status[w] # "WAITING_EXTERNAL")
=============================================================================
